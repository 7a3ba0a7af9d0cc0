----------------------------- MODULE RelayProofs -----------------------------
(***************************************************************************)
(* Proofs about the relay between a forwarding task and its client, for    *)
(* every length of the response and every capacity of the channel.         *)
(***************************************************************************)
EXTENDS Relay, SequenceTheorems, TLAPS

-----------------------------------------------------------------------------
\* The inductive invariant.

\* How far the task is determines what was answered, and the guard.
TaskShape ==
  /\ guard <=> (stage \notin {"released", "closed"})
  /\ (head = "none") <=> (stage = "upstream")
  /\ stage \in {"reading", "sending", "giving_up", "drained", "released"} => head = "ok"
  /\ stage = "erring" => head = "error"
  /\ head # "ok" => chan = << >> /\ got = 0 /\ read = 0 /\ ~broke
  /\ broke => stage \in {"sending", "giving_up", "drained", "released", "closed"}
  /\ stage = "sending" /\ ~broke => 0 < read

\* The task leaves the loop only at the end of the response.
ReadToTheEnd ==
  head = "ok" /\ stage \in {"drained", "released", "closed"} => read = total \/ broke

\* The task has its sender until it ends, unless the client is gone or was
\* given up.
SenderKept ==
  /\ stage \in {"upstream", "erring", "sending"} => link /\ ~abandoned
  /\ stage = "giving_up" => abandoned
  /\ stage = "closed" => ~link
  /\ ~link => stage = "closed" \/ abandoned \/ client = "gone"
  /\ abandoned /\ link => stage = "giving_up"

\* What the client saw agrees with what was answered.
ClientShape ==
  /\ client \in {"body", "complete", "broken"} => head = "ok"
  /\ client = "gone" => chan = << >>
  /\ client = "refused" => head = "error"
  /\ client = "complete" => stage = "closed" /\ chan = << >>
  /\ client = "broken" =>
       \/ abandoned /\ ~link /\ chan = << >>
       \/ broke /\ stage \notin {"sending", "giving_up"}

\* The stream's error was put on the channel and the client has not seen it.
ErrDue ==
  /\ broke /\ stage \notin {"sending", "giving_up"}
  /\ ~abandoned /\ client \in {"head", "body"}

\* The error is the last item of the channel, and is there exactly while due.
ErrIsLast ==
  /\ \A i \in 1 .. Len(chan) : chan[i] = Err => i = Len(chan) /\ ErrDue
  /\ ErrDue => chan # << >> /\ chan[Len(chan)] = Err

\* No chunk is lost on the way: every chunk read was received, is on the
\* channel or in the task's hands, as long as the client is there and was not
\* given up.  One given up has received no more than was read.
NothingLost ==
  client # "gone" =>
    IF abandoned
    THEN got + Len(chan) <= read
    ELSE got + Len(chan) + (IF stage = "sending" /\ ~broke THEN 1 ELSE 0)
           = read + (IF ErrDue THEN 1 ELSE 0)

IInv ==
  /\ TypeOK
  /\ TaskShape
  /\ ReadToTheEnd
  /\ SenderKept
  /\ ClientShape
  /\ ErrIsLast
  /\ NothingLost
  /\ CompleteMeansWhole

-----------------------------------------------------------------------------
\* Initial states satisfy the invariant.
LEMMA InvInit == Init => IInv
<1> SUFFICES ASSUME Init PROVE IInv
  OBVIOUS
<1>1. TypeOK
  <2>1. << >> \in Seq(0 .. MaxChunks) /\ Len(<< >>) = 0
    BY EmptySeq
  <2>2. chan \in Seq(0 .. MaxChunks) /\ Len(chan) <= Capacity
    BY <2>1, RelayAssumption DEF Init
  <2>3. total \in 0 .. MaxChunks /\ read \in 0 .. total /\ got \in 0 .. total
    BY RelayAssumption DEF Init
  <2> QED
    BY <2>2, <2>3 DEF Init, TypeOK, Stage
<1>2. TaskShape /\ ReadToTheEnd /\ SenderKept /\ ClientShape /\ CompleteMeansWhole
  BY DEF Init, TaskShape, ReadToTheEnd, SenderKept, ClientShape, CompleteMeansWhole
<1>3. ErrIsLast /\ NothingLost
  BY DEF Init, ErrIsLast, ErrDue, NothingLost
<1> QED
  BY <1>1, <1>2, <1>3 DEF IInv

\* A step of the task that leaves the channel alone keeps the invariant.
LEMMA TaskKeeps ==
  ASSUME IInv,
         \/ UpstreamError \/ ReturnError \/ UpstreamHead \/ ReadChunk \/ ReadEnd
         \/ ReadError \/ SendFails \/ SendTimesOut \/ GiveUp \/ DropGuard
         \/ DropSender
  PROVE  IInv'
<1> USE RelayAssumption DEF taskVars, linkVars, AfterSend, IInv, TypeOK, Stage, TaskShape,
                            ReadToTheEnd, SenderKept, ClientShape
<1>1. ASSUME UpstreamError PROVE IInv'
  <2>1. TypeOK' /\ TaskShape' /\ ReadToTheEnd'
    BY <1>1 DEF UpstreamError, CompleteMeansWhole
  <2>2. SenderKept' /\ ClientShape' /\ CompleteMeansWhole'
    BY <1>1 DEF UpstreamError, CompleteMeansWhole
  <2>3. ErrIsLast' /\ NothingLost'
    BY <1>1 DEF UpstreamError, ErrIsLast, ErrDue, NothingLost
  <2> QED
    BY <2>1, <2>2, <2>3 DEF IInv
<1>2. ASSUME ReturnError PROVE IInv'
  <2>1. TypeOK' /\ TaskShape' /\ ReadToTheEnd'
    BY <1>2 DEF ReturnError, CompleteMeansWhole
  <2>2. SenderKept' /\ ClientShape' /\ CompleteMeansWhole'
    BY <1>2 DEF ReturnError, CompleteMeansWhole
  <2>3. ErrIsLast' /\ NothingLost'
    BY <1>2 DEF ReturnError, ErrIsLast, ErrDue, NothingLost
  <2> QED
    BY <2>1, <2>2, <2>3 DEF IInv
<1>3. ASSUME UpstreamHead PROVE IInv'
  <2>1. TypeOK' /\ TaskShape' /\ ReadToTheEnd'
    BY <1>3 DEF UpstreamHead, CompleteMeansWhole
  <2>2. SenderKept' /\ ClientShape' /\ CompleteMeansWhole'
    BY <1>3 DEF UpstreamHead, CompleteMeansWhole
  <2>3. ErrIsLast' /\ NothingLost'
    BY <1>3 DEF UpstreamHead, ErrIsLast, ErrDue, NothingLost
  <2> QED
    BY <2>1, <2>2, <2>3 DEF IInv
<1>4. ASSUME ReadChunk PROVE IInv'
  <2>1. TypeOK' /\ TaskShape' /\ ReadToTheEnd'
    BY <1>4 DEF ReadChunk, CompleteMeansWhole
  <2>2. SenderKept' /\ ClientShape' /\ CompleteMeansWhole'
    BY <1>4 DEF ReadChunk, CompleteMeansWhole
  <2>3. ErrIsLast' /\ NothingLost'
    BY <1>4 DEF ReadChunk, ErrIsLast, ErrDue, NothingLost
  <2> QED
    BY <2>1, <2>2, <2>3 DEF IInv
<1>5. ASSUME ReadEnd PROVE IInv'
  <2>1. TypeOK' /\ TaskShape' /\ ReadToTheEnd'
    BY <1>5 DEF ReadEnd, CompleteMeansWhole
  <2>2. SenderKept' /\ ClientShape' /\ CompleteMeansWhole'
    BY <1>5 DEF ReadEnd, CompleteMeansWhole
  <2>3. ErrIsLast' /\ NothingLost'
    BY <1>5 DEF ReadEnd, ErrIsLast, ErrDue, NothingLost
  <2> QED
    BY <2>1, <2>2, <2>3 DEF IInv
<1>6. ASSUME ReadError PROVE IInv'
  <2>1. TypeOK' /\ TaskShape' /\ ReadToTheEnd'
    BY <1>6 DEF ReadError, CompleteMeansWhole
  <2>2. SenderKept' /\ ClientShape' /\ CompleteMeansWhole'
    BY <1>6 DEF ReadError, CompleteMeansWhole
  <2>3. ErrIsLast' /\ NothingLost'
    BY <1>6 DEF ReadError, ErrIsLast, ErrDue, NothingLost
  <2> QED
    BY <2>1, <2>2, <2>3 DEF IInv
<1>7. ASSUME SendFails PROVE IInv'
  <2>1. TypeOK' /\ TaskShape' /\ ReadToTheEnd'
    BY <1>7 DEF SendFails, CompleteMeansWhole
  <2>2. SenderKept' /\ ClientShape' /\ CompleteMeansWhole'
    BY <1>7 DEF SendFails, CompleteMeansWhole
  <2>3. ErrIsLast' /\ NothingLost'
    BY <1>7 DEF SendFails, ErrIsLast, ErrDue, NothingLost
  <2> QED
    BY <2>1, <2>2, <2>3 DEF IInv
<1>8. ASSUME SendTimesOut PROVE IInv'
  <2>1. TypeOK' /\ TaskShape' /\ ReadToTheEnd'
    BY <1>8 DEF SendTimesOut, CompleteMeansWhole
  <2>2. SenderKept' /\ ClientShape' /\ CompleteMeansWhole'
    BY <1>8 DEF SendTimesOut, CompleteMeansWhole
  <2>3. ErrIsLast' /\ NothingLost'
    BY <1>8 DEF SendTimesOut, ErrIsLast, ErrDue, NothingLost
  <2> QED
    BY <2>1, <2>2, <2>3 DEF IInv
<1>9. ASSUME GiveUp PROVE IInv'
  <2>1. TypeOK' /\ TaskShape' /\ ReadToTheEnd'
    BY <1>9 DEF GiveUp, CompleteMeansWhole
  <2>2. SenderKept' /\ ClientShape' /\ CompleteMeansWhole'
    BY <1>9 DEF GiveUp, CompleteMeansWhole
  <2>3. ErrIsLast' /\ NothingLost'
    BY <1>9 DEF GiveUp, ErrIsLast, ErrDue, NothingLost
  <2> QED
    BY <2>1, <2>2, <2>3 DEF IInv
<1>10. ASSUME DropGuard PROVE IInv'
  <2>1. TypeOK' /\ TaskShape' /\ ReadToTheEnd'
    BY <1>10 DEF DropGuard, CompleteMeansWhole
  <2>2. SenderKept' /\ ClientShape' /\ CompleteMeansWhole'
    BY <1>10 DEF DropGuard, CompleteMeansWhole
  <2>3. ErrIsLast' /\ NothingLost'
    BY <1>10 DEF DropGuard, ErrIsLast, ErrDue, NothingLost
  <2> QED
    BY <2>1, <2>2, <2>3 DEF IInv
<1>11. ASSUME DropSender PROVE IInv'
  <2>1. TypeOK' /\ TaskShape' /\ ReadToTheEnd'
    BY <1>11 DEF DropSender, CompleteMeansWhole
  <2>2. SenderKept' /\ ClientShape' /\ CompleteMeansWhole'
    BY <1>11 DEF DropSender, CompleteMeansWhole
  <2>3. ErrIsLast' /\ NothingLost'
    BY <1>11 DEF DropSender, ErrIsLast, ErrDue, NothingLost
  <2> QED
    BY <2>1, <2>2, <2>3 DEF IInv
<1> QED
  BY <1>1, <1>2, <1>3, <1>4, <1>5, <1>6, <1>7, <1>8, <1>9, <1>10, <1>11

\* A successful send keeps the invariant: it puts the chunk, or the error
\* after all chunks, at the end of a channel that has room.
LEMMA SendKeeps ==
  ASSUME IInv, SendOk
  PROVE  IInv'
<1> DEFINE item == IF broke THEN Err ELSE read
           n == Len(chan)
<1>1. /\ stage = "sending" /\ client # "gone" /\ n < Capacity
      /\ chan' = Append(chan, item)
      /\ stage' = IF broke THEN "drained" ELSE "reading"
      /\ UNCHANGED <<total, read, broke, guard, link, abandoned, head, client, got>>
  BY DEF SendOk, AfterSend
<1>2. /\ chan \in Seq(0 .. MaxChunks) /\ n \in Nat
      /\ item \in 0 .. MaxChunks
      /\ item = Err => broke
  BY <1>1, RelayAssumption DEF IInv, TypeOK, TaskShape, Err
<1>3. /\ chan' \in Seq(0 .. MaxChunks)
      /\ chan' # << >>
      /\ Len(chan') = n + 1
      /\ \A j \in 1 .. n : chan'[j] = chan[j]
      /\ chan'[n + 1] = item
  BY <1>1, <1>2, AppendProperties
<1>4. ~ErrDue /\ (ErrDue' => item = Err)
  BY <1>1 DEF ErrDue
<1>5. TypeOK'
  BY <1>1, <1>2, <1>3, RelayAssumption DEF IInv, TypeOK, Stage
<1>6. TaskShape' /\ ReadToTheEnd' /\ SenderKept' /\ ClientShape' /\ CompleteMeansWhole'
  BY <1>1 DEF IInv, TaskShape, ReadToTheEnd, SenderKept, ClientShape, CompleteMeansWhole
<1>7. item = Err => ErrDue'
  BY <1>1, <1>2 DEF IInv, TypeOK, TaskShape, SenderKept, ClientShape, ErrDue
<1>8. ErrIsLast'
  <2>1. \A j \in 1 .. n : chan[j] # Err
    BY <1>4 DEF IInv, ErrIsLast
  <2>2. \A j \in 1 .. Len(chan') : chan'[j] = Err => j = Len(chan') /\ ErrDue'
    BY <1>2, <1>3, <1>7, <2>1
  <2> QED
    BY <1>3, <1>4, <2>2 DEF ErrIsLast
<1>9. NothingLost'
  BY <1>1, <1>2, <1>3, <1>4, <1>7 DEF IInv, TypeOK, SenderKept, NothingLost
<1> QED
  BY <1>5, <1>6, <1>8, <1>9 DEF IInv

\* A receive keeps the invariant: it takes the oldest chunk, and meets the
\* error only after the last one.
LEMMA ReceiveKeeps ==
  ASSUME IInv, Receive
  PROVE  IInv'
<1> DEFINE n == Len(chan)
<1>1. /\ client = "body" /\ chan # << >>
      /\ chan' = Tail(chan)
      /\ UNCHANGED <<stage, total, read, broke, guard, link, abandoned, head>>
      /\ IF Head(chan) = Err THEN client' = "broken" /\ got' = got
                            ELSE got' = got + 1 /\ client' = client
  BY DEF Receive, taskVars
<1>2. chan \in Seq(0 .. MaxChunks)
  BY DEF IInv, TypeOK
<1>3. /\ n \in Nat \ {0}
      /\ chan' \in Seq(0 .. MaxChunks)
      /\ Len(chan') = n - 1
      /\ \A j \in 1 .. n - 1 : chan'[j] = chan[j + 1]
      /\ Head(chan) = chan[1]
  BY <1>1, <1>2, EmptySeq, HeadTailProperties
<1>4. chan' = << >> <=> n = 1
  BY <1>3, EmptySeq
<1>5. CASE Head(chan) = Err
  <2>0. n = 1 /\ ErrDue
    BY <1>3, <1>5 DEF IInv, ErrIsLast
  <2>1. n = 1 /\ ErrDue /\ ~ErrDue'
    BY <1>1, <1>5, <2>0 DEF ErrDue
  <2>2. TypeOK'
    BY <1>1, <1>3, <1>5, <2>1, RelayAssumption DEF IInv, TypeOK
  <2>3. TaskShape' /\ ReadToTheEnd' /\ SenderKept' /\ ClientShape' /\ CompleteMeansWhole'
    BY <1>1, <1>4, <1>5, <2>1 DEF IInv, TaskShape, ReadToTheEnd, SenderKept, ClientShape,
                                  CompleteMeansWhole, ErrDue
  <2>4. ErrIsLast'
    BY <1>3, <2>1 DEF ErrIsLast
  <2>5. NothingLost'
    BY <1>1, <1>3, <1>5, <2>1 DEF IInv, TypeOK, NothingLost, ErrDue
  <2> QED
    BY <2>2, <2>3, <2>4, <2>5 DEF IInv
<1>6. CASE Head(chan) # Err
  <2>1. ErrDue' <=> ErrDue
    BY <1>1, <1>6 DEF ErrDue
  <2>2. ErrDue => n > 1
    BY <1>3, <1>6 DEF IInv, ErrIsLast
  <2>3. got + 1 <= read
    BY <1>1, <1>3, <2>2 DEF IInv, TypeOK, NothingLost
  <2>4. TypeOK'
    BY <1>1, <1>3, <1>6, <2>3, RelayAssumption DEF IInv, TypeOK
  <2>5. TaskShape' /\ ReadToTheEnd' /\ SenderKept' /\ ClientShape' /\ CompleteMeansWhole'
    BY <1>1, <1>6 DEF IInv, TaskShape, ReadToTheEnd, SenderKept, ClientShape,
                      CompleteMeansWhole
  <2>6. ErrIsLast'
    <3>1. \A j \in 1 .. Len(chan') : chan'[j] = Err => j = Len(chan') /\ ErrDue'
      BY <1>3, <2>1 DEF IInv, ErrIsLast
    <3>2. ErrDue' => chan' # << >> /\ chan'[Len(chan')] = Err
      BY <1>3, <1>4, <2>1, <2>2 DEF IInv, ErrIsLast
    <3> QED
      BY <3>1, <3>2 DEF ErrIsLast
  <2>7. NothingLost'
    BY <1>1, <1>3, <1>6, <2>1 DEF IInv, TypeOK, NothingLost
  <2> QED
    BY <2>4, <2>5, <2>6, <2>7 DEF IInv
<1> QED
  BY <1>5, <1>6

\* The client's other steps keep the invariant; one that sees the body end
\* has emptied the channel of a task that is done or gave it up.
LEMMA ClientKeeps ==
  ASSUME IInv, SeeHead \/ SeeEnd \/ HangUp
  PROVE  IInv'
<1> USE DEF taskVars, linkVars, IInv, TaskShape, ReadToTheEnd, SenderKept, ClientShape
<1>1. ASSUME SeeHead PROVE IInv'
  <2>1. TypeOK' /\ TaskShape' /\ ReadToTheEnd' /\ SenderKept' /\ ClientShape'
    BY <1>1 DEF SeeHead, TypeOK
  <2>2. CompleteMeansWhole' /\ ErrIsLast' /\ NothingLost'
    BY <1>1 DEF SeeHead, TypeOK, CompleteMeansWhole, ErrIsLast, ErrDue, NothingLost
  <2> QED
    BY <2>1, <2>2
<1>2. ASSUME SeeEnd PROVE IInv'
  <2>0. Len(chan) = 0
    BY <1>2 DEF SeeEnd
  <2>1. ~abandoned => stage = "closed" /\ ~broke /\ got = total
    BY <1>2, <2>0 DEF SeeEnd, TypeOK, ErrIsLast, ErrDue, NothingLost
  <2>2. TypeOK' /\ TaskShape' /\ ReadToTheEnd' /\ SenderKept' /\ ClientShape'
    BY <1>2, <2>1 DEF SeeEnd, TypeOK
  <2>3. CompleteMeansWhole'
    BY <1>2, <2>1 DEF SeeEnd, CompleteMeansWhole
  <2>4. ErrIsLast' /\ NothingLost'
    BY <1>2, <2>0, <2>1 DEF SeeEnd, TypeOK, ErrIsLast, ErrDue, NothingLost
  <2> QED
    BY <2>2, <2>3, <2>4
<1>3. ASSUME HangUp PROVE IInv'
  <2>1. chan' \in Seq(0 .. MaxChunks) /\ Len(chan') = 0
    BY <1>3, EmptySeq DEF HangUp
  <2>2. TypeOK' /\ TaskShape' /\ ReadToTheEnd' /\ SenderKept' /\ ClientShape'
    BY <1>3, <2>1, RelayAssumption DEF HangUp, TypeOK
  <2>3. CompleteMeansWhole' /\ ErrIsLast' /\ NothingLost'
    BY <1>3, <2>1 DEF HangUp, CompleteMeansWhole, ErrIsLast, ErrDue, NothingLost
  <2> QED
    BY <2>2, <2>3
<1> QED
  BY <1>1, <1>2, <1>3

\* Every step keeps the invariant.
LEMMA InvStep == IInv /\ [Next]_vars => IInv'
<1> SUFFICES ASSUME IInv, [Next]_vars PROVE IInv'
  OBVIOUS
<1>1. CASE TaskStep
  BY <1>1, TaskKeeps, SendKeeps DEF TaskStep
<1>2. CASE ClientStep
  BY <1>2, ReceiveKeeps, ClientKeeps DEF ClientStep
<1>3. CASE UNCHANGED vars
  BY <1>3 DEF vars, IInv, TypeOK, TaskShape, ReadToTheEnd, SenderKept, ClientShape,
              CompleteMeansWhole, ErrIsLast, ErrDue, NothingLost
<1> QED
  BY <1>1, <1>2, <1>3 DEF Next

-----------------------------------------------------------------------------
\* The counters, flags and the channel of a relay stay within their types,
\* and the channel within its capacity.
THEOREM RelayTypeCorrect == Spec => []TypeOK
<1>1. IInv => TypeOK
  BY DEF IInv
<1> QED
  BY <1>1, InvInit, InvStep, PTL DEF Spec

\* A client that sees its response end as complete has received every chunk
\* llama-server sent, and llama-server ended it without an error.
THEOREM CompleteResponsesAreWhole == Spec => []CompleteMeansWhole
<1>1. IInv => CompleteMeansWhole
  BY DEF IInv
<1> QED
  BY <1>1, InvInit, InvStep, PTL DEF Spec

\* The slot's guard outlives llama-server's work for the request, whether or
\* not the client is still there.
THEOREM GuardsOutliveUpstream == Spec => []GuardOutlivesUpstream
<1>1. IInv => GuardOutlivesUpstream
  BY DEF IInv, TypeOK, TaskShape, ReadToTheEnd, GuardOutlivesUpstream
<1> QED
  BY <1>1, InvInit, InvStep, PTL DEF Spec

\* The slot is free again by the time the client sees a complete body end.
THEOREM SlotsAreFreedBeforeEnd == Spec => []FreedBeforeEnd
<1>1. IInv => FreedBeforeEnd
  BY DEF IInv, TaskShape, ClientShape, FreedBeforeEnd
<1> QED
  BY <1>1, InvInit, InvStep, PTL DEF Spec
=============================================================================
