-------------------------------- MODULE Relay --------------------------------
(***************************************************************************)
(* The link between one forwarding task and its client: chat_completions   *)
(* after the admission and forward() of src/src/server.rs.                 *)
(*                                                                         *)
(* The task owns the ReleaseGuard and reads llama-server's response; the   *)
(* client-facing handler only relays what the task puts on a oneshot (the  *)
(* head) and on a bounded channel (the body chunks).  The client may read, *)
(* stop reading for good, or hang up, at any point.  Scheduling and the    *)
(* slot's preparation are in Broker; here they are the stage "upstream".   *)
(***************************************************************************)
EXTENDS Naturals, Sequences

CONSTANTS
  MaxChunks, \* bound on the chunks of a response body
  Capacity   \* FORWARD_CHANNEL_CHUNKS

ASSUME RelayAssumption ==
  /\ MaxChunks \in Nat
  /\ Capacity \in Nat \ {0}

VARIABLES
  stage,     \* where forward() is
  total,     \* chunks llama-server will send
  read,      \* chunks the task has read
  broke,     \* llama-server's response ended in an error
  guard,     \* the ReleaseGuard is alive
  link,      \* the task still has its sender: client is Some(tx)
  chan,      \* the channel: chunk numbers, or Err
  abandoned, \* the abandoned flag
  head,      \* what is on the head oneshot
  client,    \* what the client has seen
  got        \* chunks the client received

vars == <<stage, total, read, broke, guard, link, chan, abandoned, head, client, got>>
taskVars == <<stage, total, read, broke, guard>>
linkVars == <<link, chan, abandoned>>

Err == 0

Stage ==
  { "upstream",  \* in send_upstream
    "erring",    \* error head sent, returning
    "reading",   \* awaiting the next chunk of llama-server
    "sending",   \* awaiting room in the channel for the chunk just read
    "giving_up", \* set abandoned, about to drop the sender
    "drained",   \* left the loop
    "released",  \* dropped the guard
    "closed" }   \* ended

TypeOK ==
  /\ stage \in Stage
  /\ total \in 0 .. MaxChunks
  /\ read \in 0 .. total
  /\ broke \in BOOLEAN
  /\ guard \in BOOLEAN
  /\ link \in BOOLEAN
  /\ chan \in Seq(0 .. MaxChunks) /\ Len(chan) <= Capacity
  /\ abandoned \in BOOLEAN
  /\ head \in {"none", "ok", "error"}
  /\ client \in {"head", "body", "gone", "refused", "complete", "broken"}
  /\ got \in 0 .. total

Init ==
  /\ stage = "upstream"
  /\ total \in 0 .. MaxChunks
  /\ read = 0
  /\ broke = FALSE
  /\ guard = TRUE
  /\ link = TRUE
  /\ chan = << >>
  /\ abandoned = FALSE
  /\ head = "none"
  /\ client = "head"
  /\ got = 0

-----------------------------------------------------------------------------
\* The forwarding task.

\* send_upstream fails: the error goes out before the return drops the guard.
UpstreamError ==
  /\ stage = "upstream"
  /\ stage' = "erring"
  /\ head' = "error"
  /\ UNCHANGED <<total, read, broke, guard, linkVars, client, got>>

ReturnError ==
  /\ stage = "erring"
  /\ stage' = "closed"
  /\ guard' = FALSE
  /\ link' = FALSE
  /\ UNCHANGED <<total, read, broke, chan, abandoned, head, client, got>>

\* The head arrives; the sender is kept only if the client still wants it.
UpstreamHead ==
  /\ stage = "upstream"
  /\ stage' = "reading"
  /\ head' = "ok"
  /\ link' = (client # "gone")
  /\ UNCHANGED <<total, read, broke, guard, chan, abandoned, client, got>>

\* The next chunk, sent on if somebody may want it and dropped otherwise.
ReadChunk ==
  /\ stage = "reading" /\ read < total
  /\ read' = read + 1
  /\ stage' = IF link THEN "sending" ELSE "reading"
  /\ UNCHANGED <<total, broke, guard, linkVars, head, client, got>>

\* The stream ends, or fails (a reset, or no byte for the read timeout).
ReadEnd ==
  /\ stage = "reading" /\ read = total
  /\ stage' = "drained"
  /\ UNCHANGED <<total, read, broke, guard, linkVars, head, client, got>>

ReadError ==
  /\ stage = "reading"
  /\ broke' = TRUE
  /\ stage' = IF link THEN "sending" ELSE "drained"
  /\ UNCHANGED <<total, read, guard, linkVars, head, client, got>>

AfterSend == IF broke THEN "drained" ELSE "reading"

\* Faulty variant: the channel is unbounded.
SendOkUnbounded ==
  /\ stage = "sending" /\ client # "gone"
  /\ chan' = Append(chan, IF broke THEN Err ELSE read)
  /\ stage' = AfterSend
  /\ UNCHANGED <<total, read, broke, guard, link, abandoned, head, client, got>>

\* tx.send succeeds.
SendOk ==
  /\ stage = "sending" /\ client # "gone" /\ Len(chan) < Capacity
  /\ chan' = Append(chan, IF broke THEN Err ELSE read)
  /\ stage' = AfterSend
  /\ UNCHANGED <<total, read, broke, guard, link, abandoned, head, client, got>>

\* Faulty variant: the task stops reading when its client is gone.
SendFailsStops ==
  /\ stage = "sending" /\ client = "gone"
  /\ link' = FALSE
  /\ stage' = "drained"
  /\ UNCHANGED <<total, read, broke, guard, chan, abandoned, head, client, got>>

\* tx.send fails: the receiver is gone.
SendFails ==
  /\ stage = "sending" /\ client = "gone"
  /\ link' = FALSE
  /\ stage' = AfterSend
  /\ UNCHANGED <<total, read, broke, guard, chan, abandoned, head, client, got>>

\* Faulty variant: the sender is dropped before the flag is set.
SendTimesOutDropsFirst ==
  /\ stage = "sending" /\ client # "gone" /\ Len(chan) = Capacity
  /\ link' = FALSE
  /\ stage' = "giving_up"
  /\ UNCHANGED <<total, read, broke, guard, chan, abandoned, head, client, got>>

\* Faulty variant: a full channel is waited for without a bound.
SendNeverTimesOut ==
  /\ FALSE
  /\ UNCHANGED vars

\* client_send_timeout elapses on a full channel: set the flag ...
SendTimesOut ==
  /\ stage = "sending" /\ client # "gone" /\ Len(chan) = Capacity
  /\ abandoned' = TRUE
  /\ stage' = "giving_up"
  /\ UNCHANGED <<total, read, broke, guard, link, chan, head, client, got>>

\* ... and then drop the sender.
GiveUp ==
  /\ stage = "giving_up"
  /\ link' = FALSE
  /\ stage' = AfterSend
  /\ UNCHANGED <<total, read, broke, guard, chan, abandoned, head, client, got>>

\* Faulty variant: the channel is closed before the guard is dropped.
DropGuardLast ==
  /\ stage = "drained"
  /\ link' = FALSE
  /\ stage' = "released"
  /\ UNCHANGED <<total, read, broke, guard, chan, abandoned, head, client, got>>

\* drop(guard)
DropGuard ==
  /\ stage = "drained"
  /\ guard' = FALSE
  /\ stage' = "released"
  /\ UNCHANGED <<total, read, broke, linkVars, head, client, got>>

\* drop(client)
DropSender ==
  /\ stage = "released"
  /\ link' = FALSE
  /\ stage' = "closed"
  /\ UNCHANGED <<total, read, broke, guard, chan, abandoned, head, client, got>>

-----------------------------------------------------------------------------
\* The client, through chat_completions.

SeeHead ==
  /\ client = "head" /\ head # "none"
  /\ client' = IF head = "ok" THEN "body" ELSE "refused"
  /\ UNCHANGED <<taskVars, linkVars, head, got>>

Receive ==
  /\ client = "body" /\ chan # << >>
  /\ chan' = Tail(chan)
  /\ IF Head(chan) = Err
     THEN client' = "broken" /\ UNCHANGED got
     ELSE got' = got + 1 /\ UNCHANGED client
  /\ UNCHANGED <<taskVars, link, abandoned, head>>

\* The channel is empty and its sender dropped: the body ends, in an error
\* if the task had given up on this client.
SeeEnd ==
  /\ client = "body" /\ chan = << >> /\ ~link
  /\ client' = IF abandoned THEN "broken" ELSE "complete"
  /\ UNCHANGED <<taskVars, linkVars, head, got>>

\* The client hangs up; the handler goes, and with it both receivers.
HangUp ==
  /\ client \in {"head", "body"}
  /\ client' = "gone"
  /\ chan' = << >>
  /\ UNCHANGED <<taskVars, link, abandoned, head, got>>

TaskStep ==
  \/ UpstreamError
  \/ ReturnError
  \/ UpstreamHead
  \/ ReadChunk
  \/ ReadEnd
  \/ ReadError
  \/ SendOk
  \/ SendFails
  \/ SendTimesOut
  \/ GiveUp
  \/ DropGuard
  \/ DropSender

ClientStep ==
  \/ SeeHead
  \/ Receive
  \/ SeeEnd
  \/ HangUp

Next == TaskStep \/ ClientStep

Spec == Init /\ [][Next]_vars

\* The task runs, and every wait of it ends: for llama-server by its answer
\* or the read timeout, for the client by the send timeout.  Nothing is
\* assumed of the client.
FairSpec == Spec /\ WF_vars(TaskStep)

-----------------------------------------------------------------------------
\* A client that sees its response end as complete has all of it, however
\* slowly it read.
CompleteMeansWhole == client = "complete" => got = total /\ ~broke

\* The slot is not released before llama-server's response was read to its
\* end or failed, whether or not the client is still there.
GuardOutlivesUpstream ==
  ~guard => \/ head = "error"
            \/ head = "ok" /\ (read = total \/ broke)

\* The slot is free again by the time the client sees the complete end of the
\* body, so its next request does not queue behind this one.  After an error
\* the client may see the end first.
FreedBeforeEnd == client = "complete" => ~guard

\* Under FairSpec: no client, reading, stalled or gone, keeps the slot.
SlotIsReleased == guard ~> ~guard
=============================================================================
