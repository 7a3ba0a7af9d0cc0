---------------------------- MODULE GpuProbeProofs ----------------------------
(***************************************************************************)
(* Proofs about one probe of the GPU's memory, for every host, every       *)
(* listing of sysfs, every poll deadline and every size of the pipe.       *)
(***************************************************************************)
EXTENDS GpuProbe, SequenceTheorems, TLAPS

Lines == INSTANCE FoldFacts WITH op <- AddLine, base <- NoVram
Cards == INSTANCE FoldFacts WITH op <- KeepLarger, base <- NoVram
Totals == INSTANCE FoldFacts WITH op <- AddTotal, base <- 0
Useds == INSTANCE FoldFacts WITH op <- AddUsed, base <- 0

-----------------------------------------------------------------------------
\* What the folds compute.

\* The sum over the lines of nvidia-smi runs over them from left to right.
LEMMA LinesRun ==
  \A n \in Nat : \A seq : DOMAIN seq = 1 .. n =>
    \E acc : Lines!Runs(acc, seq, n) /\ FoldLeft(AddLine, NoVram, seq) = acc[n]
<1>1. \A seq : FoldLeft(AddLine, NoVram, seq) = Lines!FoldLeft(AddLine, NoVram, seq)
  BY Zenon DEF FoldLeft, MapThenFoldSet, Max, Lines!FoldLeft, Lines!MapThenFoldSet, Lines!Max
<1> QED
  BY <1>1, Lines!FoldRuns, Zenon

\* So does the search for the largest card over the entries of sysfs,
LEMMA CardsRun ==
  \A n \in Nat : \A seq : DOMAIN seq = 1 .. n =>
    \E acc : Cards!Runs(acc, seq, n) /\ FoldLeft(KeepLarger, NoVram, seq) = acc[n]
<1>1. \A seq : FoldLeft(KeepLarger, NoVram, seq) = Cards!FoldLeft(KeepLarger, NoVram, seq)
  BY Zenon DEF FoldLeft, MapThenFoldSet, Max, Cards!FoldLeft, Cards!MapThenFoldSet, Cards!Max
<1> QED
  BY <1>1, Cards!FoldRuns, Zenon

\* and so do the sums of the GPUs' total
LEMMA TotalsRun ==
  \A n \in Nat : \A seq : DOMAIN seq = 1 .. n =>
    \E acc : Totals!Runs(acc, seq, n) /\ FoldLeft(AddTotal, 0, seq) = acc[n]
<1>1. \A seq : FoldLeft(AddTotal, 0, seq) = Totals!FoldLeft(AddTotal, 0, seq)
  BY Zenon DEF FoldLeft, MapThenFoldSet, Max, Totals!FoldLeft, Totals!MapThenFoldSet, Totals!Max
<1> QED
  BY <1>1, Totals!FoldRuns, Zenon

\* and used memory, which a whole answer is compared with.
LEMMA UsedsRun ==
  \A n \in Nat : \A seq : DOMAIN seq = 1 .. n =>
    \E acc : Useds!Runs(acc, seq, n) /\ FoldLeft(AddUsed, 0, seq) = acc[n]
<1>1. \A seq : FoldLeft(AddUsed, 0, seq) = Useds!FoldLeft(AddUsed, 0, seq)
  BY Zenon DEF FoldLeft, MapThenFoldSet, Max, Useds!FoldLeft, Useds!MapThenFoldSet, Useds!Max
<1> QED
  BY <1>1, Useds!FoldRuns, Zenon

\* A line for each GPU, and a blank one.
LEMMA OutputLines ==
  ASSUME NEW gs \in Seq(NvidiaGpu)
  PROVE  /\ Len(gs) \in Nat
         /\ DOMAIN Output(gs) = 1 .. Len(gs) + 1 /\ Len(Output(gs)) = Len(gs) + 1
         /\ \A i \in 1 .. Len(gs) :
              /\ gs[i] \in NvidiaGpu
              /\ Output(gs)[i] = IF gs[i].lost THEN Garbled ELSE Numbers(gs[i])
         /\ Output(gs)[Len(gs) + 1] = Blank
<1> DEFINE L == [i \in 1 .. Len(gs) |-> IF gs[i].lost THEN Garbled ELSE Numbers(gs[i])]
           T == {Garbled, Blank} \cup {Numbers(gs[i]) : i \in 1 .. Len(gs)}
<1>1. Len(gs) \in Nat /\ \A i \in 1 .. Len(gs) : gs[i] \in NvidiaGpu
  OBVIOUS
<1>2. L \in [1 .. Len(gs) -> T]
  OBVIOUS
<1>3. L \in Seq(T) /\ Len(L) = Len(gs) /\ Blank \in T
  <2>1. L \in Seq(T) /\ Blank \in T
    <3> HIDE DEF L, T
    <3>1. L \in Seq(T)
      BY <1>1, <1>2, SeqDef
    <3> QED
      BY <3>1 DEF T
  <2>2. DOMAIN L = 1 .. Len(gs)
    OBVIOUS
  <2> HIDE DEF L, T
  <2> QED
    BY <1>1, <2>1, <2>2, LenProperties
<1>4. Output(gs) = Append(L, Blank)
  BY DEF Output
<1>5. \A i \in 1 .. Len(gs) : L[i] = IF gs[i].lost THEN Garbled ELSE Numbers(gs[i])
  OBVIOUS
<1> HIDE DEF L, T
<1>6. /\ Append(L, Blank) \in Seq(T)
      /\ Len(Append(L, Blank)) = Len(gs) + 1
      /\ \A i \in 1 .. Len(gs) : Append(L, Blank)[i] = L[i]
      /\ Append(L, Blank)[Len(gs) + 1] = Blank
  BY <1>3, AppendProperties
<1>7. DOMAIN Append(L, Blank) = 1 .. Len(gs) + 1
  BY <1>6, LenProperties
<1> QED
  BY <1>1, <1>4, <1>5, <1>6, <1>7

\* parse_nvidia_smi never passes a part of the GPUs for the whole: it answers
\* with the sum over all of them, or not at all.
LEMMA ParseIsWhole ==
  ASSUME NEW gs \in Seq(NvidiaGpu)
  PROVE  /\ ParseNvidiaSmi(Output(gs)) \in Vram \cup {NoVram}
         /\ ParseNvidiaSmi(Output(gs)) \in {NoVram} \cup WholeHost(gs)
<1> DEFINE n == Len(gs)
           out == Output(gs)
           Sums(t, u) == [total_bytes |-> MIB * t, used_bytes |-> MIB * u]
<1>0. /\ n \in Nat /\ DOMAIN out = 1 .. n + 1 /\ Len(out) = n + 1
      /\ \A i \in 1 .. n : /\ gs[i] \in NvidiaGpu
                           /\ out[i] = IF gs[i].lost THEN Garbled ELSE Numbers(gs[i])
      /\ out[n + 1] = Blank
  BY OutputLines
<1>1. DOMAIN gs = 1 .. n
  BY LenProperties
<1>2. CASE \E i \in 1 .. n : gs[i].lost
  <2>1. PICK i \in 1 .. n : gs[i].lost
    BY <1>2
  <2>2. i \in 1 .. Len(out) /\ out[i].kind = "garbled"
    BY <1>0, <2>1 DEF Garbled
  <2>3. ParseNvidiaSmi(out) = NoVram
    BY <2>2 DEF ParseNvidiaSmi
  <2> QED
    BY <2>3
<1>3. CASE \A i \in 1 .. n : ~gs[i].lost
  <2>1. \A i \in 1 .. n : /\ gs[i].total \in Nat /\ gs[i].used \in Nat
                          /\ out[i].kind = "numbers"
                          /\ out[i].total = gs[i].total /\ out[i].used = gs[i].used
    <3> SUFFICES ASSUME NEW i \in 1 .. n
                 PROVE  /\ gs[i].total \in Nat /\ gs[i].used \in Nat
                        /\ out[i].kind = "numbers"
                        /\ out[i].total = gs[i].total /\ out[i].used = gs[i].used
      OBVIOUS
    <3>1. gs[i].total \in Nat /\ gs[i].used \in Nat
      BY <1>0 DEF NvidiaGpu
    <3>2. out[i] = Numbers(gs[i])
      BY <1>0, <1>3
    <3> HIDE DEF out
    <3> QED
      BY <3>1, <3>2 DEF Numbers
  <2>2. out[n + 1].kind = "blank"
    BY <1>0 DEF Blank
  <2>3. PICK acc : Lines!Runs(acc, out, n + 1) /\ FoldLeft(AddLine, NoVram, out) = acc[n + 1]
    <3>1. n + 1 \in Nat
      BY <1>0
    <3> HIDE DEF n, out
    <3> QED
      BY <1>0, <3>1, LinesRun
  <2>4. PICK t : Totals!Runs(t, gs, n) /\ FoldLeft(AddTotal, 0, gs) = t[n]
    BY <1>0, <1>1, TotalsRun
  <2>5. PICK u : Useds!Runs(u, gs, n) /\ FoldLeft(AddUsed, 0, gs) = u[n]
    BY <1>0, <1>1, UsedsRun
  <2>6. ParseNvidiaSmi(out) = acc[n + 1]
    <3>1. \A i \in 1 .. Len(out) : out[i].kind # "garbled"
      <4>1. \A i \in 1 .. Len(out) : i \in 1 .. n \/ i = n + 1
        BY <1>0
      <4> QED
        BY <2>1, <2>2, <4>1
    <3> QED
      BY <2>3, <3>1 DEF ParseNvidiaSmi
  <2> HIDE DEF n, out
  <2> DEFINE S == {i \in Nat : i <= n =>
                     /\ t[i] \in Nat /\ u[i] \in Nat
                     /\ acc[i] = IF i = 0 THEN NoVram ELSE Sums(t[i], u[i])}
  <2>7. 0 \in S
    BY <2>3, <2>4, <2>5 DEF Lines!Runs, Totals!Runs, Useds!Runs
  <2>8. ASSUME NEW i \in Nat, i \in S PROVE i + 1 \in S
    <3> SUFFICES ASSUME i + 1 <= n
                 PROVE  /\ t[i + 1] \in Nat /\ u[i + 1] \in Nat
                        /\ acc[i + 1] = Sums(t[i + 1], u[i + 1])
      OBVIOUS
    <3>1. i + 1 \in 1 .. n /\ i + 1 \in 1 .. n + 1 /\ (i + 1) - 1 = i /\ i <= n
      BY <1>0
    <3>2. /\ t[i] \in Nat /\ u[i] \in Nat
          /\ acc[i] = IF i = 0 THEN NoVram ELSE Sums(t[i], u[i])
      BY <2>8, <3>1
    <3>3. /\ t[i + 1] = t[i] + gs[i + 1].total
          /\ u[i + 1] = u[i] + gs[i + 1].used
          /\ acc[i + 1] = AddLine(acc[i], out[i + 1])
      BY <2>3, <2>4, <2>5, <3>1 DEF Lines!Runs, Totals!Runs, Useds!Runs, AddTotal, AddUsed
    <3>4. /\ gs[i + 1].total \in Nat /\ gs[i + 1].used \in Nat
          /\ acc[i + 1] =
               [total_bytes |-> (IF acc[i] = NoVram THEN 0 ELSE acc[i].total_bytes)
                                  + gs[i + 1].total * MIB,
                used_bytes |-> (IF acc[i] = NoVram THEN 0 ELSE acc[i].used_bytes)
                                  + gs[i + 1].used * MIB]
      BY <2>1, <3>1, <3>3 DEF AddLine
    <3>5. /\ (IF acc[i] = NoVram THEN 0 ELSE acc[i].total_bytes) = MIB * t[i]
          /\ (IF acc[i] = NoVram THEN 0 ELSE acc[i].used_bytes) = MIB * u[i]
      <4>1. CASE i = 0
        BY <2>4, <2>5, <3>2, <4>1 DEF Totals!Runs, Useds!Runs, MIB
      <4>2. CASE i # 0
        <5>1. Sums(t[i], u[i]) \in Vram
          BY <3>2 DEF Vram, MIB
        <5> QED
          BY <3>2, <4>2, <5>1, GpuProbeAssumption
      <4> QED
        BY <4>1, <4>2
    <3>6. /\ MIB * t[i] + gs[i + 1].total * MIB = MIB * t[i + 1]
          /\ MIB * u[i] + gs[i + 1].used * MIB = MIB * u[i + 1]
      <4>1. \A a, b \in Nat : MIB * a + b * MIB = MIB * (a + b)
        BY DEF MIB
      <4> QED
        BY <3>2, <3>3, <3>4, <4>1
    <3> QED
      BY <3>2, <3>3, <3>4, <3>5, <3>6
  <2>9. n \in S
    <3> HIDE DEF S
    <3> QED
      BY <1>0, <2>7, <2>8, Lines!SetInduction
  <2>10. acc[n + 1] = acc[n]
    <3>1. n + 1 \in 1 .. n + 1 /\ (n + 1) - 1 = n
      BY <1>0
    <3> QED
      BY <2>2, <2>3, <3>1 DEF Lines!Runs, AddLine
  <2>11. CASE n = 0
    <3>1. acc[n] = NoVram
      BY <1>0, <2>9, <2>11
    <3> QED
      BY <2>6, <2>10, <3>1 DEF out
  <2>12. CASE n # 0
    <3>1. /\ t[n] \in Nat /\ u[n] \in Nat
          /\ ParseNvidiaSmi(out) = Sums(t[n], u[n])
      BY <1>0, <2>6, <2>9, <2>10, <2>12
    <3>2. gs # <<>>
      BY <2>12, EmptySeq DEF n
    <3>3. Sums(t[n], u[n]) \in Vram
      BY <3>1 DEF Vram, MIB
    <3>4. WholeHost(gs) = {Sums(t[n], u[n])}
      BY <1>3, <2>4, <2>5, <3>2 DEF WholeHost, n
    <3> QED
      BY <3>1, <3>3, <3>4 DEF out
  <2> QED
    BY <2>11, <2>12 DEF out
<1> QED
  BY <1>2, <1>3

\* amd picks a readable card with the most memory, if there is one.
LEMMA AmdIsLargest ==
  ASSUME NEW listing \in Seq(DrmEntry)
  PROVE  /\ Amd(listing) \in Vram \cup {NoVram}
         /\ Amd(listing) \in LargestCards(listing)
<1> DEFINE n == Len(listing)
           Seen(i) == {k \in 1 .. i : IsCard(listing[k])}
           Best(i, a) == \E j \in Seen(i) :
                           /\ a = CardVram(listing[j])
                           /\ \A k \in Seen(i) : listing[k].total <= listing[j].total
<1>1. n \in Nat /\ DOMAIN listing = 1 .. n /\ \A i \in 1 .. n : listing[i] \in DrmEntry
  BY LenProperties
<1>2. PICK acc : Cards!Runs(acc, listing, n) /\ Amd(listing) = acc[n]
  BY <1>1, CardsRun DEF Amd
<1>3. \A j \in 1 .. n : IsCard(listing[j]) =>
        /\ listing[j].total \in Nat
        /\ CardVram(listing[j]) \in Vram
        /\ CardVram(listing[j]) # NoVram
        /\ CardVram(listing[j]).total_bytes = listing[j].total
  BY <1>1, GpuProbeAssumption DEF IsCard, CardVram, DrmEntry, Vram
<1> HIDE DEF n
<1> DEFINE S == {i \in Nat : i <= n =>
                   IF Seen(i) = {} THEN acc[i] = NoVram ELSE Best(i, acc[i])}
<1>4. 0 \in S
  <2>1. Seen(0) = {} /\ acc[0] = NoVram
    BY <1>2 DEF Cards!Runs
  <2> QED
    BY <2>1
<1>5. ASSUME NEW i \in Nat, i \in S PROVE i + 1 \in S
  <2> SUFFICES ASSUME i + 1 <= n
               PROVE  IF Seen(i + 1) = {} THEN acc[i + 1] = NoVram ELSE Best(i + 1, acc[i + 1])
    OBVIOUS
  <2>1. i + 1 \in 1 .. n /\ (i + 1) - 1 = i /\ i <= n
    BY <1>1
  <2>2. acc[i + 1] = KeepLarger(acc[i], listing[i + 1])
    BY <1>2, <2>1 DEF Cards!Runs
  <2>3. IF Seen(i) = {} THEN acc[i] = NoVram ELSE Best(i, acc[i])
    BY <1>5, <2>1
  <2>4. \A k \in Seen(i + 1) : k \in Seen(i) \/ k = i + 1
    OBVIOUS
  <2>5. Seen(i) \subseteq Seen(i + 1) /\ Seen(i + 1) \subseteq 1 .. n
    BY <1>1, <2>1
  <2>6. \A k \in Seen(i + 1) : IsCard(listing[k]) /\ listing[k].total \in Nat
    BY <1>3, <2>5
  <2>7. i + 1 \in Seen(i + 1) <=> IsCard(listing[i + 1])
    OBVIOUS
  <2>8. CASE ~IsCard(listing[i + 1])
    <3>1. acc[i + 1] = acc[i] /\ Seen(i + 1) = Seen(i)
      BY <2>2, <2>4, <2>5, <2>7, <2>8 DEF KeepLarger
    <3> HIDE DEF Seen
    <3> QED
      BY <2>3, <3>1
  <2>9. CASE IsCard(listing[i + 1]) /\ Seen(i) = {}
    <3>1. acc[i + 1] = CardVram(listing[i + 1])
      BY <2>2, <2>3, <2>9 DEF KeepLarger
    <3>2. Seen(i + 1) = {i + 1}
      BY <2>4, <2>7, <2>9
    <3> HIDE DEF Seen
    <3> QED
      BY <2>6, <3>1, <3>2
  <2>10. CASE IsCard(listing[i + 1]) /\ Seen(i) # {}
    <3>1. PICK j \in Seen(i) : /\ acc[i] = CardVram(listing[j])
                               /\ \A k \in Seen(i) : listing[k].total <= listing[j].total
      BY <2>3, <2>10
    <3>2. /\ acc[i] # NoVram /\ acc[i].total_bytes = listing[j].total
          /\ j \in Seen(i + 1) /\ listing[j].total \in Nat
      BY <1>3, <2>5, <2>6, <3>1
    <3>3. i + 1 \in Seen(i + 1) /\ listing[i + 1].total \in Nat
      BY <2>6, <2>7, <2>10
    <3> HIDE DEF Seen
    <3>4. CASE listing[i + 1].total >= listing[j].total
      <4>1. acc[i + 1] = CardVram(listing[i + 1])
        BY <2>2, <2>10, <3>2, <3>4 DEF KeepLarger
      <4>2. \A k \in Seen(i + 1) : listing[k].total <= listing[i + 1].total
        BY <2>4, <2>6, <3>1, <3>2, <3>3, <3>4
      <4> QED
        BY <3>3, <4>1, <4>2
    <3>5. CASE ~(listing[i + 1].total >= listing[j].total)
      <4>1. acc[i + 1] = CardVram(listing[j])
        BY <2>2, <3>1, <3>2, <3>5 DEF KeepLarger
      <4>2. \A k \in Seen(i + 1) : listing[k].total <= listing[j].total
        BY <2>4, <2>6, <3>1, <3>2, <3>3, <3>5
      <4> QED
        BY <3>2, <4>1, <4>2
    <3> QED
      BY <3>4, <3>5
  <2> QED
    BY <2>8, <2>9, <2>10
<1>6. IF Seen(n) = {} THEN acc[n] = NoVram ELSE Best(n, acc[n])
  <2>1. n \in S
    <3> HIDE DEF S
    <3> QED
      BY <1>1, <1>4, <1>5, Cards!SetInduction
  <2> QED
    BY <1>1, <2>1
<1>7. ReadableCards(listing) = Seen(n) /\ Seen(n) \subseteq 1 .. n
  BY DEF ReadableCards, n
<1>8. CASE Seen(n) = {}
  BY <1>2, <1>6, <1>7, <1>8 DEF LargestCards
<1>9. CASE Seen(n) # {}
  <2>1. PICK j \in Seen(n) : /\ acc[n] = CardVram(listing[j])
                             /\ \A k \in Seen(n) : listing[k].total <= listing[j].total
    BY <1>6, <1>9
  <2>2. acc[n] \in Vram
    BY <1>3, <1>7, <2>1
  <2> HIDE DEF Seen
  <2>3. acc[n] \in LargestCards(listing)
    BY <1>7, <1>9, <2>1 DEF LargestCards
  <2> QED
    BY <1>2, <2>2, <2>3
<1> QED
  BY <1>8, <1>9

-----------------------------------------------------------------------------
\* The inductive invariant.

\* Where vram() is determines what became of the child.
ChildMatchesCall ==
  /\ pc = "start" => child = "none"
  /\ pc \in {"poll", "wait"} => child \in {"running", "exited"}
  /\ pc \in {"read", "amd", "returned"} => child \in {"none", "reaped"}

\* nvidia-smi runs, and sysfs is read, only for the sources that ask for it.
SourceMatchesCall ==
  /\ pc \in {"poll", "wait", "read"} => source \in {"Nvidia", "Auto"}
  /\ pc = "amd" => source \in {"Amd", "Auto"}

IInv == TypeOK /\ ChildMatchesCall /\ SourceMatchesCall /\ VramIsWhole

\* A starting call has no child and no answer.
LEMMA InvInit == Init => IInv
<1> SUFFICES ASSUME Init PROVE IInv
  OBVIOUS
<1>1. TypeOK
  <2>1. 0 \in 0 .. PollRounds
    BY GpuProbeAssumption
  <2> QED
    BY <2>1 DEF Init, TypeOK
<1>2. ChildMatchesCall /\ SourceMatchesCall /\ VramIsWhole
  BY DEF Init, ChildMatchesCall, SourceMatchesCall, VramIsWhole
<1> QED
  BY <1>1, <1>2 DEF IInv

\* nvidia() without an answer: sysfs is next, or the call ends with none.
LEMMA NoAnswerKeeps ==
  ASSUME IInv, NoAnswer, source \in {"Nvidia", "Auto"}, UNCHANGED <<source, gpus, drm>>
  PROVE  /\ pc' \in {"amd", "returned"} /\ result' \in Vram \cup {NoVram}
         /\ pc' = "amd" => source = "Auto"
         /\ VramIsWhole'
<1>1. \/ pc' = "amd" /\ source = "Auto" /\ result' = result
      \/ pc' = "returned" /\ source = "Nvidia" /\ result' = NoVram
  BY DEF NoAnswer, Return
<1>2. CASE pc' = "amd"
  BY <1>1, <1>2 DEF IInv, TypeOK, VramIsWhole
<1>3. CASE pc' = "returned" /\ source = "Nvidia" /\ result' = NoVram
  BY <1>3 DEF VramIsWhole
<1> QED
  BY <1>1, <1>2, <1>3

\* Every step keeps the invariant: the call leaves the poll loop only with
\* the child reaped, or killed and still to be waited for.
LEMMA InvStep == IInv /\ [Next]_vars => IInv'
<1> SUFFICES ASSUME IInv, [Next]_vars PROVE IInv'
  OBVIOUS
<1> USE DEF ChildMatchesCall, SourceMatchesCall
<1>0. TypeOK /\ ChildMatchesCall /\ SourceMatchesCall /\ VramIsWhole
  BY DEF IInv
<1>1. CASE Start
  <2>1. UNCHANGED <<source, gpus, drm, exit_ok, wedged, rounds>> /\ pc = "start"
    BY <1>1 DEF Start
  <2>2. CASE source = "None" /\ Return(NoVram) /\ UNCHANGED child
    <3>1. VramIsWhole'
      BY <2>1, <2>2 DEF Return, VramIsWhole
    <3> QED
      BY <1>0, <2>1, <2>2, <3>1 DEF IInv, TypeOK, Return
  <2>3. CASE pc' = "amd" /\ source = "Amd" /\ UNCHANGED <<child, result>>
    BY <1>0, <2>1, <2>3 DEF IInv, TypeOK, VramIsWhole
  <2>4. CASE /\ source \in {"Nvidia", "Auto"} /\ child' = "running" /\ pc' = "poll"
             /\ UNCHANGED result
    BY <1>0, <2>1, <2>4 DEF IInv, TypeOK, VramIsWhole
  <2>5. CASE source \in {"Nvidia", "Auto"} /\ NoAnswer /\ UNCHANGED child
    <3>1. /\ pc' \in {"amd", "returned"} /\ result' \in Vram \cup {NoVram}
          /\ pc' = "amd" => source = "Auto"
          /\ VramIsWhole'
      BY <2>1, <2>5, NoAnswerKeeps
    <3> QED
      BY <1>0, <2>1, <2>5, <3>1 DEF IInv, TypeOK
  <2> QED
    BY <1>1, <2>2, <2>3, <2>4, <2>5 DEF Start
<1>2. CASE PollExited \/ Reap
  <2>1. /\ UNCHANGED <<source, gpus, drm, exit_ok, wedged, rounds>>
        /\ child' = "reaped" /\ source \in {"Nvidia", "Auto"}
        /\ NoAnswer \/ (pc' = "read" /\ UNCHANGED result)
    BY <1>0, <1>2 DEF PollExited, Reap
  <2>2. CASE NoAnswer
    <3>1. /\ pc' \in {"amd", "returned"} /\ result' \in Vram \cup {NoVram}
          /\ pc' = "amd" => source = "Auto"
          /\ VramIsWhole'
      BY <2>1, <2>2, NoAnswerKeeps
    <3> QED
      BY <1>0, <2>1, <3>1 DEF IInv, TypeOK
  <2>3. CASE pc' = "read" /\ UNCHANGED result
    BY <1>0, <2>1, <2>3 DEF IInv, TypeOK, VramIsWhole
  <2> QED
    BY <2>1, <2>2, <2>3
<1>3. CASE PollAgain
  BY <1>0, <1>3, GpuProbeAssumption DEF PollAgain, IInv, TypeOK, VramIsWhole
<1>4. CASE DeadlinePasses \/ TryWaitFails
  BY <1>0, <1>4 DEF DeadlinePasses, TryWaitFails, Kill, IInv, TypeOK, VramIsWhole
<1>5. CASE ReadOutput
  <2> DEFINE v == ParseNvidiaSmi(Output(gpus))
  <2>1. v \in Vram \cup {NoVram} /\ v \in {NoVram} \cup WholeHost(gpus)
    BY <1>0, GpuProbeAssumption, ParseIsWhole DEF TypeOK
  <2>2. /\ UNCHANGED <<source, gpus, drm, child, exit_ok, wedged, rounds>>
        /\ pc = "read" /\ source \in {"Nvidia", "Auto"}
        /\ NoAnswer \/ (v # NoVram /\ Return(v))
    BY <1>0, <1>5 DEF ReadOutput
  <2> HIDE DEF v
  <2>3. /\ pc' \in {"amd", "returned"} /\ result' \in Vram \cup {NoVram}
        /\ pc' = "amd" => source = "Auto"
        /\ VramIsWhole'
    <3>1. CASE NoAnswer
      BY <2>2, <3>1, NoAnswerKeeps
    <3>2. CASE v # NoVram /\ Return(v)
      BY <2>1, <2>2, <3>2 DEF Return, VramIsWhole
    <3> QED
      BY <2>2, <3>1, <3>2
  <2> QED
    BY <1>0, <2>2, <2>3 DEF IInv, TypeOK
<1>6. CASE ReadAmd
  <2>1. Amd(drm) \in Vram \cup {NoVram} /\ Amd(drm) \in LargestCards(drm)
    BY <1>0, GpuProbeAssumption, AmdIsLargest DEF TypeOK
  <2>2. /\ UNCHANGED <<source, gpus, drm, child, exit_ok, wedged, rounds>>
        /\ pc = "amd" /\ source \in {"Amd", "Auto"}
        /\ pc' = "returned" /\ result' = Amd(drm)
    BY <1>0, <1>6 DEF ReadAmd, Return
  <2>3. VramIsWhole'
    BY <2>1, <2>2 DEF VramIsWhole
  <2> QED
    BY <1>0, <2>1, <2>2, <2>3 DEF IInv, TypeOK
<1>7. CASE ChildExits \/ ChildDies \/ DriverChanges
  BY <1>0, <1>7 DEF ChildExits, ChildDies, DriverChanges, IInv, TypeOK, VramIsWhole
<1>8. CASE UNCHANGED vars
  BY <1>0, <1>8 DEF vars, IInv, TypeOK, VramIsWhole
<1> QED
  BY <1>1, <1>2, <1>3, <1>4, <1>5, <1>6, <1>7, <1>8 DEF Next, ProbeStep

-----------------------------------------------------------------------------
\* The call's state stays well formed: an answer is a pair of byte counts, and
\* the poll loop never goes past its deadline (TypeOK).
THEOREM GpuProbeTypeCorrect == Spec => []TypeOK
<1>1. IInv => TypeOK
  BY DEF IInv
<1> QED
  BY <1>1, InvInit, InvStep, PTL DEF Spec

\* No process outlives the call: nvidia-smi was never started, or it was
\* reaped before vram() returned, killed at the deadline or not.
THEOREM NoChildrenLeftBehind == Spec => []NoChildLeftBehind
<1>1. IInv => NoChildLeftBehind
  BY DEF IInv, ChildMatchesCall, NoChildLeftBehind
<1> QED
  BY <1>1, InvInit, InvStep, PTL DEF Spec

\* For every number of GPUs and every listing of sysfs, vram() answers with
\* the sum over all NVIDIA GPUs or with the largest readable AMD card, never
\* with a part of the memory (VramIsWhole).
THEOREM AnswersAreWhole == Spec => []VramIsWhole
<1>1. IInv => VramIsWhole
  BY DEF IInv
<1> QED
  BY <1>1, InvInit, InvStep, PTL DEF Spec
=============================================================================
