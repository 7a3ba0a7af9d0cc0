------------------------------- MODULE GpuProbe -------------------------------
(***************************************************************************)
(* One call of SystemGpuProbe::vram, src/src/gpu.rs: run nvidia-smi as a   *)
(* child process under a deadline and sum what it prints, or else read the *)
(* AMD card with the most memory from sysfs.                               *)
(*                                                                         *)
(* The GPUs of the host, the child process and sysfs are external.  A GPU  *)
(* that fell off the bus makes nvidia-smi print a line without numbers for *)
(* it; a wedged driver keeps the child in the kernel, where not even a     *)
(* kill ends it until the driver recovers; and a child whose output does   *)
(* not fit the pipe cannot exit, since its output is read only afterwards. *)
(*                                                                         *)
(* Time is counted in rounds of the poll loop.                             *)
(***************************************************************************)
EXTENDS Integers, SequencesExt

CONSTANTS
  Gpus,        \* lists of NVIDIA GPUs a host may have, as nvidia-smi sees them
  Listings,    \* listings of /sys/class/drm
  NoVram,      \* the answer None
  Unreadable,  \* a sysfs file that is missing or not a number
  PollRounds,  \* NVIDIA_SMI_TIMEOUT, in rounds of POLL
  PipeLines    \* lines of output that fit the pipe

Vram == [total_bytes : Nat, used_bytes : Nat]

\* A GPU as nvidia-smi sees it, and an entry of /sys/class/drm with its files.
NvidiaGpu == [total : Nat, used : Nat, lost : BOOLEAN]
DrmEntry == [kind : STRING, total : Nat \cup {Unreadable}, used : Nat \cup {Unreadable}]

ASSUME GpuProbeAssumption ==
  /\ PollRounds \in Nat /\ PipeLines \in Nat
  /\ NoVram \notin Vram
  /\ \A gs \in Gpus : gs \in Seq(NvidiaGpu)
  /\ \A listing \in Listings : listing \in Seq(DrmEntry)

VARIABLES
  source,  \* self.source
  gpus,    \* the NVIDIA GPUs of the host
  drm,     \* what read_dir(drm_root) lists
  pc,      \* where vram() is
  child,   \* the nvidia-smi process
  exit_ok, \* its exit status was success
  wedged,  \* the driver does not let it go
  rounds,  \* rounds of the poll loop so far
  result   \* what vram() returned

vars == <<source, gpus, drm, pc, child, exit_ok, wedged, rounds, result>>

MIB == 1024 * 1024

VramSource == {"Auto", "Nvidia", "Amd", "None"}

TypeOK ==
  /\ source \in VramSource
  /\ gpus \in Gpus /\ drm \in Listings
  /\ pc \in {"start", "poll", "wait", "read", "amd", "returned"}
  /\ child \in {"none", "running", "exited", "reaped"}
  /\ exit_ok \in BOOLEAN /\ wedged \in BOOLEAN
  /\ rounds \in 0 .. PollRounds
  /\ result \in Vram \cup {NoVram}

Init ==
  /\ source \in VramSource
  /\ gpus \in Gpus
  /\ drm \in Listings
  /\ pc = "start"
  /\ child = "none"
  /\ exit_ok = FALSE
  /\ wedged = FALSE
  /\ rounds = 0
  /\ result = NoVram

-----------------------------------------------------------------------------
\* What nvidia-smi prints for the GPUs gs: a line for each, and a blank one.
Blank == [kind |-> "blank"]
Garbled == [kind |-> "garbled"]
Numbers(gpu) == [kind |-> "numbers", total |-> gpu.total, used |-> gpu.used]

Output(gs) ==
  Append([i \in 1 .. Len(gs) |-> IF gs[i].lost THEN Garbled ELSE Numbers(gs[i])], Blank)

\* One round of parse_nvidia_smi's loop over the lines that are not blank.
AddLine(vram, line) ==
  IF line.kind = "blank" THEN vram
  ELSE [total_bytes |-> (IF vram = NoVram THEN 0 ELSE vram.total_bytes) + line.total * MIB,
        used_bytes |-> (IF vram = NoVram THEN 0 ELSE vram.used_bytes) + line.used * MIB]

\* Faulty variant: lines that do not parse are skipped.
ParseSkippingGarbled(out) ==
  FoldLeft(AddLine, NoVram, SelectSeq(out, LAMBDA line : line.kind # "garbled"))

\* parse_nvidia_smi: the sum over the lines; one that does not parse ends it
\* without an answer.
ParseNvidiaSmi(out) ==
  IF \E i \in 1 .. Len(out) : out[i].kind = "garbled"
  THEN NoVram
  ELSE FoldLeft(AddLine, NoVram, out)

IsCard(entry) == entry.kind = "card" /\ entry.total # Unreadable /\ entry.used # Unreadable

CardVram(entry) == [total_bytes |-> entry.total, used_bytes |-> entry.used]

\* The larger of the card found so far and entry, the later among equals.
KeepLarger(vram, entry) ==
  IF IsCard(entry) /\ (vram = NoVram \/ entry.total >= vram.total_bytes)
  THEN CardVram(entry)
  ELSE vram

\* amd(drm_root): of the entries that are cards, not connectors, and have
\* both files, the one with the most memory.
Amd(listing) == FoldLeft(KeepLarger, NoVram, listing)

-----------------------------------------------------------------------------
\* vram() returns v.
Return(v) == pc' = "returned" /\ result' = v

\* nvidia() ends without an answer: Auto turns to sysfs.
NoAnswer ==
  IF source = "Auto" THEN pc' = "amd" /\ UNCHANGED result ELSE Return(NoVram)

\* The match on the source, up to the spawn of nvidia-smi, which fails where
\* it is not installed.
Start ==
  /\ pc = "start"
  /\ \/ source = "None" /\ Return(NoVram) /\ UNCHANGED child
     \/ source = "Amd" /\ pc' = "amd" /\ UNCHANGED <<child, result>>
     \/ /\ source \in {"Nvidia", "Auto"}
        /\ \/ child' = "running" /\ pc' = "poll" /\ UNCHANGED result
           \/ NoAnswer /\ UNCHANGED child
  /\ UNCHANGED <<source, gpus, drm, exit_ok, wedged, rounds>>

\* try_wait finds that the child has exited, and reaps it.
PollExited ==
  /\ pc = "poll" /\ child = "exited"
  /\ child' = "reaped"
  /\ IF exit_ok THEN pc' = "read" /\ UNCHANGED result ELSE NoAnswer
  /\ UNCHANGED <<source, gpus, drm, exit_ok, wedged, rounds>>

\* Faulty variant: the loop sleeps whenever the child is still running.
PollAgainAnyway ==
  /\ pc = "poll" /\ child = "running"
  /\ rounds' = rounds + 1
  /\ UNCHANGED <<source, gpus, drm, pc, child, exit_ok, wedged, result>>

\* try_wait finds it running before the deadline: sleep a round.
PollAgain ==
  /\ pc = "poll" /\ child = "running" /\ rounds < PollRounds
  /\ rounds' = rounds + 1
  /\ UNCHANGED <<source, gpus, drm, pc, child, exit_ok, wedged, result>>

Kill ==
  /\ pc' = "wait"
  /\ UNCHANGED <<source, gpus, drm, child, exit_ok, wedged, rounds, result>>

\* Faulty variant: the comparison with the deadline can never fail.
DeadlineNeverPasses == pc = "poll" /\ child = "running" /\ rounds > PollRounds /\ Kill

\* try_wait finds it running past the deadline: kill it.
DeadlinePasses == pc = "poll" /\ child = "running" /\ rounds = PollRounds /\ Kill

\* try_wait itself fails: kill the child, running or not.
TryWaitFails == pc = "poll" /\ child \in {"running", "exited"} /\ Kill

\* Faulty variant: the killed child is not waited for.
ReapNoWait ==
  /\ pc = "wait"
  /\ NoAnswer
  /\ UNCHANGED <<source, gpus, drm, child, exit_ok, wedged, rounds>>

\* The blocking wait() for the killed child returns.  The results of kill and
\* wait are ignored: after a kill that failed the child runs on until it ends
\* by itself, and wait only fails when there is no child left to reap.
Reap ==
  /\ pc = "wait" /\ child = "exited"
  /\ child' = "reaped"
  /\ NoAnswer
  /\ UNCHANGED <<source, gpus, drm, exit_ok, wedged, rounds>>

\* The output is read, now that the child is gone, and parsed; or the read
\* fails.
ReadOutput ==
  /\ pc = "read"
  /\ \/ LET vram == ParseNvidiaSmi(Output(gpus))
        IN  IF vram = NoVram THEN NoAnswer ELSE Return(vram)
     \/ NoAnswer
  /\ UNCHANGED <<source, gpus, drm, child, exit_ok, wedged, rounds>>

ReadAmd ==
  /\ pc = "amd"
  /\ Return(Amd(drm))
  /\ UNCHANGED <<source, gpus, drm, child, exit_ok, wedged, rounds>>

ProbeStep ==
  \/ Start
  \/ PollExited
  \/ PollAgain
  \/ DeadlinePasses
  \/ Reap
  \/ ReadOutput
  \/ ReadAmd

-----------------------------------------------------------------------------
\* The environment.

\* nvidia-smi ends by itself, once all its output is in the pipe.
ChildExits ==
  /\ child = "running" /\ ~wedged
  /\ Len(Output(gpus)) <= PipeLines
  /\ child' = "exited"
  /\ exit_ok' \in BOOLEAN
  /\ UNCHANGED <<source, gpus, drm, pc, wedged, rounds, result>>

\* The kill takes effect; it need not, since kill may fail.
ChildDies ==
  /\ pc = "wait" /\ child = "running" /\ ~wedged
  /\ child' = "exited"
  /\ exit_ok' = FALSE
  /\ UNCHANGED <<source, gpus, drm, pc, wedged, rounds, result>>

\* The driver wedges under the child, or recovers.
DriverChanges ==
  /\ child = "running"
  /\ wedged' = ~wedged
  /\ UNCHANGED <<source, gpus, drm, pc, child, exit_ok, rounds, result>>

Next == ProbeStep \/ TryWaitFails \/ ChildExits \/ ChildDies \/ DriverChanges

Spec == Init /\ [][Next]_vars

\* The thread runs, and the kill succeeds and takes effect unless the driver
\* holds the child.  nvidia-smi need not end by itself and the driver need not
\* recover.
FairSpec == Spec /\ WF_vars(ProbeStep) /\ WF_vars(ChildDies)

-----------------------------------------------------------------------------
\* Properties.

\* No process outlives the call: whatever happened to nvidia-smi, and whoever
\* answered in the end, it was reaped before vram() returned, so that polls
\* do not pile up zombies or hung children.
NoChildLeftBehind == pc = "returned" => child \in {"none", "reaped"}

AddTotal(sum, gpu) == sum + gpu.total
AddUsed(sum, gpu) == sum + gpu.used

\* The memory of all the GPUs gs, if nvidia-smi can see it.
WholeHost(gs) ==
  IF gs = <<>> \/ \E i \in 1 .. Len(gs) : gs[i].lost THEN {}
  ELSE {[total_bytes |-> MIB * FoldLeft(AddTotal, 0, gs),
         used_bytes |-> MIB * FoldLeft(AddUsed, 0, gs)]}

\* The AMD cards whose memory can be read, and of these the largest.
ReadableCards(listing) == {i \in 1 .. Len(listing) : IsCard(listing[i])}

LargestCards(listing) ==
  LET cards == ReadableCards(listing)
  IN  IF cards = {} THEN {NoVram}
      ELSE {CardVram(listing[i]) :
              i \in {j \in cards : \A k \in cards : listing[k].total <= listing[j].total}}

\* An answer is the whole truth: the sum over every NVIDIA GPU of the host,
\* never a part of it because some GPU fell off the bus or the child was
\* killed, or else the largest readable AMD card; Auto answers nothing only
\* when no AMD card can be read either.
VramIsWhole ==
  pc = "returned" =>
    CASE source = "None" -> result = NoVram
      [] source = "Nvidia" -> result \in {NoVram} \cup WholeHost(gpus)
      [] source = "Amd" -> result \in LargestCards(drm)
      [] source = "Auto" -> result \in WholeHost(gpus) \cup LargestCards(drm)

\* Under FairSpec: the call returns, although nvidia-smi hangs or its output
\* never fits the pipe, unless the driver holds the child past its kill.
ReturnsUnlessWedged == pc = "start" ~> pc = "returned" \/ wedged
=============================================================================
