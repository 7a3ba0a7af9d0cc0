----------------------------- MODULE MCGpuProbe -----------------------------
(* Instance of GpuProbe for TLC. *)
EXTENDS GpuProbe

Gpu(total, used, lost) == [total |-> total, used |-> used, lost |-> lost]
Entry(kind, total, used) == [kind |-> kind, total |-> total, used |-> used]

\* Up to three GPUs, any of them lost.
MCGpus ==
  UNION {[1 .. n -> {Gpu(4, 1, FALSE), Gpu(8, 8, FALSE), Gpu(8, 0, TRUE)}] : n \in 0 .. 3}

\* A small card, a large one, equals, cards without a file, a connector of a
\* larger one, in the orders read_dir may list them.
MCListings ==
  { <<>>,
    <<Entry("card", 2, 1)>>,
    <<Entry("card", 9, 3), Entry("card", 2, 1)>>,
    <<Entry("card", 2, 1), Entry("card", 9, 3)>>,
    <<Entry("card", 9, 3), Entry("card", 9, 4)>>,
    <<Entry("card", 9, Unreadable), Entry("card", 2, 1)>>,
    <<Entry("card", Unreadable, 3), Entry("connector", 9, 3)>>,
    <<Entry("card", 2, 1), Entry("connector", 9, 3), Entry("render", 9, 3)>> }
=============================================================================
