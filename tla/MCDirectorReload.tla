------------------------- MODULE MCDirectorReload -------------------------
(* Small instances of DirectorReload: slave 1 distributes, slave 2 works,   *)
(* and slave 3, where there is one, has no workload and never reads its     *)
(* ring.                                                                    *)
EXTENDS DirectorReload

MCWorkers == {2}
MCDistributors == {1}
MCSource == [w \in {2} |-> 1]
===========================================================================
