-------------------------- MODULE MCTaskLifecycle --------------------------
(***************************************************************************)
(* TLC instances of TaskLifecycle.                                         *)
(***************************************************************************)
EXTENDS TaskLifecycle, TLC

CONSTANTS t1, t2, t3

VideoAndAsync == t1 :> "video" @@ t2 :> "async"
OneOfEach == t1 :> "video" @@ t2 :> "suno" @@ t3 :> "realtime"

\* After the cut-off of legacy tasks.
Recent == [t \in Tasks |-> 1775000000]

Symmetry == Permutations(Pollers)

=============================================================================
