------------------------- MODULE MCRecoveryTracker --------------------------
(***************************************************************************)
(* A small instance of RecoveryTracker: the snapshots are those a read     *)
(* makes of buses with two aliased slaves, in either order, one that has   *)
(* no alias and is identified by the slave before it, if there is one, and *)
(* one that repeats an alias, so that two slaves cannot be told apart.     *)
(***************************************************************************)
EXTENDS RecoveryTracker, IoctlSnapshotReader

A(state) == [alias |-> 1, state |-> state, error |-> FALSE]
B == [alias |-> 2, state |-> "OP", error |-> FALSE]
U == [alias |-> 0, state |-> "OP", error |-> FALSE]

MCBuses ==
    { << >>, <<A("OP")>>, <<A("PREOP")>>, <<B>>, <<A("OP"), B>>,
      <<B, A("OP")>>, <<A("OP"), U>>, <<U, B>>, <<A("OP"), U, B>>,
      <<A("OP"), A("OP")>> }

MCSnapshot ==
    { ReadSnapshot(ts, link, bus) :
        ts \in 1..2, link \in BOOLEAN, bus \in MCBuses }

=============================================================================
