------------------------------ MODULE MCMonitor -----------------------------
(***************************************************************************)
(* An instance of Monitor for TLC: two masters, on whose buses two slaves  *)
(* with an alias and some without are connected in several orders, on one  *)
(* of them too many.                                                       *)
(***************************************************************************)
EXTENDS Monitor

MCMasters == <<0, 1>>

Drive(alias) == [alias |-> alias, state |-> "OP", error |-> FALSE]

A == Drive(1)
B == Drive(2)
U == Drive(0)

MCBus ==
    { [link |-> s # << >>, slaves |-> s] :
        s \in { << >>, <<A, B>>, <<B, U>>, <<A, U, U>>, <<A, U, B>>,
                <<U, B, A>>, <<A, U, B, U>> } }

=============================================================================
