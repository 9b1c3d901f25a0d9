---------------------------- MODULE MCPortErrors ----------------------------
(***************************************************************************)
(* An instance of PortErrors for TLC: a slave with an alias and one        *)
(* without, of the same product, in either order.                          *)
(***************************************************************************)
EXTENDS PortErrors

CONSTANTS A, U

MCDevice == {A, U}

MCAliasOf == [d \in MCDevice |-> IF d = A THEN 1 ELSE 0]

MCNameOf == [d \in MCDevice |-> "drive"]

MCBus == { << >>, <<A>>, <<A, U>>, <<U, A>> }

=============================================================================
