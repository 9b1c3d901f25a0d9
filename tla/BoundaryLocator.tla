--------------------------- MODULE BoundaryLocator --------------------------
(***************************************************************************)
(* BoundaryLocator::locate (src/src/detection/boundary_locator.cpp): where *)
(* on the bus of the previous snapshot the first lost slave was, and where *)
(* the nearest slave before it that is still there is now.                 *)
(***************************************************************************)
EXTENDS DiagTypes

(* A FaultBoundary as it is constructed; -1 for last_alive means that the  *)
(* break is next to the master.                                            *)
FaultBoundary == [valid : BOOLEAN, alive : Int, lost : Int]

InvalidBoundary == [valid |-> FALSE, alive |-> -1, lost |-> -1]

StillThere(current, slave) == ContainsIdentity(current, slave.id)

(* The walk stops at the first slave it cannot identify or cannot find.    *)
FirstStop(previous, current) ==
    { i \in DOMAIN previous.slaves :
        /\ ~StillThere(current, previous.slaves[i])
        /\ \A j \in 1..i - 1 : StillThere(current, previous.slaves[j]) }

(* The nearest slave before the i-th that is still there.                  *)
NearestAlive(previous, current, i) ==
    { k \in 1..i - 1 :
        /\ StillThere(current, previous.slaves[k])
        /\ \A j \in k + 1..i - 1 : ~StillThere(current, previous.slaves[j]) }

(* Faulty variant, for mutation checks only: the position of last_alive is *)
(* where it was, not where it is now.                                      *)
LocateInPrevious(previous, current) ==
    LET stop == FirstStop(previous, current)
    IN  IF \E i \in stop : Valid(previous.slaves[i].id)
        THEN LET i == CHOOSE i \in stop : TRUE
             IN  [valid |-> TRUE, lost |-> i - 1, alive |-> i - 2]
        ELSE InvalidBoundary

Locate(previous, current) ==
    LET stop == FirstStop(previous, current)
    IN  IF \E i \in stop : Valid(previous.slaves[i].id)
        THEN LET i == CHOOSE i \in stop : TRUE
                 alive == NearestAlive(previous, current, i)
             IN  [ valid |-> TRUE,
                   lost  |-> i - 1,
                   alive |-> IF alive = {} THEN -1
                             ELSE PositionOf(current,
                                    previous.slaves[CHOOSE k \in alive : TRUE].id) ]
        ELSE InvalidBoundary

=============================================================================
