------------------------------ MODULE Blackbox ------------------------------
(***************************************************************************)
(* The class Blackbox (src/src/recording/blackbox.cpp): a deque that holds *)
(* the newest Capacity snapshots until an event triggers it, then grows by *)
(* PostFaultCapacity further snapshots and stops for the life of the       *)
(* object.  The object is a record and its member functions are operators  *)
(* on it, because the daemon runs several of them in one handler           *)
(* (FaultRecorder).  Snapshots and events are whatever the caller passes.  *)
(***************************************************************************)
EXTENDS Naturals, Sequences

CONSTANTS
    Capacity,            \* snapshots kept before a fault
    PostFaultCapacity,   \* snapshots recorded after it
    NoEvent              \* an empty std::optional<FaultEvent>

(* The constructor throws on a zero capacity.                              *)
ASSUME CapacityAssumption ==
    /\ Capacity \in Nat \ {0}
    /\ PostFaultCapacity \in Nat \ {0}

BlackboxState == {"RECORDING", "POST_FAULT_RECORDING", "SAVING"}

NewBlackbox ==
    [ state    |-> "RECORDING",
      buffer   |-> << >>,
      trigger  |-> NoEvent,
      recorded |-> 0 ]

-----------------------------------------------------------------------------
(* Faulty variants of the definitions below, for mutation checks only.     *)

RolledAboveCapacity(b, s) == [b EXCEPT !.buffer = Append(@, s)]

PostFaultOneMore(b, s) ==
    [b EXCEPT !.buffer   = Append(@, s),
              !.recorded = @ + 1,
              !.state    = IF b.recorded >= PostFaultCapacity
                           THEN "SAVING" ELSE @]

TriggeredAgain(b, e) ==
    IF b.state # "SAVING"
    THEN [b EXCEPT !.trigger = e, !.state = "POST_FAULT_RECORDING"]
    ELSE b

-----------------------------------------------------------------------------

(* push while RECORDING: the oldest snapshot makes room for the new one.   *)
Rolled(b, s) ==
    LET grown == Append(b.buffer, s)
    IN  [b EXCEPT !.buffer =
            IF Len(grown) > Capacity THEN Tail(grown) ELSE grown]

(* push after the fault: the last snapshot asked for ends the recording.   *)
PostFault(b, s) ==
    [b EXCEPT !.buffer   = Append(@, s),
              !.recorded = @ + 1,
              !.state    = IF b.recorded + 1 >= PostFaultCapacity
                           THEN "SAVING" ELSE @]

Pushed(b, s) ==
    CASE b.state = "RECORDING"            -> Rolled(b, s)
      [] b.state = "POST_FAULT_RECORDING" -> PostFault(b, s)
      [] b.state = "SAVING"               -> b

(* trigger: only the first event counts, for the life of the object.       *)
Triggered(b, e) ==
    IF b.state = "RECORDING"
    THEN [b EXCEPT !.trigger = e, !.state = "POST_FAULT_RECORDING"]
    ELSE b

=============================================================================
