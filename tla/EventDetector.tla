---------------------------- MODULE EventDetector ---------------------------
(***************************************************************************)
(* EventDetector::process (src/src/detection/event_detector.cpp): the      *)
(* events that tell one snapshot from the one before it.                   *)
(***************************************************************************)
EXTENDS DiagTypes

EventType ==
    { "MASTER_LINK_DOWN", "MASTER_LINK_UP", "SLAVE_COUNT_CHANGED",
      "SLAVE_LOST", "SLAVE_STATE_CHANGED", "PORT_INVALID_FRAME_INCREASED",
      "PORT_RX_ERROR_INCREASED", "PORT_FORWARDED_RX_ERROR_INCREASED",
      "PORT_LOST_LINK_INCREASED" }

(* An event about the master or the bus has position -1 and no identity.   *)
NoIdentity == [alias |-> -1, rel |-> -1]

BusEvent(type, ts, old, new) ==
    [ type |-> type, ts |-> ts, position |-> -1, id |-> NoIdentity,
      old |-> old, new |-> new ]

LinkEvents(previous, current) ==
    CASE previous.link /\ ~current.link ->
            { BusEvent("MASTER_LINK_DOWN", current.ts, 1, 0) }
      [] ~previous.link /\ current.link ->
            { BusEvent("MASTER_LINK_UP", current.ts, 0, 1) }
      [] previous.link = current.link -> {}

CountEvents(previous, current) ==
    IF SlaveCount(previous) = SlaveCount(current) THEN {}
    ELSE { BusEvent("SLAVE_COUNT_CHANGED", current.ts,
                    SlaveCount(previous), SlaveCount(current)) }

(* One event for every slave with a valid identity that is not there now,  *)
(* at the position it had.                                                 *)
LostEvents(previous, current) ==
    { [ type |-> "SLAVE_LOST", ts |-> current.ts, position |-> i - 1,
        id |-> previous.slaves[i].id, old |-> 1, new |-> 0 ] :
        i \in { j \in DOMAIN previous.slaves :
                    /\ Valid(previous.slaves[j].id)
                    /\ ~ContainsIdentity(current, previous.slaves[j].id) } }

(* One event for every slave that was there before in another state, at    *)
(* the position it has now.                                                *)
StateEvents(previous, current) ==
    { [ type |-> "SLAVE_STATE_CHANGED", ts |-> current.ts, position |-> i - 1,
        id |-> current.slaves[i].id,
        old |-> previous.slaves[PositionOf(previous, current.slaves[i].id) + 1].state,
        new |-> current.slaves[i].state ] :
        i \in { j \in DOMAIN current.slaves :
                    LET at == PositionOf(previous, current.slaves[j].id)
                    IN  /\ at >= 0
                        /\ previous.slaves[at + 1].state # current.slaves[j].state } }

(* The first snapshot is only a baseline.                                  *)
Detected(previous, current) ==
    IF previous = NoSnapshot THEN {}
    ELSE LinkEvents(previous, current) \union CountEvents(previous, current)
            \union LostEvents(previous, current)
            \union StateEvents(previous, current)

=============================================================================
