------------------------- MODULE IoctlSnapshotReader ------------------------
(***************************************************************************)
(* What IoctlSnapshotReader::readSnapshot makes of a bus that does not     *)
(* change while it is read (src/src/monitoring/ioctl_snapshot_reader.cpp). *)
(* A bus is the sequence of its slaves, each with the alias stored in its  *)
(* EEPROM, 0 for none.                                                     *)
(***************************************************************************)
EXTENDS DiagTypes

RawSlave == [alias : Nat, state : AlState, error : BOOLEAN]

(* The last slave up to the i-th that has an alias.                        *)
LastNamed(bus, i) ==
    CHOOSE j \in 1..i :
        bus[j].alias # 0 /\ \A k \in j + 1..i : bus[k].alias = 0

(* The loop keeps the last nonzero alias and counts on from it.            *)
IdentityAt(bus, i) ==
    IF \E j \in 1..i : bus[j].alias # 0
    THEN [alias |-> bus[LastNamed(bus, i)].alias, rel |-> i - LastNamed(bus, i)]
    ELSE [alias |-> 0, rel |-> i - 1]

(* The slaves are added to an empty list (also: `\o' makes TLC evaluate    *)
(* the list once, not at each use).                                        *)
ReadSnapshot(ts, link, bus) ==
    [ ts     |-> ts,
      link   |-> link,
      slaves |-> << >> \o [ i \in 1..Len(bus) |->
                             [ id    |-> IdentityAt(bus, i),
                               state |-> bus[i].state,
                               error |-> bus[i].error ] ] ]

=============================================================================
