---------------------------- MODULE Acquisition -----------------------------
(***************************************************************************)
(* One read of a master, call by call: IoctlSnapshotReader::readSnapshot   *)
(* (src/src/monitoring/ioctl_snapshot_reader.cpp) with the device it opens *)
(* (src/src/infrastructure/igh_master_device.cpp).                         *)
(*                                                                         *)
(* The master is asked for its link and the number of its slaves, then     *)
(* each slave by its position.  Between any two calls the bus can change,  *)
(* and each call can fail.  A call interrupted by a signal is repeated: no *)
(* step.  Texts of errors, names and the timestamp are left out.           *)
(***************************************************************************)
EXTENDS IoctlSnapshotReader

CONSTANTS
    Bus,        \* what can be connected: [link, slaves]
    MaxSlaves   \* max_slave_count, 65536 in the code

ASSUME AcquisitionAssumption ==
    /\ Bus \subseteq [link : BOOLEAN, slaves : Seq(RawSlave)]
    /\ MaxSlaves \in Nat

VARIABLES
    bus,        \* what the master sees now
    at,         \* the call that comes next, or how the read ended
    open,       \* whether the device holds a descriptor
    count,      \* raw_master.slave_count
    candidate,  \* the snapshot as far as it has been read
    lastAlias, relPosition,
    unmoved     \* history: positions whose alias did not change during the
                \* read, 0 for the link

progress == <<count, candidate, lastAlias, relPosition>>
reading == <<at, open, progress>>

Calls == {"open", "module", "master", "slave"}

Nothing == [link |-> FALSE, slaves |-> << >>]

AcquisitionInit ==
    /\ bus \in Bus /\ unmoved = {}
    /\ at = "idle" /\ open = FALSE
    /\ count = 0 /\ candidate = Nothing
    /\ lastAlias = 0 /\ relPosition = 0

-----------------------------------------------------------------------------
(* The bus.  One that is not being read is any when its next read begins.  *)

SameAt(b, c, i) ==
    IF i = 0 THEN b.link = c.link
    ELSE /\ i \in DOMAIN b.slaves \intersect DOMAIN c.slaves
         /\ b.slaves[i].alias = c.slaves[i].alias

Change ==
    /\ at \in Calls
    /\ bus' \in Bus \ {bus}
    /\ unmoved' = { i \in unmoved : SameAt(bus, bus', i) }
    /\ UNCHANGED reading

-----------------------------------------------------------------------------
(* The calls                                                               *)

(* Monitor::run starts every read with an empty snapshot.                  *)
Begin ==
    /\ at' = "open"
    /\ bus' \in Bus /\ unmoved' = {}
    /\ count' = 0 /\ candidate' = Nothing
    /\ lastAlias' = 0 /\ relPosition' = 0
    /\ UNCHANGED open

OpenDevice ==
    /\ at = "open"
    /\ open' = TRUE
    /\ at' = "module"
    /\ UNCHANGED <<bus, progress, unmoved>>

(* The version of the ioctl interface fits.                                *)
CheckModule ==
    /\ at = "module"
    /\ at' = "master"
    /\ UNCHANGED <<bus, open, progress, unmoved>>

AskMaster ==
    /\ at = "master"
    /\ Len(bus.slaves) <= MaxSlaves
    /\ count' = Len(bus.slaves)
    /\ candidate' = [candidate EXCEPT !.link = bus.link]
    /\ at' = "slave"
    /\ unmoved' = 0..Len(bus.slaves)
    /\ UNCHANGED <<bus, open, lastAlias, relPosition>>

SlavesRead == Len(candidate.slaves)

(* Faulty variant, for mutation checks only: the offset is not reset.      *)
OffsetNotReset(raw) == relPosition

(* The offset of a slave from the last one that has an alias.              *)
Offset(raw) == IF raw.alias # 0 THEN 0 ELSE relPosition

Identified(raw) ==
    [ id    |-> [ alias |-> IF raw.alias # 0 THEN raw.alias ELSE lastAlias,
                  rel   |-> Offset(raw) ],
      state |-> raw.state,
      error |-> raw.error ]

AskSlave ==
    /\ at = "slave" /\ SlavesRead < count
    /\ SlavesRead < Len(bus.slaves)
    /\ LET raw == bus.slaves[SlavesRead + 1]
           slave == Identified(raw)
       IN  /\ candidate' = [candidate EXCEPT !.slaves = Append(@, slave)]
           /\ lastAlias' = slave.id.alias
           /\ relPosition' = slave.id.rel + 1
    /\ UNCHANGED <<bus, at, open, count, unmoved>>

(* Faulty variant, for mutation checks only: only closed after a success.  *)
ReturnLeaks(outcome) ==
    /\ at' = outcome
    /\ open' = (outcome = "failed")
    /\ UNCHANGED <<bus, progress, unmoved>>

(* The device is closed when readSnapshot returns.                         *)
Return(outcome) ==
    /\ at' = outcome
    /\ open' = FALSE
    /\ UNCHANGED <<bus, progress, unmoved>>

Complete == at = "slave" /\ SlavesRead = count /\ Return("read")

(* A call fails, the versions differ, there are too many slaves, or the    *)
(* slave asked for is gone.                                                *)
Fail ==
    /\ at \in Calls
    /\ at = "slave" => SlavesRead < count
    /\ Return("failed")

Acquire ==
    OpenDevice \/ CheckModule \/ AskMaster \/ AskSlave \/ Complete \/ Fail

-----------------------------------------------------------------------------

(* Every variable has the type of what it models; a descriptor is held     *)
(* exactly while there are calls to make on it.                            *)
AcquisitionTypeOK ==
    /\ bus \in Bus
    /\ at \in Calls \union {"idle", "read", "failed"}
    /\ open = (at \in Calls \ {"open"})
    /\ count \in 0..MaxSlaves
    /\ candidate \in [link : BOOLEAN, slaves : Seq(Slave)]
    /\ SlavesRead <= count
    /\ at = "read" => SlavesRead = count
    /\ lastAlias \in Nat /\ relPosition \in Nat
    /\ unmoved \subseteq 0..count

(* Since the master was asked, the alias at i and those up to the one that *)
(* i counts from have not changed.                                         *)
IdentityUnmoved(i) ==
    \E j \in 1..i :
        /\ j..i \subseteq unmoved
        /\ j = 1 \/ bus.slaves[j].alias # 0

(* However the bus changes during a read, the snapshot has every slave     *)
(* that did not move where it is and under its identity, and the link if   *)
(* that did not change.  Hence a bus that does not change is read exactly  *)
(* (last_alias and relative_position in readSnapshot), and a torn read     *)
(* reports no loss of a slave that stayed in place.                        *)
UnmovedAreReadExactly ==
    at \in {"slave", "read"} =>
        /\ 0 \in unmoved => candidate.link = bus.link
        /\ \A i \in 1..SlavesRead :
             IdentityUnmoved(i) =>
                candidate.slaves[i].id = IdentityAt(bus.slaves, i)

=============================================================================
