---------------------------- MODULE MonitorProofs ---------------------------
(***************************************************************************)
(* Theorems of Monitor and of the reads it makes, for any buses, masters,  *)
(* interval and bounds.                                                    *)
(***************************************************************************)
EXTENDS Monitor, SnapshotProofs, TLAPS

(* What the members of Bus are.                                            *)
LEMMA BusFields ==
    ASSUME NEW b \in Bus
    PROVE  /\ b.link \in BOOLEAN
           /\ b.slaves \in Seq(RawSlave)
           /\ Len(b.slaves) \in Nat
           /\ DOMAIN b.slaves = 1..Len(b.slaves)
           /\ \A i \in DOMAIN b.slaves :
                /\ b.slaves[i].alias \in Nat
                /\ b.slaves[i].state \in AlState
                /\ b.slaves[i].error \in BOOLEAN
<1>1. b.link \in BOOLEAN /\ b.slaves \in Seq(RawSlave)
  BY AcquisitionAssumption
<1>2. \A i \in DOMAIN b.slaves : b.slaves[i] \in RawSlave
  BY <1>1
<1>3. QED
  BY <1>1, <1>2 DEF RawSlave

-----------------------------------------------------------------------------
(* Types                                                                   *)

(* Until the master has been asked, nothing has been read.                 *)
NothingYet ==
    at \in {"idle", "open", "module", "master"} =>
        /\ count = 0 /\ candidate.slaves = << >>
        /\ lastAlias = 0 /\ relPosition = 0

TypeInv == TypeOK /\ NothingYet

(* A read begins with everything empty.                                    *)
LEMMA BeginTypes ==
    ASSUME AcquisitionTypeOK, at \notin Calls, Begin
    PROVE  AcquisitionTypeOK' /\ NothingYet'
<1>1. << >> \in Seq(Slave) /\ Len(<< >>) = 0
  OBVIOUS
<1>2. QED
  BY <1>1, AcquisitionAssumption
     DEF AcquisitionTypeOK, NothingYet, Begin, Calls, Nothing, SlavesRead

(* The identity given to a slave is one.                                   *)
LEMMA IdentifiedIsSlave ==
    ASSUME AcquisitionTypeOK, NEW raw \in RawSlave
    PROVE  Identified(raw) \in Slave
BY DEF AcquisitionTypeOK, Identified, Offset, Slave, SlaveIdentity, RawSlave

(* The descriptor is closed when a read returns.                           *)
LEMMA ReturnTypes ==
    ASSUME AcquisitionTypeOK, NEW outcome \in {"read", "failed"}, Return(outcome),
           outcome = "read" => SlavesRead = count
    PROVE  AcquisitionTypeOK' /\ NothingYet' /\ at' # "idle"
<1>1. open' = (at' \in Calls \ {"open"})
  <2>1. (at' \in Calls \ {"open"}) = FALSE
    BY DEF Return, Calls
  <2>2. open' = FALSE
    BY DEF Return
  <2>3. QED
    BY <2>1, <2>2, Zenon
<1>2. UNCHANGED <<bus, count, candidate, lastAlias, relPosition, unmoved>>
  BY DEF Return, progress
<1>3. QED
  BY <1>1, <1>2 DEF Return, AcquisitionTypeOK, NothingYet, SlavesRead

(* Every call of a read keeps the types.                                   *)
LEMMA AcquireTypes ==
    ASSUME AcquisitionTypeOK, NothingYet, Acquire
    PROVE  AcquisitionTypeOK' /\ NothingYet' /\ at' # "idle" /\ at # "idle"
<1> USE DEF AcquisitionTypeOK, NothingYet, Calls, SlavesRead, progress
<1>1. CASE OpenDevice
  BY <1>1 DEF OpenDevice
<1>2. CASE CheckModule
  BY <1>2 DEF CheckModule
<1>3. CASE AskMaster
  <2>1. Len(bus.slaves) \in 0..MaxSlaves /\ bus.link \in BOOLEAN
    BY <1>3, BusFields, AcquisitionAssumption DEF AskMaster
  <2>2. candidate' \in [link : BOOLEAN, slaves : Seq(Slave)]
        /\ candidate'.slaves = candidate.slaves /\ Len(candidate.slaves) = 0
    BY <1>3, <2>1 DEF AskMaster
  <2>3. QED
    BY <1>3, <2>1, <2>2 DEF AskMaster
<1>4. CASE AskSlave
  <2> DEFINE raw == bus.slaves[SlavesRead + 1]
             slave == Identified(raw)
  <2>1. SlavesRead \in Nat /\ SlavesRead + 1 \in DOMAIN bus.slaves
    BY <1>4, BusFields DEF AskSlave
  <2>2. raw \in RawSlave
    BY <2>1, AcquisitionAssumption
  <2>3. slave \in Slave
    BY <2>2, IdentifiedIsSlave
  <2> HIDE DEF raw, slave
  <2>4. /\ candidate' = [candidate EXCEPT !.slaves = Append(@, slave)]
        /\ lastAlias' = slave.id.alias
        /\ relPosition' = slave.id.rel + 1
    BY <1>4 DEF AskSlave, raw, slave
  <2>5. /\ candidate' \in [link : BOOLEAN, slaves : Seq(Slave)]
        /\ Len(candidate'.slaves) = Len(candidate.slaves) + 1
    BY <2>3, <2>4
  <2>6. lastAlias' \in Nat /\ relPosition' \in Nat
    BY <2>3, <2>4 DEF Slave, SlaveIdentity
  <2>7. Len(candidate.slaves) + 1 <= count
    BY <1>4, AcquisitionAssumption DEF AskSlave
  <2>8. QED
    BY <1>4, <2>5, <2>6, <2>7 DEF AskSlave
<1>5. CASE Complete
  BY <1>5, ReturnTypes DEF Complete
<1>6. CASE Fail
  BY <1>6, ReturnTypes DEF Fail
<1>7. QED
  BY <1>1, <1>2, <1>3, <1>4, <1>5, <1>6 DEF Acquire

(* So does a change of the bus.                                            *)
LEMMA ChangeTypes ==
    ASSUME AcquisitionTypeOK, NothingYet, Change
    PROVE  AcquisitionTypeOK' /\ NothingYet' /\ at' = at
BY DEF AcquisitionTypeOK, NothingYet, Change, Calls, SlavesRead, reading, progress

(* And the end of a cycle, which forgets the read.                         *)
LEMMA RestTypes ==
    ASSUME AcquisitionTypeOK, at \notin Calls, Rest
    PROVE  AcquisitionTypeOK' /\ NothingYet' /\ at' = "idle"
<1>1. << >> \in Seq(Slave) /\ Len(<< >>) = 0
  OBVIOUS
<1>2. QED
  BY <1>1, AcquisitionAssumption
     DEF AcquisitionTypeOK, NothingYet, Rest, Calls, Nothing, SlavesRead

(* Types hold at the start.                                                *)
LEMMA InitTypes == Init => TypeInv
<1> SUFFICES ASSUME Init PROVE TypeInv
  OBVIOUS
<1>1. << >> \in Seq(Slave) /\ Len(<< >>) = 0 /\ 1 \in DOMAIN Masters
  BY MonitorAssumption DEF ValidConfig
<1>2. AcquisitionTypeOK /\ NothingYet
  <2>1. open = (at \in Calls \ {"open"})
    <3>1. (at \in Calls \ {"open"}) = FALSE
      BY DEF Init, AcquisitionInit, Calls
    <3>2. open = FALSE
      BY DEF Init, AcquisitionInit
    <3>3. QED
      BY <3>1, <3>2, Zenon
  <2>2. QED
    BY <1>1, <2>1, AcquisitionAssumption
       DEF Init, AcquisitionInit, AcquisitionTypeOK, NothingYet, Nothing, SlavesRead
<1>3. 0 \in 0..Quick
  BY MonitorAssumption DEF ValidConfig
<1>4. phase = "check" /\ at = "idle" /\ due = 0 /\ behind = 0
  BY DEF Init, AcquisitionInit
<1>5. stop \in BOOLEAN /\ slow \in BOOLEAN /\ turn \in DOMAIN Masters
      /\ spent \in 0..Quick
  BY <1>1, <1>3 DEF Init
<1>6. QED
  BY <1>2, <1>4, <1>5 DEF TypeInv, TypeOK

(* No step of the loop, of a read or of a bus breaks them.                 *)
LEMMA StepKeepsTypes == TypeInv /\ [Next]_vars => TypeInv'
<1> SUFFICES ASSUME TypeInv, [Next]_vars PROVE TypeInv'
  OBVIOUS
<1> USE DEF TypeInv, TypeOK
<1>1. Interval \in Nat \ {0} /\ Quick \in Nat
      /\ Masters \in Seq(Nat) /\ Masters # << >>
  BY MonitorAssumption DEF ValidConfig
<1>2. CASE StartCycle
  <2>1. at \notin Calls /\ Begin
    BY <1>2 DEF StartCycle, Calls
  <2>2. AcquisitionTypeOK' /\ NothingYet' /\ at' # "idle"
    BY <2>1, BeginTypes DEF Begin
  <2>3. QED
    BY <1>1, <1>2, <2>2 DEF StartCycle
<1>3. CASE Read
  BY <1>3, AcquireTypes DEF Read, loop, clock
<1>4. CASE Handle \/ SkipFailed
  <2>1. at \notin Calls /\ phase = "masters"
    BY <1>4 DEF Handle, SkipFailed, Calls
  <2>2. CASE NextMaster
    <3>1. AcquisitionTypeOK' /\ NothingYet' /\ at' # "idle"
      BY <2>1, <2>2, BeginTypes DEF NextMaster, Begin
    <3>2. turn' \in DOMAIN Masters
      BY <1>1, <2>2 DEF NextMaster
    <3>3. QED
      BY <1>4, <2>1, <2>2, <3>1, <3>2 DEF NextMaster, Handle, SkipFailed, clock
  <2>3. CASE FinishCycle
    <3>1. AcquisitionTypeOK' /\ NothingYet' /\ at' = "idle"
      BY <2>1, <2>3, RestTypes DEF FinishCycle
    <3>2. QED
      BY <1>1, <1>4, <2>3, <3>1
         DEF FinishCycle, Rest, NextDeadline, Handle, SkipFailed
  <2>4. QED
    BY <1>4, <2>2, <2>3 DEF Handle, SkipFailed
<1>5. CASE BusChanges
  BY <1>5, ChangeTypes DEF BusChanges, loop, clock
<1>6. CASE UNCHANGED <<reading, bus, unmoved>>
  <2>1. AcquisitionTypeOK' /\ NothingYet' /\ at' = at
    BY <1>6 DEF AcquisitionTypeOK, NothingYet, reading, progress, SlavesRead
  <2>2. CASE End
    BY <2>1, <2>2 DEF End, clock
  <2>3. CASE Wait
    BY <2>1, <2>3 DEF Wait, clock
  <2>4. CASE Signal
    BY <2>1, <2>4 DEF Signal, clock
  <2>5. CASE Tick
    BY <1>1, <2>1, <2>5 DEF Tick, loop
  <2>6. CASE SlowOrQuick
    BY <2>1, <2>6 DEF SlowOrQuick, loop, clock
  <2>7. CASE UNCHANGED vars
    BY <2>1, <2>7 DEF vars, loop, clock
  <2>8. CASE StartCycle \/ Read \/ Handle \/ SkipFailed \/ BusChanges
    BY <1>2, <1>3, <1>4, <1>5, <2>8
  <2>9. QED
    BY <2>2, <2>3, <2>4, <2>5, <2>6, <2>7, <2>8 DEF Next, Step
<1>7. CASE End \/ Wait \/ Signal \/ Tick \/ SlowOrQuick \/ UNCHANGED vars
  BY <1>6, <1>7 DEF End, Wait, Signal, Tick, SlowOrQuick, vars
<1>8. QED
  BY <1>2, <1>3, <1>4, <1>5, <1>7 DEF Next, Step

(* Every variable of the loop and of its reads keeps its type, and a       *)
(* descriptor is open exactly while there are calls to make on it.         *)
THEOREM TypeCorrect == Spec => []TypeOK
<1>1. TypeInv => TypeOK
  BY DEF TypeInv
<1>2. QED
  BY <1>1, InitTypes, StepKeepsTypes, PTL DEF Spec

-----------------------------------------------------------------------------
(* The deadline                                                            *)

(* A cycle begins at its deadline or later.                                *)
ClockInv ==
    /\ due \in Int /\ behind \in Int /\ due + behind = 0
    /\ phase = "check" => due <= 0
    /\ phase = "masters" => due <= 0

(* Nothing is due before the start.                                        *)
LEMMA InitClock == Init => ClockInv
<1> SUFFICES ASSUME Init PROVE ClockInv
  OBVIOUS
<1>1. due = 0 /\ behind = 0
  BY DEF Init
<1>2. QED
  BY <1>1 DEF ClockInv

(* No step makes a cycle due too early.                                    *)
LEMMA StepKeepsClock == ClockInv /\ [Next]_vars => ClockInv'
<1> SUFFICES ASSUME ClockInv, [Next]_vars PROVE ClockInv'
  OBVIOUS
<1> USE DEF ClockInv
<1>1. Interval \in Nat \ {0}
  BY MonitorAssumption DEF ValidConfig
<1>2. CASE StartCycle
  BY <1>2 DEF StartCycle
<1>3. CASE End
  BY <1>3 DEF End, clock
<1>4. CASE Read
  BY <1>4 DEF Read, loop, clock
<1>5. CASE Handle \/ SkipFailed
  <2>1. NextMaster \/ FinishCycle
    BY <1>5 DEF Handle, SkipFailed
  <2>2. CASE NextMaster
    BY <2>2 DEF NextMaster, clock
  <2>3. CASE FinishCycle
    BY <1>1, <2>3 DEF FinishCycle, Rest, NextDeadline
  <2>4. QED
    BY <2>1, <2>2, <2>3
<1>6. CASE Wait
  BY <1>6 DEF Wait, clock
<1>7. CASE BusChanges
  BY <1>7 DEF BusChanges, loop, clock
<1>8. CASE Signal
  BY <1>8 DEF Signal, clock
<1>9. CASE Tick
  BY <1>9 DEF Tick, loop
<1>10. CASE SlowOrQuick
  BY <1>10 DEF SlowOrQuick, loop, clock
<1>11. CASE UNCHANGED vars
  BY <1>11 DEF vars, loop, clock
<1>12. QED
  BY <1>2, <1>3, <1>4, <1>5, <1>6, <1>7, <1>8, <1>9, <1>10, <1>11 DEF Next, Step

(* However long reads take and however often they fail, no cycle begins    *)
(* before as many intervals have passed as there were cycles before it.    *)
THEOREM NeverEarlyHolds == Spec => []NeverEarly
<1>1. ClockInv => NeverEarly
  BY DEF ClockInv, NeverEarly
<1>2. QED
  BY <1>1, InitClock, StepKeepsClock, PTL DEF Spec

-----------------------------------------------------------------------------
(* What a read finds                                                       *)

(* The last alias and the offset are those of the slave read last.         *)
CountsFromLast ==
    IF SlavesRead = 0
    THEN lastAlias = 0 /\ relPosition = 0
    ELSE /\ lastAlias = candidate.slaves[SlavesRead].id.alias
         /\ relPosition = candidate.slaves[SlavesRead].id.rel + 1

ReadInv ==
    /\ at = "slave" => CountsFromLast
    /\ UnmovedAreReadExactly

(* The slave asked for now gets its identity, if it and those it counts    *)
(* from have not moved.                                                    *)
LEMMA NextIsIdentified ==
    ASSUME TypeInv, ReadInv, AskSlave, IdentityUnmoved(SlavesRead + 1)
    PROVE  Identified(bus.slaves[SlavesRead + 1]).id
             = IdentityAt(bus.slaves, SlavesRead + 1)
<1> DEFINE n == SlavesRead
           b == bus.slaves
<1>1. n \in Nat
  BY DEF TypeInv, TypeOK, AcquisitionTypeOK, SlavesRead
<1>2. Identified(b[n + 1]).id
        = [ alias |-> IF b[n + 1].alias # 0 THEN b[n + 1].alias ELSE lastAlias,
            rel   |-> IF b[n + 1].alias # 0 THEN 0 ELSE relPosition ]
  BY DEF Identified, Offset
<1>3. CountsFromLast
  BY DEF ReadInv, AskSlave
<1>4. PICK j \in 1..n + 1 : j..n + 1 \subseteq unmoved /\ (j = 1 \/ b[j].alias # 0)
  BY DEF IdentityUnmoved
<1>5. CASE b[n + 1].alias # 0
  <2>1. IdentityAt(b, n + 1) = [alias |-> b[n + 1].alias, rel |-> 0]
    BY <1>1, <1>5, IdentityOfNamed
  <2>2. QED
    BY <1>2, <1>5, <2>1
<1>6. CASE b[n + 1].alias = 0 /\ n = 0
  <2>1. IdentityAt(b, 1) = [alias |-> 0, rel |-> 0]
    BY <1>6 DEF IdentityAt
  <2>2. lastAlias = 0 /\ relPosition = 0
    BY <1>3, <1>6 DEF CountsFromLast
  <2>3. QED
    BY <1>2, <1>6, <2>1, <2>2
<1>7. CASE b[n + 1].alias = 0 /\ n # 0
  <2>1. n \in 1..n /\ n \in Nat \ {0}
    BY <1>1, <1>7
  <2>2. j \in 1..n /\ j..n \subseteq unmoved
    BY <1>1, <1>4, <1>7
  <2>3. IdentityUnmoved(n)
    BY <1>4, <2>2 DEF IdentityUnmoved
  <2>4. candidate.slaves[n].id = IdentityAt(b, n)
    BY <2>1, <2>3 DEF ReadInv, UnmovedAreReadExactly, AskSlave
  <2>5. IdentityAt(b, n + 1)
          = [alias |-> IdentityAt(b, n).alias, rel |-> IdentityAt(b, n).rel + 1]
    BY <1>7, <2>1, IdentityCountsOn
  <2>6. lastAlias = IdentityAt(b, n).alias /\ relPosition = IdentityAt(b, n).rel + 1
    BY <1>3, <1>7, <2>4 DEF CountsFromLast
  <2>7. QED
    BY <1>2, <1>7, <2>5, <2>6
<1>8. QED
  BY <1>5, <1>6, <1>7

(* The slave that has been asked for is read, or the read fails.           *)
LEMMA AskSlaveReads ==
    ASSUME TypeInv, ReadInv, AskSlave
    PROVE  ReadInv'
<1> DEFINE n == SlavesRead
           slave == Identified(bus.slaves[n + 1])
<1>1. /\ n \in Nat /\ n = Len(candidate.slaves)
      /\ candidate \in [link : BOOLEAN, slaves : Seq(Slave)]
  BY DEF TypeInv, TypeOK, AcquisitionTypeOK, SlavesRead
<1>2. slave \in Slave
  <2>1. n + 1 \in DOMAIN bus.slaves
    BY <1>1, BusFields DEF AskSlave, TypeInv, TypeOK, AcquisitionTypeOK
  <2>2. bus.slaves[n + 1] \in RawSlave
    BY <2>1, AcquisitionAssumption DEF TypeInv, TypeOK, AcquisitionTypeOK
  <2>3. QED
    BY <2>2, IdentifiedIsSlave DEF TypeInv, TypeOK
<1>3. IdentityUnmoved(n + 1) => slave.id = IdentityAt(bus.slaves, n + 1)
  BY NextIsIdentified
<1> HIDE DEF slave
<1>4. /\ candidate' = [candidate EXCEPT !.slaves = Append(@, slave)]
      /\ lastAlias' = slave.id.alias /\ relPosition' = slave.id.rel + 1
      /\ at = "slave" /\ UNCHANGED <<bus, at, unmoved>>
  BY DEF AskSlave, slave
<1>5. /\ candidate'.slaves = Append(candidate.slaves, slave)
      /\ candidate'.link = candidate.link
  BY <1>1, <1>4
<1>6. /\ Len(candidate'.slaves) = n + 1
      /\ candidate'.slaves[n + 1] = slave
      /\ \A i \in 1..n : candidate'.slaves[i] = candidate.slaves[i]
  BY <1>1, <1>2, <1>5
<1>7. CountsFromLast'
  BY <1>1, <1>4, <1>6 DEF CountsFromLast, SlavesRead
<1>8. ASSUME NEW i \in 1..n + 1, IdentityUnmoved(i)
      PROVE  candidate'.slaves[i].id = IdentityAt(bus.slaves, i)
  <2>1. CASE i = n + 1
    BY <1>3, <1>6, <1>8, <2>1
  <2>2. CASE i \in 1..n
    BY <1>4, <1>6, <1>8, <2>2 DEF ReadInv, UnmovedAreReadExactly
  <2>3. QED
    BY <1>1, <2>1, <2>2
<1>9. \A i : IdentityUnmoved(i)' <=> IdentityUnmoved(i)
  BY <1>4 DEF IdentityUnmoved
<1>10. UnmovedAreReadExactly'
  BY <1>4, <1>5, <1>6, <1>8, <1>9 DEF ReadInv, UnmovedAreReadExactly, SlavesRead
<1>11. QED
  BY <1>7, <1>10 DEF ReadInv

(* What moves is no longer counted as unmoved; the identity of the rest    *)
(* does not change.                                                        *)
LEMMA ChangeReads ==
    ASSUME TypeInv, ReadInv, Change
    PROVE  ReadInv'
<1>1. /\ unmoved' = { i \in unmoved : SameAt(bus, bus', i) }
      /\ UNCHANGED <<at, candidate, lastAlias, relPosition>>
  BY DEF Change, reading, progress
<1>2. CountsFromLast' <=> CountsFromLast
  BY <1>1 DEF CountsFromLast, SlavesRead
<1>3. 0 \in unmoved' => 0 \in unmoved /\ bus'.link = bus.link
  BY <1>1 DEF SameAt
<1>4. ASSUME NEW i \in Nat, IdentityUnmoved(i)'
      PROVE  IdentityUnmoved(i) /\ IdentityAt(bus'.slaves, i) = IdentityAt(bus.slaves, i)
  <2>1. PICK j \in 1..i : j..i \subseteq unmoved' /\ (j = 1 \/ bus'.slaves[j].alias # 0)
    BY <1>4 DEF IdentityUnmoved
  <2>2. \A k \in j..i : k \in unmoved /\ bus'.slaves[k].alias = bus.slaves[k].alias
    BY <1>1, <2>1 DEF SameAt
  <2>3. j = 1 \/ bus.slaves[j].alias # 0
    BY <2>1, <2>2
  <2>4. IdentityUnmoved(i)
    BY <2>2, <2>3 DEF IdentityUnmoved
  <2>5. IdentityAt(bus'.slaves, i) = IdentityAt(bus.slaves, i)
    BY <2>1, <2>2, IdentityIsLocal
  <2>6. QED
    BY <2>4, <2>5
<1>5. SlavesRead \in Nat /\ SlavesRead' = SlavesRead
  BY <1>1 DEF TypeInv, TypeOK, AcquisitionTypeOK, SlavesRead
<1>6. UnmovedAreReadExactly'
  <2> SUFFICES ASSUME at \in {"slave", "read"}
               PROVE  /\ 0 \in unmoved' => candidate.link = bus'.link
                      /\ \A i \in 1..SlavesRead :
                           IdentityUnmoved(i)' =>
                              candidate.slaves[i].id = IdentityAt(bus'.slaves, i)
    BY <1>1, <1>5 DEF UnmovedAreReadExactly
  <2>1. 0 \in unmoved' => candidate.link = bus'.link
    BY <1>3 DEF ReadInv, UnmovedAreReadExactly
  <2>2. ASSUME NEW i \in 1..SlavesRead, IdentityUnmoved(i)'
        PROVE  candidate.slaves[i].id = IdentityAt(bus'.slaves, i)
    BY <1>4, <1>5, <2>2 DEF ReadInv, UnmovedAreReadExactly
  <2>3. QED
    BY <2>1, <2>2
<1>7. QED
  BY <1>1, <1>2, <1>6 DEF ReadInv

(* Every step keeps the partial snapshot true for slaves that stay in      *)
(* place.                                                                  *)
LEMMA StepKeepsRead == TypeInv /\ ReadInv /\ [Next]_vars => ReadInv'
<1> SUFFICES ASSUME TypeInv, ReadInv, [Next]_vars PROVE ReadInv'
  OBVIOUS
<1>1. CASE at' \notin {"slave", "read"}
  BY <1>1 DEF ReadInv, UnmovedAreReadExactly
<1>2. CASE AskSlave
  BY <1>2, AskSlaveReads
<1>3. CASE BusChanges
  BY <1>3, ChangeReads DEF BusChanges
<1>4. CASE AskMaster
  <2>1. candidate.slaves = << >> /\ lastAlias = 0 /\ relPosition = 0
        /\ candidate \in [link : BOOLEAN, slaves : Seq(Slave)]
    BY <1>4 DEF AskMaster, TypeInv, TypeOK, AcquisitionTypeOK, NothingYet
  <2>2. /\ candidate'.slaves = << >> /\ candidate'.link = bus.link
        /\ UNCHANGED <<bus, lastAlias, relPosition>>
    BY <1>4, <2>1 DEF AskMaster
  <2>3. Len(candidate'.slaves) = 0
    BY <2>2
  <2>4. QED
    BY <2>1, <2>2, <2>3
       DEF ReadInv, CountsFromLast, UnmovedAreReadExactly, SlavesRead
<1>5. CASE Complete
  <2>1. /\ at = "slave" /\ at' = "read"
        /\ UNCHANGED <<bus, candidate, unmoved>>
    BY <1>5 DEF Complete, Return, progress
  <2>2. QED
    BY <2>1
       DEF ReadInv, UnmovedAreReadExactly, IdentityUnmoved, SlavesRead
<1>6. CASE UNCHANGED <<reading, bus, unmoved>>
  BY <1>6
     DEF ReadInv, CountsFromLast, UnmovedAreReadExactly, IdentityUnmoved,
         SlavesRead, reading, progress
<1>7. CASE Read
  <2>1. OpenDevice \/ CheckModule \/ Fail => at' \notin {"slave", "read"}
    BY DEF OpenDevice, CheckModule, Fail, Return
  <2>2. QED
    BY <1>1, <1>2, <1>4, <1>5, <1>7, <2>1 DEF Read, Acquire
<1>8. CASE StartCycle \/ Handle \/ SkipFailed
  <2>1. at' \notin {"slave", "read"}
    BY <1>8 DEF StartCycle, Handle, SkipFailed, NextMaster, FinishCycle, Rest, Begin
  <2>2. QED
    BY <1>1, <2>1
<1>9. CASE End \/ Wait \/ Signal \/ Tick \/ SlowOrQuick \/ UNCHANGED vars
  BY <1>6, <1>9 DEF End, Wait, Signal, Tick, SlowOrQuick, vars
<1>10. QED
  BY <1>3, <1>7, <1>8, <1>9 DEF Next, Step

(* However the bus changes between two calls of a read, each slave that    *)
(* did not move is in the snapshot where it is and under its identity.     *)
THEOREM UnmovedReadExactly == Spec => []UnmovedAreReadExactly
<1>1. Init => ReadInv
  BY DEF Init, AcquisitionInit, ReadInv, UnmovedAreReadExactly
<1>2. ReadInv => UnmovedAreReadExactly
  BY DEF ReadInv
<1>3. QED
  BY <1>1, <1>2, InitTypes, StepKeepsTypes, StepKeepsRead, PTL DEF Spec

-----------------------------------------------------------------------------
(* A bus that does not change                                              *)

(* What has not moved is still there.                                      *)
UnmovedAreThere == unmoved \subseteq {0} \union DOMAIN bus.slaves

(* A read during which nothing moved is the function of IoctlSnapshotReader *)
(* by which snapshots are made where reading is one step.                  *)
StillIsRead ==
    at = "read" /\ unmoved = 0..count =>
        /\ candidate.link = bus.link
        /\ SlavesRead = count
        /\ \A i \in 1..count :
             candidate.slaves[i].id
               = ReadSnapshot(0, bus.link, bus.slaves).slaves[i].id

(* Every step forgets what moved or went away.                             *)
LEMMA StepKeepsThere ==
    TypeInv /\ UnmovedAreThere /\ [Next]_vars => UnmovedAreThere'
<1> SUFFICES ASSUME TypeInv, UnmovedAreThere, [Next]_vars PROVE UnmovedAreThere'
  OBVIOUS
<1>1. CASE unmoved' = {}
  BY <1>1 DEF UnmovedAreThere
<1>2. CASE UNCHANGED <<bus, unmoved>>
  BY <1>2 DEF UnmovedAreThere
<1>3. CASE AskMaster
  <2>1. bus' = bus /\ unmoved' = 0..Len(bus.slaves)
    BY <1>3 DEF AskMaster
  <2>2. DOMAIN bus.slaves = 1..Len(bus.slaves) /\ Len(bus.slaves) \in Nat
    BY BusFields DEF TypeInv, TypeOK, AcquisitionTypeOK
  <2>3. QED
    BY <2>1, <2>2 DEF UnmovedAreThere
<1>4. CASE BusChanges
  BY <1>4 DEF BusChanges, Change, SameAt, UnmovedAreThere
<1>5. CASE Read
  <2>1. OpenDevice \/ CheckModule \/ AskSlave \/ Complete \/ Fail
            => UNCHANGED <<bus, unmoved>>
    BY DEF OpenDevice, CheckModule, AskSlave, Complete, Fail, Return
  <2>2. QED
    BY <1>2, <1>3, <1>5, <2>1 DEF Read, Acquire
<1>6. CASE StartCycle \/ Handle \/ SkipFailed
  <2>1. unmoved' = {}
    BY <1>6 DEF StartCycle, Handle, SkipFailed, NextMaster, FinishCycle, Rest, Begin
  <2>2. QED
    BY <1>1, <2>1
<1>7. CASE End \/ Wait \/ Signal \/ Tick \/ SlowOrQuick \/ UNCHANGED vars
  BY <1>2, <1>7 DEF End, Wait, Signal, Tick, SlowOrQuick, vars
<1>8. QED
  BY <1>4, <1>5, <1>6, <1>7 DEF Next, Step

(* If nothing moves from the moment at which the master is asked for the   *)
(* number of its slaves on, the snapshot has the link and, at each         *)
(* position, the identity that ReadSnapshot gives: reading call by call    *)
(* implements reading at once (readSnapshot).                              *)
THEOREM StillBusIsRead == Spec => []StillIsRead
<1>1. Init => UnmovedAreThere
  BY DEF Init, AcquisitionInit, UnmovedAreThere
<1>2. ASSUME TypeInv, UnmovedAreThere, UnmovedAreReadExactly
      PROVE  StillIsRead
  <2>1. SUFFICES ASSUME at = "read", unmoved = 0..count
                 PROVE  /\ candidate.link = bus.link
                        /\ SlavesRead = count
                        /\ \A i \in 1..count :
                             candidate.slaves[i].id
                               = ReadSnapshot(0, bus.link, bus.slaves).slaves[i].id
    BY DEF StillIsRead
  <2>2. SlavesRead = count /\ count \in Nat
    BY <1>2, <2>1, AcquisitionAssumption DEF TypeInv, TypeOK, AcquisitionTypeOK
  <2>3. candidate.link = bus.link
    BY <1>2, <2>1, <2>2 DEF UnmovedAreReadExactly
  <2>4. ASSUME NEW i \in 1..count
        PROVE  candidate.slaves[i].id
                 = ReadSnapshot(0, bus.link, bus.slaves).slaves[i].id
    <3>1. i \in unmoved /\ i # 0 /\ 1 \in 1..i /\ 1..i \subseteq unmoved
      BY <2>1, <2>2
    <3>2. IdentityUnmoved(i)
      BY <3>1 DEF IdentityUnmoved
    <3>3. candidate.slaves[i].id = IdentityAt(bus.slaves, i)
      BY <1>2, <2>1, <2>2, <3>2 DEF UnmovedAreReadExactly
    <3>4. i \in DOMAIN bus.slaves
      BY <1>2, <3>1 DEF UnmovedAreThere
    <3>5. bus.slaves \in Seq(RawSlave) /\ bus.link \in BOOLEAN
      BY <1>2, AcquisitionAssumption DEF TypeInv, TypeOK, AcquisitionTypeOK
    <3>6. QED
      BY <3>3, <3>4, <3>5, SnapshotOfBus
  <2>5. QED
    BY <2>2, <2>3, <2>4
<1>3. Init => TypeInv
  BY InitTypes
<1>4. QED
  BY <1>1, <1>2, <1>3, StepKeepsTypes, StepKeepsThere, UnmovedReadExactly, PTL
     DEF Spec

=============================================================================
