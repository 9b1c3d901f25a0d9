-------------------------- MODULE PortErrorsProofs --------------------------
(***************************************************************************)
(* Theorems of PortErrors, for any devices, buses and counters.            *)
(***************************************************************************)
EXTENDS PortErrors, SnapshotProofs, TLAPS

(* What the members of Bus are.                                            *)
LEMMA BusOfDevices ==
    ASSUME NEW b \in Bus
    PROVE  /\ Len(b) \in Nat /\ DOMAIN b = 1..Len(b)
           /\ \A i \in DOMAIN b : b[i] \in Device
           /\ b # NoSnapshot
BY PortAssumption

(* The slave whose turn it is, is one of the snapshot.                     *)
LEMMA TurnIsOfSlave ==
    ASSUME NEW b \in Bus, b # << >>, NEW n \in Nat
    PROVE  /\ n % Len(b) \in Nat
           /\ (n % Len(b)) + 1 \in DOMAIN b
           /\ n % Len(b) \in Positions
<1>1. b \in Seq(Device) /\ DOMAIN b = 1..Len(b) /\ Len(b) \in Nat
  BY PortAssumption
<1>2. Len(b) \in Nat \ {0}
  BY <1>1
<1>3. n % Len(b) \in 0..Len(b) - 1
  BY <1>2
<1>4. (n % Len(b)) + 1 \in DOMAIN b /\ ((n % Len(b)) + 1) - 1 = n % Len(b)
  BY <1>1, <1>2, <1>3
<1>5. QED
  BY <1>3, <1>4 DEF Positions

(* An alias of its own is the alias of the device at the position.         *)
LEMMA OwnAliasIsOfDevice ==
    ASSUME NEW b \in Bus, NEW i \in DOMAIN b, HasOwnAlias(Key(b, i))
    PROVE  AliasOf[b[i]] = Key(b, i).alias /\ AliasOf[b[i]] # 0
<1> DEFINE aliases == [j \in DOMAIN b |-> [alias |-> AliasOf[b[j]]]]
           id == IdentityIn(b, i)
           l == LastNamed(aliases, i)
<1>1. Len(b) \in Nat /\ DOMAIN b = 1..Len(b) /\ i \in Nat
  BY BusOfDevices
<1>2. id = IdentityAt(aliases, i)
  BY DEF IdentityIn
<1> HIDE DEF id
<1>3. id.alias > 0 /\ id.rel = 0 /\ Key(b, i) = [alias |-> id.alias, offset |-> id.rel]
  BY DEF Key, Valid, HasOwnAlias, id
<1> HIDE DEF aliases
<1>4. \E j \in 1..i : aliases[j].alias # 0
  BY <1>2, <1>3 DEF IdentityAt
<1>5. IsLastNamed(aliases, i, l)
  BY <1>1, <1>4, LastNamedIsLast
<1> HIDE DEF l
<1>6. l \in 1..i /\ aliases[l].alias # 0
  BY <1>5 DEF IsLastNamed
<1>7. id = [alias |-> aliases[l].alias, rel |-> i - l]
  BY <1>2, <1>4 DEF IdentityAt, l
<1>8. l = i
  BY <1>1, <1>3, <1>6, <1>7
<1>9. aliases[i].alias = AliasOf[b[i]]
  BY DEF aliases
<1>10. QED
  BY <1>3, <1>6, <1>7, <1>8, <1>9

-----------------------------------------------------------------------------
(* Types                                                                   *)

Source == [device : Device, moved : BOOLEAN, errors : Counters]

TypeInv ==
    /\ TypeOK
    /\ next \in Nat
    /\ \A k \in DOMAIN source : source[k] \in Source /\ HasOwnAlias(k)

(* What a reading at a position is.                                        *)
LEMMA ReadFacts ==
    ASSUME TypeInv, NEW i, ReadCounters(i)
    PROVE  /\ seen \in Bus /\ seen # << >>
           /\ i \in Nat /\ i + 1 \in DOMAIN seen /\ i + 1 \in DOMAIN bus
           /\ bus[i + 1] \in Device
           /\ count[bus[i + 1]] \in Counters
           /\ Key(seen, i + 1) \in Keys
<1>1. seen \in Bus /\ seen # << >> /\ i = next % Len(seen) /\ i < Len(bus)
  BY DEF TypeInv, TypeOK, ReadCounters, Attempt, Turn
<1>2. i \in Nat /\ i + 1 \in DOMAIN seen
  BY <1>1, TurnIsOfSlave DEF TypeInv
<1>3. bus \in Bus /\ count \in [Device -> Counters]
  BY DEF TypeInv, TypeOK
<1>4. i + 1 \in DOMAIN bus
  BY <1>1, <1>2, <1>3, BusOfDevices
<1>5. bus[i + 1] \in Device
  BY <1>3, <1>4, BusOfDevices
<1>6. QED
  BY <1>1, <1>2, <1>3, <1>4, <1>5 DEF Keys

(* The round robin goes on to a position, whatever becomes of the read.    *)
LEMMA AttemptTypes ==
    ASSUME TypeInv, NEW i, Attempt(i)
    PROVE  seen' = NoSnapshot /\ next' \in Nat /\ next' \in Positions
<1>1. seen \in Bus /\ seen # << >> /\ i = next % Len(seen) /\ next \in Nat
  BY DEF TypeInv, TypeOK, Attempt, Turn
<1>2. i + 1 \in Nat
  BY <1>1, TurnIsOfSlave
<1>3. QED
  BY <1>1, <1>2, TurnIsOfSlave DEF Attempt, NextIndex

(* Types hold at the start.                                                *)
LEMMA InitTypes == Init => TypeInv
<1> SUFFICES ASSUME Init PROVE TypeInv
  OBVIOUS
<1>1. count \in [Device -> Counters]
  BY PortAssumption DEF Init, Counters
<1>2. DOMAIN << >> = {}
  OBVIOUS
<1>3. baselines = << >> /\ source = << >> /\ next = 0
  BY DEF Init
<1>4. QED
  BY <1>1, <1>2, <1>3 DEF Init, TypeInv, TypeOK

(* A counter that counts stays one.                                        *)
LEMMA CountErrorTypes ==
    ASSUME TypeInv, NEW d \in Device, NEW c \in Counter, CountError(d, c)
    PROVE  TypeInv'
<1>1. count \in [Device -> Counters] /\ MaxCount \in Nat
  BY PortAssumption DEF TypeInv, TypeOK
<1>2. count[d] \in Counters /\ count[d][c] \in 0..MaxCount
  BY <1>1 DEF Counters
<1>3. [count[d] EXCEPT ![c] = @ + 1] \in Counters
  BY <1>1, <1>2 DEF CountError, Counters
<1>4. count' = [count EXCEPT ![d] = [count[d] EXCEPT ![c] = @ + 1]]
  BY DEF CountError
<1>5. count' \in [Device -> Counters]
  BY <1>1, <1>3, <1>4
<1>6. DOMAIN source' = DOMAIN source
  BY DEF CountError
<1>7. ASSUME NEW k \in DOMAIN source'
      PROVE  source'[k] \in Source
  <2>1. source[k] \in Source
    BY <1>6 DEF TypeInv
  <2>2. CASE source[k].device = d /\ source[k].errors[c] < MaxCount
    <3>1. source'[k] = [source[k] EXCEPT !.errors = [source[k].errors EXCEPT ![c] = @ + 1]]
      BY <1>6, <2>2 DEF CountError
    <3>2. [source[k].errors EXCEPT ![c] = @ + 1] \in Counters
      BY <1>1, <2>1, <2>2 DEF Source, Counters
    <3>3. QED
      BY <2>1, <3>1, <3>2 DEF Source
  <2>3. CASE ~(source[k].device = d /\ source[k].errors[c] < MaxCount)
    BY <1>6, <2>1, <2>3 DEF CountError
  <2>4. QED
    BY <2>2, <2>3
<1>8. UNCHANGED <<bus, seen, next, baselines>>
  BY DEF CountError
<1>9. QED
  BY <1>5, <1>6, <1>7, <1>8 DEF TypeInv, TypeOK

(* A reading, its differences and its baseline have their types.           *)
LEMMA ReadTypes ==
    ASSUME TypeInv, NEW i, ReadCounters(i)
    PROVE  TypeInv'
<1> DEFINE key == Key(seen, i + 1)
           known == [name |-> NameOf[seen[i + 1]], counters |-> count[bus[i + 1]]]
           read == [ device |-> bus[i + 1], moved |-> bus # seen,
                     errors |-> [c \in Counter |-> 0] ]
<1>1. /\ key \in Keys
      /\ count[bus[i + 1]] \in Counters /\ bus[i + 1] \in Device
  BY ReadFacts
<1>2. /\ Attempt(i)
      /\ baselines' = Put(baselines, key, known)
      /\ source' = IF HasOwnAlias(key) THEN Put(source, key, read) ELSE source
  BY DEF ReadCounters
<1>3. [c \in Counter |-> 0] \in Counters /\ (bus # seen) \in BOOLEAN
  BY PortAssumption DEF Counters
<1>4. read \in Source
  BY <1>1, <1>3 DEF Source
<1>5. known.counters \in Counters
  BY <1>1
<1>6. seen' = NoSnapshot /\ next' \in Nat /\ next' \in Positions /\ UNCHANGED <<bus, count>>
  BY <1>2, AttemptTypes DEF Attempt
<1> HIDE DEF key, known, read
<1>7. /\ DOMAIN baselines' = DOMAIN baselines \union {key}
      /\ \A k \in DOMAIN baselines' : baselines'[k].counters \in Counters
  <2>1. /\ DOMAIN baselines' = DOMAIN baselines \union {key}
        /\ baselines'[key] = known
        /\ \A k \in DOMAIN baselines : k # key => baselines'[k] = baselines[k]
    <3>1. baselines' = Put(baselines, key, known)
      BY <1>2
    <3>2. /\ DOMAIN Put(baselines, key, known) = DOMAIN baselines \union {key}
          /\ Put(baselines, key, known)[key] = known
          /\ \A k \in DOMAIN baselines : k # key => Put(baselines, key, known)[k] = baselines[k]
      BY DEF Put
    <3>3. QED
      BY <3>1, <3>2
  <2>2. QED
    BY <1>5, <2>1 DEF TypeInv, TypeOK
<1>8. /\ DOMAIN source' \subseteq DOMAIN source \union {key}
      /\ \A k \in DOMAIN source' : source'[k] \in Source /\ HasOwnAlias(k)
  <2>1. CASE HasOwnAlias(key)
    <3>1. /\ DOMAIN source' = DOMAIN source \union {key}
          /\ source'[key] = read
          /\ \A k \in DOMAIN source : k # key => source'[k] = source[k]
      <4>1. source' = Put(source, key, read)
        BY <1>2, <2>1
      <4>2. /\ DOMAIN Put(source, key, read) = DOMAIN source \union {key}
            /\ Put(source, key, read)[key] = read
            /\ \A k \in DOMAIN source : k # key => Put(source, key, read)[k] = source[k]
        BY DEF Put
      <4>3. QED
        BY <4>1, <4>2
    <3>2. QED
      BY <1>4, <2>1, <3>1 DEF TypeInv
  <2>2. CASE ~HasOwnAlias(key)
    BY <1>2, <2>2 DEF TypeInv
  <2>3. QED
    BY <2>1, <2>2
<1>9. QED
  BY <1>1, <1>6, <1>7, <1>8 DEF TypeInv, TypeOK

(* No step breaks the types.                                               *)
LEMMA StepKeepsTypes == TypeInv /\ [Next]_vars => TypeInv'
<1> SUFFICES ASSUME TypeInv, [Next]_vars PROVE TypeInv'
  OBVIOUS
<1>1. CASE Connect
  BY <1>1 DEF Connect, TypeInv, TypeOK
<1>2. ASSUME NEW d \in Device, ClearCounters(d) PROVE TypeInv'
  <2>1. [c \in Counter |-> 0] \in Counters
    BY PortAssumption DEF Counters
  <2>2. QED
    BY <1>2, <2>1 DEF ClearCounters, TypeInv, TypeOK
<1>3. ASSUME NEW d \in Device, NEW c \in Counter, CountError(d, c) PROVE TypeInv'
  BY <1>3, CountErrorTypes
<1>4. CASE TakeSnapshot
  BY <1>4 DEF TakeSnapshot, TypeInv, TypeOK
<1>5. CASE NothingOnline
  BY <1>5 DEF NothingOnline, TypeInv, TypeOK
<1>6. ASSUME NEW i \in Positions, ReadFails(i) PROVE TypeInv'
  BY <1>6, AttemptTypes DEF ReadFails, Attempt, TypeInv, TypeOK
<1>7. ASSUME NEW i \in Positions, ReadCounters(i) PROVE TypeInv'
  BY <1>7, ReadTypes
<1>8. CASE UNCHANGED vars
  BY <1>8 DEF vars, TypeInv, TypeOK
<1>9. QED
  BY <1>1, <1>2, <1>3, <1>4, <1>5, <1>6, <1>7, <1>8 DEF Next, Process

(* Every variable keeps its type; the index that is kept is one of a slave *)
(* of some bus, although buses of any length come and go.                  *)
THEOREM TypeCorrect == Spec => []TypeOK
<1>1. TypeInv => TypeOK
  BY DEF TypeInv
<1>2. QED
  BY <1>1, InitTypes, StepKeepsTypes, PTL DEF Spec

-----------------------------------------------------------------------------
(* Reported errors                                                         *)

(* No two slaves have the same alias of their own.                         *)
AliasesAreUnique ==
    \A d, e \in Device : AliasOf[d] = AliasOf[e] /\ AliasOf[d] # 0 => d = e

(* A baseline is at most the errors counted since behind the counters of   *)
(* the device it was read from, whatever was cleared; if the bus had not   *)
(* changed, that is the device with the alias.                             *)
SourceInv ==
    /\ \A k \in DOMAIN baselines : HasOwnAlias(k) => k \in DOMAIN source
    /\ \A k \in DOMAIN source :
          /\ \A c \in Counter :
                count[source[k].device][c] - baselines[k].counters[c]
                    <= source[k].errors[c]
          /\ source[k].moved \/ AliasOf[source[k].device] = k.alias

(* An error that happens is one that may be reported later.                *)
LEMMA CountErrorKeepsSource ==
    ASSUME TypeInv, SourceInv, NEW d \in Device, NEW c \in Counter, CountError(d, c)
    PROVE  SourceInv'
<1>1. /\ count \in [Device -> Counters] /\ MaxCount \in Nat
      /\ baselines' = baselines /\ DOMAIN source' = DOMAIN source
      /\ \A k \in DOMAIN source : k \in DOMAIN baselines
  BY PortAssumption DEF TypeInv, TypeOK, CountError
<1>2. ASSUME NEW k \in DOMAIN source
      PROVE  /\ source'[k].device = source[k].device
             /\ source'[k].moved = source[k].moved
             /\ \A x \in Counter :
                   count'[source[k].device][x] - baselines[k].counters[x]
                      <= source'[k].errors[x]
  <2>1. source[k] \in Source /\ baselines[k].counters \in Counters
    BY <1>1 DEF TypeInv, TypeOK
  <2> DEFINE e == source[k].device
             bound(x) == count[e][x] - baselines[k].counters[x] <= source[k].errors[x]
  <2>2. /\ e \in Device
        /\ \A x \in Counter : /\ count[e][x] \in 0..MaxCount
                              /\ baselines[k].counters[x] \in 0..MaxCount
                              /\ source[k].errors[x] \in 0..MaxCount
                              /\ bound(x)
    BY <1>1, <2>1 DEF Source, Counters, SourceInv
  <2>3. \A x \in Counter : count'[e][x] = IF e = d /\ x = c THEN count[e][x] + 1
                                         ELSE count[e][x]
    BY <1>1, <2>2 DEF CountError, Counters
  <2>4. CASE e = d /\ source[k].errors[c] < MaxCount
    <3>1. source'[k] = [source[k] EXCEPT !.errors = [source[k].errors EXCEPT ![c] = @ + 1]]
      BY <2>4 DEF CountError
    <3>2. /\ source'[k].device = e /\ source'[k].moved = source[k].moved
          /\ source'[k].errors = [source[k].errors EXCEPT ![c] = @ + 1]
      BY <2>1, <3>1 DEF Source
    <3>3. \A x \in Counter : source'[k].errors[x]
              = IF x = c THEN source[k].errors[x] + 1 ELSE source[k].errors[x]
      BY <2>1, <3>2 DEF Source, Counters
    <3>4. QED
      BY <2>2, <2>3, <2>4, <3>2, <3>3
  <2>5. CASE ~(e = d /\ source[k].errors[c] < MaxCount)
    <3>1. source'[k] = source[k]
      BY <2>5 DEF CountError
    <3>2. ASSUME NEW x \in Counter
          PROVE  count'[e][x] - baselines[k].counters[x] <= source[k].errors[x]
      <4>1. CASE e = d /\ x = c
        <5>1. source[k].errors[x] = MaxCount /\ count'[e][x] <= MaxCount
          BY <1>1, <2>2, <2>3, <2>5, <4>1 DEF CountError
        <5>2. QED
          BY <1>1, <2>2, <2>3, <5>1
      <4>2. CASE ~(e = d /\ x = c)
        BY <2>2, <2>3, <4>2
      <4>3. QED
        BY <4>1, <4>2
    <3>3. QED
      BY <3>1, <3>2
  <2>6. QED
    BY <2>4, <2>5
<1>3. QED
  BY <1>1, <1>2 DEF SourceInv

(* Clearing the counters of a device makes no error.                       *)
LEMMA ClearKeepsSource ==
    ASSUME TypeInv, SourceInv, NEW d \in Device, ClearCounters(d)
    PROVE  SourceInv'
<1>1. /\ count \in [Device -> Counters]
      /\ UNCHANGED <<baselines, source>>
      /\ \A k \in DOMAIN source : k \in DOMAIN baselines
  BY DEF TypeInv, TypeOK, ClearCounters
<1>2. ASSUME NEW k \in DOMAIN source, NEW x \in Counter
      PROVE  count'[source[k].device][x] - baselines[k].counters[x]
                <= source[k].errors[x]
  <2>1. /\ source[k].device \in Device /\ source[k].errors \in Counters
        /\ baselines[k].counters \in Counters
    BY <1>1 DEF TypeInv, TypeOK, Source
  <2>2. /\ count[source[k].device][x] \in 0..MaxCount
        /\ baselines[k].counters[x] \in 0..MaxCount
        /\ source[k].errors[x] \in 0..MaxCount
        /\ count[source[k].device][x] - baselines[k].counters[x] <= source[k].errors[x]
    BY <1>1, <2>1 DEF Counters, SourceInv
  <2>3. count'[source[k].device][x] \in {0, count[source[k].device][x]}
    BY <1>1, <2>1 DEF ClearCounters
  <2>4. QED
    BY <2>2, <2>3, PortAssumption
<1>3. QED
  BY <1>1, <1>2 DEF SourceInv

(* A reading reports no more than has happened since the baseline.         *)
LEMMA ReadKeepsSource ==
    ASSUME TypeInv, SourceInv, NEW i, ReadCounters(i)
    PROVE  SourceInv'
<1> DEFINE key == Key(seen, i + 1)
           known == [name |-> NameOf[seen[i + 1]], counters |-> count[bus[i + 1]]]
           read == [ device |-> bus[i + 1], moved |-> bus # seen,
                     errors |-> [c \in Counter |-> 0] ]
<1>1. /\ seen \in Bus /\ i + 1 \in DOMAIN seen
      /\ count[bus[i + 1]] \in Counters
  BY ReadFacts
<1>2. /\ baselines' = Put(baselines, key, known)
      /\ source' = IF HasOwnAlias(key) THEN Put(source, key, read) ELSE source
      /\ count' = count
  BY DEF ReadCounters, Attempt
<1>3. \A c \in Counter : count[read.device][c] - known.counters[c] <= read.errors[c]
  BY <1>1, PortAssumption DEF Counters
<1>4. HasOwnAlias(key) => read.moved \/ AliasOf[read.device] = key.alias
  BY <1>1, OwnAliasIsOfDevice
<1> HIDE DEF key, known, read
<1>5. /\ DOMAIN baselines' = DOMAIN baselines \union {key}
      /\ baselines'[key] = known
      /\ \A k \in DOMAIN baselines : k # key => baselines'[k] = baselines[k]
  <2>1. baselines' = Put(baselines, key, known)
    BY <1>2
  <2>2. /\ DOMAIN Put(baselines, key, known) = DOMAIN baselines \union {key}
        /\ Put(baselines, key, known)[key] = known
        /\ \A k \in DOMAIN baselines : k # key => Put(baselines, key, known)[k] = baselines[k]
    BY DEF Put
  <2>3. QED
    BY <2>1, <2>2
<1>6. DOMAIN source \subseteq DOMAIN baselines
  BY DEF TypeInv, TypeOK
<1>7. \A k \in DOMAIN source : HasOwnAlias(k)
  BY DEF TypeInv
<1>8. CASE HasOwnAlias(key)
  <2>1. /\ DOMAIN source' = DOMAIN source \union {key}
        /\ source'[key] = read
        /\ \A k \in DOMAIN source : k # key => source'[k] = source[k]
    <3>1. source' = Put(source, key, read)
      BY <1>2, <1>8
    <3>2. /\ DOMAIN Put(source, key, read) = DOMAIN source \union {key}
          /\ Put(source, key, read)[key] = read
          /\ \A k \in DOMAIN source : k # key => Put(source, key, read)[k] = source[k]
      BY DEF Put
    <3>3. QED
      BY <3>1, <3>2
  <2>2. QED
    BY <1>2, <1>3, <1>4, <1>5, <1>6, <1>8, <2>1 DEF SourceInv
<1>9. CASE ~HasOwnAlias(key)
  <2>1. source' = source /\ key \notin DOMAIN source
    BY <1>2, <1>7, <1>9
  <2>2. QED
    BY <1>2, <1>5, <1>6, <1>9, <2>1 DEF SourceInv
<1>10. QED
  BY <1>8, <1>9

(* Every step keeps baselines and counters in accordance.                  *)
LEMMA StepKeepsSource == TypeInv /\ SourceInv /\ [Next]_vars => SourceInv'
<1> SUFFICES ASSUME TypeInv, SourceInv, [Next]_vars PROVE SourceInv'
  OBVIOUS
<1>1. CASE UNCHANGED <<count, baselines, source>>
  BY <1>1 DEF SourceInv
<1>2. ASSUME NEW d \in Device, ClearCounters(d) PROVE SourceInv'
  BY <1>2, ClearKeepsSource
<1>3. ASSUME NEW d \in Device, NEW c \in Counter, CountError(d, c) PROVE SourceInv'
  BY <1>3, CountErrorKeepsSource
<1>4. ASSUME NEW i \in Positions, ReadCounters(i) PROVE SourceInv'
  BY <1>4, ReadKeepsSource
<1>5. ASSUME NEW i \in Positions, ReadFails(i) PROVE SourceInv'
  BY <1>1, <1>5 DEF ReadFails, Attempt
<1>6. CASE Connect \/ TakeSnapshot \/ NothingOnline \/ UNCHANGED vars
  BY <1>1, <1>6 DEF Connect, TakeSnapshot, NothingOnline, vars
<1>7. QED
  BY <1>2, <1>3, <1>4, <1>5, <1>6 DEF Next, Process

(* What the slave in turn is said to have in new errors, it has counted    *)
(* since it was last read, as far as the bus did not change under either   *)
(* reading.                                                                *)
LEMMA SourceBoundsEvents ==
    ASSUME TypeInv, SourceInv, AliasesAreUnique
    PROVE  ReportedErrorsHappened
<1> SUFFICES ASSUME NEW i \in Positions, Turn(i), i < Len(bus),
                    NEW e \in Events(i), HasOwnAlias(e.key),
                    ~source[e.key].moved, bus = seen
             PROVE  /\ source[e.key].device = bus[i + 1]
                    /\ e.new - e.old <= source[e.key].errors[e.counter]
  BY DEF ReportedErrorsHappened
<1> DEFINE key == Key(seen, i + 1)
           new == count[bus[i + 1]]
<1>1. /\ seen \in Bus /\ i \in Nat /\ i + 1 \in DOMAIN seen
  BY TurnIsOfSlave DEF TypeInv, TypeOK, Turn
<1>2. PICK c \in Counter :
        e = [ key |-> key, counter |-> c, old |-> baselines[key].counters[c],
              new |-> new[c] ]
  BY DEF Events
<1>3. Compares(key, NameOf[seen[i + 1]], new)
  BY DEF Events
<1>4. e.key = key /\ e.counter = c /\ e.old = baselines[key].counters[c] /\ e.new = new[c]
  BY <1>2
<1>5. key \in DOMAIN baselines /\ HasOwnAlias(key)
  BY <1>3, <1>4 DEF Compares
<1>6. AliasOf[bus[i + 1]] = key.alias /\ AliasOf[bus[i + 1]] # 0
  BY <1>1, <1>5, OwnAliasIsOfDevice
<1>7. bus[i + 1] \in Device
  BY <1>1, BusOfDevices
<1> HIDE DEF key, new
<1>8. key \in DOMAIN source /\ source[key] \in Source
  BY <1>5 DEF SourceInv, TypeInv
<1>9. AliasOf[source[key].device] = key.alias /\ source[key].device \in Device
  BY <1>4, <1>8 DEF SourceInv, Source
<1>10. source[key].device = bus[i + 1]
  BY <1>6, <1>7, <1>9 DEF AliasesAreUnique
<1>11. count[source[key].device][c] - baselines[key].counters[c] <= source[key].errors[c]
  BY <1>8 DEF SourceInv
<1>12. QED
  BY <1>4, <1>10, <1>11 DEF new

(* If no two slaves have the same alias, one that has an alias is never    *)
(* said to have more new errors than it counted, however errors, clears    *)
(* and changes of the bus interleave with the readings                     *)
(* (PortErrorTracker::process).                                            *)
THEOREM ReportedErrorsAreReal ==
    ASSUME AliasesAreUnique
    PROVE  Spec => []ReportedErrorsHappened
<1>1. Init => SourceInv
  <2>1. DOMAIN << >> = {}
    OBVIOUS
  <2>2. QED
    BY <2>1 DEF Init, SourceInv
<1>2. TypeInv /\ SourceInv => ReportedErrorsHappened
  BY SourceBoundsEvents
<1>3. QED
  BY <1>1, <1>2, InitTypes, StepKeepsTypes, StepKeepsSource, PTL DEF Spec

=============================================================================
