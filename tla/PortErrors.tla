----------------------------- MODULE PortErrors -----------------------------
(***************************************************************************)
(* How errors counted by the ports of the slaves become events:            *)
(* PortErrorMonitor (src/src/monitoring/port_error_monitor.cpp) reads the  *)
(* counters of one slave per cycle, PortErrorTracker (src/src/detection/   *)
(* port_error_tracker.cpp) compares them to those it knows of the slave.   *)
(*                                                                         *)
(* Slaves are read at the position they had in the snapshot, after the     *)
(* snapshot: in between and between cycles slaves come, go and move,       *)
(* count errors and lose power.                                            *)
(***************************************************************************)
EXTENDS IoctlSnapshotReader

CONSTANTS
    Device,     \* the slaves that there are
    AliasOf,    \* function: the alias of each, 0 for none
    NameOf,     \* function: its name (the product)
    Bus,        \* the sequences of devices that can be connected
    Counter,    \* the counters of a slave: what is counted at each port
    MaxCount    \* the last value of a counter (255)

ASSUME PortAssumption ==
    /\ AliasOf \in [Device -> Nat]
    /\ Bus \subseteq Seq(Device)
    /\ NoSnapshot \notin Bus
    /\ MaxCount \in Nat

VARIABLES
    bus,        \* the devices that are connected
    count,      \* their counters
    seen,       \* the snapshot to handle, as the devices it shows
    next,       \* next_online_index_; all slaves of a snapshot are online
    baselines,  \* PortErrorTracker::baselines_
    source      \* history: for the baselines of slaves with an alias of their
                \* own, from which device it was read, whether the bus had
                \* changed since the snapshot, and the errors counted since

vars == <<bus, count, seen, next, baselines, source>>

-----------------------------------------------------------------------------

(* The key of the slave at position i of snapshot s: the identity that the *)
(* snapshot gives it, or the position if there is no alias before it.      *)
IdentityIn(s, i) == IdentityAt([j \in DOMAIN s |-> [alias |-> AliasOf[s[j]]]], i)

(* Faulty variant, for mutation checks only: the alias alone.              *)
AliasKey(s, i) ==
    LET id == IdentityIn(s, i)
    IN  IF Valid(id) THEN [alias |-> id.alias, offset |-> 0]
                     ELSE [alias |-> 0, offset |-> i - 1]

Key(s, i) ==
    LET id == IdentityIn(s, i)
    IN  IF Valid(id) THEN [alias |-> id.alias, offset |-> id.rel]
                     ELSE [alias |-> 0, offset |-> i - 1]

Keys == UNION { { Key(b, i) : i \in DOMAIN b } : b \in Bus }

(* The slave has an alias of its own.                                      *)
HasOwnAlias(key) == key.alias > 0 /\ key.offset = 0

Counters == [Counter -> 0..MaxCount]

AnyCounterDecreased(old, new) == \E c \in Counter : new[c] < old[c]

(* Faulty variants, for mutation checks only: the index does not wrap      *)
(* around; the same slave is read again.                                   *)
Unwrapped(i, n) == i + 1

Unmoved(i, n) == i % n

(* The index that is read next, if i is read now of n slaves.              *)
NextIndex(i, n) == (i + 1) % n

(* A first reading, another name or a counter that has decreased makes the *)
(* reading a new baseline and reports nothing.                             *)
Compares(key, name, new) ==
    /\ key \in DOMAIN baselines
    /\ baselines[key].name = name
    /\ ~AnyCounterDecreased(baselines[key].counters, new)

(* The events that reading the slave at position i of the snapshot gives:  *)
(* what increased since the last reading under the same key.               *)
Events(i) ==
    LET key == Key(seen, i + 1)
        new == count[bus[i + 1]]
    IN  IF Compares(key, NameOf[seen[i + 1]], new)
        THEN { [ key |-> key, counter |-> c,
                 old |-> baselines[key].counters[c], new |-> new[c] ] :
                    c \in { x \in Counter : new[x] > baselines[key].counters[x] } }
        ELSE {}

Put(f, key, value) ==
    [k \in DOMAIN f \union {key} |-> IF k = key THEN value ELSE f[k]]

-----------------------------------------------------------------------------

Init ==
    /\ bus \in Bus
    /\ count = [d \in Device |-> [c \in Counter |-> 0]]
    /\ seen = NoSnapshot
    /\ next = 0
    /\ baselines = << >>
    /\ source = << >>

(* The bus (external).                                                     *)
Connect ==
    /\ bus' \in Bus
    /\ UNCHANGED <<count, seen, next, baselines, source>>

(* A counter stops at its last value (external).                           *)
CountError(d, c) ==
    /\ count[d][c] < MaxCount
    /\ count' = [count EXCEPT ![d][c] = @ + 1]
    /\ source' = [k \in DOMAIN source |->
                    IF source[k].device = d /\ source[k].errors[c] < MaxCount
                    THEN [source[k] EXCEPT !.errors[c] = @ + 1] ELSE source[k]]
    /\ UNCHANGED <<bus, seen, next, baselines>>

(* Power is lost, or the counters are cleared (external).                  *)
ClearCounters(d) ==
    /\ count' = [count EXCEPT ![d] = [c \in Counter |-> 0]]
    /\ UNCHANGED <<bus, seen, next, baselines, source>>

TakeSnapshot ==
    /\ seen = NoSnapshot
    /\ seen' = bus
    /\ UNCHANGED <<bus, count, next, baselines, source>>

NothingOnline ==
    /\ seen = << >>
    /\ next' = 0
    /\ seen' = NoSnapshot
    /\ UNCHANGED <<bus, count, baselines, source>>

(* It is the turn of the slave at position i of the snapshot.              *)
Turn(i) == seen \notin {NoSnapshot, << >>} /\ i = next % Len(seen)

Attempt(i) ==
    /\ Turn(i)
    /\ next' = NextIndex(i, Len(seen))
    /\ seen' = NoSnapshot
    /\ UNCHANGED <<bus, count>>

(* Registers cannot be read, as when there is nothing at the position any  *)
(* more.                                                                   *)
ReadFails(i) ==
    /\ Attempt(i)
    /\ UNCHANGED <<baselines, source>>

ReadCounters(i) ==
    LET key == Key(seen, i + 1)
    IN  /\ i < Len(bus)
        /\ Attempt(i)
        /\ baselines' = Put(baselines, key, [ name     |-> NameOf[seen[i + 1]],
                                              counters |-> count[bus[i + 1]] ])
        /\ source' = IF HasOwnAlias(key)
                     THEN Put(source, key, [ device |-> bus[i + 1],
                                             moved  |-> bus # seen,
                                             errors |-> [c \in Counter |-> 0] ])
                     ELSE source

Positions == UNION { { i - 1 : i \in DOMAIN b } : b \in Bus }

Process == NothingOnline \/ \E i \in Positions : ReadFails(i) \/ ReadCounters(i)

Next ==
    \/ Connect
    \/ \E d \in Device : ClearCounters(d) \/ \E c \in Counter : CountError(d, c)
    \/ TakeSnapshot
    \/ Process

Spec == Init /\ [][Next]_vars

(* Masters keep being read, and no slave fails to answer for ever.         *)
FairSpec ==
    /\ Spec
    /\ WF_vars(TakeSnapshot) /\ WF_vars(Process)
    /\ \A i \in Positions : SF_vars(ReadCounters(i))

-----------------------------------------------------------------------------

(* Every variable has the type of what it models; the index that is kept   *)
(* is one of a slave.                                                      *)
TypeOK ==
    /\ bus \in Bus
    /\ seen \in Bus \union {NoSnapshot}
    /\ count \in [Device -> Counters]
    /\ next \in Positions \union {0}
    /\ DOMAIN baselines \subseteq Keys /\ DOMAIN source \subseteq DOMAIN baselines
    /\ \A k \in DOMAIN baselines : baselines[k].counters \in Counters

(* A slave with an alias of its own is never said to have more new errors  *)
(* than it counted since its counters were last read, wherever it was      *)
(* moved and whatever was cleared, unless the bus changed between the      *)
(* snapshot and one of the readings (PortErrorTracker::process).           *)
ReportedErrorsHappened ==
    \A i \in Positions : Turn(i) /\ i < Len(bus) =>
        \A e \in Events(i) :
            \/ ~HasOwnAlias(e.key)
            \/ source[e.key].moved \/ bus # seen
            \/ /\ source[e.key].device = bus[i + 1]
               /\ e.new - e.old <= source[e.key].errors[e.counter]

(* On a bus that does not change any more, the round robin comes to every  *)
(* slave again and again, from whatever index it starts: all counters      *)
(* become known (PortErrorMonitor::process).                               *)
CountersAreFollowed ==
    \A b \in Bus : \A i \in 1..Len(b) :
        <>[](bus = b) =>
            []<>(/\ Key(b, i) \in DOMAIN baselines
                 /\ baselines[Key(b, i)].counters = count[b[i]])

=============================================================================
