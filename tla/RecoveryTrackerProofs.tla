------------------------ MODULE RecoveryTrackerProofs -----------------------
(***************************************************************************)
(* Theorems of RecoveryTracker, for every set of snapshots.                *)
(***************************************************************************)
EXTENDS RecoveryTracker, SnapshotProofs, TLAPS

(* What the fields of a snapshot are.                                      *)
LEMMA SnapshotFields ==
    ASSUME NEW s \in Snapshot
    PROVE  /\ s \in NetworkSnapshot
           /\ s # NoSnapshot
           /\ s.ts \in Nat
           /\ s.link \in BOOLEAN
           /\ SlaveCount(s) \in Nat
           /\ Identities(s) \subseteq SlaveIdentity
           /\ DOMAIN s.slaves = 1..SlaveCount(s)
           /\ \A i \in DOMAIN s.slaves : s.slaves[i] \in Slave
<1>1. s \in NetworkSnapshot /\ s # NoSnapshot
  BY SnapshotAssumption
<1>2. s.ts \in Nat /\ s.link \in BOOLEAN /\ s.slaves \in Seq(Slave)
  BY <1>1 DEF NetworkSnapshot
<1>3. /\ SlaveCount(s) \in Nat
      /\ DOMAIN s.slaves = 1..SlaveCount(s)
      /\ \A i \in DOMAIN s.slaves : s.slaves[i] \in Slave
  BY <1>2 DEF SlaveCount
<1>4. Identities(s) \subseteq SlaveIdentity
  BY <1>3 DEF Identities, Slave
<1>5. QED
  BY <1>1, <1>2, <1>3, <1>4

(* The slaves announced lost are those that could be recognised and are    *)
(* not there any more.                                                     *)
LEMMA AnnouncedLost ==
    ASSUME NEW p, NEW c
    PROVE  LostIdentities(LostEvents(p, c)) =
               { id \in StableIdentities(p) : ~ContainsIdentity(c, id) }
<1>1. ASSUME NEW e \in LostEvents(p, c)
      PROVE  e.id \in StableIdentities(p) /\ ~ContainsIdentity(c, e.id)
  BY DEF LostEvents, StableIdentities, Identities
<1>2. ASSUME NEW id \in StableIdentities(p), ~ContainsIdentity(c, id)
      PROVE  \E e \in LostEvents(p, c) : e.id = id
  <2>1. PICK i \in DOMAIN p.slaves : p.slaves[i].id = id /\ Valid(id)
    BY DEF StableIdentities, Identities
  <2> DEFINE e == [ type |-> "SLAVE_LOST", ts |-> c.ts, position |-> i - 1,
                    id |-> p.slaves[i].id, old |-> 1, new |-> 0 ]
  <2>2. e \in LostEvents(p, c)
    BY <1>2, <2>1 DEF LostEvents
  <2>3. e.id = id
    BY <2>1
  <2>4. QED
    BY <2>2, <2>3
<1>3. \A e \in LostEvents(p, c) : e.type = "SLAVE_LOST"
  BY DEF LostEvents
<1>4. LostIdentities(LostEvents(p, c)) = { e.id : e \in LostEvents(p, c) }
  BY <1>3 DEF LostIdentities
<1>5. QED
  BY <1>1, <1>2, <1>4

(* The other events of a snapshot announce no loss.                        *)
LEMMA LostIsAbsent ==
    ASSUME NEW p \in Snapshot, NEW c \in Snapshot
    PROVE  LostIdentities(Detected(p, c)) =
               { id \in StableIdentities(p) : ~ContainsIdentity(c, id) }
<1>1. p # NoSnapshot /\ p.link \in BOOLEAN /\ c.link \in BOOLEAN
  BY SnapshotFields
<1>2. \A e \in LinkEvents(p, c) : e.type # "SLAVE_LOST"
  BY <1>1 DEF LinkEvents, BusEvent
<1>3. \A e \in CountEvents(p, c) : e.type # "SLAVE_LOST"
  BY DEF CountEvents, BusEvent
<1>4. \A e \in StateEvents(p, c) : e.type # "SLAVE_LOST"
  BY DEF StateEvents
<1>5. \A e \in LostEvents(p, c) : e.type = "SLAVE_LOST"
  BY DEF LostEvents
<1>6. { e \in Detected(p, c) : e.type = "SLAVE_LOST" } = LostEvents(p, c)
  BY <1>1, <1>2, <1>3, <1>4, <1>5, Zenon DEF Detected
<1>7. QED
  BY <1>5, <1>6, AnnouncedLost DEF LostIdentities

(* The tracker is triggered by exactly three changes between snapshots.    *)
LEMMA TriggersAreFaults ==
    ASSUME NEW p \in Snapshot, NEW c \in Snapshot
    PROVE  Triggers(Detected(p, c)) # {} <=>
               \/ p.link /\ ~c.link
               \/ SlaveCount(c) < SlaveCount(p)
               \/ \E id \in StableIdentities(p) : ~ContainsIdentity(c, id)
<1>1. p # NoSnapshot /\ SlaveCount(p) \in Nat /\ SlaveCount(c) \in Nat
      /\ p.link \in BOOLEAN /\ c.link \in BOOLEAN
  BY SnapshotFields
<1>2. (\E e \in LinkEvents(p, c) : IsFaultTrigger(e)) <=> (p.link /\ ~c.link)
  <2>1. CASE p.link /\ ~c.link
    <3>1. BusEvent("MASTER_LINK_DOWN", c.ts, 1, 0) \in LinkEvents(p, c)
      BY <2>1 DEF LinkEvents
    <3>2. IsFaultTrigger(BusEvent("MASTER_LINK_DOWN", c.ts, 1, 0))
      BY DEF IsFaultTrigger, BusEvent
    <3>3. QED
      BY <2>1, <3>1, <3>2
  <2>2. CASE ~p.link /\ c.link
    <3>1. LinkEvents(p, c) = { BusEvent("MASTER_LINK_UP", c.ts, 0, 1) }
      BY <1>1, <2>2 DEF LinkEvents
    <3>2. ~IsFaultTrigger(BusEvent("MASTER_LINK_UP", c.ts, 0, 1))
      BY DEF IsFaultTrigger, BusEvent
    <3>3. QED
      BY <2>2, <3>1, <3>2
  <2>3. CASE p.link = c.link
    <3>1. LinkEvents(p, c) = {}
      BY <1>1, <2>3 DEF LinkEvents
    <3>2. QED
      BY <1>1, <2>3, <3>1
  <2>4. QED
    BY <1>1, <2>1, <2>2, <2>3
<1>3. (\E e \in CountEvents(p, c) : IsFaultTrigger(e))
        <=> SlaveCount(c) < SlaveCount(p)
  <2> DEFINE e == BusEvent("SLAVE_COUNT_CHANGED", c.ts, SlaveCount(p), SlaveCount(c))
  <2>1. IsFaultTrigger(e) <=> SlaveCount(c) < SlaveCount(p)
    BY <1>1 DEF IsFaultTrigger, BusEvent
  <2>2. CountEvents(p, c) = IF SlaveCount(p) = SlaveCount(c) THEN {} ELSE {e}
    BY DEF CountEvents
  <2> HIDE DEF e
  <2>3. QED
    BY <1>1, <2>1, <2>2
<1>4. (\E e \in LostEvents(p, c) : IsFaultTrigger(e))
        <=> \E id \in StableIdentities(p) : ~ContainsIdentity(c, id)
  <2>1. (\E e \in LostEvents(p, c) : IsFaultTrigger(e)) <=> LostEvents(p, c) # {}
    BY DEF LostEvents, IsFaultTrigger
  <2>2. LostEvents(p, c) # {} <=> LostIdentities(LostEvents(p, c)) # {}
    BY DEF LostEvents, LostIdentities
  <2>3. QED
    BY <2>1, <2>2, AnnouncedLost
<1>5. ~ \E e \in StateEvents(p, c) : IsFaultTrigger(e)
  BY DEF StateEvents, IsFaultTrigger
<1>6. QED
  BY <1>1, <1>2, <1>3, <1>4, <1>5, Zenon DEF Triggers, Detected

-----------------------------------------------------------------------------
(* The types of what process builds.                                       *)
LEMMA EpisodeType ==
    /\ \A p, c \in Snapshot : OpenEpisode(p, c) \in FaultEpisode
    /\ \A e \in FaultEpisode, c \in Snapshot : Updated(e, c) \in FaultEpisode
<1>1. ASSUME NEW p \in Snapshot, NEW c \in Snapshot
      PROVE  OpenEpisode(p, c) \in FaultEpisode
  BY SnapshotFields DEF OpenEpisode, FaultEpisode
<1>2. ASSUME NEW e \in FaultEpisode, NEW c \in Snapshot
      PROVE  Updated(e, c) \in FaultEpisode
  BY SnapshotFields DEF Updated, FaultEpisode
<1>3. QED
  BY <1>1, <1>2

(* A recovery made from an episode has its type.                           *)
LEMMA RecoveryType ==
    ASSUME NEW e \in FaultEpisode, NEW c \in Snapshot
    PROVE  RecoveryOf(e, c) \in RecoveryEvent
<1>1. /\ c.ts \in Nat /\ SlaveCount(c) \in Nat
      /\ e.started \in Nat /\ e.minimumCount \in Nat
      /\ e.missing \in SUBSET SlaveIdentity
  BY SnapshotFields DEF FaultEpisode
<1>2. (IF c.ts >= e.started THEN c.ts - e.started ELSE 0) \in Nat
  BY <1>1
<1>3. \A id \in e.missing : PositionOf(c, id) \in Int
  BY <1>1, SnapshotFields, PositionIsFound
<1>4. { <<id, PositionOf(c, id)>> : id \in e.missing }
        \in SUBSET (SlaveIdentity \X Int)
  BY <1>1, <1>3
<1>5. QED
  BY <1>1, <1>2, <1>4 DEF RecoveryOf, RecoveryEvent

(* What a handled snapshot does to the tracker, case by case.              *)
LEMMA ProcessCases ==
    ASSUME TypeOK, NEW current \in Snapshot, Process(current)
    PROVE  LET events == Detected(previous, current)
               tracked == Updated(episode, current)
           IN  /\ previous' = current
               /\ \/ /\ Opens(events)
                     /\ previous \in Snapshot
                     /\ episode' = Updated(OpenEpisode(previous, current), current)
                     /\ recovery' = NoRecovery
                     /\ lost' = LostIdentities(events)
                     /\ lowest' = SlaveCount(current)
                  \/ /\ episode = NoEpisode
                     /\ ~Opens(events)
                     /\ episode' = NoEpisode
                     /\ recovery' = NoRecovery
                  \/ /\ episode \in FaultEpisode
                     /\ ~Opens(events)
                     /\ tracked \in FaultEpisode
                     /\ lost' = LostIdentities(events) \union lost
                     /\ lowest' = IF SlaveCount(current) < lowest
                                  THEN SlaveCount(current) ELSE lowest
                     /\ IF TopologyRecovered(tracked, current)
                        THEN /\ episode' = NoEpisode
                             /\ recovery' = RecoveryOf(tracked, current)
                        ELSE /\ episode' = tracked
                             /\ recovery' = NoRecovery
<1> DEFINE events == Detected(previous, current)
<1>1. CASE Opens(events)
  <2>1. previous \in Snapshot /\ episode = NoEpisode
    BY <1>1 DEF Opens, TypeOK
  <2>2. QED
    BY <1>1, <2>1, Zenon DEF Process, Track
<1>2. CASE ~Opens(events) /\ episode = NoEpisode
  BY <1>2, Zenon DEF Process, Track
<1>3. CASE ~Opens(events) /\ episode # NoEpisode
  <2>1. episode \in FaultEpisode
    BY <1>3 DEF TypeOK
  <2>2. Updated(episode, current) \in FaultEpisode
    BY <2>1, EpisodeType
  <2> DEFINE tracked == Updated(episode, current)
  <2>3. /\ previous' = current
        /\ lost' = LostIdentities(events) \union lost
        /\ lowest' = IF SlaveCount(current) < lowest
                     THEN SlaveCount(current) ELSE lowest
    BY <1>3, Zenon DEF Process
  <2>4. Track(current, events)
    BY Zenon DEF Process
  <2>5. IF TopologyRecovered(tracked, current)
        THEN /\ episode' = NoEpisode
             /\ recovery' = RecoveryOf(tracked, current)
        ELSE /\ episode' = tracked
             /\ recovery' = NoRecovery
    BY <1>3, <2>4, Zenon DEF Track
  <2>6. QED
    BY <1>3, <2>1, <2>2, <2>3, <2>5, Zenon
<1>4. QED
  BY <1>1, <1>2, <1>3

-----------------------------------------------------------------------------
(* No step leaves the types.                                               *)
LEMMA StepKeepsType == TypeOK /\ [Next]_vars => TypeOK'
<1> SUFFICES ASSUME TypeOK, [Next]_vars PROVE TypeOK'
  OBVIOUS
<1>1. CASE UNCHANGED vars
  BY <1>1 DEF TypeOK, vars
<1>2. ASSUME NEW current \in Snapshot, Process(current)
      PROVE  TypeOK'
  <2> DEFINE events == Detected(previous, current)
  <2>1. previous' = current
    BY <1>2, ProcessCases
  <2>2. LostIdentities(events) \subseteq SlaveIdentity
    <3>1. CASE previous = NoSnapshot
      BY <3>1 DEF LostIdentities, Detected
    <3>2. CASE previous \in Snapshot
      BY <3>2, LostIsAbsent, SnapshotFields DEF StableIdentities
    <3>3. QED
      BY <3>1, <3>2 DEF TypeOK
  <2>3. lost' \subseteq SlaveIdentity
    BY <1>2, <2>2 DEF Process, TypeOK
  <2>4. lowest' \in Nat
    BY <1>2, SnapshotFields DEF Process, TypeOK
  <2>5. /\ episode' \in FaultEpisode \union {NoEpisode}
        /\ recovery' \in RecoveryEvent \union {NoRecovery}
    BY <1>2, ProcessCases, EpisodeType, RecoveryType
  <2>6. QED
    BY <2>1, <2>3, <2>4, <2>5 DEF TypeOK
<1>3. QED
  BY <1>1, <1>2 DEF Next

(* TypeOK holds in every reachable state: whatever snapshots come, every   *)
(* variable of the tracker keeps its type.                                 *)
THEOREM TypeCorrect == Spec => []TypeOK
<1>1. Init => TypeOK
  BY DEF Init, TypeOK
<1>2. QED
  BY <1>1, StepKeepsType, PTL DEF Spec

(* The strengthening that makes EpisodeMatchesLosses inductive: an open    *)
(* episode has a snapshot before it, it only expects slaves that can be    *)
(* compared, and one of them that the last snapshot does not have is       *)
(* missing already, so the next one cannot be the first to notice.         *)
EpisodeIInv ==
    /\ TypeOK
    /\ EpisodeMatchesLosses
    /\ episode # NoEpisode =>
            /\ previous # NoSnapshot
            /\ \A id \in episode.expected :
                    /\ Valid(id)
                    /\ ~ContainsIdentity(previous, id) => id \in episode.missing

(* Updated changes two fields only.                                        *)
LEMMA UpdatedFields ==
    ASSUME NEW e \in FaultEpisode, NEW c \in Snapshot
    PROVE  LET u == Updated(e, c)
           IN  /\ u.started = e.started
               /\ u.expected = e.expected
               /\ u.expectedCount = e.expectedCount
               /\ u.missing = e.missing \union
                        { id \in e.expected : ~ContainsIdentity(c, id) }
               /\ u.minimumCount = IF SlaveCount(c) < e.minimumCount
                                   THEN SlaveCount(c) ELSE e.minimumCount
               /\ TopologyRecovered(u, c) <=> TopologyRecovered(e, c)
BY DEF Updated, FaultEpisode, TopologyRecovered

(* Opening an episode establishes the invariant ...                        *)
LEMMA OpeningMatches ==
    ASSUME TypeOK, NEW current \in Snapshot, Process(current),
           Opens(Detected(previous, current))
    PROVE  EpisodeIInv'
<1> DEFINE e == OpenEpisode(previous, current)
           events == Detected(previous, current)
<1>1. /\ previous \in Snapshot
      /\ previous' = current
      /\ episode' = Updated(e, current)
      /\ recovery' = NoRecovery
      /\ lost' = LostIdentities(events)
      /\ lowest' = SlaveCount(current)
  BY ProcessCases DEF Opens
<1>2. e \in FaultEpisode
  BY <1>1, EpisodeType
<1>3. /\ e.expected = Identities(previous)
      /\ e.expectedCount = SlaveCount(previous)
      /\ e.minimumCount = SlaveCount(current)
      /\ e.missing = {}
  BY DEF OpenEpisode
<1>4. StableIdentities(previous) = Identities(previous)
      /\ \A id \in Identities(previous) : Valid(id)
  BY DEF Opens, AllValid, StableIdentities
<1> HIDE DEF e
<1>5. episode'.missing = { id \in episode'.expected : ~ContainsIdentity(current, id) }
  BY <1>1, <1>2, <1>3, UpdatedFields
<1>6. lost' = episode'.missing
  BY <1>1, <1>2, <1>3, <1>4, <1>5, UpdatedFields, LostIsAbsent
<1>7. episode'.minimumCount = SlaveCount(current) /\ SlaveCount(current) \in Nat
  BY <1>1, <1>2, <1>3, UpdatedFields, SnapshotFields
<1>8. ~TopologyRecovered(e, current)
  <2>1. \/ previous.link /\ ~current.link
        \/ SlaveCount(current) < SlaveCount(previous)
        \/ \E id \in Identities(previous) : ~ContainsIdentity(current, id)
    BY <1>1, <1>4, TriggersAreFaults DEF Opens
  <2>2. SlaveCount(previous) \in Nat /\ SlaveCount(current) \in Nat
    BY <1>1, SnapshotFields
  <2>3. QED
    BY <1>3, <2>1, <2>2 DEF TopologyRecovered
<1>9. ~TopologyRecovered(episode', current)
  BY <1>1, <1>2, <1>8, UpdatedFields
<1>10. TypeOK'
  BY StepKeepsType DEF Next
<1>11. EpisodeMatchesLosses'
  BY <1>1, <1>5, <1>6, <1>7, <1>9 DEF EpisodeMatchesLosses, TopologyRecovered
<1>12. \A id \in episode'.expected :
          Valid(id) /\ (~ContainsIdentity(current, id) => id \in episode'.missing)
  BY <1>1, <1>2, <1>3, <1>4, <1>5, UpdatedFields
<1>13. current # NoSnapshot
  BY SnapshotFields
<1>14. QED
  BY <1>1, <1>10, <1>11, <1>12, <1>13 DEF EpisodeIInv

(* ... and tracking an open one keeps it, or ends in a true recovery.      *)
LEMMA TrackingMatches ==
    ASSUME EpisodeIInv, NEW current \in Snapshot, Process(current),
           episode # NoEpisode
    PROVE  EpisodeIInv' /\ RecoveryIsAccurate'
<1> DEFINE e == Updated(episode, current)
           events == Detected(previous, current)
<1>1. /\ previous \in Snapshot
      /\ episode \in FaultEpisode
      /\ e \in FaultEpisode
      /\ previous' = current
      /\ lost' = LostIdentities(events) \union lost
      /\ lowest' = IF SlaveCount(current) < lowest
                   THEN SlaveCount(current) ELSE lowest
      /\ lowest \in Nat /\ SlaveCount(current) \in Nat
  BY ProcessCases, SnapshotFields DEF EpisodeIInv, TypeOK, Opens
<1>2. IF TopologyRecovered(e, current)
      THEN episode' = NoEpisode /\ recovery' = RecoveryOf(e, current)
      ELSE episode' = e /\ recovery' = NoRecovery
  BY ProcessCases DEF EpisodeIInv, Opens
<1>3. /\ e.expected = episode.expected
      /\ e.missing = episode.missing \union
            { id \in episode.expected : ~ContainsIdentity(current, id) }
      /\ e.minimumCount = IF SlaveCount(current) < episode.minimumCount
                          THEN SlaveCount(current) ELSE episode.minimumCount
      /\ e.expected \subseteq SlaveIdentity
  BY <1>1, UpdatedFields DEF FaultEpisode
<1> HIDE DEF e
<1>4. /\ episode.missing = lost \intersect episode.expected
      /\ episode.minimumCount = lowest
      /\ \A id \in episode.expected :
            Valid(id) /\ (~ContainsIdentity(previous, id) => id \in episode.missing)
  BY DEF EpisodeIInv, EpisodeMatchesLosses
<1>5. e.missing = lost' \intersect e.expected
  <2>1. lost' = lost \union
            { id \in StableIdentities(previous) : ~ContainsIdentity(current, id) }
    BY <1>1, LostIsAbsent
  <2>2. \A id \in episode.expected : id \in StableIdentities(previous)
            \/ id \in episode.missing
    BY <1>4 DEF ContainsIdentity
  <2>3. QED
    BY <1>3, <1>4, <2>1, <2>2
<1>6. e.minimumCount = lowest'
  BY <1>1, <1>3, <1>4
<1>7. \A id \in e.expected :
        Valid(id) /\ (~ContainsIdentity(current, id) => id \in e.missing)
  BY <1>3, <1>4
<1>8. TypeOK'
  BY StepKeepsType DEF Next, EpisodeIInv
<1>9. CASE ~TopologyRecovered(e, current)
  <2>1. episode' = e /\ recovery' = NoRecovery /\ current # NoSnapshot
    BY <1>2, <1>9, SnapshotFields
  <2>2. EpisodeMatchesLosses'
    BY <1>1, <1>5, <1>6, <1>9, <2>1 DEF EpisodeMatchesLosses, TopologyRecovered
  <2>3. QED
    BY <1>1, <1>7, <1>8, <2>1, <2>2 DEF EpisodeIInv, RecoveryIsAccurate
<1>10. CASE TopologyRecovered(e, current)
  <2>1. episode' = NoEpisode /\ recovery' = RecoveryOf(e, current)
    BY <1>2, <1>10
  <2>2. EpisodeIInv'
    BY <1>8, <2>1 DEF EpisodeIInv, EpisodeMatchesLosses
  <2>3. /\ recovery'.recoveredCount = SlaveCount(current)
        /\ recovery'.faultCount = lowest'
        /\ recovery'.recovered = { <<id, PositionOf(current, id)>> : id \in e.missing }
    BY <1>6, <2>1 DEF RecoveryOf
  <2>4. current.link /\ \A id \in e.missing : ContainsIdentity(current, id)
    BY <1>5, <1>10 DEF TopologyRecovered
  <2>5. lowest' <= SlaveCount(current)
    BY <1>1
  <2>6. \A r \in recovery'.recovered :
            /\ r[1] \in lost'
            /\ r[2] + 1 \in DOMAIN current.slaves
            /\ current.slaves[r[2] + 1].id = r[1]
    <3>1. ASSUME NEW id \in e.missing
          PROVE  /\ id \in lost'
                 /\ PositionOf(current, id) + 1 \in DOMAIN current.slaves
                 /\ current.slaves[PositionOf(current, id) + 1].id = id
      BY <1>3, <1>5, <2>4, PositionIsFound, SnapshotFields
    <3>2. QED
      BY <2>3, <3>1
  <2>7. RecoveryIsAccurate'
    BY <1>1, <2>3, <2>4, <2>5, <2>6 DEF RecoveryIsAccurate
  <2>8. QED
    BY <2>2, <2>7
<1>11. QED
  BY <1>9, <1>10

(* The invariant of the tracker holds in every reachable state.            *)
LEMMA EpisodeInvariant == Spec => [](EpisodeIInv /\ RecoveryIsAccurate)
<1> DEFINE IInv == EpisodeIInv /\ RecoveryIsAccurate
<1>1. Init => IInv
  BY DEF Init, EpisodeIInv, EpisodeMatchesLosses, RecoveryIsAccurate, TypeOK
<1>2. IInv /\ [Next]_vars => IInv'
  <2> SUFFICES ASSUME IInv, [Next]_vars PROVE IInv'
    OBVIOUS
  <2>1. CASE UNCHANGED vars
    BY <2>1 DEF vars, EpisodeIInv, EpisodeMatchesLosses, RecoveryIsAccurate,
                TypeOK
  <2>2. ASSUME NEW current \in Snapshot, Process(current) PROVE IInv'
    <3>1. CASE episode # NoEpisode
      BY <2>2, <3>1, TrackingMatches
    <3>2. CASE Opens(Detected(previous, current))
      <4>1. recovery' = NoRecovery
        BY <2>2, <3>2, ProcessCases DEF EpisodeIInv, Opens, Process, Track
      <4>2. QED
        BY <2>2, <3>2, <4>1, OpeningMatches DEF EpisodeIInv, RecoveryIsAccurate
    <3>3. CASE episode = NoEpisode /\ ~Opens(Detected(previous, current))
      <4>1. episode' = NoEpisode /\ recovery' = NoRecovery
        BY <2>2, <3>3, Zenon DEF Process, Track
      <4>2. TypeOK'
        BY <2>2, StepKeepsType DEF Next, EpisodeIInv
      <4>3. QED
        BY <4>1, <4>2 DEF EpisodeIInv, EpisodeMatchesLosses, RecoveryIsAccurate
    <3>4. QED
      BY <3>1, <3>2, <3>3
  <2>3. QED
    BY <2>1, <2>2 DEF Next
<1>3. QED
  BY <1>1, <1>2, PTL DEF Spec

(* EpisodeMatchesLosses for every set of snapshots: the tracker, which     *)
(* compares with the bus before the fault, and the detector, which         *)
(* compares with the last snapshot, agree on what is missing.              *)
THEOREM EpisodesMatchLosses == Spec => []EpisodeMatchesLosses
<1>1. EpisodeIInv => EpisodeMatchesLosses
  BY DEF EpisodeIInv
<1>2. QED
  BY <1>1, EpisodeInvariant, PTL

(* RecoveryIsAccurate for every set of snapshots: what RecoveryTracker     *)
(* reports as recovered is on the bus, where the report says it is.        *)
THEOREM RecoveriesAreAccurate == Spec => []RecoveryIsAccurate
BY EpisodeInvariant, PTL

-----------------------------------------------------------------------------
(* FaultsAreTracked for every set of snapshots: a fault the tracker can    *)
(* identify opens an episode or finds one open.                            *)
THEOREM FaultsTracked == Spec => FaultsAreTracked
<1> DEFINE Fault == /\ previous # NoSnapshot
                    /\ AllValid(previous)
                    /\ \/ previous.link /\ ~previous'.link
                       \/ SlaveCount(previous') < SlaveCount(previous)
                       \/ \E id \in Identities(previous) :
                            ~ContainsIdentity(previous', id)
           Tracked == episode' # NoEpisode
                        \/ (episode # NoEpisode /\ recovery' # NoRecovery)
<1>1. TypeOK /\ [Next]_vars => [Fault => Tracked]_vars
  <2> SUFFICES ASSUME TypeOK, NEW current \in Snapshot, Process(current), Fault
               PROVE  Tracked
    BY DEF Next
  <2>1. previous' = current /\ previous \in Snapshot
    BY ProcessCases DEF TypeOK
  <2>2. Triggers(Detected(previous, current)) # {}
    <3>1. Identities(previous) = StableIdentities(previous)
      BY DEF AllValid, StableIdentities
    <3>2. QED
      BY <2>1, <3>1, TriggersAreFaults
  <2>3. CASE episode = NoEpisode
    <3>1. Opens(Detected(previous, current))
      BY <2>1, <2>2, <2>3 DEF Opens
    <3>2. episode' \in FaultEpisode
      BY <2>1, <3>1, ProcessCases, EpisodeType DEF Opens
    <3>3. QED
      BY <3>2, OptionAssumption
  <2>4. CASE episode # NoEpisode
    <3>1. episode' \in FaultEpisode \/ recovery' \in RecoveryEvent
      BY <2>1, <2>4, ProcessCases, RecoveryType DEF Opens
    <3>2. QED
      BY <2>4, <3>1, OptionAssumption
  <2>5. QED
    BY <2>3, <2>4
<1>2. QED
  BY <1>1, TypeCorrect, PTL DEF Spec, FaultsAreTracked

(* EpisodesEndInRecovery for every set of snapshots: what the bus was      *)
(* before the fault is kept until a recovery brings all of it back.        *)
THEOREM EpisodesRecover == Spec => EpisodesEndInRecovery
<1> DEFINE Ends == IF episode' = NoEpisode
                   THEN /\ recovery' # NoRecovery
                        /\ episode.expected \subseteq Identities(previous')
                        /\ recovery'.started = episode.started
                   ELSE /\ episode'.expected = episode.expected
                        /\ episode'.expectedCount = episode.expectedCount
                        /\ episode'.started = episode.started
<1>1. TypeOK /\ [Next]_vars => [episode # NoEpisode => Ends]_vars
  <2> SUFFICES ASSUME TypeOK, NEW current \in Snapshot, Process(current),
                      episode # NoEpisode
               PROVE  Ends
    BY DEF Next
  <2> DEFINE e == Updated(episode, current)
  <2>1. /\ previous' = current
        /\ episode \in FaultEpisode /\ e \in FaultEpisode
        /\ IF TopologyRecovered(e, current)
           THEN episode' = NoEpisode /\ recovery' = RecoveryOf(e, current)
           ELSE episode' = e
    BY ProcessCases DEF Opens
  <2>2. /\ e.started = episode.started
        /\ e.expected = episode.expected
        /\ e.expectedCount = episode.expectedCount
    BY <2>1, UpdatedFields
  <2> HIDE DEF e
  <2>3. CASE TopologyRecovered(e, current)
    <3>1. recovery' \in RecoveryEvent /\ recovery'.started = e.started
      BY <2>1, <2>3, RecoveryType DEF RecoveryOf
    <3>2. e.expected \subseteq Identities(current)
      BY <2>3 DEF TopologyRecovered, ContainsIdentity, StableIdentities
    <3>3. QED
      BY <2>1, <2>2, <2>3, <3>1, <3>2, OptionAssumption
  <2>4. CASE ~TopologyRecovered(e, current)
    BY <2>1, <2>2, <2>4, OptionAssumption
  <2>5. QED
    BY <2>3, <2>4
<1>2. QED
  BY <1>1, TypeCorrect, PTL DEF Spec, EpisodesEndInRecovery

=============================================================================
