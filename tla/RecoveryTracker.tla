--------------------------- MODULE RecoveryTracker --------------------------
(***************************************************************************)
(* One master's detection of faults and of recoveries: EventDetector and   *)
(* RecoveryTracker (src/src/detection/), fed with the same snapshots.  The *)
(* detector's previous_ and the daemon's previous_snapshot are both set to *)
(* every snapshot handled, so they are one variable here.                  *)
(*                                                                         *)
(* A snapshot is any member of Snapshot: a read may be torn by a change of *)
(* the bus, two snapshots may be far apart because reads failed between    *)
(* them, and the wall clock may step back.                                 *)
(***************************************************************************)
EXTENDS EventDetector

CONSTANT Snapshot    \* what a successful read can return

ASSUME SnapshotAssumption ==
    /\ Snapshot \subseteq NetworkSnapshot
    /\ NoSnapshot \notin Snapshot

(* The two identity lists are sets, their order is that of the bus.        *)
FaultEpisode ==
    [ started : Nat, expectedCount : Nat, minimumCount : Nat,
      expected : SUBSET SlaveIdentity, missing : SUBSET SlaveIdentity ]

(* Where each recovered identity is now: the list of identities and the    *)
(* list of positions that goes with it, as a set of pairs.                 *)
RecoveryEvent ==
    [ ts : Nat, started : Nat, duration : Nat, faultCount : Nat,
      recoveredCount : Nat, recovered : SUBSET (SlaveIdentity \X Int) ]

ASSUME OptionAssumption ==
    /\ NoEpisode \notin FaultEpisode
    /\ NoRecovery \notin RecoveryEvent

VARIABLES
    previous,   \* EventDetector::previous_ and runtime.previous_snapshot
    episode,    \* RecoveryTracker::episode_
    recovery,   \* what the last process call returned
    lost,       \* history: identities announced lost since the episode opened
    lowest      \* history: fewest slaves seen since the episode opened

vars == <<previous, episode, recovery, lost, lowest>>

-----------------------------------------------------------------------------

(* Faulty variants, for mutation checks only.                              *)
IgnoresLinkDown(event) ==
    \/ event.type = "SLAVE_LOST"
    \/ event.type = "SLAVE_COUNT_CHANGED" /\ event.new < event.old

IsFaultTrigger(event) ==
    \/ event.type = "MASTER_LINK_DOWN"
    \/ event.type = "SLAVE_LOST"
    \/ event.type = "SLAVE_COUNT_CHANGED" /\ event.new < event.old

Triggers(events) == { e \in events : IsFaultTrigger(e) }

(* Faulty variants, for mutation checks only.                              *)
TracksNothingMissing(e, current) == e

RecoveredByCount(e, current) ==
    current.link /\ SlaveCount(current) >= e.expectedCount

(* The episode as process opens it, before it looks at the new snapshot.   *)
OpenEpisode(before, current) ==
    [ started       |-> current.ts,
      expectedCount |-> SlaveCount(before),
      minimumCount  |-> SlaveCount(current),
      expected      |-> Identities(before),
      missing       |-> {} ]

(* The minimum and appendMissingIdentities.                                *)
Updated(e, current) ==
    [e EXCEPT
        !.minimumCount = IF SlaveCount(current) < @ THEN SlaveCount(current) ELSE @,
        !.missing = @ \union { id \in e.expected : ~ContainsIdentity(current, id) }]

TopologyRecovered(e, current) ==
    /\ current.link
    /\ SlaveCount(current) >= e.expectedCount
    /\ \A id \in e.expected : ContainsIdentity(current, id)

(* Faulty variant, for mutation checks only: trusts the clock.             *)
RecoveryUnguarded(e, current) ==
    [ ts             |-> current.ts,
      started        |-> e.started,
      duration       |-> current.ts - e.started,
      faultCount     |-> e.minimumCount,
      recoveredCount |-> SlaveCount(current),
      recovered      |-> { <<id, PositionOf(current, id)>> : id \in e.missing } ]

RecoveryOf(e, current) ==
    [ ts             |-> current.ts,
      started        |-> e.started,
      duration       |-> IF current.ts >= e.started
                         THEN current.ts - e.started ELSE 0,
      faultCount     |-> e.minimumCount,
      recoveredCount |-> SlaveCount(current),
      recovered      |-> { <<id, PositionOf(current, id)>> : id \in e.missing } ]

(* An episode opens only if every slave of the last good bus can be        *)
(* recognised again.                                                       *)
Opens(events) ==
    /\ episode = NoEpisode
    /\ Triggers(events) # {}
    /\ previous # NoSnapshot
    /\ AllValid(previous)

-----------------------------------------------------------------------------

Init ==
    /\ previous = NoSnapshot
    /\ episode = NoEpisode
    /\ recovery = NoRecovery
    /\ lost = {}
    /\ lowest = 0

LostIdentities(events) == { e.id : e \in { f \in events : f.type = "SLAVE_LOST" } }

(* RecoveryTracker::process.                                               *)
Track(current, events) ==
    LET tracked == Updated(episode, current)
    IN  CASE Opens(events) ->
                /\ episode' = Updated(OpenEpisode(previous, current), current)
                /\ recovery' = NoRecovery
          [] episode = NoEpisode /\ ~Opens(events) ->
                /\ episode' = NoEpisode
                /\ recovery' = NoRecovery
          [] episode # NoEpisode ->
                IF TopologyRecovered(tracked, current)
                THEN /\ episode' = NoEpisode
                     /\ recovery' = RecoveryOf(tracked, current)
                ELSE /\ episode' = tracked
                     /\ recovery' = NoRecovery

(* The part of the snapshot handler that detects events and recoveries.    *)
Process(current) ==
    LET events == Detected(previous, current)
    IN  /\ Track(current, events)
        /\ previous' = current
        /\ lost' = CASE Opens(events) -> LostIdentities(events)
                     [] episode = NoEpisode /\ ~Opens(events) -> {}
                     [] episode # NoEpisode -> lost \union LostIdentities(events)
        /\ lowest' = CASE Opens(events) -> SlaveCount(current)
                       [] episode = NoEpisode /\ ~Opens(events) -> 0
                       [] episode # NoEpisode ->
                            IF SlaveCount(current) < lowest
                            THEN SlaveCount(current) ELSE lowest

Next == \E current \in Snapshot : Process(current)

Spec == Init /\ [][Next]_vars

-----------------------------------------------------------------------------

(* Every variable has the type of the member it models.                    *)
TypeOK ==
    /\ previous \in Snapshot \union {NoSnapshot}
    /\ episode \in FaultEpisode \union {NoEpisode}
    /\ recovery \in RecoveryEvent \union {NoRecovery}
    /\ lost \subseteq SlaveIdentity
    /\ lowest \in Nat

(* The two ways to notice a loss agree: the detector compares each         *)
(* snapshot with the one before it, the tracker with the bus before the    *)
(* fault, and while an episode is open its missing slaves are exactly      *)
(* those of that bus that were announced lost since it opened, its minimum *)
(* is the fewest slaves seen since, and the last snapshot does not already *)
(* satisfy the recovery condition (so started_now never hides a recovery). *)
EpisodeMatchesLosses ==
    episode # NoEpisode =>
        /\ episode.missing = lost \intersect episode.expected
        /\ episode.minimumCount = lowest
        /\ ~TopologyRecovered(episode, previous)

(* A recovery is reported against the snapshot it was seen in: the link is *)
(* up, every slave that was announced lost is where the report says it is  *)
(* (never -1), and no fewer slaves answer than at the worst moment.        *)
RecoveryIsAccurate ==
    recovery # NoRecovery =>
        /\ previous.link
        /\ recovery.recoveredCount = SlaveCount(previous)
        /\ recovery.faultCount = lowest
        /\ recovery.faultCount <= recovery.recoveredCount
        /\ \A r \in recovery.recovered :
                /\ r[1] \in lost
                /\ r[2] + 1 \in DOMAIN previous.slaves
                /\ previous.slaves[r[2] + 1].id = r[1]

(* No fault goes untracked: when the link, a slave or the count of a bus   *)
(* whose slaves can all be identified goes down, an episode is open after  *)
(* the step, unless this very snapshot ends the one that was open.         *)
FaultsAreTracked ==
    [][ /\ previous # NoSnapshot
        /\ AllValid(previous)
        /\ \/ previous.link /\ ~previous'.link
           \/ SlaveCount(previous') < SlaveCount(previous)
           \/ \E id \in Identities(previous) : ~ContainsIdentity(previous', id)
        => episode' # NoEpisode \/ (episode # NoEpisode /\ recovery' # NoRecovery) ]_vars

(* An episode ends in a recovery and a recovery ends an episode: what was  *)
(* the bus before the fault is kept until then, so a fault inside a fault  *)
(* neither lowers what recovery asks for nor starts the clock again.       *)
EpisodesEndInRecovery ==
    [][ episode # NoEpisode =>
        IF episode' = NoEpisode
        THEN /\ recovery' # NoRecovery
             /\ episode.expected \subseteq Identities(previous')
             /\ recovery'.started = episode.started
        ELSE /\ episode'.expected = episode.expected
             /\ episode'.expectedCount = episode.expectedCount
             /\ episode'.started = episode.started ]_vars

=============================================================================
