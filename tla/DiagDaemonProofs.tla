-------------------------- MODULE DiagDaemonProofs --------------------------
(***************************************************************************)
(* Theorems of DiagDaemon, for every set of snapshots, port errors and     *)
(* samples, every window and every cooldown: what it tracks and reads,     *)
(* what the analyzer scores and what the handler makes of it.         *)
(* Tracker is an instance of RecoveryTracker, so its operators and those   *)
(* it is built from are also known under their own names here              *)
(* (Tracker!Detected is Detected).                                         *)
(***************************************************************************)
EXTENDS DiagDaemon, SnapshotProofs, SequenceTheorems, FiniteSetTheorems, TLAPS

(* The two names of an operator mean the same.                             *)
LEMMA SameDetected == \A p, c : Tracker!Detected(p, c) = Detected(p, c)
BY DEF Detected, LinkEvents, CountEvents, LostEvents, StateEvents, BusEvent,
       NoIdentity, SlaveCount, ContainsIdentity, StableIdentities, Identities,
       Valid, PositionOf,
       Tracker!Detected, Tracker!LinkEvents, Tracker!CountEvents,
       Tracker!LostEvents, Tracker!StateEvents, Tracker!BusEvent,
       Tracker!NoIdentity, Tracker!SlaveCount, Tracker!ContainsIdentity,
       Tracker!StableIdentities, Tracker!Identities, Tracker!Valid,
       Tracker!PositionOf

(* The tracker's operators, seen through its instance, are the daemon's.   *)
LEMMA SamePosition == \A s, id : Tracker!PositionOf(s, id) = PositionOf(s, id)
BY DEF PositionOf, ContainsIdentity, StableIdentities, Identities, Valid,
       Tracker!PositionOf, Tracker!ContainsIdentity, Tracker!StableIdentities,
       Tracker!Identities, Tracker!Valid

(* The number of slaves is the same for both.                              *)
LEMMA SameCount == \A s : Tracker!SlaveCount(s) = SlaveCount(s)
BY DEF SlaveCount, Tracker!SlaveCount

(* So are the identities, and what identities there are.                   *)
LEMMA SameIdentities ==
    /\ \A s : Tracker!Identities(s) = Identities(s)
    /\ \A s : Tracker!AllValid(s) = AllValid(s)
    /\ Tracker!SlaveIdentity = SlaveIdentity
BY DEF Identities, AllValid, Valid, SlaveIdentity, Tracker!Identities,
       Tracker!AllValid, Tracker!Valid, Tracker!SlaveIdentity

(* What the fields of a snapshot are.                                      *)
LEMMA SnapshotFields ==
    ASSUME NEW s \in Snapshot
    PROVE  /\ s \in NetworkSnapshot
           /\ s # NoSnapshot
           /\ s.ts \in Nat
           /\ SlaveCount(s) \in Nat
           /\ Identities(s) \subseteq SlaveIdentity
           /\ DOMAIN s.slaves = 1..SlaveCount(s)
<1>1. s \in NetworkSnapshot /\ s # NoSnapshot
  BY InputAssumption
<1>2. s.ts \in Nat /\ s.slaves \in Seq(Slave)
  BY <1>1 DEF NetworkSnapshot
<1>3. /\ SlaveCount(s) \in Nat
      /\ DOMAIN s.slaves = 1..SlaveCount(s)
      /\ \A i \in DOMAIN s.slaves : s.slaves[i] \in Slave
  BY <1>2 DEF SlaveCount
<1>4. Identities(s) \subseteq SlaveIdentity
  BY <1>3 DEF Identities, Slave
<1>5. QED
  BY <1>1, <1>2, <1>3, <1>4

-----------------------------------------------------------------------------
(* Each step of the daemon is a step of its tracker.                       *)
LEMMA StepIsTracked == [Next]_vars => [Tracker!Next]_(Tracker!vars)
<1>1. ASSUME NEW current \in Snapshot, NEW ports, NEW sample,
             Handle(current, ports, sample)
      PROVE  Tracker!Next
  BY <1>1 DEF Handle, Tracker!Next
<1>2. QED
  BY <1>1 DEF Next, vars, tracking, Tracker!vars

(* The daemon's detection and recovery are RecoveryTracker's: whatever the *)
(* handler does around them, it leaves their state to them.                *)
THEOREM DaemonTracks == Spec => Tracker!Spec
<1>1. Init => Tracker!Init
  BY DEF Init
<1>2. QED
  BY <1>1, StepIsTracked, PTL DEF Spec, Tracker!Spec

-----------------------------------------------------------------------------
(* Opening and updating give an episode.                                   *)
LEMMA EpisodeType ==
    /\ \A p, c \in Snapshot : Tracker!OpenEpisode(p, c) \in Tracker!FaultEpisode
    /\ \A e \in Tracker!FaultEpisode, c \in Snapshot :
            Tracker!Updated(e, c) \in Tracker!FaultEpisode
<1>1. ASSUME NEW p \in Snapshot, NEW c \in Snapshot
      PROVE  Tracker!OpenEpisode(p, c) \in Tracker!FaultEpisode
  BY SnapshotFields, SameCount, SameIdentities
     DEF Tracker!OpenEpisode, Tracker!FaultEpisode
<1>2. ASSUME NEW e \in Tracker!FaultEpisode, NEW c \in Snapshot
      PROVE  Tracker!Updated(e, c) \in Tracker!FaultEpisode
  BY SnapshotFields, SameCount DEF Tracker!Updated, Tracker!FaultEpisode
<1>3. QED
  BY <1>1, <1>2

(* A recovery made from an episode has its type.                           *)
LEMMA RecoveryType ==
    ASSUME NEW e \in Tracker!FaultEpisode, NEW c \in Snapshot
    PROVE  Tracker!RecoveryOf(e, c) \in Tracker!RecoveryEvent
<1>1. /\ c.ts \in Nat /\ Tracker!SlaveCount(c) \in Nat
      /\ e.started \in Nat /\ e.minimumCount \in Nat
      /\ e.missing \in SUBSET SlaveIdentity
  BY SnapshotFields, SameCount, SameIdentities DEF Tracker!FaultEpisode
<1>2. (IF c.ts >= e.started THEN c.ts - e.started ELSE 0) \in Nat
  BY <1>1
<1>3. \A id \in e.missing : Tracker!PositionOf(c, id) \in Int
  BY <1>1, SnapshotFields, PositionIsFound, SamePosition
<1>4. { <<id, Tracker!PositionOf(c, id)>> : id \in e.missing }
        \in SUBSET (SlaveIdentity \X Int)
  BY <1>1, <1>3
<1>5. QED
  BY <1>1, <1>2, <1>4, SameIdentities DEF Tracker!RecoveryOf, Tracker!RecoveryEvent

(* What of the state the cooldown depends on.                              *)
EpisodeTyped ==
    /\ previous \in Snapshot \union {NoSnapshot}
    /\ episode \in Tracker!FaultEpisode \union {NoEpisode}

(* What a handled snapshot does to the episode, case by case.              *)
LEMMA TrackCases ==
    ASSUME EpisodeTyped, NEW current \in Snapshot, Tracker!Process(current)
    PROVE  /\ previous' = current
           /\ \/ /\ Tracker!Opens(Detected(previous, current))
                 /\ episode' \in Tracker!FaultEpisode
                 /\ recovery' = NoRecovery
              \/ /\ episode = NoEpisode
                 /\ ~Tracker!Opens(Detected(previous, current))
                 /\ episode' = NoEpisode
                 /\ recovery' = NoRecovery
              \/ /\ episode \in Tracker!FaultEpisode
                 /\ episode' \in Tracker!FaultEpisode
                 /\ recovery' = NoRecovery
              \/ /\ episode \in Tracker!FaultEpisode
                 /\ episode' = NoEpisode
                 /\ recovery' # NoRecovery
<1> DEFINE events == Tracker!Detected(previous, current)
<1>1. events = Detected(previous, current)
  BY SameDetected
<1>2. previous' = current /\ Tracker!Track(current, events)
  BY Zenon DEF Tracker!Process
<1> HIDE DEF events
<1>3. CASE Tracker!Opens(events)
  <2>1. previous \in Snapshot
    BY <1>3 DEF Tracker!Opens, EpisodeTyped
  <2>2. /\ episode' = Tracker!Updated(Tracker!OpenEpisode(previous, current), current)
        /\ recovery' = NoRecovery
    BY <1>2, <1>3, Zenon DEF Tracker!Track, Tracker!Opens
  <2>3. episode' \in Tracker!FaultEpisode
    BY <2>1, <2>2, EpisodeType
  <2>4. QED
    BY <1>1, <1>2, <1>3, <2>2, <2>3
<1>4. CASE ~Tracker!Opens(events) /\ episode = NoEpisode
  BY <1>1, <1>2, <1>4, Zenon DEF Tracker!Track
<1>5. CASE ~Tracker!Opens(events) /\ episode # NoEpisode
  <2> DEFINE tracked == Tracker!Updated(episode, current)
  <2>1. episode \in Tracker!FaultEpisode
    BY <1>5 DEF EpisodeTyped
  <2>2. tracked \in Tracker!FaultEpisode
    BY <2>1, EpisodeType
  <2>3. IF Tracker!TopologyRecovered(tracked, current)
        THEN /\ episode' = NoEpisode
             /\ recovery' = Tracker!RecoveryOf(tracked, current)
        ELSE /\ episode' = tracked
             /\ recovery' = NoRecovery
    BY <1>2, <1>5, Zenon DEF Tracker!Track
  <2>4. Tracker!RecoveryOf(tracked, current) # NoRecovery
    BY <2>2, RecoveryType, DaemonOptionAssumption
  <2> HIDE DEF tracked
  <2>5. QED
    BY <1>2, <2>1, <2>2, <2>3, <2>4
<1>6. QED
  BY <1>3, <1>4, <1>5

(* A snapshot keeps the type of the episode.                               *)
LEMMA EpisodeStaysTyped ==
    ASSUME EpisodeTyped, NEW current \in Snapshot, Tracker!Process(current)
    PROVE  EpisodeTyped'
BY TrackCases DEF EpisodeTyped

-----------------------------------------------------------------------------
(* A slave that is announced lost opens an episode, unless one is open.    *)
LEMMA LossOpens ==
    ASSUME EpisodeTyped, AllAliased, NEW current \in Snapshot,
           episode = NoEpisode,
           NEW e \in Detected(previous, current), e.type = "SLAVE_LOST"
    PROVE  Tracker!Opens(Detected(previous, current))
<1>1. previous # NoSnapshot
  BY DEF Detected
<1>2. Tracker!AllValid(previous)
  BY <1>1, SameIdentities DEF EpisodeTyped, AllAliased
<1>3. Tracker!Triggers(Detected(previous, current)) # {}
  BY DEF Tracker!Triggers, Tracker!IsFaultTrigger
<1>4. QED
  BY <1>1, <1>2, <1>3 DEF Tracker!Opens

(* Registers are only read when a slave is announced lost.                 *)
LEMMA ReadsOnLoss ==
    ASSUME NEW p, NEW c, NEW events, NEW last, NEW sample,
           Attempted(Diagnose(p, c, events, last, sample))
    PROVE  \E e \in events : e.type = "SLAVE_LOST"
BY DEF Attempted, Diagnose

(* The invariant: what CooldownEndsWithEpisode says, with the types its    *)
(* induction needs.                                                        *)
CooldownInv == EpisodeTyped /\ CooldownEndsWithEpisode

(* A handler run keeps the cooldown within the episode.                    *)
LEMMA HandleKeepsCooldown ==
    ASSUME CooldownInv, NEW current \in Snapshot, NEW ports, NEW sample,
           Handle(current, ports, sample)
    PROVE  CooldownInv'
<1> DEFINE events == Detected(previous, current)
           diagnosis == Diagnose(previous, current, events, lastDiagnosis, sample)
<1>1. EpisodeTyped /\ CooldownEndsWithEpisode
  BY DEF CooldownInv
<1>2. /\ Tracker!Process(current)
      /\ lastDiagnosis' = LastDiagnosis(diagnosis, current.ts, recovery' # NoRecovery)
  BY Zenon DEF Handle
<1>3. EpisodeTyped'
  BY <1>1, <1>2, EpisodeStaysTyped
<1>4. SUFFICES ASSUME AllAliased, lastDiagnosis' # NoTime
               PROVE  episode' # NoEpisode
  BY <1>3 DEF CooldownInv, CooldownEndsWithEpisode, AllAliased
<1>5. recovery' = NoRecovery
  BY <1>2, <1>4 DEF LastDiagnosis
<1>6. CASE Attempted(diagnosis)
  <2>1. PICK e \in events : e.type = "SLAVE_LOST"
    BY <1>6, ReadsOnLoss
  <2>2. episode # NoEpisode \/ Tracker!Opens(events)
    BY <1>1, <1>4, <2>1, LossOpens
  <2>3. QED
    BY <1>1, <1>2, <1>5, <2>2, TrackCases, DaemonOptionAssumption
<1>7. CASE ~Attempted(diagnosis)
  <2>1. lastDiagnosis # NoTime
    BY <1>2, <1>4, <1>5, <1>7 DEF LastDiagnosis
  <2>2. episode # NoEpisode
    BY <1>1, <1>4, <2>1 DEF CooldownEndsWithEpisode
  <2>3. QED
    BY <1>1, <1>2, <1>5, <2>2, TrackCases, DaemonOptionAssumption
<1>8. QED
  BY <1>6, <1>7

(* CooldownInv is an invariant.                                            *)
LEMMA CooldownInvariant == Spec => []CooldownInv
<1>1. Init => CooldownInv
  BY DEF Init, Tracker!Init, CooldownInv, EpisodeTyped, CooldownEndsWithEpisode
<1>2. CooldownInv /\ [Next]_vars => CooldownInv'
  <2> SUFFICES ASSUME CooldownInv, [Next]_vars PROVE CooldownInv'
    OBVIOUS
  <2>1. CASE UNCHANGED vars
    BY <2>1 DEF CooldownInv, EpisodeTyped, CooldownEndsWithEpisode, AllAliased,
                vars, tracking
  <2>2. CASE Next
    BY <2>2, HandleKeepsCooldown DEF Next
  <2>3. QED
    BY <2>1, <2>2
<1>3. QED
  BY <1>1, <1>2, PTL DEF Spec

(* When all slaves can be identified, a cooldown never outlives the fault  *)
(* it was started for (DiagnosisCoordinator::resetCooldown).               *)
THEOREM CooldownEnds == Spec => []CooldownEndsWithEpisode
<1>1. CooldownInv => CooldownEndsWithEpisode
  BY DEF CooldownInv
<1>2. QED
  BY <1>1, CooldownInvariant, PTL

-----------------------------------------------------------------------------
(* The window is a sequence of frames that have a time, whatever else they *)
(* hold.                                                                   *)
IsTimed(f) == \E S : f \in Seq(S) /\ \A x \in S : x.ts \in Nat

Kept(fs, frame) == IF fs # << >> /\ frame.ts < fs[Len(fs)].ts THEN << >> ELSE fs

(* What push leaves is the end of what it had with the frame appended,     *)
(* from the first frame on that is recent enough.                          *)
IsRecentEnd(new, all, from, frame) ==
    /\ from \in 1..Len(all) /\ Len(all) \in Nat
    /\ all[Len(all)] = frame
    /\ \A i \in 1..Len(all) : all[i].ts \in Nat
    /\ all[from].ts >= LowerBound(frame.ts)
    /\ \A j \in 1..from - 1 : all[j].ts < LowerBound(frame.ts)
    /\ Len(new) = Len(all) - from + 1 /\ DOMAIN new = 1..Len(new)
    /\ \A i \in 1..Len(new) : new[i] = all[from + i - 1]

(* Sliding drops frames at the old end only, those that are too old.       *)
LEMMA SlidIsRecentEnd ==
    ASSUME NEW fs, IsTimed(fs), NEW frame, frame.ts \in Nat
    PROVE  /\ IsTimed(Slid(fs, frame))
           /\ \E from : IsRecentEnd(Slid(fs, frame), Append(Kept(fs, frame), frame),
                                    from, frame)
<1> DEFINE kept == Kept(fs, frame)
           all == Append(kept, frame)
           n == Len(all)
           bound == LowerBound(frame.ts)
           from == FirstRecent(all, bound)
<1>1. PICK S : fs \in Seq(S) /\ \A x \in S : x.ts \in Nat
  BY DEF IsTimed
<1> DEFINE T == S \union {frame}
<1>2. kept \in Seq(S)
  BY <1>1 DEF Kept
<1>3. kept \in Seq(T)
  BY <1>2
<1>4. \A x \in T : x.ts \in Nat
  BY <1>1
<1> HIDE DEF kept, T
<1>5. all \in Seq(T) /\ n \in Nat /\ n >= 1 /\ all[n] = frame /\ DOMAIN all = 1..n
  <2>1. frame \in T
    BY DEF T
  <2>2. QED
    BY <1>3, <2>1
<1>6. bound \in Nat /\ frame.ts >= bound
  BY WindowAssumption DEF LowerBound
<1> HIDE DEF all, n, bound
<1>7. \A i \in 1..n : all[i] \in T /\ all[i].ts \in Nat
  BY <1>4, <1>5
<1>8. /\ from \in 1..n /\ all[from].ts >= bound
      /\ \A j \in 1..from - 1 : all[j].ts < bound
  <2> DEFINE late == { i \in 1..n : all[i].ts >= bound }
             recent(i) == /\ all[i].ts >= bound
                          /\ \A j \in 1..i - 1 : all[j].ts < bound
  <2>1. n \in late
    BY <1>5, <1>6
  <2>2. late \in SUBSET Nat
    OBVIOUS
  <2>3. PICK i \in late : \A m \in late : i <= m
    BY <2>1, <2>2, LeastNatural
  <2>4. ASSUME NEW j \in 1..i - 1 PROVE all[j].ts < bound
    BY <1>5, <1>6, <1>7, <2>3
  <2>5. \E k \in DOMAIN all : recent(k)
    BY <1>5, <2>3, <2>4
  <2>6. from = CHOOSE k \in DOMAIN all : recent(k)
    BY DEF FirstRecent
  <2>7. QED
    BY <1>5, <2>5, <2>6
<1> HIDE DEF from
<1>9. Slid(fs, frame) = SubSeq(all, from, n)
  BY DEF Slid, WithoutOld, Kept, kept, all, bound, from, n
<1>10. /\ SubSeq(all, from, n) \in Seq(T)
       /\ Len(SubSeq(all, from, n)) = n - from + 1
       /\ \A i \in 1..n - from + 1 : SubSeq(all, from, n)[i] = all[from + i - 1]
  <2>1. from \in Int /\ n \in Int /\ from <= n /\ \A i \in from..n : all[i] \in T
    BY <1>5, <1>7, <1>8
  <2>2. QED
    BY <2>1, SubSeqProperties
<1>11. IsTimed(SubSeq(all, from, n))
  BY <1>4, <1>10 DEF IsTimed
<1>12. DOMAIN SubSeq(all, from, n) = 1..Len(SubSeq(all, from, n))
  BY <1>10
<1>13. IsRecentEnd(SubSeq(all, from, n), all, from, frame)
  BY <1>5, <1>7, <1>8, <1>10, <1>12 DEF IsRecentEnd, bound, n
<1>14. QED
  BY <1>9, <1>11, <1>13 DEF all, kept

(* The frame that is pushed is the last one in the window.                 *)
LEMMA SlidEndsInFrame ==
    ASSUME NEW fs, IsTimed(fs), NEW frame, frame.ts \in Nat
    PROVE  /\ IsTimed(Slid(fs, frame))
           /\ Slid(fs, frame) # << >>
           /\ Slid(fs, frame)[Len(Slid(fs, frame))] = frame
<1> DEFINE new == Slid(fs, frame)
           all == Append(Kept(fs, frame), frame)
<1>1. IsTimed(new)
  BY SlidIsRecentEnd
<1>2. PICK from : IsRecentEnd(new, all, from, frame)
  BY SlidIsRecentEnd
<1> HIDE DEF new, all
<1>3. Len(new) \in 1..Len(new) /\ from + Len(new) - 1 = Len(all)
  BY <1>2 DEF IsRecentEnd
<1>4. new[Len(new)] = frame
  BY <1>2, <1>3 DEF IsRecentEnd
<1>5. new # << >>
  <2>1. Len(new) # 0
    BY <1>3
  <2>2. QED
    BY <2>1
<1>6. QED
  BY <1>1, <1>4, <1>5 DEF new

(* The registers read in a step are in the last frame of the window.       *)
LEMMA ReadingOfStep ==
    ASSUME IsTimed(frames), NEW current \in Snapshot, NEW ports, NEW sample,
           Handle(current, ports, sample)
    PROVE  LET diagnosis == Diagnose(previous, current, Detected(previous, current),
                                     lastDiagnosis, sample)
           IN  /\ IsTimed(frames)'
               /\ Reading' = IF diagnosis = NoDiagnosis THEN NoSample ELSE diagnosis.al
<1> DEFINE events == Detected(previous, current)
           diagnosis == Diagnose(previous, current, events, lastDiagnosis, sample)
           frame == FrameOf(current, events, ports, diagnosis)
<1>1. frames' = Slid(frames, frame)
  BY Zenon DEF Handle
<1>2. /\ frame.ts = current.ts
      /\ frame.al = IF diagnosis = NoDiagnosis THEN NoSample ELSE diagnosis.al
  BY DEF FrameOf
<1>3. frame.ts \in Nat
  BY <1>2, SnapshotFields
<1> HIDE DEF frame, diagnosis, events
<1>4. /\ IsTimed(frames') /\ frames' # << >>
      /\ frames'[Len(frames')] = frame
  BY <1>1, <1>3, SlidEndsInFrame
<1>5. Reading' = frame.al
  BY <1>4 DEF Reading
<1>6. QED
  BY <1>2, <1>4, <1>5 DEF diagnosis, events, IsTimed

(* What a reading that is made says of the snapshot it is made for.        *)
LEMMA ReadingAtBreak ==
    ASSUME NEW p \in Snapshot, NEW c \in Snapshot, NEW events, NEW last, NEW sample,
           Attempted(Diagnose(p, c, events, last, sample))
    PROVE  LET diagnosis == Diagnose(p, c, events, last, sample)
           IN  /\ Locate(p, c).valid /\ Locate(p, c).alive >= 0
               /\ diagnosis.al.position = Locate(p, c).alive
<1>1. Diagnose(p, c, events, last, sample) = Run(Locate(p, c), sample)
  BY DEF Diagnose, Attempted
<1>2. CanRead(Locate(p, c))
  BY <1>1 DEF Attempted, Run
<1>3. Run(Locate(p, c), sample).al = AlSample(Locate(p, c).alive, sample)
  BY <1>2 DEF Run
<1>4. QED
  BY <1>1, <1>2, <1>3 DEF CanRead, AlSample

DaemonInv == CooldownInv /\ IsTimed(frames)

(* DaemonInv is an invariant.                                              *)
LEMMA DaemonInvariant == Spec => []DaemonInv
<1>1. Init => DaemonInv
  <2>1. IsTimed(<< >>)
    <3> DEFINE NoFrames == {}
    <3>1. << >> \in Seq(NoFrames) /\ \A x \in NoFrames : x.ts \in Nat
      OBVIOUS
    <3> HIDE DEF NoFrames
    <3>2. QED
      BY <3>1 DEF IsTimed
  <2>2. QED
    BY <2>1 DEF Init, Tracker!Init, DaemonInv, CooldownInv, EpisodeTyped,
                CooldownEndsWithEpisode
<1>2. DaemonInv /\ [Next]_vars => DaemonInv'
  <2> SUFFICES ASSUME DaemonInv, [Next]_vars PROVE DaemonInv'
    OBVIOUS
  <2>1. CASE UNCHANGED vars
    BY <2>1 DEF DaemonInv, CooldownInv, EpisodeTyped, CooldownEndsWithEpisode,
                AllAliased, IsTimed, vars, tracking
  <2>2. ASSUME NEW current \in Snapshot, NEW ports, NEW sample,
               Handle(current, ports, sample)
        PROVE  DaemonInv'
    BY <2>2, HandleKeepsCooldown, ReadingOfStep DEF DaemonInv
  <2>3. QED
    BY <2>1, <2>2 DEF Next
<1>3. QED
  BY <1>1, <1>2, PTL DEF Spec

(* Registers are read at the break (DiagnosisCoordinator::process): the    *)
(* slave read is on the bus and was the last one before the first slave    *)
(* that is gone, wherever the slaves moved meanwhile.                      *)
THEOREM ProbesAtBreak == Spec => ProbeNextToBreak
<1> DEFINE AtBreak ==
        Reading' # NoSample =>
            \E i \in 2..SlaveCount(previous) :
                /\ ~ContainsIdentity(previous', previous.slaves[i].id)
                /\ \A j \in 1..i - 1 : ContainsIdentity(previous', previous.slaves[j].id)
                /\ Reading'.position + 1 \in DOMAIN previous'.slaves
                /\ previous'.slaves[Reading'.position + 1].id = previous.slaves[i - 1].id
<1>1. ASSUME DaemonInv, NEW current \in Snapshot, NEW ports, NEW sample,
             Handle(current, ports, sample)
      PROVE  AtBreak
  <2> DEFINE events == Detected(previous, current)
             diagnosis == Diagnose(previous, current, events, lastDiagnosis, sample)
  <2> SUFFICES ASSUME Reading' # NoSample
               PROVE  \E i \in 2..SlaveCount(previous) :
                        /\ ~ContainsIdentity(previous', previous.slaves[i].id)
                        /\ \A j \in 1..i - 1 : ContainsIdentity(previous', previous.slaves[j].id)
                        /\ Reading'.position + 1 \in DOMAIN previous'.slaves
                        /\ previous'.slaves[Reading'.position + 1].id
                             = previous.slaves[i - 1].id
    OBVIOUS
  <2>1. Reading' = diagnosis.al /\ Attempted(diagnosis)
    BY <1>1, ReadingOfStep DEF DaemonInv, Attempted
  <2>2. previous' = current
    BY <1>1, Zenon DEF Handle, Tracker!Process
  <2>3. PICK e \in events : e.type = "SLAVE_LOST"
    BY <2>1, ReadsOnLoss
  <2>4. previous \in Snapshot
    BY <1>1, <2>3 DEF Detected, DaemonInv, CooldownInv, EpisodeTyped
  <2>5. /\ Locate(previous, current).valid /\ Locate(previous, current).alive >= 0
        /\ Reading'.position = Locate(previous, current).alive
    BY <2>1, <2>4, ReadingAtBreak
  <2>6. previous \in NetworkSnapshot /\ current \in NetworkSnapshot
    BY <2>4, SnapshotFields
  <2>7. QED
    BY <2>2, <2>5, <2>6, BoundaryIsNextToBreak
<1>2. DaemonInv /\ [Next]_vars => [AtBreak]_vars
  BY <1>1 DEF Next
<1>3. QED
  BY <1>2, DaemonInvariant, PTL DEF Spec, ProbeNextToBreak

(* A break that can be read is a loss, and reading it gives a sample.      *)
LEMMA BreakIsRead ==
    ASSUME NEW p \in Snapshot, NEW c \in Snapshot, CanRead(Locate(p, c)),
           NEW sample \in EscSample
    PROVE  LET diagnosis == Diagnose(p, c, Detected(p, c), NoTime, sample)
           IN  diagnosis # NoDiagnosis /\ diagnosis.al # NoSample
<1>1. p \in NetworkSnapshot /\ c \in NetworkSnapshot /\ p # NoSnapshot
  BY SnapshotFields
<1>2. /\ Locate(p, c) \in [valid : BOOLEAN, alive : Nat, lost : Nat]
      /\ \E i \in 2..SlaveCount(p) :
            Valid(p.slaves[i].id) /\ ~ContainsIdentity(c, p.slaves[i].id)
  BY <1>1, BoundaryIsNextToBreak DEF CanRead
<1>3. PICK i \in DOMAIN p.slaves :
            Valid(p.slaves[i].id) /\ ~ContainsIdentity(c, p.slaves[i].id)
  <2>1. DOMAIN p.slaves = 1..SlaveCount(p) /\ SlaveCount(p) \in Nat
    BY SnapshotFields
  <2>2. 2..SlaveCount(p) \subseteq DOMAIN p.slaves
    BY <2>1
  <2>3. QED
    BY <1>2, <2>2
<1>4. \E e \in Detected(p, c) : e.type = "SLAVE_LOST"
  <2> DEFINE e == [ type |-> "SLAVE_LOST", ts |-> c.ts, position |-> i - 1,
                    id |-> p.slaves[i].id, old |-> 1, new |-> 0 ]
  <2>1. e \in LostEvents(p, c)
    BY <1>3 DEF LostEvents
  <2>2. e \in Detected(p, c)
    BY <1>1, <2>1 DEF Detected
  <2>3. QED
    BY <2>2
<1>5. Diagnose(p, c, Detected(p, c), NoTime, sample) = Run(Locate(p, c), sample)
  BY <1>4 DEF Diagnose, InCooldown
<1>6. AlSample(Locate(p, c).alive, sample) \in AlSamples
  BY <1>2 DEF AlSample, AlSamples, EscSample
<1>7. Locate(p, c) \in FaultBoundary
  BY <1>2 DEF FaultBoundary
<1>8. /\ Run(Locate(p, c), sample).al \in AlSamples
      /\ Run(Locate(p, c), sample) \in
            [boundary : FaultBoundary, al : AlSamples \union {NoSample}]
  BY <1>6, <1>7 DEF Run
<1>9. QED
  BY <1>5, <1>8, DaemonOptionAssumption

(* When all slaves can be identified, the break that starts an episode is  *)
(* read: no earlier fault's cooldown prevents it (resetCooldown).          *)
THEOREM FirstBreakProbed == Spec => FirstBreakIsProbed
<1> DEFINE Probed ==
        /\ episode = NoEpisode /\ episode' # NoEpisode
        /\ CanRead(Locate(previous, previous'))
        /\ AllAliased
        => Reading' # NoSample
<1>1. ASSUME DaemonInv, NEW current \in Snapshot, NEW ports,
             NEW sample \in Samples(current), Handle(current, ports, sample)
      PROVE  Probed
  <2> SUFFICES ASSUME episode = NoEpisode, episode' # NoEpisode,
                      CanRead(Locate(previous, previous')), AllAliased
               PROVE  Reading' # NoSample
    OBVIOUS
  <2>1. /\ EpisodeTyped /\ IsTimed(frames)
        /\ Tracker!Process(current)
    BY <1>1, Zenon DEF DaemonInv, CooldownInv, Handle
  <2>2. lastDiagnosis = NoTime
    BY <1>1 DEF DaemonInv, CooldownInv, CooldownEndsWithEpisode
  <2>3. previous' = current /\ Tracker!Opens(Detected(previous, current))
    BY <2>1, TrackCases, DaemonOptionAssumption
  <2>4. previous \in Snapshot
    BY <2>1, <2>3 DEF Tracker!Opens, EpisodeTyped
  <2>5. CanRead(Locate(previous, current)) /\ previous # NoSnapshot
    BY <2>3, <2>4, SnapshotFields
  <2>6. sample \in EscSample
    BY <1>1, <2>5, InputAssumption DEF Samples
  <2>7. QED
    BY <1>1, <2>1, <2>2, <2>4, <2>5, <2>6, BreakIsRead, ReadingOfStep
<1>2. DaemonInv /\ [Next]_vars => [Probed]_vars
  BY <1>1 DEF Next
<1>3. QED
  BY <1>2, DaemonInvariant, PTL DEF Spec, FirstBreakIsProbed

-----------------------------------------------------------------------------
(* Cooldown                                                                *)

(* The last reading that the coordinator remembers is the latest one: what *)
(* a recovery or a clock that steps back forgets is forgotten by both.     *)
ProbesInv ==
    /\ EpisodeTyped
    /\ lastDiagnosis \in Nat \union {NoTime}
    /\ \A t \in probes :
          /\ t \in Nat /\ lastDiagnosis \in Nat /\ t <= lastDiagnosis
          /\ previous # NoSnapshot /\ lastDiagnosis <= previous.ts

(* A handler run keeps what is known of the last probe.                    *)
LEMMA HandleKeepsProbes ==
    ASSUME ProbesInv, NEW current \in Snapshot, NEW ports, NEW sample,
           Handle(current, ports, sample)
    PROVE  ProbesInv'
<1> DEFINE diagnosis == Diagnose(previous, current, Detected(previous, current),
                                 lastDiagnosis, sample)
           times == IF SteppedBack(current) THEN {} ELSE probes
           recovered == recovery' # NoRecovery
           attempted == Attempted(diagnosis)
<1>1. /\ Tracker!Process(current)
      /\ lastDiagnosis' = LastDiagnosis(diagnosis, current.ts, recovered)
      /\ probes' = IF recovered THEN {}
                   ELSE { x \in times \union IF attempted THEN {current.ts} ELSE {} :
                            current.ts - x < Cooldown }
  BY Zenon DEF Handle
<1>2. EpisodeTyped' /\ previous' = current
  BY <1>1, EpisodeStaysTyped, TrackCases DEF ProbesInv
<1>3. current.ts \in Nat /\ current # NoSnapshot
  BY SnapshotFields
<1> HIDE DEF diagnosis
<1>4. lastDiagnosis' = IF recovered THEN NoTime
                       ELSE IF attempted THEN current.ts ELSE lastDiagnosis
  BY <1>1 DEF LastDiagnosis
<1>5. lastDiagnosis' \in Nat \union {NoTime}
  BY <1>3, <1>4 DEF ProbesInv
<1>6. ASSUME NEW t \in probes'
      PROVE  /\ t \in Nat /\ lastDiagnosis' \in Nat
             /\ t <= lastDiagnosis' /\ lastDiagnosis' <= current.ts
  <2>1. ~recovered /\ (t \in times \/ (attempted /\ t = current.ts))
    BY <1>1, <1>6
  <2>2. t \in times => t \in Nat /\ lastDiagnosis \in Nat /\ t <= lastDiagnosis
                       /\ lastDiagnosis <= current.ts
    <3> SUFFICES ASSUME t \in times
                 PROVE  t \in Nat /\ lastDiagnosis \in Nat /\ t <= lastDiagnosis
                        /\ lastDiagnosis <= current.ts
      OBVIOUS
    <3>1. ~SteppedBack(current) /\ t \in probes
      OBVIOUS
    <3>2. previous \in Snapshot
      BY <3>1 DEF ProbesInv, EpisodeTyped
    <3>3. previous.ts \in Nat
      BY <3>2, SnapshotFields
    <3>4. ~(current.ts < previous.ts)
      BY <3>1, <3>2, SnapshotFields DEF SteppedBack
    <3>5. QED
      BY <1>3, <3>1, <3>3, <3>4 DEF ProbesInv
  <2>3. CASE attempted
    BY <1>3, <1>4, <2>1, <2>2, <2>3
  <2>4. CASE ~attempted
    BY <1>4, <2>1, <2>2, <2>4
  <2>5. QED
    BY <2>3, <2>4
<1>7. QED
  BY <1>2, <1>3, <1>5, <1>6 DEF ProbesInv

(* ProbesInv is an invariant.                                              *)
LEMMA ProbesInvariant == Spec => []ProbesInv
<1>1. Init => ProbesInv
  BY DEF Init, Tracker!Init, ProbesInv, EpisodeTyped
<1>2. ProbesInv /\ [Next]_vars => ProbesInv'
  <2> SUFFICES ASSUME ProbesInv, [Next]_vars PROVE ProbesInv'
    OBVIOUS
  <2>1. CASE UNCHANGED vars
    BY <2>1 DEF ProbesInv, EpisodeTyped, vars, tracking
  <2>2. CASE Next
    BY <2>2, HandleKeepsProbes DEF Next
  <2>3. QED
    BY <2>1, <2>2
<1>3. QED
  BY <1>1, <1>2, PTL DEF Spec

(* Between two recoveries, registers are read a cooldown apart, however    *)
(* often slaves drop out (DiagnosisCoordinator::process).                  *)
THEOREM ProbesSpaced == Spec => ProbesAreSpaced
<1> DEFINE Spaced ==
        Reading' # NoSample /\ (previous # NoSnapshot => previous'.ts >= previous.ts)
        => \A t \in probes : previous'.ts - t >= Cooldown
<1>1. ASSUME DaemonInv, ProbesInv, NEW current \in Snapshot, NEW ports, NEW sample,
             Handle(current, ports, sample)
      PROVE  Spaced
  <2> DEFINE diagnosis == Diagnose(previous, current, Detected(previous, current),
                                   lastDiagnosis, sample)
  <2> SUFFICES ASSUME Reading' # NoSample,
                      previous # NoSnapshot => previous'.ts >= previous.ts,
                      NEW t \in probes
               PROVE  previous'.ts - t >= Cooldown
    OBVIOUS
  <2>1. Attempted(diagnosis)
    BY <1>1, ReadingOfStep DEF DaemonInv, Attempted
  <2>2. ~InCooldown(lastDiagnosis, current.ts)
    BY <2>1 DEF Attempted, Diagnose
  <2>3. previous' = current /\ current.ts \in Nat
    BY <1>1, SnapshotFields, Zenon DEF Handle, Tracker!Process
  <2>4. /\ t \in Nat /\ lastDiagnosis \in Nat /\ t <= lastDiagnosis
        /\ previous \in Snapshot /\ lastDiagnosis <= previous.ts
    BY <1>1 DEF ProbesInv, EpisodeTyped
  <2>5. lastDiagnosis # NoTime /\ lastDiagnosis <= current.ts
    <3>1. previous.ts \in Nat /\ previous # NoSnapshot
      BY <2>4, SnapshotFields
    <3>2. QED
      BY <2>3, <2>4, <3>1, DaemonOptionAssumption
  <2>6. current.ts - lastDiagnosis >= Cooldown
    BY <2>2, <2>3, <2>4, <2>5, CooldownAssumption DEF InCooldown
  <2>7. QED
    BY <2>3, <2>4, <2>6, CooldownAssumption
<1>2. DaemonInv /\ ProbesInv /\ [Next]_vars => [Spaced]_vars
  BY <1>1 DEF Next
<1>3. QED
  BY <1>2, DaemonInvariant, ProbesInvariant, PTL DEF Spec, ProbesAreSpaced

-----------------------------------------------------------------------------
(* The window                                                              *)

Ordered(fs) == \A i, j \in 1..Len(fs) : i <= j => fs[i].ts <= fs[j].ts

Losses(fs) == UNION { { <<fs[i].ts, p>> : p \in fs[i].lost } : i \in DOMAIN fs }

(* Frames in order stay in order.                                          *)
LEMMA KeptIsOrdered ==
    ASSUME NEW fs, IsTimed(fs), Ordered(fs), NEW frame, frame.ts \in Nat
    PROVE  /\ Ordered(Append(Kept(fs, frame), frame))
           /\ Losses(Append(Kept(fs, frame), frame))
                = Losses(Kept(fs, frame)) \union { <<frame.ts, p>> : p \in frame.lost }
<1> DEFINE kept == Kept(fs, frame)
           all == Append(kept, frame)
           n == Len(kept)
<1>1. PICK S : fs \in Seq(S) /\ \A x \in S : x.ts \in Nat
  BY DEF IsTimed
<1>2. kept \in Seq(S)
  BY <1>1 DEF Kept
<1>3. Ordered(kept) /\ \A i \in 1..n : kept[i].ts \in Nat /\ kept[i].ts <= frame.ts
  <2>1. CASE fs # << >> /\ ~(frame.ts < fs[Len(fs)].ts)
    <3>1. kept = fs
      BY <2>1 DEF Kept
    <3>2. Len(fs) \in 1..Len(fs) /\ \A i \in 1..Len(fs) : fs[i].ts \in Nat
      BY <1>1, <2>1
    <3>3. fs[Len(fs)].ts <= frame.ts
      BY <2>1, <3>2
    <3>4. \A i \in 1..Len(fs) : fs[i].ts <= fs[Len(fs)].ts
      BY <3>2 DEF Ordered
    <3>5. \A i \in 1..Len(fs) : fs[i].ts <= frame.ts
      BY <3>2, <3>3, <3>4
    <3>6. QED
      BY <3>1, <3>2, <3>5
  <2>2. CASE ~(fs # << >> /\ ~(frame.ts < fs[Len(fs)].ts))
    <3>1. kept = << >>
      BY <2>2 DEF Kept
    <3>2. QED
      BY <3>1 DEF Ordered
  <2>3. QED
    BY <2>1, <2>2
<1> HIDE DEF kept
<1>4. /\ n \in Nat /\ Len(all) = n + 1 /\ all[n + 1] = frame
      /\ \A i \in 1..n : all[i] = kept[i]
      /\ DOMAIN kept = 1..n /\ DOMAIN all = 1..n + 1
  <2>1. kept \in Seq(S \union {frame})
    BY <1>2
  <2>2. QED
    BY <2>1
<1> HIDE DEF all, n
<1>5. Ordered(all)
  <2> SUFFICES ASSUME NEW i \in 1..n + 1, NEW j \in 1..n + 1, i <= j
               PROVE  all[i].ts <= all[j].ts
    BY <1>4 DEF Ordered
  <2>1. CASE j \in 1..n
    <3>1. i \in 1..n
      BY <1>4, <2>1
    <3>2. kept[i].ts <= kept[j].ts
      BY <1>3, <2>1, <3>1 DEF Ordered, n
    <3>3. QED
      BY <1>4, <2>1, <3>1, <3>2
  <2>2. CASE j = n + 1 /\ i \in 1..n
    BY <1>3, <1>4, <2>2 DEF n
  <2>3. CASE j = n + 1 /\ i = n + 1
    BY <1>4, <2>3
  <2>4. QED
    BY <1>4, <2>1, <2>2, <2>3
<1>6. Losses(all) = Losses(kept) \union { <<frame.ts, p>> : p \in frame.lost }
  <2>1. \A i : i \in DOMAIN all <=> i \in DOMAIN kept \/ i = n + 1
    BY <1>4
  <2>2. \A i \in DOMAIN kept : all[i] = kept[i]
    BY <1>4
  <2>3. ASSUME NEW a \in Losses(all)
        PROVE  a \in Losses(kept) \/ \E p \in frame.lost : a = <<frame.ts, p>>
    BY <1>4, <2>1, <2>2, <2>3 DEF Losses
  <2>4. Losses(kept) \subseteq Losses(all)
    BY <2>1, <2>2 DEF Losses
  <2>5. \A p \in frame.lost : <<frame.ts, p>> \in Losses(all)
    BY <1>4, <2>1 DEF Losses
  <2>6. QED
    BY <2>3, <2>4, <2>5
<1>7. QED
  BY <1>5, <1>6 DEF all, kept

(* Of frames in order, the window has exactly the recent ones.             *)
LEMMA SlidIsComplete ==
    ASSUME NEW fs, IsTimed(fs), Ordered(fs), NEW frame, frame.ts \in Nat
    PROVE  /\ Ordered(Slid(fs, frame))
           /\ Losses(Slid(fs, frame))
                = { a \in Losses(Kept(fs, frame)) \union
                            { <<frame.ts, p>> : p \in frame.lost } :
                        frame.ts - a[1] <= Window }
<1> DEFINE new == Slid(fs, frame)
           all == Append(Kept(fs, frame), frame)
           recent(a) == frame.ts - a[1] <= Window
<1>1. PICK from : IsRecentEnd(new, all, from, frame)
  BY SlidIsRecentEnd
<1>2. /\ Ordered(all)
      /\ Losses(all) = Losses(Kept(fs, frame)) \union
                         { <<frame.ts, p>> : p \in frame.lost }
  BY KeptIsOrdered
<1>3. DOMAIN all = 1..Len(all)
  <2>1. PICK S : fs \in Seq(S)
    BY DEF IsTimed
  <2>2. Kept(fs, frame) \in Seq(S \union {frame})
    BY <2>1 DEF Kept
  <2>3. QED
    BY <2>2
<1> HIDE DEF new, all
<1>4. /\ from \in 1..Len(all) /\ Len(all) \in Nat
      /\ Len(new) = Len(all) - from + 1 /\ DOMAIN new = 1..Len(new)
      /\ \A i \in 1..Len(new) : new[i] = all[from + i - 1]
      /\ \A i \in 1..Len(all) : all[i].ts \in Nat
  BY <1>1 DEF IsRecentEnd
<1>5. Ordered(new)
  <2> SUFFICES ASSUME NEW i \in 1..Len(new), NEW j \in 1..Len(new), i <= j
               PROVE  new[i].ts <= new[j].ts
    BY DEF Ordered
  <2>1. /\ from + i - 1 \in 1..Len(all) /\ from + j - 1 \in 1..Len(all)
        /\ from + i - 1 <= from + j - 1
    BY <1>4
  <2>2. QED
    BY <1>2, <1>4, <2>1 DEF Ordered
<1>6. \A i \in 1..Len(all) : i >= from <=> frame.ts - all[i].ts <= Window
  <2> SUFFICES ASSUME NEW i \in 1..Len(all)
               PROVE  i >= from <=> frame.ts - all[i].ts <= Window
    OBVIOUS
  <2>1. all[i].ts \in Nat /\ all[from].ts \in Nat
    BY <1>4
  <2>2. i >= from => all[i].ts >= LowerBound(frame.ts)
    <3>1. i >= from => all[from].ts <= all[i].ts
      BY <1>2, <1>4 DEF Ordered
    <3>2. all[from].ts >= LowerBound(frame.ts) /\ LowerBound(frame.ts) \in Nat
      BY <1>1, WindowAssumption DEF IsRecentEnd, LowerBound
    <3>3. QED
      BY <2>1, <3>1, <3>2
  <2>3. i < from => all[i].ts < LowerBound(frame.ts)
    BY <1>1, <1>4 DEF IsRecentEnd
  <2>4. all[i].ts >= LowerBound(frame.ts) <=> frame.ts - all[i].ts <= Window
    BY <2>1, WindowAssumption DEF LowerBound
  <2>5. LowerBound(frame.ts) \in Nat /\ Window \in Nat
    BY WindowAssumption DEF LowerBound
  <2>6. QED
    BY <1>4, <2>1, <2>2, <2>3, <2>4, <2>5
<1>7. ASSUME NEW a \in Losses(new)
      PROVE  a \in Losses(all) /\ recent(a)
  <2>1. PICK i \in 1..Len(new) : \E p \in new[i].lost : a = <<new[i].ts, p>>
    BY <1>4 DEF Losses
  <2>2. from + i - 1 \in 1..Len(all) /\ from + i - 1 >= from
    BY <1>4
  <2>3. \E p \in all[from + i - 1].lost : a = <<all[from + i - 1].ts, p>>
    BY <1>4, <2>1
  <2>4. a \in Losses(all)
    BY <1>3, <2>2, <2>3 DEF Losses
  <2>5. a[1] = all[from + i - 1].ts
    BY <2>3
  <2>6. QED
    BY <1>6, <2>2, <2>4, <2>5
<1>8. ASSUME NEW a \in Losses(all), recent(a)
      PROVE  a \in Losses(new)
  <2>1. PICK i \in 1..Len(all) : \E p \in all[i].lost : a = <<all[i].ts, p>>
    BY <1>3 DEF Losses
  <2>2. i >= from
    BY <1>6, <1>8, <2>1
  <2>3. i - from + 1 \in 1..Len(new) /\ from + (i - from + 1) - 1 = i
    BY <1>4, <2>2
  <2>4. new[i - from + 1] = all[i]
    BY <1>4, <2>3
  <2>5. QED
    BY <1>4, <2>1, <2>3, <2>4 DEF Losses
<1>9. Losses(new) = { a \in Losses(all) : recent(a) }
  BY <1>7, <1>8
<1>10. QED
  BY <1>2, <1>5, <1>9 DEF new

WindowInv ==
    /\ EpisodeTyped /\ IsTimed(frames) /\ Ordered(frames)
    /\ Losses(frames) = announced
    /\ IF previous = NoSnapshot THEN frames = << >>
       ELSE frames # << >> /\ frames[Len(frames)].ts = previous.ts

(* A handler run keeps the window the end of what has been handled.        *)
LEMMA HandleKeepsWindow ==
    ASSUME WindowInv, NEW current \in Snapshot, NEW ports, NEW sample,
           Handle(current, ports, sample)
    PROVE  WindowInv'
<1> DEFINE events == Detected(previous, current)
           diagnosis == Diagnose(previous, current, events, lastDiagnosis, sample)
           frame == FrameOf(current, events, ports, diagnosis)
           losses == IF SteppedBack(current) THEN {} ELSE announced
<1>1. /\ Tracker!Process(current)
      /\ frames' = Slid(frames, frame)
      /\ announced' = { a \in losses \union { <<current.ts, p>> : p \in frame.lost } :
                            current.ts - a[1] <= Window }
  BY Zenon DEF Handle
<1>2. frame.ts = current.ts /\ current.ts \in Nat /\ current # NoSnapshot
  BY SnapshotFields DEF FrameOf
<1> HIDE DEF frame, events, diagnosis
<1>3. EpisodeTyped' /\ previous' = current
  BY <1>1, EpisodeStaysTyped, TrackCases DEF WindowInv
<1>4. /\ IsTimed(frames') /\ frames' # << >> /\ frames'[Len(frames')].ts = current.ts
      /\ Ordered(frames')
      /\ Losses(frames')
           = { a \in Losses(Kept(frames, frame)) \union
                       { <<current.ts, p>> : p \in frame.lost } :
                   current.ts - a[1] <= Window }
  <2>1. IsTimed(frames) /\ Ordered(frames) /\ frame.ts \in Nat
    BY <1>2 DEF WindowInv
  <2>2. /\ IsTimed(frames') /\ frames' # << >>
        /\ frames'[Len(frames')] = frame
    BY <1>1, <2>1, SlidEndsInFrame
  <2>3. /\ Ordered(frames')
        /\ Losses(frames')
             = { a \in Losses(Kept(frames, frame)) \union
                         { <<frame.ts, p>> : p \in frame.lost } :
                     frame.ts - a[1] <= Window }
    BY <1>1, <2>1, SlidIsComplete
  <2>4. QED
    BY <1>2, <2>2, <2>3
<1>5. Losses(Kept(frames, frame)) = losses
  <2>1. Losses(<< >>) = {}
    BY DEF Losses
  <2>2. CASE previous = NoSnapshot
    <3>1. frames = << >> /\ announced = {}
      BY <2>1, <2>2 DEF WindowInv
    <3>2. QED
      BY <2>1, <3>1 DEF Kept
  <2>3. CASE previous # NoSnapshot
    <3>1. SteppedBack(current) <=> frames # << >> /\ frame.ts < frames[Len(frames)].ts
      BY <1>2, <2>3 DEF WindowInv, SteppedBack
    <3>2. QED
      BY <2>1, <3>1 DEF Kept, WindowInv
  <2>4. QED
    BY <2>2, <2>3
<1>6. Losses(frames') = announced'
  BY <1>1, <1>4, <1>5
<1>7. QED
  BY <1>2, <1>3, <1>4, <1>6 DEF WindowInv, IsTimed, Ordered, Losses

(* WindowInv is an invariant.                                              *)
LEMMA WindowInvariant == Spec => []WindowInv
<1>1. Init => WindowInv
  <2>1. IsTimed(<< >>) /\ Ordered(<< >>) /\ Losses(<< >>) = {}
    <3> DEFINE NoFrames == {}
    <3>1. << >> \in Seq(NoFrames) /\ \A x \in NoFrames : x.ts \in Nat
      OBVIOUS
    <3> HIDE DEF NoFrames
    <3>2. IsTimed(<< >>)
      BY <3>1 DEF IsTimed
    <3>3. QED
      BY <3>2 DEF Ordered, Losses
  <2>2. QED
    BY <2>1 DEF Init, Tracker!Init, WindowInv, EpisodeTyped
<1>2. WindowInv /\ [Next]_vars => WindowInv'
  <2> SUFFICES ASSUME WindowInv, [Next]_vars PROVE WindowInv'
    OBVIOUS
  <2>1. CASE UNCHANGED vars
    BY <2>1 DEF WindowInv, EpisodeTyped, IsTimed, Ordered, Losses, vars, tracking
  <2>2. CASE Next
    BY <2>2, HandleKeepsWindow DEF Next
  <2>3. QED
    BY <2>1, <2>2
<1>3. QED
  BY <1>1, <1>2, PTL DEF Spec

(* Each verdict is made from the frames of the last Window milliseconds,   *)
(* all of them and in order, however many there are (EvidenceWindow::push).*)
THEOREM WindowComplete == Spec => []WindowIsComplete
<1>1. WindowInv => WindowIsComplete
  <2> SUFFICES ASSUME WindowInv, previous # NoSnapshot
               PROVE  /\ frames # << >> /\ frames[Len(frames)].ts = previous.ts
                      /\ \A i \in 2..Len(frames) : frames[i - 1].ts <= frames[i].ts
                      /\ Losses(frames) = announced
    BY DEF WindowIsComplete, Losses
  <2>1. Len(frames) \in Nat
    BY DEF WindowInv, IsTimed
  <2>2. \A i \in 2..Len(frames) :
            i - 1 \in 1..Len(frames) /\ i \in 1..Len(frames) /\ i - 1 <= i
    BY <2>1
  <2>3. QED
    BY <2>2 DEF WindowInv, Ordered
<1>2. QED
  BY <1>1, WindowInvariant, PTL

-----------------------------------------------------------------------------
(* What is proved of the tracker holds of the tracker in the daemon        *)
Proved == INSTANCE RecoveryTrackerProofs

(* Tracker is an instance of RecoveryTracker, Proved of its theorems: they *)
(* start in the same state.                                                *)
LEMMA SameInit == Tracker!Init <=> Proved!Init
BY DEF Tracker!Init, Proved!Init

(* They have the same variables.                                           *)
LEMMA SameVars == Tracker!vars = Proved!vars
BY DEF Tracker!vars, Proved!vars

(* What they say of snapshots and events is the same.                      *)
LEMMA SameOperators ==
    /\ \A p, c : Tracker!Detected(p, c) = Proved!Detected(p, c)
    /\ \A s : Tracker!SlaveCount(s) = Proved!SlaveCount(s)
    /\ \A s : Tracker!Identities(s) = Proved!Identities(s)
    /\ \A s : Tracker!AllValid(s) = Proved!AllValid(s)
    /\ \A e : Tracker!Triggers(e) = Proved!Triggers(e)
    /\ \A e : Tracker!LostIdentities(e) = Proved!LostIdentities(e)
    /\ \A s, id : Tracker!ContainsIdentity(s, id) = Proved!ContainsIdentity(s, id)
    /\ \A s, id : Tracker!PositionOf(s, id) = Proved!PositionOf(s, id)
BY DEF Tracker!Detected, Tracker!LinkEvents, Tracker!CountEvents,
       Tracker!LostEvents, Tracker!StateEvents, Tracker!BusEvent,
       Tracker!NoIdentity, Tracker!SlaveCount, Tracker!ContainsIdentity,
       Tracker!StableIdentities, Tracker!Identities, Tracker!Valid,
       Tracker!PositionOf, Tracker!AllValid, Tracker!Triggers, Tracker!IsFaultTrigger,
       Tracker!LostIdentities,
       Proved!Detected, Proved!LinkEvents, Proved!CountEvents,
       Proved!LostEvents, Proved!StateEvents, Proved!BusEvent,
       Proved!NoIdentity, Proved!SlaveCount, Proved!ContainsIdentity,
       Proved!StableIdentities, Proved!Identities, Proved!Valid,
       Proved!PositionOf, Proved!AllValid, Proved!Triggers, Proved!IsFaultTrigger,
       Proved!LostIdentities

(* What they make of episodes is the same.                                 *)
LEMMA SameEpisodes ==
    /\ \A p, c : Tracker!OpenEpisode(p, c) = Proved!OpenEpisode(p, c)
    /\ \A e, c : Tracker!Updated(e, c) = Proved!Updated(e, c)
    /\ \A e, c : Tracker!TopologyRecovered(e, c) <=> Proved!TopologyRecovered(e, c)
    /\ \A e, c : Tracker!RecoveryOf(e, c) = Proved!RecoveryOf(e, c)
    /\ \A e : Tracker!Opens(e) <=> Proved!Opens(e)
BY SameOperators
   DEF Tracker!OpenEpisode, Tracker!Updated, Tracker!TopologyRecovered,
       Tracker!RecoveryOf, Tracker!Opens,
       Proved!OpenEpisode, Proved!Updated, Proved!TopologyRecovered,
       Proved!RecoveryOf, Proved!Opens

(* They make the same steps.                                               *)
LEMMA SameProcess == \A c : Tracker!Process(c) <=> Proved!Process(c)
BY SameOperators, SameEpisodes
   DEF Tracker!Process, Tracker!Track, Proved!Process, Proved!Track

(* So what is proved of one specification holds of the other.              *)
LEMMA SameSpec == Tracker!Spec => Proved!Spec
<1>1. Tracker!Next <=> Proved!Next
  BY SameProcess DEF Tracker!Next, Proved!Next
<1>2. [Tracker!Next]_(Tracker!vars) => [Proved!Next]_(Proved!vars)
  BY <1>1, SameVars DEF Tracker!vars, Proved!vars
<1>3. QED
  BY <1>2, SameInit, PTL DEF Tracker!Spec, Proved!Spec

(* The daemon's assumptions include the tracker's.                         *)
LEMMA SameAssumptions == Proved!SnapshotAssumption /\ Proved!OptionAssumption
<1>1. Proved!NetworkSnapshot = NetworkSnapshot
  BY DEF Proved!NetworkSnapshot, Proved!Slave, Proved!SlaveIdentity, Proved!AlState,
         NetworkSnapshot, Slave, SlaveIdentity, AlState
<1>2. Proved!SnapshotAssumption
  BY <1>1, InputAssumption DEF Proved!SnapshotAssumption
<1>3. /\ Proved!FaultEpisode = Tracker!FaultEpisode
      /\ Proved!RecoveryEvent = Tracker!RecoveryEvent
  BY DEF Proved!FaultEpisode, Proved!RecoveryEvent, Proved!SlaveIdentity,
         Tracker!FaultEpisode, Tracker!RecoveryEvent, Tracker!SlaveIdentity
<1>4. Proved!OptionAssumption
  BY <1>3, DaemonOptionAssumption DEF Proved!OptionAssumption
<1>5. QED
  BY <1>2, <1>4

(* The properties mean the same in both.                                   *)
LEMMA SameProperties ==
    /\ Proved!TypeOK <=> Tracker!TypeOK
    /\ Proved!EpisodeMatchesLosses <=> Tracker!EpisodeMatchesLosses
    /\ Proved!RecoveryIsAccurate <=> Tracker!RecoveryIsAccurate
<1>1. Proved!TypeOK <=> Tracker!TypeOK
  BY DEF Proved!TypeOK, Proved!FaultEpisode, Proved!RecoveryEvent, Proved!SlaveIdentity,
         Tracker!TypeOK, Tracker!FaultEpisode, Tracker!RecoveryEvent, Tracker!SlaveIdentity
<1>2. Proved!EpisodeMatchesLosses <=> Tracker!EpisodeMatchesLosses
  BY SameEpisodes DEF Proved!EpisodeMatchesLosses, Tracker!EpisodeMatchesLosses
<1>3. Proved!RecoveryIsAccurate <=> Tracker!RecoveryIsAccurate
  BY SameOperators DEF Proved!RecoveryIsAccurate, Tracker!RecoveryIsAccurate
<1>4. QED
  BY <1>1, <1>2, <1>3

(* The tracker's state has its type inside the daemon too.                 *)
LEMMA TrackerTyped == Spec => []Tracker!TypeOK
<1>1. Proved!Spec => []Proved!TypeOK
  BY SameAssumptions, Proved!TypeCorrect, PTL
<1>2. Proved!TypeOK => Tracker!TypeOK
  BY SameProperties
<1>3. QED
  BY <1>1, <1>2, DaemonTracks, SameSpec, PTL

(* In the daemon the tracker keeps its promises: episodes agree with the   *)
(* losses announced, recoveries report what is there, no fault goes        *)
(* untracked and episodes end only in recoveries.                          *)
THEOREM TrackerInDaemon ==
    Spec => /\ []Tracker!EpisodeMatchesLosses
            /\ []Tracker!RecoveryIsAccurate
            /\ Tracker!FaultsAreTracked
            /\ Tracker!EpisodesEndInRecovery
<1>1. Proved!Spec => []Proved!EpisodeMatchesLosses
  BY SameAssumptions, Proved!EpisodesMatchLosses, PTL
<1>2. Proved!Spec => []Proved!RecoveryIsAccurate
  BY SameAssumptions, Proved!RecoveriesAreAccurate, PTL
<1>3. Proved!Spec => Proved!FaultsAreTracked
  BY SameAssumptions, Proved!FaultsTracked, PTL
<1>4. Proved!Spec => Proved!EpisodesEndInRecovery
  BY SameAssumptions, Proved!EpisodesRecover, PTL
<1>5. Proved!EpisodeMatchesLosses => Tracker!EpisodeMatchesLosses
  BY SameProperties
<1>6. Proved!RecoveryIsAccurate => Tracker!RecoveryIsAccurate
  BY SameProperties
<1>7. Proved!FaultsAreTracked => Tracker!FaultsAreTracked
  <2> DEFINE tracked(allValid, fewer, gone) ==
        /\ previous # NoSnapshot
        /\ allValid
        /\ (previous.link /\ ~previous'.link) \/ fewer \/ gone
        => episode' # NoEpisode \/ (episode # NoEpisode /\ recovery' # NoRecovery)
             shown == tracked(Proved!AllValid(previous),
                              Proved!SlaveCount(previous') < Proved!SlaveCount(previous),
                              \E id \in Proved!Identities(previous) :
                                    ~Proved!ContainsIdentity(previous', id))
             wanted == tracked(Tracker!AllValid(previous),
                               Tracker!SlaveCount(previous') < Tracker!SlaveCount(previous),
                               \E id \in Tracker!Identities(previous) :
                                    ~Tracker!ContainsIdentity(previous', id))
  <2>1. [shown]_(Proved!vars) => [wanted]_(Tracker!vars)
    BY SameOperators DEF Proved!vars, Tracker!vars
  <2>2. QED
    BY <2>1, PTL DEF Proved!FaultsAreTracked, Tracker!FaultsAreTracked
<1>8. Proved!EpisodesEndInRecovery => Tracker!EpisodesEndInRecovery
  <2> DEFINE ends(back) ==
        episode # NoEpisode =>
            IF episode' = NoEpisode
            THEN /\ recovery' # NoRecovery
                 /\ back
                 /\ recovery'.started = episode.started
            ELSE /\ episode'.expected = episode.expected
                 /\ episode'.expectedCount = episode.expectedCount
                 /\ episode'.started = episode.started
             shown == ends(episode.expected \subseteq Proved!Identities(previous'))
             wanted == ends(episode.expected \subseteq Tracker!Identities(previous'))
  <2>1. [shown]_(Proved!vars) => [wanted]_(Tracker!vars)
    BY SameOperators DEF Proved!vars, Tracker!vars
  <2>2. QED
    BY <2>1, PTL DEF Proved!EpisodesEndInRecovery, Tracker!EpisodesEndInRecovery
<1>9. QED
  BY <1>1, <1>2, <1>3, <1>4, <1>5, <1>6, <1>7, <1>8, DaemonTracks, SameSpec, PTL

-----------------------------------------------------------------------------
(* Sums                                                                    *)

(* How a sum over a set is built: from any element, and the rest.          *)
SomeOf(s) == CHOOSE x \in s : TRUE

IsSum(it, T, W) ==
    it = [s \in T |-> IF s = {} THEN 0
                      ELSE W[SomeOf(s)] + it[s \ {SomeOf(s)}]]

Small(S, n) == { s \in SUBSET S : Cardinality(s) <= n }

(* Taking out the element that a fold begins with leaves one less.         *)
LEMMA SomeIsOut ==
    ASSUME NEW S, IsFiniteSet(S), NEW s \in SUBSET S, s # {}
    PROVE  /\ SomeOf(s) \in s /\ s \ {SomeOf(s)} \in SUBSET S
           /\ Cardinality(s) \in Nat /\ Cardinality(s) > 0
           /\ Cardinality(s \ {SomeOf(s)}) = Cardinality(s) - 1
<1>1. SomeOf(s) \in s
  BY DEF SomeOf
<1>2. IsFiniteSet(s)
  BY FS_Subset
<1>3. Cardinality(s) \in Nat /\ Cardinality(s) # 0
  BY <1>2, FS_CardinalityType, FS_EmptySet
<1>4. Cardinality(s \ {SomeOf(s)}) = Cardinality(s) - 1
  BY <1>1, <1>2, FS_RemoveElement
<1>5. QED
  BY <1>1, <1>3, <1>4

(* The recursion of the sum defines a function on all subsets ...          *)
LEMMA SumExists ==
    ASSUME NEW S, IsFiniteSet(S), NEW W
    PROVE  \E it : IsSum(it, SUBSET S, W)
<1> DEFINE Missing == { n \in Nat : ~ \E it : IsSum(it, Small(S, n), W) }
<1>1. Missing = {}
  <2> SUFFICES ASSUME Missing # {} PROVE FALSE
    OBVIOUS
  <2>1. PICK n \in Missing : \A m \in Missing : n <= m
    <3>1. Missing \in SUBSET Nat
      OBVIOUS
    <3> HIDE DEF Missing
    <3>2. QED
      BY <3>1, LeastNatural
  <2>2. n # 0
    <3> SUFFICES ASSUME n = 0 PROVE FALSE
      OBVIOUS
    <3> DEFINE it == [s \in Small(S, 0) |-> 0]
    <3>1. \A s \in Small(S, 0) : s = {}
      <4> SUFFICES ASSUME NEW s \in Small(S, 0), s # {} PROVE FALSE
        OBVIOUS
      <4>1. Cardinality(s) <= 0 /\ Cardinality(s) \in Nat /\ Cardinality(s) > 0
        BY SomeIsOut DEF Small
      <4>2. QED
        BY <4>1
    <3>2. it = [s \in Small(S, 0) |-> IF s = {} THEN 0
                  ELSE W[SomeOf(s)] + it[s \ {SomeOf(s)}]]
      BY <3>1, Zenon
    <3>3. IsSum(it, Small(S, 0), W)
      BY <3>2 DEF IsSum
    <3>4. QED
      BY <2>1, <3>3
  <2>3. n \in Nat /\ n - 1 \in Nat /\ n - 1 \notin Missing
    <3>1. n \in Nat
      OBVIOUS
    <3> HIDE DEF Missing
    <3>2. QED
      BY <2>1, <2>2, <3>1
  <2>4. PICK f : IsSum(f, Small(S, n - 1), W)
    BY <2>3
  <2> DEFINE next(s) == IF s = {} THEN 0 ELSE W[SomeOf(s)] + f[s \ {SomeOf(s)}]
             it == [s \in Small(S, n) |-> next(s)]
  <2>5. ASSUME NEW s \in Small(S, n), s # {}
        PROVE  s \ {SomeOf(s)} \in Small(S, n - 1)
    BY <2>3, <2>5, SomeIsOut DEF Small
  <2>6. ASSUME NEW u \in Small(S, n - 1) PROVE it[u] = f[u]
    <3>1. u \in Small(S, n)
      <4>1. IsFiniteSet(u)
        BY FS_Subset DEF Small
      <4>2. Cardinality(u) \in Nat
        BY <4>1, FS_CardinalityType
      <4>3. QED
        BY <2>3, <4>2 DEF Small
    <3>2. f[u] = next(u)
      BY <2>4, Zenon DEF IsSum
    <3>3. it[u] = next(u)
      BY <3>1, Zenon
    <3>4. QED
      BY <3>2, <3>3
  <2> DEFINE again(s) == IF s = {} THEN 0 ELSE W[SomeOf(s)] + it[s \ {SomeOf(s)}]
  <2>7. \A s \in Small(S, n) : next(s) = again(s)
    <3> HIDE DEF it
    <3> QED
      BY <2>5, <2>6
  <2>8. it = [s \in Small(S, n) |-> again(s)]
    <3>1. it = [s \in Small(S, n) |-> next(s)]
      BY Zenon
    <3>2. [s \in Small(S, n) |-> next(s)] = [s \in Small(S, n) |-> again(s)]
      <4> HIDE DEF next, again, it
      <4> QED
        BY <2>7, Zenon
    <3>3. QED
      BY <3>1, <3>2, Zenon
  <2>9. IsSum(it, Small(S, n), W)
    BY <2>8 DEF IsSum
  <2>10. QED
    BY <2>1, <2>9
<1>2. Cardinality(S) \in Nat
  BY FS_CardinalityType
<1>3. Small(S, Cardinality(S)) = SUBSET S
  BY FS_Subset DEF Small
<1>4. PICK it : IsSum(it, Small(S, Cardinality(S)), W)
  BY <1>1, <1>2
<1>5. QED
  BY <1>3, <1>4

(* ... and what it defines is a natural number, if every weight is.        *)
LEMMA SumIsNatural ==
    ASSUME NEW S, IsFiniteSet(S), NEW W, \A x \in S : W[x] \in Nat,
           NEW it, IsSum(it, SUBSET S, W)
    PROVE  it[S] \in Nat
<1> DEFINE Bad == { s \in SUBSET S : it[s] \notin Nat }
           Sizes == { n \in Nat : \E s \in Bad : n = Cardinality(s) }
<1>1. \A s \in SUBSET S : Cardinality(s) \in Nat
  BY FS_Subset, FS_CardinalityType
<1>2. SUFFICES ASSUME it[S] \notin Nat PROVE FALSE
  OBVIOUS
<1>3. Sizes \in SUBSET Nat /\ Sizes # {}
  BY <1>1, <1>2
<1>4. PICK n \in Sizes : \A m \in Sizes : n <= m
  <2> HIDE DEF Sizes
  <2> QED
    BY <1>3, LeastNatural
<1>5. PICK s \in Bad : n = Cardinality(s)
  OBVIOUS
<1>6. it[s] = IF s = {} THEN 0 ELSE W[SomeOf(s)] + it[s \ {SomeOf(s)}]
  BY Zenon DEF IsSum
<1>7. s # {}
  BY <1>6
<1> DEFINE rest == s \ {SomeOf(s)}
<1>8. /\ SomeOf(s) \in S /\ rest \in SUBSET S
      /\ Cardinality(s) \in Nat /\ Cardinality(rest) = Cardinality(s) - 1
      /\ Cardinality(rest) \in Nat
  BY <1>1, <1>7, SomeIsOut
<1>9. rest \notin Bad
  <2> SUFFICES ASSUME rest \in Bad PROVE FALSE
    OBVIOUS
  <2>1. Cardinality(rest) \in Sizes
    BY <1>8
  <2> HIDE DEF Sizes, Bad, rest
  <2>2. QED
    BY <1>4, <1>5, <1>8, <2>1
<1>10. it[rest] \in Nat /\ W[SomeOf(s)] \in Nat
  BY <1>8, <1>9
<1>11. it[s] \in Nat
  BY <1>6, <1>7, <1>10
<1>12. QED
  BY <1>11

(* A sum of natural numbers, over any finite set, is one.                  *)
LEMMA SumFunctionIsNatural ==
    ASSUME NEW S, IsFiniteSet(S), NEW W \in [S -> Nat]
    PROVE  SumFunction(W) \in Nat
<1> DEFINE sum == CHOOSE it : IsSum(it, SUBSET S, W)
<1>1. DOMAIN W = S
  OBVIOUS
<1>2. SumFunction(W) = sum[S]
  BY <1>1, Zenon DEF SumFunction, SumFunctionOnSet, FoldFunctionOnSet,
                     MapThenFoldSet, IsSum, SomeOf
<1>3. IsSum(sum, SUBSET S, W)
  BY SumExists, Zenon
<1> HIDE DEF sum
<1>4. QED
  BY <1>2, <1>3, SumIsNatural

-----------------------------------------------------------------------------
(* The verdict                                                             *)

(* What the analyzer can be given: frames with positions up to n and       *)
(* finitely many port errors.                                              *)
Evidence(n) ==
    [ ts : Nat, link : BOOLEAN,
      states : SUBSET [position : 0..n, error : BOOLEAN],
      lost : SUBSET (0..n), ports : { e \in SUBSET PortError : IsFiniteSet(e) },
      boundary : [alive : Int, lost : Nat] \union {NoBoundary},
      al : AlSamples \union {NoSample} ]

(* Finitely many frames have finitely many positions and port errors.      *)
LEMMA EvidenceIsFinite ==
    ASSUME NEW n \in Nat, NEW fs \in Seq(Evidence(n))
    PROVE  /\ IsFiniteSet(LostPositions(fs)) /\ Cardinality(LostPositions(fs)) \in Nat
           /\ Cardinality(ErrorPositions(fs)) \in Nat
           /\ IsFiniteSet(PortErrors(fs))
           /\ \A x \in PortErrors(fs) : x[2] \in PortError
<1>1. /\ DOMAIN fs = 1..Len(fs) /\ Len(fs) \in Nat
      /\ \A i \in DOMAIN fs : fs[i] \in Evidence(n)
  OBVIOUS
<1>2. IsFiniteSet(0..n)
  BY FS_Interval
<1>3. LostPositions(fs) \in SUBSET (0..n)
  BY <1>1 DEF LostPositions, Evidence
<1>4. ErrorPositions(fs) \in SUBSET (0..n)
  <2>1. \A i \in DOMAIN fs : \A s \in fs[i].states : s.position \in 0..n
    BY <1>1 DEF Evidence
  <2> DEFINE reported == UNION { { s.position : s \in fs[i].states } : i \in DOMAIN fs }
  <2>2. reported \subseteq 0..n
    BY <2>1
  <2>3. ErrorPositions(fs) \subseteq reported
    BY Zenon DEF ErrorPositions
  <2>4. QED
    BY <2>2, <2>3
<1>5. /\ IsFiniteSet(LostPositions(fs)) /\ Cardinality(LostPositions(fs)) \in Nat
      /\ Cardinality(ErrorPositions(fs)) \in Nat
  BY <1>2, <1>3, <1>4, FS_Subset, FS_CardinalityType
<1> DEFINE reported == { fs[i].ports : i \in 1..Len(fs) }
           first == [i \in 1..Len(fs) |-> fs[i].ports]
<1>6. IsFiniteSet(1..Len(fs))
  BY <1>1, FS_Interval
<1>7. first \in Surjection(1..Len(fs), reported)
  BY DEF Surjection
<1>8. IsFiniteSet(reported)
  BY <1>6, <1>7, FS_Surjection
<1>9. \A e \in reported : IsFiniteSet(e)
  BY <1>1 DEF Evidence
<1>10. IsFiniteSet(UNION reported)
  BY <1>8, <1>9, FS_UNION
<1>11. IsFiniteSet((1..Len(fs)) \X UNION reported)
  BY <1>6, <1>10, FS_Product
<1>12. PortErrors(fs) \in SUBSET ((1..Len(fs)) \X UNION reported)
  BY <1>1 DEF PortErrors
<1>13. IsFiniteSet(PortErrors(fs))
  BY <1>11, <1>12, FS_Subset
<1>14. \A e \in reported : e \subseteq PortError
  BY <1>1 DEF Evidence
<1>15. \A x \in PortErrors(fs) : x[2] \in PortError
  BY <1>12, <1>14
<1>16. QED
  BY <1>5, <1>13, <1>15

(* A port error counts for something, never against.                       *)
LEMMA WeightsAreNatural ==
    ASSUME NEW e \in PortError
    PROVE  /\ (IF e.kind = "LOST_LINK" THEN AtMost(60, 60 * e.delta)
               ELSE AtMost(20, 3 * e.delta)) \in Nat
           /\ AtMost(IF e.kind = "LOST_LINK" THEN 10 ELSE 30, 5 * e.delta) \in Nat
<1>1. e.delta \in Nat
  BY DEF PortError
<1>2. QED
  BY <1>1 DEF AtMost

(* Every score is an integer, and a loss on a bus that is up counts for a  *)
(* broken link between slaves whether or not it was located.               *)
LEMMA BoundaryScoreIsInteger ==
    ASSUME NEW n \in Nat, NEW fs \in Seq(Evidence(n))
    PROVE  /\ BoundaryScore(fs) \in Int
           /\ LatestLink(fs) = TRUE /\ LostPositions(fs) # {} => BoundaryScore(fs) > 0
<1> DEFINE boundary == LatestBoundary(fs)
           atBoundary == { x \in PortErrors(fs) :
                            /\ boundary # NoBoundary
                            /\ x[2].position = boundary.alive }
           weight(e) == IF e.kind = "LOST_LINK" THEN AtMost(60, 60 * e.delta)
                        ELSE AtMost(20, 3 * e.delta)
           weights == [x \in atBoundary |-> weight(x[2])]
           link == IF ~LatestLink(fs) THEN -60 ELSE IF boundary # NoBoundary THEN 15 ELSE 0
           located == IF boundary # NoBoundary THEN 10 ELSE 0
           lostCount == Cardinality(LostPositions(fs))
<1>1. IsFiniteSet(atBoundary) /\ \A x \in atBoundary : x[2] \in PortError
  BY EvidenceIsFinite, FS_Subset
<1>2. \A e \in PortError : weight(e) \in Nat
  BY WeightsAreNatural, Zenon
<1> HIDE DEF weight, atBoundary
<1>3. weights \in [atBoundary -> Nat]
  BY <1>1, <1>2
<1>4. SumFunction(weights) \in Nat
  BY <1>1, <1>3, SumFunctionIsNatural
<1>5. lostCount \in Nat /\ (LostPositions(fs) # {} => lostCount > 0)
  BY EvidenceIsFinite, FS_EmptySet
<1>6. BoundaryScore(fs) = SumFunction(weights) + link + located + 35 * lostCount
  BY Zenon DEF BoundaryScore, weight, atBoundary
<1>7. /\ link \in Int /\ located \in Nat
      /\ LatestLink(fs) = TRUE => link \in Nat
  OBVIOUS
<1> HIDE DEF weights, link, located, lostCount
<1>8. QED
  BY <1>4, <1>5, <1>6, <1>7

(* The score of the quality is a number; it can be negative before it is   *)
(* cut off at 0.                                                           *)
LEMMA QualityScoreIsInteger ==
    ASSUME NEW n \in Nat, NEW fs \in Seq(Evidence(n))
    PROVE  QualityScore(fs) \in Int
<1> DEFINE errors == PortErrors(fs)
           weight(e) == AtMost(IF e.kind = "LOST_LINK" THEN 10 ELSE 30, 5 * e.delta)
           weights == [x \in errors |-> weight(x[2])]
           up == IF LatestLink(fs) /\ errors # {} THEN 10 ELSE 0
           whole == IF LostPositions(fs) # {} THEN -10 ELSE IF errors # {} THEN 15 ELSE 0
<1>1. IsFiniteSet(errors) /\ \A x \in errors : x[2] \in PortError
  BY EvidenceIsFinite
<1>2. \A e \in PortError : weight(e) \in Nat
  BY WeightsAreNatural, Zenon
<1> HIDE DEF weight, errors
<1>3. weights \in [errors -> Nat]
  BY <1>1, <1>2
<1>4. SumFunction(weights) \in Nat
  BY <1>1, <1>3, SumFunctionIsNatural
<1>5. QualityScore(fs) = SumFunction(weights) + up + whole
  BY Zenon DEF QualityScore, weight, errors
<1>6. up \in Int /\ whole \in Int
  OBVIOUS
<1> HIDE DEF weights, up, whole
<1>7. QED
  BY <1>4, <1>5, <1>6

(* No score is negative; the link decides whether the master can have one, *)
(* and a loss gives the cable one.                                         *)
LEMMA ScoresAreNatural ==
    ASSUME NEW n \in Nat, NEW fs \in Seq(Evidence(n))
    PROVE  /\ Scores(fs) \in [1..4 -> Nat]
           /\ LatestLink(fs) = TRUE => Scores(fs)[1] = 0
           /\ LatestLink(fs) = TRUE /\ LostPositions(fs) # {} => Scores(fs)[2] > 0
<1>1. MasterScore(fs) \in Int /\ (LatestLink(fs) = TRUE => MasterScore(fs) < 0)
  BY DEF MasterScore
<1>2. SlaveScore(fs) \in Int
  <2>1. Cardinality(ErrorPositions(fs)) \in Nat
    BY EvidenceIsFinite
  <2>2. QED
    BY <2>1 DEF SlaveScore
<1>3. \A k \in Int : Clamped(k) \in Nat /\ (k < 0 => Clamped(k) = 0)
                     /\ (k > 0 => Clamped(k) > 0)
  BY DEF Clamped
<1>4. /\ BoundaryScore(fs) \in Int /\ QualityScore(fs) \in Int
      /\ LatestLink(fs) = TRUE /\ LostPositions(fs) # {} => BoundaryScore(fs) > 0
  BY BoundaryScoreIsInteger, QualityScoreIsInteger
<1>5. /\ Scores(fs)[1] = Clamped(MasterScore(fs))
      /\ Scores(fs)[2] = Clamped(BoundaryScore(fs))
  BY DEF Scores
<1>6. Scores(fs) \in [1..4 -> Nat]
  <2>1. /\ Clamped(MasterScore(fs)) \in Nat /\ Clamped(BoundaryScore(fs)) \in Nat
        /\ Clamped(SlaveScore(fs)) \in Nat /\ Clamped(QualityScore(fs)) \in Nat
    BY <1>1, <1>2, <1>3, <1>4
  <2>2. QED
    BY <2>1 DEF Scores
<1>7. QED
  BY <1>1, <1>3, <1>4, <1>5, <1>6

(* There is a best score: the first of the highest ones.                   *)
LEMMA BestIsHighest ==
    ASSUME NEW scores \in [1..4 -> Nat]
    PROVE  Best(scores) \in 1..4 /\ \A j \in 1..4 : scores[j] <= scores[Best(scores)]
<1> DEFINE best(i) == /\ \A j \in 1..4 : scores[j] <= scores[i]
                      /\ \A j \in 1..i - 1 : scores[j] < scores[i]
<1>1. PICK i \in 1..4 : \A j \in 1..4 : scores[j] <= scores[i]
  OBVIOUS
<1> DEFINE highest == { k \in 1..4 : scores[k] = scores[i] }
<1>2. i \in highest /\ highest \in SUBSET Nat
  OBVIOUS
<1>3. PICK k \in highest : \A m \in highest : k <= m
  <2> HIDE DEF highest
  <2> QED
    BY <1>2, LeastNatural
<1>4. best(k)
  BY <1>1, <1>3
<1>5. Best(scores) \in 1..4 /\ best(Best(scores))
  <2>1. Best(scores) = CHOOSE n \in 1..4 : best(n)
    BY DEF Best
  <2>2. k \in 1..4
    OBVIOUS
  <2> HIDE DEF best
  <2>3. QED
    BY <1>4, <2>1, <2>2
<1>6. QED
  BY <1>5

(* The greatest of some positions is one of them.                          *)
LEMMA GreatestIsOneOf ==
    ASSUME NEW k \in Nat, NEW S \in SUBSET (1..k), S # {}
    PROVE  Max(S) \in S
<1> DEFINE Below == { k - i : i \in S }
<1>1. Below \in SUBSET Nat /\ Below # {}
  <2>1. \A i \in S : k - i \in Nat
    OBVIOUS
  <2>2. QED
    BY <2>1
<1>2. PICK m \in Below : \A j \in Below : m <= j
  <2> HIDE DEF Below
  <2> QED
    BY <1>1, LeastNatural
<1>3. PICK i \in S : m = k - i
  OBVIOUS
<1>4. \A j \in S : i >= j
  <2> SUFFICES ASSUME NEW j \in S PROVE i >= j
    OBVIOUS
  <2>1. m <= k - j
    BY <1>2
  <2>2. QED
    BY <1>3, <2>1
<1>5. QED
  BY <1>3, <1>4, Zenon DEF Max

(* The last boundary is one, or there is none.                             *)
LEMMA LatestBoundaryType ==
    ASSUME NEW n \in Nat, NEW fs \in Seq(Evidence(n))
    PROVE  LatestBoundary(fs) \in [alive : Int, lost : Int] \union {NoBoundary}
<1> DEFINE told == { i \in DOMAIN fs : fs[i].boundary # NoBoundary }
<1>1. DOMAIN fs = 1..Len(fs) /\ Len(fs) \in Nat
  OBVIOUS
<1>2. \A i \in DOMAIN fs : fs[i].boundary \in [alive : Int, lost : Int] \union {NoBoundary}
  <2> SUFFICES ASSUME NEW i \in DOMAIN fs
               PROVE  fs[i].boundary \in [alive : Int, lost : Int] \union {NoBoundary}
    OBVIOUS
  <2>1. fs[i] \in Evidence(n)
    OBVIOUS
  <2>2. fs[i].boundary \in [alive : Int, lost : Nat] \union {NoBoundary}
    BY <2>1, Zenon DEF Evidence
  <2>3. QED
    BY <2>2
<1>3. CASE told = {}
  BY <1>3, Zenon DEF LatestBoundary, LatestIndex
<1>4. CASE told # {}
  <2>1. Max(told) \in told /\ Max(told) # 0
    <3>1. told \in SUBSET (1..Len(fs))
      BY <1>1
    <3> HIDE DEF told
    <3>2. Max(told) \in told
      BY <1>1, <1>4, <3>1, GreatestIsOneOf
    <3>3. QED
      BY <3>1, <3>2
  <2>2. LatestBoundary(fs) = fs[Max(told)].boundary
    BY <1>4, <2>1, Zenon DEF LatestBoundary, LatestIndex
  <2>3. QED
    BY <1>2, <2>1, <2>2
<1>5. QED
  BY <1>3, <1>4

(* The kinds that are ranked are kinds of root cause; only the first       *)
(* blames the master.                                                      *)
LEMMA RankedKindsAreKinds ==
    ASSUME NEW i \in 1..4
    PROVE  /\ RankedKinds[i] \in Kinds /\ RankedKinds[i] # "UNKNOWN"
           /\ RankedKinds[i] = "MASTER_LINK_FAILURE" => i = 1
<1>1. RankedKinds[i] \in Kinds
  BY DEF Kinds
<1>2. i = 1 \/ i = 2 \/ i = 3 \/ i = 4
  OBVIOUS
<1>3. QED
  BY <1>1, <1>2 DEF RankedKinds

(* A verdict never blames the master while the link of the latest frame is *)
(* up, and with a loss there is then always a cause (analyze).             *)
THEOREM VerdictIsSound ==
    ASSUME NEW n \in Nat, NEW fs \in Seq(Evidence(n))
    PROVE  /\ Analyze(fs) \in Report
           /\ LatestLink(fs) = TRUE => Analyze(fs).primary # "MASTER_LINK_FAILURE"
           /\ LatestLink(fs) = TRUE /\ LostPositions(fs) # {}
              => Analyze(fs).primary # "UNKNOWN"
<1> DEFINE scores == Scores(fs)
           best == Best(scores)
           known == scores[best] > 0
           primary == IF known THEN RankedKinds[best] ELSE "UNKNOWN"
           conclusive == known /\ IsConclusive(scores, best)
<1>1. /\ scores \in [1..4 -> Nat]
      /\ LatestLink(fs) = TRUE => scores[1] = 0
      /\ LatestLink(fs) = TRUE /\ LostPositions(fs) # {} => scores[2] > 0
  BY ScoresAreNatural
<1>2. best \in 1..4 /\ \A j \in 1..4 : scores[j] <= scores[best]
  BY <1>1, BestIsHighest
<1>3. Analyze(fs) = [ primary |-> primary, conclusive |-> conclusive,
                      boundary |-> LatestBoundary(fs) ]
  BY Zenon DEF Analyze
<1>4. conclusive \in BOOLEAN
  BY DEF IsConclusive
<1> HIDE DEF scores, best, conclusive
<1>5. /\ primary \in Kinds \union {"UNKNOWN"}
      /\ known => primary # "UNKNOWN"
      /\ primary = "MASTER_LINK_FAILURE" => best = 1 /\ known
  BY <1>2, RankedKindsAreKinds
<1>6. LatestLink(fs) = TRUE => primary # "MASTER_LINK_FAILURE"
  BY <1>1, <1>2, <1>5
<1>7. LatestLink(fs) = TRUE /\ LostPositions(fs) # {} => known
  <2> SUFFICES ASSUME LatestLink(fs) = TRUE, LostPositions(fs) # {} PROVE known
    OBVIOUS
  <2>1. scores[2] > 0 /\ scores[2] \in Nat /\ scores[best] \in Nat /\ scores[2] <= scores[best]
    BY <1>1, <1>2
  <2>2. QED
    BY <2>1
<1> HIDE DEF primary, known
<1>8. QED
  BY <1>3, <1>4, <1>5, <1>6, <1>7, LatestBoundaryType DEF Report

(* A break that is located is a slave that is gone.                        *)
LEMMA LocatedIsLost ==
    ASSUME NEW p \in Snapshot, NEW c \in Snapshot, Locate(p, c).valid
    PROVE  /\ Locate(p, c) \in [valid : BOOLEAN, alive : Int, lost : Nat]
           /\ Locate(p, c).lost + 1 \in DOMAIN p.slaves
           /\ Valid(p.slaves[Locate(p, c).lost + 1].id)
           /\ ~ContainsIdentity(c, p.slaves[Locate(p, c).lost + 1].id)
<1> DEFINE stop == FirstStop(p, c)
           i == CHOOSE k \in stop : TRUE
           near == NearestAlive(p, c, i)
           k == CHOOSE j \in near : TRUE
           alive == IF near = {} THEN -1 ELSE PositionOf(c, p.slaves[k].id)
<1>1. /\ p \in NetworkSnapshot /\ c \in NetworkSnapshot
      /\ DOMAIN p.slaves = 1..SlaveCount(p) /\ SlaveCount(p) \in Nat
      /\ Identities(p) \subseteq SlaveIdentity
  BY SnapshotFields
<1>2. \E j \in stop : Valid(p.slaves[j].id)
  BY DEF Locate, InvalidBoundary
<1>3. i \in stop /\ Valid(p.slaves[i].id)
  <2>1. PICK j \in stop : Valid(p.slaves[j].id)
    BY <1>2
  <2>2. i \in stop
    BY <2>1
  <2>3. i = j
    BY <1>1, <2>1, <2>2, StopsOnce
  <2>4. QED
    BY <2>1, <2>3
<1>4. Locate(p, c) = [valid |-> TRUE, lost |-> i - 1, alive |-> alive]
  BY <1>2, Zenon DEF Locate
<1>5. i \in DOMAIN p.slaves /\ ~ContainsIdentity(c, p.slaves[i].id)
  BY <1>3 DEF FirstStop, StillThere
<1>6. alive \in Int
  <2>1. CASE near = {}
    BY <2>1
  <2>2. CASE near # {}
    <3>1. k \in near
      BY <2>2
    <3>2. k \in DOMAIN p.slaves
      BY <1>1, <1>5, <3>1 DEF NearestAlive
    <3>3. p.slaves[k].id \in SlaveIdentity
      BY <1>1, <3>2 DEF Identities
    <3>4. PositionOf(c, p.slaves[k].id) \in Int
      BY <1>1, <3>3, PositionIsFound
    <3>5. QED
      BY <2>2, <3>4
  <2>3. QED
    BY <2>1, <2>2
<1> HIDE DEF i, alive
<1>7. i \in Nat /\ i - 1 \in Nat /\ (i - 1) + 1 = i
  BY <1>1, <1>5
<1>8. QED
  BY <1>3, <1>4, <1>5, <1>6, <1>7

(* Where slaves are announced lost is where they were.                     *)
LEMMA LostWhereItWas ==
    ASSUME NEW p \in Snapshot, NEW c \in Snapshot,
           NEW e \in Detected(p, c), e.type = "SLAVE_LOST"
    PROVE  e.position \in Nat /\ e.position < SlaveCount(p)
<1>1. /\ p # NoSnapshot
      /\ DOMAIN p.slaves = 1..SlaveCount(p) /\ SlaveCount(p) \in Nat
      /\ p.link \in BOOLEAN /\ c.link \in BOOLEAN
  <2>1. p \in NetworkSnapshot /\ c \in NetworkSnapshot
    BY SnapshotFields
  <2>2. QED
    BY <2>1, SnapshotFields DEF NetworkSnapshot
<1>2. \A x \in LinkEvents(p, c) : x.type # "SLAVE_LOST"
  BY <1>1 DEF LinkEvents, BusEvent
<1>3. \A x \in CountEvents(p, c) : x.type # "SLAVE_LOST"
  BY DEF CountEvents, BusEvent
<1>4. \A x \in StateEvents(p, c) : x.type # "SLAVE_LOST"
  BY DEF StateEvents
<1>5. e \in LostEvents(p, c)
  BY <1>1, <1>2, <1>3, <1>4, Zenon DEF Detected
<1>6. PICK i \in DOMAIN p.slaves : e.position = i - 1
  BY <1>5 DEF LostEvents
<1>7. QED
  BY <1>1, <1>6

(* The frame of a step is evidence, and a boundary in it is one of the     *)
(* losses in it.                                                           *)
LEMMA FrameIsEvidence ==
    ASSUME EpisodeTyped, NEW current \in Snapshot, NEW ports \in PortResult,
           NEW sample \in Samples(current), NEW n \in Nat,
           SlaveCount(current) <= n,
           previous # NoSnapshot => SlaveCount(previous) <= n
    PROVE  LET events == Detected(previous, current)
               diagnosis == Diagnose(previous, current, events, lastDiagnosis, sample)
               frame == FrameOf(current, events, ports, diagnosis)
           IN  /\ frame \in Evidence(n)
               /\ frame.link = current.link /\ frame.ts = current.ts
               /\ frame.ports = ports
               /\ frame.boundary # NoBoundary =>
                    frame.boundary.lost \in frame.lost
               /\ frame.lost # {} => \E e \in events : e.type = "SLAVE_LOST"
<1> DEFINE events == Detected(previous, current)
           diagnosis == Diagnose(previous, current, events, lastDiagnosis, sample)
           frame == FrameOf(current, events, ports, diagnosis)
           place == Locate(previous, current)
           states == { [position |-> i - 1, error |-> current.slaves[i].error] :
                        i \in DOMAIN current.slaves }
           losses == { e.position : e \in { f \in events : f.type = "SLAVE_LOST" } }
           al == IF diagnosis = NoDiagnosis THEN NoSample ELSE diagnosis.al
<1>1. /\ current \in NetworkSnapshot /\ current.ts \in Nat /\ current.link \in BOOLEAN
      /\ DOMAIN current.slaves = 1..SlaveCount(current) /\ SlaveCount(current) \in Nat
      /\ \A i \in DOMAIN current.slaves : current.slaves[i].error \in BOOLEAN
  <2>1. current \in NetworkSnapshot
    BY SnapshotFields
  <2>2. current.link \in BOOLEAN /\ current.slaves \in Seq(Slave)
    BY <2>1 DEF NetworkSnapshot
  <2>3. \A i \in DOMAIN current.slaves : current.slaves[i] \in Slave
    BY <2>2
  <2>4. QED
    BY <2>1, <2>2, <2>3, SnapshotFields DEF Slave
<1>2. frame = [ ts |-> current.ts, link |-> current.link, states |-> states,
                lost |-> losses, ports |-> ports,
                boundary |-> BoundaryOf(diagnosis), al |-> al ]
  BY Zenon DEF FrameOf
<1>3. ASSUME NEW e \in events, e.type = "SLAVE_LOST"
      PROVE  previous \in Snapshot /\ e.position \in 0..n
  <2>1. previous \in Snapshot
    BY <1>3 DEF Detected, EpisodeTyped
  <2>2. e.position \in Nat /\ e.position < SlaveCount(previous)
    BY <1>3, <2>1, LostWhereItWas
  <2>3. SlaveCount(previous) \in Nat /\ SlaveCount(previous) <= n
    BY <2>1, SnapshotFields
  <2>4. QED
    BY <2>1, <2>2, <2>3
<1>4. losses \in SUBSET (0..n)
  BY <1>3
<1>5. states \in SUBSET [position : 0..n, error : BOOLEAN]
  <2>1. \A i \in DOMAIN current.slaves : i - 1 \in 0..n
    BY <1>1
  <2>2. QED
    BY <1>1, <2>1
<1>6. diagnosis # NoDiagnosis =>
        /\ previous \in Snapshot /\ diagnosis = Run(place, sample)
  <2> SUFFICES ASSUME diagnosis # NoDiagnosis
               PROVE  previous \in Snapshot /\ diagnosis = Run(place, sample)
    OBVIOUS
  <2>1. \E e \in events : e.type = "SLAVE_LOST"
    BY DEF Diagnose
  <2>2. diagnosis = Run(place, sample)
    BY DEF Diagnose
  <2>3. QED
    BY <1>3, <2>1, <2>2
<1>7. al \in AlSamples \union {NoSample}
  <2>1. CASE diagnosis = NoDiagnosis
    BY <2>1
  <2>2. CASE diagnosis # NoDiagnosis /\ CanRead(place)
    <3>1. previous \in Snapshot /\ diagnosis = Run(place, sample)
      BY <1>6, <2>2
    <3>2. sample \in EscSample
      BY <2>2, <3>1, SnapshotFields, InputAssumption DEF Samples
    <3>3. place.alive \in Nat
      BY <2>2, <3>1, LocatedIsLost DEF CanRead
    <3>4. AlSample(place.alive, sample) \in AlSamples
      BY <3>2, <3>3 DEF AlSample, AlSamples, EscSample
    <3>5. al = AlSample(place.alive, sample)
      BY <2>2, <3>1 DEF Run
    <3>6. QED
      BY <3>4, <3>5
  <2>3. CASE diagnosis # NoDiagnosis /\ ~CanRead(place)
    BY <1>6, <2>3 DEF Run
  <2>4. QED
    BY <2>1, <2>2, <2>3
<1>8. BoundaryOf(diagnosis) # NoBoundary =>
        /\ previous \in Snapshot /\ place.valid
        /\ BoundaryOf(diagnosis) = [alive |-> place.alive, lost |-> place.lost]
  BY <1>6 DEF BoundaryOf, Run
<1>9. BoundaryOf(diagnosis) \in [alive : Int, lost : Nat] \union {NoBoundary}
  BY <1>8, LocatedIsLost
<1>10. BoundaryOf(diagnosis) # NoBoundary => BoundaryOf(diagnosis).lost \in losses
  <2> SUFFICES ASSUME BoundaryOf(diagnosis) # NoBoundary
               PROVE  BoundaryOf(diagnosis).lost \in losses
    OBVIOUS
  <2> DEFINE i == place.lost + 1
             e == [ type |-> "SLAVE_LOST", ts |-> current.ts, position |-> i - 1,
                    id |-> previous.slaves[i].id, old |-> 1, new |-> 0 ]
  <2>1. /\ previous \in Snapshot /\ place.valid
        /\ BoundaryOf(diagnosis).lost = place.lost
    BY <1>8
  <2>2. /\ i \in DOMAIN previous.slaves /\ place.lost \in Nat
        /\ Valid(previous.slaves[i].id) /\ ~ContainsIdentity(current, previous.slaves[i].id)
    BY <2>1, LocatedIsLost
  <2> HIDE DEF i, place
  <2>3. e \in LostEvents(previous, current)
    BY <2>2 DEF LostEvents
  <2>4. e \in events /\ e.type = "SLAVE_LOST"
    BY <2>1, <2>3, SnapshotFields DEF Detected
  <2>5. e.position = place.lost
    BY <2>2 DEF i
  <2>6. QED
    BY <2>1, <2>4, <2>5
<1>11. ports \in { e \in SUBSET PortError : IsFiniteSet(e) }
  BY InputAssumption
<1>12. losses # {} => \E e \in events : e.type = "SLAVE_LOST"
  OBVIOUS
<1> HIDE DEF events, diagnosis, states, losses, al
<1>13. frame \in Evidence(n)
  BY <1>1, <1>2, <1>4, <1>5, <1>7, <1>9, <1>11 DEF Evidence
<1>14. QED
  BY <1>2, <1>10, <1>12, <1>13 DEF frame, events, diagnosis

(* The window has only frames that were pushed.                            *)
LEMMA SlidIsOfFrames ==
    ASSUME NEW T, \A x \in T : x.ts \in Nat,
           NEW fs \in Seq(T), NEW frame \in T
    PROVE  /\ Slid(fs, frame) \in Seq(T) /\ Slid(fs, frame) # << >>
           /\ Slid(fs, frame)[Len(Slid(fs, frame))] = frame
<1> DEFINE new == Slid(fs, frame)
           all == Append(Kept(fs, frame), frame)
<1>1. IsTimed(fs) /\ frame.ts \in Nat
  BY DEF IsTimed
<1>2. IsTimed(new) /\ new # << >> /\ new[Len(new)] = frame
  BY <1>1, SlidEndsInFrame
<1>3. PICK from : IsRecentEnd(new, all, from, frame)
  BY <1>1, SlidIsRecentEnd
<1>4. all \in Seq(T)
  BY DEF Kept
<1> HIDE DEF new, all
<1>5. /\ from \in 1..Len(all) /\ Len(all) \in Nat
      /\ Len(new) = Len(all) - from + 1
      /\ \A i \in 1..Len(new) : new[i] = all[from + i - 1]
  BY <1>3 DEF IsRecentEnd
<1>6. \A i \in 1..Len(new) : new[i] \in T
  <2>1. \A i \in 1..Len(new) : from + i - 1 \in 1..Len(all)
    BY <1>5
  <2>2. QED
    BY <1>4, <1>5, <2>1
<1>7. PICK S : new \in Seq(S)
  BY <1>2 DEF IsTimed
<1>8. new \in Seq(T)
  <2>1. Len(new) \in Nat /\ new \in [1..Len(new) -> S]
    BY <1>7
  <2>2. new \in [1..Len(new) -> T]
    BY <1>6, <2>1
  <2>3. QED
    BY <2>1, <2>2, SeqDef
<1>9. QED
  BY <1>2, <1>8 DEF new

(* What is left of frames for a break is evidence of the same time and     *)
(* link, with the losses on the broken side.                               *)
LEMMA RelatedIsEvidence ==
    ASSUME NEW n \in Nat, NEW fs \in Seq(Evidence(n)),
           NEW b \in [alive : Int, lost : Nat]
    PROVE  /\ RelatedToBoundary(fs, b) \in Seq(Evidence(n))
           /\ Len(RelatedToBoundary(fs, b)) = Len(fs)
           /\ \A i \in 1..Len(fs) :
                /\ RelatedToBoundary(fs, b)[i].link = fs[i].link
                /\ b.lost \in fs[i].lost => b.lost \in RelatedToBoundary(fs, b)[i].lost
<1> DEFINE new == RelatedToBoundary(fs, b)
<1>1. DOMAIN fs = 1..Len(fs) /\ Len(fs) \in Nat
      /\ \A i \in 1..Len(fs) : fs[i] \in Evidence(n)
  OBVIOUS
<1>2. new = [i \in 1..Len(fs) |-> RelatedFrame(fs[i], b)]
  BY <1>1, Zenon DEF RelatedToBoundary
<1>3. ASSUME NEW f \in Evidence(n)
      PROVE  /\ RelatedFrame(f, b) \in Evidence(n)
             /\ RelatedFrame(f, b).link = f.link
             /\ b.lost \in f.lost => b.lost \in RelatedFrame(f, b).lost
  <2> DEFINE boundary == IF f.boundary = b THEN f.boundary ELSE NoBoundary
             losses == { p \in f.lost : IsRelatedSlave(p, b) }
             ports == { e \in f.ports : IsRelatedSlave(e.position, b) }
             states == { s \in f.states : IsRelatedSlave(s.position, b) }
             al == IF f.al # NoSample /\ IsRelatedSlave(f.al.position, b)
                   THEN f.al ELSE NoSample
  <2>1. /\ f.states \in SUBSET [position : 0..n, error : BOOLEAN]
        /\ f.lost \in SUBSET (0..n)
        /\ f.ports \in SUBSET PortError /\ IsFiniteSet(f.ports)
        /\ f.boundary \in [alive : Int, lost : Nat] \union {NoBoundary}
        /\ f.al \in AlSamples \union {NoSample}
    BY Zenon DEF Evidence
  <2>2. RelatedFrame(f, b) = [f EXCEPT !.boundary = boundary, !.lost = losses,
                                 !.ports = ports, !.states = states, !.al = al]
    BY Zenon DEF RelatedFrame
  <2>3. ports \in SUBSET PortError /\ IsFiniteSet(ports)
    BY <2>1, FS_Subset
  <2>4. /\ states \in SUBSET [position : 0..n, error : BOOLEAN]
        /\ losses \in SUBSET (0..n)
        /\ boundary \in [alive : Int, lost : Nat] \union {NoBoundary}
        /\ al \in AlSamples \union {NoSample}
    BY <2>1
  <2>5. b.lost \in f.lost => b.lost \in losses
    BY DEF IsRelatedSlave
  <2> HIDE DEF boundary, losses, ports, states, al
  <2>6. RelatedFrame(f, b) \in Evidence(n)
    BY <2>2, <2>3, <2>4 DEF Evidence
  <2>7. RelatedFrame(f, b).link = f.link /\ RelatedFrame(f, b).lost = losses
    BY <2>2 DEF Evidence
  <2>8. QED
    BY <2>5, <2>6, <2>7
<1>4. new \in [1..Len(fs) -> Evidence(n)]
  BY <1>1, <1>2, <1>3
<1>5. new \in Seq(Evidence(n)) /\ Len(new) = Len(fs)
  BY <1>1, <1>4, SeqDef
<1>6. QED
  BY <1>1, <1>2, <1>3, <1>5

(* The frames of the window: evidence with the port errors of a cycle.     *)
Held(n) == { f \in Evidence(n) : f.ports \in PortResult }

(* What may be held of few snapshots may be held of more.                  *)
LEMMA HeldGrows ==
    ASSUME NEW n \in Nat, NEW m \in Nat, n <= m
    PROVE  Seq(Held(n)) \subseteq Seq(Held(m))
<1>1. 0..n \subseteq 0..m
  OBVIOUS
<1>2. [position : 0..n, error : BOOLEAN] \subseteq [position : 0..m, error : BOOLEAN]
  BY <1>1
<1>3. Evidence(n) \subseteq Evidence(m)
  <2> SUFFICES ASSUME NEW f \in Evidence(n) PROVE f \in Evidence(m)
    OBVIOUS
  <2>1. /\ f.states \in SUBSET [position : 0..m, error : BOOLEAN]
        /\ f.lost \in SUBSET (0..m)
    BY <1>1, <1>2 DEF Evidence
  <2>2. QED
    BY <2>1 DEF Evidence
<1>4. Held(n) \subseteq Held(m)
  BY <1>3 DEF Held
<1>5. QED
  BY <1>4, SeqMonotonic

(* The frames a verdict is made from end in the frame just pushed, as far  *)
(* as its link and its having lost slaves go.                              *)
LEMMA ConsideredIsEvidence ==
    ASSUME NEW n \in Nat, NEW window \in Seq(Evidence(n)), window # << >>,
           NEW frame, window[Len(window)] = frame,
           frame.boundary # NoBoundary => frame.boundary.lost \in frame.lost
    PROVE  LET considered == Considered(window, frame.boundary)
           IN  /\ considered \in Seq(Evidence(n))
               /\ LatestLink(considered) = frame.link
               /\ frame.lost # {} => LostPositions(considered) # {}
<1> DEFINE considered == Considered(window, frame.boundary)
<1>1. /\ DOMAIN window = 1..Len(window) /\ Len(window) \in 1..Len(window)
      /\ frame \in Evidence(n)
  OBVIOUS
<1>2. CASE frame.boundary = NoBoundary
  <2>1. considered = window
    BY <1>2 DEF Considered
  <2>2. QED
    BY <1>1, <2>1 DEF LatestLink, LostPositions
<1>3. CASE frame.boundary # NoBoundary
  <2>1. frame.boundary \in [alive : Int, lost : Nat]
    BY <1>1, <1>3 DEF Evidence
  <2>2. considered = RelatedToBoundary(window, frame.boundary)
    BY <1>3 DEF Considered
  <2>3. /\ considered \in Seq(Evidence(n)) /\ Len(considered) = Len(window)
        /\ considered[Len(considered)].link = frame.link
        /\ frame.boundary.lost \in considered[Len(considered)].lost
    BY <1>1, <1>3, <2>1, <2>2, RelatedIsEvidence
  <2>4. Len(considered) \in DOMAIN considered
    BY <1>1, <2>3
  <2>5. LostPositions(considered) # {}
    BY <2>3, <2>4 DEF LostPositions
  <2>6. QED
    BY <2>3, <2>5 DEF LatestLink
<1>4. QED
  BY <1>2, <1>3

(* The invariant: what the two properties say, with the types their        *)
(* induction needs and with the link of the snapshot in the last frame.    *)
VerdictInv ==
    /\ EpisodeTyped
    /\ \E n \in Nat : frames \in Seq(Held(n))
    /\ Len(frames) <= MaxFrames
    /\ announced \subseteq Nat \X Nat
    /\ active \in Report \union {NoReport}
    /\ verdict \in Report \union {NoReport}
    /\ MasterBlamedOnlyWhenDown
    /\ LossIsReported

(* A handler run keeps the evidence well-formed, and its verdict sound.    *)
LEMMA HandleKeepsVerdict ==
    ASSUME VerdictInv, NEW current \in Snapshot, NEW ports \in PortResult,
           NEW sample \in Samples(current), Handle(current, ports, sample)
    PROVE  VerdictInv'
<1> DEFINE events == Detected(previous, current)
           diagnosis == Diagnose(previous, current, events, lastDiagnosis, sample)
           frame == FrameOf(current, events, ports, diagnosis)
           window == Slid(frames, frame)
           considered == Considered(window, frame.boundary)
           losses == IF SteppedBack(current) THEN {} ELSE announced
<1>1. /\ Tracker!Process(current)
      /\ Len(window) <= MaxFrames
      /\ frames' = window
      /\ verdict' = IF IsFault(events, ports) THEN Analyze(considered) ELSE NoReport
      /\ active' = IF recovery' # NoRecovery THEN NoReport
                   ELSE IF verdict' # NoReport THEN verdict' ELSE active
      /\ announced' = { a \in losses \union { <<current.ts, p>> : p \in frame.lost } :
                            current.ts - a[1] <= Window }
  BY Zenon DEF Handle
<1>2. EpisodeTyped' /\ previous' = current
  BY <1>1, EpisodeStaysTyped, TrackCases DEF VerdictInv
<1>3. PICK n \in Nat : /\ frames \in Seq(Held(n)) /\ SlaveCount(current) <= n
                       /\ previous # NoSnapshot => SlaveCount(previous) <= n
  <2>1. PICK k \in Nat : frames \in Seq(Held(k))
    BY DEF VerdictInv
  <2> DEFINE before == IF previous = NoSnapshot THEN 0 ELSE SlaveCount(previous)
  <2>2. SlaveCount(current) \in Nat /\ before \in Nat
    BY SnapshotFields DEF VerdictInv, EpisodeTyped
  <2>3. k + SlaveCount(current) + before \in Nat /\ k <= k + SlaveCount(current) + before
    BY <2>2
  <2>4. frames \in Seq(Held(k + SlaveCount(current) + before))
    BY <2>1, <2>3, HeldGrows
  <2>5. SlaveCount(current) <= k + SlaveCount(current) + before
        /\ before <= k + SlaveCount(current) + before
    BY <2>2
  <2> HIDE DEF before
  <2>6. previous # NoSnapshot => SlaveCount(previous) = before
    BY DEF before
  <2>7. QED
    BY <2>3, <2>4, <2>5, <2>6
<1>4. /\ frame \in Held(n)
      /\ frame.link = current.link /\ frame.ts = current.ts
      /\ frame.boundary # NoBoundary => frame.boundary.lost \in frame.lost
      /\ frame.lost # {} => \E e \in events : e.type = "SLAVE_LOST"
  BY <1>3, FrameIsEvidence DEF Held, VerdictInv
<1> HIDE DEF frame, diagnosis, events
<1>5. /\ window \in Seq(Held(n)) /\ window # << >>
      /\ window[Len(window)] = frame
  <2>1. \A x \in Held(n) : x.ts \in Nat
    BY DEF Held, Evidence
  <2>2. QED
    BY <1>3, <1>4, <2>1, SlidIsOfFrames
<1>6. window \in Seq(Evidence(n))
  <2>1. Held(n) \subseteq Evidence(n)
    BY DEF Held
  <2>2. QED
    BY <1>5, <2>1, SeqMonotonic
<1> HIDE DEF window
<1>7. /\ considered \in Seq(Evidence(n))
      /\ LatestLink(considered) = current.link
      /\ frame.lost # {} => LostPositions(considered) # {}
  BY <1>4, <1>5, <1>6, ConsideredIsEvidence
<1> HIDE DEF considered
<1>8. /\ Analyze(considered) \in Report
      /\ current.link = TRUE => Analyze(considered).primary # "MASTER_LINK_FAILURE"
      /\ current.link = TRUE /\ frame.lost # {} => Analyze(considered).primary # "UNKNOWN"
  BY <1>7, VerdictIsSound
<1>9. current.link \in BOOLEAN /\ current.ts \in Nat
  BY SnapshotFields DEF NetworkSnapshot
<1>10. verdict' \in Report \union {NoReport} /\ active' \in Report \union {NoReport}
  BY <1>1, <1>8 DEF VerdictInv
<1>11. MasterBlamedOnlyWhenDown'
  <2> SUFFICES ASSUME verdict' # NoReport, verdict'.primary = "MASTER_LINK_FAILURE"
               PROVE  ~previous'.link
    BY DEF MasterBlamedOnlyWhenDown
  <2>1. verdict' = Analyze(considered)
    BY <1>1
  <2>2. QED
    BY <1>2, <1>8, <1>9, <2>1
<1>12. LossIsReported'
  <2> SUFFICES ASSUME frames'[Len(frames')].lost # {}, recovery' = NoRecovery
               PROVE  Health' # "HEALTHY"
    BY DEF LossIsReported
  <2>1. frame.lost # {}
    BY <1>1, <1>5
  <2>2. IsFault(events, ports)
    BY <1>4, <2>1 DEF IsFault
  <2>3. /\ verdict' = Analyze(considered) /\ verdict' # NoReport
        /\ active' = verdict'
    BY <1>1, <1>8, <2>2, DaemonOptionAssumption
  <2>4. CASE current.link = FALSE
    BY <1>2, <2>4 DEF Health
  <2>5. CASE current.link = TRUE
    <3>1. active' # NoReport /\ active'.primary # "UNKNOWN"
      BY <1>8, <2>1, <2>3, <2>5
    <3>2. QED
      BY <3>1 DEF Health
  <2>6. QED
    BY <1>9, <2>4, <2>5
<1>13. announced' \subseteq Nat \X Nat
  <2>1. frame.lost \subseteq Nat
    BY <1>4 DEF Held, Evidence
  <2>2. losses \subseteq Nat \X Nat
    BY DEF VerdictInv
  <2> HIDE DEF losses
  <2>3. QED
    BY <1>1, <1>9, <2>1, <2>2
<1>14. QED
  BY <1>1, <1>2, <1>5, <1>10, <1>11, <1>12, <1>13 DEF VerdictInv

(* VerdictInv is an invariant.                                             *)
LEMMA VerdictInvariant == Spec => []VerdictInv
<1>1. Init => VerdictInv
  <2>1. << >> \in Seq(Held(0)) /\ Len(<< >>) <= MaxFrames
    BY InputAssumption
  <2>2. QED
    BY <2>1 DEF Init, Tracker!Init, VerdictInv, EpisodeTyped,
                MasterBlamedOnlyWhenDown, LossIsReported
<1>2. VerdictInv /\ [Next]_vars => VerdictInv'
  <2> SUFFICES ASSUME VerdictInv, [Next]_vars PROVE VerdictInv'
    OBVIOUS
  <2>1. CASE UNCHANGED vars
    BY <2>1 DEF VerdictInv, EpisodeTyped, MasterBlamedOnlyWhenDown, LossIsReported,
                Health, vars, tracking
  <2>2. CASE Next
    BY <2>2, HandleKeepsVerdict DEF Next
  <2>3. QED
    BY <2>1, <2>2
<1>3. QED
  BY <1>1, <1>2, PTL DEF Spec

(* The master is blamed only when its link is down in the snapshot the     *)
(* verdict is made for (RootCauseAnalyzer::analyze).                       *)
THEOREM MasterBlamed == Spec => []MasterBlamedOnlyWhenDown
<1>1. VerdictInv => MasterBlamedOnlyWhenDown
  BY DEF VerdictInv
<1>2. QED
  BY <1>1, VerdictInvariant, PTL

(* A loss is never published as HEALTHY by the step that sees it           *)
(* (RootCauseAnalyzer::analyze, healthStatus).                             *)
THEOREM LossesReported == Spec => []LossIsReported
<1>1. VerdictInv => LossIsReported
  BY DEF VerdictInv
<1>2. QED
  BY <1>1, VerdictInvariant, PTL

(* The state of the daemon always has its types.                           *)
THEOREM TypeCorrect == Spec => []TypeOK
<1>1. ProbesInv /\ VerdictInv /\ Tracker!TypeOK => TypeOK
  <2> SUFFICES ASSUME ProbesInv, VerdictInv, Tracker!TypeOK PROVE TypeOK
    OBVIOUS
  <2>1. PICK n \in Nat : frames \in Seq(Held(n))
    BY DEF VerdictInv
  <2>2. ASSUME NEW i \in DOMAIN frames PROVE frames[i] \in Frame
    <3>1. frames[i] \in Held(n)
      BY <2>1
    <3>2. Held(n) \subseteq Frame
      <4> SUFFICES ASSUME NEW f \in Held(n) PROVE f \in Frame
        OBVIOUS
      <4>1. 0..n \subseteq Nat
        OBVIOUS
      <4>2. /\ f.states \in SUBSET [position : Nat, error : BOOLEAN]
            /\ f.lost \in SUBSET Nat
        BY <4>1 DEF Held, Evidence
      <4>3. QED
        BY <4>2 DEF Held, Evidence, Frame
    <3>3. QED
      BY <3>1, <3>2
  <2>3. probes \subseteq Nat /\ lastDiagnosis \in Nat \union {NoTime}
    BY DEF ProbesInv
  <2>4. QED
    BY <2>2, <2>3 DEF VerdictInv, TypeOK
<1>2. QED
  BY <1>1, ProbesInvariant, VerdictInvariant, TrackerTyped, PTL

=============================================================================
