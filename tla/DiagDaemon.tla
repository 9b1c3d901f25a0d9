----------------------------- MODULE DiagDaemon -----------------------------
(***************************************************************************)
(* The snapshot handler of the daemon (src/apps/igh_ethercat_diagnostics   *)
(* .cpp) for one master: detection and recovery (RecoveryTracker), active  *)
(* diagnosis with its cooldown, the evidence window and the verdict that   *)
(* is published with the status.  The runtimes of several masters share    *)
(* none of this.  The black box is FaultRecorder.                          *)
(*                                                                         *)
(* A step is one snapshot handled.  Its inputs are the snapshot that was   *)
(* read, the port errors the monitor reports with it, and what the ESC     *)
(* registers give if they are read.                                        *)
(***************************************************************************)
EXTENDS EventDetector, RootCauseAnalyzer

CONSTANTS
    Snapshot,       \* what a successful read can return
    PortResult,     \* the sets of port errors one cycle can report
    Sample,         \* what reading the AL registers can give
    MaxFrames,      \* bound: frames in the window
    NoReport        \* an empty active_root_cause

ASSUME InputAssumption ==
    /\ Snapshot \subseteq NetworkSnapshot
    /\ NoSnapshot \notin Snapshot
    /\ PortResult \subseteq SUBSET PortError
    /\ \A ports \in PortResult : IsFiniteSet(ports)
    /\ Sample \subseteq EscSample
    /\ MaxFrames \in Nat

VARIABLES
    previous, episode, recovery, lost, lowest,  \* see RecoveryTracker
    lastDiagnosis,  \* DiagnosisCoordinator::last_diagnosis_ms_
    frames,         \* EvidenceWindow::frames_
    active,         \* runtime.active_root_cause
    verdict,        \* the report made in this step
    probes,         \* history: times less than a cooldown ago when registers
                    \* were read, since the last recovery
    announced       \* history: when and where slaves were lost, as far as the
                    \* window reaches back

tracking == <<previous, episode, recovery, lost, lowest>>
vars == <<tracking, lastDiagnosis, frames, active, verdict, probes, announced>>

Tracker == INSTANCE RecoveryTracker

ASSUME DaemonOptionAssumption ==
    /\ NoEpisode \notin Tracker!FaultEpisode
    /\ NoRecovery \notin Tracker!RecoveryEvent
    /\ NoTime \notin Nat
    /\ NoSample \notin AlSamples
    /\ NoDiagnosis \notin [boundary : FaultBoundary, al : AlSamples \union {NoSample}]
    /\ NoBoundary \notin [alive : Int, lost : Int]
    /\ NoReport \notin Report

-----------------------------------------------------------------------------

(* Every event but a link that comes back asks for a verdict.              *)
IsFault(events, ports) ==
    ports # {} \/ \E e \in events : e.type # "MASTER_LINK_UP"

(* The frames the verdict is based on: with a break located in this step,  *)
(* those next to it, otherwise all.                                        *)
Considered(window, boundary) ==
    IF boundary # NoBoundary THEN RelatedToBoundary(window, boundary) ELSE window

(* Faulty variant, for mutation checks only: a recovery does not reset it. *)
NeverReset(diagnosis, ts, recovered) ==
    IF Attempted(diagnosis) THEN ts ELSE lastDiagnosis

(* last_diagnosis_ms_ after process and, on a recovery, resetCooldown.     *)
LastDiagnosis(diagnosis, ts, recovered) ==
    IF recovered THEN NoTime
    ELSE IF Attempted(diagnosis) THEN ts ELSE lastDiagnosis

SteppedBack(current) == previous # NoSnapshot /\ current.ts < previous.ts

Init ==
    /\ Tracker!Init
    /\ lastDiagnosis = NoTime
    /\ frames = << >>
    /\ active = NoReport
    /\ verdict = NoReport
    /\ probes = {}
    /\ announced = {}

Handle(current, ports, sample) ==
    LET events == Detected(previous, current)
        diagnosis == Diagnose(previous, current, events, lastDiagnosis, sample)
        frame == FrameOf(current, events, ports, diagnosis)
        window == Slid(frames, frame)
        recovered == recovery' # NoRecovery
        times == IF SteppedBack(current) THEN {} ELSE probes
        losses == IF SteppedBack(current) THEN {} ELSE announced
    IN  /\ Len(window) <= MaxFrames
        /\ Tracker!Process(current)
        /\ frames' = window
        /\ verdict' = IF IsFault(events, ports)
                      THEN Analyze(Considered(window, frame.boundary)) ELSE NoReport
        /\ active' = IF recovered THEN NoReport
                     ELSE IF verdict' # NoReport THEN verdict' ELSE active
        /\ lastDiagnosis' = LastDiagnosis(diagnosis, current.ts, recovered)
        /\ probes' = IF recovered THEN {}
                     ELSE { x \in times \union IF Attempted(diagnosis)
                                                THEN {current.ts} ELSE {} :
                                current.ts - x < Cooldown }
        /\ announced' = { a \in losses \union { <<current.ts, p>> : p \in frame.lost } :
                            current.ts - a[1] <= Window }

(* What the registers give only matters when they are read.                *)
Samples(current) ==
    IF previous # NoSnapshot /\ CanRead(Locate(previous, current))
    THEN Sample ELSE {NoSample}

Next == \E current \in Snapshot, ports \in PortResult :
            \E sample \in Samples(current) : Handle(current, ports, sample)

Spec == Init /\ [][Next]_vars

-----------------------------------------------------------------------------

(* healthStatus (src/src/publishing/web_data_publisher.cpp), which         *)
(* publishStatus evaluates at the end of the handler.                      *)
Health ==
    IF ~previous.link \/ \E i \in DOMAIN previous.slaves : previous.slaves[i].error
    THEN "FAULT"
    ELSE IF active = NoReport \/ active.primary = "UNKNOWN"
    THEN "HEALTHY"
    ELSE IF active.primary = "LINK_QUALITY_DEGRADATION" \/ ~active.conclusive
    THEN "DEGRADED"
    ELSE "FAULT"

-----------------------------------------------------------------------------

Frame ==
    [ ts : Nat, link : BOOLEAN,
      states : SUBSET [position : Nat, error : BOOLEAN],
      lost : SUBSET Nat, ports : PortResult,
      boundary : [alive : Int, lost : Nat] \union {NoBoundary},
      al : AlSamples \union {NoSample} ]

(* The reading that the snapshot just handled led to, if any.              *)
Reading == IF frames = << >> THEN NoSample ELSE frames[Len(frames)].al

(* Every variable has the type of the member it models; registers are only *)
(* read at a position, never at -1.                                        *)
TypeOK ==
    /\ Tracker!TypeOK
    /\ lastDiagnosis \in Nat \union {NoTime}
    /\ Len(frames) <= MaxFrames
    /\ \A i \in DOMAIN frames : frames[i] \in Frame
    /\ active \in Report \union {NoReport}
    /\ verdict \in Report \union {NoReport}
    /\ probes \subseteq Nat
    /\ announced \subseteq Nat \X Nat

(* A verdict is made from all the losses of the last Window milliseconds   *)
(* and from none older: the frames are in order, the last one is of the    *)
(* snapshot just handled, and the losses in them are exactly those         *)
(* announced in that time, unless the wall clock stepped back meanwhile    *)
(* (EvidenceWindow::push, which drops whole frames, so that losses stand   *)
(* for the other evidence in them).                                        *)
WindowIsComplete ==
    previous # NoSnapshot =>
        /\ frames # << >> /\ frames[Len(frames)].ts = previous.ts
        /\ \A i \in 2..Len(frames) : frames[i - 1].ts <= frames[i].ts
        /\ UNION { { <<frames[i].ts, p>> : p \in frames[i].lost } : i \in DOMAIN frames }
             = announced

AllAliased == \A s \in Snapshot : AllValid(s)

(* When every slave can be identified, a cooldown is only pending while a  *)
(* fault episode is open: what the coordinator remembers of one fault does *)
(* not outlive the recovery the tracker reports (resetCooldown).           *)
CooldownEndsWithEpisode ==
    lastDiagnosis # NoTime /\ AllAliased => episode # NoEpisode

(* The master is the primary cause only if its link is down in the         *)
(* snapshot the verdict is made for, whatever the window still holds.      *)
MasterBlamedOnlyWhenDown ==
    verdict # NoReport /\ verdict.primary = "MASTER_LINK_FAILURE" => ~previous.link

(* A loss that is announced is not published as HEALTHY by the step that   *)
(* sees it, whatever else the window holds and whether or not the break    *)
(* could be located: there is always a primary cause then, and it is one   *)
(* that counts.  The exception is a snapshot that also ends the episode.   *)
(* Only slaves that can be identified are announced: one without an alias  *)
(* before it goes with a changed count alone, which gives UNKNOWN and the  *)
(* status HEALTHY (EventDetector::process, stableIdentity).                *)
LossIsReported ==
    /\ frames # << >> /\ frames[Len(frames)].lost # {}
    /\ recovery = NoRecovery
    => Health # "HEALTHY"

(* Registers are read at the break: the slave read is on the bus now, and  *)
(* was the last one before a slave that is gone, all slaves before which   *)
(* are still there; slaves may have moved meanwhile (BoundaryLocator       *)
(* positions are of two different snapshots).                              *)
ProbeNextToBreak ==
    [][ Reading' # NoSample =>
        \E i \in 2..SlaveCount(previous) :
            /\ ~ContainsIdentity(previous', previous.slaves[i].id)
            /\ \A j \in 1..i - 1 : ContainsIdentity(previous', previous.slaves[j].id)
            /\ Reading'.position + 1 \in DOMAIN previous'.slaves
            /\ previous'.slaves[Reading'.position + 1].id = previous.slaves[i - 1].id ]_vars

(* "Active register reads are bounded by [...] Cooldown controls to avoid  *)
(* repeated diagnostic traffic during one fault" (docs/ARCHITECTURE.md):   *)
(* between two recoveries, reads are a cooldown apart, however often       *)
(* slaves drop out, unless the wall clock stepped back.                    *)
ProbesAreSpaced ==
    [][ Reading' # NoSample /\ (previous # NoSnapshot => previous'.ts >= previous.ts)
        => \A t \in probes : previous'.ts - t >= Cooldown ]_vars

(* When every slave can be identified, the break that starts an episode is *)
(* always read if there is a slave before it: no cooldown of an earlier    *)
(* fault holds it back.                                                    *)
FirstBreakIsProbed ==
    [][ /\ episode = NoEpisode /\ episode' # NoEpisode
        /\ CanRead(Locate(previous, previous'))
        /\ AllAliased
        => Reading' # NoSample ]_vars

(* The page shows HEALTHY as a check mark and "network normal, the link    *)
(* and the slaves are in order" (web/app.js:92); the status is not HEALTHY *)
(* while slaves that were lost have not come back.                         *)
FaultStaysVisible == episode # NoEpisode => Health # "HEALTHY"

=============================================================================
