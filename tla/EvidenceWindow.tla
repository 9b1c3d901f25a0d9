--------------------------- MODULE EvidenceWindow ---------------------------
(***************************************************************************)
(* EvidenceBuilder::build and EvidenceWindow                               *)
(* (src/src/root_cause/evidence_builder.cpp, evidence_window.cpp): one     *)
(* frame of evidence for every snapshot, and the frames of the last Window *)
(* milliseconds.  Of a slave only its error flag is evidence; a port error *)
(* is a counter that went up, so the builder's check of old and new values *)
(* always passes.  Collection errors are only reported, not scored.        *)
(***************************************************************************)
EXTENDS DiagnosisCoordinator

CONSTANTS
    Window,        \* duration_ms_
    NoBoundary     \* an empty std::optional<BoundaryEvidence>

ASSUME WindowAssumption == Window \in Nat \ {0}

PortError ==
    [ kind     : {"LOST_LINK", "INVALID_FRAME", "RX_ERROR", "FORWARDED_RX_ERROR"},
      position : Nat,
      port     : 0..3,
      delta    : 1..255 ]

BoundaryOf(diagnosis) ==
    IF diagnosis # NoDiagnosis /\ diagnosis.boundary.valid
    THEN [alive |-> diagnosis.boundary.alive, lost |-> diagnosis.boundary.lost]
    ELSE NoBoundary

(* EvidenceBuilder::build.                                                 *)
FrameOf(current, events, ports, diagnosis) ==
    [ ts       |-> current.ts,
      link     |-> current.link,
      states   |-> { [position |-> i - 1, error |-> current.slaves[i].error] :
                        i \in DOMAIN current.slaves },
      lost     |-> { e.position : e \in { f \in events : f.type = "SLAVE_LOST" } },
      ports    |-> ports,
      boundary |-> BoundaryOf(diagnosis),
      al       |-> IF diagnosis = NoDiagnosis THEN NoSample ELSE diagnosis.al ]

LowerBound(latest) == IF latest > Window THEN latest - Window ELSE 0

FirstRecent(frames, bound) ==
    CHOOSE i \in DOMAIN frames :
        /\ frames[i].ts >= bound
        /\ \A j \in 1..i - 1 : frames[j].ts < bound

(* Frames leave at the front until one is recent enough.                   *)
WithoutOld(frames, bound) == SubSeq(frames, FirstRecent(frames, bound), Len(frames))

(* Faulty variant, for mutation checks only: a clock that steps back does  *)
(* not empty the window.                                                   *)
SlidOnly(frames, frame) ==
    WithoutOld(Append(frames, frame), LowerBound(frame.ts))

(* EvidenceWindow::push: a clock that steps back empties the window.       *)
Slid(frames, frame) ==
    LET kept == IF frames # << >> /\ frame.ts < frames[Len(frames)].ts
                THEN << >> ELSE frames
    IN  WithoutOld(Append(kept, frame), LowerBound(frame.ts))

(* A slave on the broken side, or the last one before the break.           *)
IsRelatedSlave(position, boundary) ==
    /\ position >= 0
    /\ boundary.lost >= 0
    /\ \/ position >= boundary.lost
       \/ boundary.alive >= 0 /\ position = boundary.alive

(* EvidenceWindow::relatedToBoundary, frame by frame.                      *)
RelatedFrame(frame, boundary) ==
    [frame EXCEPT
        !.boundary = IF @ = boundary THEN @ ELSE NoBoundary,
        !.lost     = { p \in @ : IsRelatedSlave(p, boundary) },
        !.ports    = { e \in @ : IsRelatedSlave(e.position, boundary) },
        !.states   = { s \in @ : IsRelatedSlave(s.position, boundary) },
        !.al       = IF @ # NoSample /\ IsRelatedSlave(@.position, boundary)
                     THEN @ ELSE NoSample]

RelatedToBoundary(frames, boundary) ==
    [ i \in DOMAIN frames |-> RelatedFrame(frames[i], boundary) ]

=============================================================================
