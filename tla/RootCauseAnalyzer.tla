------------------------- MODULE RootCauseAnalyzer --------------------------
(***************************************************************************)
(* RootCauseAnalyzer::analyze with the default weights                     *)
(* (src/src/root_cause/root_cause_analyzer.cpp and its header): each kind  *)
(* of cause is scored by the evidence for and against it, the best score   *)
(* is the primary cause and is conclusive if it is high, leads clearly and *)
(* has most of the points.  The order of scoring does not matter, because  *)
(* scores are clamped at zero only at the end.                             *)
(***************************************************************************)
EXTENDS EvidenceWindow, FiniteSetsExt

(* In order of kindPriority.                                               *)
RankedKinds == << "MASTER_LINK_FAILURE", "BOUNDARY_LINK_FAILURE",
                  "SLAVE_INTERNAL_ERROR", "LINK_QUALITY_DEGRADATION" >>

Kinds == { RankedKinds[i] : i \in 1..4 }

AtMost(cap, n) == IF n < cap THEN n ELSE cap

(* The latest frame that says something.                                   *)
LatestIndex(frames, Says(_)) ==
    LET told == { i \in DOMAIN frames : Says(frames[i]) }
    IN  IF told = {} THEN 0 ELSE Max(told)

LatestLink(frames) == frames[Len(frames)].link

LatestBoundary(frames) ==
    LET i == LatestIndex(frames, LAMBDA f : f.boundary # NoBoundary)
    IN  IF i = 0 THEN NoBoundary ELSE frames[i].boundary

LatestAl(frames) ==
    LET i == LatestIndex(frames, LAMBDA f : f.al # NoSample)
    IN  IF i = 0 THEN NoSample ELSE frames[i].al

LostPositions(frames) == UNION { frames[i].lost : i \in DOMAIN frames }

(* Positions whose last report says that the slave has an error; a slave   *)
(* that is gone keeps its last report.                                     *)
ErrorPositions(frames) ==
    LET reported == UNION { { s.position : s \in frames[i].states } :
                              i \in DOMAIN frames }
        last(p) == LatestIndex(frames,
                        LAMBDA f : \E s \in f.states : s.position = p)
    IN  { p \in reported : [position |-> p, error |-> TRUE] \in frames[last(p)].states }

(* Every increase counts, also the same one in two frames.                 *)
PortErrors(frames) ==
    UNION { { <<i, e>> : e \in frames[i].ports } : i \in DOMAIN frames }

-----------------------------------------------------------------------------

(* Faulty variant, for mutation checks only: a link that was down once in  *)
(* the window counts as down.                                              *)
MasterScoreOfWindow(frames) ==
    (IF \A i \in DOMAIN frames : frames[i].link THEN -80 ELSE 100)
        + (IF LostPositions(frames) # {} THEN 10 ELSE 0)

MasterScore(frames) ==
    (IF LatestLink(frames) THEN -80 ELSE 100)
        + (IF LostPositions(frames) # {} THEN 10 ELSE 0)

(* Faulty variant, for mutation checks only: a loss that could not be      *)
(* located does not count.                                                 *)
BoundaryScoreLocated(frames) ==
    IF LatestBoundary(frames) = NoBoundary THEN 0
    ELSE 25 + 35 * Cardinality(LostPositions(frames))

BoundaryScore(frames) ==
    LET boundary == LatestBoundary(frames)
        atBoundary == { x \in PortErrors(frames) :
                            /\ boundary # NoBoundary
                            /\ x[2].position = boundary.alive }
        weight(e) == IF e.kind = "LOST_LINK" THEN AtMost(60, 60 * e.delta)
                     ELSE AtMost(20, 3 * e.delta)
    IN  SumFunction([x \in atBoundary |-> weight(x[2])])
        + (IF ~LatestLink(frames) THEN -60
           ELSE IF boundary # NoBoundary THEN 15 ELSE 0)
        + (IF boundary # NoBoundary THEN 10 ELSE 0)
        + 35 * Cardinality(LostPositions(frames))

SlaveScore(frames) ==
    LET al == LatestAl(frames)
    IN  (IF LatestLink(frames) THEN 0 ELSE -25)
        + (IF al = NoSample \/ al.code = "unread" THEN 0
           ELSE IF al.code = "error" THEN 70 ELSE -15)
        + (IF al = NoSample \/ al.error = "unread" THEN 0
           ELSE IF al.error = "set" THEN 40 ELSE -10)
        + 35 * Cardinality(ErrorPositions(frames))

QualityScore(frames) ==
    LET errors == PortErrors(frames)
        weight(e) == AtMost(IF e.kind = "LOST_LINK" THEN 10 ELSE 30, 5 * e.delta)
    IN  SumFunction([x \in errors |-> weight(x[2])])
        + (IF LatestLink(frames) /\ errors # {} THEN 10 ELSE 0)
        + (IF LostPositions(frames) # {} THEN -10
           ELSE IF errors # {} THEN 15 ELSE 0)

Clamped(n) == IF n < 0 THEN 0 ELSE n

(* In the order of RankedKinds.                                            *)
Scores(frames) ==
    << Clamped(MasterScore(frames)), Clamped(BoundaryScore(frames)),
       Clamped(SlaveScore(frames)), Clamped(QualityScore(frames)) >>

(* The stable sort: the best score, the first of equal ones.               *)
Best(scores) ==
    CHOOSE i \in 1..4 :
        /\ \A j \in 1..4 : scores[j] <= scores[i]
        /\ \A j \in 1..i - 1 : scores[j] < scores[i]

(* score >= 60, a lead of 15, confidence >= 0.55.                          *)
IsConclusive(scores, i) ==
    /\ scores[i] >= 60
    /\ \A j \in 1..4 \ {i} : scores[i] - scores[j] >= 15
    /\ 100 * scores[i] >= 55 * (scores[1] + scores[2] + scores[3] + scores[4])

Report ==
    [ primary    : Kinds \union {"UNKNOWN"},
      conclusive : BOOLEAN,
      boundary   : [alive : Int, lost : Int] \union {NoBoundary} ]

(* RootCauseAnalyzer::analyze.                                             *)
Analyze(frames) ==
    LET scores == Scores(frames)
        best == Best(scores)
        known == scores[best] > 0
    IN  [ primary    |-> IF known THEN RankedKinds[best] ELSE "UNKNOWN",
          conclusive |-> known /\ IsConclusive(scores, best),
          boundary   |-> LatestBoundary(frames) ]

=============================================================================
