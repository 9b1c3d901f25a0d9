------------------------ MODULE DiagnosisCoordinator ------------------------
(***************************************************************************)
(* DiagnosisCoordinator::process and ActiveDiagnosis::run                  *)
(* (src/src/diagnosis/): when a slave is lost, locate the break and read   *)
(* the registers of the last slave before it, unless that was done less    *)
(* than a cooldown ago.  The coordinator's only state is the time of the   *)
(* last reading; DiagDaemon holds it.                                      *)
(***************************************************************************)
EXTENDS BoundaryLocator

CONSTANTS
    Cooldown,      \* cooldown_ms_
    NoTime,        \* an empty last_diagnosis_ms_
    NoSample,      \* an empty DiagResult::sample
    NoDiagnosis    \* process returned std::nullopt

ASSUME CooldownAssumption == Cooldown \in Nat

(* What the ESC reader gets of the two AL registers of a slave: each one   *)
(* is read by itself and each read can fail.                               *)
EscSample == [ code  : {"error", "clear", "unread"},
               error : {"set", "clear", "unread"} ]

(* Faulty variant, for mutation checks only: reads in every cycle.         *)
NeverInCooldown(last, ts) == FALSE

InCooldown(last, ts) == last # NoTime /\ ts >= last /\ ts - last < Cooldown

(* Faulty variant, for mutation checks only: reads at -1.                  *)
CanReadLocated(boundary) == boundary.valid

(* ActiveDiagnosis::run: a break next to the master, or one that could not *)
(* be located, leaves nothing to read.                                     *)
CanRead(boundary) == boundary.valid /\ boundary.alive >= 0 /\ boundary.lost >= 0

AlSamples == [ position : Nat, code : {"error", "clear", "unread"},
               error : {"set", "clear", "unread"} ]

AlSample(position, sample) ==
    [position |-> position, code |-> sample.code, error |-> sample.error]

Run(boundary, sample) ==
    [ boundary |-> boundary,
      al       |-> IF CanRead(boundary)
                   THEN AlSample(boundary.alive, sample) ELSE NoSample ]

Attempted(diagnosis) == diagnosis # NoDiagnosis /\ diagnosis.al # NoSample

(* The first lost slave decides; they all have the snapshot's timestamp.   *)
Diagnose(previous, current, events, last, sample) ==
    IF \/ ~ \E e \in events : e.type = "SLAVE_LOST"
       \/ InCooldown(last, current.ts)
    THEN NoDiagnosis
    ELSE Run(Locate(previous, current), sample)

=============================================================================
