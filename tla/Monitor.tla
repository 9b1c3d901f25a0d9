------------------------------ MODULE Monitor -------------------------------
(***************************************************************************)
(* The loop of the daemon (Monitor::run in src/src/monitoring/monitor.cpp, *)
(* started by main of src/apps/igh_ethercat_diagnostics.cpp): in every     *)
(* cycle each master is read and its snapshot handled, in turn, then the   *)
(* loop waits for the next deadline.                                       *)
(*                                                                         *)
(* Time passes in ticks while a read is under way or the loop waits.  Only *)
(* distances in time are kept.  While calls are slow a cycle can take any  *)
(* time, of which MaxBehind is the bound; otherwise it takes at most Quick *)
(* ticks, less than the interval.                                          *)
(***************************************************************************)
EXTENDS Acquisition

CONSTANTS
    Masters,    \* the configured masters, in order
    Interval,   \* config.interval, in ticks
    Quick,      \* the time that a cycle takes when no call is slow
    MaxBehind   \* bound on how far the loop can fall behind

(* What run demands of its configuration; it returns false otherwise.      *)
ValidConfig ==
    /\ Masters \in Seq(Nat) /\ Masters # << >>
    /\ \A i, j \in DOMAIN Masters : Masters[i] = Masters[j] => i = j
    /\ Interval \in Nat \ {0}

ASSUME MonitorAssumption ==
    /\ ValidConfig
    /\ Quick \in 0..Interval - 1
    /\ MaxBehind \in Nat

VARIABLES
    phase,      \* where the loop stands
    turn,       \* the master being read, an index of Masters
    due,        \* next_deadline, relative to now
    stop,       \* a signal has asked for the end (stop_requested)
    slow,       \* calls are slow at present
    spent,      \* ticks of this cycle so far
    behind      \* history: time since the start, less one interval for each
                \* cycle completed

clock == <<due, spent, behind>>
loop == <<phase, turn, stop>>
vars == <<reading, bus, unmoved, loop, clock, slow>>

Init ==
    /\ AcquisitionInit
    /\ phase = "check" /\ turn = 1
    /\ due = 0 /\ behind = 0 /\ spent = 0
    /\ stop = FALSE /\ slow \in BOOLEAN

-----------------------------------------------------------------------------

StartCycle ==
    /\ phase = "check" /\ ~stop
    /\ phase' = "masters" /\ turn' = 1
    /\ spent' = 0
    /\ Begin
    /\ UNCHANGED <<stop, due, behind, slow>>

End ==
    /\ phase = "check" /\ stop
    /\ phase' = "ended"
    /\ UNCHANGED <<reading, bus, unmoved, turn, stop, clock, slow>>

Read ==
    /\ phase = "masters"
    /\ Acquire
    /\ UNCHANGED <<loop, clock, slow>>

BusChanges ==
    /\ Change
    /\ UNCHANGED <<loop, clock, slow>>

(* Faulty variant, for mutation checks only: from now on.                  *)
DeadlineFromNow == Interval

NextDeadline == due + Interval

NextMaster ==
    /\ turn < Len(Masters)
    /\ turn' = turn + 1
    /\ Begin
    /\ UNCHANGED <<phase, clock>>

(* The cycle is over.  That there is nothing to read now forgets the last  *)
(* snapshot.                                                               *)
Rest ==
    /\ phase' = "wait"
    /\ due' = NextDeadline
    /\ behind' = behind - Interval
    /\ at' = "idle" /\ count' = 0 /\ candidate' = Nothing
    /\ lastAlias' = 0 /\ relPosition' = 0 /\ unmoved' = {}
    /\ UNCHANGED <<bus, open, turn, spent>>

FinishCycle == turn = Len(Masters) /\ Rest

(* The snapshot is handed to the handler, or the failure counted.          *)
Handle ==
    /\ at = "read"
    /\ NextMaster \/ FinishCycle
    /\ UNCHANGED <<stop, slow>>

(* Faulty variant, for mutation checks only: a failure ends the cycle.     *)
FailureEndsCycle ==
    /\ at = "failed"
    /\ Rest
    /\ UNCHANGED <<stop, slow>>

SkipFailed ==
    /\ at = "failed"
    /\ NextMaster \/ FinishCycle
    /\ UNCHANGED <<stop, slow>>

(* Faulty variant, for mutation checks only: the wait is one for an        *)
(* interval, cut short by a signal.                                        *)
WaitInterrupted ==
    /\ phase = "wait" /\ due <= 1
    /\ phase' = "check"
    /\ UNCHANGED <<reading, bus, unmoved, turn, stop, clock, slow>>

(* sleep_until: at once if the deadline has passed.                        *)
Wait ==
    /\ phase = "wait" /\ due <= 0
    /\ phase' = "check"
    /\ UNCHANGED <<reading, bus, unmoved, turn, stop, clock, slow>>

-----------------------------------------------------------------------------
(* The environment                                                         *)

Signal ==
    /\ phase # "ended"
    /\ stop' = TRUE
    /\ UNCHANGED <<reading, bus, unmoved, phase, turn, clock, slow>>

Tick ==
    /\ \/ phase = "masters" /\ (spent < Quick \/ slow)
       \/ phase = "wait" /\ (due > 0 \/ slow)
    /\ behind < MaxBehind
    /\ due' = due - 1 /\ behind' = behind + 1
    /\ spent' = IF spent < Quick THEN spent + 1 ELSE Quick
    /\ UNCHANGED <<reading, bus, unmoved, loop, slow>>

SlowOrQuick ==
    /\ phase # "ended"
    /\ slow' = ~slow
    /\ UNCHANGED <<reading, bus, unmoved, loop, clock>>

Step == StartCycle \/ End \/ Read \/ Handle \/ SkipFailed \/ Wait

Next == Step \/ BusChanges \/ Signal \/ Tick \/ SlowOrQuick

Spec == Init /\ [][Next]_vars

(* Calls return, the thread is scheduled and time passes.                  *)
Fairness == WF_vars(Step) /\ WF_vars(Tick)

FairSpec == Spec /\ Fairness

-----------------------------------------------------------------------------

(* Every variable has the type of what it models; no descriptor is open    *)
(* while the loop waits.                                                   *)
TypeOK ==
    /\ AcquisitionTypeOK
    /\ phase \in {"check", "masters", "wait", "ended"}
    /\ turn \in DOMAIN Masters
    /\ due \in Int /\ behind \in Int
    /\ stop \in BOOLEAN /\ slow \in BOOLEAN
    /\ spent \in 0..Quick
    /\ phase = "masters" <=> at # "idle"

(* The bus is never read before its time: a cycle begins when as many      *)
(* intervals have passed as there were cycles before it, also when the     *)
(* loop catches up (next_deadline += config_.interval).                    *)
NeverEarly == phase = "masters" => behind >= 0

(* Although reads of other masters fail and calls are slow for any time,   *)
(* each master is read again and again until the loop ends: a failed read  *)
(* leaves the cycle going (the loop over masters in run).                  *)
EveryMasterIsRead ==
    \A i \in DOMAIN Masters :
        []<>(phase = "ended" \/ (turn = i /\ at = "open"))

(* When calls are not slow any more, the loop makes up for every cycle     *)
(* that it is behind: from some time on it completes one per interval.     *)
CatchesUp == <>[]~slow => <>[](behind < Interval \/ phase = "ended")

=============================================================================
