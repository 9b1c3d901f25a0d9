--------------------------- MODULE FaultRecorder ----------------------------
(***************************************************************************)
(* How the daemon uses the black box of one master                         *)
(* (src/apps/igh_ethercat_diagnostics.cpp, the snapshot handler): every    *)
(* snapshot is pushed, every event of it triggers, and once the box asks   *)
(* to be saved the handler tries to write the capture to a fresh file,     *)
(* once per process.  The write is the long part of the handler and is     *)
(* modelled in steps, so that a crash or a full disk can fall between      *)
(* them; files outlive the process, and the wall clock that names them may *)
(* stand still or step back.                                               *)
(*                                                                         *)
(* A snapshot is its ordinal in this process and its timestamp; an event   *)
(* is its type, of which the recorder tells two kinds apart, and the       *)
(* timestamp of its snapshot.  A clean stop (SIGTERM is looked at between  *)
(* handlers only) leaves what a crash in the same place leaves.            *)
(***************************************************************************)
EXTENDS Blackbox, Integers

CONSTANTS
    Clock,         \* wall clock readings
    MaxSnapshots,  \* bound: snapshots one process handles
    MaxBoots,      \* bound: times the process starts
    NoFile         \* no capture file was chosen

VARIABLES
    bb,         \* runtime.blackbox
    attempted,  \* runtime.blackbox_save_attempted
    analysed,   \* runtime.latest_root_cause holds a report
    pc,         \* where the handler stands
    path,       \* the file the handler saves to
    files,      \* the log directory: what each existing file holds
    boot,       \* which start of the process this is
    pushed,     \* history: snapshots handled since the process started
    firstAt,    \* history: ordinal of the first snapshot with an event, or 0
    lastFault   \* history: ordinal of the last snapshot with a fault event, or 0

vars == <<bb, attempted, analysed, pc, path, files, boot, pushed, firstAt, lastFault>>

-----------------------------------------------------------------------------

(* Every event type except MASTER_LINK_UP counts as a fault event.         *)
Event == [type : {"MASTER_LINK_UP", "FAULT"}, ts : Clock]

ASSUME RecorderAssumption ==
    /\ Clock \subseteq Nat
    /\ MaxSnapshots \in Nat
    /\ MaxBoots \in Nat \ {0}
    /\ NoEvent \notin Event

(* The events of one snapshot are a list, of which the recorder tells      *)
(* apart the first one and whether there is a fault among them: a trigger  *)
(* after the first finds the box no longer RECORDING and returns           *)
(* (LaterTriggersReturn in FaultRecorderProofs).  A list that has a first  *)
(* event FAULT has a fault; one that starts with MASTER_LINK_UP may, when  *)
(* slaves came or went with the link.  The first snapshot of a process has *)
(* nothing to be compared to: no previous snapshot, no counter baselines.  *)
NoEvents == [first |-> NoEvent, fault |-> FALSE]

EventsOf(ts) ==
    {NoEvents} \union
        IF pushed = 0 THEN {}
        ELSE { [first |-> [type |-> "MASTER_LINK_UP", ts |-> ts], fault |-> FALSE],
               [first |-> [type |-> "MASTER_LINK_UP", ts |-> ts], fault |-> TRUE],
               [first |-> [type |-> "FAULT", ts |-> ts], fault |-> TRUE] }

TriggeredBy(b, events) ==
    IF events.first = NoEvent THEN b ELSE Triggered(b, events.first)

(* fault_<ts>.jsonl, fault_<ts>_1.jsonl, ...                               *)
PathName(ts, suffix) == <<ts, suffix>>

Paths == { PathName(ts, suffix) : ts \in Clock, suffix \in 0..MaxBoots }

(* Faulty variants, for mutation checks only: no look at what exists, no   *)
(* name, a save that is tried again, an event line written first.          *)
FirstNamePath(p, ts) == p = PathName(ts, 0)

EmptyPath(p, ts) == p = NoFile

TriesAgain(box) == box.state = "SAVING"

EventLineFirst(n, event) == event \in {NoEvent, bb.trigger}

(* makeUniqueBlackboxPath: the first name that no file has yet.  A process *)
(* makes one file at most, so MaxBoots + 1 names are enough.               *)
FreshPath(p, ts) ==
    \E suffix \in 0..MaxBoots :
        /\ p = PathName(ts, suffix)
        /\ p \notin DOMAIN files
        /\ \A j \in 0..suffix - 1 : PathName(ts, j) \in DOMAIN files

(* A capture file: the snapshot lines that reached it, then the event      *)
(* line, then the root cause line; saved is what saveToFile returned.      *)
EmptyFile ==
    [ boot |-> boot, snapshots |-> << >>, trigger |-> NoEvent,
      rootCause |-> FALSE, saved |-> FALSE ]

(* The handler saves once, and what the box holds is saved without looking *)
(* at the result (blackbox_save_attempted).                                *)
TriesToSave(box) == box.state = "SAVING" /\ ~attempted

(* What saveToFile may have put in the file when it fails: the first n     *)
(* snapshot lines and, only after all of them, the event line.             *)
LinesWritten(n, event) ==
    /\ event \in {NoEvent, bb.trigger}
    /\ event # NoEvent => n = Len(bb.buffer)

-----------------------------------------------------------------------------

Init ==
    /\ bb = NewBlackbox
    /\ attempted = FALSE
    /\ analysed = FALSE
    /\ pc = "loop"
    /\ path = NoFile
    /\ pushed = 0
    /\ firstAt = 0
    /\ lastFault = 0
    /\ files = << >>
    /\ boot = 1

(* The handler up to the save: push, detect, trigger once per event,       *)
(* analyse if one is a fault, then choose the file if it is time to save.  *)
Handle(ts, events) ==
    LET snapshot == [ordinal |-> pushed + 1, ts |-> ts]
        after == TriggeredBy(Pushed(bb, snapshot), events)
        saves == TriesToSave(after) /\ after.trigger # NoEvent
    IN  /\ pc = "loop"
        /\ pushed < MaxSnapshots
        /\ bb' = after
        /\ pushed' = pushed + 1
        /\ firstAt' = IF firstAt = 0 /\ events.first # NoEvent
                      THEN pushed + 1 ELSE firstAt
        /\ lastFault' = IF events.fault THEN pushed + 1 ELSE lastFault
        /\ analysed' = (analysed \/ events.fault)
        /\ attempted' = (attempted \/ TriesToSave(after))
        /\ path' \in Paths \union {NoFile}
        /\ IF saves THEN FreshPath(path', after.trigger.ts) ELSE path' = NoFile
        /\ pc' = IF saves THEN "open" ELSE "loop"
        /\ UNCHANGED <<files, boot>>

(* saveToFile: the stream opens, which creates the file, or it does not.   *)
OpenFile ==
    /\ pc = "open"
    /\ files' = [ p \in DOMAIN files \union {path} |->
                    IF p = path THEN EmptyFile ELSE files[p] ]
    /\ pc' = "write"
    /\ UNCHANGED <<bb, attempted, analysed, path, boot, pushed, firstAt, lastFault>>

OpenFails ==
    /\ pc = "open"
    /\ pc' = "loop"
    /\ UNCHANGED <<bb, attempted, analysed, path, files, boot, pushed, firstAt, lastFault>>

(* saveToFile: all lines are written and the stream closes without error.  *)
WriteCapture ==
    /\ pc = "write"
    /\ files' = [files EXCEPT ![path].snapshots = bb.buffer,
                              ![path].trigger   = bb.trigger,
                              ![path].saved     = TRUE]
    /\ pc' = IF analysed THEN "append" ELSE "loop"
    /\ UNCHANGED <<bb, attempted, analysed, path, boot, pushed, firstAt, lastFault>>

(* saveToFile: the write fails and some of the lines are in the file.      *)
WriteFails(n, event) ==
    /\ pc = "write"
    /\ LinesWritten(n, event)
    /\ files' = [files EXCEPT ![path].snapshots = SubSeq(bb.buffer, 1, n),
                              ![path].trigger   = event]
    /\ pc' = "loop"
    /\ UNCHANGED <<bb, attempted, analysed, path, boot, pushed, firstAt, lastFault>>

(* appendRootCauseReportJsonl, which may fail.                             *)
AppendRootCause(ok) ==
    /\ pc = "append"
    /\ files' = [files EXCEPT ![path].rootCause = ok]
    /\ pc' = "loop"
    /\ UNCHANGED <<bb, attempted, analysed, path, boot, pushed, firstAt, lastFault>>

(* The process dies where it stands and its memory is gone; of an open     *)
(* file some lines remain.                                                 *)
Crash ==
    /\ pc # "down"
    /\ IF pc = "write"
       THEN \E n \in 0..Len(bb.buffer) :
                files' = [files EXCEPT ![path].snapshots = SubSeq(bb.buffer, 1, n)]
       ELSE UNCHANGED files
    /\ bb' = NewBlackbox
    /\ attempted' = FALSE
    /\ analysed' = FALSE
    /\ pc' = "down"
    /\ path' = NoFile
    /\ pushed' = 0
    /\ firstAt' = 0
    /\ lastFault' = 0
    /\ UNCHANGED boot

(* A new process: main builds fresh runtimes, the log directory stays.     *)
Restart ==
    /\ pc = "down"
    /\ boot < MaxBoots
    /\ pc' = "loop"
    /\ boot' = boot + 1
    /\ UNCHANGED <<bb, attempted, analysed, path, files, pushed, firstAt, lastFault>>

Next ==
    \/ \E ts \in Clock : \E events \in EventsOf(ts) : Handle(ts, events)
    \/ OpenFile
    \/ OpenFails
    \/ WriteCapture
    \/ \E n \in 0..Len(bb.buffer), event \in {NoEvent, bb.trigger} :
            WriteFails(n, event)
    \/ \E ok \in BOOLEAN : AppendRootCause(ok)
    \/ Crash
    \/ Restart

Spec == Init /\ [][Next]_vars

-----------------------------------------------------------------------------

PC == {"loop", "open", "write", "append", "down"}

Snapshot == [ordinal : Nat, ts : Clock]

CaptureFile ==
    [ boot : 1..MaxBoots, snapshots : Seq(Snapshot),
      trigger : Event \union {NoEvent}, rootCause : BOOLEAN, saved : BOOLEAN ]

(* The shape of the state; a file is being written only at a path that     *)
(* exists, and the handler saves only what is ready to be saved.           *)
TypeOK ==
    /\ bb \in [ state    : BlackboxState,
                buffer   : Seq(Snapshot),
                trigger  : Event \union {NoEvent},
                recorded : Nat ]
    /\ attempted \in BOOLEAN
    /\ analysed \in BOOLEAN
    /\ pc \in PC
    /\ path \in Paths \union {NoFile}
    /\ DOMAIN files \subseteq Paths
    /\ files \in [DOMAIN files -> CaptureFile]
    /\ boot \in 1..MaxBoots
    /\ pushed \in 0..MaxSnapshots
    /\ firstAt \in 0..pushed
    /\ lastFault \in 0..pushed

(* How many of the first n snapshots a deque of Capacity keeps.            *)
Kept(n) == IF n > Capacity THEN Capacity ELSE n

(* The ordinals a capture is to hold: First + 1 .. Upto.                   *)
First == IF firstAt = 0 THEN pushed - Kept(pushed) ELSE firstAt - Kept(firstAt)
Upto == IF firstAt = 0 \/ pushed - firstAt < PostFaultCapacity
        THEN pushed ELSE firstAt + PostFaultCapacity

(* No snapshot around the fault is dropped, repeated or out of order: the  *)
(* deque is the newest Capacity snapshots up to the one with the first     *)
(* event and then the next PostFaultCapacity ones, whatever events and     *)
(* snapshots come later, and the box asks to be saved exactly when that is *)
(* complete (Blackbox::push and trigger, as the handler calls them).       *)
ExactCapture ==
    /\ Len(bb.buffer) = Upto - First
    /\ \A i \in 1..Len(bb.buffer) : bb.buffer[i].ordinal = First + i
    /\ (bb.state = "SAVING")
            <=> (firstAt # 0 /\ pushed - firstAt >= PostFaultCapacity)

(* A whole capture: consecutive snapshots, of which the one before the     *)
(* last PostFaultCapacity is the snapshot the event was found in, and that *)
(* go back Capacity snapshots or to the first one there was.               *)
IsWhole(f) ==
    LET n == Len(f.snapshots)
        k == n - PostFaultCapacity
    IN  /\ k \in 1..Capacity
        /\ \A i \in 2..n :
                f.snapshots[i].ordinal = f.snapshots[i - 1].ordinal + 1
        /\ f.snapshots[k].ts = f.trigger.ts
        /\ k < Capacity => f.snapshots[1].ordinal = 1

(* A reader can tell a torn capture from a whole one: a file that has its  *)
(* event line has the whole capture before it, even if the save reported   *)
(* an error or the process died while it wrote (saveToFile writes the      *)
(* event after the snapshots); a save that reported success, and a root    *)
(* cause line, come with an event line.                                    *)
EventLineMeansWhole ==
    \A p \in DOMAIN files :
        /\ files[p].trigger # NoEvent => IsWhole(files[p])
        /\ files[p].saved => files[p].trigger # NoEvent
        /\ files[p].rootCause => files[p].saved

(* One process leaves one capture file at most, whatever fails and however *)
(* many faults it sees (blackbox_save_attempted).                          *)
OneCapturePerProcess ==
    \A p, q \in DOMAIN files : files[p].boot = files[q].boot => p = q

(* Evidence is never lost to a later capture, although the wall clock may  *)
(* give two faults the same timestamp: no step removes a file, changes one *)
(* that an earlier process left, or touches the lines of a saved one       *)
(* (makeUniqueBlackboxPath).                                               *)
EvidenceKept ==
    [][\A p \in DOMAIN files :
        /\ p \in DOMAIN files'
        /\ files[p].boot < boot => files'[p] = files[p]
        /\ files[p].saved => /\ files'[p].snapshots = files[p].snapshots
                             /\ files'[p].trigger = files[p].trigger]_vars

(* "A fault starts post-trigger capture and produces a JSONL evidence      *)
(* file" (src/docs/ARCHITECTURE.md, item 4): when nothing went wrong with  *)
(* saving, the last fault is in a capture file of this process once        *)
(* PostFaultCapacity snapshots have followed it.                           *)
EveryFaultCaptured ==
    LET mine == { p \in DOMAIN files : files[p].boot = boot /\ files[p].saved }
    IN  /\ pc = "loop"
        /\ attempted => mine # {}
        /\ lastFault # 0 /\ pushed - lastFault >= PostFaultCapacity
        => \E p \in mine : \E i \in DOMAIN files[p].snapshots :
               files[p].snapshots[i].ordinal = lastFault

=============================================================================
