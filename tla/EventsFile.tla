----------------------------- MODULE EventsFile -----------------------------
(***************************************************************************)
(* events.jsonl between daemon and web process.  In every handler run the  *)
(* daemon appends the records of the snapshot, one by one                  *)
(* (src/src/publishing/web_data_publisher.cpp, called from                 *)
(* src/apps/igh_ethercat_diagnostics.cpp); the web process serves the last *)
(* lines (RecentEvents in EventLog).                                       *)
(*                                                                         *)
(* A record is written cell by cell.  Between any two the daemon can crash *)
(* (it is restarted by systemd) and the disk can be full.  The file only   *)
(* ever grows, so that a reader that gets to its end has seen the contents *)
(* of that moment: what holds of every state of the log holds of every     *)
(* answer.  The file system itself does not lose what was written.         *)
(***************************************************************************)
EXTENDS EventLog

CONSTANTS
    MaxEvents,      \* bound: fault events of one snapshot
    MaxRecords,     \* bound: records appended
    Limit           \* lines asked for

ASSUME EventsAssumption ==
    /\ MaxEvents \in Nat
    /\ MaxRecords \in Nat
    /\ Limit \in Nat

VARIABLES
    pc,         \* where the handler stands
    batch,      \* records of this snapshot still to append
    at,         \* cells of the first of them already in the file
    begun,      \* records appended, or tried to, before it
    log,        \* events.jsonl
    torn        \* history: records of which only a part was written

vars == <<pc, batch, at, begun, log, torn>>

-----------------------------------------------------------------------------

(* The records of a snapshot, in the order in which they are appended: the *)
(* events, the root cause if one of them is a fault, the recovery.         *)
Batch == [events : 0..MaxEvents, rootCause : BOOLEAN, recovery : BOOLEAN]

NoBatch == [events |-> 0, rootCause |-> FALSE, recovery |-> FALSE]

Size(b) ==
    b.events + (IF b.rootCause THEN 1 ELSE 0) + (IF b.recovery THEN 1 ELSE 0)

NextKind(b) ==
    IF b.events > 0 THEN "event" ELSE IF b.rootCause THEN "root_cause" ELSE "recovery"

(* Faulty variant, for mutation checks only: counts events only.           *)
OneEventLess(b) == [b EXCEPT !.events = @ - 1]

Rest(b) ==
    IF b.events > 0 THEN [b EXCEPT !.events = @ - 1]
    ELSE IF b.rootCause THEN [b EXCEPT !.rootCause = FALSE]
    ELSE [b EXCEPT !.recovery = FALSE]

(* appendFaultEvents gives up at the first event that it sees fail; root   *)
(* cause and recovery are tried all the same.                              *)
RestAfterFailure(b) == [Rest(b) EXCEPT !.events = 0]

Init ==
    /\ pc = "idle"
    /\ batch = NoBatch /\ at = 0 /\ begun = 0
    /\ log = << >>
    /\ torn = {}

(* A snapshot with something to say has been handled.  A verdict is made   *)
(* of events only.                                                         *)
Handle(b) ==
    /\ pc = "idle"
    /\ b # NoBatch /\ (b.rootCause => b.events > 0)
    /\ begun + Size(b) <= MaxRecords
    /\ batch' = b
    /\ pc' = "append"
    /\ UNCHANGED <<at, begun, log, torn>>

-----------------------------------------------------------------------------
(* appendLine                                                              *)

NextRecord(rest) ==
    /\ batch' = rest
    /\ at' = 0
    /\ begun' = begun + 1
    /\ pc' = IF rest = NoBatch THEN "idle" ELSE "append"

AppendCell ==
    LET kind == NextKind(batch)
    IN  /\ pc = "append"
        /\ log' = Append(log, [id |-> begun + 1, kind |-> kind,
                               part |-> Parts(kind)[at + 1]])
        /\ \/ /\ at + 1 < Len(Parts(kind))
              /\ at' = at + 1
              /\ UNCHANGED <<pc, batch, begun>>
           \/ /\ at + 1 = Len(Parts(kind))
              /\ NextRecord(Rest(batch))
        /\ UNCHANGED torn

TornIn == IF at > 0 THEN torn \union {begun + 1} ELSE torn

(* The file cannot be opened, or the disk is full somewhere in the line.   *)
(* The stream is checked before it is closed: what fails only when the     *)
(* buffer is flushed by the destructor goes unnoticed.                     *)
AppendFails ==
    /\ pc = "append"
    /\ torn' = TornIn
    /\ \E noticed \in BOOLEAN :
            NextRecord(IF noticed THEN RestAfterFailure(batch) ELSE Rest(batch))
    /\ UNCHANGED log

-----------------------------------------------------------------------------

Crash ==
    /\ pc # "down"
    /\ torn' = TornIn
    /\ pc' = "down"
    /\ batch' = NoBatch
    /\ at' = 0
    /\ begun' = IF at > 0 THEN begun + 1 ELSE begun
    /\ UNCHANGED log

Restart ==
    /\ pc = "down"
    /\ pc' = "idle"
    /\ UNCHANGED <<batch, at, begun, log, torn>>

Next ==
    \/ \E b \in Batch : Handle(b)
    \/ AppendCell \/ AppendFails
    \/ Crash \/ Restart

Spec == Init /\ [][Next]_vars

-----------------------------------------------------------------------------

(* Every variable has the type of what it models.                          *)
TypeOK ==
    /\ pc \in {"idle", "append", "down"}
    /\ batch \in Batch
    /\ at \in 0..3 /\ begun \in Nat
    /\ log \in Seq(Cell)
    /\ torn \subseteq Nat

(* A line of the log may have several records only if all but the last of  *)
(* them were interrupted: apart from these, a crash or a full disk can     *)
(* spoil only the one record that is appended next (appendLine does not    *)
(* end the line that an earlier run left open).                            *)
DamageIsLocal ==
    \A l \in LinesOf(log) : \A k \in l[1]..l[2] :
        log[k].id # log[l[2]].id => log[k].id \in torn

(* The records after the one given that are in the file with their ends.   *)
WholeAfter(id) ==
    { n \in id + 1..begun :
        \E k \in DOMAIN log : log[k].id = n /\ log[k].part = "end" }

(* An interrupted record spoils not only its line but every answer that    *)
(* the line is in, of which the page can then show nothing at all.  It     *)
(* does so for a limited time: once more than Limit records are whole      *)
(* after each one that was interrupted, /api/events answers with an array  *)
(* of whole records again.  Only a root cause that is just being written   *)
(* may spoil an answer too, while the file ends with a brace inside it     *)
(* (readRecentEvents, looksLikeCompleteObject).                            *)
AnswersRecover ==
    /\ \A id \in torn : Cardinality(WholeAfter(id)) > Limit
    /\ log # << >> => log[Len(log)].part # "inner"
    => Parses(log, RecentEvents(log, Limit))

(* "Event history is JSONL and append-only; each line is independently     *)
(* parseable" (src/docs/ARCHITECTURE.md:70): a line that has been ended is *)
(* one record and all of it.                                               *)
EveryLineParses ==
    \A l \in LinesOf(log) : l[2] < Len(log) => IsRecord(log, l[1], l[2])

=============================================================================
