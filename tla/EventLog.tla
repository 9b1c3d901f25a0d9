------------------------------ MODULE EventLog ------------------------------
(***************************************************************************)
(* The contents of events.jsonl and what the web process makes of them     *)
(* (src/src/web/web_data_store.cpp, readRecentEvents).                     *)
(*                                                                         *)
(* The file is a sequence of cells, the pieces of a record between which   *)
(* a reader or a crash can fall.  They are cut where it matters: after     *)
(* the opening brace, after a closing brace inside the record (only a      *)
(* root cause has one), after the last brace and after the newline.        *)
(***************************************************************************)
EXTENDS Naturals, Sequences, FiniteSets

Kind == {"event", "root_cause", "recovery"}

Part == {"open", "inner", "close", "end"}

Cell == [id : Nat, kind : Kind, part : Part]

(* Faulty variant, for mutation checks only: no newline.                   *)
PartsWithoutNewline(kind) ==
    IF kind = "root_cause" THEN <<"open", "inner", "close">> ELSE <<"open", "close">>

(* What appendLine writes for a record.                                    *)
Parts(kind) ==
    IF kind = "root_cause" THEN <<"open", "inner", "close", "end">>
                           ELSE <<"open", "close", "end">>

(* Positions i..j of s are a line as getline returns it: without the       *)
(* newline, and also when it is the last one and no newline follows yet.   *)
IsLine(s, i, j) ==
    /\ i \in 1..Len(s) /\ j \in i..Len(s)
    /\ i = 1 \/ s[i - 1].part = "end"
    /\ j = Len(s) \/ s[j + 1].part = "end"
    /\ \A k \in i..j : s[k].part # "end"

LinesOf(s) == { l \in (1..Len(s)) \X (1..Len(s)) : IsLine(s, l[1], l[2]) }

(* Faulty variant, for mutation checks only: the last character is not     *)
(* looked at.                                                              *)
StartsAsObject(s, i, j) == s[i].part = "open"

(* A line is served if its first and last characters are braces.           *)
LooksLikeCompleteObject(s, i, j) ==
    s[i].part = "open" /\ s[j].part \in {"inner", "close"}

Served(s) == { l \in LinesOf(s) : LooksLikeCompleteObject(s, l[1], l[2]) }

(* The last limit lines served.  The answer to /api/events joins them to   *)
(* one JSON array.                                                         *)
RecentEvents(s, limit) ==
    { l \in Served(s) : Cardinality({ m \in Served(s) : m[1] > l[1] }) < limit }

(* The line is one record and all of it.                                   *)
IsRecord(s, i, j) ==
    /\ s[i].part = "open" /\ s[j].part = "close"
    /\ \A k \in i..j : s[k].id = s[i].id

(* The page parses the array as a whole (fetchJson in src/web/app.js).     *)
(* Any other line than a record has an open brace too many, or an object   *)
(* after the end of another, and with it nothing of the array is JSON.     *)
Parses(s, lines) == \A l \in lines : IsRecord(s, l[1], l[2])

=============================================================================
