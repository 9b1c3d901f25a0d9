------------------------------ MODULE WebPage -------------------------------
(***************************************************************************)
(* The page in the browser (src/web/app.js): once a second it fetches the  *)
(* status document and the events, chooses the master to show, and renders *)
(* what it then knows; the operator can choose another master.             *)
(*                                                                         *)
(* The document has a snapshot for each master that has been read since    *)
(* the daemon started.  A fetch is answered with the document of some      *)
(* moment while it is under way, or fails: this is what StatusFile and     *)
(* HttpServer provide.  Refreshes are not waited for, so that several can  *)
(* be under way and settle in any order.                                   *)
(***************************************************************************)
EXTENDS Naturals

CONSTANTS
    Master,         \* the configured masters
    Stamp,          \* the values of updated_ms that are told apart
    Limit,          \* seconds without a new timestamp until STALE, 5 in the code
    MaxRefreshes,   \* bound on the refreshes under way
    None

ASSUME PageAssumption ==
    /\ Master \subseteq Nat /\ Master # {}
    /\ Limit \in Nat
    /\ None \notin Nat \union Stamp

VARIABLES
    published,      \* the document: the timestamp of each master, or None
    refreshes,      \* Promise.allSettled: what /api/status has given each
    masters,        \* state.masters, as a document
    selectedMaster, \* as a number: null is 0
    lastTimestamp,
    age,            \* seconds since lastAdvanceAt
    eventsOf,       \* the master that the events shown are of
    shown           \* what has been rendered

page == <<masters, selectedMaster, lastTimestamp, age, eventsOf, shown>>
pageVars == <<published, refreshes, page>>

Slot == 1..MaxRefreshes

Phase == {"idle", "pending", "fulfilled", "rejected"}

Available(doc) == { m \in Master : doc[m] # None }

Document == { doc \in [Master -> Stamp \union {None}] : Available(doc) # {} }

NoDocument == [m \in Master |-> None]

Refresh(phase, doc) == [phase |-> phase, doc |-> doc]

(* What an operator sees: the master and timestamp of the snapshot, if it *)
(* is given as STALE (effectiveStatus), and whose events stand beside it. *)
Picture(m, t, a, e) ==
    [master |-> m, stamp |-> t, stale |-> a > Limit, events |-> e]

Blank == Picture(None, None, 0, None)

PageInit ==
    /\ published = NoDocument
    /\ refreshes = [k \in Slot |-> Refresh("idle", NoDocument)]
    /\ masters = NoDocument
    /\ selectedMaster = 0
    /\ lastTimestamp = None /\ age = 0
    /\ eventsOf = None
    /\ shown = Blank

-----------------------------------------------------------------------------
(* The daemon and the web process                                          *)

PublishMaster(m) ==
    /\ \E t \in Stamp \ {published[m]} : published' = [published EXCEPT ![m] = t]
    /\ UNCHANGED <<refreshes, page>>

(* The daemon starts again, and publishes when it has read a master.       *)
DaemonRestarts ==
    /\ \E m \in Master, t \in Stamp :
        published' = [NoDocument EXCEPT ![m] = t]
    /\ UNCHANGED <<refreshes, page>>

Answer(k) ==
    /\ refreshes[k].phase = "pending" /\ published # NoDocument
    /\ refreshes' = [refreshes EXCEPT ![k] = Refresh("fulfilled", published)]
    /\ UNCHANGED <<published, page>>

FetchFails(k) ==
    /\ refreshes[k].phase = "pending"
    /\ refreshes' = [refreshes EXCEPT ![k].phase = "rejected"]
    /\ UNCHANGED <<published, page>>

-----------------------------------------------------------------------------
(* The page                                                                *)

StartRefresh ==
    \E k \in Slot :
        /\ refreshes[k].phase = "idle"
        /\ refreshes' = [refreshes EXCEPT ![k].phase = "pending"]

(* A second passes, and setInterval starts a refresh.                      *)
Tick ==
    /\ age' = IF age > Limit THEN age ELSE age + 1
    /\ StartRefresh
    /\ UNCHANGED <<published, masters, selectedMaster, lastTimestamp, eventsOf, shown>>

First(doc) == CHOOSE m \in Available(doc) : \A n \in Available(doc) : m <= n

(* Faulty variant, for mutation checks only: the choice is kept.           *)
SelectionKept(doc) == selectedMaster

(* updateMasterSelector: a master that the document lacks is given up.     *)
SelectionIn(doc) ==
    IF selectedMaster \in Available(doc) THEN selectedMaster ELSE First(doc)

(* Faulty variant, for mutation checks only: any master's will do.         *)
AdvancedAny(doc) == doc # masters

(* The timestamp of the snapshot shown is another than before.             *)
Advanced(doc) == doc[SelectionIn(doc)] # lastTimestamp

Accepted(doc) ==
    /\ masters' = doc
    /\ selectedMaster' = SelectionIn(doc)
    /\ lastTimestamp' = doc[SelectionIn(doc)]
    /\ age' = IF Advanced(doc) THEN 0 ELSE age

(* Nothing of what is known changes, but it may have become stale.         *)
Rejected == UNCHANGED <<masters, selectedMaster, lastTimestamp, age>>

(* Faulty variant, for mutation checks only: events are handled when the   *)
(* snapshot has advanced.                                                  *)
EventsIfAdvanced(got) ==
    IF got /\ lastTimestamp' # lastTimestamp THEN selectedMaster' ELSE eventsOf

(* Events that the fetch has got are filtered for the master that is       *)
(* selected after the status has been handled; otherwise, whatever master  *)
(* is selected now, the ones that are known are kept.                      *)
EventsAfter(got) == IF got THEN selectedMaster' ELSE eventsOf

(* render: the snapshot of the selected master, and the events.            *)
Render ==
    shown' = IF masters' = NoDocument THEN Picture(None, None, 0, eventsOf')
             ELSE Picture(selectedMaster', masters'[selectedMaster'], age', eventsOf')

(* Both fetches have an answer or an error, each for itself: got says that *)
(* the one of the events has an array of records.                          *)
Settle(k, got) ==
    /\ \/ refreshes[k].phase = "fulfilled" /\ Accepted(refreshes[k].doc)
       \/ refreshes[k].phase = "rejected" /\ Rejected
    /\ eventsOf' = EventsAfter(got)
    /\ Render
    /\ refreshes' = [refreshes EXCEPT ![k] = Refresh("idle", NoDocument)]
    /\ UNCHANGED published

(* The selector offers the masters of the last document.  The page is only *)
(* rendered when the refresh that this starts, or another, settles.        *)
Choose(m) ==
    /\ m \in Available(masters) \ {selectedMaster}
    /\ selectedMaster' = m
    /\ lastTimestamp' = None
    /\ age' = 0
    /\ StartRefresh
    /\ UNCHANGED <<published, masters, eventsOf, shown>>

-----------------------------------------------------------------------------

PageNext ==
    \/ \E m \in Master : PublishMaster(m) \/ Choose(m)
    \/ DaemonRestarts \/ Tick
    \/ \E k \in Slot : Answer(k) \/ FetchFails(k) \/ \E got \in BOOLEAN : Settle(k, got)

PageSpec == PageInit /\ [][PageNext]_pageVars

(* Seconds pass, each fetch ends in an answer or an error, and neither     *)
(* those of the status nor those of the events all fail for ever.          *)
PageFairness ==
    /\ WF_pageVars(Tick)
    /\ \A k \in Slot :
        /\ WF_pageVars(Answer(k) \/ FetchFails(k))
        /\ WF_pageVars(\E got \in BOOLEAN : Settle(k, got))
    /\ SF_pageVars(\E k \in Slot : Answer(k))
    /\ SF_pageVars(\E k \in Slot : Settle(k, TRUE))

FairPageSpec == PageSpec /\ PageFairness

-----------------------------------------------------------------------------

(* Every variable has the type of what it models; when there is a          *)
(* document, the selected master is in it, so that data and name shown are *)
(* those of one master.                                                    *)
PageTypeOK ==
    /\ published \in Document \union {NoDocument}
    /\ refreshes \in [Slot -> [phase : Phase, doc : Document \union {NoDocument}]]
    /\ masters \in Document \union {NoDocument}
    /\ selectedMaster \in Master \union {0}
    /\ lastTimestamp \in Stamp \union {None}
    /\ age \in 0..Limit + 1
    /\ eventsOf \in Master \union {0, None}
    /\ shown \in [master : Master \union {None}, stamp : Stamp \union {None},
                   stale : BOOLEAN, events : Master \union {0, None}]
    /\ shown.master = None <=> shown.stamp = None
    /\ masters # NoDocument => selectedMaster \in Available(masters)

(* Although data of one master can be shown beside events of another, as   *)
(* long as the fetches of events fail after the selection has changed      *)
(* (refresh: state.events is kept), when the selection lasts the page      *)
(* comes to show both of the selected master and stays so: also when it    *)
(* was given up for a document that lacks it, answers settle in any order, *)
(* and the daemon has stopped so that no timestamp advances any more.      *)
EventsFollowSelection ==
    \A m \in Master :
        <>[](selectedMaster = m /\ masters # NoDocument) =>
            <>[](shown.master = m /\ shown.events = m)

(* When a master is not read any more, or the daemon stops, the page comes *)
(* to show its last snapshot as STALE and stays so, although other masters *)
(* keep advancing, fetches fail, and answers settle in any order.          *)
SilenceIsShown ==
    \A m \in Master, t \in Stamp :
        <>[](selectedMaster = m /\ published[m] = t) =>
            <>[](shown.master = m /\ shown.stamp = t /\ shown.stale)

=============================================================================
