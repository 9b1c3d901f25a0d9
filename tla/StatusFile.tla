----------------------------- MODULE StatusFile -----------------------------
(***************************************************************************)
(* latest_status.json between daemon and web process.  At the end of every *)
(* handler run the daemon replaces it (publishStatus in                    *)
(* src/src/publishing/web_data_publisher.cpp); the web process reads it    *)
(* (readStatus in src/src/web/web_data_store.cpp), one request at a time.  *)
(*                                                                         *)
(* The file is written in steps.  Between any two the daemon can crash (it *)
(* is restarted by systemd), the disk can be full, and the web process can *)
(* open or read the file.  A file is an inode that has a name or is held   *)
(* open: a document that is replaced while it is read stays as it was.     *)
(* The file system itself does not lose what was written.                  *)
(***************************************************************************)
EXTENDS Naturals

CONSTANTS
    Status,         \* the documents that can be published
    Unavailable,    \* the answer without a document; also: nothing to publish
    Empty, Cut,     \* contents of a file that is being written
    Inode,
    NoInode

ASSUME StatusAssumption ==
    /\ Unavailable \notin Status \union {Empty, Cut}
    /\ {Empty, Cut} \intersect Status = {}
    /\ Empty # Cut
    /\ Inode \subseteq Nat
    /\ NoInode \notin Inode

VARIABLES
    pc,         \* where the handler stands
    current,    \* the document of the last snapshot handled
    status,     \* the inode that latest_status.json names
    tmp,        \* the inode that latest_status.json.tmp names
    content,    \* what is in each inode
    held,       \* the inode the web process has open
    answer      \* its last answer to /api/status

daemon == <<pc, current>>
files == <<status, tmp, content>>
web == <<held, answer>>
vars == <<daemon, files, web>>

Init ==
    /\ pc = "idle" /\ current = Unavailable
    /\ status = NoInode /\ tmp = NoInode
    /\ content = [n \in Inode |-> Empty]
    /\ held = NoInode /\ answer = Unavailable

-----------------------------------------------------------------------------
(* The daemon                                                              *)

(* A snapshot has been handled; the document is what it and those of the   *)
(* other masters say.  There is one for every snapshot, also when it says  *)
(* the same as the last.                                                   *)
Handle ==
    /\ pc = "idle"
    /\ current' \in Status
    /\ pc' = "open"
    /\ UNCHANGED <<files, web>>

Unused == Inode \ {status, tmp, held}

(* Which inode a new file gets is of no matter: the first that is free.    *)
IsNew(n) == n \in Unused /\ \A m \in Unused : n <= m

(* Faulty variants, for mutation checks only: the file is written in       *)
(* place; it is opened only if it is not there.                            *)
InPlace(n) == IF status # NoInode THEN n = status ELSE IsNew(n)

Exclusive(n) == tmp = NoInode /\ IsNew(n)

(* The inode behind the temporary name: the one left by a run that did not *)
(* get to the rename, or a new one.                                        *)
TemporaryFile(n) == IF tmp # NoInode THEN n = tmp ELSE IsNew(n)

OpenTmp ==
    /\ pc = "open"
    /\ \E n \in Inode :
        /\ TemporaryFile(n)
        /\ tmp' = n
        /\ content' = [content EXCEPT ![n] = Empty]
    /\ pc' = "write"
    /\ UNCHANGED <<current, status, web>>

(* Faulty variant, for mutation checks only: renamed before it is closed.  *)
WriteSomeOnly ==
    /\ pc = "write" /\ content[tmp] = Empty
    /\ content' = [content EXCEPT ![tmp] = Cut]
    /\ pc' = "rename"
    /\ UNCHANGED <<current, status, tmp, web>>

WriteSome ==
    /\ pc = "write" /\ content[tmp] = Empty
    /\ content' = [content EXCEPT ![tmp] = Cut]
    /\ UNCHANGED <<daemon, status, tmp, web>>

WriteRest ==
    /\ pc = "write" /\ content[tmp] = Cut
    /\ content' = [content EXCEPT ![tmp] = current]
    /\ pc' = "rename"
    /\ UNCHANGED <<current, status, tmp, web>>

Rename ==
    /\ pc = "rename"
    /\ status' = tmp
    /\ tmp' = NoInode
    /\ pc' = "idle"
    /\ UNCHANGED <<current, content, web>>

(* Open, write (seen at close) or rename fails: the handler goes on, the   *)
(* temporary file stays.                                                   *)
PublishFails ==
    /\ pc \in {"open", "write", "rename"}
    /\ pc' = "idle"
    /\ UNCHANGED <<current, files, web>>

Crash ==
    /\ pc # "down"
    /\ pc' = "down"
    /\ current' = Unavailable
    /\ UNCHANGED <<files, web>>

Restart ==
    /\ pc = "down"
    /\ pc' = "idle"
    /\ UNCHANGED <<current, files, web>>

-----------------------------------------------------------------------------
(* The web process                                                         *)

OpenStatus ==
    /\ held = NoInode /\ status # NoInode
    /\ held' = status
    /\ UNCHANGED <<daemon, files, answer>>

(* Anything that is not blank is an answer.                                *)
AnswerStatus ==
    /\ held # NoInode
    /\ answer' = IF content[held] = Empty THEN Unavailable ELSE content[held]
    /\ held' = NoInode
    /\ UNCHANGED <<daemon, files>>

(* There is no file, it cannot be opened, or it cannot be read.            *)
StatusUnavailable ==
    /\ answer' = Unavailable
    /\ held' = NoInode
    /\ UNCHANGED <<daemon, files>>

-----------------------------------------------------------------------------

Publish == OpenTmp \/ WriteSome \/ WriteRest \/ Rename \/ PublishFails

Serve == OpenStatus \/ AnswerStatus \/ StatusUnavailable

Next == Handle \/ Publish \/ Crash \/ Restart \/ Serve

Spec == Init /\ [][Next]_vars

(* The monitor keeps handling snapshots, the daemon is restarted, requests *)
(* keep coming; opening, writing, renaming and reading do not fail for     *)
(* ever.                                                                   *)
Fairness ==
    /\ WF_vars(Handle) /\ WF_vars(Publish) /\ WF_vars(Restart) /\ WF_vars(Serve)
    /\ SF_vars(OpenTmp) /\ SF_vars(WriteSome) /\ SF_vars(WriteRest) /\ SF_vars(Rename)
    /\ SF_vars(OpenStatus) /\ SF_vars(AnswerStatus)

FairSpec == Spec /\ Fairness

-----------------------------------------------------------------------------

(* Every variable has the type of what it models; half a document is never *)
(* an answer.                                                              *)
TypeOK ==
    /\ pc \in {"idle", "open", "write", "rename", "down"}
    /\ current \in Status \union {Unavailable}
    /\ {status, tmp, held} \subseteq Inode \union {NoInode}
    /\ content \in [Inode -> Status \union {Empty, Cut}]
    /\ answer \in Status \union {Unavailable}

(* The document that a reader would open, and the answer that is decided   *)
(* when it is opened.                                                      *)
Visible == IF status = NoInode THEN Unavailable ELSE content[status]

Given == IF held = NoInode THEN answer ELSE content[held]

Register == INSTANCE StatusRegister WITH value <- Visible, answer <- Given

(* Whatever fails or crashes where, a page sees a whole document, which    *)
(* was the visible one when its request was served, and so never one older *)
(* than another page was shown (publishStatus, readStatus).                *)
StatusIsAtomic == Register!Spec

(* When the state of the network stays the same, the page comes to show it *)
(* and does not go back to an older document, although publishing and      *)
(* reading can each fail any number of times and the daemon can have       *)
(* crashed any number of times before.                                     *)
PageCatchesUp ==
    \A s \in Status :
        <>[](current = s) => /\ <>[](answer \in {s, Unavailable})
                             /\ []<>(answer = s)

=============================================================================
