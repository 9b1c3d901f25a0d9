------------------------------ MODULE WebProofs ------------------------------
(***************************************************************************)
(* What reaches the operator: the status file, the server that answers     *)
(* with it, and the page.  The three are specifications of their own; none *)
(* of their names are the same, so that their theorems can stand together. *)
(***************************************************************************)
EXTENDS StatusFile, HttpServer, WebPage, WellFoundedInduction, TLAPS

-----------------------------------------------------------------------------
(* latest_status.json: an atomic register, for any documents and any       *)
(* number of inodes.  What has a name or is held open is a whole document  *)
(* and not the file that is being written.                                 *)

(* The invariant: what the handler knows where it stands, and that a file  *)
(* a reader can get at is finished and is not the temporary one.           *)
FilesInv ==
    /\ pc \in {"open", "write", "rename"} => current \in Status
    /\ pc \in {"write", "rename"} => tmp # NoInode
    /\ pc = "rename" => content[tmp] \in Status
    /\ status # NoInode => content[status] \in Status /\ tmp # status
    /\ held # NoInode => content[held] \in Status /\ tmp # held

(* At the start there is no file.                                         *)
LEMMA InitFiles == Init => TypeOK /\ FilesInv
BY StatusAssumption DEF Init, TypeOK, FilesInv

(* A new temporary file is not one that can be read.                       *)
LEMMA TemporaryIsApart ==
    ASSUME TypeOK, FilesInv, NEW n \in Inode, TemporaryFile(n)
    PROVE  n # status /\ n # held
<1>1. CASE tmp = NoInode
  BY <1>1 DEF TemporaryFile, IsNew, Unused
<1>2. CASE tmp # NoInode
  BY <1>2, StatusAssumption DEF TemporaryFile, TypeOK, FilesInv
<1>3. QED
  BY <1>1, <1>2

(* What is renamed is finished, and what is written next is another file.  *)
LEMMA StepKeepsFiles == TypeOK /\ FilesInv /\ [Next]_vars => TypeOK' /\ FilesInv'
<1> SUFFICES ASSUME TypeOK, FilesInv, [Next]_vars
             PROVE  TypeOK' /\ FilesInv'
  OBVIOUS
<1> USE StatusAssumption
<1>1. CASE Handle
  BY <1>1 DEF Handle, files, web, TypeOK, FilesInv
<1>2. CASE OpenTmp
  <2>1. PICK n \in Inode : /\ TemporaryFile(n)
                           /\ tmp' = n
                           /\ content' = [content EXCEPT ![n] = Empty]
    BY <1>2 DEF OpenTmp
  <2>2. n # status /\ n # held
    BY <2>1, TemporaryIsApart
  <2>3. TypeOK'
    BY <1>2, <2>1 DEF OpenTmp, web, TypeOK
  <2>4. FilesInv'
    BY <1>2, <2>1, <2>2 DEF OpenTmp, web, TypeOK, FilesInv
  <2>5. QED
    BY <2>3, <2>4
<1>3. CASE WriteSome
  BY <1>3 DEF WriteSome, daemon, web, TypeOK, FilesInv
<1>4. CASE WriteRest
  BY <1>4 DEF WriteRest, web, TypeOK, FilesInv
<1>5. CASE Rename
  BY <1>5 DEF Rename, web, TypeOK, FilesInv
<1>6. CASE PublishFails
  BY <1>6 DEF PublishFails, files, web, TypeOK, FilesInv
<1>7. CASE Crash
  BY <1>7 DEF Crash, files, web, TypeOK, FilesInv
<1>8. CASE Restart
  BY <1>8 DEF Restart, files, web, TypeOK, FilesInv
<1>9. CASE OpenStatus
  BY <1>9 DEF OpenStatus, daemon, files, TypeOK, FilesInv
<1>10. CASE AnswerStatus
  BY <1>10 DEF AnswerStatus, daemon, files, TypeOK, FilesInv
<1>11. CASE StatusUnavailable
  BY <1>11 DEF StatusUnavailable, daemon, files, TypeOK, FilesInv
<1>12. CASE UNCHANGED vars
  BY <1>12 DEF vars, daemon, files, web, TypeOK, FilesInv
<1>13. QED
  BY <1>1, <1>2, <1>3, <1>4, <1>5, <1>6, <1>7, <1>8, <1>9, <1>10, <1>11, <1>12
     DEF Next, Publish, Serve

(* FilesInv is an invariant.                                               *)
THEOREM FilesInvariant == Spec => [](TypeOK /\ FilesInv)
<1>1. QED
  BY InitFiles, StepKeepsFiles, PTL DEF Spec

(* Types, among them that half a document is never an answer.              *)
THEOREM TypeCorrect == Spec => []TypeOK
BY FilesInvariant, PTL

-----------------------------------------------------------------------------

(* Renaming is the moment at which a document is published, opening the    *)
(* one at which it is read; a failed read is a failed read.  All other     *)
(* steps are not seen.                                                     *)
LEMMA StepIsRegisterStep ==
    TypeOK /\ FilesInv /\ [Next]_vars => [Register!Next]_Register!vars
<1> SUFFICES ASSUME TypeOK, FilesInv, [Next]_vars
             PROVE  [Register!Next]_Register!vars
  OBVIOUS
<1> USE StatusAssumption DEF Visible, Given
<1>1. CASE Handle
  BY <1>1 DEF Handle, files, web, Register!vars
<1>2. CASE OpenTmp
  <2>1. PICK n \in Inode : /\ TemporaryFile(n)
                           /\ content' = [content EXCEPT ![n] = Empty]
    BY <1>2 DEF OpenTmp
  <2>2. n # status /\ n # held
    BY <2>1, TemporaryIsApart
  <2>3. UNCHANGED Register!vars
    BY <1>2, <2>1, <2>2 DEF OpenTmp, web, TypeOK, Register!vars
  <2>4. QED
    BY <2>3
<1>3. CASE WriteSome
  BY <1>3 DEF WriteSome, daemon, web, TypeOK, FilesInv, Register!vars
<1>4. CASE WriteRest
  BY <1>4 DEF WriteRest, web, TypeOK, FilesInv, Register!vars
<1>5. CASE Rename
  <2>1. Register!Publish
    BY <1>5 DEF Rename, web, TypeOK, FilesInv, Register!Publish
  <2>2. QED
    BY <2>1 DEF Register!Next
<1>6. CASE PublishFails
  BY <1>6 DEF PublishFails, files, web, Register!vars
<1>7. CASE Crash
  BY <1>7 DEF Crash, files, web, Register!vars
<1>8. CASE Restart
  BY <1>8 DEF Restart, files, web, Register!vars
<1>9. CASE OpenStatus
  <2>1. Register!Read
    BY <1>9 DEF OpenStatus, files, daemon, TypeOK, Register!Read
  <2>2. QED
    BY <2>1 DEF Register!Next
<1>10. CASE AnswerStatus
  BY <1>10 DEF AnswerStatus, files, daemon, TypeOK, FilesInv, Register!vars
<1>11. CASE StatusUnavailable
  <2>1. Register!Fail
    BY <1>11 DEF StatusUnavailable, files, daemon, TypeOK, Register!Fail
  <2>2. QED
    BY <2>1 DEF Register!Next
<1>12. CASE UNCHANGED vars
  BY <1>12 DEF vars, daemon, files, web, Register!vars
<1>13. QED
  BY <1>1, <1>2, <1>3, <1>4, <1>5, <1>6, <1>7, <1>8, <1>9, <1>10, <1>11, <1>12
     DEF Next, Publish, Serve

(* publishStatus and readStatus together implement an atomic register.     *)
THEOREM StatusAtomic == Spec => StatusIsAtomic
<1>1. Init => Register!Init
  BY StatusAssumption DEF Init, Register!Init, Visible, Given
<1>2. QED
  BY <1>1, FilesInvariant, StepIsRegisterStep, PTL
     DEF Spec, StatusIsAtomic, Register!Spec

-----------------------------------------------------------------------------
(* The server                                                              *)

(* Types hold at the start, with any clients.                              *)
LEMMA InitServer == ServerInit => ServerTypeOK
<1> SUFFICES ASSUME ServerInit PROVE ServerTypeOK
  OBVIOUS
<1>1. /\ queue = << >> /\ conn = [c \in Client |-> "away"] /\ at = "start"
      /\ stop = FALSE /\ received = 0 /\ whole = FALSE
  BY DEF ServerInit
<1>2. Elements = {} /\ DOMAIN queue = {}
  BY <1>1 DEF Elements
<1>3. queue \in Seq(Client) /\ Len(queue) = 0
  BY <1>1
<1>4. \A c \in Client : conn[c] = "away"
  BY <1>1
<1>5. 0 \in 0..MaxSize /\ 0 <= Backlog
  BY ServerAssumption
<1>6. { c \in Client : conn[c] = "queued" } = {}
  BY <1>4
<1>7. conn \in [Client -> {"away", "queued", "served"}]
  BY <1>1
<1>8. QED
  BY <1>1, <1>2, <1>3, <1>4, <1>5, <1>6, <1>7 DEF ServerTypeOK, Loop

(* Who ends, or fails, has nobody waiting and nobody open.                 *)
LEMMA ShutKeepsTypes ==
    ASSUME ServerTypeOK, NEW how \in {"ended", "failed"}, Shut(how)
    PROVE  ServerTypeOK'
<1>1. /\ queue' = << >> /\ conn' = [c \in Client |-> "away"] /\ at' = how
      /\ stop' = stop /\ received' = received /\ whole' = whole
  BY DEF Shut, request
<1>2. Elements' = {} /\ DOMAIN queue' = {}
  BY <1>1 DEF Elements
<1>3. queue' \in Seq(Client) /\ Len(queue') = 0
  BY <1>1
<1>4. \A c \in Client : conn'[c] = "away"
  BY <1>1
<1>5. { c \in Client : conn'[c] = "queued" } = {}
  BY <1>4
<1>6. conn' \in [Client -> {"away", "queued", "served"}]
  BY <1>1
<1>7. Len(queue') <= Backlog
  BY <1>3, ServerAssumption
<1>8. QED
  BY <1>1, <1>2, <1>3, <1>4, <1>5, <1>6, <1>7 DEF ServerTypeOK, Loop

(* The client accepted is the first in the queue, and only there.          *)
LEMMA AcceptKeepsTypes ==
    ASSUME ServerTypeOK, Accept
    PROVE  ServerTypeOK'
<1> DEFINE first == Head(queue)
<1>1. /\ queue \in Seq(Client) /\ queue # << >> /\ Len(queue) \in Nat
      /\ Len(queue) <= Backlog /\ DOMAIN queue = 1..Len(queue)
  BY DEF ServerTypeOK, Accept
<1>2. /\ first = queue[1] /\ 1 \in DOMAIN queue /\ first \in Client
      /\ queue' \in Seq(Client) /\ Len(queue') = Len(queue) - 1
      /\ DOMAIN queue' = 1..Len(queue) - 1
      /\ \A i \in DOMAIN queue' : queue'[i] = queue[i + 1]
  BY <1>1 DEF Accept
<1>3. /\ conn' = [conn EXCEPT ![first] = "served"] /\ at = "accept" /\ at' = "recv"
      /\ received' = 0 /\ whole' = FALSE /\ stop' = stop
  BY DEF Accept
<1> HIDE DEF first
<1>4. Elements' = Elements \ {first}
  <2>1. ASSUME NEW c \in Elements, c # first
        PROVE  c \in Elements'
    <3>1. PICK i \in DOMAIN queue : queue[i] = c
      BY <2>1 DEF Elements
    <3>2. i - 1 \in DOMAIN queue' /\ (i - 1) + 1 = i
      BY <1>1, <1>2, <2>1, <3>1
    <3>3. queue'[i - 1] = c
      BY <1>2, <3>1, <3>2
    <3>4. QED
      BY <3>2, <3>3 DEF Elements
  <2>2. ASSUME NEW i \in DOMAIN queue'
        PROVE  queue'[i] \in Elements /\ queue'[i] # first
    <3>1. i + 1 \in DOMAIN queue /\ i + 1 # 1 /\ queue'[i] = queue[i + 1]
      BY <1>1, <1>2
    <3>2. QED
      BY <1>2, <3>1 DEF ServerTypeOK, Elements
  <2>3. Elements' = { queue'[i] : i \in DOMAIN queue' }
    BY DEF Elements
  <2>4. QED
    BY <2>1, <2>2, <2>3, Zenon
<1>5. \A i, j \in DOMAIN queue' : queue'[i] = queue'[j] => i = j
  <2>1. SUFFICES ASSUME NEW i \in DOMAIN queue', NEW j \in DOMAIN queue',
                        queue'[i] = queue'[j]
                 PROVE  i = j
    OBVIOUS
  <2>2. /\ i + 1 \in DOMAIN queue /\ j + 1 \in DOMAIN queue
        /\ queue[i + 1] = queue[j + 1] /\ i \in Int /\ j \in Int
    BY <1>1, <1>2, <2>1
  <2>3. i + 1 = j + 1
    BY <2>2 DEF ServerTypeOK
  <2>4. QED
    BY <2>2, <2>3
<1>6. /\ conn \in [Client -> {"away", "queued", "served"}]
      /\ \A c \in Client : conn[c] # "served"
      /\ Elements = { c \in Client : conn[c] = "queued" }
  BY <1>3 DEF ServerTypeOK
<1>7. /\ conn' \in [Client -> {"away", "queued", "served"}]
      /\ conn'[first] = "served"
      /\ \A c \in Client : c # first => conn'[c] = conn[c]
  BY <1>2, <1>3, <1>6
<1>8. Elements' = { c \in Client : conn'[c] = "queued" }
  BY <1>4, <1>6, <1>7
<1>9. 0 \in 0..MaxSize /\ Len(queue') <= Backlog
  BY <1>1, <1>2, ServerAssumption
<1>10. /\ \A c, d \in Client : conn'[c] = "served" /\ conn'[d] = "served" => c = d
       /\ \E c \in Client : conn'[c] = "served"
  BY <1>2, <1>6, <1>7
<1>11. QED
  BY <1>2, <1>3, <1>5, <1>7, <1>8, <1>9, <1>10 DEF ServerTypeOK, Loop

(* Whoever comes was neither waiting nor served.                           *)
LEMMA ConnectKeepsTypes ==
    ASSUME ServerTypeOK, NEW c \in Client, Connect(c)
    PROVE  ServerTypeOK'
<1>1. /\ queue \in Seq(Client) /\ Len(queue) \in Nat /\ Len(queue) < Backlog
      /\ DOMAIN queue = 1..Len(queue) /\ Backlog \in Nat
      /\ conn \in [Client -> {"away", "queued", "served"}] /\ conn[c] = "away"
      /\ conn' = [conn EXCEPT ![c] = "queued"] /\ queue' = Append(queue, c)
      /\ at' = at /\ stop' = stop /\ received' = received /\ whole' = whole
  BY ServerAssumption DEF ServerTypeOK, Connect, request
<1>2. /\ queue' \in Seq(Client) /\ Len(queue') = Len(queue) + 1
      /\ DOMAIN queue' = 1..Len(queue) + 1
      /\ \A i \in DOMAIN queue : queue'[i] = queue[i]
      /\ queue'[Len(queue) + 1] = c
      /\ queue' # << >>
  BY <1>1
<1>3. Elements = { d \in Client : conn[d] = "queued" }
  BY DEF ServerTypeOK
<1>4. \A i \in DOMAIN queue : queue[i] # c
  BY <1>1, <1>3 DEF Elements
<1>5. Elements' = Elements \union {c}
  <2>1. Elements' = { queue'[i] : i \in DOMAIN queue' }
    BY DEF Elements
  <2>2. DOMAIN queue' = DOMAIN queue \union {Len(queue) + 1}
    BY <1>1, <1>2
  <2>3. QED
    BY <1>2, <2>1, <2>2, Zenon DEF Elements
<1>6. \A i, j \in DOMAIN queue' : queue'[i] = queue'[j] => i = j
  <2>1. SUFFICES ASSUME NEW i \in DOMAIN queue', NEW j \in DOMAIN queue',
                        queue'[i] = queue'[j]
                 PROVE  i = j
    OBVIOUS
  <2>2. /\ i \in DOMAIN queue \/ i = Len(queue) + 1
        /\ j \in DOMAIN queue \/ j = Len(queue) + 1
    BY <1>1, <1>2
  <2>3. CASE i \in DOMAIN queue /\ j \in DOMAIN queue
    BY <1>2, <2>1, <2>3 DEF ServerTypeOK
  <2>4. QED
    BY <1>2, <1>4, <2>1, <2>2, <2>3
<1>7. /\ conn' \in [Client -> {"away", "queued", "served"}]
      /\ conn'[c] = "queued"
      /\ \A d \in Client : d # c => conn'[d] = conn[d]
  BY <1>1
<1>8. Elements' = { d \in Client : conn'[d] = "queued" }
  BY <1>3, <1>5, <1>7
<1>9. \A d \in Client : conn'[d] = "served" <=> conn[d] = "served"
  BY <1>1, <1>7
<1>10. Len(queue') <= Backlog
  BY <1>1, <1>2
<1>11. QED
  BY <1>1, <1>2, <1>6, <1>7, <1>8, <1>9, <1>10 DEF ServerTypeOK

(* Every step keeps queue and connections in accordance.                   *)
LEMMA StepKeepsServer ==
    ServerTypeOK /\ [ServerNext]_serverVars
        => ServerTypeOK'
<1> SUFFICES ASSUME ServerTypeOK, [ServerNext]_serverVars
             PROVE  ServerTypeOK'
  OBVIOUS
<1> USE DEF ServerTypeOK, Elements, Loop, request
<1>1. CASE Bind
  BY <1>1 DEF Bind
<1>2. CASE Listen
  BY <1>2 DEF Listen
<1>3. CASE End
  BY <1>3, ShutKeepsTypes DEF End
<1>4. CASE GoOn
  BY <1>4 DEF GoOn
<1>5. CASE EnterSelect
  BY <1>5 DEF EnterSelect
<1>6. CASE Ready
  BY <1>6 DEF Ready
<1>7. CASE SelectTimesOut
  BY <1>7 DEF SelectTimesOut
<1>8. CASE Accept
  BY <1>8, AcceptKeepsTypes
<1>9. CASE Receive
  <2>1. /\ received' = received + 1 /\ received < MaxSize /\ whole' \in BOOLEAN
        /\ UNCHANGED <<at, stop, queue, conn>>
    BY <1>9 DEF Receive, Reads
  <2>2. received' \in 0..MaxSize
    BY <2>1, ServerAssumption
  <2>3. QED
    BY <2>1, <2>2
<1>10. CASE StopReceiving
  BY <1>10 DEF StopReceiving
<1>11. CASE Respond
  <2>1. /\ conn' = [c \in Client |-> IF conn[c] = "served" THEN "away" ELSE conn[c]]
        /\ at' = "check" /\ UNCHANGED <<stop, queue, received, whole>>
    BY <1>11 DEF Respond
  <2>2. /\ conn' \in [Client -> {"away", "queued", "served"}]
        /\ \A c \in Client : /\ conn'[c] # "served"
                             /\ conn'[c] = "queued" <=> conn[c] = "queued"
    BY <2>1
  <2>3. QED
    BY <2>1, <2>2
<1>12. CASE Fail
  BY <1>12, ShutKeepsTypes DEF Fail
<1>13. ASSUME NEW c \in Client, Connect(c)
       PROVE  ServerTypeOK'
  BY <1>13, ConnectKeepsTypes
<1>14. CASE Signal
  BY <1>14 DEF Signal
<1>15. CASE RestartServer
  BY <1>15 DEF RestartServer
<1>16. CASE UNCHANGED serverVars
  BY <1>16 DEF serverVars
<1>17. QED
  BY <1>1, <1>2, <1>3, <1>4, <1>5, <1>6, <1>7, <1>8, <1>9, <1>10, <1>11, <1>12,
     <1>13, <1>14, <1>15, <1>16
     DEF ServerNext, Run

(* At most one client is open, exactly while it is read from or answered,  *)
(* and the queue is of those that wait, each of them once (run and         *)
(* serveClient, which closes on every path).                               *)
THEOREM ServerTypeCorrect == ServerSpec => []ServerTypeOK
<1>1. QED
  BY InitServer, StepKeepsServer, PTL DEF ServerSpec

-----------------------------------------------------------------------------
(* The page                                                                *)

(* The invariant behind the types: a fetch is only ever answered with a    *)
(* document in which there is a master to show.                            *)
PageInv ==
    \A k \in Slot :
        refreshes[k].phase = "fulfilled" => refreshes[k].doc # NoDocument

(* At the start the page knows nothing, and no fetch is under way.         *)
LEMMA InitPage ==
    PageInit => PageTypeOK /\ PageInv
<1> SUFFICES ASSUME PageInit
             PROVE  PageTypeOK /\ PageInv
  OBVIOUS
<1> DEFINE start == Refresh("idle", NoDocument)
<1>1. /\ published = NoDocument /\ masters = NoDocument
      /\ refreshes = [k \in Slot |-> start]
      /\ selectedMaster = 0 /\ lastTimestamp = None /\ age = 0 /\ eventsOf = None
      /\ shown = Blank
  BY DEF PageInit
<1>2. /\ start \in [phase : Phase, doc : Document \union {NoDocument}]
      /\ start.phase = "idle"
  BY DEF Refresh, Phase
<1> HIDE DEF start
<1>3. 0 \in 0..Limit + 1
  BY PageAssumption
<1>4. QED
  BY <1>1, <1>2, <1>3 DEF PageTypeOK, PageInv, Blank, Picture

(* A document names a master, and has a timestamp for those it names.      *)
LEMMA DocumentFacts ==
    ASSUME NEW doc \in Document
    PROVE  /\ doc # NoDocument
           /\ Available(doc) \subseteq Master /\ Available(doc) # {}
           /\ \A m \in Available(doc) : doc[m] \in Stamp
BY DEF Document, NoDocument, Available

(* Among the masters of a document there is a first one.                   *)
LEMMA FirstIsAvailable ==
    ASSUME NEW doc \in Document
    PROVE  First(doc) \in Available(doc)
<1> DEFINE Less == { ss \in Nat \X Nat : ss[1] < ss[2] }
<1>1. /\ Available(doc) \in SUBSET Nat /\ Available(doc) # {}
  BY DocumentFacts, PageAssumption
<1>2. IsWellFoundedOn(Less, Nat)
  BY NatLessThanWellFounded, Zenon DEF OpToRel
<1>3. \A m, n \in Nat : m < n => <<m, n>> \in Less
  OBVIOUS
<1> HIDE DEF Less
<1>4. PICK n \in Available(doc) :
            \A m \in Available(doc) : <<m, n>> \notin Less
  BY <1>1, <1>2, WFMin
<1>5. \A m \in Available(doc) : n <= m
  <2>1. SUFFICES ASSUME NEW m \in Available(doc), ~(n <= m)
                 PROVE  FALSE
    OBVIOUS
  <2>2. m \in Nat /\ n \in Nat
    BY <1>1
  <2>3. m < n
    BY <2>1, <2>2
  <2>4. QED
    BY <1>3, <1>4, <2>1, <2>2, <2>3, Zenon
<1>6. \E m \in Available(doc) : \A l \in Available(doc) : m <= l
  BY <1>5
<1>7. QED
  BY <1>6, Zenon DEF First

(* Whatever is selected before, a master of the document is after.         *)
LEMMA SelectionIsAvailable ==
    ASSUME NEW doc \in Document
    PROVE  SelectionIn(doc) \in Available(doc)
BY FirstIsAvailable DEF SelectionIn

(* A document stays one when a master gets another timestamp.              *)
LEMMA StampedIsDocument ==
    ASSUME NEW doc \in Document \union {NoDocument},
           NEW m \in Master, NEW t \in Stamp
    PROVE  [doc EXCEPT ![m] = t] \in Document
<1>1. doc \in [Master -> Stamp \union {None}] /\ t # None
  BY PageAssumption DEF Document, NoDocument
<1>2. /\ [doc EXCEPT ![m] = t] \in [Master -> Stamp \union {None}]
      /\ [doc EXCEPT ![m] = t][m] = t
  BY <1>1
<1>3. QED
  BY <1>1, <1>2 DEF Document, Available

(* A refresh changes its phase, or ends.                                   *)
LEMMA RefreshKeepsTypes ==
    ASSUME PageTypeOK, PageInv, NEW k \in Slot,
           NEW r \in [phase : Phase, doc : Document \union {NoDocument}],
           r.phase = "fulfilled" => r.doc # NoDocument,
           refreshes' = [refreshes EXCEPT ![k] = r]
    PROVE  /\ refreshes' \in [Slot ->
                [phase : Phase, doc : Document \union {NoDocument}]]
           /\ PageInv'
<1>1. refreshes \in [Slot ->
        [phase : Phase, doc : Document \union {NoDocument}]]
  BY DEF PageTypeOK
<1>2. Slot' = Slot /\ NoDocument' = NoDocument
  BY DEF Slot, NoDocument
<1>3. /\ refreshes'[k] = r
      /\ \A j \in Slot : j # k => refreshes'[j] = refreshes[j]
  BY <1>1
<1>4. QED
  BY <1>1, <1>2, <1>3 DEF PageInv

(* A refresh that starts or fails keeps the document it has.               *)
LEMMA PhaseKeepsTypes ==
    ASSUME PageTypeOK, PageInv, NEW k \in Slot, NEW p \in Phase,
           p # "fulfilled", refreshes' = [refreshes EXCEPT ![k].phase = p]
    PROVE  /\ refreshes' \in [Slot ->
                [phase : Phase, doc : Document \union {NoDocument}]]
           /\ PageInv'
<1> DEFINE r == [refreshes[k] EXCEPT !.phase = p]
<1>1. /\ r \in [phase : Phase, doc : Document \union {NoDocument}]
      /\ r.phase = p
  BY DEF PageTypeOK
<1>2. refreshes' = [refreshes EXCEPT ![k] = r]
  BY Zenon
<1> HIDE DEF r
<1>3. QED
  BY <1>1, <1>2, RefreshKeepsTypes

(* A refresh is started by the timer or by the operator.                   *)
LEMMA StartKeepsTypes ==
    ASSUME PageTypeOK, PageInv, StartRefresh
    PROVE  /\ refreshes' \in [Slot ->
                [phase : Phase, doc : Document \union {NoDocument}]]
           /\ PageInv'
<1>1. PICK k \in Slot : refreshes' = [refreshes EXCEPT ![k].phase = "pending"]
  BY DEF StartRefresh
<1>2. "pending" \in Phase
  BY DEF Phase
<1>3. QED
  BY <1>1, <1>2, PhaseKeepsTypes

(* What the page knows when a refresh settles: it is consistent whether an *)
(* answer was accepted or none came.                                       *)
LEMMA SettleKeepsTypes ==
    ASSUME PageTypeOK, PageInv, NEW k \in Slot, NEW got \in BOOLEAN,
           Settle(k, got)
    PROVE  PageTypeOK' /\ PageInv'
<1> DEFINE blank == Refresh("idle", NoDocument)
<1>1. /\ refreshes' = [refreshes EXCEPT ![k] = blank]
      /\ eventsOf' \in {eventsOf, selectedMaster'}
      /\ Render
      /\ published' = published
  BY DEF Settle, EventsAfter
<1>2. /\ blank \in [phase : Phase, doc : Document \union {NoDocument}]
      /\ blank.phase = "idle"
  BY DEF Refresh, Phase
<1> HIDE DEF blank
<1>3. /\ refreshes' \in [Slot ->
            [phase : Phase, doc : Document \union {NoDocument}]]
      /\ PageInv'
  BY <1>1, <1>2, RefreshKeepsTypes
<1>4. /\ masters' \in Document \union {NoDocument}
      /\ selectedMaster' \in Master \union {0}
      /\ lastTimestamp' \in Stamp \union {None}
      /\ age' \in 0..Limit + 1
      /\ masters' # NoDocument => selectedMaster' \in Available(masters')
  <2>1. CASE refreshes[k].phase = "fulfilled" /\ Accepted(refreshes[k].doc)
    <3> DEFINE doc == refreshes[k].doc
    <3>1. doc \in Document
      BY <2>1 DEF PageTypeOK, PageInv
    <3>2. /\ masters' = doc
          /\ selectedMaster' = SelectionIn(doc)
          /\ lastTimestamp' = doc[SelectionIn(doc)]
          /\ age' \in {0, age}
      BY <2>1, Zenon DEF Accepted
    <3> HIDE DEF doc
    <3>3. SelectionIn(doc) \in Available(doc)
      BY <3>1, SelectionIsAvailable
    <3>4. age' \in 0..Limit + 1
      BY <3>2, PageAssumption DEF PageTypeOK
    <3>5. QED
      BY <3>1, <3>2, <3>3, <3>4, DocumentFacts
  <2>2. CASE refreshes[k].phase = "rejected" /\ Rejected
    BY <2>2 DEF Rejected, PageTypeOK
  <2>3. QED
    BY <2>1, <2>2 DEF Settle
<1>5. eventsOf' \in Master \union {0, None}
  BY <1>1, <1>4 DEF PageTypeOK
<1>6. /\ shown' \in [master : Master \union {None}, stamp : Stamp \union {None},
                    stale : BOOLEAN, events : Master \union {0, None}]
      /\ shown'.master = None <=> shown'.stamp = None
  <2>1. CASE masters' = NoDocument
    BY <1>1, <1>5, <2>1 DEF Render, Picture
  <2>2. CASE masters' # NoDocument
    <3>1. /\ masters' \in Document
          /\ selectedMaster' \in Master /\ masters'[selectedMaster'] \in Stamp
      BY <1>4, <2>2, DocumentFacts
    <3>2. shown' = Picture(selectedMaster', masters'[selectedMaster'], age', eventsOf')
      BY <1>1, <2>2 DEF Render
    <3>3. selectedMaster' # None /\ masters'[selectedMaster'] # None
      BY <3>1, PageAssumption
    <3>4. QED
      BY <1>5, <3>1, <3>2, <3>3 DEF Picture
  <2>3. QED
    BY <2>1, <2>2
<1>7. published' \in Document \union {NoDocument}
  BY <1>1 DEF PageTypeOK
<1>8. QED
  BY <1>3, <1>4, <1>5, <1>6, <1>7 DEF PageTypeOK

(* Every step of the daemon, of a fetch and of the page keeps what is      *)
(* known consistent.                                                       *)
LEMMA StepKeepsPage ==
    PageTypeOK /\ PageInv /\ [PageNext]_pageVars
        => PageTypeOK' /\ PageInv'
<1> SUFFICES ASSUME PageTypeOK, PageInv, [PageNext]_pageVars
             PROVE  PageTypeOK' /\ PageInv'
  OBVIOUS
<1>1. ASSUME NEW m \in Master, PublishMaster(m)
      PROVE  PageTypeOK' /\ PageInv'
  <2>1. PICK t \in Stamp : published' = [published EXCEPT ![m] = t]
    BY <1>1 DEF PublishMaster
  <2>2. published' \in Document
    BY <2>1, StampedIsDocument DEF PageTypeOK
  <2>3. QED
    BY <1>1, <2>2 DEF PublishMaster, page, PageTypeOK, PageInv
<1>2. ASSUME NEW m \in Master, Choose(m)
      PROVE  PageTypeOK' /\ PageInv'
  <2>1. /\ selectedMaster' = m /\ m \in Available(masters)
        /\ lastTimestamp' = None /\ age' = 0 /\ StartRefresh
        /\ UNCHANGED <<published, masters, eventsOf, shown>>
    BY <1>2 DEF Choose
  <2>2. 0 \in 0..Limit + 1
    BY PageAssumption
  <2>3. QED
    BY <2>1, <2>2, StartKeepsTypes DEF PageTypeOK
<1>3. CASE DaemonRestarts
  <2>1. PICK m \in Master, t \in Stamp :
            published' = [NoDocument EXCEPT ![m] = t]
    BY <1>3 DEF DaemonRestarts
  <2>2. published' \in Document
    BY <2>1, StampedIsDocument
  <2>3. QED
    BY <1>3, <2>2 DEF DaemonRestarts, page, PageTypeOK, PageInv
<1>4. CASE Tick
  <2>1. /\ age' = (IF age > Limit THEN age ELSE age + 1) /\ StartRefresh
        /\ UNCHANGED <<published, masters, selectedMaster, lastTimestamp, eventsOf, shown>>
    BY <1>4 DEF Tick
  <2>2. age' \in 0..Limit + 1
    BY <2>1, PageAssumption DEF PageTypeOK
  <2>3. QED
    BY <2>1, <2>2, StartKeepsTypes DEF PageTypeOK
<1>5. ASSUME NEW k \in Slot, Answer(k)
      PROVE  PageTypeOK' /\ PageInv'
  <2> DEFINE r == Refresh("fulfilled", published)
  <2>1. refreshes' = [refreshes EXCEPT ![k] = r] /\ published # NoDocument
    BY <1>5 DEF Answer
  <2>2. /\ r \in [phase : Phase, doc : Document \union {NoDocument}]
        /\ r.doc = published
    BY DEF Refresh, Phase, PageTypeOK
  <2> HIDE DEF r
  <2>3. /\ refreshes' \in [Slot ->
              [phase : Phase, doc : Document \union {NoDocument}]]
        /\ PageInv'
    BY <2>1, <2>2, RefreshKeepsTypes
  <2>4. QED
    BY <1>5, <2>3 DEF Answer, page, PageTypeOK
<1>6. ASSUME NEW k \in Slot, FetchFails(k)
      PROVE  PageTypeOK' /\ PageInv'
  <2>1. refreshes' = [refreshes EXCEPT ![k].phase = "rejected"]
    BY <1>6 DEF FetchFails
  <2>2. "rejected" \in Phase
    BY DEF Phase
  <2>3. /\ refreshes' \in [Slot ->
              [phase : Phase, doc : Document \union {NoDocument}]]
        /\ PageInv'
    BY <2>1, <2>2, PhaseKeepsTypes
  <2>4. QED
    BY <1>6, <2>3 DEF FetchFails, page, PageTypeOK
<1>7. ASSUME NEW k \in Slot, NEW got \in BOOLEAN, Settle(k, got)
      PROVE  PageTypeOK' /\ PageInv'
  BY <1>7, SettleKeepsTypes
<1>8. CASE UNCHANGED pageVars
  BY <1>8 DEF pageVars, page, PageTypeOK, PageInv
<1>9. QED
  BY <1>1, <1>2, <1>3, <1>4, <1>5, <1>6, <1>7, <1>8 DEF PageNext

(* What is shown is of one master that the last document has, with the     *)
(* timestamp it has there, whatever is chosen, published and answered in   *)
(* whatever order (updateMasterSelector, before anything is rendered).     *)
THEOREM PageTypeCorrect == PageSpec => []PageTypeOK
<1>1. QED
  BY InitPage, StepKeepsPage, PTL DEF PageSpec

=============================================================================
