-------------------------- MODULE EventsFileProofs --------------------------
(***************************************************************************)
(* What lines of events.jsonl can look like after any number of crashes    *)
(* and failed writes.  The invariant says how the ids of the cells lie in  *)
(* the file: they grow, the last cell of a record is an "end" unless it    *)
(* was interrupted or is being written, nothing follows an "end" under the *)
(* same id, and after an "end" comes the first cell of another record.     *)
(***************************************************************************)
EXTENDS EventsFile, FiniteSetTheorems, TLAPS

(* What the handler is writing, and where it stands in it.                 *)
WritingInv ==
    /\ pc # "append" => at = 0
    /\ at < Len(Parts(NextKind(batch)))
    /\ at > 0 => /\ log # << >>
                 /\ log[Len(log)].id = begun + 1
                 /\ log[Len(log)].part = Parts(NextKind(batch))[at]
    /\ \A k \in 1..Len(log) : log[k].id <= IF at > 0 THEN begun + 1 ELSE begun

Ended(s, id) == \E m \in 1..Len(s) : s[m].id = id /\ s[m].part = "end"

(* How records lie in the file.                                            *)
LogInv ==
    /\ \A k, m \in 1..Len(log) : k <= m => log[k].id <= log[m].id
    /\ \A k, m \in 1..Len(log) :
            k < m /\ log[k].part = "end" => log[k].id < log[m].id
    /\ \A k \in 1..Len(log) :
            log[k].id <= begun => log[k].id \in torn \/ Ended(log, log[k].id)
    /\ \A k \in 2..Len(log) : log[k].part = "end" => log[k - 1].part = "close"

(* A record is three or four cells, the last an end after a close.         *)
LEMMA PartsFacts ==
    ASSUME NEW kind \in Kind
    PROVE  /\ Len(Parts(kind)) \in Nat /\ Len(Parts(kind)) > 2 /\ Len(Parts(kind)) <= 4
           /\ \A n \in 1..Len(Parts(kind)) :
                /\ Parts(kind)[n] \in Part
                /\ Parts(kind)[n] = "end" <=> n = Len(Parts(kind))
                /\ n = Len(Parts(kind)) - 1 => Parts(kind)[n] = "close"
<1>1. CASE kind = "root_cause"
  BY <1>1 DEF Parts, Part
<1>2. CASE kind # "root_cause"
  BY <1>2 DEF Parts, Part
<1>3. QED
  BY <1>1, <1>2

(* What is left of a batch, after a record or a failure, is a batch.       *)
LEMMA BatchFacts ==
    ASSUME NEW b \in Batch
    PROVE  NextKind(b) \in Kind /\ Rest(b) \in Batch /\ RestAfterFailure(b) \in Batch
<1>1. /\ b.events \in 0..MaxEvents /\ MaxEvents \in Nat
      /\ b.rootCause \in BOOLEAN /\ b.recovery \in BOOLEAN
      /\ b = [events |-> b.events, rootCause |-> b.rootCause, recovery |-> b.recovery]
  BY EventsAssumption DEF Batch
<1>2. NextKind(b) \in Kind
  BY DEF NextKind, Kind
<1>3. ASSUME NEW e \in 0..MaxEvents, NEW c \in Batch
      PROVE  [c EXCEPT !.events = e] \in Batch
  BY DEF Batch
<1>4. Rest(b) \in Batch
  <2>1. CASE b.events > 0
    <3>1. b.events - 1 \in 0..MaxEvents
      BY <1>1, <2>1
    <3>2. QED
      BY <2>1, <3>1, <1>3 DEF Rest
  <2>2. CASE ~(b.events > 0)
    BY <1>1, <2>2 DEF Rest, Batch
  <2>3. QED
    BY <2>1, <2>2
<1>5. RestAfterFailure(b) \in Batch
  BY <1>1, <1>3, <1>4 DEF RestAfterFailure
<1>6. QED
  BY <1>2, <1>4, <1>5

(* Nothing to append is a batch too.                                       *)
LEMMA NoBatchType == NoBatch \in Batch
BY EventsAssumption DEF Batch, NoBatch

(* What the arithmetic below needs to know of the log.                     *)
LEMMA Ids == TypeOK => /\ \A k \in 1..Len(log) : log[k].id \in Nat
                       /\ begun \in Nat /\ at \in Nat /\ Len(log) \in Nat
<1> SUFFICES ASSUME TypeOK
             PROVE  /\ \A k \in 1..Len(log) : log[k].id \in Nat
                    /\ begun \in Nat /\ at \in Nat /\ Len(log) \in Nat
  OBVIOUS
<1>1. log \in Seq(Cell) /\ begun \in Nat /\ at \in Nat
  BY DEF TypeOK
<1>2. \A k \in 1..Len(log) : log[k] \in Cell
  BY <1>1
<1>3. \A c \in Cell : c.id \in Nat
  BY DEF Cell
<1>4. QED
  BY <1>1, <1>2, <1>3

(* An empty log is in order.                                               *)
LEMMA InitLog == Init => TypeOK /\ WritingInv /\ LogInv
<1> SUFFICES ASSUME Init PROVE TypeOK /\ WritingInv /\ LogInv
  OBVIOUS
<1>1. NextKind(batch) \in Kind
  BY NoBatchType, BatchFacts DEF Init
<1>2. QED
  BY <1>1, NoBatchType, PartsFacts DEF Init, TypeOK, WritingInv, LogInv

-----------------------------------------------------------------------------

(* A cell is appended: the log grows, and so do the ids in it.             *)
LEMMA AppendKeeps ==
    ASSUME TypeOK, WritingInv, LogInv, AppendCell
    PROVE  TypeOK' /\ WritingInv' /\ LogInv'
<1> DEFINE kind == NextKind(batch)
           cell == [id |-> begun + 1, kind |-> kind, part |-> Parts(kind)[at + 1]]
<1>1. kind \in Kind /\ Rest(batch) \in Batch
  BY BatchFacts DEF TypeOK
<1>2. /\ Len(Parts(kind)) \in Nat /\ Len(Parts(kind)) > 2 /\ Len(Parts(kind)) <= 4
      /\ at + 1 \in 1..Len(Parts(kind))
      /\ cell \in Cell
      /\ cell.part = "end" <=> at + 1 = Len(Parts(kind))
  BY <1>1, PartsFacts DEF TypeOK, WritingInv, Cell
<1>3. cell.id = begun + 1 /\ cell.part = Parts(kind)[at + 1]
  OBVIOUS
<1>4. /\ log' = Append(log, cell) /\ torn' = torn /\ pc = "append"
      /\ \/ /\ at + 1 < Len(Parts(kind)) /\ at' = at + 1
            /\ pc' = pc /\ batch' = batch /\ begun' = begun
         \/ /\ at + 1 = Len(Parts(kind)) /\ at' = 0
            /\ batch' = Rest(batch) /\ begun' = begun + 1
            /\ pc' \in {"idle", "append"}
  BY DEF AppendCell, NextRecord
<1> HIDE DEF cell, kind
<1>5. /\ log' \in Seq(Cell) /\ Len(log') = Len(log) + 1
      /\ log'[Len(log')] = cell
      /\ \A k \in 1..Len(log) : log'[k] = log[k]
  BY <1>2, <1>4 DEF TypeOK
<1>6. TypeOK'
  <2>1. begun' \in Nat /\ at' \in 0..3
    BY <1>2, <1>4, Ids
  <2>2. batch' \in Batch /\ pc' \in {"idle", "append", "down"} /\ torn' \subseteq Nat
    BY <1>1, <1>4 DEF TypeOK
  <2>3. QED
    BY <2>1, <2>2, <1>5 DEF TypeOK
<1>9. \A k \in 1..Len(log') : log'[k].id <= begun + 1
  <2>1. \A k \in 1..Len(log) : log[k].id <= begun + 1
    BY Ids DEF WritingInv
  <2>2. QED
    BY <2>1, <1>3, <1>5, Ids
<1>7. WritingInv'
  <2>1. CASE at + 1 < Len(Parts(kind))
    <3>1. at' = at + 1 /\ batch' = batch /\ begun' = begun /\ pc' = "append"
      BY <2>1, <1>4
    <3>2. \A k \in 1..Len(log') : log'[k].id <= begun + 1
      BY <1>9
    <3>3. log' # << >>
      BY <1>5 DEF TypeOK
    <3>4. log'[Len(log')].id = begun' + 1 /\ log'[Len(log')].part = Parts(kind)[at']
      BY <3>1, <1>3, <1>5
    <3>5. QED
      BY <2>1, <3>1, <3>2, <3>3, <3>4, Ids DEF WritingInv, kind
  <2>2. CASE at + 1 = Len(Parts(kind))
    <3>1. at' = 0 /\ batch' = Rest(batch) /\ begun' = begun + 1
      BY <2>2, <1>4, <1>2 DEF TypeOK
    <3>2. \A k \in 1..Len(log') : log'[k].id <= begun + 1
      BY <1>9
    <3>3. Len(Parts(NextKind(batch'))) > 0
      BY <3>1, <1>1, BatchFacts, PartsFacts
    <3>4. QED
      BY <3>1, <3>2, <3>3 DEF WritingInv
  <2>3. QED
    BY <1>2, <2>1, <2>2 DEF TypeOK
<1>8. LogInv'
  <2>1. \A k, m \in 1..Len(log') : k <= m => log'[k].id <= log'[m].id
    <3>1. SUFFICES ASSUME NEW k \in 1..Len(log'), NEW m \in 1..Len(log'), k <= m
                   PROVE  log'[k].id <= log'[m].id
      OBVIOUS
    <3>2. CASE m \in 1..Len(log)
      <4>1. k \in 1..Len(log)
        BY <3>1, <3>2, Ids
      <4>2. QED
        BY <3>1, <3>2, <4>1, <1>5 DEF LogInv
    <3>3. CASE m = Len(log')
      BY <3>3, <1>3, <1>5, <1>9
    <3>4. QED
      BY <3>2, <3>3, <1>5, Ids
  <2>2. \A k, m \in 1..Len(log') :
            k < m /\ log'[k].part = "end" => log'[k].id < log'[m].id
    <3>1. SUFFICES ASSUME NEW k \in 1..Len(log), log[k].part = "end"
                   PROVE  log[k].id < begun + 1
      BY <1>3, <1>5 DEF TypeOK, LogInv
    <3>2. log[k].id \in Nat /\ begun \in Nat
      BY Ids
    <3>3. CASE at = 0
      BY <3>2, <3>3 DEF WritingInv
    <3>4. CASE at > 0
      <4>1. log[Len(log)].part # "end"
        BY <1>1, <1>2, <3>4, PartsFacts DEF WritingInv, TypeOK, kind
      <4>2. k < Len(log)
        BY <3>1, <4>1 DEF TypeOK
      <4>3. QED
        BY <3>1, <3>4, <4>2 DEF WritingInv, LogInv, TypeOK
    <3>5. QED
      BY <3>3, <3>4 DEF TypeOK
  <2>3. \A k \in 1..Len(log') :
            log'[k].id <= begun' => log'[k].id \in torn' \/ Ended(log', log'[k].id)
    <3>1. \A id : Ended(log, id) => Ended(log', id)
      BY <1>5 DEF Ended, TypeOK
    <3>2. SUFFICES ASSUME NEW k \in 1..Len(log'), log'[k].id = begun + 1,
                          begun' = begun + 1
                   PROVE  Ended(log', begun + 1)
      <4>1. SUFFICES ASSUME NEW k \in 1..Len(log'), log'[k].id <= begun',
                            log'[k].id # begun + 1
                     PROVE  log'[k].id \in torn' \/ Ended(log', log'[k].id)
        BY <1>4, <3>2 DEF TypeOK
      <4>2. k \in 1..Len(log) /\ log'[k] = log[k]
        BY <4>1, <1>3, <1>5 DEF TypeOK
      <4>3. log[k].id \in Nat /\ begun \in Nat
        BY <4>2, Ids
      <4>4. log[k].id <= begun
        BY <1>4, <4>1, <4>2, <4>3
      <4>5. QED
        BY <4>2, <4>4, <3>1, <1>4 DEF LogInv
    <3>3. cell.part = "end"
      BY <3>2, <1>2, <1>4 DEF TypeOK
    <3>4. QED
      BY <3>3, <1>3, <1>5 DEF Ended, TypeOK
  <2>4. \A k \in 2..Len(log') : log'[k].part = "end" => log'[k - 1].part = "close"
    <3>1. SUFFICES ASSUME Len(log) > 0, cell.part = "end"
                   PROVE  log[Len(log)].part = "close"
      BY <1>5 DEF TypeOK, LogInv
    <3>2. at > 0 /\ at = Len(Parts(kind)) - 1
      BY <3>1, <1>2, Ids
    <3>3. QED
      BY <3>2, <1>1, <1>2, PartsFacts DEF WritingInv, kind
  <2>5. QED
    BY <2>1, <2>2, <2>3, <2>4 DEF LogInv
<1>10. QED
  BY <1>6, <1>7, <1>8

(* The record under way is given up.                                       *)
LEMMA GivingUpKeeps ==
    ASSUME TypeOK, WritingInv, LogInv, log' = log, torn' = TornIn, at' = 0,
           batch' \in Batch, pc' \in {"idle", "append", "down"},
           begun' = begun + 1 \/ (at = 0 /\ begun' = begun)
    PROVE  TypeOK' /\ WritingInv' /\ LogInv'
<1>1. TypeOK'
  BY DEF TypeOK, TornIn
<1>2. /\ \A k \in 1..Len(log) : log[k].id \in Nat
      /\ begun \in Nat /\ at \in Nat
  BY Ids
<1>3. WritingInv'
  <2>1. Len(Parts(NextKind(batch'))) > 0
    BY BatchFacts, PartsFacts
  <2>2. \A k \in 1..Len(log) : log[k].id <= begun'
    BY <1>2 DEF WritingInv
  <2>3. QED
    BY <2>1, <2>2 DEF WritingInv
<1>4. ASSUME NEW k \in 1..Len(log)
      PROVE  log[k].id \in torn' \/ Ended(log, log[k].id)
  BY <1>2 DEF WritingInv, LogInv, TypeOK, TornIn
<1>5. LogInv'
  BY <1>4 DEF LogInv
<1>6. QED
  BY <1>1, <1>3, <1>5

(* Every step, among them crashes and failures, keeps the log in order.    *)
LEMMA StepKeepsLog ==
    TypeOK /\ WritingInv /\ LogInv /\ [Next]_vars => TypeOK' /\ WritingInv' /\ LogInv'
<1> SUFFICES ASSUME TypeOK, WritingInv, LogInv, [Next]_vars
             PROVE  TypeOK' /\ WritingInv' /\ LogInv'
  OBVIOUS
<1>1. ASSUME NEW b \in Batch, Handle(b)
      PROVE  TypeOK' /\ WritingInv' /\ LogInv'
  <2>1. at = 0 /\ Len(Parts(NextKind(b))) > 0
    BY <1>1, BatchFacts, PartsFacts DEF Handle, WritingInv
  <2>2. /\ log' = log /\ torn' = torn /\ at' = 0 /\ begun' = begun
        /\ batch' = b /\ pc' = "append" /\ at = 0
    BY <1>1, <2>1 DEF Handle
  <2>3. TypeOK'
    BY <2>2 DEF TypeOK
  <2>4. WritingInv'
    BY <2>1, <2>2 DEF WritingInv
  <2>5. LogInv'
    BY <2>2 DEF LogInv
  <2>6. QED
    BY <2>3, <2>4, <2>5
<1>2. CASE AppendCell
  BY <1>2, AppendKeeps
<1>3. CASE AppendFails
  BY <1>3, BatchFacts, GivingUpKeeps DEF AppendFails, NextRecord, TypeOK
<1>4. CASE Crash
  BY <1>4, NoBatchType, GivingUpKeeps DEF Crash, TypeOK
<1>5. CASE Restart
  BY <1>5 DEF Restart, TypeOK, WritingInv, LogInv
<1>6. CASE UNCHANGED vars
  BY <1>6 DEF vars, TypeOK, WritingInv, LogInv
<1>7. QED
  BY <1>1, <1>2, <1>3, <1>4, <1>5, <1>6 DEF Next

(* WritingInv and LogInv are invariants, whatever crashes or fails.        *)
THEOREM LogInvariant == Spec => [](TypeOK /\ WritingInv /\ LogInv)
<1>1. QED
  BY InitLog, StepKeepsLog, PTL DEF Spec

(* Types.                                                                  *)
THEOREM TypeCorrect == Spec => []TypeOK
BY LogInvariant, PTL

-----------------------------------------------------------------------------

(* A record that shares its line with a later one was interrupted.         *)
LEMMA SharingIsTorn ==
    ASSUME TypeOK, WritingInv, LogInv,
           NEW i \in 1..Len(log), NEW j \in 1..Len(log), IsLine(log, i, j),
           NEW k \in i..j, log[k].id # log[j].id
    PROVE  log[k].id \in torn
<1>1. /\ k \in 1..Len(log) /\ k <= j
      /\ log[k].id \in Nat /\ log[j].id \in Nat /\ begun \in Nat
  BY Ids
<1>2. log[k].id < log[j].id /\ log[k].id <= begun
  <2>1. log[k].id <= log[j].id
    BY <1>1 DEF LogInv
  <2>2. log[j].id <= begun + 1
    BY <1>1 DEF WritingInv
  <2>3. QED
    BY <1>1, <2>1, <2>2
<1>3. SUFFICES ASSUME NEW m \in 1..Len(log), log[m].id = log[k].id,
                      log[m].part = "end"
               PROVE  FALSE
  BY <1>1, <1>2 DEF LogInv, Ended
<1>4. m < j
  BY <1>1, <1>2, <1>3 DEF LogInv, TypeOK
<1>5. k <= m
  BY <1>1, <1>3 DEF LogInv, TypeOK
<1>6. m \in i..j
  BY <1>4, <1>5
<1>7. QED
  BY <1>3, <1>6 DEF IsLine

(* Interrupted appends spoil at most the next record (appendLine).         *)
THEOREM DamageLocal == Spec => []DamageIsLocal
<1>1. TypeOK /\ WritingInv /\ LogInv => DamageIsLocal
  BY SharingIsTorn DEF DamageIsLocal, LinesOf
<1>2. QED
  BY <1>1, LogInvariant, PTL

(* A line that ends with an inner object is the last and not ended.        *)
LEMMA InnerIsLast ==
    ASSUME TypeOK, LogInv,
           NEW i \in 1..Len(log), NEW j \in 1..Len(log), IsLine(log, i, j),
           log[j].part = "inner"
    PROVE  j = Len(log)
<1>1. SUFFICES ASSUME j # Len(log) PROVE FALSE
  OBVIOUS
<1>2. log[j + 1].part = "end" /\ j + 1 \in 2..Len(log) /\ (j + 1) - 1 = j
  BY <1>1, Ids DEF IsLine
<1>3. log[(j + 1) - 1].part = "close"
  BY <1>2 DEF LogInv
<1>4. QED
  BY <1>2, <1>3

(* Where each line begins: with the first cell of a record.                *)
StartInv ==
    \A m \in 1..Len(log) : log[m].part # "end" =>
        \E i \in 1..m : /\ i = 1 \/ log[i - 1].part = "end"
                        /\ log[i].part = "open"
                        /\ \A k \in i..m : log[k].part # "end"

(* After the end of a record the next cell is the first of another.        *)
LEMMA AppendKeepsStarts ==
    ASSUME TypeOK, WritingInv, StartInv, AppendCell
    PROVE  StartInv'
<1> DEFINE kind == NextKind(batch)
           cell == [id |-> begun + 1, kind |-> kind, part |-> Parts(kind)[at + 1]]
           n == Len(log)
<1>1. kind \in Kind /\ n \in Nat
  BY BatchFacts DEF TypeOK
<1>2. at = 0 => cell.part = "open"
  BY DEF Parts
<1>3. at > 0 => n > 0 /\ log[n].part # "end"
  <2>1. SUFFICES ASSUME at > 0 PROVE n > 0 /\ log[n].part # "end"
    OBVIOUS
  <2>2. at \in 1..Len(Parts(kind)) /\ at # Len(Parts(kind))
    BY <1>1, <2>1, PartsFacts DEF WritingInv, TypeOK
  <2>3. QED
    BY <1>1, <2>1, <2>2, PartsFacts DEF WritingInv, TypeOK
<1>4. cell \in Cell
  <2>1. at + 1 \in 1..Len(Parts(kind))
    BY <1>1, PartsFacts DEF WritingInv, TypeOK
  <2>2. Parts(kind)[at + 1] \in Part
    BY <1>1, <2>1, PartsFacts
  <2>3. QED
    BY <1>1, <2>2, Ids DEF Cell
<1>5. log' = Append(log, cell)
  BY DEF AppendCell
<1> HIDE DEF cell, kind
<1>6. /\ Len(log') = n + 1 /\ log'[n + 1] = cell
      /\ \A k \in 1..n : log'[k] = log[k]
  BY <1>4, <1>5 DEF TypeOK
<1>7. SUFFICES ASSUME NEW m \in 1..n + 1, log'[m].part # "end"
               PROVE  \E i \in 1..m : /\ i = 1 \/ log'[i - 1].part = "end"
                                     /\ log'[i].part = "open"
                                     /\ \A k \in i..m : log'[k].part # "end"
  BY <1>6 DEF StartInv
<1>8. ASSUME NEW p \in 1..n, log[p].part # "end"
      PROVE  \E i \in 1..p : /\ i = 1 \/ log'[i - 1].part = "end"
                            /\ log'[i].part = "open"
                            /\ \A k \in i..p : log'[k].part # "end"
  <2>1. PICK i \in 1..p : /\ i = 1 \/ log[i - 1].part = "end"
                         /\ log[i].part = "open"
                         /\ \A k \in i..p : log[k].part # "end"
    BY <1>8 DEF StartInv
  <2>2. /\ i \in 1..n /\ i # 1 => i - 1 \in 1..n
        /\ \A k \in i..p : k \in 1..n
    BY <1>1
  <2>3. /\ log'[i] = log[i] /\ i # 1 => log'[i - 1] = log[i - 1]
        /\ \A k \in i..p : log'[k] = log[k]
    BY <1>6, <2>2
  <2>4. QED
    BY <2>1, <2>3
<1>9. CASE m \in 1..n
  BY <1>6, <1>7, <1>8, <1>9
<1>10. CASE m = n + 1 /\ n > 0 /\ log[n].part # "end"
  <2>1. PICK i \in 1..n : /\ i = 1 \/ log'[i - 1].part = "end"
                         /\ log'[i].part = "open"
                         /\ \A k \in i..n : log'[k].part # "end"
    BY <1>1, <1>8, <1>10
  <2>2. \A k \in i..m : k \in i..n \/ k = m
    BY <1>1, <1>10
  <2>3. i \in 1..m
    BY <1>1, <1>10
  <2>4. QED
    BY <1>7, <2>1, <2>2, <2>3
<1>11. CASE m = n + 1 /\ (n = 0 \/ log[n].part = "end")
  <2>1. at = 0
    BY <1>1, <1>3, <1>11, Ids
  <2>2. log'[m].part = "open" /\ m \in 1..m /\ \A k \in m..m : k = m
    BY <1>1, <1>2, <1>6, <1>11, <2>1
  <2>3. m = 1 \/ log'[m - 1].part = "end"
    BY <1>1, <1>6, <1>11
  <2>4. QED
    BY <1>7, <2>2, <2>3
<1>12. QED
  BY <1>1, <1>7, <1>9, <1>10, <1>11

(* Lines go on beginning with first cells.                                 *)
LEMMA StepKeepsStarts ==
    TypeOK /\ WritingInv /\ StartInv /\ [Next]_vars => StartInv'
<1>1. StartInv /\ UNCHANGED log => StartInv'
  BY DEF StartInv
<1>2. [Next]_vars => AppendCell \/ UNCHANGED log
  BY DEF Next, vars, Handle, AppendFails, Crash, Restart
<1>3. QED
  BY <1>1, <1>2, AppendKeepsStarts

(* A line with an interrupted record is only among the last Limit ones as  *)
(* long as there are no more than Limit whole records after that record:   *)
(* all of these but the one that shares its line have lines of their own   *)
(* after it.                                                               *)
LEMMA SpoiltIsRecent ==
    ASSUME TypeOK, WritingInv, LogInv, StartInv,
           NEW l \in RecentEvents(log, Limit), NEW k \in l[1]..l[2]
    PROVE  Cardinality(WholeAfter(log[k].id)) <= Limit
<1> DEFINE n == Len(log)
           t == log[k].id
           Later == { m \in Served(log) : m[1] > l[1] }
           IsEnd(e, w) == log[e].id = w /\ log[e].part = "end"
           endOf == [w \in WholeAfter(t) |-> CHOOSE e \in 1..n : IsEnd(e, w)]
<1>1. /\ l[1] \in 1..n /\ l[2] \in l[1]..n /\ l \in Served(log)
      /\ \A j \in l[1]..l[2] : log[j].part # "end"
      /\ l[2] # n => log[l[2] + 1].part = "end"
      /\ Cardinality(Later) < Limit
  BY DEF RecentEvents, Served, LinesOf, IsLine
<1>2. /\ k \in 1..n /\ n \in Nat /\ t \in Nat /\ begun \in Nat /\ Limit \in Nat
      /\ \A j \in 1..n : log[j].id \in Nat
      /\ DOMAIN log = 1..n
  BY <1>1, Ids, EventsAssumption DEF TypeOK
<1>3. IsFiniteSet(Later) /\ Cardinality(Later) \in Nat
  <2>1. IsFiniteSet((1..n) \X (1..n))
    <3>1. 1 \in Int /\ n \in Int
      BY <1>2
    <3> HIDE DEF n
    <3>2. IsFiniteSet(1..n)
      BY <3>1, FS_Interval
    <3>3. QED
      BY <3>2, FS_Product
  <2>2. Later \in SUBSET ((1..n) \X (1..n))
    BY DEF Served, LinesOf
  <2>3. QED
    BY <2>1, <2>2, FS_Subset, FS_CardinalityType
<1>4. IsFiniteSet(WholeAfter(t)) /\ Cardinality(WholeAfter(t)) \in Nat
  <2>1. IsFiniteSet(t + 1..begun)
    <3>1. t + 1 \in Int /\ begun \in Int
      BY <1>2
    <3> HIDE DEF t
    <3>2. QED
      BY <3>1, FS_Interval
  <2>2. WholeAfter(t) \in SUBSET (t + 1..begun)
    BY DEF WholeAfter
  <2>3. QED
    BY <2>1, <2>2, FS_Subset, FS_CardinalityType
<1>5. ASSUME NEW w \in WholeAfter(t)
      PROVE  /\ endOf[w] \in 1..n /\ IsEnd(endOf[w], w)
             /\ endOf[w] > l[2]
  <2>1. w \in t + 1..begun /\ \E e \in 1..n : IsEnd(e, w)
    BY <1>2 DEF WholeAfter
  <2>2. endOf[w] = CHOOSE e \in 1..n : IsEnd(e, w)
    BY <1>5
  <2> HIDE DEF endOf
  <2>3. endOf[w] \in 1..n /\ IsEnd(endOf[w], w)
    BY <2>1, <2>2
  <2>4. ~(endOf[w] \in l[1]..l[2])
    BY <1>1, <2>3
  <2>5. ~(endOf[w] < l[1])
    <3>1. SUFFICES ASSUME endOf[w] < l[1] PROVE FALSE
      OBVIOUS
    <3>2. endOf[w] < k
      BY <1>1, <1>2, <2>3, <3>1
    <3>3. log[endOf[w]].id < log[k].id
      BY <1>2, <2>3, <3>2 DEF LogInv
    <3>4. QED
      BY <1>2, <2>1, <2>3, <3>3
  <2>6. QED
    BY <1>1, <1>2, <2>3, <2>4, <2>5
<1> HIDE DEF endOf, IsEnd
<1>6. CASE l[2] = n
  <2>1. WholeAfter(t) = {}
    BY <1>2, <1>5, <1>6
  <2>2. QED
    BY <1>2, <2>1, FS_EmptySet
<1>7. CASE l[2] # n
  <2> DEFINE x == l[2] + 1
             Own == WholeAfter(t) \ {log[x].id}
             lineOf == [w \in Own |-> CHOOSE p \in Later : p[2] = endOf[w] - 1]
  <2>1. x \in 1..n /\ log[x].part = "end" /\ x > l[1]
    BY <1>1, <1>2, <1>7
  <2>2. ASSUME NEW w \in Own
        PROVE  \E p \in Later : p[2] = endOf[w] - 1
    <3> DEFINE e == endOf[w]
    <3>1. e \in 1..n /\ log[e].id = w /\ log[e].part = "end" /\ e > l[2]
      BY <1>5, <2>2 DEF IsEnd
    <3>2. e # x
      BY <2>2, <3>1
    <3> HIDE DEF e
    <3>3. e > x /\ e \in 2..n /\ e - 1 \in 1..n /\ (e - 1) + 1 = e /\ x <= e - 1
      BY <1>1, <1>2, <2>1, <3>1, <3>2
    <3>4. log[e - 1].part = "close"
      BY <3>1, <3>3 DEF LogInv
    <3>5. PICK i \in 1..e - 1 : /\ i = 1 \/ log[i - 1].part = "end"
                               /\ log[i].part = "open"
                               /\ \A j \in i..e - 1 : log[j].part # "end"
      BY <3>3, <3>4 DEF StartInv
    <3>6. i > x
      BY <1>2, <2>1, <3>1, <3>3, <3>5
    <3>7. i \in 1..n /\ e - 1 \in i..n /\ i > l[1]
      BY <1>1, <1>2, <2>1, <3>1, <3>3, <3>6
    <3>8. IsLine(log, i, e - 1)
      BY <3>1, <3>3, <3>5, <3>7 DEF IsLine
    <3>9. <<i, e - 1>> \in Served(log)
      BY <3>3, <3>4, <3>5, <3>7, <3>8 DEF Served, LinesOf, LooksLikeCompleteObject
    <3>10. <<i, e - 1>> \in Later /\ <<i, e - 1>>[2] = e - 1
      BY <3>7, <3>9
    <3>11. QED
      BY <3>10 DEF e
  <2>3. ASSUME NEW w \in Own
        PROVE  lineOf[w] \in Later /\ lineOf[w][2] = endOf[w] - 1
    BY <2>2
  <2>4. ASSUME NEW v \in Own, NEW w \in Own, lineOf[v] = lineOf[w]
        PROVE  v = w
    <3> HIDE DEF lineOf
    <3>1. endOf[v] - 1 = endOf[w] - 1
      BY <2>3, <2>4
    <3>2. endOf[v] = endOf[w]
      BY <1>2, <1>5, <3>1
    <3>3. QED
      BY <1>5, <3>2 DEF IsEnd
  <2>5. lineOf \in Injection(Own, Later)
    <3>1. lineOf \in [Own -> Later]
      BY <2>3
    <3> HIDE DEF lineOf
    <3>2. QED
      BY <2>4, <3>1 DEF Injection, IsInjective
  <2>6. Cardinality(Own) <= Cardinality(Later)
    BY <1>3, <2>5, FS_Injection
  <2>7. /\ Cardinality(Own) \in Nat
        /\ Cardinality(WholeAfter(t)) <= Cardinality(Own) + 1
    <3> HIDE DEF t
    <3> DEFINE W == WholeAfter(t)
               w == log[x].id
    <3>1. IsFiniteSet(W) /\ Cardinality(W) \in Nat
      BY <1>4
    <3> HIDE DEF W, w, x
    <3>2. /\ IsFiniteSet(W \ {w})
          /\ Cardinality(W \ {w}) =
                IF w \in W THEN Cardinality(W) - 1 ELSE Cardinality(W)
      BY <3>1, FS_RemoveElement
    <3>3. Cardinality(W \ {w}) \in Nat
      BY <3>2, FS_CardinalityType
    <3>4. Cardinality(W) <= Cardinality(W \ {w}) + 1
      BY <3>1, <3>2, <3>3
    <3>5. QED
      BY <3>3, <3>4 DEF W, w
  <2>8. QED
    BY <1>1, <1>2, <1>3, <1>4, <2>6, <2>7
<1>8. QED
  BY <1>6, <1>7

(* Once more than Limit records are whole after each interrupted one, the  *)
(* answers to /api/events are arrays of records (readRecentEvents).        *)
THEOREM AnswersRecovered == Spec => []AnswersRecover
<1>1. ASSUME TypeOK, WritingInv, LogInv, StartInv
      PROVE  AnswersRecover
  <2>1. SUFFICES ASSUME \A id \in torn : Cardinality(WholeAfter(id)) > Limit,
                        log # << >> => log[Len(log)].part # "inner",
                        NEW l \in RecentEvents(log, Limit)
                 PROVE  IsRecord(log, l[1], l[2])
    BY DEF AnswersRecover, Parses
  <2>2. /\ l[1] \in 1..Len(log) /\ l[2] \in 1..Len(log)
        /\ IsLine(log, l[1], l[2])
        /\ log[l[1]].part = "open" /\ log[l[2]].part \in {"inner", "close"}
    BY <2>1 DEF RecentEvents, Served, LinesOf, LooksLikeCompleteObject
  <2>3. ASSUME NEW k \in l[1]..l[2] PROVE log[k].id \notin torn
    <3>1. SUFFICES ASSUME log[k].id \in torn PROVE FALSE
      OBVIOUS
    <3>2. Cardinality(WholeAfter(log[k].id)) <= Limit
      BY <1>1, SpoiltIsRecent
    <3>3. Cardinality(WholeAfter(log[k].id)) > Limit
      BY <2>1, <3>1
    <3>4. Cardinality(WholeAfter(log[k].id)) \in Nat
      <4>1. IsFiniteSet(log[k].id + 1..begun)
        <5>1. k \in 1..Len(log)
          BY <2>2 DEF IsLine
        <5>2. log[k].id + 1 \in Int /\ begun \in Int
          BY <1>1, <5>1, Ids DEF TypeOK
        <5>3. QED
          BY <5>2, FS_Interval
      <4>2. WholeAfter(log[k].id) \in SUBSET (log[k].id + 1..begun)
        BY DEF WholeAfter
      <4>3. QED
        BY <4>1, <4>2, FS_Subset, FS_CardinalityType
    <3>5. QED
      BY <3>2, <3>3, <3>4, EventsAssumption
  <2>4. l[1] \in l[1]..l[2]
    BY <2>2 DEF IsLine
  <2>5. \A k \in l[1]..l[2] : log[k].id = log[l[2]].id
    BY <1>1, <2>2, <2>3, SharingIsTorn
  <2>6. log[l[2]].part = "close"
    BY <1>1, <2>1, <2>2, InnerIsLast
  <2>7. QED
    BY <2>2, <2>4, <2>5, <2>6 DEF IsRecord
<1>2. Init => StartInv
  BY DEF Init, StartInv
<1>3. QED
  BY <1>1, <1>2, StepKeepsStarts, LogInvariant, PTL DEF Spec

=============================================================================
