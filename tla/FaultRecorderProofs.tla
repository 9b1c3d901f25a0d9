------------------------ MODULE FaultRecorderProofs -------------------------
(***************************************************************************)
(* Theorems of FaultRecorder, for every capacity, clock and bound.         *)
(***************************************************************************)
EXTENDS FaultRecorder, TLAPS

Box ==
    [ state    : BlackboxState,
      buffer   : Seq(Snapshot),
      trigger  : Event \union {NoEvent},
      recorded : Nat ]

(* Only the first event of a snapshot matters to the box, so EventsOf may  *)
(* leave out the others (Blackbox::trigger).                               *)
LEMMA LaterTriggersReturn ==
    ASSUME NEW b \in Box, NEW e, NEW f
    PROVE  Triggered(Triggered(b, e), f) = Triggered(b, e)
<1>1. Triggered(b, e).state # "RECORDING"
  BY DEF Triggered, Box
<1>2. QED
  BY <1>1 DEF Triggered

(* push while RECORDING keeps the newest Capacity snapshots in order.      *)
LEMMA RolledBuffer ==
    ASSUME NEW b \in Box, NEW s \in Snapshot, Len(b.buffer) <= Capacity,
           NEW m, m = Kept(Len(b.buffer) + 1)
    PROVE  /\ Rolled(b, s) = [b EXCEPT !.buffer = Rolled(b, s).buffer]
           /\ Rolled(b, s).buffer \in Seq(Snapshot)
           /\ Len(Rolled(b, s).buffer) = m
           /\ Rolled(b, s).buffer[m] = s
           /\ \A i \in 1..m - 1 :
                Rolled(b, s).buffer[i] = b.buffer[i + Len(b.buffer) + 1 - m]
<1> DEFINE r == Rolled(b, s)
           n == Len(b.buffer)
           grown == Append(b.buffer, s)
<1>1. b.buffer \in Seq(Snapshot) /\ n \in Nat
  BY DEF Box
<1>2. /\ grown \in Seq(Snapshot)
      /\ Len(grown) = n + 1
      /\ grown[n + 1] = s
      /\ \A i \in 1..n : grown[i] = b.buffer[i]
  BY <1>1
<1>3. r = [b EXCEPT !.buffer = IF Len(grown) > Capacity THEN Tail(grown) ELSE grown]
  BY DEF Rolled
<1>4. r.buffer = IF Len(grown) > Capacity THEN Tail(grown) ELSE grown
  BY <1>3 DEF Box
<1> HIDE DEF grown, r
<1>5. CASE n = Capacity
  <2>1. r.buffer = Tail(grown)
    BY <1>1, <1>2, <1>4, <1>5, CapacityAssumption
  <2>2. /\ Tail(grown) \in Seq(Snapshot)
        /\ Len(Tail(grown)) = n
        /\ \A i \in 1..n : Tail(grown)[i] = grown[i + 1]
    BY <1>1, <1>2, <1>5, CapacityAssumption
  <2>3. \A i \in 1..n - 1 : r.buffer[i] = b.buffer[i + 1]
    BY <1>1, <1>2, <2>1, <2>2
  <2>4. r.buffer[n] = s
    BY <1>1, <1>2, <1>5, <2>1, <2>2, CapacityAssumption
  <2>5. r = [b EXCEPT !.buffer = r.buffer]
    BY <1>3, <1>4
  <2>6. \A i \in 1..Capacity - 1 : r.buffer[i] = b.buffer[i + n + 1 - Capacity]
    <3>1. \A i \in 1..Capacity - 1 : i + n + 1 - Capacity = i + 1
      BY <1>1, <1>5
    <3>2. QED
      BY <1>5, <2>3, <3>1
  <2>7. r.buffer \in Seq(Snapshot) /\ Len(r.buffer) = Capacity
        /\ r.buffer[Capacity] = s
    BY <1>5, <2>1, <2>2, <2>4
  <2>8. m = Capacity
    BY <1>1, <1>5, CapacityAssumption DEF Kept
  <2>9. QED
    BY <2>5, <2>6, <2>7, <2>8 DEF r
<1>6. CASE n # Capacity
  <2>1. r.buffer = grown
    BY <1>1, <1>2, <1>4, <1>6, CapacityAssumption
  <2>2. r = [b EXCEPT !.buffer = r.buffer]
    BY <1>3, <1>4
  <2>3. m = n + 1
    BY <1>1, <1>6, CapacityAssumption DEF Kept
  <2>4. \A i \in 1..m - 1 : r.buffer[i] = b.buffer[i + n + 1 - m]
    <3>1. \A i \in 1..m - 1 : i \in 1..n /\ i + n + 1 - m = i
      BY <1>1, <2>3
    <3>2. QED
      BY <1>2, <2>1, <3>1
  <2>5. QED
    BY <1>1, <1>2, <2>1, <2>2, <2>3, <2>4 DEF r
<1>7. QED
  BY <1>5, <1>6

-----------------------------------------------------------------------------
(* The strengthening that makes ExactCapture inductive: the state of the   *)
(* box and its counter say how far the capture has come, and the snapshot  *)
(* with the first event is in the buffer.                                  *)
BoxInv ==
    /\ bb.state = "RECORDING" <=> firstAt = 0
    /\ bb.state = "RECORDING" => bb.recorded = 0
    /\ bb.state = "POST_FAULT_RECORDING" => bb.recorded = pushed - firstAt
    /\ firstAt # 0 => /\ bb.trigger \in Event
                      /\ bb.buffer[firstAt - First].ts = bb.trigger.ts

CaptureIInv == TypeOK /\ ExactCapture /\ BoxInv

(* What the arithmetic below needs to know of the state.                   *)
LEMMA Numbers ==
    ASSUME TypeOK
    PROVE  /\ Capacity \in Nat /\ Capacity > 0
           /\ PostFaultCapacity \in Nat /\ PostFaultCapacity > 0
           /\ pushed \in Nat /\ firstAt \in Nat /\ firstAt <= pushed
           /\ lastFault \in Nat /\ lastFault <= pushed
           /\ MaxSnapshots \in Nat
           /\ bb \in Box /\ bb.buffer \in Seq(Snapshot) /\ bb.recorded \in Nat
           /\ bb.state \in BlackboxState
BY CapacityAssumption, RecorderAssumption DEF TypeOK, Box

(* What the recorder sees of the events of a snapshot.                     *)
LEMMA EventsType ==
    ASSUME NEW ts \in Clock, NEW events \in EventsOf(ts)
    PROVE  /\ events.fault \in BOOLEAN
           /\ events.first \in Event \union {NoEvent}
           /\ events.first # NoEvent => events.first \in Event /\ events.first.ts = ts
           /\ events.fault => events.first # NoEvent
<1> DEFINE up == [type |-> "MASTER_LINK_UP", ts |-> ts]
           fault == [type |-> "FAULT", ts |-> ts]
<1>1. up \in Event /\ fault \in Event /\ up.ts = ts /\ fault.ts = ts
  BY DEF Event
<1> HIDE DEF up, fault
<1>2. \/ events = [first |-> NoEvent, fault |-> FALSE]
      \/ events = [first |-> up, fault |-> FALSE]
      \/ events = [first |-> up, fault |-> TRUE]
      \/ events = [first |-> fault, fault |-> TRUE]
  BY DEF EventsOf, NoEvents, up, fault
<1>3. up # NoEvent /\ fault # NoEvent
  BY <1>1, RecorderAssumption
<1>4. CASE events = [first |-> NoEvent, fault |-> FALSE]
  BY <1>4
<1>5. CASE events = [first |-> up, fault |-> FALSE]
  BY <1>1, <1>5
<1>6. CASE events = [first |-> up, fault |-> TRUE]
  BY <1>1, <1>3, <1>6
<1>7. CASE events = [first |-> fault, fault |-> TRUE]
  BY <1>1, <1>3, <1>7
<1>8. QED
  BY <1>2, <1>4, <1>5, <1>6, <1>7

(* What the first part of the handler does to the box, state by state.     *)
LEMMA HandleCases ==
    ASSUME TypeOK, NEW ts \in Clock, NEW events \in EventsOf(ts), Handle(ts, events)
    PROVE  LET s == [ordinal |-> pushed + 1, ts |-> ts]
           IN  /\ s \in Snapshot
               /\ pushed' = pushed + 1
               /\ pushed < MaxSnapshots
               /\ \/ /\ bb.state = "RECORDING" /\ events.first = NoEvent
                     /\ bb' = Rolled(bb, s)
                  \/ /\ bb.state = "RECORDING" /\ events.first # NoEvent
                     /\ bb' = [Rolled(bb, s) EXCEPT !.trigger = events.first,
                                            !.state = "POST_FAULT_RECORDING"]
                  \/ /\ bb.state = "POST_FAULT_RECORDING"
                     /\ bb' = PostFault(bb, s)
                  \/ /\ bb.state = "SAVING"
                     /\ bb' = bb
<1> DEFINE s == [ordinal |-> pushed + 1, ts |-> ts]
           after == TriggeredBy(Pushed(bb, s), events)
<1>1. /\ bb' = after
      /\ pushed' = pushed + 1
      /\ pushed < MaxSnapshots
  BY DEF Handle
<1>2. s \in Snapshot
  BY Numbers DEF Snapshot
<1>3. CASE bb.state = "RECORDING"
  <2>1. Pushed(bb, s) = Rolled(bb, s)
    BY <1>3 DEF Pushed
  <2>2. Rolled(bb, s).state = "RECORDING"
    BY <1>3, Numbers DEF Rolled, Box
  <2>3. QED
    BY <1>1, <1>2, <1>3, <2>1, <2>2 DEF TriggeredBy, Triggered
<1>4. CASE bb.state = "POST_FAULT_RECORDING"
  <2>1. Pushed(bb, s) = PostFault(bb, s)
    BY <1>4 DEF Pushed
  <2>2. PostFault(bb, s).state # "RECORDING"
    BY <1>4, Numbers DEF PostFault, Box
  <2>3. QED
    BY <1>1, <1>2, <1>4, <2>1, <2>2 DEF TriggeredBy, Triggered
<1>5. CASE bb.state = "SAVING"
  <2>1. Pushed(bb, s) = bb
    BY <1>5 DEF Pushed
  <2>2. QED
    BY <1>1, <1>2, <1>5, <2>1 DEF TriggeredBy, Triggered
<1>6. QED
  BY <1>3, <1>4, <1>5, Numbers DEF BlackboxState

(* The handler keeps the shape of the capture, state by state: a rolling   *)
(* window, ...                                                             *)
LEMMA RollingKeepsCapture ==
    ASSUME CaptureIInv, NEW ts \in Clock, NEW events \in EventsOf(ts),
           Handle(ts, events), bb.state = "RECORDING"
    PROVE  bb' \in Box /\ ExactCapture' /\ BoxInv'
<1> DEFINE s == [ordinal |-> pushed + 1, ts |-> ts]
           n == Len(bb.buffer)
           m == Kept(pushed + 1)
<1>1. /\ s \in Snapshot /\ s.ordinal = pushed + 1 /\ s.ts = ts
      /\ pushed' = pushed + 1
      /\ \/ events.first = NoEvent /\ bb' = Rolled(bb, s)
         \/ /\ events.first # NoEvent
            /\ bb' = [Rolled(bb, s) EXCEPT !.trigger = events.first,
                                           !.state = "POST_FAULT_RECORDING"]
  BY HandleCases DEF CaptureIInv
<1>2. firstAt = 0 /\ bb.recorded = 0 /\ n = Kept(pushed)
  BY Numbers DEF CaptureIInv, BoxInv, ExactCapture, First, Upto, Kept
<1>3. /\ \A i \in 1..n : bb.buffer[i].ordinal = pushed - n + i
      /\ n \in Nat /\ n <= Capacity /\ n <= pushed
  BY <1>2, Numbers DEF CaptureIInv, ExactCapture, First, Kept
<1>4. /\ m = IF n = Capacity THEN Capacity ELSE n + 1
      /\ m \in Nat /\ m > 0 /\ m <= pushed + 1
  BY <1>2, Numbers DEF CaptureIInv, Kept
<1> HIDE DEF n, m, s
<1>5. /\ Rolled(bb, s) = [bb EXCEPT !.buffer = Rolled(bb, s).buffer]
      /\ Rolled(bb, s).buffer \in Seq(Snapshot)
      /\ Len(Rolled(bb, s).buffer) = m
      /\ Rolled(bb, s).buffer[m] = s
      /\ \A i \in 1..m - 1 : Rolled(bb, s).buffer[i] = bb.buffer[i + n + 1 - m]
  <2>1. bb \in Box
    BY Numbers DEF CaptureIInv
  <2>2. Len(bb.buffer) <= Capacity /\ s \in Snapshot
    BY <1>1, <1>3 DEF n
  <2>3. m = Kept(Len(bb.buffer) + 1)
    BY <1>3, <1>4, Numbers DEF Kept, n, CaptureIInv
  <2>4. QED
    BY <2>1, <2>2, <2>3, RolledBuffer DEF n
<1>6. /\ bb'.buffer = Rolled(bb, s).buffer
      /\ bb'.recorded = 0
      /\ IF events.first = NoEvent
         THEN bb'.state = "RECORDING" /\ bb'.trigger = bb.trigger
         ELSE bb'.state = "POST_FAULT_RECORDING" /\ bb'.trigger = events.first
      /\ bb' \in Box
  <2> DEFINE buffer == Rolled(bb, s).buffer
  <2>1. bb \in Box /\ buffer \in Seq(Snapshot)
    BY <1>5, Numbers DEF CaptureIInv
  <2>2. Rolled(bb, s) = [bb EXCEPT !.buffer = buffer]
    BY <1>5
  <2> HIDE DEF buffer
  <2>3. CASE events.first = NoEvent
    <3>1. bb' = [bb EXCEPT !.buffer = buffer]
      BY <1>1, <2>2, <2>3
    <3>2. QED
      BY <1>2, <2>1, <2>3, <3>1 DEF Box, buffer
  <2>4. CASE events.first # NoEvent
    <3>1. bb' = [[bb EXCEPT !.buffer = buffer]
                    EXCEPT !.trigger = events.first, !.state = "POST_FAULT_RECORDING"]
      BY <1>1, <2>2, <2>4
    <3>2. events.first \in Event
      BY <2>4, EventsType
    <3>3. QED
      BY <1>2, <2>1, <2>4, <3>1, <3>2 DEF Box, BlackboxState, buffer
  <2>5. QED
    BY <2>3, <2>4
<1>7. /\ Len(bb'.buffer) = m
      /\ bb'.buffer[m].ordinal = pushed + 1
      /\ bb'.buffer[m].ts = ts
  BY <1>1, <1>5, <1>6
<1>8. \A i \in 1..m : bb'.buffer[i].ordinal = pushed + 1 - m + i
  <2> SUFFICES ASSUME NEW i \in 1..m PROVE bb'.buffer[i].ordinal = pushed + 1 - m + i
    OBVIOUS
  <2>1. CASE i = m
    BY <1>4, <1>7, <2>1, Numbers DEF CaptureIInv
  <2>2. CASE i # m
    <3>1. i \in 1..m - 1 /\ i + n + 1 - m \in 1..n
      BY <1>3, <1>4, <2>2
    <3>2. bb'.buffer[i] = bb.buffer[i + n + 1 - m]
      BY <1>5, <1>6, <3>1
    <3>3. bb.buffer[i + n + 1 - m].ordinal = pushed - n + (i + n + 1 - m)
      BY <1>3, <3>1
    <3>4. pushed - n + (i + n + 1 - m) = pushed + 1 - m + i
      <4>1. pushed \in Int /\ n \in Int /\ m \in Int /\ i \in Int
        BY <1>3, <1>4, Numbers DEF CaptureIInv
      <4>2. QED
        BY <4>1
    <3>5. QED
      BY <3>2, <3>3, <3>4
  <2>3. QED
    BY <2>1, <2>2
<1>9. firstAt' = IF events.first # NoEvent THEN pushed + 1 ELSE 0
  BY <1>2 DEF Handle
<1>10. First' = pushed + 1 - m /\ Upto' = pushed + 1
  BY <1>1, <1>9, Numbers DEF First, Upto, Kept, m, CaptureIInv
<1>11. ExactCapture'
  BY <1>1, <1>4, <1>6, <1>7, <1>8, <1>9, <1>10, Numbers DEF ExactCapture, CaptureIInv
<1>12. BoxInv'
  <2>1. CASE events.first = NoEvent
    BY <1>6, <1>9, <2>1 DEF BoxInv
  <2>2. CASE events.first # NoEvent
    <3>1. firstAt' = pushed + 1 /\ firstAt' - First' = m
      <4>1. pushed \in Nat /\ m \in Nat
        BY <1>4, Numbers DEF CaptureIInv
      <4>2. firstAt' = pushed + 1 /\ First' = pushed + 1 - m
        BY <1>9, <1>10, <2>2
      <4>3. QED
        BY <4>1, <4>2
    <3>2. bb'.trigger \in Event /\ bb'.trigger.ts = ts
      BY <1>6, <2>2, EventsType
    <3>3. QED
      BY <1>1, <1>6, <1>7, <2>2, <3>1, <3>2, Numbers DEF BoxInv, CaptureIInv
  <2>3. QED
    BY <2>1, <2>2
<1>13. QED
  BY <1>6, <1>11, <1>12

(* ... then PostFaultCapacity more snapshots, ...                          *)
LEMMA PostFaultKeepsCapture ==
    ASSUME CaptureIInv, NEW ts \in Clock, NEW events \in EventsOf(ts),
           Handle(ts, events), bb.state = "POST_FAULT_RECORDING"
    PROVE  bb' \in Box /\ ExactCapture' /\ BoxInv'
<1> DEFINE s == [ordinal |-> pushed + 1, ts |-> ts]
           n == Len(bb.buffer)
<1>1. /\ s \in Snapshot /\ s.ordinal = pushed + 1
      /\ pushed' = pushed + 1
      /\ bb' = PostFault(bb, s)
  BY HandleCases DEF CaptureIInv
<1>2. /\ firstAt # 0 /\ firstAt' = firstAt
      /\ bb.recorded = pushed - firstAt
      /\ pushed - firstAt < PostFaultCapacity
  BY Numbers DEF CaptureIInv, BoxInv, ExactCapture, Handle
<1>3. /\ n = pushed - First /\ n \in Nat
      /\ \A i \in 1..n : bb.buffer[i].ordinal = First + i
  BY <1>2, Numbers DEF CaptureIInv, ExactCapture, Upto
<1>4. First \in Nat /\ First = firstAt - Kept(firstAt) /\ First < firstAt
      /\ First' = First
  BY <1>2, Numbers DEF CaptureIInv, First, Kept
<1>5. Upto' = pushed + 1
  BY <1>1, <1>2, Numbers DEF CaptureIInv, Upto
<1> HIDE DEF s
<1>6. /\ bb'.buffer = Append(bb.buffer, s)
      /\ bb'.recorded = bb.recorded + 1
      /\ bb'.trigger = bb.trigger
      /\ bb'.state = IF bb.recorded + 1 >= PostFaultCapacity
                     THEN "SAVING" ELSE "POST_FAULT_RECORDING"
      /\ bb' \in Box
  <2>1. /\ bb \in Box /\ bb.recorded \in Nat
        /\ Append(bb.buffer, s) \in Seq(Snapshot)
    BY <1>1, Numbers DEF CaptureIInv
  <2> DEFINE buffer == Append(bb.buffer, s)
             state == IF bb.recorded + 1 >= PostFaultCapacity
                      THEN "SAVING" ELSE "POST_FAULT_RECORDING"
  <2>2. state \in BlackboxState /\ bb.recorded + 1 \in Nat
    BY <2>1 DEF BlackboxState
  <2>3. bb' = [bb EXCEPT !.buffer = buffer, !.recorded = bb.recorded + 1,
                         !.state = state]
    BY <1>1 DEF PostFault
  <2> HIDE DEF buffer, state
  <2>4. bb' \in Box /\ bb'.buffer = buffer /\ bb'.recorded = bb.recorded + 1
          /\ bb'.trigger = bb.trigger /\ bb'.state = state
    BY <2>1, <2>2, <2>3 DEF Box, buffer
  <2>5. QED
    BY <2>4 DEF buffer, state
<1>7. /\ Len(bb'.buffer) = n + 1
      /\ bb'.buffer[n + 1] = s
      /\ \A i \in 1..n : bb'.buffer[i] = bb.buffer[i]
  BY <1>1, <1>6, Numbers DEF CaptureIInv
<1> HIDE DEF n
<1>8. \A i \in 1..n + 1 : bb'.buffer[i].ordinal = First + i
  <2> SUFFICES ASSUME NEW i \in 1..n + 1 PROVE bb'.buffer[i].ordinal = First + i
    OBVIOUS
  <2>1. CASE i = n + 1
    <3>1. bb'.buffer[n + 1].ordinal = pushed + 1
      BY <1>1, <1>7
    <3>2. First + (n + 1) = pushed + 1
      BY <1>3, <1>4, Numbers DEF CaptureIInv
    <3>3. QED
      BY <2>1, <3>1, <3>2
  <2>2. CASE i # n + 1
    <3>1. i \in 1..n
      BY <1>3, <2>2
    <3>2. QED
      BY <1>3, <1>7, <3>1
  <2>3. QED
    BY <2>1, <2>2
<1>9. ExactCapture'
  <2>1. Len(bb'.buffer) = Upto' - First'
    BY <1>3, <1>4, <1>5, <1>7, Numbers DEF CaptureIInv
  <2>2. \A i \in 1..Len(bb'.buffer) : bb'.buffer[i].ordinal = First' + i
    BY <1>4, <1>7, <1>8
  <2>3. bb'.state = "SAVING"
          <=> (firstAt' # 0 /\ pushed' - firstAt' >= PostFaultCapacity)
    BY <1>1, <1>2, <1>6, Numbers DEF CaptureIInv
  <2>4. QED
    BY <2>1, <2>2, <2>3 DEF ExactCapture
<1>10. BoxInv'
  <2>1. firstAt - First \in 1..n
    BY <1>3, <1>4, Numbers DEF CaptureIInv
  <2>2. bb'.buffer[firstAt' - First'].ts = bb'.trigger.ts /\ bb'.trigger \in Event
    BY <1>2, <1>4, <1>6, <1>7, <2>1 DEF CaptureIInv, BoxInv
  <2>3. QED
    BY <1>1, <1>2, <1>6, <2>2, Numbers DEF BoxInv, CaptureIInv
<1>11. QED
  BY <1>6, <1>9, <1>10

(* ... then nothing more.                                                  *)
LEMMA SavingKeepsCapture ==
    ASSUME CaptureIInv, NEW ts \in Clock, NEW events \in EventsOf(ts),
           Handle(ts, events), bb.state = "SAVING"
    PROVE  bb' \in Box /\ ExactCapture' /\ BoxInv'
<1>1. /\ pushed' = pushed + 1
      /\ bb' = bb
  BY HandleCases DEF CaptureIInv
<1>2. /\ firstAt # 0 /\ firstAt' = firstAt
      /\ pushed - firstAt >= PostFaultCapacity
  BY DEF CaptureIInv, BoxInv, ExactCapture, Handle
<1>3. First' = First /\ Upto' = Upto
  BY <1>1, <1>2, Numbers DEF CaptureIInv, First, Upto, Kept
<1>4. pushed' - firstAt' >= PostFaultCapacity
  BY <1>1, <1>2, Numbers DEF CaptureIInv
<1>5. QED
  BY <1>1, <1>2, <1>3, <1>4, Numbers DEF CaptureIInv, ExactCapture, BoxInv

-----------------------------------------------------------------------------
(* The strengthening for the files: what is known of the file at path      *)
(* while the handler is in the middle of a save, and that files come from  *)
(* this process only if it has tried to save.                              *)
SaveInv ==
    /\ pc \in {"open", "write", "append"} =>
            /\ path \in Paths
            /\ attempted
            /\ bb.state = "SAVING"
    /\ pc = "open" => path \notin DOMAIN files
    /\ pc = "write" => /\ path \in DOMAIN files
                       /\ files[path].boot = boot
                       /\ files[path].trigger = NoEvent
                       /\ ~files[path].saved
                       /\ ~files[path].rootCause
    /\ pc = "append" => /\ path \in DOMAIN files
                        /\ files[path].boot = boot
                        /\ files[path].saved
    /\ \A p \in DOMAIN files : files[p].boot <= boot
    /\ pc # "down" /\ (~attempted \/ pc = "open") =>
            \A p \in DOMAIN files : files[p].boot # boot

IInv ==
    /\ CaptureIInv
    /\ SaveInv
    /\ EventLineMeansWhole
    /\ OneCapturePerProcess

(* The handler up to the save.                                             *)
LEMMA HandleKeeps ==
    ASSUME IInv, NEW ts \in Clock, NEW events \in EventsOf(ts), Handle(ts, events)
    PROVE  IInv'
<1>1. CaptureIInv
  BY DEF IInv
<1>2. bb' \in Box /\ ExactCapture' /\ BoxInv'
  BY <1>1, RollingKeepsCapture, PostFaultKeepsCapture, SavingKeepsCapture, Numbers
     DEF CaptureIInv, BlackboxState
<1>3. /\ pc = "loop" /\ pushed' = pushed + 1 /\ pushed < MaxSnapshots
      /\ firstAt' = IF firstAt = 0 /\ events.first # NoEvent
                    THEN pushed + 1 ELSE firstAt
      /\ lastFault' = IF events.fault THEN pushed + 1 ELSE lastFault
      /\ analysed' = (analysed \/ events.fault)
      /\ attempted' = (attempted \/ (bb'.state = "SAVING" /\ ~attempted))
      /\ path' \in Paths \union {NoFile}
      /\ files' = files /\ boot' = boot
  BY DEF Handle, TriesToSave
<1>4. \/ pc' = "loop"
      \/ /\ pc' = "open" /\ bb'.state = "SAVING" /\ ~attempted
         /\ FreshPath(path', bb'.trigger.ts)
         /\ bb'.trigger # NoEvent
  BY DEF Handle, TriesToSave
<1>5. TypeOK'
  <2>1. pushed' \in 0..MaxSnapshots
    BY <1>1, <1>3, Numbers DEF CaptureIInv
  <2>2. firstAt' \in 0..pushed' /\ lastFault' \in 0..pushed'
    BY <1>1, <1>3, Numbers DEF CaptureIInv
  <2>3. attempted' \in BOOLEAN /\ analysed' \in BOOLEAN
    BY <1>1, <1>3, EventsType DEF CaptureIInv, TypeOK
  <2>4. pc' \in PC
    BY <1>4 DEF PC
  <2>5. QED
    BY <1>1, <1>2, <1>3, <2>1, <2>2, <2>3, <2>4 DEF CaptureIInv, TypeOK, Box
<1>6. SaveInv'
  <2>1. CASE pc' = "loop"
    BY <1>1, <1>3, <2>1 DEF IInv, SaveInv, CaptureIInv, TypeOK
  <2>2. CASE pc' = "open"
    <3>1. bb'.trigger.ts \in Clock
      BY <1>2, <1>4, <2>2 DEF Box, Event
    <3>2. path' \in Paths /\ path' \notin DOMAIN files
      BY <1>4, <2>2, <3>1 DEF FreshPath, Paths
    <3>3. QED
      BY <1>1, <1>3, <1>4, <2>2, <3>2 DEF IInv, SaveInv, CaptureIInv, TypeOK
  <2>3. QED
    BY <1>4, <2>1, <2>2
<1>7. EventLineMeansWhole' /\ OneCapturePerProcess'
  BY <1>3 DEF IInv, EventLineMeansWhole, OneCapturePerProcess, IsWhole
<1>8. QED
  BY <1>2, <1>5, <1>6, <1>7 DEF IInv, CaptureIInv

(* What a step of saveToFile does not touch keeps the capture.             *)
LEMMA CaptureUntouched ==
    ASSUME CaptureIInv, TypeOK',
           UNCHANGED <<bb, pushed, firstAt>>
    PROVE  CaptureIInv'
BY DEF CaptureIInv, ExactCapture, BoxInv, First, Upto, Kept

(* The capture the handler is about to write is whole.                     *)
LEMMA BoxIsWhole ==
    ASSUME CaptureIInv, bb.state = "SAVING", NEW f,
           f.snapshots = bb.buffer, f.trigger = bb.trigger
    PROVE  IsWhole(f) /\ bb.trigger # NoEvent
<1> DEFINE n == Len(bb.buffer)
           k == n - PostFaultCapacity
<1>1. /\ firstAt # 0 /\ pushed - firstAt >= PostFaultCapacity
      /\ n = Upto - First
      /\ \A i \in 1..n : bb.buffer[i].ordinal = First + i
  BY DEF CaptureIInv, ExactCapture
<1>2. /\ First = firstAt - Kept(firstAt) /\ First \in Nat
      /\ Upto = firstAt + PostFaultCapacity
      /\ n \in Nat
  BY <1>1, Numbers DEF CaptureIInv, First, Upto, Kept
<1>3. k = Kept(firstAt) /\ k = firstAt - First /\ k \in 1..Capacity
      /\ (k < Capacity => First = 0)
  <2>1. n = Kept(firstAt) + PostFaultCapacity /\ Kept(firstAt) \in Nat
    BY <1>1, <1>2, Numbers DEF CaptureIInv, Kept
  <2>2. k = Kept(firstAt)
    BY <2>1, Numbers DEF CaptureIInv
  <2> HIDE DEF n, k
  <2>3. k \in 1..Capacity /\ (k < Capacity => k = firstAt)
    BY <1>1, <2>2, Numbers DEF CaptureIInv, Kept
  <2>4. QED
    BY <1>2, <2>1, <2>2, <2>3, Numbers DEF CaptureIInv
<1> HIDE DEF n, k
<1>4. bb.buffer[k].ts = bb.trigger.ts /\ bb.trigger # NoEvent
  BY <1>1, <1>3, RecorderAssumption DEF CaptureIInv, BoxInv
<1>5. \A i \in 2..n : bb.buffer[i].ordinal = bb.buffer[i - 1].ordinal + 1
  <2> SUFFICES ASSUME NEW i \in 2..n
               PROVE  bb.buffer[i].ordinal = bb.buffer[i - 1].ordinal + 1
    OBVIOUS
  <2>1. i \in 1..n /\ i - 1 \in 1..n /\ i \in Int
    BY <1>2
  <2>2. bb.buffer[i].ordinal = First + i /\ bb.buffer[i - 1].ordinal = First + (i - 1)
    BY <1>1, <2>1
  <2>3. QED
    BY <1>2, <2>1, <2>2
<1>6. k < Capacity => bb.buffer[1].ordinal = 1
  <2>1. 1 \in 1..n
    BY <1>2, <1>3, Numbers DEF CaptureIInv, k
  <2>2. bb.buffer[1].ordinal = First + 1
    BY <1>1, <2>1
  <2>3. QED
    BY <1>3, <2>2
<1>7. QED
  BY <1>3, <1>4, <1>5, <1>6 DEF IsWhole, n, k

(* The stream opens and creates the file.                                  *)
LEMMA OpenKeeps ==
    ASSUME IInv, OpenFile
    PROVE  IInv'
<1>1. /\ pc = "open" /\ pc' = "write" /\ path' = path /\ boot' = boot
      /\ files' = [ p \in DOMAIN files \union {path} |->
                      IF p = path THEN EmptyFile ELSE files[p] ]
      /\ attempted' = attempted /\ bb' = bb
      /\ UNCHANGED <<analysed, pushed, firstAt, lastFault>>
  BY DEF OpenFile
<1>2. /\ path \in Paths /\ path \notin DOMAIN files
      /\ \A p \in DOMAIN files : files[p].boot # boot
  BY <1>1 DEF IInv, SaveInv
<1>3. /\ DOMAIN files' = DOMAIN files \union {path}
      /\ files'[path] = EmptyFile
      /\ \A p \in DOMAIN files : files'[p] = files[p]
  BY <1>1, <1>2
<1>4. EmptyFile \in CaptureFile
  BY DEF EmptyFile, CaptureFile, IInv, CaptureIInv, TypeOK
<1>5. files' \in [DOMAIN files' -> CaptureFile] /\ DOMAIN files' \subseteq Paths
  BY <1>1, <1>2, <1>3, <1>4 DEF IInv, CaptureIInv, TypeOK
<1>6. TypeOK'
  BY <1>1, <1>5 DEF TypeOK, IInv, CaptureIInv, PC
<1>7. CaptureIInv'
  BY <1>1, <1>6, CaptureUntouched DEF IInv
<1>8. /\ EmptyFile.boot = boot /\ EmptyFile.trigger = NoEvent
      /\ ~EmptyFile.saved /\ ~EmptyFile.rootCause
  BY DEF EmptyFile
<1>9. SaveInv'
  BY <1>1, <1>2, <1>3, <1>8, RecorderAssumption DEF IInv, SaveInv, CaptureIInv, TypeOK
<1>10. EventLineMeansWhole'
  BY <1>3, <1>8 DEF IInv, EventLineMeansWhole, IsWhole
<1>11. OneCapturePerProcess'
  BY <1>2, <1>3, <1>8 DEF IInv, OneCapturePerProcess
<1>12. QED
  BY <1>7, <1>9, <1>10, <1>11 DEF IInv

(* Writing to the file at path keeps what is known of all files, if the    *)
(* lines it then has are those of a torn or of a whole capture.            *)
LEMMA RewriteKeeps ==
    ASSUME IInv, path \in DOMAIN files, NEW g \in CaptureFile,
           g.boot = files[path].boot,
           g.trigger # NoEvent => IsWhole(g),
           g.saved => g.trigger # NoEvent,
           g.rootCause => g.saved,
           files' = [files EXCEPT ![path] = g]
    PROVE  /\ DOMAIN files' = DOMAIN files
           /\ files' \in [DOMAIN files' -> CaptureFile]
           /\ files'[path] = g
           /\ \A p \in DOMAIN files : files'[p].boot = files[p].boot
           /\ EventLineMeansWhole'
           /\ OneCapturePerProcess'
<1>1. /\ DOMAIN files' = DOMAIN files
      /\ files'[path] = g
      /\ \A p \in DOMAIN files : p # path => files'[p] = files[p]
  OBVIOUS
<1>2. files' \in [DOMAIN files' -> CaptureFile]
  BY <1>1 DEF IInv, CaptureIInv, TypeOK
<1>3. \A p \in DOMAIN files : files'[p].boot = files[p].boot
  BY <1>1
<1>4. EventLineMeansWhole'
  BY <1>1 DEF IInv, EventLineMeansWhole, IsWhole
<1>5. OneCapturePerProcess'
  BY <1>1, <1>3 DEF IInv, OneCapturePerProcess
<1>6. QED
  BY <1>1, <1>2, <1>3, <1>4, <1>5

(* The whole capture is written.                                           *)
LEMMA WriteKeeps ==
    ASSUME IInv, WriteCapture
    PROVE  IInv'
<1> DEFINE g == [files[path] EXCEPT !.snapshots = bb.buffer,
                                    !.trigger = bb.trigger, !.saved = TRUE]
<1>1. /\ pc = "write" /\ path \in DOMAIN files /\ bb.state = "SAVING"
      /\ files[path] \in CaptureFile
      /\ files[path].boot = boot
  BY DEF IInv, SaveInv, CaptureIInv, TypeOK, WriteCapture
<1>2. files' = [files EXCEPT ![path] = g]
  BY <1>1 DEF WriteCapture
<1>3. /\ g \in CaptureFile
      /\ g.boot = boot /\ g.snapshots = bb.buffer /\ g.trigger = bb.trigger
      /\ g.saved
  BY <1>1, Numbers DEF CaptureFile, IInv, CaptureIInv, TypeOK
<1> HIDE DEF g
<1>4. IsWhole(g) /\ g.trigger # NoEvent
  BY <1>1, <1>3, BoxIsWhole DEF IInv
<1>5. /\ DOMAIN files' = DOMAIN files
      /\ files' \in [DOMAIN files' -> CaptureFile]
      /\ files'[path] = g
      /\ \A p \in DOMAIN files : files'[p].boot = files[p].boot
      /\ EventLineMeansWhole' /\ OneCapturePerProcess'
  BY <1>1, <1>2, <1>3, <1>4, RewriteKeeps
<1>6. /\ pc' \in {"append", "loop"}
      /\ UNCHANGED <<bb, attempted, analysed, path, boot, pushed, firstAt, lastFault>>
  BY DEF WriteCapture
<1>7. TypeOK'
  BY <1>5, <1>6 DEF IInv, CaptureIInv, TypeOK, PC
<1>8. CaptureIInv'
  BY <1>6, <1>7, CaptureUntouched DEF IInv
<1>9. SaveInv'
  BY <1>1, <1>3, <1>5, <1>6 DEF IInv, SaveInv
<1>10. QED
  BY <1>5, <1>8, <1>9 DEF IInv

(* Only some of the lines are written and the save fails.                  *)
LEMMA WriteFailsKeeps ==
    ASSUME IInv, NEW n \in 0..Len(bb.buffer), NEW event \in {NoEvent, bb.trigger},
           WriteFails(n, event)
    PROVE  IInv'
<1> DEFINE g == [files[path] EXCEPT !.snapshots = SubSeq(bb.buffer, 1, n),
                                    !.trigger = event]
<1>1. /\ pc = "write" /\ path \in DOMAIN files /\ bb.state = "SAVING"
      /\ files[path] \in CaptureFile
      /\ files[path].boot = boot
      /\ ~files[path].saved /\ ~files[path].rootCause
  BY DEF IInv, SaveInv, CaptureIInv, TypeOK, WriteFails
<1>2. files' = [files EXCEPT ![path] = g]
  BY <1>1 DEF WriteFails
<1>3. /\ SubSeq(bb.buffer, 1, n) \in Seq(Snapshot)
      /\ n = Len(bb.buffer) => SubSeq(bb.buffer, 1, n) = bb.buffer
  BY Numbers DEF IInv, CaptureIInv
<1>4. /\ g \in CaptureFile
      /\ g.boot = boot /\ g.snapshots = SubSeq(bb.buffer, 1, n)
      /\ g.trigger = event /\ ~g.saved /\ ~g.rootCause
  BY <1>1, <1>3, Numbers DEF CaptureFile, IInv, CaptureIInv, TypeOK
<1> HIDE DEF g
<1>5. g.trigger # NoEvent => IsWhole(g)
  BY <1>1, <1>3, <1>4, BoxIsWhole DEF IInv, WriteFails, LinesWritten
<1>6. /\ DOMAIN files' = DOMAIN files
      /\ files' \in [DOMAIN files' -> CaptureFile]
      /\ files'[path] = g
      /\ \A p \in DOMAIN files : files'[p].boot = files[p].boot
      /\ EventLineMeansWhole' /\ OneCapturePerProcess'
  BY <1>1, <1>2, <1>4, <1>5, RewriteKeeps
<1>7. /\ pc' = "loop"
      /\ UNCHANGED <<bb, attempted, analysed, path, boot, pushed, firstAt, lastFault>>
  BY DEF WriteFails
<1>8. TypeOK'
  BY <1>6, <1>7 DEF IInv, CaptureIInv, TypeOK, PC
<1>9. CaptureIInv'
  BY <1>7, <1>8, CaptureUntouched DEF IInv
<1>10. SaveInv'
  BY <1>1, <1>6, <1>7 DEF IInv, SaveInv
<1>11. QED
  BY <1>6, <1>9, <1>10 DEF IInv

(* The root cause line is appended, or not.                                *)
LEMMA AppendKeeps ==
    ASSUME IInv, NEW ok \in BOOLEAN, AppendRootCause(ok)
    PROVE  IInv'
<1> DEFINE g == [files[path] EXCEPT !.rootCause = ok]
<1>1. /\ pc = "append" /\ path \in DOMAIN files
      /\ files[path] \in CaptureFile
      /\ files[path].boot = boot /\ files[path].saved
  BY DEF IInv, SaveInv, CaptureIInv, TypeOK, AppendRootCause
<1>2. files' = [files EXCEPT ![path] = g]
  BY <1>1 DEF AppendRootCause
<1>3. /\ g \in CaptureFile
      /\ g.boot = boot /\ g.snapshots = files[path].snapshots
      /\ g.trigger = files[path].trigger /\ g.saved
  BY <1>1 DEF CaptureFile
<1> HIDE DEF g
<1>4. g.trigger # NoEvent /\ IsWhole(g)
  BY <1>1, <1>3 DEF IInv, EventLineMeansWhole, IsWhole
<1>5. /\ DOMAIN files' = DOMAIN files
      /\ files' \in [DOMAIN files' -> CaptureFile]
      /\ files'[path] = g
      /\ \A p \in DOMAIN files : files'[p].boot = files[p].boot
      /\ EventLineMeansWhole' /\ OneCapturePerProcess'
  BY <1>1, <1>2, <1>3, <1>4, RewriteKeeps
<1>6. /\ pc' = "loop"
      /\ UNCHANGED <<bb, attempted, analysed, path, boot, pushed, firstAt, lastFault>>
  BY DEF AppendRootCause
<1>7. TypeOK'
  BY <1>5, <1>6 DEF IInv, CaptureIInv, TypeOK, PC
<1>8. CaptureIInv'
  BY <1>6, <1>7, CaptureUntouched DEF IInv
<1>9. SaveInv'
  BY <1>1, <1>5, <1>6 DEF IInv, SaveInv
<1>10. QED
  BY <1>5, <1>8, <1>9 DEF IInv

(* A new box has captured nothing of no snapshots.                         *)
LEMMA FreshCapture ==
    ASSUME bb = NewBlackbox, pushed = 0, firstAt = 0
    PROVE  bb \in Box /\ ExactCapture /\ BoxInv
<1>1. /\ bb.state = "RECORDING" /\ bb.buffer = << >> /\ bb.recorded = 0
      /\ bb \in Box
  BY DEF NewBlackbox, Box, BlackboxState
<1>2. Kept(0) = 0 /\ First = 0 /\ Upto = 0
  <2>1. Kept(0) = 0
    BY CapacityAssumption DEF Kept
  <2>2. QED
    BY <2>1 DEF First, Upto
<1>3. QED
  BY <1>1, <1>2 DEF ExactCapture, BoxInv

(* The process dies.                                                       *)
LEMMA CrashKeeps ==
    ASSUME IInv, Crash
    PROVE  IInv'
<1>1. /\ pc # "down" /\ pc' = "down" /\ bb' = NewBlackbox
      /\ attempted' = FALSE /\ analysed' = FALSE /\ path' = NoFile
      /\ pushed' = 0 /\ firstAt' = 0 /\ lastFault' = 0 /\ boot' = boot
  BY DEF Crash
<1>2. /\ DOMAIN files' = DOMAIN files
      /\ files' \in [DOMAIN files' -> CaptureFile]
      /\ \A p \in DOMAIN files : files'[p].boot = files[p].boot
      /\ EventLineMeansWhole' /\ OneCapturePerProcess'
  <2>1. CASE pc # "write"
    BY <2>1 DEF Crash, IInv, CaptureIInv, TypeOK, EventLineMeansWhole,
                OneCapturePerProcess, IsWhole
  <2>2. CASE pc = "write"
    <3>1. PICK n \in 0..Len(bb.buffer) :
            files' = [files EXCEPT ![path].snapshots = SubSeq(bb.buffer, 1, n)]
      BY <2>2 DEF Crash
    <3> DEFINE g == [files[path] EXCEPT !.snapshots = SubSeq(bb.buffer, 1, n)]
    <3>2. /\ path \in DOMAIN files /\ files[path] \in CaptureFile
          /\ files[path].trigger = NoEvent
          /\ ~files[path].saved /\ ~files[path].rootCause
      BY <2>2 DEF IInv, SaveInv, CaptureIInv, TypeOK
    <3>3. files' = [files EXCEPT ![path] = g]
      BY <3>1, <3>2
    <3>4. SubSeq(bb.buffer, 1, n) \in Seq(Snapshot)
      BY Numbers DEF IInv, CaptureIInv
    <3>5. /\ g \in CaptureFile /\ g.boot = files[path].boot
          /\ g.trigger = NoEvent /\ ~g.saved /\ ~g.rootCause
      BY <3>2, <3>4 DEF CaptureFile
    <3> HIDE DEF g
    <3>6. QED
      BY <3>2, <3>3, <3>5, RewriteKeeps
  <2>3. QED
    BY <2>1, <2>2
<1>3. bb' \in Box /\ ExactCapture' /\ BoxInv'
  <2>1. /\ bb'.state = "RECORDING" /\ bb'.buffer = << >> /\ bb'.recorded = 0
        /\ bb' \in Box
    BY <1>1 DEF NewBlackbox, Box, BlackboxState
  <2>2. First' = 0 /\ Upto' = 0
    <3>1. Kept(0) = 0
      BY CapacityAssumption DEF Kept
    <3>2. QED
      BY <1>1, <3>1 DEF First, Upto
  <2>3. QED
    BY <1>1, <2>1, <2>2 DEF ExactCapture, BoxInv
<1>4. TypeOK'
  <2>1. 0 \in 0..MaxSnapshots /\ 0 \in 0..0
    BY RecorderAssumption
  <2>2. DOMAIN files \subseteq Paths /\ boot \in 1..MaxBoots
    BY DEF IInv, CaptureIInv, TypeOK
  <2>3. QED
    BY <1>1, <1>2, <1>3, <2>1, <2>2 DEF TypeOK, PC, Box
<1>5. SaveInv'
  BY <1>1, <1>2 DEF IInv, SaveInv
<1>6. QED
  BY <1>2, <1>3, <1>4, <1>5 DEF IInv, CaptureIInv

(* A new process starts.                                                   *)
LEMMA RestartKeeps ==
    ASSUME IInv, Restart
    PROVE  IInv'
<1>1. /\ pc = "down" /\ pc' = "loop" /\ boot' = boot + 1 /\ boot < MaxBoots
      /\ UNCHANGED <<bb, attempted, analysed, path, files, pushed, firstAt, lastFault>>
  BY DEF Restart
<1>2. boot' \in 1..MaxBoots /\ boot \in Nat
  BY <1>1, RecorderAssumption DEF IInv, CaptureIInv, TypeOK
<1>3. TypeOK'
  BY <1>1, <1>2 DEF IInv, CaptureIInv, TypeOK, PC
<1>4. CaptureIInv'
  BY <1>1, <1>3, CaptureUntouched DEF IInv
<1>5. \A p \in DOMAIN files : files[p].boot < boot'
  <2>1. \A p \in DOMAIN files : files[p].boot <= boot /\ files[p].boot \in Nat
    BY RecorderAssumption DEF IInv, SaveInv, CaptureIInv, TypeOK, CaptureFile
  <2>2. QED
    BY <1>1, <1>2, <2>1
<1>6. \A p \in DOMAIN files : files[p].boot \in Nat
  BY RecorderAssumption DEF IInv, CaptureIInv, TypeOK, CaptureFile
<1>7. SaveInv'
  BY <1>1, <1>2, <1>5, <1>6 DEF SaveInv
<1>8. EventLineMeansWhole' /\ OneCapturePerProcess'
  BY <1>1 DEF IInv, EventLineMeansWhole, OneCapturePerProcess, IsWhole
<1>9. QED
  BY <1>4, <1>7, <1>8 DEF IInv

-----------------------------------------------------------------------------
(* Every reachable state satisfies the inductive invariant.                *)
LEMMA RecorderInvariant == Spec => []IInv
<1>1. Init => IInv
  <2> SUFFICES ASSUME Init PROVE IInv
    OBVIOUS
  <2>1. bb \in Box /\ ExactCapture /\ BoxInv
    BY FreshCapture DEF Init
  <2>2. 0 \in 0..MaxSnapshots /\ 0 \in 0..0 /\ 1 \in 1..MaxBoots
    BY RecorderAssumption
  <2>3. DOMAIN files = {} /\ files \in [DOMAIN files -> CaptureFile]
    BY DEF Init
  <2>4. TypeOK
    BY <2>1, <2>2, <2>3 DEF Init, TypeOK, Box, PC
  <2>5. SaveInv /\ EventLineMeansWhole /\ OneCapturePerProcess
    BY <2>3 DEF Init, SaveInv, EventLineMeansWhole, OneCapturePerProcess
  <2>6. QED
    BY <2>1, <2>4, <2>5 DEF IInv, CaptureIInv
<1>2. IInv /\ [Next]_vars => IInv'
  <2> SUFFICES ASSUME IInv, [Next]_vars PROVE IInv'
    OBVIOUS
  <2>1. CASE UNCHANGED vars
    BY <2>1 DEF vars, IInv, CaptureIInv, TypeOK, ExactCapture, BoxInv, SaveInv,
                EventLineMeansWhole, OneCapturePerProcess, IsWhole, First, Upto
  <2>2. ASSUME NEW ts \in Clock, NEW events \in EventsOf(ts), Handle(ts, events)
        PROVE  IInv'
    BY <2>2, HandleKeeps
  <2>3. CASE OpenFile
    BY <2>3, OpenKeeps
  <2>4. CASE OpenFails
    <3>1. /\ pc = "open" /\ pc' = "loop"
          /\ UNCHANGED <<bb, attempted, analysed, path, files, boot, pushed,
                         firstAt, lastFault>>
      BY <2>4 DEF OpenFails
    <3>2. TypeOK'
      BY <3>1 DEF IInv, CaptureIInv, TypeOK, PC
    <3>3. CaptureIInv'
      BY <3>1, <3>2, CaptureUntouched DEF IInv
    <3>4. SaveInv' /\ EventLineMeansWhole' /\ OneCapturePerProcess'
      BY <3>1 DEF IInv, SaveInv, EventLineMeansWhole, OneCapturePerProcess, IsWhole
    <3>5. QED
      BY <3>3, <3>4 DEF IInv
  <2>5. CASE WriteCapture
    BY <2>5, WriteKeeps
  <2>6. ASSUME NEW n \in 0..Len(bb.buffer), NEW event \in {NoEvent, bb.trigger},
               WriteFails(n, event)
        PROVE  IInv'
    BY <2>6, WriteFailsKeeps
  <2>7. ASSUME NEW ok \in BOOLEAN, AppendRootCause(ok) PROVE IInv'
    BY <2>7, AppendKeeps
  <2>8. CASE Crash
    BY <2>8, CrashKeeps
  <2>9. CASE Restart
    BY <2>9, RestartKeeps
  <2>10. QED
    BY <2>1, <2>2, <2>3, <2>4, <2>5, <2>6, <2>7, <2>8, <2>9 DEF Next
<1>3. QED
  BY <1>1, <1>2, PTL DEF Spec

(* TypeOK holds in every reachable state, whatever the capacities.         *)
THEOREM TypeCorrect == Spec => []TypeOK
<1>1. IInv => TypeOK
  BY DEF IInv, CaptureIInv
<1>2. QED
  BY <1>1, RecorderInvariant, PTL

(* ExactCapture for every capacity: the black box holds exactly the        *)
(* snapshots around the first event, in order (Blackbox::push, trigger).   *)
THEOREM CapturesAreExact == Spec => []ExactCapture
<1>1. IInv => ExactCapture
  BY DEF IInv, CaptureIInv
<1>2. QED
  BY <1>1, RecorderInvariant, PTL

(* EventLineMeansWhole for every capacity: wherever saveToFile fails or    *)
(* the process dies, a file with an event line has the whole capture.      *)
THEOREM EventLinesMeanWhole == Spec => []EventLineMeansWhole
<1>1. IInv => EventLineMeansWhole
  BY DEF IInv
<1>2. QED
  BY <1>1, RecorderInvariant, PTL

(* OneCapturePerProcess for every number of restarts.                      *)
THEOREM OneCaptureEach == Spec => []OneCapturePerProcess
<1>1. IInv => OneCapturePerProcess
  BY DEF IInv
<1>2. QED
  BY <1>1, RecorderInvariant, PTL

(* EvidenceKept for every clock: makeUniqueBlackboxPath never lets a       *)
(* capture replace an earlier one.                                         *)
THEOREM EvidenceIsKept == Spec => EvidenceKept
<1> DEFINE Keeps(p) ==
        /\ p \in DOMAIN files'
        /\ files[p].boot < boot => files'[p] = files[p]
        /\ files[p].saved => /\ files'[p].snapshots = files[p].snapshots
                             /\ files'[p].trigger = files[p].trigger
<1>1. IInv /\ [Next]_vars => [\A p \in DOMAIN files : Keeps(p)]_vars
  <2> SUFFICES ASSUME IInv, Next, NEW p \in DOMAIN files PROVE Keeps(p)
    OBVIOUS
  <2>1. boot \in Nat /\ (files[p].boot < boot => files[p].boot # boot)
    BY RecorderAssumption DEF IInv, CaptureIInv, TypeOK
  <2>2. CASE files' = files
    BY <2>2
  <2>3. CASE OpenFile
    BY <2>3 DEF OpenFile, IInv, SaveInv
  <2>4. CASE WriteCapture
    BY <2>1, <2>4 DEF WriteCapture, IInv, SaveInv
  <2>5. ASSUME NEW n \in 0..Len(bb.buffer), NEW event, WriteFails(n, event)
        PROVE  Keeps(p)
    BY <2>1, <2>5 DEF WriteFails, IInv, SaveInv
  <2>6. ASSUME NEW ok \in BOOLEAN, AppendRootCause(ok)
        PROVE  Keeps(p)
    BY <2>1, <2>6 DEF AppendRootCause, IInv, SaveInv
  <2>7. CASE Crash
    BY <2>1, <2>7 DEF Crash, IInv, SaveInv
  <2>8. QED
    BY <2>2, <2>3, <2>4, <2>5, <2>6, <2>7 DEF Next, Handle, OpenFails, Restart
<1>2. QED
  BY <1>1, RecorderInvariant, PTL DEF Spec, EvidenceKept

=============================================================================
