--------------------------- MODULE SnapshotProofs ---------------------------
(***************************************************************************)
(* What the operators on snapshots return, for every snapshot: those of    *)
(* DiagTypes, IoctlSnapshotReader and BoundaryLocator.                     *)
(***************************************************************************)
EXTENDS IoctlSnapshotReader, BoundaryLocator, WellFoundedInduction, TLAPS

(* A nonempty set of natural numbers has a least element.                  *)
LEMMA LeastNatural ==
    ASSUME NEW S \in SUBSET Nat, S # {}
    PROVE  \E n \in S : \A m \in S : n <= m
<1> DEFINE Less == { ss \in Nat \X Nat : ss[1] < ss[2] }
<1>1. IsWellFoundedOn(Less, Nat)
  BY NatLessThanWellFounded, Zenon DEF OpToRel
<1>2. \A m, n \in Nat : m < n => <<m, n>> \in Less
  OBVIOUS
<1> HIDE DEF Less
<1>3. PICK n \in S : \A m \in S : <<m, n>> \notin Less
  BY <1>1, WFMin
<1>4. \A m \in S : n <= m
  <2> SUFFICES ASSUME NEW m \in S, ~(n <= m) PROVE FALSE
    OBVIOUS
  <2>1. m \in Nat /\ n \in Nat
    OBVIOUS
  <2>2. m < n
    BY <2>1
  <2>3. QED
    BY <1>2, <1>3, <2>1, <2>2, Zenon
<1>5. QED
  BY <1>4

(* std::find_if returns the first match: if the identity is there, the     *)
(* position is that of a slave with this identity, otherwise it is -1.     *)
LEMMA PositionIsFound ==
    ASSUME NEW s \in NetworkSnapshot, NEW id \in SlaveIdentity
    PROVE  /\ PositionOf(s, id) \in Int
           /\ ContainsIdentity(s, id) =>
                /\ PositionOf(s, id) + 1 \in DOMAIN s.slaves
                /\ s.slaves[PositionOf(s, id) + 1].id = id
<1>1. CASE ~ContainsIdentity(s, id)
  BY <1>1 DEF PositionOf
<1>2. CASE ContainsIdentity(s, id)
  <2> DEFINE Matches == { i \in DOMAIN s.slaves : s.slaves[i].id = id }
             First(i) == /\ s.slaves[i].id = id
                         /\ \A j \in 1..i - 1 : s.slaves[j].id # id
  <2>1. s.slaves \in Seq(Slave)
    BY DEF NetworkSnapshot
  <2>2. DOMAIN s.slaves = 1..Len(s.slaves) /\ Len(s.slaves) \in Nat
    BY <2>1
  <2>3. Matches \in SUBSET Nat /\ Matches # {}
    BY <1>2, <2>2 DEF ContainsIdentity, StableIdentities, Identities
  <2>4. PICK n \in Matches : \A m \in Matches : n <= m
    BY <2>3, LeastNatural
  <2>5. n \in DOMAIN s.slaves /\ First(n)
    BY <2>2, <2>4
  <2>6. (CHOOSE i \in DOMAIN s.slaves : First(i)) \in DOMAIN s.slaves
        /\ First(CHOOSE i \in DOMAIN s.slaves : First(i))
    BY <2>5
  <2>7. PositionOf(s, id) = (CHOOSE i \in DOMAIN s.slaves : First(i)) - 1
    BY <1>2 DEF PositionOf
  <2> HIDE DEF First
  <2>8. \A i \in DOMAIN s.slaves : (i - 1) + 1 = i /\ i - 1 \in Int
    BY <2>2
  <2>9. QED
    BY <2>6, <2>7, <2>8 DEF First
<1>3. QED
  BY <1>1, <1>2

-----------------------------------------------------------------------------
(* The identity at a position                                              *)

IsLastNamed(b, i, j) ==
    /\ j \in 1..i
    /\ b[j].alias # 0
    /\ \A k \in j + 1..i : b[k].alias = 0

(* If there is a slave with an alias, LastNamed is the last one.           *)
LEMMA LastNamedIsLast ==
    ASSUME NEW b, NEW i \in Nat, \E j \in 1..i : b[j].alias # 0
    PROVE  IsLastNamed(b, i, LastNamed(b, i))
<1> DEFINE After == { i - j : j \in { k \in 1..i : b[k].alias # 0 } }
<1>1. After \in SUBSET Nat /\ After # {}
  OBVIOUS
<1>2. PICK n \in After : \A m \in After : n <= m
  BY <1>1, LeastNatural
<1>3. PICK j \in 1..i : b[j].alias # 0 /\ n = i - j
  BY <1>2
<1>4. ASSUME NEW k \in j + 1..i PROVE b[k].alias = 0
  <2> SUFFICES ASSUME b[k].alias # 0 PROVE FALSE
    OBVIOUS
  <2>1. k \in 1..i
    BY <1>3
  <2>2. i - k \in After
    BY <2>1
  <2>3. i - j <= i - k
    BY <1>2, <1>3, <2>2
  <2>4. j \in Int /\ k \in Int /\ j < k
    BY <1>3
  <2>5. QED
    BY <2>3, <2>4
<1>5. \E x \in 1..i : b[x].alias # 0 /\ \A k \in x + 1..i : b[k].alias = 0
  BY <1>3, <1>4
<1>6. QED
  BY <1>5 DEF LastNamed, IsLastNamed

(* There is only one.                                                      *)
LEMMA LastNamedIsUnique ==
    ASSUME NEW b, NEW i \in Nat, NEW j, IsLastNamed(b, i, j)
    PROVE  LastNamed(b, i) = j
<1>1. IsLastNamed(b, i, LastNamed(b, i))
  BY LastNamedIsLast DEF IsLastNamed
<1>2. j \in 1..i /\ LastNamed(b, i) \in 1..i
  BY <1>1 DEF IsLastNamed
<1>3. ~(j < LastNamed(b, i))
  BY <1>1, <1>2 DEF IsLastNamed
<1>4. ~(LastNamed(b, i) < j)
  BY <1>1, <1>2 DEF IsLastNamed
<1>5. QED
  BY <1>2, <1>3, <1>4

(* An alias of its own is the identity of a slave.                         *)
LEMMA IdentityOfNamed ==
    ASSUME NEW b, NEW i \in Nat \ {0}, b[i].alias # 0
    PROVE  IdentityAt(b, i) = [alias |-> b[i].alias, rel |-> 0]
<1>1. IsLastNamed(b, i, i)
  BY DEF IsLastNamed
<1>2. LastNamed(b, i) = i /\ i \in 1..i
  BY <1>1, LastNamedIsUnique
<1>3. QED
  BY <1>2 DEF IdentityAt

(* Another slave counts on from the one before it.                         *)
LEMMA IdentityCountsOn ==
    ASSUME NEW b, NEW i \in Nat \ {0}, b[i + 1].alias = 0
    PROVE  IdentityAt(b, i + 1) =
             [alias |-> IdentityAt(b, i).alias, rel |-> IdentityAt(b, i).rel + 1]
<1>1. CASE \E j \in 1..i : b[j].alias # 0
  <2> DEFINE l == LastNamed(b, i)
  <2>1. IsLastNamed(b, i, l)
    BY <1>1, LastNamedIsLast
  <2> HIDE DEF l
  <2>2. IsLastNamed(b, i + 1, l)
    BY <2>1 DEF IsLastNamed
  <2>3. LastNamed(b, i + 1) = l
    BY <2>2, LastNamedIsUnique
  <2>4. l \in 1..i /\ \E j \in 1..i + 1 : b[j].alias # 0
    BY <1>1, <2>1 DEF IsLastNamed
  <2>5. IdentityAt(b, i + 1) = [alias |-> b[l].alias, rel |-> i + 1 - l]
    BY <2>3, <2>4 DEF IdentityAt
  <2>6. IdentityAt(b, i) = [alias |-> b[l].alias, rel |-> i - l]
    BY <1>1 DEF IdentityAt, l
  <2>7. QED
    BY <2>4, <2>5, <2>6
<1>2. CASE \A j \in 1..i : b[j].alias = 0
  <2>1. \A j \in 1..i + 1 : b[j].alias = 0
    BY <1>2
  <2>2. QED
    BY <1>2, <2>1 DEF IdentityAt
<1>3. QED
  BY <1>1, <1>2

(* The identity depends on the aliases from the named slave on, or from    *)
(* the first one on, alone.                                                *)
LEMMA IdentityIsLocal ==
    ASSUME NEW b, NEW c, NEW i \in Nat, NEW j \in 1..i,
           \A k \in j..i : b[k].alias = c[k].alias,
           j = 1 \/ b[j].alias # 0
    PROVE  IdentityAt(b, i) = IdentityAt(c, i)
<1>1. CASE \E k \in 1..i : b[k].alias # 0
  <2> DEFINE l == LastNamed(b, i)
  <2>1. IsLastNamed(b, i, l)
    BY <1>1, LastNamedIsLast
  <2> HIDE DEF l
  <2>2. l \in 1..i /\ b[l].alias # 0 /\ \A k \in l + 1..i : b[k].alias = 0
    BY <2>1 DEF IsLastNamed
  <2>3. l \in j..i
    BY <2>2
  <2>4. c[l].alias = b[l].alias /\ \A k \in l + 1..i : c[k].alias = 0
    BY <2>2, <2>3
  <2>5. IsLastNamed(c, i, l)
    BY <2>2, <2>4 DEF IsLastNamed
  <2>6. LastNamed(c, i) = l
    BY <2>5, LastNamedIsUnique
  <2>7. QED
    BY <1>1, <2>2, <2>4, <2>6 DEF IdentityAt, l
<1>2. CASE \A k \in 1..i : b[k].alias = 0
  <2>1. j = 1
    BY <1>2
  <2>2. \A k \in 1..i : c[k].alias = 0
    BY <1>2, <2>1
  <2>3. QED
    BY <1>2, <2>2 DEF IdentityAt
<1>3. QED
  BY <1>1, <1>2

(* The aliases that the slaves of a bus have are all different.            *)
AliasesDiffer(b) ==
    \A i, j \in DOMAIN b : b[i].alias = b[j].alias /\ b[i].alias # 0 => i = j

(* Where the identity of a slave comes from: from the named slave that it  *)
(* counts from, or from the master.                                        *)
LEMMA IdentityCounts ==
    ASSUME NEW b \in Seq(RawSlave), NEW i \in DOMAIN b
    PROVE  \/ /\ IdentityAt(b, i) = [alias |-> 0, rel |-> i - 1]
              /\ \A j \in 1..i : b[j].alias = 0
           \/ \E l \in 1..i : /\ IdentityAt(b, i) = [alias |-> b[l].alias, rel |-> i - l]
                              /\ b[l].alias # 0
<1>1. i \in Nat
  OBVIOUS
<1>2. CASE \E j \in 1..i : b[j].alias # 0
  <2>1. IsLastNamed(b, i, LastNamed(b, i))
    BY <1>1, <1>2, LastNamedIsLast
  <2>2. QED
    BY <1>2, <2>1 DEF IdentityAt, IsLastNamed
<1>3. CASE \A j \in 1..i : b[j].alias = 0
  BY <1>3 DEF IdentityAt
<1>4. QED
  BY <1>2, <1>3

(* On a bus whose aliases differ, no two slaves have the same identity:    *)
(* what detector, tracker and locator compare slaves by tells them apart   *)
(* (last_alias and relative_position in readSnapshot).                     *)
THEOREM IdentitiesDiffer ==
    ASSUME NEW b \in Seq(RawSlave), AliasesDiffer(b),
           NEW i \in DOMAIN b, NEW j \in DOMAIN b,
           IdentityAt(b, i) = IdentityAt(b, j)
    PROVE  i = j
<1>1. /\ DOMAIN b = 1..Len(b) /\ Len(b) \in Nat /\ i \in Nat /\ j \in Nat
  OBVIOUS
<1>2. CASE IdentityAt(b, i) = [alias |-> 0, rel |-> i - 1]
  <2>1. IdentityAt(b, j).alias = 0 /\ IdentityAt(b, j).rel = i - 1
    BY <1>2
  <2>2. IdentityAt(b, j) = [alias |-> 0, rel |-> j - 1]
    BY <2>1, IdentityCounts
  <2>3. QED
    BY <1>1, <2>1, <2>2
<1>3. CASE \E l \in 1..i : /\ IdentityAt(b, i) = [alias |-> b[l].alias, rel |-> i - l]
                           /\ b[l].alias # 0
  <2>1. PICK l \in 1..i : /\ IdentityAt(b, i) = [alias |-> b[l].alias, rel |-> i - l]
                          /\ b[l].alias # 0
    BY <1>3
  <2>2. IdentityAt(b, j).alias = b[l].alias /\ IdentityAt(b, j).rel = i - l
    BY <2>1
  <2>3. PICK m \in 1..j : IdentityAt(b, j) = [alias |-> b[m].alias, rel |-> j - m]
    <3>1. IdentityAt(b, j) # [alias |-> 0, rel |-> j - 1]
      BY <2>1, <2>2
    <3>2. QED
      BY <3>1, IdentityCounts
  <2>4. b[m].alias = b[l].alias /\ j - m = i - l
    BY <2>2, <2>3
  <2>5. m = l
    BY <1>1, <2>1, <2>4 DEF AliasesDiffer
  <2>6. QED
    BY <1>1, <2>4, <2>5
<1>4. QED
  BY <1>2, <1>3, IdentityCounts

(* The snapshot of a bus that does not change is well-formed, and has its  *)
(* slaves in order.                                                        *)
LEMMA SnapshotOfBus ==
    ASSUME NEW b \in Seq(RawSlave), NEW ts \in Nat, NEW link \in BOOLEAN
    PROVE  /\ ReadSnapshot(ts, link, b) \in NetworkSnapshot
           /\ DOMAIN ReadSnapshot(ts, link, b).slaves = DOMAIN b
           /\ \A i \in DOMAIN b :
                ReadSnapshot(ts, link, b).slaves[i].id = IdentityAt(b, i)
<1> DEFINE slave(i) == [ id |-> IdentityAt(b, i), state |-> b[i].state,
                         error |-> b[i].error ]
           slaves == [ i \in 1..Len(b) |-> slave(i) ]
<1>1. DOMAIN b = 1..Len(b) /\ Len(b) \in Nat
  OBVIOUS
<1>2. ASSUME NEW i \in DOMAIN b
      PROVE  slave(i) \in Slave
  <2>1. b[i] \in RawSlave /\ i \in Nat /\ i >= 1
           /\ \A l \in 1..i : b[l] \in RawSlave
    BY <1>1
  <2>2. IdentityAt(b, i) \in SlaveIdentity
    <3>1. \A l \in 1..i : b[l].alias \in Nat /\ i - l \in Nat
      BY <2>1 DEF RawSlave
    <3>2. i - 1 \in Nat
      BY <2>1
    <3>3. QED
      BY <3>1, <3>2, IdentityCounts DEF SlaveIdentity
  <2>3. QED
    BY <2>1, <2>2 DEF Slave, RawSlave
<1>3. slaves \in Seq(Slave) /\ Len(slaves) = Len(b)
  <2> HIDE DEF slave
  <2>1. QED
    BY <1>1, <1>2
<1> HIDE DEF slaves
<1>4. << >> \o slaves = slaves
  BY <1>3
<1>5. ReadSnapshot(ts, link, b) = [ts |-> ts, link |-> link, slaves |-> slaves]
  BY <1>4 DEF ReadSnapshot, slaves
<1>6. ReadSnapshot(ts, link, b).slaves = slaves
  BY <1>5
<1>7. \A i \in DOMAIN b : slaves[i].id = IdentityAt(b, i)
  BY <1>1 DEF slaves
<1>8. QED
  BY <1>1, <1>3, <1>5, <1>6, <1>7 DEF NetworkSnapshot

(* Who looks for a slave by its identity in the snapshot of a bus whose    *)
(* aliases differ finds that slave, at its position (std::find_if in       *)
(* locate and in the recovery's positions).                                *)
THEOREM SlaveIsFound ==
    ASSUME NEW b \in Seq(RawSlave), AliasesDiffer(b), NEW ts \in Nat,
           NEW link \in BOOLEAN, NEW i \in DOMAIN b, Valid(IdentityAt(b, i))
    PROVE  PositionOf(ReadSnapshot(ts, link, b), IdentityAt(b, i)) = i - 1
<1> DEFINE s == ReadSnapshot(ts, link, b)
           id == IdentityAt(b, i)
<1>1. /\ s \in NetworkSnapshot /\ DOMAIN s.slaves = DOMAIN b
      /\ \A k \in DOMAIN b : s.slaves[k].id = IdentityAt(b, k)
  BY SnapshotOfBus
<1> HIDE DEF s
<1>2. id \in SlaveIdentity /\ ContainsIdentity(s, id)
  <2>1. s.slaves[i] \in Slave
    BY <1>1 DEF NetworkSnapshot
  <2>2. s.slaves[i].id \in SlaveIdentity
    BY <2>1 DEF Slave
  <2>3. QED
    BY <1>1, <2>2 DEF ContainsIdentity, StableIdentities, Identities
<1> DEFINE at == PositionOf(s, id)
<1>3. at \in Int /\ at + 1 \in DOMAIN s.slaves /\ s.slaves[at + 1].id = id
  BY <1>1, <1>2, PositionIsFound
<1> HIDE DEF at
<1>4. at + 1 \in DOMAIN b /\ IdentityAt(b, at + 1) = IdentityAt(b, i)
  BY <1>1, <1>3
<1>5. at + 1 = i
  BY <1>4, IdentitiesDiffer
<1>6. at = i - 1
  BY <1>3, <1>5
<1>7. QED
  BY <1>6 DEF at, s

-----------------------------------------------------------------------------
(* The break                                                               *)

(* The walk stops at one slave at most.                                    *)
LEMMA StopsOnce ==
    ASSUME NEW p \in NetworkSnapshot, NEW c \in NetworkSnapshot,
           NEW i \in FirstStop(p, c), NEW k \in FirstStop(p, c)
    PROVE  i = k
<1>1. DOMAIN p.slaves = 1..Len(p.slaves) /\ Len(p.slaves) \in Nat
  BY DEF NetworkSnapshot
<1>2. i \in Nat /\ k \in Nat /\ i >= 1 /\ k >= 1
  BY <1>1 DEF FirstStop
<1>3. ~(i < k)
  <2> SUFFICES ASSUME i < k PROVE FALSE
    OBVIOUS
  <2>1. i \in 1..k - 1
    BY <1>2
  <2>2. QED
    BY <2>1, Zenon DEF FirstStop
<1>4. ~(k < i)
  <2> SUFFICES ASSUME k < i PROVE FALSE
    OBVIOUS
  <2>1. k \in 1..i - 1
    BY <1>2
  <2>2. QED
    BY <2>1, Zenon DEF FirstStop
<1>5. QED
  BY <1>2, <1>3, <1>4

(* When every slave before the i-th is still there, the nearest of them is *)
(* the one just before it.                                                 *)
LEMMA NearestIsNext ==
    ASSUME NEW p \in NetworkSnapshot, NEW c \in NetworkSnapshot,
           NEW i \in FirstStop(p, c)
    PROVE  /\ i = 1 => NearestAlive(p, c, i) = {}
           /\ i # 1 => NearestAlive(p, c, i) = {i - 1}
<1>1. DOMAIN p.slaves = 1..Len(p.slaves) /\ Len(p.slaves) \in Nat
  BY DEF NetworkSnapshot
<1>2. i \in Nat /\ i >= 1
  BY <1>1 DEF FirstStop
<1>3. \A j \in 1..i - 1 : StillThere(c, p.slaves[j])
  BY Zenon DEF FirstStop
<1>4. CASE i = 1
  <2>1. 1..i - 1 = {}
    BY <1>4
  <2>2. QED
    BY <1>4, <2>1 DEF NearestAlive
<1>5. CASE i # 1
  <2>1. i - 1 \in 1..i - 1 /\ (i - 1) + 1..i - 1 = {}
    BY <1>2, <1>5
  <2>2. i - 1 \in NearestAlive(p, c, i)
    BY <1>3, <2>1, Zenon DEF NearestAlive
  <2>3. ASSUME NEW k \in NearestAlive(p, c, i), k # i - 1
        PROVE  FALSE
    <3>1. k \in 1..i - 1
      BY DEF NearestAlive
    <3>2. i - 1 \in k + 1..i - 1
      BY <1>2, <2>3, <3>1
    <3>3. ~StillThere(c, p.slaves[i - 1])
      BY <3>2, Zenon DEF NearestAlive
    <3>4. QED
      BY <1>3, <2>1, <3>3
  <2>4. QED
    BY <1>5, <2>2, <2>3
<1>6. QED
  BY <1>4, <1>5

(* A boundary with a slave before it is next to the first slave that is    *)
(* gone: all slaves before that one are still there, and last_alive is     *)
(* where the last of them is now (boundary_locator.cpp).                   *)
THEOREM BoundaryIsNextToBreak ==
    ASSUME NEW p \in NetworkSnapshot, NEW c \in NetworkSnapshot,
           Locate(p, c).valid, Locate(p, c).alive >= 0
    PROVE  /\ Locate(p, c) \in [valid : BOOLEAN, alive : Nat, lost : Nat]
           /\ \E i \in 2..SlaveCount(p) :
                /\ Valid(p.slaves[i].id)
                /\ ~ContainsIdentity(c, p.slaves[i].id)
                /\ \A j \in 1..i - 1 : ContainsIdentity(c, p.slaves[j].id)
                /\ Locate(p, c).alive + 1 \in DOMAIN c.slaves
                /\ c.slaves[Locate(p, c).alive + 1].id = p.slaves[i - 1].id
<1> DEFINE stop == FirstStop(p, c)
           at == CHOOSE i \in stop : TRUE
<1>1. DOMAIN p.slaves = 1..SlaveCount(p) /\ SlaveCount(p) \in Nat
      /\ \A i \in DOMAIN p.slaves : p.slaves[i].id \in SlaveIdentity
  <2>1. p.slaves \in Seq(Slave)
    BY DEF NetworkSnapshot
  <2>2. \A i \in DOMAIN p.slaves : p.slaves[i] \in Slave
    BY <2>1
  <2>3. QED
    BY <2>1, <2>2 DEF SlaveCount, Slave
<1>2. PICK i \in stop : Valid(p.slaves[i].id)
  BY DEF Locate, InvalidBoundary
<1>3. at = i
  BY <1>2, StopsOnce
<1>4. i \in 1..SlaveCount(p) /\ ~StillThere(c, p.slaves[i])
      /\ \A j \in 1..i - 1 : StillThere(c, p.slaves[j])
  BY <1>1, <1>2 DEF FirstStop
<1>5. Locate(p, c) = [ valid |-> TRUE, lost |-> i - 1,
                       alive |-> IF NearestAlive(p, c, i) = {} THEN -1
                                 ELSE PositionOf(c, p.slaves[
                                        CHOOSE k \in NearestAlive(p, c, i) : TRUE].id) ]
  BY <1>2, <1>3 DEF Locate
<1>6. i # 1
  BY <1>2, <1>5, NearestIsNext
<1>7. (CHOOSE k \in NearestAlive(p, c, i) : TRUE) = i - 1
  BY <1>2, <1>6, NearestIsNext
<1>8. NearestAlive(p, c, i) # {}
  BY <1>2, <1>6, NearestIsNext
<1>9. Locate(p, c) = [ valid |-> TRUE, lost |-> i - 1,
                       alive |-> PositionOf(c, p.slaves[i - 1].id) ]
  BY <1>5, <1>7, <1>8
<1>10. i - 1 \in 1..i - 1 /\ i - 1 \in DOMAIN p.slaves /\ i \in 2..SlaveCount(p)
  BY <1>1, <1>4, <1>6
<1>11. ContainsIdentity(c, p.slaves[i - 1].id) /\ p.slaves[i - 1].id \in SlaveIdentity
  BY <1>1, <1>4, <1>10 DEF StillThere
<1>12. /\ PositionOf(c, p.slaves[i - 1].id) \in Int
       /\ PositionOf(c, p.slaves[i - 1].id) + 1 \in DOMAIN c.slaves
       /\ c.slaves[PositionOf(c, p.slaves[i - 1].id) + 1].id = p.slaves[i - 1].id
  BY <1>11, PositionIsFound
<1>13. Locate(p, c) \in [valid : BOOLEAN, alive : Nat, lost : Nat]
  BY <1>9, <1>10, <1>12
<1>14. QED
  BY <1>2, <1>4, <1>9, <1>10, <1>12, <1>13 DEF StillThere

=============================================================================
