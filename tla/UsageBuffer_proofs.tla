-------------------------- MODULE UsageBuffer_proofs --------------------------
(***************************************************************************)
(* Proofs about UsageBuffer, for any records, keys and days, and any sizes *)
(* of the channel and of the batches.                                      *)
(*                                                                         *)
(* AccountedFor counts places; what is inductive is that the places are    *)
(* disjoint sets, that no sequence repeats a record, and that the rows of  *)
(* the open transaction come from the part of the batch already tried.     *)
(***************************************************************************)
EXTENDS UsageBuffer, FiniteSetTheorems, SequenceTheorems, TLAPS

Distinct(s) == \A i, j \in DOMAIN s : s[i] = s[j] => i = j
DistinctRows(s) == \A i, j \in DOMAIN s : s[i].rec = s[j].rec => i = j
Recorded(s) == {s[i].rec : i \in DOMAIN s}

(* The six places, as sets of records.                                     *)
Directed == {r \in Records : direct[r] = "row"}

Apart(a, b, c, d, e, f) ==
  /\ a \cup b \cup c \cup d \cup e \cup f = Records
  /\ a \cap (b \cup c \cup d \cup e \cup f) = {}
  /\ b \cap (c \cup d \cup e \cup f) = {}
  /\ c \cap (d \cup e \cup f) = {}
  /\ d \cap (e \cup f) = {}
  /\ e \cap f = {}

PlacesApart == Apart(due, Items(buffer), Items(batch), Directed, Recorded(rows), dropped)

(* What is where while the program is down, and while no batch is written. *)
AtRest ==
  /\ loop = "down" => buffer = <<>> /\ batch = <<>> /\ \A r \in Records : direct[r] = "no"
  /\ loop \in {"down", "wait"} => tx = NoTx

TxInv ==
  /\ tx \in [at : Nat, rows : Seq(Row), aggs : Seq(Row)]
  /\ DistinctRows(tx.rows)
  /\ \A i \in DOMAIN tx.rows :
       \E j \in DOMAIN batch : /\ batch[j] = tx.rows[i].rec
                               /\ loop = "writing" => j <= tx.at

(* A row that the direct path is about to count has been written.          *)
DirectInv == \A r \in Records : direct[r] = "agg" => r \in Recorded(rows)

NoRepeats == Distinct(buffer) /\ Distinct(batch) /\ DistinctRows(rows)

IInv == TypeOK /\ AtRest /\ TxInv /\ DirectInv /\ NoRepeats /\ PlacesApart
-----------------------------------------------------------------------------
(* The records of a sequence, and of a table, when it grows and shrinks.   *)
LEMMA ItemsOfEmpty == Items(<<>>) = {} /\ Recorded(<<>>) = {} /\ Distinct(<<>>) /\ DistinctRows(<<>>)
BY DEF Items, Recorded, Distinct, DistinctRows

LEMMA ItemsOfAppend ==
  ASSUME NEW S, NEW s \in Seq(S), NEW e \in S
  PROVE  /\ Items(Append(s, e)) = Items(s) \cup {e}
         /\ Distinct(s) /\ e \notin Items(s) => Distinct(Append(s, e))
<1>1. /\ Append(s, e) \in Seq(S) /\ Len(Append(s, e)) = Len(s) + 1
      /\ \A i \in 1 .. Len(s) : Append(s, e)[i] = s[i]
      /\ Append(s, e)[Len(s) + 1] = e
  BY AppendProperties
<1>2. DOMAIN s = 1 .. Len(s) /\ Len(s) \in Nat /\ DOMAIN Append(s, e) = 1 .. (Len(s) + 1)
  BY <1>1, LenProperties
<1>3. /\ \A i \in DOMAIN s : i \in DOMAIN Append(s, e) /\ Append(s, e)[i] = s[i]
      /\ \A i \in DOMAIN Append(s, e) :
           (i \in DOMAIN s /\ Append(s, e)[i] = s[i]) \/ (i = Len(s) + 1 /\ Append(s, e)[i] = e)
      /\ Len(s) + 1 \in DOMAIN Append(s, e)
  BY <1>1, <1>2
<1>4. Items(Append(s, e)) = Items(s) \cup {e}
  <2>1. Items(Append(s, e)) \subseteq Items(s) \cup {e}
    BY <1>3 DEF Items
  <2>2. Items(s) \cup {e} \subseteq Items(Append(s, e))
    BY <1>1, <1>3 DEF Items
  <2>3. QED
    BY <2>1, <2>2
<1>5. ASSUME Distinct(s), e \notin Items(s) PROVE Distinct(Append(s, e))
  BY <1>3, <1>5 DEF Items, Distinct
<1>6. QED
  BY <1>4, <1>5

LEMMA ItemsOfTail ==
  ASSUME NEW S, NEW s \in Seq(S), s # <<>>
  PROVE  /\ Items(s) = {Head(s)} \cup Items(Tail(s))
         /\ Distinct(s) => Distinct(Tail(s)) /\ Head(s) \notin Items(Tail(s))
<1>1. /\ Tail(s) \in Seq(S) /\ Len(Tail(s)) = Len(s) - 1
      /\ \A i \in 1 .. Len(Tail(s)) : Tail(s)[i] = s[i + 1]
      /\ Head(s) = s[1]
  BY HeadTailProperties
<1>2. DOMAIN s = 1 .. Len(s) /\ Len(s) \in Nat \ {0} /\ DOMAIN Tail(s) = 1 .. (Len(s) - 1)
  BY <1>1, LenProperties, EmptySeq
<1>3. \A i \in DOMAIN s : i = 1 \/ (i - 1 \in DOMAIN Tail(s) /\ s[i] = Tail(s)[i - 1])
  BY <1>1, <1>2
<1>4. Items(s) = {Head(s)} \cup Items(Tail(s))
  <2>1. Items(s) \subseteq {Head(s)} \cup Items(Tail(s))
    BY <1>1, <1>3 DEF Items
  <2>2. 1 \in DOMAIN s /\ \A i \in DOMAIN Tail(s) : i + 1 \in DOMAIN s /\ Tail(s)[i] = s[i + 1]
    BY <1>1, <1>2
  <2>3. {Head(s)} \cup Items(Tail(s)) \subseteq Items(s)
    BY <1>1, <2>2 DEF Items
  <2>4. QED
    BY <2>1, <2>3
<1>5. ASSUME Distinct(s) PROVE Distinct(Tail(s)) /\ Head(s) \notin Items(Tail(s))
  <2>1. /\ 1 \in DOMAIN s /\ s[1] = Head(s)
        /\ \A i \in DOMAIN Tail(s) : /\ i \in Nat /\ i + 1 \in DOMAIN s /\ i + 1 # 1
                                     /\ Tail(s)[i] = s[i + 1]
    BY <1>1, <1>2
  <2>2. ASSUME NEW i \in DOMAIN Tail(s), NEW j \in DOMAIN Tail(s), Tail(s)[i] = Tail(s)[j]
        PROVE  i = j
    <3>1. i + 1 = j + 1
      BY <1>5, <2>1, <2>2 DEF Distinct
    <3>2. QED
      BY <2>1, <3>1
  <2>3. ASSUME NEW i \in DOMAIN Tail(s) PROVE Tail(s)[i] # Head(s)
    BY <1>5, <2>1 DEF Distinct
  <2>4. QED
    BY <2>2, <2>3 DEF Items, Distinct
<1>6. QED
  BY <1>4, <1>5

LEMMA RecordedOfAppend ==
  ASSUME NEW s \in Seq(Row), NEW e \in Row
  PROVE  /\ Recorded(Append(s, e)) = Recorded(s) \cup {e.rec}
         /\ DistinctRows(s) /\ e.rec \notin Recorded(s) => DistinctRows(Append(s, e))
<1>1. /\ Append(s, e) \in Seq(Row) /\ Len(Append(s, e)) = Len(s) + 1
      /\ \A i \in 1 .. Len(s) : Append(s, e)[i] = s[i]
      /\ Append(s, e)[Len(s) + 1] = e
  BY AppendProperties
<1>2. DOMAIN s = 1 .. Len(s) /\ Len(s) \in Nat /\ DOMAIN Append(s, e) = 1 .. (Len(s) + 1)
  BY <1>1, LenProperties
<1>3. /\ \A i \in DOMAIN s : i \in DOMAIN Append(s, e) /\ Append(s, e)[i] = s[i]
      /\ \A i \in DOMAIN Append(s, e) :
           (i \in DOMAIN s /\ Append(s, e)[i] = s[i]) \/ (i = Len(s) + 1 /\ Append(s, e)[i] = e)
      /\ Len(s) + 1 \in DOMAIN Append(s, e)
  BY <1>1, <1>2
<1>4. Recorded(Append(s, e)) = Recorded(s) \cup {e.rec}
  <2>1. Recorded(Append(s, e)) \subseteq Recorded(s) \cup {e.rec}
    BY <1>3 DEF Recorded
  <2>2. Recorded(s) \cup {e.rec} \subseteq Recorded(Append(s, e))
    BY <1>1, <1>3 DEF Recorded
  <2>3. QED
    BY <2>1, <2>2
<1>5. ASSUME DistinctRows(s), e.rec \notin Recorded(s)
      PROVE  DistinctRows(Append(s, e))
  BY <1>3, <1>5 DEF Recorded, DistinctRows
<1>6. QED
  BY <1>4, <1>5

LEMMA RecordedOfConcat ==
  ASSUME NEW s \in Seq(Row), NEW t \in Seq(Row)
  PROVE  /\ Recorded(s \o t) = Recorded(s) \cup Recorded(t)
         /\ DistinctRows(s) /\ DistinctRows(t) /\ Recorded(s) \cap Recorded(t) = {}
              => DistinctRows(s \o t)
<1> DEFINE u == s \o t
           n == Len(s)
           m == Len(t)
<1>1. /\ u \in Seq(Row) /\ Len(u) = n + m
      /\ \A i \in 1 .. (n + m) : u[i] = IF i <= n THEN s[i] ELSE t[i - n]
  BY ConcatProperties
<1>2. /\ n \in Nat /\ m \in Nat
      /\ DOMAIN s = 1 .. n /\ DOMAIN t = 1 .. m /\ DOMAIN u = 1 .. (n + m)
  BY <1>1, LenProperties
<1> HIDE DEF u, n, m
<1>3. /\ \A i \in DOMAIN s : i \in DOMAIN u /\ u[i] = s[i]
      /\ \A i \in DOMAIN t : i + n \in DOMAIN u /\ u[i + n] = t[i]
      /\ \A i \in DOMAIN u : \/ i \in DOMAIN s /\ u[i] = s[i]
                             \/ i - n \in DOMAIN t /\ u[i] = t[i - n]
  BY <1>1, <1>2
<1>4. Recorded(u) = Recorded(s) \cup Recorded(t)
  <2>1. Recorded(u) \subseteq Recorded(s) \cup Recorded(t)
    BY <1>3 DEF Recorded
  <2>2. Recorded(s) \cup Recorded(t) \subseteq Recorded(u)
    BY <1>3 DEF Recorded
  <2>3. QED
    BY <2>1, <2>2
<1>5. ASSUME DistinctRows(s), DistinctRows(t), Recorded(s) \cap Recorded(t) = {}
      PROVE  DistinctRows(u)
  <2>1. SUFFICES ASSUME NEW i \in DOMAIN u, NEW j \in DOMAIN u, u[i].rec = u[j].rec
                 PROVE  i = j
    BY DEF DistinctRows
  <2>2. i \in Nat /\ j \in Nat
    BY <1>2
  <2>3. CASE i \in DOMAIN s /\ u[i] = s[i] /\ j \in DOMAIN s /\ u[j] = s[j]
    BY <2>1, <2>3, <1>5 DEF DistinctRows
  <2>4. CASE i - n \in DOMAIN t /\ u[i] = t[i - n] /\ j - n \in DOMAIN t /\ u[j] = t[j - n]
    <3>1. i - n = j - n
      BY <2>1, <2>4, <1>5 DEF DistinctRows
    <3>2. QED
      BY <3>1, <2>2, <1>2
  <2>5. CASE i \in DOMAIN s /\ u[i] = s[i] /\ j - n \in DOMAIN t /\ u[j] = t[j - n]
    BY <2>1, <2>5, <1>5 DEF Recorded
  <2>6. CASE j \in DOMAIN s /\ u[j] = s[j] /\ i - n \in DOMAIN t /\ u[i] = t[i - n]
    BY <2>1, <2>6, <1>5 DEF Recorded
  <2>7. QED
    BY <2>3, <2>4, <2>5, <2>6, <1>3
<1>6. QED
  BY <1>4, <1>5 DEF u
-----------------------------------------------------------------------------
(* What Count counts: positions of a table, as a finite set.               *)
Matching(s, g, d) == {i \in DOMAIN s : KeyOf[s[i].rec] = g /\ s[i].day = d}

LEMMA PositionsFinite ==
  ASSUME NEW s \in Seq(Row), NEW P \in SUBSET (DOMAIN s)
  PROVE  IsFiniteSet(P) /\ Cardinality(P) \in Nat
<1>1. DOMAIN s = 1 .. Len(s) /\ Len(s) \in Nat
  BY LenProperties
<1>2. IsFiniteSet(DOMAIN s)
  BY <1>1, FS_Interval
<1>3. IsFiniteSet(P)
  BY <1>2, FS_Subset
<1>4. QED
  BY <1>3, FS_CardinalityType

LEMMA CountType ==
  ASSUME NEW s \in Seq(Row), NEW g, NEW d
  PROVE  /\ Count(s, g, d) = Cardinality(Matching(s, g, d))
         /\ IsFiniteSet(Matching(s, g, d)) /\ Count(s, g, d) \in Nat
<1>1. Matching(s, g, d) \in SUBSET (DOMAIN s)
  BY DEF Matching
<1>2. Count(s, g, d) = Cardinality(Matching(s, g, d))
  BY DEF Count, Matching
<1>3. QED
  BY <1>1, <1>2, PositionsFinite

(* A row more is counted for its key and its day, and for no other.        *)
LEMMA CountOfAppend ==
  ASSUME NEW s \in Seq(Row), NEW e \in Row, NEW g, NEW d
  PROVE  Count(Append(s, e), g, d) =
           Count(s, g, d) + (IF KeyOf[e.rec] = g /\ e.day = d THEN 1 ELSE 0)
<1> DEFINE n == Len(s) + 1
           u == Append(s, e)
<1>1. /\ u \in Seq(Row) /\ \A i \in 1 .. Len(s) : u[i] = s[i]
      /\ u[n] = e /\ Len(u) = n
  BY AppendProperties
<1>2. Len(s) \in Nat /\ DOMAIN s = 1 .. Len(s) /\ DOMAIN u = 1 .. n
  BY <1>1, LenProperties
<1>3. n \notin Matching(s, g, d) /\ n \in Nat /\ DOMAIN u = DOMAIN s \cup {n}
  BY <1>2 DEF Matching
<1> HIDE DEF n, u
<1>4. CASE KeyOf[e.rec] = g /\ e.day = d
  <2>1. Matching(u, g, d) = Matching(s, g, d) \cup {n}
    BY <1>1, <1>2, <1>3, <1>4 DEF Matching
  <2>2. Cardinality(Matching(u, g, d)) = Cardinality(Matching(s, g, d)) + 1
    BY <2>1, <1>3, CountType, FS_AddElement
  <2>3. QED
    BY <2>2, <1>1, <1>4, CountType DEF u
<1>5. CASE ~(KeyOf[e.rec] = g /\ e.day = d)
  <2>1. Matching(u, g, d) = Matching(s, g, d)
    BY <1>1, <1>2, <1>3, <1>5 DEF Matching
  <2>2. Count(u, g, d) = Count(s, g, d) /\ Count(s, g, d) \in Nat
    BY <2>1, <1>1, CountType
  <2>3. QED
    BY <2>2, <1>5 DEF u
<1>6. QED
  BY <1>4, <1>5

(* The rows of a committed transaction are counted after those before.     *)
LEMMA CountOfConcat ==
  ASSUME NEW s \in Seq(Row), NEW t \in Seq(Row), NEW g, NEW d
  PROVE  Count(s \o t, g, d) = Count(s, g, d) + Count(t, g, d)
<1> DEFINE n == Len(s)
           m == Len(t)
           u == s \o t
           A == Matching(s, g, d)
           B == Matching(t, g, d)
           C == {i \in (n + 1) .. (n + m) : i - n \in B}
           f == [i \in B |-> i + n]
<1>1. /\ u \in Seq(Row) /\ Len(u) = n + m
      /\ \A i \in 1 .. (n + m) : u[i] = IF i <= n THEN s[i] ELSE t[i - n]
  BY ConcatProperties
<1>2. /\ n \in Nat /\ m \in Nat
      /\ DOMAIN s = 1 .. n /\ DOMAIN t = 1 .. m /\ DOMAIN u = 1 .. (n + m)
  BY <1>1, LenProperties
<1>3. Matching(u, g, d) = A \cup C
  <2> HIDE DEF n, m, u
  <2>1. \A i \in 1 .. n : u[i] = s[i] /\ i \in DOMAIN u
    BY <1>1, <1>2
  <2>2. \A i \in (n + 1) .. (n + m) : u[i] = t[i - n] /\ i \in DOMAIN u /\ i - n \in DOMAIN t
    BY <1>1, <1>2
  <2>3. \A i \in DOMAIN u : i \in 1 .. n \/ i \in (n + 1) .. (n + m)
    BY <1>2
  <2>4. QED
    BY <1>2, <2>1, <2>2, <2>3 DEF Matching
<1>4. A \cap C = {}
  <2> HIDE DEF n, m, u
  <2>1. QED
    BY <1>2 DEF Matching
<1>5. f \in Bijection(B, C)
  <2> HIDE DEF n, m, u
  <2>1. \A i \in B : i \in 1 .. m
    BY <1>2 DEF Matching
  <2>2. \A i \in B : i + n \in C /\ (i + n) - n = i
    BY <1>2, <2>1
  <2>3. f \in [B -> C]
    BY <2>2
  <2>4. \A i, j \in B : f[i] = f[j] => i = j
    BY <2>1, <1>2
  <2>5. \A k \in C : k - n \in B /\ f[k - n] = k
    BY <1>2
  <2> HIDE DEF f, B, C
  <2>6. QED
    BY <2>3, <2>4, <2>5 DEF Bijection, Injection, Surjection, IsInjective
<1>6. ExistsBijection(B, C)
  BY <1>5 DEF ExistsBijection
<1>7. IsFiniteSet(C) /\ Cardinality(C) = Cardinality(B)
  BY <1>6, CountType, FS_Bijection
<1>8. Cardinality(A \cup C) = Cardinality(A) + Cardinality(C)
  <2>1. Cardinality(A \cup C) = Cardinality(A) + Cardinality(C) - Cardinality(A \cap C)
    BY <1>7, CountType, FS_Union
  <2>2. Cardinality(A) \in Nat /\ Cardinality(C) \in Nat
    BY <1>7, CountType
  <2>3. Cardinality(A \cap C) = 0
    BY <1>4, FS_EmptySet
  <2>4. QED
    BY <2>1, <2>2, <2>3
<1>9. QED
  BY <1>1, <1>3, <1>7, <1>8, CountType
-----------------------------------------------------------------------------
(* The initial state, and one lemma for each action.                       *)
LEMMA InitSound == ASSUME Init PROVE IInv
<1>1. /\ starts = 0 /\ day = 1 /\ loop = "down" /\ due = Records
      /\ buffer = <<>> /\ batch = <<>> /\ rows = <<>> /\ dropped = {}
      /\ backfill = "done" /\ blemished = FALSE
  BY DEF Init
<1>2. /\ direct = [r \in Records |-> "no"]
      /\ daily = [g \in Groups \X Days |-> 0] /\ tx = NoTx
  BY DEF Init
<1>3. NoTx.at = 0 /\ NoTx.rows = <<>> /\ NoTx.aggs = <<>>
  BY DEF NoTx
<1>4. <<>> \in Seq(Records) /\ <<>> \in Seq(Row) /\ Len(<<>>) = 0 /\ DOMAIN <<>> = {}
  BY EmptySeq
<1>5. TypeOK
  <2>1. starts \in 0 .. MaxStarts /\ day \in Days
    BY <1>1, BoundsAssumption DEF Days
  <2>2. Len(buffer) <= Capacity /\ Len(batch) <= BatchSize
    BY <1>1, <1>4, SizesAssumption
  <2>3. tx.at \in 0 .. Len(batch)
    BY <1>1, <1>2, <1>3, <1>4
  <2>4. direct \in [Records -> {"no", "row", "agg"}] /\ daily \in [Groups \X Days -> Nat]
    BY <1>2
  <2>5. QED
    BY <1>1, <1>2, <1>3, <1>4, <2>1, <2>2, <2>3, <2>4 DEF TypeOK
<1>6. AtRest
  BY <1>1, <1>2 DEF AtRest
<1>7. TxInv
  <2>1. tx \in [at : Nat, rows : Seq(Row), aggs : Seq(Row)]
    BY <1>2, <1>4 DEF NoTx
  <2>2. QED
    BY <2>1, <1>2, <1>3, <1>4, ItemsOfEmpty DEF TxInv
<1>8. DirectInv
  BY <1>2 DEF DirectInv
<1>9. NoRepeats
  BY <1>1, ItemsOfEmpty DEF NoRepeats
<1>10. PlacesApart
  <2>1. Directed = {}
    BY <1>2 DEF Directed
  <2>2. QED
    BY <2>1, <1>1, ItemsOfEmpty DEF PlacesApart, Apart
<1>11. QED
  BY <1>5, <1>6, <1>7, <1>8, <1>9, <1>10 DEF IInv

LEMMA MigratedType == ASSUME TypeOK
  PROVE  /\ Migrated \in [Groups \X Days -> Nat]
         /\ Backfilled \in [Groups \X Days -> Nat]
<1>1. rows \in Seq(Row) /\ daily \in [Groups \X Days -> Nat]
  BY DEF TypeOK
<1>2. \A g \in Groups \X Days : Count(rows, g[1], g[2]) \in Nat /\ daily[g] \in Nat
  BY <1>1, CountType
<1>3. \A g \in Groups \X Days : Migrated[g] \in Nat
  <2>1. SUFFICES ASSUME NEW g \in Groups \X Days PROVE Migrated[g] \in Nat
    OBVIOUS
  <2>2. Migrated[g] = LET n == Count(rows, g[1], g[2])
                      IN  CASE n = 0        -> daily[g]
                            [] g[1] = NoKey -> daily[g] + n
                            [] OTHER        -> n
    BY DEF Migrated
  <2>3. \/ Migrated[g] = daily[g]
        \/ Migrated[g] = daily[g] + Count(rows, g[1], g[2])
        \/ Migrated[g] = Count(rows, g[1], g[2])
    BY <2>2
  <2>4. QED
    BY <2>3, <1>2
<1>4. \A g \in Groups \X Days : Backfilled[g] \in Nat
  BY <1>2 DEF Backfilled
<1>5. Migrated = [g \in Groups \X Days |-> Migrated[g]]
  BY DEF Migrated
<1>6. Backfilled = [g \in Groups \X Days |-> Backfilled[g]]
  BY DEF Backfilled
<1>7. QED
  BY <1>3, <1>4, <1>5, <1>6

(* The parts of the invariant that are not about usage_daily hold again    *)
(* when nothing they speak of changes.                                     *)
LEMMA PlacesKept ==
  ASSUME IInv, UNCHANGED <<due, buffer, batch, tx, direct, rows, dropped>>,
         loop' = loop \/ (loop = "down" /\ loop' = "wait")
  PROVE  AtRest' /\ TxInv' /\ DirectInv' /\ NoRepeats' /\ PlacesApart'
<1>1. /\ due' = due /\ buffer' = buffer /\ batch' = batch /\ tx' = tx
      /\ direct' = direct /\ rows' = rows /\ dropped' = dropped
  OBVIOUS
<1>2. AtRest'
  BY <1>1 DEF AtRest, IInv
<1>3. TxInv'
  BY <1>1 DEF TxInv, IInv
<1>4. DirectInv' /\ NoRepeats' /\ PlacesApart'
  BY <1>1 DEF DirectInv, NoRepeats, PlacesApart, Directed, IInv
<1>5. QED
  BY <1>2, <1>3, <1>4

LEMMA StartSound == ASSUME IInv, Start PROVE IInv'
<1>1. /\ starts < MaxStarts /\ starts' = starts + 1 /\ loop = "down" /\ loop' = "wait"
      /\ backfill' = "delete" /\ daily' \in {daily, Migrated} /\ blemished' \in BOOLEAN
      /\ UNCHANGED <<day, due, buffer, batch, tx, direct, rows, dropped>>
  BY DEF Start, Blemish, queue, IInv, TypeOK
<1>2. AtRest' /\ TxInv' /\ DirectInv' /\ NoRepeats' /\ PlacesApart'
  BY <1>1, PlacesKept
<1>3. TypeOK'
  <2>1. daily' \in [Groups \X Days -> Nat]
    BY <1>1, MigratedType DEF IInv, TypeOK
  <2>2. starts' \in 0 .. MaxStarts
    BY <1>1, BoundsAssumption DEF IInv, TypeOK
  <2>3. Len(batch') < BatchSize
    BY <1>1, SizesAssumption, EmptySeq DEF IInv, AtRest
  <2>4. QED
    BY <1>1, <2>1, <2>2, <2>3 DEF IInv, TypeOK
<1>4. QED
  BY <1>2, <1>3 DEF IInv

LEMMA BackfillSound == ASSUME IInv, BackfillDelete \/ BackfillInsert PROVE IInv'
<1>1. /\ daily' \in {daily, Backfilled, [g \in Groups \X Days |-> 0]}
      /\ backfill' \in {"insert", "done"} /\ blemished' \in BOOLEAN
      /\ UNCHANGED <<starts, day, loop, due, buffer, batch, tx, direct, rows, dropped>>
  BY DEF BackfillDelete, BackfillInsert, Blemish, queue, IInv, TypeOK
<1>2. AtRest' /\ TxInv' /\ DirectInv' /\ NoRepeats' /\ PlacesApart'
  BY <1>1, PlacesKept
<1>3. TypeOK'
  <2>1. daily' \in [Groups \X Days -> Nat]
    BY <1>1, MigratedType DEF IInv, TypeOK
  <2>2. QED
    BY <1>1, <2>1 DEF IInv, TypeOK
<1>4. QED
  BY <1>2, <1>3 DEF IInv

LEMMA MidnightSound == ASSUME IInv, Midnight PROVE IInv'
<1>1. /\ day < LastDay /\ day' = day + 1
      /\ UNCHANGED <<starts, loop, due, buffer, batch, tx, direct, rows, daily, backfill,
                     dropped, blemished>>
  BY DEF Midnight, queue, tables
<1>2. AtRest' /\ TxInv' /\ DirectInv' /\ NoRepeats' /\ PlacesApart'
  BY <1>1, PlacesKept
<1>3. day' \in Days
  BY <1>1, BoundsAssumption DEF Days, IInv, TypeOK
<1>4. QED
  BY <1>1, <1>2, <1>3 DEF IInv, TypeOK

LEMMA StopSound == ASSUME IInv, Stop PROVE IInv'
<1>1. PICK cut \in SUBSET due :
        /\ due' = due \ cut
        /\ dropped' = dropped \cup cut \cup Items(buffer) \cup Items(batch)
                        \cup {r \in Records : direct[r] = "row"}
  BY DEF Stop
<1>2. /\ loop' = "down" /\ buffer' = <<>> /\ batch' = <<>> /\ tx' = NoTx
      /\ direct' = [r \in Records |-> "no"] /\ backfill' = "done" /\ blemished' \in BOOLEAN
      /\ UNCHANGED <<starts, day, rows, daily>>
  BY DEF Stop, Blemish, tables, IInv, TypeOK
<1>3. NoTx.at = 0 /\ NoTx.rows = <<>> /\ NoTx.aggs = <<>>
  BY DEF NoTx
<1>4. <<>> \in Seq(Records) /\ <<>> \in Seq(Row) /\ Len(<<>>) = 0 /\ DOMAIN <<>> = {}
  BY EmptySeq
<1>5. Apart(due, Items(buffer), Items(batch), Directed, Recorded(rows), dropped)
  BY DEF IInv, PlacesApart
<1>6. TypeOK'
  <2>1. due' \subseteq Records /\ dropped' \subseteq Records
    BY <1>1, <1>5 DEF IInv, TypeOK, Apart
  <2>2. Len(buffer') <= Capacity /\ Len(batch') <= BatchSize
    BY <1>2, <1>4, SizesAssumption
  <2>3. tx'.at \in 0 .. Len(batch')
    BY <1>2, <1>3, <1>4
  <2>4. direct' \in [Records -> {"no", "row", "agg"}]
    BY <1>2
  <2>5. QED
    BY <1>2, <1>3, <1>4, <2>1, <2>2, <2>3, <2>4 DEF IInv, TypeOK
<1>7. AtRest'
  BY <1>2 DEF AtRest
<1>8. TxInv'
  <2>1. tx' \in [at : Nat, rows : Seq(Row), aggs : Seq(Row)]
    BY <1>2, <1>4 DEF NoTx
  <2>2. QED
    BY <2>1, <1>2, <1>3, <1>4, ItemsOfEmpty DEF TxInv
<1>9. DirectInv'
  BY <1>2 DEF DirectInv
<1>10. NoRepeats'
  BY <1>2, ItemsOfEmpty DEF NoRepeats, IInv
<1>11. PlacesApart'
  <2>1. Directed' = {}
    BY <1>2 DEF Directed
  <2>2. Items(buffer') = {} /\ Items(batch') = {} /\ Recorded(rows') = Recorded(rows)
    BY <1>2, ItemsOfEmpty
  <2>3. dropped' = dropped \cup cut \cup Items(buffer) \cup Items(batch) \cup Directed
    BY <1>1 DEF Directed
  <2>4. Apart(due', {}, {}, {}, Recorded(rows), dropped')
    BY <1>1, <1>5, <2>3 DEF Apart
  <2>5. QED
    BY <2>1, <2>2, <2>4 DEF PlacesApart
<1>12. QED
  BY <1>6, <1>7, <1>8, <1>9, <1>10, <1>11 DEF IInv

(* A record that is handed over is not on the direct path already.         *)
LEMMA DueIsElsewhere ==
  ASSUME IInv, NEW r \in due
  PROVE  r \in Records /\ direct[r] = "no" /\ r \notin Items(buffer)
<1>1. Apart(due, Items(buffer), Items(batch), Directed, Recorded(rows), dropped)
  BY DEF IInv, PlacesApart
<1>2. r \in Records /\ r \notin Items(buffer) /\ r \notin Directed /\ r \notin Recorded(rows)
  BY <1>1 DEF Apart
<1>3. direct[r] \in {"no", "row", "agg"}
  BY <1>2 DEF IInv, TypeOK
<1>4. QED
  BY <1>2, <1>3 DEF Directed, DirectInv, IInv

LEMMA InsertSound == ASSUME IInv, NEW r \in Records, Insert(r) PROVE IInv'
<1>1. /\ loop # "down" /\ r \in due /\ due' = due \ {r}
      /\ UNCHANGED <<starts, day, loop, batch, tx, rows, daily, backfill, dropped, blemished>>
  BY DEF Insert, tables
<1>2. Apart(due, Items(buffer), Items(batch), Directed, Recorded(rows), dropped)
  BY DEF IInv, PlacesApart
<1>3. buffer \in Seq(Records) /\ Len(buffer) \in Nat /\ direct[r] = "no" /\ r \notin Items(buffer)
  BY <1>1, DueIsElsewhere, EmptySeq, LenProperties DEF IInv, TypeOK
<1>4. AtRest' /\ TxInv'
  BY <1>1 DEF AtRest, TxInv, IInv
<1>5. CASE Len(buffer) < Capacity
  <2>1. buffer' = Append(buffer, r) /\ direct' = direct
    BY <1>5 DEF Insert
  <2>2. /\ buffer' \in Seq(Records) /\ Len(buffer') = Len(buffer) + 1
        /\ Items(buffer') = Items(buffer) \cup {r} /\ Distinct(buffer')
    BY <2>1, <1>3, AppendProperties, ItemsOfAppend DEF IInv, NoRepeats
  <2>3. TypeOK'
    <3>1. Len(buffer') <= Capacity
      BY <1>3, <1>5, <2>2, SizesAssumption
    <3>2. QED
      BY <1>1, <2>1, <2>2, <3>1 DEF IInv, TypeOK
  <2>4. DirectInv' /\ NoRepeats'
    BY <1>1, <2>1, <2>2 DEF DirectInv, NoRepeats, IInv
  <2>5. Apart(due', Items(buffer'), Items(batch), Directed, Recorded(rows), dropped)
    BY <1>1, <1>2, <2>2 DEF Apart
  <2>6. PlacesApart'
    BY <1>1, <2>1, <2>5 DEF PlacesApart, Directed
  <2>7. QED
    BY <1>4, <2>3, <2>4, <2>6 DEF IInv
<1>6. CASE ~(Len(buffer) < Capacity)
  <2>1. direct' = [direct EXCEPT ![r] = "row"] /\ buffer' = buffer
    BY <1>6 DEF Insert
  <2>2. direct \in [Records -> {"no", "row", "agg"}]
    BY DEF IInv, TypeOK
  <2>3. direct' \in [Records -> {"no", "row", "agg"}]
    BY <2>1, <2>2
  <2>4. TypeOK'
    BY <1>1, <2>1, <2>3 DEF IInv, TypeOK
  <2>5. DirectInv' /\ NoRepeats'
    BY <1>1, <2>1, <2>2 DEF DirectInv, NoRepeats, IInv
  <2>6. Directed' = Directed \cup {r}
    BY <2>1, <2>2 DEF Directed
  <2>7. Apart(due', Items(buffer), Items(batch), Directed', Recorded(rows), dropped)
    BY <1>1, <1>2, <2>6 DEF Apart
  <2>8. PlacesApart'
    BY <1>1, <2>1, <2>7 DEF PlacesApart
  <2>9. AtRest'
    BY <1>1, <1>4, <2>1 DEF AtRest, IInv
  <2>10. QED
    BY <1>4, <2>4, <2>5, <2>8, <2>9 DEF IInv
<1>7. QED
  BY <1>5, <1>6

LEMMA DirectRowSound == ASSUME IInv, NEW r \in Records, DirectRow(r) PROVE IInv'
<1>1. /\ direct[r] = "row"
      /\ UNCHANGED <<starts, day, loop, due, buffer, batch, tx, daily, backfill, blemished>>
  BY DEF DirectRow, queue
<1>2. Apart(due, Items(buffer), Items(batch), Directed, Recorded(rows), dropped)
  BY DEF IInv, PlacesApart
<1>3. /\ rows \in Seq(Row) /\ direct \in [Records -> {"no", "row", "agg"}]
      /\ day \in Days
  BY DEF IInv, TypeOK
<1>4. r \in Directed /\ r \notin Recorded(rows)
  BY <1>1, <1>2 DEF Directed, Apart
<1>5. TxInv'
  BY <1>1 DEF TxInv, IInv
<1>6. loop # "down"
  BY <1>1 DEF IInv, AtRest
<1>7. AtRest'
  BY <1>1, <1>6 DEF IInv, AtRest
<1>8. CASE /\ rows' = Append(rows, [rec |-> r, day |-> day])
           /\ direct' = [direct EXCEPT ![r] = "agg"] /\ dropped' = dropped
  <2> DEFINE e == [rec |-> r, day |-> day]
  <2>1. e \in Row /\ e.rec = r
    BY <1>3 DEF Row
  <2>2. rows' = Append(rows, e)
    BY <1>8
  <2> HIDE DEF e
  <2>3. rows' \in Seq(Row) /\ Recorded(rows') = Recorded(rows) \cup {r} /\ DistinctRows(rows')
    BY <2>1, <2>2, <1>3, <1>4, AppendProperties, RecordedOfAppend DEF IInv, NoRepeats
  <2>4. direct' \in [Records -> {"no", "row", "agg"}]
    BY <1>3, <1>8
  <2>5. TypeOK'
    BY <1>1, <1>8, <2>3, <2>4 DEF IInv, TypeOK
  <2>6. DirectInv'
    BY <1>3, <1>8, <2>3 DEF DirectInv, IInv
  <2>7. NoRepeats'
    BY <1>1, <2>3 DEF NoRepeats, IInv
  <2>8. Directed' = Directed \ {r}
    BY <1>3, <1>8 DEF Directed
  <2>9. Apart(due, Items(buffer), Items(batch), Directed', Recorded(rows'), dropped)
    BY <1>2, <1>4, <2>3, <2>8 DEF Apart
  <2>10. PlacesApart'
    BY <1>1, <1>8, <2>9 DEF PlacesApart
  <2>11. QED
    BY <1>5, <1>7, <2>5, <2>6, <2>7, <2>10 DEF IInv
<1>9. CASE /\ direct' = [direct EXCEPT ![r] = "no"] /\ dropped' = dropped \cup {r}
           /\ rows' = rows
  <2>1. direct' \in [Records -> {"no", "row", "agg"}]
    BY <1>3, <1>9
  <2>2. TypeOK'
    BY <1>1, <1>9, <2>1 DEF IInv, TypeOK
  <2>3. DirectInv' /\ NoRepeats'
    BY <1>1, <1>3, <1>9 DEF DirectInv, NoRepeats, IInv
  <2>4. Directed' = Directed \ {r}
    BY <1>3, <1>9 DEF Directed
  <2>5. Apart(due, Items(buffer), Items(batch), Directed', Recorded(rows), dropped')
    BY <1>2, <1>4, <1>9, <2>4 DEF Apart
  <2>6. PlacesApart'
    BY <1>1, <1>9, <2>5 DEF PlacesApart
  <2>7. QED
    BY <1>5, <1>7, <2>2, <2>3, <2>6 DEF IInv
<1>10. QED
  BY <1>8, <1>9 DEF DirectRow

LEMMA DirectAggSound == ASSUME IInv, NEW r \in Records, DirectAgg(r) PROVE IInv'
<1>1. /\ direct[r] = "agg" /\ direct' = [direct EXCEPT ![r] = "no"] /\ blemished' \in BOOLEAN
      /\ \/ daily' = [daily EXCEPT ![<<KeyOf[r], day>>] = @ + 1]
         \/ daily' = daily
      /\ UNCHANGED <<starts, day, loop, due, buffer, batch, tx, rows, backfill, dropped>>
  BY DEF DirectAgg, Blemish, queue, IInv, TypeOK
<1>2. /\ direct \in [Records -> {"no", "row", "agg"}] /\ daily \in [Groups \X Days -> Nat]
      /\ day \in Days
  BY DEF IInv, TypeOK
<1>3. loop # "down"
  BY <1>1 DEF IInv, AtRest
<1>4. AtRest' /\ TxInv'
  BY <1>1, <1>3 DEF IInv, AtRest, TxInv
<1>5. TypeOK'
  <2>1. direct' \in [Records -> {"no", "row", "agg"}]
    BY <1>1, <1>2
  <2>2. <<KeyOf[r], day>> \in Groups \X Days
    BY <1>2, GroupsAssumption
  <2>3. daily' \in [Groups \X Days -> Nat]
    BY <1>1, <1>2, <2>2
  <2>4. QED
    BY <1>1, <2>1, <2>3 DEF IInv, TypeOK
<1>6. DirectInv' /\ NoRepeats'
  BY <1>1, <1>2 DEF DirectInv, NoRepeats, IInv
<1>7. PlacesApart'
  <2>1. Directed' = Directed
    BY <1>1, <1>2 DEF Directed
  <2>2. QED
    BY <1>1, <2>1 DEF IInv, PlacesApart
<1>8. QED
  BY <1>4, <1>5, <1>6, <1>7 DEF IInv

LEMMA ReceiveSound == ASSUME IInv, Receive PROVE IInv'
<1>1. /\ loop = "wait" /\ buffer # <<>>
      /\ batch' = Append(batch, Head(buffer)) /\ buffer' = Tail(buffer)
      /\ loop' = IF Len(batch') >= BatchSize THEN "writing" ELSE "wait"
      /\ UNCHANGED <<starts, day, due, tx, direct, rows, daily, backfill, dropped, blemished>>
  BY DEF Receive, tables
<1>2. /\ buffer \in Seq(Records) /\ batch \in Seq(Records)
      /\ Len(buffer) <= Capacity /\ Len(batch) < BatchSize
      /\ Distinct(buffer) /\ Distinct(batch)
  BY <1>1 DEF IInv, TypeOK, NoRepeats
<1>3. Apart(due, Items(buffer), Items(batch), Directed, Recorded(rows), dropped)
  BY DEF IInv, PlacesApart
<1>4. /\ Head(buffer) \in Records /\ buffer' \in Seq(Records) /\ Len(buffer') = Len(buffer) - 1
      /\ Items(buffer) = {Head(buffer)} \cup Items(buffer')
      /\ Distinct(buffer') /\ Head(buffer) \notin Items(buffer')
  BY <1>1, <1>2, HeadTailProperties, ItemsOfTail
<1>5. Head(buffer) \notin Items(batch)
  BY <1>3, <1>4 DEF Apart
<1>6. /\ batch' \in Seq(Records) /\ Len(batch') = Len(batch) + 1
      /\ Items(batch') = Items(batch) \cup {Head(buffer)} /\ Distinct(batch')
  BY <1>1, <1>2, <1>4, <1>5, AppendProperties, ItemsOfAppend
<1>7. Len(buffer) \in Nat /\ Len(batch) \in Nat
  BY <1>2, LenProperties
<1>8. tx = NoTx /\ NoTx.at = 0 /\ NoTx.rows = <<>> /\ DOMAIN <<>> = {}
  BY <1>1 DEF IInv, AtRest, NoTx
<1>9. TypeOK'
  <2>1. Len(buffer') <= Capacity /\ Len(batch') <= BatchSize /\ 0 \in 0 .. Len(batch')
    BY <1>2, <1>4, <1>6, <1>7, SizesAssumption
  <2>2. loop' = "wait" => Len(batch') < BatchSize
    BY <1>1, <1>6, <1>7, SizesAssumption
  <2>3. loop' \in {"wait", "writing"}
    BY <1>1
  <2>4. QED
    BY <1>1, <1>4, <1>6, <1>8, <2>1, <2>2, <2>3 DEF IInv, TypeOK
<1>10. AtRest'
  BY <1>1, <1>8 DEF AtRest
<1>11. TxInv'
  BY <1>1, <1>8 DEF IInv, TxInv
<1>12. DirectInv' /\ NoRepeats'
  BY <1>1, <1>4, <1>6 DEF IInv, DirectInv, NoRepeats
<1>13. Apart(due, Items(buffer'), Items(batch'), Directed, Recorded(rows), dropped)
  BY <1>3, <1>4, <1>6 DEF Apart
<1>14. PlacesApart'
  BY <1>1, <1>13 DEF PlacesApart, Directed
<1>15. QED
  BY <1>9, <1>10, <1>11, <1>12, <1>14 DEF IInv

LEMMA TicksSound == ASSUME IInv, Ticks \/ Aggregates PROVE IInv'
<1>1. UNCHANGED <<starts, day, due, buffer, batch, direct, rows, daily, backfill, dropped,
                  blemished>>
  BY DEF Ticks, Aggregates, queue, tables
<1>2. DirectInv' /\ NoRepeats' /\ PlacesApart'
  BY <1>1 DEF IInv, DirectInv, NoRepeats, PlacesApart, Directed
<1>3. batch \in Seq(Records) /\ Len(batch) \in Nat
  BY LenProperties DEF IInv, TypeOK
<1>4. CASE Ticks
  <2>1. loop' = "writing" /\ tx' = tx /\ loop = "wait"
    BY <1>4 DEF Ticks
  <2>2. tx = NoTx /\ NoTx.rows = <<>> /\ DOMAIN <<>> = {}
    BY <2>1 DEF IInv, AtRest, NoTx
  <2>3. AtRest' /\ TypeOK' /\ TxInv'
    BY <1>1, <2>1, <2>2 DEF IInv, AtRest, TypeOK, TxInv
  <2>4. QED
    BY <1>2, <2>3 DEF IInv
<1>5. CASE Aggregates
  <2>1. loop' = "aggregating" /\ tx' = [tx EXCEPT !.at = 0]
    BY <1>5 DEF Aggregates
  <2>2. tx' \in [at : Nat, rows : Seq(Row), aggs : Seq(Row)]
    BY <2>1 DEF IInv, TxInv
  <2>3. tx'.at = 0 /\ tx'.rows = tx.rows /\ tx'.aggs = tx.aggs
    BY <2>1 DEF IInv, TxInv
  <2>4. TypeOK'
    BY <1>1, <1>3, <2>1, <2>3 DEF IInv, TypeOK
  <2>5. AtRest' /\ TxInv'
    BY <1>1, <2>1, <2>2, <2>3 DEF IInv, AtRest, TxInv
  <2>6. QED
    BY <1>2, <2>4, <2>5 DEF IInv
<1>6. QED
  BY <1>4, <1>5

LEMMA StatementSound == ASSUME IInv, Statement PROVE IInv'
<1> DEFINE n == tx.at + 1
           item == [rec |-> batch[n], day |-> day]
<1>1. /\ loop \in {"writing", "aggregating"} /\ tx.at < Len(batch)
      /\ UNCHANGED <<starts, day, loop, due, buffer, batch, direct, rows, daily, backfill,
                     dropped, blemished>>
  BY DEF Statement, queue, tables
<1>2. /\ batch \in Seq(Records) /\ day \in Days /\ tx.at \in Nat /\ Len(batch) \in Nat
      /\ tx \in [at : Nat, rows : Seq(Row), aggs : Seq(Row)]
      /\ Distinct(batch) /\ DOMAIN batch = 1 .. Len(batch)
  BY LenProperties DEF IInv, TypeOK, TxInv, NoRepeats
<1>3. n \in 1 .. Len(batch) /\ n \in DOMAIN batch /\ batch[n] \in Records
  BY <1>1, <1>2
<1>4. item \in Row /\ item.rec = batch[n]
  BY <1>2, <1>3 DEF Row
<1>5. \/ tx' = [tx EXCEPT !.at = n]
      \/ loop = "writing" /\ tx' = [tx EXCEPT !.at = n, !.rows = Append(@, item)]
      \/ loop = "aggregating" /\ tx' = [tx EXCEPT !.at = n, !.aggs = Append(@, item)]
  BY DEF Statement
<1> HIDE DEF n, item
<1>6. /\ tx.rows \in Seq(Row) /\ tx.aggs \in Seq(Row)
      /\ Append(tx.rows, item) \in Seq(Row) /\ Append(tx.aggs, item) \in Seq(Row)
  BY <1>2, <1>4, AppendProperties
<1>7. /\ tx' \in [at : Nat, rows : Seq(Row), aggs : Seq(Row)]
      /\ tx'.at = n
      /\ tx'.rows = tx.rows \/ (loop = "writing" /\ tx'.rows = Append(tx.rows, item))
  <2>1. n \in Nat
    BY <1>3
  <2>2. QED
    BY <1>2, <1>5, <1>6, <2>1
<1>8. DirectInv' /\ NoRepeats' /\ PlacesApart'
  BY <1>1 DEF IInv, DirectInv, NoRepeats, PlacesApart, Directed
<1>9. AtRest'
  BY <1>1 DEF IInv, AtRest
<1>10. TypeOK'
  <2>1. tx'.at \in 0 .. Len(batch) /\ tx'.rows \in Seq(Row) /\ tx'.aggs \in Seq(Row)
    BY <1>3, <1>7
  <2>2. QED
    BY <1>1, <2>1 DEF IInv, TypeOK
<1>11. TxInv'
  <2>1. n = tx.at + 1
    BY DEF n
  <2>2. /\ DistinctRows(tx.rows)
        /\ \A i \in DOMAIN tx.rows :
             \E j \in DOMAIN batch : /\ batch[j] = tx.rows[i].rec
                                     /\ loop = "writing" => j <= tx.at
    BY DEF IInv, TxInv
  <2>3. \A i \in DOMAIN tx.rows :
          \E j \in DOMAIN batch : /\ batch[j] = tx.rows[i].rec
                                  /\ loop = "writing" => j <= n
    BY <1>2, <2>1, <2>2
  <2>4. CASE tx'.rows = tx.rows
    BY <1>1, <1>7, <2>2, <2>3, <2>4 DEF TxInv
  <2>5. CASE loop = "writing" /\ tx'.rows = Append(tx.rows, item)
    <3> DEFINE u == Append(tx.rows, item)
    <3>1. item.rec \notin Recorded(tx.rows)
      <4>1. ASSUME NEW i \in DOMAIN tx.rows, tx.rows[i].rec = item.rec PROVE FALSE
        <5>1. PICK j \in DOMAIN batch : batch[j] = tx.rows[i].rec /\ j <= tx.at
          BY <2>2, <2>5
        <5>2. j = n
          BY <5>1, <4>1, <1>2, <1>3, <1>4 DEF Distinct
        <5>3. QED
          BY <5>1, <5>2, <2>1, <1>2
      <4>2. QED
        BY <4>1 DEF Recorded
    <3>2. DistinctRows(u)
      BY <3>1, <2>2, <1>4, <1>6, RecordedOfAppend
    <3>3. /\ DOMAIN tx.rows = 1 .. Len(tx.rows) /\ Len(tx.rows) \in Nat
          /\ DOMAIN u = 1 .. (Len(tx.rows) + 1)
          /\ u[Len(tx.rows) + 1] = item
          /\ \A i \in 1 .. Len(tx.rows) : u[i] = tx.rows[i]
      BY <1>4, <1>6, AppendProperties, LenProperties
    <3> HIDE DEF u
    <3>4. \A i \in DOMAIN u : (i \in DOMAIN tx.rows /\ u[i] = tx.rows[i]) \/ u[i] = item
      BY <3>3
    <3>5. \E j \in DOMAIN batch : batch[j] = item.rec /\ j <= n
      BY <1>2, <1>3, <1>4
    <3>6. \A i \in DOMAIN u :
            \E j \in DOMAIN batch : batch[j] = u[i].rec /\ (loop = "writing" => j <= n)
      BY <3>4, <3>5, <2>3
    <3>7. tx'.rows = u
      BY <2>5 DEF u
    <3>8. QED
      BY <1>1, <1>7, <3>2, <3>6, <3>7 DEF TxInv
  <2>6. QED
    BY <1>7, <2>4, <2>5
<1>12. QED
  BY <1>8, <1>9, <1>10, <1>11 DEF IInv

(* The loop empties its batch: what is not stored of it is given up.       *)
LEMMA EmptiedSound ==
  ASSUME IInv, NEW stored \in Seq(Row), Emptied(stored),
         loop # "down", DistinctRows(stored), Recorded(stored) \subseteq Items(batch),
         rows' = rows \o stored,
         daily' \in [Groups \X Days -> Nat], blemished' \in BOOLEAN,
         UNCHANGED <<starts, day, due, buffer, direct, backfill>>
  PROVE  IInv'
<1>1. /\ loop' = "wait" /\ batch' = <<>> /\ tx' = NoTx
      /\ dropped' = dropped \cup {r \in Items(batch) : \A i \in DOMAIN stored : stored[i].rec # r}
  BY DEF Emptied
<1>2. dropped' = dropped \cup (Items(batch) \ Recorded(stored))
  BY <1>1 DEF Recorded
<1>3. NoTx.at = 0 /\ NoTx.rows = <<>> /\ NoTx.aggs = <<>>
  BY DEF NoTx
<1>4. <<>> \in Seq(Records) /\ <<>> \in Seq(Row) /\ Len(<<>>) = 0 /\ DOMAIN <<>> = {}
  BY EmptySeq
<1>5. Apart(due, Items(buffer), Items(batch), Directed, Recorded(rows), dropped)
  BY DEF IInv, PlacesApart
<1>6. Recorded(rows) \cap Recorded(stored) = {}
  BY <1>5 DEF Apart
<1>7. /\ rows \in Seq(Row) /\ DistinctRows(rows) /\ rows' \in Seq(Row)
      /\ Recorded(rows') = Recorded(rows) \cup Recorded(stored) /\ DistinctRows(rows')
  BY <1>6, ConcatProperties, RecordedOfConcat DEF IInv, TypeOK, NoRepeats
<1>8. TypeOK'
  <2>1. dropped' \subseteq Records
    BY <1>2, <1>5 DEF Apart
  <2>2. Len(batch') <= BatchSize /\ Len(batch') < BatchSize
    BY <1>1, <1>4, SizesAssumption
  <2>3. tx'.at \in 0 .. Len(batch')
    BY <1>1, <1>3, <1>4
  <2>4. QED
    BY <1>1, <1>3, <1>4, <1>7, <2>1, <2>2, <2>3 DEF IInv, TypeOK
<1>9. AtRest'
  BY <1>1 DEF AtRest
<1>10. TxInv'
  <2>1. tx' \in [at : Nat, rows : Seq(Row), aggs : Seq(Row)]
    BY <1>1, <1>4 DEF NoTx
  <2>2. QED
    BY <2>1, <1>1, <1>3, <1>4, ItemsOfEmpty DEF TxInv
<1>11. DirectInv' /\ NoRepeats'
  BY <1>1, <1>7, ItemsOfEmpty DEF IInv, DirectInv, NoRepeats
<1>12. Apart(due, Items(buffer), {}, Directed, Recorded(rows'), dropped')
  BY <1>2, <1>5, <1>7 DEF Apart
<1>13. PlacesApart'
  BY <1>1, <1>12, ItemsOfEmpty DEF PlacesApart, Directed
<1>14. QED
  BY <1>8, <1>9, <1>10, <1>11, <1>13 DEF IInv

LEMMA AbandonSound == ASSUME IInv, Abandon PROVE IInv'
<1>1. /\ loop \in {"writing", "aggregating"} /\ Emptied(<<>>)
      /\ UNCHANGED <<starts, day, due, buffer, direct, rows, daily, backfill, blemished>>
  BY DEF Abandon, tables
<1>2. rows' = rows \o <<>> /\ <<>> \in Seq(Row)
  BY <1>1, ConcatEmptySeq, EmptySeq DEF IInv, TypeOK
<1>3. daily' \in [Groups \X Days -> Nat] /\ blemished' \in BOOLEAN
  BY <1>1 DEF IInv, TypeOK
<1>4. QED
  BY <1>1, <1>2, <1>3, EmptiedSound, ItemsOfEmpty

(* What the open transaction adds to usage_records is of the batch.        *)
LEMMA TxOfBatch == ASSUME IInv PROVE Recorded(tx.rows) \subseteq Items(batch)
BY DEF IInv, TxInv, Recorded, Items

LEMMA CommitSound == ASSUME IInv, Commit PROVE IInv'
<1>1. /\ loop = "aggregating" /\ rows' = rows \o tx.rows /\ Emptied(tx.rows)
      /\ daily' = [g \in Groups \X Days |-> daily[g] + Count(tx.aggs, g[1], g[2])]
      /\ blemished' \in BOOLEAN
      /\ UNCHANGED <<starts, day, due, buffer, direct, backfill>>
  BY DEF Commit, Blemish, IInv, TypeOK
<1>2. tx.rows \in Seq(Row) /\ tx.aggs \in Seq(Row) /\ DistinctRows(tx.rows)
  BY DEF IInv, TypeOK, TxInv
<1>3. daily' \in [Groups \X Days -> Nat]
  <2>1. \A g \in Groups \X Days : daily[g] \in Nat /\ Count(tx.aggs, g[1], g[2]) \in Nat
    BY <1>2, CountType DEF IInv, TypeOK
  <2>2. QED
    BY <1>1, <2>1
<1>4. QED
  BY <1>1, <1>2, <1>3, TxOfBatch, EmptiedSound
-----------------------------------------------------------------------------
(* The invariant holds in every reachable state.                           *)
THEOREM Invariant == Spec => []IInv
<1>1. Init => IInv
  BY InitSound
<1>2. IInv /\ [Next]_vars => IInv'
  <2>1. SUFFICES ASSUME IInv, [Next]_vars PROVE IInv'
    OBVIOUS
  <2>2. CASE Start
    BY <2>1, <2>2, StartSound
  <2>3. CASE BackfillDelete \/ BackfillInsert
    BY <2>1, <2>3, BackfillSound
  <2>4. CASE Stop
    BY <2>1, <2>4, StopSound
  <2>5. CASE Midnight
    BY <2>1, <2>5, MidnightSound
  <2>6. CASE Loop
    BY <2>1, <2>6, ReceiveSound, TicksSound, AbandonSound, StatementSound, CommitSound DEF Loop
  <2>7. CASE \E r \in Records : Insert(r) \/ DirectRow(r) \/ DirectAgg(r)
    BY <2>1, <2>7, InsertSound, DirectRowSound, DirectAggSound
  <2>8. CASE UNCHANGED vars
    <3>1. UNCHANGED <<starts, day, loop, due, buffer, batch, tx, direct, rows, daily, backfill,
                      dropped, blemished>>
      BY <2>8 DEF vars, queue, tables
    <3>2. AtRest' /\ TxInv' /\ DirectInv' /\ NoRepeats' /\ PlacesApart'
      BY <2>1, <3>1, PlacesKept
    <3>3. TypeOK'
      BY <2>1, <3>1 DEF IInv, TypeOK
    <3>4. QED
      BY <3>2, <3>3 DEF IInv
  <2>9. QED
    BY <2>1, <2>2, <2>3, <2>4, <2>5, <2>6, <2>7, <2>8 DEF Next
<1>3. QED
  BY <1>1, <1>2, PTL DEF Spec

(* The buffer and a batch never exceed their sizes, the loop waits with a  *)
(* batch that is not full only, and a transaction is never ahead of its    *)
(* batch (store/usage.go:27-136).                                          *)
THEOREM TypeCorrect == Spec => []TypeOK
<1>1. IInv => TypeOK
  BY DEF IInv
<1>2. QED
  BY <1>1, Invariant, PTL
-----------------------------------------------------------------------------
(* The six places are a partition, so each record is in one of them.       *)
LEMMA OnePlace == ASSUME IInv, NEW r \in Records PROVE Cardinality(Places(r)) = 1
<1>1. Apart(due, Items(buffer), Items(batch), Directed, Recorded(rows), dropped)
  BY DEF IInv, PlacesApart
<1>2. /\ direct[r] = "row" <=> r \in Directed
      /\ Stored(r) # {} <=> r \in Recorded(rows)
  BY DEF Directed, Stored, Recorded
<1>3. Places(r) \subseteq {"due", "buffer", "batch", "direct", "stored", "dropped"}
  BY DEF Places
<1>4. /\ "due" \in Places(r) <=> r \in due
      /\ "buffer" \in Places(r) <=> r \in Items(buffer)
      /\ "batch" \in Places(r) <=> r \in Items(batch)
      /\ "direct" \in Places(r) <=> r \in Directed
      /\ "stored" \in Places(r) <=> r \in Recorded(rows)
      /\ "dropped" \in Places(r) <=> r \in dropped
  BY <1>2 DEF Places
<1>5. \E p : Places(r) = {p}
  <2>1. CASE r \in due
    <3>1. Places(r) = {"due"}
      BY <1>1, <1>3, <1>4, <2>1 DEF Apart
    <3>2. QED
      BY <3>1
  <2>2. CASE r \in Items(buffer)
    <3>1. Places(r) = {"buffer"}
      BY <1>1, <1>3, <1>4, <2>2 DEF Apart
    <3>2. QED
      BY <3>1
  <2>3. CASE r \in Items(batch)
    <3>1. Places(r) = {"batch"}
      BY <1>1, <1>3, <1>4, <2>3 DEF Apart
    <3>2. QED
      BY <3>1
  <2>4. CASE r \in Directed
    <3>1. Places(r) = {"direct"}
      BY <1>1, <1>3, <1>4, <2>4 DEF Apart
    <3>2. QED
      BY <3>1
  <2>5. CASE r \in Recorded(rows)
    <3>1. Places(r) = {"stored"}
      BY <1>1, <1>3, <1>4, <2>5 DEF Apart
    <3>2. QED
      BY <3>1
  <2>6. CASE r \in dropped
    <3>1. Places(r) = {"dropped"}
      BY <1>1, <1>3, <1>4, <2>6 DEF Apart
    <3>2. QED
      BY <3>1
  <2>7. QED
    BY <1>1, <2>1, <2>2, <2>3, <2>4, <2>5, <2>6 DEF Apart
<1>6. QED
  BY <1>5, FS_Singleton

LEMMA StoredOnce == ASSUME IInv, NEW r \in Records PROVE Cardinality(Stored(r)) <= 1
<1>1. CASE Stored(r) = {}
  BY <1>1, FS_EmptySet
<1>2. CASE Stored(r) # {}
  <2>1. PICK i : i \in Stored(r)
    BY <1>2
  <2>2. Stored(r) = {i}
    BY <2>1 DEF Stored, IInv, NoRepeats, DistinctRows
  <2>3. Cardinality(Stored(r)) = 1
    BY <2>2, FS_Singleton
  <2>4. QED
    BY <2>3
<1>3. QED
  BY <1>1, <1>2

(* Every record is in exactly one place from recordUsage to the table, and *)
(* no record has two rows (store/usage.go:53-136, 212-238).                *)
THEOREM EveryRecordOnce == Spec => []AccountedFor
<1>1. IInv => AccountedFor
  BY OnePlace, StoredOnce DEF AccountedFor
<1>2. QED
  BY <1>1, Invariant, PTL
-----------------------------------------------------------------------------
(* The rows of group g and day d that the direct path is about to count.   *)
Owing(s, dir, g, d) ==
  {i \in DOMAIN s : KeyOf[s[i].rec] = g /\ s[i].day = d /\ dir[s[i].rec] = "agg"}

Balanced(s, dir, tab, g, d) == Count(s, g, d) = tab[<<g, d>>] + Cardinality(Owing(s, dir, g, d))

LEMMA AgreesIsBalanced ==
  DailyAgrees <=> (~blemished => \A g \in Groups, d \in Days : Balanced(rows, direct, daily, g, d))
BY DEF DailyAgrees, Balanced, Owing

LEMMA AgreesIsBalancedNext ==
  DailyAgrees' <=>
    (~blemished' => \A g \in Groups, d \in Days : Balanced(rows', direct', daily', g, d))
BY DEF DailyAgrees, Balanced, Owing, Count

LEMMA OwingType ==
  ASSUME NEW s \in Seq(Row), NEW dir, NEW g, NEW d
  PROVE  IsFiniteSet(Owing(s, dir, g, d)) /\ Cardinality(Owing(s, dir, g, d)) \in Nat
<1>1. Owing(s, dir, g, d) \in SUBSET (DOMAIN s)
  BY DEF Owing
<1>2. QED
  BY <1>1, PositionsFinite

(* With nothing on the direct path, the tables agree when the counts do.   *)
LEMMA NothingOwed ==
  ASSUME NEW s \in Seq(Row), NEW dir, NEW tab, NEW g, NEW d, \A r \in Records : dir[r] # "agg",
         tab[<<g, d>>] = Count(s, g, d)
  PROVE  Balanced(s, dir, tab, g, d)
<1>1. DOMAIN s = 1 .. Len(s) /\ \A i \in 1 .. Len(s) : s[i] \in Row
  BY LenProperties, ElementOfSeq
<1>2. Owing(s, dir, g, d) = {}
  BY <1>1 DEF Owing, Row
<1>3. Cardinality(Owing(s, dir, g, d)) = 0
  BY <1>2, FS_EmptySet
<1>4. QED
  BY <1>3, CountType DEF Balanced

LEMMA BalancedOnly ==
  ASSUME NEW s, NEW dir1, NEW dir2, NEW tab, NEW g, NEW d,
         Balanced(s, dir1, tab, g, d),
         \A i \in DOMAIN s : dir1[s[i].rec] = "agg" <=> dir2[s[i].rec] = "agg"
  PROVE  Balanced(s, dir2, tab, g, d)
<1>1. Owing(s, dir1, g, d) = Owing(s, dir2, g, d)
  BY DEF Owing
<1>2. QED
  BY <1>1 DEF Balanced

LEMMA StartAgrees ==
  ASSUME IInv, DailyAgrees, Start \/ BackfillDelete \/ BackfillInsert PROVE DailyAgrees'
<1>1. rows' = rows /\ direct' = direct /\ rows \in Seq(Row) /\ blemished \in BOOLEAN
  BY DEF Start, BackfillDelete, BackfillInsert, IInv, TypeOK
<1>2. CASE daily' = daily /\ blemished' = blemished
  BY <1>1, <1>2, AgreesIsBalanced, AgreesIsBalancedNext
<1>3. CASE Start /\ ~(daily' = daily /\ blemished' = blemished)
  <2>1. /\ loop = "down" /\ daily' = Migrated
        /\ ~blemished' => \A g \in Groups, d \in Days : Migrated[<<g, d>>] = Count(rows, g, d)
    BY <1>3 DEF Start, Blemish
  <2>2. \A r \in Records : direct[r] # "agg"
    BY <2>1 DEF IInv, AtRest
  <2>3. ASSUME ~blemished', NEW g \in Groups, NEW d \in Days
        PROVE  Balanced(rows', direct', daily', g, d)
    BY <1>1, <2>1, <2>2, <2>3, NothingOwed
  <2>4. QED
    BY <2>3, AgreesIsBalancedNext
<1>4. CASE BackfillDelete
  BY <1>4, AgreesIsBalancedNext DEF BackfillDelete, Blemish
<1>5. CASE BackfillInsert /\ ~(daily' = daily /\ blemished' = blemished)
  <2>1. /\ daily' = Backfilled
        /\ ~blemished' => /\ \A g \in Groups \X Days : daily[g] = 0
                          /\ \A r \in Records : direct[r] # "agg"
    BY <1>5 DEF BackfillInsert
  <2>2. ASSUME ~blemished', NEW g \in Groups, NEW d \in Days
        PROVE  Balanced(rows', direct', daily', g, d)
    <3>1. <<g, d>> \in Groups \X Days /\ daily[<<g, d>>] = 0
      BY <2>1, <2>2
    <3>2. daily'[<<g, d>>] = 0 + Count(rows, g, d)
      BY <2>1, <3>1 DEF Backfilled
    <3>3. daily'[<<g, d>>] = Count(rows', g, d)
      BY <1>1, <3>2, CountType
    <3>4. QED
      BY <1>1, <2>1, <2>2, <3>3, NothingOwed
  <2>3. QED
    BY <2>2, AgreesIsBalancedNext
<1>6. QED
  BY <1>2, <1>3, <1>4, <1>5

LEMMA StopAgrees == ASSUME IInv, DailyAgrees, Stop PROVE DailyAgrees'
<1>1. /\ rows' = rows /\ daily' = daily /\ direct' = [r \in Records |-> "no"]
      /\ blemished' = (blemished \/ \E r \in Records : direct[r] = "agg")
  BY DEF Stop, Blemish, tables
<1>2. ASSUME ~blemished', NEW g \in Groups, NEW d \in Days
      PROVE  Balanced(rows', direct', daily', g, d)
  <2>1. Balanced(rows, direct, daily, g, d)
    BY <1>1, <1>2, AgreesIsBalanced
  <2>2. \A r \in Records : direct[r] # "agg" /\ direct'[r] # "agg"
    BY <1>1, <1>2
  <2>3. \A i \in DOMAIN rows : rows[i].rec \in Records
    <3>1. DOMAIN rows = 1 .. Len(rows) /\ \A i \in 1 .. Len(rows) : rows[i] \in Row
      BY LenProperties, ElementOfSeq DEF IInv, TypeOK
    <3>2. QED
      BY <3>1 DEF Row
  <2>4. \A i \in DOMAIN rows : direct[rows[i].rec] = "agg" <=> direct'[rows[i].rec] = "agg"
    BY <2>2, <2>3
  <2>5. Balanced(rows, direct', daily, g, d)
    BY <2>1, <2>4, BalancedOnly
  <2>6. QED
    BY <1>1, <2>5
<1>3. QED
  BY <1>2, AgreesIsBalancedNext

LEMMA InsertAgrees ==
  ASSUME IInv, DailyAgrees, NEW r \in Records, Insert(r) PROVE DailyAgrees'
<1>1. /\ rows' = rows /\ daily' = daily /\ blemished' = blemished
      /\ r \in due /\ (direct' = direct \/ direct' = [direct EXCEPT ![r] = "row"])
  BY DEF Insert, tables
<1>2. direct[r] = "no" /\ direct \in [Records -> {"no", "row", "agg"}]
  BY <1>1, DueIsElsewhere DEF IInv, TypeOK
<1>3. \A x \in Records : direct[x] = "agg" <=> direct'[x] = "agg"
  BY <1>1, <1>2
<1>4. DOMAIN rows = 1 .. Len(rows) /\ \A i \in 1 .. Len(rows) : rows[i] \in Row
  BY LenProperties, ElementOfSeq DEF IInv, TypeOK
<1>5. \A i \in DOMAIN rows : direct[rows[i].rec] = "agg" <=> direct'[rows[i].rec] = "agg"
  BY <1>3, <1>4 DEF Row
<1>6. ASSUME ~blemished', NEW g \in Groups, NEW d \in Days
      PROVE  Balanced(rows', direct', daily', g, d)
  <2>1. Balanced(rows, direct, daily, g, d)
    BY <1>1, <1>6, AgreesIsBalanced
  <2>2. Balanced(rows, direct', daily, g, d)
    BY <2>1, <1>5, BalancedOnly
  <2>3. QED
    BY <2>2, <1>1
<1>7. QED
  BY <1>6, AgreesIsBalancedNext

(* A written row is one to count: both sides of the balance grow by it.    *)
LEMMA DirectRowAgrees ==
  ASSUME IInv, DailyAgrees, NEW r \in Records, DirectRow(r) PROVE DailyAgrees'
<1>1. /\ direct[r] = "row" /\ daily' = daily /\ blemished' = blemished
      /\ rows \in Seq(Row) /\ day \in Days /\ r \in Directed
      /\ direct \in [Records -> {"no", "row", "agg"}]
  BY DEF DirectRow, IInv, TypeOK, Directed
<1>2. DOMAIN rows = 1 .. Len(rows) /\ Len(rows) \in Nat /\ \A i \in 1 .. Len(rows) : rows[i] \in Row
  BY <1>1, LenProperties, ElementOfSeq
<1>3. \A i \in DOMAIN rows : rows[i].rec # r /\ rows[i].rec \in Records
  <2>1. r \notin Recorded(rows)
    BY <1>1 DEF IInv, PlacesApart, Apart
  <2>2. QED
    BY <2>1, <1>2 DEF Recorded, Row
<1>4. ASSUME ~blemished', NEW g \in Groups, NEW d \in Days
      PROVE  Balanced(rows', direct', daily', g, d)
  <2>1. Balanced(rows, direct, daily, g, d)
    BY <1>1, <1>4, AgreesIsBalanced
  <2>2. CASE direct' = [direct EXCEPT ![r] = "no"] /\ rows' = rows
    <3>1. \A i \in DOMAIN rows : direct[rows[i].rec] = "agg" <=> direct'[rows[i].rec] = "agg"
      BY <1>1, <1>3, <2>2
    <3>2. QED
      BY <2>1, <2>2, <3>1, <1>1, BalancedOnly
  <2>3. CASE /\ rows' = Append(rows, [rec |-> r, day |-> day])
             /\ direct' = [direct EXCEPT ![r] = "agg"]
    <3> DEFINE e == [rec |-> r, day |-> day]
               n == Len(rows) + 1
               u == Append(rows, e)
    <3>1. e \in Row /\ e.rec = r /\ e.day = day
      BY <1>1 DEF Row
    <3>2. /\ DOMAIN u = DOMAIN rows \cup {n} /\ n \notin DOMAIN rows
          /\ u[n] = e /\ \A i \in DOMAIN rows : u[i] = rows[i]
      <4>1. /\ u \in Seq(Row) /\ Len(u) = n /\ u[n] = e
            /\ \A i \in 1 .. Len(rows) : u[i] = rows[i]
        BY <1>1, <3>1, AppendProperties
      <4>2. DOMAIN u = 1 .. n
        BY <4>1, LenProperties
      <4>3. QED
        BY <4>1, <4>2, <1>2
    <3>3. direct'[r] = "agg" /\ \A i \in DOMAIN rows : direct'[rows[i].rec] = direct[rows[i].rec]
      BY <1>1, <1>3, <2>3
    <3>4. rows' = u
      BY <2>3
    <3>5. Count(u, g, d) = Count(rows, g, d) + (IF KeyOf[e.rec] = g /\ e.day = d THEN 1 ELSE 0)
      BY <1>1, <3>1, CountOfAppend
    <3> HIDE DEF e, n, u
    <3>6. n \notin Owing(rows, direct, g, d)
      BY <3>2 DEF Owing
    <3>7. /\ IsFiniteSet(Owing(rows, direct, g, d))
          /\ Cardinality(Owing(rows, direct, g, d)) \in Nat
          /\ Count(rows, g, d) \in Nat
      BY <1>1, OwingType, CountType
    <3>8. daily[<<g, d>>] \in Nat
      <4>1. <<g, d>> \in Groups \X Days
        OBVIOUS
      <4>2. QED
        BY <4>1 DEF IInv, TypeOK
    <3>9. CASE KeyOf[e.rec] = g /\ e.day = d
      <4>1. Owing(u, direct', g, d) = Owing(rows, direct, g, d) \cup {n}
        BY <3>1, <3>2, <3>3, <3>9 DEF Owing
      <4>2. Cardinality(Owing(u, direct', g, d)) = Cardinality(Owing(rows, direct, g, d)) + 1
        BY <4>1, <3>6, <3>7, FS_AddElement
      <4>3. Count(u, g, d) = Count(rows, g, d) + 1
        BY <3>5, <3>9
      <4>4. Count(u, g, d) = daily[<<g, d>>] + Cardinality(Owing(u, direct', g, d))
        BY <4>2, <4>3, <3>7, <3>8, <2>1 DEF Balanced
      <4>5. QED
        BY <4>4, <3>4, <1>1 DEF Balanced
    <3>10. CASE ~(KeyOf[e.rec] = g /\ e.day = d)
      <4>1. Owing(u, direct', g, d) = Owing(rows, direct, g, d)
        BY <3>1, <3>2, <3>3, <3>10 DEF Owing
      <4>2. Count(u, g, d) = Count(rows, g, d)
        BY <3>5, <3>7, <3>10
      <4>3. QED
        BY <4>1, <4>2, <3>4, <1>1, <2>1 DEF Balanced
    <3>11. QED
      BY <3>9, <3>10
  <2>4. QED
    BY <2>2, <2>3 DEF DirectRow
<1>5. QED
  BY <1>4, AgreesIsBalancedNext

(* Counting it takes the row from what is owed.                            *)
LEMMA DirectAggAgrees ==
  ASSUME IInv, DailyAgrees, NEW r \in Records, DirectAgg(r) PROVE DailyAgrees'
<1>1. /\ direct[r] = "agg" /\ direct' = [direct EXCEPT ![r] = "no"] /\ rows' = rows
      /\ direct \in [Records -> {"no", "row", "agg"}] /\ daily \in [Groups \X Days -> Nat]
      /\ rows \in Seq(Row) /\ day \in Days /\ DistinctRows(rows)
  BY DEF DirectAgg, IInv, TypeOK, NoRepeats
<1>2. CASE blemished'
  BY <1>2, AgreesIsBalancedNext
<1>3. CASE ~blemished'
  <2>1. /\ ~blemished /\ daily' = [daily EXCEPT ![<<KeyOf[r], day>>] = @ + 1]
        /\ \E i \in DOMAIN rows : rows[i].rec = r /\ rows[i].day = day
    BY <1>3 DEF DirectAgg, Blemish
  <2>2. PICK k \in DOMAIN rows : rows[k].rec = r /\ rows[k].day = day
    BY <2>1
  <2>3. \A i \in DOMAIN rows : i # k => rows[i].rec # r /\ rows[i].rec \in Records
    <3>1. DOMAIN rows = 1 .. Len(rows) /\ \A i \in 1 .. Len(rows) : rows[i] \in Row
      BY <1>1, LenProperties, ElementOfSeq
    <3>2. QED
      BY <3>1, <2>2, <1>1 DEF DistinctRows, Row
  <2>4. direct'[r] = "no" /\ \A x \in Records : x # r => direct'[x] = direct[x]
    BY <1>1
  <2>5. KeyOf[r] \in Groups /\ <<KeyOf[r], day>> \in Groups \X Days
    BY <1>1, GroupsAssumption
  <2>6. ASSUME NEW g \in Groups, NEW d \in Days
        PROVE  Balanced(rows', direct', daily', g, d)
    <3>1. Balanced(rows, direct, daily, g, d)
      BY <2>1, AgreesIsBalanced
    <3>2. /\ IsFiniteSet(Owing(rows, direct, g, d)) /\ Count(rows, g, d) \in Nat
          /\ Cardinality(Owing(rows, direct, g, d)) \in Nat
      BY <1>1, OwingType, CountType
    <3>3. Owing(rows, direct', g, d) = Owing(rows, direct, g, d) \ {k}
      <4>1. direct'[rows[k].rec] = "no"
        BY <2>2, <2>4
      <4>2. \A i \in DOMAIN rows : i # k => direct'[rows[i].rec] = direct[rows[i].rec]
        BY <2>3, <2>4
      <4>3. QED
        BY <4>1, <4>2 DEF Owing
    <3>4. <<g, d>> \in Groups \X Days /\ daily[<<g, d>>] \in Nat
      BY <1>1
    <3>5. CASE g = KeyOf[r] /\ d = day
      <4>1. k \in Owing(rows, direct, g, d)
        BY <1>1, <2>2, <3>5 DEF Owing
      <4>2. Cardinality(Owing(rows, direct', g, d)) = Cardinality(Owing(rows, direct, g, d)) - 1
        BY <4>1, <3>2, <3>3, FS_RemoveElement
      <4>3. daily'[<<g, d>>] = daily[<<g, d>>] + 1
        BY <1>1, <2>1, <2>5, <3>5
      <4>4. QED
        BY <4>2, <4>3, <3>1, <3>2, <3>4, <1>1 DEF Balanced
    <3>6. CASE ~(g = KeyOf[r] /\ d = day)
      <4>1. k \notin Owing(rows, direct, g, d)
        BY <2>2, <3>6 DEF Owing
      <4>2. Owing(rows, direct', g, d) = Owing(rows, direct, g, d)
        BY <4>1, <3>3
      <4>3. <<g, d>> # <<KeyOf[r], day>>
        BY <3>6
      <4>4. daily'[<<g, d>>] = daily[<<g, d>>]
        BY <1>1, <2>1, <3>4, <4>3
      <4>5. QED
        BY <4>2, <4>4, <3>1, <1>1 DEF Balanced
    <3>7. QED
      BY <3>5, <3>6
  <2>7. QED
    BY <2>6, AgreesIsBalancedNext
<1>4. QED
  BY <1>2, <1>3

(* A batch is counted as it was written, and none of it is on the direct   *)
(* path.                                                                   *)
LEMMA CommitAgrees == ASSUME IInv, DailyAgrees, Commit PROVE DailyAgrees'
<1>1. /\ rows' = rows \o tx.rows /\ direct' = direct
      /\ daily' = [g \in Groups \X Days |-> daily[g] + Count(tx.aggs, g[1], g[2])]
      /\ ~blemished' => /\ ~blemished
                        /\ \A g \in Groups, d \in Days : Count(tx.rows, g, d) = Count(tx.aggs, g, d)
      /\ rows \in Seq(Row) /\ tx.rows \in Seq(Row) /\ tx.aggs \in Seq(Row)
      /\ daily \in [Groups \X Days -> Nat]
  BY DEF Commit, Blemish, IInv, TypeOK
<1>2. \A i \in DOMAIN tx.rows : direct[tx.rows[i].rec] # "agg"
  <2>1. ASSUME NEW i \in DOMAIN tx.rows PROVE direct[tx.rows[i].rec] # "agg"
    <3>1. tx.rows[i].rec \in Items(batch)
      BY TxOfBatch DEF Recorded
    <3>2. tx.rows[i].rec \in Records /\ tx.rows[i].rec \notin Recorded(rows)
      BY <3>1 DEF IInv, PlacesApart, Apart
    <3>3. QED
      BY <3>2 DEF IInv, DirectInv
  <2>2. QED
    BY <2>1
<1>3. ASSUME ~blemished', NEW g \in Groups, NEW d \in Days
      PROVE  Balanced(rows', direct', daily', g, d)
  <2> DEFINE u == rows \o tx.rows
             n == Len(rows)
             m == Len(tx.rows)
  <2>1. Balanced(rows, direct, daily, g, d)
    BY <1>1, <1>3, AgreesIsBalanced
  <2>2. Count(u, g, d) = Count(rows, g, d) + Count(tx.rows, g, d)
    BY <1>1, CountOfConcat
  <2>3. /\ u \in Seq(Row) /\ Len(u) = n + m
        /\ \A i \in 1 .. (n + m) : u[i] = IF i <= n THEN rows[i] ELSE tx.rows[i - n]
    BY <1>1, ConcatProperties
  <2>4. /\ n \in Nat /\ m \in Nat
        /\ DOMAIN rows = 1 .. n /\ DOMAIN tx.rows = 1 .. m /\ DOMAIN u = 1 .. (n + m)
    BY <1>1, <2>3, LenProperties
  <2>5. u = rows'
    BY <1>1
  <2> HIDE DEF u, n, m
  <2>6. /\ \A i \in DOMAIN rows : i \in DOMAIN u /\ u[i] = rows[i]
        /\ \A i \in DOMAIN u : \/ i \in DOMAIN rows /\ u[i] = rows[i]
                               \/ i - n \in DOMAIN tx.rows /\ u[i] = tx.rows[i - n]
    BY <2>3, <2>4
  <2>7. Owing(u, direct, g, d) = Owing(rows, direct, g, d)
    BY <2>6, <1>2 DEF Owing
  <2>8. <<g, d>> \in Groups \X Days /\ daily[<<g, d>>] \in Nat
    BY <1>1
  <2>9. daily'[<<g, d>>] = daily[<<g, d>>] + Count(tx.rows, g, d)
    BY <1>1, <1>3, <2>8
  <2>10. /\ Count(rows, g, d) \in Nat /\ Count(tx.rows, g, d) \in Nat
         /\ Cardinality(Owing(rows, direct, g, d)) \in Nat
    BY <1>1, CountType, OwingType
  <2>11. Count(u, g, d) = daily'[<<g, d>>] + Cardinality(Owing(u, direct, g, d))
    BY <2>1, <2>2, <2>7, <2>8, <2>9, <2>10 DEF Balanced
  <2>12. QED
    BY <2>5, <2>11, <1>1 DEF Balanced
<1>4. QED
  BY <1>3, AgreesIsBalancedNext

(* usage_daily agrees with usage_records, but for the rows that the direct *)
(* path is about to count, as long as no failure, midnight or stop fell    *)
(* between the two statements (store/usage.go:104-136, 219-262, 631-650;   *)
(* store/db.go:393-411).                                                   *)
THEOREM TablesAgree == Spec => []DailyAgrees
<1>1. Init => DailyAgrees
  <2>1. SUFFICES ASSUME Init PROVE DailyAgrees
    OBVIOUS
  <2>2. /\ rows = <<>> /\ direct = [r \in Records |-> "no"]
        /\ daily = [g \in Groups \X Days |-> 0]
    BY <2>1 DEF Init
  <2>3. <<>> \in Seq(Row) /\ DOMAIN <<>> = {}
    BY EmptySeq
  <2>4. ASSUME NEW g \in Groups, NEW d \in Days PROVE Balanced(rows, direct, daily, g, d)
    <3>1. Matching(rows, g, d) = {}
      BY <2>2, <2>3 DEF Matching
    <3>2. Count(rows, g, d) = 0
      BY <2>2, <2>3, <3>1, CountType, FS_EmptySet
    <3>3. <<g, d>> \in Groups \X Days /\ daily[<<g, d>>] = 0
      BY <2>2
    <3>4. QED
      BY <2>2, <2>3, <3>2, <3>3, NothingOwed
  <2>5. QED
    BY <2>4, AgreesIsBalanced
<1>2. IInv /\ DailyAgrees /\ [Next]_vars => DailyAgrees'
  <2>1. SUFFICES ASSUME IInv, DailyAgrees, [Next]_vars PROVE DailyAgrees'
    OBVIOUS
  <2>2. CASE Start \/ BackfillDelete \/ BackfillInsert
    BY <2>1, <2>2, StartAgrees
  <2>3. CASE Stop
    BY <2>1, <2>3, StopAgrees
  <2>4. CASE Commit
    BY <2>1, <2>4, CommitAgrees
  <2>5. CASE \E r \in Records : Insert(r) \/ DirectRow(r) \/ DirectAgg(r)
    BY <2>1, <2>5, InsertAgrees, DirectRowAgrees, DirectAggAgrees
  <2>6. CASE Midnight \/ Receive \/ Ticks \/ Abandon \/ Statement \/ Aggregates \/ UNCHANGED vars
    <3>1. rows' = rows /\ direct' = direct /\ daily' = daily /\ blemished' = blemished
      BY <2>6 DEF Midnight, Receive, Ticks, Abandon, Statement, Aggregates, vars, tables
    <3>2. QED
      BY <2>1, <3>1, AgreesIsBalanced, AgreesIsBalancedNext
  <2>7. QED
    BY <2>1, <2>2, <2>3, <2>4, <2>5, <2>6 DEF Next, Loop
<1>3. QED
  BY <1>1, <1>2, Invariant, PTL DEF Spec
=============================================================================
