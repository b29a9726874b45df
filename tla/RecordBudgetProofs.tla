-------------------------- MODULE RecordBudgetProofs --------------------------
(***************************************************************************)
(* Proofs about RecordBudget, for any sizes that leave the headroom        *)
(* HeadroomAssumption names.  Storable is not inductive: a record whose    *)
(* clicks alone filled the bucket could not be trimmed to fit.  IInv adds  *)
(* that what cannot be trimmed is within maxKVRecordBytes.                 *)
(***************************************************************************)
EXTENDS RecordBudget, FoldLemmas, FiniteSetTheorems, TLAPS

ClicksBounded == BaseBytes + record.clickBytes <= MaxKVRecordBytes

IInv == TypeOK /\ ClicksBounded /\ Storable

LEMMA BytesNat ==
  ASSUME NEW rec \in Record
  PROVE  Bytes(rec) \in Nat
<1>1. Len(rec.opens) \in Nat /\ rec.scalarBytes \in Nat /\ rec.clickBytes \in Nat
  BY BudgetAssumption DEF Record
<1> DEFINE l == Len(rec.opens)
<1>2. l \in Nat /\ OpenBytes \in Nat
  BY <1>1, BudgetAssumption
<1> HIDE DEF l
<1>3. OpenBytes * l \in Nat
  BY <1>2
<1>4. OpenBytes * Len(rec.opens) \in Nat
  BY <1>3 DEF l
<1>5. BaseBytes \in Nat
  BY BudgetAssumption
<1> DEFINE o == OpenBytes * Len(rec.opens)
           s == rec.scalarBytes
           c == rec.clickBytes
<1>6. Bytes(rec) = BaseBytes + s + o + c
  BY DEF Bytes
<1>7. o \in Nat /\ s \in Nat /\ c \in Nat
  BY <1>1, <1>4
<1> HIDE DEF o, s, c
<1> QED
  BY <1>5, <1>6, <1>7

(* What cannot be trimmed is part of the record.                           *)
LEMMA RestCounted ==
  ASSUME NEW rec \in Record
  PROVE  BaseBytes + rec.clickBytes <= Bytes(rec)
<1> DEFINE l == Len(rec.opens)
<1>1. l \in Nat /\ OpenBytes \in Nat /\ rec.scalarBytes \in Nat /\ rec.clickBytes \in Nat
  BY BudgetAssumption DEF Record
<1>2. Bytes(rec) = BaseBytes + rec.scalarBytes + OpenBytes * l + rec.clickBytes
  BY DEF Bytes
<1> HIDE DEF l
<1>3. OpenBytes * l \in Nat
  BY <1>1
<1> QED
  BY <1>1, <1>2, <1>3, BudgetAssumption

(* Dropping the n oldest entries leaves a list without repetitions, and    *)
(* every other field alone.                                                *)
LEMMA DropTypes ==
  ASSUME NEW rec \in Record, IsInjective(rec.opens), NEW n \in 0..Len(rec.opens)
  PROVE  LET new == WithoutOldest(rec, n) IN
         /\ new \in Record
         /\ new.opens \in Seq(Opens) /\ IsInjective(new.opens)
         /\ Len(new.opens) = Len(rec.opens) - n
         /\ ToSet(new.opens) \subseteq ToSet(rec.opens)
         /\ new = [rec EXCEPT !.opens = new.opens]
<1> DEFINE s == rec.opens
           t == SubSeq(s, n + 1, Len(s))
<1>1. s \in Seq(Opens) /\ Len(s) \in Nat
  BY DEF Record
<1>2. t \in Seq(Opens) /\ Len(t) = Len(s) - n /\ \A i \in 1..Len(t) : t[i] = s[n + i]
  BY <1>1
<1>3. IsInjective(t)
  <2>1. ASSUME NEW i \in DOMAIN t, NEW j \in DOMAIN t, t[i] = t[j] PROVE i = j
    <3> HIDE DEF s, t
    <3>1. i \in 1..Len(t) /\ j \in 1..Len(t)
      BY <1>2, <2>1
    <3>2. n + i \in 1..Len(s) /\ n + j \in 1..Len(s)
      BY <1>1, <1>2, <3>1
    <3>3. s[n + i] = s[n + j]
      BY <1>2, <2>1, <3>1
    <3>4. IsInjective(s) /\ DOMAIN s = 1..Len(s)
      BY <1>1 DEF s
    <3>5. n + i = n + j
      BY <3>2, <3>3, <3>4 DEF IsInjective
    <3> QED BY <3>1, <3>5, <1>1
  <2> QED BY <2>1 DEF IsInjective
<1>4. ToSet(t) \subseteq ToSet(s)
  <2>1. ASSUME NEW i \in DOMAIN t PROVE t[i] \in ToSet(s)
    <3>1. i \in 1..Len(t) /\ n + i \in 1..Len(s) /\ t[i] = s[n + i]
      BY <1>1, <1>2, <2>1
    <3> QED BY <3>1, <1>1 DEF ToSet
  <2> QED BY <2>1 DEF ToSet
<1>5. WithoutOldest(rec, n) = [rec EXCEPT !.opens = t]
  BY DEF WithoutOldest
<1>6. WithoutOldest(rec, n).opens = t /\ WithoutOldest(rec, n) \in Record
  BY <1>2, <1>5 DEF Record
<1> QED
  BY <1>2, <1>3, <1>4, <1>5, <1>6

(* What compactOpenedAtList cuts: a number of entries there are, and       *)
(* unless it cuts all of them the rest is within compactAboveBytes.        *)
LEMMA CutsBound ==
  ASSUME NEW rec \in Record, NEW n \in Cuts(rec)
  PROVE  /\ n \in 0..Len(rec.opens)
         /\ \/ n = Len(rec.opens)
            \/ n = 0 /\ Bytes(rec) <= CompactAboveBytes
            \/ Bytes(WithoutOldest(rec, n)) <= MaxKVRecordBytes
<1>1. rec.opens \in Seq(Opens) /\ Len(rec.opens) \in Nat
  BY DEF Record
<1>2. CASE rec.opens = << >>
  <2>1. n = 0 BY <1>2 DEF Cuts
  <2> QED BY <2>1, <1>2, <1>1
<1>3. CASE rec.opens # << >> /\ Compacted(rec)
  <2>1. n = 0 BY <1>3 DEF Cuts
  <2> QED BY <2>1, <1>1, <1>3 DEF Compacted
<1>4. CASE rec.opens # << >> /\ ~ Compacted(rec)
  <2> DEFINE over == IF Len(rec.opens) > MaxOpenEvents THEN Len(rec.opens) - MaxOpenEvents ELSE 0
  <2>1. /\ n \in over..Len(rec.opens)
        /\ n = Len(rec.opens) \/ Fits(WithoutOldest(rec, n))
    BY <1>4 DEF Cuts
  <2>2. over \in Nat
    BY <1>1, BudgetAssumption
  <2> HIDE DEF over
  <2>3. n \in 0..Len(rec.opens)
    BY <2>1, <2>2, <1>1
  <2> QED BY <2>1, <2>3 DEF Fits
<1> QED
  BY <1>2, <1>3, <1>4

(* Compaction keeps the record well-typed and forgets nothing but opens;   *)
(* unless it leaves no opens the record is within compactAboveBytes.       *)
LEMMA CompactionBounds ==
  ASSUME NEW rec \in Record, IsInjective(rec.opens),
         NEW new \in CompactOpenedAtList(rec)
  PROVE  /\ new \in Record /\ IsInjective(new.opens)
         /\ ToSet(new.opens) \subseteq ToSet(rec.opens)
         /\ new.clickBytes = rec.clickBytes /\ new.scalarBytes = rec.scalarBytes
         /\ new.ids = rec.ids /\ new.history = rec.history
         /\ Len(new.opens) = 0 \/ Bytes(new) <= CompactAboveBytes
<1> DEFINE up == Raised(rec)
<1>1. /\ up \in Record
      /\ up.opens = rec.opens /\ up.clickBytes = rec.clickBytes
      /\ up.scalarBytes = rec.scalarBytes /\ up.ids = rec.ids /\ up.history = rec.history
  BY DEF Raised, Record
<1>2. PICK n \in Cuts(rec) : new = WithoutOldest(up, n)
  BY DEF CompactOpenedAtList
<1>3. /\ n \in 0..Len(up.opens)
      /\ \/ n = Len(rec.opens)
         \/ n = 0 /\ Bytes(rec) <= CompactAboveBytes
         \/ Bytes(WithoutOldest(rec, n)) <= MaxKVRecordBytes
  BY <1>1, CutsBound
<1> HIDE DEF up
<1>4. /\ new \in Record /\ new.opens \in Seq(Opens) /\ IsInjective(new.opens)
      /\ Len(new.opens) = Len(rec.opens) - n
      /\ ToSet(new.opens) \subseteq ToSet(rec.opens)
      /\ new = [up EXCEPT !.opens = new.opens]
  BY <1>1, <1>2, <1>3, DropTypes
<1>5. /\ new.clickBytes = rec.clickBytes /\ new.scalarBytes = rec.scalarBytes
      /\ new.ids = rec.ids /\ new.history = rec.history
  BY <1>1, <1>4 DEF Record
<1>6. /\ WithoutOldest(rec, n) \in Record
      /\ Len(WithoutOldest(rec, n).opens) = Len(rec.opens) - n
      /\ WithoutOldest(rec, n).clickBytes = rec.clickBytes
      /\ WithoutOldest(rec, n).scalarBytes = rec.scalarBytes
  <2>1. n \in 0..Len(rec.opens)
    BY <1>1, <1>3
  <2> QED BY <2>1, DropTypes DEF WithoutOldest, Record
<1>7. Bytes(WithoutOldest(rec, n)) = Bytes(new)
  BY <1>4, <1>5, <1>6 DEF Bytes
<1>8. rec.opens \in Seq(Opens) /\ Len(rec.opens) \in Nat
  BY DEF Record
<1>9. n = 0 => Bytes(new) = Bytes(rec)
  BY <1>4, <1>5, <1>8 DEF Bytes
<1>10. Len(new.opens) = 0 \/ Bytes(new) <= CompactAboveBytes
  <2>1. CASE n = Len(rec.opens)
    BY <2>1, <1>4, <1>8
  <2>2. CASE n = 0 /\ Bytes(rec) <= CompactAboveBytes
    BY <2>2, <1>9
  <2>3. CASE Bytes(WithoutOldest(rec, n)) <= MaxKVRecordBytes
    <3>1. Bytes(new) <= MaxKVRecordBytes
      BY <2>3, <1>7
    <3>2. Bytes(new) \in Nat
      BY <1>4, BytesNat
    <3> QED BY <3>1, <3>2, BudgetAssumption, HeadroomAssumption
  <2> QED BY <2>1, <2>2, <2>3, <1>3
<1> QED
  BY <1>4, <1>5, <1>10

(* Neither kind of entry is kept unless the record fits with it; what a    *)
(* flag, a count or a time stamp adds is all that is not looked at.        *)
LEMMA WithOpenBounds ==
  ASSUME NEW rec \in Record, IsInjective(rec.opens),
         NEW m \in Opens, m \notin ToSet(rec.opens), NEW b \in 0..MaxScalarBytes
  PROVE  LET new == WithOpen(rec, m, b) IN
         /\ new \in Record /\ IsInjective(new.opens)
         /\ new.clickBytes = rec.clickBytes
         /\ \/ Bytes(new) <= MaxKVRecordBytes
            \/ new.opens = rec.opens /\ new.scalarBytes = b
<1> DEFINE new == [rec EXCEPT !.openCount = @ + 1, !.scalarBytes = b]
           listed == [new EXCEPT !.opens = Append(@, m)]
<1>1. rec.opens \in Seq(Opens) /\ Len(rec.opens) \in Nat /\ rec.openCount + 1 \in Nat
  BY DEF Record
<1>2. /\ new \in Record /\ new.opens = rec.opens /\ new.clickBytes = rec.clickBytes
      /\ new.scalarBytes = b
  <2>1. new \in Record
    BY <1>1 DEF Record
  <2>2. new.opens = rec.opens /\ new.clickBytes = rec.clickBytes /\ new.scalarBytes = b
    BY DEF Record
  <2> QED BY <2>1, <2>2
<1>3. /\ listed \in Record /\ listed.opens = Append(rec.opens, m)
      /\ listed.clickBytes = rec.clickBytes
  <2> HIDE DEF new
  <2>1. Append(new.opens, m) \in Seq(Opens)
    BY <1>1, <1>2
  <2>2. listed \in Record
    BY <1>2, <2>1 DEF Record
  <2>3. listed.opens = Append(rec.opens, m) /\ listed.clickBytes = rec.clickBytes
    BY <1>2 DEF Record
  <2> QED BY <2>2, <2>3
<1>4. IsInjective(Append(rec.opens, m))
  <2> DEFINE t == Append(rec.opens, m)
  <2>1. /\ DOMAIN t = 1..(Len(rec.opens) + 1) /\ t[Len(rec.opens) + 1] = m
        /\ \A i \in 1..Len(rec.opens) : t[i] = rec.opens[i] /\ t[i] # m
    BY <1>1 DEF ToSet
  <2>2. ASSUME NEW i \in DOMAIN t, NEW j \in DOMAIN t, t[i] = t[j] PROVE i = j
    <3> HIDE DEF t
    <3>1. CASE i \in 1..Len(rec.opens) /\ j \in 1..Len(rec.opens)
      BY <2>1, <2>2, <3>1, <1>1 DEF IsInjective
    <3>2. CASE i = Len(rec.opens) + 1 \/ j = Len(rec.opens) + 1
      BY <2>1, <2>2, <3>2, <1>1
    <3> QED BY <2>1, <3>1, <3>2, <1>1
  <2> QED BY <2>2 DEF IsInjective
<1> HIDE DEF new, listed
<1>5. WithOpen(rec, m, b) = IF Len(rec.opens) < MaxOpenEvents /\ Fits(listed) THEN listed ELSE new
  BY DEF WithOpen, new, listed
<1>6. CASE Len(rec.opens) < MaxOpenEvents /\ Fits(listed)
  BY <1>3, <1>4, <1>5, <1>6 DEF Fits
<1>7. CASE ~ (Len(rec.opens) < MaxOpenEvents /\ Fits(listed))
  BY <1>2, <1>5, <1>7
<1> QED
  BY <1>6, <1>7

LEMMA WithClickBounds ==
  ASSUME NEW rec \in Record, IsInjective(rec.opens),
         NEW m \in Clicks, NEW b \in 0..MaxScalarBytes
  PROVE  LET new == WithClick(rec, m, b) IN
         /\ new \in Record /\ new.opens = rec.opens /\ new.scalarBytes = b
         /\ new.clickBytes = rec.clickBytes \/ Bytes(new) <= MaxKVRecordBytes
<1> DEFINE new == [rec EXCEPT !.clickCount = @ + 1, !.scalarBytes = b]
           idAdded == Cardinality(rec.ids) < MaxClickEventIDs
           withId == IF idAdded THEN [new EXCEPT !.ids = @ \cup {m}, !.clickBytes = @ + IdBytes]
                     ELSE new
           withBoth == [withId EXCEPT !.history = @ \cup {m}, !.clickBytes = @ + EntryBytes[m]]
<1>1. EntryBytes[m] \in Nat /\ IdBytes \in Nat /\ rec.clickCount + 1 \in Nat
  BY BudgetAssumption DEF Record
<1>2. /\ new \in Record /\ new.opens = rec.opens /\ new.scalarBytes = b
      /\ new.clickBytes = rec.clickBytes
  <2>1. new \in Record
    BY <1>1 DEF Record
  <2>2. new.opens = rec.opens /\ new.clickBytes = rec.clickBytes /\ new.scalarBytes = b
    BY DEF Record
  <2> QED BY <2>1, <2>2
<1> HIDE DEF new, idAdded
<1>3. withId \in Record /\ withId.opens = rec.opens /\ withId.scalarBytes = b
  <2>1. new.clickBytes + IdBytes \in Nat /\ new.ids \cup {m} \in SUBSET Clicks
    BY <1>1, <1>2 DEF Record
  <2>2. withId \in Record
    BY <1>2, <2>1 DEF Record
  <2>3. withId.opens = rec.opens /\ withId.scalarBytes = b
    BY <1>2 DEF Record
  <2> QED BY <2>2, <2>3
<1> HIDE DEF withId
<1>4. withBoth \in Record /\ withBoth.opens = rec.opens /\ withBoth.scalarBytes = b
  <2>1. withId.clickBytes + EntryBytes[m] \in Nat /\ withId.history \cup {m} \in SUBSET Clicks
    <3>1. withId.clickBytes \in Nat /\ withId.history \in SUBSET Clicks
      BY <1>3 DEF Record
    <3> QED BY <1>1, <3>1
  <2>2. withBoth \in Record
    BY <1>3, <2>1 DEF Record
  <2>3. withBoth.opens = rec.opens /\ withBoth.scalarBytes = b
    BY <1>3 DEF Record
  <2> QED BY <2>2, <2>3
<1> HIDE DEF withBoth
<1>5. WithClick(rec, m, b) = CASE Fits(withBoth) -> withBoth
                               [] ~ Fits(withBoth) /\ idAdded /\ Fits(withId) -> withId
                               [] OTHER -> new
  BY DEF WithClick, withBoth, withId, idAdded, new
<1>6. CASE Fits(withBoth)
  BY <1>4, <1>5, <1>6 DEF Fits
<1>7. CASE ~ Fits(withBoth) /\ idAdded /\ Fits(withId)
  BY <1>3, <1>5, <1>7 DEF Fits
<1>8. CASE ~ Fits(withBoth) /\ ~ (idAdded /\ Fits(withId))
  BY <1>2, <1>5, <1>8
<1> QED
  BY <1>6, <1>7, <1>8

(* A record whose opens are those compaction left, and whose clicks did    *)
(* not grow, has room for its scalar fields.                               *)
LEMMA ScalarsFit ==
  ASSUME NEW rec \in Record, NEW new \in Record,
         BaseBytes + rec.clickBytes <= MaxKVRecordBytes,
         Len(rec.opens) = 0 \/ Bytes(rec) <= CompactAboveBytes,
         new.opens = rec.opens, new.clickBytes = rec.clickBytes
  PROVE  Bytes(new) <= MaxValueBytes
<1> DEFINE o == OpenBytes * Len(rec.opens)
           s == rec.scalarBytes
           t == new.scalarBytes
           c == rec.clickBytes
           other == BaseBytes + o + c
<1>1. s \in 0..MaxScalarBytes /\ t \in 0..MaxScalarBytes /\ c \in Nat
  BY DEF Record
<1>2. Bytes(rec) = BaseBytes + s + o + c
  BY DEF Bytes
<1>3. Bytes(new) = BaseBytes + t + o + c
  BY DEF Bytes
<1>4. Len(rec.opens) \in Nat /\ (Len(rec.opens) = 0 => o = 0)
  BY BudgetAssumption DEF Record
<1>5. o \in Nat
  <2> DEFINE l == Len(rec.opens)
  <2>1. l \in Nat /\ OpenBytes \in Nat BY <1>4, BudgetAssumption
  <2> HIDE DEF l
  <2>2. OpenBytes * l \in Nat BY <2>1
  <2> QED BY <2>2 DEF l
<1>6. BaseBytes + c <= MaxKVRecordBytes
  OBVIOUS
<1> HIDE DEF o, s, t, c
<1>7. /\ BaseBytes \in Nat /\ MaxKVRecordBytes \in Nat /\ CompactAboveBytes \in Nat
      /\ MaxScalarBytes \in Nat /\ MaxValueBytes \in Nat
      /\ MaxKVRecordBytes <= CompactAboveBytes
      /\ CompactAboveBytes + MaxScalarBytes <= MaxValueBytes
  BY BudgetAssumption, HeadroomAssumption
<1>8. other <= CompactAboveBytes
  <2>1. CASE Len(rec.opens) = 0
    BY <1>1, <1>4, <1>7, <1>6, <2>1
  <2>2. CASE Bytes(rec) <= CompactAboveBytes
    BY <1>1, <1>2, <1>5, <1>7, <2>2
  <2> QED BY <2>1, <2>2
<1> QED
  BY <1>1, <1>3, <1>5, <1>7, <1>8

-----------------------------------------------------------------------------
LEMMA InitIInv == Init => IInv
<1> SUFFICES ASSUME Init PROVE IInv
  OBVIOUS
<1>1. record \in Record /\ ClicksBounded /\ Storable
  BY DEF Init, ClicksBounded, Storable
<1>2. IsInjective(record.opens)
  BY DEF Init
<1>3. counted \in [Opens \cup Clicks -> Nat]
  BY DEF Init
<1> QED
  BY <1>1, <1>2, <1>3 DEF IInv, TypeOK

LEMMA CountOnceTypes ==
  ASSUME TypeOK, NEW m \in Opens \cup Clicks, CountOnce(m)
  PROVE  counted' \in [Opens \cup Clicks -> Nat]
  BY DEF TypeOK, CountOnce

LEMMA NextIInv == IInv /\ [Next]_vars => IInv'
<1> SUFFICES ASSUME IInv, [Next]_vars PROVE IInv'
  OBVIOUS
<1> USE DEF IInv
<1>1. record \in Record /\ IsInjective(record.opens)
  BY DEF TypeOK
<1>2. ASSUME NEW m \in Opens, ApplyOpen(m) PROVE IInv'
  <2>1. PICK rec \in CompactOpenedAtList(record), b \in 0..MaxScalarBytes :
          record' = WithOpen(rec, m, b)
    BY <1>2 DEF ApplyOpen
  <2>2. /\ rec \in Record /\ IsInjective(rec.opens) /\ m \notin ToSet(rec.opens)
        /\ rec.clickBytes = record.clickBytes
        /\ Len(rec.opens) = 0 \/ Bytes(rec) <= CompactAboveBytes
    <3>1. m \notin ToSet(record.opens)
      BY <1>2 DEF ApplyOpen
    <3> QED BY <1>1, <3>1, CompactionBounds
  <2>3. /\ record' \in Record /\ IsInjective(record'.opens)
        /\ record'.clickBytes = record.clickBytes
        /\ Bytes(record') <= MaxKVRecordBytes \/ record'.opens = rec.opens
    BY <2>1, <2>2, WithOpenBounds
  <2>4. Bytes(record') <= MaxValueBytes
    <3>1. CASE Bytes(record') <= MaxKVRecordBytes
      BY <2>3, <3>1, BytesNat, BudgetAssumption, HeadroomAssumption
    <3>2. CASE record'.opens = rec.opens
      BY <2>2, <2>3, <3>2, ScalarsFit DEF ClicksBounded
    <3> QED BY <2>3, <3>1, <3>2
  <2>5. counted' \in [Opens \cup Clicks -> Nat]
    BY <1>2, CountOnceTypes DEF ApplyOpen
  <2> QED BY <2>3, <2>4, <2>5 DEF TypeOK, ClicksBounded, Storable, Bytes
<1>3. ASSUME NEW m \in Clicks, ApplyClick(m) PROVE IInv'
  <2>1. PICK rec \in CompactOpenedAtList(record), b \in 0..MaxScalarBytes :
          record' = WithClick(rec, m, b)
    BY <1>3 DEF ApplyClick
  <2>2. /\ rec \in Record /\ IsInjective(rec.opens)
        /\ rec.clickBytes = record.clickBytes
        /\ Len(rec.opens) = 0 \/ Bytes(rec) <= CompactAboveBytes
    BY <1>1, CompactionBounds
  <2>3. /\ record' \in Record /\ record'.opens = rec.opens
        /\ record'.clickBytes = rec.clickBytes \/ Bytes(record') <= MaxKVRecordBytes
    BY <2>1, <2>2, WithClickBounds
  <2>4. /\ Bytes(record') <= MaxValueBytes
        /\ BaseBytes + record'.clickBytes <= MaxKVRecordBytes
    <3>1. CASE Bytes(record') <= MaxKVRecordBytes
      <4>1. BaseBytes + record'.clickBytes <= Bytes(record')
        BY <2>3, RestCounted
      <4> QED
        BY <2>3, <3>1, <4>1, BytesNat, BudgetAssumption, HeadroomAssumption DEF Record
    <3>2. CASE record'.clickBytes = rec.clickBytes
      BY <2>2, <2>3, <3>2, ScalarsFit DEF ClicksBounded
    <3> QED BY <2>3, <3>1, <3>2
  <2>5. counted' \in [Opens \cup Clicks -> Nat]
    BY <1>3, CountOnceTypes DEF ApplyClick
  <2> QED BY <2>2, <2>3, <2>4, <2>5 DEF TypeOK, ClicksBounded, Storable, Bytes
<1>4. ASSUME record' \in CompactOpenedAtList(record), UNCHANGED counted PROVE IInv'
  <2>1. /\ record' \in Record /\ IsInjective(record'.opens)
        /\ record'.clickBytes = record.clickBytes
        /\ Len(record'.opens) = 0 \/ Bytes(record') <= CompactAboveBytes
    BY <1>1, <1>4, CompactionBounds
  <2>2. Bytes(record') <= MaxValueBytes
    BY <2>1, ScalarsFit DEF ClicksBounded
  <2> QED BY <1>4, <2>1, <2>2 DEF TypeOK, ClicksBounded, Storable, Bytes
<1>5. ASSUME NEW f \in Flags, ApplyFlag(f) PROVE IInv'
  <2>1. PICK rec \in CompactOpenedAtList(record), b \in 0..MaxScalarBytes :
          record' = [rec EXCEPT !.flags = @ \cup {f}, !.scalarBytes = b]
    BY <1>5 DEF ApplyFlag
  <2>2. /\ rec \in Record /\ IsInjective(rec.opens)
        /\ rec.clickBytes = record.clickBytes
        /\ Len(rec.opens) = 0 \/ Bytes(rec) <= CompactAboveBytes
    BY <1>1, CompactionBounds
  <2>3. record' \in Record
    <3>1. rec.flags \cup {f} \in SUBSET Flags
      BY <2>2 DEF Record
    <3> QED BY <2>1, <2>2, <3>1 DEF Record
  <2>4. record'.opens = rec.opens /\ record'.clickBytes = rec.clickBytes
    BY <2>1, <2>2 DEF Record
  <2>5. Bytes(record') <= MaxValueBytes
    BY <2>2, <2>3, <2>4, ScalarsFit DEF ClicksBounded
  <2>6. UNCHANGED counted
    BY <1>5 DEF ApplyFlag
  <2> QED BY <2>2, <2>3, <2>4, <2>5, <2>6 DEF TypeOK, ClicksBounded, Storable, Bytes
<1>6. CASE UNCHANGED vars
  BY <1>6 DEF vars, TypeOK, ClicksBounded, Storable, Bytes
<1> QED
  BY <1>2, <1>3, <1>4, <1>5, <1>6 DEF Next, ReplayClick, ReplayFlag

(* IInv holds in every reachable state.                                    *)
LEMMA Invariance == Spec => []IInv
<1> QED
  BY InitIInv, NextIInv, PTL DEF Spec

(* Every reachable record is well-typed, and no message is listed twice in *)
(* OpenedAtList.                                                           *)
THEOREM TypeCorrect == Spec => []TypeOK
<1>1. IInv => TypeOK
  BY DEF IInv
<1> QED
  BY <1>1, Invariance, PTL

(* Whatever is applied, in whatever order and however often, to whatever   *)
(* record an older version left: the bucket takes the result.              *)
THEOREM StorableHolds == Spec => []Storable
<1>1. IInv => Storable
  BY DEF IInv
<1> QED
  BY <1>1, Invariance, PTL

(* A message that the record remembers is not counted again, even by the   *)
(* update that trims it.                                                   *)
THEOREM ReplayNotCountedHolds == Spec => ReplayNotCounted
<1>1. IInv /\ [Next]_vars => [\A m \in Remembered(record) : counted'[m] = counted[m]]_vars
  <2> SUFFICES ASSUME IInv, Next, NEW m \in Remembered(record)
               PROVE  counted'[m] = counted[m]
    BY DEF vars
  <2>1. /\ ToSet(record.opens) \subseteq Opens
        /\ counted \in [Opens \cup Clicks -> Nat]
        /\ KnownClicks(record) \subseteq Clicks
    BY DEF IInv, TypeOK, Record, ToSet, KnownClicks
  <2>2. ASSUME NEW k \in Opens \cup Clicks, CountOnce(k), k \notin Remembered(record)
        PROVE  counted'[m] = counted[m]
    BY <2>1, <2>2 DEF CountOnce, Remembered
  <2>3. ASSUME NEW k \in Opens, ApplyOpen(k) PROVE counted'[m] = counted[m]
    <3>1. k \notin Remembered(record) /\ CountOnce(k)
      BY <2>1, <2>3, BudgetAssumption DEF ApplyOpen, Remembered
    <3> QED BY <2>2, <3>1
  <2>4. ASSUME NEW k \in Clicks, ApplyClick(k) PROVE counted'[m] = counted[m]
    <3>1. k \notin Remembered(record) /\ CountOnce(k)
      BY <2>1, <2>4, BudgetAssumption DEF ApplyClick, Remembered
    <3> QED BY <2>2, <3>1
  <2> QED
    BY <2>3, <2>4 DEF Next, ReplayClick, ApplyFlag, ReplayFlag
<1> QED
  BY <1>1, Invariance, PTL DEF Spec, ReplayNotCounted

(* An open that is not listed found no room for its entry.                 *)
LEMMA OpenUnlisted ==
  ASSUME NEW rec \in Record, NEW m \in Opens, NEW b \in 0..MaxScalarBytes
  PROVE  LET new == WithOpen(rec, m, b) IN
         /\ new.ids = rec.ids /\ new.history = rec.history
         /\ \/ m \in ToSet(new.opens)
            \/ Bytes(new) + OpenBytes > MaxKVRecordBytes
            \/ Len(new.opens) >= MaxOpenEvents
<1> DEFINE new == [rec EXCEPT !.openCount = @ + 1, !.scalarBytes = b]
           listed == [new EXCEPT !.opens = Append(@, m)]
           l == Len(rec.opens)
<1>1. rec.opens \in Seq(Opens) /\ l \in Nat
  BY DEF Record
<1>2. /\ new.opens = rec.opens /\ new.clickBytes = rec.clickBytes /\ new.scalarBytes = b
      /\ new.ids = rec.ids /\ new.history = rec.history
      /\ listed.opens = Append(rec.opens, m) /\ listed.clickBytes = rec.clickBytes
      /\ listed.scalarBytes = b /\ listed.ids = rec.ids /\ listed.history = rec.history
  BY DEF Record
<1>3. Len(Append(rec.opens, m)) = l + 1 /\ m \in ToSet(Append(rec.opens, m))
  <2>1. /\ Len(Append(rec.opens, m)) = l + 1
        /\ l + 1 \in DOMAIN Append(rec.opens, m) /\ Append(rec.opens, m)[l + 1] = m
    BY <1>1
  <2> QED
    BY <2>1 DEF ToSet
<1> HIDE DEF new, listed
<1>4. WithOpen(rec, m, b) = IF l < MaxOpenEvents /\ Fits(listed) THEN listed ELSE new
  BY DEF WithOpen, new, listed
<1>5. /\ Bytes(new) = BaseBytes + b + OpenBytes * l + rec.clickBytes
      /\ Bytes(listed) = BaseBytes + b + OpenBytes * (l + 1) + rec.clickBytes
  BY <1>2, <1>3 DEF Bytes
<1> HIDE DEF l
<1>6. /\ OpenBytes * (l + 1) = OpenBytes * l + OpenBytes /\ OpenBytes * l \in Nat
      /\ rec.clickBytes \in Nat /\ b \in Nat
  BY <1>1, BudgetAssumption DEF Record
<1>7. Bytes(listed) = Bytes(new) + OpenBytes /\ Bytes(new) \in Nat
  BY <1>5, <1>6, BudgetAssumption
<1>8. CASE l < MaxOpenEvents /\ Fits(listed)
  BY <1>2, <1>3, <1>4, <1>8
<1>9. CASE ~ (l < MaxOpenEvents)
  BY <1>1, <1>2, <1>4, <1>9, BudgetAssumption DEF l
<1>10. CASE ~ Fits(listed)
  BY <1>2, <1>4, <1>7, <1>10, BudgetAssumption DEF Fits
<1> QED
  BY <1>8, <1>9, <1>10

(* A click that is not remembered found no room for its id.                *)
LEMMA ClickUnlisted ==
  ASSUME NEW rec \in Record, NEW m \in Clicks, NEW b \in 0..MaxScalarBytes
  PROVE  LET new == WithClick(rec, m, b) IN
         /\ KnownClicks(rec) \subseteq KnownClicks(new)
         /\ \/ m \in KnownClicks(new)
            \/ Bytes(new) + IdBytes > MaxKVRecordBytes
            \/ Cardinality(new.ids) >= MaxClickEventIDs
<1> DEFINE new == [rec EXCEPT !.clickCount = @ + 1, !.scalarBytes = b]
           idAdded == Cardinality(rec.ids) < MaxClickEventIDs
           withId == IF idAdded THEN [new EXCEPT !.ids = @ \cup {m}, !.clickBytes = @ + IdBytes]
                     ELSE new
           withBoth == [withId EXCEPT !.history = @ \cup {m}, !.clickBytes = @ + EntryBytes[m]]
<1>1. /\ new.opens = rec.opens /\ new.clickBytes = rec.clickBytes /\ new.scalarBytes = b
      /\ new.ids = rec.ids /\ new.history = rec.history
  BY DEF Record
<1>2. new \in [opens : Seq(Opens), openCount : Nat, ids : SUBSET Clicks, history : SUBSET Clicks,
               clickCount : Nat, clickBytes : Nat, flags : SUBSET Flags,
               scalarBytes : 0..MaxScalarBytes]
  <2>1. rec.clickCount + 1 \in Nat
    BY DEF Record
  <2> QED
    BY <2>1 DEF Record
<1>3. Cardinality(rec.ids) \in Nat
  <2>1. IsFiniteSet(rec.ids)
    BY BudgetAssumption, FS_Subset DEF Record
  <2> QED
    BY <2>1, FS_CardinalityType
<1>w. WithClick(rec, m, b) = CASE Fits(withBoth) -> withBoth
                               [] ~ Fits(withBoth) /\ idAdded /\ Fits(withId) -> withId
                               [] OTHER -> new
  BY DEF WithClick
<1> HIDE DEF new
<1>4. /\ withId.opens = rec.opens /\ withId.scalarBytes = b /\ withId.history = rec.history
      /\ idAdded => withId.ids = rec.ids \cup {m} /\ withId.clickBytes = rec.clickBytes + IdBytes
      /\ ~ idAdded => withId = new
  BY <1>1, <1>2
<1>5. rec.ids \subseteq withId.ids
  BY <1>1, <1>4
<1>6. withId \in [opens : Seq(Opens), openCount : Nat, ids : SUBSET Clicks, history : SUBSET Clicks,
                  clickCount : Nat, clickBytes : Nat, flags : SUBSET Flags,
                  scalarBytes : 0..MaxScalarBytes]
  <2>1. new.clickBytes + IdBytes \in Nat /\ new.ids \cup {m} \in SUBSET Clicks
    BY <1>2, BudgetAssumption
  <2> QED
    BY <1>2, <2>1
<1> HIDE DEF withId
<1>7. withBoth.ids = withId.ids /\ withBoth.history = rec.history \cup {m}
  BY <1>4, <1>6
<1> HIDE DEF withBoth
<1>8. CASE Fits(withBoth)
  BY <1>5, <1>7, <1>8, <1>w DEF KnownClicks
<1>9. CASE ~ Fits(withBoth) /\ idAdded /\ Fits(withId)
  BY <1>4, <1>9, <1>w DEF KnownClicks
<1>10. CASE ~ Fits(withBoth) /\ ~ idAdded
  BY <1>1, <1>3, <1>10, <1>w, BudgetAssumption DEF KnownClicks
<1>11. CASE ~ Fits(withBoth) /\ idAdded /\ ~ Fits(withId)
  <2>1. WithClick(rec, m, b) = new
    BY <1>11, <1>w
  <2>2. Bytes(withId) = Bytes(new) + IdBytes /\ Bytes(new) \in Nat
    <3> DEFINE o == OpenBytes * Len(rec.opens)
    <3>1. Bytes(withId) = BaseBytes + b + o + (rec.clickBytes + IdBytes)
      BY <1>4, <1>11 DEF Bytes
    <3>2. Bytes(new) = BaseBytes + b + o + rec.clickBytes
      BY <1>1 DEF Bytes
    <3>3. Bytes(rec) \in Nat /\ Bytes(new) \in Nat
      BY <1>2, BytesNat DEF Record
    <3>4. o \in Nat
      <4> DEFINE l == Len(rec.opens)
      <4>1. l \in Nat /\ OpenBytes \in Nat
        BY BudgetAssumption DEF Record
      <4> HIDE DEF l
      <4>2. OpenBytes * l \in Nat
        BY <4>1
      <4> QED
        BY <4>2 DEF l
    <3>5. rec.clickBytes \in Nat /\ b \in Nat
      BY BudgetAssumption DEF Record
    <3> HIDE DEF o
    <3> QED
      BY <3>1, <3>2, <3>3, <3>4, <3>5, BudgetAssumption
  <2> QED
    BY <1>1, <1>11, <2>1, <2>2, BudgetAssumption DEF Fits, KnownClicks
<1> QED
  BY <1>8, <1>9, <1>10, <1>11

(* A counted open or click is forgotten only for want of room, and a click *)
(* that is remembered stays so.                                            *)
THEOREM ForgottenOnlyWhenFullHolds == Spec => ForgottenOnlyWhenFull
<1> DEFINE new == {m \in Opens \cup Clicks : counted'[m] > counted[m]} \ Remembered(record')
           NoRoom(bytes) == Bytes(record') + bytes > MaxKVRecordBytes
           Goal == /\ \A m \in new \cap Opens :
                        NoRoom(OpenBytes) \/ Len(record'.opens) >= MaxOpenEvents
                   /\ \A m \in new \cap Clicks :
                        NoRoom(IdBytes) \/ Cardinality(record'.ids) >= MaxClickEventIDs
                   /\ KnownClicks(record) \subseteq KnownClicks(record')
<1>1. ASSUME IInv, Next PROVE Goal
  <2>1. /\ record \in Record /\ IsInjective(record.opens)
        /\ counted \in [Opens \cup Clicks -> Nat]
    BY <1>1 DEF IInv, TypeOK
  <2>2. \A rec \in CompactOpenedAtList(record) :
          rec \in Record /\ KnownClicks(rec) = KnownClicks(record)
    BY <2>1, CompactionBounds DEF KnownClicks
  <2>3. ASSUME UNCHANGED counted PROVE new = {}
    BY <2>1, <2>3
  <2>4. ASSUME NEW m \in Opens \cup Clicks, CountOnce(m) PROVE new \subseteq {m} \ Remembered(record')
    BY <2>1, <2>4 DEF CountOnce
  <2>5. ASSUME NEW m \in Opens, ApplyOpen(m) PROVE Goal
    <3>1. PICK rec \in CompactOpenedAtList(record), b \in 0..MaxScalarBytes :
            record' = WithOpen(rec, m, b)
      BY <2>5 DEF ApplyOpen
    <3>2. /\ record'.ids = rec.ids /\ record'.history = rec.history
          /\ m \in ToSet(record'.opens) \/ NoRoom(OpenBytes) \/ Len(record'.opens) >= MaxOpenEvents
      BY <2>2, <3>1, OpenUnlisted
    <3>3. new \subseteq {m} \ Remembered(record')
      BY <2>4, <2>5 DEF ApplyOpen
    <3>4. new \cap Clicks = {} /\ (m \in ToSet(record'.opens) => new = {})
      BY <3>3, BudgetAssumption DEF Remembered
    <3>5. KnownClicks(record) \subseteq KnownClicks(record')
      BY <2>2, <3>2 DEF KnownClicks
    <3> HIDE DEF new, NoRoom
    <3> QED
      BY <3>2, <3>3, <3>4, <3>5
  <2>6. ASSUME NEW m \in Clicks, ApplyClick(m) PROVE Goal
    <3>1. PICK rec \in CompactOpenedAtList(record), b \in 0..MaxScalarBytes :
            record' = WithClick(rec, m, b)
      BY <2>6 DEF ApplyClick
    <3>2. /\ KnownClicks(rec) \subseteq KnownClicks(record')
          /\ \/ m \in KnownClicks(record') \/ NoRoom(IdBytes)
             \/ Cardinality(record'.ids) >= MaxClickEventIDs
      BY <2>2, <3>1, ClickUnlisted
    <3>3. new \subseteq {m} \ Remembered(record')
      BY <2>4, <2>6 DEF ApplyClick
    <3>4. new \cap Opens = {} /\ (m \in KnownClicks(record') => new = {})
      BY <3>3, BudgetAssumption DEF Remembered
    <3> HIDE DEF new, NoRoom
    <3> QED
      BY <2>2, <3>2, <3>3, <3>4
  <2>7. ASSUME UNCHANGED counted, KnownClicks(record) = KnownClicks(record') PROVE Goal
    <3>1. new = {}
      BY <2>3, <2>7
    <3> HIDE DEF new
    <3> QED
      BY <2>7, <3>1
  <2>8. ASSUME NEW m \in Clicks, ReplayClick(m) PROVE Goal
    BY <2>2, <2>7, <2>8 DEF ReplayClick
  <2>9. ASSUME NEW f \in Flags, ApplyFlag(f) PROVE Goal
    <3>1. PICK rec \in CompactOpenedAtList(record), b \in 0..MaxScalarBytes :
            record' = [rec EXCEPT !.flags = @ \cup {f}, !.scalarBytes = b]
      BY <2>9 DEF ApplyFlag
    <3>2. record'.ids = rec.ids /\ record'.history = rec.history
      BY <2>2, <3>1 DEF Record
    <3>3. KnownClicks(record) = KnownClicks(record')
      BY <2>2, <3>2 DEF KnownClicks
    <3> QED
      BY <2>7, <2>9, <3>3 DEF ApplyFlag
  <2>10. ASSUME NEW f \in Flags, ReplayFlag(f) PROVE Goal
    BY <2>2, <2>7, <2>10 DEF ReplayFlag
  <2> QED
    BY <1>1, <2>5, <2>6, <2>8, <2>9, <2>10 DEF Next
<1>2. IInv /\ [Next]_vars => [Goal]_vars
  BY <1>1
<1> QED
  BY <1>2, Invariance, PTL DEF Spec, ForgottenOnlyWhenFull

-----------------------------------------------------------------------------
(* CountsSurviveTrimming in terms of SumOf.                                *)
Opened(rec) == IF rec.openCount < Len(rec.opens) THEN Len(rec.opens) ELSE rec.openCount

CountsTrue ==
  /\ SumOf(counted, Opens) = Opened(record)
  /\ SumOf(counted, Clicks) = record.clickCount

(* Compaction keeps the counts: the longer list of an old record becomes   *)
(* its OpenCount.                                                          *)
LEMMA CompactionCounts ==
  ASSUME NEW rec \in Record, IsInjective(rec.opens),
         NEW new \in CompactOpenedAtList(rec)
  PROVE  /\ new.openCount = Opened(rec) /\ new.clickCount = rec.clickCount
         /\ Len(new.opens) \in Nat /\ new.openCount \in Nat
         /\ Len(new.opens) <= new.openCount
<1> DEFINE up == Raised(rec)
<1>1. up \in Record /\ up.opens = rec.opens /\ up.openCount = Opened(rec)
      /\ up.clickCount = rec.clickCount
  BY DEF Raised, Record, Opened
<1>2. PICK n \in Cuts(rec) : new = WithoutOldest(up, n)
  BY DEF CompactOpenedAtList
<1> HIDE DEF up
<1>3. n \in 0..Len(up.opens)
  BY <1>1, CutsBound
<1>4. /\ Len(new.opens) = Len(rec.opens) - n
      /\ new = [up EXCEPT !.opens = new.opens]
  BY <1>1, <1>2, <1>3, DropTypes
<1>5. new.openCount = up.openCount /\ new.clickCount = up.clickCount
  BY <1>1, <1>4 DEF Record
<1>6. Len(rec.opens) \in Nat /\ rec.openCount \in Nat
  BY DEF Record
<1> QED BY <1>1, <1>3, <1>4, <1>5, <1>6 DEF Opened

(* An event adds one to its own count and, at most, one entry.             *)
LEMMA EventCounts ==
  ASSUME NEW rec \in Record, NEW b \in 0..MaxScalarBytes
  PROVE  /\ \A m \in Opens : LET new == WithOpen(rec, m, b) IN
              /\ new.openCount = rec.openCount + 1 /\ new.clickCount = rec.clickCount
              /\ new.opens = rec.opens \/ new.opens = Append(rec.opens, m)
         /\ \A m \in Clicks : LET new == WithClick(rec, m, b) IN
              /\ new.openCount = rec.openCount /\ new.clickCount = rec.clickCount + 1
              /\ new.opens = rec.opens
<1>1. ASSUME NEW m \in Opens
      PROVE  LET new == WithOpen(rec, m, b) IN
             /\ new.openCount = rec.openCount + 1 /\ new.clickCount = rec.clickCount
             /\ new.opens = rec.opens \/ new.opens = Append(rec.opens, m)
  <2> DEFINE new == [rec EXCEPT !.openCount = @ + 1, !.scalarBytes = b]
             listed == [new EXCEPT !.opens = Append(@, m)]
  <2>1. /\ new.openCount = rec.openCount + 1 /\ new.clickCount = rec.clickCount
        /\ new.opens = rec.opens
        /\ listed.openCount = rec.openCount + 1 /\ listed.clickCount = rec.clickCount
        /\ listed.opens = Append(rec.opens, m)
    BY DEF Record
  <2>2. WithOpen(rec, m, b) = new \/ WithOpen(rec, m, b) = listed
    BY DEF WithOpen
  <2> HIDE DEF new, listed
  <2> QED BY <2>1, <2>2
<1>2. ASSUME NEW m \in Clicks
      PROVE  LET new == WithClick(rec, m, b) IN
             /\ new.openCount = rec.openCount /\ new.clickCount = rec.clickCount + 1
             /\ new.opens = rec.opens
  <2> DEFINE new == [rec EXCEPT !.clickCount = @ + 1, !.scalarBytes = b]
             idAdded == Cardinality(rec.ids) < MaxClickEventIDs
             withId == IF idAdded
                       THEN [new EXCEPT !.ids = @ \cup {m}, !.clickBytes = @ + IdBytes]
                       ELSE new
             withBoth == [withId EXCEPT !.history = @ \cup {m},
                                        !.clickBytes = @ + EntryBytes[m]]
             Same(r) == /\ r.openCount = rec.openCount /\ r.clickCount = rec.clickCount + 1
                        /\ r.opens = rec.opens
             Fields == {"opens", "openCount", "ids", "history", "clickCount", "clickBytes",
                        "flags", "scalarBytes"}
  <2>1. Same(new) /\ DOMAIN new = Fields
    BY DEF Record
  <2>2. WithClick(rec, m, b) \in {new, withId, withBoth}
    BY DEF WithClick
  <2> HIDE DEF new, idAdded, Fields
  <2>3. Same(withId) /\ DOMAIN withId = Fields
    BY <2>1 DEF Fields
  <2> HIDE DEF withId
  <2>4. Same(withBoth)
    BY <2>3 DEF Fields
  <2> HIDE DEF withBoth
  <2> QED BY <2>1, <2>2, <2>3, <2>4
<1> QED BY <1>1, <1>2

(* What counting m adds to the sum over S.                                 *)
LEMMA CountOnceSums ==
  ASSUME TypeOK, NEW m \in Opens \cup Clicks, CountOnce(m), NEW S \in {Opens, Clicks}
  PROVE  /\ SumOf(counted, S) \in Nat
         /\ SumOf(counted', S) = IF m \in S THEN SumOf(counted, S) + 1 ELSE SumOf(counted, S)
<1> DEFINE new == counted'
<1>1. IsFiniteSet(S) /\ S \subseteq Opens \cup Clicks
  BY BudgetAssumption
<1>2. \A k \in S : counted[k] \in Nat
  BY <1>1 DEF TypeOK
<1>3. \A k \in S : new[k] = IF k \in {m} THEN counted[k] + 1 ELSE counted[k]
  BY <1>1 DEF TypeOK, CountOnce
<1> HIDE DEF new
<1>4. SumOf(counted, S) \in Nat /\ SumOf(new, S) = SumOf(counted, S) + Cardinality(S \cap {m})
  <2> DEFINE R == {m}
             old == counted
  <2>1. \A k \in S : new[k] = IF k \in R THEN old[k] + 1 ELSE old[k]
    BY <1>3
  <2>2. \A k \in S : old[k] \in Nat
    BY <1>2
  <2> HIDE DEF R, old
  <2>3. SumOf(old, S) \in Nat /\ SumOf(new, S) = SumOf(old, S) + Cardinality(S \cap R)
    BY <1>1, <2>1, <2>2, SumStep
  <2> QED BY <2>3 DEF R, old
<1>5. Cardinality(S \cap {m}) = IF m \in S THEN 1 ELSE 0
  <2>1. CASE m \in S
    <3>1. S \cap {m} = {m}
      BY <2>1
    <3> QED BY <2>1, <3>1, FS_Singleton
  <2>2. CASE m \notin S
    <3>1. S \cap {m} = {}
      BY <2>2
    <3> QED BY <2>2, <3>1, FS_EmptySet
  <2> QED BY <2>1, <2>2
<1>6. CASE m \in S
  BY <1>4, <1>5, <1>6 DEF new
<1>7. CASE m \notin S
  BY <1>4, <1>5, <1>7 DEF new
<1> QED BY <1>6, <1>7

(* A list without repetitions is as long as the set of its entries.        *)
LEMMA InjectiveLength ==
  ASSUME NEW s \in Seq(Opens), IsInjective(s)
  PROVE  Cardinality(ToSet(s)) = Len(s)
<1>1. Len(s) \in Nat /\ DOMAIN s = 1..Len(s)
  OBVIOUS
<1>2. s \in Bijection(1..Len(s), ToSet(s))
  BY <1>1 DEF Bijection, Injection, Surjection, ToSet
<1> QED BY <1>1, <1>2, FS_CountingElements DEF ExistsBijection

(* Nothing has been counted beyond what the record says.                   *)
LEMMA InitCounts == Init => CountsTrue
<1> SUFFICES ASSUME Init PROVE CountsTrue
  OBVIOUS
<1>1. PICK opens \in SeqOf(Opens, Cardinality(Opens)), old \in SUBSET Clicks,
           b \in 0..MaxScalarBytes :
        /\ IsInjective(opens)
        /\ record \in {[opens |-> opens, openCount |-> n, ids |-> {}, history |-> old,
                        clickCount |-> Cardinality(old),
                        clickBytes |-> MapThenSumSet(LAMBDA c : EntryBytes[c], old),
                        flags |-> {}, scalarBytes |-> b] : n \in {0, Len(opens)}}
        /\ record \in Record
        /\ counted = [m \in Opens \cup Clicks |-> IF m \in Remembered(record) THEN 1 ELSE 0]
  BY DEF Init
<1>2. /\ record.opens = opens /\ record.openCount \in {0, Len(opens)}
      /\ record.ids = {} /\ record.history = old /\ record.clickCount = Cardinality(old)
  BY <1>1
<1>3. opens \in Seq(Opens) /\ Len(opens) \in Nat /\ ToSet(opens) \subseteq Opens
  BY <1>1, <1>2 DEF Record, ToSet
<1>4. Remembered(record) = ToSet(opens) \cup old
  BY <1>2 DEF Remembered, KnownClicks
<1>5. Opens \cap Remembered(record) = ToSet(opens) /\ Clicks \cap Remembered(record) = old
  BY <1>1, <1>3, <1>4, BudgetAssumption
<1>6. \A m \in Opens \cup Clicks : counted[m] = IF m \in Remembered(record) THEN 1 ELSE 0
  BY <1>1
<1>7. /\ SumOf(counted, Opens) = Cardinality(Opens \cap Remembered(record))
      /\ SumOf(counted, Clicks) = Cardinality(Clicks \cap Remembered(record))
  BY <1>6, SumCounts, BudgetAssumption
<1>8. Opened(record) = Len(opens)
  BY <1>2, <1>3 DEF Opened
<1> QED BY <1>1, <1>2, <1>3, <1>5, <1>7, <1>8, InjectiveLength DEF CountsTrue

(* Every event that is counted raises its count by one.                    *)
LEMMA NextCounts == IInv /\ CountsTrue /\ [Next]_vars => CountsTrue'
<1> SUFFICES ASSUME IInv, CountsTrue, [Next]_vars PROVE CountsTrue'
  OBVIOUS
<1>1. TypeOK /\ record \in Record /\ IsInjective(record.opens)
  BY DEF IInv, TypeOK
<1>2. \A rec \in CompactOpenedAtList(record) :
        /\ rec \in Record /\ rec.openCount = Opened(record)
        /\ rec.clickCount = record.clickCount
        /\ Len(rec.opens) \in Nat /\ rec.openCount \in Nat /\ Len(rec.opens) <= rec.openCount
  BY <1>1, CompactionCounts, CompactionBounds
<1>3. ASSUME NEW m \in Opens, ApplyOpen(m) PROVE CountsTrue'
  <2>1. PICK rec \in CompactOpenedAtList(record), b \in 0..MaxScalarBytes :
          record' = WithOpen(rec, m, b)
    BY <1>3 DEF ApplyOpen
  <2>2. /\ record'.openCount = rec.openCount + 1 /\ record'.clickCount = rec.clickCount
        /\ record'.opens = rec.opens \/ record'.opens = Append(rec.opens, m)
    BY <1>2, <2>1, EventCounts
  <2>3. Len(record'.opens) \in Nat /\ Len(record'.opens) <= rec.openCount + 1
    <3>1. rec.opens \in Seq(Opens)
      BY <1>2 DEF Record
    <3> QED BY <1>2, <2>2, <3>1
  <2>4. Opened(record') = Opened(record) + 1
    BY <1>2, <2>2, <2>3 DEF Opened
  <2>5. /\ SumOf(counted', Opens) = SumOf(counted, Opens) + 1
        /\ SumOf(counted', Clicks) = SumOf(counted, Clicks)
    <3>1. CountOnce(m) /\ m \notin Clicks
      BY <1>3, BudgetAssumption DEF ApplyOpen
    <3> QED BY <1>1, <3>1, CountOnceSums
  <2> QED BY <1>2, <2>2, <2>4, <2>5 DEF CountsTrue, Opened
<1>4. ASSUME NEW m \in Clicks, ApplyClick(m) PROVE CountsTrue'
  <2>1. PICK rec \in CompactOpenedAtList(record), b \in 0..MaxScalarBytes :
          record' = WithClick(rec, m, b)
    BY <1>4 DEF ApplyClick
  <2>2. /\ record'.openCount = rec.openCount /\ record'.clickCount = rec.clickCount + 1
        /\ record'.opens = rec.opens
    BY <1>2, <2>1, EventCounts
  <2>3. Opened(record') = Opened(record)
    BY <1>2, <2>2 DEF Opened
  <2>4. /\ SumOf(counted', Opens) = SumOf(counted, Opens)
        /\ SumOf(counted', Clicks) = SumOf(counted, Clicks) + 1
    <3>1. CountOnce(m) /\ m \notin Opens
      BY <1>4, BudgetAssumption DEF ApplyClick
    <3> QED BY <1>1, <3>1, CountOnceSums
  <2> QED BY <1>2, <2>2, <2>3, <2>4 DEF CountsTrue, Opened
<1>5. ASSUME Opened(record') = Opened(record), record'.clickCount = record.clickCount,
             UNCHANGED counted
      PROVE  CountsTrue'
  BY <1>5 DEF CountsTrue, Opened
<1>6. ASSUME record' \in CompactOpenedAtList(record), UNCHANGED counted PROVE CountsTrue'
  <2>1. Opened(record') = Opened(record) /\ record'.clickCount = record.clickCount
    BY <1>2, <1>6 DEF Opened
  <2> QED BY <1>5, <1>6, <2>1
<1>7. ASSUME NEW f \in Flags, ApplyFlag(f) PROVE CountsTrue'
  <2>1. PICK rec \in CompactOpenedAtList(record), b \in 0..MaxScalarBytes :
          record' = [rec EXCEPT !.flags = @ \cup {f}, !.scalarBytes = b]
    BY <1>7 DEF ApplyFlag
  <2>2. /\ record'.opens = rec.opens /\ record'.openCount = rec.openCount
        /\ record'.clickCount = rec.clickCount
    BY <1>2, <2>1 DEF Record
  <2>3. Opened(record') = Opened(record)
    BY <1>2, <2>2 DEF Opened
  <2> QED BY <1>2, <1>5, <1>7, <2>2, <2>3 DEF ApplyFlag
<1>8. CASE UNCHANGED vars
  BY <1>8 DEF vars, CountsTrue, Opened
<1> QED
  BY <1>3, <1>4, <1>6, <1>7, <1>8 DEF Next, ReplayClick, ReplayFlag

(* However much of a record was trimmed or found no room, OpenCount and    *)
(* ClickCount are the number of times an open or a click was counted.      *)
THEOREM CountsSurviveTrimmingHolds == Spec => []CountsSurviveTrimming
<1>1. CountsTrue => CountsSurviveTrimming
  BY DEF CountsTrue, CountsSurviveTrimming, Opened, SumOf
<1> QED
  BY <1>1, InitCounts, NextCounts, Invariance, PTL DEF Spec

-----------------------------------------------------------------------------
(* Remainders, which the provers know only by their definition.            *)
LEMMA SmallMultiple ==
  ASSUME NEW k \in Int, NEW d \in Nat \ {0}, NEW r \in 0..(d - 1), NEW s \in 0..(d - 1),
         d * k = r - s
  PROVE  k = 0
<1>1. ASSUME k >= 1 PROVE FALSE
  <2>1. d * k >= d BY <1>1
  <2> QED BY <2>1
<1>2. ASSUME k <= -1 PROVE FALSE
  <2>1. d * k <= -d BY <1>2
  <2> QED BY <2>1
<1> QED BY <1>1, <1>2

(* A remainder comes round again.                                          *)
LEMMA AddStep ==
  ASSUME NEW j \in Nat, NEW d \in Nat \ {0}
  PROVE  (j + d) % d = j % d
<1> DEFINE q == j \div d
           r == j % d
           p == (j + d) \div d
           s == (j + d) % d
<1>1. q \in Int /\ p \in Int /\ r \in 0..(d - 1) /\ s \in 0..(d - 1)
  OBVIOUS
<1>2. j = d * q + r /\ j + d = d * p + s
  OBVIOUS
<1> HIDE DEF q, r, p, s
<1>3. d * (p - q - 1) = r - s
  <2>1. d * (p - q - 1) = d * p - d * q - d BY <1>1
  <2> QED BY <1>1, <1>2, <2>1
<1>4. p - q - 1 = 0
  BY <1>1, <1>3, SmallMultiple
<1> QED BY <1>1, <1>3, <1>4 DEF r, s

(* Of the multiples of d below a there is one less than d away.            *)
LEMMA MultipleBelow ==
  ASSUME NEW a \in Nat, NEW d \in Nat \ {0}
  PROVE  \E j \in 0..a : j % d = 0 /\ a - j < d
<1> DEFINE Good == {n \in Nat : \E j \in 0..n : j % d = 0 /\ n - j < d}
<1>1. 0 \in Good
  OBVIOUS
<1>2. ASSUME NEW n \in Good PROVE n + 1 \in Good
  <2>1. PICK j \in 0..n : j % d = 0 /\ n - j < d
    OBVIOUS
  <2>2. CASE n + 1 - j < d
    BY <2>1, <2>2
  <2>3. CASE ~ (n + 1 - j < d)
    <3>1. n + 1 = j + d
      BY <2>1, <2>3
    <3>2. (j + d) % d = j % d
      <4>1. j \in Nat
        OBVIOUS
      <4> HIDE DEF Good
      <4> QED BY <4>1, AddStep
    <3> QED BY <2>1, <3>1, <3>2
  <2> QED BY <2>2, <2>3
<1>3. Good \in SUBSET Nat
  OBVIOUS
<1> HIDE DEF Good
<1>4. a \in Good
  BY <1>1, <1>2, <1>3, SetInduction
<1> QED BY <1>4 DEF Good

(* The more is dropped, the shorter the record.                            *)
LEMMA DroppedBytes ==
  ASSUME NEW rec \in Record, IsInjective(rec.opens),
         NEW k \in 0..Len(rec.opens), NEW n \in k..Len(rec.opens)
  PROVE  Bytes(WithoutOldest(rec, n)) <= Bytes(WithoutOldest(rec, k))
<1> DEFINE Short(i) == WithoutOldest(rec, i)
           l == Len(rec.opens)
<1>1. l \in Nat /\ n \in 0..l /\ k \in 0..l /\ k <= n
  BY DEF Record
<1>2. \A i \in 0..l : /\ Short(i) \in Record
                      /\ Len(Short(i).opens) = l - i
                      /\ Short(i).clickBytes = rec.clickBytes
                      /\ Short(i).scalarBytes = rec.scalarBytes
  BY DropTypes DEF Record, WithoutOldest
<1>3. \A i \in 0..l :
        Bytes(Short(i)) = BaseBytes + rec.scalarBytes + OpenBytes * (l - i) + rec.clickBytes
  BY <1>2 DEF Bytes
<1>4. OpenBytes * (l - n) <= OpenBytes * (l - k)
  <2> DEFINE u == l - n
             v == l - k
  <2>1. u \in Nat /\ v \in Nat /\ u <= v /\ OpenBytes \in Nat
    BY <1>1, BudgetAssumption
  <2> HIDE DEF u, v
  <2>2. OpenBytes * u <= OpenBytes * v
    BY <2>1
  <2> QED BY <2>2 DEF u, v
<1>5. OpenBytes * (l - n) \in Nat /\ OpenBytes * (l - k) \in Nat
  <2> DEFINE u == l - n
             v == l - k
  <2>1. u \in Nat /\ v \in Nat /\ OpenBytes \in Nat
    BY <1>1, BudgetAssumption
  <2> HIDE DEF u, v
  <2>2. OpenBytes * u \in Nat /\ OpenBytes * v \in Nat
    BY <2>1
  <2> QED BY <2>2 DEF u, v
<1>6. rec.scalarBytes \in Nat /\ rec.clickBytes \in Nat /\ BaseBytes \in Nat
  BY BudgetAssumption DEF Record
<1> HIDE DEF Short, l
<1>7. Bytes(Short(n)) <= Bytes(Short(k))
  BY <1>1, <1>3, <1>4, <1>5, <1>6
<1> QED BY <1>7 DEF Short

(* compactOpenedAtList cuts no more than it has to.                        *)
LEMMA CutsLeast ==
  ASSUME NEW rec \in Record, IsInjective(rec.opens), NEW n \in Cuts(rec), n > 0
  PROVE  \/ Len(rec.opens) - n + TrimStep > MaxOpenEvents
         \/ Bytes(WithoutOldest(rec, IF n > TrimStep THEN n - TrimStep ELSE 0))
              > MaxKVRecordBytes
<1> DEFINE l == Len(rec.opens)
           over == IF l > MaxOpenEvents THEN l - MaxOpenEvents ELSE 0
           back == IF n > TrimStep THEN n - TrimStep ELSE 0
<1>1. /\ l \in Nat /\ over \in Nat /\ over <= l /\ n \in Nat /\ n <= l
      /\ TrimStep \in Nat \ {0} /\ MaxOpenEvents \in Nat /\ MaxKVRecordBytes \in Nat
  BY CutsBound, BudgetAssumption DEF Record
<1>2. /\ n >= over
      /\ n = l \/ (n - over) % TrimStep = 0
      /\ \A k \in over..l : (k - over) % TrimStep = 0 /\ Fits(WithoutOldest(rec, k)) => n <= k
  <2>1. ~ (rec.opens = << >> \/ Compacted(rec))
    BY DEF Cuts
  <2> DEFINE stops == {k \in over..l :
                         \/ k = l
                         \/ (k - over) % TrimStep = 0 /\ Fits(WithoutOldest(rec, k))}
  <2>2. Cuts(rec) = {k \in stops : \A i \in stops : k <= i}
    BY <2>1 DEF Cuts
  <2> HIDE DEF over, l
  <2> QED BY <2>2
<1>3. CASE n = over
  <2>1. l > MaxOpenEvents /\ n = l - MaxOpenEvents
    BY <1>3
  <2> HIDE DEF l
  <2>2. l - n + TrimStep > MaxOpenEvents
    BY <1>1, <2>1
  <2> QED BY <2>2 DEF l
<1>4. CASE n # over
  <2> HIDE DEF over, l
  <2>1. \E j \in 0..(n - 1 - over) : j % TrimStep = 0 /\ (n - 1 - over) - j < TrimStep
    <3> DEFINE a == n - 1 - over
    <3>1. a \in Nat
      BY <1>1, <1>2, <1>4
    <3> HIDE DEF a
    <3>2. \E j \in 0..a : j % TrimStep = 0 /\ a - j < TrimStep
      BY <1>1, <3>1, MultipleBelow
    <3> QED BY <3>2 DEF a
  <2>2. PICK j \in 0..(n - 1 - over) : j % TrimStep = 0 /\ (n - 1 - over) - j < TrimStep
    BY <2>1
  <2> DEFINE k == over + j
  <2>3. k \in over..l /\ k < n /\ n - k <= TrimStep /\ (k - over) % TrimStep = 0
    <3>1. k - over = j
      BY <1>1
    <3> QED BY <1>1, <1>2, <1>4, <2>2, <3>1
  <2> HIDE DEF k
  <2>4. ~ Fits(WithoutOldest(rec, k))
    BY <1>1, <1>2, <2>3
  <2>5. back \in 0..l /\ k \in back..l /\ k \in 0..l
    BY <1>1, <2>3
  <2>6. /\ WithoutOldest(rec, k) \in Record /\ WithoutOldest(rec, back) \in Record
        /\ Bytes(WithoutOldest(rec, k)) <= Bytes(WithoutOldest(rec, back))
    BY <2>5, DroppedBytes, DropTypes DEF l
  <2> HIDE DEF back
  <2>7. Bytes(WithoutOldest(rec, back)) > MaxKVRecordBytes
    BY <1>1, <2>4, <2>6, BytesNat DEF Fits
  <2> QED BY <2>7 DEF back
<1> QED BY <1>3, <1>4

(* What is left without the n oldest entries is a suffix.                  *)
LEMMA SuffixOfRest ==
  ASSUME NEW s \in Seq(Opens), NEW n \in 0..Len(s)
  PROVE  IsSuffix(SubSeq(s, n + 1, Len(s)), s)
<1> DEFINE t == SubSeq(s, n + 1, Len(s))
<1>1. /\ t \in Seq(Opens) /\ Len(t) = Len(s) - n /\ Len(s) \in Nat
      /\ \A i \in 1..Len(t) : t[i] = s[n + i]
  OBVIOUS
<1> HIDE DEF t
<1>2. /\ Len(Reverse(t)) = Len(t) /\ Len(Reverse(s)) = Len(s)
      /\ \A i \in 1..Len(t) : Reverse(t)[i] = t[Len(t) - i + 1]
      /\ \A i \in 1..Len(s) : Reverse(s)[i] = s[Len(s) - i + 1]
      /\ Reverse(t) \in Seq(Opens) /\ Reverse(s) \in Seq(Opens)
  BY <1>1 DEF Reverse
<1>3. \A i \in 1..Len(t) : Reverse(t)[i] = Reverse(s)[i]
  <2> SUFFICES ASSUME NEW i \in 1..Len(t) PROVE Reverse(t)[i] = Reverse(s)[i]
    OBVIOUS
  <2>1. Len(t) - i + 1 \in 1..Len(t) /\ n + (Len(t) - i + 1) = Len(s) - i + 1 /\ i \in 1..Len(s)
    BY <1>1
  <2> QED BY <1>1, <1>2, <2>1
<1> DEFINE a == Reverse(t)
           b == Reverse(s)
<1>4. SubSeq(a, 1, Len(a)) = SubSeq(b, 1, Len(a))
  <2> HIDE DEF a, b
  <2>1. a \in Seq(Opens) /\ b \in Seq(Opens) /\ Len(a) <= Len(b)
    BY <1>1, <1>2 DEF a, b
  <2>2. \A i \in 1..Len(a) : a[i] = b[i]
    BY <1>2, <1>3 DEF a, b
  <2> QED BY <2>1, <2>2
<1> QED BY <1>1, <1>2, <1>4 DEF IsSuffix, IsPrefix, t

(* What a step does to the opens: the n oldest go, n as small as can be,   *)
(* and at most the event's own entry is added.                             *)
LEMMA OpensStep ==
  ASSUME TypeOK, Next
  PROVE  \E n \in 0..Len(record.opens) :
           LET rest == SubSeq(record.opens, n + 1, Len(record.opens)) IN
           /\ n > 0 => n \in Cuts(record)
           /\ \/ record'.opens = rest
              \/ \E m \in Opens \ ToSet(record.opens) : record'.opens = Append(rest, m)
<1> DEFINE old == record.opens
           Rest(n) == SubSeq(old, n + 1, Len(old))
<1>1. record \in Record /\ IsInjective(old)
  BY DEF TypeOK
<1>2. ASSUME NEW rec \in CompactOpenedAtList(record)
      PROVE  \E n \in 0..Len(old) : n \in Cuts(record) /\ rec.opens = Rest(n)
  <2> DEFINE up == Raised(record)
  <2>1. up \in Record /\ up.opens = old
    BY <1>1 DEF Raised, Record
  <2>2. PICK n \in Cuts(record) : rec = WithoutOldest(up, n)
    BY DEF CompactOpenedAtList
  <2> HIDE DEF up
  <2>3. n \in 0..Len(old)
    BY <1>1, CutsBound
  <2>4. rec.opens = Rest(n)
    BY <2>1, <2>2 DEF WithoutOldest, Record
  <2> QED BY <2>3, <2>4
<1>3. \A rec \in CompactOpenedAtList(record) : rec \in Record
  BY <1>1, CompactionBounds
<1>4. ASSUME NEW rec \in CompactOpenedAtList(record), record'.opens = rec.opens
      PROVE  \E n \in 0..Len(old) : n \in Cuts(record) /\ record'.opens = Rest(n)
  BY <1>2, <1>4
<1>5. ASSUME NEW m \in Opens, ApplyOpen(m)
      PROVE  \E n \in 0..Len(old) : /\ n \in Cuts(record)
                                    /\ record'.opens = Rest(n) \/ record'.opens = Append(Rest(n), m)
  <2>1. PICK rec \in CompactOpenedAtList(record), b \in 0..MaxScalarBytes :
          record' = WithOpen(rec, m, b)
    BY <1>5 DEF ApplyOpen
  <2>2. record'.opens = rec.opens \/ record'.opens = Append(rec.opens, m)
    BY <1>3, <2>1, EventCounts
  <2>3. PICK n \in 0..Len(old) : n \in Cuts(record) /\ rec.opens = Rest(n)
    BY <1>2
  <2> HIDE DEF Rest
  <2> QED BY <2>2, <2>3
<1>6. ASSUME NEW m \in Clicks, ApplyClick(m)
      PROVE  \E rec \in CompactOpenedAtList(record) : record'.opens = rec.opens
  BY <1>3, <1>6, EventCounts DEF ApplyClick
<1>7. ASSUME NEW f \in Flags, ApplyFlag(f)
      PROVE  \E rec \in CompactOpenedAtList(record) : record'.opens = rec.opens
  <2>1. PICK rec \in CompactOpenedAtList(record), b \in 0..MaxScalarBytes :
          record' = [rec EXCEPT !.flags = @ \cup {f}, !.scalarBytes = b]
    BY <1>7 DEF ApplyFlag
  <2> QED BY <1>3, <2>1 DEF Record
<1>8. CASE \E m \in Opens : ApplyOpen(m)
  <2>1. PICK m \in Opens : ApplyOpen(m)
    BY <1>8
  <2>2. m \notin ToSet(old)
    BY <2>1 DEF ApplyOpen
  <2> QED BY <1>5, <2>1, <2>2
<1>9. CASE \E rec \in CompactOpenedAtList(record) : record'.opens = rec.opens
  BY <1>4, <1>9
<1>10. CASE record' \in CompactOpenedAtList(record)
  BY <1>4, <1>10
<1> QED
  BY <1>6, <1>7, <1>8, <1>9, <1>10 DEF Next, ReplayClick, ReplayFlag

(* Opens are forgotten oldest first and no more of them than needed.       *)
THEOREM TrimsOldestOnlyHolds == Spec => TrimsOldestOnly
<1> DEFINE old == record.opens
           new == record'.opens
           kept == IF Len(new) > 0 /\ Last(new) \notin ToSet(old) THEN Front(new) ELSE new
           lost == Len(old) - Len(kept)
           Goal == /\ IsSuffix(kept, old)
                   /\ lost > 0 =>
                        \/ Len(kept) + TrimStep > MaxOpenEvents
                        \/ Bytes(WithoutOldest(record, IF lost > TrimStep THEN lost - TrimStep
                                                       ELSE 0)) > MaxKVRecordBytes
<1>1. ASSUME IInv, [Next]_vars PROVE [Goal]_vars
  <2> SUFFICES ASSUME Next PROVE Goal
    BY <1>1
  <2>1. record \in Record /\ IsInjective(old) /\ old \in Seq(Opens) /\ Len(old) \in Nat
    BY <1>1 DEF IInv, TypeOK, Record
  <2>2. PICK n \in 0..Len(old) :
          /\ n > 0 => n \in Cuts(record)
          /\ \/ new = SubSeq(old, n + 1, Len(old))
             \/ \E m \in Opens \ ToSet(old) : new = Append(SubSeq(old, n + 1, Len(old)), m)
    BY <1>1, OpensStep DEF IInv
  <2> DEFINE rest == SubSeq(old, n + 1, Len(old))
  <2>3. /\ rest \in Seq(Opens) /\ Len(rest) = Len(old) - n
        /\ \A i \in 1..Len(rest) : rest[i] = old[n + i]
        /\ IsSuffix(rest, old)
    BY <2>1, SuffixOfRest
  <2>4. kept = rest
    <3>1. CASE new = rest
      <4>1. ASSUME Len(new) > 0 PROVE Last(new) \in ToSet(old)
        <5>1. Len(rest) \in 1..Len(rest) /\ n + Len(rest) \in 1..Len(old)
          BY <2>1, <2>3, <3>1, <4>1
        <5>2. rest[Len(rest)] = old[n + Len(rest)]
          BY <2>3, <5>1
        <5>3. DOMAIN old = 1..Len(old)
          BY <2>1
        <5>4. Last(new) = new[Len(new)]
          BY DEF Last
        <5> HIDE DEF rest, old, new
        <5>5. Last(new) = old[n + Len(rest)]
          BY <3>1, <5>2, <5>4
        <5> QED BY <5>1, <5>3, <5>5 DEF ToSet
      <4> HIDE DEF rest, old
      <4> QED BY <3>1, <4>1
    <3>2. CASE \E m \in Opens \ ToSet(old) : new = Append(rest, m)
      <4>1. PICK m \in Opens \ ToSet(old) : new = Append(rest, m)
        BY <3>2
      <4> HIDE DEF rest, new
      <4>2. Len(new) = Len(rest) + 1 /\ new[Len(rest) + 1] = m /\ Len(rest) \in Nat
        <5>1. rest \in Seq(Opens) /\ Len(rest) \in Nat /\ m \in Opens
          BY <2>3, <4>1
        <5>2. Len(Append(rest, m)) = Len(rest) + 1 /\ Append(rest, m)[Len(rest) + 1] = m
          BY <5>1
        <5> QED BY <4>1, <5>1, <5>2
      <4>3. Last(new) = m /\ Front(new) = SubSeq(new, 1, Len(rest))
        BY <4>2 DEF Last, Front
      <4>4. SubSeq(new, 1, Len(rest)) = rest
        BY <2>3, <4>1
      <4> QED BY <4>2, <4>3, <4>4
    <3> QED BY <2>2, <3>1, <3>2
  <2> HIDE DEF kept, rest
  <2>5. lost = n /\ Len(kept) = Len(old) - n
    BY <2>1, <2>3, <2>4
  <2>6. n > 0 => \/ Len(old) - n + TrimStep > MaxOpenEvents
                 \/ Bytes(WithoutOldest(record, IF n > TrimStep THEN n - TrimStep ELSE 0))
                      > MaxKVRecordBytes
    BY <2>1, <2>2, CutsLeast
  <2> QED BY <2>3, <2>4, <2>5, <2>6
<1>2. IInv /\ [Next]_vars => [Goal]_vars
  BY <1>1
<1> QED
  BY <1>2, Invariance, PTL DEF Spec, TrimsOldestOnly
===============================================================================
