--------------------------- MODULE GroupReadsProofs ---------------------------
(***************************************************************************)
(* A walk through a group brings every email once and in order, analytics  *)
(* reports what is true between request and reply, and a page is refused   *)
(* exactly when it has to be.                                              *)
(***************************************************************************)
EXTENDS GroupReads, FoldLemmas

Rec == [email : Own, opens : Nat]

Active == pc # "idle"

(* The index lists no entry twice; the walk knows emails that are in it,   *)
(* and total_sent counts them all.                                         *)
IndexRight ==
  /\ Len(index) <= MaxGroupEmails
  /\ \A i, j \in DOMAIN index : index[i] = index[j] => i = j
  /\ known \subseteq Own \cap stored
  /\ \A e \in known : \E i \in DOMAIN index :
       index[i] = e /\ (call = "page" => i <= total)
  /\ call = "page" => total <= Len(index)

(* The window is the part of the index that was asked for.                 *)
WindowRight ==
  /\ WindowStart + Len(window) <= Len(index)
  /\ \A k \in 1..Len(window) : window[k] = index[WindowStart + k]
  /\ call = "analytics" => \A e \in known : \E k \in 1..Len(window) : window[k] = e
  /\ call = "page" => /\ Len(window) <= limit
                      /\ Len(window) = limit \/ total <= offset + Len(window)

(* A record that was read is not newer than the stored one, and what the   *)
(* walk knows of was read or missed.                                       *)
GotRight ==
  \A i \in DOMAIN got :
    /\ window[i] \notin Malformed
    /\ got[i].ok \in BOOLEAN /\ got[i].opens \in Nat
    /\ got[i].ok /\ window[i] \in Own =>
         window[i] \in stored /\ got[i].opens <= opens[window[i]]
    /\ got[i].ok /\ window[i] \in known /\ call = "analytics" =>
         before[window[i]].opens <= got[i].opens
    /\ ~ got[i].ok /\ window[i] \in known => window[i] \in missed

(* What was kept of the first q entries of the window.                     *)
Kept(o, q) ==
  /\ o \in Seq(Rec)
  /\ InOrder(o, WindowStart, WindowStart + q)
  /\ \A k \in DOMAIN o :
       /\ o[k].email \in stored /\ o[k].opens <= opens[o[k].email]
       /\ o[k].email \in known /\ call = "analytics" =>
            before[o[k].email].opens <= o[k].opens

Covered(o, q) ==
  \A k \in 1..q : window[k] \in known => window[k] \in Emails(o) \cup missed

(* A record of the window that a page with the records o has no room for.  *)
Refused(o) ==
  \E k \in 1..Len(window) : \E n \in 0..opens[window[k]] :
    /\ window[k] \in Own \cap stored
    /\ window[k] \notin Emails(o)
    /\ Encoded(Append(o, [email |-> window[k], opens |-> n])) > MaxPayload

ScanRight(o, sz, stop, q) ==
  /\ Kept(o, q)
  /\ stop \in BOOLEAN
  /\ ~ stop => Covered(o, q)
  /\ stop => call = "page" /\ Refused(o)
  /\ call = "page" => sz + 1 = Encoded(o) /\ Encoded(o) <= MaxPayload
  /\ sz \in 1..MaxPayload

(* A handler that is not done has stopped only for a page too large, and   *)
(* an answer says how the scan ended.                                      *)
PhaseRight ==
  /\ pc = "index" => /\ window = << >> /\ pos = 0 /\ got = << >> /\ out = << >>
                     /\ size = 1 /\ ~ tooLarge
  /\ pc = "read" => ~ tooLarge
  /\ pc = "finish" /\ ~ tooLarge => pos = Len(window)
  /\ pc = "replied" /\ answer = "ok" => ~ tooLarge /\ pos = Len(window)
  /\ pc = "replied" /\ answer = "response too large" => tooLarge

Scanning == pc \in {"read", "finish"} \/ (pc = "replied" /\ answer \in {"ok", "response too large"})

RequestRight ==
  /\ Active => call # "none"
  /\ Active /\ call = "page" => offset < total
  /\ Active /\ call = "analytics" =>
       /\ DOMAIN before = known
       /\ \A e \in known : before[e].opens \in Nat /\ before[e].opens <= opens[e]

WalkRight ==
  /\ collected \in Seq(Rec)
  /\ call = "analytics" => collected = << >>
  /\ InOrder(collected, 0, Len(index))
  /\ call = "page" =>
       /\ InOrder(collected, 0, offset)
       /\ \A i \in DOMAIN index :
            i <= offset /\ index[i] \in known => index[i] \in Emails(collected) \cup missedAny

IInv ==
  /\ TypeOK
  /\ out \in Seq(Rec)
  /\ IndexRight
  /\ Scanning => WindowRight
  /\ GotRight
  /\ Active => ScanRight(out, size, tooLarge, pos)
  /\ PhaseRight
  /\ RequestRight
  /\ WalkRight
-----------------------------------------------------------------------------
(* Sums, emails and encoded sizes of records.                              *)
LEMMA SumIsSumOf ==
  ASSUME NEW f
  PROVE  SumFunction(f) = SumOf(f, DOMAIN f)
BY DEF SumFunction, SumFunctionOnSet, FoldFunctionOnSet, SumOf, MapThenSumSet

(* The emails of a sequence of records, by position.                       *)
LEMMA EmailsMember ==
  ASSUME NEW s, NEW e
  PROVE  e \in Emails(s) <=> \E k \in DOMAIN s : s[k].email = e
BY DEF Emails, Range

(* What Append does, for the provers' use of positions.                    *)
LEMMA AppendFacts ==
  ASSUME NEW S, NEW o \in Seq(S), NEW r \in S
  PROVE  /\ Len(o) \in Nat /\ DOMAIN o = 1..Len(o) /\ Append(o, r) \in Seq(S)
         /\ DOMAIN Append(o, r) = 1..(Len(o) + 1) /\ Append(o, r)[Len(o) + 1] = r
         /\ \A i \in 1..Len(o) : Append(o, r)[i] = o[i]
OBVIOUS

(* The sum of a sequence with one element more.                            *)
LEMMA SumAppend ==
  ASSUME NEW o \in Seq(Rec), NEW r \in Rec,
         NEW w, \A x \in Rec : w[x] \in Nat
  PROVE  /\ SumFunction([i \in DOMAIN o |-> w[o[i]]]) \in Nat
         /\ SumFunction([i \in DOMAIN Append(o, r) |-> w[Append(o, r)[i]]])
              = SumFunction([i \in DOMAIN o |-> w[o[i]]]) + w[r]
<1> DEFINE n == Len(o)
           p == Append(o, r)
           f == [i \in DOMAIN o |-> w[o[i]]]
           g == [i \in DOMAIN p |-> w[p[i]]]
<1>1. /\ n \in Nat /\ DOMAIN o = 1..n /\ p \in Seq(Rec) /\ DOMAIN p = 1..(n + 1)
      /\ p[n + 1] = r /\ \A i \in 1..n : p[i] = o[i] /\ o[i] \in Rec
  OBVIOUS
<1> HIDE DEF n, p
<1>2. IsFiniteSet(1..n) /\ IsFiniteSet(1..(n + 1))
  BY <1>1, FS_Interval
<1>3. /\ DOMAIN f = 1..n /\ \A i \in 1..n : f[i] = w[o[i]] /\ f[i] \in Nat
      /\ DOMAIN g = 1..(n + 1) /\ g[n + 1] = w[r]
      /\ \A i \in 1..(n + 1) : g[i] \in Nat
      /\ \A i \in 1..n : g[i] = f[i]
  <2>1. DOMAIN f = 1..n /\ \A i \in 1..n : f[i] = w[o[i]] /\ f[i] \in Nat
    BY <1>1
  <2>2. DOMAIN g = 1..(n + 1) /\ \A i \in 1..(n + 1) : g[i] = w[p[i]]
    BY <1>1
  <2>3. n + 1 \in 1..(n + 1) /\ \A i \in 1..n : i \in 1..(n + 1)
    BY <1>1
  <2>4. \A i \in 1..(n + 1) : i = n + 1 \/ i \in 1..n
    BY <1>1
  <2> HIDE DEF f, g
  <2> QED BY <1>1, <2>1, <2>2, <2>3, <2>4
<1> HIDE DEF f, g
<1>4. SumOf(g, 1..(n + 1)) = g[n + 1] + SumOf(g, (1..(n + 1)) \ {n + 1})
  <2>1. n + 1 \in 1..(n + 1)
    BY <1>1
  <2>2. \A i \in 1..(n + 1) : g[i] \in Nat
    BY <1>3
  <2> QED BY <1>2, <2>1, <2>2, SumRemove
<1>5. (1..(n + 1)) \ {n + 1} = 1..n
  BY <1>1
<1>6. SumOf(f, 1..n) \in Nat /\ SumOf(g, 1..n) = SumOf(f, 1..n)
  <2>1. \A i \in 1..n : f[i] \in Nat /\ g[i] = f[i]
    BY <1>3
  <2> QED BY <1>2, <2>1, SumSame, SumNat
<1>7. SumFunction(f) = SumOf(f, 1..n) /\ SumFunction(g) = SumOf(g, 1..(n + 1))
  BY <1>3, SumIsSumOf
<1>8. w[r] \in Nat
  OBVIOUS
<1>9. SumFunction(f) \in Nat /\ SumFunction(g) = SumFunction(f) + w[r]
  <2>1. SumOf(g, 1..(n + 1)) = w[r] + SumOf(f, 1..n)
    BY <1>3, <1>4, <1>5, <1>6
  <2> HIDE DEF n
  <2> QED BY <1>6, <1>7, <1>8, <2>1
<1> QED BY <1>9 DEF f, g, p

(* A page with one record more.                                            *)
LEMMA EncodedAppend ==
  ASSUME NEW o \in Seq(Rec), NEW r \in Rec
  PROVE  /\ Encoded(o) \in Nat
         /\ IF o = << >> THEN Encoded(o) = 2 ELSE Encoded(o) > 2
         /\ Encoded(Append(o, r)) = Encoded(o) + RecordLen(r) + (IF o = << >> THEN 0 ELSE 1)
<1> DEFINE w == [x \in Rec |-> RecordLen(x) + 1]
           W(s) == SumFunction([i \in DOMAIN s |-> w[s[i]]])
<1>1. \A x \in Rec : w[x] \in Nat /\ w[x] > 1 /\ w[x] = RecordLen(x) + 1 /\ RecordLen(x) \in Nat
  BY ReadsAssumption DEF Rec, RecordLen
<1>2. ASSUME NEW s \in Seq(Rec)
      PROVE  Encoded(s) = IF s = << >> THEN 2 ELSE 1 + W(s)
  <2>1. [i \in DOMAIN s |-> w[s[i]]] = [i \in DOMAIN s |-> RecordLen(s[i]) + 1]
    <3>1. \A i \in DOMAIN s : w[s[i]] = RecordLen(s[i]) + 1
      OBVIOUS
    <3> QED BY <3>1
  <2>2. DOMAIN s = {} <=> s = << >>
    OBVIOUS
  <2> QED BY <2>1, <2>2 DEF Encoded
<1> HIDE DEF w
<1>3. \A s \in Seq(Rec), x \in Rec : W(s) \in Nat /\ W(Append(s, x)) = W(s) + w[x]
  BY <1>1, SumAppend
<1>4. W(<< >>) = 0
  <2>1. DOMAIN << >> = {}
    OBVIOUS
  <2> QED BY <2>1, SumIsSumOf, SumOfNone
<1>5. o # << >> => W(o) > 1
  <2> SUFFICES ASSUME o # << >> PROVE W(o) > 1
    OBVIOUS
  <2>1. PICK s \in Seq(Rec), x \in Rec : o = Append(s, x)
    <3>1. Len(o) \in Nat \ {0}
      OBVIOUS
    <3>2. SubSeq(o, 1, Len(o) - 1) \in Seq(Rec) /\ o[Len(o)] \in Rec
      BY <3>1
    <3>3. o = Append(SubSeq(o, 1, Len(o) - 1), o[Len(o)])
      BY <3>1
    <3> QED BY <3>2, <3>3
  <2> HIDE DEF W
  <2>2. W(s) \in Nat /\ w[x] \in Nat /\ w[x] > 1 /\ W(o) = W(s) + w[x]
    BY <1>1, <1>3, <2>1
  <2> QED BY <2>2
<1>6. Append(o, r) \in Seq(Rec) /\ Append(o, r) # << >>
  <2>1. Append(o, r) \in Seq(Rec) /\ Len(Append(o, r)) = Len(o) + 1 /\ Len(o) \in Nat
    OBVIOUS
  <2> QED BY <2>1
<1> HIDE DEF W
<1>7. Encoded(Append(o, r)) = 1 + W(o) + w[r] /\ W(o) \in Nat
  <2>1. Encoded(Append(o, r)) = 1 + W(Append(o, r))
    BY <1>2, <1>6
  <2>2. W(Append(o, r)) = W(o) + w[r] /\ W(o) \in Nat /\ w[r] \in Nat
    BY <1>1, <1>3
  <2> QED BY <2>1, <2>2
<1>8. Encoded(o) = IF o = << >> THEN 2 ELSE 1 + W(o)
  BY <1>2
<1>9. o = << >> => W(o) = 0
  BY <1>4
<1>10. w[r] = RecordLen(r) + 1 /\ RecordLen(r) \in Nat
  BY <1>1
<1> QED BY <1>5, <1>7, <1>8, <1>9, <1>10

-----------------------------------------------------------------------------
(* The chunk is offered one entry after the other.                         *)
Scans == [size : Nat, out : Seq(Rec), stopped : BOOLEAN]

(* A record that was fetched is of the group, stored, and not newer than   *)
(* what is stored.                                                         *)
LEMMA FetchedRecord ==
  ASSUME GotRight, NEW i, Fetched(i)
  PROVE  /\ Record(i) \in Rec /\ RecordLen(Record(i)) \in Nat
         /\ Record(i).email = window[i] /\ Record(i).opens = got[i].opens
         /\ i \in DOMAIN got /\ window[i] \in Own
         /\ window[i] \in stored /\ got[i].opens <= opens[window[i]]
BY ReadsAssumption DEF GotRight, Fetched, Belongs, Record, RecordLen, Rec

(* fn keeps the shape of the scan.                                         *)
LEMMA OfferType ==
  ASSUME GotRight, NEW s \in Scans, NEW i
  PROVE  Offer(s, i) \in Scans
<1> DEFINE r == Record(i)
           grown == s.size + Separator(s.size) + RecordLen(r)
<1>1. CASE s.stopped \/ ~ Fetched(i)
  BY <1>1 DEF Offer
<1>2. CASE ~ (s.stopped \/ ~ Fetched(i))
  <2>1. r \in Rec /\ RecordLen(r) \in Nat
    BY <1>2, FetchedRecord
  <2>2. grown \in Nat /\ Append(s.out, r) \in Seq(Rec)
    BY <2>1 DEF Separator, Scans
  <2>3. \/ Offer(s, i) = [s EXCEPT !.out = Append(@, r)]
        \/ Offer(s, i) = [s EXCEPT !.stopped = TRUE]
        \/ Offer(s, i) = [size |-> grown, out |-> Append(s.out, r), stopped |-> FALSE]
    BY <1>2 DEF Offer
  <2> DEFINE longer == Append(s.out, r)
  <2>4. grown \in Nat /\ longer \in Seq(Rec)
    BY <2>2
  <2> HIDE DEF r, grown, longer
  <2>5. CASE Offer(s, i) = [s EXCEPT !.out = longer]
    BY <2>4, <2>5 DEF Scans
  <2>6. CASE Offer(s, i) = [s EXCEPT !.stopped = TRUE]
    BY <2>6 DEF Scans
  <2>7. CASE Offer(s, i) = [size |-> grown, out |-> longer, stopped |-> FALSE]
    BY <2>4, <2>7 DEF Scans
  <2> QED BY <2>3, <2>5, <2>6, <2>7 DEF longer
<1> QED BY <1>1, <1>2

(* The scan of a chunk is a chain of calls of fn, one for each entry in    *)
(* the order of the index.                                                 *)
LEMMA ScannedSteps ==
  ASSUME GotRight, out \in Seq(Rec), size \in Nat, NEW n \in Nat, n = ChunkEnd - pos
  PROVE  \E g : /\ g[0] = [size |-> size, out |-> out, stopped |-> FALSE]
                /\ \A k \in 0..n : g[k] \in Scans
                /\ \A k \in 1..n : g[k] = Offer(g[k - 1], pos + k)
                /\ Scanned = g[n]
<1> DEFINE b == [size |-> size, out |-> out, stopped |-> FALSE]
           seq == [k \in 1..ChunkEnd - pos |-> pos + k]
           h == [p \in (1..n) \X Scans |-> Offer(p[2], pos + p[1])]
           c == [t \in SUBSET (1..n) |-> Max(t)]
           IsFold(u) == u = [t \in SUBSET DOMAIN seq |->
                               IF t = {} THEN b ELSE Offer(u[t \ {Max(t)}], seq[Max(t)])]
<1>1. DOMAIN seq = 1..n /\ \A k \in 1..n : seq[k] = pos + k
  OBVIOUS
<1>2. b \in Scans
  BY DEF Scans
<1>3. \A k \in 1..n, v \in Scans : h[<<k, v>>] = Offer(v, pos + k) /\ h[<<k, v>>] \in Scans
  <2>1. \A k \in 1..n, v \in Scans : Offer(v, pos + k) \in Scans
    BY OfferType
  <2> QED BY <2>1
<1>4. \A t \in SUBSET (1..n) : t # {} => c[t] = Max(t) /\ Max(t) \in t
  BY MaxInSet
<1>5. PICK f \in [SUBSET (1..n) -> Scans] : Unfolds(f, 1..n, b, h, c)
  <2>1. IsFiniteSet(1..n)
    BY FS_Interval
  <2> HIDE DEF b, h, c
  <2>2. Foldable(1..n, Scans, b, h, c)
    BY <1>2, <1>3, <1>4, <2>1 DEF Foldable
  <2> QED BY <2>2, FoldExists
<1>6. IsFold(f)
  <2>1. ASSUME NEW t \in SUBSET (1..n)
        PROVE  f[t] = IF t = {} THEN b ELSE Offer(f[t \ {Max(t)}], seq[Max(t)])
    <3>1. CASE t = {}
      <4> HIDE DEF b, h, c
      <4> QED BY <1>5, <3>1 DEF Unfolds
    <3>2. CASE t # {}
      <4> DEFINE m == Max(t)
      <4>1. c[t] = m /\ m \in 1..n
        BY <1>4, <3>2
      <4> HIDE DEF m, b, h, c, seq
      <4>2. f[t] = h[<<m, f[t \ {m}]>>] /\ f[t \ {m}] \in Scans
        BY <1>5, <3>2, <4>1 DEF Unfolds
      <4>3. f[t] = Offer(f[t \ {m}], seq[m])
        BY <1>1, <1>3, <4>1, <4>2
      <4> QED BY <3>2, <4>3 DEF m
    <3> QED BY <3>1, <3>2
  <2> HIDE DEF seq, b
  <2>2. f = [t \in SUBSET (1..n) |->
               IF t = {} THEN b ELSE Offer(f[t \ {Max(t)}], seq[Max(t)])]
    BY <2>1
  <2> QED BY <1>1, <2>2
<1>7. Scanned = (CHOOSE u : IsFold(u))[DOMAIN seq]
  BY DEF Scanned, FoldLeft, MapThenFoldSet
<1> DEFINE u == CHOOSE v : IsFold(v)
<1>8. IsFold(u)
  <2> HIDE DEF IsFold
  <2> QED BY <1>6
<1> HIDE DEF u
<1> DEFINE g == [k \in 0..n |-> u[1..k]]
<1>9. \A t \in SUBSET (1..n) :
        u[t] = IF t = {} THEN b ELSE Offer(u[t \ {Max(t)}], seq[Max(t)])
  <2> HIDE DEF seq, b
  <2> QED BY <1>1, <1>8
<1>10. \A k \in 0..n : g[k] = u[1..k]
  OBVIOUS
<1> HIDE DEF g
<1>11. g[0] = b
  <2>1. 1..0 = {} /\ 0 \in 0..n
    OBVIOUS
  <2> HIDE DEF b, seq
  <2> QED BY <1>9, <1>10, <2>1
<1>12. ASSUME NEW k \in 1..n PROVE g[k] = Offer(g[k - 1], pos + k)
  <2> DEFINE t == 1..k
  <2>1. t \in SUBSET (1..n) /\ k \in t /\ t # {} /\ k \in Nat
    <3>1. k \in Nat /\ k >= 1 /\ k <= n
      OBVIOUS
    <3>2. k \in t /\ t \subseteq 1..n
      BY <3>1
    <3> QED BY <3>1, <3>2
  <2>2. Max(t) = k
    <3>1. Max(t) \in t /\ \A x \in t : x <= Max(t)
      BY <2>1, MaxInSet
    <3> QED BY <3>1
  <2>3. t \ {k} = 1..(k - 1) /\ k - 1 \in 0..n /\ k \in 0..n
    OBVIOUS
  <2>4. g[k] = u[t] /\ g[k - 1] = u[t \ {k}]
    BY <1>10, <2>3
  <2> HIDE DEF t, seq, b
  <2>5. u[t] = Offer(u[t \ {k}], seq[k])
    BY <1>9, <2>1, <2>2
  <2> QED BY <1>1, <2>4, <2>5
<1>13. \A k \in 0..n : g[k] \in Scans
  <2> DEFINE T == {k \in Nat : g[k] \in Scans}
  <2>1. 0 \in T
    BY <1>2, <1>11
  <2>2. ASSUME NEW k \in 0..n, k \in T, k < n PROVE k + 1 \in T
    <3>1. k + 1 \in 1..n /\ (k + 1) - 1 = k
      BY <2>2
    <3>2. g[k + 1] = Offer(g[k], pos + (k + 1))
      BY <1>12, <3>1
    <3>3. g[k + 1] \in Scans
      BY <2>2, <3>2, OfferType
    <3> QED BY <3>3
  <2> HIDE DEF T
  <2>3. \A k \in 0..n : k \in T
    BY <2>1, <2>2, IntervalInduction
  <2> QED BY <2>3 DEF T
<1>14. Scanned = g[n]
  <2>1. n \in 0..n
    OBVIOUS
  <2> HIDE DEF seq, IsFold
  <2> QED BY <1>1, <1>7, <1>10, <2>1 DEF u
<1> QED BY <1>11, <1>12, <1>13, <1>14

-----------------------------------------------------------------------------
(* Records in the order of the index.                                      *)
LEMMA InOrderWider ==
  ASSUME NEW o, NEW a, NEW b \in Int, NEW c \in Int, InOrder(o, a, b), b <= c,
         index \in Seq(Entries)
  PROVE  InOrder(o, a, c)
<1>1. \A i \in DOMAIN index : i \in Int
  OBVIOUS
<1> QED BY <1>1 DEF InOrder

(* A record from behind all others keeps the order.                        *)
LEMMA InOrderAppend ==
  ASSUME NEW o \in Seq(Rec), NEW r \in Rec, NEW a \in Nat, NEW b \in Nat, a <= b,
         InOrder(o, a, b), index \in Seq(Entries),
         b + 1 \in DOMAIN index, index[b + 1] = r.email
  PROVE  InOrder(Append(o, r), a, b + 1)
<1> DEFINE p == Append(o, r)
           n == Len(o)
<1>1. /\ n \in Nat /\ DOMAIN o = 1..n /\ DOMAIN p = 1..(n + 1)
      /\ p[n + 1] = r /\ \A k \in 1..n : p[k] = o[k]
  OBVIOUS
<1>2. \A i \in DOMAIN index : i \in Nat
  OBVIOUS
<1>3. r.email \in Own
  BY DEF Rec
<1> HIDE DEF p, n
<1>4. ASSUME NEW k \in DOMAIN p
      PROVE  \E i \in DOMAIN index :
               a < i /\ i <= b + 1 /\ index[i] = p[k].email /\ index[i] \in Own
  <2>1. CASE k = n + 1
    BY <1>1, <1>3, <2>1
  <2>2. CASE k \in 1..n
    <3>1. PICK i \in DOMAIN index : a < i /\ i <= b /\ index[i] = o[k].email /\ index[i] \in Own
      BY <1>1, <2>2 DEF InOrder
    <3> QED BY <1>1, <1>2, <2>2, <3>1
  <2> QED BY <1>1, <2>1, <2>2
<1>5. ASSUME NEW k \in DOMAIN p, NEW l \in DOMAIN p, k < l
      PROVE  \E i, j \in DOMAIN index : i < j /\ index[i] = p[k].email /\ index[j] = p[l].email
  <2>0. k \in 1..n
    BY <1>1, <1>5
  <2>1. CASE l = n + 1
    <3>1. PICK i \in DOMAIN index : a < i /\ i <= b /\ index[i] = o[k].email
      BY <1>1, <2>0 DEF InOrder
    <3>2. i < b + 1
      BY <1>2, <3>1
    <3> QED BY <1>1, <2>0, <2>1, <3>1, <3>2
  <2>2. CASE l \in 1..n
    BY <1>1, <1>5, <2>0, <2>2 DEF InOrder
  <2> QED BY <1>1, <2>1, <2>2
<1>6. InOrder(p, a, b + 1)
  BY <1>4, <1>5 DEF InOrder
<1> QED BY <1>6 DEF p

(* The records of two neighbouring parts of the index, one after the       *)
(* other, are in order.                                                    *)
LEMMA InOrderConcat ==
  ASSUME NEW o \in Seq(Rec), NEW p \in Seq(Rec), NEW a \in Nat, NEW b \in Nat, NEW c \in Nat,
         a <= b, b <= c, InOrder(o, a, b), InOrder(p, b, c), index \in Seq(Entries)
  PROVE  InOrder(o \o p, a, c)
<1> DEFINE q == o \o p
           n == Len(o)
           m == Len(p)
<1>1. /\ n \in Nat /\ m \in Nat /\ DOMAIN o = 1..n /\ DOMAIN p = 1..m /\ DOMAIN q = 1..(n + m)
      /\ \A k \in 1..n : q[k] = o[k]
      /\ \A k \in 1..(n + m) : k > n => q[k] = p[k - n]
  OBVIOUS
<1>2. \A i \in DOMAIN index : i \in Nat
  OBVIOUS
<1>3. \A k \in DOMAIN q : k \in 1..n \/ (k > n /\ k - n \in 1..m /\ q[k] = p[k - n])
  BY <1>1
<1> HIDE DEF q, n, m
<1>4. ASSUME NEW k \in DOMAIN q
      PROVE  \E i \in DOMAIN index : a < i /\ i <= c /\ index[i] = q[k].email /\ index[i] \in Own
  <2>1. CASE k \in 1..n
    <3>1. PICK i \in DOMAIN index : a < i /\ i <= b /\ index[i] = o[k].email /\ index[i] \in Own
      BY <1>1, <2>1 DEF InOrder
    <3> QED BY <1>1, <1>2, <2>1, <3>1
  <2>2. CASE k > n /\ k - n \in 1..m /\ q[k] = p[k - n]
    <3>1. PICK i \in DOMAIN index :
            b < i /\ i <= c /\ index[i] = p[k - n].email /\ index[i] \in Own
      BY <1>1, <2>2 DEF InOrder
    <3> QED BY <1>2, <2>2, <3>1
  <2> QED BY <1>3, <2>1, <2>2
<1>5. ASSUME NEW k \in DOMAIN q, NEW l \in DOMAIN q, k < l
      PROVE  \E i, j \in DOMAIN index : i < j /\ index[i] = q[k].email /\ index[j] = q[l].email
  <2>1. CASE l \in 1..n
    <3>1. k \in 1..n
      BY <1>1, <1>5, <2>1
    <3>2. k \in DOMAIN o /\ l \in DOMAIN o /\ q[k] = o[k] /\ q[l] = o[l]
      BY <1>1, <2>1, <3>1
    <3>3. PICK i, j \in DOMAIN index :
            i < j /\ index[i] = o[k].email /\ index[j] = o[l].email
      BY <1>5, <3>2 DEF InOrder
    <3> QED BY <3>2, <3>3
  <2>2. CASE k \in 1..n /\ l > n /\ l - n \in 1..m /\ q[l] = p[l - n]
    <3>1. PICK i \in DOMAIN index : a < i /\ i <= b /\ index[i] = o[k].email
      BY <1>1, <2>2 DEF InOrder
    <3>2. PICK j \in DOMAIN index : b < j /\ index[j] = p[l - n].email
      BY <1>1, <2>2 DEF InOrder
    <3>3. i < j
      BY <1>2, <3>1, <3>2
    <3> QED BY <1>1, <2>2, <3>1, <3>2, <3>3
  <2>3. CASE /\ k > n /\ k - n \in 1..m /\ q[k] = p[k - n]
             /\ l > n /\ l - n \in 1..m /\ q[l] = p[l - n]
    <3>1. k - n < l - n /\ k - n \in DOMAIN p /\ l - n \in DOMAIN p
      BY <1>1, <1>5, <2>3
    <3>2. PICK i, j \in DOMAIN index :
            i < j /\ index[i] = p[k - n].email /\ index[j] = p[l - n].email
      BY <3>1 DEF InOrder
    <3> QED BY <2>3, <3>2
  <2> QED BY <1>3, <2>1, <2>2, <2>3
<1>6. InOrder(q, a, c)
  BY <1>4, <1>5 DEF InOrder
<1> QED BY <1>6 DEF q

(* What has been kept so far does not hold the entry that comes next.      *)
LEMMA NotYetKept ==
  ASSUME NEW o, NEW a \in Nat, NEW b \in Nat, NEW i \in DOMAIN index, b < i,
         index \in Seq(Entries), IndexRight, InOrder(o, a, b)
  PROVE  index[i] \notin Emails(o)
<1> SUFFICES ASSUME NEW k \in DOMAIN o, o[k].email = index[i] PROVE FALSE
  BY EmailsMember
<1>1. PICK j \in DOMAIN index : j <= b /\ index[j] = o[k].email
  BY DEF InOrder
<1>2. j = i
  BY <1>1 DEF IndexRight
<1>3. i \in Nat
  OBVIOUS
<1> QED BY <1>1, <1>2, <1>3

-----------------------------------------------------------------------------
(* The parts of TypeOK that arithmetic needs, without its functions.       *)
LEMMA Shapes ==
  ASSUME TypeOK
  PROVE  /\ index \in Seq(Entries) /\ Len(index) \in Nat /\ DOMAIN index = 1..Len(index)
         /\ window \in Seq(Entries) /\ Len(window) \in Nat
         /\ offset \in Nat /\ WindowStart \in Nat /\ limit \in Nat /\ limit >= 1 /\ total \in Nat
         /\ pos \in Nat /\ pos <= Len(window)
         /\ \A e \in Own : opens[e] \in Nat
<1>1. index \in Seq(Entries) /\ window \in Seq(Entries)
  BY DEF TypeOK
<1>2. offset \in Nat /\ limit \in Nat /\ limit >= 1 /\ total \in Nat
  <2>1. MaxGroupEmails \in Nat /\ MaxGroupStatusLimit \in Nat
    BY ReadsAssumption
  <2>2. offset \in Nat /\ limit \in 1..MaxGroupStatusLimit /\ total \in 0..MaxGroupEmails
    BY DEF TypeOK
  <2> QED BY <2>1, <2>2
<1>3. pos \in 0..Len(window)
  BY DEF TypeOK
<1>4. \A e \in Own : opens[e] \in Nat
  <2>1. opens \in [Entries -> 0..MaxOpens]
    BY DEF TypeOK
  <2> QED BY <2>1, ReadsAssumption DEF Entries
<1> QED BY <1>1, <1>2, <1>3, <1>4 DEF WindowStart

(* Where an entry of the window stands in the index.                       *)
LEMMA WindowEntry ==
  ASSUME TypeOK, WindowRight, NEW i \in 1..Len(window)
  PROVE  WindowStart + i \in DOMAIN index /\ index[WindowStart + i] = window[i] /\ i \in Nat
BY Shapes DEF WindowRight

(* One record more of what was kept.                                       *)
LEMMA KeptMore ==
  ASSUME TypeOK, IndexRight, WindowRight, GotRight,
         NEW o, NEW i \in 1..Len(window), Kept(o, i - 1), Fetched(i)
  PROVE  Kept(Append(o, Record(i)), i)
<1> DEFINE r == Record(i)
           p == Append(o, r)
           n == Len(o)
<1>1. /\ r \in Rec /\ r.email = window[i] /\ r.opens = got[i].opens /\ i \in DOMAIN got
      /\ window[i] \in Own /\ window[i] \in stored /\ got[i].opens <= opens[window[i]]
  BY FetchedRecord
<1>2. o \in Seq(Rec)
  BY DEF Kept
<1> HIDE DEF r
<1>3. /\ n \in Nat /\ DOMAIN o = 1..n /\ DOMAIN p = 1..(n + 1) /\ p \in Seq(Rec)
      /\ p[n + 1] = r /\ \A k \in 1..n : p[k] = o[k]
  BY <1>1, <1>2
<1>4. WindowStart \in Nat /\ WindowStart + i \in DOMAIN index /\ index[WindowStart + i] = window[i]
      /\ i \in Nat /\ i >= 1
  BY Shapes, WindowEntry
<1>5. InOrder(p, WindowStart, WindowStart + i)
  <2> DEFINE b == WindowStart + (i - 1)
  <2>1. b \in Nat /\ WindowStart <= b /\ b + 1 = WindowStart + i
    BY <1>4
  <2>2. InOrder(o, WindowStart, b)
    BY DEF Kept
  <2>3. index \in Seq(Entries)
    BY DEF TypeOK
  <2> HIDE DEF b
  <2>4. InOrder(Append(o, r), WindowStart, b + 1)
    BY <1>1, <1>2, <1>4, <2>1, <2>2, <2>3, InOrderAppend
  <2> QED BY <2>1, <2>4
<1>6. ASSUME NEW k \in DOMAIN p
      PROVE  /\ p[k].email \in stored /\ p[k].opens <= opens[p[k].email]
             /\ p[k].email \in known /\ call = "analytics" =>
                  before[p[k].email].opens <= p[k].opens
  <2> HIDE DEF p, n
  <2>1. CASE k = n + 1
    BY <1>1, <1>3, <2>1 DEF GotRight, Fetched
  <2>2. CASE k \in 1..n
    BY <1>3, <2>2 DEF Kept
  <2> QED BY <1>3, <2>1, <2>2
<1> HIDE DEF p
<1>7. Kept(p, i)
  BY <1>3, <1>5, <1>6 DEF Kept
<1> QED BY <1>7 DEF p, r

(* One record more, one email more.                                        *)
LEMMA EmailsAppend ==
  ASSUME NEW o \in Seq(Rec), NEW r \in Rec
  PROVE  Emails(Append(o, r)) = Emails(o) \cup {r.email}
<1> DEFINE p == Append(o, r)
           n == Len(o)
<1>1. /\ n \in Nat /\ DOMAIN o = 1..n /\ DOMAIN p = 1..(n + 1)
      /\ p[n + 1] = r /\ \A k \in 1..n : p[k] = o[k]
  OBVIOUS
<1> HIDE DEF p, n
<1>2. ASSUME NEW e PROVE e \in Emails(p) <=> e \in Emails(o) \/ e = r.email
  <2>1. ASSUME NEW k \in DOMAIN p, p[k].email = e PROVE e \in Emails(o) \/ e = r.email
    <3>1. CASE k = n + 1
      BY <1>1, <2>1, <3>1
    <3>2. CASE k \in 1..n
      BY <1>1, <2>1, <3>2, EmailsMember
    <3> QED BY <1>1, <3>1, <3>2
  <2>2. n + 1 \in DOMAIN p /\ \A k \in DOMAIN o : k \in DOMAIN p /\ p[k] = o[k]
    BY <1>1
  <2> QED BY <1>1, <2>1, <2>2, EmailsMember
<1> QED BY <1>2 DEF p

(* The entry at i is offered to a scan that has been right so far.         *)
LEMMA OfferRight ==
  ASSUME TypeOK, IndexRight, WindowRight, GotRight, call \in {"analytics", "page"},
         NEW s \in Scans, NEW i \in 1..Len(window), ScanRight(s.out, s.size, s.stopped, i - 1),
         window[i] \notin Malformed => i \in DOMAIN got
  PROVE  LET t == Offer(s, i) IN ScanRight(t.out, t.size, t.stopped, i)
<1> DEFINE t == Offer(s, i)
           r == Record(i)
           o == s.out
           grown == s.size + Separator(s.size) + RecordLen(r)
<1>0. s.out \in Seq(Rec) /\ s.size \in Nat /\ s.stopped \in BOOLEAN /\ i \in Nat
  BY DEF Scans
<1>1. \A k \in 1..i : k = i \/ k \in 1..(i - 1)
  OBVIOUS
<1>2. Kept(o, i)
  <2>1. WindowStart \in Nat /\ index \in Seq(Entries)
    BY DEF TypeOK, WindowStart
  <2>2. /\ WindowStart + (i - 1) \in Int /\ WindowStart + i \in Int
        /\ WindowStart + (i - 1) <= WindowStart + i
    BY <1>0, <2>1
  <2>3. InOrder(o, WindowStart, WindowStart + (i - 1))
    BY DEF ScanRight, Kept
  <2>4. InOrder(o, WindowStart, WindowStart + i)
    BY <2>1, <2>2, <2>3, InOrderWider
  <2> QED BY <2>4 DEF ScanRight, Kept
<1>3. CASE s.stopped
  <2>1. t = s
    BY <1>3 DEF Offer
  <2> HIDE DEF t
  <2>2. ScanRight(s.out, s.size, s.stopped, i)
    BY <1>2, <1>3 DEF ScanRight
  <2> QED BY <2>1, <2>2 DEF t
<1>4. CASE ~ s.stopped /\ ~ Fetched(i)
  <2>1. t = s
    BY <1>4 DEF Offer
  <2>2. window[i] \in known => window[i] \in missed
    BY <1>4, ReadsAssumption DEF IndexRight, GotRight, Fetched, Belongs
  <2>3. Covered(o, i)
    BY <1>1, <1>4, <2>2 DEF ScanRight, Covered
  <2> HIDE DEF t
  <2>4. ScanRight(s.out, s.size, s.stopped, i)
    BY <1>2, <1>4, <2>3 DEF ScanRight
  <2> QED BY <2>1, <2>4 DEF t
<1>5. CASE ~ s.stopped /\ Fetched(i)
  <2>1. /\ r \in Rec /\ RecordLen(r) \in Nat /\ r.email = window[i] /\ r.opens = got[i].opens
        /\ window[i] \in Own /\ window[i] \in stored /\ got[i].opens <= opens[window[i]]
        /\ i \in DOMAIN got
    BY <1>5, FetchedRecord
  <2> DEFINE p == Append(o, r)
  <2>2. Kept(p, i)
    <3>1. Kept(s.out, i - 1)
      BY DEF ScanRight
    <3> QED BY <1>5, <3>1, KeptMore
  <2>3. Covered(p, i)
    <3>1. Emails(p) = Emails(o) \cup {window[i]}
      BY <1>0, <2>1, EmailsAppend
    <3> HIDE DEF p
    <3> QED BY <1>1, <1>5, <3>1 DEF ScanRight, Covered
  <2>4. CASE call = "analytics"
    <3>1. t = [s EXCEPT !.out = p]
      BY <1>5, <2>4 DEF Offer
    <3> HIDE DEF t, p
    <3>2. t.out = p /\ t.size = s.size /\ t.stopped = s.stopped
      BY <3>1 DEF Scans
    <3>3. ScanRight(p, s.size, s.stopped, i)
      BY <1>5, <2>2, <2>3, <2>4 DEF ScanRight
    <3> QED BY <3>2, <3>3 DEF t
  <2>5. CASE call = "page"
    <3>1. s.size + 1 = Encoded(o) /\ s.size >= 1
      BY <1>0, <2>5 DEF ScanRight
    <3>2. Encoded(p) = grown + 1 /\ grown \in Nat /\ grown >= 1
      <4>1. /\ IF o = << >> THEN Encoded(o) = 2 ELSE Encoded(o) > 2
            /\ Encoded(p) = Encoded(o) + RecordLen(r) + (IF o = << >> THEN 0 ELSE 1)
        BY <1>0, <2>1, EncodedAppend
      <4>2. Separator(s.size) = IF o = << >> THEN 0 ELSE 1
        BY <1>0, <3>1, <4>1 DEF Separator
      <4> HIDE DEF r, p, o
      <4> QED BY <1>0, <2>1, <3>1, <4>1, <4>2
    <3>3. CASE grown + 1 > MaxPayload
      <4>1. t = [s EXCEPT !.stopped = TRUE]
        BY <1>5, <2>5, <3>3 DEF Offer
      <4>2. Refused(o)
        <5>1. window[i] \notin Emails(o)
          <6>1. WindowStart \in Nat /\ WindowStart + i \in DOMAIN index
                /\ index[WindowStart + i] = window[i] /\ index \in Seq(Entries)
            BY Shapes, WindowEntry
          <6>2. InOrder(o, WindowStart, WindowStart + (i - 1))
            BY DEF ScanRight, Kept
          <6>3. WindowStart + (i - 1) \in Nat /\ WindowStart + (i - 1) < WindowStart + i
            BY <1>0, <6>1
          <6> HIDE DEF o
          <6> QED BY <6>1, <6>2, <6>3, NotYetKept
        <5>2. got[i].opens \in 0..opens[window[i]]
          <6>1. got[i].opens \in Nat /\ opens[window[i]] \in Nat
            BY <2>1, Shapes DEF GotRight
          <6> QED BY <2>1, <6>1
        <5>3. [email |-> window[i], opens |-> got[i].opens] = r
          BY DEF Record
        <5>4. Encoded(Append(o, [email |-> window[i], opens |-> got[i].opens])) > MaxPayload
          BY <3>2, <3>3, <5>3
        <5> HIDE DEF o, r
        <5> QED BY <2>1, <5>1, <5>2, <5>4 DEF Refused
      <4> HIDE DEF t
      <4>3. t.out = s.out /\ t.size = s.size /\ t.stopped = TRUE
        BY <4>1 DEF Scans
      <4>4. ScanRight(s.out, s.size, TRUE, i)
        BY <1>2, <2>5, <4>2 DEF ScanRight
      <4> QED BY <4>3, <4>4 DEF t
    <3>4. CASE ~ (grown + 1 > MaxPayload)
      <4>1. t = [size |-> grown, out |-> p, stopped |-> FALSE]
        BY <1>5, <2>5, <3>4 DEF Offer
      <4>2. Encoded(p) <= MaxPayload /\ grown \in 1..MaxPayload
        BY <3>2, <3>4, ReadsAssumption
      <4> HIDE DEF t, p, grown
      <4>3. t.out = p /\ t.size = grown /\ t.stopped = FALSE
        BY <4>1
      <4>4. ScanRight(p, grown, FALSE, i)
        BY <2>2, <2>3, <2>5, <3>2, <4>2 DEF ScanRight
      <4> QED BY <4>3, <4>4 DEF t
    <3> QED BY <3>3, <3>4
  <2> QED BY <2>4, <2>5
<1> QED BY <1>0, <1>3, <1>4, <1>5

-----------------------------------------------------------------------------
(* What the writers may do between two steps of a reader.                  *)
Grown ==
  /\ index' \in Seq(Entries) /\ Len(index) <= Len(index')
  /\ \A i \in DOMAIN index : i \in DOMAIN index' /\ index'[i] = index[i]
  /\ stored \subseteq stored'
  /\ \A e \in Own : opens'[e] \in Nat /\ opens[e] <= opens'[e]

(* No growth is growth too.                                                *)
LEMMA UnchangedGrown ==
  ASSUME TypeOK, UNCHANGED dataVars
  PROVE  Grown
BY Shapes DEF Grown, dataVars

(* Growth and failed reads disturb no part of the invariant.               *)
LEMMA WindowKept ==
  ASSUME TypeOK, Grown, WindowRight, UNCHANGED <<window, call, offset, limit, total, known>>
  PROVE  WindowRight'
<1>1. WindowStart' = WindowStart
  BY DEF WindowStart
<1>2. /\ WindowStart + Len(window) <= Len(index') /\ WindowStart \in Nat
      /\ \A k \in 1..Len(window) : window[k] = index'[WindowStart + k]
  <2>1. Len(index') \in Nat /\ WindowStart \in Nat /\ Len(window) \in Nat /\ Len(index) \in Nat
    BY Shapes DEF Grown
  <2>2. \A k \in 1..Len(window) : window[k] = index'[WindowStart + k]
    BY WindowEntry DEF Grown
  <2> QED BY <2>1, <2>2 DEF WindowRight, Grown
<1> QED BY <1>1, <1>2 DEF WindowRight

(* See WindowKept: the reads of the chunk.                                 *)
LEMMA GotKept ==
  ASSUME TypeOK, Grown, GotRight, UNCHANGED <<window, got, call, known, before>>,
         missed \subseteq missed'
  PROVE  GotRight'
<1> SUFFICES ASSUME NEW i \in DOMAIN got
             PROVE  /\ window[i] \notin Malformed
                    /\ got[i].ok \in BOOLEAN /\ got[i].opens \in Nat
                    /\ got[i].ok /\ window[i] \in Own =>
                         window[i] \in stored' /\ got[i].opens <= opens'[window[i]]
                    /\ got[i].ok /\ window[i] \in known /\ call = "analytics" =>
                         before[window[i]].opens <= got[i].opens
                    /\ ~ got[i].ok /\ window[i] \in known => window[i] \in missed'
  BY DEF GotRight
<1>1. got[i].opens \in Nat
  BY DEF GotRight
<1>2. got[i].ok /\ window[i] \in Own => got[i].opens <= opens'[window[i]]
  <2> SUFFICES ASSUME got[i].ok, window[i] \in Own PROVE got[i].opens <= opens'[window[i]]
    OBVIOUS
  <2>1. got[i].opens <= opens[window[i]]
    BY DEF GotRight
  <2>2. opens[window[i]] \in Nat /\ opens'[window[i]] \in Nat
        /\ opens[window[i]] <= opens'[window[i]]
    BY Shapes DEF Grown
  <2> QED BY <1>1, <2>1, <2>2
<1> QED BY <1>1, <1>2 DEF GotRight, Grown

(* See WindowKept: what was kept and what was refused.                     *)
LEMMA ScanKept ==
  ASSUME TypeOK, Grown, ScanRight(out, size, tooLarge, pos),
         UNCHANGED <<window, out, size, tooLarge, pos, call, offset, known, before>>,
         missed \subseteq missed'
  PROVE  ScanRight(out, size, tooLarge, pos)'
<1>1. WindowStart' = WindowStart
  BY DEF WindowStart
<1>2. out \in Seq(Rec) /\ \A k \in DOMAIN out : out[k].email \in Own /\ out[k].opens \in Nat
  <2>1. out \in Seq(Rec)
    BY DEF ScanRight, Kept
  <2>2. \A k \in DOMAIN out : out[k] \in Rec
    BY <2>1
  <2> QED BY <2>1, <2>2 DEF Rec
<1>3. InOrder(out, WindowStart, WindowStart + pos)'
  <2> DEFINE a == WindowStart
             b == WindowStart + pos
  <2>1. InOrder(out, a, b) /\ out' = out /\ a' = a /\ b' = b
    BY <1>1 DEF ScanRight, Kept
  <2> HIDE DEF a, b
  <2>2. InOrder(out, a, b)'
    BY <2>1 DEF InOrder, Grown
  <2> QED BY <2>2 DEF a, b
<1>4. \A k \in DOMAIN out : out[k].opens <= opens'[out[k].email]
  <2> SUFFICES ASSUME NEW k \in DOMAIN out PROVE out[k].opens <= opens'[out[k].email]
    OBVIOUS
  <2>1. out[k].opens <= opens[out[k].email]
    BY DEF ScanRight, Kept
  <2>2. opens[out[k].email] \in Nat /\ opens'[out[k].email] \in Nat
        /\ opens[out[k].email] <= opens'[out[k].email]
    BY <1>2, Shapes DEF Grown
  <2> QED BY <1>2, <2>1, <2>2
<1>5. Kept(out, pos)'
  BY <1>2, <1>3, <1>4 DEF ScanRight, Kept, Grown
<1>6. Covered(out, pos) => Covered(out, pos)'
  BY DEF Covered, Emails
<1>7. ASSUME Refused(out) PROVE Refused(out)'
  <2>0. PICK k \in 1..Len(window) : \E n \in 0..opens[window[k]] :
          /\ window[k] \in Own \cap stored
          /\ window[k] \notin Emails(out)
          /\ Encoded(Append(out, [email |-> window[k], opens |-> n])) > MaxPayload
    BY <1>7 DEF Refused
  <2>1. PICK n \in 0..opens[window[k]] :
          /\ window[k] \in Own \cap stored
          /\ window[k] \notin Emails(out)
          /\ Encoded(Append(out, [email |-> window[k], opens |-> n])) > MaxPayload
    BY <2>0
  <2>2. n \in 0..opens'[window[k]]
    <3>1. opens[window[k]] \in Nat /\ opens'[window[k]] \in Nat
          /\ opens[window[k]] <= opens'[window[k]]
      BY <2>1, Shapes DEF Grown
    <3> QED BY <3>1
  <2>3. window[k] \in stored'
    BY <2>1 DEF Grown
  <2> QED BY <2>1, <2>2, <2>3 DEF Refused
<1> QED BY <1>5, <1>6, <1>7 DEF ScanRight

(* See WindowKept: the request and what it found at its start.             *)
LEMMA RequestKept ==
  ASSUME TypeOK, Grown, RequestRight, known \subseteq Own,
         UNCHANGED <<call, offset, total, known, before>>, Active' => Active
  PROVE  RequestRight'
<1>1. ASSUME NEW e \in known, before[e].opens \in Nat, before[e].opens <= opens[e]
      PROVE  before[e].opens <= opens'[e]
  <2>1. opens[e] \in Nat /\ opens'[e] \in Nat /\ opens[e] <= opens'[e]
    BY Shapes DEF Grown
  <2> QED BY <1>1, <2>1
<1> QED BY <1>1 DEF RequestRight, Active

(* See WindowKept: the pages received.                                     *)
LEMMA WalkKept ==
  ASSUME TypeOK, Grown, IndexRight, IndexRight', WalkRight,
         UNCHANGED <<call, offset, total, known, collected, missedAny>>
  PROVE  WalkRight'
<1>1. \A i \in DOMAIN index : i \in Nat /\ i <= Len(index')
  BY Shapes DEF Grown
<1>2. InOrder(collected, 0, Len(index))'
  <2>1. InOrder(collected, 0, Len(index)) /\ collected' = collected
    BY DEF WalkRight
  <2>2. \A i \in DOMAIN index : i \in DOMAIN index' /\ index'[i] = index[i]
    BY DEF Grown
  <2>3. ASSUME NEW k \in DOMAIN collected
        PROVE  \E i \in DOMAIN index' :
                 0 < i /\ i <= Len(index') /\ index'[i] = collected[k].email /\ index'[i] \in Own
    <3>1. PICK i \in DOMAIN index : 0 < i /\ index[i] = collected[k].email /\ index[i] \in Own
      BY <2>1 DEF InOrder
    <3> QED BY <1>1, <2>2, <3>1
  <2>4. ASSUME NEW k \in DOMAIN collected, NEW l \in DOMAIN collected, k < l
        PROVE  \E i, j \in DOMAIN index' :
                 i < j /\ index'[i] = collected[k].email /\ index'[j] = collected[l].email
    <3>1. PICK i, j \in DOMAIN index :
            i < j /\ index[i] = collected[k].email /\ index[j] = collected[l].email
      BY <2>1, <2>4 DEF InOrder
    <3> QED BY <2>2, <3>1
  <2> QED BY <2>1, <2>3, <2>4 DEF InOrder
<1>3. call = "page" => InOrder(collected, 0, offset)'
  <2> SUFFICES ASSUME InOrder(collected, 0, offset) PROVE InOrder(collected, 0, offset)'
    BY DEF WalkRight
  <2> QED BY DEF InOrder, Grown
<1>4. ASSUME NEW i \in DOMAIN index', index'[i] \in known
      PROVE  i \in DOMAIN index /\ index[i] = index'[i]
  <2>1. PICK j \in DOMAIN index : index[j] = index'[i]
    BY <1>4 DEF IndexRight
  <2>2. j \in DOMAIN index' /\ index'[j] = index'[i]
    BY <2>1 DEF Grown
  <2>3. j = i
    BY <2>2 DEF IndexRight
  <2> QED BY <2>1, <2>3
<1> QED BY <1>2, <1>3, <1>4 DEF WalkRight, Emails

(* An index that did not change lists no entry twice.                      *)
LEMMA IndexKept ==
  ASSUME IndexRight, Grown, UNCHANGED <<index, call, total, known>>
  PROVE  IndexRight'
BY DEF IndexRight, Grown

-----------------------------------------------------------------------------
(* The first state.                                                        *)
LEMMA EmptyScan ==
  ASSUME ReadsAssumption, NEW a, NEW b
  PROVE  /\ << >> \in Seq(Rec) /\ InOrder(<< >>, a, b)
         /\ Emails(<< >>) = {} /\ Encoded(<< >>) = 2
<1>1. << >> \in Seq(Rec) /\ DOMAIN << >> = {}
  OBVIOUS
<1> QED BY <1>1 DEF InOrder, Emails, Encoded, Range

(* Initially nothing is listed and nobody asks.                            *)
LEMMA InitIInv == Init => IInv
<1> SUFFICES ASSUME Init PROVE IInv
  OBVIOUS
<1>1. TypeOK
  <2>1. /\ index \in Seq(Entries) /\ window \in Seq(Entries) /\ Len(window) = 0
        /\ DOMAIN got = {} /\ DOMAIN before = {}
    BY DEF Init
  <2>2. stored \subseteq Entries /\ opens \in [Entries -> 0..MaxOpens]
    BY ReadsAssumption DEF Init, Entries
  <2>3. /\ total \in 0..MaxGroupEmails /\ offset \in Nat /\ limit \in 1..MaxGroupStatusLimit
        /\ size \in 1..MaxPayload /\ faults \in 0..MaxFaults
    BY ReadsAssumption DEF Init
  <2>4. Emails(out) = {} /\ Emails(collected) = {}
    BY EmptyScan, ReadsAssumption DEF Init
  <2>5. /\ pos \in 0..Len(window) /\ DOMAIN got \subseteq pos + 1..Len(window)
        /\ DOMAIN before \subseteq Own
        /\ Emails(out) \cup Emails(collected) \cup known \cup missed \cup missedAny \subseteq Entries
    BY <2>1, <2>4 DEF Init
  <2>6. /\ call = "none" /\ pc = "idle" /\ answer = "none"
        /\ tooLarge \in BOOLEAN /\ expired \in BOOLEAN
    BY DEF Init
  <2> QED BY <2>1, <2>2, <2>3, <2>5, <2>6 DEF TypeOK
<1>2. out \in Seq(Rec) /\ WalkRight
  BY EmptyScan, ReadsAssumption DEF Init, WalkRight
<1>3. IndexRight
  BY ReadsAssumption DEF Init, IndexRight
<1>4. GotRight /\ PhaseRight /\ RequestRight /\ ~ Active /\ ~ Scanning
  BY DEF Init, GotRight, PhaseRight, RequestRight, Active, Scanning
<1> QED BY <1>1, <1>2, <1>3, <1>4 DEF IInv

-----------------------------------------------------------------------------
(* The writers.                                                            *)
LEMMA TypesGrown ==
  ASSUME TypeOK, index' \in Seq(Entries), stored' \subseteq Entries,
         opens' \in [Entries -> 0..MaxOpens],
         UNCHANGED <<callerVars, pc, scanVars, expired, answer, before, faults>>
  PROVE  TypeOK'
BY DEF TypeOK, callerVars, scanVars, Emails

(* Every step of a writer is growth.                                       *)
LEMMA WritersGrow ==
  ASSUME TypeOK, IndexRight, Writers
  PROVE  /\ Grown /\ IndexRight' /\ TypeOK'
         /\ UNCHANGED <<callerVars, pc, scanVars, expired, answer, before, faults>>
<1>1. ASSUME NEW e \in Entries, AppendEntry(e) PROVE Grown /\ IndexRight' /\ TypeOK'
  <2>1. e \notin Range(index) /\ Len(index) < MaxGroupEmails /\ index' = Append(index, e)
        /\ stored' = stored /\ opens' = opens
        /\ UNCHANGED <<callerVars, pc, scanVars, expired, answer, before, faults>>
    BY <1>1 DEF AppendEntry
  <2> DEFINE n == Len(index)
  <2>2. /\ n \in Nat /\ DOMAIN index = 1..n /\ index' \in Seq(Entries)
        /\ Len(index') = n + 1 /\ DOMAIN index' = 1..(n + 1) /\ index'[n + 1] = e
        /\ \A i \in 1..n : index'[i] = index[i]
    BY <2>1, Shapes
  <2> HIDE DEF n
  <2>3. Grown
    BY <2>1, <2>2, Shapes DEF Grown, n
  <2>4. IndexRight'
    <3>1. Len(index') <= MaxGroupEmails
      BY <2>1, <2>2, ReadsAssumption DEF n
    <3>2. ASSUME NEW i \in DOMAIN index', NEW j \in DOMAIN index', index'[i] = index'[j]
          PROVE  i = j
      <4>1. \A k \in 1..n : index[k] # e
        BY <2>1, <2>2 DEF Range
      <4>2. (i = n + 1 \/ i \in 1..n) /\ (j = n + 1 \/ j \in 1..n)
        BY <2>2
      <4> QED BY <2>2, <3>2, <4>1, <4>2 DEF IndexRight
    <3>3. UNCHANGED <<known, call, total>>
      BY <2>1 DEF callerVars
    <3>4. Len(index) <= Len(index') /\ Len(index) \in Nat /\ Len(index') \in Nat
      BY <2>2 DEF n
    <3>5. total \in Nat
      BY Shapes
    <3> QED BY <2>1, <2>3, <3>1, <3>2, <3>3, <3>4, <3>5 DEF IndexRight, Grown
  <2>5. TypeOK'
    BY <2>1, <2>2, TypesGrown DEF TypeOK
  <2> QED BY <2>3, <2>4, <2>5
<1>2. ASSUME NEW e \in Entries, StoreRecord(e) PROVE Grown /\ IndexRight' /\ TypeOK'
  <2>1. /\ stored' = stored \cup {e} /\ index' = index /\ opens' = opens
        /\ UNCHANGED <<callerVars, pc, scanVars, expired, answer, before, faults>>
    BY <1>2 DEF StoreRecord
  <2>2. Grown
    BY <2>1, Shapes DEF Grown
  <2>3. TypeOK'
    BY <2>1, TypesGrown DEF TypeOK
  <2> QED BY <2>1, <2>2, <2>3, IndexKept DEF callerVars
<1>3. ASSUME NEW e \in Entries, CountOpen(e) PROVE Grown /\ IndexRight' /\ TypeOK'
  <2>1. /\ opens' = [opens EXCEPT ![e] = @ + 1] /\ opens[e] < MaxOpens
        /\ index' = index /\ stored' = stored
        /\ UNCHANGED <<callerVars, pc, scanVars, expired, answer, before, faults>>
    BY <1>3 DEF CountOpen
  <2>2. opens \in [Entries -> 0..MaxOpens] /\ MaxOpens \in Nat
    BY ReadsAssumption DEF TypeOK
  <2>3. opens' \in [Entries -> 0..MaxOpens]
    BY <2>1, <2>2
  <2>4. \A x \in Own : opens'[x] \in Nat /\ opens[x] <= opens'[x]
    BY <2>1, <2>2 DEF Entries
  <2>5. Grown
    BY <2>1, <2>4, Shapes DEF Grown
  <2>6. TypeOK'
    BY <2>1, <2>3, TypesGrown DEF TypeOK
  <2> QED BY <2>1, <2>5, <2>6, IndexKept DEF callerVars
<1>4. UNCHANGED <<callerVars, pc, scanVars, expired, answer, before, faults>>
  BY DEF Writers, AppendEntry, StoreRecord, CountOpen
<1> QED BY <1>1, <1>2, <1>3, <1>4 DEF Writers

(* So no writer disturbs a reader.                                         *)
LEMMA WritersKeep ==
  ASSUME IInv, Writers
  PROVE  IInv'
<1>1. /\ Grown /\ IndexRight' /\ TypeOK'
      /\ UNCHANGED <<callerVars, pc, scanVars, expired, answer, before, faults>>
  BY WritersGrow DEF IInv
<1>2. /\ UNCHANGED <<call, total, offset, limit, collected, known, missedAny>>
      /\ UNCHANGED <<pc, window, pos, got, out, size, tooLarge, missed, answer, before>>
  BY <1>1 DEF callerVars, scanVars
<1>3. (Scanning => WindowRight)'
  BY <1>1, <1>2, WindowKept DEF IInv, Scanning
<1>4. GotRight'
  BY <1>1, <1>2, GotKept DEF IInv
<1>5. (Active => ScanRight(out, size, tooLarge, pos))'
  BY <1>1, <1>2, ScanKept DEF IInv, Active
<1>6. PhaseRight' /\ (out \in Seq(Rec))'
  BY <1>2 DEF IInv, PhaseRight
<1>7. RequestRight'
  BY <1>1, <1>2, RequestKept DEF IInv, Active, IndexRight
<1>8. WalkRight'
  BY <1>1, <1>2, WalkKept DEF IInv
<1> QED BY <1>1, <1>3, <1>4, <1>5, <1>6, <1>7, <1>8 DEF IInv

-----------------------------------------------------------------------------
(* Steps that change nothing but the phase, the answer and the deadline.   *)
Phases == {"idle", "index", "read", "finish", "replied"}
Answers == {"none", "ok", "not found", "internal error", "timeout", "response too large"}

(* Faults stay within their bound.                                         *)
LEMMA FaultCounted ==
  ASSUME TypeOK, Fault
  PROVE  faults' \in 0..MaxFaults
<1>1. faults \in 0..MaxFaults /\ MaxFaults \in Nat
  BY ReadsAssumption DEF TypeOK
<1> QED BY <1>1 DEF Fault

(* A step that only changes the phase, the answer and the deadline keeps   *)
(* the invariant if the new phase may follow the old one.                  *)
LEMMA QuietKeeps ==
  ASSUME IInv, UNCHANGED <<dataVars, callerVars, scanVars, before>>,
         pc' \in Phases, answer' \in Answers, expired' \in BOOLEAN, faults' \in 0..MaxFaults,
         PhaseRight', Active' => Active, Scanning' => Scanning
  PROVE  IInv'
<1>1. /\ UNCHANGED <<index, stored, opens, call, total, offset, limit, collected, known>>
      /\ UNCHANGED <<missedAny, window, pos, got, out, size, tooLarge, missed, before>>
  BY DEF dataVars, callerVars, scanVars
<1>2. TypeOK /\ Grown
  BY UnchangedGrown DEF IInv
<1>3. TypeOK'
  BY <1>1, <1>2 DEF TypeOK, Phases, Answers, Emails
<1>4. IndexRight'
  BY <1>1, <1>2, IndexKept DEF IInv
<1>5. (Scanning => WindowRight)'
  BY <1>1, <1>2, WindowKept DEF IInv
<1>6. GotRight'
  BY <1>1, <1>2, GotKept DEF IInv
<1>7. (Active => ScanRight(out, size, tooLarge, pos))'
  BY <1>1, <1>2, ScanKept DEF IInv
<1>8. RequestRight'
  BY <1>1, <1>2, RequestKept DEF IInv, IndexRight
<1>9. WalkRight'
  BY <1>1, <1>2, <1>4, WalkKept DEF IInv
<1> QED BY <1>1, <1>3, <1>4, <1>5, <1>6, <1>7, <1>8, <1>9 DEF IInv

(* An index that cannot be read ends the request.                          *)
LEMMA ReadIndexFailsKeeps ==
  ASSUME IInv, ReadIndexFails
  PROVE  IInv'
<1>1. pc' = "replied" /\ answer' \in {"timeout", "internal error"} /\ expired' = expired
  BY DEF ReadIndexFails, ReplyWith
<1>2. faults' \in 0..MaxFaults
  BY FaultCounted DEF ReadIndexFails, IInv
<1>3. PhaseRight' /\ (Active' => Active) /\ ~ Scanning'
  BY <1>1 DEF ReadIndexFails, PhaseRight, Active, Scanning
<1>4. expired' \in BOOLEAN /\ pc' \in Phases /\ answer' \in Answers
  BY <1>1 DEF IInv, TypeOK, Phases, Answers
<1> QED BY <1>2, <1>3, <1>4, QuietKeeps DEF ReadIndexFails

(* So does a deadline that passed during the scan.                         *)
LEMMA ScanExpiresKeeps ==
  ASSUME IInv, ScanExpires
  PROVE  IInv'
<1>1. pc' = "replied" /\ answer' = "timeout" /\ expired' = expired /\ faults' = faults
  BY DEF ScanExpires, ReplyWith
<1>2. PhaseRight' /\ (Active' => Active) /\ ~ Scanning'
  BY <1>1 DEF ScanExpires, PhaseRight, Active, Scanning
<1>3. expired' \in BOOLEAN /\ pc' \in Phases /\ answer' \in Answers /\ faults' \in 0..MaxFaults
  BY <1>1 DEF IInv, TypeOK, Phases, Answers
<1> QED BY <1>2, <1>3, QuietKeeps DEF ScanExpires

(* The answer says how the scan ended.                                     *)
LEMMA FinishKeeps ==
  ASSUME IInv, Finish
  PROVE  IInv'
<1>1. /\ pc = "finish" /\ pc' = "replied" /\ answer' = Outcome
      /\ expired' = expired /\ faults' = faults
      /\ UNCHANGED <<pos, window, tooLarge>>
  BY DEF Finish, ReplyWith, scanVars
<1>2. answer' \in {"timeout", "response too large", "ok"}
      /\ (answer' = "ok" => ~ tooLarge) /\ (answer' = "response too large" => tooLarge)
  BY <1>1 DEF Outcome
<1>3. PhaseRight'
  BY <1>1, <1>2 DEF IInv, PhaseRight
<1>4. (Active' => Active) /\ Scanning
  BY <1>1 DEF Active, Scanning
<1>5. expired' \in BOOLEAN /\ pc' \in Phases /\ answer' \in Answers /\ faults' \in 0..MaxFaults
  BY <1>1, <1>2 DEF IInv, TypeOK, Phases, Answers
<1> QED BY <1>3, <1>4, <1>5, QuietKeeps DEF Finish

(* The deadline may pass in any phase.                                     *)
LEMMA ExpireKeeps ==
  ASSUME IInv, Expire
  PROVE  IInv'
<1>1. pc' = pc /\ answer' = answer /\ expired' = TRUE
  BY DEF Expire
<1>2. faults' \in 0..MaxFaults
  BY FaultCounted DEF Expire, IInv
<1>3. PhaseRight' /\ (Active' => Active) /\ (Scanning' => Scanning)
  BY <1>1 DEF Expire, PhaseRight, Active, Scanning, IInv, scanVars
<1>4. expired' \in BOOLEAN /\ pc' \in Phases /\ answer' \in Answers
  BY <1>1 DEF IInv, TypeOK, Phases, Answers
<1> QED BY <1>2, <1>3, <1>4, QuietKeeps DEF Expire

(* A failed page leaves the walk as it was.                                *)
LEMMA TakePageFailedKeeps ==
  ASSUME IInv, TakePageFailed
  PROVE  IInv'
<1>1. pc' = "idle" /\ answer' = answer /\ expired' = expired /\ faults' = faults
  BY DEF TakePageFailed
<1>2. PhaseRight' /\ ~ Active' /\ ~ Scanning'
  BY <1>1 DEF PhaseRight, Active, Scanning
<1>3. expired' \in BOOLEAN /\ pc' \in Phases /\ answer' \in Answers /\ faults' \in 0..MaxFaults
  BY <1>1 DEF IInv, TypeOK, Phases, Answers
<1> QED BY <1>2, <1>3, QuietKeeps DEF TakePageFailed

-----------------------------------------------------------------------------
(* A record arrives, or its read fails.                                    *)
LEMMA ArriveKeeps ==
  ASSUME IInv, NEW i \in ToRead, NEW ok \in BOOLEAN, Arrive(i, ok), pc = "read",
         ok => window[i] \in stored,
         ~ ok /\ window[i] \in known => window[i] \in missed',
         missed' \subseteq missed \cup {window[i]}, missed \subseteq missed',
         faults' \in 0..MaxFaults,
         UNCHANGED <<dataVars, callerVars, pc, window, pos, out, size, tooLarge, expired, answer,
                     before>>
  PROVE  IInv'
<1>1. /\ UNCHANGED <<index, stored, opens, call, total, offset, limit, collected, known>>
      /\ UNCHANGED <<missedAny, window, pos, out, size, tooLarge, before, pc, expired, answer>>
  BY DEF dataVars, callerVars
<1>2. TypeOK /\ Grown
  BY UnchangedGrown DEF IInv
<1>3. i \in pos + 1..Len(window) /\ window[i] \notin Malformed /\ window[i] \in Entries
  <2>1. i \in pos + 1..ChunkEnd /\ window[i] \notin Malformed
    BY DEF ToRead
  <2>2. ChunkEnd <= Len(window) /\ ChunkEnd \in Nat
    BY <1>2, Shapes, ReadsAssumption DEF ChunkEnd
  <2> QED BY <1>2, <2>1, <2>2, Shapes
<1>4. /\ DOMAIN got' = DOMAIN got \cup {i}
      /\ got'[i] = [ok |-> ok, opens |-> IF ok THEN opens[window[i]] ELSE 0]
      /\ \A j \in DOMAIN got \ {i} : got'[j] = got[j]
  BY DEF Arrive
<1>5. opens[window[i]] \in Nat
  <2>1. opens \in [Entries -> 0..MaxOpens]
    BY <1>2 DEF TypeOK
  <2> QED BY <1>3, <2>1, ReadsAssumption
<1>6. TypeOK'
  <2>1. DOMAIN got' \subseteq pos + 1..Len(window)
    BY <1>2, <1>3, <1>4 DEF TypeOK
  <2> QED BY <1>1, <1>2, <1>3, <2>1 DEF TypeOK, Emails
<1>7. GotRight'
  <2>1. ASSUME NEW j \in DOMAIN got'
        PROVE  /\ window[j] \notin Malformed
               /\ got'[j].ok \in BOOLEAN /\ got'[j].opens \in Nat
               /\ got'[j].ok /\ window[j] \in Own =>
                    window[j] \in stored /\ got'[j].opens <= opens[window[j]]
               /\ got'[j].ok /\ window[j] \in known /\ call = "analytics" =>
                    before[window[j]].opens <= got'[j].opens
               /\ ~ got'[j].ok /\ window[j] \in known => window[j] \in missed'
    <3>1. CASE j = i
      <4>1. /\ got'[i].ok = ok
            /\ got'[i].opens = IF ok THEN opens[window[i]] ELSE 0
        BY <1>4
      <4>2. window[i] \in known /\ call = "analytics" => before[window[i]].opens <= opens[window[i]]
        BY DEF IInv, RequestRight, Active
      <4> QED BY <1>3, <1>5, <3>1, <4>1, <4>2
    <3>2. CASE j # i
      BY <1>4, <3>2 DEF IInv, GotRight
    <3> QED BY <3>1, <3>2
  <2> QED BY <1>1, <2>1 DEF GotRight
<1>8. IndexRight' /\ (Scanning => WindowRight)'
  BY <1>1, <1>2, IndexKept, WindowKept DEF IInv, Scanning
<1>9. (Active => ScanRight(out, size, tooLarge, pos))'
  BY <1>1, <1>2, ScanKept DEF IInv, Active
<1>10. RequestRight' /\ WalkRight'
  BY <1>1, <1>2, <1>8, RequestKept, WalkKept DEF IInv, IndexRight, Active
<1>11. PhaseRight' /\ (out \in Seq(Rec))'
  BY <1>1 DEF IInv, PhaseRight
<1> QED BY <1>6, <1>7, <1>8, <1>9, <1>10, <1>11 DEF IInv

(* A read that succeeds brings what is stored; what the walk knows of is   *)
(* stored.                                                                 *)
LEMMA ReadRecordKeeps ==
  ASSUME IInv, NEW i, ReadRecord(i)
  PROVE  IInv'
<1>1. /\ i \in ToRead /\ Arrive(i, window[i] \in stored) /\ pc = "read"
      /\ missed' = missed /\ faults' = faults
      /\ UNCHANGED <<dataVars, callerVars, pc, window, pos, out, size, tooLarge, expired, answer,
                     before>>
  BY DEF ReadRecord
<1>2. window[i] \in known => window[i] \in stored
  BY DEF IInv, IndexRight
<1>3. faults' \in 0..MaxFaults
  BY <1>1 DEF IInv, TypeOK
<1> DEFINE ok == window[i] \in stored
<1>4. ok \in BOOLEAN /\ (ok => window[i] \in stored) /\ (~ ok /\ window[i] \in known => FALSE)
  BY <1>2
<1> QED BY <1>1, <1>3, <1>4, ArriveKeeps

(* A read that fails is counted as missed.                                 *)
LEMMA ReadRecordFailsKeeps ==
  ASSUME IInv, NEW i, ReadRecordFails(i)
  PROVE  IInv'
<1>1. /\ i \in ToRead /\ Arrive(i, FALSE) /\ pc = "read"
      /\ missed' = missed \cup {window[i]}
      /\ UNCHANGED <<dataVars, callerVars, pc, window, pos, out, size, tooLarge, expired, answer,
                     before>>
  BY DEF ReadRecordFails
<1>2. faults' \in 0..MaxFaults
  BY FaultCounted DEF IInv, ReadRecordFails
<1> QED BY <1>1, <1>2, ArriveKeeps

-----------------------------------------------------------------------------
(* A request begins.                                                       *)
LEMMA FreshScan ==
  ASSUME out' = << >>, size' = 1, ~ tooLarge', pos' = 0, WindowStart' \in Nat
  PROVE  ScanRight(out, size, tooLarge, pos)'
<1>1. /\ << >> \in Seq(Rec) /\ DOMAIN << >> = {} /\ Encoded(<< >>) = 2
  BY EmptyScan, ReadsAssumption
<1>2. Kept(out, pos)' /\ Covered(out, pos)'
  BY <1>1 DEF Kept, Covered, InOrder
<1>3. 1 \in 1..MaxPayload /\ 2 <= MaxPayload /\ 1 + 1 = 2
  BY ReadsAssumption
<1>4. Encoded(out') = 2 /\ tooLarge' = FALSE
  <2>1. tooLarge' \in BOOLEAN => tooLarge' = FALSE
    OBVIOUS
  <2> QED BY <1>1
<1> QED BY <1>2, <1>3, <1>4 DEF ScanRight

(* What a request that begins leaves behind.                               *)
LEMMA BeginFacts ==
  ASSUME Begin
  PROVE  /\ pc' = "index" /\ window' = << >> /\ pos' = 0 /\ got' = << >> /\ out' = << >>
         /\ size' = 1 /\ tooLarge' = FALSE /\ expired' = FALSE /\ missed' = {}
         /\ answer' = "none" /\ faults' = faults
         /\ index' = index /\ stored' = stored /\ opens' = opens
         /\ before' = Readable(index)
         /\ GotRight' /\ PhaseRight' /\ ~ Scanning' /\ Active'
BY DEF Begin, dataVars, GotRight, PhaseRight, Scanning, Active

(* A page is asked for.                                                    *)
LEMMA AskPageKeeps ==
  ASSUME IInv, AskPage
  PROVE  IInv'
<1>1. TypeOK /\ Grown
  BY BeginFacts, UnchangedGrown DEF IInv, AskPage, dataVars
<1>2. /\ UNCHANGED <<call, total, offset, limit, collected, known, missedAny, index>>
      /\ call = "page" /\ offset < total
  BY BeginFacts DEF AskPage, callerVars
<1>3. TypeOK'
  <2>1. Emails(out') = {} /\ Len(window') = 0 /\ DOMAIN got' = {} /\ window' \in Seq(Entries)
    BY BeginFacts, EmptyScan, ReadsAssumption DEF AskPage
  <2>2. 1 \in 1..MaxPayload
    BY ReadsAssumption
  <2>3. DOMAIN before' \subseteq Own
    BY BeginFacts DEF AskPage, Readable
  <2> HIDE DEF AskPage
  <2>4. /\ pos' \in 0..Len(window') /\ DOMAIN got' \subseteq pos' + 1..Len(window')
        /\ size' \in 1..MaxPayload
    BY <2>1, <2>2, BeginFacts DEF AskPage
  <2>5. Emails(out') \cup Emails(collected') \cup known' \cup missed' \cup missedAny' \subseteq Entries
    BY <1>1, <1>2, <2>1, BeginFacts DEF AskPage, TypeOK
  <2>6. /\ pc' \in {"idle", "index", "read", "finish", "replied"}
        /\ tooLarge' \in BOOLEAN /\ expired' \in BOOLEAN
        /\ answer' \in {"none", "ok", "not found", "internal error", "timeout", "response too large"}
        /\ index' = index /\ stored' = stored /\ opens' = opens /\ faults' = faults
    BY BeginFacts DEF AskPage
  <2> QED BY <1>1, <1>2, <2>1, <2>3, <2>4, <2>5, <2>6 DEF TypeOK
<1>4. IndexRight'
  BY <1>1, <1>2, IndexKept DEF IInv
<1>5. ScanRight(out, size, tooLarge, pos)'
  BY <1>3, FreshScan, BeginFacts DEF AskPage, WindowStart, TypeOK
<1>6. RequestRight'
  BY <1>2 DEF RequestRight
<1>7. WalkRight'
  BY <1>1, <1>2, <1>4, WalkKept DEF IInv
<1>8. (out \in Seq(Rec))'
  BY EmptyScan, ReadsAssumption, BeginFacts DEF AskPage
<1> QED BY <1>3, <1>4, <1>5, <1>6, <1>7, <1>8, BeginFacts DEF IInv, AskPage

(* A walk begins: what is readable now is what it knows of.                *)
LEMMA AskAnalyticsKeeps ==
  ASSUME IInv, AskAnalytics
  PROVE  IInv'
<1>1. /\ call' = "analytics" /\ collected' = << >> /\ missedAny' = {}
      /\ known' = Own \cap stored \cap Range(index)
      /\ UNCHANGED <<total, offset, limit>> /\ Begin
  BY DEF AskAnalytics, Readable
<1>2. /\ DOMAIN before' = known'
      /\ \A e \in known' : before'[e].opens = opens[e] /\ opens[e] \in Nat
  <2>1. before' = [e \in known' |-> [email |-> e, opens |-> opens[e]]]
    BY <1>1, BeginFacts DEF Readable
  <2>2. \A e \in Own : opens[e] \in Nat
    BY Shapes DEF IInv
  <2> QED BY <1>1, <2>1, <2>2
<1>3. TypeOK'
  <2>1. /\ Emails(out') = {} /\ Emails(collected') = {} /\ Len(window') = 0 /\ DOMAIN got' = {}
        /\ window' \in Seq(Entries)
    BY <1>1, BeginFacts, EmptyScan, ReadsAssumption
  <2>2. 1 \in 1..MaxPayload
    BY ReadsAssumption
  <2>3. /\ pos' \in 0..Len(window') /\ DOMAIN got' \subseteq pos' + 1..Len(window')
        /\ size' \in 1..MaxPayload
    BY <1>1, <2>1, <2>2, BeginFacts
  <2>4. Emails(out') \cup Emails(collected') \cup known' \cup missed' \cup missedAny' \subseteq Entries
        /\ DOMAIN before' \subseteq Own
    BY <1>1, <1>2, <2>1, BeginFacts DEF Entries
  <2>5. /\ pc' \in {"idle", "index", "read", "finish", "replied"}
        /\ tooLarge' \in BOOLEAN /\ expired' \in BOOLEAN
        /\ answer' \in {"none", "ok", "not found", "internal error", "timeout", "response too large"}
        /\ index' = index /\ stored' = stored /\ opens' = opens /\ faults' = faults
    BY <1>1, BeginFacts
  <2> QED BY <1>1, <2>1, <2>3, <2>4, <2>5 DEF IInv, TypeOK
<1>4. IndexRight'
  <2>1. index' = index /\ stored' = stored
    BY <1>1, BeginFacts
  <2>2. \A e \in known' : \E i \in DOMAIN index : index[i] = e
    BY <1>1 DEF Range
  <2> QED BY <1>1, <2>1, <2>2 DEF IInv, IndexRight
<1>5. ScanRight(out, size, tooLarge, pos)'
  <2>1. WindowStart' \in Nat
    BY <1>1 DEF WindowStart
  <2> QED BY <1>1, <2>1, FreshScan, BeginFacts
<1>6. RequestRight'
  <2>1. opens' = opens
    BY <1>1, BeginFacts
  <2> QED BY <1>1, <1>2, <2>1 DEF RequestRight
<1>7. WalkRight'
  BY <1>1, EmptyScan, ReadsAssumption DEF WalkRight, InOrder
<1>8. (out \in Seq(Rec))'
  BY <1>1, EmptyScan, ReadsAssumption, BeginFacts
<1> QED BY <1>1, <1>3, <1>4, <1>5, <1>6, <1>7, <1>8, BeginFacts DEF IInv

-----------------------------------------------------------------------------
(* The index is read and the window cut out of it.                         *)
LEMMA WindowCut ==
  ASSUME IInv, pc = "index", index # << >>
  PROVE  LET n == Len(index)
             m == WindowEnd(n)
         IN  /\ WindowStart < n /\ m \in Nat /\ WindowStart <= m /\ m <= n
             /\ call = "analytics" => WindowStart = 0 /\ m = n
             /\ call = "page" => /\ WindowStart = offset /\ m - offset <= limit
                                 /\ m = offset + limit \/ m = n
<1> DEFINE n == Len(index)
           m == WindowEnd(n)
<1>1. /\ n \in Nat /\ offset \in Nat /\ WindowStart \in Nat /\ limit \in Nat /\ limit >= 1
      /\ total \in Nat /\ MaxGroupEmails \in Nat /\ n <= MaxGroupEmails
  BY Shapes, ReadsAssumption DEF IInv, IndexRight
<1>2. n # 0
  BY Shapes DEF IInv
<1>3. call \in {"analytics", "page"}
  BY DEF IInv, RequestRight, Active, TypeOK
<1>4. CASE call = "analytics"
  BY <1>1, <1>2, <1>4 DEF WindowStart, WindowEnd
<1>5. CASE call = "page"
  <2>1. WindowStart = offset /\ offset < n
    BY <1>1, <1>5 DEF IInv, RequestRight, IndexRight, Active, WindowStart
  <2> QED BY <1>1, <1>2, <1>5, <2>1 DEF WindowEnd
<1> QED BY <1>3, <1>4, <1>5

(* The elements of SubSeq, by position.                                    *)
LEMMA CutFacts ==
  ASSUME NEW S, NEW s \in Seq(S), NEW a \in Nat, NEW m \in Nat, a <= m, m <= Len(s)
  PROVE  /\ SubSeq(s, a + 1, m) \in Seq(S) /\ Len(SubSeq(s, a + 1, m)) = m - a
         /\ \A k \in 1..(m - a) : SubSeq(s, a + 1, m)[k] = s[a + k]
<1>1. Len(s) \in Nat /\ \A k \in 1..Len(s) : s[k] \in S
  OBVIOUS
<1>2. Len(SubSeq(s, a + 1, m)) = m - a
  BY <1>1
<1>3. \A k \in 1..(m - a) : SubSeq(s, a + 1, m)[k] = s[a + k] /\ s[a + k] \in S
  BY <1>1
<1>4. SubSeq(s, a + 1, m) \in Seq(S)
  BY <1>1
<1> QED BY <1>2, <1>3, <1>4

(* The window is cut from the index as it is now.                          *)
LEMMA ReadIndexKeeps ==
  ASSUME IInv, ReadIndex
  PROVE  IInv'
<1>1. /\ pc = "index"
      /\ UNCHANGED <<index, stored, opens, call, total, offset, limit, collected, known>>
      /\ UNCHANGED <<missedAny, pos, got, out, size, tooLarge, missed, expired, before, faults>>
  BY DEF ReadIndex, dataVars, callerVars
<1>2. TypeOK /\ Grown
  BY <1>1, UnchangedGrown DEF IInv, dataVars
<1>3. CASE window' = window /\ pc' = "replied" /\ answer' \in {"timeout", "not found"}
  <2>1. PhaseRight' /\ (Active' => Active) /\ ~ Scanning'
    BY <1>1, <1>3 DEF PhaseRight, Active, Scanning
  <2>2. expired' \in BOOLEAN /\ pc' \in Phases /\ answer' \in Answers /\ faults' \in 0..MaxFaults
    BY <1>1, <1>3 DEF IInv, TypeOK, Phases, Answers
  <2> QED BY <1>1, <1>3, <2>1, <2>2, QuietKeeps DEF dataVars, callerVars, scanVars
<1>4. CASE /\ index # << >> /\ answer' = answer
           /\ window' = SubSeq(index, WindowStart + 1, WindowEnd(Len(index)))
           /\ pc' = IF WindowStart >= Len(index) THEN "finish" ELSE "read"
  <2> DEFINE n == Len(index)
             m == WindowEnd(n)
             a == WindowStart
  <2>1. /\ a < n /\ m \in Nat /\ a <= m /\ m <= n
        /\ call = "analytics" => a = 0 /\ m = n
        /\ call = "page" => /\ a = offset /\ m - offset <= limit
                            /\ m = offset + limit \/ m = n
    BY <1>1, <1>4, WindowCut
  <2>2. n \in Nat /\ a \in Nat /\ index \in Seq(Entries) /\ DOMAIN index = 1..n
        /\ offset \in Nat /\ limit \in Nat /\ total \in Nat
    BY <1>2, Shapes
  <2> HIDE DEF a, n, m
  <2>3. /\ window' = SubSeq(index, a + 1, m) /\ window' \in Seq(Entries) /\ Len(window') = m - a
        /\ \A k \in 1..(m - a) : window'[k] = index[a + k]
    <3>1. window' = SubSeq(index, a + 1, m)
      BY <1>4 DEF a, m, n
    <3>2. m <= Len(index)
      BY <2>1 DEF n
    <3> QED BY <2>1, <2>2, <3>1, <3>2, CutFacts
  <2>4. pc' = "read"
    <3>1. ~ (a >= n)
      BY <2>1, <2>2
    <3>2. pc' = IF a >= n THEN "finish" ELSE "read"
      BY <1>4 DEF a, n
    <3> QED BY <3>1, <3>2
  <2>5. /\ pos = 0 /\ got = << >> /\ out = << >> /\ size = 1 /\ ~ tooLarge
    BY <1>1 DEF IInv, PhaseRight
  <2>6. TypeOK'
    <3>1. pos' \in 0..Len(window') /\ DOMAIN got' \subseteq pos' + 1..Len(window')
      BY <1>1, <2>1, <2>2, <2>3, <2>5
    <3> QED BY <1>1, <1>2, <1>4, <2>3, <2>4, <3>1 DEF TypeOK, Emails
  <2>7. WindowRight'
    <3>1. WindowStart' = a /\ (call = "page" => a = offset)
      BY <1>1 DEF WindowStart, a
    <3>2. a + (m - a) <= n
      BY <2>1, <2>2
    <3>3. call = "analytics" => \A e \in known : \E k \in 1..(m - a) : window'[k] = e
      <4> SUFFICES ASSUME call = "analytics", NEW e \in known
                   PROVE  \E k \in 1..(m - a) : window'[k] = e
        OBVIOUS
      <4>1. PICK i \in DOMAIN index : index[i] = e
        BY DEF IInv, IndexRight
      <4>2. i \in 1..(m - a) /\ a + i = i
        BY <2>1, <2>2, <4>1
      <4> QED BY <2>3, <4>1, <4>2
    <3>4. call = "page" => m - a <= limit /\ (m - a = limit \/ total <= offset + (m - a))
      <4>1. call = "page" => total <= n
        BY DEF IInv, IndexRight, n
      <4> QED BY <2>1, <2>2, <4>1
    <3>5. Len(index') = n
      BY <1>1 DEF n
    <3> QED BY <1>1, <2>3, <3>1, <3>2, <3>3, <3>4, <3>5 DEF WindowRight
  <2>8. GotRight' /\ PhaseRight' /\ Active'
    BY <1>1, <2>4, <2>5 DEF GotRight, PhaseRight, Active
  <2>9. ScanRight(out, size, tooLarge, pos)'
    <3>1. WindowStart' \in Nat
      BY <1>1, <2>2 DEF WindowStart, a
    <3> QED BY <1>1, <2>5, <3>1, FreshScan
  <2>10. IndexRight'
    BY <1>1, <1>2, IndexKept DEF IInv
  <2>11. RequestRight' /\ WalkRight'
    BY <1>1, <1>2, <2>10, RequestKept, WalkKept DEF IInv, IndexRight, Active
  <2>12. (out \in Seq(Rec))'
    BY <1>1 DEF IInv
  <2> QED BY <2>6, <2>7, <2>8, <2>9, <2>10, <2>11, <2>12 DEF IInv
<1> QED BY <1>3, <1>4 DEF ReadIndex, ReplyWith

-----------------------------------------------------------------------------
(* A chunk is consumed.                                                    *)
LEMMA ChunkRight ==
  ASSUME IInv, Consume
  PROVE  /\ ScanRight(Scanned.out, Scanned.size, Scanned.stopped, ChunkEnd)
         /\ Scanned \in Scans /\ ChunkEnd \in pos..Len(window)
<1> DEFINE n == ChunkEnd - pos
<1>1. /\ TypeOK /\ IndexRight /\ WindowRight /\ GotRight /\ call \in {"analytics", "page"}
      /\ ScanRight(out, size, FALSE, pos) /\ ~ tooLarge /\ tooLarge \in BOOLEAN
  <2>1. pc = "read"
    BY DEF Consume
  <2>2. /\ TypeOK /\ IndexRight /\ WindowRight /\ GotRight /\ ~ tooLarge /\ tooLarge \in BOOLEAN
        /\ ScanRight(out, size, tooLarge, pos)
    BY <2>1 DEF IInv, Scanning, Active, PhaseRight, TypeOK
  <2>3. call \in {"analytics", "page"}
    BY <2>1 DEF IInv, TypeOK, RequestRight, Active
  <2>4. tooLarge = FALSE
    BY <2>2
  <2> QED BY <2>2, <2>3, <2>4
<1>2. /\ pos \in Nat /\ Len(window) \in Nat /\ ChunkEnd \in Nat
      /\ pos <= ChunkEnd /\ ChunkEnd <= Len(window) /\ n \in Nat
  BY <1>1, Shapes, ReadsAssumption DEF ChunkEnd
<1>3. out \in Seq(Rec) /\ size \in Nat
  BY <1>1 DEF IInv, ScanRight
<1>4. PICK g : /\ g[0] = [size |-> size, out |-> out, stopped |-> FALSE]
               /\ \A k \in 0..n : g[k] \in Scans
               /\ \A k \in 1..n : g[k] = Offer(g[k - 1], pos + k)
               /\ Scanned = g[n]
  <2> HIDE DEF n
  <2> QED BY <1>1, <1>2, <1>3, ScannedSteps DEF n
<1>5. \A i \in pos + 1..ChunkEnd : window[i] \notin Malformed => i \in DOMAIN got
  BY DEF Consume, ToRead
<1> DEFINE T == {k \in Nat : ScanRight(g[k].out, g[k].size, g[k].stopped, pos + k)}
<1>6. 0 \in T
  <2>1. g[0].out = out /\ g[0].size = size /\ g[0].stopped = FALSE /\ pos + 0 = pos
    BY <1>2, <1>4
  <2> QED BY <1>1, <2>1
<1>7. ASSUME NEW k \in 0..n, k \in T, k < n PROVE k + 1 \in T
  <2> DEFINE i == pos + (k + 1)
  <2>1. /\ k + 1 \in 1..n /\ (k + 1) - 1 = k /\ i \in pos + 1..ChunkEnd
        /\ i \in 1..Len(window) /\ i - 1 = pos + k /\ k + 1 \in Nat
    BY <1>2, <1>7
  <2>2. g[k + 1] = Offer(g[k], i) /\ g[k] \in Scans
    BY <1>4, <2>1
  <2>3. ScanRight(g[k].out, g[k].size, g[k].stopped, i - 1)
    BY <1>7, <2>1
  <2>4. window[i] \notin Malformed => i \in DOMAIN got
    BY <1>5, <2>1
  <2> HIDE DEF i, n, T
  <2>5. LET t == Offer(g[k], i) IN ScanRight(t.out, t.size, t.stopped, i)
    BY <1>1, <2>1, <2>2, <2>3, <2>4, OfferRight
  <2>6. ScanRight(g[k + 1].out, g[k + 1].size, g[k + 1].stopped, i)
    BY <2>2, <2>5
  <2> QED BY <2>1, <2>6 DEF T, i
<1>8. n \in T
  <2> HIDE DEF T, n
  <2>1. \A k \in 0..n : k \in T
    BY <1>2, <1>6, <1>7, IntervalInduction
  <2> QED BY <1>2, <2>1
<1>9. pos + n = ChunkEnd /\ n \in 0..n /\ ChunkEnd \in pos..Len(window)
  BY <1>2
<1> HIDE DEF n
<1> QED BY <1>4, <1>8, <1>9

(* The whole chunk has been offered.                                       *)
LEMMA ConsumeKeeps ==
  ASSUME IInv, Consume
  PROVE  IInv'
<1>1. /\ pc = "read" /\ out' = Scanned.out /\ size' = Scanned.size /\ tooLarge' = Scanned.stopped
      /\ pc' = IF Scanned.stopped \/ ChunkEnd = Len(window) THEN "finish" ELSE "read"
      /\ pos' = ChunkEnd /\ got' = << >>
      /\ UNCHANGED <<index, stored, opens, call, total, offset, limit, collected, known>>
      /\ UNCHANGED <<missedAny, window, missed, expired, answer, before, faults>>
  BY DEF Consume, dataVars, callerVars
<1>2. /\ ScanRight(out', size', tooLarge', pos')
      /\ tooLarge' \in BOOLEAN /\ pos' \in pos..Len(window) /\ out' \in Seq(Rec)
  BY <1>1, ChunkRight DEF Scans
<1>3. TypeOK /\ Grown
  BY <1>1, UnchangedGrown DEF IInv, dataVars
<1>4. ScanRight(out, size, tooLarge, pos)'
  <2>1. WindowStart' = WindowStart
    BY <1>1 DEF WindowStart
  <2>2. Kept(out, pos)'
    <3>1. Kept(out', pos')
      BY <1>2 DEF ScanRight
    <3>2. InOrder(out, WindowStart, WindowStart + pos)'
      BY <1>1, <2>1, <3>1 DEF Kept, InOrder
    <3> QED BY <1>1, <3>1, <3>2 DEF Kept
  <2>3. Covered(out', pos') => Covered(out, pos)'
    BY <1>1 DEF Covered
  <2>4. Refused(out') => Refused(out)'
    BY <1>1 DEF Refused
  <2> QED BY <1>1, <1>2, <2>2, <2>3, <2>4 DEF ScanRight
<1>5. TypeOK'
  <2>1. size' \in 1..MaxPayload
    BY <1>2 DEF ScanRight
  <2>2. pos' \in 0..Len(window') /\ DOMAIN got' \subseteq pos' + 1..Len(window')
    <3>1. pos \in Nat /\ Len(window) \in Nat
      BY <1>3, Shapes
    <3> QED BY <1>1, <1>2, <3>1
  <2>3. Emails(out') \subseteq Own
    <3>1. \A k \in DOMAIN out' : out'[k] \in Rec
      BY <1>2
    <3> QED BY <3>1, EmailsMember DEF Rec
  <2>4. Emails(out') \cup Emails(collected') \cup known' \cup missed' \cup missedAny' \subseteq Entries
    BY <1>1, <1>3, <2>3 DEF TypeOK, Entries
  <2>5. pc' \in {"idle", "index", "read", "finish", "replied"}
    BY <1>1
  <2> QED BY <1>1, <1>2, <1>3, <2>1, <2>2, <2>4, <2>5 DEF TypeOK
<1>6. PhaseRight'
  <2>1. pc' = "read" => ~ tooLarge'
    BY <1>1
  <2>2. pc' = "finish" /\ ~ tooLarge' => pos' = Len(window')
    BY <1>1
  <2> QED BY <1>1, <2>1, <2>2 DEF PhaseRight
<1>7. IndexRight' /\ GotRight' /\ Active
  BY <1>1, <1>3, IndexKept DEF IInv, GotRight, Active
<1>8. (Scanning => WindowRight)'
  BY <1>1, <1>3, WindowKept DEF IInv, Scanning
<1>9. RequestRight' /\ WalkRight'
  BY <1>1, <1>3, <1>7, RequestKept, WalkKept DEF IInv, IndexRight
<1> QED BY <1>2, <1>4, <1>5, <1>6, <1>7, <1>8, <1>9 DEF IInv

-----------------------------------------------------------------------------
(* The caller takes the reply.                                             *)
LEMMA EmailsConcat ==
  ASSUME NEW o \in Seq(Rec), NEW p \in Seq(Rec)
  PROVE  o \o p \in Seq(Rec) /\ Emails(o \o p) = Emails(o) \cup Emails(p)
<1> DEFINE q == o \o p
           n == Len(o)
           m == Len(p)
<1>1. /\ n \in Nat /\ m \in Nat /\ DOMAIN o = 1..n /\ DOMAIN p = 1..m /\ DOMAIN q = 1..(n + m)
      /\ \A k \in 1..n : q[k] = o[k]
      /\ \A k \in 1..(n + m) : k > n => q[k] = p[k - n]
      /\ q \in Seq(Rec)
  OBVIOUS
<1>2. \A k \in DOMAIN q : k \in 1..n \/ (k - n \in 1..m /\ q[k] = p[k - n])
  BY <1>1
<1>3. \A k \in 1..m : n + k \in DOMAIN q /\ q[n + k] = p[k]
  <2> SUFFICES ASSUME NEW k \in 1..m PROVE n + k \in DOMAIN q /\ q[n + k] = p[k]
    OBVIOUS
  <2>1. n + k \in 1..(n + m) /\ n + k > n /\ (n + k) - n = k
    BY <1>1
  <2> HIDE DEF q, n, m
  <2>2. q[n + k] = p[(n + k) - n]
    BY <1>1, <2>1
  <2> QED BY <1>1, <2>1, <2>2
<1>4. \A k \in 1..n : k \in DOMAIN q
  BY <1>1
<1> HIDE DEF q, n, m
<1>5. ASSUME NEW e PROVE e \in Emails(q) <=> e \in Emails(o) \/ e \in Emails(p)
  <2>1. ASSUME NEW k \in DOMAIN q, q[k].email = e PROVE e \in Emails(o) \/ e \in Emails(p)
    BY <1>1, <1>2, <2>1, EmailsMember
  <2>2. ASSUME NEW k \in DOMAIN o, o[k].email = e PROVE e \in Emails(q)
    BY <1>1, <1>4, <2>2, EmailsMember
  <2>3. ASSUME NEW k \in DOMAIN p, p[k].email = e PROVE e \in Emails(q)
    BY <1>1, <1>3, <2>3, EmailsMember
  <2> QED BY <2>1, <2>2, <2>3, EmailsMember
<1> QED BY <1>1, <1>5 DEF q

(* Between two calls nothing is said of the scan.                          *)
LEMMA IdleKeeps ==
  ASSUME IInv, pc' = "idle", UNCHANGED <<dataVars, scanVars, expired, answer, before, faults>>,
         UNCHANGED known, call' = call \/ call' # "analytics",
         TypeOK', IndexRight', WalkRight'
  PROVE  IInv'
<1>1. UNCHANGED <<stored, opens, window, got, missed, out, known, before>>
  BY DEF dataVars, scanVars
<1>2. GotRight'
  BY <1>1 DEF IInv, GotRight
<1>3. ~ Active' /\ ~ Scanning' /\ PhaseRight' /\ RequestRight' /\ (out \in Seq(Rec))'
  BY <1>1 DEF IInv, Active, Scanning, PhaseRight, RequestRight
<1> QED BY <1>2, <1>3 DEF IInv

(* See IdleKeeps: the types.                                               *)
LEMMA IdleTypes ==
  ASSUME TypeOK, pc' = "idle",
         UNCHANGED <<dataVars, scanVars, expired, answer, before, faults, known>>,
         call' \in {"none", "analytics", "page"}, total' \in 0..MaxGroupEmails, offset' \in Nat,
         limit' \in 1..MaxGroupStatusLimit,
         Emails(collected') \subseteq Entries, missedAny' \subseteq Entries
  PROVE  TypeOK'
BY DEF TypeOK, dataVars, scanVars, Emails

(* The walk ends.                                                          *)
LEMMA EndWalkKeeps ==
  ASSUME IInv, EndWalk
  PROVE  IInv'
<1>1. /\ pc' = "idle" /\ call' = "none"
      /\ UNCHANGED <<total, offset, limit, collected, known, missedAny>>
      /\ UNCHANGED <<dataVars, scanVars, expired, answer, before, faults>>
      /\ UNCHANGED <<index, stored>>
  BY DEF EndWalk, dataVars
<1>2. TypeOK'
  BY <1>1, IdleTypes DEF IInv, TypeOK
<1>3. IndexRight' /\ WalkRight'
  BY <1>1 DEF IInv, IndexRight, WalkRight, InOrder
<1> QED BY <1>1, <1>2, <1>3, IdleKeeps

(* A smaller page is asked for at the same offset.                         *)
LEMMA TakePageTooLargeKeeps ==
  ASSUME IInv, TakePageTooLarge
  PROVE  IInv'
<1>1. /\ pc' = "idle" /\ limit > 1 /\ limit' \in 1..limit - 1
      /\ UNCHANGED <<call, total, offset, collected, known, missedAny>>
      /\ UNCHANGED <<dataVars, scanVars, expired, answer, before, faults>>
      /\ UNCHANGED <<index, stored>>
  BY DEF TakePageTooLarge, dataVars
<1>2. limit' \in 1..MaxGroupStatusLimit
  <2>1. limit \in 1..MaxGroupStatusLimit /\ MaxGroupStatusLimit \in Nat
    BY ReadsAssumption DEF IInv, TypeOK
  <2> QED BY <1>1, <2>1
<1>3. TypeOK'
  BY <1>1, <1>2, IdleTypes DEF IInv, TypeOK
<1>4. IndexRight' /\ WalkRight'
  BY <1>1 DEF IInv, IndexRight, WalkRight, InOrder, Emails
<1> QED BY <1>1, <1>3, <1>4, IdleKeeps

(* The window of analytics has every email the walk knows of, so           *)
(* total_sent counts them all.                                             *)
LEMMA TakeAnalyticsKeeps ==
  ASSUME IInv, TakeAnalytics
  PROVE  IInv'
<1>1. /\ pc = "replied" /\ call = "analytics" /\ pc' = "idle"
      /\ UNCHANGED <<collected, known, missedAny>>
      /\ UNCHANGED <<dataVars, scanVars, expired, answer, before, faults>>
      /\ UNCHANGED <<index, stored>>
  BY DEF TakeAnalytics, dataVars
<1>2. CASE answer = "ok"
  <2>1. /\ call' = "page" /\ total' = Len(window) /\ offset' = 0
        /\ \E l \in 0..MaxGroupStatusLimit : limit' = PageLimit(l)
    BY <1>2 DEF TakeAnalytics
  <2>2. /\ WindowRight /\ WindowStart = 0 /\ Len(window) <= Len(index) /\ Len(window) \in Nat
        /\ Len(index) \in Nat /\ DOMAIN index = 1..Len(index) /\ Len(index) <= MaxGroupEmails
    <3>1. WindowRight /\ WindowStart = 0
      BY <1>1, <1>2 DEF IInv, Scanning, WindowStart
    <3>2. Len(window) \in Nat /\ Len(index) \in Nat /\ DOMAIN index = 1..Len(index)
      BY Shapes DEF IInv
    <3>3. 0 + Len(window) <= Len(index)
      BY <3>1 DEF WindowRight
    <3>4. Len(index) <= MaxGroupEmails
      BY DEF IInv, IndexRight
    <3> QED BY <3>1, <3>2, <3>3, <3>4
  <2>3. total' \in 0..MaxGroupEmails /\ limit' \in 1..MaxGroupStatusLimit /\ offset' \in Nat
    BY <2>1, <2>2, ReadsAssumption DEF PageLimit
  <2>4. TypeOK'
    BY <1>1, <2>1, <2>3, IdleTypes DEF IInv, TypeOK
  <2>5. IndexRight'
    <3>1. ASSUME NEW e \in known
          PROVE  \E i \in DOMAIN index : index[i] = e /\ i <= Len(window)
      <4>1. PICK k \in 1..Len(window) : window[k] = e
        BY <1>1, <2>2 DEF WindowRight
      <4>2. index[0 + k] = e /\ 0 + k = k /\ k \in DOMAIN index /\ k <= Len(window)
        BY <2>2, <4>1 DEF WindowRight
      <4> QED BY <4>2
    <3> QED BY <1>1, <2>1, <2>2, <3>1 DEF IInv, IndexRight
  <2>6. WalkRight'
    <3>1. collected' = << >>
      BY <1>1 DEF IInv, WalkRight
    <3>2. \A i \in DOMAIN index : ~ (i <= 0)
      BY <2>2
    <3> QED BY <1>1, <2>1, <3>1, <3>2, EmptyScan, ReadsAssumption DEF WalkRight, InOrder
  <2> QED BY <1>1, <2>1, <2>4, <2>5, <2>6, IdleKeeps
<1>3. CASE answer # "ok"
  <2>1. call' = "none" /\ UNCHANGED <<total, offset, limit>>
    BY <1>3 DEF TakeAnalytics
  <2>2. TypeOK'
    BY <1>1, <2>1, IdleTypes DEF IInv, TypeOK
  <2>3. IndexRight' /\ WalkRight'
    BY <1>1, <2>1 DEF IInv, IndexRight, WalkRight, InOrder
  <2> QED BY <1>1, <2>1, <2>2, <2>3, IdleKeeps
<1> QED BY <1>2, <1>3

(* The page received is the next part of the index: it goes to the end of  *)
(* those received before.                                                  *)
LEMMA TakePageKeeps ==
  ASSUME IInv, TakePage
  PROVE  IInv'
<1>1. /\ pc = "replied" /\ call = "page" /\ answer = "ok" /\ pc' = "idle"
      /\ collected' = collected \o out /\ offset' = offset + limit
      /\ missedAny' = missedAny \cup missed
      /\ UNCHANGED <<call, total, limit, known>>
      /\ UNCHANGED <<dataVars, scanVars, expired, answer, before, faults>>
      /\ UNCHANGED <<index, stored>>
  BY DEF TakePage, dataVars
<1> DEFINE w == Len(window)
<1>2. /\ TypeOK /\ IndexRight /\ WindowRight /\ Kept(out, w) /\ Covered(out, w)
      /\ collected \in Seq(Rec) /\ out \in Seq(Rec) /\ InOrder(collected, 0, offset)
  BY <1>1 DEF IInv, Scanning, Active, PhaseRight, ScanRight, WalkRight
<1>3. /\ offset \in Nat /\ limit \in Nat /\ total \in Nat /\ w \in Nat /\ Len(index) \in Nat
      /\ DOMAIN index = 1..Len(index) /\ WindowStart = offset /\ index \in Seq(Entries)
      /\ offset + w <= Len(index) /\ w <= limit
  BY <1>1, <1>2, Shapes DEF WindowStart, WindowRight
<1>4. collected' \in Seq(Rec) /\ Emails(collected') = Emails(collected) \cup Emails(out)
  BY <1>1, <1>2, EmailsConcat
<1> DEFINE b == offset + w
<1>5. InOrder(collected', 0, b)
  <2>1. b \in Nat /\ offset <= b /\ 0 <= offset /\ 0 \in Nat
    BY <1>3
  <2>2. InOrder(out, offset, b)
    BY <1>2, <1>3 DEF Kept
  <2> HIDE DEF b, w
  <2> QED BY <1>1, <1>2, <1>3, <2>1, <2>2, InOrderConcat
<1>6. InOrder(collected', 0, offset + limit) /\ InOrder(collected', 0, Len(index))
  <2>1. b \in Int /\ offset + limit \in Int /\ Len(index) \in Int
        /\ b <= offset + limit /\ b <= Len(index)
    BY <1>3
  <2> HIDE DEF b
  <2> QED BY <1>3, <1>5, <2>1, InOrderWider
<1>7. ASSUME NEW i \in DOMAIN index, i <= offset + limit, index[i] \in known
      PROVE  index[i] \in Emails(collected') \cup missedAny'
  <2>1. CASE i <= offset
    BY <1>1, <1>4, <1>7, <2>1 DEF IInv, WalkRight
  <2>2. CASE i > offset
    <3> DEFINE k == i - offset
    <3>1. i <= total
      <4>1. PICK j \in DOMAIN index : index[j] = index[i] /\ j <= total
        BY <1>1, <1>2, <1>7 DEF IndexRight
      <4> QED BY <1>2, <4>1 DEF IndexRight
    <3>2. k \in 1..w /\ offset + k = i
      <4>1. w = limit \/ total <= offset + w
        BY <1>1, <1>2 DEF WindowRight
      <4> QED BY <1>3, <1>7, <2>2, <3>1, <4>1
    <3> HIDE DEF k
    <3>3. window[k] = index[i]
      BY <1>2, <1>3, <3>2 DEF WindowRight
    <3>4. window[k] \in Emails(out) \cup missed
      BY <1>2, <1>7, <3>2, <3>3 DEF Covered
    <3> QED BY <1>1, <1>4, <3>3, <3>4
  <2> QED BY <1>3, <2>1, <2>2
<1>8. TypeOK'
  <2>1. Emails(collected') \subseteq Entries /\ missedAny' \subseteq Entries
    BY <1>1, <1>2, <1>4 DEF TypeOK
  <2>2. offset' \in Nat
    BY <1>1, <1>3
  <2> QED BY <1>1, <1>2, <2>1, <2>2, IdleTypes DEF TypeOK
<1>9. IndexRight'
  BY <1>1, <1>2 DEF IndexRight
<1>10. WalkRight'
  <2>1. InOrder(collected, 0, offset)' /\ InOrder(collected, 0, Len(index))'
    <3>1. InOrder(collected', 0, offset') /\ InOrder(collected', 0, Len(index')) /\ index' = index
      BY <1>1, <1>6
    <3>2. InOrder(collected, 0, offset)'
      BY <3>1 DEF InOrder
    <3>3. InOrder(collected, 0, Len(index))'
      BY <3>1 DEF InOrder
    <3> QED BY <3>2, <3>3
  <2> QED BY <1>1, <1>4, <1>7, <2>1 DEF WalkRight
<1> QED BY <1>1, <1>8, <1>9, <1>10, IdleKeeps

-----------------------------------------------------------------------------
(* IInv is inductive.                                                      *)
LEMMA NextIInv == IInv /\ [Next]_vars => IInv'
<1> SUFFICES ASSUME IInv, [Next]_vars PROVE IInv'
  OBVIOUS
<1>1. CASE UNCHANGED vars
  <2>1. UNCHANGED <<dataVars, callerVars, scanVars, before, pc, answer, expired, faults>>
    BY <1>1 DEF vars, dataVars, callerVars, scanVars
  <2>2. PhaseRight' /\ (Active' => Active) /\ (Scanning' => Scanning)
    BY <2>1 DEF IInv, PhaseRight, Active, Scanning, scanVars
  <2>3. pc' \in Phases /\ answer' \in Answers /\ expired' \in BOOLEAN /\ faults' \in 0..MaxFaults
    BY <2>1 DEF IInv, TypeOK, Phases, Answers
  <2> QED BY <2>1, <2>2, <2>3, QuietKeeps
<1>2. CASE Writers
  BY <1>2, WritersKeep
<1>3. CASE AskAnalytics
  BY <1>3, AskAnalyticsKeeps
<1>4. CASE Handler
  <2>1. CASE ReadIndex \/ ReadIndexFails
    BY <2>1, ReadIndexKeeps, ReadIndexFailsKeeps
  <2>2. CASE \E i \in 1..Len(window) : ReadRecord(i) \/ ReadRecordFails(i)
    BY <2>2, ReadRecordKeeps, ReadRecordFailsKeeps
  <2>3. CASE Consume
    BY <2>3, ConsumeKeeps
  <2>4. CASE ScanExpires \/ Finish
    BY <2>4, ScanExpiresKeeps, FinishKeeps
  <2> QED BY <1>4, <2>1, <2>2, <2>3, <2>4 DEF Handler
<1>5. CASE Caller
  <2>1. CASE AskPage
    BY <2>1, AskPageKeeps
  <2>2. CASE TakeAnalytics
    BY <2>2, TakeAnalyticsKeeps
  <2>3. CASE TakePage
    BY <2>3, TakePageKeeps
  <2>4. CASE TakePageTooLarge \/ TakePageFailed
    BY <2>4, TakePageTooLargeKeeps, TakePageFailedKeeps
  <2>5. CASE EndWalk
    BY <2>5, EndWalkKeeps
  <2> QED BY <1>5, <2>1, <2>2, <2>3, <2>4, <2>5 DEF Caller
<1>6. CASE Expire
  BY <1>6, ExpireKeeps
<1> QED BY <1>1, <1>2, <1>3, <1>4, <1>5, <1>6 DEF Next

(* IInv holds in every reachable state.                                    *)
LEMMA Invariance == Spec => []IInv
<1> QED BY InitIInv, NextIInv, PTL DEF Spec

(* Every reachable state of reader, caller and writers is well-typed.      *)
THEOREM TypeCorrect == Spec => []TypeOK
<1>1. IInv => TypeOK
  BY DEF IInv
<1> QED BY <1>1, Invariance, PTL

(* A finished walk has brought every email it had to bring.                *)
THEOREM WalkCompleteHolds == Spec => []WalkComplete
<1>1. IInv => WalkComplete
  <2> SUFFICES ASSUME IInv, pc = "idle", call = "page", offset >= total, NEW e \in known \ missedAny
               PROVE  e \in Emails(collected)
    BY DEF WalkComplete
  <2>1. PICK i \in DOMAIN index : index[i] = e /\ i <= total
    BY DEF IInv, IndexRight
  <2>2. offset \in Nat /\ total \in Nat /\ i \in Nat
    BY Shapes DEF IInv
  <2>3. i <= offset
    BY <2>1, <2>2
  <2> QED BY <2>1, <2>3 DEF IInv, WalkRight
<1> QED BY <1>1, Invariance, PTL

(* A walk keeps to the group, brings no email twice, and keeps the order   *)
(* of the index across its pages.                                          *)
THEOREM WalkInOrderHolds == Spec => []WalkInOrder
<1>1. IInv => WalkInOrder
  BY DEF IInv, WalkRight, WalkInOrder
<1> QED BY <1>1, Invariance, PTL

-----------------------------------------------------------------------------
(* What is kept of a scan is a part of what could be read.                 *)
LEMMA SumFunctionBelow ==
  ASSUME NEW f, NEW g, IsFiniteSet(DOMAIN f), IsFiniteSet(DOMAIN g),
         \A m \in DOMAIN f : f[m] \in Nat, \A m \in DOMAIN g : g[m] \in Nat,
         NEW a, \A m \in DOMAIN f : a[m] \in DOMAIN g /\ f[m] <= g[a[m]],
         \A m, n \in DOMAIN f : a[m] = a[n] => m = n
  PROVE  SumFunction(f) <= SumFunction(g)
BY SumBelow, SumIsSumOf

(* Sequences are finite.                                                   *)
LEMMA DomainFinite ==
  ASSUME NEW S, NEW s \in Seq(S)
  PROVE  IsFiniteSet(DOMAIN s)
<1>1. DOMAIN s = 1..Len(s) /\ Len(s) \in Nat
  OBVIOUS
<1> QED BY <1>1, FS_Interval

(* See DomainFinite.                                                       *)
LEMMA RangeFinite ==
  ASSUME NEW S, NEW s \in Seq(S), NEW T
  PROVE  IsFiniteSet(T \cap Range(s))
<1>1. IsFiniteSet(DOMAIN s)
  BY DomainFinite
<1>2. s \in [DOMAIN s -> Range(s)] /\ \A x \in Range(s) : \E i \in DOMAIN s : s[i] = x
  BY DEF Range
<1>3. s \in Surjection(DOMAIN s, Range(s))
  BY <1>2 DEF Surjection
<1>4. IsFiniteSet(Range(s))
  BY <1>1, <1>3, FS_Surjection
<1>5. T \cap Range(s) \subseteq Range(s)
  OBVIOUS
<1> QED BY <1>4, <1>5, FS_Subset

(* No email is kept twice.                                                 *)
LEMMA KeptDistinct ==
  ASSUME index \in Seq(Entries), IndexRight, NEW o \in Seq(Rec), NEW a, NEW b, InOrder(o, a, b),
         NEW k \in DOMAIN o, NEW l \in DOMAIN o, o[k].email = o[l].email
  PROVE  k = l
<1>1. ASSUME NEW x \in DOMAIN o, NEW y \in DOMAIN o, x < y PROVE o[x].email # o[y].email
  <2>1. PICK i, j \in DOMAIN index : i < j /\ index[i] = o[x].email /\ index[j] = o[y].email
    BY <1>1 DEF InOrder
  <2>2. i \in Nat /\ j \in Nat
    OBVIOUS
  <2> QED BY <2>1, <2>2 DEF IndexRight
<1>2. k \in Nat /\ l \in Nat
  OBVIOUS
<1> QED BY <1>1, <1>2

(* Records of different readable entries of s, none with more opens than   *)
(* its entry has now, weigh no more than those entries.                    *)
LEMMA KeptBelow ==
  ASSUME TypeOK, NEW o \in Seq(Rec), NEW s \in Seq(Entries), NEW c \in Nat,
         \A k, l \in DOMAIN o : o[k].email = o[l].email => k = l,
         \A k \in DOMAIN o : /\ o[k].email \in Own \cap stored \cap Range(s)
                             /\ o[k].opens <= opens[o[k].email]
  PROVE  SumFunction([k \in DOMAIN o |-> o[k].opens + c])
           <= SumFunction([e \in DOMAIN Readable(s) |-> Readable(s)[e].opens + c])
<1> DEFINE D == Own \cap stored \cap Range(s)
           f == [k \in DOMAIN o |-> o[k].opens + c]
           R == Readable(s)
           g == [e \in DOMAIN R |-> R[e].opens + c]
           at == [k \in DOMAIN o |-> o[k].email]
<1>1. DOMAIN R = D /\ \A e \in D : R[e].opens = opens[e]
  BY DEF Readable
<1>2. \A e \in D : opens[e] \in Nat
  BY Shapes
<1> HIDE DEF R
<1>3. IsFiniteSet(D)
  BY RangeFinite
<1>4. \A k \in DOMAIN o : o[k] \in Rec /\ o[k].opens \in Nat /\ o[k].email \in D
  <2>1. \A k \in DOMAIN o : o[k] \in Rec
    OBVIOUS
  <2> QED BY <2>1 DEF Rec
<1> HIDE DEF D
<1>5. DOMAIN f = DOMAIN o /\ \A k \in DOMAIN o : f[k] = o[k].opens + c /\ f[k] \in Nat
  BY <1>4
<1>6. DOMAIN g = D /\ \A e \in D : g[e] = opens[e] + c /\ g[e] \in Nat
  BY <1>1, <1>2
<1>7. \A k \in DOMAIN o : at[k] = o[k].email /\ at[k] \in D /\ o[k].opens <= opens[at[k]]
  BY <1>4
<1>8. IsFiniteSet(DOMAIN o)
  BY DomainFinite
<1>9. \A k, l \in DOMAIN o : at[k] = at[l] => k = l
  BY <1>7
<1> HIDE DEF f, g, at
<1>10. \A k \in DOMAIN o : f[k] <= g[at[k]]
  BY <1>2, <1>4, <1>5, <1>6, <1>7
<1>11. SumFunction(f) <= SumFunction(g)
  <2>1. /\ IsFiniteSet(DOMAIN f) /\ IsFiniteSet(DOMAIN g)
        /\ \A m \in DOMAIN f : f[m] \in Nat
        /\ \A m \in DOMAIN g : g[m] \in Nat
    BY <1>3, <1>5, <1>6, <1>8
  <2>2. \A m \in DOMAIN f : at[m] \in DOMAIN g /\ f[m] <= g[at[m]]
    BY <1>5, <1>6, <1>7, <1>10
  <2>3. \A m, n \in DOMAIN f : at[m] = at[n] => m = n
    BY <1>5, <1>9
  <2> QED BY <2>1, <2>2, <2>3, SumFunctionBelow
<1> QED BY <1>11 DEF f, g, R

(* What analytics reports lies between what was true when the request came *)
(* and what is true when it is answered.                                   *)
THEOREM AnalyticsBracketedHolds == Spec => []AnalyticsBracketed
<1>1. ASSUME IInv, pc = "replied", call = "analytics", answer = "ok", missed = {}
      PROVE  SumOfOpens(before) <= SumOfOpens(out) /\ SumOfOpens(out) <= SumOfOpens(Readable(index))
  <2>1. /\ TypeOK /\ IndexRight /\ WindowRight /\ out \in Seq(Rec) /\ index \in Seq(Entries)
        /\ Kept(out, pos) /\ Covered(out, pos) /\ pos = Len(window)
    BY <1>1, Shapes DEF IInv, Scanning, Active, PhaseRight, ScanRight
  <2>2. /\ DOMAIN before = known
        /\ \A e \in known : before[e].opens \in Nat
    BY <1>1 DEF IInv, RequestRight, Active
  <2>3. InOrder(out, WindowStart, WindowStart + pos)
    BY <2>1 DEF Kept
  <2>4. \A k \in DOMAIN out : out[k] \in Rec /\ out[k].opens \in Nat
    <3>1. \A k \in DOMAIN out : out[k] \in Rec
      BY <2>1
    <3> QED BY <3>1 DEF Rec
  <2> DEFINE b == [e \in DOMAIN before |-> before[e].opens]
             f == [k \in DOMAIN out |-> out[k].opens]
             at == [e \in known |-> CHOOSE k \in DOMAIN out : out[k].email = e]
  <2>5. SumOfOpens(before) = SumFunction(b) /\ SumOfOpens(out) = SumFunction(f)
    BY DEF SumOfOpens
  <2>6. DOMAIN b = known /\ \A e \in known : b[e] = before[e].opens /\ b[e] \in Nat
    BY <2>2
  <2>7. DOMAIN f = DOMAIN out /\ \A k \in DOMAIN out : f[k] = out[k].opens /\ f[k] \in Nat
    BY <2>4
  <2>8. \A e \in known : at[e] \in DOMAIN out /\ out[at[e]].email = e
    <3>1. ASSUME NEW e \in known PROVE \E k \in DOMAIN out : out[k].email = e
      <4>1. PICK k \in 1..Len(window) : window[k] = e
        BY <1>1, <2>1 DEF WindowRight
      <4>2. e \in Emails(out)
        BY <1>1, <2>1, <4>1 DEF Covered
      <4> QED BY <4>2, EmailsMember
    <3> QED BY <3>1
  <2> HIDE DEF b, f, at
  <2>9. SumFunction(b) <= SumFunction(f)
    <3>1. IsFiniteSet(known)
      <4>1. known \subseteq Own \cap Range(index)
        BY <2>1 DEF IndexRight, Range
      <4> QED BY <2>1, <4>1, RangeFinite, FS_Subset
    <3>2. IsFiniteSet(DOMAIN out)
      BY <2>1, DomainFinite
    <3>3. \A e \in known : b[e] <= f[at[e]]
      <4>1. \A e \in known : before[e].opens <= out[at[e]].opens
        BY <1>1, <2>1, <2>8 DEF Kept
      <4> QED BY <2>6, <2>7, <2>8, <4>1
    <3>4. \A m, n \in known : at[m] = at[n] => m = n
      BY <2>8
    <3>5. IsFiniteSet(DOMAIN b) /\ IsFiniteSet(DOMAIN f)
      BY <2>6, <2>7, <3>1, <3>2
    <3>6. \A m \in DOMAIN b : b[m] \in Nat
      BY <2>6
    <3>7. \A m \in DOMAIN f : f[m] \in Nat
      BY <2>7
    <3>8. \A m \in DOMAIN b : at[m] \in DOMAIN f /\ b[m] <= f[at[m]]
      BY <2>6, <2>7, <2>8, <3>3
    <3>9. \A m, n \in DOMAIN b : at[m] = at[n] => m = n
      BY <2>6, <3>4
    <3> QED BY <3>5, <3>6, <3>7, <3>8, <3>9, SumFunctionBelow
  <2>10. SumFunction(f) <= SumOfOpens(Readable(index))
    <3> DEFINE R == Readable(index)
    <3>1. \A k \in DOMAIN out : /\ out[k].email \in Own \cap stored \cap Range(index)
                                /\ out[k].opens <= opens[out[k].email]
      BY <2>1 DEF Kept, InOrder, Range
    <3>2. SumFunction([k \in DOMAIN out |-> out[k].opens + 0])
            <= SumFunction([e \in DOMAIN Readable(index) |-> Readable(index)[e].opens + 0])
      <4>1. \A k, l \in DOMAIN out : out[k].email = out[l].email => k = l
        BY <2>1, <2>3, KeptDistinct
      <4> QED BY <2>1, <3>1, <4>1, KeptBelow
    <3>3. \A e \in DOMAIN R : R[e].opens \in Nat
      BY <2>1, Shapes DEF Readable
    <3>4. [e \in DOMAIN R |-> R[e].opens + 0] = [e \in DOMAIN R |-> R[e].opens]
      <4> HIDE DEF R
      <4>1. \A e \in DOMAIN R : R[e].opens + 0 = R[e].opens
        BY <3>3
      <4> QED BY <4>1
    <3>5. [k \in DOMAIN out |-> out[k].opens + 0] = f
      <4>1. \A k \in DOMAIN out : out[k].opens + 0 = out[k].opens
        BY <2>4
      <4> QED BY <4>1 DEF f
    <3>6. SumOfOpens(R) = SumFunction([e \in DOMAIN R |-> R[e].opens])
      BY DEF SumOfOpens
    <3> QED BY <3>2, <3>4, <3>5, <3>6
  <2> QED BY <2>5, <2>9, <2>10
<1>2. IInv => AnalyticsBracketed
  BY <1>1 DEF AnalyticsBracketed
<1> QED BY <1>2, Invariance, PTL

(* NATS can carry every page that is sent, and a page is refused only when *)
(* the records of its window would not fit one reply.                      *)
THEOREM PageSizeExactHolds == Spec => []PageSizeExact
<1>1. ASSUME IInv, pc = "replied", call = "page", answer = "ok"
      PROVE  Encoded(out) <= MaxPayload
  BY <1>1 DEF IInv, Active, ScanRight
<1>2. ASSUME IInv, pc = "replied", call = "page", answer = "response too large"
      PROVE  Encoded(Readable(window)) > MaxPayload
  <2>1. /\ TypeOK /\ IndexRight /\ WindowRight /\ window \in Seq(Entries) /\ index \in Seq(Entries)
        /\ Kept(out, pos) /\ tooLarge /\ Refused(out)
    BY <1>2, Shapes DEF IInv, Scanning, Active, PhaseRight, ScanRight
  <2>2. PICK k \in 1..Len(window) : \E n \in 0..opens[window[k]] :
          /\ window[k] \in Own \cap stored
          /\ window[k] \notin Emails(out)
          /\ Encoded(Append(out, [email |-> window[k], opens |-> n])) > MaxPayload
    BY <2>1 DEF Refused
  <2>3. PICK n \in 0..opens[window[k]] :
          /\ window[k] \in Own \cap stored
          /\ window[k] \notin Emails(out)
          /\ Encoded(Append(out, [email |-> window[k], opens |-> n])) > MaxPayload
    BY <2>2
  <2> DEFINE e == window[k]
             r == [email |-> e, opens |-> n]
             p == Append(out, r)
             l == Len(out)
             R == Readable(window)
             c == RecordSize + 1
  <2>4. /\ e \in Own /\ e \in stored /\ e \in Range(window) /\ e \notin Emails(out)
        /\ r \in Rec /\ r.email = e /\ r.opens = n /\ n \in Nat /\ n <= opens[e]
        /\ Encoded(p) > MaxPayload
    <3>1. DOMAIN window = 1..Len(window)
      BY <2>1
    <3>2. opens[e] \in Nat /\ n \in Nat /\ n <= opens[e]
      BY <2>1, <2>3, Shapes
    <3> QED BY <2>3, <3>1, <3>2 DEF Rec, Range
  <2> HIDE DEF r, e
  <2>5. /\ l \in Nat /\ DOMAIN out = 1..l /\ p \in Seq(Rec) /\ DOMAIN p = 1..(l + 1)
        /\ p[l + 1] = r /\ \A i \in 1..l : p[i] = out[i]
    <3>1. out \in Seq(Rec) /\ r \in Rec
      BY <2>1, <2>4 DEF Kept
    <3>2. /\ Len(out) \in Nat /\ DOMAIN out = 1..Len(out) /\ Append(out, r) \in Seq(Rec)
          /\ DOMAIN Append(out, r) = 1..(Len(out) + 1)
          /\ Append(out, r)[Len(out) + 1] = r
          /\ \A i \in 1..Len(out) : Append(out, r)[i] = out[i]
      BY <3>1, AppendFacts
    <3> QED BY <3>2
  <2> HIDE DEF p, l
  <2>6. \A i \in DOMAIN p : i = l + 1 \/ i \in DOMAIN out
    BY <2>5
  <2>7. \A i \in DOMAIN p : /\ p[i].email \in Own \cap stored \cap Range(window)
                            /\ p[i].opens <= opens[p[i].email]
    <3>1. ASSUME NEW i \in DOMAIN out
          PROVE  /\ out[i].email \in Own \cap stored \cap Range(window)
                 /\ out[i].opens <= opens[out[i].email]
      <4>1. PICK j \in DOMAIN index :
              /\ WindowStart < j /\ j <= WindowStart + pos
              /\ index[j] = out[i].email /\ index[j] \in Own
        BY <2>1 DEF Kept, InOrder
      <4>2. /\ WindowStart \in Nat /\ pos \in Nat /\ Len(window) \in Nat /\ pos <= Len(window)
            /\ j \in Nat /\ DOMAIN window = 1..Len(window)
        BY <2>1, Shapes
      <4>3. j - WindowStart \in 1..Len(window) /\ WindowStart + (j - WindowStart) = j
        BY <4>1, <4>2
      <4>4. window[j - WindowStart] = index[j]
        BY <2>1, <4>3 DEF WindowRight
      <4>5. out[i].email \in Range(window)
        BY <4>1, <4>2, <4>3, <4>4 DEF Range
      <4> QED BY <2>1, <4>1, <4>5 DEF Kept
    <3> QED BY <2>4, <2>5, <2>6, <3>1
  <2>8. \A i, j \in DOMAIN p : p[i].email = p[j].email => i = j
    <3>1. \A i, j \in DOMAIN out : out[i].email = out[j].email => i = j
      BY <2>1, KeptDistinct DEF Kept
    <3>2. \A i \in DOMAIN out : out[i].email # e
      BY <2>4, EmailsMember
    <3> QED BY <2>4, <2>5, <2>6, <3>1, <3>2
  <2>9. c \in Nat
    BY ReadsAssumption
  <2>10. SumFunction([i \in DOMAIN p |-> p[i].opens + c])
           <= SumFunction([x \in DOMAIN R |-> R[x].opens + c])
    <3>1. p \in Seq(Rec) /\ window \in Seq(Entries) /\ TypeOK
      BY <2>1, <2>5
    <3> HIDE DEF c
    <3>2. SumFunction([i \in DOMAIN p |-> p[i].opens + c])
            <= SumFunction([x \in DOMAIN Readable(window) |-> Readable(window)[x].opens + c])
      BY <2>7, <2>8, <2>9, <3>1, KeptBelow
    <3> QED BY <3>2
  <2>11. \A i \in DOMAIN p : p[i] \in Rec /\ p[i].opens \in Nat
    <3>1. \A i \in DOMAIN p : p[i] \in Rec
      BY <2>5
    <3> QED BY <3>1 DEF Rec
  <2>12. \A x \in DOMAIN R : R[x].opens \in Nat
    BY <2>1, Shapes DEF Readable
  <2>13. DOMAIN R # {} /\ DOMAIN p # {}
    <3>1. DOMAIN R = Own \cap stored \cap Range(window)
      BY DEF Readable
    <3>2. l + 1 \in DOMAIN p
      BY <2>5
    <3> HIDE DEF R
    <3> QED BY <2>4, <3>1, <3>2
  <2> DEFINE W(s) == SumFunction([x \in DOMAIN s |-> s[x].opens + c])
  <2>14. ASSUME NEW s, DOMAIN s # {}, \A x \in DOMAIN s : s[x].opens \in Nat
         PROVE  Encoded(s) = 1 + W(s)
    <3>1. \A x \in DOMAIN s : RecordLen(s[x]) + 1 = s[x].opens + c
      <4> SUFFICES ASSUME NEW x \in DOMAIN s PROVE RecordLen(s[x]) + 1 = s[x].opens + c
        OBVIOUS
      <4>1. s[x].opens \in Nat /\ RecordSize \in Nat
        BY <2>14, ReadsAssumption
      <4> QED BY <4>1 DEF RecordLen
    <3>2. [x \in DOMAIN s |-> RecordLen(s[x]) + 1] = [x \in DOMAIN s |-> s[x].opens + c]
      BY <3>1
    <3> QED BY <2>14, <3>2 DEF Encoded
  <2>15. Encoded(p) = 1 + W(p) /\ Encoded(R) = 1 + W(R)
    <3> HIDE DEF R, W
    <3> QED BY <2>11, <2>12, <2>13, <2>14
  <2>16. W(p) \in Nat /\ W(R) \in Nat /\ MaxPayload \in Nat
    <3> SUFFICES W(p) \in Nat /\ W(R) \in Nat
      BY ReadsAssumption
    <3>1. ASSUME NEW s, IsFiniteSet(DOMAIN s), \A x \in DOMAIN s : s[x].opens \in Nat
          PROVE  W(s) \in Nat
      <4> DEFINE f == [x \in DOMAIN s |-> s[x].opens + c]
      <4>1. DOMAIN f = DOMAIN s /\ \A x \in DOMAIN f : f[x] \in Nat
        BY <2>9, <3>1
      <4> HIDE DEF f
      <4>2. SumFunction(f) \in Nat
        BY <3>1, <4>1, SumIsSumOf, SumNat
      <4> QED BY <4>2 DEF f
    <3>2. IsFiniteSet(DOMAIN p)
      BY <2>5, DomainFinite
    <3>3. IsFiniteSet(DOMAIN R)
      BY <2>1, RangeFinite DEF Readable
    <3> HIDE DEF W, R
    <3> QED BY <2>11, <2>12, <3>1, <3>2, <3>3
  <2>17. Encoded(R) > MaxPayload
    <3>1. W(p) <= W(R)
      BY <2>10
    <3> HIDE DEF W, R
    <3> QED BY <2>4, <2>15, <2>16, <3>1
  <2> QED BY <2>17
<1>3. IInv => PageSizeExact
  BY <1>1, <1>2 DEF PageSizeExact
<1> QED BY <1>3, Invariance, PTL
===============================================================================
