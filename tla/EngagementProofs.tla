---------------------------- MODULE EngagementProofs ----------------------------
(***************************************************************************)
(* What the pollers keep true of a record and its notices, for any number  *)
(* of pollers, events, faults and retries: the first part for any dedup    *)
(* windows, the second for windows that have room.                         *)
(***************************************************************************)
EXTENDS Engagement, FiniteSetTheorems, TLAPS

Wanted == Events \ Junk

(* An event that is no junk is of one kind, or has one flag.               *)
LEMMA Kinds ==
  ASSUME NEW e \in Wanted
  PROVE  /\ e \in Nat /\ e # 0
         /\ IsCounted(e) => KindOf(e) \in Counted /\ e \in OfKind(KindOf(e))
         /\ ~ IsCounted(e) => FlagOf(e) \in Flags /\ e \in OfFlag(FlagOf(e))
         /\ \A k \in Counted : e \in OfKind(k) => IsCounted(e) /\ k = KindOf(e)
         /\ \A f \in Flags : e \in OfFlag(f) => ~ IsCounted(e) /\ f = FlagOf(e)
  BY EventsAssumption
     DEF Wanted, Events, IsCounted, KindOf, FlagOf, Counted, Flags, OfKind, OfFlag

LEMMA KindsDisjoint ==
  /\ \A k \in Counted : OfKind(k) \subseteq Wanted /\ IsFiniteSet(OfKind(k))
  /\ \A f \in Flags : OfFlag(f) \subseteq Wanted
<1>1. Opens \subseteq Events /\ Clicks \subseteq Events
  BY DEF Events
<1>2. IsFiniteSet(Opens) /\ IsFiniteSet(Clicks)
  BY <1>1, EventsAssumption, FS_Subset
<1> QED
  BY <1>2, EventsAssumption DEF Wanted, Events, Counted, Flags, OfKind, OfFlag

(* A set of events is finite, and an event added to it counts for one.     *)
LEMMA Counting ==
  ASSUME NEW S \in SUBSET Events, NEW e \in Events
  PROVE  /\ IsFiniteSet(S) /\ Cardinality(S) \in Nat
         /\ Cardinality(S \cup {e}) <= Cardinality(S) + 1
         /\ e \notin S => Cardinality(S \cup {e}) = Cardinality(S) + 1
<1>1. IsFiniteSet(S)
  BY EventsAssumption, FS_Subset
<1>2. Cardinality(S \cup {e}) = IF e \in S THEN Cardinality(S) ELSE Cardinality(S) + 1
  BY <1>1, FS_AddElement
<1> QED
  BY <1>1, <1>2, FS_CardinalityType

LEMMA FewerThan ==
  ASSUME NEW S \in SUBSET Events, NEW T \in SUBSET S
  PROVE  /\ Cardinality(T) <= Cardinality(S)
         /\ T # S => Cardinality(T) < Cardinality(S)
<1>1. IsFiniteSet(S) /\ IsFiniteSet(T)
  BY EventsAssumption, FS_Subset
<1> QED
  BY <1>1, FS_Subset, FS_CardinalityType

(* What one update does to a record.                                       *)
Effect(rec, e, new) ==
  /\ \A k \in Counted : e \in rec.ids[k] \/ e \notin OfKind(k) =>
       /\ new.ids[k] = rec.ids[k]
       /\ new.count[k] = rec.count[k]
       /\ new.last[k] = rec.last[k]
  /\ \A k \in Counted : e \in OfKind(k) \ rec.ids[k] =>
       /\ new.ids[k] \in {rec.ids[k], rec.ids[k] \cup {e}}
       /\ Cardinality(rec.ids[k]) < Window(k) => e \in new.ids[k]
       /\ new.count[k] = rec.count[k] + 1
       /\ new.last[k] = Latest(rec.last[k], e)
  /\ \A f \in Flags :
       new.at[f] = IF e \in OfFlag(f) /\ rec.at[f] = 0 THEN e ELSE rec.at[f]

LEMMA UpdatedEffect ==
  ASSUME NEW rec \in Record, NEW e \in Wanted
  PROVE  Updated(rec, e) \in Record /\ Effect(rec, e, Updated(rec, e))
<1> DEFINE new == Updated(rec, e)
           k == KindOf(e)
           f == FlagOf(e)
<1>0. e \in Events
  BY DEF Wanted
<1>r. /\ rec.count \in [Counted -> Nat] /\ rec.ids \in [Counted -> SUBSET Events]
      /\ rec.last \in [Counted -> Events \cup {0}] /\ rec.at \in [Flags -> Events \cup {0}]
  BY DEF Record
<1>1. CASE Replay(rec, e)
  <2>1. new = rec
    BY <1>1 DEF Updated
  <2>2. \A c \in Counted : e \in OfKind(c) => e \in rec.ids[c]
    BY <1>1, Kinds DEF Replay
  <2>3. \A g \in Flags : e \in OfFlag(g) => rec.at[g] # 0
    BY <1>1, Kinds DEF Replay
  <2> QED
    BY <2>1, <2>2, <2>3 DEF Effect
<1>2. CASE ~ Replay(rec, e) /\ IsCounted(e)
  <2>0. k \in Counted /\ e \notin rec.ids[k] /\ e \in OfKind(k)
    BY <1>2, Kinds DEF Replay
  <2>1. new = [rec EXCEPT !.count[k] = @ + 1, !.last[k] = Latest(@, e),
                          !.ids[k] = IF Cardinality(@) < Window(k) THEN @ \cup {e} ELSE @]
    BY <1>2 DEF Updated, Count
  <2> HIDE DEF new, k
  <2>2. /\ new.count = [rec.count EXCEPT ![k] = @ + 1]
        /\ new.last = [rec.last EXCEPT ![k] = Latest(@, e)]
        /\ new.ids = [rec.ids EXCEPT ![k] = IF Cardinality(@) < Window(k) THEN @ \cup {e} ELSE @]
        /\ new.at = rec.at
        /\ new = [count |-> new.count, ids |-> new.ids, last |-> new.last, at |-> new.at]
    BY <2>1 DEF Record
  <2>3. Latest(rec.last[k], e) \in Events \cup {0}
    BY <1>0, <1>r, <2>0 DEF Latest
  <2>4. new.count \in [Counted -> Nat]
    BY <1>r, <2>0, <2>2
  <2>5. new.last \in [Counted -> Events \cup {0}]
    BY <1>r, <2>0, <2>2, <2>3
  <2>6. new.ids \in [Counted -> SUBSET Events]
    BY <1>0, <1>r, <2>0, <2>2
  <2>7. new \in Record
    BY <1>r, <2>2, <2>4, <2>5, <2>6 DEF Record
  <2>8. \A c \in Counted : e \in OfKind(c) <=> c = k
    BY <2>0, Kinds DEF k
  <2>9. \A g \in Flags : e \notin OfFlag(g)
    BY <1>2, Kinds
  <2> QED
    BY <1>r, <2>0, <2>2, <2>7, <2>8, <2>9 DEF Effect, new
<1>3. CASE ~ Replay(rec, e) /\ ~ IsCounted(e)
  <2>0. f \in Flags /\ rec.at[f] = 0 /\ e \in OfFlag(f)
    BY <1>3, Kinds DEF Replay
  <2>1. new = [rec EXCEPT !.at[f] = e]
    BY <1>3 DEF Updated, SetFlag
  <2> HIDE DEF new, f
  <2>2. /\ new.at = [rec.at EXCEPT ![f] = e]
        /\ new.count = rec.count /\ new.ids = rec.ids /\ new.last = rec.last
        /\ new = [count |-> new.count, ids |-> new.ids, last |-> new.last, at |-> new.at]
    BY <2>1 DEF Record
  <2>3. new.at \in [Flags -> Events \cup {0}]
    BY <1>0, <1>r, <2>0, <2>2
  <2>4. new \in Record
    BY <1>r, <2>2, <2>3 DEF Record
  <2>5. \A g \in Flags : e \in OfFlag(g) <=> g = f
    BY <2>0, Kinds DEF f
  <2>6. \A c \in Counted : e \notin OfKind(c)
    BY <1>3, Kinds
  <2> QED
    BY <1>r, <2>0, <2>2, <2>4, <2>5, <2>6 DEF Effect, new
<1> QED
  BY <1>1, <1>2, <1>3

(* What an update is computed from: the event in hand is one that came.    *)
EventInHand ==
  \A p \in Pollers :
    /\ pc[p] # "poll" => event[p] \in Events
    /\ pc[p] \in {"get", "update", "publish"} => event[p] \in Wanted

(* A write the server would still accept, by a poller or late, is the      *)
(* update of the current record: nothing it overwrites is unknown to it.   *)
DraftsSound ==
  \A p \in Pollers : pc[p] = "update" =>
    /\ draftRev[p] <= revision
    /\ draftRev[p] = revision => /\ draft[p] = Updated(record, event[p])
                                 /\ applied[p] <=> ~ Replay(record, event[p])

LateSound ==
  \A w \in late :
    /\ w.rev <= revision
    /\ w.rev = revision => \E e \in Wanted : w.rec = Updated(record, e)

IdsOfKind == \A k \in Counted : record.ids[k] \subseteq OfKind(k)

Shape == TypeOK /\ EventInHand
Sound == Shape /\ DraftsSound /\ LateSound /\ IdsOfKind

(* An event is taken from the batch and junk goes straight to its          *)
(* deletion.                                                               *)
LEMMA HandKept ==
  ASSUME Shape, [Next]_vars
  PROVE  EventInHand'
<1> USE DEF Shape, TypeOK, EventInHand, Wanted
<1>1. CASE UNCHANGED <<pc, event>>
  BY <1>1
<1>2. ASSUME NEW p \in Pollers, NEW e \in Events, Take(p, e) PROVE EventInHand'
  BY <1>2
     DEF Take, kvVars, pollerVars
<1>3. ASSUME NEW p \in Pollers, ReadRecord(p) PROVE EventInHand'
  BY <1>3
     DEF ReadRecord, kvVars, pollerVars
<1>4. ASSUME NEW p \in Pollers, RecordAbsent(p) PROVE EventInHand'
  BY <1>4
     DEF RecordAbsent, GoTo, kvVars, pollerVars
<1>5. ASSUME NEW p \in Pollers, ReadFails(p) PROVE EventInHand'
  BY <1>5
     DEF ReadFails, LeaveInQueue, Forget, Fault, kvVars, pollerVars
<1>6. ASSUME NEW p \in Pollers, UpdateSucceeds(p) PROVE EventInHand'
  BY <1>6
     DEF UpdateSucceeds, GoTo, Commit, Stale, kvVars, pollerVars
<1>7. ASSUME NEW p \in Pollers, UpdateConflicts(p) PROVE EventInHand'
  BY <1>7
     DEF UpdateConflicts, TryAgain, LeaveInQueue, Forget, Stale, kvVars, pollerVars
<1>8. ASSUME NEW p \in Pollers, UpdateUnanswered(p) PROVE EventInHand'
  BY <1>8
     DEF UpdateUnanswered, TryAgain, LeaveInQueue, Forget, Fault, kvVars, pollerVars
<1>9. ASSUME NEW p \in Pollers, UpdateTooLarge(p) PROVE EventInHand'
  BY <1>9
     DEF UpdateTooLarge, GoTo, kvVars, pollerVars
<1>10. ASSUME NEW p \in Pollers, Publish(p) PROVE EventInHand'
  BY <1>10
     DEF Publish, GoTo, kvVars, pollerVars
<1>11. ASSUME NEW p \in Pollers, PublishFails(p) PROVE EventInHand'
  BY <1>11
     DEF PublishFails, GoTo, Fault, kvVars, pollerVars
<1>12. ASSUME NEW p \in Pollers, Acknowledge(p) PROVE EventInHand'
  BY <1>12
     DEF Acknowledge, Forget, kvVars, pollerVars
<1>13. ASSUME NEW p \in Pollers, AcknowledgeFails(p) PROVE EventInHand'
  BY <1>13
     DEF AcknowledgeFails, LeaveInQueue, Forget, Fault, kvVars, pollerVars
<1>14. ASSUME NEW p \in Pollers, Crash(p) PROVE EventInHand'
  BY <1>14
     DEF Crash, Forget, Fault, kvVars, pollerVars
<1> QED
  BY <1>1, <1>2, <1>3, <1>4, <1>5, <1>6, <1>7, <1>8, <1>9, <1>10, <1>11, <1>12, <1>13, <1>14
     DEF Next, PollerStep, vars, kvVars, pollerVars, GoTo, LeaveInQueue, Forget, TryAgain,
            Fault, Receive, LateUpdate, StoreRecord

LEMMA NewRecordTyped == NewRecord \in Record
  BY EventsAssumption DEF NewRecord, Record

(* The shape of the state, in four parts.                                  *)
StoreTyped ==
  /\ queue \subseteq Events /\ early \subseteq Events
  /\ record \in Record /\ revision \in Nat
  /\ \A w \in late : w.rev \in Nat /\ w.rec \in Record
  /\ faults \in 0..MaxFaults

NoticesTyped == notices \in [Events -> Seq(Nat)]

HandTyped ==
  /\ pc \in [Pollers -> {"poll", "get", "update", "publish", "delete"}]
  /\ batch \in [Pollers -> SUBSET Events]
  /\ event \in [Pollers -> Events \cup {0}]
  /\ attempt \in [Pollers -> 0..1]

DraftTyped ==
  /\ draft \in [Pollers -> Record]
  /\ draftRev \in [Pollers -> Nat]
  /\ applied \in [Pollers -> BOOLEAN]

LEMMA TypeParts == TypeOK <=> StoreTyped /\ NoticesTyped /\ HandTyped /\ DraftTyped
  BY DEF TypeOK, StoreTyped, NoticesTyped, HandTyped, DraftTyped

(* The queue, the bucket and what is on its way to it.                     *)
LEMMA StoreTypeKept ==
  ASSUME Shape, [Next]_vars
  PROVE  StoreTyped'
<1> USE EventsAssumption, TypeParts DEF Shape, StoreTyped, HandTyped, DraftTyped
<1>1. CASE UNCHANGED <<queue, early, record, revision, late, faults>>
  BY <1>1
<1>2. CASE StoreRecord
  BY <1>2
     DEF StoreRecord, kvVars, pollerVars
<1>3. ASSUME NEW p \in Pollers, RecordAbsent(p) PROVE StoreTyped'
  BY <1>3
     DEF RecordAbsent, GoTo, EventInHand, kvVars, pollerVars
<1>4. ASSUME NEW p \in Pollers, ReadFails(p) PROVE StoreTyped'
  BY <1>4
     DEF ReadFails, LeaveInQueue, Forget, Fault, kvVars, pollerVars
<1>5. ASSUME NEW p \in Pollers, UpdateSucceeds(p) PROVE StoreTyped'
  BY <1>5
     DEF UpdateSucceeds, GoTo, Commit, Stale, kvVars, pollerVars
<1>6. ASSUME NEW p \in Pollers, UpdateConflicts(p) PROVE StoreTyped'
  BY <1>6
     DEF UpdateConflicts, TryAgain, LeaveInQueue, Forget, Stale, kvVars, pollerVars
<1>7. ASSUME NEW p \in Pollers, UpdateUnanswered(p) PROVE StoreTyped'
  BY <1>7
     DEF UpdateUnanswered, TryAgain, LeaveInQueue, Forget, Fault, kvVars, pollerVars
<1>8. ASSUME NEW p \in Pollers, UpdateTooLarge(p) PROVE StoreTyped'
  BY <1>8
     DEF UpdateTooLarge, GoTo, kvVars, pollerVars
<1>9. ASSUME NEW p \in Pollers, PublishFails(p) PROVE StoreTyped'
  BY <1>9
     DEF PublishFails, GoTo, Fault, kvVars, pollerVars
<1>10. ASSUME NEW p \in Pollers, Acknowledge(p) PROVE StoreTyped'
  BY <1>10
     DEF Acknowledge, Forget, kvVars, pollerVars
<1>11. ASSUME NEW p \in Pollers, AcknowledgeFails(p) PROVE StoreTyped'
  BY <1>11
     DEF AcknowledgeFails, LeaveInQueue, Forget, Fault, kvVars, pollerVars
<1>12. ASSUME NEW p \in Pollers, Crash(p) PROVE StoreTyped'
  BY <1>12
     DEF Crash, Forget, Fault, kvVars, pollerVars
<1>13. ASSUME NEW w \in late, LateUpdate(w) PROVE StoreTyped'
  BY <1>13
     DEF LateUpdate, Commit, kvVars, pollerVars
<1> QED
  BY <1>1, <1>2, <1>3, <1>4, <1>5, <1>6, <1>7, <1>8, <1>9, <1>10, <1>11, <1>12, <1>13
     DEF Next, PollerStep, vars, kvVars, pollerVars, GoTo, LeaveInQueue, Forget, TryAgain,
            Fault, Receive, Take, ReadRecord, Publish

(* The notices.                                                            *)
LEMMA NoticesTypeKept ==
  ASSUME Shape, [Next]_vars
  PROVE  NoticesTyped'
<1> USE TypeParts DEF Shape, NoticesTyped
<1>1. CASE UNCHANGED notices
  BY <1>1
<1>2. ASSUME NEW p \in Pollers, Publish(p) PROVE NoticesTyped'
  <2>1. NoticeCount(p) \in Nat
    BY <1>2, EventsAssumption
       DEF Publish, NoticeCount, IsCounted, KindOf, Counted, Record, HandTyped, DraftTyped,
           EventInHand
  <2>2. event[p] \in Events
    BY <1>2 DEF Publish, EventInHand
  <2>3. notices[event[p]] \in Seq(Nat)
    BY <2>2
  <2>4. Append(notices[event[p]], NoticeCount(p)) \in Seq(Nat)
    BY <2>1, <2>3
  <2> QED
    BY <1>2, <2>2, <2>4 DEF Publish
<1> QED
  BY <1>1, <1>2
     DEF Next, PollerStep, vars, kvVars, pollerVars, GoTo, LeaveInQueue, Forget, TryAgain,
            Fault, Receive, Take, ReadRecord, RecordAbsent, ReadFails, UpdateSucceeds,
            UpdateConflicts, UpdateUnanswered, UpdateTooLarge, PublishFails, Acknowledge,
            AcknowledgeFails, Crash, LateUpdate, StoreRecord

(* What a poller has in hand.                                              *)
LEMMA HandTypeKept ==
  ASSUME Shape, [Next]_vars
  PROVE  HandTyped'
<1> USE TypeParts DEF Shape, HandTyped, EventInHand
<1>1. CASE UNCHANGED <<pc, batch, event, attempt>>
  BY <1>1
<1>2. ASSUME NEW p \in Pollers, Receive(p) PROVE HandTyped'
  BY <1>2
     DEF Receive, StoreTyped, kvVars, pollerVars
<1>3. ASSUME NEW p \in Pollers, NEW e \in Events, Take(p, e) PROVE HandTyped'
  BY <1>3
     DEF Take, kvVars, pollerVars
<1>4. ASSUME NEW p \in Pollers, ReadRecord(p) PROVE HandTyped'
  BY <1>4
     DEF ReadRecord, kvVars, pollerVars
<1>5. ASSUME NEW p \in Pollers, RecordAbsent(p) PROVE HandTyped'
  BY <1>5
     DEF RecordAbsent, GoTo, kvVars, pollerVars
<1>6. ASSUME NEW p \in Pollers, ReadFails(p) PROVE HandTyped'
  BY <1>6
     DEF ReadFails, LeaveInQueue, Forget, Fault, kvVars, pollerVars
<1>7. ASSUME NEW p \in Pollers, UpdateSucceeds(p) PROVE HandTyped'
  BY <1>7
     DEF UpdateSucceeds, GoTo, Commit, Stale, kvVars, pollerVars
<1>8. ASSUME NEW p \in Pollers, UpdateConflicts(p) PROVE HandTyped'
  BY <1>8
     DEF UpdateConflicts, TryAgain, LeaveInQueue, Forget, Stale, kvVars, pollerVars
<1>9. ASSUME NEW p \in Pollers, UpdateUnanswered(p) PROVE HandTyped'
  BY <1>9
     DEF UpdateUnanswered, TryAgain, LeaveInQueue, Forget, Fault, kvVars, pollerVars
<1>10. ASSUME NEW p \in Pollers, UpdateTooLarge(p) PROVE HandTyped'
  BY <1>10
     DEF UpdateTooLarge, GoTo, kvVars, pollerVars
<1>11. ASSUME NEW p \in Pollers, Publish(p) PROVE HandTyped'
  BY <1>11
     DEF Publish, GoTo, kvVars, pollerVars
<1>12. ASSUME NEW p \in Pollers, PublishFails(p) PROVE HandTyped'
  BY <1>12
     DEF PublishFails, GoTo, Fault, kvVars, pollerVars
<1>13. ASSUME NEW p \in Pollers, Acknowledge(p) PROVE HandTyped'
  BY <1>13
     DEF Acknowledge, Forget, kvVars, pollerVars
<1>14. ASSUME NEW p \in Pollers, AcknowledgeFails(p) PROVE HandTyped'
  BY <1>14
     DEF AcknowledgeFails, LeaveInQueue, Forget, Fault, kvVars, pollerVars
<1>15. ASSUME NEW p \in Pollers, Crash(p) PROVE HandTyped'
  BY <1>15
     DEF Crash, Forget, Fault, kvVars, pollerVars
<1> QED
  BY <1>1, <1>2, <1>3, <1>4, <1>5, <1>6, <1>7, <1>8, <1>9, <1>10, <1>11, <1>12, <1>13,
         <1>14, <1>15
     DEF Next, PollerStep, vars, kvVars, pollerVars, GoTo, LeaveInQueue, Forget, TryAgain,
            Fault, LateUpdate, StoreRecord

(* What a poller is about to write.                                        *)
LEMMA DraftTypeKept ==
  ASSUME Shape, [Next]_vars
  PROVE  DraftTyped'
<1> USE NewRecordTyped, TypeParts DEF Shape, DraftTyped, EventInHand
<1>1. CASE UNCHANGED <<draft, draftRev, applied>>
  BY <1>1
<1>2. ASSUME NEW p \in Pollers, ReadRecord(p) PROVE DraftTyped'
  BY <1>2, UpdatedEffect
     DEF ReadRecord, StoreTyped, kvVars, pollerVars
<1>3. ASSUME NEW p \in Pollers, ReadFails(p) PROVE DraftTyped'
  BY <1>3
     DEF ReadFails, LeaveInQueue, Forget, Fault, kvVars, pollerVars
<1>4. ASSUME NEW p \in Pollers, UpdateConflicts(p) PROVE DraftTyped'
  <2>1. CASE attempt[p] = 0
    BY <1>4, <2>1 DEF UpdateConflicts, TryAgain
  <2>2. CASE attempt[p] = 1
    <3>1. LeaveInQueue(p)
      BY <1>4, <2>2 DEF UpdateConflicts, TryAgain
    <3> QED
      BY <3>1 DEF LeaveInQueue, Forget
  <2> QED
    BY <1>4, <2>1, <2>2 DEF UpdateConflicts, TryAgain
<1>5. ASSUME NEW p \in Pollers, UpdateUnanswered(p) PROVE DraftTyped'
  <2>1. CASE attempt[p] = 0
    BY <1>5, <2>1 DEF UpdateUnanswered, TryAgain
  <2>2. CASE attempt[p] = 1
    <3>1. LeaveInQueue(p)
      BY <1>5, <2>2 DEF UpdateUnanswered, TryAgain
    <3> QED
      BY <3>1 DEF LeaveInQueue, Forget
  <2> QED
    BY <1>5, <2>1, <2>2 DEF UpdateUnanswered, TryAgain
<1>6. ASSUME NEW p \in Pollers, Acknowledge(p) PROVE DraftTyped'
  BY <1>6
     DEF Acknowledge, Forget, kvVars, pollerVars
<1>7. ASSUME NEW p \in Pollers, AcknowledgeFails(p) PROVE DraftTyped'
  BY <1>7
     DEF AcknowledgeFails, LeaveInQueue, Forget, Fault, kvVars, pollerVars
<1>8. ASSUME NEW p \in Pollers, Crash(p) PROVE DraftTyped'
  BY <1>8
     DEF Crash, Forget, Fault, kvVars, pollerVars
<1> QED
  BY <1>1, <1>2, <1>3, <1>4, <1>5, <1>6, <1>7, <1>8
     DEF Next, PollerStep, vars, kvVars, pollerVars, GoTo, LeaveInQueue, Forget, TryAgain,
            Fault, Receive, Take, RecordAbsent, UpdateSucceeds, UpdateTooLarge, Publish,
            PublishFails, LateUpdate, StoreRecord

LEMMA TypeKept ==
  ASSUME Shape, [Next]_vars
  PROVE  TypeOK'
  BY StoreTypeKept, NoticesTypeKept, HandTypeKept, DraftTypeKept
     DEF TypeOK, StoreTyped, NoticesTyped, HandTyped, DraftTyped

OneUpdate ==
  \/ record' = record /\ revision' = revision
  \/ record' = record /\ revision' = revision + 1
  \/ revision' = revision + 1 /\ \E e \in Wanted : record' = Updated(record, e)

(* A record changes by one update, and then every other write fails.       *)
LEMMA RecordStep ==
  ASSUME Sound, [Next]_vars
  PROVE  OneUpdate
<1> USE DEF Sound, Shape, TypeOK, EventInHand, DraftsSound, LateSound, OneUpdate
<1>1. CASE UNCHANGED <<record, revision>>
  BY <1>1
<1>2. CASE StoreRecord
  BY <1>2
     DEF StoreRecord, kvVars, pollerVars
<1>3. ASSUME NEW p \in Pollers, UpdateSucceeds(p) PROVE OneUpdate
  BY <1>3
     DEF UpdateSucceeds, GoTo, Commit, Stale, kvVars, pollerVars
<1>4. ASSUME NEW w \in late, LateUpdate(w) PROVE OneUpdate
  BY <1>4
     DEF LateUpdate, Commit, kvVars, pollerVars
<1> HIDE DEF Sound, Shape, TypeOK, EventInHand, DraftsSound, LateSound, OneUpdate
<1> QED
  BY <1>1, <1>2, <1>3, <1>4
     DEF Next, PollerStep, vars, kvVars, pollerVars, GoTo, LeaveInQueue, Forget, TryAgain,
            Fault, Receive, Take, ReadRecord, RecordAbsent, ReadFails, UpdateConflicts,
            UpdateUnanswered, UpdateTooLarge, Publish, PublishFails, Acknowledge,
            AcknowledgeFails, Crash

LEMMA IdsKept ==
  ASSUME Sound, [Next]_vars
  PROVE  IdsOfKind'
<1>1. CASE record' = record
  BY <1>1 DEF Sound, IdsOfKind
<1>2. ASSUME NEW e \in Wanted, record' = Updated(record, e) PROVE IdsOfKind'
  <2>1. Effect(record, e, record')
    BY <1>2, UpdatedEffect DEF Sound, Shape, TypeOK
  <2> QED
    BY <2>1 DEF Effect, Sound, IdsOfKind
<1> QED
  BY <1>1, <1>2, RecordStep DEF OneUpdate

(* A draft is of the revision it was read at; a write by anyone else makes *)
(* it stale.                                                               *)
LEMMA DraftsKept ==
  ASSUME Sound, [Next]_vars
  PROVE  DraftsSound'
<1> USE DEF Sound, Shape, TypeOK, DraftsSound
<1>1. CASE UNCHANGED <<record, revision, pc, event, draft, draftRev, applied>>
  BY <1>1
<1>2. CASE StoreRecord
  BY <1>2
     DEF StoreRecord, kvVars, pollerVars
<1>3. ASSUME NEW p \in Pollers, NEW e \in Events, Take(p, e) PROVE DraftsSound'
  BY <1>3
     DEF Take, kvVars, pollerVars
<1>4. ASSUME NEW p \in Pollers, ReadRecord(p) PROVE DraftsSound'
  <2>1. revision' = revision /\ record' = record
    BY <1>4 DEF ReadRecord, kvVars
  <2>2. /\ draftRev'[p] = revision /\ event'[p] = event[p]
        /\ draft'[p] = Updated(record, event[p])
        /\ applied'[p] <=> ~ Replay(record, event[p])
    BY <1>4 DEF ReadRecord
  <2>3. \A q \in Pollers \ {p} :
          /\ pc'[q] = pc[q] /\ event'[q] = event[q] /\ draft'[q] = draft[q]
          /\ draftRev'[q] = draftRev[q] /\ applied'[q] = applied[q]
    BY <1>4 DEF ReadRecord
  <2> QED
    BY <2>1, <2>2, <2>3
<1>5. ASSUME NEW p \in Pollers, RecordAbsent(p) PROVE DraftsSound'
  BY <1>5
     DEF RecordAbsent, GoTo, kvVars, pollerVars
<1>6. ASSUME NEW p \in Pollers, ReadFails(p) PROVE DraftsSound'
  BY <1>6
     DEF ReadFails, LeaveInQueue, Forget, Fault, kvVars, pollerVars
<1>7. ASSUME NEW p \in Pollers, UpdateSucceeds(p) PROVE DraftsSound'
  BY <1>7
     DEF UpdateSucceeds, GoTo, Commit, Stale, kvVars, pollerVars
<1>8. ASSUME NEW p \in Pollers, UpdateConflicts(p) PROVE DraftsSound'
  BY <1>8
     DEF UpdateConflicts, TryAgain, LeaveInQueue, Forget, Stale, kvVars, pollerVars
<1>9. ASSUME NEW p \in Pollers, UpdateUnanswered(p) PROVE DraftsSound'
  BY <1>9
     DEF UpdateUnanswered, TryAgain, LeaveInQueue, Forget, Fault, kvVars, pollerVars
<1>10. ASSUME NEW p \in Pollers, UpdateTooLarge(p) PROVE DraftsSound'
  BY <1>10
     DEF UpdateTooLarge, GoTo, kvVars, pollerVars
<1>11. ASSUME NEW p \in Pollers, Publish(p) PROVE DraftsSound'
  BY <1>11
     DEF Publish, GoTo, kvVars, pollerVars
<1>12. ASSUME NEW p \in Pollers, PublishFails(p) PROVE DraftsSound'
  BY <1>12
     DEF PublishFails, GoTo, Fault, kvVars, pollerVars
<1>13. ASSUME NEW p \in Pollers, Acknowledge(p) PROVE DraftsSound'
  BY <1>13
     DEF Acknowledge, Forget, kvVars, pollerVars
<1>14. ASSUME NEW p \in Pollers, AcknowledgeFails(p) PROVE DraftsSound'
  BY <1>14
     DEF AcknowledgeFails, LeaveInQueue, Forget, Fault, kvVars, pollerVars
<1>15. ASSUME NEW p \in Pollers, Crash(p) PROVE DraftsSound'
  BY <1>15
     DEF Crash, Forget, Fault, kvVars, pollerVars
<1>16. ASSUME NEW w \in late, LateUpdate(w) PROVE DraftsSound'
  BY <1>16
     DEF LateUpdate, Commit, kvVars, pollerVars
<1> QED
  BY <1>1, <1>2, <1>3, <1>4, <1>5, <1>6, <1>7, <1>8, <1>9, <1>10, <1>11, <1>12, <1>13,
         <1>14, <1>15, <1>16
     DEF Next, PollerStep, vars, kvVars, pollerVars, GoTo, LeaveInQueue, Forget, TryAgain,
            Fault, Receive

(* A late write is a draft whose sender gave up.                           *)
LEMMA LateKept ==
  ASSUME Sound, [Next]_vars
  PROVE  LateSound'
<1> USE DEF Sound, Shape, TypeOK, EventInHand, DraftsSound, LateSound
<1>1. CASE UNCHANGED <<record, revision, late>>
  BY <1>1
<1>2. CASE StoreRecord
  BY <1>2
     DEF StoreRecord, kvVars, pollerVars
<1>3. ASSUME NEW p \in Pollers, UpdateSucceeds(p) PROVE LateSound'
  BY <1>3
     DEF UpdateSucceeds, GoTo, Commit, Stale, kvVars, pollerVars
<1>4. ASSUME NEW p \in Pollers, UpdateUnanswered(p) PROVE LateSound'
  BY <1>4
     DEF UpdateUnanswered, TryAgain, LeaveInQueue, Forget, Fault, kvVars, pollerVars
<1>5. ASSUME NEW w \in late, LateUpdate(w) PROVE LateSound'
  <2>1. CASE w.rev = revision
    BY <1>5, <2>1 DEF LateUpdate, Commit
  <2>2. CASE w.rev # revision
    BY <1>5, <2>2 DEF LateUpdate
  <2> QED
    BY <2>1, <2>2
<1> QED
  BY <1>1, <1>2, <1>3, <1>4, <1>5
     DEF Next, PollerStep, vars, kvVars, pollerVars, GoTo, LeaveInQueue, Forget, TryAgain,
            Fault, Receive, Take, ReadRecord, RecordAbsent, ReadFails, UpdateConflicts,
            UpdateTooLarge, Publish, PublishFails, Acknowledge, AcknowledgeFails, Crash

LEMMA SoundKept ==
  ASSUME Sound, [Next]_vars
  PROVE  Sound'
  BY TypeKept, HandKept, DraftsKept, LateKept, IdsKept DEF Sound, Shape

LEMMA SoundInit == Init => Sound
<1> SUFFICES ASSUME Init PROVE Sound
  OBVIOUS
<1>1. StoreTyped /\ HandTyped /\ DraftTyped
  BY EventsAssumption, NewRecordTyped DEF Init, StoreTyped, HandTyped, DraftTyped
<1>2. NoticesTyped
  BY DEF Init, NoticesTyped
<1>3. EventInHand /\ DraftsSound /\ LateSound /\ IdsOfKind
  BY DEF Init, EventInHand, DraftsSound, LateSound, IdsOfKind, NewRecord, Counted
<1> QED
  BY <1>1, <1>2, <1>3, TypeParts DEF Sound, Shape

-----------------------------------------------------------------------------
LEMMA RecordNumbers ==
  ASSUME NEW rec \in Record, NEW k \in Counted
  PROVE  rec.count[k] \in Nat /\ rec.last[k] \in Nat /\ rec.ids[k] \subseteq Events
<1>1. /\ rec.count \in [Counted -> Nat] /\ rec.last \in [Counted -> Events \cup {0}]
      /\ rec.ids \in [Counted -> SUBSET Events]
  BY DEF Record
<1>2. Events \cup {0} \subseteq Nat
  BY EventsAssumption
<1> QED
  BY <1>1, <1>2

(* What a record says only grows.                                          *)
LEMMA Growth ==
  ASSUME NEW rec \in Record, NEW e \in Wanted, NEW new \in Record, Effect(rec, e, new)
  PROVE  /\ \A k \in Counted :
              /\ rec.ids[k] \subseteq new.ids[k] /\ new.ids[k] \subseteq rec.ids[k] \cup {e}
              /\ rec.count[k] <= new.count[k]
              /\ rec.last[k] <= new.last[k]
         /\ \A f \in Flags : rec.at[f] # 0 => new.at[f] = rec.at[f]
<1>1. \A k \in Counted :
        /\ rec.count[k] \in Nat /\ new.count[k] \in Nat
        /\ rec.last[k] \in Nat /\ new.last[k] \in Nat
  BY RecordNumbers
<1>2. e \in Nat
  BY Kinds
<1> QED
  BY <1>1, <1>2 DEF Effect, Latest

(* The events that are in a list of the record or no longer need the       *)
(* queue.                                                                  *)
Handled(e) ==
  \/ e \in Events \ queue
  \/ \E p \in Pollers : pc[p] \in {"publish", "delete"} /\ event[p] = e

Covered(k) == record.ids[k] \cup {e \in OfKind(k) \ Skipped : Handled(e)}

CountsCover ==
  \A k \in Counted :
    /\ Cardinality(Covered(k)) <= record.count[k]
    /\ \A e \in Covered(k) : e <= record.last[k]

(* The next step, as to which events are handled.                          *)
HandledStep ==
  /\ early \subseteq early'
  /\ \/ record' = record /\ \A e \in Wanted \ (Unstorable \cup early') : Handled(e)' => Handled(e)
     \/ \E d \in Wanted :
          /\ record' = Updated(record, d)
          /\ \A e \in Wanted \ {d} : Handled(e)' => Handled(e)

(* An event becomes handled by an update of the record, or it is one of    *)
(* those that are skipped.                                                 *)
LEMMA HandledKept ==
  ASSUME Sound, [Next]_vars
  PROVE  HandledStep
<1> USE DEF Sound, Shape, TypeOK, EventInHand, DraftsSound, LateSound, HandledStep
<1>1. CASE UNCHANGED <<queue, early, record, pc, event>>
  BY <1>1 DEF Handled
<1>2. CASE StoreRecord
  BY <1>2 DEF StoreRecord, Handled, pollerVars
<1>3. ASSUME NEW p \in Pollers, Receive(p) PROVE HandledStep
  BY <1>3 DEF Receive, Handled, kvVars
<1>4. ASSUME NEW p \in Pollers, NEW e \in Events, Take(p, e) PROVE HandledStep
  <2>1. ASSUME NEW q \in Pollers, pc'[q] \in {"publish", "delete"}
        PROVE  event'[q] \in Junk \cup Unstorable \cup early' \/ Handled(event'[q])
    BY <1>4, <2>1 DEF Take, kvVars, Handled
  <2>2. \A d \in Events \ queue' : Handled(d)
    BY <1>4 DEF Take, kvVars, Handled
  <2> QED
    BY <1>4, <2>1, <2>2 DEF Take, kvVars, Handled, Wanted
<1>5. ASSUME NEW p \in Pollers, ReadRecord(p) PROVE HandledStep
  BY <1>5 DEF ReadRecord, Handled, kvVars
<1>6. ASSUME NEW p \in Pollers, RecordAbsent(p) PROVE HandledStep
  <2>1. ASSUME NEW q \in Pollers, pc'[q] \in {"publish", "delete"}
        PROVE  event'[q] \in Junk \cup Unstorable \cup early' \/ Handled(event'[q])
    BY <1>6, <2>1 DEF RecordAbsent, GoTo, kvVars, Handled
  <2>2. \A e \in Events \ queue' : Handled(e)
    BY <1>6 DEF RecordAbsent, GoTo, kvVars, Handled
  <2> QED
    BY <1>6, <2>1, <2>2 DEF RecordAbsent, GoTo, kvVars, Handled, Wanted
<1>7. ASSUME NEW p \in Pollers, ReadFails(p) PROVE HandledStep
  <2>1. ASSUME NEW q \in Pollers, pc'[q] \in {"publish", "delete"}
        PROVE  event'[q] \in Junk \cup Unstorable \cup early' \/ Handled(event'[q])
    BY <1>7, <2>1 DEF ReadFails, LeaveInQueue, Forget, Fault, kvVars, Handled
  <2>2. \A e \in Events \ queue' : Handled(e)
    BY <1>7 DEF ReadFails, LeaveInQueue, Forget, Fault, kvVars, Handled
  <2> QED
    BY <1>7, <2>1, <2>2 DEF ReadFails, LeaveInQueue, Forget, Fault, kvVars, Handled, Wanted
<1>8. ASSUME NEW p \in Pollers, UpdateSucceeds(p) PROVE HandledStep
  <2>1. event[p] \in Wanted /\ record' = Updated(record, event[p])
    BY <1>8 DEF UpdateSucceeds, Stale, Commit
  <2>2. ASSUME NEW q \in Pollers \ {p}, pc'[q] \in {"publish", "delete"} PROVE Handled(event'[q])
    BY <1>8, <2>2 DEF UpdateSucceeds, GoTo, Handled
  <2>3. early' = early /\ queue' = queue /\ event'[p] = event[p]
    BY <1>8 DEF UpdateSucceeds, GoTo
  <2>4. \A e \in Wanted \ {event[p]} : Handled(e)' => Handled(e)
    BY <2>2, <2>3 DEF Handled
  <2> QED
    BY <2>1, <2>3, <2>4
<1>9. ASSUME NEW p \in Pollers, UpdateConflicts(p) PROVE HandledStep
  <2>1. ASSUME NEW q \in Pollers, pc'[q] \in {"publish", "delete"}
        PROVE  event'[q] \in Junk \cup Unstorable \cup early' \/ Handled(event'[q])
    BY <1>9, <2>1 DEF UpdateConflicts, TryAgain, LeaveInQueue, Forget, Stale, kvVars, Handled
  <2>2. \A e \in Events \ queue' : Handled(e)
    BY <1>9 DEF UpdateConflicts, TryAgain, LeaveInQueue, Forget, Stale, kvVars, Handled
  <2> QED
    BY <1>9, <2>1, <2>2
       DEF UpdateConflicts, TryAgain, LeaveInQueue, Forget, Stale, kvVars, Handled, Wanted
<1>10. ASSUME NEW p \in Pollers, UpdateUnanswered(p) PROVE HandledStep
  <2>1. ASSUME NEW q \in Pollers, pc'[q] \in {"publish", "delete"}
        PROVE  event'[q] \in Junk \cup Unstorable \cup early' \/ Handled(event'[q])
    BY <1>10, <2>1 DEF UpdateUnanswered, TryAgain, LeaveInQueue, Forget, Fault, kvVars, Handled
  <2>2. \A e \in Events \ queue' : Handled(e)
    BY <1>10 DEF UpdateUnanswered, TryAgain, LeaveInQueue, Forget, Fault, kvVars, Handled
  <2> QED
    BY <1>10, <2>1, <2>2
       DEF UpdateUnanswered, TryAgain, LeaveInQueue, Forget, Fault, kvVars, Handled, Wanted
<1>11. ASSUME NEW p \in Pollers, UpdateTooLarge(p) PROVE HandledStep
  <2>1. ASSUME NEW q \in Pollers, pc'[q] \in {"publish", "delete"}
        PROVE  event'[q] \in Junk \cup Unstorable \cup early' \/ Handled(event'[q])
    BY <1>11, <2>1 DEF UpdateTooLarge, GoTo, kvVars, Handled
  <2>2. \A e \in Events \ queue' : Handled(e)
    BY <1>11 DEF UpdateTooLarge, GoTo, kvVars, Handled
  <2> QED
    BY <1>11, <2>1, <2>2 DEF UpdateTooLarge, GoTo, kvVars, Handled, Wanted
<1>12. ASSUME NEW p \in Pollers, Publish(p) PROVE HandledStep
  <2>1. ASSUME NEW q \in Pollers, pc'[q] \in {"publish", "delete"}
        PROVE  event'[q] \in Junk \cup Unstorable \cup early' \/ Handled(event'[q])
    BY <1>12, <2>1 DEF Publish, GoTo, kvVars, Handled
  <2>2. \A e \in Events \ queue' : Handled(e)
    BY <1>12 DEF Publish, GoTo, kvVars, Handled
  <2> QED
    BY <1>12, <2>1, <2>2 DEF Publish, GoTo, kvVars, Handled, Wanted
<1>13. ASSUME NEW p \in Pollers, PublishFails(p) PROVE HandledStep
  <2>1. ASSUME NEW q \in Pollers, pc'[q] \in {"publish", "delete"}
        PROVE  event'[q] \in Junk \cup Unstorable \cup early' \/ Handled(event'[q])
    BY <1>13, <2>1 DEF PublishFails, GoTo, Fault, kvVars, Handled
  <2>2. \A e \in Events \ queue' : Handled(e)
    BY <1>13 DEF PublishFails, GoTo, Fault, kvVars, Handled
  <2> QED
    BY <1>13, <2>1, <2>2 DEF PublishFails, GoTo, Fault, kvVars, Handled, Wanted
<1>14. ASSUME NEW p \in Pollers, Acknowledge(p) PROVE HandledStep
  <2>1. ASSUME NEW q \in Pollers, pc'[q] \in {"publish", "delete"}
        PROVE  event'[q] \in Junk \cup Unstorable \cup early' \/ Handled(event'[q])
    BY <1>14, <2>1 DEF Acknowledge, Forget, kvVars, Handled
  <2>2. \A e \in Events \ queue' : Handled(e)
    BY <1>14 DEF Acknowledge, Forget, kvVars, Handled
  <2> QED
    BY <1>14, <2>1, <2>2 DEF Acknowledge, Forget, kvVars, Handled, Wanted
<1>15. ASSUME NEW p \in Pollers, AcknowledgeFails(p) PROVE HandledStep
  <2>1. ASSUME NEW q \in Pollers, pc'[q] \in {"publish", "delete"}
        PROVE  event'[q] \in Junk \cup Unstorable \cup early' \/ Handled(event'[q])
    BY <1>15, <2>1 DEF AcknowledgeFails, LeaveInQueue, Forget, Fault, kvVars, Handled
  <2>2. \A e \in Events \ queue' : Handled(e)
    BY <1>15 DEF AcknowledgeFails, LeaveInQueue, Forget, Fault, kvVars, Handled
  <2> QED
    BY <1>15, <2>1, <2>2
       DEF AcknowledgeFails, LeaveInQueue, Forget, Fault, kvVars, Handled, Wanted
<1>16. ASSUME NEW p \in Pollers, Crash(p) PROVE HandledStep
  <2>1. ASSUME NEW q \in Pollers, pc'[q] \in {"publish", "delete"}
        PROVE  event'[q] \in Junk \cup Unstorable \cup early' \/ Handled(event'[q])
    BY <1>16, <2>1 DEF Crash, Forget, Fault, kvVars, Handled
  <2>2. \A e \in Events \ queue' : Handled(e)
    BY <1>16 DEF Crash, Forget, Fault, kvVars, Handled
  <2> QED
    BY <1>16, <2>1, <2>2 DEF Crash, Forget, Fault, kvVars, Handled, Wanted
<1>17. ASSUME NEW w \in late, LateUpdate(w) PROVE HandledStep
  <2>1. \A e \in Events : Handled(e)' => Handled(e)
    BY <1>17 DEF LateUpdate, Handled, pollerVars
  <2>2. CASE w.rev = revision
    BY <1>17, <2>1, <2>2 DEF LateUpdate, Commit, Wanted
  <2>3. CASE w.rev # revision
    BY <1>17, <2>1, <2>3 DEF LateUpdate, Wanted
  <2> QED
    BY <2>2, <2>3
<1> QED
  BY <1>1, <1>2, <1>3, <1>4, <1>5, <1>6, <1>7, <1>8, <1>9, <1>10, <1>11, <1>12, <1>13,
         <1>14, <1>15, <1>16, <1>17
     DEF Next, PollerStep, vars, kvVars, pollerVars, GoTo, LeaveInQueue, Forget, TryAgain,
            Fault

LEMMA CoverKept ==
  ASSUME Sound, CountsCover, [Next]_vars
  PROVE  CountsCover'
<1> SUFFICES ASSUME NEW k \in Counted
             PROVE  (/\ Cardinality(Covered(k)) <= record.count[k]
                     /\ \A e \in Covered(k) : e <= record.last[k])'
  BY DEF CountsCover
<1>0. record \in Record /\ record' \in Record
  BY TypeKept DEF Sound, Shape, TypeOK
<1>1. /\ Covered(k) \subseteq Events /\ Covered(k) \subseteq OfKind(k) /\ record.ids[k] \subseteq Covered(k)
      /\ record.count[k] \in Nat /\ record.last[k] \in Nat
      /\ record \in Record /\ record' \in Record
  BY <1>0, KindsDisjoint, RecordNumbers DEF Covered, Wanted, Sound, IdsOfKind
<1>2. Cardinality(Covered(k)) \in Nat
  BY <1>1, FS_CardinalityType, FS_Subset, EventsAssumption
<1>3. Cardinality(Covered(k)) <= record.count[k] /\ \A e \in Covered(k) : e <= record.last[k]
  BY DEF CountsCover
<1>4. early \subseteq early'
  BY HandledKept DEF HandledStep
<1>5. CASE record' = record /\ \A e \in Wanted \ (Unstorable \cup early') : Handled(e)' => Handled(e)
  <2>1. Covered(k)' \subseteq Covered(k)
    BY <1>4, <1>5, KindsDisjoint DEF Covered, Skipped
  <2>2. Cardinality(Covered(k)') <= Cardinality(Covered(k))
    BY <1>1, <2>1, FewerThan
  <2>3. Cardinality(Covered(k)') \in Nat
    BY <1>1, <2>1, FS_CardinalityType, FS_Subset, EventsAssumption
  <2> QED
    BY <1>1, <1>2, <1>3, <1>5, <2>1, <2>2, <2>3
<1>6. ASSUME NEW d \in Wanted, record' = Updated(record, d),
             \A e \in Wanted \ {d} : Handled(e)' => Handled(e)
      PROVE  (/\ Cardinality(Covered(k)) <= record.count[k]
              /\ \A e \in Covered(k) : e <= record.last[k])'
  <2>1. Effect(record, d, record')
    BY <1>1, <1>6, UpdatedEffect
  <2>2. d \in Events /\ d \in Nat
    BY Kinds DEF Wanted
  <2>3. Covered(k)' \subseteq Covered(k) \cup ({d} \cap OfKind(k))
    BY <1>1, <1>4, <1>6, <2>1, KindsDisjoint, Growth DEF Covered, Skipped, Effect
  <2>4. CASE d \in OfKind(k) \ record.ids[k]
    <3>1. Covered(k)' \subseteq Covered(k) \cup {d} /\ Covered(k) \cup {d} \in SUBSET Events
      BY <1>1, <2>2, <2>3
    <3>2. Cardinality(Covered(k)') <= Cardinality(Covered(k) \cup {d})
      BY <3>1, FewerThan
    <3>3. Cardinality(Covered(k) \cup {d}) <= Cardinality(Covered(k)) + 1
      BY <1>1, <2>2, Counting
    <3>4. Cardinality(Covered(k)') \in Nat /\ Cardinality(Covered(k) \cup {d}) \in Nat
      BY <3>1, FS_CardinalityType, FS_Subset, EventsAssumption
    <3>5. record'.count[k] = record.count[k] + 1 /\ record'.last[k] = Latest(record.last[k], d)
      BY <2>1, <2>4 DEF Effect
    <3>6. \A e \in Covered(k)' : e <= record'.last[k]
      <4> SUFFICES ASSUME NEW e \in Covered(k)' PROVE e <= record'.last[k]
        OBVIOUS
      <4>1. e \in Nat
        BY <3>1, EventsAssumption
      <4> QED
        BY <1>1, <1>3, <2>2, <3>1, <3>5, <4>1 DEF Latest
    <3> QED
      BY <1>1, <1>2, <1>3, <3>2, <3>3, <3>4, <3>5, <3>6
  <2>5. CASE d \notin OfKind(k) \ record.ids[k]
    <3>1. Covered(k)' \subseteq Covered(k)
      BY <1>1, <2>3, <2>5
    <3>2. Cardinality(Covered(k)') <= Cardinality(Covered(k))
      BY <1>1, <3>1, FewerThan
    <3>3. Cardinality(Covered(k)') \in Nat
      BY <1>1, <3>1, FS_CardinalityType, FS_Subset, EventsAssumption
    <3>4. record'.count[k] = record.count[k] /\ record'.last[k] = record.last[k]
      BY <2>1, <2>5 DEF Effect
    <3> QED
      BY <1>1, <1>2, <1>3, <3>1, <3>2, <3>3, <3>4
  <2> QED
    BY <2>4, <2>5
<1> QED
  BY <1>5, <1>6, HandledKept DEF HandledStep

LEMMA CoverInit == Init => CountsCover
<1> SUFFICES ASSUME Init, NEW k \in Counted
             PROVE  Cardinality(Covered(k)) <= record.count[k] /\ \A e \in Covered(k) : e <= record.last[k]
  BY DEF CountsCover
<1>1. Covered(k) = {}
  BY DEF Init, Covered, Handled, NewRecord
<1> QED
  BY <1>1, FS_EmptySet DEF Init, NewRecord

(* A notice still to be published, for an open or a click.                 *)
Pending(p, k) == pc[p] = "publish" /\ event[p] \in OfKind(k)

(* Counts that went out or are about to were in the record, and no two are *)
(* the same.                                                               *)
NoticesKnown ==
  \A k \in Counted :
    /\ \A e \in OfKind(k) : \A i \in DOMAIN notices[e] : notices[e][i] <= record.count[k]
    /\ \A p \in Pollers : Pending(p, k) => draft[p].count[k] <= record.count[k]

PendingNew ==
  \A k \in Counted, p \in Pollers : Pending(p, k) =>
    /\ \A e \in OfKind(k) : \A i \in DOMAIN notices[e] : notices[e][i] # draft[p].count[k]
    /\ \A q \in Pollers \ {p} : Pending(q, k) => draft[q].count[k] # draft[p].count[k]

NoticesFresh == NoticesKnown /\ PendingNew /\ NoticesDistinct

(* No step of its own makes a notice pending but an update that succeeds.  *)
NoNewNotice ==
  /\ notices' = notices
  /\ \A p \in Pollers :
       pc'[p] = "publish" => pc[p] = "publish" /\ event'[p] = event[p] /\ draft'[p] = draft[p]

NoticeChange == NoNewNotice \/ \E q \in Pollers : UpdateSucceeds(q) \/ Publish(q)

(* Notices are published by Publish, and claimed by UpdateSucceeds.        *)
LEMMA NoticeStep ==
  ASSUME Sound, [Next]_vars
  PROVE  NoticeChange
<1> USE DEF Sound, Shape, TypeOK, NoNewNotice, NoticeChange
<1>1. CASE UNCHANGED <<notices, pc, event, draft>>
  BY <1>1
<1>2. CASE StoreRecord
  BY <1>2 DEF StoreRecord, kvVars, pollerVars
<1>3. ASSUME NEW p \in Pollers, Receive(p) PROVE NoticeChange
  BY <1>3 DEF Receive, kvVars, pollerVars
<1>4. ASSUME NEW p \in Pollers, NEW e \in Events, Take(p, e) PROVE NoticeChange
  BY <1>4 DEF Take, kvVars, pollerVars
<1>5. ASSUME NEW p \in Pollers, ReadRecord(p) PROVE NoticeChange
  BY <1>5 DEF ReadRecord, kvVars, pollerVars
<1>6. ASSUME NEW p \in Pollers, RecordAbsent(p) PROVE NoticeChange
  BY <1>6 DEF RecordAbsent, GoTo, kvVars, pollerVars
<1>7. ASSUME NEW p \in Pollers, ReadFails(p) PROVE NoticeChange
  BY <1>7 DEF ReadFails, LeaveInQueue, Forget, Fault, kvVars, pollerVars
<1>8. ASSUME NEW p \in Pollers, UpdateConflicts(p) PROVE NoticeChange
  BY <1>8 DEF UpdateConflicts, TryAgain, LeaveInQueue, Forget, Stale, kvVars, pollerVars
<1>9. ASSUME NEW p \in Pollers, UpdateUnanswered(p) PROVE NoticeChange
  BY <1>9 DEF UpdateUnanswered, TryAgain, LeaveInQueue, Forget, Fault, kvVars, pollerVars
<1>10. ASSUME NEW p \in Pollers, UpdateTooLarge(p) PROVE NoticeChange
  BY <1>10 DEF UpdateTooLarge, GoTo, kvVars, pollerVars
<1>11. ASSUME NEW p \in Pollers, PublishFails(p) PROVE NoticeChange
  BY <1>11 DEF PublishFails, GoTo, Fault, kvVars, pollerVars
<1>12. ASSUME NEW p \in Pollers, Acknowledge(p) PROVE NoticeChange
  BY <1>12 DEF Acknowledge, Forget, kvVars, pollerVars
<1>13. ASSUME NEW p \in Pollers, AcknowledgeFails(p) PROVE NoticeChange
  BY <1>13 DEF AcknowledgeFails, LeaveInQueue, Forget, Fault, kvVars, pollerVars
<1>14. ASSUME NEW p \in Pollers, Crash(p) PROVE NoticeChange
  BY <1>14 DEF Crash, Forget, Fault, kvVars, pollerVars
<1>15. ASSUME NEW w \in late, LateUpdate(w) PROVE NoticeChange
  BY <1>15 DEF LateUpdate, Commit, kvVars, pollerVars
<1>16. ASSUME NEW p \in Pollers, UpdateSucceeds(p) PROVE NoticeChange
  BY <1>16
<1>17. ASSUME NEW p \in Pollers, Publish(p) PROVE NoticeChange
  BY <1>17
<1> QED
  BY <1>1, <1>2, <1>3, <1>4, <1>5, <1>6, <1>7, <1>8, <1>9, <1>10, <1>11, <1>12, <1>13,
         <1>14, <1>15, <1>16, <1>17
     DEF Next, PollerStep, vars, kvVars, pollerVars, GoTo, LeaveInQueue, Forget, TryAgain,
            Fault

LEMMA CountsGrow ==
  ASSUME Sound, [Next]_vars
  PROVE  \A k \in Counted :
           /\ record.count[k] \in Nat /\ record.count'[k] \in Nat
           /\ record.count[k] <= record.count'[k]
<1>0. record \in Record /\ record' \in Record
  BY TypeKept DEF Sound, Shape, TypeOK
<1>1. CASE record' = record
  BY <1>0, <1>1, RecordNumbers
<1>2. ASSUME NEW e \in Wanted, record' = Updated(record, e)
      PROVE  \A k \in Counted : record.count[k] <= record.count'[k]
  <2>1. Effect(record, e, record')
    BY <1>0, <1>2, UpdatedEffect
  <2> QED
    BY <1>0, <2>1, Growth
<1>3. \A k \in Counted : record.count[k] <= record.count'[k]
  BY <1>0, <1>1, <1>2, RecordStep, RecordNumbers DEF OneUpdate
<1> QED
  BY <1>0, <1>3, RecordNumbers

LEMMA QuietKeeps ==
  ASSUME Sound, NoticesFresh, [Next]_vars, NoNewNotice
  PROVE  NoticesFresh'
<1>1. \A p \in Pollers, k \in Counted : Pending(p, k)' => Pending(p, k) /\ draft'[p] = draft[p]
  BY DEF NoNewNotice, Pending
<1>2. \A k \in Counted : \A e \in OfKind(k) : notices[e] \in Seq(Nat)
  BY KindsDisjoint DEF Sound, Shape, TypeOK, Wanted
<1>3. \A k \in Counted : \A e \in OfKind(k) : \A i \in DOMAIN notices[e] : notices[e][i] \in Nat
  BY <1>2
<1>4. \A p \in Pollers, k \in Counted : draft[p].count[k] \in Nat
  BY RecordNumbers DEF Sound, Shape, TypeOK
<1>5. NoticesKnown'
  BY <1>1, <1>3, <1>4, CountsGrow DEF NoNewNotice, NoticesFresh, NoticesKnown
<1>6. PendingNew'
  BY <1>1 DEF NoNewNotice, NoticesFresh, PendingNew
<1>7. NoticesDistinct'
  BY DEF NoNewNotice, NoticesFresh, NoticesDistinct
<1> QED
  BY <1>5, <1>6, <1>7 DEF NoticesFresh

(* An update that counts takes the next number.                            *)
LEMMA ClaimKeeps ==
  ASSUME Sound, NoticesFresh, [Next]_vars, NEW p \in Pollers, UpdateSucceeds(p)
  PROVE  NoticesFresh'
<1>1. /\ notices' = notices /\ event' = event /\ draft' = draft
      /\ \A q \in Pollers \ {p} : pc'[q] = pc[q]
      /\ pc'[p] = "publish" => applied[p]
      /\ pc[p] = "update" /\ record' = draft[p] /\ draftRev[p] = revision
  BY DEF UpdateSucceeds, Stale, Commit, GoTo, Sound, Shape, TypeOK
<1>2. event[p] \in Wanted /\ record \in Record /\ record' \in Record
  BY <1>1, TypeKept DEF Sound, Shape, TypeOK, EventInHand
<1>3. Effect(record, event[p], record')
  BY <1>1, <1>2, UpdatedEffect DEF Sound, DraftsSound
<1>4. \A k \in Counted, q \in Pollers : Pending(q, k)' /\ q # p => Pending(q, k)
  BY <1>1 DEF Pending
<1>5. ASSUME NEW k \in Counted, Pending(p, k)'
      PROVE  draft[p].count[k] = record'.count[k] /\ record'.count[k] = record.count[k] + 1
  <2>1. event[p] \in OfKind(k) /\ ~ Replay(record, event[p])
    BY <1>1, <1>5 DEF Pending, Sound, DraftsSound
  <2>2. event[p] \notin record.ids[k]
    BY <1>2, <2>1, Kinds DEF Replay
  <2> QED
    BY <1>1, <1>3, <2>1, <2>2 DEF Effect
<1>6. \A k \in Counted : \A e \in OfKind(k) : notices[e] \in Seq(Nat)
  BY KindsDisjoint DEF Sound, Shape, TypeOK, Wanted
<1>7. \A k \in Counted : \A e \in OfKind(k) : \A i \in DOMAIN notices[e] : notices[e][i] \in Nat
  BY <1>6
<1>8. \A q \in Pollers, k \in Counted : draft[q].count[k] \in Nat
  BY RecordNumbers DEF Sound, Shape, TypeOK
<1>9. NoticesKnown'
  BY <1>1, <1>4, <1>5, <1>7, <1>8, CountsGrow DEF NoticesFresh, NoticesKnown
<1>10. PendingNew'
  <2> SUFFICES ASSUME NEW k \in Counted, NEW q \in Pollers, Pending(q, k)'
               PROVE  /\ \A e \in OfKind(k) : \A i \in DOMAIN notices[e] : notices[e][i] # draft[q].count[k]
                      /\ \A r \in Pollers \ {q} : Pending(r, k)' => draft[r].count[k] # draft[q].count[k]
    BY <1>1 DEF PendingNew
  <2>0. record.count[k] \in Nat
    BY <1>2, RecordNumbers
  <2>1. CASE q = p
    BY <1>4, <1>5, <1>7, <1>8, <2>0, <2>1 DEF NoticesFresh, NoticesKnown
  <2>2. CASE q # p
    BY <1>4, <1>5, <1>7, <1>8, <2>0, <2>2 DEF NoticesFresh, NoticesKnown, PendingNew
  <2> QED
    BY <2>1, <2>2
<1>11. NoticesDistinct'
  BY <1>1 DEF NoticesFresh, NoticesDistinct
<1> QED
  BY <1>9, <1>10, <1>11 DEF NoticesFresh

LEMMA PublishKeeps ==
  ASSUME Sound, NoticesFresh, [Next]_vars, NEW p \in Pollers, Publish(p)
  PROVE  NoticesFresh'
<1>1. /\ notices' = [notices EXCEPT ![event[p]] = Append(@, NoticeCount(p))]
      /\ event' = event /\ draft' = draft /\ record' = record
      /\ pc[p] = "publish" /\ pc'[p] = "delete"
      /\ \A q \in Pollers \ {p} : pc'[q] = pc[q]
  BY DEF Publish, GoTo, kvVars, Sound, Shape, TypeOK
<1>2. event[p] \in Wanted /\ event[p] \in Events /\ notices \in [Events -> Seq(Nat)]
  BY <1>1 DEF Sound, Shape, TypeOK, EventInHand, Wanted
<1>3. \A k \in Counted, q \in Pollers : Pending(q, k)' => Pending(q, k) /\ q # p
  BY <1>1 DEF Pending
<1>4. \A k \in Counted : event[p] \in OfKind(k) => Pending(p, k) /\ NoticeCount(p) = draft[p].count[k]
  BY <1>1, <1>2, Kinds DEF Pending, NoticeCount
<1>5. \A k \in Counted : \A e \in OfKind(k) : notices[e] \in Seq(Nat)
  BY <1>2, KindsDisjoint DEF Wanted
<1>6. \A e \in Events \ {event[p]} : notices'[e] = notices[e]
  BY <1>1, <1>2
<1>7. /\ DOMAIN notices'[event[p]] = DOMAIN notices[event[p]] \cup {Len(notices[event[p]]) + 1}
      /\ \A i \in DOMAIN notices[event[p]] : notices'[event[p]][i] = notices[event[p]][i]
      /\ notices'[event[p]][Len(notices[event[p]]) + 1] = NoticeCount(p)
  <2>1. notices[event[p]] \in Seq(Nat) /\ notices'[event[p]] = Append(notices[event[p]], NoticeCount(p))
    BY <1>1, <1>2
  <2> QED
    BY <2>1
(* What is out after the step was out or pending before it.                *)
<1>8. \A k \in Counted : \A e \in OfKind(k) : \A i \in DOMAIN notices'[e] :
        \/ i \in DOMAIN notices[e] /\ notices'[e][i] = notices[e][i]
        \/ /\ e = event[p] /\ i = Len(notices[event[p]]) + 1
           /\ notices'[e][i] = draft[p].count[k] /\ Pending(p, k)
  BY <1>4, <1>6, <1>7, KindsDisjoint DEF Wanted
<1>9. NoticesKnown'
  BY <1>1, <1>3, <1>8 DEF NoticesFresh, NoticesKnown
<1>10. PendingNew'
  BY <1>1, <1>3, <1>8 DEF NoticesFresh, PendingNew
<1>11. NoticesDistinct'
  <2> SUFFICES ASSUME NEW k \in Counted, NEW e1 \in OfKind(k), NEW e2 \in OfKind(k),
                      NEW i \in DOMAIN notices'[e1], NEW j \in DOMAIN notices'[e2],
                      notices'[e1][i] = notices'[e2][j]
               PROVE  e1 = e2 /\ i = j
    BY DEF NoticesDistinct
  <2>0. e1 \in Events /\ e2 \in Events
    BY KindsDisjoint DEF Wanted
  <2>1. CASE i \in DOMAIN notices[e1] /\ j \in DOMAIN notices[e2] /\ notices[e1][i] = notices[e2][j]
    BY <2>0, <2>1 DEF NoticesFresh, NoticesDistinct
  <2> QED
    BY <1>8, <2>1 DEF NoticesFresh, PendingNew
<1> QED
  BY <1>9, <1>10, <1>11 DEF NoticesFresh

LEMMA FreshKept ==
  ASSUME Sound, NoticesFresh, [Next]_vars
  PROVE  NoticesFresh'
  BY NoticeStep, QuietKeeps, ClaimKeeps, PublishKeeps DEF NoticeChange

LEMMA FreshInit == Init => NoticesFresh
  BY KindsDisjoint
     DEF Init, Wanted, NoticesFresh, NoticesKnown, PendingNew, NoticesDistinct, Pending

IInv == Sound /\ CountsCover /\ NoticesFresh

LEMMA Inductive == IInv /\ [Next]_vars => IInv'
  BY SoundKept, CoverKept, FreshKept DEF IInv

LEMMA Safe == Spec => []IInv
<1>1. Init => IInv
  BY SoundInit, CoverInit, FreshInit DEF IInv
<1> QED
  BY <1>1, Inductive, PTL DEF Spec

(* Every reachable state is well-typed: a poller updates only what it read *)
(* (ReadRecord, UpdateSucceeds), for any pollers, events and faults.       *)
THEOREM TypeCorrect == Spec => []TypeOK
<1>1. IInv => TypeOK
  BY DEF IInv, Sound, Shape
<1> QED
  BY <1>1, Safe, PTL

(* No update takes back what another one recorded, whatever answers are    *)
(* lost and however late a write is applied.                               *)
THEOREM NothingForgottenHolds == Spec => NothingForgotten
<1> DEFINE Keeps(old, new) ==
      /\ \A k \in Counted :
           /\ old.ids[k] \subseteq new.ids[k]
           /\ old.count[k] <= new.count[k]
           /\ old.last[k] <= new.last[k]
      /\ \A f \in Flags : old.at[f] # 0 => new.at[f] = old.at[f]
<1>1. ASSUME Sound, [Next]_vars PROVE Keeps(record, record')
  <2>0. record \in Record /\ record' \in Record
    BY <1>1, TypeKept DEF Sound, Shape, TypeOK
  <2>1. CASE record' = record
    BY <2>0, <2>1, RecordNumbers
  <2>2. ASSUME NEW e \in Wanted, record' = Updated(record, e) PROVE Keeps(record, record')
    <3>1. Effect(record, e, record')
      BY <2>0, <2>2, UpdatedEffect
    <3> QED
      BY <2>0, <3>1, Growth
  <2> QED
    BY <1>1, <2>1, <2>2, RecordStep DEF OneUpdate
<1>2. IInv /\ [Next]_vars => [Keeps(record, record')]_vars
  BY <1>1 DEF IInv
<1> QED
  BY <1>2, Safe, PTL DEF Spec, NothingForgotten

(* While the record is absent nobody has an update of it to write.         *)
NothingToUpdate ==
  revision = 0 => late = {} /\ \A p \in Pollers : pc[p] # "update"

LEMMA NothingToUpdateKept ==
  ASSUME Sound, NothingToUpdate, [Next]_vars
  PROVE  NothingToUpdate'
<1> SUFFICES ASSUME revision' = 0
             PROVE  late' = {} /\ \A p \in Pollers : pc'[p] # "update"
  BY DEF NothingToUpdate
<1>t. revision \in Nat /\ pc \in [Pollers -> {"poll", "get", "update", "publish", "delete"}]
  BY DEF Sound, Shape, TypeOK
<1>r. revision = 0 /\ UNCHANGED <<record, revision>>
  BY <1>t, RecordStep DEF OneUpdate
<1>0. late = {} /\ \A p \in Pollers : pc[p] # "update"
  BY <1>r DEF NothingToUpdate
<1> HIDE DEF NothingToUpdate
<1>1. ASSUME NEW p \in Pollers, PollerStep(p) \/ Receive(p) \/ Crash(p)
      PROVE  late' = late /\ \E s : s # "update" /\ pc' \in {pc, [pc EXCEPT ![p] = s]}
  <2>1. ~ ReadRecord(p) /\ ~ UpdateSucceeds(p) /\ ~ UpdateConflicts(p) /\ ~ UpdateUnanswered(p)
        /\ ~ UpdateTooLarge(p)
    BY <1>0, <1>r DEF ReadRecord, UpdateSucceeds, UpdateConflicts, UpdateUnanswered, UpdateTooLarge
  <2>2. ASSUME NEW e \in Events, Take(p, e)
        PROVE  late' = late /\ \E s : s # "update" /\ pc' \in {pc, [pc EXCEPT ![p] = s]}
    BY <2>2 DEF Take, kvVars
  <2> QED
    BY <1>1, <2>1, <2>2
       DEF PollerStep, kvVars, GoTo, LeaveInQueue, Forget, Fault, Receive, RecordAbsent, ReadFails,
           Publish, PublishFails, Acknowledge, AcknowledgeFails, Crash
<1>2. CASE \E p \in Pollers : PollerStep(p) \/ Receive(p) \/ Crash(p)
  BY <1>0, <1>1, <1>2, <1>t
<1>3. CASE StoreRecord \/ UNCHANGED vars
  BY <1>0, <1>3 DEF StoreRecord, kvVars, pollerVars, vars
<1> QED
  BY <1>0, <1>2, <1>3 DEF Next

(* Opens and clicks are counted one at a time, and only in a stored        *)
(* record, whatever the pollers do at once and however late a write is     *)
(* applied: the group readers (GroupReads!CountOpen) count on it.          *)
THEOREM CountedOneByOne ==
  Spec => [][\/ record'.count = record.count
             \/ /\ revision # 0
                /\ \E k \in Counted : record'.count = [record.count EXCEPT ![k] = @ + 1]]_vars
<1> DEFINE One == \/ record'.count = record.count
                  \/ /\ revision # 0
                     /\ \E k \in Counted : record'.count = [record.count EXCEPT ![k] = @ + 1]
<1>1. ASSUME Sound, NothingToUpdate, [Next]_vars PROVE One
  <2>0. record \in Record /\ record' \in Record
    BY <1>1, TypeKept DEF Sound, Shape, TypeOK
  <2>1. CASE record' = record
    BY <2>1
  <2>2. CASE revision # 0 /\ \E e \in Wanted : record' = Updated(record, e)
    <3>1. PICK e \in Wanted : record' = Updated(record, e)
      BY <2>2
    <3>2. CASE Replay(record, e)
      BY <3>1, <3>2 DEF Updated
    <3>3. CASE ~ Replay(record, e) /\ IsCounted(e)
      <4>1. KindOf(e) \in Counted /\ record'.count = [record.count EXCEPT ![KindOf(e)] = @ + 1]
        BY <2>0, <3>1, <3>3 DEF Updated, Count, Record, KindOf, Counted
      <4> QED
        BY <2>2, <4>1
    <3>4. CASE ~ Replay(record, e) /\ ~ IsCounted(e)
      BY <2>0, <3>1, <3>4 DEF Updated, SetFlag, Record
    <3> QED
      BY <3>2, <3>3, <3>4
  <2>3. revision = 0 => record' = record
    <3> SUFFICES ASSUME revision = 0 PROVE record' = record
      OBVIOUS
    <3>1. late = {} /\ \A p \in Pollers : pc[p] # "update"
      BY <1>1 DEF NothingToUpdate
    <3> QED
      BY <1>1, <3>1
         DEF Next, PollerStep, vars, kvVars, GoTo, LeaveInQueue, Forget, Fault, Receive, Take,
             ReadRecord, RecordAbsent, ReadFails, UpdateSucceeds, UpdateConflicts,
             UpdateUnanswered, UpdateTooLarge, Publish, PublishFails, Acknowledge,
             AcknowledgeFails, Crash, StoreRecord
  <2> QED
    BY <1>1, <2>1, <2>2, <2>3, RecordStep DEF OneUpdate
<1>2. IInv /\ [Next]_vars /\ NothingToUpdate => [One]_vars /\ NothingToUpdate'
  BY <1>1, NothingToUpdateKept DEF IInv
<1>3. Init => NothingToUpdate
  BY DEF Init, NothingToUpdate
<1> QED
  BY <1>2, <1>3, Safe, PTL DEF Spec

(* Past the dedup windows a count may be too high, never too low, and the  *)
(* last open or click is at least as new as any that was acknowledged.     *)
THEOREM CountCoversAckedHolds == Spec => []CountCoversAcked
<1>1. ASSUME IInv PROVE CountCoversAcked
  <2> SUFFICES ASSUME NEW k \in Counted
               PROVE  /\ Cardinality(OfKind(k) \ (queue \cup Skipped)) <= record.count[k]
                      /\ \A e \in OfKind(k) \ (queue \cup Skipped) : e <= record.last[k]
    BY DEF CountCoversAcked
  <2>1. OfKind(k) \ (queue \cup Skipped) \subseteq Covered(k)
    BY KindsDisjoint DEF Covered, Handled, Wanted
  <2>2. Covered(k) \subseteq Events /\ record.count[k] \in Nat
    BY <1>1, KindsDisjoint, RecordNumbers DEF IInv, Sound, Shape, TypeOK, Covered, Wanted
  <2>3. Cardinality(OfKind(k) \ (queue \cup Skipped)) <= Cardinality(Covered(k))
    BY <2>1, <2>2, FewerThan
  <2>4. /\ Cardinality(OfKind(k) \ (queue \cup Skipped)) \in Nat
        /\ Cardinality(Covered(k)) \in Nat
    BY <2>1, <2>2, FS_CardinalityType, FS_Subset, EventsAssumption
  <2> QED
    BY <1>1, <2>1, <2>2, <2>3, <2>4 DEF IInv, CountsCover
<1> QED
  BY <1>1, Safe, PTL

(* No two notices of one email carry the same count: the count that goes   *)
(* out (publishEngagementEvent) is the one the update it reports stored.   *)
THEOREM NoticesDistinctHolds == Spec => []NoticesDistinct
<1>1. IInv => NoticesDistinct
  BY DEF IInv, NoticesFresh
<1> QED
  BY <1>1, Safe, PTL

=============================================================================
