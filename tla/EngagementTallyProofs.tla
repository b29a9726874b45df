-------------------------- MODULE EngagementTallyProofs --------------------------
(***************************************************************************)
(* What holds of the record and the notices of one email while its dedup   *)
(* windows have room for all its events: the pollers implement the single  *)
(* tally of EngagementTally.                                               *)
(***************************************************************************)
EXTENDS EngagementProofs

HasRoom == \A k \in Counted : Cardinality(OfKind(k)) <= Window(k)

(* With room an event that is counted is also listed.                      *)
LEMMA Listed ==
  ASSUME HasRoom, Sound, NEW e \in Wanted, NEW k \in Counted, e \in OfKind(k) \ record.ids[k],
         NEW new, Effect(record, e, new)
  PROVE  new.ids[k] = record.ids[k] \cup {e}
<1>1. OfKind(k) \subseteq Events /\ record.ids[k] \subseteq OfKind(k) /\ record.ids[k] # OfKind(k)
  BY KindsDisjoint DEF Wanted, Sound, IdsOfKind
<1>2. Cardinality(record.ids[k]) < Cardinality(OfKind(k))
  BY <1>1, FewerThan
<1>3. /\ Cardinality(record.ids[k]) \in Nat /\ Cardinality(OfKind(k)) \in Nat
      /\ Window(k) \in Nat /\ Cardinality(OfKind(k)) <= Window(k)
  BY <1>1, FS_CardinalityType, FS_Subset, EventsAssumption DEF HasRoom, Window
<1>4. Cardinality(record.ids[k]) < Window(k)
  BY <1>2, <1>3
<1> QED
  BY <1>4 DEF Effect

-----------------------------------------------------------------------------
(* Counts and last times are those of the lists.                           *)
Summary ==
  \A k \in Counted :
    /\ record.count[k] = Cardinality(record.ids[k])
    /\ record.last[k] \in record.ids[k] \cup {0}
    /\ \A e \in record.ids[k] : e <= record.last[k]

(* An event that is in hand for its deletion, or gone, is in the record.   *)
HandledRecorded == \A e \in Events : Handled(e) => e \in Skipped \/ Recorded(e)

LEMMA SummaryKept ==
  ASSUME HasRoom, Sound, Summary, [Next]_vars
  PROVE  Summary'
<1>1. record \in Record /\ record' \in Record
  BY TypeKept DEF Sound, Shape, TypeOK
<1>2. CASE record' = record
  BY <1>2 DEF Summary
<1>3. ASSUME NEW e \in Wanted, record' = Updated(record, e) PROVE Summary'
  <2>1. Effect(record, e, record')
    BY <1>1, <1>3, UpdatedEffect
  <2>2. e \in Events /\ e \in Nat
    BY Kinds DEF Wanted
  <2> SUFFICES ASSUME NEW k \in Counted
               PROVE  /\ record'.count[k] = Cardinality(record'.ids[k])
                      /\ record'.last[k] \in record'.ids[k] \cup {0}
                      /\ \A d \in record'.ids[k] : d <= record'.last[k]
    BY DEF Summary
  <2>3. /\ record.ids[k] \subseteq Events /\ record.last[k] \in Nat
        /\ \A d \in record.ids[k] : d \in Nat
    BY <1>1, RecordNumbers, EventsAssumption
  <2>4. CASE e \in record.ids[k] \/ e \notin OfKind(k)
    BY <2>1, <2>4 DEF Effect, Summary
  <2>5. CASE e \in OfKind(k) \ record.ids[k]
    <3>1. /\ record'.ids[k] = record.ids[k] \cup {e}
          /\ record'.count[k] = record.count[k] + 1
          /\ record'.last[k] = Latest(record.last[k], e)
      BY <2>1, <2>5, Listed DEF Effect
    <3>2. Cardinality(record'.ids[k]) = Cardinality(record.ids[k]) + 1
      BY <2>2, <2>3, <2>5, <3>1, Counting
    <3> QED
      BY <2>2, <2>3, <3>1, <3>2 DEF Latest, Summary
  <2> QED
    BY <2>4, <2>5
<1> QED
  BY <1>2, <1>3, RecordStep DEF OneUpdate

(* What is recorded stays so.                                              *)
LEMMA RecordedStays ==
  ASSUME Sound, [Next]_vars, NEW e \in Wanted, Recorded(e)
  PROVE  Recorded(e)'
<1>1. record \in Record /\ record' \in Record
  BY TypeKept DEF Sound, Shape, TypeOK
<1>2. CASE record' = record
  BY <1>2 DEF Recorded
<1>3. ASSUME NEW d \in Wanted, record' = Updated(record, d) PROVE Recorded(e)'
  <2>1. Effect(record, d, record')
    BY <1>1, <1>3, UpdatedEffect
  <2> QED
    BY <1>1, <2>1, Growth, Kinds DEF Recorded
<1> QED
  BY <1>2, <1>3, RecordStep DEF OneUpdate

LEMMA UpdateRecords ==
  ASSUME HasRoom, Sound, NEW e \in Wanted, record' = Updated(record, e), TypeOK'
  PROVE  Recorded(e)'
<1>1. Effect(record, e, record')
  BY UpdatedEffect DEF Sound, Shape, TypeOK
<1>2. CASE IsCounted(e)
  BY <1>1, <1>2, Kinds, Listed DEF Recorded, Effect
<1>3. CASE ~ IsCounted(e)
  BY <1>1, <1>3, Kinds DEF Recorded, Effect
<1> QED
  BY <1>2, <1>3

LEMMA HandledRecordedKept ==
  ASSUME HasRoom, Sound, HandledRecorded, [Next]_vars
  PROVE  HandledRecorded'
<1> SUFFICES ASSUME NEW e \in Events, Handled(e)', e \notin Skipped'
             PROVE  Recorded(e)'
  BY DEF HandledRecorded
<1>1. e \in Wanted \ (Unstorable \cup early')
  BY DEF Skipped, Wanted
<1>2. e \notin Skipped
  BY <1>1, HandledKept DEF HandledStep, Skipped, Wanted
<1>3. CASE Handled(e)
  BY <1>1, <1>2, <1>3, RecordedStays DEF HandledRecorded
<1>4. CASE ~ Handled(e)
  <2>1. record' = Updated(record, e)
    BY <1>1, <1>4, HandledKept DEF HandledStep
  <2> QED
    BY <1>1, <2>1, UpdateRecords, TypeKept DEF Sound
<1> QED
  BY <1>3, <1>4

-----------------------------------------------------------------------------
(* What a notice says is in the record, and whoever is to publish it is    *)
(* the only one, and the first.                                            *)
Noted(e) ==
  IF IsCounted(e) THEN e \in record.ids[KindOf(e)] ELSE record.at[FlagOf(e)] = e

ToldOnce ==
  \A e \in Events :
    /\ Len(notices[e]) <= 1
    /\ notices[e] # << >> => e \in Wanted /\ Noted(e)

ToTell ==
  /\ \A p \in Pollers : pc[p] = "publish" => Noted(event[p]) /\ notices[event[p]] = << >>
  /\ \A p, q \in Pollers : pc[p] = "publish" /\ pc[q] = "publish" /\ event[p] = event[q] => p = q

Told == ToldOnce /\ ToTell

LEMMA NotedStays ==
  ASSUME Sound, [Next]_vars, NEW e \in Wanted, Noted(e)
  PROVE  Noted(e)'
<1>1. record \in Record /\ record' \in Record
  BY TypeKept DEF Sound, Shape, TypeOK
<1>2. CASE record' = record
  BY <1>2 DEF Noted
<1>3. ASSUME NEW d \in Wanted, record' = Updated(record, d) PROVE Noted(e)'
  <2>1. Effect(record, d, record')
    BY <1>1, <1>3, UpdatedEffect
  <2> QED
    BY <1>1, <2>1, Growth, Kinds DEF Noted
<1> QED
  BY <1>2, <1>3, RecordStep DEF OneUpdate

LEMMA ToldKept ==
  ASSUME HasRoom, Sound, Told, [Next]_vars
  PROVE  Told'
<1>0. /\ \A p \in Pollers : pc[p] = "publish" => event[p] \in Wanted /\ event[p] \in Events
      /\ notices \in [Events -> Seq(Nat)]
  BY DEF Sound, Shape, TypeOK, EventInHand, Wanted
<1>1. \A e \in Wanted : Noted(e) => Noted(e)'
  BY NotedStays
<1>2. CASE NoNewNotice
  BY <1>0, <1>1, <1>2 DEF NoNewNotice, Told, ToldOnce, ToTell, Noted
<1>3. ASSUME NEW p \in Pollers, UpdateSucceeds(p) PROVE Told'
  <2>1. /\ notices' = notices /\ event' = event
        /\ \A q \in Pollers \ {p} : pc'[q] = pc[q]
        /\ pc'[p] = "publish" => applied[p]
        /\ pc[p] = "update" /\ record' = draft[p] /\ draftRev[p] = revision
    BY <1>3 DEF UpdateSucceeds, Stale, Commit, GoTo, Sound, Shape, TypeOK
  <2>2. event[p] \in Wanted /\ record \in Record /\ event[p] \in Events
    BY <2>1 DEF Sound, Shape, TypeOK, EventInHand, Wanted
  <2>3. record' = Updated(record, event[p]) /\ (applied[p] <=> ~ Replay(record, event[p]))
    BY <2>1 DEF Sound, DraftsSound
  <2>4. applied[p] => ~ Noted(event[p])
    BY <2>2, <2>3, Kinds DEF Replay, Noted
  <2>5. applied[p] => Noted(event[p])'
    <3>1. Effect(record, event[p], record')
      BY <2>2, <2>3, UpdatedEffect
    <3>2. CASE IsCounted(event[p])
      <4> SUFFICES ASSUME applied[p] PROVE event[p] \in record'.ids[KindOf(event[p])]
        BY <2>1, <3>2 DEF Noted
      <4>1. KindOf(event[p]) \in Counted /\ event[p] \in OfKind(KindOf(event[p])) \ record.ids[KindOf(event[p])]
        BY <2>2, <2>3, <3>2, Kinds DEF Replay
      <4>2. record'.ids[KindOf(event[p])] = record.ids[KindOf(event[p])] \cup {event[p]}
        BY <2>2, <3>1, <4>1, Listed
      <4> QED
        BY <4>2
    <3>3. CASE ~ IsCounted(event[p])
      BY <2>1, <2>2, <2>3, <3>1, <3>3, Kinds DEF Noted, Replay, Effect
    <3> QED
      BY <3>2, <3>3
  <2>6. applied[p] => /\ notices[event[p]] = << >>
                      /\ \A q \in Pollers \ {p} : pc[q] = "publish" => event[q] # event[p]
    BY <2>2, <2>4 DEF Told, ToldOnce, ToTell
  <2>7. ToldOnce'
    BY <1>1, <2>1 DEF Told, ToldOnce
  <2>8. \A q \in Pollers : pc'[q] = "publish" => Noted(event[q])' /\ notices[event[q]] = << >>
    BY <1>0, <1>1, <2>1, <2>5, <2>6 DEF Told, ToldOnce, ToTell
  <2>9. \A q, r \in Pollers : pc'[q] = "publish" /\ pc'[r] = "publish" /\ event[q] = event[r] => q = r
    BY <2>1, <2>6 DEF Told, ToldOnce, ToTell
  <2> QED
    BY <2>1, <2>7, <2>8, <2>9 DEF Told, ToTell
<1>4. ASSUME NEW p \in Pollers, Publish(p) PROVE Told'
  <2>1. /\ notices' = [notices EXCEPT ![event[p]] = Append(@, NoticeCount(p))]
        /\ event' = event /\ record' = record
        /\ pc[p] = "publish" /\ pc'[p] = "delete"
        /\ \A q \in Pollers \ {p} : pc'[q] = pc[q]
    BY <1>4 DEF Publish, GoTo, kvVars, Sound, Shape, TypeOK
  <2>2. event[p] \in Wanted /\ event[p] \in Events /\ Noted(event[p]) /\ notices[event[p]] = << >>
    BY <1>0, <2>1 DEF Told, ToldOnce, ToTell
  <2>3. /\ \A e \in Events \ {event[p]} : notices'[e] = notices[e]
        /\ notices'[event[p]] = Append(<< >>, NoticeCount(p))
    BY <1>0, <2>1, <2>2
  <2>4. Len(notices'[event[p]]) = 1
    BY <2>3
  <2>5. ToldOnce'
    <3> SUFFICES ASSUME NEW e \in Events
                 PROVE  Len(notices'[e]) <= 1 /\ (notices'[e] # << >> => e \in Wanted /\ Noted(e)')
      BY DEF ToldOnce
    <3>1. CASE e = event[p]
      <4>1. e \in Wanted /\ Noted(e)'
        BY <1>1, <2>2, <3>1
      <4>2. Len(notices'[e]) = 1
        BY <2>4, <3>1
      <4>3. Len(notices'[e]) <= 1
        BY <4>2
      <4> QED
        BY <4>1, <4>3
    <3>2. CASE e # event[p]
      BY <1>1, <2>3, <3>2 DEF Told, ToldOnce
    <3> QED
      BY <3>1, <3>2
  <2>6. \A q \in Pollers \ {p} : pc[q] = "publish" => event[q] # event[p]
    BY <2>1 DEF Told, ToldOnce, ToTell
  <2>7. (\A q \in Pollers : pc[q] = "publish" => Noted(event[q]) /\ notices[event[q]] = << >>)'
    BY <1>0, <1>1, <2>1, <2>3, <2>6 DEF Told, ToldOnce, ToTell
  <2>8. (\A q, r \in Pollers : pc[q] = "publish" /\ pc[r] = "publish" /\ event[q] = event[r] => q = r)'
    BY <2>1 DEF Told, ToldOnce, ToTell
  <2> QED
    BY <2>5, <2>7, <2>8 DEF Told, ToTell
<1> QED
  BY <1>2, <1>3, <1>4, NoticeStep DEF NoticeChange

-----------------------------------------------------------------------------
RoomInv == Sound /\ Summary /\ HandledRecorded /\ Told

LEMMA RoomInductive ==
  ASSUME HasRoom
  PROVE  RoomInv /\ [Next]_vars => RoomInv'
  BY SoundKept, SummaryKept, HandledRecordedKept, ToldKept DEF RoomInv

LEMMA RoomInit == Init => RoomInv
<1> SUFFICES ASSUME Init PROVE RoomInv
  OBVIOUS
<1>1. Summary
  BY FS_EmptySet DEF Init, Summary, NewRecord
<1>2. HandledRecorded
  BY DEF Init, HandledRecorded, Handled
<1>3. Told
  BY DEF Init, Told, ToldOnce, ToTell
<1> QED
  BY <1>1, <1>2, <1>3, SoundInit DEF RoomInv

LEMMA RoomSafe ==
  ASSUME HasRoom
  PROVE  Spec => []RoomInv
  BY RoomInit, RoomInductive, PTL DEF Spec

LEMMA MaxIs ==
  ASSUME NEW S, S \subseteq Nat, NEW m \in S, \A x \in S : x <= m
  PROVE  Max(S) = m
<1>1. \A n \in S : (\A x \in S : x <= n) => n = m
  OBVIOUS
<1> QED
  BY <1>1 DEF Max

(* Inside the windows OpenCount, ClickCount, LastOpenedAt and              *)
(* LastClickedAt (applyEngagementEvent) say exactly what the lists of      *)
(* MessageIds hold.                                                        *)
THEOREM SummaryExactHolds ==
  ASSUME HasRoom
  PROVE  Spec => []SummaryExact
<1>1. ASSUME RoomInv PROVE SummaryExact
  <2> SUFFICES ASSUME NEW k \in Counted
               PROVE  /\ record.count[k] = Cardinality(record.ids[k])
                      /\ record.last[k] = Max(record.ids[k] \cup {0})
    BY DEF SummaryExact
  <2>0. record.ids[k] \subseteq Events
    BY <1>1, RecordNumbers DEF RoomInv, Sound, Shape, TypeOK
  <2>1. record.last[k] \in record.ids[k] \cup {0} /\ \A x \in record.ids[k] : x <= record.last[k]
    BY <1>1 DEF RoomInv, Summary
  <2>2. record.ids[k] \cup {0} \subseteq Nat
    <3>1. Events \subseteq Nat /\ 0 \in Nat
      BY EventsAssumption
    <3> QED
      BY <2>0, <3>1
  <2>3. \A x \in record.ids[k] \cup {0} : x <= record.last[k]
    BY <2>1, <2>2
  <2> QED
    BY <1>1, <2>1, <2>2, <2>3, MaxIs DEF RoomInv, Summary
<1> QED
  BY <1>1, RoomSafe, PTL

(* A message is deleted from SQS only when its event is in the record, or  *)
(* is one the handler may skip.                                            *)
THEOREM AckedIsRecordedHolds ==
  ASSUME HasRoom
  PROVE  Spec => []AckedIsRecorded
<1>1. RoomInv => AckedIsRecorded
  BY DEF RoomInv, HandledRecorded, Handled, AckedIsRecorded
<1> QED
  BY <1>1, RoomSafe, PTL

(* However often a message is delivered and an update retried, one notice  *)
(* at most goes out for an open or a click, and one for a flag.            *)
THEOREM NoticeOnceHolds ==
  ASSUME HasRoom
  PROVE  Spec => []NoticeOnce
<1>1. RoomInv => NoticeOnce
  BY Kinds, KindsDisjoint DEF RoomInv, Told, ToldOnce, Noted, NoticeOnce
<1> QED
  BY <1>1, RoomSafe, PTL

-----------------------------------------------------------------------------
(* An update of the record is one of the tally, or shows nothing new.      *)
LEMMA UpdateTallied ==
  ASSUME HasRoom, Sound, NEW e \in Wanted, record' = Updated(record, e), notices' = notices
  PROVE  Tally!Next \/ UNCHANGED Tally!vars
<1>1. Effect(record, e, record')
  BY UpdatedEffect DEF Sound, Shape, TypeOK
<1>2. Latest(record.last["OPEN"], e) = Tally!Later(record.last["OPEN"], e)
      /\ Latest(record.last["CLICK"], e) = Tally!Later(record.last["CLICK"], e)
  BY DEF Latest, Tally!Later
<1>3. /\ OfKind("OPEN") = Opens /\ OfKind("CLICK") = Clicks
      /\ OfFlag("delivered") = Deliveries /\ OfFlag("failed") = Bounces \cup Complaints
      /\ {"OPEN", "CLICK"} = Counted /\ {"delivered", "failed"} = Flags
  BY DEF OfKind, OfFlag, Counted, Flags
<1>4. CASE e \in Opens
  <2>1. e \notin Clicks /\ e \notin Deliveries /\ e \notin Bounces \cup Complaints
    BY <1>4, EventsAssumption
  <2>2. CASE e \in record.ids["OPEN"]
    BY <1>1, <1>3, <2>1, <2>2 DEF Effect, Tally!vars
  <2>3. CASE e \notin record.ids["OPEN"]
    <3>1. record'.ids["OPEN"] = record.ids["OPEN"] \cup {e}
      BY <1>1, <1>3, <1>4, <2>3, Listed
    <3>2. Tally!Open(e)
      BY <1>1, <1>2, <1>3, <1>4, <2>1, <2>3, <3>1 DEF Effect, Tally!Open
    <3> QED
      BY <1>4, <2>3, <3>2 DEF Tally!Next
  <2> QED
    BY <2>2, <2>3
<1>5. CASE e \in Clicks
  <2>1. e \notin Opens /\ e \notin Deliveries /\ e \notin Bounces \cup Complaints
    BY <1>5, EventsAssumption
  <2>2. CASE e \in record.ids["CLICK"]
    BY <1>1, <1>3, <2>1, <2>2 DEF Effect, Tally!vars
  <2>3. CASE e \notin record.ids["CLICK"]
    <3>1. record'.ids["CLICK"] = record.ids["CLICK"] \cup {e}
      BY <1>1, <1>3, <1>5, <2>3, Listed
    <3>2. Tally!Click(e)
      BY <1>1, <1>2, <1>3, <1>5, <2>1, <2>3, <3>1 DEF Effect, Tally!Click
    <3> QED
      BY <1>5, <2>3, <3>2 DEF Tally!Next
  <2> QED
    BY <2>2, <2>3
<1>6. CASE e \in Deliveries
  <2>1. e \notin Opens /\ e \notin Clicks /\ e \notin Bounces \cup Complaints
    BY <1>6, EventsAssumption
  <2>2. CASE record.at["delivered"] # 0
    BY <1>1, <1>3, <2>1, <2>2 DEF Effect, Tally!vars
  <2>3. CASE record.at["delivered"] = 0
    <3>1. Tally!Deliver(e)
      BY <1>1, <1>3, <1>6, <2>1, <2>3 DEF Effect, Tally!Deliver
    <3> QED
      BY <1>6, <3>1 DEF Tally!Next
  <2> QED
    BY <2>2, <2>3
<1>7. CASE e \in Bounces \cup Complaints
  <2>1. e \notin Opens /\ e \notin Clicks /\ e \notin Deliveries
    BY <1>7, EventsAssumption
  <2>2. CASE record.at["failed"] # 0
    BY <1>1, <1>3, <2>1, <2>2 DEF Effect, Tally!vars
  <2>3. CASE record.at["failed"] = 0
    <3>1. Tally!Fail(e)
      BY <1>1, <1>3, <1>7, <2>1, <2>3 DEF Effect, Tally!Fail
    <3> QED
      BY <1>7, <3>1 DEF Tally!Next
  <2> QED
    BY <2>2, <2>3
<1> QED
  BY <1>4, <1>5, <1>6, <1>7 DEF Wanted, Events

LEMMA PublishTallied ==
  ASSUME RoomInv, NEW p \in Pollers, Publish(p)
  PROVE  Tally!Next
<1>1. /\ notices' = [notices EXCEPT ![event[p]] = Append(@, NoticeCount(p))]
      /\ record' = record /\ pc[p] = "publish"
  BY DEF Publish, kvVars
<1>2. /\ event[p] \in Wanted /\ event[p] \in Events
      /\ Noted(event[p]) /\ notices[event[p]] = << >> /\ notices \in [Events -> Seq(Nat)]
  BY <1>1 DEF RoomInv, Told, ToTell, Sound, Shape, TypeOK, EventInHand, Wanted
<1>3. event[p] \in Tally!Shown
  BY <1>2, Kinds DEF Noted, Counted, Flags, Tally!Shown
<1>4. notices'[event[p]] # << >> /\ \A e \in Events \ {event[p]} : notices'[e] = notices[e]
  BY <1>1, <1>2
<1>5. {e \in Events : notices'[e] # << >>} = {e \in Events : notices[e] # << >>} \cup {event[p]}
  BY <1>2, <1>4
<1>6. Tally!Notify(event[p])
  BY <1>1, <1>2, <1>3, <1>5 DEF Tally!Notify
<1>7. \E e \in Tally!Shown : Tally!Notify(e)
  BY <1>3, <1>6 DEF Tally!Notify
<1> QED
  BY <1>7 DEF Tally!Next

(* Only Publish changes the notices.                                       *)
LEMMA OneAtATime ==
  ASSUME Sound, [Next]_vars
  PROVE  notices' = notices \/ \E q \in Pollers : Publish(q)
<1>1. CASE UNCHANGED notices
  BY <1>1
<1>2. ASSUME NEW p \in Pollers, Publish(p) PROVE notices' = notices \/ \E q \in Pollers : Publish(q)
  BY <1>2
<1> QED
  BY <1>1, <1>2
     DEF Next, PollerStep, vars, kvVars, pollerVars, GoTo, LeaveInQueue, Forget, TryAgain,
            Fault, Receive, Take, ReadRecord, RecordAbsent, ReadFails, UpdateSucceeds,
            UpdateConflicts, UpdateUnanswered, UpdateTooLarge, PublishFails, Acknowledge,
            AcknowledgeFails, Crash, LateUpdate, StoreRecord

LEMMA TallyStep ==
  ASSUME HasRoom, RoomInv, [Next]_vars
  PROVE  Tally!Next \/ UNCHANGED Tally!vars
<1>1. CASE \E q \in Pollers : Publish(q)
  BY <1>1, PublishTallied
<1>2. CASE notices' = notices /\ record' = record
  BY <1>2 DEF Tally!vars
<1>3. ASSUME notices' = notices, NEW e \in Wanted, record' = Updated(record, e)
      PROVE  Tally!Next \/ UNCHANGED Tally!vars
  BY <1>3, UpdateTallied DEF RoomInv
<1>4. Sound
  BY DEF RoomInv
<1> QED
  BY <1>1, <1>2, <1>3, <1>4, OneAtATime, RecordStep DEF OneUpdate

(* The replicas with their conflicts, retries, lost answers and redelivered *)
(* messages (Poller.Run, Handle, UpdateRecord) implement the single tally.  *)
THEOREM ImplementsTallyHolds ==
  ASSUME HasRoom
  PROVE  Spec => ImplementsTally
<1>1. Init => Tally!Init
  BY DEF Init, NewRecord, Counted, Flags, Tally!Init
<1>2. RoomInv /\ [Next]_vars => [Tally!Next]_(Tally!vars)
  BY TallyStep
<1> QED
  BY <1>1, <1>2, RoomSafe, PTL DEF Spec, ImplementsTally, Tally!Spec
=============================================================================
