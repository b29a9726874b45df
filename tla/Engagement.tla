------------------------------ MODULE Engagement ------------------------------
(***************************************************************************)
(* Engagement tracking of one email: SES events arrive through SNS and     *)
(* SQS; each replica's poller (internal/infrastructure/sqs) hands them,    *)
(* one by one, to EngagementEventHandler, which updates the email's        *)
(* recipient record with Store.UpdateRecord and publishes a notice.        *)
(*                                                                         *)
(* SQS delivers at least once and in any order: a message stays in the     *)
(* queue until a poller deletes it, and while it is there any poller may   *)
(* receive it, also one that another poller is working on.  Records of     *)
(* different emails have different keys and do not interact, so one email  *)
(* is enough.                                                              *)
(*                                                                         *)
(* An event is named after its SES timestamp, a positive number; its name  *)
(* also stands for its SNS MessageId.                                      *)
(***************************************************************************)
EXTENDS Naturals, Sequences, FiniteSets, FiniteSetsExt

CONSTANTS
  Pollers,         \* one per replica
  Opens, Clicks, Deliveries, Bounces, Complaints,   \* the events, by type
  Junk,            \* messages with no email id, an unknown type or no valid JSON
  Unstorable,      \* events whose updated record the bucket refuses for its size
  OpenWindow,      \* entries OpenedAtList has room for
  ClickWindow,     \* entries ClickEventIDs and ClickList have room for
  MaxBatch,        \* MaxNumberOfMessages of one receive
  FaultKinds,      \* the calls that may fail: "read", "update", "publish", "ack"; "crash"
  MaxFaults        \* bound: failed calls and crashes in a behaviour

Events == Opens \cup Clicks \cup Deliveries \cup Bounces \cup Complaints \cup Junk

(* An event has one type, and its flag or its counter is known by it.      *)
ASSUME EventsAssumption ==
  /\ Events \subseteq Nat \ {0}
  /\ IsFiniteSet(Events)
  /\ Opens \cap (Clicks \cup Deliveries \cup Bounces \cup Complaints \cup Junk) = {}
  /\ Clicks \cap (Deliveries \cup Bounces \cup Complaints \cup Junk) = {}
  /\ Deliveries \cap (Bounces \cup Complaints \cup Junk) = {}
  /\ (Bounces \cup Complaints) \cap Junk = {}
  /\ Unstorable \subseteq Events
  /\ OpenWindow \in Nat /\ ClickWindow \in Nat /\ MaxBatch \in Nat \ {0} /\ MaxFaults \in Nat

VARIABLES
  queue,      \* the messages in SQS
  record,     \* the email's recipient record
  revision,   \* its KV revision, 0 while it is absent
  late,       \* updates whose sender gave up and which the server may still apply
  early,      \* messages handled while the record was absent
  pc,         \* pc[p]: the next step of poller p
  batch,      \* batch[p]: the messages received and not yet handled
  event,      \* event[p]: the message in hand, 0 when none
  attempt,    \* attempt[p]: the loop variable of UpdateRecord
  draft,      \* draft[p], draftRev[p]: the record to write and the revision it was read at
  draftRev,
  applied,    \* applied[p]: eventApplied, set by the last call of the update function
  notices,    \* notices[e]: the counts carried by the notices published for e, in order
  faults      \* how many faults have happened

kvVars == <<record, revision, late>>
pollerVars == <<pc, batch, event, attempt, draft, draftRev, applied>>
vars == <<queue, record, revision, late, early, pc, batch, event, attempt, draft, draftRev,
          applied, notices, faults>>

Counted == {"OPEN", "CLICK"}
Flags == {"delivered", "failed"}

(* EmailRecipientRecord: OpenCount and ClickCount, the MessageIds in the   *)
(* dedup lists, LastOpenedAt and LastClickedAt, DeliveredAt and FailedAt.  *)
Record == [count : [Counted -> Nat], ids : [Counted -> SUBSET Events],
           last : [Counted -> Events \cup {0}], at : [Flags -> Events \cup {0}]]

NewRecord == [count |-> [k \in Counted |-> 0], ids |-> [k \in Counted |-> {}],
              last |-> [k \in Counted |-> 0], at |-> [f \in Flags |-> 0]]

KindOf(e) == IF e \in Opens THEN "OPEN" ELSE "CLICK"
FlagOf(e) == IF e \in Deliveries THEN "delivered" ELSE "failed"
Window(k) == IF k = "OPEN" THEN OpenWindow ELSE ClickWindow
IsCounted(e) == e \in Opens \cup Clicks

-----------------------------------------------------------------------------
(* applyEngagementEvent: a known MessageId, or a flag already set, is a    *)
(* replay.                                                                 *)
Replay(rec, e) ==
  IF IsCounted(e) THEN e \in rec.ids[KindOf(e)] ELSE rec.at[FlagOf(e)] # 0

(* Mutant: the order of delivery is taken for the order of events.         *)
LatestDelivered(t, e) == e

Latest(t, e) == IF e > t THEN e ELSE t

(* Mutant: an event the window has no room for is not counted.             *)
CountWindowed(rec, e) ==
  LET k == KindOf(e) IN
  IF Cardinality(rec.ids[k]) < Window(k)
  THEN [rec EXCEPT !.count[k] = @ + 1, !.last[k] = Latest(@, e), !.ids[k] = @ \cup {e}]
  ELSE rec

Count(rec, e) ==
  LET k == KindOf(e) IN
  [rec EXCEPT !.count[k] = @ + 1,
              !.last[k] = Latest(@, e),
              !.ids[k] = IF Cardinality(@) < Window(k) THEN @ \cup {e} ELSE @]

SetFlag(rec, e) == [rec EXCEPT !.at[FlagOf(e)] = e]

(* Mutant: the count is raised before the MessageId is looked up.          *)
UpdatedCountFirst(rec, e) ==
  IF IsCounted(e)
  THEN IF Replay(rec, e) THEN [rec EXCEPT !.count[KindOf(e)] = @ + 1] ELSE Count(rec, e)
  ELSE IF Replay(rec, e) THEN rec ELSE SetFlag(rec, e)

Updated(rec, e) ==
  IF Replay(rec, e) THEN rec
  ELSE IF IsCounted(e) THEN Count(rec, e) ELSE SetFlag(rec, e)

Init ==
  /\ queue = Events
  /\ record = NewRecord
  /\ revision = 0
  /\ late = {}
  /\ early = {}
  /\ pc = [p \in Pollers |-> "poll"]
  /\ batch = [p \in Pollers |-> {}]
  /\ event = [p \in Pollers |-> 0]
  /\ attempt = [p \in Pollers |-> 0]
  /\ draft = [p \in Pollers |-> NewRecord]
  /\ draftRev = [p \in Pollers |-> 0]
  /\ applied = [p \in Pollers |-> FALSE]
  /\ notices = [e \in Events |-> << >>]
  /\ faults = 0

(* SendEmailHandler stores the record, after the email went out: events    *)
(* may already be here.                                                    *)
StoreRecord ==
  /\ revision = 0
  /\ revision' = 1
  /\ UNCHANGED <<queue, record, late, early, pollerVars, notices, faults>>

Fault(kind) ==
  /\ kind \in FaultKinds
  /\ faults < MaxFaults
  /\ faults' = faults + 1

GoTo(p, step) ==
  /\ pc' = [pc EXCEPT ![p] = step]
  /\ UNCHANGED <<batch, event, attempt, draft, draftRev, applied>>

-----------------------------------------------------------------------------
(* ReceiveMessage returns some of the messages in the queue.               *)
Receive(p) ==
  /\ pc[p] = "poll"
  /\ batch[p] = {}
  /\ \E got \in SUBSET queue \ {{}} :
       /\ Cardinality(got) <= MaxBatch
       /\ batch' = [batch EXCEPT ![p] = got]
  /\ UNCHANGED <<queue, kvVars, early, pc, event, attempt, draft, draftRev, applied, notices,
                 faults>>

(* The next message of the batch; one that is no event is acknowledged.    *)
Take(p, e) ==
  /\ pc[p] = "poll"
  /\ e \in batch[p]
  /\ batch' = [batch EXCEPT ![p] = @ \ {e}]
  /\ event' = [event EXCEPT ![p] = e]
  /\ pc' = [pc EXCEPT ![p] = IF e \in Junk THEN "delete" ELSE "get"]
  /\ UNCHANGED <<queue, kvVars, early, attempt, draft, draftRev, applied, notices, faults>>

(* The locals of Handle and UpdateRecord go out of scope.                  *)
Forget(p) ==
  /\ event' = [event EXCEPT ![p] = 0]
  /\ attempt' = [attempt EXCEPT ![p] = 0]
  /\ draft' = [draft EXCEPT ![p] = NewRecord]
  /\ draftRev' = [draftRev EXCEPT ![p] = 0]
  /\ applied' = [applied EXCEPT ![p] = FALSE]

(* Handle returns an error: the message is left in the queue.              *)
LeaveInQueue(p) ==
  /\ pc' = [pc EXCEPT ![p] = "poll"]
  /\ Forget(p)
  /\ UNCHANGED <<queue, early, batch, notices>>

(* Mutant: eventApplied is not reset by the second call of the function.   *)
ReadRecordSticky(p) ==
  /\ pc[p] = "get"
  /\ revision # 0
  /\ draft' = [draft EXCEPT ![p] = Updated(record, event[p])]
  /\ draftRev' = [draftRev EXCEPT ![p] = revision]
  /\ applied' = [applied EXCEPT ![p] = @ \/ ~ Replay(record, event[p])]
  /\ pc' = [pc EXCEPT ![p] = "update"]
  /\ UNCHANGED <<queue, kvVars, early, batch, event, attempt, notices, faults>>

(* UpdateRecord reads the record and calls the update function.            *)
ReadRecord(p) ==
  /\ pc[p] = "get"
  /\ revision # 0
  /\ draft' = [draft EXCEPT ![p] = Updated(record, event[p])]
  /\ draftRev' = [draftRev EXCEPT ![p] = revision]
  /\ applied' = [applied EXCEPT ![p] = ~ Replay(record, event[p])]
  /\ pc' = [pc EXCEPT ![p] = "update"]
  /\ UNCHANGED <<queue, kvVars, early, batch, event, attempt, notices, faults>>

(* No record: nothing to update, the message is acknowledged.              *)
RecordAbsent(p) ==
  /\ pc[p] = "get"
  /\ revision = 0
  /\ early' = early \cup {event[p]}
  /\ GoTo(p, "delete")
  /\ UNCHANGED <<queue, kvVars, notices, faults>>

ReadFails(p) ==
  /\ pc[p] = "get"
  /\ Fault("read")
  /\ LeaveInQueue(p)
  /\ UNCHANGED kvVars

Commit(rec) ==
  /\ record' = rec
  /\ revision' = revision + 1

(* Mutant: Put instead of Update.                                          *)
StaleNever(p) == FALSE

Stale(p) == draftRev[p] # revision

UpdateSucceeds(p) ==
  /\ pc[p] = "update"
  /\ event[p] \notin Unstorable
  /\ ~ Stale(p)
  /\ Commit(draft[p])
  /\ GoTo(p, IF applied[p] THEN "publish" ELSE "delete")
  /\ UNCHANGED <<queue, late, early, notices, faults>>

(* Mutant: a write that lost twice is reported as done.                    *)
TryAgainSwallow(p) ==
  \/ /\ attempt[p] = 0
     /\ attempt' = [attempt EXCEPT ![p] = 1]
     /\ pc' = [pc EXCEPT ![p] = "get"]
     /\ UNCHANGED <<queue, early, batch, event, draft, draftRev, applied, notices>>
  \/ /\ attempt[p] = 1
     /\ GoTo(p, "delete")
     /\ UNCHANGED <<queue, early, notices>>

(* Mutant: the loop is entered a third time.                               *)
TryAgainTwice(p) ==
  \/ /\ attempt[p] < 2
     /\ attempt' = [attempt EXCEPT ![p] = @ + 1]
     /\ pc' = [pc EXCEPT ![p] = "get"]
     /\ UNCHANGED <<queue, early, batch, event, draft, draftRev, applied, notices>>
  \/ /\ attempt[p] = 2
     /\ LeaveInQueue(p)

(* The write lost: the loop runs once more, then UpdateRecord fails.       *)
TryAgain(p) ==
  \/ /\ attempt[p] = 0
     /\ attempt' = [attempt EXCEPT ![p] = 1]
     /\ pc' = [pc EXCEPT ![p] = "get"]
     /\ UNCHANGED <<queue, early, batch, event, draft, draftRev, applied, notices>>
  \/ /\ attempt[p] = 1
     /\ LeaveInQueue(p)

UpdateConflicts(p) ==
  /\ pc[p] = "update"
  /\ event[p] \notin Unstorable
  /\ Stale(p)
  /\ TryAgain(p)
  /\ UNCHANGED <<kvVars, faults>>

(* Mutant: an unanswered update is taken for a successful one.             *)
UpdateUnansweredIsSuccess(p) ==
  /\ pc[p] = "update"
  /\ event[p] \notin Unstorable
  /\ Fault("update")
  /\ late' = late \cup {[rev |-> draftRev[p], rec |-> draft[p]]}
  /\ GoTo(p, IF applied[p] THEN "publish" ELSE "delete")
  /\ UNCHANGED <<queue, record, revision, early, notices>>

(* The answer to the update is lost; the update may still be applied.      *)
UpdateUnanswered(p) ==
  /\ pc[p] = "update"
  /\ event[p] \notin Unstorable
  /\ Fault("update")
  /\ late' = late \cup {[rev |-> draftRev[p], rec |-> draft[p]]}
  /\ TryAgain(p)
  /\ UNCHANGED <<record, revision>>

(* Mutant: ErrRecordTooLarge is returned like any other error.             *)
UpdateTooLargeRetried(p) ==
  /\ pc[p] = "update"
  /\ event[p] \in Unstorable
  /\ LeaveInQueue(p)
  /\ UNCHANGED <<kvVars, faults>>

(* ErrRecordTooLarge: deterministic, the event is dropped.                 *)
UpdateTooLarge(p) ==
  /\ pc[p] = "update"
  /\ event[p] \in Unstorable
  /\ GoTo(p, "delete")
  /\ UNCHANGED <<queue, kvVars, early, notices, faults>>

(* The notice of an open or a click carries the count captured from the    *)
(* record; it is best-effort.                                              *)
NoticeCount(p) ==
  IF IsCounted(event[p]) THEN draft[p].count[KindOf(event[p])] ELSE 0

Publish(p) ==
  /\ pc[p] = "publish"
  /\ notices' = [notices EXCEPT ![event[p]] = Append(@, NoticeCount(p))]
  /\ GoTo(p, "delete")
  /\ UNCHANGED <<queue, kvVars, early, faults>>

PublishFails(p) ==
  /\ pc[p] = "publish"
  /\ Fault("publish")
  /\ GoTo(p, "delete")
  /\ UNCHANGED <<queue, kvVars, early, notices>>

(* DeleteMessage.                                                          *)
Acknowledge(p) ==
  /\ pc[p] = "delete"
  /\ queue' = queue \ {event[p]}
  /\ pc' = [pc EXCEPT ![p] = "poll"]
  /\ Forget(p)
  /\ UNCHANGED <<kvVars, early, batch, notices, faults>>

AcknowledgeFails(p) ==
  /\ pc[p] = "delete"
  /\ Fault("ack")
  /\ LeaveInQueue(p)
  /\ UNCHANGED kvVars

-----------------------------------------------------------------------------
LateUpdate(w) ==
  /\ late' = late \ {w}
  /\ IF w.rev = revision THEN Commit(w.rec) ELSE UNCHANGED <<record, revision>>
  /\ UNCHANGED <<queue, early, pollerVars, notices, faults>>

(* A pod dies and its poller starts afresh.                                *)
Crash(p) ==
  /\ Fault("crash")
  /\ pc' = [pc EXCEPT ![p] = "poll"]
  /\ batch' = [batch EXCEPT ![p] = {}]
  /\ Forget(p)
  /\ UNCHANGED <<queue, kvVars, early, notices>>

PollerStep(p) ==
  \/ \E e \in Events : Take(p, e)
  \/ ReadRecord(p)
  \/ RecordAbsent(p)
  \/ ReadFails(p)
  \/ UpdateSucceeds(p)
  \/ UpdateConflicts(p)
  \/ UpdateUnanswered(p)
  \/ UpdateTooLarge(p)
  \/ Publish(p)
  \/ PublishFails(p)
  \/ Acknowledge(p)
  \/ AcknowledgeFails(p)

Next ==
  \/ StoreRecord
  \/ \E p \in Pollers : Receive(p) \/ PollerStep(p) \/ Crash(p)
  \/ \E w \in late : LateUpdate(w)

Spec == Init /\ [][Next]_vars

(* A handler runs on: its calls have timeouts.  SQS keeps delivering a     *)
(* message that is not deleted.                                            *)
FairSpec ==
  /\ Spec
  /\ \A p \in Pollers : WF_vars(PollerStep(p))
  /\ \A e \in Events : SF_vars(\E p \in Pollers : Receive(p) /\ e \in batch'[p])

-----------------------------------------------------------------------------
(* The shape of the state.                                                 *)
TypeOK ==
  /\ queue \subseteq Events
  /\ record \in Record
  /\ revision \in Nat
  /\ \A w \in late : w.rev \in Nat /\ w.rec \in Record
  /\ early \subseteq Events
  /\ pc \in [Pollers -> {"poll", "get", "update", "publish", "delete"}]
  /\ batch \in [Pollers -> SUBSET Events]
  /\ event \in [Pollers -> Events \cup {0}]
  /\ attempt \in [Pollers -> 0..1]
  /\ draft \in [Pollers -> Record]
  /\ draftRev \in [Pollers -> Nat]
  /\ applied \in [Pollers -> BOOLEAN]
  /\ notices \in [Events -> Seq(Nat)]
  /\ faults \in 0..MaxFaults

OfKind(k) == IF k = "OPEN" THEN Opens ELSE Clicks
OfFlag(f) == IF f = "delivered" THEN Deliveries ELSE Bounces \cup Complaints

Recorded(e) ==
  IF IsCounted(e) THEN e \in record.ids[KindOf(e)] ELSE record.at[FlagOf(e)] # 0

(* The events the handler acknowledges without a trace in the record.      *)
Skipped == Junk \cup Unstorable \cup early

(* While the windows have room the summary of a record is that of its      *)
(* lists, whatever was redelivered, retried or applied late: OpenCount and *)
(* ClickCount count each event once, LastOpenedAt and LastClickedAt are    *)
(* the newest event's.                                                     *)
SummaryExact ==
  \A k \in Counted :
    /\ record.count[k] = Cardinality(record.ids[k])
    /\ record.last[k] = Max(record.ids[k] \cup {0})

(* A message leaves the queue only when its event is in the record: a      *)
(* crash, a lost answer or a lost race never lose an event.                *)
AckedIsRecorded == \A e \in Events \ queue : e \in Skipped \/ Recorded(e)

(* At most one notice per open and per click, and one per flag: bounce and *)
(* complaint share one.                                                    *)
NoticeOnce ==
  /\ \A e \in Events : Len(notices[e]) <= 1
  /\ \A f \in Flags, e1, e2 \in Events :
       notices[e1] # << >> /\ notices[e2] # << >> /\ {e1, e2} \subseteq OfFlag(f) => e1 = e2

(* No two notices carry the same count, also after the window is full and  *)
(* replays are counted again: a subscriber may take the count for the      *)
(* ordinal of the open or click.                                           *)
NoticesDistinct ==
  \A k \in Counted, e1, e2 \in Events :
    {e1, e2} \subseteq OfKind(k) =>
      \A i \in DOMAIN notices[e1], j \in DOMAIN notices[e2] :
        notices[e1][i] = notices[e2][j] => e1 = e2 /\ i = j

(* Once the window is full the count may be too high, never too low, and   *)
(* the last open or click is never older than one acknowledged.            *)
CountCoversAcked ==
  \A k \in Counted :
    LET done == OfKind(k) \ (queue \cup Skipped) IN
    /\ Cardinality(done) <= record.count[k]
    /\ \A e \in done : e <= record.last[k]

(* No step, of whatever replica, takes anything back from a record: no     *)
(* read-modify-write undoes another, and events out of order do not turn   *)
(* LastOpenedAt or LastClickedAt back.                                     *)
NothingForgotten ==
  [][ /\ \A k \in Counted :
           /\ record.ids[k] \subseteq record'.ids[k]
           /\ record.count[k] <= record'.count[k]
           /\ record.last[k] <= record'.last[k]
      /\ \A f \in Flags : record.at[f] # 0 => record'.at[f] = record.at[f] ]_vars

(* Every message is dealt with in the end, whatever poller conflicts with  *)
(* whatever other, and none is retried forever.                            *)
EveryEventSettled == \A e \in Events : e \in queue ~> e \notin queue

(* The replicas with their retries implement the single tally.             *)
Tally == INSTANCE EngagementTally WITH
  Failures <- Bounces \cup Complaints,
  opened <- record.ids["OPEN"],
  clicked <- record.ids["CLICK"],
  delivered <- record.at["delivered"],
  failed <- record.at["failed"],
  lastOpened <- record.last["OPEN"],
  lastClicked <- record.last["CLICK"],
  noticed <- {e \in Events : notices[e] # << >>}

ImplementsTally == Tally!Spec

(* "If the event was new (not a deduplicated replay), the handler          *)
(* publishes a typed push event" (docs/email-engagement-tracking.md:19):   *)
(* with no failed publish and no crash, an acknowledged event that is in   *)
(* the record was published.                                               *)
NewEventPublished ==
  \A e \in Events \ (queue \cup Skipped) :
    IF IsCounted(e) THEN notices[e] # << >>
    ELSE \E d \in OfFlag(FlagOf(e)) : notices[d] # << >>
=============================================================================
