# A TLA+ model of lfx-v2-email-service

The service takes `send_email` requests over NATS, sends the mail over SMTP, keeps per-email and
per-group tracking data in two JetStream KV buckets, folds SES engagement events (from SNS over
SQS) into that data, and answers status and analytics requests. Two replicas run side by side
(`charts/lfx-v2-email-service/values.yaml:16`), with no lock between them: everything shared is in
the KV buckets and in the queue.

This directory holds TLA+ modules for its stateful parts, the TLC configurations that check them,
and TLAPS proofs of every invariant the runs check. `PROJECT.json` maps each definition to the lines it
translates and lists the hazards, the runs, the mutants and the theorems.

## 1. Inventory

| Component | State | Operations | Interacts through |
| --- | --- | --- | --- |
| send_email handler (`internal/service/send_email_handler.go`, `validate.go`) | locals of one request | validate, check group, send, append to group, write record, reply | calls the store and the SMTP sender; called serially per replica |
| KV store (`internal/infrastructure/kv/store.go`, `domain/tracking.go`) | `email-group-index` (a list per group handle), `email-recipients` (a record per email id) | `GroupExists`, `AppendToGroup`, `WriteRecord`, `UpdateRecord`, `GetRecord`, `ScanGroupRecords`; `NullTrackingStore` instead when the buckets are not there | shared by all replicas; optimistic concurrency on KV revisions |
| engagement handler (`internal/service/engagement_event_handler.go`) | none between messages | decode, update the record, publish a notice | called by the poller; `UpdateRecord`; NATS publish |
| SQS poller (`internal/infrastructure/sqs/poller.go`) | consecutive errors, current batch | receive, handle, delete, back off, abort | SQS; its abort ends the process |
| status and analytics handlers (`get_email_status_handler.go`, `get_email_engagement_analytics_handler.go`) | none between requests | validate, scan, build a page or a summary, reply | `ScanGroupRecords`, on goroutines with a bounded number of slots |
| process (`cmd/email-service/main.go`) | subscriptions, read slots, WaitGroup, `done`, context, connection | start, subscribe, dispatch, drain, shut down | all of the above |
| address policy (`domain/policy.go`) | the allow lists | length and form checks, recipient, From and Reply-To lists | send handler, which gets it from the configuration |
| SMTP sender (`infrastructure/smtp`) | one goroutine and a channel of one place per exchange | build a MIME message, deliver with a timeout, tell throttling from failure; a no-op sender | send handler, mail server |
| configuration (`cmd/email-service/config.go`) | none | `parseEnv` | startup; the address policy |
| health probes, logging, tracing, redaction, Helm chart | none of interest | | |

What is hard, and what makes each part correct:

- **Send path.** Replicas append to one JSON list with read, compare, write. A write may lose a
  race, or lose only its answer; the handler retries once and then reads once more to find out what
  happened. The email is already out: nothing can be undone. Correct means: an email is listed
  once, in the right group; no entry is lost; the cap holds though it is checked before the send
  and the append comes after; a handle the caller gets works; one that is withheld left nothing
  behind.
- **Delivery.** `smtp.SendMail` runs on a goroutine that no deadline reaches. The handler may give up,
  the connection break after the text was sent, or the pod die, and the email still go out. Correct
  means: a reply never says more about the email than is certain, a caller that retries when told to
  never delivers twice, a silent server holds nobody up for ever, and nothing leaves for an address
  the allow lists were not asked about.
- **Engagement.** SQS delivers at least once, unordered, perhaps to two replicas at a time. The
  update function runs again on a retry and the handler captures its outcome in locals. Correct
  means: every event counted once while the dedup windows have room, none acknowledged unrecorded,
  at most one notice for it, nothing turned back by an event out of order. And the record stays
  storable: what is forgotten of it for want of bytes is the oldest, and no count goes with it.
- **Reads.** A caller pages through a list that grows meanwhile. Correct means: each email once, in
  order, none skipped by a failure, a deadline or a page that is too large.
- **Process.** A signal, a poller that gives up, a closed connection and a failing startup may come
  in any order. Correct means: the process exits, with the right status, and an orderly exit drops no request.

## 2. Modules

| Module | What it is |
| --- | --- |
| `GroupIndex` | abstract: one atomic append-only log per group, and results that tell the truth about it |
| `SendTracking` | the send path of all replicas over the two buckets |
| `MCSendTracking` | symmetry for TLC |
| `SendTrackingProofs` | the theorems about `SendTracking` |
| `EngagementTally` | abstract: one tally per email without replicas, redelivery or lost answers |
| `Engagement` | the SQS queue, the pollers, `Handle`, `UpdateRecord` and the notices for one email |
| `MCEngagement` | symmetry for TLC |
| `EngagementProofs` | theorems about `Engagement` for any dedup windows |
| `EngagementTallyProofs` | theorems for windows with room, among them the refinement of `EngagementTally` |
| `RecordBudget` | `applyEngagementEvent` and `compactOpenedAtList` on one record, in bytes |
| `MCRecordBudget` | events, sizes and symmetry for TLC |
| `RecordBudgetProofs` | the theorems about `RecordBudget` |
| `AddressPolicy` | the checks of addresses and `parseEnv`, as operators |
| `SendOutcome` | abstract: what each reply to `send_email` promises about the email |
| `MailDelivery` | the handler's checks, the SMTP exchange, the mail server and a caller that retries |
| `MCMailDelivery` | emails and environments for TLC |
| `MailDeliveryProofs` | the theorems about `MailDelivery` |
| `GroupReads` | `ScanGroupRecords` under both read handlers, the writers, and a caller that pages |
| `MCGroupReads` | symmetry for TLC |
| `GroupReadsProofs` | the theorems about `GroupReads` |
| `FoldLemmas` | what folds and sums over finite sets compute, for the two proof modules that need it |
| `Lifecycle` | startup, subscriptions, read slots, poller, shutdown and exit status of one process |
| `LifecycleProofs` | the theorems about `Lifecycle` |

The modules do not share variables. They meet at narrow points, and where two models overlap a theorem
says that they agree: the writers of `GroupReads` are what `SendTracking` does to one group
(`WritersOfAGroup`, a refinement) and what `Engagement` does to one record (`CountedOneByOne`).
`Lifecycle` keeps of a handler only that it is running; `Engagement` keeps of `SendTracking` only the
moment a record is stored.
`MailDelivery` is what `SendTracking` has as one step, the call of the sender; its `GroupRefused` stands
for the check of the group that comes before. `RecordBudget` is what `Engagement` has as one operator,
`Updated`; where it says `Unstorable`, `RecordBudget` shows that the bound of the code leaves none.

### SendTracking

`index`, `revision` and `record` are the buckets. A handler is a program counter `pc[r]` with the
locals of `AppendToGroup` (`attempt`, `seen`, `seenRev`); one step is what happens up to and with
one KV or SMTP call, so replicas interleave between any two calls. A request and its email have one
name, and a new group has the name of the email that opens it: the code draws both at random, and
the model needs only that they are fresh. Callers supply no group, a handle some reply returned
(`Known`), or `Forged`, a well-formed handle nobody issued.

A KV write can succeed, be refused, or fail with a transport error. In the last case it goes to
`late`: the server may have applied it, may apply it at any later time, or never. That is more than
one timeout can do and includes it. A failed `Create` ends the append, a failed `Update` is retried
like a conflict, as in the code. `Restart` kills a pod at any step; the new one has a store or none
(`setupNATSAndKV`).

Left out: the wording and order of the validations (one `Refuse` with an error, or with the empty
success of a filtered recipient, which is also what the no-op sender yields), an index value that is
not JSON (no code here writes one), and the distinction of the replies to a failed check.

### Engagement

One email is enough: records have different keys. An event is named by its timestamp, a positive
number, which also serves as its MessageId, so `LastOpenedAt` is a maximum of names. A record is the
two counts, the dedup sets, the last times and the two flags. `batch`, `event`, `attempt`, `draft`,
`draftRev` and `applied` are the locals of `Poller.Run`, `Handle` and `UpdateRecord`; each call to
KV, NATS or SQS is a step. `applied` and the count in `draft` are the captured variables of the
update closure, set anew by each call of it. Any call may fail (`FaultKinds`, at most `MaxFaults`
times), a failed update goes to `late` as above, and `Crash` restarts a poller.

`Unstorable` marks the events whose updated record the bucket refuses for its size, `Junk` messages
that are no events. `early` remembers events that came before the record was stored: the code
acknowledges them on purpose and they leave no trace. `AckedIsRecorded` therefore exempts them;
that no notice goes out for one is part of `ImplementsTally`.

Left out: the fallback of `parseTimestamp` to the current time and link redaction. The windows are
numbers of entries here; the byte budget, the trimming of `OpenedAtList` and the older `ClickList`
dedup are in `RecordBudget`.

### RecordBudget

The record is the lists and the counts with the number of bytes each takes; `Bytes` is the length of
its JSON. `ApplyOpen`, `ApplyClick` and `ApplyFlag` are calls of `applyEngagementEvent`: look up the
replay, compact (`CompactOpenedAtList`, whose loop is the least number of `TrimStep`s after which the
record fits), apply, and keep an entry only if the record with it still fits. A replayed click or flag
stores the compacted record, a replayed open returns before that. `Init` is any record an older
version could have left: opens beyond the bound with or without an `OpenCount`, clicks in `ClickList`
alone. `counted` is a history of how often each message was counted. How many bytes the scalar fields
take is left open within `MaxScalarBytes`, which is what `HeadroomAssumption` requires of the constants.

### AddressPolicy, MailDelivery and SendOutcome

An address is reduced to what the checks look at: how `net/mail` parses it, the domain after the last
`@` of the text, and the domain a mail server reads in the mailbox `net/smtp` writes. The last two
differ for a local part that needs quotes and for runes `strings.ToLower` folds into ASCII; that they
agree for a plain one is `AddressAssumption`. `ParseEnv` takes a variable that is set to nothing
differently from one that is not set, as `os.LookupEnv` does. `MailDelivery` has the requests of one
replica: `Taken` is the serial subscription, `Refuse`, `SkipRecipient`, `SendNothing` and `SendInvalid`
the early replies in the handler's order, `StartExchange` the goroutine. The mail server is external:
it decides once, at any time or never, and also on a connection whose pod died. `Returned` is what
`SendMail` can then return; an error of the connection may follow an accepted email. `ResultArrives`
and `DeadlinePasses` are the two branches of the `select` and race. `SendOutcome` says in one action
each what an answer means; "failed" and no answer promise nothing.

Left out: the text of the message, and which permanent error a "failed" carries.

### GroupReads

The window of a scan is read once, then its entries in chunks, each entry by a goroutine of its own
(`ReadRecord(i)` in any order), then `fn` takes the chunk in index order: `Consume` is one step, in which
`Scanned` folds `Offer`, one call of `fn`, over the positions of the chunk. `Expire` makes
the deadline pass anywhere. `Readable(s)` is what a lookup of the entries of `s` could bring just now;
`before` and `known` remember it from the start of a request and of a walk. A size is a number: `RecordSize`, one more per open, brackets and commas
as the code counts them. The caller does what `README.md:130-131` tells it to: total from analytics,
pages by offset and limit, a smaller limit after `response too large`, the same page again after any
other failure. The writers append entries, store records and count opens. A record may be stored
before its entry is listed: on an existing group an append that failed does not stop `WriteRecord`, and
its index write may still be applied later. Entries that are no UUID, or whose record names another group, come from other
principals with access to the bucket; the code filters them, so the model has them. The lookup by a
single email id is one read and one comparison and is left out.

### Lifecycle

`main` is where `main()` is in its shutdown, step by step; the poller goroutine's
`pollerAborted.Store`, `cancel` and `done <-` are separate steps because a signal, a lost connection
and the shutdown come in between. A read request takes a slot and a goroutine or is told that the
service is busy; `drainReads` takes all slots. nats.go is external: a draining subscription closes
when its queue is empty, `Drain` closes the connection after its subscriptions, `Close` drops what is
queued and runs the closed handler on another goroutine. The model starts with the first
subscription, from which on requests arrive: `Subscribe`, then `StartWithPoller` or
`StartWithoutPoller`, while `StartupFails` may end the process and a signal, a lost connection or a
request may come at any step. Left out: failures before that, which only exit, the order in which
telemetry is shut down after the wait, and what the poller's message in hand does (a crash step of
`Engagement` covers stopping there).

## 3. Runs

| Run | Instance | Shows |
| --- | --- | --- |
| `send_tracking` | 2 replicas, 4 emails, cap 3, store always there | type, `ListedOnce`, `GroupWithinCap`, `FullIsFinal`, `NoOrphanRecord`, `AppendOnly`, refinement of `GroupIndex` |
| `send_degraded` | 2 replicas, 3 emails, cap 2, pods with or without the store | `IssuedHandleWorks`, `OnlyIssuedGroups`, `EveryRequestAnswered` |
| `engagement` | 2 pollers, 2 opens, a bounce, a complaint, 1 fault of any kind, window not full | type, `SummaryExact`, `AckedIsRecorded`, `NoticeOnce`, `NothingForgotten`, refinement of `EngagementTally` |
| `engagement_window` | 2 pollers, 3 clicks, window 1, 2 faults | `NoticesDistinct`, `CountCoversAcked` when replays are no longer recognised |
| `engagement_settles` | 2 pollers, batches of 2, an open, junk, an unstorable delivery, 1 fault | `EveryEventSettled` |
| `engagement_unpublished` | 1 poller, updates may go unanswered | violates `NewEventPublished` (section 5) |
| `record_budget` | 5 opens, 3 clicks of two sizes, 2 flags, sizes and limits scaled to single digits | `Storable`, `CountsSurviveTrimming`, `ReplayNotCounted`, `ForgottenOnlyWhenFull`, `TrimsOldestOnly` |
| `mail_delivery` | 2 emails, one with any address, 5 environments, 2 tries, 1 crash | type, `DeliveredOnce`, `EnvelopeAdmitted`, refinement of `SendOutcome`, `EveryRequestAnswered` |
| `group_reads` | 3 own entries, 1 foreign, chunks and pages of 2, 1 fault | type, `WalkComplete`, `WalkInOrder`, `AnalyticsBracketed`, `PageSizeExact` |
| `group_walk_ends` | 2 own entries, 1 malformed, pages of up to 3, payload 7 | `EveryWalkEnds` |
| `lifecycle` | 2 read slots, 2 errors to abort, 3 requests | type, `NoRequestDropped`, `AbortFailsProcess`, `ShutdownEnds` |

Each passing property has a mutant in `PROJECT.json`: a mapped definition with a plausible bug (the
operators marked `Mutant:`), under which the same configuration finds the property violated.

### Bounds

- *Replicas and pollers: 2*, as deployed. Two writers suffice for every conflict on one key; each
  handler retries once, so a second conflict needs the other replica to write twice, which it can.
- *Cap 3 with 4 emails*: the group fills while a check that found room is still on its way, and an
  email whose second write also lost finds the group full on the final read. The proofs remove
  these bounds.
- *Faults 1 or 2*: a lost answer followed by a conflict, or a failed delete followed by a replay,
  needs one fault and one redelivery, and redelivery is not a fault. Past the window two are needed
  to have a replay counted and lost again. The late set makes one lost answer act twice.
- *Opens 2, window 2* keeps the window from filling; *window 1* with three clicks fills it.
- *Chunk 2, limit 2, 4 entries*: a page spans parts of chunks, a scan more than one chunk, the end
  of the index falls inside a window and on its edge. `MaxPayload` 7 with records of size 2 holds
  two records without opens and no longer two with an open each.
- *3 requests, 2 slots*: all slots taken and one more request waiting.
- *Bytes*: entries of 2, 1 and up to 4 bytes, a record limit of 8, compaction above 9, a bucket value
  of 12: five opens are too long by number and by size, a click finds room for its id and not for its
  entry, and a flag set just below the compaction limit needs the headroom. Two rounds of every
  message (`MaxApplied`) let a forgotten one be counted again.
- *2 tries, 1 crash*: a retry overtakes an exchange that was given up, and one that was cut off. One
  email ranges over all forms of address, the other is there to wait behind it.
- Cfg bounds that are no bounds of the code: `MaxFaults`, `MaxArrivals`, `MaxOpens`, `MaxApplied`,
  `MaxTries`, `MaxCrashes`.

Symmetry is over replicas, requests, pollers, own entries and the events of `RecordBudget`, which the modules only compare for
equality, and only in runs without liveness properties.

`CHECK_DEADLOCK FALSE` stands in the `Engagement` configurations, where nothing is left to do once
the queue is empty, the record stored and no update late, in `MCLifecycle.cfg`, where the process
exits, and in `MCMailDelivery.cfg`, where every try has been made. Elsewhere deadlock is checked: in
`SendTracking` a pod can always restart, in `GroupReads` a caller can always ask again, in
`RecordBudget` some event can always be applied or replayed.

### Fairness

- `SendTracking!FairSpec`: weak fairness of each replica's handler steps. KV and SMTP calls return
  or time out, so a handler that has begun goes on. Nothing is assumed of late writes or restarts.
- `Engagement!FairSpec`: weak fairness of each poller's steps, and strong fairness of the receipt of
  each message: SQS makes a message that was not deleted visible again. Faults are bounded by
  `MaxFaults`; a queue whose every delete fails would never be emptied.
- `MailDelivery!FairSpec`: weak fairness of the handler of each request, whose deadline is a timer.
  Nothing is assumed of the server, which may stay silent, of `smtp.SendMail`, which has no deadline and
  may wait for a last reply even of a server that accepted the email, of the caller, or of crashes; each
  handler's fairness also covers its turn, since a request ahead of it is always answered. So a goroutine
  of an exchange may stay for ever, and no property says otherwise.
- `GroupReads!FairSpec`: weak fairness of the handler, whose reads time out, and of a caller that
  has begun a walk. The writers and the deadline have none.
- `Lifecycle!FairSpec`: weak fairness of main from startup to exit, the poller's reaction to `cancel`, the abort, the
  closed handler, the HTTP shutdown (within the shutdown budget of 25 s) and the two timers. No request and no drain of
  nats.go is assumed to end.

## 4. Proofs

Seven modules hold theorems about a component, an eighth, `FoldLemmas`, what two of them share. Each of
the seven follows the same plan: an invariant `IInv` that is inductive, one lemma per conjunct or per
kind of step that keeps it, and theorems that read off the properties the runs check. All assume only the
named `ASSUME`s of the module they are about, which TLC evaluates in the runs; the fairness conditions
play no part.

### SendTrackingProofs

`SendTrackingProofs` proves for any sets of replicas and requests and any positive cap, from
`ConstantsAssumption` alone (the two markers are no requests, the cap is positive, the store modes
are the two there are):

| Theorem | Statement |
| --- | --- |
| `TypeCorrect` | `Spec => []TypeOK` |
| `ListedOnceHolds`, `CapHolds`, `OnlyIssuedGroupsHolds`, `FullIsFinalHolds`, `NoOrphanRecordHolds`, `IssuedHandleWorksHolds` | the invariants of the same names |
| `AppendOnlyHolds` | an index changes only by one entry added at its end |
| `ImplementsAtomicIndexHolds` | `SendTracking` implements `GroupIndex!AtomicIndex` |
| `WritersOfAGroup` | for every group handle, `SendTracking` implements the writers of `GroupReads` |

None of the invariants is inductive alone: whether an append keeps `ListedOnce` depends on what a
write in flight was computed from. The strengthening `IInv` says what a handler still knows between
two KV calls. Its heart is `Sound(w)`, for the write a handler is about to make and for every late
one: *if the server would still accept w (its revision is current), then the list w extends is the
current one, does not hold the email, and has room*. Around it stand who handles which request
(`JobsDistinct`), that nothing was written before the first read (`FreshUntilRead`: why the search
for the own email is safe to skip on the first attempt), that a checked group goes on existing
(`GroupExists`), and that results, records and replies are true (`ResultsTrue`, `AnswersTrue`). There
is one lemma per kind of step (`AcceptKeeps`, `AppendReturnsKeeps`, `LateIndexWriteKeeps`, ...), and
`Inductive` collects them. `WriteAccepted` is the common lemma for an applied write, prompt or late.
The refinement maps a prompt write to `TakeEffect` with the result, a late one to `TakeEffect` alone,
a returned append to `Learn`, and all else to a stutter; it rests on `Inductive`.

`WritersOfAGroup` looks at the system from one group, the constant `Group`: its index, its stored records
(`StoredIn`), no opens yet and idle readers, and shows `Readers!Spec` of it, `GroupReads` with all requests
as `Own`. An index change is one `AppendEntry` (from `StepSimulates`: an entry is new and the cap is kept),
a record write, prompt or late, one `StoreRecord` (`StoredSteps`: a request's group is settled when its
record is written, and a record is stored once), and no step is both (`WritersSeen`). So replicas, retries,
late writes and restarts give the readers nothing that `GroupReads` leaves out. Its readers change neither
index nor records, and its opens are those of `CountedOneByOne` below.

### EngagementProofs and EngagementTallyProofs

For any set of pollers, any finite set of events, any batch size, fault kinds and number of faults:

| Theorem | Windows | Statement |
| --- | --- | --- |
| `EngagementProofs!TypeCorrect` | any | `Spec => []TypeOK` |
| `NothingForgottenHolds` | any | no step takes anything back from a record |
| `CountedOneByOne` | any | a step counts one open or click at most, and only in a stored record |
| `CountCoversAckedHolds` | any | counts are never too low, last times never too old |
| `NoticesDistinctHolds` | any | no two notices carry the same count |
| `SummaryExactHolds`, `AckedIsRecordedHolds`, `NoticeOnceHolds` | with room | the invariants of the same names |
| `ImplementsTallyHolds` | with room | `Engagement` implements `EngagementTally` |

*With room* is the hypothesis `HasRoom` of these theorems: no kind has more events than its window
has entries. It is what these four need and no more; without it a redelivered event that was not
remembered is counted again, and the first five theorems say what is left then.

The core is `Sound`: *a write the server would still accept, of a poller (`DraftsSound`) or late
(`LateSound`), is the update of the current record by some event*, and a poller that holds such a write
knows rightly whether its event was new (`applied`). From it `RecordStep`: a record only ever changes
by one update, and then the revision makes all other writes stale; `Effect` says what one update does.
`CountedOneByOne` adds `NothingToUpdate`: while the record is absent no update of it is prepared or late.
It is what `GroupReads!CountOpen` assumes of the pollers.
`CountsCover` strengthens `CountCoversAcked` by the events a poller holds for their deletion and by the
listed ones: an applied late write counts an event that may be counted again. `NoticesFresh` adds to
`NoticesDistinct` the counts about to be published: an update takes a number above all of them.
With room, `Told` says that whoever is to publish an event is the only one and the first, and that
what notices say is in the record, which is also the refinement's step `Notify`.

### RecordBudgetProofs

For any events, sizes and limits that leave the headroom of `HeadroomAssumption`: `TypeCorrect` (no
message is listed twice), `StorableHolds`, `ReplayNotCountedHolds`, `ForgottenOnlyWhenFullHolds`,
`CountsSurviveTrimmingHolds`, `TrimsOldestOnlyHolds`.
`Storable` is not inductive, as a record whose clicks alone fill the bucket could not be trimmed;
`ClicksBounded` adds that what cannot be trimmed is within `maxKVRecordBytes`. `CompactionBounds` is
the lemma about the loop, `ScalarsFit` the one that uses the headroom.

`CountsTrue` is `CountsSurviveTrimming` over sums as functions: a counted event raises one term of one sum
by one (`SumStep`), compaction none, and an old record that lists more opens than it counts starts from
the length of a list without duplicates (`InjectiveLength`). `TrimsOldestOnly` comes from the loop alone:
what stays of the list is a suffix (`SuffixOfRest`), so what was appended first goes first, and with one
step less cut off the list or the record would have been too long (`CutsLeast`, since a record only gets
shorter the more is dropped: `DroppedBytes`).

### GroupReadsProofs

For any entries, group size, chunk, page and payload limits, and any number of faults, from
`ReadsAssumption` (an email of the group is not also foreign or malformed, an encoded record is not
empty, the limits are positive and the default one is allowed, a message has room for `[]`):

| Theorem | Statement |
| --- | --- |
| `TypeCorrect` | `Spec => []TypeOK` |
| `WalkCompleteHolds` | a finished walk has every email it knew of, but those whose read failed |
| `WalkInOrderHolds` | no email twice, none of another group, in the order of the index |
| `AnalyticsBracketedHolds` | the opens reported lie between those at the request and those at the answer |
| `PageSizeExactHolds` | a page sent fits a message, one refused would not have |

A walk spans many requests, a request many steps, and the writers move in between, so the invariant has a
part for each of the three. Of the group, `IndexRight`: nothing is listed twice, and everything a walk
knows of stands within the first `total` entries. Of the walk, `WalkRight`: what was collected is in order
and covers the first `offset` entries. Of the request, `WindowRight` (the window is still the part of the
index it was cut from, and reaches either to its limit or to `total`), `GotRight` (a read is not newer than
the record is now, and for analytics not older than it was then), and `ScanRight` for what `fn` has seen:
what was kept is in order (`Kept`), nothing that is known was left out (`Covered`), the running size is the
length of the encoding, and a scan that stopped has a record of the window that the page has no room for
(`Refused`). `PhaseRight` says which of this may be relied on in which phase.

The writers are one argument: whatever they do is growth (`Grown`, `WritersGrow`), and growth disturbs no
part (`WindowKept`, `GotKept`, `ScanKept`, `WalkKept`). The step with the substance is `Consume`, a whole
chunk at once: `ScannedSteps` unfolds the fold into a chain of calls of `fn`, `OfferRight` shows that one
call keeps `ScanRight`, and `ChunkRight` goes along the chain. The two theorems about sums compare records
of different lists: `SumBelow` says that a sum over one list is at most the sum over another if an
injection takes each term to one at least as large; for a page the injection goes by email, which is where
"no email twice" is needed a second time.

### FoldLemmas

The library's induction theorems take a predicate as a parameter, which no prover here can instantiate.
`FoldLemmas` has induction without one: the predicate is a *set* of numbers (`SetInduction`,
`IntervalInduction`) or of subsets (`SubsetInduction`), and all of it rests on the library's `WFMin`, the
least element of a set of numbers. The fold operators of the community modules choose a recursive function on
subsets; `FoldExists` shows that there is one, after which `FoldLeft` and `SumFunction` can be
unfolded. On this stand the facts about sums: `SumStep`, `SumCounts`, `SumRemove`, `SumBelow`.

### MailDeliveryProofs

For any emails, allow lists, environments and numbers of tries and crashes: `TypeCorrect` (one request
at a time), `DeliveredOnceHolds`, `EnvelopeAdmittedHolds`, `ImplementsOutcomeHolds`. The invariant ties
an exchange's result to the server's verdict (an "ok" means accepted, "throttled" that it was not and
the verdict is final) and a reply to the result it was made from; a second try exists only after a
throttled first one. That the envelope is admitted rests on `AddressAssumption` and on the fact that
only a plain address passes a list that is not empty.

### LifecycleProofs

For any numbers of read slots, tolerated errors and requests: `TypeCorrect` (the WaitGroup is never
negative), `NoRequestDroppedHolds`, `AbortFailsProcessHolds`. The invariant says that the WaitGroup
counts those main still waits for (`WaitCount`), that requests add up (`RequestsAddUp`), that main
leaves the read drain with all slots or late (`SlotsHeld`), that nothing is left where NATS has closed
in order (`DrainsLast`, `HandedOver`, `NothingLeft`), and how far an abort has come (`AbortsInOrder`).

### Only model-checked

The liveness properties (`EveryRequestAnswered`, `EveryEventSettled`, `EveryWalkEnds`,
`ShutdownEnds`), which are outside the prover's reach. Every invariant, action property and refinement
that a passing run checks is also proved.

## 5. Finding

*A new event is never published* (`engagement_event_handler.go:189`, `engagement_unpublished`).
When an update is applied and only its answer is lost, the retry reads its own write, takes the
event for a replay and clears `eventApplied`; the event is stored and acknowledged, but no notice
goes out. `AppendToGroup` handles the same case.

Three more remarks need no run. The index is written before the record, on purpose;
`docs/reviews/knowledge-base/tracking-kv-engagement.md:88` still describes the opposite order. Past the
dedup window a redelivered open is counted again, which `docs/email-service-contract.md:225` documents
and `docs/reviews/knowledge-base/known-false-positives.md:65` denies. And a reply "failed" does not mean
that the email was not sent: the deadline or QUIT may fail after the server took it (`SendOutcome`).

## 6. Not modelled

The text of the MIME message, the redaction of addresses, links and errors, logging, tracing and
telemetry are pure functions or plain I/O. The lookup of a single email id is one read and one
comparison. Of the configuration, hosts, ports and names, which only reach a library; of the HTTP
server, the probes, which read one flag. Test doubles, the chart and the API types carry no behaviour
of their own.

## 7. Plan

The order follows what would hurt most. Done: `SendTracking` with `GroupIndex`, `Engagement` with
`EngagementTally`, `GroupReads`, `Lifecycle` with its startup, `RecordBudget`, `MailDelivery` with
`SendOutcome` and `AddressPolicy`, and proofs of the safety properties of all of them. What is left:

1. `SendTracking` and `MailDelivery` over one set of requests, so that what a retry of the caller does
   to the group index is seen together with what it does to the mailbox.
2. `GroupReads`: the lookup of a single email.
3. A proof that `Engagement!Updated` is what `RecordBudget`'s steps do to the counts while nothing is
   trimmed, like the two proofs for the writers of `GroupReads`.
