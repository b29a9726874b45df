----------------------------- MODULE SendTracking -----------------------------
(***************************************************************************)
(* The send_email path of lfx-v2-email-service: the replicas of the        *)
(* service run SendEmailHandler.HandleData over the two JetStream KV       *)
(* buckets, email-group-index (one list of email ids per group handle) and *)
(* email-recipients (one record per email id).                             *)
(*                                                                         *)
(* Within one replica the requests are handled one at a time (the          *)
(* send_email subscription calls back serially); the replicas interleave   *)
(* between any two KV operations.  A KV write that returns a transport     *)
(* error may never have reached the server, may have been applied, or may  *)
(* be applied later: it goes to the set `late'.                            *)
(*                                                                         *)
(* Names.  Send makes a fresh email id, and a fresh handle when the        *)
(* request supplies none, so both are named after the request: request q   *)
(* sends email q, and the group it opens has handle q.                     *)
(***************************************************************************)
EXTENDS Naturals, Sequences, FiniteSets, SequencesExt

CONSTANTS
  Replicas,        \* the pods of the deployment
  Requests,        \* the send_email requests callers make
  Forged,          \* a well-formed handle this service never issued
  None,            \* no group_id, no request
  MaxGroupEmails,  \* api.MaxGroupEmails
  StoreModes       \* the stores a pod may start with: "kv", "null" (NullTrackingStore)

ASSUME ConstantsAssumption ==
  /\ Forged \notin Requests
  /\ None \notin Requests \cup {Forged}
  /\ MaxGroupEmails \in Nat \ {0}
  /\ StoreModes \subseteq {"kv", "null"}

Handles == Requests \cup {Forged}

VARIABLES
  index,     \* email-group-index: the list under each handle, << >> when absent
  revision,  \* its KV revision, 0 when the key is absent
  record,    \* email-recipients: "absent", "late" (a failed Put that may still land), "stored"
  late,      \* index writes whose sender gave up and which the server may still apply
  store,     \* store[r]: the TrackingStore replica r was started with
  pc,        \* pc[r]: the next step of r's handler, "idle" between requests
  job,       \* job[r]: the request r is handling
  attempt,   \* attempt[r]: the loop variable of AppendToGroup
  seen,      \* seen[r], seenRev[r]: the index value and revision r read last
  seenRev,
  group,     \* group[q]: the group_id request q supplied, or None
  appended,  \* appended[q]: how AppendToGroup ended for q
  reply      \* reply[q]: the answer to q

kvVars == <<index, revision, record, late>>
handlerVars == <<store, pc, job, attempt, seen, seenRev>>
requestVars == <<group, appended, reply>>
vars == <<index, revision, record, late, store, pc, job, attempt, seen, seenRev,
          group, appended, reply>>

Steps == {"idle", "check", "send", "get", "write", "reread", "record", "reply"}
AppendResults == {"none", "ok", "full", "failed", "unavailable"}

(* "tracked" carries the email id and the handle, "bare" the email id      *)
(* alone, "empty" neither; "lost": the replica died before it answered.    *)
Replies == {"none", "handled", "lost", "error", "empty", "bare", "tracked"}

(* A write of the index under the handle of email: base with the email     *)
(* appended, on condition that the revision is still rev.                  *)
IndexWrite == [email : Requests, rev : Nat, base : Seq(Requests)]

-----------------------------------------------------------------------------
Target(q) == IF group[q] = None THEN q ELSE group[q]
NewGroup(q) == group[q] = None

(* The handles callers can know: those returned in a reply.                *)
Known == {Target(q) : q \in {p \in Requests : reply[p] = "tracked"}}

(* Mutant: only a full group withholds the handle.                         *)
WithheldIfFull(q, res) == res = "full"

(* writeTrackingRecords reports false: the handle is not returned.         *)
Withheld(q, res) == res = "full" \/ (res # "ok" /\ NewGroup(q))

Init ==
  /\ index = [h \in Handles |-> << >>]
  /\ revision = [h \in Handles |-> 0]
  /\ record = [q \in Requests |-> "absent"]
  /\ late = {}
  /\ store \in [Replicas -> StoreModes]
  /\ pc = [r \in Replicas |-> "idle"]
  /\ job = [r \in Replicas |-> None]
  /\ attempt = [r \in Replicas |-> 0]
  /\ seen = [r \in Replicas |-> << >>]
  /\ seenRev = [r \in Replicas |-> 0]
  /\ group = [q \in Requests |-> None]
  /\ appended = [q \in Requests |-> "none"]
  /\ reply = [q \in Requests |-> "none"]

GoTo(r, step) ==
  /\ pc' = [pc EXCEPT ![r] = step]
  /\ UNCHANGED <<store, job, attempt, seen, seenRev>>

(* The locals of AppendToGroup go out of scope.                            *)
ForgetRead(r) ==
  /\ seen' = [seen EXCEPT ![r] = << >>]
  /\ seenRev' = [seenRev EXCEPT ![r] = 0]

(* respond is called and the handler returns.                              *)
Answer(r, kind) ==
  /\ reply' = [reply EXCEPT ![job[r]] = kind]
  /\ pc' = [pc EXCEPT ![r] = "idle"]
  /\ job' = [job EXCEPT ![r] = None]
  /\ UNCHANGED <<store, attempt, seen, seenRev, group, appended, kvVars>>

-----------------------------------------------------------------------------
(* A request that fails validation is answered with an error, one whose    *)
(* recipient is filtered with an empty success; nothing is sent or stored. *)
Refuse(r, q) ==
  /\ pc[r] = "idle"
  /\ reply[q] = "none"
  /\ \E kind \in {"error", "empty"} : reply' = [reply EXCEPT ![q] = kind]
  /\ UNCHANGED <<group, appended, kvVars, handlerVars>>

(* A valid request.  A supplied group_id is checked first.                 *)
Accept(r, q) ==
  /\ pc[r] = "idle"
  /\ reply[q] = "none"
  /\ \E g \in Known \cup {Forged, None} :
       /\ group' = [group EXCEPT ![q] = g]
       /\ pc' = [pc EXCEPT ![r] = IF g = None THEN "send" ELSE "check"]
  /\ job' = [job EXCEPT ![r] = q]
  /\ reply' = [reply EXCEPT ![q] = "handled"]
  /\ UNCHANGED <<store, attempt, seen, seenRev, appended, kvVars>>

(* Mutant: the limit is passed by one.                                     *)
FullOneLate(h) == Len(index[h]) > MaxGroupEmails

Full(h) == Len(index[h]) >= MaxGroupEmails

(* Mutant: an unknown group is accepted like an existing one.              *)
GroupUsableIfNotFull(r, h) == store[r] = "kv" => ~ Full(h)

(* Store.GroupExists: an issued group with room left, or no store at all.  *)
GroupUsable(r, h) ==
  store[r] = "kv" => revision[h] # 0 /\ ~ Full(h)

CheckGroup(r) ==
  /\ pc[r] = "check"
  /\ GroupUsable(r, Target(job[r]))
  /\ GoTo(r, "send")
  /\ UNCHANGED <<kvVars, requestVars>>

(* "invalid group_id", "group is full", or "internal error" when the read  *)
(* fails.                                                                  *)
RejectGroup(r) ==
  /\ pc[r] = "check"
  /\ store[r] = "kv"
  /\ Answer(r, "error")

(* The SMTP server takes the email.                                        *)
Send(r) ==
  /\ pc[r] = "send"
  /\ GoTo(r, "get")
  /\ UNCHANGED <<kvVars, requestVars>>

(* "sending throttled" or "email delivery failed".                         *)
SendFails(r) ==
  /\ pc[r] = "send"
  /\ Answer(r, "error")

-----------------------------------------------------------------------------
(* Store.AppendToGroup returns res; writeTrackingRecords goes on to the    *)
(* record unless the handle is withheld.                                   *)
AppendReturns(r, res) ==
  /\ appended' = [appended EXCEPT ![job[r]] = res]
  /\ pc' = [pc EXCEPT ![r] = IF Withheld(job[r], res) THEN "reply" ELSE "record"]
  /\ attempt' = [attempt EXCEPT ![r] = 0]
  /\ ForgetRead(r)
  /\ UNCHANGED <<store, job, group, reply>>

AppendWithoutStore(r) ==
  /\ pc[r] = "get"
  /\ store[r] = "null"
  /\ AppendReturns(r, "unavailable")
  /\ UNCHANGED kvVars

(* Mutant: the email is not looked for before it is appended again.        *)
AlreadyListedNeverAsked(r) == FALSE

(* A failed write may still have been applied: not asked on the first try. *)
AlreadyListed(r) ==
  attempt[r] > 0 /\ Contains(index[Target(job[r])], job[r])

TakeSnapshot(r) ==
  /\ seen' = [seen EXCEPT ![r] = index[Target(job[r])]]
  /\ seenRev' = [seenRev EXCEPT ![r] = revision[Target(job[r])]]
  /\ pc' = [pc EXCEPT ![r] = "write"]
  /\ UNCHANGED <<store, job, attempt, requestVars>>

(* Mutant: the limit is looked at before the email.                        *)
ReadIndexFullFirst(r) ==
  /\ pc[r] = "get"
  /\ store[r] = "kv"
  /\ \/ AppendReturns(r, "failed")
     \/ Full(Target(job[r])) /\ AppendReturns(r, "full")
     \/ ~ Full(Target(job[r])) /\ AlreadyListed(r) /\ AppendReturns(r, "ok")
     \/ ~ Full(Target(job[r])) /\ ~ AlreadyListed(r) /\ TakeSnapshot(r)
  /\ UNCHANGED kvVars

(* The read at the head of each attempt; it may fail.                      *)
ReadIndex(r) ==
  /\ pc[r] = "get"
  /\ store[r] = "kv"
  /\ \/ AppendReturns(r, "failed")
     \/ AlreadyListed(r) /\ AppendReturns(r, "ok")
     \/ ~ AlreadyListed(r) /\ Full(Target(job[r])) /\ AppendReturns(r, "full")
     \/ ~ AlreadyListed(r) /\ ~ Full(Target(job[r])) /\ TakeSnapshot(r)
  /\ UNCHANGED kvVars

(* Mutant: an unconditional Put.                                           *)
MatchesAny(w) == TRUE

(* The server's compare-and-set: Create expects revision 0, Update the     *)
(* revision read.                                                          *)
Matches(w) == revision[Target(w.email)] = w.rev

Apply(w) ==
  /\ index' = [index EXCEPT ![Target(w.email)] = Append(w.base, w.email)]
  /\ revision' = [revision EXCEPT ![Target(w.email)] = @ + 1]

Pending(r) == [email |-> job[r], rev |-> seenRev[r], base |-> seen[r]]

WriteIndex(r) ==
  /\ pc[r] = "write"
  /\ Matches(Pending(r))
  /\ Apply(Pending(r))
  /\ AppendReturns(r, "ok")
  /\ UNCHANGED <<record, late>>

(* Mutant: no bound on the attempts.                                       *)
NextAttemptForever(r) ==
  /\ pc' = [pc EXCEPT ![r] = "get"]
  /\ attempt' = [attempt EXCEPT ![r] = 1]
  /\ ForgetRead(r)
  /\ UNCHANGED <<store, job, requestVars>>

(* Mutant: the attempts are counted and never bounded.                     *)
NextAttemptUncounted(r) ==
  /\ pc' = [pc EXCEPT ![r] = "get"]
  /\ attempt' = [attempt EXCEPT ![r] = @ + 1]
  /\ ForgetRead(r)
  /\ UNCHANGED <<store, job, requestVars>>

(* A lost attempt: once more from the top, then the final read.            *)
NextAttempt(r) ==
  /\ pc' = [pc EXCEPT ![r] = IF attempt[r] = 0 THEN "get" ELSE "reread"]
  /\ attempt' = [attempt EXCEPT ![r] = 1]
  /\ ForgetRead(r)
  /\ UNCHANGED <<store, job, requestVars>>

WriteConflict(r) ==
  /\ pc[r] = "write"
  /\ ~ Matches(Pending(r))
  /\ NextAttempt(r)
  /\ UNCHANGED kvVars

(* The write's answer is lost.  A failed Create aborts, a failed Update is *)
(* retried like a conflict.                                                *)
WriteFails(r) ==
  /\ pc[r] = "write"
  /\ late' = late \cup {Pending(r)}
  /\ \/ seenRev[r] = 0 /\ AppendReturns(r, "failed")
     \/ seenRev[r] # 0 /\ NextAttempt(r)
  /\ UNCHANGED <<index, revision, record>>

(* Mutant: the final read looks at the limit first.                        *)
RereadIndexFullFirst(r) ==
  LET listed == Contains(index[Target(job[r])], job[r])
      full == Full(Target(job[r]))
  IN
  /\ pc[r] = "reread"
  /\ \/ full /\ AppendReturns(r, "full")
     \/ listed /\ ~ full /\ AppendReturns(r, "ok")
     \/ ~ listed /\ ~ full /\ AppendReturns(r, "failed")
  /\ UNCHANGED kvVars

(* The read after both attempts lost their write.                          *)
RereadIndex(r) ==
  LET listed == Contains(index[Target(job[r])], job[r])
      full == Full(Target(job[r]))
  IN
  /\ pc[r] = "reread"
  /\ \/ listed /\ AppendReturns(r, "ok")
     \/ ~ listed /\ full /\ AppendReturns(r, "full")
     \/ ~ listed /\ ~ full /\ AppendReturns(r, "failed")
  /\ UNCHANGED kvVars

RereadFails(r) ==
  /\ pc[r] = "reread"
  /\ AppendReturns(r, "failed")
  /\ UNCHANGED kvVars

(* Store.WriteRecord; its failure is only logged.                          *)
WriteRecord(r) ==
  /\ pc[r] = "record"
  /\ \/ store[r] = "null" /\ UNCHANGED record
     \/ /\ store[r] = "kv"
        /\ \E outcome \in {"late", "stored"} :
             record' = [record EXCEPT ![job[r]] = outcome]
  /\ GoTo(r, "reply")
  /\ UNCHANGED <<index, revision, late, requestVars>>

Respond(r) ==
  /\ pc[r] = "reply"
  /\ Answer(r, IF Withheld(job[r], appended[job[r]]) THEN "bare" ELSE "tracked")

-----------------------------------------------------------------------------
(* The server takes a write whose sender gave up; a stale one is refused.  *)
LateIndexWrite(w) ==
  /\ late' = late \ {w}
  /\ IF Matches(w) THEN Apply(w) ELSE UNCHANGED <<index, revision>>
  /\ UNCHANGED <<record, handlerVars, requestVars>>

LateRecordWrite(q) ==
  /\ record[q] = "late"
  /\ record' = [record EXCEPT ![q] = "stored"]
  /\ UNCHANGED <<index, revision, late, handlerVars, requestVars>>

(* A pod is killed and replaced.  Its request is never answered; the new   *)
(* pod's store depends on whether it reaches the KV buckets at startup.    *)
Restart(r) ==
  /\ reply' = [q \in Requests |-> IF q = job[r] THEN "lost" ELSE reply[q]]
  /\ \E mode \in StoreModes : store' = [store EXCEPT ![r] = mode]
  /\ pc' = [pc EXCEPT ![r] = "idle"]
  /\ job' = [job EXCEPT ![r] = None]
  /\ attempt' = [attempt EXCEPT ![r] = 0]
  /\ ForgetRead(r)
  /\ UNCHANGED <<group, appended, kvVars>>

HandlerStep(r) ==
  \/ CheckGroup(r)
  \/ RejectGroup(r)
  \/ Send(r)
  \/ SendFails(r)
  \/ AppendWithoutStore(r)
  \/ ReadIndex(r)
  \/ WriteIndex(r)
  \/ WriteConflict(r)
  \/ WriteFails(r)
  \/ RereadIndex(r)
  \/ RereadFails(r)
  \/ WriteRecord(r)
  \/ Respond(r)

Next ==
  \/ \E r \in Replicas, q \in Requests : Refuse(r, q) \/ Accept(r, q)
  \/ \E r \in Replicas : HandlerStep(r) \/ Restart(r)
  \/ \E w \in late : LateIndexWrite(w)
  \/ \E q \in Requests : LateRecordWrite(q)

Spec == Init /\ [][Next]_vars

(* A handler runs on: its KV and SMTP calls have timeouts.                 *)
FairSpec == Spec /\ \A r \in Replicas : WF_vars(HandlerStep(r))
-----------------------------------------------------------------------------
KvTypeOK ==
  /\ index \in [Handles -> Seq(Requests)]
  /\ revision \in [Handles -> Nat]
  /\ record \in [Requests -> {"absent", "late", "stored"}]
  /\ late \subseteq IndexWrite

HandlerTypeOK ==
  /\ store \in [Replicas -> {"kv", "null"}]
  /\ pc \in [Replicas -> Steps]
  /\ job \in [Replicas -> Requests \cup {None}]
  /\ attempt \in [Replicas -> {0, 1}]
  /\ seen \in [Replicas -> Seq(Requests)]
  /\ seenRev \in [Replicas -> Nat]

RequestTypeOK ==
  /\ group \in [Requests -> Handles \cup {None}]
  /\ appended \in [Requests -> AppendResults]
  /\ reply \in [Requests -> Replies]

(* Every variable keeps its type: the KV values the handlers read and      *)
(* write (store.go), the handlers' locals, what is known of each request.  *)
TypeOK == KvTypeOK /\ HandlerTypeOK /\ RequestTypeOK

(* AppendToGroup's optimistic concurrency loses and repeats nothing: over  *)
(* all groups an email is listed at most once, in the group of its         *)
(* request, whatever conflicts, lost answers and late writes occurred.     *)
ListedOnce ==
  \A h \in Handles : \A i \in 1..Len(index[h]) :
    /\ Target(index[h][i]) = h
    /\ \A j \in 1..Len(index[h]) : index[h][i] = index[h][j] => i = j

(* The cap check reads a list that others extend before the write; the     *)
(* revision check keeps every list within MaxGroupEmails all the same.     *)
GroupWithinCap == \A h \in Handles : Len(index[h]) <= MaxGroupEmails

(* No write of a stale list erases an entry another replica appended: the  *)
(* value under a handle only ever grows, by one entry at a time.           *)
AppendOnly ==
  [][\A h \in Handles :
       \/ index'[h] = index[h]
       \/ \E q \in Requests : index'[h] = Append(index[h], q)]_index

(* A group that was reported full to a sender never lists its email, not   *)
(* even through a write whose answer was lost (the re-read at the end of   *)
(* AppendToGroup): a withheld handle is no lie.                            *)
FullIsFinal ==
  \A q \in Requests :
    appended[q] = "full" => \A h \in Handles : ~ Contains(index[h], q)

(* A handle returned for a new group works: its index entry exists and the *)
(* email that opened it is the first entry (send_email_handler.go, "Do not *)
(* return a handle the email is not tracked under").                       *)
IssuedHandleWorks ==
  \A q \in Requests :
    reply[q] = "tracked" /\ NewGroup(q) => index[q] # << >> /\ index[q][1] = q

(* "No record is written that only that handle could reach": a record of a *)
(* group opened by its own email is never stored, now or by a late Put,    *)
(* unless the group's index lists it.                                      *)
NoOrphanRecord ==
  \A q \in Requests :
    record[q] # "absent" /\ NewGroup(q) => Contains(index[q], q)

(* Only groups this service issued exist: a list begins with the email     *)
(* that opened the group, and a forged handle never gets one.              *)
OnlyIssuedGroups ==
  \A h \in Handles : index[h] # << >> => index[h][1] = h

(* The index behaves as one atomic append-only log per group and the       *)
(* result AppendToGroup returns is the truth about it (see GroupIndex).    *)
ResultOf(q) ==
  IF appended[q] \in {"failed", "unavailable"} THEN "unknown" ELSE appended[q]

Abstract ==
  INSTANCE GroupIndex WITH
    Emails <- Requests,
    log <- index,
    result <- [q \in Requests |-> ResultOf(q)]

ImplementsAtomicIndex == Abstract!AtomicIndex

(* respond is called: every request a replica takes is answered, unless    *)
(* the replica dies first.                                                 *)
EveryRequestAnswered ==
  \A q \in Requests : reply[q] = "handled" ~> reply[q] # "handled"
=============================================================================
