------------------------------ MODULE GroupReads ------------------------------
(***************************************************************************)
(* Reading a group back: get_email_engagement_analytics and the pages of   *)
(* get_email_status, both over Store.ScanGroupRecords, while the group     *)
(* grows, its records are stored and opens are counted.                    *)
(*                                                                         *)
(* The caller does what README.md tells it to: it asks analytics for       *)
(* total_sent, then pages with offset += limit until total_sent, asking    *)
(* again with a smaller limit when a page is too large and again after any *)
(* other failure.  One call at a time is enough: reads change nothing, so  *)
(* only the writers can disturb one.                                       *)
(***************************************************************************)
EXTENDS Naturals, Sequences, FiniteSets, SequencesExt

CONSTANTS
  Own,                 \* emails sent under the group
  Foreign,             \* emails whose record names another group
  Malformed,           \* index entries that are no UUID
  MaxGroupEmails,      \* api.MaxGroupEmails
  MaxGroupStatusLimit, \* api.MaxGroupStatusLimit
  DefaultLimit,        \* api.DefaultGroupStatusLimit
  Chunk,               \* groupReadConcurrency
  RecordSize,          \* encoded size of a record without opens; each open adds 1
  MaxPayload,          \* nc.MaxPayload()
  MaxOpens,            \* bound: opens of one email
  MaxFaults            \* bound: failed reads, deadlines and refused pages

Entries == Own \cup Foreign \cup Malformed

(* An encoded record is never empty, and a message has room for the two    *)
(* brackets of an empty page.                                              *)
ASSUME ReadsAssumption ==
  /\ Own \cap Malformed = {} /\ Own \cap Foreign = {}
  /\ MaxGroupEmails \in Nat /\ MaxGroupStatusLimit \in Nat \ {0} /\ Chunk \in Nat \ {0}
  /\ DefaultLimit \in 1..MaxGroupStatusLimit
  /\ RecordSize \in Nat \ {0} /\ MaxPayload \in Nat \ {0, 1}
  /\ MaxOpens \in Nat /\ MaxFaults \in Nat

VARIABLES
  index,      \* the group's index, << >> while the key is absent
  stored,     \* the emails whose recipient record is stored
  opens,      \* opens[e]: OpenCount of e's record
  call,       \* the caller's request: "none", "analytics", "page"
  total,      \* total_sent, as the caller knows it
  offset,     \* the page to ask for next
  limit,
  collected,  \* the records of the pages received, in order
  pc,         \* the handler: "idle", "index", "read", "finish", "replied"
  window,     \* the index entries in range
  pos,        \* entries of the window already passed to fn
  got,        \* the reads of the current chunk: position in the window -> result
  out,        \* what fn was given and kept, in order
  size,       \* buf.Len(): the bytes of the page so far
  tooLarge,   \* fn stopped the scan
  expired,    \* ctx is done
  missed,     \* entries whose read failed in this request
  answer,     \* the reply
  known,      \* history: the group's emails with a stored record when the walk began
  before,     \* history: the group's readable records when the request began
  missedAny,  \* history: entries missed since the walk began
  faults

dataVars == <<index, stored, opens>>
callerVars == <<call, total, offset, limit, collected, known, missedAny>>
scanVars == <<window, pos, got, out, size, tooLarge, missed>>
vars == <<index, stored, opens, call, total, offset, limit, collected, pc, window, pos, got, out,
          size, tooLarge, expired, missed, answer, known, before, missedAny, faults>>

(* The opens of all records of s, a sequence or a family of records.       *)
SumOfOpens(s) == SumFunction([i \in DOMAIN s |-> s[i].opens])

(* The records that a lookup of the entries of s can bring, by email.      *)
Readable(s) ==
  [e \in Own \cap stored \cap Range(s) |-> [email |-> e, opens |-> opens[e]]]

Init ==
  /\ index = << >>
  /\ stored = Foreign
  /\ opens = [e \in Entries |-> 0]
  /\ call = "none" /\ total = 0 /\ offset = 0 /\ limit = 1 /\ collected = << >>
  /\ pc = "idle"
  /\ window = << >> /\ pos = 0 /\ got = << >> /\ out = << >> /\ size = 1
  /\ tooLarge = FALSE /\ expired = FALSE /\ missed = {}
  /\ answer = "none"
  /\ known = {} /\ before = << >> /\ missedAny = {}
  /\ faults = 0

Fault == faults < MaxFaults /\ faults' = faults + 1

-----------------------------------------------------------------------------
(* The writers, see SendTracking and Engagement.  Malformed and foreign    *)
(* entries come from other principals that may write the bucket.           *)
AppendEntry(e) ==
  /\ e \notin Range(index)
  /\ Len(index) < MaxGroupEmails
  /\ index' = Append(index, e)
  /\ UNCHANGED <<stored, opens, callerVars, pc, scanVars, expired, answer, before, faults>>

(* Also before the entry: the write of the index may be applied late.      *)
StoreRecord(e) ==
  /\ e \in Own \ stored
  /\ stored' = stored \cup {e}
  /\ UNCHANGED <<index, opens, callerVars, pc, scanVars, expired, answer, before, faults>>

CountOpen(e) ==
  /\ e \in stored \cap Own
  /\ opens[e] < MaxOpens
  /\ opens' = [opens EXCEPT ![e] = @ + 1]
  /\ UNCHANGED <<index, stored, callerVars, pc, scanVars, expired, answer, before, faults>>

-----------------------------------------------------------------------------
(* HandleData: the scan starts.  A request for analytics scans the whole   *)
(* group.                                                                  *)
Begin ==
  /\ pc' = "index"
  /\ window' = << >> /\ pos' = 0 /\ got' = << >> /\ out' = << >> /\ size' = 1
  /\ tooLarge' = FALSE /\ expired' = FALSE /\ missed' = {}
  /\ answer' = "none"
  /\ before' = Readable(index)
  /\ UNCHANGED <<dataVars, faults>>

AskAnalytics ==
  /\ pc = "idle"
  /\ call = "none"
  /\ call' = "analytics"
  /\ collected' = << >>
  /\ known' = DOMAIN Readable(index)
  /\ missedAny' = {}
  /\ Begin
  /\ UNCHANGED <<total, offset, limit>>

(* Mutant: the default is forgotten.                                       *)
PageLimitZero(l) == l

(* HandleData: a limit of 0 is the default.                                *)
PageLimit(l) == IF l = 0 THEN DefaultLimit ELSE l

AskPage ==
  /\ pc = "idle"
  /\ call = "page"
  /\ offset < total
  /\ Begin
  /\ UNCHANGED callerVars

WindowStart == IF call = "page" THEN offset ELSE 0

(* Mutant: the limit is taken for the position to stop at.                 *)
WindowEndIsLimit(n) == IF call = "page" THEN (IF limit < n THEN limit ELSE n) ELSE n

(* Mutant: analytics scans no more than a page.                            *)
WindowEndPaged(n) ==
  LET most == IF limit < MaxGroupEmails THEN limit ELSE MaxGroupEmails
  IN  IF WindowStart + most < n THEN WindowStart + most ELSE n

WindowEnd(n) ==
  LET most == IF call = "page" /\ limit < MaxGroupEmails THEN limit ELSE MaxGroupEmails
  IN  IF WindowStart + most < n THEN WindowStart + most ELSE n

ReplyWith(a) ==
  /\ pc' = "replied"
  /\ answer' = a

(* ScanGroupRecords: the deadline is looked at after the index read.       *)
ReadIndex ==
  /\ pc = "index"
  /\ IF expired THEN ReplyWith("timeout") /\ UNCHANGED window
     ELSE IF index = << >> THEN ReplyWith("not found") /\ UNCHANGED window
     ELSE /\ window' = SubSeq(index, WindowStart + 1, WindowEnd(Len(index)))
          /\ pc' = IF WindowStart >= Len(index) THEN "finish" ELSE "read"
          /\ UNCHANGED answer
  /\ UNCHANGED <<dataVars, callerVars, pos, got, out, size, tooLarge, missed, expired, before,
                 faults>>

ReadIndexFails ==
  /\ pc = "index"
  /\ Fault
  /\ ReplyWith(IF expired THEN "timeout" ELSE "internal error")
  /\ UNCHANGED <<dataVars, callerVars, scanVars, expired, before>>

ChunkEnd == IF pos + Chunk < Len(window) THEN pos + Chunk ELSE Len(window)
ToRead == {i \in pos + 1..ChunkEnd : window[i] \notin Malformed}

(* Each entry of a chunk is read by a goroutine of its own.                *)
Arrive(i, ok) ==
  got' = [j \in DOMAIN got \cup {i} |->
            IF j = i THEN [ok |-> ok, opens |-> IF ok THEN opens[window[i]] ELSE 0] ELSE got[j]]

ReadRecord(i) ==
  /\ pc = "read"
  /\ ~ expired
  /\ i \in ToRead \ DOMAIN got
  /\ Arrive(i, window[i] \in stored)
  /\ UNCHANGED <<dataVars, callerVars, pc, window, pos, out, size, tooLarge, missed, expired,
                 answer, before, faults>>

(* Another failed read is skipped like an absent record.                   *)
ReadRecordFails(i) ==
  /\ pc = "read"
  /\ ~ expired
  /\ i \in ToRead \ DOMAIN got
  /\ Fault
  /\ Arrive(i, FALSE)
  /\ missed' = missed \cup {window[i]}
  /\ UNCHANGED <<dataVars, callerVars, pc, window, pos, out, size, tooLarge, expired, answer,
                 before>>

(* Mutant: the group of the record is not compared.                        *)
BelongsAny(e) == TRUE

Belongs(e) == e \in Own

(* The record of the entry at i was read and is one of this group.         *)
Fetched(i) == i \in DOMAIN got /\ got[i].ok /\ Belongs(window[i])

Record(i) == [email |-> window[i], opens |-> got[i].opens]

RecordLen(r) == RecordSize + r.opens

(* Mutant: the commas are not counted.                                     *)
SeparatorUncounted(n) == 0

(* A comma before every record but the first.                              *)
Separator(n) == IF n > 1 THEN 1 ELSE 0

(* fn, for the record at i: analytics keeps every one; a page stops at the *)
(* first that would not fit with its separator and the closing bracket.    *)
Offer(scan, i) ==
  LET grown == scan.size + Separator(scan.size) + RecordLen(Record(i)) IN
  IF scan.stopped \/ ~ Fetched(i) THEN scan
  ELSE IF call = "analytics" THEN [scan EXCEPT !.out = Append(@, Record(i))]
  ELSE IF grown + 1 > MaxPayload THEN [scan EXCEPT !.stopped = TRUE]
  ELSE [size |-> grown, out |-> Append(scan.out, Record(i)), stopped |-> FALSE]

(* The entries of the chunk are offered in index order.                    *)
Scanned ==
  FoldLeft(Offer, [size |-> size, out |-> out, stopped |-> FALSE],
           [k \in 1..ChunkEnd - pos |-> pos + k])

(* All reads of the chunk are in; fn takes the records one by one.         *)
Consume ==
  /\ pc = "read"
  /\ ~ expired
  /\ ToRead \subseteq DOMAIN got
  /\ out' = Scanned.out
  /\ size' = Scanned.size
  /\ tooLarge' = Scanned.stopped
  /\ pc' = IF Scanned.stopped \/ ChunkEnd = Len(window) THEN "finish" ELSE "read"
  /\ pos' = ChunkEnd
  /\ got' = << >>
  /\ UNCHANGED <<dataVars, callerVars, window, missed, expired, answer, before, faults>>

(* The deadline is noticed before and after every chunk's reads.           *)
ScanExpires ==
  /\ pc = "read"
  /\ expired
  /\ ReplyWith("timeout")
  /\ UNCHANGED <<dataVars, callerVars, scanVars, expired, before, faults>>

(* Mutant: a page that does not fit is an error like any other.            *)
OutcomeAnyError ==
  IF expired THEN "timeout" ELSE IF tooLarge THEN "internal error" ELSE "ok"

(* The scan ends; the deadline comes before a page that does not fit.      *)
Outcome ==
  IF expired THEN "timeout" ELSE IF tooLarge THEN "response too large" ELSE "ok"

Finish ==
  /\ pc = "finish"
  /\ ReplyWith(Outcome)
  /\ UNCHANGED <<dataVars, callerVars, scanVars, expired, before, faults>>

(* context.WithTimeout: the deadline can pass at any point.                *)
Expire ==
  /\ pc \in {"index", "read", "finish"}
  /\ ~ expired
  /\ Fault
  /\ expired' = TRUE
  /\ UNCHANGED <<dataVars, callerVars, pc, scanVars, answer, before>>

-----------------------------------------------------------------------------
(* The caller takes the reply.                                             *)
TakeAnalytics ==
  /\ pc = "replied"
  /\ call = "analytics"
  /\ pc' = "idle"
  /\ IF answer = "ok"
     THEN /\ call' = "page"
          /\ total' = Len(window)
          /\ offset' = 0
          /\ \E l \in 0..MaxGroupStatusLimit : limit' = PageLimit(l)
     ELSE call' = "none" /\ UNCHANGED <<total, offset, limit>>
  /\ UNCHANGED <<dataVars, collected, known, missedAny, scanVars, expired, answer, before, faults>>

TakePage ==
  /\ pc = "replied"
  /\ call = "page"
  /\ answer = "ok"
  /\ pc' = "idle"
  /\ collected' = collected \o out
  /\ offset' = offset + limit
  /\ missedAny' = missedAny \cup missed
  /\ UNCHANGED <<dataVars, call, total, limit, known, scanVars, expired, answer, before, faults>>

TakePageTooLarge ==
  /\ pc = "replied"
  /\ call = "page"
  /\ answer = "response too large"
  /\ pc' = "idle"
  /\ limit > 1
  /\ \E l \in 1..limit - 1 : limit' = l
  /\ UNCHANGED <<dataVars, call, total, offset, collected, known, missedAny, scanVars, expired,
                 answer, before, faults>>

TakePageFailed ==
  /\ pc = "replied"
  /\ call = "page"
  /\ answer \notin {"ok", "response too large"}
  /\ pc' = "idle"
  /\ UNCHANGED <<dataVars, callerVars, scanVars, expired, answer, before, faults>>

(* total_sent reached; the caller may read the group again later.          *)
EndWalk ==
  /\ pc = "idle"
  /\ call = "page"
  /\ offset >= total
  /\ call' = "none"
  /\ UNCHANGED <<dataVars, total, offset, limit, collected, known, missedAny, pc, scanVars,
                 expired, answer, before, faults>>

Writers == \E e \in Entries : AppendEntry(e) \/ StoreRecord(e) \/ CountOpen(e)

Handler ==
  \/ ReadIndex
  \/ ReadIndexFails
  \/ \E i \in 1..Len(window) : ReadRecord(i) \/ ReadRecordFails(i)
  \/ Consume
  \/ ScanExpires
  \/ Finish

Caller == AskPage \/ TakeAnalytics \/ TakePage \/ TakePageTooLarge \/ TakePageFailed \/ EndWalk

Next == Writers \/ AskAnalytics \/ Handler \/ Caller \/ Expire

Spec == Init /\ [][Next]_vars

(* A handler's steps end: its reads have timeouts.  The caller goes on     *)
(* with a walk it has begun.                                               *)
FairSpec == Spec /\ WF_vars(Handler) /\ WF_vars(Caller)

-----------------------------------------------------------------------------
Emails(s) == {r.email : r \in Range(s)}

(* The shape of the state.                                                 *)
TypeOK ==
  /\ index \in Seq(Entries)
  /\ stored \subseteq Entries
  /\ opens \in [Entries -> 0..MaxOpens]
  /\ call \in {"none", "analytics", "page"}
  /\ total \in 0..MaxGroupEmails
  /\ offset \in Nat
  /\ limit \in 1..MaxGroupStatusLimit
  /\ pc \in {"idle", "index", "read", "finish", "replied"}
  /\ window \in Seq(Entries)
  /\ pos \in 0..Len(window)
  /\ DOMAIN got \subseteq pos + 1..Len(window)
  /\ Emails(out) \cup Emails(collected) \cup known \cup missed \cup missedAny \subseteq Entries
  /\ size \in 1..MaxPayload
  /\ tooLarge \in BOOLEAN /\ expired \in BOOLEAN
  /\ answer \in {"none", "ok", "not found", "internal error", "timeout", "response too large"}
  /\ DOMAIN before \subseteq Own
  /\ faults \in 0..MaxFaults

(* A finished walk has brought every email of the group whose record was   *)
(* there when the walk began, whatever was appended and stored meanwhile,  *)
(* and however often a page had to be asked for again, except those whose  *)
(* own read failed.                                                        *)
WalkComplete ==
  pc = "idle" /\ call = "page" /\ offset >= total => known \ missedAny \subseteq Emails(collected)

(* The records of s are of the group's emails between the positions a and  *)
(* b of the index, in the order of the index.                              *)
InOrder(s, a, b) ==
  /\ \A k \in DOMAIN s : \E i \in DOMAIN index :
       a < i /\ i <= b /\ index[i] = s[k].email /\ index[i] \in Own
  /\ \A k, l \in DOMAIN s : k < l =>
       \E i, j \in DOMAIN index : i < j /\ index[i] = s[k].email /\ index[j] = s[l].email

(* A walk never brings an email twice, nor one of another group, and keeps *)
(* the order of the index across its pages.                                *)
WalkInOrder == InOrder(collected, 0, Len(index))

(* What analytics reports lies between what was true when the request came *)
(* and what is true when it is answered.                                   *)
AnalyticsBracketed ==
  pc = "replied" /\ call = "analytics" /\ answer = "ok" /\ missed = {} =>
    /\ SumOfOpens(before) <= SumOfOpens(out)
    /\ SumOfOpens(out) <= SumOfOpens(Readable(index))

(* A reply in JSON: a bracket, and after every record a comma or the       *)
(* closing bracket.                                                        *)
Encoded(s) ==
  IF DOMAIN s = {} THEN 2 ELSE 1 + SumFunction([i \in DOMAIN s |-> RecordLen(s[i]) + 1])

(* The running size that decides about a page is right both ways: NATS can *)
(* carry every page that is sent, and a page is refused only when the      *)
(* records of its window would indeed be too large for one reply.          *)
PageSizeExact ==
  pc = "replied" /\ call = "page" =>
    /\ answer = "ok" => Encoded(out) <= MaxPayload
    /\ answer = "response too large" => Encoded(Readable(window)) > MaxPayload

(* A walk comes to its end: no page is refused again and again, as long as *)
(* every single record fits a reply.                                       *)
EveryWalkEnds == call = "analytics" ~> call = "none"
=============================================================================
