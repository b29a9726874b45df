----------------------------- MODULE RecordBudget -----------------------------
(***************************************************************************)
(* The size of one recipient record: what applyEngagementEvent stores of   *)
(* an event, and what compactOpenedAtList forgets, to keep the record      *)
(* within the value size of its KV bucket.  Module Engagement has the      *)
(* replicas and the failures; here one event after another is applied,     *)
(* each any number of times, and bytes are counted.                        *)
(*                                                                         *)
(* Records written before OpenedAtList was bounded are longer than         *)
(* anything the code writes now, and may have no OpenCount; records older  *)
(* still have no ClickEventIDs.                                            *)
(***************************************************************************)
EXTENDS Naturals, Sequences, FiniteSets, FiniteSetsExt, Functions, SequencesExt

CONSTANTS
  Opens, Clicks,     \* OPEN and CLICK events, by their SNS MessageIds
  Flags,             \* the single-fire events: "delivered", "failed"
  OpenBytes,         \* bytes of one entry of OpenedAtList
  IdBytes,           \* bytes of one entry of ClickEventIDs
  EntryBytes,        \* EntryBytes[c]: bytes of c's entry of ClickList, its link included
  BaseBytes,         \* bytes of the fields the handler of the send wrote
  MaxScalarBytes,    \* what flags, counts and time stamps can add to them
  MaxKVRecordBytes, CompactAboveBytes,   \* maxKVRecordBytes, compactAboveBytes
  MaxOpenEvents, MaxClickEventIDs,       \* maxOpenEvents, maxClickEventIDs
  TrimStep,          \* maxOpenEvents / 10: open entries dropped at a time
  MaxValueBytes,     \* maxValueSize of the bucket
  MaxApplied         \* bound: a message counted this often is not delivered again

ASSUME BudgetAssumption ==
  /\ Opens \cap Clicks = {} /\ IsFiniteSet(Opens) /\ IsFiniteSet(Clicks)
  /\ OpenBytes \in Nat /\ IdBytes \in Nat /\ EntryBytes \in [Clicks -> Nat]
  /\ BaseBytes \in Nat /\ MaxScalarBytes \in Nat
  /\ MaxKVRecordBytes \in Nat /\ CompactAboveBytes \in Nat /\ MaxValueBytes \in Nat
  /\ MaxOpenEvents \in Nat \ {0} /\ MaxClickEventIDs \in Nat /\ TrimStep \in Nat \ {0}
  /\ MaxApplied \in Nat

(* The headroom the constants leave: a few scalar fields above             *)
(* compactAboveBytes still fit into the bucket.                            *)
ASSUME HeadroomAssumption ==
  /\ BaseBytes <= MaxKVRecordBytes
  /\ MaxKVRecordBytes <= CompactAboveBytes
  /\ CompactAboveBytes + MaxScalarBytes <= MaxValueBytes

VARIABLES
  record,    \* the stored record, without the fields nothing here depends on
  counted    \* counted[m]: how often message m was counted, in this record's life

vars == <<record, counted>>

(* opens is OpenedAtList, oldest first; openCount is OpenCount; ids is     *)
(* ClickEventIDs and history the MessageIds in ClickList; clickBytes is    *)
(* the size of both; scalarBytes that of what is said of flags, counts     *)
(* and times, which every event may change.                                *)
Record == [opens : Seq(Opens), openCount : Nat, ids : SUBSET Clicks, history : SUBSET Clicks,
           clickCount : Nat, clickBytes : Nat, flags : SUBSET Flags,
           scalarBytes : 0..MaxScalarBytes]

Bytes(rec) == BaseBytes + rec.scalarBytes + OpenBytes * Len(rec.opens) + rec.clickBytes
Fits(rec) == Bytes(rec) <= MaxKVRecordBytes

-----------------------------------------------------------------------------
(* compactOpenedAtList.                                                    *)

(* Mutant: the byte size is not looked at when the list is short enough.   *)
CompactedShortOnly(rec) == Len(rec.opens) <= MaxOpenEvents

Compacted(rec) == Len(rec.opens) <= MaxOpenEvents /\ Bytes(rec) <= CompactAboveBytes

(* Mutant: the newest entries go.                                          *)
WithoutNewest(rec, n) == [rec EXCEPT !.opens = SubSeq(@, 1, Len(@) - n)]

WithoutOldest(rec, n) == [rec EXCEPT !.opens = SubSeq(@, n + 1, Len(@))]

(* How many entries go: those beyond MaxOpenEvents, then TrimStep at a     *)
(* time until the record fits or none is left.                             *)
Cuts(rec) ==
  LET over == IF Len(rec.opens) > MaxOpenEvents THEN Len(rec.opens) - MaxOpenEvents ELSE 0
      stops == {n \in over..Len(rec.opens) :
                  \/ n = Len(rec.opens)
                  \/ (n - over) % TrimStep = 0 /\ Fits(WithoutOldest(rec, n))}
  IN IF rec.opens = << >> \/ Compacted(rec) THEN {0}
     ELSE {n \in stops : \A k \in stops : n <= k}

(* Mutant: OpenCount is left as it is.                                     *)
RaisedNever(rec) == rec

Raised(rec) == [rec EXCEPT !.openCount = IF @ < Len(rec.opens) THEN Len(rec.opens) ELSE @]

CompactOpenedAtList(rec) == {WithoutOldest(Raised(rec), n) : n \in Cuts(rec)}

-----------------------------------------------------------------------------
(* applyEngagementEvent, on a record that compactOpenedAtList returned and *)
(* whose scalar fields have taken b bytes after the event.                 *)

WithOpen(rec, m, b) ==
  LET new == [rec EXCEPT !.openCount = @ + 1, !.scalarBytes = b]
      listed == [new EXCEPT !.opens = Append(@, m)]
  IN IF Len(rec.opens) < MaxOpenEvents /\ Fits(listed) THEN listed ELSE new

(* Mutant: an entry of ClickList that does not fit takes the id with it.   *)
WithClickAllOrNothing(rec, m, b) ==
  LET new == [rec EXCEPT !.clickCount = @ + 1, !.scalarBytes = b]
      idAdded == Cardinality(rec.ids) < MaxClickEventIDs
      withId == IF idAdded THEN [new EXCEPT !.ids = @ \cup {m}, !.clickBytes = @ + IdBytes]
                ELSE new
      withBoth == [withId EXCEPT !.history = @ \cup {m}, !.clickBytes = @ + EntryBytes[m]]
  IN IF Fits(withBoth) THEN withBoth ELSE new

WithClick(rec, m, b) ==
  LET new == [rec EXCEPT !.clickCount = @ + 1, !.scalarBytes = b]
      idAdded == Cardinality(rec.ids) < MaxClickEventIDs
      withId == IF idAdded THEN [new EXCEPT !.ids = @ \cup {m}, !.clickBytes = @ + IdBytes]
                ELSE new
      withBoth == [withId EXCEPT !.history = @ \cup {m}, !.clickBytes = @ + EntryBytes[m]]
  IN CASE Fits(withBoth) -> withBoth
       [] ~ Fits(withBoth) /\ idAdded /\ Fits(withId) -> withId
       [] OTHER -> new

KnownClicks(rec) == rec.ids \cup rec.history
Remembered(rec) == ToSet(rec.opens) \cup KnownClicks(rec)

CountOnce(m) == counted' = [counted EXCEPT ![m] = @ + 1]

(* Mutant: the list is compacted before the replay is looked up.           *)
ApplyOpenAfterCompaction(m) ==
  /\ counted[m] < MaxApplied
  /\ \E rec \in CompactOpenedAtList(record), b \in 0..MaxScalarBytes :
       IF m \in ToSet(rec.opens) THEN record' = rec /\ UNCHANGED counted
       ELSE record' = WithOpen(rec, m, b) /\ CountOnce(m)

ApplyOpen(m) ==
  /\ counted[m] < MaxApplied
  /\ m \notin ToSet(record.opens)
  /\ \E rec \in CompactOpenedAtList(record), b \in 0..MaxScalarBytes :
       record' = WithOpen(rec, m, b)
  /\ CountOnce(m)

ApplyClick(m) ==
  /\ counted[m] < MaxApplied
  /\ m \notin KnownClicks(record)
  /\ \E rec \in CompactOpenedAtList(record), b \in 0..MaxScalarBytes :
       record' = WithClick(rec, m, b)
  /\ CountOnce(m)

(* A replayed click changes no field, but the compacted record is stored.  *)
ReplayClick(m) ==
  /\ m \in KnownClicks(record)
  /\ record' \in CompactOpenedAtList(record)
  /\ UNCHANGED counted

(* DELIVERY, BOUNCE and COMPLAINT: the first one sets the flag and its     *)
(* time stamp, whatever the size.                                          *)
ApplyFlag(f) ==
  /\ f \notin record.flags
  /\ \E rec \in CompactOpenedAtList(record), b \in 0..MaxScalarBytes :
       record' = [rec EXCEPT !.flags = @ \cup {f}, !.scalarBytes = b]
  /\ UNCHANGED counted

ReplayFlag(f) ==
  /\ f \in record.flags
  /\ record' \in CompactOpenedAtList(record)
  /\ UNCHANGED counted

(* A record as it was stored before the bounds: any opens that the bucket  *)
(* had room for, counted or not, and clicks listed in ClickList alone,     *)
(* which were bounded by MaxKVRecordBytes then as now.                     *)
Init ==
  \E opens \in SeqOf(Opens, Cardinality(Opens)), old \in SUBSET Clicks, b \in 0..MaxScalarBytes :
    /\ IsInjective(opens)
    /\ record \in {[opens |-> opens, openCount |-> n, ids |-> {}, history |-> old,
                    clickCount |-> Cardinality(old),
                    clickBytes |-> MapThenSumSet(LAMBDA c : EntryBytes[c], old),
                    flags |-> {}, scalarBytes |-> b] : n \in {0, Len(opens)}}
    /\ record \in Record
    /\ BaseBytes + record.clickBytes <= MaxKVRecordBytes
    /\ Bytes(record) <= MaxValueBytes
    /\ counted = [m \in Opens \cup Clicks |-> IF m \in Remembered(record) THEN 1 ELSE 0]

Next ==
  \/ \E m \in Opens : ApplyOpen(m)
  \/ \E m \in Clicks : ApplyClick(m) \/ ReplayClick(m)
  \/ \E f \in Flags : ApplyFlag(f) \/ ReplayFlag(f)

Spec == Init /\ [][Next]_vars

-----------------------------------------------------------------------------
(* The record is well-typed; a message is listed once in each list.        *)
TypeOK ==
  /\ record \in Record
  /\ IsInjective(record.opens)
  /\ counted \in [Opens \cup Clicks -> Nat]

(* Every record the code stores is within the bucket's value size, however *)
(* large it was when the bounds were introduced: ErrRecordTooLarge, which  *)
(* drops the event (engagement_event_handler.go:204), never happens.       *)
Storable == Bytes(record) <= MaxValueBytes

(* No count is lost when entries are trimmed or find no room: OpenCount,   *)
(* or the longer list of an old record, and ClickCount are the number of   *)
(* times an event was counted.                                             *)
CountsSurviveTrimming ==
  LET total(S) == MapThenSumSet(LAMBDA m : counted[m], S)
      openCount == IF record.openCount < Len(record.opens) THEN Len(record.opens)
                   ELSE record.openCount
  IN openCount = total(Opens) /\ record.clickCount = total(Clicks)

(* A message the record still remembers is not counted again, even when    *)
(* the same update trims it.                                               *)
ReplayNotCounted ==
  [][\A m \in Remembered(record) : counted'[m] = counted[m]]_vars

(* Replay protection lasts while there is room: a counted click is         *)
(* forgotten only if its id alone would not fit or the ids are at their    *)
(* cap, a counted open only if its entry would not fit or OpenedAtList is  *)
(* at its cap; and no click is ever forgotten later.                       *)
ForgottenOnlyWhenFull ==
  [][LET new == {m \in Opens \cup Clicks : counted'[m] > counted[m]} \ Remembered(record')
         noRoom(bytes) == Bytes(record') + bytes > MaxKVRecordBytes
     IN /\ \A m \in new \cap Opens : noRoom(OpenBytes) \/ Len(record'.opens) >= MaxOpenEvents
        /\ \A m \in new \cap Clicks :
             noRoom(IdBytes) \/ Cardinality(record'.ids) >= MaxClickEventIDs
        /\ KnownClicks(record) \subseteq KnownClicks(record')]_vars

(* Opens are forgotten oldest first, and no more of them than needed: the  *)
(* entries that stay are the newest, and with one step more the record     *)
(* would not have fitted or the list would have been too long.             *)
TrimsOldestOnly ==
  [][LET old == record.opens
         new == record'.opens
         kept == IF Len(new) > 0 /\ Last(new) \notin ToSet(old) THEN Front(new) ELSE new
         lost == Len(old) - Len(kept)
     IN /\ IsSuffix(kept, old)
        /\ lost > 0 => \/ Len(kept) + TrimStep > MaxOpenEvents
                       \/ Bytes(WithoutOldest(record, IF lost > TrimStep THEN lost - TrimStep ELSE 0))
                            > MaxKVRecordBytes]_vars
=============================================================================
