-------------------------- MODULE SendTrackingProofs --------------------------
(***************************************************************************)
(* Proofs about SendTracking, for any number of replicas and requests and  *)
(* any cap.  The inductive invariant IInv says, beside the types, what     *)
(* each handler still knows about the index between two KV operations.     *)
(***************************************************************************)
EXTENDS SendTracking, TLAPS

CONSTANT Group \* any one group handle, see WritersOfAGroup

Listed(q) == Contains(index[Target(q)], q)

(* The heart of the argument: when the server still accepts the write w,   *)
(* the list w was computed from is the current one, it does not hold the   *)
(* email yet, it has room, and it is empty only for the email that opens   *)
(* the group.                                                              *)
Sound(w) ==
  /\ w.rev <= revision[Target(w.email)]
  /\ Matches(w) =>
       /\ w.base = index[Target(w.email)]
       /\ ~ Listed(w.email)
       /\ ~ Full(Target(w.email))
  /\ index[Target(w.email)] = << >> => NewGroup(w.email)

WritesSound ==
  /\ \A w \in late : Sound(w) /\ reply[w.email] # "none"
  /\ \A r \in Replicas : pc[r] = "write" => Sound(Pending(r))

(* Who handles what: a request is with at most one replica.                *)
JobsDistinct ==
  /\ \A r \in Replicas : pc[r] = "idle" <=> job[r] = None
  /\ \A r \in Replicas : job[r] # None => reply[job[r]] = "handled"
  /\ \A r, s \in Replicas : job[r] = job[s] /\ job[r] # None => r = s

(* Before its first read of the index a handler has written nothing.       *)
BeforeFirstRead(r) ==
  pc[r] \in {"check", "send"} \/ (pc[r] = "get" /\ attempt[r] = 0)

FreshUntilRead ==
  \A r \in Replicas :
    /\ pc[r] \in {"idle", "check", "send", "record", "reply"} => attempt[r] = 0
    /\ BeforeFirstRead(r) => ~ Listed(job[r]) /\ \A w \in late : w.email # job[r]

(* A handler past the group check, with a store, has a group that exists.  *)
GroupExists ==
  \A r \in Replicas :
    pc[r] \in {"send", "get", "write", "reread"} /\ store[r] = "kv" /\ ~ NewGroup(job[r])
      => index[Target(job[r])] # << >>

(* What is true of the results.                                            *)
ResultsTrue ==
  /\ \A q \in Requests : reply[q] = "none" => appended[q] = "none" /\ record[q] = "absent"
  /\ \A q \in Requests : appended[q] = "ok" => Listed(q)
  /\ \A q \in Requests : appended[q] = "full" => ~ Listed(q) /\ Full(Target(q))
  /\ \A r \in Replicas :
       pc[r] \in {"check", "send", "get", "write", "reread"}
         => appended[job[r]] = "none" /\ record[job[r]] = "absent"
  /\ \A r \in Replicas :
       pc[r] = "record" => ~ Withheld(job[r], appended[job[r]]) /\ record[job[r]] = "absent"
  /\ \A r \in Replicas : pc[r] \in {"record", "reply"} => appended[job[r]] # "none"

(* An answer or a record stands for an append that was not withheld.       *)
AnswersTrue ==
  /\ \A q \in Requests :
       reply[q] = "tracked" => appended[q] # "none" /\ ~ Withheld(q, appended[q])
  /\ \A q \in Requests :
       record[q] # "absent" => appended[q] # "none" /\ ~ Withheld(q, appended[q])

(* Listed emails are those of requests a replica took.                     *)
ListedTaken == \A q \in Requests : Listed(q) => reply[q] # "none"

(* The index alone; its revision counts the writes.                        *)
IndexSound ==
  /\ \A h \in Handles : revision[h] = 0 <=> index[h] = << >>
  /\ ListedOnce
  /\ GroupWithinCap
  /\ OnlyIssuedGroups

IInv ==
  /\ TypeOK
  /\ WritesSound
  /\ JobsDistinct
  /\ FreshUntilRead
  /\ GroupExists
  /\ ResultsTrue
  /\ AnswersTrue
  /\ ListedTaken
  /\ IndexSound

-----------------------------------------------------------------------------
USE ConstantsAssumption

LEMMA TargetType ==
  ASSUME RequestTypeOK, NEW q \in Requests
  PROVE  Target(q) \in Handles
BY DEF RequestTypeOK, Target, Handles

(* A handler that is not idle has a request.                               *)
BusyHasJob == \A r \in Replicas : pc[r] # "idle" => job[r] # None

LEMMA InitType == Init => TypeOK /\ BusyHasJob
<1> SUFFICES ASSUME Init
             PROVE  TypeOK /\ BusyHasJob
  OBVIOUS
<1>1. KvTypeOK
  <2>1. index \in [Handles -> Seq(Requests)]
    BY DEF Init
  <2> QED
    BY <2>1 DEF Init, KvTypeOK
<1>2. HandlerTypeOK
  <2>1. seen \in [Replicas -> Seq(Requests)]
    BY DEF Init
  <2> QED
    BY <2>1 DEF Init, HandlerTypeOK, Steps
<1>3. RequestTypeOK
  BY DEF Init, RequestTypeOK, AppendResults, Replies
<1>4. BusyHasJob
  BY DEF Init, BusyHasJob
<1> QED
  BY <1>1, <1>2, <1>3, <1>4 DEF TypeOK

LEMMA AppendReturnsType ==
  ASSUME HandlerTypeOK, RequestTypeOK, BusyHasJob,
         NEW r \in Replicas, pc[r] # "idle",
         NEW res \in AppendResults, AppendReturns(r, res)
  PROVE  HandlerTypeOK' /\ RequestTypeOK' /\ BusyHasJob'
<1> USE DEF AppendReturns, ForgetRead
<1>1. HandlerTypeOK'
  <2>1. seen' \in [Replicas -> Seq(Requests)]
    BY DEF HandlerTypeOK
  <2> QED
    BY <2>1 DEF HandlerTypeOK, Steps
<1>2. RequestTypeOK'
  BY DEF RequestTypeOK, HandlerTypeOK, BusyHasJob
<1>3. BusyHasJob'
  BY DEF BusyHasJob, HandlerTypeOK
<1> QED
  BY <1>1, <1>2, <1>3

LEMMA NextAttemptType ==
  ASSUME HandlerTypeOK, RequestTypeOK, BusyHasJob,
         NEW r \in Replicas, pc[r] # "idle", NextAttempt(r)
  PROVE  HandlerTypeOK' /\ RequestTypeOK' /\ BusyHasJob'
<1> USE DEF NextAttempt, ForgetRead
<1>1. HandlerTypeOK'
  <2>1. seen' \in [Replicas -> Seq(Requests)]
    BY DEF HandlerTypeOK
  <2> QED
    BY <2>1 DEF HandlerTypeOK, Steps
<1>2. RequestTypeOK'
  BY DEF RequestTypeOK, requestVars
<1>3. BusyHasJob'
  BY DEF BusyHasJob, HandlerTypeOK
<1> QED
  BY <1>1, <1>2, <1>3

LEMMA ApplyType ==
  ASSUME KvTypeOK, RequestTypeOK, NEW w \in IndexWrite, Apply(w)
  PROVE  /\ index' \in [Handles -> Seq(Requests)]
         /\ revision' \in [Handles -> Nat]
<1>1. Target(w.email) \in Handles
  BY TargetType DEF IndexWrite
<1>2. Append(w.base, w.email) \in Seq(Requests)
  BY DEF IndexWrite
<1>3. index' \in [Handles -> Seq(Requests)]
  BY <1>1, <1>2 DEF Apply, KvTypeOK
<1>4. revision' \in [Handles -> Nat]
  BY <1>1 DEF Apply, KvTypeOK
<1> QED
  BY <1>3, <1>4

LEMMA PendingType ==
  ASSUME HandlerTypeOK, BusyHasJob, NEW r \in Replicas, pc[r] # "idle"
  PROVE  Pending(r) \in IndexWrite
BY DEF HandlerTypeOK, BusyHasJob, Pending, IndexWrite

(* No step leaves the types.                                               *)
LEMMA TypeStep ==
  ASSUME TypeOK, BusyHasJob, [Next]_vars
  PROVE  TypeOK' /\ BusyHasJob'
<1> USE DEF TypeOK, kvVars, handlerVars, requestVars
<1>u. UNCHANGED kvVars => KvTypeOK'
  BY DEF KvTypeOK
<1>1. ASSUME NEW r \in Replicas, NEW q \in Requests, Refuse(r, q)
      PROVE  TypeOK' /\ BusyHasJob'
  BY <1>1, <1>u DEF Refuse, HandlerTypeOK, RequestTypeOK, Replies, BusyHasJob
<1>2. ASSUME NEW r \in Replicas, NEW q \in Requests, Accept(r, q)
      PROVE  TypeOK' /\ BusyHasJob'
  <2>1. Known \cup {Forged, None} \subseteq Handles \cup {None}
    BY TargetType DEF Known, Handles
  <2>2. RequestTypeOK'
    BY <1>2, <2>1 DEF Accept, RequestTypeOK, Replies
  <2>3. HandlerTypeOK' /\ BusyHasJob'
    BY <1>2 DEF Accept, HandlerTypeOK, Steps, BusyHasJob
  <2> QED
    BY <1>2, <1>u, <2>2, <2>3 DEF Accept
<1>3. ASSUME NEW r \in Replicas, HandlerStep(r)
      PROVE  TypeOK' /\ BusyHasJob'
  <2>0. \A res \in {"ok", "full", "failed", "unavailable"} : res \in AppendResults
    BY DEF AppendResults
  <2>1. CASE CheckGroup(r)
    BY <2>1, <1>u DEF CheckGroup, GoTo, HandlerTypeOK, RequestTypeOK, Steps, BusyHasJob
  <2>2. ASSUME NEW kind \in Replies, pc[r] # "idle", Answer(r, kind)
        PROVE  TypeOK' /\ BusyHasJob'
    <3>1. HandlerTypeOK' /\ BusyHasJob'
      BY <2>2 DEF Answer, HandlerTypeOK, BusyHasJob, Steps
    <3>2. RequestTypeOK'
      BY <2>2 DEF Answer, HandlerTypeOK, RequestTypeOK, BusyHasJob
    <3> QED
      BY <2>2, <1>u, <3>1, <3>2 DEF Answer
  <2>3. CASE RejectGroup(r) \/ SendFails(r) \/ Respond(r)
    BY <2>2, <2>3 DEF RejectGroup, SendFails, Respond, Replies
  <2>4. CASE Send(r)
    BY <2>4, <1>u DEF Send, GoTo, HandlerTypeOK, RequestTypeOK, Steps, BusyHasJob
  <2>5. CASE AppendWithoutStore(r)
    BY <2>5, <2>0, <1>u, AppendReturnsType DEF AppendWithoutStore
  <2>6. CASE ReadIndex(r)
    <3>1. CASE TakeSnapshot(r)
      <4>1. Target(job[r]) \in Handles
        BY <2>6, TargetType DEF ReadIndex, HandlerTypeOK, BusyHasJob
      <4>2. seen' \in [Replicas -> Seq(Requests)]
        BY <3>1, <4>1 DEF TakeSnapshot, HandlerTypeOK, KvTypeOK
      <4>3. HandlerTypeOK'
        BY <3>1, <4>1, <4>2 DEF TakeSnapshot, HandlerTypeOK, KvTypeOK, Steps
      <4>4. BusyHasJob' /\ RequestTypeOK'
        BY <2>6, <3>1 DEF ReadIndex, TakeSnapshot, HandlerTypeOK, RequestTypeOK, BusyHasJob
      <4> QED
        BY <2>6, <1>u, <4>3, <4>4 DEF ReadIndex
    <3>2. CASE \E res \in {"ok", "full", "failed"} : AppendReturns(r, res)
      BY <2>6, <3>2, <2>0, <1>u, AppendReturnsType DEF ReadIndex
    <3> QED
      BY <2>6, <3>1, <3>2 DEF ReadIndex
  <2>7. CASE WriteIndex(r)
    <3>1. Pending(r) \in IndexWrite
      BY <2>7, PendingType DEF WriteIndex
    <3>2. KvTypeOK'
      BY <2>7, <3>1, ApplyType DEF WriteIndex, KvTypeOK
    <3> QED
      BY <2>7, <2>0, <3>2, AppendReturnsType DEF WriteIndex
  <2>8. CASE WriteConflict(r)
    BY <2>8, <1>u, NextAttemptType DEF WriteConflict
  <2>9. CASE WriteFails(r)
    <3>1. KvTypeOK'
      BY <2>9, PendingType DEF WriteFails, KvTypeOK
    <3> QED
      BY <2>9, <2>0, <3>1, AppendReturnsType, NextAttemptType DEF WriteFails
  <2>10. CASE RereadIndex(r)
    BY <2>10, <2>0, <1>u, AppendReturnsType DEF RereadIndex
  <2>11. CASE RereadFails(r)
    BY <2>11, <2>0, <1>u, AppendReturnsType DEF RereadFails
  <2>12. CASE WriteRecord(r)
    <3>1. KvTypeOK'
      <4>1. ASSUME NEW outcome \in {"late", "stored"},
                   record' = [record EXCEPT ![job[r]] = outcome]
            PROVE  record' \in [Requests -> {"absent", "late", "stored"}]
        BY <4>1 DEF KvTypeOK
      <4>2. record' \in [Requests -> {"absent", "late", "stored"}]
        BY <2>12, <4>1 DEF WriteRecord, KvTypeOK
      <4> QED
        BY <2>12, <4>2 DEF WriteRecord, KvTypeOK
    <3>2. HandlerTypeOK' /\ RequestTypeOK' /\ BusyHasJob'
      BY <2>12 DEF WriteRecord, GoTo, HandlerTypeOK, RequestTypeOK, Steps, BusyHasJob
    <3> QED
      BY <3>1, <3>2
  <2> QED
    BY <1>3, <2>1, <2>3, <2>4, <2>5, <2>6, <2>7, <2>8, <2>9, <2>10, <2>11, <2>12
       DEF HandlerStep
<1>4. ASSUME NEW r \in Replicas, Restart(r)
      PROVE  TypeOK' /\ BusyHasJob'
  <2>1. seen' \in [Replicas -> Seq(Requests)]
    BY <1>4 DEF Restart, ForgetRead, HandlerTypeOK
  <2>2. HandlerTypeOK' /\ BusyHasJob'
    BY <1>4, <2>1 DEF Restart, ForgetRead, HandlerTypeOK, Steps, BusyHasJob
  <2>3. RequestTypeOK'
    BY <1>4 DEF Restart, RequestTypeOK, Replies
  <2> QED
    BY <1>4, <1>u, <2>2, <2>3 DEF Restart
<1>5. ASSUME NEW w \in late, LateIndexWrite(w)
      PROVE  TypeOK' /\ BusyHasJob'
  <2>1. KvTypeOK'
    BY <1>5, ApplyType DEF LateIndexWrite, KvTypeOK
  <2> QED
    BY <1>5, <2>1 DEF LateIndexWrite, HandlerTypeOK, RequestTypeOK, BusyHasJob
<1>6. ASSUME NEW q \in Requests, LateRecordWrite(q)
      PROVE  TypeOK' /\ BusyHasJob'
  <2>1. KvTypeOK'
    BY <1>6 DEF LateRecordWrite, KvTypeOK
  <2> QED
    BY <1>6, <2>1 DEF LateRecordWrite, HandlerTypeOK, RequestTypeOK, BusyHasJob
<1>7. CASE UNCHANGED vars
  BY <1>7, <1>u DEF vars, HandlerTypeOK, RequestTypeOK, BusyHasJob
<1> QED
  BY <1>1, <1>2, <1>3, <1>4, <1>5, <1>6, <1>7 DEF Next

(* Every variable keeps its type, in every behaviour of the send path.     *)
THEOREM TypeCorrect == Spec => []TypeOK
<1>1. Init => TypeOK /\ BusyHasJob
  BY InitType
<1>2. TypeOK /\ BusyHasJob /\ [Next]_vars => (TypeOK /\ BusyHasJob)'
  BY TypeStep
<1> QED
  BY <1>1, <1>2, PTL DEF Spec

-----------------------------------------------------------------------------
(* What a step does to the index, as far as the handlers can tell: e is    *)
(* the email it lists, None when it lists none.                            *)
Extends(e) ==
  /\ group' = group
  /\ \A q \in Requests : Listed(q)' <=> (Listed(q) \/ q = e)
  /\ \A h \in Handles : Full(h) => Full(h)'
  /\ \A h \in Handles : index[h] # << >> => index'[h] # << >>
  /\ \A w \in IndexWrite : Sound(w) => Sound(w)'
  /\ e # None => ~ Full(Target(e))

LEMMA AppendedContains ==
  ASSUME NEW S, NEW s \in Seq(S), NEW e \in S, NEW x
  PROVE  Contains(Append(s, e), x) <=> (Contains(s, x) \/ x = e)
<1>1. Len(Append(s, e)) = Len(s) + 1 /\ Append(s, e)[Len(s) + 1] = e
  OBVIOUS
<1>2. \A i \in 1..Len(s) : Append(s, e)[i] = s[i]
  OBVIOUS
<1> QED
  BY <1>1, <1>2 DEF Contains

(* A step that leaves the index alone.                                     *)
LEMMA NothingListed ==
  ASSUME IndexSound, UNCHANGED <<index, revision, group>>
  PROVE  Extends(None) /\ IndexSound'
<1>1. IndexSound'
  BY DEF IndexSound, ListedOnce, GroupWithinCap, OnlyIssuedGroups, Target
<1>2. None \notin Requests
  BY DEF Handles
<1> QED
  BY <1>1, <1>2 DEF Extends, Listed, Sound, Matches, Full, Target, NewGroup

(* The server accepts a sound write.                                       *)
LEMMA WriteAccepted ==
  ASSUME TypeOK, IndexSound, NEW w \in IndexWrite, Sound(w), Matches(w), Apply(w),
         group' = group
  PROVE  Extends(w.email) /\ IndexSound'
<1> DEFINE h == Target(w.email)
           q == w.email
<1>1. /\ q \in Requests
      /\ h \in Handles
      /\ index \in [Handles -> Seq(Requests)]
      /\ revision \in [Handles -> Nat]
      /\ revision[h] \in Nat
      /\ index[h] \in Seq(Requests)
  BY TargetType DEF TypeOK, IndexWrite, KvTypeOK
<1>2. /\ index' = [index EXCEPT ![h] = Append(index[h], q)]
      /\ revision' = [revision EXCEPT ![h] = revision[h] + 1]
      /\ ~ Contains(index[h], q)
      /\ Len(index[h]) < MaxGroupEmails
      /\ index[h] = << >> => h = q
  <2>1. w.base = index[h] /\ ~ Listed(q) /\ ~ Full(h)
    BY DEF Sound
  <2>2. MaxGroupEmails \in Nat /\ Len(index[h]) \in Nat
    BY <1>1
  <2> QED
    BY <2>1, <2>2 DEF Apply, Listed, Full, Sound, NewGroup, Target
<1>3. \A p : Target(p)' = Target(p)
  BY DEF Target
<1>4. \A x : Contains(index'[h], x) <=> (Contains(index[h], x) \/ x = q)
  BY <1>1, <1>2, AppendedContains
<1>5. \A g \in Handles : g # h => index'[g] = index[g] /\ revision'[g] = revision[g]
  BY <1>1, <1>2
<1>6. /\ index'[h] = Append(index[h], q)
      /\ revision'[h] = revision[h] + 1
      /\ Len(index'[h]) = Len(index[h]) + 1
      /\ index'[h] # << >>
      /\ index'[h][Len(index[h]) + 1] = q
      /\ \A i \in 1..Len(index[h]) : index'[h][i] = index[h][i]
  BY <1>1, <1>2
<1> HIDE DEF h, q
<1>7. \A p \in Requests : Listed(p)' <=> (Listed(p) \/ p = q)
  <2> SUFFICES ASSUME NEW p \in Requests
               PROVE  Listed(p)' <=> (Listed(p) \/ p = q)
    OBVIOUS
  <2>1. Target(p) \in Handles
    BY TargetType DEF TypeOK
  <2>2. Target(q) = h
    BY DEF h, q
  <2> QED
    BY <2>1, <2>2, <1>3, <1>4, <1>5 DEF Listed
<1>8. \A g \in Handles : Full(g) => Full(g)'
  BY <1>1, <1>2, <1>5 DEF Full
<1>9. \A v \in IndexWrite : Sound(v) => Sound(v)'
  <2> SUFFICES ASSUME NEW v \in IndexWrite, Sound(v)
               PROVE  Sound(v)'
    OBVIOUS
  <2>1. v.email \in Requests /\ v.rev \in Nat /\ Target(v.email) \in Handles
    BY TargetType DEF TypeOK, IndexWrite
  <2>2. NewGroup(v.email)' = NewGroup(v.email)
    BY DEF NewGroup
  <2>3. CASE Target(v.email) = h
    <3>1. v.rev <= revision[h]
      BY <2>3 DEF Sound
    <3>2. v.rev < revision'[h]
      BY <3>1, <2>1, <1>1, <1>6
    <3> QED
      BY <3>2, <2>1, <2>3, <1>1, <1>3, <1>6 DEF Sound, Matches
  <2>4. CASE Target(v.email) # h
    <3>1. Listed(v.email)' = Listed(v.email)
      BY <2>1, <2>4, <1>3, <1>5 DEF Listed
    <3> QED
      BY <3>1, <2>1, <2>2, <2>4, <1>3, <1>5 DEF Sound, Matches, Full
  <2> QED
    BY <2>3, <2>4
<1>10. \A g \in Handles : index[g] # << >> => index'[g] # << >>
  BY <1>5, <1>6
<1>11. ~ Full(Target(q))
  BY DEF Sound, q
<1>12. Extends(w.email)
  BY <1>7, <1>8, <1>9, <1>10, <1>11 DEF Extends, q
<1>13. \A g \in Handles : revision'[g] = 0 <=> index'[g] = << >>
  BY <1>1, <1>5, <1>6 DEF IndexSound
<1>14. ListedOnce'
  <2> SUFFICES ASSUME NEW g \in Handles, NEW i \in 1..Len(index'[g])
               PROVE  /\ Target(index[g][i])' = g
                      /\ \A j \in 1..Len(index'[g]) : index'[g][i] = index'[g][j] => i = j
    BY DEF ListedOnce
  <2>1. CASE g # h
    BY <2>1, <1>5 DEF IndexSound, ListedOnce, Target
  <2>2. CASE g = h
    <3>1. Target(q) = h
      BY DEF h, q
    <3>2. \A j \in 1..Len(index[h]) : index[h][j] # q
      BY <1>2 DEF Contains
    <3>3. \A j \in 1..Len(index'[h]) : j \in 1..Len(index[h]) \/ j = Len(index[h]) + 1
      BY <1>1, <1>6
    <3>4. \A k \in 1..Len(index[h]) :
            /\ Target(index[h][k]) = h
            /\ \A j \in 1..Len(index[h]) : index[h][k] = index[h][j] => k = j
      BY <1>1 DEF IndexSound, ListedOnce
    <3>5. CASE i \in 1..Len(index[h])
      <4>1. index'[h][i] = index[h][i]
        BY <3>5, <1>6
      <4>2. Target(index[g][i])' = g
        BY <4>1, <3>4, <3>5, <2>2 DEF Target
      <4>3. \A j \in 1..Len(index'[h]) : index'[h][i] = index'[h][j] => i = j
        BY <3>2, <3>3, <3>4, <3>5, <4>1, <1>6
      <4> QED
        BY <2>2, <4>2, <4>3
    <3>6. CASE i = Len(index[h]) + 1
      <4>1. index'[h][i] = q
        BY <3>6, <1>6
      <4>2. Target(index[g][i])' = g
        BY <4>1, <3>1, <2>2 DEF Target
      <4>3. \A j \in 1..Len(index'[h]) : index'[h][i] = index'[h][j] => i = j
        BY <3>2, <3>3, <3>6, <4>1, <1>6
      <4> QED
        BY <2>2, <4>2, <4>3
    <3> QED
      BY <2>2, <3>3, <3>5, <3>6
  <2> QED
    BY <2>1, <2>2
<1>15. GroupWithinCap'
  BY <1>1, <1>2, <1>5, <1>6 DEF IndexSound, GroupWithinCap
<1>16. OnlyIssuedGroups'
  <2>1. index[h] # << >> => index'[h][1] = index[h][1]
    BY <1>1, <1>6
  <2>2. index[h] = << >> => index'[h][1] = q
    BY <1>6
  <2> QED
    BY <2>1, <2>2, <1>2, <1>5, <1>6 DEF IndexSound, OnlyIssuedGroups, Target
<1> QED
  BY <1>12, <1>13, <1>14, <1>15, <1>16 DEF IndexSound

-----------------------------------------------------------------------------
(* Each step keeps the rest of the invariant.                              *)
Rest ==
  /\ WritesSound
  /\ JobsDistinct
  /\ FreshUntilRead
  /\ GroupExists
  /\ ResultsTrue
  /\ AnswersTrue
  /\ ListedTaken
  /\ IndexSound

LEMMA RefuseKeeps ==
  ASSUME IInv, TypeOK', NEW r \in Replicas, NEW q \in Requests, Refuse(r, q)
  PROVE  Rest'
<1> USE DEF Refuse, kvVars, handlerVars, IInv, TypeOK
<1>0. Extends(None) /\ IndexSound'
  BY NothingListed
<1>1. WritesSound'
  <2>1. \A w : Sound(w)' = Sound(w)
    BY DEF Sound, Matches, Listed, Full, Target, NewGroup
  <2>2. \A p \in Requests : reply[p] # "none" => reply'[p] # "none"
    BY DEF RequestTypeOK
  <2>3. \A w \in late' : Sound(w)' /\ reply'[w.email] # "none"
    <3>1. \A w \in late' : w \in late /\ w.email \in Requests
      BY DEF KvTypeOK, IndexWrite
    <3> QED
      BY <2>1, <2>2, <3>1 DEF WritesSound
  <2>4. \A s \in Replicas : pc'[s] = "write" => Sound(Pending(s))'
    BY DEF WritesSound, Sound, Matches, Listed, Full, Target, NewGroup, Pending
  <2> QED
    BY <2>3, <2>4 DEF WritesSound
<1>2. JobsDistinct'
  BY DEF JobsDistinct, RequestTypeOK
<1>3. FreshUntilRead'
  BY DEF FreshUntilRead, BeforeFirstRead, Listed, Target
<1>4. GroupExists'
  BY DEF GroupExists, NewGroup, Target
<1>5. ResultsTrue'
  BY DEF ResultsTrue, RequestTypeOK, Listed, Full, Target, Withheld, NewGroup
<1>6. AnswersTrue'
  BY DEF AnswersTrue, RequestTypeOK, Withheld, NewGroup
<1>7. ListedTaken'
  BY DEF ListedTaken, RequestTypeOK, Listed, Target
<1> QED
  BY <1>0, <1>1, <1>2, <1>3, <1>4, <1>5, <1>6, <1>7 DEF Rest

LEMMA AcceptKeeps ==
  ASSUME IInv, TypeOK', NEW r \in Replicas, NEW q \in Requests, Accept(r, q)
  PROVE  Rest'
<1> USE DEF Accept, kvVars, IInv, TypeOK
<1>0. /\ q # None
      /\ \A p \in Requests : p # q => group'[p] = group[p] /\ reply'[p] = reply[p]
      /\ reply'[q] = "handled"
      /\ \A s \in Replicas : s # r => job'[s] = job[s] /\ pc'[s] = pc[s]
      /\ job'[r] = q
      /\ pc'[r] \in {"check", "send"}
      /\ pc'[r] = "send" => group'[q] = None
      /\ ~ Listed(q)
      /\ \A w \in late : w.email # q
      /\ \A s \in Replicas : job[s] # q
      /\ job[r] = None
      /\ appended[q] = "none" /\ record[q] = "absent"
  BY DEF RequestTypeOK, HandlerTypeOK, ListedTaken, WritesSound, JobsDistinct, ResultsTrue
<1>1. ~ Listed(q)'
  <2>1. \A h \in Handles : \A i \in 1..Len(index[h]) : index[h][i] # q
    BY <1>0, ConstantsAssumption DEF IndexSound, ListedOnce, Listed, Contains
  <2>2. Target(q)' \in Handles
    BY DEF Target, Handles, RequestTypeOK
  <2> QED
    BY <2>1, <2>2 DEF Listed, Contains
<1>2. \A p \in Requests : p # q =>
        Target(p)' = Target(p) /\ NewGroup(p)' = NewGroup(p) /\ Listed(p)' = Listed(p)
  BY <1>0 DEF Target, NewGroup, Listed
<1>3. WritesSound'
  <2>1. \A w \in late : w.email \in Requests
    BY DEF KvTypeOK, IndexWrite
  <2>2. \A s \in Replicas : pc'[s] = "write" => s # r /\ pc[s] = "write" /\ job[s] \in Requests
    BY <1>0 DEF JobsDistinct, HandlerTypeOK
  <2> QED
    BY <1>0, <1>2, <2>1, <2>2 DEF WritesSound, Sound, Matches, Full, Pending
<1>4. JobsDistinct'
  BY <1>0 DEF JobsDistinct, HandlerTypeOK
<1>5. FreshUntilRead'
  BY <1>0, <1>1, <1>2 DEF FreshUntilRead, BeforeFirstRead, HandlerTypeOK, JobsDistinct
<1>6. GroupExists'
  BY <1>0, <1>2 DEF GroupExists, NewGroup, HandlerTypeOK, JobsDistinct
<1>7. ResultsTrue'
  <2>1. \A s \in Replicas : pc'[s] # "idle" /\ s # r => job[s] \in Requests \ {q}
    BY <1>0 DEF JobsDistinct, HandlerTypeOK
  <2>2. \A p \in Requests : p # q =>
          Full(Target(p))' = Full(Target(p)) /\ Withheld(p, appended[p])' = Withheld(p, appended[p])
    BY <1>2 DEF Full, Withheld
  <2>3. \A s \in Replicas : pc'[s] \in {"record", "reply"} => s # r
    BY <1>0
  <2> QED
    BY <1>0, <1>2, <2>1, <2>2, <2>3 DEF ResultsTrue
<1>8. AnswersTrue'
  BY <1>0, <1>2 DEF AnswersTrue, Withheld
<1>9. ListedTaken'
  BY <1>0, <1>1, <1>2 DEF ListedTaken
<1>10. IndexSound'
  <2>1. \A h \in Handles : \A i \in 1..Len(index[h]) : index[h][i] # q
    BY <1>0 DEF IndexSound, ListedOnce, Listed, Contains
  <2>2. \A h \in Handles : \A i \in 1..Len(index[h]) : index[h][i] \in Requests
    BY DEF KvTypeOK
  <2>3. ListedOnce'
    BY <1>2, <2>1, <2>2 DEF IndexSound, ListedOnce
  <2> QED
    BY <2>3 DEF IndexSound, GroupWithinCap, OnlyIssuedGroups
<1> QED
  BY <1>3, <1>4, <1>5, <1>6, <1>7, <1>8, <1>9, <1>10 DEF Rest

(* A handler that leaves the index alone moves on, its locals cleared.     *)
LEMMA GoToKeeps ==
  ASSUME IInv, TypeOK', NEW r \in Replicas,
         \/ CheckGroup(r)
         \/ Send(r)
  PROVE  Rest'
<1> USE DEF CheckGroup, Send, GoTo, kvVars, requestVars, IInv, TypeOK
<1>0. /\ \A s \in Replicas : s # r => pc'[s] = pc[s]
      /\ \/ pc[r] = "check" /\ pc'[r] = "send"
         \/ pc[r] = "send" /\ pc'[r] = "get"
      /\ UNCHANGED <<index, revision, record, late, group, appended, reply>>
      /\ UNCHANGED <<store, job, attempt, seen, seenRev>>
  <2>1. CASE CheckGroup(r)
    BY <2>1 DEF HandlerTypeOK
  <2>2. CASE Send(r)
    BY <2>2 DEF HandlerTypeOK
  <2> QED
    BY <2>1, <2>2
<1>1. \A q : Listed(q)' = Listed(q) /\ Target(q)' = Target(q) /\ NewGroup(q)' = NewGroup(q)
  BY <1>0 DEF Listed, Target, NewGroup
<1>2. WritesSound'
  BY <1>0, <1>1 DEF WritesSound, Sound, Matches, Full, Pending
<1>3. JobsDistinct'
  BY <1>0 DEF JobsDistinct
<1>4. FreshUntilRead'
  BY <1>0, <1>1 DEF FreshUntilRead, BeforeFirstRead
<1>5. GroupExists'
  <2>1. CASE CheckGroup(r)
    <3>1. job[r] \in Requests
      BY <1>0, <2>1 DEF JobsDistinct, HandlerTypeOK
    <3>2. Target(job[r]) \in Handles
      BY <3>1, TargetType
    <3>3. store[r] = "kv" => index[Target(job[r])] # << >>
      BY <2>1, <3>2 DEF GroupUsable, IndexSound
    <3> QED
      BY <1>0, <1>1, <3>3 DEF GroupExists
  <2>2. CASE Send(r)
    BY <1>0, <1>1, <2>2 DEF GroupExists
  <2> QED
    BY <2>1, <2>2
<1>6. ResultsTrue'
  BY <1>0, <1>1 DEF ResultsTrue, Full, Withheld
<1>7. AnswersTrue'
  BY <1>0, <1>1 DEF AnswersTrue, Withheld
<1>8. ListedTaken'
  BY <1>0, <1>1 DEF ListedTaken
<1>9. IndexSound'
  BY <1>0, NothingListed
<1> QED
  BY <1>2, <1>3, <1>4, <1>5, <1>6, <1>7, <1>8, <1>9 DEF Rest

LEMMA AnswerKeeps ==
  ASSUME IInv, TypeOK', NEW r \in Replicas, RejectGroup(r) \/ SendFails(r) \/ Respond(r)
  PROVE  Rest'
<1> USE DEF kvVars, IInv, TypeOK
<1>0. PICK kind \in {"error", "bare", "tracked"} :
        /\ Answer(r, kind)
        /\ pc[r] \in {"check", "send", "reply"}
        /\ kind = "tracked" => pc[r] = "reply" /\ ~ Withheld(job[r], appended[job[r]])
  BY DEF RejectGroup, SendFails, Respond
<1>1. /\ job[r] \in Requests
      /\ \A s \in Replicas : s # r => pc'[s] = pc[s] /\ job'[s] = job[s] /\ job[s] # job[r]
      /\ pc'[r] = "idle" /\ job'[r] = None
      /\ \A q \in Requests : q # job[r] => reply'[q] = reply[q]
      /\ reply'[job[r]] = kind
      /\ UNCHANGED <<index, revision, record, late, group, appended>>
      /\ UNCHANGED <<store, attempt, seen, seenRev>>
  BY <1>0 DEF Answer, HandlerTypeOK, RequestTypeOK, JobsDistinct
<1>2. \A q : Listed(q)' = Listed(q) /\ Target(q)' = Target(q) /\ NewGroup(q)' = NewGroup(q)
  BY <1>1 DEF Listed, Target, NewGroup
<1>3. WritesSound'
  <2>1. \A w \in late : w.email \in Requests
    BY DEF KvTypeOK, IndexWrite
  <2> QED
    BY <1>1, <1>2, <2>1 DEF WritesSound, Sound, Matches, Full, Pending
<1>4. JobsDistinct'
  <2>1. \A s \in Replicas : job'[s] # None => s # r /\ job[s] \in Requests /\ reply'[job[s]] = reply[job[s]]
    BY <1>1 DEF HandlerTypeOK
  <2> QED
    BY <1>1, <2>1 DEF JobsDistinct
<1>5. FreshUntilRead'
  BY <1>0, <1>1, <1>2 DEF FreshUntilRead, BeforeFirstRead
<1>6. GroupExists'
  BY <1>1, <1>2 DEF GroupExists
<1>7. ResultsTrue'
  BY <1>0, <1>1, <1>2 DEF ResultsTrue, Full, Withheld
<1>8. AnswersTrue'
  BY <1>0, <1>1, <1>2 DEF AnswersTrue, ResultsTrue, Withheld
<1>9. ListedTaken'
  BY <1>1, <1>2 DEF ListedTaken
<1>10. IndexSound'
  BY <1>1, NothingListed
<1> QED
  BY <1>3, <1>4, <1>5, <1>6, <1>7, <1>8, <1>9, <1>10 DEF Rest

(* AppendToGroup returns the truth, in a step that lists e or nothing.     *)
LEMMA AppendReturnsKeeps ==
  ASSUME IInv, TypeOK', IndexSound', NEW r \in Replicas, NEW q \in Requests, q = job[r],
         pc[r] \in {"get", "write", "reread"},
         NEW res \in {"ok", "full", "failed", "unavailable"}, AppendReturns(r, res),
         NEW e \in {None, q}, Extends(e), record' = record,
         \A w \in late' : w \in late \/ (pc[r] = "write" /\ w = Pending(r)),
         res = "ok" => Listed(q)',
         res = "full" => ~ Listed(q)' /\ Full(Target(q))'
  PROVE  Rest'
<1> USE DEF IInv, TypeOK
<1>1. /\ \A s \in Replicas : s # r => /\ pc'[s] = pc[s] /\ job[s] # q
                                     /\ attempt'[s] = attempt[s]
                                     /\ seen'[s] = seen[s] /\ seenRev'[s] = seenRev[s]
      /\ pc'[r] = IF Withheld(q, res) THEN "reply" ELSE "record"
      /\ attempt'[r] = 0
      /\ \A p \in Requests : p # q => appended'[p] = appended[p]
      /\ appended'[q] = res
      /\ reply[q] = "handled"
      /\ appended[q] = "none" /\ record[q] = "absent"
      /\ q # None
      /\ UNCHANGED <<store, job, group, reply>>
  <2>1. \A s \in Replicas : s # r => job[s] # q
    BY DEF JobsDistinct, HandlerTypeOK
  <2>2. reply[q] = "handled" /\ q # None
    BY DEF JobsDistinct
  <2>3. appended[q] = "none" /\ record[q] = "absent"
    BY DEF ResultsTrue
  <2>4. /\ \A p \in Requests : p # q => appended'[p] = appended[p]
        /\ appended'[q] = res
    BY DEF AppendReturns, RequestTypeOK
  <2> QED
    BY <2>1, <2>2, <2>3, <2>4 DEF AppendReturns, ForgetRead, HandlerTypeOK
<1>2. \A p : Target(p)' = Target(p) /\ NewGroup(p)' = NewGroup(p)
  BY <1>1 DEF Target, NewGroup
<1>3. \A p \in Requests : Target(p) \in Handles
  BY TargetType
<1>4. \A p \in Requests : /\ Listed(p)' <=> (Listed(p) \/ p = e)
                          /\ Full(Target(p)) => Full(Target(p))'
  BY <1>2, <1>3 DEF Extends, Full
<1>5. \A w \in IndexWrite : Sound(w) => Sound(w)'
  BY DEF Extends
<1>6. WritesSound'
  <2>1. \A w \in late' : Sound(w)' /\ reply'[w.email] # "none"
    <3> SUFFICES ASSUME NEW w \in late'
                 PROVE  Sound(w)' /\ reply'[w.email] # "none"
      OBVIOUS
    <3>1. w \in IndexWrite
      BY DEF KvTypeOK
    <3>2. Sound(w) /\ reply[w.email] # "none"
      BY <1>1 DEF WritesSound, Pending
    <3> QED
      BY <3>1, <3>2, <1>1, <1>5
  <2>2. ASSUME NEW s \in Replicas, pc'[s] = "write"
        PROVE  Sound(Pending(s))'
    <3>1. s # r /\ pc[s] = "write"
      BY <1>1, <2>2
    <3>2. Pending(s) \in IndexWrite /\ Sound(Pending(s))
      BY <3>1, PendingType DEF WritesSound, JobsDistinct, BusyHasJob
    <3>3. PICK w \in IndexWrite : w = Pending(s)
      BY <3>2
    <3>4. Sound(w)'
      BY <3>2, <3>3, <1>5
    <3>5. Pending(s)' = w
      BY <3>1, <3>3, <1>1 DEF Pending
    <3> QED
      BY <3>4, <3>5
  <2> QED
    BY <2>1, <2>2 DEF WritesSound
<1>7. JobsDistinct'
  BY <1>1 DEF JobsDistinct
<1>8. FreshUntilRead'
  <2>1. \A s \in Replicas : BeforeFirstRead(s)' => s # r /\ BeforeFirstRead(s) /\ job[s] \in Requests
    BY <1>1 DEF BeforeFirstRead, JobsDistinct, HandlerTypeOK
  <2>2. \A s \in Replicas : BeforeFirstRead(s)' => \A w \in late' : w.email # job[s]
    BY <2>1, <1>1 DEF FreshUntilRead, Pending
  <2>3. \A s \in Replicas : BeforeFirstRead(s)' => ~ Listed(job[s])'
    <3> SUFFICES ASSUME NEW s \in Replicas, BeforeFirstRead(s)'
                 PROVE  ~ Listed(job[s])'
      OBVIOUS
    <3>1. PICK p \in Requests : p = job[s]
      BY <2>1
    <3>2. ~ Listed(p) /\ p # q
      BY <2>1, <3>1, <1>1 DEF FreshUntilRead
    <3>3. ~ Listed(p)'
      BY <3>2, <1>1, <1>4
    <3>4. job'[s] = p
      BY <3>1, <1>1
    <3> QED
      BY <3>3, <3>4
  <2> QED
    BY <1>1, <2>2, <2>3 DEF FreshUntilRead
<1>9. GroupExists'
  <2>1. \A s \in Replicas : pc[s] # "idle" => job[s] \in Requests
    BY DEF JobsDistinct, HandlerTypeOK
  <2>2. \A h \in Handles : index[h] # << >> => index'[h] # << >>
    BY DEF Extends
  <2> QED
    BY <1>1, <1>2, <1>3, <2>1, <2>2 DEF GroupExists
<1>10. ResultsTrue'
  <2>1. \A p \in Requests : appended'[p] = "ok" => Listed(p)'
    BY <1>1, <1>4 DEF ResultsTrue
  <2>2. \A p \in Requests : appended'[p] = "full" => ~ Listed(p)' /\ Full(Target(p))'
    BY <1>1, <1>4 DEF ResultsTrue
  <2>3. \A s \in Replicas :
          pc'[s] \in {"check", "send", "get", "write", "reread"}
            => appended'[job[s]] = "none" /\ record'[job[s]] = "absent"
    BY <1>1 DEF ResultsTrue, JobsDistinct, HandlerTypeOK
  <2>4. \A p \in Requests : p # q => Withheld(p, appended[p])' = Withheld(p, appended[p])
    BY <1>1, <1>2 DEF Withheld
  <2>5. Withheld(q, res)' = Withheld(q, res)
    BY <1>2 DEF Withheld
  <2>6. \A s \in Replicas :
          pc'[s] = "record" => ~ Withheld(job[s], appended[job[s]])' /\ record'[job[s]] = "absent"
    <3>1. ASSUME pc'[r] = "record"
          PROVE  ~ Withheld(job[r], appended[job[r]])' /\ record'[job[r]] = "absent"
      BY <3>1, <1>1, <2>5 DEF Withheld
    <3>2. ASSUME NEW s \in Replicas, s # r, pc'[s] = "record"
          PROVE  ~ Withheld(job[s], appended[job[s]])' /\ record'[job[s]] = "absent"
      <4>1. pc[s] = "record" /\ job[s] \in Requests /\ job'[s] = job[s]
        BY <3>2, <1>1 DEF JobsDistinct, HandlerTypeOK
      <4>2. ~ Withheld(job[s], appended[job[s]]) /\ record[job[s]] = "absent"
        BY <4>1 DEF ResultsTrue
      <4>3. appended'[job[s]] = appended[job[s]] /\ record' = record
        BY <4>1, <3>2, <1>1
      <4> QED
        BY <4>1, <4>2, <4>3, <1>1 DEF Withheld, NewGroup
    <3> QED
      BY <3>1, <3>2
  <2>7. \A s \in Replicas : pc'[s] \in {"record", "reply"} => appended'[job[s]] # "none"
    <3>1. \A s \in Replicas : s # r /\ pc[s] # "idle" => job[s] \in Requests \ {q}
      BY <1>1 DEF JobsDistinct, HandlerTypeOK
    <3> QED
      BY <1>1, <3>1 DEF ResultsTrue
  <2>8. \A p \in Requests : reply'[p] = "none" => appended'[p] = "none" /\ record'[p] = "absent"
    BY <1>1 DEF ResultsTrue
  <2> QED
    BY <1>1, <2>1, <2>2, <2>3, <2>6, <2>7, <2>8 DEF ResultsTrue
<1>11. AnswersTrue'
  BY <1>1, <1>2 DEF AnswersTrue, Withheld
<1>12. ListedTaken'
  BY <1>1, <1>4 DEF ListedTaken
<1> QED
  BY <1>6, <1>7, <1>8, <1>9, <1>10, <1>11, <1>12 DEF Rest

(* A lost attempt; the write may still be on its way.                      *)
LEMMA NextAttemptKeeps ==
  ASSUME IInv, TypeOK', NEW r \in Replicas, pc[r] = "write", NextAttempt(r),
         UNCHANGED <<index, revision, record>>,
         \A w \in late' : w \in late \/ w = Pending(r)
  PROVE  Rest'
<1> USE DEF IInv, TypeOK
<1>1. /\ \A s \in Replicas : s # r => pc'[s] = pc[s] /\ attempt'[s] = attempt[s]
                                     /\ seen'[s] = seen[s] /\ seenRev'[s] = seenRev[s]
      /\ pc'[r] \in {"get", "reread"}
      /\ attempt'[r] = 1
      /\ UNCHANGED <<store, job, group, appended, reply>>
      /\ job[r] \in Requests /\ job[r] # None
      /\ \A s \in Replicas : s # r => job[s] # job[r]
      /\ reply[job[r]] = "handled"
  BY DEF NextAttempt, ForgetRead, HandlerTypeOK, JobsDistinct, requestVars
<1>2. \A p : Target(p)' = Target(p) /\ NewGroup(p)' = NewGroup(p) /\ Listed(p)' = Listed(p)
  BY <1>1 DEF Target, NewGroup, Listed
<1>3. \A w : Sound(w)' = Sound(w)
  BY <1>2 DEF Sound, Matches, Full
<1>4. WritesSound'
  <2>1. \A w \in late' : Sound(w)' /\ reply'[w.email] # "none"
    BY <1>1, <1>3 DEF WritesSound, Pending
  <2>2. \A s \in Replicas : pc'[s] = "write" => Pending(s)' = Pending(s) /\ Sound(Pending(s))
    BY <1>1 DEF WritesSound, Pending
  <2>3. \A s \in Replicas : pc'[s] = "write" => Sound(Pending(s))'
    <3>1. ASSUME NEW s \in Replicas, Sound(Pending(s)), Pending(s)' = Pending(s)
          PROVE  Sound(Pending(s))'
      BY <3>1, <1>2 DEF Sound, Matches, Full
    <3> QED
      BY <2>2, <3>1
  <2> QED
    BY <2>1, <2>3 DEF WritesSound
<1>5. JobsDistinct'
  BY <1>1 DEF JobsDistinct
<1>6. FreshUntilRead'
  <2>1. \A s \in Replicas : BeforeFirstRead(s)' => s # r /\ BeforeFirstRead(s)
    BY <1>1 DEF BeforeFirstRead
  <2> QED
    BY <2>1, <1>1, <1>2 DEF FreshUntilRead, Pending
<1>7. GroupExists'
  BY <1>1, <1>2 DEF GroupExists
<1>8. ResultsTrue'
  BY <1>1, <1>2 DEF ResultsTrue, Full, Withheld
<1>9. AnswersTrue'
  BY <1>1, <1>2 DEF AnswersTrue, Withheld
<1>10. ListedTaken'
  BY <1>1, <1>2 DEF ListedTaken
<1>11. IndexSound'
  BY <1>1, NothingListed
<1> QED
  BY <1>4, <1>5, <1>6, <1>7, <1>8, <1>9, <1>10, <1>11 DEF Rest

(* The read that starts an attempt makes a sound write.                    *)
LEMMA TakeSnapshotKeeps ==
  ASSUME IInv, TypeOK', NEW r \in Replicas, pc[r] = "get", store[r] = "kv",
         ~ AlreadyListed(r), ~ Full(Target(job[r])), TakeSnapshot(r), UNCHANGED kvVars
  PROVE  Rest'
<1> USE DEF IInv, TypeOK, kvVars, requestVars
<1>1. /\ \A s \in Replicas : s # r => pc'[s] = pc[s] /\ seen'[s] = seen[s]
                                     /\ seenRev'[s] = seenRev[s]
      /\ pc'[r] = "write"
      /\ seen'[r] = index[Target(job[r])]
      /\ seenRev'[r] = revision[Target(job[r])]
      /\ UNCHANGED <<store, job, attempt, group, appended, reply>>
      /\ job[r] \in Requests
  BY DEF TakeSnapshot, HandlerTypeOK, JobsDistinct
<1>2. \A p : Target(p)' = Target(p) /\ NewGroup(p)' = NewGroup(p) /\ Listed(p)' = Listed(p)
  BY <1>1 DEF Target, NewGroup, Listed
<1>3. ~ Listed(job[r])
  BY DEF AlreadyListed, Listed, FreshUntilRead, BeforeFirstRead, HandlerTypeOK
<1>4. WritesSound'
  <2>1. revision[Target(job[r])] \in Nat
    BY <1>1, TargetType DEF KvTypeOK
  <2>2. Sound(Pending(r))'
    BY <2>1, <1>1, <1>2, <1>3 DEF Sound, Matches, Full, Pending, Listed, GroupExists
  <2>3. \A s \in Replicas : s # r /\ pc'[s] = "write" => Sound(Pending(s))'
    BY <1>1, <1>2 DEF Sound, Matches, Full, Pending, Listed, WritesSound
  <2>4. \A w \in late' : Sound(w)' /\ reply'[w.email] # "none"
    BY <1>1, <1>2 DEF Sound, Matches, Full, Listed, WritesSound
  <2> QED
    BY <2>2, <2>3, <2>4 DEF WritesSound
<1>5. JobsDistinct'
  BY <1>1 DEF JobsDistinct
<1>6. FreshUntilRead'
  BY <1>1, <1>2 DEF FreshUntilRead, BeforeFirstRead
<1>7. GroupExists'
  BY <1>1, <1>2 DEF GroupExists
<1>8. ResultsTrue'
  BY <1>1, <1>2 DEF ResultsTrue, Full, Withheld
<1>9. AnswersTrue'
  BY <1>1, <1>2 DEF AnswersTrue, Withheld
<1>10. ListedTaken'
  BY <1>1, <1>2 DEF ListedTaken
<1>11. IndexSound'
  BY <1>1, NothingListed
<1> QED
  BY <1>4, <1>5, <1>6, <1>7, <1>8, <1>9, <1>10, <1>11 DEF Rest

LEMMA RecordKeeps ==
  ASSUME IInv, TypeOK',
         \/ \E r \in Replicas : WriteRecord(r)
         \/ \E q \in Requests : LateRecordWrite(q)
  PROVE  Rest'
<1> USE DEF IInv, TypeOK, kvVars, requestVars, handlerVars
<1>1. /\ \A s \in Replicas : pc'[s] = pc[s] \/ (pc[s] = "record" /\ pc'[s] = "reply")
      /\ \A q \in Requests :
           \/ record'[q] = record[q]
           \/ /\ record[q] # "absent"
              /\ appended[q] # "none"
           \/ \E r \in Replicas :
                pc[r] = "record" /\ pc'[r] = "reply" /\ job[r] = q
      /\ UNCHANGED <<index, revision, late, store, job, attempt, seen, seenRev, group, appended, reply>>
  <2>1. ASSUME NEW r \in Replicas, WriteRecord(r)
        PROVE  <1>1!:
    BY <2>1 DEF WriteRecord, GoTo, HandlerTypeOK, KvTypeOK
  <2>2. ASSUME NEW q \in Requests, LateRecordWrite(q)
        PROVE  <1>1!:
    BY <2>2 DEF LateRecordWrite, KvTypeOK, AnswersTrue
  <2> QED
    BY <2>1, <2>2
<1>2. \A p : Target(p)' = Target(p) /\ NewGroup(p)' = NewGroup(p) /\ Listed(p)' = Listed(p)
  BY <1>1 DEF Target, NewGroup, Listed
<1>3. WritesSound'
  BY <1>1, <1>2 DEF Sound, Matches, Full, Pending, WritesSound
<1>4. JobsDistinct'
  BY <1>1 DEF JobsDistinct
<1>5. FreshUntilRead'
  BY <1>1, <1>2 DEF FreshUntilRead, BeforeFirstRead
<1>6. GroupExists'
  BY <1>1, <1>2 DEF GroupExists
<1>7. ResultsTrue'
  <2>1. \A q \in Requests : reply[q] = "none" => record'[q] = record[q]
    BY <1>1 DEF ResultsTrue, JobsDistinct
  <2>2. \A s \in Replicas :
          pc'[s] \in {"check", "send", "get", "write", "reread", "record"}
            => pc[s] = pc'[s] /\ record'[job[s]] = record[job[s]]
    <3> SUFFICES ASSUME NEW s \in Replicas,
                        pc'[s] \in {"check", "send", "get", "write", "reread", "record"}
                 PROVE  pc[s] = pc'[s] /\ record'[job[s]] = record[job[s]]
      OBVIOUS
    <3>1. pc[s] = pc'[s]
      BY <1>1
    <3>2. job[s] \in Requests /\ job[s] # None
      BY <3>1 DEF JobsDistinct, HandlerTypeOK
    <3>3. record[job[s]] = "absent"
      BY <3>1 DEF ResultsTrue
    <3>4. \A r \in Replicas : job[r] = job[s] => r = s
      BY <3>2 DEF JobsDistinct
    <3> QED
      BY <3>1, <3>2, <3>3, <3>4, <1>1
  <2> QED
    BY <1>1, <1>2, <2>1, <2>2 DEF ResultsTrue, Full, Withheld
<1>8. AnswersTrue'
  BY <1>1, <1>2 DEF AnswersTrue, ResultsTrue, Withheld
<1>9. ListedTaken'
  BY <1>1, <1>2 DEF ListedTaken
<1>10. IndexSound'
  BY <1>1, NothingListed
<1> QED
  BY <1>3, <1>4, <1>5, <1>6, <1>7, <1>8, <1>9, <1>10 DEF Rest

(* A write whose sender gave up reaches the server.                        *)
LEMMA LateIndexWriteKeeps ==
  ASSUME IInv, TypeOK', NEW w \in late, LateIndexWrite(w)
  PROVE  Rest'
<1> USE DEF IInv, TypeOK, requestVars, handlerVars
<1>1. /\ w \in IndexWrite /\ w.email \in Requests /\ Sound(w) /\ reply[w.email] # "none"
      /\ w.email # None
      /\ late' \subseteq late
      /\ UNCHANGED <<record, store, pc, job, attempt, seen, seenRev, group, appended, reply>>
  BY DEF LateIndexWrite, KvTypeOK, IndexWrite, WritesSound
<1>2. PICK e \in {None, w.email} : Extends(e) /\ IndexSound'
  <2>1. CASE Matches(w)
    BY <1>1, <2>1, WriteAccepted DEF LateIndexWrite
  <2>2. CASE ~ Matches(w)
    BY <1>1, <2>2, NothingListed DEF LateIndexWrite
  <2> QED
    BY <2>1, <2>2
<1>3. \A p : Target(p)' = Target(p) /\ NewGroup(p)' = NewGroup(p)
  BY <1>1 DEF Target, NewGroup
<1>4. \A p \in Requests : /\ Target(p) \in Handles
                          /\ Listed(p)' <=> (Listed(p) \/ p = e)
                          /\ Full(Target(p)) => Full(Target(p))'
  BY <1>2, <1>3, TargetType DEF Extends, Full
<1>5. \A v \in IndexWrite : Sound(v) => Sound(v)'
  BY <1>2 DEF Extends
<1>6. \A s \in Replicas : pc[s] # "idle" => job[s] \in Requests
  BY DEF JobsDistinct, HandlerTypeOK
<1>7. \A s \in Replicas : BeforeFirstRead(s) => job[s] # e
  BY <1>1, <1>2, <1>6 DEF FreshUntilRead, BeforeFirstRead
<1>8. WritesSound'
  <2>1. \A v \in late' : Sound(v)' /\ reply'[v.email] # "none"
    BY <1>1, <1>5 DEF WritesSound, KvTypeOK
  <2>2. ASSUME NEW s \in Replicas, pc'[s] = "write"
        PROVE  Sound(Pending(s))'
    <3>1. Pending(s) \in IndexWrite /\ Sound(Pending(s))
      BY <2>2, <1>1, PendingType DEF WritesSound, JobsDistinct, BusyHasJob
    <3>2. PICK v \in IndexWrite : v = Pending(s)
      BY <3>1
    <3>3. Sound(v)'
      BY <3>1, <3>2, <1>5
    <3>4. Pending(s)' = v
      BY <3>2, <1>1 DEF Pending
    <3> QED
      BY <3>3, <3>4
  <2> QED
    BY <2>1, <2>2 DEF WritesSound
<1>9. JobsDistinct'
  BY <1>1 DEF JobsDistinct
<1>10. FreshUntilRead'
  <2>1. ASSUME NEW s \in Replicas, BeforeFirstRead(s)'
        PROVE  ~ Listed(job[s])'
    <3>1. BeforeFirstRead(s) /\ job[s] \in Requests
      BY <2>1, <1>1, <1>6 DEF BeforeFirstRead
    <3>2. PICK p \in Requests : p = job[s]
      BY <3>1
    <3>3. ~ Listed(p) /\ p # e
      BY <3>1, <3>2, <1>7 DEF FreshUntilRead
    <3>4. ~ Listed(p)'
      BY <3>3, <1>4
    <3> QED
      BY <3>2, <3>4, <1>1
  <2> QED
    BY <2>1, <1>1 DEF FreshUntilRead, BeforeFirstRead
<1>11. GroupExists'
  <2>1. \A h \in Handles : index[h] # << >> => index'[h] # << >>
    BY <1>2 DEF Extends
  <2> QED
    BY <2>1, <1>1, <1>3, <1>4, <1>6 DEF GroupExists
<1>12. ResultsTrue'
  <2>1. \A p \in Requests : appended'[p] = "ok" => Listed(p)'
    BY <1>1, <1>4 DEF ResultsTrue
  <2>2. e # None => ~ Full(Target(e))
    BY <1>2 DEF Extends
  <2>3. \A p \in Requests : appended'[p] = "full" => ~ Listed(p)' /\ Full(Target(p))'
    BY <1>1, <1>4, <2>2 DEF ResultsTrue
  <2> QED
    BY <2>1, <2>3, <1>1, <1>3 DEF ResultsTrue, Withheld
<1>13. AnswersTrue'
  BY <1>1, <1>3 DEF AnswersTrue, Withheld
<1>14. ListedTaken'
  BY <1>1, <1>4 DEF ListedTaken
<1> QED
  BY <1>2, <1>8, <1>9, <1>10, <1>11, <1>12, <1>13, <1>14 DEF Rest

(* A pod that dies takes its locals with it; its writes stay.              *)
LEMMA RestartKeeps ==
  ASSUME IInv, TypeOK', NEW r \in Replicas, Restart(r)
  PROVE  Rest'
<1> USE DEF IInv, TypeOK, kvVars
<1>1. /\ \A s \in Replicas : s # r => /\ pc'[s] = pc[s] /\ job'[s] = job[s]
                                     /\ attempt'[s] = attempt[s] /\ store'[s] = store[s]
                                     /\ seen'[s] = seen[s] /\ seenRev'[s] = seenRev[s]
      /\ pc'[r] = "idle" /\ job'[r] = None /\ attempt'[r] = 0
      /\ \A q \in Requests : reply'[q] = IF q = job[r] THEN "lost" ELSE reply[q]
      /\ \A q \in Requests : reply'[q] = "none" <=> reply[q] = "none"
      /\ UNCHANGED <<index, revision, record, late, group, appended>>
  <2>1. \A q \in Requests : reply'[q] = IF q = job[r] THEN "lost" ELSE reply[q]
    BY DEF Restart
  <2>2. \A q \in Requests : q = job[r] => reply[q] = "handled"
    BY DEF JobsDistinct
  <2>3. \A q \in Requests : reply'[q] = "none" <=> reply[q] = "none"
    BY <2>1, <2>2
  <2> QED
    BY <2>1, <2>3 DEF Restart, ForgetRead, HandlerTypeOK
<1>2. \A p : Target(p)' = Target(p) /\ NewGroup(p)' = NewGroup(p) /\ Listed(p)' = Listed(p)
  BY <1>1 DEF Target, NewGroup, Listed
<1>3. WritesSound'
  <2>1. \A w \in late : w.email \in Requests
    BY DEF KvTypeOK, IndexWrite
  <2> QED
    BY <1>1, <1>2, <2>1 DEF Sound, Matches, Full, Pending, WritesSound
<1>4. JobsDistinct'
  <2>1. \A s \in Replicas : job'[s] # None => /\ s # r /\ job[s] \in Requests
                                             /\ job[s] # job[r]
    BY <1>1 DEF JobsDistinct, HandlerTypeOK
  <2> QED
    BY <1>1, <2>1 DEF JobsDistinct
<1>5. FreshUntilRead'
  BY <1>1, <1>2 DEF FreshUntilRead, BeforeFirstRead
<1>6. GroupExists'
  BY <1>1, <1>2 DEF GroupExists
<1>7. ResultsTrue'
  BY <1>1, <1>2 DEF ResultsTrue, Full, Withheld
<1>8. AnswersTrue'
  BY <1>1, <1>2 DEF AnswersTrue, Withheld
<1>9. ListedTaken'
  BY <1>1, <1>2 DEF ListedTaken
<1>10. IndexSound'
  BY <1>1, NothingListed
<1> QED
  BY <1>3, <1>4, <1>5, <1>6, <1>7, <1>8, <1>9, <1>10 DEF Rest

LEMMA HandlerStepKeeps ==
  ASSUME IInv, TypeOK', NEW r \in Replicas, HandlerStep(r)
  PROVE  Rest'
<1>0. pc[r] # "idle" => job[r] \in Requests
  BY DEF IInv, TypeOK, HandlerTypeOK, JobsDistinct
<1>1. CASE CheckGroup(r) \/ Send(r)
  BY <1>1, GoToKeeps
<1>2. CASE RejectGroup(r) \/ SendFails(r) \/ Respond(r)
  BY <1>2, AnswerKeeps
<1>3. CASE WriteRecord(r)
  BY <1>3, RecordKeeps
(* AppendToGroup returns without having listed the email in this step.     *)
<1>4. ASSUME NEW res \in {"ok", "full", "failed", "unavailable"}, AppendReturns(r, res),
             pc[r] \in {"get", "write", "reread"}, UNCHANGED <<index, revision, record>>,
             \A w \in late' : w \in late \/ (pc[r] = "write" /\ w = Pending(r)),
             res = "ok" => Listed(job[r]),
             res = "full" => ~ Listed(job[r]) /\ Full(Target(job[r]))
      PROVE  Rest'
  <2>1. PICK q \in Requests : q = job[r]
    BY <1>0, <1>4
  <2>2. group' = group
    BY <1>4 DEF AppendReturns
  <2>3. Extends(None) /\ IndexSound'
    BY <1>4, <2>2, NothingListed DEF IInv
  <2>4. /\ Listed(q)' = Listed(q)
        /\ Full(Target(q))' = Full(Target(q))
    BY <1>4, <2>2 DEF Listed, Full, Target
  <2>5. /\ res = "ok" => Listed(q)'
        /\ res = "full" => ~ Listed(q)' /\ Full(Target(q))'
    BY <1>4, <2>1, <2>4
  <2> HIDE DEF Listed, Full
  <2> QED
    BY <1>4, <2>1, <2>3, <2>5, AppendReturnsKeeps
<1>5. CASE AppendWithoutStore(r)
  BY <1>4, <1>5 DEF AppendWithoutStore, kvVars
<1>6. CASE ReadIndex(r)
  <2>1. CASE TakeSnapshot(r) /\ ~ AlreadyListed(r) /\ ~ Full(Target(job[r]))
    BY <1>6, <2>1, TakeSnapshotKeeps DEF ReadIndex
  <2>2. CASE AppendReturns(r, "failed")
    BY <1>4, <1>6, <2>2 DEF ReadIndex, kvVars
  <2>3. CASE AlreadyListed(r) /\ AppendReturns(r, "ok")
    BY <1>4, <1>6, <2>3 DEF ReadIndex, kvVars, AlreadyListed, Listed
  <2>4. CASE ~ AlreadyListed(r) /\ Full(Target(job[r])) /\ AppendReturns(r, "full")
    <3>1. ~ Listed(job[r])
      BY <1>6, <2>4 DEF ReadIndex, AlreadyListed, Listed, IInv, FreshUntilRead,
                        BeforeFirstRead, TypeOK, HandlerTypeOK
    <3> QED
      BY <1>4, <1>6, <2>4, <3>1 DEF ReadIndex, kvVars
  <2> QED
    BY <1>6, <2>1, <2>2, <2>3, <2>4 DEF ReadIndex
<1>7. CASE WriteIndex(r)
  <2>1. PICK q \in Requests : q = job[r]
    BY <1>0, <1>7 DEF WriteIndex
  <2>2. Pending(r) \in IndexWrite /\ Sound(Pending(r))
    BY <1>7, PendingType DEF WriteIndex, IInv, TypeOK, WritesSound, JobsDistinct, BusyHasJob
  <2>3. PICK w \in IndexWrite : w = Pending(r)
    BY <2>2
  <2>4. w.email = q
    BY <2>1, <2>3 DEF Pending
  <2>5. group' = group /\ record' = record /\ late' = late
    BY <1>7 DEF WriteIndex, AppendReturns
  <2>6. Matches(w) /\ Apply(w) /\ Sound(w)
    BY <1>7, <2>2, <2>3 DEF WriteIndex
  <2>7. Extends(q) /\ IndexSound'
    BY <2>4, <2>5, <2>6, WriteAccepted DEF IInv
  <2>8. Listed(q)'
    BY <2>7 DEF Extends
  <2>9. AppendReturns(r, "ok") /\ pc[r] = "write"
    BY <1>7 DEF WriteIndex
  <2> QED
    BY <2>1, <2>5, <2>7, <2>8, <2>9, AppendReturnsKeeps
<1>8. CASE WriteConflict(r)
  BY <1>8, NextAttemptKeeps DEF WriteConflict, kvVars
<1>9. CASE WriteFails(r)
  <2>1. CASE AppendReturns(r, "failed")
    BY <1>4, <1>9, <2>1 DEF WriteFails
  <2>2. CASE NextAttempt(r)
    BY <1>9, <2>2, NextAttemptKeeps DEF WriteFails
  <2> QED
    BY <1>9, <2>1, <2>2 DEF WriteFails
<1>10. CASE RereadIndex(r)
  <2>1. CASE Contains(index[Target(job[r])], job[r]) /\ AppendReturns(r, "ok")
    BY <1>4, <1>10, <2>1 DEF RereadIndex, kvVars, Listed
  <2>2. CASE /\ ~ Contains(index[Target(job[r])], job[r])
             /\ Full(Target(job[r]))
             /\ AppendReturns(r, "full")
    BY <1>4, <1>10, <2>2 DEF RereadIndex, kvVars, Listed
  <2>3. CASE AppendReturns(r, "failed")
    BY <1>4, <1>10, <2>3 DEF RereadIndex, kvVars
  <2> QED
    BY <1>10, <2>1, <2>2, <2>3 DEF RereadIndex
<1>11. CASE RereadFails(r)
  BY <1>4, <1>11 DEF RereadFails, kvVars
<1> QED
  BY <1>1, <1>2, <1>3, <1>5, <1>6, <1>7, <1>8, <1>9, <1>10, <1>11 DEF HandlerStep

LEMMA InitRest == Init => Rest
<1> SUFFICES ASSUME Init
             PROVE  Rest
  OBVIOUS
<1>1. \A h \in Handles : index[h] = << >> /\ Len(index[h]) = 0 /\ revision[h] = 0
  BY DEF Init
<1>2. \A q \in Requests : Target(q) \in Handles
  BY InitType, TargetType DEF TypeOK
<1>3. \A q \in Requests : ~ Listed(q)
  BY <1>1, <1>2 DEF Listed, Contains
<1>4. WritesSound /\ JobsDistinct /\ FreshUntilRead /\ GroupExists
  BY DEF Init, WritesSound, JobsDistinct, FreshUntilRead, BeforeFirstRead, GroupExists
<1>5. ResultsTrue /\ AnswersTrue
  BY DEF Init, ResultsTrue, AnswersTrue
<1>6. ListedTaken
  BY <1>3 DEF ListedTaken
<1>7. IndexSound
  BY <1>1 DEF IndexSound, ListedOnce, GroupWithinCap, OnlyIssuedGroups
<1> QED
  BY <1>4, <1>5, <1>6, <1>7 DEF Rest

LEMMA StutterKeeps ==
  ASSUME IInv, UNCHANGED vars
  PROVE  Rest'
<1> USE DEF IInv, vars
<1>1. \A p : Target(p)' = Target(p) /\ NewGroup(p)' = NewGroup(p) /\ Listed(p)' = Listed(p)
  BY DEF Target, NewGroup, Listed
<1>2. WritesSound'
  BY <1>1 DEF Sound, Matches, Full, Pending, WritesSound
<1>3. JobsDistinct' /\ FreshUntilRead' /\ GroupExists'
  BY <1>1 DEF JobsDistinct, FreshUntilRead, BeforeFirstRead, GroupExists
<1>4. ResultsTrue' /\ AnswersTrue' /\ ListedTaken'
  BY <1>1 DEF ResultsTrue, AnswersTrue, ListedTaken, Full, Withheld
<1>5. IndexSound'
  BY NothingListed
<1> QED
  BY <1>2, <1>3, <1>4, <1>5 DEF Rest

LEMMA IInvStep == IInv /\ [Next]_vars => IInv'
<1> SUFFICES ASSUME IInv, [Next]_vars
             PROVE  IInv'
  OBVIOUS
<1>1. TypeOK'
  BY TypeStep DEF IInv, JobsDistinct, BusyHasJob
<1>2. ASSUME NEW r \in Replicas, NEW q \in Requests, Refuse(r, q) \/ Accept(r, q)
      PROVE  Rest'
  BY <1>1, <1>2, RefuseKeeps, AcceptKeeps
<1>3. ASSUME NEW r \in Replicas, HandlerStep(r) \/ Restart(r)
      PROVE  Rest'
  BY <1>1, <1>3, HandlerStepKeeps, RestartKeeps
<1>4. ASSUME NEW w \in late, LateIndexWrite(w)
      PROVE  Rest'
  BY <1>1, <1>4, LateIndexWriteKeeps
<1>5. ASSUME NEW q \in Requests, LateRecordWrite(q)
      PROVE  Rest'
  BY <1>1, <1>5, RecordKeeps
<1>6. ASSUME UNCHANGED vars
      PROVE  Rest'
  BY <1>6, StutterKeeps
<1>7. Rest'
  BY <1>2, <1>3, <1>4, <1>5, <1>6 DEF Next
<1> QED
  BY <1>1, <1>7 DEF IInv, Rest

LEMMA Inductive == Spec => []IInv
<1>1. Init => IInv
  BY InitType, InitRest DEF IInv, Rest
<1> QED
  BY <1>1, IInvStep, PTL DEF Spec

-----------------------------------------------------------------------------
(* Over all groups an email is listed at most once, in its own group.      *)
THEOREM ListedOnceHolds == Spec => []ListedOnce
<1>1. IInv => ListedOnce
  BY DEF IInv, IndexSound
<1> QED
  BY <1>1, Inductive, PTL

(* No group outgrows MaxGroupEmails, however the replicas interleave.      *)
THEOREM CapHolds == Spec => []GroupWithinCap
<1>1. IInv => GroupWithinCap
  BY DEF IInv, IndexSound
<1> QED
  BY <1>1, Inductive, PTL

(* Every list begins with the email that opened its group.                 *)
THEOREM OnlyIssuedGroupsHolds == Spec => []OnlyIssuedGroups
<1>1. IInv => OnlyIssuedGroups
  BY DEF IInv, IndexSound
<1> QED
  BY <1>1, Inductive, PTL

(* An email whose sender was told "group is full" is never listed.         *)
THEOREM FullIsFinalHolds == Spec => []FullIsFinal
<1>1. IInv => FullIsFinal
  <2> SUFFICES ASSUME IInv, NEW q \in Requests, appended[q] = "full", NEW h \in Handles
               PROVE  ~ Contains(index[h], q)
    BY DEF FullIsFinal
  <2>1. ~ Contains(index[Target(q)], q)
    BY DEF IInv, ResultsTrue, Listed
  <2> QED
    BY <2>1 DEF IInv, IndexSound, ListedOnce, Contains
<1> QED
  BY <1>1, Inductive, PTL

(* A record of a new group's email is stored only if the index lists it.   *)
THEOREM NoOrphanRecordHolds == Spec => []NoOrphanRecord
<1>1. IInv => NoOrphanRecord
  <2> SUFFICES ASSUME IInv, NEW q \in Requests, record[q] # "absent", NewGroup(q)
               PROVE  Contains(index[q], q)
    BY DEF NoOrphanRecord
  <2>1. appended[q] = "ok"
    BY DEF IInv, AnswersTrue, Withheld
  <2>2. Listed(q) /\ Target(q) = q
    BY <2>1 DEF IInv, ResultsTrue, NewGroup, Target
  <2> QED
    BY <2>2 DEF Listed
<1> QED
  BY <1>1, Inductive, PTL

(* A new group's handle, once returned, names a group its email opened.    *)
THEOREM IssuedHandleWorksHolds == Spec => []IssuedHandleWorks
<1>1. IInv => IssuedHandleWorks
  <2> SUFFICES ASSUME IInv, NEW q \in Requests, reply[q] = "tracked", NewGroup(q)
               PROVE  index[q] # << >> /\ index[q][1] = q
    BY DEF IssuedHandleWorks
  <2>1. appended[q] = "ok"
    BY DEF IInv, AnswersTrue, Withheld
  <2>2. Listed(q) /\ Target(q) = q /\ q \in Handles
    BY <2>1 DEF IInv, ResultsTrue, NewGroup, Target, Handles
  <2>3. index[q] # << >>
    BY <2>2 DEF Listed, Contains
  <2> QED
    BY <2>2, <2>3 DEF IInv, IndexSound, OnlyIssuedGroups
<1> QED
  BY <1>1, Inductive, PTL

-----------------------------------------------------------------------------
(* Every step of the send path is a step of the abstract index.            *)
AbstractResult == [q \in Requests |-> ResultOf(q)]

LEMMA SilentStep ==
  ASSUME UNCHANGED <<index, appended>>
  PROVE  UNCHANGED <<index, AbstractResult>>
BY DEF AbstractResult, ResultOf

LEMMA ListedIsLogged ==
  ASSUME IInv, NEW q \in Requests
  PROVE  Abstract!Logged(q) <=> Listed(q)
<1>1. Target(q) \in Handles
  BY TargetType DEF IInv, TypeOK
<1>2. Abstract!Logged(q) => Listed(q)
  BY DEF Abstract!Logged, Listed, Contains, IInv, IndexSound, ListedOnce
<1>3. Listed(q) => Abstract!Logged(q)
  BY <1>1 DEF Abstract!Logged, Listed, Contains
<1> QED
  BY <1>2, <1>3

(* AppendToGroup returns and the index stays: the sender learns the truth. *)
LEMMA ReturnSimulates ==
  ASSUME IInv, IInv', NEW r \in Replicas, NEW res \in AppendResults \ {"none"},
         pc[r] \in {"get", "write", "reread"}, AppendReturns(r, res), UNCHANGED index
  PROVE  Abstract!Next
<1> USE DEF IInv, TypeOK
<1>1. PICK q \in Requests : q = job[r]
  BY DEF JobsDistinct, HandlerTypeOK
<1>2. /\ appended[q] = "none"
      /\ appended' = [appended EXCEPT ![q] = res]
      /\ appended'[q] = res
      /\ group' = group
  BY <1>1 DEF AppendReturns, ResultsTrue, RequestTypeOK
<1>3. Listed(q)' = Listed(q)
  BY <1>2 DEF Listed, Target
<1>4. (res = "ok" => Listed(q)) /\ (res = "full" => ~ Listed(q))
  BY <1>2, <1>3 DEF ResultsTrue
<1> DEFINE told == IF res \in {"failed", "unavailable"} THEN "unknown" ELSE res
<1>5. told \in {"ok", "full", "unknown"}
  BY DEF AppendResults
<1>6. AbstractResult' = [AbstractResult EXCEPT ![q] = told]
  BY <1>2 DEF AbstractResult, ResultOf, RequestTypeOK
<1>7. AbstractResult[q] = "none"
  BY <1>2 DEF AbstractResult, ResultOf
<1>8. (told = "ok" => Abstract!Logged(q)) /\ (told = "full" => ~ Abstract!Logged(q))
  BY <1>4, ListedIsLogged
<1> HIDE DEF told
<1>9. Abstract!Learn(q, told)
  BY <1>6, <1>7, <1>8 DEF Abstract!Learn, AbstractResult
<1> QED
  BY <1>5, <1>9 DEF Abstract!Next

(* The server accepts a write: the append takes effect.                    *)
LEMMA WriteSimulates ==
  ASSUME IInv, NEW w \in IndexWrite, Sound(w), Matches(w), Apply(w),
         \/ appended' = appended
         \/ /\ appended[w.email] = "none"
            /\ appended' = [appended EXCEPT ![w.email] = "ok"]
  PROVE  Abstract!Next
<1> USE DEF IInv, TypeOK
<1> DEFINE q == w.email
           h == Target(w.email)
<1>1. q \in Requests /\ h \in Handles
  BY TargetType DEF IndexWrite
<1>2. /\ index' = [index EXCEPT ![h] = Append(index[h], q)]
      /\ ~ Listed(q)
      /\ ~ Full(h)
      /\ index[h] = << >> => h = q
  BY DEF Apply, Sound, NewGroup, Target
<1>3. Len(index[h]) < MaxGroupEmails
  BY <1>1, <1>2 DEF Full, KvTypeOK
<1>4. ~ Abstract!Logged(q)
  BY <1>1, <1>2, ListedIsLogged
<1>5. AbstractResult[q] # "full"
  BY <1>1, <1>2 DEF AbstractResult, ResultOf, ResultsTrue
<1>6. \/ UNCHANGED AbstractResult
      \/ /\ AbstractResult[q] = "none"
         /\ AbstractResult' = [AbstractResult EXCEPT ![q] = "ok"]
  BY <1>1 DEF AbstractResult, ResultOf, RequestTypeOK
<1> HIDE DEF q, h
<1>7. Abstract!TakeEffect(q, h)
  BY <1>2, <1>3, <1>4, <1>5, <1>6 DEF Abstract!TakeEffect, AbstractResult
<1> QED
  BY <1>1, <1>7 DEF Abstract!Next

LEMMA StepSimulates ==
  ASSUME IInv, IInv', [Next]_vars
  PROVE  [Abstract!Next]_(Abstract!absVars)
<1> USE DEF kvVars, handlerVars, requestVars
<1>a. UNCHANGED <<index, appended>> => [Abstract!Next]_(Abstract!absVars)
  BY SilentStep DEF Abstract!absVars, AbstractResult
<1>b. ASSUME NEW r \in Replicas, NEW res \in {"ok", "full", "failed", "unavailable"},
             pc[r] \in {"get", "write", "reread"}, AppendReturns(r, res), UNCHANGED index
      PROVE  Abstract!Next
  BY <1>b, ReturnSimulates DEF AppendResults
<1>1. ASSUME NEW r \in Replicas, NEW q \in Requests, Refuse(r, q) \/ Accept(r, q)
      PROVE  UNCHANGED <<index, appended>>
  BY <1>1 DEF Refuse, Accept
<1>2. ASSUME NEW r \in Replicas, HandlerStep(r)
      PROVE  [Abstract!Next]_(Abstract!absVars)
  <2>1. CASE CheckGroup(r) \/ Send(r) \/ WriteRecord(r)
    BY <1>a, <2>1 DEF CheckGroup, Send, WriteRecord
  <2>2. CASE RejectGroup(r) \/ SendFails(r) \/ Respond(r)
    BY <1>a, <2>2 DEF RejectGroup, SendFails, Respond, Answer
  <2>3. CASE AppendWithoutStore(r) \/ RereadIndex(r) \/ RereadFails(r)
    BY <1>b, <2>3 DEF AppendWithoutStore, RereadIndex, RereadFails
  <2>4. CASE ReadIndex(r)
    BY <1>a, <1>b, <2>4 DEF ReadIndex, TakeSnapshot
  <2>5. CASE WriteConflict(r)
    BY <1>a, <2>5 DEF WriteConflict, NextAttempt
  <2>6. CASE WriteFails(r)
    BY <1>a, <1>b, <2>6 DEF WriteFails, NextAttempt
  <2>7. CASE WriteIndex(r)
    <3>1. Pending(r) \in IndexWrite /\ Sound(Pending(r)) /\ appended[job[r]] = "none"
      BY <2>7, PendingType DEF WriteIndex, IInv, TypeOK, WritesSound, JobsDistinct, BusyHasJob,
                               ResultsTrue
    <3>2. PICK w \in IndexWrite : w = Pending(r)
      BY <3>1
    <3>3. w.email = job[r]
      BY <3>2 DEF Pending
    <3>4. Matches(w) /\ Apply(w) /\ Sound(w)
      BY <2>7, <3>1, <3>2 DEF WriteIndex
    <3>5. /\ appended[w.email] = "none"
          /\ appended' = [appended EXCEPT ![w.email] = "ok"]
      BY <2>7, <3>1, <3>3 DEF WriteIndex, AppendReturns
    <3> QED
      BY <3>4, <3>5, WriteSimulates
  <2> QED
    BY <1>2, <2>1, <2>2, <2>3, <2>4, <2>5, <2>6, <2>7 DEF HandlerStep
<1>3. ASSUME NEW r \in Replicas, Restart(r)
      PROVE  UNCHANGED <<index, appended>>
  BY <1>3 DEF Restart
<1>4. ASSUME NEW w \in late, LateIndexWrite(w)
      PROVE  [Abstract!Next]_(Abstract!absVars)
  <2>1. w \in IndexWrite /\ Sound(w)
    BY DEF IInv, TypeOK, KvTypeOK, WritesSound
  <2>2. CASE Matches(w)
    BY <1>4, <2>1, <2>2, WriteSimulates DEF LateIndexWrite
  <2>3. CASE ~ Matches(w)
    BY <1>4, <1>a, <2>3 DEF LateIndexWrite
  <2> QED
    BY <2>2, <2>3
<1>5. ASSUME NEW q \in Requests, LateRecordWrite(q)
      PROVE  UNCHANGED <<index, appended>>
  BY <1>5 DEF LateRecordWrite
<1>6. UNCHANGED vars => UNCHANGED <<index, appended>>
  BY DEF vars
<1> QED
  BY <1>a, <1>1, <1>2, <1>3, <1>4, <1>5, <1>6 DEF Next

LEMMA InitSimulates == Init => Abstract!Init
BY DEF Init, Abstract!Init, ResultOf

(* AppendToGroup implements the atomic append-only index.                  *)
THEOREM ImplementsAtomicIndexHolds == Spec => ImplementsAtomicIndex
<1>1. IInv /\ IInv' /\ [Next]_vars => [Abstract!Next]_(Abstract!absVars)
  BY StepSimulates
<1> QED
  BY <1>1, InitSimulates, Inductive, PTL DEF Spec, ImplementsAtomicIndex, Abstract!AtomicIndex

(* No write of a stale list erases another replica's entry.                *)
THEOREM AppendOnlyHolds == Spec => AppendOnly
<1> DEFINE A == \A h \in Handles :
                  \/ index'[h] = index[h]
                  \/ \E q \in Requests : index'[h] = Append(index[h], q)
<1>1. IInv /\ IInv' /\ [Next]_vars => [A]_index
  <2> SUFFICES ASSUME IInv, IInv', [Next]_vars
               PROVE  [A]_index
    OBVIOUS
  <2>1. [Abstract!Next]_(Abstract!absVars)
    BY StepSimulates
  <2>2. CASE Abstract!absVars' = Abstract!absVars
    BY <2>2 DEF Abstract!absVars
  <2>3. ASSUME NEW q \in Requests, NEW h \in Handles, Abstract!TakeEffect(q, h)
        PROVE  A
    BY <2>3 DEF Abstract!TakeEffect, IInv, TypeOK, KvTypeOK
  <2>4. ASSUME NEW q \in Requests, NEW res, Abstract!Learn(q, res)
        PROVE  A
    BY <2>4 DEF Abstract!Learn
  <2> QED
    BY <2>1, <2>2, <2>3, <2>4 DEF Abstract!Next
<1> QED
  BY <1>1, Inductive, PTL DEF Spec, AppendOnly

-----------------------------------------------------------------------------
(* What GroupReads lets the writers of its one group do is what the send   *)
(* path does to the group Group: its index and its stored records are      *)
(* those of SendTracking, and no reader or event touches them meanwhile.   *)
StoredIn == {q \in Requests : Target(q) = Group /\ record[q] = "stored"}

Readers == INSTANCE GroupReads WITH
  Own <- Requests, Foreign <- {}, Malformed <- {},
  MaxGroupStatusLimit <- 1, DefaultLimit <- 1, Chunk <- 1, RecordSize <- 1, MaxPayload <- 2,
  MaxOpens <- 0, MaxFaults <- 0,
  index <- index[Group], stored <- StoredIn, opens <- [q \in Requests |-> 0],
  call <- "none", total <- 0, offset <- 0, limit <- 1, collected <- << >>, pc <- "idle",
  window <- << >>, pos <- 0, got <- << >>, out <- << >>, size <- 1, tooLarge <- FALSE,
  expired <- FALSE, missed <- {}, answer <- "none", known <- {}, before <- << >>,
  missedAny <- {}, faults <- 0

(* A request's group is settled before its record is written.              *)
LEMMA AcceptStoresNothing ==
  ASSUME IInv, NEW r \in Replicas, NEW q \in Requests, Refuse(r, q) \/ Accept(r, q)
  PROVE  StoredIn' = StoredIn
<1>1. record' = record /\ record[q] = "absent"
  BY DEF Refuse, Accept, IInv, ResultsTrue, kvVars
<1>2. \A p \in Requests : p # q => Target(p)' = Target(p)
  BY DEF Refuse, Accept, Target, IInv, TypeOK, RequestTypeOK
<1> QED
  BY <1>1, <1>2 DEF StoredIn

(* A record is stored once.                                                *)
LEMMA RecordStores ==
  ASSUME IInv, NEW q \in Requests, record[q] # "stored", group' = group,
         NEW outcome, record' = [record EXCEPT ![q] = outcome]
  PROVE  StoredIn' = StoredIn \/ (q \notin StoredIn /\ StoredIn' = StoredIn \cup {q})
<1>1. \A p \in Requests : Target(p)' = Target(p)
  BY DEF Target
<1>2. record'[q] = outcome /\ \A p \in Requests : p # q => record'[p] = record[p]
  BY DEF IInv, TypeOK, KvTypeOK
<1> QED
  BY <1>1, <1>2 DEF StoredIn

(* A step leaves the group's records alone, or stores one record and       *)
(* writes no index.                                                        *)
StoreStep ==
  \/ StoredIn' = StoredIn
  \/ /\ index' = index
     /\ \E q \in Requests \ StoredIn : StoredIn' = StoredIn \cup {q}

(* WriteRecord and the late record write store one record, nothing else    *)
(* stores any.                                                             *)
LEMMA StoredSteps ==
  ASSUME IInv, [Next]_vars
  PROVE  StoreStep
<1> USE DEF kvVars, handlerVars, requestVars
<1>a. UNCHANGED <<record, group>> => StoredIn' = StoredIn
  BY DEF StoredIn, Target
<1>1. ASSUME NEW r \in Replicas, NEW q \in Requests, Refuse(r, q) \/ Accept(r, q)
      PROVE  StoreStep
  BY <1>1, AcceptStoresNothing DEF StoreStep
<1>2. ASSUME NEW r \in Replicas, HandlerStep(r)
      PROVE  StoreStep
  <2>1. CASE WriteRecord(r)
    <3>1. job[r] \in Requests /\ record[job[r]] = "absent"
      BY <2>1 DEF WriteRecord, IInv, TypeOK, HandlerTypeOK, JobsDistinct, ResultsTrue
    <3>2. ASSUME NEW outcome, record' = [record EXCEPT ![job[r]] = outcome]
          PROVE  StoreStep
      BY <2>1, <3>1, <3>2, RecordStores DEF WriteRecord, StoreStep
    <3> QED
      BY <1>a, <2>1, <3>2 DEF WriteRecord, StoreStep
  <2>2. CASE ~ WriteRecord(r)
    <3>1. UNCHANGED <<record, group>>
      BY <1>2, <2>2
         DEF HandlerStep, CheckGroup, RejectGroup, Send, SendFails, Respond, Answer, GoTo,
             AppendWithoutStore, ReadIndex, TakeSnapshot, RereadIndex, RereadFails, WriteIndex,
             WriteConflict, WriteFails, NextAttempt, AppendReturns
    <3> QED
      BY <1>a, <3>1 DEF StoreStep
  <2> QED
    BY <2>1, <2>2
<1>3. ASSUME NEW q \in Requests, LateRecordWrite(q)
      PROVE  StoreStep
  BY <1>3, RecordStores DEF LateRecordWrite, StoreStep
<1>4. ASSUME NEW r \in Replicas, Restart(r)
      PROVE  StoreStep
  BY <1>4, <1>a DEF Restart, StoreStep
<1>5. ASSUME NEW w \in late, LateIndexWrite(w)
      PROVE  StoreStep
  BY <1>5, <1>a DEF LateIndexWrite, StoreStep
<1>6. CASE UNCHANGED vars
  BY <1>6, <1>a DEF vars, StoreStep
<1> QED
  BY <1>1, <1>2, <1>3, <1>4, <1>5, <1>6 DEF Next

(* Seen from the group, every step of the send path appends one entry,     *)
(* stores one record, or leaves the group as it was.                       *)
LEMMA WritersSeen ==
  ASSUME Group \in Handles, IInv, IInv', [Next]_vars
  PROVE  [Readers!Next]_(Readers!vars)
<1> USE DEF Readers!Writers, Readers!Entries, Readers!callerVars, Readers!scanVars
<1>1. StoreStep
  BY StoredSteps
<1>2. CASE index'[Group] = index[Group]
  <2>1. CASE StoredIn' = StoredIn
    BY <1>2, <2>1 DEF Readers!vars
  <2>2. ASSUME NEW q \in Requests \ StoredIn, StoredIn' = StoredIn \cup {q}
        PROVE  Readers!StoreRecord(q)
    BY <1>2, <2>2 DEF Readers!StoreRecord
  <2> QED
    BY <1>1, <2>1, <2>2 DEF StoreStep, Readers!Next
<1>3. ASSUME NEW q \in Requests, NEW h \in Handles, Abstract!TakeEffect(q, h),
             index'[Group] # index[Group]
      PROVE  Readers!AppendEntry(q)
  <2>1. /\ index \in [Handles -> Seq(Requests)]
        /\ ~ Abstract!Logged(q) /\ Len(index[h]) < MaxGroupEmails
        /\ index' = [index EXCEPT ![h] = Append(index[h], q)]
    BY <1>3 DEF Abstract!TakeEffect, IInv, TypeOK, KvTypeOK
  <2>2. h = Group
    BY <1>3, <2>1
  <2>3. index'[Group] = Append(index[Group], q) /\ Len(index[Group]) < MaxGroupEmails
    BY <2>1, <2>2
  <2>4. q \notin Readers!Range(index[Group])
    BY <2>1, <2>2 DEF Abstract!Logged, Readers!Range, Contains
  <2>5. StoredIn' = StoredIn
    BY <1>1, <1>3 DEF StoreStep
  <2> QED
    BY <2>3, <2>4, <2>5 DEF Readers!AppendEntry
<1>4. CASE index'[Group] # index[Group]
  <2>1. [Abstract!Next]_(Abstract!absVars)
    BY StepSimulates
  <2>2. \E q \in Requests, h \in Handles : Abstract!TakeEffect(q, h)
    BY <1>4, <2>1 DEF Abstract!Next, Abstract!Learn, Abstract!absVars
  <2> QED
    BY <1>3, <1>4, <2>2 DEF Readers!Next
<1> QED
  BY <1>2, <1>4

(* On any one group the handlers of any number of replicas, with their     *)
(* retries, late writes and restarts, implement the writers of GroupReads: *)
(* what is proved there of the readers holds against these writers.        *)
THEOREM WritersOfAGroup == Group \in Handles => (Spec => Readers!Spec)
<1> SUFFICES ASSUME Group \in Handles PROVE Spec => Readers!Spec
  OBVIOUS
<1>1. Init => Readers!Init
  BY DEF Init, Readers!Init, Readers!Entries, StoredIn
<1>2. IInv /\ IInv' /\ [Next]_vars => [Readers!Next]_(Readers!vars)
  BY WritersSeen
<1> QED BY <1>1, <1>2, Inductive, PTL DEF Spec, Readers!Spec
=============================================================================
