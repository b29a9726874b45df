-------------------------- MODULE MailDeliveryProofs --------------------------
(***************************************************************************)
(* Proofs about MailDelivery, for any emails, inputs, configurations and   *)
(* number of tries and crashes.  The invariant ties each reply to what the *)
(* mail server decided, and each try to the reply of the one before it.    *)
(***************************************************************************)
EXTENDS MailDelivery, TLAPS

Types ==
  /\ stage \in [Attempts -> {"none", "queued", "sending"} \cup Replies]
  /\ conn \in [Attempts -> {"none", "open", "ended", "cut"}]
  /\ result \in [Attempts -> {"none", "ok", "throttled", "rejected", "broken"}]
  /\ verdict \in [Attempts -> {"none", "accepted", "throttled", "rejected"}]
  /\ crashes \in 0..MaxCrashes

OneSending == \A a, b \in Attempts : stage[a] = "sending" /\ stage[b] = "sending" => a = b

(* Before the exchange starts nothing is decided, and a request that was   *)
(* not sent never starts one.                                              *)
NothingBefore ==
  \A a \in Attempts :
    /\ conn[a] = "none" => verdict[a] = "none" /\ result[a] = "none"
    /\ stage[a] \in {"none", "queued", "refused", "empty"} => conn[a] = "none"

(* Results and replies that say more than "failed" are true.               *)
ResultsTrue ==
  \A a \in Attempts :
    /\ result[a] = "ok" \/ stage[a] = "sent" => verdict[a] = "accepted"
    /\ result[a] = "throttled" \/ stage[a] = "throttled" => verdict[a] = "throttled"

(* A try was made only when all those before it were throttled.            *)
TriesFollow ==
  \A m \in Mails, t, u \in 1..MaxTries :
    t < u /\ stage[<<m, u>>] # "none" => stage[<<m, t>>] = "throttled"

IInv == Types /\ OneSending /\ NothingBefore /\ ResultsTrue /\ TriesFollow

LEMMA InitIInv == Init => IInv
<1> SUFFICES ASSUME Init PROVE IInv
  OBVIOUS
<1>1. Types
  BY DeliveryAssumption DEF Init, Types, Replies
<1>2. OneSending /\ NothingBefore /\ ResultsTrue
  BY DEF Init, OneSending, NothingBefore, ResultsTrue
<1>3. TriesFollow
  BY DEF Init, TriesFollow, Attempts
<1> QED
  BY <1>1, <1>2, <1>3 DEF IInv

(* A reply that is true, to a request that waits for one.                  *)
TrueReply(a, r) ==
  /\ stage[a] \in {"queued", "sending"}
  /\ r \in Replies
  /\ r = "sent" => verdict[a] = "accepted"
  /\ r = "throttled" => verdict[a] = "throttled"
  /\ r \in {"refused", "empty"} => stage[a] = "queued"
  /\ Reply(a, r)

(* Every reply the handler gives is true: a result it reports came from    *)
(* the server, and what it refuses or skips was never sent.                *)
LEMMA RepliesTrue ==
  ASSUME IInv, NEW a \in Attempts, Handle(a)
  PROVE  StartExchange(a) \/ \E r \in Replies : TrueReply(a, r)
<1> USE DEF IInv
<1>1. ASSUME Taken(a), NEW r \in {"refused", "empty", "failed"}, Reply(a, r)
      PROVE  TrueReply(a, r) /\ r \in Replies
  BY <1>1 DEF TrueReply, Taken, Replies
<1>2. CASE Refuse(a) \/ GroupRefused(a)
  <2>1. Taken(a) /\ Reply(a, "refused")
    BY <1>2 DEF Refuse, GroupRefused
  <2> QED BY <1>1, <2>1
<1>3. CASE SkipRecipient(a) \/ SendNothing(a)
  <2>1. Taken(a) /\ Reply(a, "empty")
    BY <1>3 DEF SkipRecipient, SendNothing
  <2> QED BY <1>1, <2>1
<1>4. CASE SendInvalid(a)
  <2>1. Taken(a) /\ Reply(a, "failed")
    BY <1>4 DEF SendInvalid
  <2> QED BY <1>1, <2>1
<1>5. CASE ResultArrives(a)
  <2> DEFINE r == IF IsThrottled(result[a]) THEN "throttled"
                  ELSE IF result[a] = "ok" THEN "sent" ELSE "failed"
  <2>1. stage[a] = "sending" /\ Reply(a, r)
    BY <1>5 DEF ResultArrives
  <2>2. r = "sent" => verdict[a] = "accepted"
    BY DEF ResultsTrue, IsThrottled
  <2>3. r = "throttled" => verdict[a] = "throttled"
    BY DEF ResultsTrue, IsThrottled
  <2>4. r \in {"throttled", "sent", "failed"}
    OBVIOUS
  <2> HIDE DEF r
  <2> QED BY <2>1, <2>2, <2>3, <2>4 DEF TrueReply, Replies
<1>6. CASE DeadlinePasses(a)
  <2>1. stage[a] = "sending" /\ Reply(a, "failed")
    BY <1>6 DEF DeadlinePasses
  <2> QED BY <2>1 DEF TrueReply, Replies
<1> QED
  BY <1>2, <1>3, <1>4, <1>5, <1>6 DEF Handle

LEMMA ReplyIInv ==
  ASSUME IInv, NEW a \in Attempts, NEW r \in Replies, TrueReply(a, r)
  PROVE  IInv'
<1> USE DEF IInv, TrueReply, Reply
<1>1. stage' = [stage EXCEPT ![a] = r] /\ UNCHANGED <<conn, result, verdict, crashes>>
  OBVIOUS
<1>2. r \notin {"none", "queued", "sending"}
  BY DEF Replies
<1>3. Types'
  BY <1>1 DEF Types
<1>4. OneSending'
  BY <1>1, <1>2 DEF OneSending, Types
<1>5. NothingBefore'
  BY <1>1, <1>2 DEF NothingBefore, Types
<1>6. ResultsTrue'
  BY <1>1 DEF ResultsTrue, Types
<1>7. TriesFollow'
  <2> SUFFICES ASSUME NEW m \in Mails, NEW t \in 1..MaxTries, NEW u \in 1..MaxTries,
                      t < u, stage'[<<m, u>>] # "none"
               PROVE  stage'[<<m, t>>] = "throttled"
    BY DEF TriesFollow
  <2>1. <<m, t>> \in Attempts /\ <<m, u>> \in Attempts
    BY DEF Attempts
  <2>2. stage[<<m, u>>] # "none"
    BY <1>1, <2>1 DEF Types
  <2>3. stage[<<m, t>>] = "throttled"
    BY <2>2 DEF TriesFollow
  <2> QED BY <1>1, <2>1, <2>3 DEF Types
<1> QED
  BY <1>3, <1>4, <1>5, <1>6, <1>7

LEMMA RequestIInv ==
  ASSUME IInv, NEW a \in Attempts, Request(a)
  PROVE  IInv'
<1> USE DEF IInv, Request
<1>1. stage' = [stage EXCEPT ![a] = "queued"] /\ UNCHANGED <<conn, result, verdict, crashes>>
  OBVIOUS
<1>2. Types' /\ OneSending'
  BY <1>1 DEF Types, OneSending
<1>3. NothingBefore' /\ ResultsTrue'
  BY <1>1 DEF Types, NothingBefore, ResultsTrue
<1>4. TriesFollow'
  <2> SUFFICES ASSUME NEW m \in Mails, NEW t \in 1..MaxTries, NEW u \in 1..MaxTries,
                      t < u, stage'[<<m, u>>] # "none"
               PROVE  stage'[<<m, t>>] = "throttled"
    BY DEF TriesFollow
  <2>1. <<m, t>> \in Attempts /\ <<m, u>> \in Attempts
    BY DEF Attempts
  <2>2. stage[<<m, t>>] = "throttled"
    <3>1. CASE a # <<m, u>>
      BY <1>1, <2>1, <3>1 DEF Types, TriesFollow
    <3>2. CASE a = <<m, u>>
      <4>1. u > 1 /\ u - 1 \in 1..MaxTries /\ t <= u - 1
        BY DeliveryAssumption
      <4>2. stage[<<m, u - 1>>] = "throttled"
        BY <3>2, <4>1
      <4>3. CASE t = u - 1
        BY <4>2, <4>3
      <4>4. CASE t < u - 1
        BY <4>1, <4>2, <4>4 DEF TriesFollow
      <4> QED BY <4>1, <4>3, <4>4, DeliveryAssumption
    <3> QED BY <3>1, <3>2
  <2> QED BY <1>1, <2>1, <2>2 DEF Types
<1> QED
  BY <1>2, <1>3, <1>4

(* The exchange: the goroutine and the server change no reply.             *)
LEMMA ExchangeIInv ==
  ASSUME IInv, NEW a \in Attempts, ServerDecides(a) \/ EndExchange(a)
  PROVE  IInv'
<1> USE DEF IInv
<1>1. UNCHANGED stage /\ OneSending' /\ TriesFollow'
  BY DEF ServerDecides, EndExchange, OneSending, TriesFollow
<1>2. CASE ServerDecides(a)
  <2>1. PICK v \in {"accepted", "throttled", "rejected"} : verdict' = [verdict EXCEPT ![a] = v]
    BY <1>2 DEF ServerDecides
  <2>2. conn[a] # "none" /\ verdict[a] = "none" /\ UNCHANGED <<conn, result, crashes>>
    BY <1>2 DEF ServerDecides
  <2>3. Types'
    BY <1>1, <2>1, <2>2 DEF Types
  <2>4. NothingBefore' /\ ResultsTrue'
    BY <1>1, <2>1, <2>2 DEF Types, NothingBefore, ResultsTrue
  <2> QED BY <1>1, <2>3, <2>4
<1>3. CASE EndExchange(a)
  <2>1. PICK r \in Returned(a) : result' = [result EXCEPT ![a] = r]
    BY <1>3 DEF EndExchange
  <2>2. /\ conn[a] = "open" /\ conn' = [conn EXCEPT ![a] = "ended"]
        /\ UNCHANGED <<verdict, crashes>>
    BY <1>3 DEF EndExchange
  <2>3. /\ r \in {"ok", "throttled", "rejected", "broken"}
        /\ r = "ok" => verdict[a] = "accepted"
        /\ r = "throttled" => verdict[a] = "throttled"
    BY DEF Returned, Types
  <2>4. Types'
    BY <1>1, <2>1, <2>2, <2>3 DEF Types
  <2>5. NothingBefore' /\ ResultsTrue'
    BY <1>1, <2>1, <2>2, <2>3 DEF Types, NothingBefore, ResultsTrue
  <2> QED BY <1>1, <2>4, <2>5
<1> QED
  BY <1>2, <1>3

LEMMA StartIInv ==
  ASSUME IInv, NEW a \in Attempts, StartExchange(a)
  PROVE  IInv'
<1> USE DEF IInv
<1>1. /\ stage[a] = "queued" /\ \A b \in Attempts : stage[b] # "sending"
      /\ stage' = [stage EXCEPT ![a] = "sending"] /\ conn' = [conn EXCEPT ![a] = "open"]
      /\ UNCHANGED <<result, verdict, crashes>>
  BY DEF StartExchange, Taken
<1>2. Types'
  BY <1>1 DEF Types
<1>3. OneSending'
  BY <1>1 DEF Types, OneSending
<1>4. NothingBefore' /\ ResultsTrue'
  BY <1>1 DEF Types, NothingBefore, ResultsTrue
<1>5. TriesFollow'
  BY <1>1 DEF Types, TriesFollow, Attempts
<1> QED
  BY <1>2, <1>3, <1>4, <1>5

LEMMA CrashIInv ==
  ASSUME IInv, Crash
  PROVE  IInv'
<1> USE DEF IInv, Crash
<1>1. Types'
  BY DeliveryAssumption DEF Types, Replies
<1>2. OneSending' /\ NothingBefore' /\ ResultsTrue'
  BY DEF Types, OneSending, NothingBefore, ResultsTrue
<1>3. TriesFollow'
  <2> SUFFICES ASSUME NEW m \in Mails, NEW t \in 1..MaxTries, NEW u \in 1..MaxTries,
                      t < u, stage'[<<m, u>>] # "none"
               PROVE  stage'[<<m, t>>] = "throttled"
    BY DEF TriesFollow
  <2>1. <<m, t>> \in Attempts /\ <<m, u>> \in Attempts
    BY DEF Attempts
  <2>2. stage[<<m, t>>] = "throttled"
    BY <2>1 DEF TriesFollow
  <2> QED BY <2>1, <2>2
<1> QED
  BY <1>1, <1>2, <1>3

LEMMA NextIInv == IInv /\ [Next]_vars => IInv'
<1> SUFFICES ASSUME IInv, [Next]_vars PROVE IInv'
  OBVIOUS
<1>1. ASSUME NEW a \in Attempts, Handle(a) PROVE IInv'
  BY <1>1, RepliesTrue, ReplyIInv, StartIInv
<1>2. CASE UNCHANGED vars
  BY <1>2 DEF vars, IInv, Types, OneSending, NothingBefore, ResultsTrue, TriesFollow
<1> QED
  BY <1>1, <1>2, RequestIInv, ExchangeIInv, CrashIInv DEF Next

LEMMA Invariance == Spec => []IInv
<1> QED
  BY InitIInv, NextIInv, PTL DEF Spec

-----------------------------------------------------------------------------
(* Every reachable state is well-typed, and the handler sends one email at *)
(* a time.                                                                 *)
THEOREM TypeCorrect == Spec => []TypeOK
<1>1. IInv => TypeOK
  BY DEF IInv, Types, OneSending, TypeOK
<1> QED
  BY <1>1, Invariance, PTL

(* A caller that sends again only after "sending throttled" never has an   *)
(* email delivered twice.                                                  *)
THEOREM DeliveredOnceHolds == Spec => []DeliveredOnce
<1>1. IInv => DeliveredOnce
  <2> SUFFICES ASSUME IInv PROVE DeliveredOnce
    OBVIOUS
  <2>1. ASSUME NEW m \in Mails, NEW t \in 1..MaxTries, NEW u \in 1..MaxTries, t < u,
               verdict[<<m, t>>] = "accepted", verdict[<<m, u>>] = "accepted"
        PROVE  FALSE
    <3>1. <<m, t>> \in Attempts /\ <<m, u>> \in Attempts
      BY DEF Attempts
    <3>2. stage[<<m, u>>] # "none"
      BY <2>1, <3>1 DEF IInv, NothingBefore
    <3>3. stage[<<m, t>>] = "throttled"
      BY <2>1, <3>2 DEF IInv, TriesFollow
    <3> QED BY <2>1, <3>1, <3>3 DEF IInv, ResultsTrue
  <2>2. ASSUME NEW a \in Accepted, NEW b \in Accepted, a[1] = b[1] PROVE a = b
    <3>1. PICK m \in Mails, t \in 1..MaxTries, u \in 1..MaxTries : a = <<m, t>> /\ b = <<m, u>>
      BY <2>2 DEF Accepted, Attempts
    <3>2. verdict[<<m, t>>] = "accepted" /\ verdict[<<m, u>>] = "accepted"
      BY <3>1 DEF Accepted
    <3>3. ~ (t < u) /\ ~ (u < t)
      BY <2>1, <3>2
    <3>4. t = u
      BY <3>3, DeliveryAssumption
    <3> QED BY <3>1, <3>4
  <2> QED BY <2>2 DEF DeliveredOnce
<1> QED
  BY <1>1, Invariance, PTL

(* The handler, its goroutines, their deadline and the server's answers    *)
(* implement SendOutcome: each reply keeps the promise stated for it.      *)
THEOREM ImplementsOutcomeHolds == Spec => ImplementsOutcome
<1> DEFINE answer == [a \in Attempts |-> IF stage[a] \in Replies THEN stage[a] ELSE "none"]
<1>1. Init => Outcome!OutcomeInit
  BY DEF Init, Outcome!OutcomeInit, Accepted, Replies
<1>2. IInv /\ [Next]_vars => [Outcome!OutcomeNext]_<<Accepted, answer>>
  <2> SUFFICES ASSUME IInv, [Next]_vars
               PROVE  Outcome!OutcomeNext \/ UNCHANGED <<Accepted, answer>>
    OBVIOUS
  <2> USE DEF IInv
  <2>1. ASSUME NEW a \in Attempts, Request(a) \/ EndExchange(a) \/ StartExchange(a)
        PROVE  UNCHANGED <<Accepted, answer>>
    <3>1. UNCHANGED verdict
      BY <2>1 DEF Request, EndExchange, StartExchange
    <3>2. /\ \A b \in Attempts : b # a => stage'[b] = stage[b]
          /\ stage'[a] = stage[a] \/ (stage[a] \notin Replies /\ stage'[a] \notin Replies)
      BY <2>1 DEF Request, EndExchange, StartExchange, Taken, Types, Replies
    <3> QED BY <3>1, <3>2 DEF Accepted
  <2>2. ASSUME NEW a \in Attempts, ServerDecides(a)
        PROVE  Outcome!OutcomeNext \/ UNCHANGED <<Accepted, answer>>
    <3>1. /\ verdict[a] = "none" /\ conn[a] # "none" /\ UNCHANGED stage
          /\ \E v \in {"accepted", "throttled", "rejected"} : verdict' = [verdict EXCEPT ![a] = v]
      BY <2>2 DEF ServerDecides
    <3>2. CASE verdict'[a] = "accepted"
      <4>1. a \notin Accepted /\ Accepted' = Accepted \cup {a}
        BY <3>1, <3>2 DEF Accepted, Types
      <4>2. answer[a] \in {"none", "failed", "lost"}
        BY <3>1 DEF NothingBefore, ResultsTrue, Types, Replies
      <4>3. Outcome!Accept(a)
        BY <3>1, <4>1, <4>2 DEF Outcome!Accept
      <4> QED BY <4>3 DEF Outcome!OutcomeNext
    <3>3. CASE verdict'[a] # "accepted"
      BY <3>1, <3>3 DEF Accepted, Types
    <3> QED BY <3>2, <3>3
  <2>3. ASSUME NEW a \in Attempts, NEW r \in Replies, TrueReply(a, r)
        PROVE  Outcome!OutcomeNext
    <3>1. stage[a] \in {"queued", "sending"} /\ stage' = [stage EXCEPT ![a] = r] /\ UNCHANGED verdict
      BY <2>3 DEF TrueReply, Reply
    <3>2. answer[a] = "none" /\ Accepted' = Accepted
      BY <3>1 DEF Replies, Accepted
    <3>3. answer' = [b \in Attempts |-> IF b \in {a} THEN r ELSE answer[b]]
      BY <3>1 DEF Types
    <3>4. /\ r = "sent" => a \in Accepted
          /\ r \in {"throttled", "refused", "empty"} => a \notin Accepted
      BY <2>3 DEF TrueReply, Accepted, NothingBefore
    <3>5. Outcome!Answer({a}, r)
      BY <3>2, <3>3, <3>4 DEF Outcome!Answer, Outcome!NotSent
    <3> QED BY <3>5 DEF Outcome!OutcomeNext, Outcome!Replies, Replies
  <2>4. CASE Crash
    <3> DEFINE A == {a \in Attempts : stage[a] \in {"queued", "sending"}}
    <3>1. \A a \in A : answer[a] = "none"
      BY DEF Replies
    <3>2. answer' = [a \in Attempts |-> IF a \in A THEN "lost" ELSE answer[a]]
      BY <2>4 DEF Crash, Replies
    <3>3. UNCHANGED Accepted
      BY <2>4 DEF Crash, Accepted
    <3>4. Outcome!Answer(A, "lost")
      BY <3>1, <3>2, <3>3 DEF Outcome!Answer, Outcome!NotSent
    <3>5. A \in SUBSET Attempts
      OBVIOUS
    <3> HIDE DEF A
    <3> QED BY <3>4, <3>5 DEF Outcome!OutcomeNext, Outcome!Replies
  <2>5. CASE UNCHANGED vars
    BY <2>5 DEF vars, Accepted
  <2> QED
    BY <2>1, <2>2, <2>3, <2>4, <2>5, RepliesTrue DEF Next
<1> QED
  BY <1>1, <1>2, Invariance, PTL DEF Spec, ImplementsOutcome, Outcome!OutcomeSpec

(* An exchange is started for what passed every check, and neither the     *)
(* email nor the configuration changes.                                    *)
Checked ==
  /\ content \in Inputs
  /\ \A a \in Attempts : conn[a] # "none" =>
       /\ Admitted(a) /\ config.enabled
       /\ IsEnvelopeAddress(Sender(a)) /\ IsEnvelopeAddress(Mail(a).to)

LEMMA CheckedHolds == Spec => []Checked
<1>1. Init => Checked
  BY DEF Init, Checked
<1>2. Types /\ Checked /\ [Next]_vars => Checked'
  <2> SUFFICES ASSUME Types, Checked, [Next]_vars PROVE Checked'
    OBVIOUS
  <2> USE DEF Types, Checked
  <2>1. UNCHANGED <<content, env>>
    BY DEF Next, vars, inputVars, Request, Handle, Refuse, SkipRecipient, GroupRefused,
           SendNothing, SendInvalid, StartExchange, ResultArrives, DeadlinePasses, Reply,
           ServerDecides, EndExchange, Crash
  <2>2. ASSUME NEW a \in Attempts, conn'[a] # "none"
        PROVE  \/ conn[a] # "none"
               \/ /\ Admitted(a) /\ config.enabled
                  /\ IsEnvelopeAddress(Sender(a)) /\ IsEnvelopeAddress(Mail(a).to)
    <3>1. ASSUME NEW b \in Attempts, StartExchange(b), a = b
          PROVE  /\ Admitted(a) /\ config.enabled
                 /\ IsEnvelopeAddress(Sender(a)) /\ IsEnvelopeAddress(Mail(a).to)
      BY <3>1 DEF StartExchange
    <3>2. ASSUME NEW b \in Attempts, StartExchange(b), a # b PROVE conn[a] # "none"
      BY <2>2, <3>2 DEF StartExchange
    <3>3. ASSUME NEW b \in Attempts, EndExchange(b) PROVE conn[a] # "none"
      BY <2>2, <3>3 DEF EndExchange
    <3>4. CASE Crash
      BY <2>2, <3>4 DEF Crash
    <3>5. CASE UNCHANGED conn
      BY <2>2, <3>5
    <3> QED
      BY <3>1, <3>2, <3>3, <3>4, <3>5
      DEF Next, vars, Request, Handle, Refuse, SkipRecipient, GroupRefused, SendNothing,
          SendInvalid, ResultArrives, DeadlinePasses, Reply, ServerDecides
  <2> QED
    BY <2>1, <2>2 DEF Admitted, Sender, Mail, config
<1>3. IInv => Types
  BY DEF IInv
<1> QED
  BY <1>1, <1>2, <1>3, Invariance, PTL DEF Spec

(* Whatever leaves the service is in the allow lists, as a server reads    *)
(* it, for every input whose plain addresses are read as they are written. *)
THEOREM EnvelopeAdmittedHolds == Spec => []EnvelopeAdmitted
<1>1. Checked => EnvelopeAdmitted
  <2> SUFFICES ASSUME Checked, NEW a \in Attempts, conn[a] # "none"
               PROVE  /\ config.enabled
                      /\ \A addr \in {Mail(a).to, Sender(a)} : addr.form # "quoted"
                      /\ config.recipients # {} => Under(Mail(a).to.path, config.recipients)
                      /\ Sender(a).path \in config.from \cup {config.sender.path}
                      /\ Mail(a).replyTo # Empty => Under(Mail(a).replyTo.path, config.replyTo)
                      /\ env.from.set /\ env.from.domains = {} => Mail(a).from = Empty
                      /\ env.replyTo.set /\ env.replyTo.domains = {} => Mail(a).replyTo = Empty
    BY DEF EnvelopeAdmitted
  <2>1. /\ Admitted(a) /\ config.enabled
        /\ IsEnvelopeAddress(Sender(a)) /\ IsEnvelopeAddress(Mail(a).to)
    BY DEF Checked
  <2>2. \A addr \in {Mail(a).to, Mail(a).from, Mail(a).replyTo} :
          IsStrict(addr) => addr.path = addr.domain
    <3>1. a[1] \in Mails
      BY DEF Attempts
    <3> QED BY <3>1, AddressAssumption DEF Checked, Mail, IsStrict
  <2>3. \A addr \in {Mail(a).to, Sender(a)} : addr.form # "quoted"
    BY <2>1 DEF IsEnvelopeAddress
  <2>4. config.recipients # {} => Under(Mail(a).to.path, config.recipients)
    BY <2>1, <2>2 DEF Admitted, IsRecipientAllowed
  <2>5. Sender(a).path \in config.from \cup {config.sender.path}
    BY <2>1, <2>2 DEF Admitted, ValidateFrom, Sender
  <2>6. Mail(a).replyTo # Empty => Under(Mail(a).replyTo.path, config.replyTo)
    BY <2>1, <2>2 DEF Admitted, ValidateReplyTo
  <2>7. env.from.set /\ env.from.domains = {} => config.from = {}
    BY DEF config, ParseEnv, DomainsOf
  <2>8. env.replyTo.set /\ env.replyTo.domains = {} => config.replyTo = {}
    BY DEF config, ParseEnv, DomainsOf
  <2>9. env.from.set /\ env.from.domains = {} => Mail(a).from = Empty
    BY <2>1, <2>7 DEF Admitted, ValidateFrom
  <2>10. env.replyTo.set /\ env.replyTo.domains = {} => Mail(a).replyTo = Empty
    BY <2>1, <2>8 DEF Admitted, ValidateReplyTo, Under
  <2> QED BY <2>1, <2>3, <2>4, <2>5, <2>6, <2>9, <2>10
<1> QED
  BY <1>1, CheckedHolds, PTL
===============================================================================
