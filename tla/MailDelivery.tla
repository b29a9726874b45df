----------------------------- MODULE MailDelivery -----------------------------
(***************************************************************************)
(* The delivery of emails by one replica: the checks of SendEmailHandler,  *)
(* the SMTP exchange that sendMessage runs on a goroutine of its own, the  *)
(* mail server behind it, and a caller that sends again when it is told to *)
(* (docs/email-service-contract.md: "sending throttled ... Retry with      *)
(* backoff") and only then.                                                *)
(*                                                                         *)
(* The goroutine calls smtp.SendMail, which the deadline does not reach:   *)
(* it goes on after the handler gave up, and the server may accept the     *)
(* email at any time, also when the connection broke or the pod died after *)
(* the text was sent.  Tracking, which follows a send, and the check of    *)
(* the group, which may refuse any request here, are in SendTracking.      *)
(***************************************************************************)
EXTENDS AddressPolicy, FiniteSets

CONSTANTS
  Mails,
  Inputs,        \* the possible [Mails -> contents]; contents are [to, from, replyTo]
  Environments,  \* the possible [recipients, from, replyTo, emailEnabled, defaultFrom,
                 \* smtpFrom]: the environment variables parseEnv reads
  MaxTries,      \* bound: requests made for one email
  MaxCrashes     \* bound: pods that die in a behaviour

ASSUME DeliveryAssumption == MaxTries \in Nat /\ MaxCrashes \in Nat

(* strictAddressDomain's argument: a mailbox that needs no quotes and is   *)
(* all ASCII is read by a server as it is written.                         *)
ASSUME AddressAssumption ==
  \A input \in Inputs, m \in Mails :
    \A addr \in {input[m].to, input[m].from, input[m].replyTo} :
      addr.form = "plain" => addr.path = addr.domain

Attempts == Mails \X (1..MaxTries)

Replies == {"sent", "throttled", "refused", "empty", "failed", "lost"}

VARIABLES
  content,   \* content[m]: the addresses of email m
  env,       \* the environment of the replica
  stage,     \* stage[a]: "none", "queued" at the replica, "sending", or its reply
  conn,      \* conn[a]: the goroutine: "none", "open", "ended", "cut" when its pod died
  result,    \* result[a]: what SendMail returned, kept in the channel's one place
  verdict,   \* verdict[a]: what the mail server decided
  crashes

inputVars == <<content, env>>
vars == <<content, env, stage, conn, result, verdict, crashes>>

config == ParseEnv(env)
Mail(a) == content[a[1]]
Sender(a) == IF Mail(a).from = Empty THEN config.sender ELSE Mail(a).from

Init ==
  /\ content \in Inputs
  /\ env \in Environments
  /\ stage = [a \in Attempts |-> "none"]
  /\ conn = [a \in Attempts |-> "none"]
  /\ result = [a \in Attempts |-> "none"]
  /\ verdict = [a \in Attempts |-> "none"]
  /\ crashes = 0

-----------------------------------------------------------------------------
(* The caller: a first request, and another one after "sending throttled". *)
Request(a) ==
  /\ stage[a] = "none"
  /\ a[2] > 1 => stage[<<a[1], a[2] - 1>>] = "throttled"
  /\ stage' = [stage EXCEPT ![a] = "queued"]
  /\ UNCHANGED <<inputVars, conn, result, verdict, crashes>>

(* Mutant: every request is handled on a goroutine of its own.             *)
TakenConcurrently(a) == stage[a] = "queued"

(* HandleData's callback is serial: a request waits while one is being     *)
(* sent.                                                                   *)
Taken(a) == stage[a] = "queued" /\ \A b \in Attempts : stage[b] # "sending"

Reply(a, reply) ==
  /\ stage' = [stage EXCEPT ![a] = reply]
  /\ UNCHANGED <<inputVars, conn, result, verdict, crashes>>

(* oversizedFieldReason.                                                   *)
Bounded(mail) == \A addr \in {mail.to, mail.from, mail.replyTo} : CheckAddressLength(addr)

Refuse(a) ==
  /\ Taken(a)
  /\ \/ ~ Bounded(Mail(a))
     \/ /\ IsRecipientAllowed(Mail(a).to, config.recipients)
        /\ ~ (/\ ValidateFrom(Mail(a).from, config.from)
              /\ ValidateReplyTo(Mail(a).replyTo, config.replyTo))
  /\ Reply(a, "refused")

(* A blocked recipient gets an empty success, whatever From and Reply-To.  *)
SkipRecipient(a) ==
  /\ Taken(a)
  /\ Bounded(Mail(a))
  /\ ~ IsRecipientAllowed(Mail(a).to, config.recipients)
  /\ Reply(a, "empty")

Admitted(a) ==
  /\ Bounded(Mail(a))
  /\ IsRecipientAllowed(Mail(a).to, config.recipients)
  /\ ValidateFrom(Mail(a).from, config.from)
  /\ ValidateReplyTo(Mail(a).replyTo, config.replyTo)

GroupRefused(a) ==
  /\ Taken(a)
  /\ Admitted(a)
  /\ Reply(a, "refused")

(* NoOpSender.                                                             *)
SendNothing(a) ==
  /\ Taken(a)
  /\ Admitted(a)
  /\ ~ config.enabled
  /\ Reply(a, "empty")

(* sendMessage finds that an address is not fit for the envelope.          *)
SendInvalid(a) ==
  /\ Taken(a)
  /\ Admitted(a)
  /\ config.enabled
  /\ ~ (IsEnvelopeAddress(Sender(a)) /\ IsEnvelopeAddress(Mail(a).to))
  /\ Reply(a, "failed")

StartExchange(a) ==
  /\ Taken(a)
  /\ Admitted(a)
  /\ config.enabled
  /\ IsEnvelopeAddress(Sender(a)) /\ IsEnvelopeAddress(Mail(a).to)
  /\ stage' = [stage EXCEPT ![a] = "sending"]
  /\ conn' = [conn EXCEPT ![a] = "open"]
  /\ UNCHANGED <<inputVars, result, verdict, crashes>>

(* Mutant: every SMTP failure is taken for a transient one.                *)
IsThrottledOnAnyError(r) == r # "ok"

(* isThrottled: of all errors only the server's throttling reply.          *)
IsThrottled(r) == r = "throttled"

(* sendMessage's select finds the result in the channel.                   *)
ResultArrives(a) ==
  /\ stage[a] = "sending"
  /\ result[a] # "none"
  /\ Reply(a, IF IsThrottled(result[a]) THEN "throttled"
              ELSE IF result[a] = "ok" THEN "sent" ELSE "failed")

(* Mutant: a send that ran out of time is reported as one to retry.        *)
DeadlinePassesRetryable(a) == stage[a] = "sending" /\ Reply(a, "throttled")

(* Mutant: SendMail is called and waited for without a deadline.           *)
DeadlinePassesNever(a) == FALSE /\ Reply(a, "failed")

(* smtpTimeout: sendMessage returns, also when a result has just come.     *)
DeadlinePasses(a) == stage[a] = "sending" /\ Reply(a, "failed")

-----------------------------------------------------------------------------
(* The mail server decides, once; it may throttle, refuse or accept, and   *)
(* need not do any of it.                                                  *)
ServerDecides(a) ==
  /\ conn[a] # "none"
  /\ verdict[a] = "none"
  /\ \/ verdict' = [verdict EXCEPT ![a] = "accepted"]
     \/ /\ conn[a] = "open"
        /\ \E v \in {"throttled", "rejected"} : verdict' = [verdict EXCEPT ![a] = v]
  /\ UNCHANGED <<inputVars, stage, conn, result, crashes>>

(* What SendMail can return: the server's verdict, or an error of the      *)
(* connection, also after the verdict: of QUIT, whose error is returned    *)
(* although the email was accepted.                                        *)
Returned(a) ==
  {"broken"} \cup (IF verdict[a] = "none" THEN {}
                   ELSE {IF verdict[a] = "accepted" THEN "ok" ELSE verdict[a]})

(* SendMail returns; the channel takes the result, whether the handler     *)
(* still waits for it or not.                                              *)
EndExchange(a) ==
  /\ conn[a] = "open"
  /\ \E r \in Returned(a) : result' = [result EXCEPT ![a] = r]
  /\ conn' = [conn EXCEPT ![a] = "ended"]
  /\ UNCHANGED <<inputVars, stage, verdict, crashes>>

(* The pod dies: requests it had taken get no reply.                       *)
Crash ==
  /\ crashes < MaxCrashes
  /\ crashes' = crashes + 1
  /\ stage' = [a \in Attempts |-> IF stage[a] \in {"queued", "sending"} THEN "lost" ELSE stage[a]]
  /\ conn' = [a \in Attempts |-> IF conn[a] = "open" THEN "cut" ELSE conn[a]]
  /\ UNCHANGED <<inputVars, result, verdict>>

Handle(a) ==
  \/ Refuse(a) \/ SkipRecipient(a) \/ GroupRefused(a)
  \/ SendNothing(a) \/ SendInvalid(a) \/ StartExchange(a)
  \/ ResultArrives(a) \/ DeadlinePasses(a)

Next ==
  \/ \E a \in Attempts : Request(a) \/ Handle(a) \/ ServerDecides(a) \/ EndExchange(a)
  \/ Crash

Spec == Init /\ [][Next]_vars

(* The handler goes on and its deadline passes.  Nothing is assumed of the *)
(* server and of SendMail, which has no deadline: an exchange may stay     *)
(* open for ever, also after the server has decided.                       *)
FairSpec == Spec /\ \A a \in Attempts : WF_vars(Handle(a))

-----------------------------------------------------------------------------
(* Types; and the handler is busy with at most one request.                *)
TypeOK ==
  /\ stage \in [Attempts -> {"none", "queued", "sending"} \cup Replies]
  /\ conn \in [Attempts -> {"none", "open", "ended", "cut"}]
  /\ result \in [Attempts -> {"none", "ok", "throttled", "rejected", "broken"}]
  /\ verdict \in [Attempts -> {"none", "accepted", "throttled", "rejected"}]
  /\ crashes \in 0..MaxCrashes
  /\ \A a, b \in Attempts : stage[a] = "sending" /\ stage[b] = "sending" => a = b

Accepted == {a \in Attempts : verdict[a] = "accepted"}

(* Every reply keeps the promise SendOutcome states for it, however the    *)
(* deadline, a broken connection, a crash and the server's answer fall     *)
(* together.                                                               *)
Outcome == INSTANCE SendOutcome WITH
  accepted <- Accepted,
  answer <- [a \in Attempts |-> IF stage[a] \in Replies THEN stage[a] ELSE "none"]

ImplementsOutcome == Outcome!OutcomeSpec

(* A caller that sends again only after "sending throttled" never has an   *)
(* email delivered twice.                                                  *)
DeliveredOnce ==
  \A a, b \in Accepted : a[1] = b[1] => a = b

(* What leaves the service is what the allow lists were asked about: the   *)
(* path the server reads in the envelope is in the list that was checked,  *)
(* no mailbox that needs quotes is in it, and a list of domains that is    *)
(* set to nothing in the environment (config.go:92) lets no override out.  *)
EnvelopeAdmitted ==
  \A a \in Attempts : conn[a] # "none" =>
    /\ config.enabled
    /\ \A addr \in {Mail(a).to, Sender(a)} : addr.form # "quoted"
    /\ config.recipients # {} => Under(Mail(a).to.path, config.recipients)
    /\ Sender(a).path \in config.from \cup {config.sender.path}
    /\ Mail(a).replyTo # Empty => Under(Mail(a).replyTo.path, config.replyTo)
    /\ env.from.set /\ env.from.domains = {} => Mail(a).from = Empty
    /\ env.replyTo.set /\ env.replyTo.domains = {} => Mail(a).replyTo = Empty

(* A request is answered although the mail server may be silent, unless    *)
(* its pod dies; so those behind it in the subscription get their turn.    *)
EveryRequestAnswered ==
  \A a \in Attempts : stage[a] = "queued" ~> stage[a] \in Replies
=============================================================================
