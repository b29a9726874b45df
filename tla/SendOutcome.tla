----------------------------- MODULE SendOutcome -----------------------------
(***************************************************************************)
(* What a reply to send_email promises about the email.  Mail servers      *)
(* accept or do not accept; the service answers.  "sent" says that it was  *)
(* accepted; "throttled", "refused" and "empty" say that it was not and    *)
(* never will be, so that the request can be made again; "failed", and no  *)
(* answer because the pod died ("lost"), say nothing: the server may have  *)
(* accepted the email, or accept it later.                                 *)
(***************************************************************************)
EXTENDS Naturals

CONSTANT Attempts

VARIABLES accepted, answer

Replies == {"sent", "throttled", "refused", "empty", "failed", "lost"}
NotSent == {"throttled", "refused", "empty"}

OutcomeInit ==
  /\ accepted = {}
  /\ answer = [a \in Attempts |-> "none"]

Accept(a) ==
  /\ a \notin accepted
  /\ answer[a] \in {"none", "failed", "lost"}
  /\ accepted' = accepted \cup {a}
  /\ UNCHANGED answer

(* One answer each, but a pod that dies gives none to several.             *)
Answer(A, reply) ==
  /\ \A a \in A : answer[a] = "none"
  /\ reply = "sent" => A \subseteq accepted
  /\ reply \in NotSent => A \cap accepted = {}
  /\ answer' = [a \in Attempts |-> IF a \in A THEN reply ELSE answer[a]]
  /\ UNCHANGED accepted

OutcomeNext ==
  \/ \E a \in Attempts : Accept(a)
  \/ \E A \in SUBSET Attempts, reply \in Replies : Answer(A, reply)

OutcomeSpec == OutcomeInit /\ [][OutcomeNext]_<<accepted, answer>>
=============================================================================
