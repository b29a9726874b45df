------------------------------ MODULE GroupIndex ------------------------------
(***************************************************************************)
(* What TrackingStore.AppendToGroup promises (internal/domain/tracking.go, *)
(* interface TrackingStore): a group's list of emails is an append-only    *)
(* log of at most MaxGroupEmails entries, an email enters at most one log  *)
(* and at most once, and the result the sender of an email is given is the *)
(* truth about the log: "ok" only when the email is in it, "full" only     *)
(* when it is not and never will be.  "unknown" (a transient failure, or   *)
(* no store) promises nothing.                                             *)
(*                                                                         *)
(* An append takes effect in one atomic step, which may come before,       *)
(* together with, or (after a result of "unknown") later than the result.  *)
(***************************************************************************)
EXTENDS Naturals, Sequences

CONSTANTS
  Emails,          \* the emails, each named after the send_email request it answers
  Handles,         \* the group handles; the group opened by email e has handle e
  MaxGroupEmails   \* api.MaxGroupEmails

VARIABLES
  log,             \* log[h]: the emails of group h, << >> when the group does not exist
  result           \* result[e]: what the sender of e was told about its append

absVars == <<log, result>>

Results == {"none", "ok", "full", "unknown"}

Logged(e) == \E h \in Handles : \E i \in 1..Len(log[h]) : log[h][i] = e

Init ==
  /\ log = [h \in Handles |-> << >>]
  /\ result = [e \in Emails |-> "none"]

(* The append takes effect; the sender may learn of it in the same step.   *)
(* Only the email that opens a group can be its first entry.               *)
TakeEffect(e, h) ==
  /\ ~ Logged(e)
  /\ result[e] # "full"
  /\ Len(log[h]) < MaxGroupEmails
  /\ log[h] = << >> => h = e
  /\ log' = [log EXCEPT ![h] = Append(@, e)]
  /\ \/ UNCHANGED result
     \/ /\ result[e] = "none"
        /\ result' = [result EXCEPT ![e] = "ok"]

(* The sender learns the result.                                           *)
Learn(e, res) ==
  /\ result[e] = "none"
  /\ res = "ok" => Logged(e)
  /\ res = "full" => ~ Logged(e)
  /\ result' = [result EXCEPT ![e] = res]
  /\ UNCHANGED log

Next ==
  \/ \E e \in Emails, h \in Handles : TakeEffect(e, h)
  \/ \E e \in Emails, res \in {"ok", "full", "unknown"} : Learn(e, res)

AtomicIndex == Init /\ [][Next]_absVars
=============================================================================
