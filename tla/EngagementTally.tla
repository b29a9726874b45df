---------------------------- MODULE EngagementTally ----------------------------
(***************************************************************************)
(* What engagement tracking promises the reader of one email's record      *)
(* while the dedup windows have room: each open and each click is counted  *)
(* once, delivery and failure are noted once, and a notice follows only    *)
(* what the record already shows, at most once.  There are no replicas, no *)
(* redelivery and no lost answers here.                                    *)
(***************************************************************************)
EXTENDS Naturals

CONSTANTS Opens, Clicks, Deliveries, Failures

VARIABLES
  opened, clicked,   \* the opens and the clicks counted
  delivered, failed, \* the event that set the flag, 0 while it is not set
  lastOpened, lastClicked,
  noticed            \* the events a notice was published for

vars == <<opened, clicked, delivered, failed, lastOpened, lastClicked, noticed>>

Init ==
  /\ opened = {} /\ clicked = {}
  /\ delivered = 0 /\ failed = 0
  /\ lastOpened = 0 /\ lastClicked = 0
  /\ noticed = {}

Later(t, e) == IF e > t THEN e ELSE t

Open(e) ==
  /\ opened' = opened \cup {e}
  /\ lastOpened' = Later(lastOpened, e)
  /\ UNCHANGED <<clicked, delivered, failed, lastClicked, noticed>>

Click(e) ==
  /\ clicked' = clicked \cup {e}
  /\ lastClicked' = Later(lastClicked, e)
  /\ UNCHANGED <<opened, delivered, failed, lastOpened, noticed>>

Deliver(e) ==
  /\ delivered = 0
  /\ delivered' = e
  /\ UNCHANGED <<opened, clicked, failed, lastOpened, lastClicked, noticed>>

Fail(e) ==
  /\ failed = 0
  /\ failed' = e
  /\ UNCHANGED <<opened, clicked, delivered, lastOpened, lastClicked, noticed>>

Shown == (opened \cup clicked \cup {delivered, failed}) \ {0}

Notify(e) ==
  /\ e \in Shown \ noticed
  /\ noticed' = noticed \cup {e}
  /\ UNCHANGED <<opened, clicked, delivered, failed, lastOpened, lastClicked>>

Next ==
  \/ \E e \in Opens \ opened : Open(e)
  \/ \E e \in Clicks \ clicked : Click(e)
  \/ \E e \in Deliveries : Deliver(e)
  \/ \E e \in Failures : Fail(e)
  \/ \E e \in Shown : Notify(e)

Spec == Init /\ [][Next]_vars
=============================================================================
