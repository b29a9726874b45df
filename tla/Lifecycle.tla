------------------------------ MODULE Lifecycle ------------------------------
(***************************************************************************)
(* One replica's process, cmd/email-service/main.go, from subscribing on:  *)
(* the read slots, the poller goroutine, and the ways down: a signal, a    *)
(* poller that gives up, a connection that NATS closes.  What the handlers *)
(* do is in SendTracking and GroupReads; here a request is only taken and  *)
(* answered.                                                               *)
(*                                                                         *)
(* nats.go runs one callback at a time per subscription, and the closed    *)
(* handler on a goroutine of its own.  Draining a subscription stops the   *)
(* delivery to it; it is closed once its queued messages were handed over. *)
(***************************************************************************)
EXTENDS Integers, FiniteSets

CONSTANTS
  MaxInFlightReads,      \* maxInFlightReads
  MaxConsecutiveErrors,  \* of the poller
  MaxArrivals            \* bound: requests delivered to the replica

ASSUME LifecycleAssumption ==
  /\ MaxInFlightReads \in Nat \ {0}
  /\ MaxConsecutiveErrors \in Nat \ {0}
  /\ MaxArrivals \in Nat

ReadSubs == {"status", "analytics"}
Subs == ReadSubs \cup {"send"}

VARIABLES
  main,        \* where main is
  done,        \* the channel done holds a signal
  cancelled,   \* ctx is cancelled
  wg,          \* the counter of the WaitGroup
  conn,        \* the NATS connection: "open", "draining", "closed"
  closedRan,   \* the closed handler has run
  sub,         \* sub[s]: "none", "active", "draining", "closed"
  queued,      \* queued[s]: messages delivered to s and not yet handed to its callback
  sending,     \* the send_email callback is running
  reading,     \* read requests running on goroutines
  held,        \* read slots main holds
  readsLate,   \* drainReads has run out of time
  deadline,    \* the shutdown deadline has passed
  poller,      \* "off", "polling", "aborting", "cancelling", "signalling", "stopped"
  errors,      \* consecutiveErrors
  aborted,     \* pollerAborted
  http,        \* the HTTP server: "none", "serving", "stopping", "stopped"
  exitCode,    \* -1 while the process runs
  arrivals,    \* requests delivered
  lost,        \* history: requests taken from NATS that were not answered
  broken       \* history: NATS closed the connection on its own

connVars == <<conn, closedRan, sub, queued, sending, lost, broken>>
readVars == <<reading, held>>
timeVars == <<readsLate, deadline>>
pollerVars == <<poller, errors, aborted>>
mainVars == <<main, http, exitCode>>
vars == <<main, done, cancelled, wg, conn, closedRan, sub, queued, sending, reading, held,
          readsLate, deadline, poller, errors, aborted, http, exitCode, arrivals, lost, broken>>

(* Connected, with wg.Add(2) done: HTTP server and NATS drain.             *)
Init ==
  /\ main = "subscribe"
  /\ done = FALSE /\ cancelled = FALSE
  /\ wg = 2
  /\ conn = "open" /\ closedRan = FALSE
  /\ sub = [s \in Subs |-> "none"]
  /\ queued = [s \in Subs |-> 0]
  /\ sending = FALSE
  /\ reading = 0 /\ held = 0
  /\ readsLate = FALSE /\ deadline = FALSE
  /\ poller = "off" /\ errors = 0 /\ aborted = FALSE
  /\ http = "none" /\ exitCode = -1
  /\ arrivals = 0 /\ lost = 0 /\ broken = FALSE

Running == exitCode = -1
Unanswered == IF conn = "closed" THEN 1 ELSE 0

MainAt(at, next) == main = at /\ main' = next

-----------------------------------------------------------------------------
(* Startup.  Requests arrive as soon as the first subscription is there.   *)
Subscribe(s) ==
  /\ MainAt("subscribe", IF s = "analytics" THEN "start" ELSE "subscribe")
  /\ conn # "closed"
  /\ sub[s] = "none"
  /\ s = "status" => sub["send"] # "none"
  /\ s = "analytics" => sub["status"] # "none"
  /\ sub' = [sub EXCEPT ![s] = "active"]
  /\ UNCHANGED <<http, exitCode, done, cancelled, wg, conn, closedRan, queued, sending, lost,
                 broken, readVars, timeVars, pollerVars, arrivals>>

(* A subscription fails, or eventing is enabled without a queue, a bucket  *)
(* or an AWS configuration: os.Exit drops what was taken until then.       *)
StartupFails ==
  /\ main \in {"subscribe", "start"}
  /\ main' = "failed"
  /\ exitCode' = 1
  /\ cancelled' = TRUE
  /\ lost' = lost + queued["status"] + queued["analytics"] + queued["send"]
                  + reading + (IF sending THEN 1 ELSE 0)
  /\ UNCHANGED <<http, done, wg, conn, closedRan, sub, queued, sending, broken, readVars,
                 timeVars, pollerVars, arrivals>>

StartWithoutPoller ==
  /\ MainAt("start", "wait")
  /\ http' = "serving"
  /\ UNCHANGED <<exitCode, done, cancelled, wg, connVars, readVars, timeVars, pollerVars,
                 arrivals>>

(* Mutant: nobody waits for the poller.                                    *)
StartWithPollerUncounted ==
  /\ MainAt("start", "wait")
  /\ http' = "serving"
  /\ poller' = "polling"
  /\ UNCHANGED <<exitCode, done, cancelled, wg, connVars, readVars, timeVars, errors, aborted,
                 arrivals>>

(* SES_EVENTING_ENABLED.                                                   *)
StartWithPoller ==
  /\ MainAt("start", "wait")
  /\ http' = "serving"
  /\ poller' = "polling"
  /\ wg' = wg + 1
  /\ UNCHANGED <<exitCode, done, cancelled, connVars, readVars, timeVars, errors, aborted,
                 arrivals>>

-----------------------------------------------------------------------------
(* Requests.                                                               *)
Deliver(s) ==
  /\ conn # "closed"
  /\ sub[s] = "active"
  /\ arrivals < MaxArrivals
  /\ arrivals' = arrivals + 1
  /\ queued' = [queued EXCEPT ![s] = @ + 1]
  /\ UNCHANGED <<mainVars, done, cancelled, wg, conn, closedRan, sub, sending, lost, broken,
                 readVars, timeVars, pollerVars>>

SlotFree == reading + held < MaxInFlightReads

(* dispatchRead: a slot and a goroutine, or "service busy" at once.        *)
DispatchRead(s) ==
  /\ s \in ReadSubs
  /\ queued[s] > 0
  /\ queued' = [queued EXCEPT ![s] = @ - 1]
  /\ IF SlotFree
     THEN reading' = reading + 1 /\ UNCHANGED lost
     ELSE lost' = lost + Unanswered /\ UNCHANGED reading
  /\ UNCHANGED <<mainVars, done, cancelled, wg, conn, closedRan, sub, sending, broken, held,
                 timeVars, pollerVars, arrivals>>

(* The handler replies, then the goroutine gives its slot back.            *)
FinishRead ==
  /\ reading > 0
  /\ reading' = reading - 1
  /\ lost' = lost + Unanswered
  /\ UNCHANGED <<mainVars, done, cancelled, wg, conn, closedRan, sub, queued, sending, broken,
                 held, timeVars, pollerVars, arrivals>>

(* send_email is handled on the subscription's own goroutine.              *)
BeginSend ==
  /\ queued["send"] > 0
  /\ ~ sending
  /\ queued' = [queued EXCEPT !["send"] = @ - 1]
  /\ sending' = TRUE
  /\ UNCHANGED <<mainVars, done, cancelled, wg, conn, closedRan, sub, lost, broken, readVars,
                 timeVars, pollerVars, arrivals>>

FinishSend ==
  /\ sending
  /\ sending' = FALSE
  /\ lost' = lost + Unanswered
  /\ UNCHANGED <<mainVars, done, cancelled, wg, conn, closedRan, sub, queued, broken, readVars,
                 timeVars, pollerVars, arrivals>>

-----------------------------------------------------------------------------
(* The connection.  Messages still queued when it closes are not handled.  *)
Close ==
  /\ conn' = "closed"
  /\ sub' = [s \in Subs |-> "closed"]
  /\ queued' = [s \in Subs |-> 0]
  /\ lost' = lost + queued["status"] + queued["analytics"] + queued["send"]

(* Reconnecting has failed for good.                                       *)
ConnectionLost ==
  /\ conn # "closed"
  /\ Close
  /\ broken' = TRUE
  /\ UNCHANGED <<mainVars, done, cancelled, wg, closedRan, sending, readVars, timeVars,
                 pollerVars, arrivals>>

SubDrained(s) ==
  /\ conn # "closed"
  /\ sub[s] = "draining"
  /\ queued[s] = 0
  /\ s = "send" => ~ sending
  /\ sub' = [sub EXCEPT ![s] = "closed"]
  /\ UNCHANGED <<mainVars, done, cancelled, wg, conn, closedRan, queued, sending, lost, broken,
                 readVars, timeVars, pollerVars, arrivals>>

(* nc.Drain ends: every subscription is closed.                            *)
ConnectionDrained ==
  /\ conn = "draining"
  /\ \A s \in Subs : sub[s] = "closed"
  /\ Close
  /\ UNCHANGED <<mainVars, done, cancelled, wg, closedRan, sending, broken, readVars, timeVars,
                 pollerVars, arrivals>>

(* Mutant: the WaitGroup is released only on an expected close.            *)
ClosedHandlerExpected ==
  /\ conn = "closed"
  /\ ~ closedRan
  /\ closedRan' = TRUE
  /\ done' = (done \/ ~ cancelled)
  /\ wg' = IF cancelled THEN wg - 1 ELSE wg
  /\ UNCHANGED <<mainVars, cancelled, conn, sub, queued, sending, lost, broken, readVars,
                 timeVars, pollerVars, arrivals>>

(* The closed handler asks for a shutdown unless one is under way.         *)
ClosedHandler ==
  /\ conn = "closed"
  /\ ~ closedRan
  /\ closedRan' = TRUE
  /\ done' = (done \/ ~ cancelled)
  /\ wg' = wg - 1
  /\ UNCHANGED <<mainVars, cancelled, conn, sub, queued, sending, lost, broken, readVars,
                 timeVars, pollerVars, arrivals>>

-----------------------------------------------------------------------------
(* Poller.Run; a message handler's steps are in Engagement.                *)
PollReturns ==
  /\ poller = "polling"
  /\ ~ cancelled
  /\ errors' = 0
  /\ UNCHANGED <<mainVars, done, cancelled, wg, connVars, readVars, timeVars, poller, aborted,
                 arrivals>>

(* Mutant: one error too many is tolerated.                                *)
PollFailsOneMore ==
  /\ poller = "polling"
  /\ ~ cancelled
  /\ errors' = errors + 1
  /\ poller' = IF errors + 1 > MaxConsecutiveErrors THEN "aborting" ELSE "polling"
  /\ UNCHANGED <<mainVars, done, cancelled, wg, connVars, readVars, timeVars, aborted, arrivals>>

PollFails ==
  /\ poller = "polling"
  /\ ~ cancelled
  /\ errors' = errors + 1
  /\ poller' = IF errors + 1 >= MaxConsecutiveErrors THEN "aborting" ELSE "polling"
  /\ UNCHANGED <<mainVars, done, cancelled, wg, connVars, readVars, timeVars, aborted, arrivals>>

Abort ==
  /\ poller = "aborting"
  /\ aborted' = TRUE
  /\ poller' = "cancelling"
  /\ UNCHANGED <<mainVars, done, cancelled, wg, connVars, readVars, timeVars, errors, arrivals>>

AbortCancels ==
  /\ poller = "cancelling"
  /\ cancelled' = TRUE
  /\ poller' = "signalling"
  /\ UNCHANGED <<mainVars, done, wg, connVars, readVars, timeVars, errors, aborted, arrivals>>

AbortSignals ==
  /\ poller = "signalling"
  /\ done' = TRUE
  /\ wg' = wg - 1
  /\ poller' = "stopped"
  /\ UNCHANGED <<mainVars, cancelled, connVars, readVars, timeVars, errors, aborted, arrivals>>

PollerStops ==
  /\ poller = "polling"
  /\ cancelled
  /\ wg' = wg - 1
  /\ poller' = "stopped"
  /\ UNCHANGED <<mainVars, done, cancelled, connVars, readVars, timeVars, errors, aborted,
                 arrivals>>

-----------------------------------------------------------------------------
(* SIGTERM or SIGINT; the channel keeps one.                               *)
Signal ==
  /\ Running
  /\ ~ done
  /\ done' = TRUE
  /\ UNCHANGED <<mainVars, cancelled, wg, connVars, readVars, timeVars, pollerVars, arrivals>>

(* <-done, cancel(), and the goroutine that stops the HTTP server.         *)
BeginShutdown ==
  /\ MainAt("wait", "check")
  /\ done
  /\ done' = FALSE
  /\ cancelled' = TRUE
  /\ http' = "stopping"
  /\ UNCHANGED <<exitCode, wg, connVars, readVars, timeVars, pollerVars, arrivals>>

HttpStops ==
  /\ http = "stopping"
  /\ http' = "stopped"
  /\ wg' = wg - 1
  /\ UNCHANGED <<main, exitCode, done, cancelled, connVars, readVars, timeVars, pollerVars,
                 arrivals>>

(* A connection already closed needs no draining.                          *)
CheckConnection ==
  /\ main = "check"
  /\ main' = IF conn = "open" THEN "drain_send" ELSE "wait_group"
  /\ UNCHANGED <<http, exitCode, done, cancelled, wg, connVars, readVars, timeVars, pollerVars,
                 arrivals>>

DrainSub(s) == sub' = [sub EXCEPT ![s] = IF @ = "active" THEN "draining" ELSE @]

(* drainReads.                                                             *)
DrainSend ==
  /\ MainAt("drain_send", "drain_status")
  /\ DrainSub("send")
  /\ UNCHANGED <<http, exitCode, done, cancelled, wg, conn, closedRan, queued, sending, lost,
                 broken, readVars, timeVars, pollerVars, arrivals>>

DrainStatus ==
  /\ MainAt("drain_status", "drain_analytics")
  /\ DrainSub("status")
  /\ UNCHANGED <<http, exitCode, done, cancelled, wg, conn, closedRan, queued, sending, lost,
                 broken, readVars, timeVars, pollerVars, arrivals>>

DrainAnalytics ==
  /\ MainAt("drain_analytics", "await_subs")
  /\ DrainSub("analytics")
  /\ UNCHANGED <<http, exitCode, done, cancelled, wg, conn, closedRan, queued, sending, lost,
                 broken, readVars, timeVars, pollerVars, arrivals>>

AwaitSubs ==
  /\ MainAt("await_subs", "take_slots")
  /\ \A s \in ReadSubs : sub[s] = "closed"
  /\ UNCHANGED <<http, exitCode, done, cancelled, wg, connVars, readVars, timeVars, pollerVars,
                 arrivals>>

TakeSlot ==
  /\ main = "take_slots"
  /\ held < MaxInFlightReads
  /\ SlotFree
  /\ held' = held + 1
  /\ UNCHANGED <<mainVars, done, cancelled, wg, connVars, reading, timeVars, pollerVars, arrivals>>

(* Mutant: the connection is drained when the read subscriptions are.      *)
AllSlotsTakenSkipped == held >= 0

AllSlotsTaken == held = MaxInFlightReads

GiveUpReads ==
  /\ main \in {"await_subs", "take_slots"}
  /\ readsLate
  /\ main' = "drain_connection"
  /\ UNCHANGED <<http, exitCode, done, cancelled, wg, connVars, readVars, timeVars, pollerVars,
                 arrivals>>

ReadsDrained ==
  /\ MainAt("take_slots", "drain_connection")
  /\ AllSlotsTaken
  /\ UNCHANGED <<http, exitCode, done, cancelled, wg, connVars, readVars, timeVars, pollerVars,
                 arrivals>>

(* nc.Drain; on a connection closed in the meantime it does nothing.       *)
DrainConnection ==
  /\ MainAt("drain_connection", "wait_group")
  /\ conn' = IF conn = "open" THEN "draining" ELSE conn
  /\ sub' = [s \in Subs |-> IF sub[s] = "active" THEN "draining" ELSE sub[s]]
  /\ UNCHANGED <<http, exitCode, done, cancelled, wg, closedRan, queued, sending, lost, broken,
                 readVars, timeVars, pollerVars, arrivals>>

(* Time passes: the read wait ends no later than the shutdown deadline.    *)
ReadsRunLate ==
  /\ main \in {"await_subs", "take_slots"}
  /\ ~ readsLate
  /\ readsLate' = TRUE
  /\ UNCHANGED <<mainVars, done, cancelled, wg, connVars, readVars, deadline, pollerVars, arrivals>>

(* closeAtDeadline: closes the connection if the drain is still running.   *)
DeadlineCloses ==
  /\ main = "wait_group"
  /\ conn = "draining"
  /\ deadline' = TRUE
  /\ Close
  /\ UNCHANGED <<mainVars, done, cancelled, wg, closedRan, sending, broken, readVars, readsLate,
                 pollerVars, arrivals>>

(* wg.Wait and the exit status.                                            *)
Exit ==
  /\ MainAt("wait_group", "exited")
  /\ wg = 0
  /\ exitCode' = IF aborted THEN 1 ELSE 0
  /\ UNCHANGED <<http, done, cancelled, wg, connVars, readVars, timeVars, pollerVars, arrivals>>

-----------------------------------------------------------------------------
MainStep ==
  \/ \E s \in Subs : Subscribe(s)
  \/ StartupFails \/ StartWithoutPoller \/ StartWithPoller
  \/ BeginShutdown \/ CheckConnection
  \/ DrainSend \/ DrainStatus \/ DrainAnalytics
  \/ AwaitSubs \/ TakeSlot \/ GiveUpReads \/ ReadsDrained
  \/ DrainConnection \/ Exit

PollerStep == PollReturns \/ PollFails \/ PollerStops
AbortStep == Abort \/ AbortCancels \/ AbortSignals

ConnStep ==
  \/ \E s \in Subs : SubDrained(s)
  \/ ConnectionDrained
  \/ ClosedHandler

Next ==
  /\ Running
  /\ \/ MainStep \/ PollerStep \/ AbortStep \/ ConnStep \/ HttpStops
     \/ \E s \in Subs : Deliver(s)
     \/ \E s \in ReadSubs : DispatchRead(s)
     \/ FinishRead \/ BeginSend \/ FinishSend
     \/ ConnectionLost \/ Signal \/ ReadsRunLate \/ DeadlineCloses

Spec == Init /\ [][Next]_vars

(* Goroutines that can run do run, and timers fire.  Neither a request nor *)
(* nats.go's own drain is assumed to end: the deadlines are there for that.*)
FairSpec ==
  /\ Spec
  /\ WF_vars(Running /\ MainStep)
  /\ WF_vars(Running /\ PollerStops)
  /\ WF_vars(Running /\ AbortStep)
  /\ WF_vars(Running /\ ClosedHandler)
  /\ WF_vars(Running /\ HttpStops)
  /\ WF_vars(Running /\ ReadsRunLate)
  /\ WF_vars(Running /\ DeadlineCloses)

-----------------------------------------------------------------------------
(* The shape of the state; a WaitGroup counter below zero would panic.     *)
TypeOK ==
  /\ main \in {"subscribe", "start", "failed", "wait", "check", "drain_send", "drain_status",
               "drain_analytics", "await_subs", "take_slots", "drain_connection", "wait_group", "exited"}
  /\ {done, cancelled, closedRan, sending, readsLate, deadline, aborted, broken} \subseteq BOOLEAN
  /\ wg \in 0..3
  /\ conn \in {"open", "draining", "closed"}
  /\ sub \in [Subs -> {"none", "active", "draining", "closed"}]
  /\ queued \in [Subs -> 0..MaxArrivals]
  /\ reading \in 0..MaxInFlightReads /\ held \in 0..MaxInFlightReads
  /\ poller \in {"off", "polling", "aborting", "cancelling", "signalling", "stopped"}
  /\ errors \in 0..MaxConsecutiveErrors
  /\ http \in {"none", "serving", "stopping", "stopped"}
  /\ exitCode \in {-1, 0, 1}
  /\ arrivals \in 0..MaxArrivals /\ lost \in 0..arrivals

(* A shutdown answers every request the replica has taken, unless time     *)
(* runs out or NATS closes the connection; only a failing startup drops    *)
(* what its subscriptions have taken.                                      *)
NoRequestDropped == lost > 0 => readsLate \/ deadline \/ broken \/ main = "failed"

(* A poller that gave up makes the process fail, however the shutdown it   *)
(* asks for meets a signal or a lost connection; besides a failed startup, *)
(* nothing else does.                                                      *)
AbortFailsProcess ==
  exitCode # -1 => (exitCode = 1 <=> errors >= MaxConsecutiveErrors \/ main = "failed")

(* Once asked to stop, even while it starts, or without its connection or  *)
(* its poller, the process exits: the WaitGroup is always released.        *)
ShutdownEnds ==
  (done \/ cancelled \/ conn = "closed" \/ aborted) ~> exitCode # -1
=============================================================================
