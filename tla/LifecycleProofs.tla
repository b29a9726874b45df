---------------------------- MODULE LifecycleProofs ----------------------------
(***************************************************************************)
(* What Lifecycle never does, for any number of read slots, of errors the  *)
(* poller tolerates and of requests.                                       *)
(***************************************************************************)
EXTENDS Lifecycle, TLAPS

One(condition) == IF condition THEN 1 ELSE 0

(* The shape of the state, but for the numbers.                            *)
Types ==
  /\ main \in {"subscribe", "start", "failed", "wait", "check", "drain_send", "drain_status",
               "drain_analytics", "await_subs", "take_slots", "drain_connection", "wait_group",
               "exited"}
  /\ done \in BOOLEAN /\ cancelled \in BOOLEAN /\ closedRan \in BOOLEAN /\ sending \in BOOLEAN
  /\ readsLate \in BOOLEAN /\ deadline \in BOOLEAN /\ aborted \in BOOLEAN /\ broken \in BOOLEAN
  /\ conn \in {"open", "draining", "closed"}
  /\ sub \in [Subs -> {"none", "active", "draining", "closed"}]
  /\ poller \in {"off", "polling", "aborting", "cancelling", "signalling", "stopped"}
  /\ http \in {"none", "serving", "stopping", "stopped"}
  /\ exitCode \in {-1, 0, 1}

(* The WaitGroup counts those main waits for, so it is never negative.     *)
WaitCount ==
  /\ wg \in Nat
  /\ wg = One(~ closedRan) + One(http # "stopped")
            + One(poller \in {"polling", "aborting", "cancelling", "signalling"})

(* Every request is lost, waiting, or running at most once.                *)
RequestsAddUp ==
  /\ queued \in [Subs -> Nat] /\ arrivals \in Nat /\ lost \in Nat /\ reading \in Nat
  /\ arrivals <= MaxArrivals /\ lost <= arrivals
  /\ \A s \in Subs : queued[s] <= arrivals
  /\ main # "failed" =>
       lost + queued["send"] + queued["status"] + queued["analytics"] + reading + One(sending)
         <= arrivals

(* A slot belongs to a request or to main; main leaves the read drain with *)
(* all of them or when time is up.                                         *)
SlotsHeld ==
  /\ reading \in Nat /\ held \in Nat
  /\ reading + held <= MaxInFlightReads
  /\ main \in {"drain_connection", "wait_group", "exited"} =>
       broken \/ readsLate \/ held = MaxInFlightReads

(* The connection drains last; a subscription that is closed has handed    *)
(* over its messages, and after an orderly close nothing is left.          *)
DrainsLast == conn # "open" => broken \/ main \in {"wait_group", "exited"}

HandedOver ==
  conn # "closed" => \A s \in Subs :
    sub[s] = "closed" => queued[s] = 0 /\ (s = "send" => ~ sending)

NothingLeft ==
  conn = "closed" => /\ \A s \in Subs : queued[s] = 0
                     /\ broken \/ deadline \/ ~ sending

(* The errors the poller has counted, and what came of them.               *)
AbortsInOrder ==
  /\ errors \in Nat /\ errors <= MaxConsecutiveErrors
  /\ poller \in {"off", "polling"} => errors < MaxConsecutiveErrors /\ ~ aborted
  /\ poller \in {"aborting", "cancelling", "signalling"} => errors = MaxConsecutiveErrors
  /\ poller = "aborting" => ~ aborted
  /\ poller \in {"cancelling", "signalling"} => aborted
  /\ poller = "stopped" => (aborted <=> errors = MaxConsecutiveErrors)
  /\ main \in {"subscribe", "start"} => poller = "off"

(* The HTTP server runs from the end of the startup to the shutdown.       *)
HttpInOrder ==
  /\ main \in {"subscribe", "start"} => http = "none"
  /\ main = "wait" => http = "serving"

Ends ==
  /\ exitCode = -1 <=> main \notin {"failed", "exited"}
  /\ main = "failed" => exitCode = 1

(* NoRequestDropped needs to know who holds the slots and in which order   *)
(* things close; AbortFailsProcess, that the WaitGroup counts the poller.  *)
IInv ==
  /\ Types /\ WaitCount /\ RequestsAddUp /\ SlotsHeld /\ DrainsLast /\ HandedOver /\ NothingLeft
  /\ AbortsInOrder /\ HttpInOrder /\ Ends /\ NoRequestDropped /\ AbortFailsProcess

-----------------------------------------------------------------------------
LEMMA Limits ==
  /\ MaxInFlightReads \in Nat /\ MaxConsecutiveErrors \in Nat /\ MaxArrivals \in Nat
  /\ MaxInFlightReads > 0 /\ MaxConsecutiveErrors > 0
  BY LifecycleAssumption DEF LifecycleAssumption

LEMMA InitHolds == Init => IInv
<1> SUFFICES ASSUME Init PROVE IInv
  OBVIOUS
<1> USE Limits DEF Init, Subs, ReadSubs, One
<1>1. Types /\ HttpInOrder /\ Ends
  BY DEF Types, HttpInOrder, Ends
<1>2. WaitCount /\ RequestsAddUp
  BY DEF WaitCount, RequestsAddUp
<1>3. SlotsHeld /\ DrainsLast /\ HandedOver /\ NothingLeft
  BY DEF SlotsHeld, DrainsLast, HandedOver, NothingLeft
<1>4. AbortsInOrder /\ NoRequestDropped /\ AbortFailsProcess
  BY DEF AbortsInOrder, NoRequestDropped, AbortFailsProcess
<1> QED
  BY <1>1, <1>2, <1>3, <1>4 DEF IInv

LEMMA TypesKept ==
  ASSUME IInv, Running, [Next]_vars
  PROVE  Types'
<1> USE DEF IInv, Types, Subs, ReadSubs, Next, MainStep, PollerStep, AbortStep, ConnStep,
       MainAt, DrainSub, Close, vars, connVars, readVars, timeVars, pollerVars, mainVars,
       Subscribe, StartupFails, StartWithoutPoller, StartWithPoller, BeginShutdown,
       CheckConnection, DrainSend, DrainStatus, DrainAnalytics, AwaitSubs, TakeSlot,
       GiveUpReads, ReadsDrained, DrainConnection, Exit, PollReturns, PollFails,
       PollerStops, Abort, AbortCancels, AbortSignals, SubDrained, ConnectionDrained,
       ClosedHandler, HttpStops, Deliver, DispatchRead, FinishRead, BeginSend, FinishSend,
       ConnectionLost, Signal, ReadsRunLate, DeadlineCloses
<1>1. (main \in {"subscribe", "start", "failed", "wait", "check", "drain_send", "drain_status",
            "drain_analytics", "await_subs", "take_slots", "drain_connection", "wait_group",
            "exited"})'
  OBVIOUS
<1>2. (done \in BOOLEAN /\ cancelled \in BOOLEAN)'
  OBVIOUS
<1>3. (closedRan \in BOOLEAN /\ sending \in BOOLEAN)'
  OBVIOUS
<1>4. (readsLate \in BOOLEAN /\ deadline \in BOOLEAN)'
  OBVIOUS
<1>5. (aborted \in BOOLEAN /\ broken \in BOOLEAN)'
  OBVIOUS
<1>6. (conn \in {"open", "draining", "closed"})'
  OBVIOUS
<1>7. (sub \in [Subs -> {"none", "active", "draining", "closed"}])'
  OBVIOUS
<1>8. (poller \in {"off", "polling", "aborting", "cancelling", "signalling", "stopped"})'
  OBVIOUS
<1>9. (http \in {"none", "serving", "stopping", "stopped"})'
  OBVIOUS
<1>10. (exitCode \in {-1, 0, 1})'
  OBVIOUS
<1> QED
  BY <1>1, <1>2, <1>3, <1>4, <1>5, <1>6, <1>7, <1>8, <1>9, <1>10

(* The WaitGroup is released by whoever it was counted for.                *)
LEMMA WaitCountKept ==
  ASSUME IInv, Running, [Next]_vars
  PROVE  WaitCount'
<1> USE Limits DEF IInv, Types, WaitCount, AbortsInOrder, HttpInOrder, One
<1>1. CASE UNCHANGED <<wg, closedRan, http, poller>>
  BY <1>1
<1>2. CASE StartWithoutPoller
  BY <1>2 DEF StartWithoutPoller, MainAt, connVars, readVars, timeVars, pollerVars,
         mainVars
<1>3. CASE StartWithPoller
  BY <1>3 DEF StartWithPoller, MainAt, connVars, readVars, timeVars, pollerVars, mainVars
<1>4. CASE BeginShutdown
  BY <1>4 DEF BeginShutdown, MainAt, connVars, readVars, timeVars, pollerVars, mainVars
<1>5. CASE ClosedHandler
  BY <1>5 DEF ClosedHandler, connVars, readVars, timeVars, pollerVars, mainVars
<1>6. CASE HttpStops
  BY <1>6 DEF HttpStops, connVars, readVars, timeVars, pollerVars, mainVars
<1>7. CASE PollFails
  BY <1>7 DEF PollFails, connVars, readVars, timeVars, pollerVars, mainVars
<1>8. CASE PollerStops
  BY <1>8 DEF PollerStops, connVars, readVars, timeVars, pollerVars, mainVars
<1>9. CASE Abort
  BY <1>9 DEF Abort, connVars, readVars, timeVars, pollerVars, mainVars
<1>10. CASE AbortCancels
  BY <1>10 DEF AbortCancels, connVars, readVars, timeVars, pollerVars, mainVars
<1>11. CASE AbortSignals
  BY <1>11 DEF AbortSignals, connVars, readVars, timeVars, pollerVars, mainVars
<1> QED
  BY <1>1, <1>2, <1>3, <1>4, <1>5, <1>6, <1>7, <1>8, <1>9, <1>10, <1>11
     DEF Next, MainStep, PollerStep, AbortStep, ConnStep, MainAt, DrainSub, Close, vars,
            connVars, readVars, timeVars, pollerVars, mainVars, Subscribe, StartupFails,
            CheckConnection, DrainSend, DrainStatus, DrainAnalytics, AwaitSubs, TakeSlot,
            GiveUpReads, ReadsDrained, DrainConnection, Exit, PollReturns, SubDrained,
            ConnectionDrained, Deliver, DispatchRead, FinishRead, BeginSend, FinishSend,
            ConnectionLost, Signal, ReadsRunLate, DeadlineCloses

(* No step makes a request count twice.                                    *)
LEMMA RequestsAddUpKept ==
  ASSUME IInv, Running, [Next]_vars
  PROVE  RequestsAddUp'
<1> USE Limits DEF IInv, Types, RequestsAddUp, SlotsHeld, Ends, Running, One, Subs, ReadSubs
<1>1. CASE UNCHANGED <<queued, reading, sending, lost, arrivals>>
  BY <1>1
<1>2. CASE StartupFails
  BY <1>2 DEF StartupFails, connVars, readVars, timeVars, pollerVars, mainVars
<1>3. ASSUME NEW s \in Subs, Deliver(s) PROVE RequestsAddUp'
  BY <1>3 DEF Deliver, connVars, readVars, timeVars, pollerVars, mainVars
<1>4. ASSUME NEW s \in ReadSubs, DispatchRead(s) PROVE RequestsAddUp'
  BY <1>4 DEF DispatchRead, connVars, readVars, timeVars, pollerVars, mainVars, SlotFree,
         Unanswered
<1>5. CASE FinishRead
  BY <1>5 DEF FinishRead, connVars, readVars, timeVars, pollerVars, mainVars, Unanswered
<1>6. CASE BeginSend
  BY <1>6 DEF BeginSend, connVars, readVars, timeVars, pollerVars, mainVars
<1>7. CASE FinishSend
  BY <1>7 DEF FinishSend, connVars, readVars, timeVars, pollerVars, mainVars, Unanswered
<1>8. CASE ConnectionLost
  BY <1>8 DEF ConnectionLost, Close, connVars, readVars, timeVars, pollerVars, mainVars
<1>9. CASE ConnectionDrained
  BY <1>9 DEF ConnectionDrained, Close, connVars, readVars, timeVars, pollerVars, mainVars
<1>10. CASE DeadlineCloses
  BY <1>10 DEF DeadlineCloses, Close, connVars, readVars, timeVars, pollerVars, mainVars
<1> QED
  BY <1>1, <1>2, <1>3, <1>4, <1>5, <1>6, <1>7, <1>8, <1>9, <1>10
     DEF Next, MainStep, PollerStep, AbortStep, ConnStep, MainAt, DrainSub, Close, vars,
            connVars, readVars, timeVars, pollerVars, mainVars, Subscribe,
            StartWithoutPoller, StartWithPoller, BeginShutdown, CheckConnection,
            DrainSend, DrainStatus, DrainAnalytics, AwaitSubs, TakeSlot, GiveUpReads,
            ReadsDrained, DrainConnection, Exit, PollReturns, PollFails, PollerStops,
            Abort, AbortCancels, AbortSignals, SubDrained, ClosedHandler, HttpStops,
            Signal, ReadsRunLate

(* Slots are given back before they are taken again.                       *)
LEMMA SlotsHeldKept ==
  ASSUME IInv, Running, [Next]_vars
  PROVE  SlotsHeld'
<1> USE Limits DEF IInv, Types, SlotsHeld, DrainsLast
<1>1. CASE /\ UNCHANGED <<reading, held, readsLate, broken>>
           /\ main' \in {"drain_connection", "wait_group", "exited"} =>
                main \in {"drain_connection", "wait_group", "exited"}
  BY <1>1
<1>2. CASE CheckConnection
  BY <1>2 DEF CheckConnection, connVars, readVars, timeVars, pollerVars, mainVars
<1>3. CASE TakeSlot
  BY <1>3 DEF TakeSlot, SlotFree, connVars, readVars, timeVars, pollerVars, mainVars
<1>4. CASE GiveUpReads
  BY <1>4 DEF GiveUpReads, connVars, readVars, timeVars, pollerVars, mainVars
<1>5. CASE ReadsDrained
  BY <1>5 DEF ReadsDrained, MainAt, AllSlotsTaken, connVars, readVars, timeVars,
         pollerVars, mainVars
<1>6. ASSUME NEW s \in ReadSubs, DispatchRead(s) PROVE SlotsHeld'
  BY <1>6 DEF DispatchRead, SlotFree, connVars, readVars, timeVars, pollerVars, mainVars
<1>7. CASE FinishRead
  BY <1>7 DEF FinishRead, connVars, readVars, timeVars, pollerVars, mainVars
<1>8. CASE ConnectionLost
  BY <1>8 DEF ConnectionLost, connVars, readVars, timeVars, pollerVars, mainVars
<1>9. CASE ReadsRunLate
  BY <1>9 DEF ReadsRunLate, connVars, readVars, timeVars, pollerVars, mainVars
<1> QED
  BY <1>1, <1>2, <1>3, <1>4, <1>5, <1>6, <1>7, <1>8, <1>9
     DEF Next, MainStep, PollerStep, AbortStep, ConnStep, MainAt, DrainSub, Close, vars,
            connVars, readVars, timeVars, pollerVars, mainVars, Subscribe, StartupFails,
            StartWithoutPoller, StartWithPoller, BeginShutdown, DrainSend, DrainStatus,
            DrainAnalytics, AwaitSubs, DrainConnection, Exit, PollReturns, PollFails,
            PollerStops, Abort, AbortCancels, AbortSignals, SubDrained, ConnectionDrained,
            ClosedHandler, HttpStops, Deliver, BeginSend, FinishSend, Signal,
            DeadlineCloses

(* Only main drains the connection, and nothing follows but the exit.      *)
LEMMA DrainsLastKept ==
  ASSUME IInv, Running, [Next]_vars
  PROVE  DrainsLast'
<1> USE Limits DEF IInv, Types, DrainsLast
<1>1. CASE /\ UNCHANGED <<conn, broken>>
           /\ main \in {"wait_group", "exited"} => main' \in {"wait_group", "exited"}
  BY <1>1
<1>2. CASE DrainConnection
  BY <1>2 DEF DrainConnection, MainAt, connVars, readVars, timeVars, pollerVars, mainVars
<1>3. CASE ConnectionLost
  BY <1>3 DEF ConnectionLost
<1>4. CASE ConnectionDrained
  BY <1>4 DEF ConnectionDrained, Close, connVars, readVars, timeVars, pollerVars, mainVars
<1>5. CASE DeadlineCloses
  BY <1>5 DEF DeadlineCloses, Close, connVars, readVars, timeVars, pollerVars, mainVars
<1> QED
  BY <1>1, <1>2, <1>3, <1>4, <1>5
     DEF Next, MainStep, PollerStep, AbortStep, ConnStep, MainAt, DrainSub, Close, vars,
            connVars, readVars, timeVars, pollerVars, mainVars, Subscribe, StartupFails,
            StartWithoutPoller, StartWithPoller, BeginShutdown, CheckConnection,
            DrainSend, DrainStatus, DrainAnalytics, AwaitSubs, TakeSlot, GiveUpReads,
            ReadsDrained, Exit, PollReturns, PollFails, PollerStops, Abort, AbortCancels,
            AbortSignals, SubDrained, ClosedHandler, HttpStops, Deliver, DispatchRead,
            FinishRead, BeginSend, FinishSend, Signal, ReadsRunLate

(* A subscription closes when its queue is empty and its callback idle.    *)
LEMMA HandedOverKept ==
  ASSUME IInv, Running, [Next]_vars
  PROVE  HandedOver'
<1> USE Limits DEF IInv, Types, RequestsAddUp, HandedOver, Subs, ReadSubs
<1>1. CASE UNCHANGED <<conn, sub, queued, sending>>
  BY <1>1
<1>2. ASSUME NEW s \in Subs, Subscribe(s) PROVE HandedOver'
  BY <1>2 DEF Subscribe, MainAt
<1>3. CASE DrainSend
  BY <1>3 DEF DrainSend, DrainSub
<1>4. CASE DrainStatus
  BY <1>4 DEF DrainStatus, DrainSub
<1>5. CASE DrainAnalytics
  BY <1>5 DEF DrainAnalytics, DrainSub
<1>6. CASE DrainConnection
  BY <1>6 DEF DrainConnection
<1>7. ASSUME NEW s \in Subs, Deliver(s) PROVE HandedOver'
  BY <1>7 DEF Deliver
<1>8. ASSUME NEW s \in ReadSubs, DispatchRead(s) PROVE HandedOver'
  BY <1>8 DEF DispatchRead, connVars, readVars, timeVars, pollerVars, mainVars
<1>9. CASE BeginSend
  BY <1>9 DEF BeginSend
<1>10. CASE FinishSend
  BY <1>10 DEF FinishSend
<1>11. ASSUME NEW s \in Subs, SubDrained(s) PROVE HandedOver'
  BY <1>11 DEF SubDrained
<1>12. CASE ConnectionLost
  BY <1>12 DEF ConnectionLost, Close
<1>13. CASE ConnectionDrained
  BY <1>13 DEF ConnectionDrained, Close
<1>14. CASE DeadlineCloses
  BY <1>14 DEF DeadlineCloses, Close
<1> QED
  BY <1>1, <1>2, <1>3, <1>4, <1>5, <1>6, <1>7, <1>8, <1>9, <1>10, <1>11, <1>12, <1>13,
         <1>14
     DEF Next, MainStep, PollerStep, AbortStep, ConnStep, MainAt, DrainSub, Close, vars,
            connVars, readVars, timeVars, pollerVars, mainVars, StartupFails,
            StartWithoutPoller, StartWithPoller, BeginShutdown, CheckConnection,
            AwaitSubs, TakeSlot, GiveUpReads, ReadsDrained, Exit, PollReturns, PollFails,
            PollerStops, Abort, AbortCancels, AbortSignals, ClosedHandler, HttpStops,
            FinishRead, Signal, ReadsRunLate

(* A connection that was drained closes without messages or sends.         *)
LEMMA NothingLeftKept ==
  ASSUME IInv, Running, [Next]_vars
  PROVE  NothingLeft'
<1> USE Limits DEF IInv, Types, RequestsAddUp, HandedOver, NothingLeft, Subs, ReadSubs
<1>1. CASE UNCHANGED <<conn, queued, sending, broken, deadline>>
  BY <1>1
<1>2. CASE DrainConnection
  BY <1>2 DEF DrainConnection, connVars, readVars, timeVars, pollerVars, mainVars
<1>3. ASSUME NEW s \in Subs, Deliver(s) PROVE NothingLeft'
  BY <1>3 DEF Deliver
<1>4. ASSUME NEW s \in ReadSubs, DispatchRead(s) PROVE NothingLeft'
  BY <1>4 DEF DispatchRead, connVars, readVars, timeVars, pollerVars, mainVars
<1>5. CASE BeginSend
  BY <1>5 DEF BeginSend
<1>6. CASE FinishSend
  BY <1>6 DEF FinishSend, connVars, readVars, timeVars, pollerVars, mainVars
<1>7. CASE ConnectionLost
  BY <1>7 DEF ConnectionLost, Close
<1>8. CASE ConnectionDrained
  BY <1>8 DEF ConnectionDrained, Close, connVars, readVars, timeVars, pollerVars, mainVars
<1>9. CASE DeadlineCloses
  BY <1>9 DEF DeadlineCloses, Close
<1> QED
  BY <1>1, <1>2, <1>3, <1>4, <1>5, <1>6, <1>7, <1>8, <1>9
     DEF Next, MainStep, PollerStep, AbortStep, ConnStep, MainAt, DrainSub, Close, vars,
            connVars, readVars, timeVars, pollerVars, mainVars, Subscribe, StartupFails,
            StartWithoutPoller, StartWithPoller, BeginShutdown, CheckConnection,
            DrainSend, DrainStatus, DrainAnalytics, AwaitSubs, TakeSlot, GiveUpReads,
            ReadsDrained, Exit, PollReturns, PollFails, PollerStops, Abort, AbortCancels,
            AbortSignals, SubDrained, ClosedHandler, HttpStops, FinishRead, Signal,
            ReadsRunLate

(* The poller aborts once, at the limit, and reports it before it stops.   *)
LEMMA AbortsInOrderKept ==
  ASSUME IInv, Running, [Next]_vars
  PROVE  AbortsInOrder'
<1> USE Limits DEF IInv, Types, AbortsInOrder
<1>1. CASE /\ UNCHANGED <<poller, errors, aborted>>
           /\ main' \in {"subscribe", "start"} => main \in {"subscribe", "start"}
  BY <1>1
<1>2. CASE StartWithPoller
  BY <1>2 DEF StartWithPoller, MainAt
<1>3. CASE PollReturns
  BY <1>3 DEF PollReturns, connVars, readVars, timeVars, pollerVars, mainVars
<1>4. CASE PollFails
  BY <1>4 DEF PollFails, connVars, readVars, timeVars, pollerVars, mainVars
<1>5. CASE PollerStops
  BY <1>5 DEF PollerStops, connVars, readVars, timeVars, pollerVars, mainVars
<1>6. CASE Abort
  BY <1>6 DEF Abort, connVars, readVars, timeVars, pollerVars, mainVars
<1>7. CASE AbortCancels
  BY <1>7 DEF AbortCancels, connVars, readVars, timeVars, pollerVars, mainVars
<1>8. CASE AbortSignals
  BY <1>8 DEF AbortSignals, connVars, readVars, timeVars, pollerVars, mainVars
<1> QED
  BY <1>1, <1>2, <1>3, <1>4, <1>5, <1>6, <1>7, <1>8
     DEF Next, MainStep, PollerStep, AbortStep, ConnStep, MainAt, DrainSub, Close, vars,
            connVars, readVars, timeVars, pollerVars, mainVars, Subscribe, StartupFails,
            StartWithoutPoller, BeginShutdown, CheckConnection, DrainSend, DrainStatus,
            DrainAnalytics, AwaitSubs, TakeSlot, GiveUpReads, ReadsDrained,
            DrainConnection, Exit, SubDrained, ConnectionDrained, ClosedHandler,
            HttpStops, Deliver, DispatchRead, FinishRead, BeginSend, FinishSend,
            ConnectionLost, Signal, ReadsRunLate, DeadlineCloses

(* The HTTP server is started and stopped by main.                         *)
LEMMA HttpInOrderKept ==
  ASSUME IInv, Running, [Next]_vars
  PROVE  HttpInOrder'
<1> USE Limits DEF IInv, Types, HttpInOrder
<1>1. CASE /\ UNCHANGED http
           /\ main' \in {"subscribe", "start", "wait"} => main' = main
  BY <1>1
<1>2. ASSUME NEW s \in Subs, Subscribe(s) PROVE HttpInOrder'
  BY <1>2 DEF Subscribe, MainAt, connVars, readVars, timeVars, pollerVars, mainVars
<1>3. CASE StartWithoutPoller
  BY <1>3 DEF StartWithoutPoller, MainAt
<1>4. CASE StartWithPoller
  BY <1>4 DEF StartWithPoller, MainAt
<1>5. CASE BeginShutdown
  BY <1>5 DEF BeginShutdown, MainAt
<1>6. CASE HttpStops
  BY <1>6 DEF HttpStops, connVars, readVars, timeVars, pollerVars, mainVars
<1> QED
  BY <1>1, <1>2, <1>3, <1>4, <1>5, <1>6
     DEF Next, MainStep, PollerStep, AbortStep, ConnStep, MainAt, DrainSub, Close, vars,
            connVars, readVars, timeVars, pollerVars, mainVars, StartupFails,
            CheckConnection, DrainSend, DrainStatus, DrainAnalytics, AwaitSubs, TakeSlot,
            GiveUpReads, ReadsDrained, DrainConnection, Exit, PollReturns, PollFails,
            PollerStops, Abort, AbortCancels, AbortSignals, SubDrained, ConnectionDrained,
            ClosedHandler, Deliver, DispatchRead, FinishRead, BeginSend, FinishSend,
            ConnectionLost, Signal, ReadsRunLate, DeadlineCloses

(* A process that runs has not failed to start nor exited.                 *)
LEMMA EndsKept ==
  ASSUME IInv, Running, [Next]_vars
  PROVE  Ends'
<1> USE Limits DEF IInv, Types, Ends, Running
<1>1. CASE exitCode' = exitCode /\ main' \notin {"failed", "exited"}
  BY <1>1
<1>2. CASE StartupFails
  BY <1>2 DEF StartupFails
<1>3. CASE Exit
  BY <1>3 DEF Exit, MainAt
<1> QED
  BY <1>1, <1>2, <1>3
     DEF Next, MainStep, PollerStep, AbortStep, ConnStep, MainAt, DrainSub, Close, vars,
            connVars, readVars, timeVars, pollerVars, mainVars, Subscribe,
            StartWithoutPoller, StartWithPoller, BeginShutdown, CheckConnection,
            DrainSend, DrainStatus, DrainAnalytics, AwaitSubs, TakeSlot, GiveUpReads,
            ReadsDrained, DrainConnection, PollReturns, PollFails, PollerStops, Abort,
            AbortCancels, AbortSignals, SubDrained, ConnectionDrained, ClosedHandler,
            HttpStops, Deliver, DispatchRead, FinishRead, BeginSend, FinishSend,
            ConnectionLost, Signal, ReadsRunLate, DeadlineCloses

(* A request can be lost only when time is up or the connection broke.     *)
LEMMA NothingDropped ==
  ASSUME IInv, Running, [Next]_vars
  PROVE  NoRequestDropped'
<1> USE Limits DEF IInv, Types, RequestsAddUp, SlotsHeld, DrainsLast, HandedOver, NothingLeft, Ends, Running,
           NoRequestDropped, Subs, ReadSubs
<1>1. CASE /\ UNCHANGED lost
           /\ readsLate => readsLate'
           /\ deadline => deadline'
           /\ broken => broken'
  BY <1>1
<1>2. CASE StartupFails
  BY <1>2 DEF StartupFails
<1>3. ASSUME NEW s \in ReadSubs, DispatchRead(s) PROVE NoRequestDropped'
  <2>1. conn # "closed"
    BY <1>3 DEF DispatchRead
  <2>2. lost' = lost
    BY <1>3, <2>1 DEF DispatchRead, Unanswered
  <2> QED
    BY <1>3, <2>2 DEF DispatchRead, connVars, readVars, timeVars, pollerVars, mainVars
<1>4. CASE FinishRead
  BY <1>4 DEF FinishRead, Unanswered, connVars, readVars, timeVars, pollerVars, mainVars
<1>5. CASE FinishSend
  BY <1>5 DEF FinishSend, Unanswered, connVars, readVars, timeVars, pollerVars, mainVars
<1>6. CASE ConnectionLost
  BY <1>6 DEF ConnectionLost
<1>7. CASE ConnectionDrained
  BY <1>7 DEF ConnectionDrained, Close, connVars, readVars, timeVars, pollerVars, mainVars
<1>8. CASE DeadlineCloses
  BY <1>8 DEF DeadlineCloses
<1> QED
  BY <1>1, <1>2, <1>3, <1>4, <1>5, <1>6, <1>7, <1>8
     DEF Next, MainStep, PollerStep, AbortStep, ConnStep, MainAt, DrainSub, Close, vars,
            connVars, readVars, timeVars, pollerVars, mainVars, Subscribe,
            StartWithoutPoller, StartWithPoller, BeginShutdown, CheckConnection,
            DrainSend, DrainStatus, DrainAnalytics, AwaitSubs, TakeSlot, GiveUpReads,
            ReadsDrained, DrainConnection, Exit, PollReturns, PollFails, PollerStops,
            Abort, AbortCancels, AbortSignals, SubDrained, ClosedHandler, HttpStops,
            Deliver, BeginSend, Signal, ReadsRunLate

(* The exit status is read when the poller is done.                        *)
LEMMA AbortsFail ==
  ASSUME IInv, Running, [Next]_vars
  PROVE  AbortFailsProcess'
<1> USE Limits DEF IInv, Types, WaitCount, AbortsInOrder, Ends, Running, AbortFailsProcess, One
<1>1. CASE exitCode' = exitCode
  BY <1>1
<1>2. CASE StartupFails
  BY <1>2 DEF StartupFails
<1>3. CASE Exit
  BY <1>3 DEF Exit, MainAt, connVars, readVars, timeVars, pollerVars, mainVars
<1> QED
  BY <1>1, <1>2, <1>3
     DEF Next, MainStep, PollerStep, AbortStep, ConnStep, MainAt, DrainSub, Close, vars,
            connVars, readVars, timeVars, pollerVars, mainVars, Subscribe,
            StartWithoutPoller, StartWithPoller, BeginShutdown, CheckConnection,
            DrainSend, DrainStatus, DrainAnalytics, AwaitSubs, TakeSlot, GiveUpReads,
            ReadsDrained, DrainConnection, PollReturns, PollFails, PollerStops, Abort,
            AbortCancels, AbortSignals, SubDrained, ConnectionDrained, ClosedHandler,
            HttpStops, Deliver, DispatchRead, FinishRead, BeginSend, FinishSend,
            ConnectionLost, Signal, ReadsRunLate, DeadlineCloses

-----------------------------------------------------------------------------
LEMMA Inductive == Spec => []IInv
<1>1. Init => IInv
  BY InitHolds
<1>2. IInv /\ [Next]_vars => IInv'
  <2> SUFFICES ASSUME IInv, [Next]_vars PROVE IInv'
    OBVIOUS
  <2>1. CASE UNCHANGED vars
    BY <2>1 DEF vars, IInv, Types, WaitCount, RequestsAddUp, SlotsHeld, DrainsLast, HandedOver,
       NothingLeft, AbortsInOrder, HttpInOrder, Ends, NoRequestDropped, AbortFailsProcess
  <2>2. CASE Next
    <3>1. Running
      BY <2>2 DEF Next
    <3> QED
      BY <3>1, TypesKept, WaitCountKept, RequestsAddUpKept, SlotsHeldKept, DrainsLastKept,
         HandedOverKept, NothingLeftKept, AbortsInOrderKept, HttpInOrderKept, EndsKept,
         NothingDropped, AbortsFail
         DEF IInv
  <2> QED
    BY <2>1, <2>2
<1> QED
  BY <1>1, <1>2, PTL DEF Spec

(* main.go: every state is well-typed; the WaitGroup is never negative,    *)
(* which would panic, and neither slots nor errors exceed their limits.    *)
THEOREM TypeCorrect == Spec => []TypeOK
<1>1. IInv => TypeOK
  <2> SUFFICES ASSUME IInv PROVE TypeOK
    OBVIOUS
  <2> USE Limits DEF IInv
  <2>1. wg \in 0..3
    BY DEF WaitCount, One
  <2>2. queued \in [Subs -> 0..MaxArrivals] /\ arrivals \in 0..MaxArrivals /\ lost \in 0..arrivals
    <3>1. \A s \in Subs : queued[s] \in 0..MaxArrivals
      BY DEF RequestsAddUp
    <3> QED
      BY <3>1 DEF RequestsAddUp
  <2>3. reading \in 0..MaxInFlightReads /\ held \in 0..MaxInFlightReads
    BY DEF SlotsHeld
  <2>4. errors \in 0..MaxConsecutiveErrors
    BY DEF AbortsInOrder
  <2> QED
    BY <2>1, <2>2, <2>3, <2>4 DEF Types, TypeOK
<1> QED
  BY <1>1, Inductive, PTL

(* main.go: an orderly shutdown answers every request it has taken.        *)
THEOREM NoRequestDroppedHolds == Spec => []NoRequestDropped
<1>1. IInv => NoRequestDropped
  BY DEF IInv
<1> QED
  BY <1>1, Inductive, PTL

(* main.go: the exit status tells whether the poller gave up.              *)
THEOREM AbortFailsProcessHolds == Spec => []AbortFailsProcess
<1>1. IInv => AbortFailsProcess
  BY DEF IInv
<1> QED
  BY <1>1, Inductive, PTL
=============================================================================
