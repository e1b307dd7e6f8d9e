------------------------------- MODULE Worker -------------------------------
(***************************************************************************)
(* The assignment side of egress.Worker (src/egress/assignment.go): how an *)
(* AssignRequest is admitted, how its place is reserved and released, and  *)
(* how Serve drains when the session stops.                                *)
(*                                                                         *)
(* Actors, each a goroutine of the program:                                *)
(*   - the dispatcher of the assignment subscription, which runs           *)
(*     handleAssign on one message at a time (nats.go gives every          *)
(*     callback subscription one goroutine);                               *)
(*   - one request goroutine per accepted assignment;                      *)
(*   - Serve, and the goroutine it starts around wg.Wait;                  *)
(*   - whoever calls SetDraining (the snapshot callback of runSession).    *)
(* A step is what one of them does between two points where another one    *)
(* can run: one critical section of w.mu, one call on the connection, one  *)
(* operation on the wait group.  Two steps take more: prepareRequestStream *)
(* is one (Subscribe, Flush, and Unsubscribe when that fails), and so are  *)
(* the deferred Unsubscribe and the wg.Done of a request: in between there *)
(* is only a subscription that no other actor here looks at.  An operator  *)
(* marked "Fault" is a wrong version of the one that follows it; the       *)
(* properties are tried on it.                                             *)
(***************************************************************************)
EXTENDS Naturals, Sequences, FiniteSets

CONSTANTS
  Assignment,       \* the AssignRequest messages Control may publish
  RequestId,        \* the request ids they carry
  IdOf,             \* IdOf[m]: Envelope.request_id of m; a retry repeats it
  Kinds,            \* the kinds of message that occur, see Kind
  HasDeadline,      \* the messages with Envelope.deadline_unix_ms > 0
  MaxConcurrency,   \* WorkerOptions.MaxConcurrency, 0 for no limit
  None              \* no assignment

(***************************************************************************)
(* What handleAssign can tell about a message: it does not decode, its     *)
(* AssignRequest is absent or fails Validate, its mode is not supported,   *)
(* its request id is no subject token, or none of these.                   *)
(***************************************************************************)
Kind == {"undecodable", "invalid", "unsupported", "unsafeId", "good"}

ASSUME WorkerAssumption ==
  /\ IsFiniteSet(Assignment)
  /\ None \notin Assignment
  /\ IdOf \in [Assignment -> RequestId]
  /\ Kinds \subseteq Kind
  /\ HasDeadline \subseteq Assignment
  /\ MaxConcurrency \in Nat

VARIABLES
  kind,         \* kind[m]: what message m is
  sent,         \* the messages Control has published
  draining,     \* Worker.draining, under mu
  active,       \* Worker.active, under mu
  cancels,      \* Worker.cancels, under mu: whose cancel a request id maps to
  subscribed,   \* the assignment subscription is open
  inbox,        \* messages pending in the assignment subscription
  hmsg,         \* the message handleAssign works on, or None
  hpc,          \* where handleAssign is
  answer,       \* answer[m]: the AssignAck code sent for m
  c2e,          \* c2e[m]: m's control-to-executor subscription is open
  rpc,          \* rpc[m]: where the goroutine of request m is
  ctxDone,      \* ctxDone[m]: the request context of m is done
  wg,           \* counter of Worker.wg
  stop,         \* the stop channel of Serve is closed
  spc,          \* where Serve is
  drained,      \* the drained channel of Serve is closed
  doomed        \* whose cancels abandonInFlight has copied

vars == <<kind, sent, draining, active, cancels, subscribed, inbox, hmsg, hpc,
          answer, c2e, rpc, ctxDone, wg, stop, spc, drained, doomed>>

(* The groups of variables that most steps leave alone together. *)
muVars      == <<draining, active, cancels>>
handlerVars == <<hmsg, hpc>>
serveVars   == <<stop, spc, drained, doomed>>
requestVars == <<rpc, ctxDone, wg>>
queueVars   == <<sent, subscribed, inbox>>

Code == {"ACCEPTED", "REJECTED_ERROR", "REJECTED_DRAINING",
         "REJECTED_UNSUPPORTED", "REJECTED_CAPACITY"}

HandlerPc == {"idle", "received", "admitted", "prepared", "reserved", "acked"}
RequestPc == {"none", "running", "returned", "released", "done"}
ServePc   == {"starting", "flushing", "serving", "unsubscribing", "waiting",
              "abandoning", "abandoned", "returned", "failed"}

Init ==
  /\ kind \in [Assignment -> Kinds]
  /\ sent = {}
  /\ draining = FALSE
  /\ active = 0
  /\ cancels = [i \in RequestId |-> None]
  /\ subscribed = FALSE
  /\ inbox = <<>>
  /\ hmsg = None
  /\ hpc = "idle"
  /\ answer = [m \in Assignment |-> "none"]
  /\ c2e = [m \in Assignment |-> FALSE]
  /\ rpc = [m \in Assignment |-> "none"]
  /\ ctxDone = [m \in Assignment |-> FALSE]
  /\ wg = 0
  /\ stop = FALSE
  /\ spc = "starting"
  /\ drained = FALSE
  /\ doomed = {}

-----------------------------------------------------------------------------
(* The admission decision. *)

SnapshotCapacity == [draining |-> draining, active |-> active]

(* Fault: off by one at the limit. *)
HasCapacityOffByOne(capacity) ==
  MaxConcurrency = 0 \/ capacity.active <= MaxConcurrency

HasCapacity(capacity) ==
  MaxConcurrency = 0 \/ capacity.active < MaxConcurrency

EvaluateAssignment(k, capacity) ==
  IF k = "invalid" THEN "REJECTED_ERROR"
  ELSE IF capacity.draining THEN "REJECTED_DRAINING"
  ELSE IF k = "unsupported" THEN "REJECTED_UNSUPPORTED"
  ELSE IF ~HasCapacity(capacity) THEN "REJECTED_CAPACITY"
  ELSE "ACCEPTED"

-----------------------------------------------------------------------------
(* The environment: Control publishes, an administrator sets draining, the  *)
(* session stops, deadlines pass.                                           *)

Publish(m) ==
  /\ subscribed
  /\ m \notin sent
  /\ sent' = sent \cup {m}
  /\ inbox' = Append(inbox, m)
  /\ UNCHANGED <<kind, subscribed, answer, c2e, muVars, handlerVars, serveVars,
                 requestVars>>

SetDraining(d) ==
  /\ draining' = d
  /\ UNCHANGED <<kind, active, cancels, answer, c2e, queueVars, handlerVars,
                 serveVars, requestVars>>

CloseStop ==
  /\ ~stop
  /\ stop' = TRUE
  /\ UNCHANGED <<kind, spc, drained, doomed, answer, c2e, muVars, queueVars,
                 handlerVars, requestVars>>

(* requestContext gave m a deadline. *)
DeadlinePasses(m) ==
  /\ m \in HasDeadline
  /\ rpc[m] = "running"
  /\ ~ctxDone[m]
  /\ ctxDone' = [ctxDone EXCEPT ![m] = TRUE]
  /\ UNCHANGED <<kind, answer, c2e, rpc, wg, muVars, queueVars, handlerVars,
                 serveVars>>

-----------------------------------------------------------------------------
(* handleAssign, run by the dispatcher of the assignment subscription. *)

Reply(m, code) == answer' = [answer EXCEPT ![m] = code]

(* The dispatcher takes the next message; once the subscription is closed   *)
(* it delivers no more, but a callback that has begun runs to its end.      *)
Receive ==
  /\ hpc = "idle"
  /\ subscribed
  /\ inbox # <<>>
  /\ hmsg' = Head(inbox)
  /\ hpc' = "received"
  /\ inbox' = Tail(inbox)
  /\ UNCHANGED <<kind, sent, subscribed, answer, c2e, muVars, serveVars,
                 requestVars>>

HandlerReturns ==
  /\ hmsg' = None
  /\ hpc' = "idle"

(* Fault: the rejection does not return. *)
FallsThrough == hpc' = "admitted" /\ UNCHANGED hmsg

RejectionReturns == HandlerReturns

(* Decode the message, read the capacity under mu, and turn it down. *)
RejectAssign ==
  LET code == IF kind[hmsg] = "undecodable" THEN "REJECTED_ERROR"
              ELSE EvaluateAssignment(kind[hmsg], SnapshotCapacity)
  IN /\ hpc = "received"
     /\ code # "ACCEPTED"
     /\ Reply(hmsg, code)
     /\ RejectionReturns
     /\ UNCHANGED <<kind, c2e, muVars, queueVars, serveVars, requestVars>>

(* Decode the message, read the capacity under mu, and go on with it. *)
AdmitAssign ==
  /\ hpc = "received"
  /\ kind[hmsg] # "undecodable"
  /\ EvaluateAssignment(kind[hmsg], SnapshotCapacity) = "ACCEPTED"
  /\ hpc' = "admitted"
  /\ UNCHANGED <<kind, hmsg, answer, c2e, muVars, queueVars, serveVars,
                 requestVars>>

(* Fault: the subscription stays when the flush fails. *)
StreamLeaks == c2e' = [c2e EXCEPT ![hmsg] = TRUE]

StreamUndone == UNCHANGED c2e

(* prepareRequestStream fails: the request id is no subject token, or the   *)
(* connection refuses Subscribe or Flush (then the subscription is undone). *)
PrepareRequestStreamFails ==
  /\ hpc = "admitted"
  /\ Reply(hmsg, "REJECTED_ERROR")
  /\ RejectionReturns
  /\ StreamUndone
  /\ UNCHANGED <<kind, muVars, queueVars, serveVars, requestVars>>

(* prepareRequestStream subscribes to the stream of the request, flushed. *)
PrepareRequestStream ==
  /\ hpc = "admitted"
  /\ kind[hmsg] # "unsafeId"
  /\ c2e' = [c2e EXCEPT ![hmsg] = TRUE]
  /\ hpc' = "prepared"
  /\ UNCHANGED <<kind, hmsg, answer, muVars, queueVars, serveVars, requestVars>>

(* Fault: the request is not counted. *)
Uncounted == UNCHANGED active

CountRequest == active' = active + 1

(* Fault: the cancel is not kept. *)
ForgetCancel(m) == UNCHANGED cancels

KeepCancel(m) == cancels' = [cancels EXCEPT ![IdOf[m]] = m]

(* reserve, under mu, with the cancel of the new request context. *)
Reserve ==
  /\ hpc = "prepared"
  /\ CountRequest
  /\ KeepCancel(hmsg)
  /\ hpc' = "reserved"
  /\ UNCHANGED <<kind, draining, hmsg, answer, c2e, queueVars, serveVars,
                 requestVars>>

AckAccepted ==
  /\ hpc = "reserved"
  /\ Reply(hmsg, "ACCEPTED")
  /\ hpc' = "acked"
  /\ UNCHANGED <<kind, hmsg, c2e, muVars, queueVars, serveVars, requestVars>>

(* wg.Go: count the request goroutine and start it. *)
Spawn ==
  /\ hpc = "acked"
  /\ wg' = wg + 1
  /\ rpc' = [rpc EXCEPT ![hmsg] = "running"]
  /\ HandlerReturns
  /\ UNCHANGED <<kind, ctxDone, answer, c2e, muVars, queueVars, serveVars>>

-----------------------------------------------------------------------------
(* The goroutine of an accepted request. *)

(* runDecodedRequest returns; its deferred cancel ends the context. *)
RequestReturns(m) ==
  /\ rpc[m] = "running"
  /\ rpc' = [rpc EXCEPT ![m] = "returned"]
  /\ ctxDone' = [ctxDone EXCEPT ![m] = TRUE]
  /\ UNCHANGED <<kind, answer, c2e, wg, muVars, queueVars, handlerVars,
                 serveVars>>

(* Fault: the cancel stays in the map. *)
LeaveCancel(m) == UNCHANGED cancels

(* The entry is deleted by request id. *)
DropCancel(m) == cancels' = [cancels EXCEPT ![IdOf[m]] = None]

(* release, under mu. *)
Release(m) ==
  /\ rpc[m] = "returned"
  /\ rpc' = [rpc EXCEPT ![m] = "released"]
  /\ active' = active - 1
  /\ DropCancel(m)
  /\ UNCHANGED <<kind, draining, answer, c2e, ctxDone, wg, queueVars,
                 handlerVars, serveVars>>

(* The deferred Unsubscribe, then wg.Done as the goroutine ends. *)
RequestDone(m) ==
  /\ rpc[m] = "released"
  /\ rpc' = [rpc EXCEPT ![m] = "done"]
  /\ c2e' = [c2e EXCEPT ![m] = FALSE]
  /\ wg' = wg - 1
  /\ UNCHANGED <<kind, answer, ctxDone, muVars, queueVars, handlerVars,
                 serveVars>>

-----------------------------------------------------------------------------
(* Serve. *)

ServeSubscribe ==
  /\ spc = "starting"
  /\ \/ subscribed' = TRUE /\ spc' = "flushing"
     \/ subscribed' = FALSE /\ spc' = "failed"
  /\ UNCHANGED <<kind, sent, inbox, stop, drained, doomed, answer, c2e, muVars,
                 handlerVars, requestVars>>

(* sub.Unsubscribe: what is still pending is dropped. *)
Unsubscribe ==
  /\ subscribed' = FALSE
  /\ inbox' = <<>>
  /\ UNCHANGED sent

ServeFlush ==
  /\ spc = "flushing"
  /\ \/ spc' = "serving" /\ UNCHANGED queueVars
     \/ spc' = "failed" /\ Unsubscribe
  /\ UNCHANGED <<kind, stop, drained, doomed, answer, c2e, muVars, handlerVars,
                 requestVars>>

ServeStops ==
  /\ spc = "serving"
  /\ stop
  /\ draining' = TRUE
  /\ spc' = "unsubscribing"
  /\ UNCHANGED <<kind, active, cancels, stop, drained, doomed, answer, c2e,
                 queueVars, handlerVars, requestVars>>

ServeUnsubscribe ==
  /\ spc = "unsubscribing"
  /\ Unsubscribe
  /\ spc' = "waiting"
  /\ UNCHANGED <<kind, stop, drained, doomed, answer, c2e, muVars, handlerVars,
                 requestVars>>

Draining == spc \in {"waiting", "abandoning", "abandoned"}

(* wg.Wait returns in the goroutine Serve started, which closes drained. *)
WaitReturns ==
  /\ Draining
  /\ wg = 0
  /\ ~drained
  /\ drained' = TRUE
  /\ UNCHANGED <<kind, stop, spc, doomed, answer, c2e, muVars, queueVars,
                 handlerVars, requestVars>>

(* The drain timer fires and abandonInFlight copies the cancels under mu.   *)
(* The timer takes workerDrainTimeout, 60 s; handleAssign blocks on nothing *)
(* but the Flush of the connection, which nats.go bounds by 10 s, so the    *)
(* callback that was running when Serve unsubscribed has ended by then.     *)
DrainTimeout ==
  /\ spc = "waiting"
  /\ hpc = "idle"
  /\ doomed' = {cancels[i] : i \in RequestId} \ {None}
  /\ spc' = "abandoning"
  /\ UNCHANGED <<kind, stop, drained, answer, c2e, muVars, queueVars,
                 handlerVars, requestVars>>

(* Fault: the cancels are copied but not called. *)
CallNone == UNCHANGED ctxDone

CallDoomed == ctxDone' = [m \in Assignment |-> ctxDone[m] \/ m \in doomed]

(* abandonInFlight calls the cancels it has copied. *)
AbandonInFlight ==
  /\ spc = "abandoning"
  /\ CallDoomed
  /\ spc' = "abandoned"
  /\ UNCHANGED <<kind, stop, drained, doomed, rpc, wg, answer, c2e, muVars,
                 queueVars, handlerVars>>

(* Fault: Serve does not wait for the drain after it has cancelled. *)
DrainedOrAbandoned == drained \/ spc = "abandoned"

SeesDrained == drained

ServeReturns ==
  /\ spc \in {"waiting", "abandoned"}
  /\ SeesDrained
  /\ spc' = "returned"
  /\ UNCHANGED <<kind, stop, drained, doomed, answer, c2e, muVars, queueVars,
                 handlerVars, requestVars>>

-----------------------------------------------------------------------------
Handler == \/ Receive \/ RejectAssign \/ AdmitAssign
           \/ PrepareRequestStreamFails \/ PrepareRequestStream
           \/ Reserve \/ AckAccepted \/ Spawn

Serve == \/ ServeSubscribe \/ ServeFlush \/ ServeStops \/ ServeUnsubscribe
         \/ WaitReturns \/ DrainTimeout \/ AbandonInFlight \/ ServeReturns

Request(m) == RequestReturns(m) \/ Release(m) \/ RequestDone(m)

Environment ==
  \/ \E m \in Assignment : Publish(m) \/ DeadlinePasses(m)
  \/ \E d \in BOOLEAN : SetDraining(d)
  \/ CloseStop

Next ==
  \/ Environment
  \/ Handler
  \/ \E m \in Assignment : Request(m)
  \/ Serve

(***************************************************************************)
(* Goroutines that can run do run, timers fire and deadlines pass.  What   *)
(* Control and the administrator do is their choice.  A request goroutine  *)
(* is assumed to return once its context is done.  It does not always: one *)
(* that blocks in grant (DecodedRequest, RawTunnel) or in conn.Write never *)
(* returns, and then neither does Serve.                                   *)
(***************************************************************************)
Fairness ==
  /\ WF_vars(Handler)
  /\ WF_vars(Serve)
  /\ \A m \in Assignment :
       /\ WF_vars(ctxDone[m] /\ RequestReturns(m))
       /\ WF_vars(Release(m))
       /\ WF_vars(RequestDone(m))
       /\ WF_vars(DeadlinePasses(m))

Spec == Init /\ [][Next]_vars

FairSpec == Spec /\ Fairness

-----------------------------------------------------------------------------
(* Properties. *)

(* The handler holds a reservation for m that its goroutine has not taken over. *)
Reserving(m) == hmsg = m /\ hpc \in {"reserved", "acked"}

(* The assignments that hold one of the worker's places. *)
Live == {m \in Assignment : Reserving(m) \/ rpc[m] \in {"running", "returned"}}

(* The assignments whose goroutine has not ended. *)
Executing ==
  {m \in Assignment : rpc[m] \in {"running", "returned", "released"}}

TypeOK ==
  /\ kind \in [Assignment -> Kinds]
  /\ sent \subseteq Assignment
  /\ draining \in BOOLEAN
  /\ active \in Nat
  /\ cancels \in [RequestId -> Assignment \cup {None}]
  /\ subscribed \in BOOLEAN
  /\ inbox \in Seq(Assignment)
  /\ hmsg \in Assignment \cup {None}
  /\ hpc \in HandlerPc
  /\ answer \in [Assignment -> Code \cup {"none"}]
  /\ c2e \in [Assignment -> BOOLEAN]
  /\ rpc \in [Assignment -> RequestPc]
  /\ ctxDone \in [Assignment -> BOOLEAN]
  /\ wg \in Nat
  /\ stop \in BOOLEAN
  /\ spc \in ServePc
  /\ drained \in BOOLEAN
  /\ doomed \subseteq Assignment

(* ActiveRequests(), which heartbeats report to Control, counts exactly the *)
(* assignments that hold a place, and never more than MaxConcurrency of     *)
(* them do, although handleAssign decides on a copy of the capacity that is *)
(* stale by the time it reserves.                                           *)
CapacityRespected ==
  /\ active = Cardinality(Live)
  /\ MaxConcurrency > 0 => Cardinality(Live) <= MaxConcurrency

(* The stream subscription of a request is open from before its ACCEPTED    *)
(* until after its place is free, so that no frame Control publishes after  *)
(* the ack is lost for want of a subscriber; and a subscription that is     *)
(* open belongs to a request that is being prepared or has not ended, so    *)
(* none is leaked.                                                          *)
StreamOpenWhileAccepted ==
  \A m \in Assignment :
    c2e[m] <=> \/ hmsg = m /\ hpc \in {"prepared", "reserved", "acked"}
               \/ m \in Executing

(* A cancel in the map is the one of a request that still holds a place:    *)
(* draining never calls the cancel of an earlier request by mistake.        *)
CancelsAreLive ==
  \A i \in RequestId :
    cancels[i] # None => cancels[i] \in Live /\ IdOf[cancels[i]] = i

(* After Serve has returned without an error at most one request is still   *)
(* executing: the one whose callback was running while Serve unsubscribed.  *)
AtMostOneStraggler ==
  spc = "returned" =>
    Cardinality(Executing \cup {m \in Assignment : hmsg = m}) <= 1

(* An assignment is acknowledged once, and only one that was accepted has a *)
(* goroutine.                                                               *)
AnsweredOnce ==
  [][\A m \in Assignment :
       answer[m] # "none" =>
         /\ answer'[m] = answer[m]
         /\ rpc'[m] # "none" => answer[m] = "ACCEPTED"]_vars

(* The refinement: what the worker's goroutines do together is what         *)
(* AdmissionContract allows.                                                *)
StatusOf(m) ==
  IF m \in Live THEN "executing"
  ELSE IF rpc[m] \in {"released", "done"} THEN "finished"
  ELSE IF answer[m] \in {"none", "ACCEPTED"} THEN "offered"
  ELSE "rejected"

Contract == INSTANCE AdmissionContract
              WITH status <- [m \in Assignment |-> StatusOf(m)]

ImplementsContract == Contract!Spec

(* The worker obeys what runSession relies on: whatever its goroutines do,   *)
(* its draining, stop and number of active requests, and the progress of    *)
(* Serve, change only as AssignmentServer allows.                           *)
PhaseOf(pc) ==
  IF pc = "flushing" THEN "starting"
  ELSE IF pc = "unsubscribing" THEN "stopping"
  ELSE IF pc \in {"abandoning", "abandoned"} THEN "waiting"
  ELSE pc

ServerView == [phase |-> PhaseOf(spc), stop |-> stop, draining |-> draining,
               handling |-> IF hpc \in {"received", "admitted", "prepared"}
                            THEN 1 ELSE 0,
               active |-> active]

Server == INSTANCE AssignmentServer

ObeysServerContract ==
  /\ ServerView = Server!NewServer
  /\ [][Server!Step(ServerView, ServerView')]_ServerView

(* No other assignment carries the request id of m. *)
HasOwnId(m) == \A n \in sent : IdOf[n] = IdOf[m] => n = m

(* A request with an id of its own can be cancelled when the drain timer    *)
(* fires, for as long as it holds its place.                                *)
EveryLiveRequestCancellable ==
  \A m \in Live : HasOwnId(m) => cancels[IdOf[m]] = m

(* Once abandonInFlight is through, the context of every request with an id *)
(* of its own that has not ended is done: the timer raced its release, the  *)
(* end of other requests and the last callback, and missed none.            *)
AbandonedAreCancelled ==
  spc = "abandoned" => \A m \in Executing : HasOwnId(m) => ctxDone[m]

(* When the session stops, Serve returns: requests that do not end by       *)
(* themselves are cancelled after workerDrainTimeout.                       *)
DrainCompletes == stop ~> spc \in {"returned", "failed"}

(* It does for as long as the requests that hold a place have distinct ids, *)
(* and each of them returns once its context is done (Fairness).            *)
LiveIdsDistinct == \A m, n \in Live : IdOf[m] = IdOf[n] => m = n

DrainCompletesForDistinctIds == []LiveIdsDistinct => DrainCompletes
=============================================================================
