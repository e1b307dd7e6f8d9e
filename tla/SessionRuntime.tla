--------------------------- MODULE SessionRuntime ---------------------------
(***************************************************************************)
(* The session runtime of a worker (Run, registerWithRetry, runSession and *)
(* runHeartbeatLoop in src/egress/runtime.go): it registers with Control,  *)
(* serves assignments and heartbeats until Control has forgotten the       *)
(* session or the context ends, and drains before it goes on.              *)
(*                                                                         *)
(* Actors:                                                                 *)
(*   - the goroutine of Run, which also waits for each reply of Control;   *)
(*   - Control, which answers requests in the order they come, publishes   *)
(*     snapshots, and may fail: requests and replies are lost or late, and *)
(*     sessions forgotten;                                                 *)
(*   - the callback of the snapshot subscription of each session;          *)
(*   - the assignment server of each session, an AssignmentServer.         *)
(* An operator marked "Fault" is a wrong version of the one that follows.  *)
(***************************************************************************)
EXTENDS AssignmentServer, Sequences

CONSTANTS
  MaxSnapshots,   \* bound: snapshots Control publishes
  MaxFaults       \* bound: failures of Control and of the wire

ASSUME SessionRuntimeAssumption ==
  MaxConcurrency \in Nat /\ MaxSnapshots \in Nat /\ MaxFaults \in Nat

VARIABLES
  ctxDone,    \* the context of Run is done
  pc,         \* where Run is
  ready,      \* what the readiness probe is told
  sid,        \* the session id of the last RegisterAck, 0 before
  lost,       \* a heartbeat of the session was rejected
  reply,      \* what the request under way has come to
  lastSent,   \* the last request published
  wire,       \* requests on their way to Control
  up,         \* Control takes requests
  current,    \* the session Control holds for the worker, 0 for none
  opened,     \* sessions Control has opened
  faults,     \* failures so far
  settings,   \* settings[v]: the draining that snapshot v has for the worker
  pending,    \* snapshots pending in the subscription of the session
  servers,    \* the assignment servers of the sessions served, in order
  callbacks   \* the snapshot callbacks of those sessions

runVars      == <<pc, ready, sid, lost>>
requestVars  == <<reply, lastSent, wire>>
controlVars  == <<up, current, opened, faults>>
snapshotVars == <<settings, pending, callbacks>>

vars == <<ctxDone, runVars, requestVars, controlVars, snapshotVars, servers>>

(* A callback is at work while it has got a snapshot and not acknowledged   *)
(* it; in between it applies it.                                            *)
Callbacks == [subscribed : BOOLEAN, got : Nat, applied : Nat, acked : Nat]

NewCallback(subscribed) ==
  [subscribed |-> subscribed, got |-> 0, applied |-> 0, acked |-> 0]

Requests == [type : {"none", "register", "heartbeat"}, session : Nat,
             draining : BOOLEAN]

NoReply == [code |-> "none", session |-> 0]
Failure == [code |-> "bad", session |-> 0]

Init ==
  /\ ctxDone = FALSE
  /\ pc = "register" /\ ready = FALSE /\ sid = 0 /\ lost = FALSE
  /\ reply = NoReply
  /\ lastSent = [type |-> "none", session |-> 0, draining |-> FALSE]
  /\ wire = <<>>
  /\ up = TRUE /\ current = 0 /\ opened = 0 /\ faults = 0
  /\ settings = <<>> /\ pending = <<>>
  /\ servers = <<>> /\ callbacks = <<>>

Server == servers[Len(servers)]

-----------------------------------------------------------------------------
(* conn.Request. *)

(* Run publishes a request; nobody takes it while Control is down. *)
Request(type, session, draining) ==
  LET m == [type |-> type, session |-> session, draining |-> draining]
  IN /\ lastSent' = m
     /\ wire' = IF up THEN Append(wire, [body |-> m, awaited |-> TRUE]) ELSE wire
     /\ reply' = [NoReply EXCEPT !.code = "pending"]

Returned(codes) ==
  /\ reply.code \in codes
  /\ reply' = NoReply
  /\ UNCHANGED <<lastSent, wire>>

SpendFault ==
  /\ faults < MaxFaults
  /\ faults' = faults + 1

Awaited == {i \in DOMAIN wire : wire[i].awaited}

(* The timeout of the request: no answer can come any more, *)
RequestTimesOut ==
  /\ reply.code = "pending"
  /\ Awaited = {}
  /\ reply' = Failure
  /\ UNCHANGED <<ctxDone, lastSent, wire, runVars, controlVars, snapshotVars, servers>>

(* or Control is slow, and will take the request after all. *)
RequestIsLate ==
  /\ reply.code = "pending"
  /\ Awaited # {}
  /\ SpendFault
  /\ reply' = Failure
  /\ wire' = [i \in DOMAIN wire |-> [wire[i] EXCEPT !.awaited = FALSE]]
  /\ UNCHANGED <<ctxDone, lastSent, up, current, opened>>
  /\ UNCHANGED <<runVars, snapshotVars, servers>>

-----------------------------------------------------------------------------
(* Control. *)

(* The reply arrives in time, or comes too late, or is lost. *)
Answers(code, session) ==
  /\ up /\ wire # <<>>
  /\ wire' = Tail(wire)
  /\ \/ /\ reply' = IF Head(wire).awaited
                    THEN [code |-> code, session |-> session] ELSE reply
        /\ UNCHANGED faults
     \/ Head(wire).awaited /\ SpendFault /\ UNCHANGED reply
  /\ UNCHANGED <<ctxDone, up, lastSent, runVars, snapshotVars, servers>>

ControlRegisters ==
  /\ wire # <<>> /\ Head(wire).body.type = "register"
  /\ opened' = opened + 1
  /\ current' = opened + 1
  /\ Answers("ok", opened + 1)

ControlTakesHeartbeat ==
  /\ wire # <<>> /\ Head(wire).body.type = "heartbeat"
  /\ Answers(IF Head(wire).body.session = current THEN "ok" ELSE "rejected", 0)
  /\ UNCHANGED <<current, opened>>

(* Control refuses a registration, or answers with no ack at all. *)
ControlRefuses ==
  /\ up /\ Awaited # {}
  /\ SpendFault
  /\ wire' = Tail(wire) /\ Head(wire).awaited
  /\ reply' = Failure
  /\ UNCHANGED <<ctxDone, lastSent, up, current, opened>>
  /\ UNCHANGED <<runVars, snapshotVars, servers>>

(* Control forgets the session, or goes down with or without its memory. *)
ControlFails ==
  /\ up /\ SpendFault
  /\ up' \in BOOLEAN
  /\ current' \in {current, 0}
  /\ wire' = IF up' THEN wire ELSE <<>>
  /\ UNCHANGED <<ctxDone, reply, lastSent, opened>>
  /\ UNCHANGED <<runVars, snapshotVars, servers>>

ControlRestarts ==
  /\ ~up
  /\ up' = TRUE
  /\ UNCHANGED <<ctxDone, current, opened, faults>>
  /\ UNCHANGED <<runVars, requestVars, snapshotVars, servers>>

(* The wire delivers the snapshot to a subscription that is open, or not. *)
ControlPublishesSnapshot(draining) ==
  /\ Len(settings) < MaxSnapshots
  /\ settings' = Append(settings, draining)
  /\ \/ UNCHANGED pending
     \/ /\ servers # <<>> /\ callbacks[Len(servers)].subscribed
        /\ pending' = Append(pending, Len(settings'))
  /\ UNCHANGED <<ctxDone, callbacks>>
  /\ UNCHANGED <<runVars, requestVars, controlVars, servers>>

CancelContext ==
  /\ ~ctxDone
  /\ ctxDone' = TRUE
  /\ UNCHANGED <<runVars, requestVars, controlVars, snapshotVars, servers>>

-----------------------------------------------------------------------------
(* Run and registerWithRetry. *)

RegisterLeaves == UNCHANGED <<ctxDone, lost, controlVars, snapshotVars, servers>>

Register ==
  /\ pc = "register" /\ ~ctxDone
  /\ Request("register", 0, FALSE)
  /\ pc' = "registering"
  /\ UNCHANGED <<ready, sid>>
  /\ RegisterLeaves

Registered ==
  /\ pc = "registering"
  /\ Returned({"ok"})
  /\ sid' = reply.session
  /\ ready' = TRUE
  /\ pc' = "create"
  /\ RegisterLeaves

RegisterFails ==
  /\ pc = "registering"
  /\ Returned({"bad"})
  /\ pc' = IF ctxDone THEN "failed" ELSE "backoff"
  /\ UNCHANGED <<ready, sid>>
  /\ RegisterLeaves

BackoffEnds ==
  /\ pc = "backoff"
  /\ pc' = "register"
  /\ UNCHANGED <<ready, sid, requestVars>>
  /\ RegisterLeaves

RegisterGivesUp ==
  /\ pc \in {"register", "backoff"} /\ ctxDone
  /\ pc' = "failed"
  /\ UNCHANGED <<ready, sid, requestVars>>
  /\ RegisterLeaves

-----------------------------------------------------------------------------
(* runSession and runHeartbeatLoop. *)

(* Fault: the readiness probe is not told. *)
StayReady == UNCHANGED ready

SetUnready == ready' = FALSE

(* newAssignmentServer fails, and with it Run. *)
CreateFails ==
  /\ pc = "create"
  /\ SetUnready
  /\ pc' = "failed"
  /\ UNCHANGED <<sid, requestVars>>
  /\ RegisterLeaves

(* The server is there, the snapshots are subscribed to (which may fail,    *)
(* and is not missed), and Serve starts.                                    *)
StartSession ==
  /\ pc = "create"
  /\ servers' = Append(servers, NewServer)
  /\ \E subscribed \in BOOLEAN :
       callbacks' = Append(callbacks, NewCallback(subscribed))
  /\ lost' = FALSE
  /\ pc' = "beat"
  /\ UNCHANGED <<ctxDone, ready, sid, settings, pending, requestVars, controlVars>>

LoopLeaves == UNCHANGED <<ctxDone, sid, controlVars, snapshotVars>>

(* sendHeartbeat; request looks at the context before it publishes. *)
Beat ==
  /\ pc = "beat" /\ ~ctxDone
  /\ Request("heartbeat", sid, Server.draining)
  /\ pc' = "beating"
  /\ UNCHANGED <<ready, lost, servers>>
  /\ LoopLeaves

BeatNot ==
  /\ pc = "beat" /\ ctxDone
  /\ pc' = "select"
  /\ UNCHANGED <<ready, lost, servers, requestVars>>
  /\ LoopLeaves

(* Fault: the rejection is ignored like any other failure. *)
LosesSessionNever(code) == FALSE

(* Only the rejection of a heartbeat loses the session. *)
LosesSession(code) == code = "rejected"

BeatAnswered ==
  /\ pc = "beating"
  /\ Returned({"ok", "bad", "rejected"})
  /\ lost' = LosesSession(reply.code)
  /\ pc' = IF lost' THEN "stop" ELSE "select"
  /\ UNCHANGED <<ready, servers>>
  /\ LoopLeaves

(* The ticker fires, and select may prefer it to the context. *)
Tick ==
  /\ pc = "select"
  /\ pc' = "beat"
  /\ UNCHANGED <<ready, lost, servers, requestVars>>
  /\ LoopLeaves

SeeContext ==
  /\ pc = "select" /\ ctxDone
  /\ SetUnready
  /\ pc' = "goodbye"
  /\ UNCHANGED <<lost, servers, requestVars>>
  /\ LoopLeaves

(* Fault: the last heartbeat is sent under the context of Run, and is not. *)
SendGoodbyeUnderContext == reply' = Failure /\ UNCHANGED <<lastSent, wire>>

(* The last heartbeat, without the context and whatever comes of it. *)
SendGoodbye == Request("heartbeat", sid, TRUE)

Goodbye ==
  /\ pc = "goodbye"
  /\ SendGoodbye
  /\ pc' = "parting"
  /\ UNCHANGED <<ready, lost, servers>>
  /\ LoopLeaves

Parted ==
  /\ pc = "parting"
  /\ Returned({"ok", "bad", "rejected"})
  /\ pc' = "stop"
  /\ UNCHANGED <<ready, lost, servers>>
  /\ LoopLeaves

(* Fault: nobody closes the stop channel. *)
NobodyStopsServing == UNCHANGED servers

CloseStopChannel ==
  servers' = [servers EXCEPT ![Len(servers)] = CloseStop(@)]

StopServing ==
  /\ pc = "stop"
  /\ CloseStopChannel
  /\ pc' = "drain"
  /\ UNCHANGED <<ready, lost, requestVars>>
  /\ LoopLeaves

(* Fault: the session does not wait for Serve. *)
ServeDoneAtOnce == TRUE

ServeDone == Server.phase \in {"returned", "failed"}

(* Serve has returned; the deferred Unsubscribe, and Run goes on: it is     *)
(* over, or registers again.                                                *)
SessionEnds ==
  /\ pc = "drain" /\ ServeDone
  /\ callbacks' = [callbacks EXCEPT ![Len(servers)].subscribed = FALSE]
  /\ pending' = <<>>
  /\ SetUnready
  /\ pc' = IF lost THEN "register" ELSE "returned"
  /\ UNCHANGED <<ctxDone, sid, lost, settings, servers, requestVars, controlVars>>

-----------------------------------------------------------------------------
(* The snapshot callback of session i. *)

SnapshotLeaves ==
  UNCHANGED <<ctxDone, settings, runVars, requestVars, controlVars>>

SnapshotReceived ==
  LET i == Len(servers)
  IN /\ pending # <<>>
     /\ callbacks[i].got = callbacks[i].acked
     /\ callbacks' = [callbacks EXCEPT ![i].got = Head(pending)]
     /\ pending' = Tail(pending)
     /\ UNCHANGED servers
     /\ SnapshotLeaves

(* Fault: the snapshot is acknowledged and not applied. *)
ApplySettingNever(i, v) == UNCHANGED servers

ApplySetting(i, v) ==
  servers' = [servers EXCEPT ![i] = SetDraining(@, settings[v])]

SnapshotApplied(i) ==
  /\ callbacks[i].got > callbacks[i].applied
  /\ ApplySetting(i, callbacks[i].got)
  /\ callbacks' = [callbacks EXCEPT ![i].applied = callbacks[i].got]
  /\ UNCHANGED pending
  /\ SnapshotLeaves

SnapshotAcked(i) ==
  /\ callbacks[i].applied > callbacks[i].acked
  /\ callbacks' = [callbacks EXCEPT ![i].acked = callbacks[i].applied]
  /\ UNCHANGED <<servers, pending>>
  /\ SnapshotLeaves

-----------------------------------------------------------------------------
(* The assignment server of session i. *)

Becomes(i, sv) ==
  /\ servers' = [servers EXCEPT ![i] = sv]
  /\ UNCHANGED <<ctxDone, runVars, requestVars, controlVars, snapshotVars>>

ServerServes(i) ==
  /\ CanServe(servers[i])
  /\ Becomes(i, Serve(servers[i])) \/ Becomes(i, Fail(servers[i]))

ServerStops(i) ==
  \/ CanStop(servers[i]) /\ Becomes(i, Stop(servers[i]))
  \/ CanUnsubscribe(servers[i]) /\ Becomes(i, Unsubscribe(servers[i]))
  \/ CanReturn(servers[i]) /\ Becomes(i, Return(servers[i]))

ServerReceives(i) == CanReceive(servers[i]) /\ Becomes(i, Receive(servers[i]))

ServerDecides(i) ==
  \/ CanReject(servers[i]) /\ Becomes(i, Reject(servers[i]))
  \/ CanAccept(servers[i]) /\ Becomes(i, Accept(servers[i]))

ServerReleases(i) == CanRelease(servers[i]) /\ Becomes(i, Release(servers[i]))

-----------------------------------------------------------------------------
ControlAnswers == ControlRegisters \/ ControlTakesHeartbeat

Control ==
  \/ ControlAnswers \/ ControlRefuses \/ ControlFails \/ ControlRestarts
  \/ \E draining \in BOOLEAN : ControlPublishesSnapshot(draining)

Run ==
  \/ Register \/ Registered \/ RegisterFails \/ BackoffEnds \/ RegisterGivesUp
  \/ CreateFails \/ StartSession
  \/ Beat \/ BeatNot \/ BeatAnswered \/ Tick \/ SeeContext
  \/ Goodbye \/ Parted \/ StopServing \/ SessionEnds

Callback ==
  \/ SnapshotReceived
  \/ \E i \in DOMAIN servers : SnapshotApplied(i) \/ SnapshotAcked(i)

AssignmentServer(i) ==
  \/ ServerServes(i) \/ ServerStops(i)
  \/ ServerReceives(i) \/ ServerDecides(i) \/ ServerReleases(i)

Next ==
  \/ CancelContext \/ RequestTimesOut \/ RequestIsLate
  \/ Control \/ Run \/ Callback
  \/ \E i \in DOMAIN servers : AssignmentServer(i)

(***************************************************************************)
(* Run takes its steps, and select does not ignore the context for ever.   *)
(* A request is answered or times out, and Control comes back.  A server   *)
(* decides what it handles, and Serve goes on, but returns for certain     *)
(* only when nothing is left.  That a request ends is not assumed: Worker   *)
(* shows it for requests that have ids of their own and return when their  *)
(* context is done (DrainCompletesForDistinctIds), and a repeated id, a    *)
(* full credit channel and a Write that blocks are ways not to.             *)
(***************************************************************************)
ServeGoesOn(i) ==
  /\ servers[i].phase = "waiting" => Left(servers[i]) = 0
  /\ ServerStops(i)

Fairness ==
  /\ WF_vars(Run) /\ SF_vars(SeeContext) /\ WF_vars(RequestTimesOut)
  /\ WF_vars(ControlAnswers) /\ WF_vars(ControlRestarts)
  /\ \A i \in 1..(MaxFaults + 1) :
       /\ WF_vars(i \in DOMAIN servers /\ ServerServes(i))
       /\ WF_vars(i \in DOMAIN servers /\ ServeGoesOn(i))
       /\ WF_vars(i \in DOMAIN servers /\ ServerDecides(i))

Spec == Init /\ [][Next]_vars

FairSpec == Spec /\ Fairness

-----------------------------------------------------------------------------
(* Properties. *)

TypeOK ==
  /\ ctxDone \in BOOLEAN /\ ready \in BOOLEAN /\ lost \in BOOLEAN
  /\ pc \in {"register", "registering", "backoff", "create", "beat", "beating",
             "select", "goodbye", "parting", "stop", "drain", "returned", "failed"}
  /\ sid \in Nat
  /\ reply \in [code : {"none", "pending", "ok", "bad", "rejected"}, session : Nat]
  /\ lastSent \in Requests
  /\ wire \in Seq([body : Requests, awaited : BOOLEAN])
  /\ up \in BOOLEAN /\ current \in Nat /\ opened \in Nat /\ faults \in Nat
  /\ settings \in Seq(BOOLEAN) /\ pending \in Seq(DOMAIN settings)
  /\ servers \in Seq(Servers)
  /\ callbacks \in Seq(Callbacks) /\ Len(callbacks) = Len(servers)

(* The sessions that the worker has left: those before the last one, and    *)
(* that one too when Run has none.                                          *)
Past ==
  {i \in DOMAIN servers :
     \/ i < Len(servers)
     \/ pc \in {"register", "registering", "backoff", "create", "returned", "failed"}}

(* Run leaves a session only when its Serve has ended: no assignment of     *)
(* that session is received any more, and unless Serve failed before it     *)
(* served (its error is dropped), the requests of the session have ended    *)
(* too, but for one at most.  That one is the assignment whose callback was *)
(* running when Serve saw none left: it may be accepted, and run, while     *)
(* the next session is served or after Run has returned.                    *)
PastSessionsDrained ==
  \A i \in Past :
    \/ servers[i].phase = "failed"
    \/ servers[i].phase = "returned" /\ Left(servers[i]) <= 1

(* A session that ends with the context says goodbye before it stops: the   *)
(* last request Control is sent is a draining heartbeat of that session     *)
(* (the final heartbeat TestRunReregistersWhenControlForgetsSession wants). *)
GoodbyeSent ==
  pc \in {"stop", "drain", "returned"} /\ ~lost =>
    lastSent = [type |-> "heartbeat", session |-> sid, draining |-> TRUE]

(* A worker that is ready has a session that Control has opened, and has    *)
(* not said goodbye to it.                                                  *)
ReadyHonest ==
  ready => /\ sid \in 1..opened
           /\ pc \in {"create", "beat", "beating", "select"} \/ lost

(* What a session has acknowledged is in force until Serve stops: its       *)
(* server drains if the last setting it acknowledged says so.               *)
SettingInForce ==
  \A i \in DOMAIN servers :
    /\ servers[i].phase \in {"starting", "serving"}
    /\ callbacks[i].acked > 0 /\ callbacks[i].acked = callbacks[i].got
    => servers[i].draining = settings[callbacks[i].acked]

(* The session is over and its requests are not, for ever. *)
NeverDrained == pc = "drain" /\ Left(Server) > 0

(* Once its context is done Run returns, whatever Control does or fails to  *)
(* do about registrations, heartbeats and snapshots, or the last session    *)
(* has a request that never ends, and Run waits for it.                     *)
RunReturns == ctxDone ~> (pc \in {"returned", "failed"} \/ []NeverDrained)

(* After the last failure the worker gets back to a session that Control    *)
(* holds for it, and is ready in it, unless it is told to end; or it waits  *)
(* for ever for a request of the session that was lost.                     *)
SessionRecovers ==
  \/ <>[](ctxDone \/ pc = "failed" \/ (ready /\ sid = current))
  \/ <>[]NeverDrained

(* Draining "reports the current runtime-administration lifecycle           *)
(* decision": the last one that Control published and was acknowledged.     *)
DecisionReported ==
  /\ settings # <<>>
  /\ \E i \in DOMAIN callbacks : callbacks[i].acked = Len(settings)
  /\ \A i \in DOMAIN callbacks : callbacks[i].got = callbacks[i].acked
  /\ servers # <<>> /\ Server.phase = "serving"
  => Server.draining = settings[Len(settings)]
=============================================================================
