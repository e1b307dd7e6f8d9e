------------------------ MODULE SessionRuntimeProofs ------------------------
(***************************************************************************)
(* Theorems about SessionRuntime, for any number of snapshots and failures *)
(* and any limit on the concurrency of a worker.                           *)
(***************************************************************************)
EXTENDS SessionRuntime, SequenceTheorems, TLAPS

-----------------------------------------------------------------------------
(* Servers and sequences. *)

Over == {"returned", "failed"}

Early == {"starting", "serving"}

(* A new server is a server that has not begun.                             *)
LEMMA NewServerType ==
  NewServer \in Servers /\ NewServer.phase = "starting"
BY DEF NewServer, Servers, Phases

(* What each update of the contract makes of a server is a server.          *)
LEMMA ServerTypes ==
  ASSUME NEW sv \in Servers
  PROVE  /\ \A p \in Phases : Enter(sv, p) \in Servers /\ Enter(sv, p).phase = p
         /\ \A b \in BOOLEAN : SetStop(sv, b) \in Servers
                               /\ SetStop(sv, b).phase = sv.phase
                               /\ SetStop(sv, b).draining = sv.draining
         /\ \A b \in BOOLEAN : SetDraining(sv, b) \in Servers
                               /\ SetDraining(sv, b).phase = sv.phase
                               /\ SetDraining(sv, b).draining = b
         /\ \A n \in 0..1 : Handle(sv, n) \in Servers
                            /\ Handle(sv, n).phase = sv.phase
         /\ \A n \in Nat : Count(sv, n) \in Servers
                           /\ Count(sv, n).phase = sv.phase
BY DEF Servers, Enter, SetStop, SetDraining, Handle, Count

(* When Serve has returned, at most one assignment is left. *)
Settled(sv) == sv.phase = "returned" => Left(sv) <= 1

(* What the server of a session does on its own, and what closing the stop  *)
(* channel does to it: Serve never starts again, nothing is added to what   *)
(* is left when it has returned, and before it stops nobody but SetDraining *)
(* changes draining.                                                        *)
Keeps(sv, new) ==
  /\ new \in Servers
  /\ sv.phase \in Over => new.phase \in Over
  /\ Settled(sv) => Settled(new)
  /\ new.phase \in Early => sv.phase \in Early /\ new.draining = sv.draining

(* Each operation of the contract but SetDraining keeps these.              *)
LEMMA OperationsKeep ==
  ASSUME NEW sv \in Servers
  PROVE  /\ CanServe(sv) => Keeps(sv, Serve(sv)) /\ Keeps(sv, Fail(sv))
         /\ CanStop(sv) => Keeps(sv, Stop(sv))
         /\ CanUnsubscribe(sv) => Keeps(sv, Unsubscribe(sv))
         /\ CanReturn(sv) => Keeps(sv, Return(sv))
         /\ CanReceive(sv) => Keeps(sv, Receive(sv))
         /\ CanReject(sv) => Keeps(sv, Reject(sv))
         /\ CanAccept(sv) => Keeps(sv, Accept(sv))
         /\ CanRelease(sv) => Keeps(sv, Release(sv))
         /\ Keeps(sv, CloseStop(sv))
<1>1. CanAccept(sv) => Keeps(sv, Accept(sv))
  <2>1. PICK h \in Servers : h = Handle(sv, 0)
    BY ServerTypes, 0 \in 0..1
  <2>2. Accept(sv) = Count(h, sv.active + 1)
    BY <2>1 DEF Accept
  <2>3. h.phase = sv.phase /\ h.draining = sv.draining /\ sv.active + 1 \in Nat
    BY <2>1 DEF Handle, Servers
  <2>4. CanAccept(sv) => Left(Accept(sv)) = Left(sv)
    BY <2>1, <2>2 DEF CanAccept, Left, Handle, Count, Servers
  <2>5. Accept(sv) \in Servers /\ Accept(sv).phase = sv.phase
        /\ Accept(sv).draining = sv.draining
    BY <2>2, <2>3 DEF Servers, Count
  <2>6. QED BY <2>4, <2>5 DEF Keeps, Settled, Over, Early
<1> USE DEF Keeps, Settled, Left, Servers, Phases, Over, Early, Enter, SetStop, SetDraining, Handle, Count
<1>2. CanServe(sv) => Keeps(sv, Serve(sv)) /\ Keeps(sv, Fail(sv))
  BY DEF CanServe, Serve, Fail
<1>3. CanStop(sv) => Keeps(sv, Stop(sv))
  BY DEF CanStop, Stop
<1>4. CanUnsubscribe(sv) => Keeps(sv, Unsubscribe(sv))
  BY DEF CanUnsubscribe, Unsubscribe
<1>5. CanReturn(sv) => Keeps(sv, Return(sv))
  BY DEF CanReturn, Return
<1>6. CanReceive(sv) => Keeps(sv, Receive(sv))
  BY DEF CanReceive, Receive
<1>7. CanReject(sv) => Keeps(sv, Reject(sv))
  BY DEF CanReject, Reject
<1>8. CanRelease(sv) => Keeps(sv, Release(sv))
  BY DEF CanRelease, Release
<1>9. Keeps(sv, CloseStop(sv))
  BY DEF CloseStop
<1> HIDE DEF Keeps, Settled, Left, Servers, Phases, Over, Early, Enter, SetStop, SetDraining, Handle, Count
<1>10. QED
  BY <1>1, <1>2, <1>3, <1>4, <1>5, <1>6, <1>7, <1>8, <1>9

(* Replacing one element of a sequence leaves the others in place.          *)
LEMMA Replace ==
  ASSUME NEW S, NEW s \in Seq(S), NEW i \in DOMAIN s, NEW x \in S
  PROVE  /\ [s EXCEPT ![i] = x] \in Seq(S)
         /\ Len([s EXCEPT ![i] = x]) = Len(s)
         /\ [s EXCEPT ![i] = x][i] = x
         /\ \A j \in DOMAIN s : j # i => [s EXCEPT ![i] = x][j] = s[j]
BY LenProperties, ExceptSeq

(* The indices of a sequence are those up to its length.                    *)
LEMMA Indices ==
  ASSUME NEW S, NEW s \in Seq(S)
  PROVE  /\ DOMAIN s = 1..Len(s) /\ Len(s) \in Nat
         /\ \A i \in 1..Len(s) : s[i] \in S
         /\ s # <<>> => Len(s) \in DOMAIN s
BY LenProperties, EmptySeq, ElementOfSeq

-----------------------------------------------------------------------------
(* The inductive invariant. *)

(* Where Run has no session. *)
Resting == {"register", "registering", "backoff", "create", "returned", "failed"}

(* The server of a session is there, and its Serve has not ended. *)
Serving == {i \in DOMAIN servers : servers[i].phase \notin Over}

(* Serve runs for the session under way and for no other. *)
OneServes ==
  /\ Serving \subseteq {Len(servers)}
  /\ pc \in Resting => Serving = {}

(* Every Serve that has returned has left one assignment at most. *)
AllSettled == \A i \in DOMAIN servers : Settled(servers[i])

(* A session under way has its server, and so has a subscription. *)
Placed ==
  /\ pc \notin Resting => servers # <<>>
  /\ pending # <<>> => servers # <<>>

(* The goodbye is the last request from the moment it is sent. *)
Farewell ==
  pc = "parting" =>
    lastSent = [type |-> "heartbeat", session |-> sid, draining |-> TRUE]

(* Only the last request on the wire is awaited, and only while its reply    *)
(* is; what Control says to a registration is a session it has opened.       *)
Requested ==
  /\ reply.code # "none" => pc \in {"registering", "beating", "parting"}
  /\ \A i \in DOMAIN wire : wire[i].awaited =>
       /\ i = Len(wire)
       /\ reply.code = "pending"
       /\ pc = "registering" => wire[i].body.type = "register"
  /\ pc = "registering" /\ reply.code = "ok" => reply.session \in 1..opened

(* The callback of session i acknowledges a setting after it has applied it, *)
(* and what it has applied is in force.                                      *)
Applies(i) ==
  LET c == callbacks[i]
  IN /\ c.got <= Len(settings) /\ c.applied <= Len(settings)
     /\ c.applied = c.acked \/ (c.applied = c.got /\ c.applied > c.acked)
     /\ c.applied > 0 /\ servers[i].phase \in Early
          => servers[i].draining = settings[c.applied]

InForce == \A i \in DOMAIN servers : Applies(i)

(* The parts of TypeOK. *)
RunTypes ==
  /\ ctxDone \in BOOLEAN /\ ready \in BOOLEAN /\ lost \in BOOLEAN
  /\ pc \in Resting \cup {"beat", "beating", "select", "goodbye", "parting",
                          "stop", "drain"}
  /\ sid \in Nat
  /\ up \in BOOLEAN /\ current \in Nat /\ opened \in Nat /\ faults \in Nat

RequestTypes ==
  /\ reply \in [code : {"none", "pending", "ok", "bad", "rejected"}, session : Nat]
  /\ lastSent \in Requests
  /\ wire \in Seq([body : Requests, awaited : BOOLEAN])

SnapshotTypes == settings \in Seq(BOOLEAN) /\ pending \in Seq(DOMAIN settings)

ServerTypesOK ==
  /\ servers \in Seq(Servers)
  /\ callbacks \in Seq(Callbacks) /\ Len(callbacks) = Len(servers)

(* TypeOK is its parts. *)
LEMMA TypeParts ==
  TypeOK <=> RunTypes /\ RequestTypes /\ SnapshotTypes /\ ServerTypesOK
BY DEF TypeOK, RunTypes, Resting, RequestTypes, SnapshotTypes, ServerTypesOK

(* The inductive invariant. *)
Inv ==
  /\ TypeOK /\ Placed
  /\ OneServes /\ AllSettled /\ Farewell /\ GoodbyeSent
  /\ Requested /\ ReadyHonest /\ InForce

(* The invariant holds when Run is called. *)
LEMMA InitInv == Init => Inv
<1> SUFFICES ASSUME Init PROVE Inv
  OBVIOUS
<1> USE DEF Init
<1>1. RunTypes /\ RequestTypes
  BY EmptySeq DEF RunTypes, Resting, RequestTypes, NoReply, Requests
<1>2. SnapshotTypes /\ ServerTypesOK
  BY EmptySeq DEF SnapshotTypes, ServerTypesOK
<1>3. servers = <<>> /\ DOMAIN servers = {} /\ DOMAIN wire = {}
  OBVIOUS
<1>4. Placed /\ OneServes /\ AllSettled /\ InForce
  BY <1>3 DEF Placed, Resting, OneServes, Serving, AllSettled, InForce
<1>5. Farewell /\ GoodbyeSent /\ Requested /\ ReadyHonest
  BY <1>3 DEF Farewell, GoodbyeSent, Requested, ReadyHonest, NoReply
<1>6. QED BY <1>1, <1>2, <1>4, <1>5, TypeParts DEF Inv

-----------------------------------------------------------------------------
(* What a step does to the servers. *)

(* A server takes a step of its own, or its stop channel is closed.         *)
Touched(i, sv) ==
  /\ i \in DOMAIN servers
  /\ Keeps(servers[i], sv)
  /\ servers' = [servers EXCEPT ![i] = sv]
  /\ UNCHANGED <<settings, pending, callbacks>>

(* A step of an assignment server changes that server alone. *)
LEMMA ServerActs ==
  ASSUME TypeOK, NEW i \in DOMAIN servers, AssignmentServer(i)
  PROVE  /\ \E sv : Touched(i, sv)
         /\ UNCHANGED <<ctxDone, runVars, requestVars, controlVars>>
<1>1. servers[i] \in Servers
  BY Indices DEF TypeOK
<1> DEFINE sv == servers[i]
<1>2. ASSUME NEW new, Keeps(sv, new), Becomes(i, new)
      PROVE  /\ \E x : Touched(i, x)
             /\ UNCHANGED <<ctxDone, runVars, requestVars, controlVars>>
  BY <1>2 DEF Becomes, Touched, snapshotVars
<1>3. CASE ServerServes(i)
  BY <1>1, <1>2, <1>3, OperationsKeep DEF ServerServes
<1>4. CASE ServerStops(i)
  BY <1>1, <1>2, <1>4, OperationsKeep DEF ServerStops
<1>5. CASE ServerReceives(i)
  BY <1>1, <1>2, <1>5, OperationsKeep DEF ServerReceives
<1>6. CASE ServerDecides(i)
  BY <1>1, <1>2, <1>6, OperationsKeep DEF ServerDecides
<1>7. CASE ServerReleases(i)
  BY <1>1, <1>2, <1>7, OperationsKeep DEF ServerReleases
<1>8. QED
  BY <1>3, <1>4, <1>5, <1>6, <1>7 DEF AssignmentServer

(* Closing the stop channel changes the last server alone. *)
LEMMA StopActs ==
  ASSUME TypeOK, Placed, StopServing
  PROVE  \E sv : Touched(Len(servers), sv)
<1> DEFINE n == Len(servers)
<1>1. n \in DOMAIN servers /\ servers[n] \in Servers
  BY Indices DEF TypeOK, StopServing, Placed, Resting
<1>2. Keeps(servers[n], CloseStop(servers[n]))
  BY <1>1, OperationsKeep
<1>3. /\ servers' = [servers EXCEPT ![n] = CloseStop(servers[n])]
      /\ UNCHANGED <<settings, pending, callbacks>>
  BY DEF StopServing, CloseStopChannel, LoopLeaves, snapshotVars
<1>4. QED BY <1>1, <1>2, <1>3 DEF Touched


(* What the steps of Control do. *)
LEMMA ControlActs ==
  ASSUME Control
  PROVE  /\ UNCHANGED <<ctxDone, runVars, callbacks, servers, lastSent>>
         /\ \/ UNCHANGED <<settings, pending>>
            \/ /\ UNCHANGED <<requestVars, controlVars>>
               /\ \E draining \in BOOLEAN : ControlPublishesSnapshot(draining)
BY DEF Control, ControlAnswers, ControlRegisters, ControlTakesHeartbeat, Answers,
       ControlRefuses, ControlFails, ControlRestarts, ControlPublishesSnapshot,
       snapshotVars, requestVars

(* What the steps of Run leave alone. *)
LEMMA RunActs ==
  ASSUME Run
  PROVE  /\ UNCHANGED <<ctxDone, controlVars, settings>>
         /\ \/ UNCHANGED <<servers, callbacks, pending>>
            \/ StartSession \/ StopServing \/ SessionEnds
BY DEF Run, Register, Registered, RegisterFails, BackoffEnds, RegisterGivesUp,
       CreateFails, StartSession, Beat, BeatNot, BeatAnswered, Tick, SeeContext,
       Goodbye, Parted, StopServing, SessionEnds, RegisterLeaves, LoopLeaves, snapshotVars

(* The callback of a subscription leaves Run and Control alone. *)
LEMMA CallbackActs ==
  ASSUME Callback
  PROVE  UNCHANGED <<ctxDone, settings, runVars, requestVars, controlVars>>
BY DEF Callback, SnapshotReceived, SnapshotApplied, SnapshotAcked, SnapshotLeaves

-----------------------------------------------------------------------------
(* Types. *)

(* The variables of Run and of Control keep their types. *)
LEMMA RunTypesStep ==
  ASSUME TypeOK, Next
  PROVE  RunTypes'
<1> USE DEF RunTypes, Resting, runVars, controlVars
<1>1. RunTypes
  BY TypeParts
<1>2. CASE CancelContext \/ RequestTimesOut
  BY <1>1, <1>2 DEF CancelContext, RequestTimesOut
<1>3. CASE RequestIsLate
  BY <1>1, <1>3 DEF RequestIsLate, SpendFault
<1>4. CASE Control
  <2>1. UNCHANGED <<ctxDone, runVars>>
    BY <1>4, ControlActs
  <2>2. up' \in BOOLEAN /\ current' \in Nat /\ opened' \in Nat /\ faults' \in Nat
    <3>1. CASE ControlRegisters
      BY <1>1, <3>1 DEF ControlRegisters, Answers, SpendFault
    <3>2. CASE ControlTakesHeartbeat
      BY <1>1, <3>2 DEF ControlTakesHeartbeat, Answers, SpendFault
    <3>3. CASE ControlRefuses
      BY <1>1, <3>3 DEF ControlRefuses, SpendFault
    <3>6. CASE ControlRestarts
      BY <1>1, <3>6 DEF ControlRestarts
    <3>4. CASE ControlFails
      BY <1>1, <3>4 DEF ControlFails, SpendFault
    <3>5. CASE \E draining \in BOOLEAN : ControlPublishesSnapshot(draining)
      BY <1>1, <3>5 DEF ControlPublishesSnapshot
    <3>7. QED
      BY <1>4, <3>1, <3>2, <3>3, <3>4, <3>5, <3>6 DEF Control, ControlAnswers
  <2>3. QED BY <1>1, <2>1, <2>2
<1>5. CASE Run
  <2>1. UNCHANGED <<ctxDone, controlVars>>
    BY <1>5, RunActs
  <2>2. reply.session \in Nat
    BY DEF TypeOK
  <2>3. ready' \in BOOLEAN /\ sid' \in Nat
    BY <1>1, <1>5, <2>2 DEF Run, Register, Registered, RegisterFails, BackoffEnds,
       RegisterGivesUp, CreateFails, StartSession, Beat, BeatNot, BeatAnswered, Tick,
       SeeContext, Goodbye, Parted, StopServing, SessionEnds, RegisterLeaves, LoopLeaves,
       SetUnready
  <2>4. lost' \in BOOLEAN /\ pc' \in Resting \cup {"beat", "beating", "select",
                                   "goodbye", "parting", "stop", "drain"}
    BY <1>1, <1>5 DEF Run, Register, Registered, RegisterFails, BackoffEnds,
       RegisterGivesUp, CreateFails, StartSession, Beat, BeatNot, BeatAnswered, Tick,
       SeeContext, Goodbye, Parted, StopServing, SessionEnds, RegisterLeaves, LoopLeaves,
       LosesSession
  <2>5. QED BY <1>1, <2>1, <2>3, <2>4
<1>6. CASE Callback
  BY <1>1, <1>6, CallbackActs
<1>7. CASE \E i \in DOMAIN servers : AssignmentServer(i)
  BY <1>1, <1>7, ServerActs
<1>8. QED
  BY <1>2, <1>3, <1>4, <1>5, <1>6, <1>7 DEF Next

Messages == [body : Requests, awaited : BOOLEAN]

(* What Request puts on the wire. *)
LEMMA RequestPublishes ==
  ASSUME TypeOK, NEW type \in {"register", "heartbeat"}, NEW session \in Nat,
         NEW draining \in BOOLEAN, Request(type, session, draining)
  PROVE  RequestTypes'
<1> DEFINE m == [type |-> type, session |-> session, draining |-> draining]
<1>1. m \in Requests
  BY DEF Requests
<1>2. [body |-> m, awaited |-> TRUE] \in Messages
  BY <1>1 DEF Messages
<1>3. wire' \in Seq(Messages)
  BY <1>2, AppendProperties DEF Request, TypeOK, Messages
<1>4. QED
  BY <1>1, <1>3 DEF Request, RequestTypes, Messages, NoReply, TypeOK

(* The wire carries requests, and replies are replies. *)
LEMMA RequestTypesStep ==
  ASSUME TypeOK, Placed, Next
  PROVE  RequestTypes'
<1>1. RequestTypes
  BY TypeParts
<1>2. CASE CancelContext
  BY <1>1, <1>2 DEF CancelContext, requestVars, RequestTypes
<1>3. CASE RequestTimesOut
  BY <1>1, <1>3 DEF RequestTimesOut, Failure, RequestTypes
<1>4. CASE RequestIsLate
  <2> DEFINE w == [i \in DOMAIN wire |-> [wire[i] EXCEPT !.awaited = FALSE]]
  <2>1. wire \in Seq(Messages)
    BY <1>1 DEF RequestTypes, Messages
  <2>2. w \in Seq(Messages)
    <3>1. DOMAIN wire = 1..Len(wire) /\ Len(wire) \in Nat
      BY <2>1, LenProperties
    <3>2. \A i \in DOMAIN wire : wire[i] \in Messages
      BY <2>1, <3>1, ElementOfSeq
    <3>3. \A m \in Messages : [m EXCEPT !.awaited = FALSE] \in Messages
      BY DEF Messages
    <3>4. w \in [1..Len(wire) -> Messages]
      BY <3>1, <3>2, <3>3
    <3>5. QED BY <3>1, <3>4, SeqDef
  <2>3. wire' = w /\ UNCHANGED lastSent /\ reply' = Failure
    BY <1>4 DEF RequestIsLate
  <2>4. QED BY <1>1, <2>2, <2>3 DEF RequestTypes, Messages, Failure
<1>5. CASE Control
  <2>1. ASSUME wire # <<>> PROVE Tail(wire) \in Seq(Messages)
    BY <1>1, <2>1, HeadTailProperties DEF RequestTypes, Messages
  <2>2. UNCHANGED lastSent
    BY <1>5, ControlActs
  <2>3. ASSUME NEW code \in {"ok", "rejected"}, NEW session \in Nat,
               Answers(code, session)
        PROVE  RequestTypes'
    BY <1>1, <2>1, <2>3 DEF Answers, RequestTypes, Messages
  <2>4. CASE ControlRegisters
    BY <2>3, <2>4 DEF ControlRegisters, TypeOK
  <2>5. CASE ControlTakesHeartbeat
    BY <2>3, <2>5 DEF ControlTakesHeartbeat
  <2>6. CASE ControlRefuses
    <3>1. wire # <<>>
      BY <1>1, <2>6 DEF ControlRefuses, Awaited, RequestTypes
    <3>2. QED
      BY <1>1, <2>1, <2>2, <2>6, <3>1 DEF ControlRefuses, RequestTypes, Messages, Failure
  <2>7. CASE ControlFails
    BY <1>1, <2>2, <2>7, EmptySeq DEF ControlFails, RequestTypes
  <2>8. CASE ControlRestarts
    BY <1>1, <2>8 DEF ControlRestarts, RequestTypes, requestVars
  <2>9. CASE \E draining \in BOOLEAN : ControlPublishesSnapshot(draining)
    BY <1>1, <2>9 DEF ControlPublishesSnapshot, RequestTypes, requestVars
  <2>10. QED
    BY <1>5, <2>4, <2>5, <2>6, <2>7, <2>8, <2>9 DEF Control, ControlAnswers
<1>6. CASE Run
  <2>1. CASE Register
    BY <2>1, RequestPublishes DEF Register
  <2>2. CASE Beat
    <3>1. Server \in Servers
      BY <2>2, Indices DEF Beat, Placed, Resting, Server, TypeOK
    <3>2. Server.draining \in BOOLEAN
      BY <3>1 DEF Servers
    <3>3. QED
      BY <2>2, <3>2, RequestPublishes DEF Beat, TypeOK
  <2>3. CASE Goodbye
    BY <2>3, RequestPublishes DEF Goodbye, SendGoodbye, TypeOK
  <2>4. CASE Registered \/ RegisterFails \/ BeatAnswered \/ Parted
    BY <1>1, <2>4
       DEF Registered, RegisterFails, BeatAnswered, Parted, Returned, RequestTypes, NoReply
  <2>5. CASE \/ BackoffEnds \/ RegisterGivesUp \/ CreateFails \/ StartSession \/ BeatNot
             \/ Tick \/ SeeContext \/ StopServing \/ SessionEnds
    BY <1>1, <2>5 DEF BackoffEnds, RegisterGivesUp, CreateFails, StartSession, BeatNot,
       Tick, SeeContext, StopServing, SessionEnds, requestVars, RequestTypes
  <2>6. QED
    BY <1>6, <2>1, <2>2, <2>3, <2>4, <2>5 DEF Run
<1>7. CASE Callback
  BY <1>1, <1>7, CallbackActs DEF requestVars, RequestTypes
<1>8. CASE \E i \in DOMAIN servers : AssignmentServer(i)
  BY <1>1, <1>8, ServerActs DEF requestVars, RequestTypes
<1>9. QED
  BY <1>2, <1>3, <1>4, <1>5, <1>6, <1>7, <1>8 DEF Next

(* A snapshot that is published is one more. *)
LEMMA PublishActs ==
  ASSUME SnapshotTypes, NEW draining \in BOOLEAN, ControlPublishesSnapshot(draining)
  PROVE  /\ settings' \in Seq(BOOLEAN) /\ Len(settings') = Len(settings) + 1
         /\ \A v \in DOMAIN settings : v \in DOMAIN settings' /\ settings'[v] = settings[v]
         /\ pending' \in Seq(DOMAIN settings')
         /\ pending' # pending => servers # <<>>
<1>1. settings \in Seq(BOOLEAN) /\ settings' = Append(settings, draining)
  BY DEF SnapshotTypes, ControlPublishesSnapshot
<1>2. /\ settings' \in Seq(BOOLEAN) /\ Len(settings') = Len(settings) + 1
      /\ \A v \in 1..Len(settings) : settings'[v] = settings[v]
  BY <1>1, AppendProperties
<1>3. /\ DOMAIN settings = 1..Len(settings) /\ DOMAIN settings' = 1..Len(settings')
      /\ Len(settings) \in Nat
  BY <1>1, <1>2, LenProperties
<1>4. pending \in Seq(DOMAIN settings')
  BY <1>2, <1>3, SeqMonotonic DEF SnapshotTypes
<1>5. Len(settings') \in DOMAIN settings'
  BY <1>2, <1>3
<1>6. pending' \in Seq(DOMAIN settings')
  <2>1. Append(pending, Len(settings')) \in Seq(DOMAIN settings')
    BY <1>4, <1>5, AppendProperties
  <2>2. pending' \in {pending, Append(pending, Len(settings'))}
    BY DEF ControlPublishesSnapshot
  <2>3. QED BY <1>4, <2>1, <2>2
<1>7. pending' # pending => servers # <<>>
  BY DEF ControlPublishesSnapshot
<1>8. QED BY <1>2, <1>3, <1>6, <1>7

(* What the callback receives is a snapshot that was published. *)
LEMMA ReceiveActs ==
  ASSUME TypeOK, Placed, SnapshotReceived
  PROVE  /\ Len(servers) \in DOMAIN servers
         /\ Head(pending) \in DOMAIN settings
         /\ pending' \in Seq(DOMAIN settings)
         /\ UNCHANGED servers
BY Indices, HeadTailProperties DEF SnapshotReceived, TypeOK, Placed

(* A pending snapshot is one that was published. *)
LEMMA SnapshotTypesStep ==
  ASSUME TypeOK, Placed, Next
  PROVE  SnapshotTypes'
<1>1. SnapshotTypes
  BY TypeParts
<1>2. CASE CancelContext \/ RequestTimesOut \/ RequestIsLate
  BY <1>1, <1>2
     DEF CancelContext, RequestTimesOut, RequestIsLate, snapshotVars, SnapshotTypes
<1>3. CASE Control
  BY <1>1, <1>3, ControlActs, PublishActs DEF SnapshotTypes
<1>4. CASE Run
  BY <1>1, <1>4, RunActs, EmptySeq
     DEF StartSession, StopServing, SessionEnds, LoopLeaves, snapshotVars, SnapshotTypes
<1>5. CASE Callback
  BY <1>1, <1>5, CallbackActs, ReceiveActs
     DEF Callback, SnapshotApplied, SnapshotAcked, SnapshotTypes
<1>6. CASE \E i \in DOMAIN servers : AssignmentServer(i)
  BY <1>1, <1>6, ServerActs DEF Touched, SnapshotTypes
<1>7. QED
  BY <1>2, <1>3, <1>4, <1>5, <1>6 DEF Next

-----------------------------------------------------------------------------
(* The steps that change the servers or the callbacks. *)

(* A session that starts adds a new server and a new callback. *)
LEMMA StartActs ==
  ASSUME TypeOK, StartSession
  PROVE  /\ ServerTypesOK'
         /\ Len(servers') = Len(servers) + 1
         /\ \A i \in DOMAIN servers :
              servers'[i] = servers[i] /\ callbacks'[i] = callbacks[i]
         /\ servers'[Len(servers')] = NewServer
         /\ \E b \in BOOLEAN : callbacks'[Len(servers')] = NewCallback(b)
<1>1. PICK b \in BOOLEAN : callbacks' = Append(callbacks, NewCallback(b))
  BY DEF StartSession
<1>2. servers' = Append(servers, NewServer)
  BY DEF StartSession
<1>3. NewServer \in Servers /\ NewCallback(b) \in Callbacks
  BY NewServerType DEF NewCallback, Callbacks
<1>4. servers \in Seq(Servers) /\ callbacks \in Seq(Callbacks) /\ Len(callbacks) = Len(servers)
  BY DEF TypeOK
<1>5. DOMAIN servers = 1..Len(servers)
  BY <1>4, LenProperties
<1>6. /\ servers' \in Seq(Servers) /\ Len(servers') = Len(servers) + 1
      /\ \A i \in 1..Len(servers) : servers'[i] = servers[i]
      /\ servers'[Len(servers) + 1] = NewServer
  BY <1>2, <1>3, <1>4, AppendProperties
<1>7. /\ callbacks' \in Seq(Callbacks) /\ Len(callbacks') = Len(callbacks) + 1
      /\ \A i \in 1..Len(callbacks) : callbacks'[i] = callbacks[i]
      /\ callbacks'[Len(callbacks) + 1] = NewCallback(b)
  BY <1>1, <1>3, <1>4, AppendProperties
<1>8. QED
  BY <1>4, <1>5, <1>6, <1>7 DEF ServerTypesOK

(* Touching a server leaves the others as they are. *)
LEMMA TouchActs ==
  ASSUME TypeOK, NEW i, NEW sv, Touched(i, sv)
  PROVE  /\ ServerTypesOK'
         /\ Len(servers') = Len(servers)
         /\ servers'[i] = sv
         /\ \A j \in DOMAIN servers : j # i => servers'[j] = servers[j]
BY Replace DEF TypeOK, Touched, Keeps, ServerTypesOK

(* What the callback of a subscription may make of its counters. *)
CallbackMoves(i, c) ==
  /\ i \in DOMAIN servers
  /\ c \in Callbacks
  /\ callbacks' = [callbacks EXCEPT ![i] = c]
  /\ UNCHANGED settings

(* Moving a callback leaves the others as they are. *)
LEMMA MoveActs ==
  ASSUME TypeOK, NEW i, NEW c, CallbackMoves(i, c)
  PROVE  /\ callbacks' \in Seq(Callbacks)
         /\ Len(callbacks') = Len(servers)
         /\ callbacks'[i] = c
         /\ \A j \in DOMAIN servers : j # i => callbacks'[j] = callbacks[j]
<1>1. callbacks \in Seq(Callbacks) /\ DOMAIN callbacks = DOMAIN servers
  BY Indices DEF TypeOK
<1>2. QED
  BY <1>1, Replace DEF TypeOK, CallbackMoves

(* Each session has a server and a callback. *)
LEMMA CallbackOf ==
  ASSUME TypeOK, NEW i \in DOMAIN servers
  PROVE  /\ servers[i] \in Servers /\ callbacks[i] \in Callbacks
         /\ i \in DOMAIN callbacks
BY Indices DEF TypeOK

(* The subscription of the session that ends is closed. *)
LEMMA EndActs ==
  ASSUME TypeOK, Placed, SessionEnds
  PROVE  /\ CallbackMoves(Len(servers),
                          [callbacks[Len(servers)] EXCEPT !.subscribed = FALSE])
         /\ UNCHANGED servers
<1>1. Len(servers) \in DOMAIN servers
  BY Indices DEF TypeOK, SessionEnds, Placed, Resting
<1>2. [callbacks[Len(servers)] EXCEPT !.subscribed = FALSE] \in Callbacks
  BY <1>1, CallbackOf DEF Callbacks
<1>3. QED
  BY <1>1, <1>2 DEF SessionEnds, CallbackMoves

(* Receiving a snapshot moves the callback of the last session. *)
LEMMA ReceiveMoves ==
  ASSUME TypeOK, Placed, SnapshotReceived
  PROVE  LET i == Len(servers)
             g == Head(pending)
         IN /\ g \in DOMAIN settings
            /\ callbacks[i].got = callbacks[i].acked
            /\ CallbackMoves(i, [callbacks[i] EXCEPT !.got = g])
<1> DEFINE i == Len(servers)
           g == Head(pending)
<1>1. i \in DOMAIN servers /\ g \in DOMAIN settings
  BY ReceiveActs
<1>2. DOMAIN settings = 1..Len(settings) /\ Len(settings) \in Nat
  BY Indices DEF TypeOK
<1>3. [callbacks[i] EXCEPT !.got = g] \in Callbacks
  BY <1>1, <1>2, CallbackOf DEF Callbacks
<1>4. QED
  BY <1>1, <1>3 DEF SnapshotReceived, SnapshotLeaves, CallbackMoves

(* Acknowledging a snapshot moves one callback. *)
LEMMA AckMoves ==
  ASSUME TypeOK, NEW i \in DOMAIN servers, SnapshotAcked(i)
  PROVE  /\ callbacks[i].applied > callbacks[i].acked
         /\ CallbackMoves(i, [callbacks[i] EXCEPT !.acked = callbacks[i].applied])
         /\ UNCHANGED servers
<1>1. [callbacks[i] EXCEPT !.acked = callbacks[i].applied] \in Callbacks
  BY CallbackOf DEF Callbacks
<1>2. QED
  BY <1>1 DEF SnapshotAcked, SnapshotLeaves, CallbackMoves

(* A setting applied is set, and is the setting of a snapshot published. *)
LEMMA ApplyMoves ==
  ASSUME TypeOK, InForce, NEW i \in DOMAIN servers, SnapshotApplied(i)
  PROVE  LET g == callbacks[i].got
             d == settings[g]
         IN /\ g > callbacks[i].applied
            /\ d \in BOOLEAN
            /\ CallbackMoves(i, [callbacks[i] EXCEPT !.applied = g])
            /\ servers' = [servers EXCEPT ![i] = SetDraining(servers[i], d)]
            /\ servers' \in Seq(Servers) /\ Len(servers') = Len(servers)
            /\ servers'[i].phase = servers[i].phase
            /\ servers'[i].draining = d
            /\ \A j \in DOMAIN servers : j # i => servers'[j] = servers[j]
<1> DEFINE g == callbacks[i].got
           d == settings[g]
           sv == SetDraining(servers[i], d)
<1>1. g > callbacks[i].applied /\ servers' = [servers EXCEPT ![i] = sv]
  BY DEF SnapshotApplied, ApplySetting
<1>2. callbacks[i].applied \in Nat /\ g \in Nat /\ g <= Len(settings)
  BY CallbackOf DEF Callbacks, InForce, Applies
<1>3. d \in BOOLEAN
  <2>1. g \in 1..Len(settings)
    BY <1>1, <1>2, Indices DEF TypeOK
  <2>2. QED BY <2>1, Indices DEF TypeOK
<1>4. sv \in Servers /\ sv.phase = servers[i].phase /\ sv.draining = d
  <2>1. servers[i] \in Servers
    BY CallbackOf
  <2>2. \A b \in BOOLEAN : /\ SetDraining(servers[i], b) \in Servers
                          /\ SetDraining(servers[i], b).phase = servers[i].phase
                          /\ SetDraining(servers[i], b).draining = b
    BY <2>1, ServerTypes
  <2> HIDE DEF d
  <2>3. QED BY <1>3, <2>2
<1>5. /\ servers' \in Seq(Servers) /\ Len(servers') = Len(servers) /\ servers'[i] = sv
      /\ \A j \in DOMAIN servers : j # i => servers'[j] = servers[j]
  BY <1>1, <1>4, Replace DEF TypeOK
<1>6. [callbacks[i] EXCEPT !.applied = g] \in Callbacks
  BY <1>2, CallbackOf DEF Callbacks
<1>7. CallbackMoves(i, [callbacks[i] EXCEPT !.applied = g])
  BY <1>6 DEF SnapshotApplied, SnapshotLeaves, CallbackMoves
<1>8. QED
  BY <1>1, <1>3, <1>4, <1>5, <1>7

(* Servers stay servers, and each has its callback. *)
LEMMA ServerTypesStep ==
  ASSUME TypeOK, Placed, InForce, Next
  PROVE  ServerTypesOK'
<1>1. ServerTypesOK
  BY TypeParts
<1>2. ASSUME UNCHANGED <<servers, callbacks>> PROVE ServerTypesOK'
  BY <1>1, <1>2 DEF ServerTypesOK
<1>3. ASSUME NEW i, NEW c, CallbackMoves(i, c), UNCHANGED servers PROVE ServerTypesOK'
  BY <1>1, <1>3, MoveActs DEF ServerTypesOK
<1>4. CASE CancelContext \/ RequestTimesOut \/ RequestIsLate
  BY <1>2, <1>4 DEF CancelContext, RequestTimesOut, RequestIsLate, snapshotVars
<1>5. CASE Control
  BY <1>2, <1>5, ControlActs
<1>6. CASE Run
  BY <1>2, <1>3, <1>6, RunActs, StartActs, StopActs, TouchActs, EndActs
<1>7. CASE SnapshotReceived
  BY <1>3, <1>7, ReceiveActs, ReceiveMoves
<1>8. CASE \E i \in DOMAIN servers : SnapshotApplied(i)
  <2>1. PICK i \in DOMAIN servers : SnapshotApplied(i)
    BY <1>8
  <2>2. QED BY <2>1, ApplyMoves, MoveActs DEF ServerTypesOK
<1>9. CASE \E i \in DOMAIN servers : SnapshotAcked(i)
  BY <1>3, <1>9, AckMoves
<1>10. CASE \E i \in DOMAIN servers : AssignmentServer(i)
  BY <1>10, ServerActs, TouchActs
<1>11. QED
  BY <1>4, <1>5, <1>6, <1>7, <1>8, <1>9, <1>10 DEF Next, Callback

(* Every step preserves TypeOK. *)
LEMMA TypeStep ==
  ASSUME TypeOK, Placed, InForce, Next
  PROVE  TypeOK'
<1>1. RunTypes' /\ RequestTypes' /\ SnapshotTypes' /\ ServerTypesOK'
  BY RunTypesStep, RequestTypesStep, SnapshotTypesStep, ServerTypesStep
<1>2. QED
  BY <1>1 DEF TypeOK, RunTypes, Resting, RequestTypes, SnapshotTypes, ServerTypesOK

-----------------------------------------------------------------------------
(* Sessions. *)

(* Only StartSession, which begins where no server is running, adds a        *)
(* server whose Serve has not ended.                                        *)
LEMMA ServingStep ==
  ASSUME TypeOK, Placed, InForce, Next
  PROVE  \/ StartSession
         \/ Len(servers') = Len(servers) /\ Serving' \subseteq Serving
<1> DEFINE Goal == Len(servers') = Len(servers) /\ Serving' \subseteq Serving
<1>1. ASSUME UNCHANGED servers PROVE Goal
  BY <1>1 DEF Serving
<1>2. ASSUME NEW i \in DOMAIN servers, Len(servers') = Len(servers),
             servers' \in Seq(Servers),
             servers[i].phase \in Over => servers'[i].phase \in Over,
             \A j \in DOMAIN servers : j # i => servers'[j] = servers[j]
      PROVE  Goal
  <2>1. DOMAIN servers' = DOMAIN servers
    BY <1>2, Indices DEF TypeOK
  <2>2. QED BY <1>2, <2>1 DEF Serving, Over
<1>3. ASSUME NEW i, NEW sv, Touched(i, sv) PROVE Goal
  <2>1. i \in DOMAIN servers /\ (servers[i].phase \in Over => sv.phase \in Over)
    BY <1>3 DEF Touched, Keeps
  <2>2. QED BY <1>2, <1>3, <2>1, TouchActs DEF ServerTypesOK
<1>4. CASE CancelContext \/ RequestTimesOut \/ RequestIsLate
  BY <1>1, <1>4 DEF CancelContext, RequestTimesOut, RequestIsLate
<1>5. CASE Control
  BY <1>1, <1>5, ControlActs
<1>6. CASE Run
  BY <1>1, <1>3, <1>6, RunActs, StopActs, EndActs
<1>7. CASE SnapshotReceived
  BY <1>1, <1>7, ReceiveActs
<1>8. CASE \E i \in DOMAIN servers : SnapshotApplied(i)
  <2>1. PICK i \in DOMAIN servers : SnapshotApplied(i)
    BY <1>8
  <2>2. QED BY <1>2, <2>1, ApplyMoves
<1>9. CASE \E i \in DOMAIN servers : SnapshotAcked(i)
  BY <1>1, <1>9, AckMoves
<1>10. CASE \E i \in DOMAIN servers : AssignmentServer(i)
  BY <1>3, <1>10, ServerActs
<1>11. QED
  BY <1>4, <1>5, <1>6, <1>7, <1>8, <1>9, <1>10 DEF Next, Callback

(* Only Run moves Run, and a session begins and ends where it does. *)
LEMMA WhereRunGoes ==
  ASSUME Next
  PROVE  \/ UNCHANGED runVars
         \/ Run /\ (pc' \in Resting /\ pc \notin Resting => SessionEnds)
                /\ (pc' \notin Resting /\ pc \in Resting => StartSession)
<1>1. CASE CancelContext \/ RequestTimesOut \/ RequestIsLate
  BY <1>1 DEF CancelContext, RequestTimesOut, RequestIsLate
<1>2. CASE Control \/ Callback
  BY <1>2, ControlActs, CallbackActs
<1>3. CASE Run
  BY <1>3 DEF Run, Register, Registered, RegisterFails, BackoffEnds, RegisterGivesUp,
     CreateFails, StartSession, Beat, BeatNot, BeatAnswered, Tick, SeeContext,
     Goodbye, Parted, StopServing, SessionEnds, Resting
<1>4. CASE \E i \in DOMAIN servers : AssignmentServer(i)
  BY <1>4 DEF AssignmentServer, ServerServes, ServerStops, ServerReceives, ServerDecides,
     ServerReleases, Becomes
<1>5. QED
  BY <1>1, <1>2, <1>3, <1>4 DEF Next

(* Every step preserves OneServes. *)
LEMMA SessionStep ==
  ASSUME TypeOK, Placed, InForce, OneServes, Next
  PROVE  OneServes'
<1>1. CASE StartSession
  <2>1. Serving = {} /\ pc' = "beat"
    BY <1>1 DEF StartSession, OneServes, Resting
  <2>2. /\ Len(servers') = Len(servers) + 1 /\ servers' \in Seq(Servers)
        /\ \A i \in DOMAIN servers : servers'[i] = servers[i]
    BY <1>1, StartActs DEF ServerTypesOK
  <2>3. /\ DOMAIN servers = 1..Len(servers) /\ Len(servers) \in Nat
        /\ DOMAIN servers' = 1..Len(servers')
    BY <2>2, Indices DEF TypeOK
  <2>4. Serving' \subseteq {Len(servers')}
    BY <2>1, <2>2, <2>3 DEF Serving, Over
  <2>5. QED BY <2>1, <2>4 DEF OneServes, Resting
<1>2. CASE ~StartSession
  <2>1. Len(servers') = Len(servers) /\ Serving' \subseteq Serving
    BY <1>2, ServingStep
  <2>2. ASSUME pc' \in Resting PROVE Serving' = {}
    <3>1. CASE pc \in Resting
      BY <2>1, <3>1 DEF OneServes, Resting
    <3>2. CASE SessionEnds
      BY <2>1, <3>2 DEF OneServes, SessionEnds, ServeDone, Server, Serving, Over
    <3>3. QED
      BY <2>2, <3>1, <3>2, WhereRunGoes DEF runVars
  <2>3. QED BY <2>1, <2>2 DEF OneServes, Resting
<1>3. QED BY <1>1, <1>2

(* Every step preserves AllSettled. *)
LEMMA SettledStep ==
  ASSUME TypeOK, Placed, InForce, AllSettled, Next
  PROVE  AllSettled'
<1>1. ASSUME UNCHANGED servers PROVE AllSettled'
  BY <1>1 DEF AllSettled
<1>2. ASSUME NEW i \in DOMAIN servers, Len(servers') = Len(servers),
             servers' \in Seq(Servers), Settled(servers'[i]),
             \A j \in DOMAIN servers : j # i => servers'[j] = servers[j]
      PROVE  AllSettled'
  <2>1. DOMAIN servers' = DOMAIN servers
    BY <1>2, Indices DEF TypeOK
  <2>2. QED BY <1>2, <2>1 DEF AllSettled
<1>3. ASSUME NEW i, NEW sv, Touched(i, sv) PROVE AllSettled'
  <2>1. i \in DOMAIN servers /\ Settled(sv)
    BY <1>3 DEF Touched, Keeps, AllSettled
  <2>2. QED BY <1>2, <1>3, <2>1, TouchActs DEF ServerTypesOK
<1>4. CASE StartSession
  <2>1. /\ Len(servers') = Len(servers) + 1 /\ servers' \in Seq(Servers)
        /\ \A i \in DOMAIN servers : servers'[i] = servers[i]
        /\ servers'[Len(servers')] = NewServer
    BY <1>4, StartActs DEF ServerTypesOK
  <2>2. /\ DOMAIN servers = 1..Len(servers) /\ Len(servers) \in Nat
        /\ DOMAIN servers' = 1..Len(servers')
    BY <2>1, Indices DEF TypeOK
  <2>3. Settled(NewServer)
    BY NewServerType DEF Settled
  <2>4. ASSUME NEW i \in DOMAIN servers' PROVE Settled(servers'[i])
    <3>1. CASE i \in DOMAIN servers
      BY <2>1, <3>1 DEF AllSettled
    <3>2. CASE i = Len(servers')
      BY <2>1, <2>3, <3>2
    <3>3. QED BY <2>1, <2>2, <3>1, <3>2
  <2>5. QED BY <2>4 DEF AllSettled
<1>5. CASE CancelContext \/ RequestTimesOut \/ RequestIsLate
  BY <1>1, <1>5 DEF CancelContext, RequestTimesOut, RequestIsLate
<1>6. CASE Control
  BY <1>1, <1>6, ControlActs
<1>7. CASE Run
  BY <1>1, <1>3, <1>4, <1>7, RunActs, StopActs, EndActs
<1>8. CASE SnapshotReceived
  BY <1>1, <1>8, ReceiveActs
<1>9. CASE \E i \in DOMAIN servers : SnapshotApplied(i)
  <2>1. PICK i \in DOMAIN servers : SnapshotApplied(i)
    BY <1>9
  <2>2. servers'[i] = SetDraining(servers[i], settings[callbacks[i].got])
    BY <2>1, CallbackOf DEF SnapshotApplied, ApplySetting
  <2>3. Settled(servers'[i])
    BY <2>1, <2>2, CallbackOf DEF AllSettled, Settled, Left, SetDraining, Servers
  <2>4. QED BY <1>2, <2>1, <2>3, ApplyMoves
<1>10. CASE \E i \in DOMAIN servers : SnapshotAcked(i)
  BY <1>1, <1>10, AckMoves
<1>11. CASE \E i \in DOMAIN servers : AssignmentServer(i)
  BY <1>3, <1>11, ServerActs
<1>12. QED
  BY <1>5, <1>6, <1>7, <1>8, <1>9, <1>10, <1>11 DEF Next, Callback

(* Every step preserves Placed. *)
LEMMA PlacedStep ==
  ASSUME TypeOK, Placed, InForce, Next
  PROVE  Placed'
<1>1. servers # <<>> => servers' # <<>>
  <2>1. servers \in Seq(Servers) /\ servers' \in Seq(Servers)
    BY ServerTypesStep DEF TypeOK, ServerTypesOK
  <2>2. Len(servers) \in Nat /\ Len(servers') >= Len(servers)
    BY <2>1, ServingStep, StartActs, LenProperties
  <2>3. QED BY <2>1, <2>2, EmptySeq
<1>2. ASSUME pc' \notin Resting PROVE servers' # <<>>
  <2>1. CASE StartSession
    BY <2>1, AppendProperties, NewServerType DEF StartSession, TypeOK
  <2>2. CASE ~StartSession
    BY <1>1, <1>2, <2>2, WhereRunGoes DEF Placed, runVars
  <2>3. QED BY <2>1, <2>2
<1>3. ASSUME pending' # <<>>, pending = <<>> PROVE servers # <<>>
  <2>1. CASE Control
    BY <1>3, <2>1, ControlActs, PublishActs, TypeParts
  <2>2. CASE Run
    BY <1>3, <2>2, RunActs, StopActs
       DEF StartSession, SessionEnds, Touched
  <2>3. CASE Callback
    BY <1>3, <2>3 DEF Callback, SnapshotReceived, SnapshotApplied, SnapshotAcked
  <2>4. CASE CancelContext \/ RequestTimesOut \/ RequestIsLate
    BY <1>3, <2>4 DEF CancelContext, RequestTimesOut, RequestIsLate, snapshotVars
  <2>5. CASE \E i \in DOMAIN servers : AssignmentServer(i)
    BY <1>3, <2>5, ServerActs DEF Touched
  <2>6. QED
    BY <2>1, <2>2, <2>3, <2>4, <2>5 DEF Next
<1>4. QED
  BY <1>1, <1>2, <1>3 DEF Placed

-----------------------------------------------------------------------------
(* Requests and the goodbye. *)

(* Every step preserves GoodbyeSent. *)
LEMMA FarewellStep ==
  ASSUME Farewell, GoodbyeSent, Next
  PROVE  Farewell' /\ GoodbyeSent'
<1> USE DEF Farewell, GoodbyeSent, runVars, requestVars
<1>1. CASE CancelContext \/ RequestTimesOut \/ RequestIsLate
  BY <1>1 DEF CancelContext, RequestTimesOut, RequestIsLate
<1>2. CASE Control \/ Callback
  BY <1>2, ControlActs, CallbackActs
<1>3. CASE Run
  <2>1. CASE Goodbye
    BY <2>1 DEF Goodbye, SendGoodbye, Request, LoopLeaves
  <2>2. CASE Register \/ Beat
    BY <2>2 DEF Register, Beat
  <2>3. CASE \/ Registered \/ RegisterFails \/ BackoffEnds \/ RegisterGivesUp
             \/ CreateFails \/ StartSession
    BY <2>3 DEF Registered, RegisterFails, BackoffEnds, RegisterGivesUp,
       CreateFails, StartSession
  <2>4. CASE BeatNot \/ BeatAnswered \/ Tick \/ SeeContext
    BY <2>4 DEF BeatNot, BeatAnswered, Tick, SeeContext
  <2>5. CASE Parted \/ StopServing \/ SessionEnds
    BY <2>5 DEF Parted, StopServing, SessionEnds, LoopLeaves, Returned
  <2>6. QED
    BY <1>3, <2>1, <2>2, <2>3, <2>4, <2>5 DEF Run
<1>4. CASE \E i \in DOMAIN servers : AssignmentServer(i)
  BY <1>4 DEF AssignmentServer, ServerServes, ServerStops, ServerReceives, ServerDecides,
     ServerReleases, Becomes
<1>5. QED
  BY <1>1, <1>2, <1>3, <1>4 DEF Next

(* A request is published when none is awaited. *)
LEMMA RequestIsAwaited ==
  ASSUME TypeOK, Requested, reply.code = "none",
         NEW type \in {"register", "heartbeat"}, NEW session, NEW draining,
         Request(type, session, draining)
  PROVE  /\ reply'.code = "pending"
         /\ \A i \in DOMAIN wire' : wire'[i].awaited =>
              i = Len(wire') /\ wire'[i].body.type = type
<1> DEFINE m == [type |-> type, session |-> session, draining |-> draining]
           e == [body |-> m, awaited |-> TRUE]
<1>1. reply'.code = "pending"
  BY DEF Request, NoReply
<1>2. \A i \in DOMAIN wire : ~wire[i].awaited
  BY DEF Requested
<1>3. CASE up
  <2>1. wire' = Append(wire, e)
    BY <1>3 DEF Request
  <2>2. /\ Len(wire') = Len(wire) + 1
        /\ DOMAIN wire' = 1..Len(wire') /\ DOMAIN wire = 1..Len(wire)
        /\ \A i \in 1..Len(wire) : wire'[i] = wire[i]
        /\ wire'[Len(wire) + 1] = e
        /\ Len(wire) \in Nat
    BY <2>1 DEF TypeOK
  <2>3. QED BY <1>1, <1>2, <2>2
<1>4. CASE ~up
  BY <1>1, <1>2, <1>4 DEF Request
<1>5. QED BY <1>3, <1>4

(* The rest of the wire, when its first request has been taken. *)
LEMMA WireTail ==
  ASSUME TypeOK, wire # <<>>, wire' = Tail(wire)
  PROVE  /\ 1 \in DOMAIN wire /\ Head(wire) = wire[1]
         /\ Len(wire') = Len(wire) - 1
         /\ \A i \in DOMAIN wire' : i + 1 \in DOMAIN wire /\ wire'[i] = wire[i + 1]
                                  /\ i \in Nat \ {0}
<1>1. wire \in Seq(Messages) /\ wire' \in Seq(Messages)
  BY HeadTailProperties DEF TypeOK, Messages
<1>2. /\ Len(wire) \in Nat \ {0} /\ DOMAIN wire = 1..Len(wire)
      /\ Len(wire') = Len(wire) - 1 /\ DOMAIN wire' = 1..Len(wire')
      /\ \A i \in 1..Len(wire') : wire'[i] = wire[i + 1]
  BY <1>1, EmptySeq, LenProperties, HeadTailProperties
<1>3. QED BY <1>1, <1>2

(* Every step preserves Requested. *)
LEMMA RequestedStep ==
  ASSUME TypeOK, Placed, Requested, Next
  PROVE  Requested'
<1> USE DEF Requested
<1>1. CASE CancelContext
  BY <1>1 DEF CancelContext, runVars, requestVars, controlVars
<1>2. CASE RequestTimesOut
  BY <1>2 DEF RequestTimesOut, Failure, Awaited, runVars
<1>3. CASE RequestIsLate
  <2>1. \A i \in DOMAIN wire' : ~wire'[i].awaited
    <3>1. wire \in Seq(Messages)
      BY DEF TypeOK, Messages
    <3>2. \A i \in DOMAIN wire : wire[i] \in Messages
      BY <3>1, Indices
    <3>3. QED BY <1>3, <3>2 DEF RequestIsLate, Messages
  <2>2. UNCHANGED pc /\ reply' = Failure /\ reply.code = "pending"
    BY <1>3 DEF RequestIsLate, runVars
  <2>3. QED BY <2>1, <2>2 DEF Failure
<1>4. CASE Control
  <2>1. UNCHANGED pc
    BY <1>4, ControlActs DEF runVars
  <2>2. ASSUME wire # <<>>, wire' = Tail(wire), UNCHANGED reply, reply.code = "pending"
        PROVE  Requested'
    BY <2>1, <2>2, WireTail
  <2>3. ASSUME wire # <<>>, wire' = Tail(wire), ~Head(wire).awaited, UNCHANGED reply,
               opened' \in Nat, opened' >= opened
        PROVE  Requested'
    <3>1. \A i \in DOMAIN wire' : wire'[i].awaited =>
            i = Len(wire') /\ (pc = "registering" => wire'[i].body.type = "register")
                           /\ reply.code = "pending"
      <4>1. ASSUME NEW i \in DOMAIN wire', wire'[i].awaited
            PROVE  /\ i = Len(wire') /\ reply.code = "pending"
                   /\ pc = "registering" => wire'[i].body.type = "register"
        <5>1. /\ i \in Nat /\ i + 1 \in DOMAIN wire /\ wire'[i] = wire[i + 1]
              /\ Len(wire') = Len(wire) - 1
          BY <2>3, WireTail
        <5>2. i + 1 = Len(wire)
          BY <4>1, <5>1
        <5>3. QED BY <4>1, <5>1, <5>2
      <4>2. QED BY <4>1
    <3>2. opened \in Nat
      BY DEF TypeOK
    <3>3. QED BY <2>1, <2>3, <3>1, <3>2
  <2>4. ASSUME wire # <<>>, wire' = Tail(wire), Head(wire).awaited,
               reply'.code # "none",
               pc = "registering" /\ reply'.code = "ok" => reply'.session \in 1..opened'
        PROVE  Requested'
    <3>1. reply.code = "pending" /\ Len(wire) = 1
      BY <2>4, WireTail
    <3>2. DOMAIN wire' = {}
      BY <2>4, <3>1, WireTail
    <3>3. QED BY <2>1, <2>4, <3>1, <3>2
  <2>5. CASE ControlRegisters
    <3>1. opened \in Nat /\ opened' = opened + 1
      BY <2>5 DEF ControlRegisters, TypeOK
    <3>2. CASE /\ Head(wire).awaited
               /\ reply' = [code |-> "ok", session |-> opened + 1]
      BY <2>4, <2>5, <3>1, <3>2 DEF ControlRegisters, Answers
    <3>3. CASE ~Head(wire).awaited /\ UNCHANGED reply
      BY <2>3, <2>5, <3>1, <3>3 DEF ControlRegisters, Answers
    <3>4. CASE Head(wire).awaited /\ UNCHANGED reply
      BY <2>2, <2>5, <3>4, WireTail DEF ControlRegisters, Answers
    <3>5. QED
      BY <2>5, <3>2, <3>3, <3>4 DEF ControlRegisters, Answers
  <2>6. CASE ControlTakesHeartbeat
    <3> DEFINE c == IF Head(wire).body.session = current THEN "ok" ELSE "rejected"
    <3>1. opened \in Nat /\ opened' = opened /\ c # "none"
      BY <2>6 DEF ControlTakesHeartbeat, TypeOK
    <3>2. CASE Head(wire).awaited /\ reply' = [code |-> c, session |-> 0]
      <4>1. pc # "registering"
        BY <2>6, <3>2, WireTail DEF ControlTakesHeartbeat, Answers
      <4>2. QED
        BY <2>4, <2>6, <3>1, <3>2, <4>1 DEF ControlTakesHeartbeat, Answers
    <3>3. CASE ~Head(wire).awaited /\ UNCHANGED reply
      BY <2>3, <2>6, <3>1, <3>3 DEF ControlTakesHeartbeat, Answers
    <3>4. CASE Head(wire).awaited /\ UNCHANGED reply
      BY <2>2, <2>6, <3>4, WireTail DEF ControlTakesHeartbeat, Answers
    <3>5. QED
      BY <2>6, <3>2, <3>3, <3>4 DEF ControlTakesHeartbeat, Answers
  <2>7. CASE ControlRefuses
    <3>1. wire # <<>>
      BY <2>7 DEF ControlRefuses, Awaited, TypeOK
    <3>2. QED
      BY <2>4, <2>7, <3>1 DEF ControlRefuses, Failure
  <2>8. CASE ControlFails
    <3>1. wire' = wire \/ DOMAIN wire' = {}
      BY <2>8 DEF ControlFails
    <3>2. QED
      BY <2>1, <2>8, <3>1 DEF ControlFails
  <2>9. CASE ControlRestarts
    BY <2>1, <2>9 DEF ControlRestarts, requestVars
  <2>10. CASE \E draining \in BOOLEAN : ControlPublishesSnapshot(draining)
    BY <2>1, <2>10 DEF ControlPublishesSnapshot, requestVars, controlVars
  <2>11. QED
    BY <1>4, <2>5, <2>6, <2>7, <2>8, <2>9, <2>10 DEF Control, ControlAnswers
<1>5. CASE Run
  <2>1. UNCHANGED opened
    BY <1>5, RunActs DEF controlVars
  <2>2. CASE Register
    BY <2>2, RequestIsAwaited DEF Register
  <2>3. CASE Beat
    BY <2>3, RequestIsAwaited DEF Beat
  <2>4. CASE Goodbye
    BY <2>4, RequestIsAwaited DEF Goodbye, SendGoodbye
  <2>5. CASE Registered \/ RegisterFails \/ BeatAnswered \/ Parted
    BY <2>5 DEF Registered, RegisterFails, BeatAnswered, Parted, Returned, NoReply
  <2>6. CASE \/ BackoffEnds \/ RegisterGivesUp \/ CreateFails \/ StartSession \/ BeatNot
             \/ Tick \/ SeeContext \/ StopServing \/ SessionEnds
    BY <2>6 DEF BackoffEnds, RegisterGivesUp, CreateFails, StartSession, BeatNot,
       Tick, SeeContext, StopServing, SessionEnds, requestVars
  <2>7. QED
    BY <1>5, <2>2, <2>3, <2>4, <2>5, <2>6 DEF Run
<1>6. CASE Callback
  BY <1>6, CallbackActs DEF requestVars, runVars, controlVars
<1>7. CASE \E i \in DOMAIN servers : AssignmentServer(i)
  BY <1>7, ServerActs DEF requestVars, runVars, controlVars
<1>8. QED
  BY <1>1, <1>2, <1>3, <1>4, <1>5, <1>6, <1>7 DEF Next

(* Every step preserves ReadyHonest. *)
LEMMA ReadyStep ==
  ASSUME TypeOK, Requested, ReadyHonest, Next
  PROVE  ReadyHonest'
<1> USE DEF ReadyHonest, runVars, controlVars
<1>1. opened \in Nat /\ sid \in Nat
  BY DEF TypeOK
<1>2. CASE CancelContext \/ RequestTimesOut \/ RequestIsLate
  BY <1>2 DEF CancelContext, RequestTimesOut, RequestIsLate
<1>3. CASE Control
  <2>1. opened' \in Nat /\ opened' >= opened
    <3>1. opened' \in {opened, opened + 1}
      BY <1>3 DEF Control, ControlAnswers, ControlRegisters, ControlTakesHeartbeat,
         ControlRefuses, ControlFails, ControlRestarts, ControlPublishesSnapshot
    <3>2. QED BY <1>1, <3>1
  <2>2. UNCHANGED <<pc, ready, sid, lost>>
    BY <1>3, ControlActs
  <2>3. sid \in 1..opened => sid' \in 1..opened'
    BY <1>1, <2>1, <2>2
  <2>4. QED BY <2>2, <2>3
<1>4. CASE Run
  <2>1. UNCHANGED opened
    BY <1>4, RunActs
  <2>2. CASE Registered
    BY <2>1, <2>2 DEF Registered, Returned, Requested
  <2>3. CASE Register \/ RegisterFails \/ BackoffEnds \/ RegisterGivesUp
    BY <2>1, <2>3 DEF Register, RegisterFails, BackoffEnds, RegisterGivesUp, RegisterLeaves
  <2>4. CASE CreateFails \/ SeeContext \/ SessionEnds
    BY <2>4 DEF CreateFails, SeeContext, SessionEnds, SetUnready
  <2>5. CASE StartSession \/ Beat \/ BeatNot \/ BeatAnswered \/ Tick
    BY <2>1, <2>5 DEF StartSession, Beat, BeatNot, BeatAnswered, Tick, LoopLeaves
  <2>6. CASE Goodbye \/ Parted \/ StopServing
    BY <2>1, <2>6 DEF Goodbye, Parted, StopServing, LoopLeaves
  <2>7. QED
    BY <1>4, <2>2, <2>3, <2>4, <2>5, <2>6 DEF Run
<1>5. CASE Callback
  BY <1>5, CallbackActs
<1>6. CASE \E i \in DOMAIN servers : AssignmentServer(i)
  BY <1>6, ServerActs
<1>7. QED
  BY <1>2, <1>3, <1>4, <1>5, <1>6 DEF Next

-----------------------------------------------------------------------------
(* Settings. *)

(* A session whose server and callback are left alone keeps its setting. *)
LEMMA AppliesKept ==
  ASSUME TypeOK, NEW i \in DOMAIN servers, Applies(i),
         callbacks'[i] = callbacks[i],
         Keeps(servers[i], servers'[i]),
         Len(settings') \in Nat, Len(settings') >= Len(settings),
         \A v \in DOMAIN settings : settings'[v] = settings[v]
  PROVE  Applies(i)'
<1> DEFINE c == callbacks[i]
<1>1. c \in Callbacks /\ DOMAIN settings = 1..Len(settings) /\ Len(settings) \in Nat
  BY CallbackOf, Indices DEF TypeOK
<1>2. c.got \in Nat /\ c.applied \in Nat /\ c.acked \in Nat
  BY <1>1 DEF Callbacks
<1>3. c.applied > 0 => settings'[c.applied] = settings[c.applied]
  BY <1>1, <1>2 DEF Applies
<1>4. QED
  BY <1>1, <1>2, <1>3 DEF Applies, Keeps

(* Every step preserves InForce. *)
LEMMA InForceStep ==
  ASSUME TypeOK, Placed, InForce, Next
  PROVE  InForce'
<1> DEFINE AllKept == /\ DOMAIN servers' = DOMAIN servers
                      /\ \A i \in DOMAIN servers : /\ callbacks'[i] = callbacks[i]
                                                  /\ Keeps(servers[i], servers'[i])
           MoreSettings == /\ Len(settings') \in Nat /\ Len(settings') >= Len(settings)
                           /\ \A v \in DOMAIN settings : settings'[v] = settings[v]
<1>1. \A i \in DOMAIN servers : Keeps(servers[i], servers[i])
  BY CallbackOf DEF Keeps
<1>2. UNCHANGED settings => MoreSettings
  BY Indices DEF TypeOK
<1>3. ASSUME AllKept, MoreSettings PROVE InForce'
  BY <1>3, AppliesKept DEF InForce
<1>4. ASSUME UNCHANGED <<servers, callbacks, settings>> PROVE InForce'
  BY <1>1, <1>2, <1>3, <1>4
<1>5. ASSUME NEW i, NEW sv, Touched(i, sv) PROVE InForce'
  <2>1. DOMAIN servers' = DOMAIN servers
    BY <1>5 DEF Touched
  <2>2. AllKept
    BY <1>1, <1>5, <2>1, TouchActs DEF Touched
  <2>3. QED BY <1>2, <1>3, <1>5, <2>2 DEF Touched
<1>6. ASSUME NEW k \in DOMAIN servers, NEW c, CallbackMoves(k, c), UNCHANGED servers,
             Applies(k)'
      PROVE  InForce'
  <2>1. ASSUME NEW j \in DOMAIN servers, j # k PROVE Applies(j)'
    BY <1>1, <1>2, <1>6, <2>1, MoveActs, AppliesKept DEF InForce, CallbackMoves
  <2>2. QED BY <1>6, <2>1 DEF InForce
<1>7. CASE CancelContext \/ RequestTimesOut \/ RequestIsLate
  BY <1>4, <1>7 DEF CancelContext, RequestTimesOut, RequestIsLate, snapshotVars
<1>8. CASE Control
  <2>1. CASE \E draining \in BOOLEAN : ControlPublishesSnapshot(draining)
    <3>1. PICK draining \in BOOLEAN : ControlPublishesSnapshot(draining)
      BY <2>1
    <3>2. MoreSettings
      BY <3>1, PublishActs, TypeParts, Indices DEF TypeOK
    <3>3. UNCHANGED <<servers, callbacks>>
      BY <1>8, ControlActs
    <3>4. QED BY <1>1, <1>3, <3>2, <3>3
  <2>2. CASE UNCHANGED settings
    BY <1>4, <1>8, <2>2, ControlActs
  <2>3. QED BY <1>8, <2>1, <2>2, ControlActs
<1>9. CASE StartSession
  <2>1. /\ Len(servers') = Len(servers) + 1
        /\ \A i \in DOMAIN servers : servers'[i] = servers[i] /\ callbacks'[i] = callbacks[i]
        /\ \E b \in BOOLEAN : callbacks'[Len(servers')] = NewCallback(b)
        /\ servers' \in Seq(Servers)
    BY <1>9, StartActs DEF ServerTypesOK
  <2>2. /\ DOMAIN servers = 1..Len(servers) /\ Len(servers) \in Nat
        /\ DOMAIN servers' = 1..Len(servers')
    BY <2>1, Indices DEF TypeOK
  <2>3. UNCHANGED settings
    BY <1>9 DEF StartSession
  <2>4. ASSUME NEW i \in DOMAIN servers PROVE Applies(i)'
    BY <1>1, <1>2, <2>1, <2>3, <2>4, AppliesKept DEF InForce
  <2>5. PICK n : n = Len(servers')
    OBVIOUS
  <2>6. Applies(n)'
    <3>1. Len(settings) \in Nat
      BY Indices DEF TypeOK
    <3>2. PICK b \in BOOLEAN : callbacks'[n] = NewCallback(b)
      BY <2>1, <2>5
    <3>3. QED BY <2>3, <3>1, <3>2 DEF Applies, NewCallback
  <2>7. QED BY <2>1, <2>2, <2>4, <2>5, <2>6 DEF InForce
<1>10. CASE SessionEnds
  <2> DEFINE k == Len(servers)
             c == [callbacks[k] EXCEPT !.subscribed = FALSE]
  <2>1. k \in DOMAIN servers /\ CallbackMoves(k, c) /\ UNCHANGED servers
    BY <1>10, EndActs DEF CallbackMoves
  <2>2. callbacks[k] \in Callbacks
    BY <2>1, CallbackOf
  <2>3. callbacks'[k] = c /\ UNCHANGED settings
    BY <2>1, MoveActs DEF CallbackMoves
  <2>4. Applies(k)'
    BY <2>1, <2>2, <2>3 DEF Applies, InForce, Callbacks
  <2>5. QED BY <1>6, <2>1, <2>4
<1>11. CASE Run
  BY <1>4, <1>5, <1>9, <1>10, <1>11, RunActs, StopActs
<1>12. CASE SnapshotReceived
  <2> DEFINE k == Len(servers)
             g == Head(pending)
             c == [callbacks[k] EXCEPT !.got = g]
  <2>1. /\ k \in DOMAIN servers /\ CallbackMoves(k, c) /\ UNCHANGED servers
        /\ callbacks[k].got = callbacks[k].acked /\ g \in DOMAIN settings
    BY <1>12, ReceiveActs, ReceiveMoves
  <2>2. callbacks[k] \in Callbacks /\ g \in 1..Len(settings) /\ Len(settings) \in Nat
    BY <2>1, CallbackOf, Indices DEF TypeOK
  <2>3. callbacks'[k] = c /\ UNCHANGED settings
    BY <2>1, MoveActs DEF CallbackMoves
  <2>4. Applies(k)'
    BY <2>1, <2>2, <2>3 DEF Applies, InForce, Callbacks
  <2>5. QED BY <1>6, <2>1, <2>4
<1>13. CASE \E i \in DOMAIN servers : SnapshotAcked(i)
  <2>1. PICK k \in DOMAIN servers : SnapshotAcked(k)
    BY <1>13
  <2> DEFINE c == [callbacks[k] EXCEPT !.acked = callbacks[k].applied]
  <2>2. CallbackMoves(k, c) /\ UNCHANGED servers /\ callbacks[k] \in Callbacks
    BY <2>1, AckMoves, CallbackOf
  <2>3. callbacks'[k] = c /\ UNCHANGED settings
    BY <2>2, MoveActs DEF CallbackMoves
  <2>4. Applies(k)'
    BY <2>2, <2>3 DEF Applies, InForce, Callbacks
  <2>5. QED BY <1>6, <2>2, <2>4
<1>14. CASE \E i \in DOMAIN servers : SnapshotApplied(i)
  <2>1. PICK k \in DOMAIN servers : SnapshotApplied(k)
    BY <1>14
  <2> DEFINE g == callbacks[k].got
             c == [callbacks[k] EXCEPT !.applied = g]
  <2>2. /\ CallbackMoves(k, c) /\ callbacks[k] \in Callbacks
        /\ g > callbacks[k].applied
        /\ servers'[k].draining = settings[g]
        /\ \A j \in DOMAIN servers : j # k => servers'[j] = servers[j]
        /\ DOMAIN servers' = DOMAIN servers
    BY <2>1, ApplyMoves, CallbackOf
  <2>3. callbacks'[k] = c /\ UNCHANGED settings
    BY <2>2, MoveActs DEF CallbackMoves
  <2>4. Applies(k)'
    BY <2>2, <2>3 DEF Applies, InForce, Callbacks
  <2>5. ASSUME NEW j \in DOMAIN servers, j # k PROVE Applies(j)'
    BY <1>1, <1>2, <2>2, <2>3, <2>5, MoveActs, AppliesKept DEF InForce
  <2>6. QED BY <2>2, <2>4, <2>5 DEF InForce
<1>15. CASE \E i \in DOMAIN servers : AssignmentServer(i)
  BY <1>5, <1>15, ServerActs
<1>16. QED
  BY <1>7, <1>8, <1>11, <1>12, <1>13, <1>14, <1>15 DEF Next, Callback

-----------------------------------------------------------------------------
(* Theorems. *)

(* The invariant is inductive. *)
LEMMA InvStep == Inv /\ [Next]_vars => Inv'
<1> SUFFICES ASSUME Inv, [Next]_vars PROVE Inv'
  OBVIOUS
<1>1. CASE Next
  <2>1. TypeOK' /\ Placed' /\ OneServes' /\ AllSettled'
    BY <1>1, TypeStep, PlacedStep, SessionStep, SettledStep DEF Inv
  <2>2. Farewell' /\ GoodbyeSent' /\ Requested' /\ ReadyHonest' /\ InForce'
    BY <1>1, FarewellStep, RequestedStep, ReadyStep, InForceStep DEF Inv
  <2>3. QED BY <2>1, <2>2 DEF Inv
<1>2. CASE UNCHANGED vars
  <2> USE <1>2 DEF vars, runVars, requestVars, controlVars, snapshotVars
  <2>1. TypeOK'
    BY DEF Inv, TypeOK
  <2>2. /\ Placed' /\ OneServes' /\ AllSettled'
        /\ Farewell' /\ GoodbyeSent' /\ ReadyHonest'
    BY DEF Inv, Placed, OneServes, Serving, AllSettled, Farewell, GoodbyeSent, ReadyHonest
  <2>3. Requested' /\ InForce'
    BY DEF Inv, Requested, InForce, Applies
  <2>4. QED BY <2>1, <2>2, <2>3 DEF Inv
<1>3. QED BY <1>1, <1>2

(* The invariant holds in every reachable state. *)
LEMMA Invariance == Spec => []Inv
BY InitInv, InvStep, PTL DEF Spec

(* The variables of the runtime, of Control and of the servers keep their   *)
(* types: no session runs without the server and the callback it needs.     *)
THEOREM TypeCorrect == Spec => []TypeOK
<1>1. Inv => TypeOK
  BY DEF Inv
<1>2. QED BY <1>1, Invariance, PTL

(* However often Control forgets the worker, Run leaves a session only when *)
(* its Serve has ended, and when that did not fail at once, with at most    *)
(* one assignment of the session still to be answered or to finish.         *)
THEOREM PastSessionsAreDrained == Spec => []PastSessionsDrained
<1>1. Inv => PastSessionsDrained
  <2> SUFFICES ASSUME Inv, NEW i \in Past
               PROVE  \/ servers[i].phase = "failed"
                      \/ servers[i].phase = "returned" /\ Left(servers[i]) <= 1
    BY DEF PastSessionsDrained
  <2>1. i \in DOMAIN servers /\ (i # Len(servers) \/ pc \in Resting)
    <3>1. i \in DOMAIN servers /\ (i < Len(servers) \/ pc \in Resting)
      BY DEF Past, Resting
    <3>2. DOMAIN servers = 1..Len(servers) /\ Len(servers) \in Nat
      BY Indices DEF Inv, TypeOK
    <3>3. QED BY <3>1, <3>2
  <2>2. servers[i].phase \in Over
    BY <2>1 DEF Inv, OneServes, Serving
  <2>3. Settled(servers[i])
    BY <2>1 DEF Inv, AllSettled
  <2>4. QED BY <2>2, <2>3 DEF Over, Settled
<1>2. QED BY <1>1, Invariance, PTL

(* A session that ends with the context of Run has sent a draining          *)
(* heartbeat, and has sent nothing after it.                                *)
THEOREM SaysGoodbye == Spec => []GoodbyeSent
<1>1. Inv => GoodbyeSent
  BY DEF Inv
<1>2. QED BY <1>1, Invariance, PTL

(* Ready means a session that Control has opened and the worker has not     *)
(* left: late and lost replies never make up a session.                     *)
THEOREM HonestlyReady == Spec => []ReadyHonest
<1>1. Inv => ReadyHonest
  BY DEF Inv
<1>2. QED BY <1>1, Invariance, PTL

(* What a session has acknowledged is in force at its server until it is    *)
(* told to stop.                                                            *)
THEOREM SettingHolds == Spec => []SettingInForce
<1>1. Inv => SettingInForce
  <2> SUFFICES ASSUME Inv, NEW i \in DOMAIN servers,
                      servers[i].phase \in {"starting", "serving"},
                      callbacks[i].acked > 0, callbacks[i].acked = callbacks[i].got
               PROVE  servers[i].draining = settings[callbacks[i].acked]
    BY DEF SettingInForce
  <2>1. callbacks[i] \in Callbacks
    BY CallbackOf DEF Inv
  <2>2. Applies(i)
    BY DEF Inv, InForce
  <2>3. callbacks[i].applied = callbacks[i].acked
    BY <2>1, <2>2 DEF Applies, Callbacks
  <2>4. QED BY <2>2, <2>3 DEF Applies, Early
<1>2. QED BY <1>1, Invariance, PTL
=============================================================================
