---------------------------- MODULE WorkerProofs ----------------------------
(***************************************************************************)
(* Proofs about Worker, for any number of assignments and request ids and  *)
(* any MaxConcurrency.                                                     *)
(***************************************************************************)
EXTENDS Worker, FiniteSetTheorems, TLAPS

USE WorkerAssumption
    DEF muVars, handlerVars, serveVars, requestVars, queueVars,
        RejectionReturns, StreamUndone, CountRequest, KeepCancel, DropCancel,
        CallDoomed, SeesDrained

-----------------------------------------------------------------------------
(* The inductive invariant. *)

(* A message is known to Control, the subscription, the handler or its       *)
(* request goroutine, and to one of them at a time.                          *)
QueueInv ==
  /\ hpc = "idle" <=> hmsg = None
  /\ \A m \in Assignment : rpc[m] # "none" \/ hmsg = m => m \in sent
  /\ hmsg # None => rpc[hmsg] = "none"
  /\ \A i \in 1..Len(inbox) :
       inbox[i] \in sent /\ rpc[inbox[i]] = "none" /\ inbox[i] # hmsg
  /\ \A i, j \in 1..Len(inbox) : inbox[i] = inbox[j] => i = j

(* TypeOK without the counters. *)
ShapeOK ==
  /\ kind \in [Assignment -> Kinds]
  /\ sent \subseteq Assignment
  /\ draining \in BOOLEAN
  /\ cancels \in [RequestId -> Assignment \cup {None}]
  /\ subscribed \in BOOLEAN
  /\ inbox \in Seq(Assignment)
  /\ hmsg \in Assignment \cup {None}
  /\ hpc \in HandlerPc
  /\ answer \in [Assignment -> Code \cup {"none"}]
  /\ c2e \in [Assignment -> BOOLEAN]
  /\ rpc \in [Assignment -> RequestPc]
  /\ ctxDone \in [Assignment -> BOOLEAN]
  /\ stop \in BOOLEAN
  /\ spc \in ServePc
  /\ drained \in BOOLEAN
  /\ doomed \subseteq Assignment

(* The counters count; the values they have are natural numbers for that.    *)
CountInv ==
  /\ active = Cardinality(Live)
  /\ wg = Cardinality(Executing)

(* There is room for what the handler has admitted: only the handler takes   *)
(* places, so what it read under mu can only have become better since.       *)
RoomInv ==
  MaxConcurrency > 0 =>
    /\ active <= MaxConcurrency
    /\ hpc \in {"admitted", "prepared"} => active < MaxConcurrency

(* What has been answered, against where the message is.                     *)
AnswerInv ==
  /\ \A m \in Assignment : m \notin sent => answer[m] = "none"
  /\ \A i \in 1..Len(inbox) : answer[inbox[i]] = "none"
  /\ hmsg # None =>
       answer[hmsg] = IF hpc = "acked" THEN "ACCEPTED" ELSE "none"
  /\ \A m \in Assignment : rpc[m] # "none" => answer[m] = "ACCEPTED"

Busy(m) == m \in Executing \/ hmsg = m

(* Once Serve has unsubscribed no message reaches the handler any more, and  *)
(* once wg.Wait has returned at most the one it has is left.                 *)
DrainInv ==
  /\ spc \notin {"flushing", "serving", "unsubscribing"} => ~subscribed
  /\ ~subscribed => inbox = <<>>
  /\ drained => spc \in {"waiting", "abandoning", "abandoned", "returned"}
  /\ spc = "returned" => drained
  /\ drained => \A m, n \in Assignment : Busy(m) /\ Busy(n) => m = n

IndInv ==
  /\ ShapeOK
  /\ QueueInv
  /\ CountInv
  /\ RoomInv
  /\ AnswerInv
  /\ DrainInv
  /\ StreamOpenWhileAccepted
  /\ CancelsAreLive

-----------------------------------------------------------------------------
LEMMA EmptyInbox == <<>> \in Seq(Assignment)
OBVIOUS

LEMMA ShapeStep ==
  ASSUME ShapeOK, QueueInv, [Next]_vars
  PROVE  ShapeOK'
<1> USE DEF ShapeOK, QueueInv, HandlerPc, RequestPc, ServePc, Code
<1>1. ASSUME NEW m \in Assignment, Publish(m) PROVE ShapeOK'
  BY <1>1 DEF Publish
<1>2. ASSUME NEW m \in Assignment, DeadlinePasses(m) PROVE ShapeOK'
  BY <1>2 DEF DeadlinePasses
<1>3. ASSUME NEW d \in BOOLEAN, SetDraining(d) PROVE ShapeOK'
  BY <1>3 DEF SetDraining
<1>4. ASSUME CloseStop PROVE ShapeOK'
  BY <1>4 DEF CloseStop
<1>5. ASSUME Receive PROVE ShapeOK'
  BY <1>5 DEF Receive
<1>6. ASSUME RejectAssign PROVE ShapeOK'
  BY <1>6 DEF RejectAssign, EvaluateAssignment, Reply, HandlerReturns
<1>7. ASSUME AdmitAssign PROVE ShapeOK'
  BY <1>7 DEF AdmitAssign
<1>8. ASSUME PrepareRequestStreamFails PROVE ShapeOK'
  BY <1>8 DEF PrepareRequestStreamFails, Reply, HandlerReturns
<1>9. ASSUME PrepareRequestStream PROVE ShapeOK'
  BY <1>9 DEF PrepareRequestStream
<1>10. ASSUME Reserve PROVE ShapeOK'
  BY <1>10 DEF Reserve
<1>11. ASSUME AckAccepted PROVE ShapeOK'
  BY <1>11 DEF AckAccepted, Reply
<1>12. ASSUME Spawn PROVE ShapeOK'
  BY <1>12 DEF Spawn, HandlerReturns
<1>13. ASSUME NEW m \in Assignment, RequestReturns(m) PROVE ShapeOK'
  BY <1>13 DEF RequestReturns
<1>14. ASSUME NEW m \in Assignment, Release(m) PROVE ShapeOK'
  BY <1>14 DEF Release
<1>15. ASSUME NEW m \in Assignment, RequestDone(m) PROVE ShapeOK'
  BY <1>15 DEF RequestDone
<1>16. ASSUME ServeSubscribe PROVE ShapeOK'
  BY <1>16 DEF ServeSubscribe
<1>17. ASSUME ServeFlush PROVE ShapeOK'
  BY <1>17, EmptyInbox DEF ServeFlush, Unsubscribe
<1>18. ASSUME ServeStops PROVE ShapeOK'
  BY <1>18 DEF ServeStops
<1>19. ASSUME ServeUnsubscribe PROVE ShapeOK'
  BY <1>19, EmptyInbox DEF ServeUnsubscribe, Unsubscribe
<1>20. ASSUME WaitReturns PROVE ShapeOK'
  BY <1>20 DEF WaitReturns, Draining
<1>21. ASSUME DrainTimeout PROVE ShapeOK'
  BY <1>21 DEF DrainTimeout
<1>22. ASSUME AbandonInFlight PROVE ShapeOK'
  BY <1>22 DEF AbandonInFlight
<1>23. ASSUME ServeReturns PROVE ShapeOK'
  BY <1>23 DEF ServeReturns
<1>24. CASE UNCHANGED vars
  BY <1>24 DEF vars
<1>25. QED
  BY <1>1, <1>2, <1>3, <1>4, <1>5, <1>6, <1>7, <1>8, <1>9, <1>10, <1>11, <1>12, <1>13, <1>14, <1>15, <1>16, <1>17, <1>18, <1>19, <1>20, <1>21, <1>22, <1>23, <1>24
     DEF Next, Environment, Handler, Request, Serve

LEMMA QueueStep ==
  ASSUME ShapeOK, QueueInv, [Next]_vars
  PROVE  QueueInv'
<1> USE DEF ShapeOK, QueueInv, HandlerPc
<1>1. ASSUME NEW m \in Assignment, Publish(m) PROVE QueueInv'
  BY <1>1 DEF Publish
<1>2. ASSUME NEW m \in Assignment, DeadlinePasses(m) PROVE QueueInv'
  BY <1>2 DEF DeadlinePasses
<1>3. ASSUME NEW d \in BOOLEAN, SetDraining(d) PROVE QueueInv'
  BY <1>3 DEF SetDraining
<1>4. ASSUME CloseStop PROVE QueueInv'
  BY <1>4 DEF CloseStop
<1>5. ASSUME Receive PROVE QueueInv'
  BY <1>5 DEF Receive
<1>6. ASSUME RejectAssign PROVE QueueInv'
  BY <1>6 DEF RejectAssign, Reply, HandlerReturns
<1>7. ASSUME AdmitAssign PROVE QueueInv'
  BY <1>7 DEF AdmitAssign
<1>8. ASSUME PrepareRequestStreamFails PROVE QueueInv'
  BY <1>8 DEF PrepareRequestStreamFails, Reply, HandlerReturns
<1>9. ASSUME PrepareRequestStream PROVE QueueInv'
  BY <1>9 DEF PrepareRequestStream
<1>10. ASSUME Reserve PROVE QueueInv'
  BY <1>10 DEF Reserve
<1>11. ASSUME AckAccepted PROVE QueueInv'
  BY <1>11 DEF AckAccepted, Reply
<1>12. ASSUME Spawn PROVE QueueInv'
  BY <1>12 DEF Spawn, HandlerReturns
<1>13. ASSUME NEW m \in Assignment, RequestReturns(m) PROVE QueueInv'
  BY <1>13 DEF RequestReturns
<1>14. ASSUME NEW m \in Assignment, Release(m) PROVE QueueInv'
  BY <1>14 DEF Release
<1>15. ASSUME NEW m \in Assignment, RequestDone(m) PROVE QueueInv'
  BY <1>15 DEF RequestDone
<1>16. ASSUME ServeSubscribe PROVE QueueInv'
  BY <1>16 DEF ServeSubscribe
<1>17. ASSUME ServeFlush PROVE QueueInv'
  BY <1>17 DEF ServeFlush, Unsubscribe
<1>18. ASSUME ServeStops PROVE QueueInv'
  BY <1>18 DEF ServeStops
<1>19. ASSUME ServeUnsubscribe PROVE QueueInv'
  BY <1>19 DEF ServeUnsubscribe, Unsubscribe
<1>20. ASSUME WaitReturns PROVE QueueInv'
  BY <1>20 DEF WaitReturns, Draining
<1>21. ASSUME DrainTimeout PROVE QueueInv'
  BY <1>21 DEF DrainTimeout
<1>22. ASSUME AbandonInFlight PROVE QueueInv'
  BY <1>22 DEF AbandonInFlight
<1>23. ASSUME ServeReturns PROVE QueueInv'
  BY <1>23 DEF ServeReturns
<1>24. CASE UNCHANGED vars
  BY <1>24 DEF vars
<1>25. QED
  BY <1>1, <1>2, <1>3, <1>4, <1>5, <1>6, <1>7, <1>8, <1>9, <1>10, <1>11, <1>12, <1>13, <1>14, <1>15, <1>16, <1>17, <1>18, <1>19, <1>20, <1>21, <1>22, <1>23, <1>24
     DEF Next, Environment, Handler, Request, Serve

(* How a step changes the set of assignments that hold a place. *)
KeepsPlaces == Live' = Live /\ active' = active

TakesPlace ==
  /\ hmsg \in Assignment \ Live
  /\ Live' = Live \cup {hmsg}
  /\ active' = active + 1

GivesPlace ==
  \E m \in Live : Live' = Live \ {m} /\ active' = active - 1

(* Only Reserve takes a place, and only Release gives one back. *)
LEMMA PlaceStep ==
  ASSUME ShapeOK, QueueInv, [Next]_vars
  PROVE  \/ KeepsPlaces
         \/ TakesPlace /\ Reserve
         \/ GivesPlace /\ \E m \in Assignment : Release(m)
<1> DEFINE Goal == \/ KeepsPlaces
                   \/ TakesPlace /\ Reserve
                   \/ GivesPlace /\ \E m \in Assignment : Release(m)
<1> USE DEF ShapeOK, QueueInv
<1>1. ASSUME NEW m \in Assignment, Publish(m) PROVE Goal
  BY <1>1 DEF Publish, KeepsPlaces, Live, Reserving
<1>2. ASSUME NEW m \in Assignment, DeadlinePasses(m) PROVE Goal
  BY <1>2 DEF DeadlinePasses, KeepsPlaces, Live, Reserving
<1>3. ASSUME NEW d \in BOOLEAN, SetDraining(d) PROVE Goal
  BY <1>3 DEF SetDraining, KeepsPlaces, Live, Reserving
<1>4. ASSUME CloseStop PROVE Goal
  BY <1>4 DEF CloseStop, KeepsPlaces, Live, Reserving
<1>5. ASSUME Receive PROVE Goal
  BY <1>5 DEF Receive, KeepsPlaces, Live, Reserving
<1>6. ASSUME RejectAssign PROVE Goal
  BY <1>6 DEF RejectAssign, Reply, HandlerReturns, KeepsPlaces, Live, Reserving
<1>7. ASSUME AdmitAssign PROVE Goal
  BY <1>7 DEF AdmitAssign, KeepsPlaces, Live, Reserving
<1>8. ASSUME PrepareRequestStreamFails PROVE Goal
  BY <1>8 DEF PrepareRequestStreamFails, Reply, HandlerReturns, KeepsPlaces, Live, Reserving
<1>9. ASSUME PrepareRequestStream PROVE Goal
  BY <1>9 DEF PrepareRequestStream, KeepsPlaces, Live, Reserving
<1>10. ASSUME Reserve PROVE Goal
  BY <1>10 DEF Reserve, TakesPlace, Live, Reserving
<1>11. ASSUME AckAccepted PROVE Goal
  BY <1>11 DEF AckAccepted, Reply, KeepsPlaces, Live, Reserving
<1>12. ASSUME Spawn PROVE Goal
  BY <1>12 DEF Spawn, HandlerReturns, KeepsPlaces, Live, Reserving
<1>13. ASSUME NEW m \in Assignment, RequestReturns(m) PROVE Goal
  BY <1>13 DEF RequestReturns, KeepsPlaces, Live, Reserving
<1>14. ASSUME NEW m \in Assignment, Release(m) PROVE Goal
  <2>1. m \in Live /\ Live' = Live \ {m} /\ active' = active - 1
    BY <1>14 DEF Release, Live, Reserving
  <2>2. QED BY <2>1, <1>14 DEF GivesPlace
<1>15. ASSUME NEW m \in Assignment, RequestDone(m) PROVE Goal
  BY <1>15 DEF RequestDone, KeepsPlaces, Live, Reserving
<1>16. ASSUME ServeSubscribe PROVE Goal
  BY <1>16 DEF ServeSubscribe, KeepsPlaces, Live, Reserving
<1>17. ASSUME ServeFlush PROVE Goal
  BY <1>17 DEF ServeFlush, Unsubscribe, KeepsPlaces, Live, Reserving
<1>18. ASSUME ServeStops PROVE Goal
  BY <1>18 DEF ServeStops, KeepsPlaces, Live, Reserving
<1>19. ASSUME ServeUnsubscribe PROVE Goal
  BY <1>19 DEF ServeUnsubscribe, Unsubscribe, KeepsPlaces, Live, Reserving
<1>20. ASSUME WaitReturns PROVE Goal
  BY <1>20 DEF WaitReturns, Draining, KeepsPlaces, Live, Reserving
<1>21. ASSUME DrainTimeout PROVE Goal
  BY <1>21 DEF DrainTimeout, KeepsPlaces, Live, Reserving
<1>22. ASSUME AbandonInFlight PROVE Goal
  BY <1>22 DEF AbandonInFlight, KeepsPlaces, Live, Reserving
<1>23. ASSUME ServeReturns PROVE Goal
  BY <1>23 DEF ServeReturns, KeepsPlaces, Live, Reserving
<1>24. CASE UNCHANGED vars
  BY <1>24 DEF vars, KeepsPlaces, Live, Reserving
<1>25. QED
  BY <1>1, <1>2, <1>3, <1>4, <1>5, <1>6, <1>7, <1>8, <1>9, <1>10, <1>11, <1>12, <1>13, <1>14, <1>15, <1>16, <1>17, <1>18, <1>19, <1>20, <1>21, <1>22, <1>23, <1>24
     DEF Next, Environment, Handler, Request, Serve

(* How a step changes the set of assignments whose goroutine has not ended. *)
KeepsGoroutines == Executing' = Executing /\ wg' = wg

StartsGoroutine ==
  /\ hmsg \in Assignment \ Executing
  /\ Executing' = Executing \cup {hmsg}
  /\ wg' = wg + 1

EndsGoroutine ==
  \E m \in Executing : Executing' = Executing \ {m} /\ wg' = wg - 1

(* Only Spawn starts a goroutine, and only RequestDone ends one. *)
LEMMA GoroutineStep ==
  ASSUME ShapeOK, QueueInv, [Next]_vars
  PROVE  KeepsGoroutines \/ StartsGoroutine \/ EndsGoroutine
<1> DEFINE Goal == KeepsGoroutines \/ StartsGoroutine \/ EndsGoroutine
<1> USE DEF ShapeOK, QueueInv
<1>1. ASSUME NEW m \in Assignment, Publish(m) PROVE Goal
  BY <1>1 DEF Publish, KeepsGoroutines, Executing
<1>2. ASSUME NEW m \in Assignment, DeadlinePasses(m) PROVE Goal
  BY <1>2 DEF DeadlinePasses, KeepsGoroutines, Executing
<1>3. ASSUME NEW d \in BOOLEAN, SetDraining(d) PROVE Goal
  BY <1>3 DEF SetDraining, KeepsGoroutines, Executing
<1>4. ASSUME CloseStop PROVE Goal
  BY <1>4 DEF CloseStop, KeepsGoroutines, Executing
<1>5. ASSUME Receive PROVE Goal
  BY <1>5 DEF Receive, KeepsGoroutines, Executing
<1>6. ASSUME RejectAssign PROVE Goal
  BY <1>6 DEF RejectAssign, Reply, HandlerReturns, KeepsGoroutines, Executing
<1>7. ASSUME AdmitAssign PROVE Goal
  BY <1>7 DEF AdmitAssign, KeepsGoroutines, Executing
<1>8. ASSUME PrepareRequestStreamFails PROVE Goal
  BY <1>8 DEF PrepareRequestStreamFails, Reply, HandlerReturns, KeepsGoroutines, Executing
<1>9. ASSUME PrepareRequestStream PROVE Goal
  BY <1>9 DEF PrepareRequestStream, KeepsGoroutines, Executing
<1>10. ASSUME Reserve PROVE Goal
  BY <1>10 DEF Reserve, KeepsGoroutines, Executing
<1>11. ASSUME AckAccepted PROVE Goal
  BY <1>11 DEF AckAccepted, Reply, KeepsGoroutines, Executing
<1>12. ASSUME Spawn PROVE Goal
  BY <1>12 DEF Spawn, HandlerReturns, StartsGoroutine, Executing
<1>13. ASSUME NEW m \in Assignment, RequestReturns(m) PROVE Goal
  BY <1>13 DEF RequestReturns, KeepsGoroutines, Executing
<1>14. ASSUME NEW m \in Assignment, Release(m) PROVE Goal
  BY <1>14 DEF Release, KeepsGoroutines, Executing
<1>15. ASSUME NEW m \in Assignment, RequestDone(m) PROVE Goal
  <2>1. m \in Executing /\ Executing' = Executing \ {m} /\ wg' = wg - 1
    BY <1>15 DEF RequestDone, Executing
  <2>2. QED BY <2>1 DEF EndsGoroutine
<1>16. ASSUME ServeSubscribe PROVE Goal
  BY <1>16 DEF ServeSubscribe, KeepsGoroutines, Executing
<1>17. ASSUME ServeFlush PROVE Goal
  BY <1>17 DEF ServeFlush, Unsubscribe, KeepsGoroutines, Executing
<1>18. ASSUME ServeStops PROVE Goal
  BY <1>18 DEF ServeStops, KeepsGoroutines, Executing
<1>19. ASSUME ServeUnsubscribe PROVE Goal
  BY <1>19 DEF ServeUnsubscribe, Unsubscribe, KeepsGoroutines, Executing
<1>20. ASSUME WaitReturns PROVE Goal
  BY <1>20 DEF WaitReturns, Draining, KeepsGoroutines, Executing
<1>21. ASSUME DrainTimeout PROVE Goal
  BY <1>21 DEF DrainTimeout, KeepsGoroutines, Executing
<1>22. ASSUME AbandonInFlight PROVE Goal
  BY <1>22 DEF AbandonInFlight, KeepsGoroutines, Executing
<1>23. ASSUME ServeReturns PROVE Goal
  BY <1>23 DEF ServeReturns, KeepsGoroutines, Executing
<1>24. CASE UNCHANGED vars
  BY <1>24 DEF vars, KeepsGoroutines, Executing
<1>25. QED
  BY <1>1, <1>2, <1>3, <1>4, <1>5, <1>6, <1>7, <1>8, <1>9, <1>10, <1>11, <1>12, <1>13, <1>14, <1>15, <1>16, <1>17, <1>18, <1>19, <1>20, <1>21, <1>22, <1>23, <1>24
     DEF Next, Environment, Handler, Request, Serve

LEMMA PlacesFinite ==
  /\ IsFiniteSet(Live) /\ Cardinality(Live) \in Nat
  /\ IsFiniteSet(Executing) /\ Cardinality(Executing) \in Nat
<1>1. Live \in SUBSET Assignment /\ Executing \in SUBSET Assignment
  BY DEF Live, Executing
<1>2. QED
  BY <1>1, FS_Subset, FS_CardinalityType

LEMMA CountStep ==
  ASSUME ShapeOK, QueueInv, CountInv, [Next]_vars
  PROVE  CountInv'
<1>1. active' = Cardinality(Live')
  <2>1. CASE KeepsPlaces
    BY <2>1 DEF KeepsPlaces, CountInv
  <2>2. CASE TakesPlace
    BY <2>2, PlacesFinite, FS_AddElement DEF TakesPlace, CountInv
  <2>3. CASE GivesPlace
    BY <2>3, PlacesFinite, FS_RemoveElement DEF GivesPlace, CountInv
  <2>4. QED BY <2>1, <2>2, <2>3, PlaceStep
<1>2. wg' = Cardinality(Executing')
  <2>1. CASE KeepsGoroutines
    BY <2>1 DEF KeepsGoroutines, CountInv
  <2>2. CASE StartsGoroutine
    BY <2>2, PlacesFinite, FS_AddElement DEF StartsGoroutine, CountInv
  <2>3. CASE EndsGoroutine
    BY <2>3, PlacesFinite, FS_RemoveElement DEF EndsGoroutine, CountInv
  <2>4. QED BY <2>1, <2>2, <2>3, GoroutineStep
<1>3. QED BY <1>1, <1>2 DEF CountInv

LEMMA RoomStep ==
  ASSUME ShapeOK, QueueInv, CountInv, RoomInv, [Next]_vars
  PROVE  RoomInv'
<1>1. active \in Nat
  BY PlacesFinite DEF CountInv
<1> USE <1>1 DEF ShapeOK, RoomInv
<1>2. ASSUME NEW m \in Assignment, Publish(m) PROVE RoomInv'
  BY <1>2 DEF Publish
<1>3. ASSUME NEW m \in Assignment, DeadlinePasses(m) PROVE RoomInv'
  BY <1>3 DEF DeadlinePasses
<1>4. ASSUME NEW d \in BOOLEAN, SetDraining(d) PROVE RoomInv'
  BY <1>4 DEF SetDraining
<1>5. ASSUME CloseStop PROVE RoomInv'
  BY <1>5 DEF CloseStop
<1>6. ASSUME Receive PROVE RoomInv'
  BY <1>6 DEF Receive
<1>7. ASSUME RejectAssign PROVE RoomInv'
  BY <1>7 DEF RejectAssign, Reply, HandlerReturns
<1>8. ASSUME AdmitAssign PROVE RoomInv'
  BY <1>8 DEF AdmitAssign, EvaluateAssignment, HasCapacity, SnapshotCapacity
<1>9. ASSUME PrepareRequestStreamFails PROVE RoomInv'
  BY <1>9 DEF PrepareRequestStreamFails, Reply, HandlerReturns
<1>10. ASSUME PrepareRequestStream PROVE RoomInv'
  BY <1>10 DEF PrepareRequestStream
<1>11. ASSUME Reserve PROVE RoomInv'
  BY <1>11 DEF Reserve
<1>12. ASSUME AckAccepted PROVE RoomInv'
  BY <1>12 DEF AckAccepted, Reply
<1>13. ASSUME Spawn PROVE RoomInv'
  BY <1>13 DEF Spawn, HandlerReturns
<1>14. ASSUME NEW m \in Assignment, RequestReturns(m) PROVE RoomInv'
  BY <1>14 DEF RequestReturns
<1>15. ASSUME NEW m \in Assignment, Release(m) PROVE RoomInv'
  BY <1>15 DEF Release
<1>16. ASSUME NEW m \in Assignment, RequestDone(m) PROVE RoomInv'
  BY <1>16 DEF RequestDone
<1>17. ASSUME ServeSubscribe PROVE RoomInv'
  BY <1>17 DEF ServeSubscribe
<1>18. ASSUME ServeFlush PROVE RoomInv'
  BY <1>18 DEF ServeFlush, Unsubscribe
<1>19. ASSUME ServeStops PROVE RoomInv'
  BY <1>19 DEF ServeStops
<1>20. ASSUME ServeUnsubscribe PROVE RoomInv'
  BY <1>20 DEF ServeUnsubscribe, Unsubscribe
<1>21. ASSUME WaitReturns PROVE RoomInv'
  BY <1>21 DEF WaitReturns, Draining
<1>22. ASSUME DrainTimeout PROVE RoomInv'
  BY <1>22 DEF DrainTimeout
<1>23. ASSUME AbandonInFlight PROVE RoomInv'
  BY <1>23 DEF AbandonInFlight
<1>24. ASSUME ServeReturns PROVE RoomInv'
  BY <1>24 DEF ServeReturns
<1>25. CASE UNCHANGED vars
  BY <1>25 DEF vars
<1>26. QED
  BY <1>2, <1>3, <1>4, <1>5, <1>6, <1>7, <1>8, <1>9, <1>10, <1>11, <1>12, <1>13, <1>14, <1>15, <1>16, <1>17, <1>18, <1>19, <1>20, <1>21, <1>22, <1>23, <1>24, <1>25
     DEF Next, Environment, Handler, Request, Serve

LEMMA AnswerStep ==
  ASSUME ShapeOK, QueueInv, AnswerInv, [Next]_vars
  PROVE  AnswerInv'
<1> USE DEF ShapeOK, QueueInv, AnswerInv
<1>1. ASSUME NEW m \in Assignment, Publish(m) PROVE AnswerInv'
  BY <1>1 DEF Publish
<1>2. ASSUME NEW m \in Assignment, DeadlinePasses(m) PROVE AnswerInv'
  BY <1>2 DEF DeadlinePasses
<1>3. ASSUME NEW d \in BOOLEAN, SetDraining(d) PROVE AnswerInv'
  BY <1>3 DEF SetDraining
<1>4. ASSUME CloseStop PROVE AnswerInv'
  BY <1>4 DEF CloseStop
<1>5. ASSUME Receive PROVE AnswerInv'
  BY <1>5 DEF Receive
<1>6. ASSUME RejectAssign PROVE AnswerInv'
  BY <1>6 DEF RejectAssign, Reply, HandlerReturns
<1>7. ASSUME AdmitAssign PROVE AnswerInv'
  BY <1>7 DEF AdmitAssign
<1>8. ASSUME PrepareRequestStreamFails PROVE AnswerInv'
  BY <1>8 DEF PrepareRequestStreamFails, Reply, HandlerReturns
<1>9. ASSUME PrepareRequestStream PROVE AnswerInv'
  BY <1>9 DEF PrepareRequestStream
<1>10. ASSUME Reserve PROVE AnswerInv'
  BY <1>10 DEF Reserve
<1>11. ASSUME AckAccepted PROVE AnswerInv'
  BY <1>11 DEF AckAccepted, Reply
<1>12. ASSUME Spawn PROVE AnswerInv'
  BY <1>12 DEF Spawn, HandlerReturns
<1>13. ASSUME NEW m \in Assignment, RequestReturns(m) PROVE AnswerInv'
  BY <1>13 DEF RequestReturns
<1>14. ASSUME NEW m \in Assignment, Release(m) PROVE AnswerInv'
  BY <1>14 DEF Release
<1>15. ASSUME NEW m \in Assignment, RequestDone(m) PROVE AnswerInv'
  BY <1>15 DEF RequestDone
<1>16. ASSUME ServeSubscribe PROVE AnswerInv'
  BY <1>16 DEF ServeSubscribe
<1>17. ASSUME ServeFlush PROVE AnswerInv'
  BY <1>17 DEF ServeFlush, Unsubscribe
<1>18. ASSUME ServeStops PROVE AnswerInv'
  BY <1>18 DEF ServeStops
<1>19. ASSUME ServeUnsubscribe PROVE AnswerInv'
  BY <1>19 DEF ServeUnsubscribe, Unsubscribe
<1>20. ASSUME WaitReturns PROVE AnswerInv'
  BY <1>20 DEF WaitReturns, Draining
<1>21. ASSUME DrainTimeout PROVE AnswerInv'
  BY <1>21 DEF DrainTimeout
<1>22. ASSUME AbandonInFlight PROVE AnswerInv'
  BY <1>22 DEF AbandonInFlight
<1>23. ASSUME ServeReturns PROVE AnswerInv'
  BY <1>23 DEF ServeReturns
<1>24. CASE UNCHANGED vars
  BY <1>24 DEF vars
<1>25. QED
  BY <1>1, <1>2, <1>3, <1>4, <1>5, <1>6, <1>7, <1>8, <1>9, <1>10, <1>11, <1>12, <1>13, <1>14, <1>15, <1>16, <1>17, <1>18, <1>19, <1>20, <1>21, <1>22, <1>23, <1>24
     DEF Next, Environment, Handler, Request, Serve

LEMMA StreamStep ==
  ASSUME ShapeOK, QueueInv, StreamOpenWhileAccepted, [Next]_vars
  PROVE  StreamOpenWhileAccepted'
<1> USE DEF ShapeOK, QueueInv, StreamOpenWhileAccepted, Executing
<1>1. ASSUME NEW m \in Assignment, Publish(m) PROVE StreamOpenWhileAccepted'
  BY <1>1 DEF Publish
<1>2. ASSUME NEW m \in Assignment, DeadlinePasses(m) PROVE StreamOpenWhileAccepted'
  BY <1>2 DEF DeadlinePasses
<1>3. ASSUME NEW d \in BOOLEAN, SetDraining(d) PROVE StreamOpenWhileAccepted'
  BY <1>3 DEF SetDraining
<1>4. ASSUME CloseStop PROVE StreamOpenWhileAccepted'
  BY <1>4 DEF CloseStop
<1>5. ASSUME Receive PROVE StreamOpenWhileAccepted'
  BY <1>5 DEF Receive
<1>6. ASSUME RejectAssign PROVE StreamOpenWhileAccepted'
  BY <1>6 DEF RejectAssign, Reply, HandlerReturns
<1>7. ASSUME AdmitAssign PROVE StreamOpenWhileAccepted'
  BY <1>7 DEF AdmitAssign
<1>8. ASSUME PrepareRequestStreamFails PROVE StreamOpenWhileAccepted'
  BY <1>8 DEF PrepareRequestStreamFails, Reply, HandlerReturns
<1>9. ASSUME PrepareRequestStream PROVE StreamOpenWhileAccepted'
  BY <1>9 DEF PrepareRequestStream
<1>10. ASSUME Reserve PROVE StreamOpenWhileAccepted'
  BY <1>10 DEF Reserve
<1>11. ASSUME AckAccepted PROVE StreamOpenWhileAccepted'
  BY <1>11 DEF AckAccepted, Reply
<1>12. ASSUME Spawn PROVE StreamOpenWhileAccepted'
  BY <1>12 DEF Spawn, HandlerReturns
<1>13. ASSUME NEW m \in Assignment, RequestReturns(m) PROVE StreamOpenWhileAccepted'
  BY <1>13 DEF RequestReturns
<1>14. ASSUME NEW m \in Assignment, Release(m) PROVE StreamOpenWhileAccepted'
  BY <1>14 DEF Release
<1>15. ASSUME NEW m \in Assignment, RequestDone(m) PROVE StreamOpenWhileAccepted'
  BY <1>15 DEF RequestDone
<1>16. ASSUME ServeSubscribe PROVE StreamOpenWhileAccepted'
  BY <1>16 DEF ServeSubscribe
<1>17. ASSUME ServeFlush PROVE StreamOpenWhileAccepted'
  BY <1>17 DEF ServeFlush, Unsubscribe
<1>18. ASSUME ServeStops PROVE StreamOpenWhileAccepted'
  BY <1>18 DEF ServeStops
<1>19. ASSUME ServeUnsubscribe PROVE StreamOpenWhileAccepted'
  BY <1>19 DEF ServeUnsubscribe, Unsubscribe
<1>20. ASSUME WaitReturns PROVE StreamOpenWhileAccepted'
  BY <1>20 DEF WaitReturns, Draining
<1>21. ASSUME DrainTimeout PROVE StreamOpenWhileAccepted'
  BY <1>21 DEF DrainTimeout
<1>22. ASSUME AbandonInFlight PROVE StreamOpenWhileAccepted'
  BY <1>22 DEF AbandonInFlight
<1>23. ASSUME ServeReturns PROVE StreamOpenWhileAccepted'
  BY <1>23 DEF ServeReturns
<1>24. CASE UNCHANGED vars
  BY <1>24 DEF vars
<1>25. QED
  BY <1>1, <1>2, <1>3, <1>4, <1>5, <1>6, <1>7, <1>8, <1>9, <1>10, <1>11, <1>12, <1>13, <1>14, <1>15, <1>16, <1>17, <1>18, <1>19, <1>20, <1>21, <1>22, <1>23, <1>24
     DEF Next, Environment, Handler, Request, Serve

LEMMA CancelStep ==
  ASSUME ShapeOK, QueueInv, CancelsAreLive, [Next]_vars
  PROVE  CancelsAreLive'
<1> USE DEF ShapeOK, QueueInv, CancelsAreLive, Live, Reserving
<1>1. ASSUME NEW m \in Assignment, Publish(m) PROVE CancelsAreLive'
  BY <1>1 DEF Publish
<1>2. ASSUME NEW m \in Assignment, DeadlinePasses(m) PROVE CancelsAreLive'
  BY <1>2 DEF DeadlinePasses
<1>3. ASSUME NEW d \in BOOLEAN, SetDraining(d) PROVE CancelsAreLive'
  BY <1>3 DEF SetDraining
<1>4. ASSUME CloseStop PROVE CancelsAreLive'
  BY <1>4 DEF CloseStop
<1>5. ASSUME Receive PROVE CancelsAreLive'
  BY <1>5 DEF Receive
<1>6. ASSUME RejectAssign PROVE CancelsAreLive'
  BY <1>6 DEF RejectAssign, Reply, HandlerReturns
<1>7. ASSUME AdmitAssign PROVE CancelsAreLive'
  BY <1>7 DEF AdmitAssign
<1>8. ASSUME PrepareRequestStreamFails PROVE CancelsAreLive'
  BY <1>8 DEF PrepareRequestStreamFails, Reply, HandlerReturns
<1>9. ASSUME PrepareRequestStream PROVE CancelsAreLive'
  BY <1>9 DEF PrepareRequestStream
<1>10. ASSUME Reserve PROVE CancelsAreLive'
  BY <1>10 DEF Reserve
<1>11. ASSUME AckAccepted PROVE CancelsAreLive'
  BY <1>11 DEF AckAccepted, Reply
<1>12. ASSUME Spawn PROVE CancelsAreLive'
  BY <1>12 DEF Spawn, HandlerReturns
<1>13. ASSUME NEW m \in Assignment, RequestReturns(m) PROVE CancelsAreLive'
  BY <1>13 DEF RequestReturns
<1>14. ASSUME NEW m \in Assignment, Release(m) PROVE CancelsAreLive'
  BY <1>14 DEF Release
<1>15. ASSUME NEW m \in Assignment, RequestDone(m) PROVE CancelsAreLive'
  BY <1>15 DEF RequestDone
<1>16. ASSUME ServeSubscribe PROVE CancelsAreLive'
  BY <1>16 DEF ServeSubscribe
<1>17. ASSUME ServeFlush PROVE CancelsAreLive'
  BY <1>17 DEF ServeFlush, Unsubscribe
<1>18. ASSUME ServeStops PROVE CancelsAreLive'
  BY <1>18 DEF ServeStops
<1>19. ASSUME ServeUnsubscribe PROVE CancelsAreLive'
  BY <1>19 DEF ServeUnsubscribe, Unsubscribe
<1>20. ASSUME WaitReturns PROVE CancelsAreLive'
  BY <1>20 DEF WaitReturns, Draining
<1>21. ASSUME DrainTimeout PROVE CancelsAreLive'
  BY <1>21 DEF DrainTimeout
<1>22. ASSUME AbandonInFlight PROVE CancelsAreLive'
  BY <1>22 DEF AbandonInFlight
<1>23. ASSUME ServeReturns PROVE CancelsAreLive'
  BY <1>23 DEF ServeReturns
<1>24. CASE UNCHANGED vars
  BY <1>24 DEF vars
<1>25. QED
  BY <1>1, <1>2, <1>3, <1>4, <1>5, <1>6, <1>7, <1>8, <1>9, <1>10, <1>11, <1>12, <1>13, <1>14, <1>15, <1>16, <1>17, <1>18, <1>19, <1>20, <1>21, <1>22, <1>23, <1>24
     DEF Next, Environment, Handler, Request, Serve

LEMMA DrainStep ==
  ASSUME ShapeOK, QueueInv, CountInv, DrainInv, [Next]_vars
  PROVE  DrainInv'
<1> USE DEF ShapeOK, QueueInv, DrainInv, Busy, Executing
<1>1. ASSUME NEW m \in Assignment, Publish(m) PROVE DrainInv'
  BY <1>1 DEF Publish
<1>2. ASSUME NEW m \in Assignment, DeadlinePasses(m) PROVE DrainInv'
  BY <1>2 DEF DeadlinePasses
<1>3. ASSUME NEW d \in BOOLEAN, SetDraining(d) PROVE DrainInv'
  BY <1>3 DEF SetDraining
<1>4. ASSUME CloseStop PROVE DrainInv'
  BY <1>4 DEF CloseStop
<1>5. ASSUME Receive PROVE DrainInv'
  BY <1>5 DEF Receive
<1>6. ASSUME RejectAssign PROVE DrainInv'
  BY <1>6 DEF RejectAssign, Reply, HandlerReturns
<1>7. ASSUME AdmitAssign PROVE DrainInv'
  BY <1>7 DEF AdmitAssign
<1>8. ASSUME PrepareRequestStreamFails PROVE DrainInv'
  BY <1>8 DEF PrepareRequestStreamFails, Reply, HandlerReturns
<1>9. ASSUME PrepareRequestStream PROVE DrainInv'
  BY <1>9 DEF PrepareRequestStream
<1>10. ASSUME Reserve PROVE DrainInv'
  BY <1>10 DEF Reserve
<1>11. ASSUME AckAccepted PROVE DrainInv'
  BY <1>11 DEF AckAccepted, Reply
<1>12. ASSUME Spawn PROVE DrainInv'
  BY <1>12 DEF Spawn, HandlerReturns
<1>13. ASSUME NEW m \in Assignment, RequestReturns(m) PROVE DrainInv'
  BY <1>13 DEF RequestReturns
<1>14. ASSUME NEW m \in Assignment, Release(m) PROVE DrainInv'
  BY <1>14 DEF Release
<1>15. ASSUME NEW m \in Assignment, RequestDone(m) PROVE DrainInv'
  BY <1>15 DEF RequestDone
<1>16. ASSUME ServeSubscribe PROVE DrainInv'
  BY <1>16 DEF ServeSubscribe
<1>17. ASSUME ServeFlush PROVE DrainInv'
  BY <1>17 DEF ServeFlush, Unsubscribe
<1>18. ASSUME ServeStops PROVE DrainInv'
  BY <1>18 DEF ServeStops
<1>19. ASSUME ServeUnsubscribe PROVE DrainInv'
  BY <1>19 DEF ServeUnsubscribe, Unsubscribe
<1>20. ASSUME WaitReturns PROVE DrainInv'
  <2>1. Executing = {}
    BY <1>20, PlacesFinite, FS_EmptySet DEF WaitReturns, CountInv
  <2>2. QED BY <2>1, <1>20 DEF WaitReturns, Draining
<1>21. ASSUME DrainTimeout PROVE DrainInv'
  BY <1>21 DEF DrainTimeout
<1>22. ASSUME AbandonInFlight PROVE DrainInv'
  BY <1>22 DEF AbandonInFlight
<1>23. ASSUME ServeReturns PROVE DrainInv'
  BY <1>23 DEF ServeReturns
<1>24. CASE UNCHANGED vars
  BY <1>24 DEF vars
<1>25. QED
  BY <1>1, <1>2, <1>3, <1>4, <1>5, <1>6, <1>7, <1>8, <1>9, <1>10, <1>11, <1>12, <1>13, <1>14, <1>15, <1>16, <1>17, <1>18, <1>19, <1>20, <1>21, <1>22, <1>23, <1>24
     DEF Next, Environment, Handler, Request, Serve

LEMMA InitInv == Init => IndInv
<1> SUFFICES ASSUME Init PROVE IndInv
  OBVIOUS
<1> USE DEF Init
<1>1. ShapeOK
  BY EmptyInbox DEF ShapeOK, HandlerPc, RequestPc, ServePc, Code
<1>2. Live = {} /\ Executing = {}
  BY DEF Live, Reserving, Executing
<1>3. CountInv
  BY <1>2, FS_EmptySet DEF CountInv
<1>4. QueueInv /\ RoomInv /\ AnswerInv
  BY DEF QueueInv, RoomInv, AnswerInv
<1>5. DrainInv
  BY DEF DrainInv
<1>6. StreamOpenWhileAccepted /\ CancelsAreLive
  BY <1>2 DEF StreamOpenWhileAccepted, CancelsAreLive
<1>7. QED BY <1>1, <1>3, <1>4, <1>5, <1>6 DEF IndInv

LEMMA NextInv == IndInv /\ [Next]_vars => IndInv'
BY ShapeStep, QueueStep, CountStep, RoomStep, AnswerStep, DrainStep,
   StreamStep, CancelStep DEF IndInv

(* The invariant holds in every state of every behaviour. *)
THEOREM Invariance == Spec => []IndInv
BY InitInv, NextInv, PTL DEF Spec

-----------------------------------------------------------------------------
(* The worker's properties. *)

(* Every variable keeps its type: in particular Worker.active, an unsigned   *)
(* counter, never goes below zero.                                           *)
THEOREM TypeCorrect == Spec => []TypeOK
<1>1. IndInv => TypeOK
  BY PlacesFinite DEF IndInv, ShapeOK, CountInv, TypeOK
<1>2. QED BY <1>1, Invariance, PTL

(* ActiveRequests counts the assignments that hold a place, and there are    *)
(* never more of them than MaxConcurrency.                                   *)
THEOREM CapacitySafe == Spec => []CapacityRespected
<1>1. IndInv => CapacityRespected
  BY DEF IndInv, CountInv, RoomInv, CapacityRespected
<1>2. QED BY <1>1, Invariance, PTL

(* The stream subscription is open for as long as Control may use it, and no *)
(* longer than the request.                                                  *)
THEOREM StreamsSafe == Spec => []StreamOpenWhileAccepted
BY Invariance, PTL DEF IndInv

(* The cancels that draining calls are those of requests that hold a place.  *)
THEOREM CancelsSafe == Spec => []CancelsAreLive
BY Invariance, PTL DEF IndInv

(* At most one request outlives Serve.                                       *)
THEOREM StragglerSafe == Spec => []AtMostOneStraggler
<1>1. IndInv => AtMostOneStraggler
  <2> SUFFICES ASSUME IndInv, spc = "returned"
               PROVE  Cardinality(Executing \cup {m \in Assignment : hmsg = m}) <= 1
    BY DEF AtMostOneStraggler
  <2> DEFINE S == Executing \cup {m \in Assignment : hmsg = m}
  <2>1. \A m, n \in S : m = n
    BY DEF IndInv, DrainInv, Busy, Executing
  <2>2. CASE S = {}
    BY <2>2, FS_EmptySet
  <2>3. CASE S # {}
    <3>1. PICK x \in S : TRUE
      BY <2>3
    <3>2. S = {x}
      BY <2>1, <3>1
    <3>3. QED BY <3>2, FS_Singleton
  <2>4. QED BY <2>2, <2>3
<1>2. QED BY <1>1, Invariance, PTL

-----------------------------------------------------------------------------
(* The refinement of AdmissionContract. *)

(* The handler has a message of its own. *)
LEMMA Handling ==
  ASSUME IndInv, hpc # "idle"
  PROVE  /\ hmsg \in Assignment /\ rpc[hmsg] = "none"
         /\ hpc # "acked" => answer[hmsg] = "none"
BY DEF IndInv, ShapeOK, QueueInv, AnswerInv

(* Only the handler answers, and only the message it has. *)
AnswersMessage ==
  /\ hpc \in {"received", "admitted", "reserved"}
  /\ \E code : answer' = [answer EXCEPT ![hmsg] = code]

LEMMA AnswerChange ==
  ASSUME [Next]_vars
  PROVE  answer' = answer \/ AnswersMessage
<1> DEFINE Goal == answer' = answer \/ AnswersMessage
<1>1. ASSUME NEW m \in Assignment, Publish(m) PROVE Goal
  BY <1>1 DEF Publish, AnswersMessage
<1>2. ASSUME NEW m \in Assignment, DeadlinePasses(m) PROVE Goal
  BY <1>2 DEF DeadlinePasses, AnswersMessage
<1>3. ASSUME NEW d \in BOOLEAN, SetDraining(d) PROVE Goal
  BY <1>3 DEF SetDraining, AnswersMessage
<1>4. ASSUME CloseStop PROVE Goal
  BY <1>4 DEF CloseStop, AnswersMessage
<1>5. ASSUME Receive PROVE Goal
  BY <1>5 DEF Receive, AnswersMessage
<1>6. ASSUME RejectAssign PROVE Goal
  BY <1>6 DEF RejectAssign, Reply, HandlerReturns, AnswersMessage
<1>7. ASSUME AdmitAssign PROVE Goal
  BY <1>7 DEF AdmitAssign, AnswersMessage
<1>8. ASSUME PrepareRequestStreamFails PROVE Goal
  BY <1>8 DEF PrepareRequestStreamFails, Reply, HandlerReturns, AnswersMessage
<1>9. ASSUME PrepareRequestStream PROVE Goal
  BY <1>9 DEF PrepareRequestStream, AnswersMessage
<1>10. ASSUME Reserve PROVE Goal
  BY <1>10 DEF Reserve, AnswersMessage
<1>11. ASSUME AckAccepted PROVE Goal
  BY <1>11 DEF AckAccepted, Reply, AnswersMessage
<1>12. ASSUME Spawn PROVE Goal
  BY <1>12 DEF Spawn, HandlerReturns, AnswersMessage
<1>13. ASSUME NEW m \in Assignment, RequestReturns(m) PROVE Goal
  BY <1>13 DEF RequestReturns, AnswersMessage
<1>14. ASSUME NEW m \in Assignment, Release(m) PROVE Goal
  BY <1>14 DEF Release, AnswersMessage
<1>15. ASSUME NEW m \in Assignment, RequestDone(m) PROVE Goal
  BY <1>15 DEF RequestDone, AnswersMessage
<1>16. ASSUME ServeSubscribe PROVE Goal
  BY <1>16 DEF ServeSubscribe, AnswersMessage
<1>17. ASSUME ServeFlush PROVE Goal
  BY <1>17 DEF ServeFlush, Unsubscribe, AnswersMessage
<1>18. ASSUME ServeStops PROVE Goal
  BY <1>18 DEF ServeStops, AnswersMessage
<1>19. ASSUME ServeUnsubscribe PROVE Goal
  BY <1>19 DEF ServeUnsubscribe, Unsubscribe, AnswersMessage
<1>20. ASSUME WaitReturns PROVE Goal
  BY <1>20 DEF WaitReturns, Draining, AnswersMessage
<1>21. ASSUME DrainTimeout PROVE Goal
  BY <1>21 DEF DrainTimeout, AnswersMessage
<1>22. ASSUME AbandonInFlight PROVE Goal
  BY <1>22 DEF AbandonInFlight, AnswersMessage
<1>23. ASSUME ServeReturns PROVE Goal
  BY <1>23 DEF ServeReturns, AnswersMessage
<1>24. CASE UNCHANGED vars
  BY <1>24 DEF vars, AnswersMessage
<1>25. QED
  BY <1>1, <1>2, <1>3, <1>4, <1>5, <1>6, <1>7, <1>8, <1>9, <1>10, <1>11, <1>12, <1>13, <1>14, <1>15, <1>16, <1>17, <1>18, <1>19, <1>20, <1>21, <1>22, <1>23, <1>24
     DEF Next, Environment, Handler, Request, Serve

(* An assignment is answered once, and only an accepted one is executed.     *)
THEOREM AnsweredOnceHolds == Spec => AnsweredOnce
<1> DEFINE A == \A m \in Assignment :
                  answer[m] # "none" =>
                    /\ answer'[m] = answer[m]
                    /\ rpc'[m] # "none" => answer[m] = "ACCEPTED"
<1>1. ASSUME IndInv, IndInv', [Next]_vars PROVE A
  <2>1. ASSUME NEW m \in Assignment, answer[m] # "none"
        PROVE  answer'[m] = answer[m]
    <3>1. CASE AnswersMessage
      <4>1. hmsg # m
        BY <1>1, <2>1, <3>1, Handling DEF AnswersMessage
      <4>2. answer \in [Assignment -> Code \cup {"none"}]
        BY <1>1 DEF IndInv, ShapeOK
      <4>3. QED BY <3>1, <4>1, <4>2 DEF AnswersMessage
    <3>2. QED BY <1>1, <3>1, AnswerChange
  <2>2. QED BY <1>1, <2>1 DEF IndInv, AnswerInv
<1>2. QED BY <1>1, Invariance, PTL DEF Spec, AnsweredOnce

StatusesKept == \A m \in Assignment : StatusOf(m)' = StatusOf(m)

StatusMoves(m, from, to) ==
  /\ StatusOf(m) = from
  /\ StatusOf(m)' = to
  /\ \A n \in Assignment \ {m} : StatusOf(n)' = StatusOf(n)

(* How a step changes what the contract sees of the assignments. *)
StatusChange ==
  \/ StatusesKept
  \/ \E m \in Assignment : StatusMoves(m, "offered", "rejected")
  \/ Reserve /\ \E m \in Assignment : StatusMoves(m, "offered", "executing")
  \/ \E m \in Assignment : StatusMoves(m, "executing", "finished")

LEMMA RejectMovesStatus ==
  ASSUME IndInv, RejectAssign \/ PrepareRequestStreamFails
  PROVE  \E m \in Assignment : StatusMoves(m, "offered", "rejected")
<1>1. PICK m \in Assignment : m = hmsg /\ rpc[m] = "none" /\ answer[m] = "none"
  BY Handling DEF RejectAssign, PrepareRequestStreamFails
<1>2. PICK code \in Code \ {"ACCEPTED"} : answer' = [answer EXCEPT ![m] = code]
  BY <1>1 DEF RejectAssign, EvaluateAssignment, PrepareRequestStreamFails, Reply, Code
<1>3. rpc' = rpc /\ Live' = Live /\ m \notin Live
  BY <1>1 DEF RejectAssign, PrepareRequestStreamFails, HandlerReturns, Live, Reserving
<1>4. answer \in [Assignment -> Code \cup {"none"}]
  BY DEF IndInv, ShapeOK
<1>5. StatusOf(m) = "offered" /\ StatusOf(m)' = "rejected"
  BY <1>1, <1>2, <1>3, <1>4 DEF StatusOf, Code
<1>6. ASSUME NEW n \in Assignment \ {m} PROVE StatusOf(n)' = StatusOf(n)
  BY <1>2, <1>3, <1>4 DEF StatusOf
<1>7. QED BY <1>5, <1>6 DEF StatusMoves

LEMMA StatusStep ==
  ASSUME IndInv, [Next]_vars
  PROVE  StatusChange
<1> USE DEF IndInv, ShapeOK, QueueInv, AnswerInv
<1>1. ASSUME NEW m \in Assignment, Publish(m) PROVE StatusChange
  BY <1>1 DEF Publish, StatusChange, StatusesKept, StatusOf, Live, Reserving
<1>2. ASSUME NEW m \in Assignment, DeadlinePasses(m) PROVE StatusChange
  BY <1>2 DEF DeadlinePasses, StatusChange, StatusesKept, StatusOf, Live, Reserving
<1>3. ASSUME NEW d \in BOOLEAN, SetDraining(d) PROVE StatusChange
  BY <1>3 DEF SetDraining, StatusChange, StatusesKept, StatusOf, Live, Reserving
<1>4. ASSUME CloseStop PROVE StatusChange
  BY <1>4 DEF CloseStop, StatusChange, StatusesKept, StatusOf, Live, Reserving
<1>5. ASSUME Receive PROVE StatusChange
  BY <1>5 DEF Receive, StatusChange, StatusesKept, StatusOf, Live, Reserving
<1>6. ASSUME RejectAssign PROVE StatusChange
  BY <1>6, RejectMovesStatus DEF StatusChange
<1>7. ASSUME AdmitAssign PROVE StatusChange
  BY <1>7 DEF AdmitAssign, StatusChange, StatusesKept, StatusOf, Live, Reserving
<1>8. ASSUME PrepareRequestStreamFails PROVE StatusChange
  BY <1>8, RejectMovesStatus DEF StatusChange
<1>9. ASSUME PrepareRequestStream PROVE StatusChange
  BY <1>9 DEF PrepareRequestStream, StatusChange, StatusesKept, StatusOf, Live, Reserving
<1>10. ASSUME Reserve PROVE StatusChange
  <2>1. StatusMoves(hmsg, "offered", "executing")
    BY <1>10 DEF Reserve, StatusMoves, StatusOf, Live, Reserving
  <2>2. QED BY <2>1, <1>10 DEF StatusChange, Reserve
<1>11. ASSUME AckAccepted PROVE StatusChange
  BY <1>11 DEF AckAccepted, Reply, StatusChange, StatusesKept, StatusOf, Live, Reserving
<1>12. ASSUME Spawn PROVE StatusChange
  BY <1>12 DEF Spawn, HandlerReturns, StatusChange, StatusesKept, StatusOf, Live, Reserving
<1>13. ASSUME NEW m \in Assignment, RequestReturns(m) PROVE StatusChange
  BY <1>13 DEF RequestReturns, StatusChange, StatusesKept, StatusOf, Live, Reserving
<1>14. ASSUME NEW m \in Assignment, Release(m) PROVE StatusChange
  <2>1. StatusMoves(m, "executing", "finished")
    BY <1>14 DEF Release, StatusMoves, StatusOf, Live, Reserving
  <2>2. QED BY <2>1 DEF StatusChange
<1>15. ASSUME NEW m \in Assignment, RequestDone(m) PROVE StatusChange
  BY <1>15 DEF RequestDone, StatusChange, StatusesKept, StatusOf, Live, Reserving
<1>16. ASSUME ServeSubscribe PROVE StatusChange
  BY <1>16 DEF ServeSubscribe, StatusChange, StatusesKept, StatusOf, Live, Reserving
<1>17. ASSUME ServeFlush PROVE StatusChange
  BY <1>17 DEF ServeFlush, Unsubscribe, StatusChange, StatusesKept, StatusOf, Live, Reserving
<1>18. ASSUME ServeStops PROVE StatusChange
  BY <1>18 DEF ServeStops, StatusChange, StatusesKept, StatusOf, Live, Reserving
<1>19. ASSUME ServeUnsubscribe PROVE StatusChange
  BY <1>19 DEF ServeUnsubscribe, Unsubscribe, StatusChange, StatusesKept, StatusOf, Live, Reserving
<1>20. ASSUME WaitReturns PROVE StatusChange
  BY <1>20 DEF WaitReturns, Draining, StatusChange, StatusesKept, StatusOf, Live, Reserving
<1>21. ASSUME DrainTimeout PROVE StatusChange
  BY <1>21 DEF DrainTimeout, StatusChange, StatusesKept, StatusOf, Live, Reserving
<1>22. ASSUME AbandonInFlight PROVE StatusChange
  BY <1>22 DEF AbandonInFlight, StatusChange, StatusesKept, StatusOf, Live, Reserving
<1>23. ASSUME ServeReturns PROVE StatusChange
  BY <1>23 DEF ServeReturns, StatusChange, StatusesKept, StatusOf, Live, Reserving
<1>24. CASE UNCHANGED vars
  BY <1>24 DEF vars, StatusChange, StatusesKept, StatusOf, Live, Reserving
<1>25. QED
  BY <1>1, <1>2, <1>3, <1>4, <1>5, <1>6, <1>7, <1>8, <1>9, <1>10, <1>11, <1>12, <1>13, <1>14, <1>15, <1>16, <1>17, <1>18, <1>19, <1>20, <1>21, <1>22, <1>23, <1>24
     DEF Next, Environment, Handler, Request, Serve

(* The worker implements AdmissionContract. *)
THEOREM Refinement == Spec => ImplementsContract
<1> DEFINE status == [m \in Assignment |-> StatusOf(m)]
<1>1. Init => Contract!Init
  BY DEF Init, Contract!Init, StatusOf, Live, Reserving
<1>2. Contract!Executing = Live
  BY DEF Contract!Executing, StatusOf, Live
<1>3. ASSUME IndInv, [Next]_vars PROVE [Contract!Next]_status
  <2>1. CASE StatusesKept
    BY <2>1 DEF StatusesKept
  <2>2. ASSUME NEW m \in Assignment, StatusMoves(m, "offered", "rejected")
        PROVE  Contract!Reject(m)
    BY <2>2 DEF StatusMoves, Contract!Reject, Contract!Move
  <2>3. ASSUME NEW m \in Assignment, StatusMoves(m, "offered", "executing"), Reserve
        PROVE  Contract!Accept(m)
    <3>1. MaxConcurrency = 0 \/ Cardinality(Live) < MaxConcurrency
      BY <1>2, <1>3, <2>3 DEF IndInv, CountInv, RoomInv, Reserve
    <3>2. status[m] = "offered" /\ status' = [status EXCEPT ![m] = "executing"]
      BY <2>3 DEF StatusMoves
    <3>3. Contract!Cardinality(Live) = Cardinality(Live)
      BY Zenon DEF Contract!Cardinality, Cardinality
    <3>4. QED
      BY <1>2, <3>1, <3>2, <3>3 DEF Contract!Accept, Contract!Move
  <2>4. ASSUME NEW m \in Assignment, StatusMoves(m, "executing", "finished")
        PROVE  Contract!Finish(m)
    BY <2>4 DEF StatusMoves, Contract!Finish, Contract!Move
  <2>5. QED
    BY <1>3, <2>1, <2>2, <2>3, <2>4, StatusStep DEF StatusChange, Contract!Next
<1>4. QED
  BY <1>1, <1>3, Invariance, PTL DEF Spec, ImplementsContract, Contract!Spec

-----------------------------------------------------------------------------
(* Cancelling. *)

(* An assignment that holds a place was sent, so whoever overwrites or       *)
(* deletes its cancel is another assignment, sent under the same id.         *)
LEMMA CancellableStep ==
  ASSUME ShapeOK, QueueInv, EveryLiveRequestCancellable, [Next]_vars
  PROVE  EveryLiveRequestCancellable'
<1> USE DEF ShapeOK, QueueInv, EveryLiveRequestCancellable, HasOwnId, Live, Reserving
<1>1. ASSUME NEW m \in Assignment, Publish(m) PROVE EveryLiveRequestCancellable'
  BY <1>1 DEF Publish
<1>2. ASSUME NEW m \in Assignment, DeadlinePasses(m) PROVE EveryLiveRequestCancellable'
  BY <1>2 DEF DeadlinePasses
<1>3. ASSUME NEW d \in BOOLEAN, SetDraining(d) PROVE EveryLiveRequestCancellable'
  BY <1>3 DEF SetDraining
<1>4. ASSUME CloseStop PROVE EveryLiveRequestCancellable'
  BY <1>4 DEF CloseStop
<1>5. ASSUME Receive PROVE EveryLiveRequestCancellable'
  BY <1>5 DEF Receive
<1>6. ASSUME RejectAssign PROVE EveryLiveRequestCancellable'
  BY <1>6 DEF RejectAssign, Reply, HandlerReturns
<1>7. ASSUME AdmitAssign PROVE EveryLiveRequestCancellable'
  BY <1>7 DEF AdmitAssign
<1>8. ASSUME PrepareRequestStreamFails PROVE EveryLiveRequestCancellable'
  BY <1>8 DEF PrepareRequestStreamFails, Reply, HandlerReturns
<1>9. ASSUME PrepareRequestStream PROVE EveryLiveRequestCancellable'
  BY <1>9 DEF PrepareRequestStream
<1>10. ASSUME Reserve PROVE EveryLiveRequestCancellable'
  BY <1>10 DEF Reserve
<1>11. ASSUME AckAccepted PROVE EveryLiveRequestCancellable'
  BY <1>11 DEF AckAccepted, Reply
<1>12. ASSUME Spawn PROVE EveryLiveRequestCancellable'
  BY <1>12 DEF Spawn, HandlerReturns
<1>13. ASSUME NEW m \in Assignment, RequestReturns(m) PROVE EveryLiveRequestCancellable'
  BY <1>13 DEF RequestReturns
<1>14. ASSUME NEW m \in Assignment, Release(m) PROVE EveryLiveRequestCancellable'
  BY <1>14 DEF Release
<1>15. ASSUME NEW m \in Assignment, RequestDone(m) PROVE EveryLiveRequestCancellable'
  BY <1>15 DEF RequestDone
<1>16. ASSUME ServeSubscribe PROVE EveryLiveRequestCancellable'
  BY <1>16 DEF ServeSubscribe
<1>17. ASSUME ServeFlush PROVE EveryLiveRequestCancellable'
  BY <1>17 DEF ServeFlush, Unsubscribe
<1>18. ASSUME ServeStops PROVE EveryLiveRequestCancellable'
  BY <1>18 DEF ServeStops
<1>19. ASSUME ServeUnsubscribe PROVE EveryLiveRequestCancellable'
  BY <1>19 DEF ServeUnsubscribe, Unsubscribe
<1>20. ASSUME WaitReturns PROVE EveryLiveRequestCancellable'
  BY <1>20 DEF WaitReturns, Draining
<1>21. ASSUME DrainTimeout PROVE EveryLiveRequestCancellable'
  BY <1>21 DEF DrainTimeout
<1>22. ASSUME AbandonInFlight PROVE EveryLiveRequestCancellable'
  BY <1>22 DEF AbandonInFlight
<1>23. ASSUME ServeReturns PROVE EveryLiveRequestCancellable'
  BY <1>23 DEF ServeReturns
<1>24. CASE UNCHANGED vars
  BY <1>24 DEF vars
<1>25. QED
  BY <1>1, <1>2, <1>3, <1>4, <1>5, <1>6, <1>7, <1>8, <1>9, <1>10, <1>11, <1>12, <1>13, <1>14, <1>15, <1>16, <1>17, <1>18, <1>19, <1>20, <1>21, <1>22, <1>23, <1>24
     DEF Next, Environment, Handler, Request, Serve

(* Whatever else Control sends, a request with an id of its own is never     *)
(* out of the reach of abandonInFlight.                                      *)
THEOREM CancellableSafe == Spec => []EveryLiveRequestCancellable
<1>1. Init => EveryLiveRequestCancellable
  BY DEF Init, EveryLiveRequestCancellable, Live, Reserving
<1>2. ASSUME IndInv, EveryLiveRequestCancellable, [Next]_vars
      PROVE  EveryLiveRequestCancellable'
  BY <1>2, CancellableStep DEF IndInv
<1>3. QED BY <1>1, <1>2, Invariance, PTL DEF Spec

(* Where abandonInFlight is: the callback that was running has ended, no     *)
(* other can begin, and every request that is left is in its copy or already *)
(* at the end of its context.                                                *)
AbandonInv ==
  /\ \A m \in Assignment : rpc[m] \in {"returned", "released"} => ctxDone[m]
  /\ spc \in {"abandoning", "abandoned"} => hpc = "idle"
  /\ spc = "abandoning" =>
       \A m \in Executing : HasOwnId(m) => m \in doomed \/ ctxDone[m]
  /\ spc = "abandoned" => \A m \in Executing : HasOwnId(m) => ctxDone[m]

(* The copy that the drain timer takes misses no request that has an id of   *)
(* its own, and nothing is added to what it has to reach.                    *)
LEMMA AbandonStep ==
  ASSUME ShapeOK, QueueInv, DrainInv, EveryLiveRequestCancellable, AbandonInv,
         [Next]_vars
  PROVE  AbandonInv'
<1> USE DEF ShapeOK, AbandonInv, HasOwnId, Executing
<1>1. ASSUME NEW m \in Assignment, Publish(m) PROVE AbandonInv'
  BY <1>1 DEF Publish, DrainInv
<1>2. ASSUME NEW m \in Assignment, DeadlinePasses(m) PROVE AbandonInv'
  BY <1>2 DEF DeadlinePasses
<1>3. ASSUME NEW d \in BOOLEAN, SetDraining(d) PROVE AbandonInv'
  BY <1>3 DEF SetDraining
<1>4. ASSUME CloseStop PROVE AbandonInv'
  BY <1>4 DEF CloseStop
<1>5. ASSUME Receive PROVE AbandonInv'
  BY <1>5 DEF Receive, DrainInv
<1>6. ASSUME RejectAssign PROVE AbandonInv'
  BY <1>6 DEF RejectAssign, Reply, HandlerReturns
<1>7. ASSUME AdmitAssign PROVE AbandonInv'
  BY <1>7 DEF AdmitAssign
<1>8. ASSUME PrepareRequestStreamFails PROVE AbandonInv'
  BY <1>8 DEF PrepareRequestStreamFails, Reply, HandlerReturns
<1>9. ASSUME PrepareRequestStream PROVE AbandonInv'
  BY <1>9 DEF PrepareRequestStream
<1>10. ASSUME Reserve PROVE AbandonInv'
  BY <1>10 DEF Reserve
<1>11. ASSUME AckAccepted PROVE AbandonInv'
  BY <1>11 DEF AckAccepted, Reply
<1>12. ASSUME Spawn PROVE AbandonInv'
  BY <1>12 DEF Spawn, HandlerReturns, QueueInv
<1>13. ASSUME NEW m \in Assignment, RequestReturns(m) PROVE AbandonInv'
  BY <1>13 DEF RequestReturns
<1>14. ASSUME NEW m \in Assignment, Release(m) PROVE AbandonInv'
  BY <1>14 DEF Release
<1>15. ASSUME NEW m \in Assignment, RequestDone(m) PROVE AbandonInv'
  BY <1>15 DEF RequestDone
<1>16. ASSUME ServeSubscribe PROVE AbandonInv'
  BY <1>16 DEF ServeSubscribe
<1>17. ASSUME ServeFlush PROVE AbandonInv'
  BY <1>17 DEF ServeFlush, Unsubscribe
<1>18. ASSUME ServeStops PROVE AbandonInv'
  BY <1>18 DEF ServeStops
<1>19. ASSUME ServeUnsubscribe PROVE AbandonInv'
  BY <1>19 DEF ServeUnsubscribe, Unsubscribe
<1>20. ASSUME WaitReturns PROVE AbandonInv'
  BY <1>20 DEF WaitReturns, Draining
<1>21. ASSUME DrainTimeout PROVE AbandonInv'
  <2>1. /\ hpc = "idle" /\ spc' = "abandoning"
        /\ doomed' = {cancels[i] : i \in RequestId} \ {None}
        /\ UNCHANGED <<hpc, rpc, ctxDone, sent>>
    BY <1>21 DEF DrainTimeout
  <2>2. ASSUME NEW m \in Executing, HasOwnId(m), ~ctxDone[m]
        PROVE  m \in doomed'
    <3>1. m \in Live
      BY <2>2 DEF Live
    <3>2. cancels[IdOf[m]] = m /\ m # None /\ IdOf[m] \in RequestId
      BY <2>2, <3>1 DEF EveryLiveRequestCancellable
    <3>3. QED BY <2>1, <3>2
  <2>3. QED BY <2>1, <2>2
<1>22. ASSUME AbandonInFlight PROVE AbandonInv'
  BY <1>22 DEF AbandonInFlight
<1>23. ASSUME ServeReturns PROVE AbandonInv'
  BY <1>23 DEF ServeReturns
<1>24. CASE UNCHANGED vars
  BY <1>24 DEF vars
<1>25. QED
  BY <1>1, <1>2, <1>3, <1>4, <1>5, <1>6, <1>7, <1>8, <1>9, <1>10, <1>11, <1>12, <1>13, <1>14, <1>15, <1>16, <1>17, <1>18, <1>19, <1>20, <1>21, <1>22, <1>23, <1>24
     DEF Next, Environment, Handler, Request, Serve

(* When abandonInFlight has called the cancels it copied, every request with *)
(* an id of its own that has not ended is at the end of its context.         *)
THEOREM AbandonedSafe == Spec => []AbandonedAreCancelled
<1>1. Init => EveryLiveRequestCancellable /\ AbandonInv
  BY DEF Init, EveryLiveRequestCancellable, AbandonInv, Live, Reserving, Executing
<1>2. ASSUME IndInv, EveryLiveRequestCancellable, AbandonInv, [Next]_vars
      PROVE  (EveryLiveRequestCancellable /\ AbandonInv)'
  BY <1>2, CancellableStep, AbandonStep DEF IndInv
<1>3. AbandonInv => AbandonedAreCancelled
  BY DEF AbandonInv, AbandonedAreCancelled
<1>4. QED BY <1>1, <1>2, <1>3, Invariance, PTL DEF Spec

-----------------------------------------------------------------------------
(* The contract of the assignment server. *)

(* A server by its fields, so that a step can be compared field by field.    *)
View(p, s, d, h, a) ==
  [phase |-> p, stop |-> s, draining |-> d, handling |-> h, active |-> a]

InHand == IF hpc \in {"received", "admitted", "prepared"} THEN 1 ELSE 0

LEMMA ViewIs == ServerView = View(PhaseOf(spc), stop, draining, InHand, active)
BY DEF ServerView, View, InHand

LEMMA ViewFields ==
  \A p, s, d, h, a :
    /\ View(p, s, d, h, a).phase = p
    /\ View(p, s, d, h, a).handling = h
    /\ View(p, s, d, h, a).active = a
BY DEF View

(* What the contract's updates make of a server.                            *)
LEMMA ViewUpdates ==
  \A p, s, d, h, a, x :
    /\ Server!Enter(View(p, s, d, h, a), x) = View(x, s, d, h, a)
    /\ Server!SetStop(View(p, s, d, h, a), x) = View(p, x, d, h, a)
    /\ Server!SetDraining(View(p, s, d, h, a), x) = View(p, s, x, h, a)
    /\ Server!Handle(View(p, s, d, h, a), x) = View(p, s, d, x, a)
    /\ Server!Count(View(p, s, d, h, a), x) = View(p, s, d, h, x)
BY DEF View, Server!Enter, Server!SetStop, Server!SetDraining, Server!Handle, Server!Count

LEMMA ServerInit == Init => ServerView = Server!NewServer
<1> SUFFICES ASSUME Init PROVE ServerView = Server!NewServer
  OBVIOUS
<1>1. PhaseOf(spc) = "starting" /\ InHand = 0 /\ active = 0
  BY DEF Init, PhaseOf, InHand
<1>2. stop = FALSE /\ draining = FALSE
  BY Zenon DEF Init
<1>3. ServerView = View("starting", FALSE, FALSE, 0, 0)
  BY <1>1, <1>2, ViewIs, Zenon
<1>4. QED
  BY <1>3, Zenon DEF View, Server!NewServer

(* What is left when Serve returns. *)
LEMMA LeftAtReturn ==
  ASSUME IndInv, drained
  PROVE  active + InHand <= 1
<1> USE DEF IndInv, ShapeOK, QueueInv, DrainInv, CountInv, Busy, Executing
<1>1. Live \subseteq {m \in Assignment : Busy(m)}
  BY DEF Live, Reserving
<1>2. CASE hpc \in {"received", "admitted", "prepared"}
  <2>1. hmsg \in Assignment /\ Busy(hmsg) /\ hmsg \notin Live
    BY <1>2 DEF Live, Reserving
  <2>2. Live = {}
    BY <1>1, <2>1
  <2>3. active = 0
    BY <2>2, FS_EmptySet
  <2>4. QED BY <2>3 DEF InHand
<1>3. CASE hpc \notin {"received", "admitted", "prepared"}
  <2>1. CASE Live = {}
    BY <1>3, <2>1, FS_EmptySet DEF InHand
  <2>2. CASE Live # {}
    <3>1. PICK m \in Live : TRUE
      BY <2>2
    <3>2. Live = {m}
      BY <1>1, <3>1
    <3>3. active = 1
      BY <3>2, FS_Singleton
    <3>4. QED BY <1>3, <3>3 DEF InHand
  <2>3. QED BY <2>1, <2>2
<1>4. QED BY <1>2, <1>3

LEMMA ServerStep ==
  ASSUME IndInv, [Next]_vars
  PROVE  Server!Step(ServerView, ServerView') \/ ServerView' = ServerView
<1> DEFINE Goal == Server!Step(ServerView, ServerView') \/ ServerView' = ServerView
<1>0. /\ ServerView = View(PhaseOf(spc), stop, draining, InHand, active)
      /\ ServerView' = View(PhaseOf(spc'), stop', draining', InHand', active')
  BY ViewIs DEF ServerView, View, InHand, PhaseOf
<1>f. /\ ServerView.phase = PhaseOf(spc)
      /\ ServerView.handling = InHand
      /\ ServerView.active = active
  BY <1>0, ViewFields
<1>a. active \in Nat
  BY PlacesFinite, FS_CardinalityType DEF IndInv, CountInv
<1> HIDE DEF Goal
<1>same. ASSUME PhaseOf(spc') = PhaseOf(spc), stop' = stop, draining' = draining,
                InHand' = InHand, active' = active
         PROVE  Goal
  BY <1>same, <1>0, Zenon DEF Goal
<1>1. ASSUME NEW m \in Assignment, Publish(m) PROVE Goal
  BY <1>1, <1>same DEF Publish, InHand
<1>2. ASSUME NEW m \in Assignment, DeadlinePasses(m) PROVE Goal
  BY <1>2, <1>same DEF DeadlinePasses, InHand
<1>3. ASSUME NEW d \in BOOLEAN, SetDraining(d) PROVE Goal
  BY <1>3 DEF Goal, SetDraining, ServerView, PhaseOf, Server!Step, Server!SetDraining
<1>4. ASSUME CloseStop PROVE Goal
  <2>1. \A x : stop' = x => ServerView' = Server!SetStop(ServerView, x)
    <3>1. /\ PhaseOf(spc') = PhaseOf(spc)
          /\ draining' = draining
          /\ InHand' = InHand
          /\ active' = active
      BY <1>4 DEF CloseStop, PhaseOf, InHand
    <3>2. QED BY <3>1, <1>0, ViewUpdates
  <2>2. stop' = TRUE
    BY <1>4, Zenon DEF CloseStop
  <2>3. ServerView' = Server!CloseStop(ServerView)
    BY <2>1, <2>2, Zenon DEF Server!CloseStop
  <2>4. QED BY <2>3 DEF Goal, Server!Step
<1>5. ASSUME Receive PROVE Goal
  <2>1. /\ PhaseOf(spc') = PhaseOf(spc)
        /\ stop' = stop
        /\ draining' = draining
        /\ InHand' = 1
        /\ active' = active
    BY <1>5 DEF Receive, InHand
  <2>2. ServerView' = View(PhaseOf(spc), stop, draining, 1, active)
    BY <2>1, <1>0, Zenon
  <2>3. ServerView' = Server!Receive(ServerView)
    BY <2>2, <1>0, ViewUpdates DEF Server!Receive
  <2>4. Server!CanReceive(ServerView)
    BY <1>5, <1>f DEF IndInv, DrainInv, ShapeOK, ServePc, Receive, InHand, PhaseOf,
          Server!CanReceive
  <2>5. QED BY <2>3, <2>4 DEF Goal, Server!Step
<1>6. ASSUME RejectAssign PROVE Goal
  <2>1. /\ PhaseOf(spc') = PhaseOf(spc)
        /\ stop' = stop
        /\ draining' = draining
        /\ InHand' = 0
        /\ active' = active
    BY <1>6 DEF RejectAssign, Reply, HandlerReturns, InHand
  <2>2. ServerView' = View(PhaseOf(spc), stop, draining, 0, active)
    BY <2>1, <1>0, Zenon
  <2>3. ServerView' = Server!Reject(ServerView)
    BY <2>2, <1>0, ViewUpdates DEF Server!Reject
  <2>4. Server!CanReject(ServerView)
    BY <1>6, <1>f DEF RejectAssign, InHand, Server!CanReject
  <2>5. QED BY <2>3, <2>4 DEF Goal, Server!Step
<1>7. ASSUME AdmitAssign PROVE Goal
  BY <1>7, <1>same DEF AdmitAssign, InHand
<1>8. ASSUME PrepareRequestStreamFails PROVE Goal
  <2>1. /\ PhaseOf(spc') = PhaseOf(spc)
        /\ stop' = stop
        /\ draining' = draining
        /\ InHand' = 0
        /\ active' = active
    BY <1>8 DEF PrepareRequestStreamFails, Reply, HandlerReturns, InHand
  <2>2. ServerView' = View(PhaseOf(spc), stop, draining, 0, active)
    BY <2>1, <1>0, Zenon
  <2>3. ServerView' = Server!Reject(ServerView)
    BY <2>2, <1>0, ViewUpdates DEF Server!Reject
  <2>4. Server!CanReject(ServerView)
    BY <1>8, <1>f DEF PrepareRequestStreamFails, InHand, Server!CanReject
  <2>5. QED BY <2>3, <2>4 DEF Goal, Server!Step
<1>9. ASSUME PrepareRequestStream PROVE Goal
  BY <1>9, <1>same DEF PrepareRequestStream, InHand
<1>10. ASSUME Reserve PROVE Goal
  <2>1. /\ PhaseOf(spc') = PhaseOf(spc)
        /\ stop' = stop
        /\ draining' = draining
        /\ InHand' = 0
        /\ active' = active + 1
    BY <1>10 DEF Reserve, InHand
  <2>2. ServerView' = View(PhaseOf(spc), stop, draining, 0, active + 1)
    BY <2>1, <1>0, Zenon
  <2>3. ServerView' = Server!Accept(ServerView)
    BY <2>2, <1>0, <1>f, ViewUpdates DEF Server!Accept
  <2>4. Server!CanAccept(ServerView)
    BY <1>10, <1>f, <1>a DEF IndInv, RoomInv, Reserve, InHand, Server!CanAccept
  <2>5. QED BY <2>3, <2>4 DEF Goal, Server!Step
<1>11. ASSUME AckAccepted PROVE Goal
  BY <1>11, <1>same DEF AckAccepted, Reply, InHand
<1>12. ASSUME Spawn PROVE Goal
  BY <1>12, <1>same DEF Spawn, HandlerReturns, InHand
<1>13. ASSUME NEW m \in Assignment, RequestReturns(m) PROVE Goal
  BY <1>13, <1>same DEF RequestReturns, InHand
<1>14. ASSUME NEW m \in Assignment, Release(m) PROVE Goal
  <2>1. /\ PhaseOf(spc') = PhaseOf(spc)
        /\ stop' = stop
        /\ draining' = draining
        /\ InHand' = InHand
        /\ active' = active - 1
    BY <1>14 DEF Release, InHand
  <2>2. ServerView' = View(PhaseOf(spc), stop, draining, InHand, active - 1)
    BY <2>1, <1>0, Zenon
  <2>3. ServerView' = Server!Release(ServerView)
    BY <2>2, <1>0, <1>f, ViewUpdates DEF Server!Release
  <2>6. active # 0
    <3>1. m \in Live
      BY <1>14 DEF IndInv, ShapeOK, Release, Live
    <3>2. QED BY <3>1, PlacesFinite, FS_EmptySet DEF IndInv, CountInv
  <2>4. Server!CanRelease(ServerView)
    BY <2>6, <1>f, <1>a DEF Server!CanRelease
  <2>5. QED BY <2>3, <2>4 DEF Goal, Server!Step
<1>15. ASSUME NEW m \in Assignment, RequestDone(m) PROVE Goal
  BY <1>15, <1>same DEF RequestDone, InHand
<1>16. ASSUME ServeSubscribe PROVE Goal
  <2>1. CASE spc' = "flushing"
    BY <1>16, <2>1, <1>same DEF ServeSubscribe, PhaseOf, InHand
  <2>2. CASE spc' = "failed"
    <3>1. /\ PhaseOf(spc') = "failed"
        /\ stop' = stop
        /\ draining' = draining
        /\ InHand' = InHand
        /\ active' = active
      BY <1>16, <2>2 DEF ServeSubscribe, PhaseOf, InHand
    <3>2. ServerView' = View("failed", stop, draining, InHand, active)
      BY <3>1, <1>0, Zenon
    <3>3. ServerView' = Server!Fail(ServerView)
      BY <3>2, <1>0, ViewUpdates DEF Server!Fail
    <3>4. Server!CanServe(ServerView)
      BY <1>16, <1>f DEF ServeSubscribe, PhaseOf, Server!CanServe
    <3>5. QED BY <3>3, <3>4 DEF Goal, Server!Step
  <2>3. QED BY <1>16, <2>1, <2>2 DEF ServeSubscribe
<1>17. ASSUME ServeFlush PROVE Goal
  <2>0. Server!CanServe(ServerView)
    BY <1>17, <1>f DEF ServeFlush, PhaseOf, Server!CanServe
  <2>1. CASE spc' = "serving"
    <3>1. /\ PhaseOf(spc') = "serving"
        /\ stop' = stop
        /\ draining' = draining
        /\ InHand' = InHand
        /\ active' = active
      BY <1>17, <2>1 DEF ServeFlush, PhaseOf, InHand
    <3>2. ServerView' = View("serving", stop, draining, InHand, active)
      BY <3>1, <1>0, Zenon
    <3>3. ServerView' = Server!Serve(ServerView)
      BY <3>2, <1>0, ViewUpdates DEF Server!Serve
    <3>4. QED BY <2>0, <3>3 DEF Goal, Server!Step
  <2>2. CASE spc' = "failed"
    <3>1. /\ PhaseOf(spc') = "failed"
        /\ stop' = stop
        /\ draining' = draining
        /\ InHand' = InHand
        /\ active' = active
      BY <1>17, <2>2 DEF ServeFlush, PhaseOf, InHand
    <3>2. ServerView' = View("failed", stop, draining, InHand, active)
      BY <3>1, <1>0, Zenon
    <3>3. ServerView' = Server!Fail(ServerView)
      BY <3>2, <1>0, ViewUpdates DEF Server!Fail
    <3>4. QED BY <2>0, <3>3 DEF Goal, Server!Step
  <2>3. QED BY <1>17, <2>1, <2>2 DEF ServeFlush
<1>18. ASSUME ServeStops PROVE Goal
  <2>1. /\ PhaseOf(spc) = "serving"
        /\ PhaseOf(spc') = "stopping"
        /\ stop' = stop
        /\ InHand' = InHand
        /\ active' = active
    BY <1>18 DEF ServeStops, PhaseOf, InHand
  <2>2. \A x : draining' = x =>
               ServerView' = Server!Enter(Server!SetDraining(ServerView, x), "stopping")
    BY <2>1, <1>0, ViewUpdates
  <2>3. draining' = TRUE
    BY <1>18, Zenon DEF ServeStops
  <2>4. ServerView' = Server!Stop(ServerView)
    BY <2>2, <2>3, Zenon DEF Server!Stop
  <2>5. ServerView.stop
    BY <1>18, Zenon DEF ServeStops, ServerView
  <2>6. QED BY <1>f, <2>1, <2>4, <2>5 DEF Goal, Server!Step, Server!CanStop
<1>19. ASSUME ServeUnsubscribe PROVE Goal
  <2>1. /\ PhaseOf(spc') = "waiting"
        /\ stop' = stop
        /\ draining' = draining
        /\ InHand' = InHand
        /\ active' = active
    BY <1>19 DEF ServeUnsubscribe, Unsubscribe, InHand, PhaseOf
  <2>2. ServerView' = View("waiting", stop, draining, InHand, active)
    BY <2>1, <1>0, Zenon
  <2>3. ServerView' = Server!Unsubscribe(ServerView)
    BY <2>2, <1>0, ViewUpdates DEF Server!Unsubscribe
  <2>4. Server!CanUnsubscribe(ServerView)
    BY <1>19, <1>f DEF ServeUnsubscribe, PhaseOf, Server!CanUnsubscribe
  <2>5. QED BY <2>3, <2>4 DEF Goal, Server!Step
<1>20. ASSUME WaitReturns PROVE Goal
  BY <1>20, <1>same DEF WaitReturns, Draining, InHand
<1>21. ASSUME DrainTimeout PROVE Goal
  BY <1>21, <1>same DEF DrainTimeout, InHand, PhaseOf
<1>22. ASSUME AbandonInFlight PROVE Goal
  BY <1>22, <1>same DEF AbandonInFlight, InHand, PhaseOf
<1>23. ASSUME ServeReturns PROVE Goal
  <2>1. /\ PhaseOf(spc') = "returned"
        /\ stop' = stop
        /\ draining' = draining
        /\ InHand' = InHand
        /\ active' = active
    BY <1>23, LeftAtReturn DEF ServeReturns, InHand, PhaseOf
  <2>2. ServerView' = View("returned", stop, draining, InHand, active)
    BY <2>1, <1>0, Zenon
  <2>3. ServerView' = Server!Return(ServerView)
    BY <2>2, <1>0, ViewUpdates DEF Server!Return
  <2>4. Server!CanReturn(ServerView)
    BY <1>23, <1>f, LeftAtReturn DEF ServeReturns, PhaseOf, Server!Left, Server!CanReturn
  <2>5. QED BY <2>3, <2>4 DEF Goal, Server!Step
<1>24. ASSUME UNCHANGED vars PROVE Goal
  BY <1>24, <1>same DEF vars, InHand
<1>25. Goal
  BY <1>1, <1>2, <1>3, <1>4, <1>5, <1>6, <1>7, <1>8, <1>9, <1>10, <1>11, <1>12, <1>13, <1>14, <1>15, <1>16, <1>17, <1>18, <1>19, <1>20, <1>21, <1>22, <1>23, <1>24
     DEF Next, Environment, Handler, Request, Serve
<1>26. QED BY <1>25 DEF Goal

(* runSession may rely on AssignmentServer.                                  *)
THEOREM ServerContract == Spec => ObeysServerContract
<1>1. Init => ServerView = Server!NewServer
  BY ServerInit
<1>2. ASSUME IndInv, [Next]_vars
      PROVE  [Server!Step(ServerView, ServerView')]_ServerView
  BY <1>2, ServerStep
<1>3. QED BY <1>1, <1>2, Invariance, PTL DEF Spec, ObeysServerContract
=============================================================================
