------------------------- MODULE AdmissionContract -------------------------
(***************************************************************************)
(* What a worker promises Control about assignments, whatever its          *)
(* goroutines do in between: an assignment is turned down or it takes one  *)
(* of the worker's MaxConcurrency places, it holds that place while it     *)
(* executes, and it gives the place back once.  MaxConcurrency = 0 means   *)
(* that the worker has no limit.                                           *)
(***************************************************************************)
EXTENDS Naturals, FiniteSets

CONSTANTS Assignment,      \* the assignments Control may offer
          MaxConcurrency   \* the places of the worker, 0 for no limit

VARIABLE status

Statuses == {"offered", "rejected", "executing", "finished"}

Executing == {m \in Assignment : status[m] = "executing"}

Init == status = [m \in Assignment |-> "offered"]

Move(m, from, to) ==
  /\ status[m] = from
  /\ status' = [status EXCEPT ![m] = to]

Reject(m) == Move(m, "offered", "rejected")

Accept(m) ==
  /\ MaxConcurrency = 0 \/ Cardinality(Executing) < MaxConcurrency
  /\ Move(m, "offered", "executing")

Finish(m) == Move(m, "executing", "finished")

Next == \E m \in Assignment : Reject(m) \/ Accept(m) \/ Finish(m)

Spec == Init /\ [][Next]_status
=============================================================================
