------------------------------ MODULE MCWorker ------------------------------
(* Worker on small sets of assignments.                                     *)
EXTENDS Worker, TLC

CONSTANTS a1, a2, b, ida, idb

(* Control repeats an assignment it has no answer for: a1 and a2 carry the  *)
(* same request id.                                                         *)
RetriedIds == (a1 :> ida) @@ (a2 :> ida) @@ (b :> idb)

(* One assignment twice, and nothing else. *)
RetriedId == (a1 :> ida) @@ (a2 :> ida)
=============================================================================
