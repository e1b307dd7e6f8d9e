---------------------------- MODULE CreditStream ----------------------------
(***************************************************************************)
(* What a response stream promises Control: never more bytes than the      *)
(* initial credit and what has been granted since, and none after its      *)
(* terminal frame.  Initial = 0 means that the stream has no limit.        *)
(***************************************************************************)
EXTENDS Naturals

CONSTANT Initial

VARIABLES granted,   \* bytes granted so far, beyond the initial credit
          bytes,     \* bytes of data published so far
          frames,    \* frames published so far
          closed     \* the terminal frame has been published

vars == <<granted, bytes, frames, closed>>

Init == granted = 0 /\ bytes = 0 /\ frames = 0 /\ closed = FALSE

(* Control grants credit, and may go on to after the end. *)
Grant ==
  /\ granted' > granted
  /\ UNCHANGED <<bytes, frames, closed>>

Publish ==
  /\ ~closed
  /\ frames' = frames + 1
  /\ bytes' >= bytes
  /\ bytes' > bytes /\ Initial > 0 => bytes' <= Initial + granted
  /\ closed' \in BOOLEAN
  /\ closed' => bytes' = bytes
  /\ UNCHANGED granted

Next == Grant \/ Publish

Spec == Init /\ [][Next]_vars
=============================================================================
