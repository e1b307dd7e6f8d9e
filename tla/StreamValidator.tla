--------------------------- MODULE StreamValidator ---------------------------
(***************************************************************************)
(* streamValidator (src/egress/stream.go): what decides, frame by frame,   *)
(* which frames of the control-to-executor stream a request takes.  It is  *)
(* a passive record, used by one goroutine; the modules that own one keep  *)
(* it in a variable and step it with Accepts and AfterAccept.  Its idle    *)
(* clock is kept by the owner, which knows when time passes.               *)
(*                                                                         *)
(* A frame is a record: its type, stream_seq and attempt, and for data the *)
(* offset and the number of bytes.  "none" stands for a message that does  *)
(* not decode to a stream frame with a payload.                            *)
(***************************************************************************)
EXTENDS Naturals

FrameTypes == {"none", "start", "startOther", "data", "bodyRef", "credit",
               "cancel", "end", "error", "cancelled"}

Frames == [type : FrameTypes, seq : Nat, attempt : Nat, off : Nat, n : Nat]

Validators == [attempt : Nat, expectedSeq : Nat, offset : Nat, credit : Nat,
               terminal : BOOLEAN, allowBodyRef : BOOLEAN]

NewValidator(attempt, initialCredit, allowBodyRef) ==
  [attempt |-> attempt, expectedSeq |-> 1, offset |-> 0,
   credit |-> initialCredit, terminal |-> FALSE,
   allowBodyRef |-> allowBodyRef]

IsTerminalFrame(f) == f.type \in {"end", "error", "cancelled"}

(* Fault: the attempt is not compared. *)
ShellIsValidForAnyAttempt(v, f) ==
  f.type # "none" /\ ~v.terminal /\ f.seq > 0

ShellIsValid(v, f) ==
  /\ f.type # "none"
  /\ ~v.terminal
  /\ f.seq > 0
  /\ f.attempt = v.attempt

DataFits(v, f) ==
  f.type = "data" => f.off = v.offset /\ f.n <= v.credit

(* accept returns frameDuplicate. *)
IsDuplicate(v, f) == ShellIsValid(v, f) /\ f.seq < v.expectedSeq

(* accept returns frameAccepted. *)
Accepts(v, f) ==
  /\ ShellIsValid(v, f)
  /\ f.seq = v.expectedSeq
  /\ f.type = "bodyRef" => v.allowBodyRef
  /\ DataFits(v, f)

(* The validator after it has accepted f; no other outcome changes it. *)
AfterAccept(v, f) ==
  LET n == IF f.type = "data" THEN f.n ELSE 0
  IN [v EXCEPT !.expectedSeq = @ + 1,
               !.offset = @ + n,
               !.credit = @ - n,
               !.terminal = @ \/ IsTerminalFrame(f)]
=============================================================================
