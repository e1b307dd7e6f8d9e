---------------------------- MODULE RequestStream ----------------------------
(***************************************************************************)
(* The control-to-executor stream of one accepted request: what Control    *)
(* and the wire put into the subscription that prepareRequestStream        *)
(* opened, and the validator through which the request takes it out again  *)
(* (src/egress/assignment.go, src/egress/stream.go).  DecodedRequest and   *)
(* RawTunnel are the two users of such a stream.                           *)
(*                                                                         *)
(* Core NATS delivers a frame at most once; the subject is shared by every *)
(* attempt at the request.  The pending messages of the subscription, the  *)
(* one its callback holds while it waits for room, and the frames channel  *)
(* are one queue: the request sees its head only, Control none of it.      *)
(* The operators say what becomes of all variables of the stream, but for  *)
(* ctxDone in those that take a frame.                                     *)
(***************************************************************************)
EXTENDS StreamValidator, Sequences

CONSTANTS
  UploadCredit,  \* AssignRequest.initial_upload_credit_bytes
  MaxSeq,        \* bound: the stream_seq of Control's last frame
  MaxNoise       \* bound: duplicates and frames of another attempt

ASSUME RequestStreamAssumption ==
  UploadCredit \in Nat /\ MaxSeq \in Nat /\ MaxNoise \in Nat

Attempt == 1        \* AssignRequest.attempt
OtherAttempt == 2   \* another attempt at the same request, on the same subject

VARIABLES
  ctlSeq,      \* the next stream_seq of Control
  uploaded,    \* bytes of upload Control has published
  granted,     \* bytes of download credit Control has published
  noise,       \* duplicates and frames of the other attempt so far
  frames,      \* what the subscription holds for the request, in order
  validator,   \* the streamValidator of the request
  taken,       \* history: bytes of download credit in the frames accepted
  quiet,       \* frameIdleTimeout has passed since the last accepted frame
  hasDeadline, \* the request has a deadline
  ctxDone      \* the context of the request is done

ctlVars    == <<ctlSeq, uploaded, granted, noise>>
queueVars  == <<frames, validator, taken, quiet>>
streamVars == <<ctlVars, queueVars, hasDeadline, ctxDone>>

StreamInit(seq, v) ==
  /\ ctlSeq = seq /\ uploaded = 0 /\ granted = 0 /\ noise = 0
  /\ frames = <<>> /\ validator = v /\ taken = 0
  /\ quiet = FALSE /\ hasDeadline \in BOOLEAN /\ ctxDone = FALSE

StreamTypeOK ==
  /\ ctlSeq \in Nat /\ uploaded \in Nat /\ granted \in Nat /\ noise \in Nat
  /\ frames \in Seq(Frames) /\ validator \in Validators /\ taken \in Nat
  /\ quiet \in BOOLEAN /\ hasDeadline \in BOOLEAN /\ ctxDone \in BOOLEAN

(* The bytes of a frame, each known by the attempt and the offset it is from. *)
Bytes(f) == [i \in 1..f.n |-> <<f.attempt, f.off + i - 1>>]

-----------------------------------------------------------------------------
(* Control and the wire. *)

(* The wire delivers the frame, or loses it. *)
Send(type, off, n) ==
  /\ ctlSeq <= MaxSeq
  /\ ctlSeq' = ctlSeq + 1
  /\ \/ frames' = Append(frames, [type |-> type, seq |-> ctlSeq,
                                  attempt |-> Attempt, off |-> off, n |-> n])
     \/ UNCHANGED frames
  /\ UNCHANGED <<noise, validator, taken, quiet, hasDeadline, ctxDone>>

Uploads(type, n) ==
  /\ Send(type, uploaded, n)
  /\ uploaded' = uploaded + n
  /\ UNCHANGED granted

Grants(n) ==
  /\ Send("credit", 0, n)
  /\ granted' = granted + n
  /\ UNCHANGED uploaded

Says(type) == Send(type, 0, 0) /\ UNCHANGED <<uploaded, granted>>

Noise(f) ==
  /\ noise < MaxNoise
  /\ noise' = noise + 1
  /\ frames' = Append(frames, f)
  /\ UNCHANGED <<ctlSeq, uploaded, granted, validator, taken, quiet,
                 hasDeadline, ctxDone>>

(* A frame of another attempt, or no frame at all, on the same subject. *)
StrayFrame(type, seq) ==
  Noise([type |-> type, seq |-> seq, attempt |-> OtherAttempt,
         off |-> 0, n |-> 1])

(* Control publishes its latest frame again. *)
DuplicateFrame == frames # <<>> /\ Noise(frames[Len(frames)])

(* frameIdleTimeout passes and no frame is accepted. *)
IdlePasses ==
  /\ ~quiet
  /\ quiet' = TRUE
  /\ UNCHANGED <<ctlVars, frames, validator, taken, hasDeadline, ctxDone>>

DeadlinePasses ==
  /\ hasDeadline /\ ~ctxDone
  /\ ctxDone' = TRUE
  /\ UNCHANGED <<ctlVars, queueVars, hasDeadline>>

-----------------------------------------------------------------------------
(* The request takes the next frame. *)

Frame == Head(frames)

TakeFrame ==
  /\ frames # <<>>
  /\ frames' = Tail(frames)
  /\ UNCHANGED <<ctlVars, hasDeadline>>

AcceptFrame(types) ==
  /\ TakeFrame
  /\ Accepts(validator, Frame)
  /\ Frame.type \in types
  /\ validator' = AfterAccept(validator, Frame)
  /\ taken' = taken + IF Frame.type = "credit" THEN Frame.n ELSE 0
  /\ quiet' = FALSE

RefuseFrame ==
  /\ TakeFrame
  /\ ~Accepts(validator, Frame)
  /\ UNCHANGED <<validator, taken, quiet>>

(* Fault: the idle clock is not looked at. *)
IdleIgnored == FALSE

IdleExpired == quiet /\ ~validator.terminal
=============================================================================
