----------------------------- MODULE RawTunnel -----------------------------
(***************************************************************************)
(* A raw CONNECT tunnel, from the moment its RequestStart has been read    *)
(* (runRawTunnel, rawTunnelStream and streamTunnelDownload in              *)
(* src/egress/assignment.go).                                              *)
(*                                                                         *)
(* Actors:                                                                 *)
(*   - Control, which uploads under the credit it has been told, grants    *)
(*     download credit, and may cancel or end, and the wire                *)
(*     (RequestStream);                                                    *)
(*   - the upstream peer, which sends bytes and closes or breaks;          *)
(*   - the loop of rawTunnelStream.run;                                    *)
(*   - the goroutine of streamTunnelDownload.                              *)
(* The loop and the download number their frames with one builder, under   *)
(* its mutex, and publish them outside it: a number is taken in one step   *)
(* and the frame goes out in a later one.                                  *)
(* An operator marked "Fault" is a wrong version of the one that follows.  *)
(***************************************************************************)
EXTENDS RequestStream, CreditGate

CONSTANTS
  DownloadCredit,  \* AssignRequest.initial_download_credit_bytes
  BufferBytes,     \* responseFrameDataBytes, the size of the read buffer
  UploadBytes,     \* bound: bytes Control uploads
  UpstreamBytes    \* bound: bytes the upstream sends

ASSUME RawTunnelAssumption ==
  /\ DownloadCredit \in Nat
  /\ BufferBytes \in Nat \ {0} /\ GrantsBuffer \in Nat \ {0}
  /\ UploadBytes \in Nat /\ UpstreamBytes \in Nat

VARIABLES
  arrived,     \* bytes the upstream has sent
  upstream,    \* what the upstream peer has done: "open", "eof", "reset"
  written,     \* what conn.Write has given the upstream, byte by byte
  connOpen,    \* the connection is not closed on this side
  tpc,         \* where the loop is
  inHand,      \* the frame the loop is writing or granting, if any
  loopFrame,   \* the frame the loop has numbered and not published, if any
  dpc,         \* where the download is
  read,        \* bytes the download has read
  chunk,       \* bytes it has read and not numbered
  readErr,     \* the error its last Read returned beside them
  downFrame,   \* the frame it has numbered and not published, if any
  done,        \* the done channel, of capacity 1
  gate,        \* the responseCreditGate
  builder,     \* tunnelFrameBuilder.seq
  out          \* the frames published to Control, in order

peerVars   == <<arrived, upstream>>
connVars   == <<written, connOpen>>
loopVars   == <<tpc, inHand, loopFrame>>
downVars   == <<dpc, read, chunk, readErr, downFrame>>
sharedVars == <<done, gate, builder, out>>
tunnelVars == <<peerVars, connVars, loopVars, downVars, sharedVars>>

vars == <<streamVars, tunnelVars>>

StartFrame ==
  [type |-> "startOther", seq |-> 1, attempt |-> Attempt, off |-> 0, n |-> 0]

Init ==
  /\ StreamInit(2, AfterAccept(NewValidator(Attempt, UploadCredit, FALSE),
                               StartFrame))
  /\ arrived = 0 /\ upstream = "open" /\ written = <<>> /\ connOpen = FALSE
  /\ tpc = "opening" /\ inHand = <<>> /\ loopFrame = <<>>
  /\ dpc = "none" /\ read = 0 /\ chunk = 0 /\ readErr = "none"
  /\ downFrame = <<>> /\ done = <<>>
  /\ gate = NewGate(DownloadCredit)
  /\ builder = 0 /\ out = <<>>

-----------------------------------------------------------------------------
(* The frames of the tunnel. *)

(* The bytes that the frames of type t in s carry, or are credit for. *)
BytesOf(t, s) ==
  Total([i \in DOMAIN s |-> IF s[i].type = t THEN s[i].n ELSE 0])

(* Fault: the number is read outside the mutex. *)
NumberedOutsideMutex(type, off, n) ==
  [type |-> type, seq |-> Len(out) + 1, off |-> off, n |-> n]

(* next, under the mutex of the builder. *)
Numbered(type, off, n) ==
  [type |-> type, seq |-> builder + 1, off |-> off, n |-> n]

IsTerminal(f) == f.type \in {"end", "error", "cancelled"}

-----------------------------------------------------------------------------
(* Control, the wire and the upstream. *)

(* Control uploads within the credit it was given and told of since. *)
ControlSendsData(n) ==
  /\ uploaded + n <= UploadBytes
  /\ uploaded + n <= UploadCredit + BytesOf("credit", out)
  /\ Uploads("data", n)

(* Control grants again what it has received. *)
ControlGrants(n) == granted + n <= BytesOf("data", out) /\ Grants(n)

Environment ==
  /\ \/ \E n \in 1..UploadBytes : ControlSendsData(n)
     \/ \E n \in 1..UpstreamBytes : ControlGrants(n)
     \/ \E type \in {"cancel", "end"} : Says(type)
     \/ \E seq \in 2..MaxSeq : StrayFrame("data", seq)
     \/ DuplicateFrame
  /\ UNCHANGED tunnelVars

IdleTime == IdlePasses /\ UNCHANGED tunnelVars

Deadline == DeadlinePasses /\ UNCHANGED tunnelVars

UpstreamSends(n) ==
  /\ dpc # "none" /\ upstream = "open"
  /\ arrived + n <= UpstreamBytes
  /\ arrived' = arrived + n
  /\ UNCHANGED <<streamVars, upstream, connVars, loopVars, downVars, sharedVars>>

UpstreamEnds(how) ==
  /\ dpc # "none" /\ upstream = "open"
  /\ upstream' = how
  /\ UNCHANGED <<streamVars, arrived, connVars, loopVars, downVars, sharedVars>>

-----------------------------------------------------------------------------
(* The loop. *)

OpenFrames(second) ==
  <<[type |-> "head", seq |-> 1, off |-> 0, n |-> 0],
    [type |-> second, seq |-> 2, off |-> 0, n |-> 0]>>

(* OpenTunnel fails: the target and the failure are all that is published. *)
OpenTunnelFails ==
  /\ tpc = "opening"
  /\ out' = OpenFrames("error")
  /\ builder' = 2
  /\ tpc' = "closed"
  /\ UNCHANGED <<streamVars, peerVars, connVars, inHand, loopFrame, downVars,
                 done, gate>>

(* The connection is there; publish the two heads, start the download. *)
OpenTunnel ==
  /\ tpc = "opening"
  /\ out' = OpenFrames("head")
  /\ builder' = 2
  /\ connOpen' = TRUE
  /\ dpc' = "reading"
  /\ tpc' = "loop"
  /\ UNCHANGED <<streamVars, peerVars, written, inHand, loopFrame, read, chunk,
                 readErr, downFrame, done, gate>>

(* The loop numbers a frame, to publish it in its next step. *)
LoopNumbers(type, n) ==
  /\ loopFrame' = <<Numbered(type, 0, n)>>
  /\ builder' = builder + 1
  /\ tpc' = "publishing"

(* publishOne: the loop ends with a terminal frame, and goes on otherwise. *)
LoopPublishes ==
  /\ tpc = "publishing"
  /\ out' = out \o loopFrame
  /\ loopFrame' = <<>>
  /\ tpc' = IF IsTerminal(loopFrame[1]) THEN "closing" ELSE "loop"
  /\ UNCHANGED <<streamVars, peerVars, connVars, inHand, downVars, done, gate,
                 builder>>

LoopEnds == UNCHANGED <<streamVars, peerVars, connVars, inHand, downVars, gate, out>>

(* Fault: the end of the upstream is not reported. *)
DoneUnlessEof == done \notin {<<>>, <<"eof">>}

HasDone == done # <<>>

(* handleDone: the end of the upstream is an End, anything else an Error. *)
TakeDone ==
  /\ tpc = "loop" /\ HasDone
  /\ done' = <<>>
  /\ LoopNumbers(IF done[1] \in {"eof", "closed"} THEN "end" ELSE "error", 0)
  /\ LoopEnds

(* Fault: the context is only looked at when the download is. *)
ContextEndsAfterDone == ctxDone /\ done # <<>>

ContextEnds == ctxDone

TakeContext ==
  /\ tpc = "loop" /\ ContextEnds
  /\ LoopNumbers("error", 0)
  /\ UNCHANGED done
  /\ LoopEnds

(* The idle timeout ends the tunnel without a word. *)
TakeIdle ==
  /\ tpc = "loop" /\ IdleExpired
  /\ tpc' = "closing"
  /\ UNCHANGED <<loopFrame, builder, done>>
  /\ LoopEnds

(* The loop takes the next frame. *)
Taking ==
  /\ tpc = "loop"
  /\ UNCHANGED <<ctxDone, peerVars, connVars, downVars, done, gate, out>>

(* A frame that is not accepted, or is of no use, is skipped. *)
TakeUseless ==
  /\ Taking
  /\ \/ RefuseFrame
     \/ AcceptFrame(FrameTypes \ {"data", "cancel", "credit"})
     \/ AcceptFrame({"credit"}) /\ GrantIsVoid(gate, Frame.n)
  /\ UNCHANGED <<loopVars, builder>>

TakeData ==
  /\ Taking
  /\ AcceptFrame({"data"})
  /\ inHand' = <<Frame>>
  /\ tpc' = "writing"
  /\ UNCHANGED <<loopFrame, builder>>

TakeCredit ==
  /\ Taking
  /\ AcceptFrame({"credit"})
  /\ ~GrantIsVoid(gate, Frame.n)
  /\ inHand' = <<Frame>>
  /\ tpc' = "granting"
  /\ UNCHANGED <<loopFrame, builder>>

(* Fault: the loop ends without a Cancelled. *)
EndsSilently == tpc' = "closing" /\ UNCHANGED <<loopFrame, builder>>

SaysCancelled == LoopNumbers("cancelled", 0)

TakeCancel ==
  /\ Taking
  /\ AcceptFrame({"cancel"})
  /\ SaysCancelled
  /\ UNCHANGED inHand

(* grant sends on the channel of the gate, and blocks while it is full. *)
HandOverGrant ==
  /\ tpc = "granting"
  /\ CanGrant(gate)
  /\ gate' = Grant(gate, inHand[1].n)
  /\ inHand' = <<>> /\ tpc' = "loop"
  /\ UNCHANGED <<streamVars, peerVars, connVars, loopFrame, downVars, done,
                 builder, out>>

WriteLeaves ==
  UNCHANGED <<streamVars, peerVars, connOpen, downVars, done, gate, out>>

(* conn.Write has taken it all; Control is told of new upload credit. *)
WriteUpstream ==
  /\ tpc = "writing"
  /\ upstream # "reset"
  /\ written' = written \o Bytes(inHand[1])
  /\ inHand' = <<>>
  /\ LoopNumbers("credit", inHand[1].n)
  /\ WriteLeaves

(* conn.Write fails, after a part of it. *)
WriteFails ==
  /\ tpc = "writing"
  /\ upstream # "open"
  /\ \E k \in 0..(inHand[1].n - 1) :
       written' = written \o SubSeq(Bytes(inHand[1]), 1, k)
  /\ inHand' = <<>>
  /\ LoopNumbers("error", 0)
  /\ WriteLeaves

(* Fault: the connection stays open. *)
KeepsOpen == UNCHANGED connOpen

Closes == connOpen' = FALSE

(* The deferred calls of runRawTunnel: Close, *)
CloseConn ==
  /\ tpc = "closing"
  /\ Closes
  /\ tpc' = "closed"
  /\ UNCHANGED <<streamVars, peerVars, written, inHand, loopFrame, downVars,
                 sharedVars>>

(* then cancel. *)
CancelContext ==
  /\ tpc = "closed"
  /\ ctxDone' = TRUE
  /\ tpc' = "done"
  /\ UNCHANGED <<ctlVars, queueVars, hasDeadline, peerVars, connVars, inHand,
                 loopFrame, downVars, sharedVars>>

-----------------------------------------------------------------------------
(* The download. *)

DownLeaves == UNCHANGED <<streamVars, peerVars, connVars, loopVars>>

(* The goroutine reports and ends; the channel has room for its one report. *)
Report(err) == done' = Append(done, err) /\ dpc' = "finished"

(* Fault: the bytes that come with an error are forgotten. *)
NothingWithError(n) == IF readErr' = "none" THEN n ELSE 0

BytesRead(n) == n

(* Read returns bytes, and an error with the last of them or none yet. *)
DownloadReads(n) ==
  /\ dpc = "reading" /\ connOpen
  /\ n <= arrived - read
  /\ read' = read + n
  /\ \/ UNCHANGED readErr
     \/ read' = arrived /\ upstream # "open" /\ readErr' = upstream
  /\ chunk' = BytesRead(n)
  /\ dpc' = "sending"
  /\ UNCHANGED <<downFrame, sharedVars>>
  /\ DownLeaves

(* Read returns no bytes: the upstream has ended, or the loop has closed. *)
DownloadEnds ==
  /\ dpc = "reading"
  /\ \/ ~connOpen /\ Report("closed")
     \/ upstream # "open" /\ read = arrived /\ Report(upstream)
     \/ upstream = "reset" /\ Report("reset")
  /\ UNCHANGED <<read, chunk, readErr, downFrame, gate, builder, out>>
  /\ DownLeaves

(* takeAvailable has credit; the bytes it allows become a frame. *)
DownloadNumbers ==
  LET n == Available(gate, chunk)
  IN /\ dpc = "sending" /\ chunk > 0 /\ downFrame = <<>>
     /\ ~MustWait(gate)
     /\ gate' = Spend(gate, n)
     /\ downFrame' = <<Numbered("data", read - chunk, n)>>
     /\ builder' = builder + 1
     /\ UNCHANGED <<dpc, read, chunk, readErr, done, out>>
     /\ DownLeaves

(* Fault: the rest of the chunk is forgotten. *)
ForgetRest == 0

Rest == chunk - downFrame[1].n

DownloadPublishes ==
  /\ dpc = "sending" /\ downFrame # <<>>
  /\ out' = out \o downFrame
  /\ downFrame' = <<>>
  /\ chunk' = Rest
  /\ UNCHANGED <<dpc, read, readErr, done, gate, builder>>
  /\ DownLeaves

(* The chunk is out: report the error that came with it, or read on. *)
DownloadGoesOn ==
  /\ dpc = "sending" /\ chunk = 0
  /\ IF readErr = "none" THEN dpc' = "reading" /\ UNCHANGED done
     ELSE Report(readErr)
  /\ UNCHANGED <<read, chunk, readErr, downFrame, gate, builder, out>>
  /\ DownLeaves

(* takeAvailable, out of credit, *)
WaitsForCredit ==
  dpc = "sending" /\ chunk > 0 /\ downFrame = <<>> /\ MustWait(gate)

(* receives a grant, *)
ReceiveGrant ==
  /\ WaitsForCredit
  /\ gate.grants # <<>>
  /\ gate' = TakeGrant(gate)
  /\ UNCHANGED <<done, builder, out, downVars>>
  /\ DownLeaves

(* or sees the end of the context, which the download then reports. *)
DownloadGivesUp ==
  /\ WaitsForCredit
  /\ ctxDone
  /\ Report("context")
  /\ UNCHANGED <<read, chunk, readErr, downFrame, gate, builder, out>>
  /\ DownLeaves

-----------------------------------------------------------------------------
Upstream ==
  \/ \E n \in 1..UpstreamBytes : UpstreamSends(n)
  \/ \E how \in {"eof", "reset"} : UpstreamEnds(how)

Loop ==
  \/ LoopPublishes \/ TakeDone \/ TakeContext \/ TakeIdle
  \/ TakeUseless \/ TakeData \/ TakeCredit \/ TakeCancel
  \/ HandOverGrant \/ CloseConn \/ CancelContext

Open == OpenTunnelFails \/ OpenTunnel

Write == WriteUpstream \/ WriteFails

Download ==
  \/ \E n \in 1..BufferBytes : DownloadReads(n)
  \/ DownloadEnds \/ DownloadNumbers \/ DownloadPublishes \/ DownloadGoesOn
  \/ ReceiveGrant \/ DownloadGivesUp

Next ==
  \/ Environment \/ IdleTime \/ Deadline \/ Upstream
  \/ Open \/ Loop \/ Write \/ Download

(***************************************************************************)
(* The two goroutines run and time passes.  OpenTunnel is given the        *)
(* context and returns once it is done; conn.Write is not, and is only     *)
(* known to return when the connection has broken.                         *)
(***************************************************************************)
Fairness ==
  /\ WF_vars(Loop) /\ WF_vars(Download)
  /\ WF_vars(ctxDone /\ OpenTunnelFails)
  /\ WF_vars(upstream = "reset" /\ WriteFails)
  /\ WF_vars(IdleTime) /\ WF_vars(Deadline)

Spec == Init /\ [][Next]_vars

FairSpec == Spec /\ Fairness

-----------------------------------------------------------------------------
(* Properties. *)

OutFrames ==
  [type : {"head", "data", "credit", "end", "error", "cancelled"},
   seq : Nat, off : Nat, n : Nat]

TypeOK ==
  /\ StreamTypeOK
  /\ arrived \in Nat /\ upstream \in {"open", "eof", "reset"}
  /\ written \in Seq(Nat \X Nat) /\ connOpen \in BOOLEAN
  /\ tpc \in {"opening", "loop", "publishing", "granting", "writing",
             "closing", "closed", "done"}
  /\ inHand \in Seq(Frames) /\ Len(inHand) <= 1
  /\ loopFrame \in Seq(OutFrames) /\ Len(loopFrame) <= 1
  /\ dpc \in {"none", "reading", "sending", "finished"}
  /\ read \in Nat /\ chunk \in Nat
  /\ readErr \in {"none", "eof", "reset"}
  /\ downFrame \in Seq(OutFrames) /\ Len(downFrame) <= 1
  /\ done \in Seq({"eof", "reset", "closed", "context"}) /\ Len(done) <= 1
  /\ gate \in [limited : BOOLEAN, credit : Nat, grants : Seq(Nat)]
  /\ builder \in Nat
  /\ out \in Seq(OutFrames)

(* The upstream is given what this attempt of Control uploaded, in order    *)
(* and without a hole or a repetition, however the tunnel ends.             *)
UploadForwarded ==
  \A i \in DOMAIN written : written[i] = <<Attempt, i - 1>>

(* The data published are what the upstream sent, in order and without a    *)
(* hole, although credit cuts them into pieces.                             *)
DownloadInOrder ==
  /\ \A i \in DOMAIN out :
       out[i].type = "data" => out[i].off = BytesOf("data", SubSeq(out, 1, i - 1))
  /\ BytesOf("data", out) = read - chunk

(* No byte of download credit is lost or used twice on its way from the     *)
(* loop through the channel to the download: what Control has granted is in *)
(* the hands of the loop, in the channel, in the gate, or out as data.      *)
CreditConserved ==
  DownloadCredit > 0 =>
    BytesOf("data", out \o downFrame) + Unused(gate) + BytesOf("credit", inHand)
      = DownloadCredit + taken

(* The loop and the download never give one number to two frames, and every *)
(* number is published, save the one each of them may hold.                 *)
NumberedOnce ==
  LET all == out \o loopFrame \o downFrame
  IN /\ Len(all) = builder
     /\ {all[i].seq : i \in DOMAIN all} = 1..builder

(* An End says that the upstream has closed and that all it sent has been   *)
(* published; no frame follows it.                                          *)
EndMeansComplete ==
  \A i \in DOMAIN out :
    out[i].type = "end" =>
      i = Len(out) /\ upstream = "eof" /\ BytesOf("data", out) = arrived

(* A tunnel closes with one terminal frame, or, when Control has been quiet *)
(* for the idle timeout, with none.                                         *)
TunnelAnswered ==
  tpc = "done" =>
    LET terminals == {i \in DOMAIN out : IsTerminal(out[i])}
    IN Cardinality(terminals) = 1 \/ (terminals = {} /\ quiet)

(* The loop is held by a call that looks at nothing else: conn.Write, or     *)
(* grant on a full channel.                                                 *)
HeldInWrite == [](tpc = "writing")

HeldInGrant == [](tpc = "granting")

(* A tunnel with a deadline ends, unless conn.Write or grant holds its loop *)
(* for ever: handleData and grant are not given the context.                *)
DeadlineEnds ==
  hasDeadline ~> (tpc = "done" \/ HeldInWrite \/ HeldInGrant)

(* A tunnel whose upstream has ended ends, if need be by the idle clock     *)
(* once Control falls silent.  Three things can still hold it for ever: the *)
(* two calls above, and a download that waits for credit although Control   *)
(* has said its End, which stops the idle clock, when there is no deadline. *)
UpstreamEndCloses ==
  (upstream # "open") ~>
     \/ tpc = "done"
     \/ HeldInWrite \/ HeldInGrant
     \/ [](WaitsForCredit /\ validator.terminal /\ ~hasDeadline)

(* When the tunnel is over its download returns too, though it may publish  *)
(* a frame it has numbered before it does: nobody waits for it.             *)
DownloadReturns == (tpc = "done") ~> (dpc \in {"none", "finished"})

(* Upload that comes in sequence, and within the credit that Control has    *)
(* been told of, is accepted.                                               *)
UploadCreditHonoured ==
  /\ frames # <<>>
  /\ Frame.type = "data" /\ Frame.attempt = Attempt
  /\ Frame.seq = validator.expectedSeq /\ ~validator.terminal
  => Accepts(validator, Frame)
=============================================================================
