--------------------------- MODULE DecodedRequest ---------------------------
(***************************************************************************)
(* One accepted assignment as it runs (runDecodedRequest and what it calls *)
(* in src/egress/assignment.go): the body is read from the stream of the   *)
(* request, the executor runs on it and publishes its response under       *)
(* Control's credit, and the request ends with the executor's result.      *)
(*                                                                         *)
(* Actors:                                                                 *)
(*   - Control and the wire (RequestStream);                               *)
(*   - the goroutine of the request: runDecodedRequest, readRequestBody,   *)
(*     waitForResult;                                                      *)
(*   - the goroutine of startDecodedExecution, which runs the executor and *)
(*     the send function it is given.                                      *)
(* An operator marked "Fault" is a wrong version of the one that follows.  *)
(***************************************************************************)
EXTENDS RequestStream, CreditGate, BodyRef

CONSTANTS
  ExpectedUpload,   \* AssignRequest.expected_upload_bytes
  DownloadCredit,   \* AssignRequest.initial_download_credit_bytes
  AllowBodyRef,     \* WorkerOptions.BodyRefs is set
  ResponseBytes,    \* the bytes of the response the executor has to send
  ChunkBytes,       \* responseFrameDataBytes
  EarlyCredit,      \* bytes Control may grant ahead of what it has received
  HeedsContext,     \* the executor reports success only under a live context
  MayBuffer         \* the executor may return a response it has not sent

ASSUME DecodedRequestAssumption ==
  /\ ExpectedUpload \in Nat /\ DownloadCredit \in Nat
  /\ ResponseBytes \in Nat /\ EarlyCredit \in Nat
  /\ ChunkBytes \in Nat \ {0} /\ GrantsBuffer \in Nat \ {0}
  /\ AllowBodyRef \in BOOLEAN
  /\ HeedsContext \in BOOLEAN /\ MayBuffer \in BOOLEAN

VARIABLES
  mpc,         \* where the goroutine of the request is
  mode,        \* requestBodyState.start: "none" or the mode it asks for
  body,        \* requestBodyState.body, byte by byte
  download,    \* the object that DownloadBodyRef is fetching, or none
  grantBytes,  \* the grant waitForResult is handing over
  canceled,    \* waitForResult has taken a Cancel frame
  epc,         \* where the executor is
  produced,    \* bytes of the response the executor has given to send
  remaining,   \* bytes of the current send that are not published
  result,      \* the frames the executor returned
  todo,        \* the frames runDecodedRequest has yet to publish
  rseq,        \* stream_seq of the last progress frame
  gate,        \* the responseCreditGate
  out,         \* the frames published to Control, in order
  sentBytes    \* the bytes of data in out

bodyVars    == <<mode, body, download>>
waitVars    == <<grantBytes, canceled>>
execVars    == <<epc, produced, remaining, result, rseq>>
outVars     == <<out, sentBytes>>
requestVars == <<mpc, bodyVars, waitVars, execVars, todo, gate, outVars>>

vars == <<streamVars, requestVars>>

Init ==
  /\ StreamInit(1, NewValidator(Attempt, UploadCredit, AllowBodyRef))
  /\ mpc = "reading"
  /\ mode = "none" /\ body = <<>> /\ download = <<>>
  /\ grantBytes = 0 /\ canceled = FALSE
  /\ epc = "none" /\ produced = 0 /\ remaining = 0 /\ result = <<>>
  /\ rseq = 0
  /\ gate = NewGate(DownloadCredit)
  /\ todo = <<>> /\ out = <<>> /\ sentBytes = 0

-----------------------------------------------------------------------------
(* Control and the wire. *)

ControlStarts(type) == ctlSeq = 1 /\ Says(type)

ControlSendsData(n) ==
  /\ ctlSeq > 1
  /\ uploaded + n <= ExpectedUpload
  /\ Uploads("data", n)

(* Control keeps the body in an object store and sends a reference to it. *)
ControlSendsBodyRef ==
  /\ ctlSeq > 1
  /\ uploaded = 0
  /\ Uploads("bodyRef", ExpectedUpload)

(* Control grants again what it has received, or a little ahead of it. *)
ControlGrants(n) ==
  /\ ctlSeq > 1
  /\ granted + n <= sentBytes + EarlyCredit
  /\ Grants(n)

ControlEnds(type) == ctlSeq > 1 /\ Says(type)

Control ==
  /\ \/ \E type \in {"start", "startOther"} : ControlStarts(type)
     \/ \E n \in 1..ExpectedUpload : ControlSendsData(n)
     \/ ControlSendsBodyRef
     \/ \E n \in 1..ResponseBytes : ControlGrants(n)
     \/ \E type \in {"cancel", "end"} : ControlEnds(type)
  /\ UNCHANGED requestVars

Wire ==
  /\ \/ StrayFrame("none", 1)
     \/ \E seq \in 1..MaxSeq : StrayFrame("data", seq)
     \/ DuplicateFrame
  /\ UNCHANGED requestVars

IdleTime == IdlePasses /\ UNCHANGED requestVars

Deadline == DeadlinePasses /\ UNCHANGED requestVars

-----------------------------------------------------------------------------
(* readRequestBody. *)

(* requestBodyState.complete *)
Complete == mode # "none" /\ Len(body) >= ExpectedUpload

Reading ==
  /\ mpc = "reading" /\ ~Complete /\ download = <<>>
  /\ UNCHANGED <<waitVars, execVars, gate, outVars>>

(* runDecodedRequest returns: its deferred cancel ends the context. *)
RequestReturns == mpc' = "done" /\ ctxDone' = TRUE

ReadDuplicate ==
  /\ Reading
  /\ RefuseFrame
  /\ IsDuplicate(validator, Frame)
  /\ UNCHANGED <<ctxDone, mpc, bodyVars, todo>>

(* A frame the validator does not accept ends the request without a word. *)
ReadRejected ==
  /\ Reading
  /\ RefuseFrame
  /\ ~IsDuplicate(validator, Frame)
  /\ RequestReturns
  /\ UNCHANGED <<bodyVars, todo>>

ReadStart ==
  /\ Reading
  /\ AcceptFrame({"start", "startOther"})
  /\ mode' = IF Frame.type = "start" THEN "decoded" ELSE "other"
  /\ UNCHANGED <<ctxDone, mpc, body, download, todo>>

ReadData ==
  /\ Reading
  /\ AcceptFrame({"data"})
  /\ body' = body \o Bytes(Frame)
  /\ UNCHANGED <<ctxDone, mpc, mode, download, todo>>

(* acceptBodyRef: the reference is good, and what it names is fetched.  Until *)
(* the store has answered the reader looks at no frame, clock or context.     *)
ReadBodyRef ==
  /\ Reading /\ mode # "none"
  /\ AcceptFrame({"bodyRef"})
  /\ download' = <<Bytes(Frame)>>
  /\ UNCHANGED <<ctxDone, mpc, mode, body, todo>>

(* A frame to Control that carries no data. *)
Bare(type, seq) == [type |-> type, seq |-> seq, off |-> 0, n |-> 0]

ErrorFrame == Bare("error", 1)

(* runDecodedRequest goes on to publish fs and then returns. *)
Answer(fs) == mpc' = "publishing" /\ todo' = fs

(* acceptBodyRef: the key is out of scope, or the reference has expired. *)
ReadBodyRefFails ==
  /\ Reading /\ mode # "none"
  /\ AcceptFrame({"bodyRef"})
  /\ Answer(<<ErrorFrame>>)
  /\ UNCHANGED <<ctxDone, bodyVars>>

Downloading ==
  /\ mpc = "reading" /\ download # <<>>
  /\ download' = <<>>
  /\ UNCHANGED <<streamVars, mode, waitVars, execVars, gate, outVars>>

(* DownloadBodyRef returns what the store had under the key, *)
DownloadReturns ==
  /\ Downloading
  /\ body' \in Downloads(download[1])
  /\ UNCHANGED <<mpc, todo>>

(* or a failure: no answer, the wrong object, or the end of the context. *)
DownloadFails ==
  /\ Downloading
  /\ Answer(<<ErrorFrame>>)
  /\ UNCHANGED body

(* Credit that arrives while the body is read is accepted and forgotten. *)
ReadCredit ==
  /\ Reading
  /\ AcceptFrame({"credit"})
  /\ UNCHANGED <<ctxDone, mpc, bodyVars, todo>>

(* Any other frame, a Cancel among them, ends the request without a word. *)
ReadOther ==
  /\ Reading
  /\ AcceptFrame({"cancel", "end", "error", "cancelled"}
                 \cup IF mode = "none" THEN {"bodyRef"} ELSE {})
  /\ RequestReturns
  /\ UNCHANGED <<bodyVars, todo>>

(* The context is done, or the idle timeout has passed. *)
ReadGivesUp ==
  /\ Reading
  /\ ctxDone \/ IdleExpired
  /\ RequestReturns
  /\ UNCHANGED <<ctlVars, queueVars, hasDeadline, bodyVars, todo>>

-----------------------------------------------------------------------------
(* runDecodedRequest, once the body is there. *)

StartExecution ==
  /\ mpc = "reading" /\ Complete
  /\ mode = "decoded"
  /\ mpc' = "waiting"
  /\ epc' = "running"
  /\ UNCHANGED <<streamVars, bodyVars, waitVars, produced, remaining, result,
                 rseq, todo, gate, outVars>>

(* The mode of the RequestStart is not one this path executes. *)
RejectMode ==
  /\ mpc = "reading" /\ Complete
  /\ mode = "other"
  /\ Answer(<<ErrorFrame>>)
  /\ UNCHANGED <<streamVars, bodyVars, waitVars, execVars, gate, outVars>>

Waiting ==
  /\ mpc = "waiting"
  /\ UNCHANGED <<bodyVars, execVars, todo, gate, outVars>>

(* A frame that is not accepted, or is of no use by now, is skipped. *)
WaitSkips ==
  /\ Waiting
  /\ \/ RefuseFrame
     \/ AcceptFrame(FrameTypes \ {"cancel", "credit"})
     \/ AcceptFrame({"credit"}) /\ GrantIsVoid(gate, Frame.n)
  /\ UNCHANGED <<ctxDone, mpc, waitVars>>

WaitTakesCredit ==
  /\ Waiting
  /\ AcceptFrame({"credit"})
  /\ ~GrantIsVoid(gate, Frame.n)
  /\ mpc' = "granting" /\ grantBytes' = Frame.n
  /\ UNCHANGED <<ctxDone, canceled>>

(* grant sends on the channel of the gate, and blocks while it is full. *)
HandOverGrant ==
  /\ mpc = "granting"
  /\ CanGrant(gate)
  /\ gate' = Grant(gate, grantBytes)
  /\ mpc' = "waiting" /\ grantBytes' = 0
  /\ UNCHANGED <<streamVars, bodyVars, canceled, execVars, todo, outVars>>

(* Fault: the context is left alone. *)
KeepContext == UNCHANGED ctxDone

CancelContext == ctxDone' = TRUE

WaitTakesCancel ==
  /\ Waiting
  /\ AcceptFrame({"cancel"})
  /\ CancelContext
  /\ mpc' = "cancelling" /\ canceled' = TRUE
  /\ UNCHANGED grantBytes

(* Fault: the executor's own last frame is kept. *)
ApplyCancellationNever(fs) == fs

(* The last of the executor's frames becomes a Cancelled, unless it is End. *)
ApplyCancellation(fs) ==
  IF fs = <<>> \/ fs[Len(fs)].type = "end" THEN fs
  ELSE [fs EXCEPT ![Len(fs)].type = "cancelled"]

(* waitForResult has the executor's result. *)
FinishRequest ==
  /\ mpc \in {"waiting", "cancelling"}
  /\ epc = "finished"
  /\ Answer(IF canceled THEN ApplyCancellation(result) ELSE result)
  /\ UNCHANGED <<streamVars, bodyVars, waitVars, execVars, gate, outVars>>

(* publish hands the connection one frame, and returns after the last one. *)
PublishAnswer ==
  /\ mpc = "publishing"
  /\ IF todo = <<>>
     THEN RequestReturns /\ UNCHANGED <<todo, outVars>>
     ELSE /\ todo' = Tail(todo)
          /\ out' = Append(out, Head(todo))
          /\ sentBytes' = sentBytes + Head(todo).n
          /\ UNCHANGED <<mpc, ctxDone>>
  /\ UNCHANGED <<ctlVars, queueVars, hasDeadline, bodyVars, waitVars, execVars,
                 gate>>

-----------------------------------------------------------------------------
(* The goroutine of the executor.  The executor is the user's: it sends the *)
(* head of the response, then its bytes in order, and returns.              *)

ExecutorLeaves == UNCHANGED <<streamVars, mpc, bodyVars, waitVars, todo>>

(* Fault: a frame gets the number of the one before it. *)
SameSeq == rseq

NextSeq == rseq + 1

(* send, with a frame that carries no data. *)
SendProgress ==
  /\ epc = "running" /\ rseq = 0
  /\ rseq' = NextSeq
  /\ out' = Append(out, Bare("head", rseq'))
  /\ UNCHANGED <<epc, produced, remaining, result, sentBytes, gate>>
  /\ ExecutorLeaves

(* send, with n bytes of data. *)
SendData(n) ==
  /\ epc = "running" /\ out # <<>>
  /\ produced + n <= ResponseBytes
  /\ epc' = "sending" /\ produced' = produced + n /\ remaining' = n
  /\ UNCHANGED <<result, rseq, outVars, gate>>
  /\ ExecutorLeaves

Sending(left) ==
  /\ remaining' = left
  /\ epc' = IF left = 0 THEN "running" ELSE "sending"

Smaller(a, b) == IF a < b THEN a ELSE b

(* One turn of the loop of publishResponseData that has credit. *)
PublishChunk ==
  LET n == Available(gate, Smaller(remaining, ChunkBytes))
  IN /\ epc = "sending" /\ ~MustWait(gate)
     /\ gate' = Spend(gate, n)
     /\ rseq' = NextSeq
     /\ out' = Append(out, [type |-> "data", seq |-> rseq', n |-> n,
                            off |-> produced - remaining])
     /\ sentBytes' = sentBytes + n
     /\ Sending(remaining - n)
     /\ UNCHANGED <<produced, result>>
     /\ ExecutorLeaves

(* takeAvailable, out of credit, receives a grant. *)
ReceiveGrant ==
  /\ epc = "sending" /\ MustWait(gate)
  /\ gate.grants # <<>>
  /\ gate' = TakeGrant(gate)
  /\ UNCHANGED <<outVars, execVars>>
  /\ ExecutorLeaves

(* Fault: out of credit, the rest of the data is dropped at once. *)
GivesUpUnlessGranted == gate.grants = <<>>

(* Fault: the context is only looked at once a grant is there. *)
GivesUpAfterGrant == ctxDone /\ gate.grants # <<>>

GivesUp == ctxDone

(* takeAvailable, out of credit, sees the end of the context: the rest of   *)
(* the data is dropped, and the executor is not told.                       *)
DropData ==
  /\ epc = "sending" /\ MustWait(gate)
  /\ GivesUp
  /\ Sending(0)
  /\ UNCHANGED <<produced, result, rseq, outVars, gate>>
  /\ ExecutorLeaves

(* The executor returns: success once it has sent everything, an error, or  *)
(* no frame at all.  The stream_seq of its frames stays as it set it.       *)
ExecutorReturns(type) ==
  /\ epc = "running"
  /\ type = "end" =>
       produced = ResponseBytes /\ out # <<>> /\ (HeedsContext => ~ctxDone)
  /\ result' = IF type = "nothing" THEN <<>> ELSE <<Bare(type, 0)>>
  /\ epc' = "finished"
  /\ UNCHANGED <<produced, remaining, rseq, gate, outVars>>
  /\ ExecutorLeaves

(* The executor returns its whole response and has sent nothing of it. *)
ExecutorReturnsResponse ==
  /\ MayBuffer
  /\ epc = "running" /\ out = <<>>
  /\ result' = <<Bare("head", 1),
                 [type |-> "data", seq |-> 2, off |-> 0, n |-> ResponseBytes],
                 Bare("end", 3)>>
  /\ epc' = "finished"
  /\ UNCHANGED <<produced, remaining, rseq, gate, outVars>>
  /\ ExecutorLeaves

-----------------------------------------------------------------------------
Reader ==
  \/ ReadDuplicate \/ ReadRejected \/ ReadStart \/ ReadData
  \/ ReadBodyRef \/ ReadBodyRefFails \/ ReadCredit \/ ReadOther
  \/ ReadGivesUp \/ StartExecution \/ RejectMode

Download == DownloadReturns \/ DownloadFails

Waiter ==
  \/ WaitSkips \/ WaitTakesCredit \/ HandOverGrant \/ WaitTakesCancel
  \/ FinishRequest \/ PublishAnswer

Sender == PublishChunk \/ ReceiveGrant \/ DropData

Executor ==
  \/ SendProgress
  \/ \E n \in 1..ResponseBytes : SendData(n)
  \/ Sender
  \/ \E type \in {"end", "error", "nothing"} : ExecutorReturns(type)
  \/ ExecutorReturnsResponse

Next ==
  \/ Control \/ Wire \/ IdleTime \/ Deadline
  \/ Reader \/ Download \/ Waiter \/ Executor

(***************************************************************************)
(* The goroutines run and time passes.  Of the executor and of a download, *)
(* both given the context, it is only assumed that they return once it is  *)
(* done; Control need not do anything.                                     *)
(***************************************************************************)
Fairness ==
  /\ WF_vars(Reader) /\ WF_vars(Waiter) /\ WF_vars(Sender)
  /\ WF_vars(ctxDone /\ Download)
  /\ WF_vars(ctxDone /\ \E type \in {"error", "nothing"} : ExecutorReturns(type))
  /\ WF_vars(IdleTime) /\ WF_vars(Deadline)

Spec == Init /\ [][Next]_vars

FairSpec == Spec /\ Fairness

-----------------------------------------------------------------------------
(* Properties. *)

OutFrames == [type : {"head", "data", "end", "error", "cancelled"},
              seq : Nat, off : Nat, n : Nat]

TypeOK ==
  /\ StreamTypeOK
  /\ mpc \in {"reading", "waiting", "granting", "cancelling",
             "publishing", "done"}
  /\ mode \in {"none", "decoded", "other"}
  /\ body \in Seq(Nat \X Nat) /\ download \in Seq(Seq(Nat \X Nat))
  /\ grantBytes \in Nat /\ canceled \in BOOLEAN
  /\ epc \in {"none", "running", "sending", "finished"}
  /\ produced \in Nat /\ remaining \in Nat /\ rseq \in Nat /\ sentBytes \in Nat
  /\ result \in Seq(OutFrames) /\ todo \in Seq(OutFrames)
  /\ gate \in [limited : BOOLEAN, credit : Nat, grants : Seq(Nat)]
  /\ out \in Seq(OutFrames)

(* The executor starts on exactly the body that this attempt of Control     *)
(* uploaded, whatever was lost, repeated or sent by another attempt: every  *)
(* byte, once, in order.                                                    *)
BodyIntact ==
  epc # "none" =>
    /\ mode = "decoded"
    /\ body = [i \in 1..ExpectedUpload |-> <<Attempt, i - 1>>]

(* A body that is taken by reference is the whole of what Control stored.   *)
BodyRefWhole ==
  [][DownloadReturns =>
       body' = [i \in 1..ExpectedUpload |-> <<Attempt, i - 1>>]]_vars

(* The bytes published never exceed the initial credit and what Control has *)
(* granted since, although lost frames make the gate fall behind Control.   *)
CreditRespected ==
  DownloadCredit > 0 => sentBytes <= DownloadCredit + granted

(* No credit that Control has granted for data it received is lost on its   *)
(* way through waitForResult and the channel to the executor: what is not   *)
(* published yet is in the gate, in its channel or about to be put there.   *)
CreditConserved ==
  DownloadCredit > 0 /\ EarlyCredit = 0 /\ ~MayBuffer =>
    Unused(gate) + grantBytes + sentBytes = DownloadCredit + taken

(* The head and data frames that the send function publishes are numbered   *)
(* from 1 without a gap, and the data follow each other without an overlap, *)
(* and without a gap for as long as the context lives.  The frames of the   *)
(* result, an End or an Error, go out with the number the executor set.     *)
DataFrame(i) == out[i].type = "data"

ResponseInOrder ==
  /\ \A i \in DOMAIN out : out[i].type \in {"head", "data"} => out[i].seq = i
  /\ \A i, j \in DOMAIN out :
       DataFrame(i) /\ DataFrame(j) /\ i < j => out[i].off + out[i].n <= out[j].off
  /\ ~ctxDone /\ epc # "finished" => sentBytes = produced - remaining

(* An End of an executor that heeds its context says that the whole         *)
(* response was published, although takeAvailable drops data silently.      *)
EndMeansComplete ==
  HeedsContext /\ (\E i \in DOMAIN out : out[i].type = "end") =>
    sentBytes = ResponseBytes

(* A request that has executed ends with the executor's verdict: its result *)
(* if it gave one, and Cancelled or End if Control cancelled it.            *)
ExecutionAnswered ==
  mpc = "done" /\ epc # "none" =>
    /\ epc = "finished"
    /\ result # <<>> =>
         out[Len(out)].type \in
           IF canceled THEN {"cancelled", "end"} ELSE {"end", "error"}

(* The refinement: the frames of a request are a stream under credit, which *)
(* is closed once.                                                          *)
Closed == \E i \in DOMAIN out : out[i].type \in {"end", "error", "cancelled"}

Stream == INSTANCE CreditStream
            WITH Initial <- DownloadCredit, bytes <- sentBytes,
                 frames <- Len(out), closed <- Closed

ImplementsCreditStream == Stream!Spec

(* A body that stops arriving does not hold the request for ever, once      *)
(* Control is silent (an accepted frame of any type resets the idle clock,  *)
(* and MaxSeq bounds them): its reader gives up.  The exception is a        *)
(* download that does not return, for a request without a deadline: the     *)
(* idle clock is not looked at meanwhile, and the client has no timeout.    *)
BodyReadEnds == <>(mpc # "reading" \/ [](download # <<>> /\ ~hasDeadline))

(* A cancel that waitForResult accepts ends the request.                    *)
CancelEnds == canceled ~> mpc = "done"

(* A request with a deadline ends, and its place is free again.             *)
DeadlineEnds == hasDeadline ~> mpc = "done"
=============================================================================
