------------------------ MODULE DecodedRequestProofs ------------------------
(***************************************************************************)
(* What is proved of DecodedRequest for every value of its constants.      *)
(***************************************************************************)
EXTENDS DecodedRequest, RequestStreamProofs, CreditGateProofs

-----------------------------------------------------------------------------
(* Types. *)

RequestTypeOK ==
  /\ mpc \in {"reading", "waiting", "granting", "cancelling",
             "publishing", "done"}
  /\ mode \in {"none", "decoded", "other"}
  /\ body \in Seq(Nat \X Nat) /\ download \in Seq(Seq(Nat \X Nat))
  /\ grantBytes \in Nat /\ canceled \in BOOLEAN
  /\ epc \in {"none", "running", "sending", "finished"}
  /\ produced \in Nat /\ remaining \in Nat /\ rseq \in Nat /\ sentBytes \in Nat
  /\ result \in Seq(OutFrames) /\ todo \in Seq(OutFrames)
  /\ gate \in Gates
  /\ out \in Seq(OutFrames)

(* The types of the stream and those of the request. *)
LEMMA TypeParts == TypeOK <=> StreamTypeOK /\ RequestTypeOK
BY DEF TypeOK, RequestTypeOK, Gates

(* The bytes of a frame, and of what a download of them may return. *)
LEMMA BytesType ==
  ASSUME NEW f \in Frames
  PROVE  /\ Bytes(f) \in Seq(Nat \X Nat) /\ Len(Bytes(f)) = f.n /\ f.n \in Nat
         /\ \A i \in 1..f.n : Bytes(f)[i] = <<f.attempt, f.off + i - 1>>
<1>1. f.n \in Nat /\ f.off \in Nat /\ f.attempt \in Nat
  BY DEF Frames
<1>2. \A i \in 1..f.n : <<f.attempt, f.off + i - 1>> \in Nat \X Nat
  BY <1>1
<1>3. Bytes(f) \in [1..f.n -> Nat \X Nat]
  BY <1>2 DEF Bytes
<1>4. Bytes(f) \in Seq(Nat \X Nat)
  BY <1>1, <1>3, SeqDef
<1>5. DOMAIN Bytes(f) = 1..f.n
  BY DEF Bytes
<1>6. Len(Bytes(f)) = f.n
  BY <1>1, <1>4, <1>5, LenProperties
<1>7. QED BY <1>1, <1>4, <1>6 DEF Bytes

(* Whatever a store returns is a sequence of bytes. *)
LEMMA DownloadsType ==
  ASSUME NEW stored \in Seq(Nat \X Nat), NEW b \in Downloads(stored)
  PROVE  b \in Seq(Nat \X Nat)
<1>1. Foreign \in Nat \X Nat
  BY DEF Foreign
<1>2. Len(stored) \in Nat /\ DOMAIN stored = 1..Len(stored)
  BY LenProperties
<1>3. ASSUME NEW s \in Seq(Nat \X Nat), NEW n \in Int, n <= Len(s)
      PROVE  SubSeq(s, 1, n) \in Seq(Nat \X Nat)
  <2>1. Len(s) \in Nat
    BY LenProperties
  <2>2. \A i \in 1..n : s[i] \in Nat \X Nat
    BY <1>3, <2>1, ElementOfSeq
  <2>3. QED BY <2>2, SubSeqProperties
<1>4. ASSUME NEW object \in Objects(stored)
      PROVE  object \in Seq(Nat \X Nat)
  <2>1. SubSeq(stored, 1, Len(stored) - 1) \in Seq(Nat \X Nat)
    BY <1>2, <1>3
  <2>2. Append(stored, Foreign) \in Seq(Nat \X Nat)
    BY <1>1, AppendProperties
  <2>3. [i \in DOMAIN stored |-> Foreign] \in Seq(Nat \X Nat)
    BY <1>1, <1>2, SeqDef
  <2>4. QED BY <2>1, <2>2, <2>3 DEF Objects
<1>5. ExpectedSize(stored) + 1 \in Nat
  BY <1>2 DEF ExpectedSize
<1>6. PICK object \in Objects(stored) : b = Fetch(stored, object)
  BY DEF Downloads
<1>7. object \in Seq(Nat \X Nat)
  BY <1>4
<1>8. QED
  <2> DEFINE limit == ExpectedSize(stored) + 1
  <2>1. CASE Len(object) <= limit
    BY <1>6, <1>7, <2>1 DEF Fetch
  <2>2. CASE ~(Len(object) <= limit)
    <3>1. b = SubSeq(object, 1, limit)
      BY <1>6, <2>2 DEF Fetch
    <3>2. Len(object) \in Nat /\ limit \in Nat
      BY <1>5, <1>7, LenProperties
    <3> HIDE DEF limit
    <3>3. limit <= Len(object)
      BY <2>2, <3>2
    <3>4. QED BY <1>3, <1>7, <3>1, <3>2, <3>3
  <2>3. QED BY <2>1, <2>2

(* The stream, whatever the step. *)
Inputs == Control \/ Wire \/ IdleTime \/ Deadline

(* The goroutine of the request while the body is not there. *)
ReadsBody == Reader \/ Download

Owner == ReadsBody \/ Waiter \/ Executor

(* Control, the wire and time leave the request alone. *)
LEMMA InputsKeepStream ==
  ASSUME StreamOK, Inputs
  PROVE  StreamOK' /\ UNCHANGED requestVars
<1> USE DEF StreamOK
<1>1. ASSUME NEW type \in FrameTypes \ {"credit"}, NEW n \in Nat,
             Uploads(type, n) \/ Says(type)
      PROVE  StreamOK'
  BY <1>1, UploadsTypes, SaysTypes, CreditSend
<1>2. ASSUME NEW n \in Nat, Grants(n)
      PROVE  StreamOK'
  BY <1>2, GrantsTypes, CreditGranted
<1>3. ASSUME NEW type \in FrameTypes, NEW seq \in Nat,
             StrayFrame(type, seq) \/ DuplicateFrame
      PROVE  StreamOK'
  BY <1>3, StrayTypes, DuplicateTypes, CreditNoise
<1>4. ASSUME IdlePasses \/ DeadlinePasses
      PROVE  StreamOK'
  BY <1>4, TimeTypes, CreditTime
  DEF IdlePasses, DeadlinePasses, ctlVars, queueVars
<1> HIDE DEF StreamOK
<1>5. CASE Control
  <2>1. ASSUME NEW type \in {"start", "startOther"}, ControlStarts(type) PROVE StreamOK'
    BY <1>1, <2>1 DEF ControlStarts, FrameTypes
  <2>2. ASSUME NEW n \in 1..ExpectedUpload, ControlSendsData(n) PROVE StreamOK'
    BY <1>1, <2>2, DecodedRequestAssumption DEF ControlSendsData, FrameTypes
  <2>3. ASSUME ControlSendsBodyRef PROVE StreamOK'
    BY <1>1, <2>3, DecodedRequestAssumption DEF ControlSendsBodyRef, FrameTypes
  <2>4. ASSUME NEW n \in 1..ResponseBytes, ControlGrants(n) PROVE StreamOK'
    BY <1>2, <2>4, DecodedRequestAssumption DEF ControlGrants
  <2>5. ASSUME NEW type \in {"cancel", "end"}, ControlEnds(type) PROVE StreamOK'
    BY <1>1, <2>5 DEF ControlEnds, FrameTypes
  <2>6. QED BY <1>5, <2>1, <2>2, <2>3, <2>4, <2>5 DEF Control
<1>6. CASE Wire
  BY <1>3, <1>6, RequestStreamAssumption DEF Wire, FrameTypes
<1>7. CASE IdleTime \/ Deadline
  BY <1>4, <1>7 DEF IdleTime, Deadline
<1>8. QED BY <1>5, <1>6, <1>7 DEF Inputs, Control, Wire, IdleTime, Deadline

(* The request takes frames from the stream and does nothing else to it. *)
LEMMA OwnerTakesFrames ==
  ASSUME StreamOK, Owner
  PROVE  OwnerStep
<1>1. ctxDone \in BOOLEAN
  BY DEF StreamOK, StreamTypeOK
<1>2. CASE ReadsBody
  <2>1. CASE ReadDuplicate \/ ReadRejected
    BY <1>1, <2>1 DEF ReadDuplicate, ReadRejected, RequestReturns, OwnerStep
  <2>2. CASE ReadStart
    <3>1. {"start", "startOther"} \in SUBSET FrameTypes
      BY DEF FrameTypes
    <3>2. QED BY <1>1, <2>2, <3>1 DEF ReadStart, OwnerStep
  <2>3. CASE ReadData
    <3>1. {"data"} \in SUBSET FrameTypes
      BY DEF FrameTypes
    <3>2. QED BY <1>1, <2>3, <3>1 DEF ReadData, OwnerStep
  <2>4. CASE ReadBodyRef \/ ReadBodyRefFails
    <3>1. {"bodyRef"} \in SUBSET FrameTypes
      BY DEF FrameTypes
    <3>2. QED BY <1>1, <2>4, <3>1 DEF ReadBodyRef, ReadBodyRefFails, OwnerStep
  <2>5. CASE ReadCredit
    <3>1. {"credit"} \in SUBSET FrameTypes
      BY DEF FrameTypes
    <3>2. QED BY <1>1, <2>5, <3>1 DEF ReadCredit, OwnerStep
  <2>6. CASE ReadOther
    <3>1. {"cancel", "end", "error", "cancelled"}
            \cup (IF mode = "none" THEN {"bodyRef"} ELSE {}) \in SUBSET FrameTypes
      BY DEF FrameTypes
    <3>2. QED BY <2>6, <3>1 DEF ReadOther, RequestReturns, OwnerStep
  <2>7. CASE ReadGivesUp \/ StartExecution \/ RejectMode
    BY <1>1, <2>7 DEF ReadGivesUp, StartExecution, RejectMode, RequestReturns,
                      OwnerStep, streamVars
  <2>8. CASE Download
    <3>1. UNCHANGED streamVars
      BY <2>8 DEF Download, DownloadReturns, DownloadFails, Downloading
    <3>2. QED BY <1>1, <3>1 DEF OwnerStep, streamVars
  <2>9. QED BY <1>2, <2>1, <2>2, <2>3, <2>4, <2>5, <2>6, <2>7, <2>8
            DEF ReadsBody, Reader
<1>3. CASE Waiter
  <2>1. CASE WaitSkips
    <3>1. FrameTypes \ {"cancel", "credit"} \in SUBSET FrameTypes
          /\ {"credit"} \in SUBSET FrameTypes
      BY DEF FrameTypes
    <3>2. QED BY <1>1, <2>1, <3>1 DEF WaitSkips, OwnerStep
  <2>2. CASE WaitTakesCredit
    <3>1. {"credit"} \in SUBSET FrameTypes
      BY DEF FrameTypes
    <3>2. QED BY <1>1, <2>2, <3>1 DEF WaitTakesCredit, OwnerStep
  <2>3. CASE WaitTakesCancel
    <3>1. {"cancel"} \in SUBSET FrameTypes
      BY DEF FrameTypes
    <3>2. QED BY <2>3, <3>1 DEF WaitTakesCancel, CancelContext, OwnerStep
  <2>4. CASE HandOverGrant \/ FinishRequest \/ PublishAnswer
    BY <1>1, <2>4 DEF HandOverGrant, FinishRequest, PublishAnswer, RequestReturns,
                      OwnerStep, streamVars
  <2>5. QED BY <1>3, <2>1, <2>2, <2>3, <2>4 DEF Waiter
<1>4. CASE Executor
  <2>1. UNCHANGED streamVars
    BY <1>4 DEF Executor, Sender, SendProgress, SendData, PublishChunk, ReceiveGrant,
                DropData, ExecutorReturns, ExecutorReturnsResponse, ExecutorLeaves
  <2>2. QED BY <1>1, <2>1 DEF OwnerStep, streamVars
<1>5. QED BY <1>2, <1>3, <1>4 DEF Owner

(* The stream is sound after every step. *)
LEMMA StreamNext ==
  ASSUME StreamOK, [Next]_vars
  PROVE  StreamOK'
<1>1. CASE Inputs
  BY <1>1, InputsKeepStream
<1>2. CASE Owner
  BY <1>2, OwnerTakesFrames, OwnerKeepsStream
<1>3. CASE UNCHANGED vars
  BY <1>3, CreditTime DEF vars, streamVars, ctlVars, queueVars, StreamOK, StreamTypeOK
<1>4. QED BY <1>1, <1>2, <1>3 DEF Next, Inputs, Owner, ReadsBody

(* The stream is sound when the request starts. *)
LEMMA StreamStarts ==
  ASSUME Init
  PROVE  StreamOK
<1> DEFINE v == NewValidator(Attempt, UploadCredit, AllowBodyRef)
<1>1. v \in Validators
  BY NewValidatorType, RequestStreamAssumption, DecodedRequestAssumption DEF Attempt
<1>2. v.attempt = Attempt
  BY DEF NewValidator
<1>3. StreamInit(1, v)
  BY DEF Init
<1> HIDE DEF v
<1>4. QED BY <1>1, <1>2, <1>3, StreamInitTypes, CreditInit DEF StreamOK

(* The variables of the request, step by step. *)
LEMMA BareType ==
  ASSUME NEW type \in {"head", "data", "end", "error", "cancelled"}, NEW seq \in Nat
  PROVE  Bare(type, seq) \in OutFrames
BY DEF Bare, OutFrames

(* The answer of an executor that has sent nothing of its response. *)
Buffered ==
  <<Bare("head", 1),
    [type |-> "data", seq |-> 2, off |-> 0, n |-> ResponseBytes],
    Bare("end", 3)>>

(* A response returned whole consists of frames. *)
LEMMA BufferedType == Buffered \in Seq(OutFrames)
<1> DEFINE d == [type |-> "data", seq |-> 2, off |-> 0, n |-> ResponseBytes]
<1>1. Bare("head", 1) \in OutFrames /\ Bare("end", 3) \in OutFrames
  BY BareType
<1>2. d \in OutFrames
  BY DecodedRequestAssumption DEF OutFrames
<1> HIDE DEF d
<1>3. <<Bare("head", 1), d, Bare("end", 3)>> \in Seq(OutFrames)
  BY <1>1, <1>2
<1>4. QED BY <1>3 DEF Buffered, d

(* What a cancel makes of a result consists of frames. *)
LEMMA ApplyCancellationType ==
  ASSUME NEW fs \in Seq(OutFrames)
  PROVE  ApplyCancellation(fs) \in Seq(OutFrames)
<1>1. CASE fs = <<>> \/ fs[Len(fs)].type = "end"
  BY <1>1 DEF ApplyCancellation
<1>2. CASE ~(fs = <<>> \/ fs[Len(fs)].type = "end")
  <2> DEFINE n == Len(fs)
             f == [fs[n] EXCEPT !.type = "cancelled"]
  <2>1. n \in 1..Len(fs)
    BY <1>2, EmptySeq, LenProperties
  <2>2. fs[n] \in OutFrames
    BY <2>1, ElementOfSeq
  <2>3. f \in OutFrames
    BY <2>2 DEF OutFrames
  <2>4. ApplyCancellation(fs) = [fs EXCEPT ![n] = f]
    BY <1>2, <2>1, LenProperties DEF ApplyCancellation
  <2> HIDE DEF n, f
  <2>5. QED BY <2>1, <2>3, <2>4, ExceptSeq
<1>3. QED BY <1>1, <1>2

(* The reader of the body keeps the types of the request. *)
LEMMA ReaderTypes ==
  ASSUME TypeOK, ReadsBody
  PROVE  RequestTypeOK'
<1> USE DEF RequestTypeOK, Reading, requestVars, bodyVars, waitVars, execVars, outVars,
            RequestReturns, Answer
<1>1. StreamTypeOK /\ RequestTypeOK
  BY TypeParts
<1>2. ErrorFrame \in OutFrames
  BY BareType DEF ErrorFrame
<1>3. <<ErrorFrame>> \in Seq(OutFrames)
  BY <1>2
<1>4. CASE ReadDuplicate \/ ReadRejected \/ ReadCredit \/ ReadOther \/ ReadGivesUp
  BY <1>1, <1>4 DEF ReadDuplicate, ReadRejected, ReadCredit, ReadOther, ReadGivesUp
<1>5. CASE ReadStart
  BY <1>1, <1>5 DEF ReadStart
<1>6. CASE ReadData
  <2>1. Bytes(Frame) \in Seq(Nat \X Nat) /\ body \in Seq(Nat \X Nat)
    BY <1>1, <1>6, AcceptAdvances, BytesType DEF ReadData
  <2>2. body' = body \o Bytes(Frame)
    BY <1>6 DEF ReadData
  <2>3. body' \in Seq(Nat \X Nat)
    BY <2>1, <2>2, ConcatProperties
  <2>4. QED BY <1>1, <1>6, <2>3 DEF ReadData
<1>7. CASE ReadBodyRef
  <2>1. Bytes(Frame) \in Seq(Nat \X Nat)
    BY <1>1, <1>7, AcceptAdvances, BytesType DEF ReadBodyRef
  <2>2. <<Bytes(Frame)>> \in Seq(Seq(Nat \X Nat))
    BY <2>1
  <2>3. download' \in Seq(Seq(Nat \X Nat))
    BY <1>7, <2>2 DEF ReadBodyRef
  <2>4. QED BY <1>1, <1>7, <2>3 DEF ReadBodyRef
<1>8. CASE ReadBodyRefFails \/ RejectMode
  BY <1>1, <1>3, <1>8 DEF ReadBodyRefFails, RejectMode
<1>9. CASE StartExecution
  BY <1>1, <1>9 DEF StartExecution
<1>10. CASE Download
  <2>1. /\ download # <<>> /\ download' = <<>>
        /\ UNCHANGED <<mode, waitVars, execVars, gate, outVars>>
    BY <1>10 DEF Download, DownloadReturns, DownloadFails, Downloading
  <2>2. download' \in Seq(Seq(Nat \X Nat))
    BY <2>1, EmptySeq
  <2>3. CASE DownloadReturns
    <3>1. 1 \in 1..Len(download)
      BY <1>1, <2>1, EmptySeq, LenProperties
    <3>2. download[1] \in Seq(Nat \X Nat)
      BY <1>1, <3>1, ElementOfSeq
    <3>3. body' \in Downloads(download[1]) /\ UNCHANGED <<mpc, todo>>
      BY <2>3 DEF DownloadReturns
    <3>4. body' \in Seq(Nat \X Nat)
      BY <3>2, <3>3, DownloadsType
    <3>5. QED BY <1>1, <2>1, <2>2, <3>3, <3>4
  <2>4. CASE DownloadFails
    <3>1. body' = body /\ mpc' = "publishing" /\ todo' = <<ErrorFrame>>
      BY <2>4 DEF DownloadFails
    <3>2. todo' \in Seq(OutFrames)
      BY <1>3, <3>1, Zenon
    <3>3. QED BY <1>1, <2>1, <2>2, <3>1, <3>2
  <2>5. QED BY <1>10, <2>3, <2>4 DEF Download
<1>11. QED BY <1>4, <1>5, <1>6, <1>7, <1>8, <1>9, <1>10 DEF ReadsBody, Reader

(* So does the goroutine that waits for the result. *)
LEMMA WaiterTypes ==
  ASSUME TypeOK, Waiter
  PROVE  RequestTypeOK'
<1> USE DEF RequestTypeOK, Waiting, requestVars, bodyVars, waitVars, execVars, outVars,
            RequestReturns, Answer
<1>1. StreamTypeOK /\ RequestTypeOK
  BY TypeParts
<1>2. CASE WaitSkips \/ WaitTakesCancel
  BY <1>1, <1>2 DEF WaitSkips, WaitTakesCancel
<1>3. CASE WaitTakesCredit
  <2>1. Frame.n \in Nat
    BY <1>1, <1>3, AcceptAdvances DEF WaitTakesCredit, Frames
  <2>2. QED BY <1>1, <1>3, <2>1 DEF WaitTakesCredit
<1>4. CASE HandOverGrant
  <2>1. Grant(gate, grantBytes) \in Gates
    BY <1>1, GrantAdds
  <2>2. QED BY <1>1, <1>4, <2>1 DEF HandOverGrant
<1>5. CASE FinishRequest
  <2>1. todo' \in Seq(OutFrames)
    BY <1>1, <1>5, ApplyCancellationType DEF FinishRequest
  <2>2. QED BY <1>1, <1>5, <2>1 DEF FinishRequest
<1>6. CASE PublishAnswer
  <2>1. CASE todo = <<>>
    BY <1>1, <1>6, <2>1 DEF PublishAnswer
  <2>2. CASE todo # <<>>
    <3>1. /\ Head(todo) \in OutFrames /\ Tail(todo) \in Seq(OutFrames)
          /\ out \in Seq(OutFrames)
      BY <1>1, <2>2, HeadTailProperties
    <3>2. Append(out, Head(todo)) \in Seq(OutFrames)
      BY <3>1, AppendProperties
    <3>3. sentBytes + Head(todo).n \in Nat
      BY <1>1, <3>1 DEF OutFrames
    <3>4. QED BY <1>1, <1>6, <2>2, <3>1, <3>2, <3>3 DEF PublishAnswer
  <2>3. QED BY <2>1, <2>2
<1>7. QED BY <1>2, <1>3, <1>4, <1>5, <1>6 DEF Waiter

(* A chunk takes at least one byte, and no more than remains or is allowed. *)
LEMMA ChunkBounds ==
  ASSUME TypeOK, PublishChunk, remaining # 0
  PROVE  LET n == Available(gate, Smaller(remaining, ChunkBytes))
         IN /\ n \in 1..remaining
            /\ gate' = Spend(gate, n)
            /\ gate' \in Gates /\ gate'.limited = gate.limited
            /\ gate.limited => Unused(gate') = Unused(gate) - n /\ n <= Unused(gate)
            /\ rseq' = rseq + 1
            /\ out' = Append(out, [type |-> "data", seq |-> rseq + 1, n |-> n,
                                   off |-> produced - remaining])
            /\ sentBytes' = sentBytes + n
            /\ remaining' = remaining - n
            /\ epc' = IF remaining - n = 0 THEN "running" ELSE "sending"
<1> DEFINE limit == Smaller(remaining, ChunkBytes)
           n == Available(gate, limit)
<1>1. gate \in Gates /\ remaining \in Nat \ {0} /\ ~MustWait(gate)
  BY TypeParts DEF RequestTypeOK, PublishChunk
<1>2. limit \in Nat \ {0} /\ limit <= remaining
  BY <1>1, DecodedRequestAssumption DEF Smaller
<1>3. /\ gate' = Spend(gate, n) /\ rseq' = rseq + 1
      /\ out' = Append(out, [type |-> "data", seq |-> rseq + 1, n |-> n,
                             off |-> produced - remaining])
      /\ sentBytes' = sentBytes + n
      /\ remaining' = remaining - n
      /\ epc' = IF remaining - n = 0 THEN "running" ELSE "sending"
  BY DEF PublishChunk, NextSeq, Sending
<1> HIDE DEF limit
<1>4. /\ n \in 1..limit /\ Spend(gate, n) \in Gates
      /\ Spend(gate, n).limited = gate.limited
      /\ gate.limited => Unused(Spend(gate, n)) = Unused(gate) - n /\ n <= Unused(gate)
  BY <1>1, <1>2, SpendTakes
<1> HIDE DEF n
<1>5. n \in 1..remaining
  BY <1>1, <1>2, <1>4
<1>6. QED BY <1>3, <1>4, <1>5 DEF n, limit

(* What is left to send is a part of what was given to send. *)
SendInv ==
  /\ mpc = "reading" => epc = "none"
  /\ remaining <= produced
  /\ epc = "sending" <=> remaining # 0

(* The executor keeps the types, and sends only while it has bytes left. *)
LEMMA ExecutorTypes ==
  ASSUME TypeOK, SendInv, Executor
  PROVE  RequestTypeOK' /\ SendInv'
<1> USE DEF RequestTypeOK, SendInv, bodyVars, waitVars, execVars, outVars, ExecutorLeaves
<1>1. StreamTypeOK /\ RequestTypeOK
  BY TypeParts
<1>2. CASE SendProgress
  <2>1. rseq' = rseq + 1 /\ out' = Append(out, Bare("head", rseq'))
    BY <1>2 DEF SendProgress, NextSeq
  <2>2. Bare("head", rseq') \in OutFrames /\ out \in Seq(OutFrames) /\ rseq' \in Nat
    BY <1>1, <2>1, BareType
  <2>3. out' \in Seq(OutFrames)
    BY <2>1, <2>2, AppendProperties
  <2>4. QED BY <1>1, <1>2, <2>2, <2>3 DEF SendProgress
<1>3. CASE \E n \in 1..ResponseBytes : SendData(n)
  <2>1. PICK n \in 1..ResponseBytes : SendData(n)
    BY <1>3
  <2>2. produced' = produced + n /\ remaining' = n /\ n \in Nat \ {0} /\ remaining = 0
    BY <1>1, <2>1, DecodedRequestAssumption DEF SendData
  <2>3. QED BY <1>1, <2>1, <2>2 DEF SendData
<1>4. CASE PublishChunk
  <2> DEFINE n == Available(gate, Smaller(remaining, ChunkBytes))
             f == [type |-> "data", seq |-> rseq + 1, n |-> n, off |-> produced - remaining]
  <2>1. remaining # 0
    BY <1>4 DEF PublishChunk
  <2>2. /\ n \in 1..remaining /\ gate' \in Gates /\ rseq' = rseq + 1
        /\ out' = Append(out, f) /\ sentBytes' = sentBytes + n
        /\ remaining' = remaining - n
        /\ epc' = IF remaining - n = 0 THEN "running" ELSE "sending"
    BY <1>4, <2>1, ChunkBounds
  <2> HIDE DEF n
  <2>3. n \in Nat /\ remaining - n \in Nat /\ produced - remaining \in Nat
        /\ remaining - n <= produced
    BY <1>1, <2>2
  <2>4. f \in OutFrames /\ out \in Seq(OutFrames)
    BY <1>1, <2>3 DEF OutFrames
  <2>5. out' \in Seq(OutFrames)
    <3> HIDE DEF f
    <3>1. QED BY <2>2, <2>4, AppendProperties
  <2>6. rseq' \in Nat /\ sentBytes' \in Nat
    BY <1>1, <2>2, <2>3
  <2>7. UNCHANGED <<mpc, bodyVars, waitVars, todo, produced, result>>
    BY <1>4 DEF PublishChunk
  <2> HIDE DEF f
  <2>8. QED BY <1>1, <2>2, <2>3, <2>5, <2>6, <2>7
<1>5. CASE ReceiveGrant
  <2>1. gate' = TakeGrant(gate) /\ gate \in Gates /\ gate.grants # <<>>
    BY <1>1, <1>5 DEF ReceiveGrant
  <2>2. gate' \in Gates
    BY <2>1, TakeGrantMoves
  <2>3. QED BY <1>1, <1>5, <2>2 DEF ReceiveGrant
<1>6. CASE DropData
  BY <1>1, <1>6 DEF DropData, Sending
<1>7. CASE \E type \in {"end", "error", "nothing"} : ExecutorReturns(type)
  <2>1. PICK type \in {"end", "error", "nothing"} : ExecutorReturns(type)
    BY <1>7
  <2>2. result' \in Seq(OutFrames)
    <3>1. CASE type = "nothing"
      BY <2>1, <3>1, EmptySeq DEF ExecutorReturns
    <3>2. CASE type # "nothing"
      <4>1. Bare(type, 0) \in OutFrames
        BY <3>2, BareType
      <4>2. result' = <<Bare(type, 0)>>
        BY <2>1, <3>2 DEF ExecutorReturns
      <4>3. QED BY <4>1, <4>2
    <3>3. QED BY <3>1, <3>2
  <2>3. QED BY <1>1, <2>1, <2>2 DEF ExecutorReturns
<1>8. CASE ExecutorReturnsResponse
  <2>1. result' = Buffered
    BY <1>8 DEF ExecutorReturnsResponse, Buffered
  <2>2. QED BY <1>1, <1>8, <2>1, BufferedType DEF ExecutorReturnsResponse
<1>9. QED BY <1>2, <1>3, <1>4, <1>5, <1>6, <1>7, <1>8 DEF Executor, Sender

TypeInv == StreamOK /\ RequestTypeOK /\ SendInv

(* Every variable starts in its type. *)
LEMMA TypeInit ==
  ASSUME Init
  PROVE  TypeInv
<1>1. StreamOK
  BY StreamStarts
<1>2. gate \in Gates
  BY NewGateHolds, DecodedRequestAssumption DEF Init
<1>3. /\ <<>> \in Seq(Nat \X Nat) /\ <<>> \in Seq(OutFrames)
      /\ <<>> \in Seq(Seq(Nat \X Nat))
  BY EmptySeq
<1>4. /\ mpc = "reading" /\ mode = "none" /\ body = <<>> /\ grantBytes = 0
      /\ download = <<>> /\ canceled = FALSE /\ epc = "none" /\ produced = 0 /\ remaining = 0
      /\ result = <<>> /\ rseq = 0 /\ todo = <<>> /\ out = <<>> /\ sentBytes = 0
  BY DEF Init
<1>5. /\ body \in Seq(Nat \X Nat) /\ download \in Seq(Seq(Nat \X Nat))
      /\ result \in Seq(OutFrames) /\ todo \in Seq(OutFrames) /\ out \in Seq(OutFrames)
  BY <1>3, <1>4, Zenon
<1>6. SendInv
  BY <1>4 DEF SendInv
<1>7. RequestTypeOK
  <2>1. /\ mpc = "reading" /\ mode = "none" /\ epc = "none" /\ canceled \in BOOLEAN
        /\ grantBytes \in Nat /\ produced \in Nat /\ remaining \in Nat
        /\ rseq \in Nat /\ sentBytes \in Nat
    BY <1>4
  <2>2. QED BY <1>2, <1>5, <2>1 DEF RequestTypeOK
<1>8. QED BY <1>1, <1>6, <1>7 DEF TypeInv

(* Every step of the request keeps the types. *)
LEMMA TypeNext ==
  ASSUME TypeInv, [Next]_vars
  PROVE  TypeInv'
<1>1. TypeOK /\ StreamOK' /\ SendInv
  BY StreamNext, TypeParts DEF TypeInv, StreamOK
<1>2. CASE UNCHANGED requestVars
  BY <1>1, <1>2
  DEF TypeInv, RequestTypeOK, SendInv, requestVars, bodyVars, waitVars, execVars, outVars
<1>3. CASE ReadsBody
  <2>1. SendInv'
    <3>1. CASE StartExecution
      BY <1>1, <3>1 DEF StartExecution, SendInv
    <3>2. CASE ReadsBody /\ ~StartExecution
      <4>1. UNCHANGED execVars
        BY <3>2 DEF ReadsBody, Reader, ReadDuplicate, ReadRejected, ReadStart, ReadData,
             ReadBodyRef, ReadBodyRefFails, ReadCredit, ReadOther, ReadGivesUp, Reading,
             RejectMode, Download, DownloadReturns, DownloadFails, Downloading
      <4>2. mpc = "reading"
        BY <3>2 DEF ReadsBody, Reader, ReadDuplicate, ReadRejected, ReadStart, ReadData,
             ReadBodyRef, ReadBodyRefFails, ReadCredit, ReadOther, ReadGivesUp, Reading,
             RejectMode, Download, DownloadReturns, DownloadFails, Downloading
      <4>3. QED BY <1>1, <4>1, <4>2 DEF SendInv, execVars
    <3>3. QED BY <1>3, <3>1, <3>2
  <2>2. QED BY <1>1, <1>3, <2>1, ReaderTypes DEF TypeInv
<1>4. CASE Waiter
  <2>1. UNCHANGED execVars /\ mpc # "reading" /\ mpc' # "reading"
    BY <1>4 DEF Waiter, WaitSkips, WaitTakesCredit, WaitTakesCancel, HandOverGrant,
         FinishRequest, PublishAnswer, Waiting, Answer, RequestReturns
  <2>2. SendInv'
    BY <1>1, <2>1 DEF SendInv, execVars
  <2>3. QED BY <1>1, <1>4, <2>2, WaiterTypes DEF TypeInv
<1>5. CASE Executor
  BY <1>1, <1>5, ExecutorTypes DEF TypeInv
<1>6. CASE Inputs
  BY <1>1, <1>2, <1>6, InputsKeepStream DEF StreamOK, TypeInv
<1>7. QED BY <1>2, <1>3, <1>4, <1>5, <1>6 DEF Next, Inputs, ReadsBody, vars

(* Every variable keeps its type: the credit of the gate and of the         *)
(* validator, the bytes left of a send and the offsets of the response are  *)
(* never negative, whatever the order of the steps.                         *)
THEOREM DecodedTypes == Spec => []TypeOK
<1>1. Init => TypeInv
  BY TypeInit
<1>2. TypeInv /\ [Next]_vars => TypeInv'
  BY TypeNext
<1>3. TypeInv => TypeOK
  BY TypeParts DEF TypeInv, StreamOK
<1>4. QED BY <1>1, <1>2, <1>3, PTL DEF Spec

-----------------------------------------------------------------------------
(* Credit. *)

ZeroBytes(fs) == \A i \in 1..Len(fs) : fs[i].n = 0

(* Credit that the request has not lost: it is in the gate, in its channel,  *)
(* about to be put there, or used for data that are out.                     *)
Accounted == Unused(gate) + grantBytes + sentBytes

CreditBooks ==
  /\ gate.limited <=> DownloadCredit > 0
  /\ mpc = "reading" => sentBytes = 0
  /\ mpc # "granting" => grantBytes = 0
  /\ granted <= sentBytes + EarlyCredit
  /\ ~MayBuffer => ZeroBytes(result) /\ ZeroBytes(todo)
  /\ DownloadCredit > 0 /\ ~MayBuffer =>
       /\ Accounted <= DownloadCredit + taken
       /\ EarlyCredit = 0 => Accounted = DownloadCredit + taken

(* A cancel adds no bytes to a result that has none. *)
LEMMA ApplyCancellationBytes ==
  ASSUME NEW fs \in Seq(OutFrames), ZeroBytes(fs)
  PROVE  ZeroBytes(ApplyCancellation(fs))
<1>1. CASE fs = <<>> \/ fs[Len(fs)].type = "end"
  BY <1>1 DEF ApplyCancellation
<1>2. CASE ~(fs = <<>> \/ fs[Len(fs)].type = "end")
  <2> DEFINE n == Len(fs)
             f == [fs[n] EXCEPT !.type = "cancelled"]
  <2>1. n \in 1..Len(fs)
    BY <1>2, EmptySeq, LenProperties
  <2>2. fs[n] \in OutFrames /\ fs[n].n = 0
    BY <2>1, ElementOfSeq DEF ZeroBytes
  <2>3. f \in OutFrames /\ f.n = 0
    BY <2>2 DEF OutFrames
  <2>4. ApplyCancellation(fs) = [fs EXCEPT ![n] = f]
    BY <1>2, <2>1, LenProperties DEF ApplyCancellation
  <2> HIDE DEF n, f
  <2>5. /\ Len([fs EXCEPT ![n] = f]) = Len(fs)
        /\ \A j \in 1..Len(fs) : [fs EXCEPT ![n] = f][j] = IF j = n THEN f ELSE fs[j]
    BY <2>1, <2>3, ExceptSeq
  <2>6. QED BY <2>3, <2>4, <2>5 DEF ZeroBytes
<1>3. QED BY <1>1, <1>2

(* The books balance when the request starts. *)
LEMMA BooksInit ==
  ASSUME Init
  PROVE  CreditBooks
<1>1. /\ gate = NewGate(DownloadCredit) /\ sentBytes = 0 /\ grantBytes = 0
      /\ mpc = "reading" /\ result = <<>> /\ todo = <<>>
      /\ granted = 0 /\ taken = 0
  BY DEF Init, StreamInit
<1>2. (gate.limited <=> DownloadCredit > 0) /\ Unused(gate) = DownloadCredit
  BY <1>1, NewGateHolds, DecodedRequestAssumption
<1>3. ZeroBytes(<<>>)
  BY EmptySeq DEF ZeroBytes
<1>4. QED BY <1>1, <1>2, <1>3, DecodedRequestAssumption DEF CreditBooks, Accounted

(* A grant on its way is not yet in the books. *)
LEMMA BooksInputs ==
  ASSUME TypeInv, CreditBooks, Inputs
  PROVE  CreditBooks'
<1>1. UNCHANGED requestVars
  BY InputsKeepStream DEF TypeInv
<1>2. taken' = taken
  BY DEF Inputs, Control, ControlStarts, ControlSendsData, ControlSendsBodyRef,
     ControlGrants, ControlEnds, Says, Uploads, Grants, Send, Wire, StrayFrame,
     DuplicateFrame, Noise, IdleTime, IdlePasses, Deadline, DeadlinePasses, queueVars
<1>3. granted' <= sentBytes + EarlyCredit
  <2>1. CASE \E n \in 1..ResponseBytes : ControlGrants(n)
    BY <2>1 DEF ControlGrants, Grants
  <2>2. CASE Inputs /\ ~\E n \in 1..ResponseBytes : ControlGrants(n)
    <3>1. granted' = granted
      BY <2>2 DEF Inputs, Control, ControlStarts, ControlSendsData, ControlSendsBodyRef,
         ControlEnds, Says, Uploads, Wire, StrayFrame, DuplicateFrame, Noise,
         IdleTime, IdlePasses, Deadline, DeadlinePasses, ctlVars
    <3>2. QED BY <3>1 DEF CreditBooks
  <2>3. QED BY <2>1, <2>2
<1>4. QED BY <1>1, <1>2, <1>3
      DEF CreditBooks, Accounted, requestVars, waitVars, execVars, outVars

(* Reading the body leaves the response alone. *)
LEMMA ReaderLeaves ==
  ASSUME ReadsBody
  PROVE  /\ mpc = "reading"
         /\ UNCHANGED <<waitVars, produced, remaining, result, rseq, gate, outVars>>
         /\ granted' = granted
         /\ \/ todo' = todo /\ mpc' # "publishing"
            \/ todo' = <<ErrorFrame>> /\ mpc' = "publishing"
         /\ mpc' \in {"reading", "publishing", "done", "waiting"}
         /\ epc' = IF mpc' = "waiting" THEN "running" ELSE epc
         /\ mpc' = "done" => ctxDone'
<1> USE DEF Reading, RequestReturns, Answer, execVars, TakeFrame, AcceptFrame, RefuseFrame,
            ctlVars
<1>1. CASE ReadDuplicate \/ ReadRejected \/ ReadOther
  BY <1>1 DEF ReadDuplicate, ReadRejected, ReadOther
<1>2. CASE ReadGivesUp
  BY <1>2 DEF ReadGivesUp
<1>3. CASE ReadStart \/ ReadData \/ ReadBodyRef \/ ReadCredit
  BY <1>3 DEF ReadStart, ReadData, ReadBodyRef, ReadCredit
<1>4. CASE ReadBodyRefFails
  BY <1>4 DEF ReadBodyRefFails
<1>5. CASE StartExecution
  BY <1>5 DEF StartExecution, streamVars
<1>6. CASE RejectMode
  BY <1>6 DEF RejectMode, streamVars
<1>7. CASE Download
  BY <1>7 DEF Download, DownloadReturns, DownloadFails, Downloading, streamVars
<1>8. QED BY <1>1, <1>2, <1>3, <1>4, <1>5, <1>6, <1>7 DEF ReadsBody, Reader

(* While the body is read nothing is out, so nothing of the initial credit   *)
(* has come back: no credit is taken and forgotten then unless Control       *)
(* grants ahead of what it receives.                                         *)
LEMMA BooksReader ==
  ASSUME TypeInv, CreditBooks, ReadsBody, StreamOK'
  PROVE  CreditBooks'
<1>1. /\ mpc = "reading" /\ granted' = granted
      /\ UNCHANGED <<waitVars, result, gate, outVars>>
      /\ todo' = todo \/ todo' = <<ErrorFrame>>
      /\ mpc' # "granting"
  BY ReaderLeaves
<1>2. taken <= taken' /\ taken \in Nat /\ taken' \in Nat
  <2>1. taken \in Nat /\ taken' \in Nat
    BY DEF TypeInv, StreamOK, StreamTypeOK
  <2>2. CASE \E types \in SUBSET FrameTypes : AcceptFrame(types)
    BY <2>1, <2>2, AcceptAdvances DEF TypeInv, StreamOK, Frames
  <2>3. CASE taken' = taken
    BY <2>1, <2>3
  <2>4. OwnerStep
    BY OwnerTakesFrames DEF TypeInv, Owner
  <2>5. QED BY <2>2, <2>3, <2>4 DEF OwnerStep, RefuseFrame, queueVars
<1>3. EarlyCredit = 0 => taken' = taken
  <2>1. (taken <= granted)'
    BY TakenWithinGranted, PTL
  <2>2. granted = 0 \/ EarlyCredit # 0
    BY <1>1, DecodedRequestAssumption DEF TypeInv, StreamOK, StreamTypeOK, CreditBooks
  <2>3. QED BY <1>1, <1>2, <2>1, <2>2
<1>4. ZeroBytes(<<ErrorFrame>>)
  BY DEF ZeroBytes, ErrorFrame, Bare
<1>5. ZeroBytes(todo) => ZeroBytes(todo')
  BY <1>1, <1>4
<1>6. Accounted' = Accounted /\ Accounted \in Nat
  BY <1>1, UnusedType DEF Accounted, waitVars, outVars, TypeInv, RequestTypeOK
<1>7. UNCHANGED <<grantBytes, sentBytes, result, gate>>
  BY <1>1 DEF waitVars, outVars
<1>8. DownloadCredit > 0 /\ ~MayBuffer =>
        /\ Accounted' <= DownloadCredit + taken'
        /\ EarlyCredit = 0 => Accounted' = DownloadCredit + taken'
  <2> DEFINE a == Accounted
             b == Accounted'
             t == taken
             u == taken'
  <2>1. DownloadCredit > 0 /\ ~MayBuffer =>
          a <= DownloadCredit + t /\ (EarlyCredit = 0 => a = DownloadCredit + t)
    BY DEF CreditBooks
  <2>2. /\ b = a /\ a \in Nat /\ DownloadCredit \in Nat
        /\ t <= u /\ t \in Nat /\ u \in Nat /\ (EarlyCredit = 0 => u = t)
    BY <1>2, <1>3, <1>6, DecodedRequestAssumption
  <2> HIDE DEF a, b, t, u
  <2>3. DownloadCredit > 0 /\ ~MayBuffer =>
          b <= DownloadCredit + u /\ (EarlyCredit = 0 => b = DownloadCredit + u)
    BY <2>1, <2>2
  <2>4. QED BY <2>3 DEF b, u
<1>9. QED BY <1>1, <1>5, <1>7, <1>8 DEF CreditBooks

(* A grant moves from the frame into the hands of the waiter, then into the gate. *)
LEMMA BooksWaiter ==
  ASSUME TypeInv, CreditBooks, Waiter
  PROVE  CreditBooks'
<1> USE DEF Waiting, Answer, RequestReturns, waitVars, outVars, execVars
<1>1. /\ StreamTypeOK /\ RequestTypeOK /\ gate \in Gates
      /\ taken \in Nat /\ granted \in Nat /\ sentBytes \in Nat /\ grantBytes \in Nat
      /\ Unused(gate) \in Nat
  BY UnusedType DEF TypeInv, StreamOK, StreamTypeOK, RequestTypeOK
<1>2. granted' = granted /\ mpc' # "reading"
  BY DEF Waiter, WaitSkips, WaitTakesCredit, WaitTakesCancel, HandOverGrant,
     FinishRequest, PublishAnswer, AcceptFrame, RefuseFrame, TakeFrame, ctlVars, streamVars
<1>3. ASSUME NEW types, AcceptFrame(types)
      PROVE  /\ Frame.n \in Nat
             /\ taken' = taken + IF Frame.type = "credit" THEN Frame.n ELSE 0
             /\ Frame.type \in types
  BY <1>1, <1>3, AcceptAdvances DEF Frames
<1>4. CASE WaitSkips
  <2>1. CASE taken' = taken
    BY <1>2, <1>4, <2>1 DEF WaitSkips, CreditBooks, Accounted
  <2>2. CASE taken' # taken
    <3>1. AcceptFrame({"credit"}) /\ GrantIsVoid(gate, Frame.n)
      BY <1>1, <1>3, <1>4, <2>2 DEF WaitSkips, RefuseFrame
    <3>2. ~gate.limited
      BY <1>1, <1>3, <2>2, <3>1 DEF GrantIsVoid
    <3>3. QED BY <1>1, <1>2, <1>4, <3>2, DecodedRequestAssumption
              DEF WaitSkips, CreditBooks, Accounted
  <2>3. QED BY <2>1, <2>2
<1>5. CASE WaitTakesCredit
  <2>1. grantBytes = 0 /\ grantBytes' = Frame.n /\ mpc' = "granting"
    BY <1>5 DEF WaitTakesCredit, CreditBooks
  <2>2. taken' = taken + Frame.n /\ Frame.n \in Nat
    BY <1>3, <1>5 DEF WaitTakesCredit
  <2>3. UNCHANGED <<gate, sentBytes, result, todo>>
    BY <1>5 DEF WaitTakesCredit
  <2>4. Accounted' = Accounted + Frame.n /\ Accounted \in Nat
    BY <1>1, <2>1, <2>2, <2>3 DEF Accounted
  <2>5. QED BY <1>1, <1>2, <2>1, <2>2, <2>3, <2>4, DecodedRequestAssumption DEF CreditBooks
<1>6. CASE HandOverGrant
  <2>1. gate' = Grant(gate, grantBytes) /\ grantBytes' = 0 /\ mpc' = "waiting"
        /\ UNCHANGED <<taken, sentBytes, result, todo>>
    BY <1>6 DEF HandOverGrant, streamVars, queueVars
  <2>2. Unused(gate') = Unused(gate) + grantBytes /\ gate'.limited = gate.limited
    BY <1>1, <2>1, GrantAdds
  <2>3. Accounted' = Accounted
    BY <1>1, <2>1, <2>2 DEF Accounted
  <2>4. QED BY <1>2, <2>1, <2>2, <2>3 DEF CreditBooks
<1>7. CASE WaitTakesCancel
  <2>1. taken' = taken
    <3>1. AcceptFrame({"cancel"})
      BY <1>7 DEF WaitTakesCancel
    <3>2. QED BY <1>1, <1>3, <3>1
  <2>2. QED BY <1>2, <1>7, <2>1 DEF WaitTakesCancel, CreditBooks, Accounted
<1>8. CASE FinishRequest
  <2>1. /\ UNCHANGED <<taken, gate, grantBytes, sentBytes, result>>
        /\ mpc # "granting" /\ mpc' = "publishing"
        /\ todo' = IF canceled THEN ApplyCancellation(result) ELSE result
    BY <1>8 DEF FinishRequest, streamVars, queueVars
  <2>2. ZeroBytes(result) => ZeroBytes(todo')
    BY <1>1, <2>1, ApplyCancellationBytes DEF RequestTypeOK
  <2>3. QED BY <1>2, <2>1, <2>2 DEF CreditBooks, Accounted
<1>9. CASE PublishAnswer
  <2>1. UNCHANGED <<taken, gate, grantBytes, result>> /\ mpc # "granting" /\ mpc' # "granting"
    BY <1>9 DEF PublishAnswer, queueVars
  <2>2. CASE todo = <<>>
    BY <1>2, <1>9, <2>1, <2>2 DEF PublishAnswer, CreditBooks, Accounted
  <2>3. CASE todo # <<>>
    <3>1. /\ todo \in Seq(OutFrames) /\ Head(todo) \in OutFrames
          /\ Tail(todo) \in Seq(OutFrames) /\ Len(Tail(todo)) = Len(todo) - 1
          /\ \A i \in 1..Len(Tail(todo)) : Tail(todo)[i] = todo[i + 1]
          /\ Len(todo) \in Nat \ {0} /\ Head(todo) = todo[1]
      BY <1>1, <2>3, HeadTailProperties, EmptySeq DEF RequestTypeOK
    <3>2. ZeroBytes(todo) => ZeroBytes(Tail(todo)) /\ Head(todo).n = 0
      <4>1. 1 \in 1..Len(todo) /\ \A i \in 1..Len(Tail(todo)) : i + 1 \in 1..Len(todo)
        BY <3>1
      <4>2. QED BY <3>1, <4>1 DEF ZeroBytes
    <3>3. todo' = Tail(todo) /\ sentBytes' = sentBytes + Head(todo).n
      BY <1>9, <2>3 DEF PublishAnswer
    <3>4. Head(todo).n \in Nat
      BY <3>1 DEF OutFrames
    <3>5. granted' <= sentBytes' + EarlyCredit
      BY <1>1, <1>2, <3>3, <3>4, DecodedRequestAssumption DEF CreditBooks
    <3>6. ~MayBuffer => sentBytes' = sentBytes /\ ZeroBytes(todo')
      BY <1>1, <3>2, <3>3 DEF CreditBooks
    <3>7. QED BY <1>2, <2>1, <3>5, <3>6 DEF CreditBooks, Accounted
  <2>4. QED BY <2>2, <2>3
<1>10. QED BY <1>4, <1>5, <1>6, <1>7, <1>8, <1>9 DEF Waiter

(* What the gate spends is published. *)
LEMMA BooksExecutor ==
  ASSUME TypeInv, CreditBooks, Executor
  PROVE  CreditBooks'
<1> USE DEF ExecutorLeaves, streamVars, ctlVars, queueVars, waitVars, outVars, execVars
<1>1. /\ TypeOK /\ RequestTypeOK /\ gate \in Gates
      /\ taken \in Nat /\ granted \in Nat /\ sentBytes \in Nat /\ grantBytes \in Nat
      /\ Unused(gate) \in Nat
  BY UnusedType, TypeParts DEF TypeInv, StreamOK, StreamTypeOK, RequestTypeOK
<1>2. UNCHANGED <<mpc, granted, taken, grantBytes, todo>>
  BY DEF Executor, Sender, SendProgress, SendData, PublishChunk, ReceiveGrant, DropData,
     ExecutorReturns, ExecutorReturnsResponse
<1>3. CASE SendProgress \/ (\E n \in 1..ResponseBytes : SendData(n)) \/ DropData
  BY <1>2, <1>3 DEF SendProgress, SendData, DropData, CreditBooks, Accounted
<1>4. CASE PublishChunk
  <2> DEFINE n == Available(gate, Smaller(remaining, ChunkBytes))
  <2>1. remaining # 0 /\ remaining \in Nat /\ mpc # "reading"
    BY <1>4 DEF PublishChunk, TypeInv, SendInv, RequestTypeOK
  <2>2. /\ n \in 1..remaining /\ gate'.limited = gate.limited
        /\ gate.limited => Unused(gate') = Unused(gate) - n /\ n <= Unused(gate)
        /\ sentBytes' = sentBytes + n
    BY <1>1, <1>4, <2>1, ChunkBounds
  <2> HIDE DEF n
  <2>3. n \in Nat
    BY <2>1, <2>2
  <2>4. granted' <= sentBytes' + EarlyCredit
    BY <1>1, <1>2, <2>2, <2>3, DecodedRequestAssumption DEF CreditBooks
  <2>5. gate.limited => Accounted' = Accounted
    BY <1>1, <1>2, <2>2, <2>3 DEF Accounted
  <2>6. result' = result
    BY <1>4 DEF PublishChunk
  <2>7. QED BY <1>2, <2>1, <2>2, <2>4, <2>5, <2>6 DEF CreditBooks
<1>5. CASE ReceiveGrant
  <2>1. gate' = TakeGrant(gate) /\ gate.grants # <<>> /\ UNCHANGED <<sentBytes, result>>
    BY <1>5 DEF ReceiveGrant
  <2>2. gate'.limited = gate.limited /\ Unused(gate') = Unused(gate)
    BY <1>1, <2>1, TakeGrantMoves
  <2>3. QED BY <1>2, <2>1, <2>2 DEF CreditBooks, Accounted
<1>6. CASE \E type \in {"end", "error", "nothing"} : ExecutorReturns(type)
  <2>1. PICK type \in {"end", "error", "nothing"} : ExecutorReturns(type)
    BY <1>6
  <2>2. result' = <<>> \/ result' = <<Bare(type, 0)>>
    BY <2>1 DEF ExecutorReturns
  <2>3. ZeroBytes(result')
    BY <2>2 DEF ZeroBytes, Bare
  <2>4. UNCHANGED <<gate, sentBytes>>
    BY <2>1 DEF ExecutorReturns
  <2>5. QED BY <1>2, <2>3, <2>4 DEF CreditBooks, Accounted
<1>7. CASE ExecutorReturnsResponse
  BY <1>2, <1>7 DEF ExecutorReturnsResponse, CreditBooks, Accounted
<1>8. QED BY <1>3, <1>4, <1>5, <1>6, <1>7 DEF Executor, Sender

(* The books balance after every step. *)
LEMMA BooksNext ==
  ASSUME TypeInv, CreditBooks, [Next]_vars
  PROVE  CreditBooks'
<1>1. StreamOK'
  BY StreamNext DEF TypeInv
<1>2. CASE UNCHANGED vars
  BY <1>2 DEF CreditBooks, Accounted, vars, streamVars, ctlVars, queueVars, requestVars,
     waitVars, outVars, execVars
<1>3. QED BY <1>1, <1>2, BooksInputs, BooksReader, BooksWaiter, BooksExecutor
          DEF Next, Inputs, ReadsBody

(* The credit that Control grants for data it has received is not lost      *)
(* between waitForResult, the channel of the gate and the executor.         *)
THEOREM DecodedCreditConserved == Spec => []CreditConserved
<1>1. Init => TypeInv /\ CreditBooks
  BY TypeInit, BooksInit
<1>2. TypeInv /\ CreditBooks /\ [Next]_vars => (TypeInv /\ CreditBooks)'
  BY TypeNext, BooksNext
<1>3. CreditBooks => CreditConserved
  BY DEF CreditBooks, CreditConserved, Accounted
<1>4. QED BY <1>1, <1>2, <1>3, PTL DEF Spec

-----------------------------------------------------------------------------
(* The body. *)

(* What Control sends of the body is within what it announced. *)
UploadFits(f) ==
  f.attempt = Attempt =>
    /\ f.type = "data" => f.off + f.n <= ExpectedUpload
    /\ f.type = "bodyRef" => f.off = 0 /\ f.n = ExpectedUpload

(* A prefix of what Control uploads. *)
IsUpload(b) == \A i \in 1..Len(b) : b[i] = <<Attempt, i - 1>>

Whole == [i \in 1..ExpectedUpload |-> <<Attempt, i - 1>>]

BodyInv ==
  /\ uploaded <= ExpectedUpload
  /\ \A f \in Queued : UploadFits(f)
  /\ validator.allowBodyRef = AllowBodyRef
  /\ IsUpload(body) /\ Len(body) <= ExpectedUpload
  /\ mpc = "reading" /\ ~Complete => Len(body) = validator.offset
  /\ epc # "none" => mode = "decoded" /\ Len(body) = ExpectedUpload
  /\ download # <<>> => download = <<Whole>> /\ mode # "none" /\ AllowBodyRef

(* A download that is checked against its hash is the whole body. *)
LEMMA DownloadIsWhole ==
  ASSUME RefHashed, NEW b \in Downloads(Whole)
  PROVE  b = Whole
BY DEF Downloads, Verify

(* And what a reference of this attempt stands for is the whole body. *)
LEMMA RefersToWhole ==
  ASSUME NEW f \in Frames, f.attempt = Attempt, f.off = 0, f.n = ExpectedUpload
  PROVE  Bytes(f) = Whole
<1>1. \A i \in 1..ExpectedUpload : 0 + i - 1 = i - 1
  BY DecodedRequestAssumption
<1>2. QED BY <1>1 DEF Bytes, Whole

(* The stored body is the one upload of its length. *)
LEMMA WholeIsUpload ==
  /\ Whole \in Seq(Nat \X Nat) /\ Len(Whole) = ExpectedUpload /\ IsUpload(Whole)
  /\ \A b \in Seq(Nat \X Nat) : IsUpload(b) /\ Len(b) = ExpectedUpload => b = Whole
<1>1. ExpectedUpload \in Nat /\ Attempt \in Nat
  BY DecodedRequestAssumption DEF Attempt
<1>2. \A i \in 1..ExpectedUpload : <<Attempt, i - 1>> \in Nat \X Nat
  BY <1>1
<1>3. Whole \in [1..ExpectedUpload -> Nat \X Nat]
  BY <1>2 DEF Whole
<1>4. Whole \in Seq(Nat \X Nat)
  BY <1>1, <1>3, SeqDef
<1>5. Len(Whole) = ExpectedUpload
  BY <1>1, <1>4, LenProperties DEF Whole
<1>6. IsUpload(Whole)
  BY <1>5 DEF IsUpload, Whole
<1>7. ASSUME NEW b \in Seq(Nat \X Nat), IsUpload(b), Len(b) = ExpectedUpload
      PROVE  b = Whole
  <2>1. \A i \in 1..Len(b) : b[i] = Whole[i]
    BY <1>7 DEF IsUpload, Whole
  <2>2. QED BY <1>4, <1>5, <1>7, <2>1, SeqEqual
<1>8. QED BY <1>4, <1>5, <1>6, <1>7

(* A frame that starts where the body ends continues it. *)
LEMMA DataContinues ==
  ASSUME NEW b \in Seq(Nat \X Nat), IsUpload(b), NEW f \in Frames,
         f.attempt = Attempt, f.off = Len(b)
  PROVE  /\ IsUpload(b \o Bytes(f)) /\ Len(b \o Bytes(f)) = Len(b) + f.n
<1> DEFINE d == Bytes(f)
           c == b \o d
<1>1. /\ d \in Seq(Nat \X Nat) /\ Len(d) = f.n /\ f.n \in Nat /\ f.off \in Nat
      /\ \A i \in 1..f.n : d[i] = <<f.attempt, f.off + i - 1>>
  BY BytesType DEF Frames
<1>2. Len(b) \in Nat
  BY LenProperties
<1> HIDE DEF d
<1>3. /\ Len(c) = Len(b) + Len(d)
      /\ \A i \in 1..(Len(b) + Len(d)) : c[i] = IF i <= Len(b) THEN b[i] ELSE d[i - Len(b)]
  BY <1>1, ConcatProperties
<1> HIDE DEF c
<1>4. ASSUME NEW i \in 1..Len(c)
      PROVE  c[i] = <<Attempt, i - 1>>
  <2>1. i \in 1..(Len(b) + Len(d)) /\ Len(d) \in Nat
    BY <1>1, <1>3
  <2>2. CASE i <= Len(b)
    <3>1. i \in 1..Len(b) /\ c[i] = b[i]
      BY <1>2, <1>3, <2>1, <2>2
    <3>2. QED BY <3>1 DEF IsUpload
  <2>3. CASE ~(i <= Len(b))
    <3>1. i - Len(b) \in 1..f.n /\ c[i] = d[i - Len(b)]
      BY <1>1, <1>2, <1>3, <2>1, <2>3
    <3>2. c[i] = <<f.attempt, f.off + (i - Len(b)) - 1>>
      BY <1>1, <3>1
    <3>3. f.off + (i - Len(b)) - 1 = i - 1
      BY <1>1, <1>2, <2>1
    <3>4. QED BY <3>2, <3>3
  <2>4. QED BY <2>2, <2>3
<1>5. QED BY <1>1, <1>3, <1>4 DEF IsUpload, c, d

(* Nothing is uploaded and nothing read when the request starts. *)
LEMMA BodyInit ==
  ASSUME Init
  PROVE  BodyInv
<1>1. /\ uploaded = 0 /\ frames = <<>> /\ body = <<>> /\ epc = "none"
      /\ download = <<>>
      /\ validator = NewValidator(Attempt, UploadCredit, AllowBodyRef)
  BY DEF Init, StreamInit
<1>2. Queued = {}
  BY <1>1 DEF Queued, Elements
<1>3. Len(body) = 0
  BY <1>1, EmptySeq
<1>4. validator.allowBodyRef = AllowBodyRef /\ validator.offset = 0
  BY <1>1 DEF NewValidator
<1>5. QED BY <1>1, <1>2, <1>3, <1>4, DecodedRequestAssumption DEF BodyInv, IsUpload

(* The wire may lose, repeat or forge frames: those of the attempt stay true. *)
LEMMA BodyInputs ==
  ASSUME TypeInv, BodyInv, Inputs
  PROVE  BodyInv'
<1>1. UNCHANGED requestVars /\ StreamTypeOK
  BY InputsKeepStream DEF TypeInv, StreamOK
<1>2. validator' = validator
  BY DEF Inputs, Control, ControlStarts, ControlSendsData, ControlSendsBodyRef,
     ControlGrants, ControlEnds, Says, Uploads, Grants, Send, Wire, StrayFrame,
     DuplicateFrame, Noise, IdleTime, IdlePasses, Deadline, DeadlinePasses, queueVars
<1>3. uploaded' <= ExpectedUpload /\ \A f \in Queued' : UploadFits(f)
  <2>1. uploaded \in Nat /\ uploaded <= ExpectedUpload /\ \A f \in Queued : UploadFits(f)
    BY <1>1 DEF StreamTypeOK, BodyInv
  <2>2. ASSUME NEW type \in {"start", "startOther", "cancel", "end", "credit"},
               NEW n \in Nat, Send(type, 0, n), uploaded' = uploaded
        PROVE  uploaded' <= ExpectedUpload /\ \A f \in Queued' : UploadFits(f)
    <3>1. type \in FrameTypes
      BY DEF FrameTypes
    <3>2. \A f \in Queued' : f \in Queued \/ f.type = type
      BY <1>1, <2>2, <3>1, SendQueues
    <3>3. QED BY <2>1, <2>2, <3>2 DEF UploadFits
  <2>3. ASSUME NEW n \in 1..ExpectedUpload, ControlSendsData(n)
        PROVE  uploaded' <= ExpectedUpload /\ \A f \in Queued' : UploadFits(f)
    <3>1. /\ n \in Nat /\ "data" \in FrameTypes
          /\ Send("data", uploaded, n) /\ uploaded' = uploaded + n
          /\ uploaded + n <= ExpectedUpload
      BY <2>3, DecodedRequestAssumption DEF ControlSendsData, Uploads, FrameTypes
    <3>2. \A f \in Queued' :
            f \in Queued \/ (f.type = "data" /\ f.off = uploaded /\ f.n = n)
      BY <1>1, <2>1, <3>1, SendQueues
    <3>3. QED BY <2>1, <3>1, <3>2 DEF UploadFits
  <2>4. ASSUME ControlSendsBodyRef
        PROVE  uploaded' <= ExpectedUpload /\ \A f \in Queued' : UploadFits(f)
    <3>1. /\ "bodyRef" \in FrameTypes /\ ExpectedUpload \in Nat
          /\ Send("bodyRef", uploaded, ExpectedUpload)
          /\ uploaded = 0 /\ uploaded' = ExpectedUpload
      BY <2>4, DecodedRequestAssumption DEF ControlSendsBodyRef, Uploads, FrameTypes
    <3>2. \A f \in Queued' :
            f \in Queued \/ (f.type = "bodyRef" /\ f.off = 0 /\ f.n = ExpectedUpload)
      BY <1>1, <2>1, <3>1, SendQueues
    <3>3. QED BY <2>1, <3>1, <3>2 DEF UploadFits
  <2>5. CASE Control
    <3>1. ASSUME NEW type \in {"start", "startOther"}, ControlStarts(type)
          PROVE  Send(type, 0, 0) /\ uploaded' = uploaded
      BY <3>1 DEF ControlStarts, Says
    <3>2. ASSUME NEW n \in 1..ResponseBytes, ControlGrants(n)
          PROVE  n \in Nat /\ Send("credit", 0, n) /\ uploaded' = uploaded
      BY <3>2, DecodedRequestAssumption DEF ControlGrants, Grants
    <3>3. ASSUME NEW type \in {"cancel", "end"}, ControlEnds(type)
          PROVE  Send(type, 0, 0) /\ uploaded' = uploaded
      BY <3>3 DEF ControlEnds, Says
    <3>4. QED BY <2>2, <2>3, <2>4, <2>5, <3>1, <3>2, <3>3 DEF Control
  <2>6. CASE Wire
    <3>1. uploaded' = uploaded
      BY <2>6 DEF Wire, StrayFrame, DuplicateFrame, Noise
    <3>2. CASE DuplicateFrame
      BY <1>1, <2>1, <3>1, <3>2, DuplicateQueues
    <3>3. CASE \E type \in {"none", "data"}, seq \in Nat : StrayFrame(type, seq)
      <4>1. \A f \in Queued' : f \in Queued \/ f.attempt = OtherAttempt
        BY <1>1, <3>3, StrayQueues DEF FrameTypes
      <4>2. QED BY <2>1, <3>1, <4>1 DEF UploadFits, Attempt, OtherAttempt
    <3>4. QED BY <2>6, <3>2, <3>3, RequestStreamAssumption DEF Wire
  <2>7. CASE IdleTime \/ Deadline
    <3>1. uploaded' = uploaded /\ frames' = frames
      BY <2>7 DEF IdleTime, Deadline, IdlePasses, DeadlinePasses, ctlVars, queueVars
    <3>2. QED BY <2>1, <3>1 DEF Queued
  <2>8. QED BY <2>5, <2>6, <2>7 DEF Inputs
<1>4. QED BY <1>1, <1>2, <1>3
      DEF BodyInv, Complete, requestVars, bodyVars, execVars

(* The request does not add to what it is sent. *)
LEMMA OwnerLeavesUpload ==
  ASSUME TypeInv, BodyInv, OwnerStep
  PROVE  /\ uploaded' <= ExpectedUpload
         /\ \A f \in Queued' : UploadFits(f)
         /\ validator'.allowBodyRef = AllowBodyRef
<1>1. StreamTypeOK
  BY DEF TypeInv, StreamOK
<1>2. CASE RefuseFrame
  <2>1. Queued' \subseteq Queued
    BY <1>1, <1>2, TakeQueues DEF RefuseFrame
  <2>2. uploaded' = uploaded /\ validator' = validator
    BY <1>2 DEF RefuseFrame, TakeFrame, ctlVars
  <2>3. QED BY <2>1, <2>2 DEF BodyInv
<1>3. CASE \E types \in SUBSET FrameTypes : AcceptFrame(types)
  <2>1. Queued' \subseteq Queued /\ uploaded' = uploaded
    BY <1>1, <1>3, TakeQueues DEF AcceptFrame, TakeFrame, ctlVars
  <2>2. validator'.allowBodyRef = validator.allowBodyRef
    BY <1>1, <1>3, AcceptAdvances
  <2>3. QED BY <2>1, <2>2 DEF BodyInv
<1>4. CASE UNCHANGED <<ctlVars, queueVars, hasDeadline>>
  BY <1>4 DEF BodyInv, Queued, ctlVars, queueVars
<1>5. QED BY <1>2, <1>3, <1>4 DEF OwnerStep

(* A frame that is accepted continues the body, or is the whole of it. *)
LEMMA BodyReader ==
  ASSUME RefHashed \/ ~AllowBodyRef, TypeInv, BodyInv, ReadsBody
  PROVE  BodyInv'
<1> USE DEF Reading, Answer, RequestReturns, execVars
<1>1. /\ uploaded' <= ExpectedUpload /\ \A f \in Queued' : UploadFits(f)
      /\ validator'.allowBodyRef = AllowBodyRef
  BY OwnerTakesFrames, OwnerLeavesUpload DEF TypeInv, Owner
<1>2. /\ StreamTypeOK /\ body \in Seq(Nat \X Nat) /\ Len(body) \in Nat
      /\ validator.attempt = Attempt /\ ExpectedUpload \in Nat
  BY LenProperties, DecodedRequestAssumption
  DEF TypeInv, StreamOK, CreditInv, RequestTypeOK
<1>3. /\ mpc = "reading" /\ epc = "none"
      /\ epc' = IF mpc' = "waiting" THEN "running" ELSE epc
  BY ReaderLeaves DEF TypeInv, SendInv
<1>4. IsUpload(body) /\ Len(body) <= ExpectedUpload
  BY DEF BodyInv
<1>5. ASSUME NEW types, AcceptFrame(types)
      PROVE  /\ Frame \in Frames /\ Frame.attempt = Attempt /\ UploadFits(Frame)
             /\ Frame.type \in types
             /\ Frame.type = "data" => Frame.off = validator.offset
             /\ Frame.type = "bodyRef" => AllowBodyRef
             /\ validator'.offset
                  = validator.offset + IF Frame.type = "data" THEN Frame.n ELSE 0
             /\ validator.offset \in Nat
  <2>1. Frame \in Queued
    BY <1>2, <1>5, TakeQueues DEF AcceptFrame
  <2>2. QED BY <1>2, <1>5, <2>1, AcceptAdvances DEF BodyInv, StreamTypeOK, Validators
<1>6. ASSUME UNCHANGED body, download' = <<>>, mpc' = "reading", ~Complete,
             validator'.offset = validator.offset
      PROVE  BodyInv'
  <2>1. Len(body') = validator'.offset
    BY <1>3, <1>6 DEF BodyInv
  <2>2. epc' = "none"
    BY <1>3, <1>6
  <2>3. QED BY <1>1, <1>4, <1>6, <2>1, <2>2 DEF BodyInv
<1>7. CASE ReadDuplicate
  BY <1>6, <1>7, <1>3 DEF ReadDuplicate, RefuseFrame, bodyVars
<1>8. CASE ReadStart
  <2>1. validator'.offset = validator.offset
    <3>1. AcceptFrame({"start", "startOther"})
      BY <1>8 DEF ReadStart
    <3>2. QED BY <1>5, <3>1
  <2>2. QED BY <1>3, <1>6, <1>8, <2>1 DEF ReadStart
<1>9. CASE ReadCredit
  <2>1. validator'.offset = validator.offset
    <3>1. AcceptFrame({"credit"})
      BY <1>9 DEF ReadCredit
    <3>2. QED BY <1>5, <3>1
  <2>2. QED BY <1>3, <1>6, <1>9, <2>1 DEF ReadCredit, bodyVars
<1>10. CASE ReadData
  <2>1. AcceptFrame({"data"}) /\ ~Complete /\ body' = body \o Bytes(Frame)
        /\ mpc' = mpc /\ mode' = mode /\ download' = <<>>
    BY <1>10 DEF ReadData
  <2>2. /\ Frame \in Frames /\ Frame.attempt = Attempt /\ Frame.off = validator.offset
        /\ Frame.off + Frame.n <= ExpectedUpload
        /\ validator'.offset = validator.offset + Frame.n
    BY <1>5, <2>1 DEF UploadFits
  <2>3. Len(body) = validator.offset
    BY <1>3, <2>1 DEF BodyInv
  <2>4. IsUpload(body') /\ Len(body') = Len(body) + Frame.n
    BY <1>2, <1>4, <2>1, <2>2, <2>3, DataContinues
  <2>5. Len(body') = validator'.offset /\ Len(body') <= ExpectedUpload
    BY <2>2, <2>3, <2>4
  <2>6. epc' = "none"
    BY <1>3, <2>1
  <2>7. QED BY <1>1, <2>1, <2>4, <2>5, <2>6 DEF BodyInv
<1>11. CASE ReadBodyRef
  <2>1. /\ AcceptFrame({"bodyRef"}) /\ mode # "none" /\ ~Complete
        /\ UNCHANGED <<body, mode, mpc>> /\ download' = <<Bytes(Frame)>>
    BY <1>11 DEF ReadBodyRef
  <2>2. /\ Frame \in Frames /\ Frame.attempt = Attempt /\ Frame.off = 0
        /\ Frame.n = ExpectedUpload /\ AllowBodyRef
        /\ validator'.offset = validator.offset
    BY <1>5, <2>1 DEF UploadFits
  <2>3. download' = <<Whole>>
    BY <2>1, <2>2, RefersToWhole
  <2>4. Len(body') = validator'.offset
    BY <1>3, <2>1, <2>2 DEF BodyInv
  <2>5. epc' = "none"
    BY <1>3, <2>1
  <2>6. QED BY <1>1, <1>4, <2>1, <2>2, <2>3, <2>4, <2>5 DEF BodyInv
<1>12. CASE StartExecution
  <2>1. /\ Len(body) >= ExpectedUpload /\ mode = "decoded" /\ mpc' = "waiting"
        /\ UNCHANGED <<body, mode, download>>
    BY <1>12 DEF StartExecution, Complete, bodyVars
  <2>2. Len(body) = ExpectedUpload
    BY <1>2, <1>4, <2>1
  <2>3. QED BY <1>1, <1>2, <1>4, <2>1, <2>2 DEF BodyInv
<1>13. CASE ReadRejected \/ ReadBodyRefFails \/ ReadOther \/ ReadGivesUp \/ RejectMode
  <2>1. UNCHANGED <<body, mode, download>> /\ mpc' # "reading" /\ mpc' # "waiting"
    BY <1>13 DEF ReadRejected, ReadBodyRefFails, ReadOther, ReadGivesUp, RejectMode, bodyVars
  <2>2. epc' = "none"
    BY <1>3, <2>1
  <2>3. QED BY <1>1, <1>4, <2>1, <2>2 DEF BodyInv
<1>14. CASE DownloadReturns
  <2>1. /\ download # <<>> /\ download' = <<>> /\ mode' = mode /\ mpc' = mpc
        /\ body' \in Downloads(download[1])
    BY <1>14 DEF DownloadReturns, Downloading
  <2>2. download = <<Whole>> /\ mode # "none" /\ RefHashed
    BY <2>1 DEF BodyInv
  <2>3. body' = Whole
    BY <2>1, <2>2, DownloadIsWhole
  <2>4. IsUpload(body') /\ Len(body') = ExpectedUpload
    BY <2>3, WholeIsUpload
  <2>5. Complete'
    BY <1>2, <2>1, <2>2, <2>4 DEF Complete
  <2>6. epc' = "none"
    BY <1>3, <2>1
  <2>7. QED BY <1>1, <1>2, <2>1, <2>4, <2>5, <2>6 DEF BodyInv
<1>15. CASE DownloadFails
  <2>1. body' = body /\ download' = <<>> /\ mpc' # "reading" /\ mpc' # "waiting"
    BY <1>15 DEF DownloadFails, Downloading
  <2>2. epc' = "none"
    BY <1>3, <2>1
  <2>3. QED BY <1>1, <1>4, <2>1, <2>2 DEF BodyInv
<1>16. QED BY <1>7, <1>8, <1>9, <1>10, <1>11, <1>12, <1>13, <1>14, <1>15
           DEF ReadsBody, Reader, Download

(* Once the executor has started, nobody touches the body. *)
LEMMA BodyRest ==
  ASSUME TypeInv, BodyInv, Waiter \/ Executor
  PROVE  BodyInv'
<1>1. /\ uploaded' <= ExpectedUpload /\ \A f \in Queued' : UploadFits(f)
      /\ validator'.allowBodyRef = AllowBodyRef
  BY OwnerTakesFrames, OwnerLeavesUpload DEF TypeInv, Owner
<1>2. CASE Waiter
  <2>1. UNCHANGED <<body, mode, download, epc>> /\ mpc' # "reading"
    BY <1>2 DEF Waiter, WaitSkips, WaitTakesCredit, WaitTakesCancel, HandOverGrant,
       FinishRequest, PublishAnswer, Waiting, Answer, RequestReturns, bodyVars, execVars
  <2>2. QED BY <1>1, <2>1 DEF BodyInv
<1>3. CASE Executor
  <2>1. UNCHANGED <<body, mode, download, mpc>> /\ epc # "none"
    BY <1>3 DEF Executor, Sender, SendProgress, SendData, PublishChunk, ReceiveGrant,
       DropData, ExecutorReturns, ExecutorReturnsResponse, ExecutorLeaves, bodyVars
  <2>2. mpc # "reading"
    BY <2>1 DEF TypeInv, SendInv
  <2>3. QED BY <1>1, <2>1, <2>2 DEF BodyInv
<1>4. QED BY <1>2, <1>3

(* The body that has been read is the upload so far, after every step. *)
LEMMA BodyNext ==
  ASSUME RefHashed \/ ~AllowBodyRef, TypeInv, BodyInv, [Next]_vars
  PROVE  BodyInv'
<1>1. CASE UNCHANGED vars
  BY <1>1 DEF BodyInv, Queued, Complete, vars, streamVars, ctlVars, queueVars, requestVars,
     bodyVars, execVars
<1>2. QED BY <1>1, BodyInputs, BodyReader, BodyRest
          DEF Next, Inputs, ReadsBody

(* The executor starts on exactly what this attempt of Control uploaded,    *)
(* unless bodies are taken by references that carry no hash.                *)
THEOREM DecodedBodyIntact ==
  (RefHashed \/ ~AllowBodyRef) => (Spec => []BodyIntact)
<1>1. SUFFICES ASSUME RefHashed \/ ~AllowBodyRef
               PROVE  Spec => []BodyIntact
  OBVIOUS
<1>2. Init => TypeInv /\ BodyInv
  BY TypeInit, BodyInit
<1>3. TypeInv /\ BodyInv /\ [Next]_vars => (TypeInv /\ BodyInv)'
  BY <1>1, TypeNext, BodyNext
<1>4. TypeInv /\ BodyInv => BodyIntact
  BY WholeIsUpload DEF TypeInv, RequestTypeOK, BodyInv, BodyIntact, Whole
<1>5. QED BY <1>2, <1>3, <1>4, PTL DEF Spec

(* And a body that is taken by a reference with a hash is the whole of what *)
(* Control stored.                                                          *)
THEOREM DecodedBodyRefWhole == RefHashed => (Spec => BodyRefWhole)
<1>1. SUFFICES ASSUME RefHashed
               PROVE  Spec => BodyRefWhole
  OBVIOUS
<1>2. Init => TypeInv /\ BodyInv
  BY TypeInit, BodyInit
<1>3. TypeInv /\ BodyInv /\ [Next]_vars => (TypeInv /\ BodyInv)'
  BY <1>1, TypeNext, BodyNext
<1>4. TypeInv /\ BodyInv /\ [Next]_vars => [DownloadReturns => body' = Whole]_vars
  <2>1. SUFFICES ASSUME BodyInv, DownloadReturns
                 PROVE  body' = Whole
    OBVIOUS
  <2>2. download # <<>> /\ body' \in Downloads(download[1])
    BY <2>1 DEF DownloadReturns, Downloading
  <2>3. download = <<Whole>>
    BY <2>1, <2>2 DEF BodyInv
  <2>4. QED BY <1>1, <2>2, <2>3, DownloadIsWhole
<1>5. QED BY <1>2, <1>3, <1>4, PTL DEF Spec, BodyRefWhole, Whole

-----------------------------------------------------------------------------
(* The response. *)

Terminal(f) == f.type \in {"end", "error", "cancelled"}

Serving == mpc \in {"waiting", "granting", "cancelling"}

(* The frames that the request has yet to publish, as far as it has them. *)
Pending == IF Serving THEN result ELSE todo

BufferedRest ==
  <<[type |-> "data", seq |-> 2, off |-> 0, n |-> ResponseBytes], Bare("end", 3)>>

(* Who publishes when, and what there is to publish then. *)
PlaceInv ==
  /\ mpc = "reading" => out = <<>> /\ rseq = 0
  /\ out = <<>> => sentBytes = 0
  /\ Serving => epc # "none"
  /\ epc \in {"running", "sending"} => Serving
  /\ mpc # "publishing" => todo = <<>>
  /\ epc # "finished" => result = <<>>
  /\ \/ Pending = <<>>
     \/ \E t \in {"end", "error", "cancelled"}, q \in 0..3 : Pending = <<Bare(t, q)>>
     \/ /\ Pending = Buffered /\ epc = "finished"
        /\ out = <<>> /\ sentBytes = 0
     \/ /\ Pending = BufferedRest /\ epc = "finished" /\ mpc = "publishing"
        /\ out = <<Bare("head", 1)>> /\ sentBytes = 0

(* What is out, in order, and what a terminal frame says of the rest. *)
OutInv ==
  /\ \A i \in 1..Len(out) :
       /\ out[i].type \in {"head", "data"} => out[i].seq = i
       /\ Terminal(out[i]) => i = Len(out) /\ Pending = <<>> /\ ~Serving
  /\ \A i, j \in 1..Len(out) :
       DataFrame(i) /\ DataFrame(j) /\ i < j => out[i].off + out[i].n <= out[j].off
  /\ epc \in {"running", "sending"} =>
       /\ rseq = Len(out)
       /\ \A i \in 1..Len(out) :
            DataFrame(i) => out[i].off + out[i].n <= produced - remaining
  /\ ~ctxDone /\ epc # "finished" => sentBytes = produced - remaining

(* An End is only in sight when the response is out. *)
EndInv ==
  HeedsContext =>
    /\ \A i \in 1..Len(out) : out[i].type = "end" => sentBytes = ResponseBytes
    /\ \A q \in 0..3 : Pending = <<Bare("end", q)>> => sentBytes = ResponseBytes

(* What the last frame of the request is, once the executor has its result. *)
Verdicts == IF canceled /\ ~Serving THEN {"cancelled", "end"} ELSE {"end", "error"}

VerdictInv ==
  epc = "finished" /\ result # <<>> =>
    /\ Pending = <<>> => out # <<>> /\ out[Len(out)].type \in Verdicts
    /\ \A t \in {"end", "error", "cancelled"}, q \in 0..3 :
         Pending = <<Bare(t, q)>> => t \in Verdicts

ResponseInv == PlaceInv /\ OutInv /\ EndInv /\ VerdictInv

(* The fields of a frame without bytes, and two such frames compared. *)
LEMMA BareFields ==
  ASSUME NEW t, NEW q
  PROVE  /\ Bare(t, q).type = t /\ Bare(t, q).seq = q /\ Bare(t, q).off = 0
         /\ Bare(t, q).n = 0
         /\ \A u, r : <<Bare(t, q)>> = <<Bare(u, r)>> => t = u /\ q = r
         /\ <<Bare(t, q)>> # <<>>
BY DEF Bare

(* The answers an executor gives, and what is left of them. *)
LEMMA OneFrame ==
  ASSUME NEW f \in OutFrames
  PROVE  /\ <<f>> \in Seq(OutFrames) /\ Len(<<f>>) = 1 /\ <<f>> # <<>>
         /\ Head(<<f>>) = f /\ Tail(<<f>>) = <<>>
<1>1. <<f>> \in Seq(OutFrames) /\ Len(<<f>>) = 1 /\ <<f>>[1] = f
  OBVIOUS
<1>2. Head(<<f>>) = f
  BY <1>1
<1>3. Tail(<<f>>) \in Seq(OutFrames) /\ Len(Tail(<<f>>)) = 0
  BY <1>1, HeadTailProperties
<1>4. Tail(<<f>>) = <<>>
  BY <1>3, EmptySeq
<1>5. QED BY <1>1, <1>2, <1>4

(* The three frames of a response returned whole, one after another. *)
LEMMA BufferedFrames ==
  LET d == [type |-> "data", seq |-> 2, off |-> 0, n |-> ResponseBytes]
  IN /\ Buffered # <<>> /\ BufferedRest # <<>>
     /\ Head(Buffered) = Bare("head", 1) /\ Tail(Buffered) = BufferedRest
     /\ Head(BufferedRest) = d /\ Tail(BufferedRest) = <<Bare("end", 3)>>
     /\ \A f : Buffered # <<f>> /\ BufferedRest # <<f>>
     /\ ApplyCancellation(Buffered) = Buffered
<1> DEFINE d == [type |-> "data", seq |-> 2, off |-> 0, n |-> ResponseBytes]
           h == Bare("head", 1)
           e == Bare("end", 3)
           b == <<h, d, e>>
           r == <<d, e>>
<1>1. d \in OutFrames /\ h \in OutFrames /\ e \in OutFrames /\ e.type = "end"
  BY BareType, BareFields, DecodedRequestAssumption DEF OutFrames
<1> HIDE DEF d, h, e
<1>2. /\ b \in Seq(OutFrames) /\ Len(b) = 3 /\ b[1] = h /\ b[2] = d /\ b[3] = e
      /\ r \in Seq(OutFrames) /\ Len(r) = 2 /\ r[1] = d /\ r[2] = e
      /\ <<e>> \in Seq(OutFrames) /\ Len(<<e>>) = 1 /\ <<e>>[1] = e
  BY <1>1
<1>3. \A f : Len(<<f>>) = 1
  OBVIOUS
<1> HIDE DEF b, r
<1>4. Head(b) = h /\ Head(r) = d /\ b # <<>> /\ r # <<>>
  <2>1. Len(<<>>) = 0 /\ 3 # 0 /\ 2 # 0
    OBVIOUS
  <2>2. b # <<>> /\ r # <<>>
    BY <1>2, <2>1, Zenon
  <2>3. Head(b) = b[1]
    BY <1>2, <2>2
  <2>4. Head(r) = r[1]
    BY <1>2, <2>2
  <2>5. QED BY <1>2, <2>2, <2>3, <2>4
<1>5. Tail(b) = r
  <2>1. /\ Tail(b) \in Seq(OutFrames) /\ Len(Tail(b)) = 2
        /\ \A i \in 1..Len(Tail(b)) : Tail(b)[i] = b[i + 1]
    BY <1>2, <1>4, HeadTailProperties
  <2>2. Tail(b)[1] = b[2] /\ Tail(b)[2] = b[3]
    BY <2>1
  <2>3. \A i \in 1..2 : Tail(b)[i] = r[i]
    <3>1. \A i \in 1..2 : i = 1 \/ i = 2
      OBVIOUS
    <3>2. QED BY <1>2, <2>2, <3>1
  <2>4. QED BY <1>2, <2>1, <2>3, SeqEqual
<1>6. Tail(r) = <<e>>
  <2>1. /\ Tail(r) \in Seq(OutFrames) /\ Len(Tail(r)) = 1
        /\ \A i \in 1..Len(Tail(r)) : Tail(r)[i] = r[i + 1]
    BY <1>2, <1>4, HeadTailProperties
  <2>2. Tail(r)[1] = r[2]
    BY <2>1
  <2>3. \A i \in 1..1 : Tail(r)[i] = <<e>>[i]
    <3>1. \A i \in 1..1 : i = 1
      OBVIOUS
    <3>2. QED BY <1>2, <2>2, <3>1
  <2>4. QED BY <1>2, <2>1, <2>3, SeqEqual
<1>7. \A f : b # <<f>> /\ r # <<f>>
  BY <1>2, <1>3
<1>8. ApplyCancellation(b) = b
  BY <1>1, <1>2 DEF ApplyCancellation
<1>9. b = Buffered /\ r = BufferedRest
  BY DEF b, r, d, h, e, Buffered, BufferedRest
<1>10. QED BY <1>4, <1>5, <1>6, <1>7, <1>8, <1>9 DEF d, h, e

(* A cancel turns a terminal frame into Cancelled, save an End. *)
LEMMA CancelledFrame ==
  ASSUME NEW t \in {"end", "error", "cancelled"}, NEW q \in 0..3
  PROVE  ApplyCancellation(<<Bare(t, q)>>)
           = IF t = "end" THEN <<Bare(t, q)>> ELSE <<Bare("cancelled", q)>>
<1> DEFINE s == <<Bare(t, q)>>
           c == Bare("cancelled", q)
<1>1. Bare(t, q) \in OutFrames /\ Bare(t, q).type = t /\ c \in OutFrames
  BY BareType, BareFields
<1>2. s \in Seq(OutFrames) /\ Len(s) = 1 /\ s[1] = Bare(t, q) /\ s # <<>>
  BY <1>1
<1>3. CASE t = "end"
  BY <1>1, <1>2, <1>3 DEF ApplyCancellation
<1>4. CASE t # "end"
  <2>1. [s[1] EXCEPT !.type = "cancelled"] = c
    BY <1>2 DEF Bare
  <2>2. ApplyCancellation(s) = [s EXCEPT ![1] = c]
    BY <1>1, <1>2, <1>4, <2>1 DEF ApplyCancellation
  <2> HIDE DEF c
  <2>3. <<c>> \in Seq(OutFrames) /\ Len(<<c>>) = 1 /\ <<c>>[1] = c
    BY <1>1
  <2> HIDE DEF s
  <2>4. 1 \in 1..Len(s)
    BY <1>2
  <2>5. /\ [s EXCEPT ![1] = c] \in Seq(OutFrames)
        /\ Len([s EXCEPT ![1] = c]) = 1
        /\ \A j \in 1..Len(s) : [s EXCEPT ![1] = c][j] = IF j = 1 THEN c ELSE s[j]
    BY <1>1, <1>2, <2>4, ExceptSeq
  <2>6. \A j \in 1..1 : [s EXCEPT ![1] = c][j] = <<c>>[j]
    BY <1>2, <2>3, <2>5
  <2>7. [s EXCEPT ![1] = c] = <<c>>
    BY <2>3, <2>5, <2>6, SeqEqual
  <2>8. QED BY <1>4, <2>2, <2>7 DEF s, c
<1>5. QED BY <1>3, <1>4

(* Nothing is published and nothing produced when the request starts. *)
LEMMA ResponseInit ==
  ASSUME Init
  PROVE  ResponseInv
<1>1. /\ mpc = "reading" /\ epc = "none" /\ produced = 0 /\ remaining = 0
      /\ result = <<>> /\ rseq = 0 /\ todo = <<>> /\ out = <<>> /\ sentBytes = 0
  BY DEF Init
<1>2. Pending = <<>> /\ Len(out) = 0
  BY <1>1 DEF Pending, Serving
<1>3. PlaceInv
  BY <1>1, <1>2 DEF PlaceInv, Serving
<1>4. OutInv
  BY <1>1, <1>2 DEF OutInv
<1>5. EndInv
  BY <1>1, <1>2, BareFields DEF EndInv
<1>6. VerdictInv
  BY <1>1 DEF VerdictInv
<1>7. QED BY <1>3, <1>4, <1>5, <1>6 DEF ResponseInv

(* A step that is not about the response. *)
LEMMA QuietStep ==
  ASSUME ResponseInv,
         UNCHANGED <<epc, produced, remaining, result, rseq, todo, out, sentBytes>>,
         (mpc' = mpc /\ canceled' = canceled) \/ (Serving /\ Serving'),
         ctxDone => ctxDone'
  PROVE  ResponseInv'
<1>1. /\ Serving' = Serving /\ Pending' = Pending
      /\ (mpc = "reading")' = (mpc = "reading")
      /\ (mpc = "publishing")' = (mpc = "publishing")
  BY DEF Serving, Pending
<1>2. Verdicts' = Verdicts
  BY <1>1 DEF Verdicts
<1>3. PlaceInv'
  BY <1>1 DEF ResponseInv, PlaceInv
<1>4. OutInv'
  BY <1>1 DEF ResponseInv, OutInv, DataFrame
<1>5. EndInv'
  BY <1>1 DEF ResponseInv, EndInv
<1>6. VerdictInv'
  BY <1>1, <1>2 DEF ResponseInv, VerdictInv
<1>7. QED BY <1>3, <1>4, <1>5, <1>6 DEF ResponseInv

(* The reader answers with one terminal frame, or starts the executor. *)
LEMMA ResponseReader ==
  ASSUME TypeInv, ResponseInv, ReadsBody
  PROVE  ResponseInv'
<1>1. /\ mpc = "reading" /\ epc = "none"
      /\ UNCHANGED <<canceled, produced, remaining, result, rseq, out, sentBytes>>
      /\ \/ todo' = todo /\ mpc' # "publishing"
         \/ todo' = <<ErrorFrame>> /\ mpc' = "publishing"
      /\ mpc' \in {"reading", "publishing", "done", "waiting"}
      /\ epc' = IF mpc' = "waiting" THEN "running" ELSE epc
      /\ remaining = 0
  BY ReaderLeaves DEF waitVars, outVars, TypeInv, SendInv
<1>2. ctxDone => ctxDone'
  BY DEF ReadsBody, Reader, ReadDuplicate, ReadRejected, ReadStart, ReadData,
     ReadBodyRef, ReadBodyRefFails, ReadCredit, ReadOther, ReadGivesUp, StartExecution,
     RejectMode, RequestReturns, Answer, streamVars, Download, DownloadReturns,
     DownloadFails, Downloading
<1>3. out = <<>> /\ Len(out) = 0 /\ todo = <<>> /\ result = <<>> /\ rseq = 0
  BY <1>1 DEF ResponseInv, PlaceInv
<1>4. ~ctxDone => sentBytes = produced - remaining
  BY <1>1 DEF ResponseInv, OutInv
<1>5. CASE mpc' = "reading"
  <2>1. /\ UNCHANGED <<epc, produced, remaining, result, rseq, todo, out, sentBytes>>
        /\ mpc' = mpc /\ canceled' = canceled
    BY <1>1, <1>5
  <2>2. QED BY <1>2, <2>1, QuietStep
<1>6. CASE mpc' = "done" \/ mpc' = "waiting"
  <2>1. Pending' = <<>> /\ (Serving' <=> mpc' = "waiting")
    BY <1>1, <1>3, <1>6 DEF Pending, Serving
  <2>2. PlaceInv'
    BY <1>1, <1>3, <1>6, <2>1 DEF ResponseInv, PlaceInv
  <2>3. OutInv'
    BY <1>1, <1>2, <1>3, <1>4, <1>6, <2>1 DEF OutInv
  <2>4. EndInv'
    BY <1>1, <1>3, <2>1, BareFields DEF EndInv
  <2>5. VerdictInv'
    BY <1>1, <1>3 DEF VerdictInv
  <2>6. QED BY <2>2, <2>3, <2>4, <2>5 DEF ResponseInv
<1>7. CASE mpc' = "publishing"
  <2>1. Pending' = <<Bare("error", 1)>> /\ ~Serving' /\ epc' = "none"
    BY <1>1, <1>7 DEF Pending, Serving, ErrorFrame
  <2>2. PlaceInv'
    BY <1>1, <1>3, <1>7, <2>1 DEF ResponseInv, PlaceInv
  <2>3. OutInv'
    BY <1>1, <1>2, <1>3, <1>4, <2>1 DEF OutInv
  <2>4. EndInv'
    BY <1>1, <1>3, <2>1, BareFields DEF EndInv
  <2>5. VerdictInv'
    BY <1>1, <1>3 DEF VerdictInv
  <2>6. QED BY <2>2, <2>3, <2>4, <2>5 DEF ResponseInv
<1>8. QED BY <1>1, <1>5, <1>6, <1>7

(* The result of the executor becomes the frames to publish. *)
LEMMA ResponseFinish ==
  ASSUME TypeInv, ResponseInv, FinishRequest
  PROVE  ResponseInv'
<1>1. /\ Serving /\ epc = "finished" /\ mpc' = "publishing"
      /\ UNCHANGED <<ctxDone, canceled, epc, produced, remaining, result, rseq, out, sentBytes>>
      /\ todo' = IF canceled THEN ApplyCancellation(result) ELSE result
      /\ canceled \in BOOLEAN
  BY DEF FinishRequest, Answer, Serving, waitVars, execVars, outVars, streamVars,
         TypeInv, RequestTypeOK
<1>2. Pending = result /\ Pending' = todo' /\ ~Serving'
  BY <1>1 DEF Pending, Serving
<1>3. \/ result = <<>> /\ todo' = <<>>
      \/ \E t \in {"end", "error", "cancelled"}, q \in 0..3 :
           /\ result = <<Bare(t, q)>>
           /\ \E u \in {"end", "error", "cancelled"} :
                /\ todo' = <<Bare(u, q)>>
                /\ u = t \/ (canceled /\ u \in {"end", "cancelled"})
                /\ canceled => u \in {"end", "cancelled"}
                /\ u = "end" => t = "end"
      \/ result = Buffered /\ todo' = Buffered /\ out = <<>> /\ sentBytes = 0
  <2>1. CASE result = <<>>
    BY <1>1, <2>1 DEF ApplyCancellation
  <2>2. CASE \E t \in {"end", "error", "cancelled"}, q \in 0..3 : result = <<Bare(t, q)>>
    <3>1. PICK t \in {"end", "error", "cancelled"}, q \in 0..3 : result = <<Bare(t, q)>>
      BY <2>2
    <3>2. CASE canceled
      <4>1. todo' = IF t = "end" THEN <<Bare(t, q)>> ELSE <<Bare("cancelled", q)>>
        BY <1>1, <3>1, <3>2, CancelledFrame
      <4>2. QED BY <3>1, <3>2, <4>1
    <3>3. CASE ~canceled
      <4>1. todo' = <<Bare(t, q)>>
        BY <1>1, <3>1, <3>3
      <4>2. QED BY <3>1, <3>3, <4>1
    <3>4. QED BY <3>2, <3>3
  <2>3. CASE result = Buffered /\ out = <<>> /\ sentBytes = 0
    BY <1>1, <2>3, BufferedFrames
  <2>4. QED BY <1>1, <1>2, <2>1, <2>2, <2>3 DEF ResponseInv, PlaceInv, Serving
<1>4. \A i \in 1..Len(out) : ~Terminal(out[i])
  BY <1>1 DEF ResponseInv, OutInv
<1>5. PlaceInv'
  BY <1>1, <1>2, <1>3 DEF ResponseInv, PlaceInv
<1>6. OutInv'
  BY <1>1, <1>4 DEF ResponseInv, OutInv, DataFrame, Terminal
<1>7. EndInv'
  <2>1. \A i \in 1..Len(out) : out[i].type # "end"
    BY <1>4 DEF Terminal
  <2>2. ASSUME HeedsContext, NEW q \in 0..3, todo' = <<Bare("end", q)>>
        PROVE  sentBytes = ResponseBytes
    <3>1. result = <<Bare("end", q)>>
      BY <1>3, <2>2, BareFields, BufferedFrames
    <3>2. QED BY <1>2, <2>2, <3>1 DEF ResponseInv, EndInv
  <2>3. QED BY <1>1, <1>2, <2>1, <2>2 DEF EndInv
<1>8. VerdictInv'
  <2>1. ASSUME result # <<>>, todo' = <<>>
        PROVE  FALSE
    BY <1>3, <2>1, BareFields, BufferedFrames
  <2>2. ASSUME NEW t \in {"end", "error", "cancelled"}, NEW q \in 0..3,
               result # <<>>, todo' = <<Bare(t, q)>>
        PROVE  t \in Verdicts'
    <3>1. PICK r \in {"end", "error", "cancelled"} :
            /\ result = <<Bare(r, q)>>
            /\ t = r \/ (canceled /\ t \in {"end", "cancelled"})
            /\ canceled => t \in {"end", "cancelled"}
      BY <1>3, <2>2, BareFields, BufferedFrames
    <3>2. r \in {"end", "error"}
      BY <1>1, <1>2, <2>2, <3>1 DEF ResponseInv, VerdictInv, Verdicts
    <3>3. QED BY <1>1, <1>2, <3>1, <3>2 DEF Verdicts
  <2>3. QED BY <1>1, <1>2, <2>1, <2>2 DEF VerdictInv
<1>9. QED BY <1>5, <1>6, <1>7, <1>8 DEF ResponseInv

(* Appending to what is out. *)
LEMMA OutGrows ==
  ASSUME out \in Seq(OutFrames), NEW f \in OutFrames, out' = Append(out, f)
  PROVE  /\ Len(out) \in Nat /\ Len(out') = Len(out) + 1 /\ out' # <<>>
         /\ \A i \in 1..Len(out) : out'[i] = out[i] /\ out[i] \in OutFrames
         /\ out'[Len(out) + 1] = f /\ out'[Len(out')] = f
         /\ \A i \in 1..Len(out') : i \in 1..Len(out) \/ i = Len(out')
BY AppendProperties, LenProperties, ElementOfSeq

(* What the next frame to publish is, and what is left after it. *)
LEMMA NextFrame ==
  ASSUME TypeInv, ResponseInv, mpc = "publishing", todo # <<>>
  PROVE  /\ Pending = todo
         /\ \/ \E t \in {"end", "error", "cancelled"}, q \in 0..3 :
                 /\ todo = <<Bare(t, q)>>
                 /\ Head(todo) = Bare(t, q) /\ Tail(todo) = <<>>
            \/ /\ todo = Buffered /\ out = <<>> /\ sentBytes = 0 /\ epc = "finished"
               /\ Head(todo) = Bare("head", 1) /\ Tail(todo) = BufferedRest
            \/ /\ todo = BufferedRest /\ out = <<Bare("head", 1)>> /\ sentBytes = 0
               /\ epc = "finished"
               /\ Head(todo) = [type |-> "data", seq |-> 2, off |-> 0, n |-> ResponseBytes]
               /\ Tail(todo) = <<Bare("end", 3)>>
<1>1. Pending = todo
  BY DEF Pending, Serving
<1>2. CASE \E t \in {"end", "error", "cancelled"}, q \in 0..3 : todo = <<Bare(t, q)>>
  <2>1. PICK t \in {"end", "error", "cancelled"}, q \in 0..3 : todo = <<Bare(t, q)>>
    BY <1>2
  <2>2. Bare(t, q) \in OutFrames
    BY BareType
  <2>3. Head(todo) = Bare(t, q) /\ Tail(todo) = <<>>
    BY <2>1, <2>2, OneFrame
  <2>4. QED BY <1>1, <2>1, <2>3
<1>3. CASE todo = Buffered /\ out = <<>> /\ sentBytes = 0 /\ epc = "finished"
  BY <1>1, <1>3, BufferedFrames
<1>4. CASE /\ todo = BufferedRest /\ out = <<Bare("head", 1)>> /\ sentBytes = 0
           /\ epc = "finished"
  BY <1>1, <1>4, BufferedFrames
<1>5. QED BY <1>1, <1>2, <1>3, <1>4 DEF ResponseInv, PlaceInv

(* The frames of the result go out after the executor has returned. *)
LEMMA ResponsePublish ==
  ASSUME TypeInv, ResponseInv, PublishAnswer
  PROVE  ResponseInv'
<1>1. /\ mpc = "publishing" /\ ~Serving /\ epc \notin {"running", "sending"}
      /\ UNCHANGED <<canceled, epc, produced, remaining, result, rseq>>
  BY DEF PublishAnswer, Serving, waitVars, execVars, ResponseInv, PlaceInv
<1>2. CASE todo = <<>>
  <2>1. mpc' = "done" /\ ctxDone' /\ UNCHANGED <<todo, out, sentBytes>>
    BY <1>2 DEF PublishAnswer, RequestReturns, outVars
  <2>2. ~Serving' /\ Pending = <<>> /\ Pending' = <<>>
    BY <1>1, <1>2, <2>1 DEF Serving, Pending
  <2>3. Verdicts' = Verdicts
    BY <1>1, <2>2 DEF Verdicts
  <2>4. PlaceInv'
    BY <1>1, <1>2, <2>1, <2>2 DEF ResponseInv, PlaceInv
  <2>5. OutInv'
    BY <1>1, <2>1, <2>2 DEF ResponseInv, OutInv, DataFrame
  <2>6. EndInv'
    BY <1>1, <2>1, <2>2, BareFields DEF ResponseInv, EndInv
  <2>7. VerdictInv'
    BY <1>1, <2>1, <2>2, <2>3 DEF ResponseInv, VerdictInv
  <2>8. QED BY <2>4, <2>5, <2>6, <2>7 DEF ResponseInv
<1>3. CASE todo # <<>>
  <2> DEFINE f == Head(todo)
  <2>1. /\ todo' = Tail(todo) /\ out' = Append(out, f) /\ sentBytes' = sentBytes + f.n
        /\ UNCHANGED <<mpc, ctxDone>>
    BY <1>3 DEF PublishAnswer
  <2>2. /\ out \in Seq(OutFrames) /\ f \in OutFrames
        /\ sentBytes \in Nat /\ produced \in Nat /\ remaining \in Nat
    BY <1>3, HeadTailProperties DEF TypeInv, RequestTypeOK
  <2>3. /\ Pending = todo /\ Pending' = Tail(todo) /\ ~Serving' /\ Verdicts' = Verdicts
    BY <1>1, <1>3, <2>1, NextFrame DEF Pending, Serving, Verdicts
  <2> HIDE DEF f
  <2>4. /\ Len(out) \in Nat /\ Len(out') = Len(out) + 1 /\ out' # <<>>
        /\ \A i \in 1..Len(out) : out'[i] = out[i] /\ out[i] \in OutFrames
        /\ out'[Len(out) + 1] = f /\ out'[Len(out')] = f
        /\ \A i \in 1..Len(out') : i \in 1..Len(out) \/ i = Len(out')
    BY <2>1, <2>2, OutGrows
  <2>5. \A i \in 1..Len(out) : ~Terminal(out[i]) /\ (HeedsContext => out[i].type # "end")
    BY <1>3, <2>3 DEF ResponseInv, OutInv, Terminal
  <2>6. CASE \E t \in {"end", "error", "cancelled"}, q \in 0..3 :
               todo = <<Bare(t, q)>> /\ f = Bare(t, q) /\ Tail(todo) = <<>>
    <3>1. PICK t \in {"end", "error", "cancelled"}, q \in 0..3 :
               todo = <<Bare(t, q)>> /\ f = Bare(t, q) /\ Tail(todo) = <<>>
      BY <2>6
    <3>2. f.type = t /\ f.n = 0 /\ Terminal(f) /\ sentBytes' = sentBytes
      BY <2>1, <2>2, <3>1, BareFields DEF Terminal
    <3>3. PlaceInv'
      BY <1>1, <2>1, <2>3, <2>4, <3>1 DEF ResponseInv, PlaceInv
    <3>4. OutInv'
      <4>1. \A i \in 1..Len(out') :
              /\ out'[i].type \in {"head", "data"} => out'[i].seq = i
              /\ Terminal(out'[i]) => i = Len(out')
              /\ out'[i].type = "data" => i \in 1..Len(out) /\ out'[i] = out[i]
        BY <2>4, <2>5, <3>1, <3>2 DEF ResponseInv, OutInv
      <4>2. QED BY <1>1, <2>1, <2>3, <3>1, <3>2, <4>1 DEF ResponseInv, OutInv, DataFrame, Terminal
    <3>5. EndInv'
      <4>1. HeedsContext /\ f.type = "end" => sentBytes = ResponseBytes
        BY <2>3, <3>1, <3>2 DEF ResponseInv, EndInv
      <4>2. QED BY <2>3, <2>4, <2>5, <3>1, <3>2, <4>1, BareFields DEF EndInv
    <3>6. VerdictInv'
      <4>1. epc = "finished" /\ result # <<>> => t \in Verdicts
        BY <2>3, <3>1 DEF ResponseInv, VerdictInv
      <4>2. QED BY <1>1, <2>3, <2>4, <3>1, <3>2, <4>1, BareFields DEF VerdictInv
    <3>7. QED BY <3>3, <3>4, <3>5, <3>6 DEF ResponseInv
  <2>7. CASE /\ out = <<>> /\ sentBytes = 0 /\ epc = "finished"
             /\ f = Bare("head", 1) /\ Tail(todo) = BufferedRest
    <3>1. /\ f.type = "head" /\ f.seq = 1 /\ f.n = 0 /\ sentBytes' = 0
          /\ Len(out) = 0 /\ Len(out') = 1 /\ out'[1] = f
      BY <2>1, <2>4, <2>7, BareFields
    <3>2. out' = <<Bare("head", 1)>>
      BY <2>1, <2>7
    <3>3. PlaceInv'
      BY <1>1, <2>1, <2>3, <2>7, <3>1, <3>2 DEF ResponseInv, PlaceInv
    <3>4. OutInv'
      BY <1>1, <2>4, <2>7, <3>1 DEF OutInv, DataFrame, Terminal
    <3>5. EndInv'
      <4>1. \A i \in 1..Len(out') : out'[i].type # "end"
        BY <3>1
      <4>2. \A g : Pending' # <<g>>
        BY <2>3, <2>7, BufferedFrames
      <4>3. QED BY <4>1, <4>2 DEF EndInv
    <3>6. VerdictInv'
      BY <2>3, <2>7, BufferedFrames DEF VerdictInv
    <3>7. QED BY <3>3, <3>4, <3>5, <3>6 DEF ResponseInv
  <2>8. CASE /\ out = <<Bare("head", 1)>> /\ sentBytes = 0 /\ epc = "finished"
             /\ f = [type |-> "data", seq |-> 2, off |-> 0, n |-> ResponseBytes]
             /\ Tail(todo) = <<Bare("end", 3)>>
    <3>1. /\ f.type = "data" /\ f.seq = 2 /\ sentBytes' = ResponseBytes
          /\ Len(out) = 1 /\ Len(out') = 2 /\ out'[2] = f
          /\ out'[1] = Bare("head", 1) /\ out'[1].type = "head" /\ out'[1].seq = 1
      <4>1. Len(out) = 1 /\ out[1] = Bare("head", 1)
        BY <2>8
      <4>2. QED BY <2>1, <2>4, <2>8, <4>1, BareFields, DecodedRequestAssumption
    <3>2. \A i \in 1..Len(out') : i = 1 \/ i = 2
      BY <3>1
    <3>3. PlaceInv'
      BY <1>1, <2>1, <2>3, <2>4, <2>8 DEF ResponseInv, PlaceInv
    <3>4. OutInv'
      BY <1>1, <2>8, <3>1, <3>2 DEF OutInv, DataFrame, Terminal
    <3>5. EndInv'
      BY <3>1 DEF EndInv
    <3>6. VerdictInv'
      <4>1. \A t, q : <<Bare("end", 3)>> = <<Bare(t, q)>> => t = "end"
        BY BareFields
      <4>2. QED BY <2>3, <2>8, <4>1, BareFields DEF VerdictInv, Verdicts
    <3>7. QED BY <3>3, <3>4, <3>5, <3>6 DEF ResponseInv
  <2>9. QED BY <1>1, <1>3, <2>6, <2>7, <2>8, NextFrame DEF f
<1>4. QED BY <1>2, <1>3

(* The waiter publishes nothing until it has a result, or has given up. *)
LEMMA ResponseWaiter ==
  ASSUME TypeInv, ResponseInv, Waiter
  PROVE  ResponseInv'
<1>1. CASE WaitSkips \/ WaitTakesCredit \/ WaitTakesCancel \/ HandOverGrant
  <2>1. UNCHANGED <<epc, produced, remaining, result, rseq, todo, out, sentBytes>>
    BY <1>1 DEF WaitSkips, WaitTakesCredit, WaitTakesCancel, HandOverGrant, Waiting,
       execVars, outVars
  <2>2. Serving /\ Serving' /\ (ctxDone => ctxDone')
    BY <1>1 DEF WaitSkips, WaitTakesCredit, WaitTakesCancel, HandOverGrant, Waiting,
       Serving, CancelContext, streamVars
  <2>3. QED BY <2>1, <2>2, QuietStep
<1>2. QED BY <1>1, ResponseFinish, ResponsePublish DEF Waiter

(* The executor publishes a frame of its own. *)
LEMMA ResponseSends ==
  ASSUME TypeInv, ResponseInv, epc \in {"running", "sending"},
         NEW f \in OutFrames, f.type \in {"head", "data"}, f.seq = rseq + 1,
         f.type = "data" => f.off = produced - remaining,
         f.type = "head" => f.n = 0,
         f.n <= remaining,
         out' = Append(out, f), rseq' = rseq + 1, sentBytes' = sentBytes + f.n,
         remaining' = remaining - f.n, epc' \in {"running", "sending"},
         UNCHANGED <<mpc, ctxDone, canceled, produced, result, todo>>
  PROVE  ResponseInv'
<1>1. /\ out \in Seq(OutFrames) /\ f.n \in Nat /\ rseq \in Nat /\ sentBytes \in Nat
      /\ produced \in Nat /\ remaining \in Nat /\ remaining <= produced
  BY DEF TypeInv, RequestTypeOK, SendInv, OutFrames
<1>2. /\ Len(out) \in Nat /\ Len(out') = Len(out) + 1
      /\ \A i \in 1..Len(out) : out'[i] = out[i] /\ out[i] \in OutFrames
      /\ out'[Len(out')] = f
      /\ \A i \in 1..Len(out') : i \in 1..Len(out) \/ i = Len(out')
  BY <1>1, OutGrows
<1>3. /\ Serving /\ Serving' /\ Pending = <<>> /\ Pending' = <<>>
      /\ rseq = Len(out)
      /\ \A i \in 1..Len(out) :
           /\ ~Terminal(out[i])
           /\ out[i].type \in {"head", "data"} => out[i].seq = i
           /\ out[i].type = "data" => out[i].off + out[i].n <= produced - remaining
      /\ ~ctxDone => sentBytes = produced - remaining
  BY DEF ResponseInv, PlaceInv, OutInv, Pending, Serving, DataFrame
<1>4. f.seq = Len(out') /\ ~Terminal(f) /\ f.type # "end"
  BY <1>2, <1>3 DEF Terminal
<1>5. PlaceInv'
  <2>1. mpc # "reading" /\ mpc # "publishing" /\ epc # "finished"
    BY <1>3 DEF Serving
  <2>2. out' # <<>>
    BY <1>1, OutGrows
  <2>3. QED BY <1>3, <2>1, <2>2 DEF ResponseInv, PlaceInv
<1>6. OutInv'
  <2>1. \A i \in 1..Len(out') :
          /\ out'[i].type \in {"head", "data"} => out'[i].seq = i
          /\ ~Terminal(out'[i])
    BY <1>2, <1>3, <1>4
  <2>2. \A i, j \in 1..Len(out') :
          out'[i].type = "data" /\ out'[j].type = "data" /\ i < j =>
            out'[i].off + out'[i].n <= out'[j].off
    <3> SUFFICES ASSUME NEW i \in 1..Len(out'), NEW j \in 1..Len(out'),
                        out'[i].type = "data", out'[j].type = "data", i < j
                 PROVE  out'[i].off + out'[i].n <= out'[j].off
      OBVIOUS
    <3>1. i \in 1..Len(out) /\ out'[i] = out[i]
      BY <1>2
    <3>2. CASE j \in 1..Len(out)
      <4>1. out'[j] = out[j]
        BY <1>2, <3>2
      <4>2. QED BY <3>1, <3>2, <4>1 DEF ResponseInv, OutInv, DataFrame
    <3>3. CASE j = Len(out')
      BY <1>2, <1>3, <3>1, <3>3
    <3>4. QED BY <1>2, <3>2, <3>3
  <2>3. \A i \in 1..Len(out') :
          out'[i].type = "data" => out'[i].off + out'[i].n <= produced - (remaining - f.n)
    <3> SUFFICES ASSUME NEW i \in 1..Len(out'), out'[i].type = "data"
                 PROVE  out'[i].off + out'[i].n <= produced - (remaining - f.n)
      OBVIOUS
    <3>1. CASE i \in 1..Len(out)
      <4>1. out'[i] = out[i] /\ out[i].off \in Nat /\ out[i].n \in Nat
        BY <1>2, <3>1 DEF OutFrames
      <4>2. out[i].off + out[i].n <= produced - remaining
        BY <1>3, <3>1, <4>1
      <4>3. QED
        <5> DEFINE a == out[i].off + out[i].n
                   n == f.n
        <5>1. a \in Nat /\ n \in Nat /\ a <= produced - remaining
          <6>1. out[i].off \in Nat /\ out[i].n \in Nat
            BY <4>1
          <6>2. a \in Nat
            BY <6>1
          <6>3. QED BY <1>1, <4>2, <6>2
        <5> HIDE DEF a, n
        <5>2. a <= produced - (remaining - n)
          BY <1>1, <5>1
        <5>3. QED BY <4>1, <5>2 DEF a, n
    <3>2. CASE i = Len(out')
      <4>1. out'[i] = f /\ f.off = produced - remaining
        BY <1>2, <3>2
      <4>2. QED BY <1>1, <4>1
    <3>3. QED BY <1>2, <3>1, <3>2
  <2>4. ~ctxDone => sentBytes' = produced - (remaining - f.n)
    <3> DEFINE n == f.n
    <3>1. n \in Nat /\ (~ctxDone => sentBytes = produced - remaining)
      BY <1>1, <1>3
    <3> HIDE DEF n
    <3>2. ~ctxDone => sentBytes + n = produced - (remaining - n)
      BY <1>1, <3>1
    <3>3. QED BY <3>2 DEF n
  <2>5. rseq' = Len(out')
    BY <1>2, <1>3
  <2>6. QED BY <2>1, <2>2, <2>3, <2>4, <2>5 DEF OutInv, DataFrame
<1>7. EndInv'
  <2>1. \A i \in 1..Len(out') : out'[i].type # "end"
    BY <1>2, <1>3, <1>4 DEF Terminal
  <2>2. QED BY <1>3, <2>1, BareFields DEF EndInv
<1>8. VerdictInv'
  BY DEF VerdictInv
<1>9. QED BY <1>5, <1>6, <1>7, <1>8 DEF ResponseInv

(* The executor publishes nothing, and what it has given to send is not less *)
(* than before.                                                              *)
LEMMA ResponseGoesOn ==
  ASSUME TypeInv, ResponseInv, epc \in {"running", "sending"},
         epc' \in {"running", "sending"},
         UNCHANGED <<mpc, ctxDone, canceled, result, todo, rseq, out, sentBytes>>,
         produced' \in Nat, remaining' \in Nat,
         produced - remaining <= produced' - remaining',
         ~ctxDone => produced' - remaining' = produced - remaining
  PROVE  ResponseInv'
<1>1. Serving /\ Serving' /\ Pending' = Pending
  BY DEF ResponseInv, PlaceInv, Pending, Serving
<1>2. PlaceInv'
  BY <1>1 DEF ResponseInv, PlaceInv
<1>3. OutInv'
  <2>1. \A i \in 1..Len(out) :
          out[i].type = "data" => out[i].off + out[i].n <= produced' - remaining'
    <3> SUFFICES ASSUME NEW i \in 1..Len(out), out[i].type = "data"
                 PROVE  out[i].off + out[i].n <= produced' - remaining'
      OBVIOUS
    <3>1. out[i] \in OutFrames
      BY ElementOfSeq DEF TypeInv, RequestTypeOK
    <3>2. /\ out[i].off \in Nat /\ out[i].n \in Nat
          /\ produced \in Nat /\ remaining \in Nat
      BY <3>1 DEF OutFrames, TypeInv, RequestTypeOK
    <3>3. out[i].off + out[i].n <= produced - remaining
      BY DEF ResponseInv, OutInv, DataFrame
    <3> DEFINE a == out[i].off + out[i].n
               b == produced - remaining
               c == produced' - remaining'
    <3>4. a \in Int /\ b \in Int /\ c \in Int /\ a <= b /\ b <= c
      BY <3>2, <3>3
    <3> HIDE DEF a, b, c
    <3>5. a <= c
      BY <3>4
    <3>6. QED BY <3>5 DEF a, c
  <2>2. ~ctxDone => sentBytes = produced' - remaining'
    BY DEF ResponseInv, OutInv
  <2>3. QED BY <1>1, <2>1, <2>2 DEF ResponseInv, OutInv, DataFrame
<1>4. EndInv'
  BY <1>1 DEF ResponseInv, EndInv
<1>5. VerdictInv'
  BY DEF VerdictInv
<1>6. QED BY <1>2, <1>3, <1>4, <1>5 DEF ResponseInv

(* The executor returns. *)
LEMMA ResponseReturns ==
  ASSUME TypeInv, ResponseInv, epc = "running", epc' = "finished",
         UNCHANGED <<mpc, ctxDone, canceled, todo, rseq, out, sentBytes,
                     produced, remaining>>,
         \/ result' = <<>>
         \/ result' = <<Bare("error", 0)>>
         \/ result' = <<Bare("end", 0)>> /\ (HeedsContext => sentBytes = ResponseBytes)
         \/ result' = Buffered /\ out = <<>> /\ sentBytes = 0
  PROVE  ResponseInv'
<1>1. Serving /\ Serving' /\ Pending' = result'
  BY DEF ResponseInv, PlaceInv, Pending, Serving
<1>2. \A i \in 1..Len(out) : ~Terminal(out[i]) /\ out[i].type # "end"
  BY <1>1 DEF ResponseInv, OutInv, Terminal
<1>3. PlaceInv'
  <2>1. /\ mpc # "reading" /\ mpc # "publishing" /\ todo = <<>>
    BY <1>1 DEF Serving, ResponseInv, PlaceInv
  <2>2. \/ Pending' = <<>>
        \/ \E t \in {"end", "error", "cancelled"}, q \in 0..3 : Pending' = <<Bare(t, q)>>
        \/ Pending' = Buffered /\ out = <<>> /\ sentBytes = 0
    BY <1>1
  <2>3. QED BY <2>1, <2>2 DEF ResponseInv, PlaceInv
<1>4. OutInv'
  BY <1>2 DEF ResponseInv, OutInv, DataFrame
<1>5. EndInv'
  <2>1. ASSUME HeedsContext, NEW q \in 0..3, Pending' = <<Bare("end", q)>>
        PROVE  sentBytes = ResponseBytes
    BY <1>1, <2>1, BareFields, BufferedFrames
  <2>2. QED BY <1>2, <2>1 DEF EndInv
<1>6. VerdictInv'
  <2>1. Verdicts' = {"end", "error"}
    BY <1>1 DEF Verdicts
  <2>2. ASSUME NEW t \in {"end", "error", "cancelled"}, NEW q \in 0..3,
               result' = <<Bare(t, q)>>
        PROVE  t \in {"end", "error"}
    BY <2>2, BareFields, BufferedFrames
  <2>3. QED BY <1>1, <2>1, <2>2 DEF VerdictInv
<1>7. QED BY <1>3, <1>4, <1>5, <1>6 DEF ResponseInv

(* The executor publishes in order, and returns what it has produced. *)
LEMMA ResponseExecutor ==
  ASSUME TypeInv, ResponseInv, Executor
  PROVE  ResponseInv'
<1> USE DEF ExecutorLeaves, waitVars, execVars, outVars, streamVars
<1>1. /\ epc \in {"running", "sending"} => (epc = "running" <=> remaining = 0)
      /\ produced \in Nat /\ remaining \in Nat /\ rseq \in Nat /\ sentBytes \in Nat
      /\ TypeOK
  BY TypeParts DEF TypeInv, StreamOK, SendInv, RequestTypeOK
<1>2. UNCHANGED <<mpc, ctxDone, canceled, todo>>
  BY DEF Executor, Sender, SendProgress, SendData, PublishChunk, ReceiveGrant, DropData,
     ExecutorReturns, ExecutorReturnsResponse
<1>3. CASE SendProgress
  <2> DEFINE f == Bare("head", rseq + 1)
  <2>1. f \in OutFrames /\ f.type = "head" /\ f.seq = rseq + 1 /\ f.n = 0
    BY <1>1, BareType, BareFields
  <2>2. /\ out' = Append(out, f) /\ rseq' = rseq + 1 /\ epc = "running"
        /\ UNCHANGED <<epc, produced, remaining, result, sentBytes>>
    BY <1>3 DEF SendProgress, NextSeq
  <2> HIDE DEF f
  <2>3. sentBytes' = sentBytes + f.n /\ remaining' = remaining - f.n /\ f.n <= remaining
    BY <1>1, <2>1, <2>2
  <2>4. QED BY <1>2, <2>1, <2>2, <2>3, ResponseSends
<1>4. CASE \E n \in 1..ResponseBytes : SendData(n)
  <2>1. PICK n \in 1..ResponseBytes : SendData(n)
    BY <1>4
  <2>2. /\ epc = "running" /\ epc' = "sending" /\ produced' = produced + n /\ remaining' = n
        /\ UNCHANGED <<result, rseq, out, sentBytes>> /\ n \in Nat
    BY <2>1, DecodedRequestAssumption DEF SendData
  <2>3. produced - remaining = (produced + n) - n /\ produced + n \in Nat
    BY <1>1, <2>2
  <2>4. /\ produced' \in Nat /\ remaining' \in Nat
        /\ produced' - remaining' = produced - remaining
        /\ produced - remaining <= produced' - remaining'
    BY <1>1, <2>2, <2>3
  <2>5. QED BY <1>2, <2>2, <2>4, ResponseGoesOn
<1>5. CASE PublishChunk
  <2> DEFINE n == Available(gate, Smaller(remaining, ChunkBytes))
             f == [type |-> "data", seq |-> rseq + 1, n |-> n, off |-> produced - remaining]
  <2>1. epc = "sending" /\ remaining # 0
    BY <1>1, <1>5 DEF PublishChunk
  <2>2. /\ n \in 1..remaining /\ rseq' = rseq + 1
        /\ out' = Append(out, f) /\ sentBytes' = sentBytes + n
        /\ remaining' = remaining - n
        /\ epc' = IF remaining - n = 0 THEN "running" ELSE "sending"
    BY <1>1, <1>5, <2>1, ChunkBounds
  <2>3. UNCHANGED <<produced, result>>
    BY <1>5 DEF PublishChunk
  <2> HIDE DEF n
  <2>4. n \in Nat /\ n <= remaining /\ produced - remaining \in Nat
    BY <1>1, <2>2 DEF TypeInv, SendInv
  <2>5. /\ f \in OutFrames /\ f.type = "data" /\ f.seq = rseq + 1
        /\ f.off = produced - remaining /\ f.n = n
    BY <1>1, <2>4 DEF OutFrames
  <2> HIDE DEF f
  <2>6. epc' \in {"running", "sending"} /\ sentBytes' = sentBytes + f.n
        /\ remaining' = remaining - f.n /\ f.n <= remaining
    BY <2>2, <2>4, <2>5
  <2>7. QED BY <1>2, <2>1, <2>2, <2>3, <2>5, <2>6, ResponseSends
<1>6. CASE ReceiveGrant
  <2>1. UNCHANGED <<epc, produced, remaining, result, rseq, out, sentBytes>>
    BY <1>6 DEF ReceiveGrant
  <2>2. QED BY <1>2, <2>1, QuietStep
<1>7. CASE DropData
  <2>1. /\ epc = "sending" /\ epc' = "running" /\ remaining' = 0 /\ ctxDone
        /\ UNCHANGED <<produced, result, rseq, out, sentBytes>>
    BY <1>7 DEF DropData, Sending, GivesUp
  <2>2. produced - remaining <= produced - 0
    BY <1>1
  <2>3. produced - remaining <= produced' - remaining'
    BY <2>1, <2>2
  <2>4. QED BY <1>1, <1>2, <2>1, <2>3, ResponseGoesOn
<1>8. CASE \E type \in {"end", "error", "nothing"} : ExecutorReturns(type)
  <2>1. PICK type \in {"end", "error", "nothing"} : ExecutorReturns(type)
    BY <1>8
  <2>2. /\ epc = "running" /\ epc' = "finished"
        /\ result' = IF type = "nothing" THEN <<>> ELSE <<Bare(type, 0)>>
        /\ type = "end" => produced = ResponseBytes /\ (HeedsContext => ~ctxDone)
        /\ UNCHANGED <<rseq, out, sentBytes, produced, remaining>>
    BY <2>1 DEF ExecutorReturns
  <2>3. type = "end" /\ HeedsContext => sentBytes = ResponseBytes
    <3>1. ~ctxDone => sentBytes = produced - remaining
      BY <2>2 DEF ResponseInv, OutInv
    <3>2. produced - 0 = produced
      BY <1>1
    <3>3. QED BY <1>1, <2>2, <3>1, <3>2
  <2>4. \/ result' = <<>>
        \/ result' = <<Bare("error", 0)>>
        \/ result' = <<Bare("end", 0)>> /\ (HeedsContext => sentBytes = ResponseBytes)
    BY <2>2, <2>3
  <2>5. QED BY <1>2, <2>2, <2>4, ResponseReturns
<1>9. CASE ExecutorReturnsResponse
  <2>1. /\ epc = "running" /\ epc' = "finished" /\ result' = Buffered /\ out = <<>>
        /\ UNCHANGED <<rseq, out, sentBytes, produced, remaining>>
    BY <1>9 DEF ExecutorReturnsResponse, Buffered
  <2>2. sentBytes = 0
    BY <2>1 DEF ResponseInv, PlaceInv
  <2>3. QED BY <1>2, <2>1, <2>2, ResponseReturns
<1>10. QED BY <1>3, <1>4, <1>5, <1>6, <1>7, <1>8, <1>9 DEF Executor, Sender

(* Every step keeps the books of the response. *)
LEMMA ResponseNext ==
  ASSUME TypeInv, ResponseInv, [Next]_vars
  PROVE  ResponseInv'
<1>1. CASE Inputs
  <2>1. UNCHANGED requestVars
    BY <1>1, InputsKeepStream DEF TypeInv
  <2>2. ctxDone => ctxDone'
    BY <1>1 DEF Inputs, Control, ControlStarts, ControlSendsData, ControlSendsBodyRef,
       ControlGrants, ControlEnds, Says, Uploads, Grants, Send, Wire, StrayFrame,
       DuplicateFrame, Noise, IdleTime, IdlePasses, Deadline, DeadlinePasses, queueVars
  <2>3. QED BY <2>1, <2>2, QuietStep DEF requestVars, waitVars, execVars, outVars
<1>2. CASE UNCHANGED vars
  BY <1>2, QuietStep DEF vars, streamVars, requestVars, waitVars, execVars, outVars
<1>3. QED BY <1>1, <1>2, ResponseReader, ResponseWaiter, ResponseExecutor
          DEF Next, Inputs, ReadsBody

(* The invariants of the response hold in every state. *)
LEMMA ResponseHolds == Spec => [](TypeInv /\ ResponseInv)
<1>1. Init => TypeInv /\ ResponseInv
  BY TypeInit, ResponseInit
<1>2. TypeInv /\ ResponseInv /\ [Next]_vars => (TypeInv /\ ResponseInv)'
  BY TypeNext, ResponseNext
<1>3. QED BY <1>1, <1>2, PTL DEF Spec

(* The frames of the response are numbered from 1 without a gap and their   *)
(* data follow each other: no chunk is published twice, before the one it   *)
(* follows, or past a gap while the context lives.                          *)
THEOREM DecodedResponseInOrder == Spec => []ResponseInOrder
<1>1. TypeInv /\ ResponseInv => ResponseInOrder
  <2>1. SUFFICES ASSUME TypeInv, ResponseInv
                 PROVE  ResponseInOrder
    OBVIOUS
  <2>2. DOMAIN out = 1..Len(out)
    BY <2>1, LenProperties DEF TypeInv, RequestTypeOK
  <2>3. QED BY <2>1, <2>2 DEF ResponseInv, OutInv, ResponseInOrder
<1>2. QED BY <1>1, ResponseHolds, PTL

(* An executor that heeds its context never ends a response of which data   *)
(* were dropped with an End.                                                *)
THEOREM DecodedEndMeansComplete == Spec => []EndMeansComplete
<1>1. TypeInv /\ ResponseInv => EndMeansComplete
  <2>1. SUFFICES ASSUME TypeInv, ResponseInv
                 PROVE  EndMeansComplete
    OBVIOUS
  <2>2. DOMAIN out = 1..Len(out)
    BY <2>1, LenProperties DEF TypeInv, RequestTypeOK
  <2>3. QED BY <2>1, <2>2 DEF ResponseInv, EndInv, EndMeansComplete
<1>2. QED BY <1>1, ResponseHolds, PTL

(* A request that has executed is done only when the executor has returned  *)
(* and its verdict, or the cancellation of it, was the last frame sent.     *)
THEOREM DecodedExecutionAnswered == Spec => []ExecutionAnswered
<1>1. TypeInv /\ ResponseInv => ExecutionAnswered
  <2>1. SUFFICES ASSUME TypeInv, ResponseInv, mpc = "done", epc # "none"
                 PROVE  /\ epc = "finished"
                        /\ result # <<>> =>
                             out[Len(out)].type \in
                               IF canceled THEN {"cancelled", "end"} ELSE {"end", "error"}
    BY DEF ExecutionAnswered
  <2>2. ~Serving /\ todo = <<>> /\ Pending = <<>>
    BY <2>1 DEF Serving, Pending, ResponseInv, PlaceInv
  <2>3. epc = "finished"
    BY <2>1, <2>2 DEF ResponseInv, PlaceInv, TypeInv, RequestTypeOK
  <2>4. Verdicts = IF canceled THEN {"cancelled", "end"} ELSE {"end", "error"}
    BY <2>2 DEF Verdicts
  <2>5. QED BY <2>1, <2>2, <2>3, <2>4 DEF ResponseInv, VerdictInv
<1>2. QED BY <1>1, ResponseHolds, PTL

-----------------------------------------------------------------------------
(* The response is a stream under credit. *)

(* What is out never exceeds the credit that Control has granted. *)
LEMMA WithinCredit ==
  ASSUME TypeInv, CreditBooks, ~MayBuffer, DownloadCredit > 0
  PROVE  sentBytes <= DownloadCredit + granted
<1>1. /\ Unused(gate) \in Nat /\ grantBytes \in Nat /\ sentBytes \in Nat
      /\ taken \in Nat /\ granted \in Nat
  BY UnusedType DEF TypeInv, RequestTypeOK, StreamOK, StreamTypeOK
<1>2. Unused(gate) + grantBytes + sentBytes <= DownloadCredit + taken
  BY DEF CreditBooks, Accounted
<1>3. taken <= granted
  BY TakenWithinGranted DEF TypeInv
<1>4. QED BY <1>1, <1>2, <1>3, DecodedRequestAssumption

(* The same after a step that takes nothing from Control. *)
LEMMA WithinCreditNext ==
  TypeInv' /\ CreditBooks' /\ ~MayBuffer /\ DownloadCredit > 0
    => sentBytes' <= DownloadCredit + granted'
<1>1. TypeInv /\ CreditBooks /\ ~MayBuffer /\ DownloadCredit > 0
        => sentBytes <= DownloadCredit + granted
  BY WithinCredit
<1>2. (TypeInv /\ CreditBooks /\ ~MayBuffer /\ DownloadCredit > 0
        => sentBytes <= DownloadCredit + granted)'
  BY <1>1, PTL
<1>3. QED BY <1>2

(* A frame that goes out is a step of the stream. *)
LEMMA StreamPublishes ==
  ASSUME TypeInv, TypeInv', CreditBooks', ~MayBuffer, ~Closed,
         NEW f \in OutFrames, out' = Append(out, f), sentBytes' = sentBytes + f.n,
         Terminal(f) => f.n = 0, granted' = granted
  PROVE  Stream!Publish
<1>1. out \in Seq(OutFrames) /\ f.n \in Nat /\ sentBytes \in Nat
  BY DEF TypeInv, RequestTypeOK, OutFrames
<1>2. Len(out)' = Len(out) + 1
  BY <1>1, OutGrows
<1>3. sentBytes' >= sentBytes
  BY <1>1
<1>4. DownloadCredit > 0 => sentBytes' <= DownloadCredit + granted
  BY WithinCreditNext
<1>5. Closed' => sentBytes' = sentBytes
  <2>1. ASSUME Closed', ~Terminal(f)
        PROVE  FALSE
    <3>1. PICK i \in DOMAIN out' : Terminal(out'[i])
      BY <2>1 DEF Closed, Terminal
    <3>2. DOMAIN out' = 1..Len(out')
      BY LenProperties DEF TypeInv, RequestTypeOK
    <3>3. i \in 1..Len(out)
      BY <1>1, <2>1, <3>1, <3>2, OutGrows
    <3>4. out'[i] = out[i]
      BY <1>1, <3>3, OutGrows
    <3>5. i \in DOMAIN out
      BY <1>1, <3>3, LenProperties
    <3>6. QED BY <3>1, <3>4, <3>5 DEF Closed, Terminal
  <2>2. QED BY <1>1, <2>1
<1>6. Closed' \in BOOLEAN
  BY DEF Closed
<1>7. QED BY <1>2, <1>3, <1>4, <1>5, <1>6 DEF Stream!Publish

(* The executor's frames, and those of the answer, find the stream open. *)
LEMMA StreamOpen ==
  ASSUME TypeInv, ResponseInv, Serving \/ Pending # <<>>
  PROVE  ~Closed
<1>1. DOMAIN out = 1..Len(out)
  BY LenProperties DEF TypeInv, RequestTypeOK
<1>2. QED BY <1>1 DEF ResponseInv, OutInv, Closed, Terminal

(* Every step is one of the stream, or none. *)
LEMMA StreamStep ==
  ASSUME TypeInv, CreditBooks, ResponseInv, TypeInv', CreditBooks', ~MayBuffer,
         [Next]_vars
  PROVE  [Stream!Next]_Stream!vars
<1>1. ASSUME UNCHANGED <<granted, out, sentBytes>>
      PROVE  [Stream!Next]_Stream!vars
  BY <1>1 DEF Stream!vars, Closed
<1>2. CASE Inputs
  <2>1. UNCHANGED <<out, sentBytes>>
    BY <1>2, InputsKeepStream DEF TypeInv, requestVars, outVars
  <2>2. CASE \E n \in 1..ResponseBytes : ControlGrants(n)
    <3>1. PICK n \in 1..ResponseBytes : granted' = granted + n
      BY <2>2 DEF ControlGrants, Grants
    <3>2. granted \in Nat /\ n \in Nat \ {0}
      BY DecodedRequestAssumption DEF TypeInv, StreamOK, StreamTypeOK
    <3>3. granted' > granted
      BY <3>1, <3>2
    <3>4. QED BY <2>1, <3>3 DEF Stream!Next, Stream!Grant, Closed
  <2>3. CASE ~\E n \in 1..ResponseBytes : ControlGrants(n)
    <3>1. granted' = granted
      BY <1>2, <2>3 DEF Inputs, Control, ControlStarts, ControlSendsData, ControlSendsBodyRef,
         ControlEnds, Says, Uploads, Wire, StrayFrame, DuplicateFrame, Noise,
         IdleTime, IdlePasses, Deadline, DeadlinePasses, ctlVars
    <3>2. QED BY <1>1, <2>1, <3>1
  <2>4. QED BY <2>2, <2>3
<1>3. CASE ReadsBody
  BY <1>1, <1>3, ReaderLeaves DEF outVars
<1>4. CASE Waiter
  <2>1. granted' = granted
    BY <1>4 DEF Waiter, WaitSkips, WaitTakesCredit, WaitTakesCancel, HandOverGrant,
       FinishRequest, PublishAnswer, AcceptFrame, RefuseFrame, TakeFrame, ctlVars, streamVars
  <2>2. CASE PublishAnswer /\ todo # <<>>
    <3>1. /\ mpc = "publishing" /\ out' = Append(out, Head(todo))
          /\ sentBytes' = sentBytes + Head(todo).n
      BY <2>2 DEF PublishAnswer
    <3>2. Head(todo) \in OutFrames /\ Head(todo) = todo[1] /\ 1 \in 1..Len(todo)
      BY <2>2, HeadTailProperties, LenProperties, EmptySeq DEF TypeInv, RequestTypeOK
    <3>3. Head(todo).n = 0
      BY <3>2 DEF CreditBooks, ZeroBytes
    <3>4. ~Closed
      BY <2>2, <3>1, NextFrame, StreamOpen
    <3>5. Stream!Publish
      BY <2>1, <3>1, <3>2, <3>3, <3>4, StreamPublishes
    <3>6. QED BY <3>5 DEF Stream!Next
  <2>3. CASE ~(PublishAnswer /\ todo # <<>>)
    <3>1. UNCHANGED <<out, sentBytes>>
      BY <1>4, <2>3 DEF Waiter, WaitSkips, WaitTakesCredit, WaitTakesCancel, HandOverGrant,
         FinishRequest, PublishAnswer, Waiting, outVars
    <3>2. QED BY <1>1, <2>1, <3>1
  <2>4. QED BY <2>2, <2>3
<1>5. CASE Executor
  <2>1. granted' = granted
    BY <1>5 DEF Executor, Sender, SendProgress, SendData, PublishChunk, ReceiveGrant,
       DropData, ExecutorReturns, ExecutorReturnsResponse, ExecutorLeaves, streamVars, ctlVars
  <2>2. TypeOK /\ rseq \in Nat /\ produced \in Nat /\ remaining \in Nat
        /\ sentBytes \in Nat /\ remaining <= produced
    BY TypeParts DEF TypeInv, StreamOK, RequestTypeOK, SendInv
  <2>3. CASE SendProgress
    <3> DEFINE f == Bare("head", rseq + 1)
    <3>1. f \in OutFrames /\ f.n = 0
      BY <2>2, BareType, BareFields
    <3>2. epc = "running" /\ out' = Append(out, f) /\ sentBytes' = sentBytes
      BY <2>3 DEF SendProgress, NextSeq
    <3>3. ~Closed
      BY <3>2, StreamOpen DEF ResponseInv, PlaceInv
    <3> HIDE DEF f
    <3>4. sentBytes' = sentBytes + f.n
      BY <2>2, <3>1, <3>2
    <3>5. Stream!Publish
      BY <2>1, <3>1, <3>2, <3>3, <3>4, StreamPublishes
    <3>6. QED BY <3>5 DEF Stream!Next
  <2>4. CASE PublishChunk
    <3> DEFINE n == Available(gate, Smaller(remaining, ChunkBytes))
               f == [type |-> "data", seq |-> rseq + 1, n |-> n,
                     off |-> produced - remaining]
    <3>1. epc = "sending" /\ remaining # 0
      BY <2>4 DEF PublishChunk, TypeInv, SendInv
    <3>2. n \in 1..remaining /\ out' = Append(out, f) /\ sentBytes' = sentBytes + n
      BY <2>2, <2>4, <3>1, ChunkBounds
    <3> HIDE DEF n
    <3>3. f \in OutFrames /\ f.n = n /\ f.type = "data"
      BY <2>2, <3>2 DEF OutFrames
    <3>4. ~Closed
      BY <3>1, StreamOpen DEF ResponseInv, PlaceInv
    <3> HIDE DEF f
    <3>5. Stream!Publish
      BY <2>1, <3>2, <3>3, <3>4, StreamPublishes DEF Terminal
    <3>6. QED BY <3>5 DEF Stream!Next
  <2>5. CASE ~SendProgress /\ ~PublishChunk
    <3>1. UNCHANGED <<out, sentBytes>>
      BY <1>5, <2>5 DEF Executor, Sender, SendData, ReceiveGrant,
         DropData, ExecutorReturns, ExecutorReturnsResponse, outVars
    <3>2. QED BY <1>1, <2>1, <3>1
  <2>6. QED BY <2>3, <2>4, <2>5
<1>6. CASE UNCHANGED vars
  BY <1>1, <1>6 DEF vars, streamVars, ctlVars, requestVars, outVars
<1>7. QED BY <1>2, <1>3, <1>4, <1>5, <1>6 DEF Next, Inputs, ReadsBody

(* The frames of a request, whose executor does not return data it has not  *)
(* sent, are a stream under credit that is closed once, whatever Control,   *)
(* the wire and the two goroutines do.                                      *)
THEOREM DecodedImplementsCreditStream ==
  ~MayBuffer => (Spec => ImplementsCreditStream)
<1>1. SUFFICES ASSUME ~MayBuffer
               PROVE  Spec => ImplementsCreditStream
  OBVIOUS
<1>2. Init => TypeInv /\ CreditBooks /\ ResponseInv
  BY TypeInit, BooksInit, ResponseInit
<1>3. TypeInv /\ CreditBooks /\ ResponseInv /\ [Next]_vars
        => (TypeInv /\ CreditBooks /\ ResponseInv)'
  BY TypeNext, BooksNext, ResponseNext
<1>4. Init => Stream!Init
  <2>1. SUFFICES ASSUME Init
                 PROVE  Stream!Init
    OBVIOUS
  <2>2. granted = 0 /\ sentBytes = 0 /\ out = <<>>
    BY <2>1 DEF Init, StreamInit
  <2>3. Len(out) = 0 /\ DOMAIN out = {}
    BY <2>2
  <2>4. QED BY <2>2, <2>3 DEF Stream!Init, Closed
<1>5. TypeInv /\ CreditBooks /\ ResponseInv /\ (TypeInv /\ CreditBooks /\ ResponseInv)'
        /\ [Next]_vars => [Stream!Next]_Stream!vars
  BY <1>1, StreamStep
<1>6. QED BY <1>2, <1>3, <1>4, <1>5, PTL DEF Spec, ImplementsCreditStream, Stream!Spec

(* The bytes published never exceed the initial credit and what Control has *)
(* granted since, unless the executor returns data it has not sent.         *)
THEOREM DecodedCreditRespected == ~MayBuffer => (Spec => []CreditRespected)
<1>1. SUFFICES ASSUME ~MayBuffer
               PROVE  Spec => []CreditRespected
  OBVIOUS
<1>2. Init => TypeInv /\ CreditBooks
  BY TypeInit, BooksInit
<1>3. TypeInv /\ CreditBooks /\ [Next]_vars => (TypeInv /\ CreditBooks)'
  BY TypeNext, BooksNext
<1>4. TypeInv /\ CreditBooks => CreditRespected
  BY <1>1, WithinCredit DEF CreditRespected
<1>5. QED BY <1>2, <1>3, <1>4, PTL DEF Spec
=============================================================================
