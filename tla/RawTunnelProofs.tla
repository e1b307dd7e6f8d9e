---------------------------- MODULE RawTunnelProofs ----------------------------
(***************************************************************************)
(* What is proved of RawTunnel for every value of its constants: the safety *)
(* of a tunnel, whatever Control, the wire, the upstream and the two        *)
(* goroutines of the tunnel do, and in whatever order.                      *)
(***************************************************************************)
EXTENDS RawTunnel, RequestStreamProofs, CreditGateProofs

-----------------------------------------------------------------------------
(* Sequences of frames, and the bytes in them. *)

(* A sequence of one frame. *)
LEMMA Single ==
  ASSUME NEW S, NEW f \in S
  PROVE  /\ <<f>> \in Seq(S) /\ Len(<<f>>) = 1 /\ <<f>>[1] = f /\ <<f>> # <<>>
         /\ \A s \in Seq(S) : s \o <<f>> = Append(s, f)
         /\ \A g : <<f>> = <<g>> => f = g
<1>1. /\ <<f>> \in Seq(S) /\ Len(<<f>>) = 1 /\ <<f>>[1] = f /\ <<f>> # <<>>
      /\ \A g : <<f>> = <<g>> => f = g
  OBVIOUS
<1>2. ASSUME NEW s \in Seq(S)
      PROVE  s \o <<f>> = Append(s, f)
  <2> DEFINE c == s \o <<f>>
             a == Append(s, f)
  <2>1. /\ c \in Seq(S) /\ Len(c) = Len(s) + 1 /\ Len(s) \in Nat
        /\ \A i \in 1..Len(s) + 1 :
             c[i] = IF i <= Len(s) THEN s[i] ELSE <<f>>[i - Len(s)]
    BY <1>1, ConcatProperties, LenProperties
  <2>2. /\ a \in Seq(S) /\ Len(a) = Len(s) + 1
        /\ \A i \in 1..Len(s) : a[i] = s[i]
        /\ a[Len(s) + 1] = f
    BY AppendProperties
  <2> HIDE DEF c, a
  <2>3. ASSUME NEW i \in 1..Len(s) + 1
        PROVE  c[i] = a[i]
    <3>1. CASE i \in 1..Len(s)
      BY <2>1, <2>2, <3>1
    <3>2. CASE i = Len(s) + 1
      <4>1. i - Len(s) = 1 /\ ~(i <= Len(s))
        BY <2>1, <3>2
      <4>2. QED BY <1>1, <2>1, <2>2, <3>2, <4>1
    <3>3. QED BY <2>1, <3>1, <3>2
  <2>4. c = a
    BY <2>1, <2>2, <2>3, SeqEqual
  <2>5. QED BY <2>4 DEF c, a
<1>3. QED BY <1>1, <1>2

(* The bytes that one frame adds. *)
Weight(t, f) == IF f.type = t THEN f.n ELSE 0

(* BytesOf counts every frame once. *)
LEMMA BytesAppend ==
  ASSUME NEW S, \A f \in S : f.n \in Nat, NEW t, NEW s \in Seq(S), NEW f \in S
  PROVE  /\ BytesOf(t, s) \in Nat /\ Weight(t, f) \in Nat
         /\ BytesOf(t, Append(s, f)) = BytesOf(t, s) + Weight(t, f)
<1> DEFINE W(x) == [i \in DOMAIN x |-> IF x[i].type = t THEN x[i].n ELSE 0]
           a == Append(s, f)
           w == Weight(t, f)
<1>1. /\ a \in Seq(S) /\ Len(a) = Len(s) + 1 /\ Len(s) \in Nat
      /\ \A i \in 1..Len(s) : a[i] = s[i] /\ s[i] \in S
      /\ a[Len(s) + 1] = f
      /\ DOMAIN s = 1..Len(s) /\ DOMAIN a = 1..Len(a)
  BY AppendProperties, LenProperties, ElementOfSeq
<1>2. w \in Nat
  BY DEF Weight
<1>3. W(s) \in [1..Len(s) -> Nat]
  BY <1>1
<1>4. W(s) \in Seq(Nat) /\ Len(W(s)) = Len(s)
  BY <1>1, <1>3, SeqDef, LenProperties
<1>5. W(a) = Append(W(s), w)
  <2>1. /\ Append(W(s), w) \in Seq(Nat) /\ Len(Append(W(s), w)) = Len(s) + 1
        /\ \A i \in 1..Len(s) : Append(W(s), w)[i] = W(s)[i]
        /\ Append(W(s), w)[Len(s) + 1] = w
    BY <1>2, <1>4, AppendProperties
  <2>2. DOMAIN Append(W(s), w) = 1..Len(s) + 1
    BY <2>1, LenProperties
  <2>3. ASSUME NEW i \in 1..Len(s) + 1
        PROVE  W(a)[i] = Append(W(s), w)[i]
    <3>1. CASE i \in 1..Len(s)
      BY <1>1, <2>1, <3>1
    <3>2. CASE i = Len(s) + 1
      BY <1>1, <2>1, <3>2 DEF Weight
    <3>3. QED BY <1>1, <3>1, <3>2
  <2>4. W(a) \in [1..Len(s) + 1 -> Nat]
    BY <1>1
  <2>5. W(a) \in Seq(Nat) /\ Len(W(a)) = Len(s) + 1
    BY <1>1, <2>4, SeqDef, LenProperties
  <2> HIDE DEF W, a, w
  <2>6. QED BY <2>1, <2>3, <2>5, SeqEqual
<1>6. BytesOf(t, s) = Total(W(s)) /\ BytesOf(t, a) = Total(W(a))
  BY DEF BytesOf
<1> HIDE DEF W, w
<1>7. QED BY <1>2, <1>4, <1>5, <1>6, TotalAppend, TotalType DEF w

(* It is a number for every sequence of frames. *)
LEMMA BytesType ==
  ASSUME NEW S, \A f \in S : f.n \in Nat, NEW t, NEW s \in Seq(S)
  PROVE  BytesOf(t, s) \in Nat
<1> DEFINE w == [i \in DOMAIN s |-> IF s[i].type = t THEN s[i].n ELSE 0]
<1>1. Len(s) \in Nat /\ DOMAIN s = 1..Len(s) /\ \A i \in 1..Len(s) : s[i] \in S
  BY LenProperties, ElementOfSeq
<1>2. w \in [1..Len(s) -> Nat]
  BY <1>1
<1> HIDE DEF w
<1>3. w \in Seq(Nat)
  BY <1>1, <1>2, SeqDef
<1>4. QED BY <1>3, TotalType DEF BytesOf, w

(* No frames, no bytes. *)
LEMMA BytesEmpty == \A t : BytesOf(t, <<>>) = 0
<1> SUFFICES ASSUME NEW t PROVE BytesOf(t, <<>>) = 0
  OBVIOUS
<1> DEFINE W == [i \in DOMAIN <<>> |-> IF <<>>[i].type = t THEN <<>>[i].n ELSE 0]
<1>1. DOMAIN W = {}
  OBVIOUS
<1>2. Units(W) = {}
  BY <1>1 DEF Units
<1>3. QED BY <1>2, FS_EmptySet DEF BytesOf, Total

(* The bytes of a sequence of one frame. *)
LEMMA BytesSingle ==
  ASSUME NEW S, \A f \in S : f.n \in Nat, NEW t, NEW f \in S
  PROVE  BytesOf(t, <<f>>) = Weight(t, f)
<1>1. <<>> \in Seq(S) /\ <<f>> = Append(<<>>, f)
  OBVIOUS
<1>2. BytesOf(t, <<f>>) = BytesOf(t, <<>>) + Weight(t, f) /\ Weight(t, f) \in Nat
  BY <1>1, BytesAppend
<1>3. QED BY <1>2, BytesEmpty

(* What comes before the i-th frame does not change when one is added. *)
LEMMA PrefixKept ==
  ASSUME NEW S, NEW s \in Seq(S), NEW f \in S, NEW i \in 1..Len(s) + 1
  PROVE  /\ SubSeq(Append(s, f), 1, i - 1) = SubSeq(s, 1, i - 1)
         /\ i = Len(s) + 1 => SubSeq(s, 1, i - 1) = s
<1> DEFINE a == Append(s, f)
           k == i - 1
<1>1. /\ a \in Seq(S) /\ Len(a) = Len(s) + 1 /\ Len(s) \in Nat
      /\ \A j \in 1..Len(s) : a[j] = s[j] /\ s[j] \in S
  BY AppendProperties, LenProperties, ElementOfSeq
<1>2. k \in 0..Len(s)
  BY <1>1
<1> HIDE DEF a, k
<1>3. \A j \in 1..k : a[j] \in S /\ s[j] \in S /\ a[j] = s[j]
  BY <1>1, <1>2
<1>4. /\ SubSeq(a, 1, k) \in Seq(S) /\ Len(SubSeq(a, 1, k)) = k
      /\ \A j \in 1..k : SubSeq(a, 1, k)[j] = a[j]
  <2>1. /\ SubSeq(a, 1, k) \in Seq(S)
        /\ Len(SubSeq(a, 1, k)) = IF 1 <= k THEN k - 1 + 1 ELSE 0
        /\ \A j \in 1..k - 1 + 1 : SubSeq(a, 1, k)[j] = a[1 + j - 1]
    BY <1>2, <1>3, SubSeqProperties
  <2>2. \A j \in 1..k : j \in 1..k - 1 + 1 /\ 1 + j - 1 = j
    BY <1>2
  <2>3. QED BY <1>2, <2>1, <2>2
<1>5. /\ SubSeq(s, 1, k) \in Seq(S) /\ Len(SubSeq(s, 1, k)) = k
      /\ \A j \in 1..k : SubSeq(s, 1, k)[j] = s[j]
  <2>1. /\ SubSeq(s, 1, k) \in Seq(S)
        /\ Len(SubSeq(s, 1, k)) = IF 1 <= k THEN k - 1 + 1 ELSE 0
        /\ \A j \in 1..k - 1 + 1 : SubSeq(s, 1, k)[j] = s[1 + j - 1]
    BY <1>2, <1>3, SubSeqProperties
  <2>2. \A j \in 1..k : j \in 1..k - 1 + 1 /\ 1 + j - 1 = j
    BY <1>2
  <2>3. QED BY <1>2, <2>1, <2>2
<1>6. SubSeq(a, 1, k) = SubSeq(s, 1, k)
  BY <1>3, <1>4, <1>5, SeqEqual
<1>7. k = Len(s) => SubSeq(s, 1, k) = s
  BY <1>5, SeqEqual
<1>8. i = Len(s) + 1 => k = Len(s)
  BY <1>1 DEF k
<1>9. QED BY <1>6, <1>7, <1>8 DEF a, k

-----------------------------------------------------------------------------
(* The stream, whatever the step. *)

Inputs == Environment \/ IdleTime \/ Deadline

(* Steps of the tunnel and its peer that take no frame. *)
Apart == Upstream \/ Open \/ Write \/ Download

(* Control, the wire and time leave the tunnel alone. *)
LEMMA InputsKeepStream ==
  ASSUME StreamOK, Inputs
  PROVE  /\ StreamOK' /\ UNCHANGED <<tunnelVars, taken, validator>>
         /\ quiet' \in {quiet, TRUE}
<1> USE DEF StreamOK
<1>1. ASSUME NEW type \in FrameTypes \ {"credit"}, NEW n \in Nat,
             Uploads(type, n) \/ Says(type)
      PROVE  StreamOK'
  BY <1>1, UploadsTypes, SaysTypes, CreditSend
<1>2. ASSUME NEW n \in Nat, Grants(n)
      PROVE  StreamOK'
  BY <1>2, GrantsTypes, CreditGranted
<1>3. ASSUME NEW type \in FrameTypes, NEW seq \in Nat,
             StrayFrame(type, seq) \/ DuplicateFrame
      PROVE  StreamOK'
  BY <1>3, StrayTypes, DuplicateTypes, CreditNoise
<1>4. ASSUME IdlePasses \/ DeadlinePasses
      PROVE  StreamOK'
  BY <1>4, TimeTypes, CreditTime
  DEF IdlePasses, DeadlinePasses, ctlVars, queueVars
<1> HIDE DEF StreamOK
<1>5. ASSUME Environment
      PROVE  StreamOK'
  <2>1. ASSUME NEW n \in 1..UploadBytes, ControlSendsData(n) PROVE StreamOK'
    BY <1>1, <2>1, RawTunnelAssumption DEF ControlSendsData, FrameTypes
  <2>2. ASSUME NEW n \in 1..UpstreamBytes, ControlGrants(n) PROVE StreamOK'
    BY <1>2, <2>2, RawTunnelAssumption DEF ControlGrants
  <2>3. ASSUME NEW type \in {"cancel", "end"}, Says(type) PROVE StreamOK'
    BY <1>1, <2>3 DEF FrameTypes
  <2>4. ASSUME NEW seq \in 2..MaxSeq, StrayFrame("data", seq) PROVE StreamOK'
    BY <1>3, <2>4, RequestStreamAssumption DEF FrameTypes
  <2>5. CASE DuplicateFrame
    <3>1. "data" \in FrameTypes /\ 0 \in Nat
      BY DEF FrameTypes
    <3>2. QED BY <1>3, <2>5, <3>1
  <2>6. QED BY <1>5, <2>1, <2>2, <2>3, <2>4, <2>5 DEF Environment
<1>6. StreamOK'
  BY <1>4, <1>5 DEF Inputs, IdleTime, Deadline
<1>7. UNCHANGED <<tunnelVars, taken, validator>> /\ quiet' \in {quiet, TRUE}
  BY DEF Inputs, Environment, ControlSendsData, ControlGrants, Says, Uploads, Grants, Send,
     StrayFrame, DuplicateFrame, Noise, IdleTime, IdlePasses, Deadline, DeadlinePasses,
     queueVars
<1>8. QED BY <1>6, <1>7

(* The upstream, the opening, a Write and the download leave the stream alone. *)
LEMMA ApartKeepsStream ==
  ASSUME Apart
  PROVE  UNCHANGED streamVars
BY DEF Apart, Upstream, UpstreamSends, UpstreamEnds, Open, OpenTunnelFails, OpenTunnel,
   Write, WriteUpstream, WriteFails, WriteLeaves, Download, DownloadReads, DownloadEnds,
   DownloadNumbers, DownloadPublishes, DownloadGoesOn, ReceiveGrant, DownloadGivesUp,
   DownLeaves

(* The tunnel takes frames from the stream and does nothing else to it. *)
LEMMA OwnerTakesFrames ==
  ASSUME StreamOK, Apart \/ Loop
  PROVE  OwnerStep
<1>1. ctxDone \in BOOLEAN
  BY DEF StreamOK, StreamTypeOK
<1>2. CASE Apart
  BY <1>1, <1>2, ApartKeepsStream DEF OwnerStep, streamVars
<1>3. CASE TakeUseless
  <2>1. FrameTypes \ {"data", "cancel", "credit"} \in SUBSET FrameTypes
        /\ {"credit"} \in SUBSET FrameTypes
    BY DEF FrameTypes
  <2>2. QED BY <1>1, <1>3, <2>1 DEF TakeUseless, Taking, OwnerStep
<1>4. CASE TakeData
  <2>1. {"data"} \in SUBSET FrameTypes
    BY DEF FrameTypes
  <2>2. QED BY <1>1, <1>4, <2>1 DEF TakeData, Taking, OwnerStep
<1>5. CASE TakeCredit
  <2>1. {"credit"} \in SUBSET FrameTypes
    BY DEF FrameTypes
  <2>2. QED BY <1>1, <1>5, <2>1 DEF TakeCredit, Taking, OwnerStep
<1>6. CASE TakeCancel
  <2>1. {"cancel"} \in SUBSET FrameTypes
    BY DEF FrameTypes
  <2>2. QED BY <1>1, <1>6, <2>1 DEF TakeCancel, Taking, OwnerStep
<1>7. CASE LoopPublishes \/ TakeDone \/ TakeContext \/ TakeIdle \/ HandOverGrant
           \/ CloseConn \/ CancelContext
  BY <1>1, <1>7 DEF LoopPublishes, TakeDone, TakeContext, TakeIdle, LoopEnds, HandOverGrant,
     CloseConn, CancelContext, OwnerStep, streamVars
<1>8. QED BY <1>2, <1>3, <1>4, <1>5, <1>6, <1>7 DEF Loop

(* The stream is sound after every step. *)
LEMMA StreamNext ==
  ASSUME StreamOK, [Next]_vars
  PROVE  StreamOK'
<1>1. CASE Inputs
  BY <1>1, InputsKeepStream
<1>2. CASE Apart \/ Loop
  BY <1>2, OwnerTakesFrames, OwnerKeepsStream
<1>3. CASE UNCHANGED vars
  BY <1>3, CreditTime DEF vars, streamVars, ctlVars, queueVars, StreamOK, StreamTypeOK
<1>4. QED BY <1>1, <1>2, <1>3 DEF Next, Inputs, Apart

(* The validator has taken the RequestStart when the tunnel starts. *)
LEMMA StreamStarts ==
  ASSUME Init
  PROVE  StreamOK /\ validator.offset = 0
<1> DEFINE u == NewValidator(Attempt, UploadCredit, FALSE)
           v == AfterAccept(u, StartFrame)
<1>1. u \in Validators
  BY NewValidatorType, RequestStreamAssumption DEF Attempt
<1>2. u.attempt = Attempt /\ u.offset = 0 /\ u.expectedSeq = 1 /\ u.credit = UploadCredit
      /\ u.terminal = FALSE /\ u.allowBodyRef = FALSE
  BY DEF NewValidator
<1> HIDE DEF u
<1>3. v = [u EXCEPT !.expectedSeq = u.expectedSeq + 1, !.offset = u.offset + 0,
                    !.credit = u.credit - 0, !.terminal = FALSE]
  <2>1. StartFrame.type = "startOther"
    BY DEF StartFrame
  <2>2. (u.terminal \/ IsTerminalFrame(StartFrame)) = FALSE
    BY <1>2, <2>1 DEF IsTerminalFrame
  <2>3. QED BY <2>1, <2>2 DEF AfterAccept
<1>4. v \in Validators /\ v.attempt = Attempt /\ v.offset = 0
  <2>1. /\ u.expectedSeq + 1 \in Nat /\ u.offset + 0 = 0 /\ u.credit - 0 \in Nat
    BY <1>2, RequestStreamAssumption
  <2>2. QED BY <1>1, <1>2, <1>3, <2>1 DEF Validators
<1>5. StreamInit(2, v)
  BY DEF Init, u
<1> HIDE DEF v
<1>6. StreamTypeOK
  BY <1>4, <1>5, StreamInitTypes
<1>7. CreditInv
  BY <1>4, <1>5, CreditInit
<1>8. validator = v
  BY <1>5 DEF StreamInit
<1>9. QED BY <1>4, <1>6, <1>7, <1>8 DEF StreamOK

-----------------------------------------------------------------------------
(* Types, and what each actor has in hand where it is. *)

TunnelTypeOK ==
  /\ arrived \in Nat /\ upstream \in {"open", "eof", "reset"}
  /\ written \in Seq(Nat \X Nat) /\ connOpen \in BOOLEAN
  /\ tpc \in {"opening", "loop", "publishing", "granting", "writing",
             "closing", "closed", "done"}
  /\ inHand \in Seq(Frames) /\ Len(inHand) <= 1
  /\ loopFrame \in Seq(OutFrames) /\ Len(loopFrame) <= 1
  /\ dpc \in {"none", "reading", "sending", "finished"}
  /\ read \in Nat /\ chunk \in Nat
  /\ readErr \in {"none", "eof", "reset"}
  /\ downFrame \in Seq(OutFrames) /\ Len(downFrame) <= 1
  /\ done \in Seq({"eof", "reset", "closed", "context"}) /\ Len(done) <= 1
  /\ gate \in Gates
  /\ builder \in Nat
  /\ out \in Seq(OutFrames)

(* The types of the stream and those of the tunnel. *)
LEMMA TypeParts == TypeOK <=> StreamTypeOK /\ TunnelTypeOK
BY DEF TypeOK, TunnelTypeOK, Gates

LoopHolds ==
  IF tpc = "publishing"
  THEN \E f \in OutFrames : f.type \in {"credit", "end", "error", "cancelled"}
                            /\ loopFrame = <<f>>
  ELSE loopFrame = <<>>

HandHolds ==
  IF tpc = "writing" THEN \E f \in Frames : f.type = "data" /\ inHand = <<f>>
  ELSE IF tpc = "granting" THEN \E f \in Frames : f.type = "credit" /\ inHand = <<f>>
  ELSE inHand = <<>>

DownHolds ==
  downFrame # <<>> =>
    /\ dpc = "sending"
    /\ \E f \in OutFrames : /\ f.type = "data" /\ f.off = read - chunk /\ f.n \in 1..chunk
                            /\ downFrame = <<f>>

PlaceInv ==
  /\ LoopHolds /\ HandHolds /\ DownHolds
  /\ done # <<>> => dpc = "finished"
  /\ dpc \in {"none", "reading"} => chunk = 0
  /\ chunk <= read /\ read <= arrived
  /\ dpc = "none" => read = 0
  /\ tpc = "opening" => dpc = "none" /\ out = <<>> /\ builder = 0 /\ written = <<>>

TypeInv == StreamOK /\ TunnelTypeOK /\ PlaceInv

(* The two frames that a tunnel starts with. *)
LEMMA Openers ==
  ASSUME NEW second \in {"head", "error"}
  PROVE  /\ OpenFrames(second) \in Seq(OutFrames) /\ Len(OpenFrames(second)) = 2
         /\ \A i \in 1..2 : OpenFrames(second)[i].seq = i
         /\ OpenFrames(second)[1].type = "head" /\ OpenFrames(second)[2].type = second
         /\ BytesOf("data", OpenFrames(second)) = 0
<1> DEFINE a == [type |-> "head", seq |-> 1, off |-> 0, n |-> 0]
           b == [type |-> second, seq |-> 2, off |-> 0, n |-> 0]
<1>1. /\ a \in OutFrames /\ a.type = "head" /\ a.seq = 1
      /\ b \in OutFrames /\ b.type = second /\ b.seq = 2
  BY DEF OutFrames
<1>2. \A f \in OutFrames : f.n \in Nat
  BY DEF OutFrames
<1>3. OpenFrames(second) = <<a, b>>
  BY DEF OpenFrames
<1> HIDE DEF a, b
<1>4. /\ <<a, b>> \in Seq(OutFrames) /\ Len(<<a, b>>) = 2
      /\ <<a, b>>[1] = a /\ <<a, b>>[2] = b
      /\ <<a, b>> = Append(<<a>>, b) /\ <<a>> \in Seq(OutFrames)
  BY <1>1
<1>5. BytesOf("data", <<a, b>>) = 0
  <2>1. BytesOf("data", <<a>>) = Weight("data", a) /\ Weight("data", a) = 0
    BY <1>1, <1>2, BytesSingle DEF Weight
  <2>2. BytesOf("data", Append(<<a>>, b)) = BytesOf("data", <<a>>) + Weight("data", b)
    BY <1>1, <1>2, <1>4, BytesAppend
  <2>3. Weight("data", b) = 0
    BY <1>1 DEF Weight
  <2> DEFINE x == BytesOf("data", <<a>>)
             y == BytesOf("data", Append(<<a>>, b))
             w == Weight("data", b)
  <2>4. x = 0 /\ y = x + w /\ w = 0
    BY <2>1, <2>2, <2>3, Zenon
  <2> HIDE DEF x, y, w
  <2>5. y = 0
    BY <2>4
  <2>6. QED BY <1>4, <2>5, Zenon DEF y
<1>6. \A i \in 1..2 : i = 1 \/ i = 2
  OBVIOUS
<1>7. QED BY <1>1, <1>3, <1>4, <1>5, <1>6

(* What the loop sends. *)
LEMMA LoopSends ==
  ASSUME TypeInv, LoopPublishes
  PROVE  \E f \in OutFrames :
           /\ loopFrame = <<f>> /\ f.type \in {"credit", "end", "error", "cancelled"}
           /\ out' = Append(out, f) /\ loopFrame' = <<>> /\ tpc = "publishing"
           /\ tpc' = IF IsTerminal(f) THEN "closing" ELSE "loop"
<1>1. PICK f \in OutFrames : /\ f.type \in {"credit", "end", "error", "cancelled"}
                             /\ loopFrame = <<f>>
  BY DEF TypeInv, PlaceInv, LoopHolds, LoopPublishes
<1>2. loopFrame[1] = f /\ out \o <<f>> = Append(out, f)
  BY <1>1, Single DEF TypeInv, TunnelTypeOK
<1>3. QED BY <1>1, <1>2 DEF LoopPublishes

(* What the download sends. *)
LEMMA DownSends ==
  ASSUME TypeInv, DownloadPublishes
  PROVE  \E f \in OutFrames :
           /\ downFrame = <<f>> /\ f.type = "data" /\ f.off = read - chunk /\ f.n \in 1..chunk
           /\ out' = Append(out, f) /\ downFrame' = <<>> /\ chunk' = chunk - f.n
           /\ dpc = "sending"
<1>1. PICK f \in OutFrames : /\ f.type = "data" /\ f.off = read - chunk /\ f.n \in 1..chunk
                             /\ downFrame = <<f>>
  BY DEF TypeInv, PlaceInv, DownHolds, DownloadPublishes
<1>2. downFrame[1] = f /\ out \o <<f>> = Append(out, f)
  BY <1>1, Single DEF TypeInv, TunnelTypeOK
<1>3. QED BY <1>1, <1>2 DEF DownloadPublishes, Rest

(* The frame that the loop numbers is well formed. *)
LEMMA LoopNumbersTypes ==
  ASSUME TypeInv, NEW type \in {"credit", "end", "error", "cancelled"}, NEW n \in Nat,
         LoopNumbers(type, n)
  PROVE  /\ \E f \in OutFrames : /\ f.type = type /\ f.seq = builder + 1 /\ f.n = n
                                 /\ loopFrame' = <<f>>
         /\ loopFrame' \in Seq(OutFrames) /\ Len(loopFrame') <= 1
         /\ LoopHolds' /\ builder' = builder + 1 /\ builder' \in Nat /\ tpc' = "publishing"
<1> DEFINE f == Numbered(type, 0, n)
<1>1. builder \in Nat /\ builder + 1 \in Nat
  BY DEF TypeInv, TunnelTypeOK
<1>2. f \in OutFrames /\ f.type = type /\ f.seq = builder + 1 /\ f.n = n
  BY <1>1 DEF OutFrames, Numbered
<1>3. loopFrame' = <<f>> /\ builder' = builder + 1 /\ tpc' = "publishing"
  BY DEF LoopNumbers
<1> HIDE DEF f
<1>4. <<f>> \in Seq(OutFrames) /\ Len(<<f>>) = 1
  BY <1>2, Single
<1>5. LoopHolds'
  BY <1>2, <1>3 DEF LoopHolds
<1>6. QED BY <1>1, <1>2, <1>3, <1>4, <1>5

(* Every variable starts in its type, and nobody has anything in hand. *)
LEMMA TypeInit ==
  ASSUME Init
  PROVE  TypeInv
<1>1. StreamOK
  BY StreamStarts
<1>2. gate \in Gates
  BY NewGateHolds, RawTunnelAssumption DEF Init
<1>3. /\ arrived = 0 /\ upstream = "open" /\ written = <<>> /\ connOpen = FALSE
      /\ tpc = "opening" /\ inHand = <<>> /\ loopFrame = <<>>
      /\ dpc = "none" /\ read = 0 /\ chunk = 0 /\ readErr = "none"
      /\ downFrame = <<>> /\ done = <<>> /\ builder = 0 /\ out = <<>>
  BY DEF Init
<1>4. /\ written \in Seq(Nat \X Nat) /\ inHand \in Seq(Frames)
      /\ loopFrame \in Seq(OutFrames) /\ downFrame \in Seq(OutFrames)
      /\ out \in Seq(OutFrames) /\ done \in Seq({"eof", "reset", "closed", "context"})
  <2>1. /\ <<>> \in Seq(Nat \X Nat) /\ <<>> \in Seq(Frames) /\ <<>> \in Seq(OutFrames)
        /\ <<>> \in Seq({"eof", "reset", "closed", "context"})
    BY EmptySeq
  <2>2. QED BY <1>3, <2>1, Zenon
<1>5. Len(inHand) <= 1 /\ Len(loopFrame) <= 1 /\ Len(downFrame) <= 1 /\ Len(done) <= 1
  <2>1. Len(<<>>) <= 1
    OBVIOUS
  <2>2. QED BY <1>3, <2>1, Zenon
<1>6. TunnelTypeOK
  <2>1. /\ arrived \in Nat /\ upstream = "open" /\ connOpen \in BOOLEAN
        /\ tpc = "opening" /\ dpc = "none" /\ read \in Nat /\ chunk \in Nat
        /\ readErr = "none" /\ builder \in Nat
    BY <1>3
  <2>2. QED BY <1>2, <1>4, <1>5, <2>1 DEF TunnelTypeOK
<1>7. PlaceInv
  BY <1>3 DEF PlaceInv, LoopHolds, HandHolds, DownHolds
<1>8. QED BY <1>1, <1>6, <1>7 DEF TypeInv

(* The upstream, and the opening of the tunnel. *)
LEMMA TypesOpen ==
  ASSUME TypeInv, Upstream \/ Open
  PROVE  TunnelTypeOK' /\ PlaceInv'
<1> USE DEF peerVars, connVars, loopVars, downVars, sharedVars, PlaceInv, LoopHolds, HandHolds,
            DownHolds
<1>1. TunnelTypeOK /\ PlaceInv
  BY DEF TypeInv
<1>2. CASE \E n \in 1..UpstreamBytes : UpstreamSends(n)
  <2>1. PICK n \in 1..UpstreamBytes : UpstreamSends(n)
    BY <1>2
  <2>2. arrived' = arrived + n /\ n \in Nat /\ arrived \in Nat /\ read \in Nat
    BY <1>1, <2>1, RawTunnelAssumption DEF UpstreamSends, TunnelTypeOK
  <2>3. arrived' \in Nat /\ read <= arrived'
    BY <1>1, <2>2
  <2>4. QED BY <1>1, <2>1, <2>3 DEF UpstreamSends, TunnelTypeOK
<1>3. CASE \E how \in {"eof", "reset"} : UpstreamEnds(how)
  BY <1>1, <1>3 DEF UpstreamEnds, TunnelTypeOK
<1>4. CASE OpenTunnelFails
  BY <1>1, <1>4, Openers DEF OpenTunnelFails, TunnelTypeOK
<1>5. CASE OpenTunnel
  BY <1>1, <1>5, Openers DEF OpenTunnel, TunnelTypeOK
<1>6. QED BY <1>2, <1>3, <1>4, <1>5 DEF Upstream, Open

(* The loop takes one frame or numbers one, and hands over what it has. *)
LEMMA TypesLoop ==
  ASSUME TypeInv, Loop
  PROVE  TunnelTypeOK' /\ PlaceInv'
<1> USE DEF peerVars, connVars, loopVars, downVars, sharedVars, PlaceInv, DownHolds
<1>1. StreamTypeOK /\ TunnelTypeOK /\ PlaceInv
  BY DEF TypeInv, StreamOK
<1>2. \A f \in Frames : <<f>> \in Seq(Frames) /\ Len(<<f>>) = 1
  BY Single
<1>3. <<>> \in Seq(Frames) /\ Len(<<>>) = 0 /\ <<>> \in Seq(OutFrames)
      /\ <<>> \in Seq({"eof", "reset", "closed", "context"})
  BY EmptySeq
<1>4. CASE LoopPublishes
  <2>1. PICK f \in OutFrames : out' = Append(out, f) /\ loopFrame' = <<>>
                               /\ tpc' \in {"closing", "loop"} /\ tpc = "publishing"
    BY <1>4, LoopSends
  <2>2. out' \in Seq(OutFrames)
    BY <1>1, <2>1, AppendProperties DEF TunnelTypeOK
  <2>3. QED BY <1>1, <1>3, <1>4, <2>1, <2>2
        DEF LoopPublishes, TunnelTypeOK, LoopHolds, HandHolds
<1>5. CASE TakeDone \/ TakeContext \/ TakeCancel
  <2>1. PICK type \in {"credit", "end", "error", "cancelled"} : LoopNumbers(type, 0)
    BY <1>5 DEF TakeDone, TakeContext, TakeCancel, SaysCancelled
  <2>2. /\ loopFrame' \in Seq(OutFrames) /\ Len(loopFrame') <= 1
        /\ LoopHolds' /\ builder' \in Nat /\ tpc' = "publishing" /\ tpc = "loop"
    BY <1>5, <2>1, LoopNumbersTypes DEF TakeDone, TakeContext, TakeCancel, Taking
  <2>3. /\ UNCHANGED <<peerVars, connVars, inHand, downVars, gate, out>>
        /\ done' = done \/ done' = <<>>
    BY <1>5 DEF TakeDone, TakeContext, TakeCancel, Taking, LoopEnds
  <2>4. QED BY <1>1, <1>3, <2>2, <2>3 DEF TunnelTypeOK, HandHolds
<1>6. CASE TakeIdle \/ CloseConn \/ CancelContext
  BY <1>1, <1>6 DEF TakeIdle, CloseConn, CancelContext, LoopEnds, Closes, TunnelTypeOK,
     LoopHolds, HandHolds
<1>7. CASE TakeUseless
  BY <1>1, <1>7 DEF TakeUseless, Taking, TunnelTypeOK, LoopHolds, HandHolds
<1>8. CASE TakeData \/ TakeCredit
  <2>1. /\ Frame \in Frames /\ inHand' = <<Frame>>
        /\ \/ Frame.type = "data" /\ tpc' = "writing"
           \/ Frame.type = "credit" /\ tpc' = "granting"
    BY <1>1, <1>8, AcceptAdvances DEF TakeData, TakeCredit
  <2>2. /\ tpc = "loop"
        /\ UNCHANGED <<peerVars, connVars, loopFrame, downVars, sharedVars>>
    BY <1>8 DEF TakeData, TakeCredit, Taking
  <2>3. QED BY <1>1, <1>2, <2>1, <2>2 DEF TunnelTypeOK, LoopHolds, HandHolds
<1>9. CASE HandOverGrant
  <2>1. PICK f \in Frames : inHand = <<f>>
    BY <1>1, <1>9 DEF HandOverGrant, HandHolds
  <2>2. inHand[1].n \in Nat
    BY <2>1, Single DEF Frames
  <2>3. gate' \in Gates
    BY <1>1, <1>9, <2>2, GrantAdds DEF HandOverGrant, TunnelTypeOK
  <2>4. QED BY <1>1, <1>3, <1>9, <2>3 DEF HandOverGrant, TunnelTypeOK, LoopHolds, HandHolds
<1>10. QED BY <1>4, <1>5, <1>6, <1>7, <1>8, <1>9 DEF Loop

(* What the upstream has been given after a Write, or a part of one. *)
LEMMA WriteAdds ==
  ASSUME TypeInv, Write
  PROVE  \E f \in Frames : \E k \in 0..f.n :
           /\ f.type = "data" /\ inHand = <<f>> /\ f.n \in Nat
           /\ written \in Seq(Nat \X Nat) /\ written' \in Seq(Nat \X Nat)
           /\ Len(written') = Len(written) + k
           /\ \A i \in 1..Len(written) : written'[i] = written[i]
           /\ \A i \in 1..k : written'[Len(written) + i] = <<f.attempt, f.off + i - 1>>
           /\ \/ k = f.n /\ LoopNumbers("credit", f.n)
              \/ LoopNumbers("error", 0)
           /\ inHand' = <<>>
<1>1. PICK f \in Frames : f.type = "data" /\ inHand = <<f>>
  BY DEF TypeInv, PlaceInv, HandHolds, Write, WriteUpstream, WriteFails
<1>2. inHand[1] = f /\ f.n \in Nat /\ f.off \in Nat /\ f.attempt \in Nat
      /\ written \in Seq(Nat \X Nat) /\ Len(written) \in Nat
  BY <1>1, LenProperties DEF Frames, TypeInv, TunnelTypeOK
<1> DEFINE b == Bytes(f)
<1>3. /\ b \in Seq(Nat \X Nat) /\ Len(b) = f.n
      /\ \A i \in 1..f.n : b[i] = <<f.attempt, f.off + i - 1>>
  <2>1. \A i \in 1..f.n : <<f.attempt, f.off + i - 1>> \in Nat \X Nat
    BY <1>2
  <2>2. b \in [1..f.n -> Nat \X Nat]
    BY <2>1 DEF Bytes
  <2>3. b \in Seq(Nat \X Nat)
    <3>1. f.n \in Nat
      BY <1>2
    <3>2. QED BY <2>2, <3>1, SeqDef
  <2>4. DOMAIN b = 1..f.n
    BY DEF Bytes
  <2>5. Len(b) = f.n
    BY <1>2, <2>3, <2>4, LenProperties
  <2>6. QED BY <2>3, <2>5 DEF Bytes
<1>4. \/ /\ written' = written \o b /\ LoopNumbers("credit", f.n)
      \/ /\ \E k \in 0..(f.n - 1) : written' = written \o SubSeq(b, 1, k)
         /\ LoopNumbers("error", 0)
  BY <1>2 DEF Write, WriteUpstream, WriteFails
<1>5. inHand' = <<>>
  BY DEF Write, WriteUpstream, WriteFails
<1> HIDE DEF b
<1>6. ASSUME NEW s \in Seq(Nat \X Nat), NEW k \in 0..f.n, Len(s) = k,
             \A i \in 1..k : s[i] = b[i], written' = written \o s
      PROVE  /\ written' \in Seq(Nat \X Nat) /\ Len(written') = Len(written) + k
             /\ \A i \in 1..Len(written) : written'[i] = written[i]
             /\ \A i \in 1..k : written'[Len(written) + i] = <<f.attempt, f.off + i - 1>>
  <2> DEFINE c == written \o s
             l == Len(written)
  <2>1. /\ c \in Seq(Nat \X Nat) /\ Len(c) = l + Len(s)
        /\ \A i \in 1..l + Len(s) : c[i] = IF i <= l THEN written[i] ELSE s[i - l]
    BY <1>2, <1>6, ConcatProperties
  <2>2. k \in Nat /\ k <= f.n /\ l \in Nat /\ c = written'
    BY <1>2, <1>6
  <2> HIDE DEF c, l
  <2>3. /\ c \in Seq(Nat \X Nat) /\ Len(c) = l + k
        /\ \A i \in 1..l + k : c[i] = IF i <= l THEN written[i] ELSE s[i - l]
    BY <1>6, <2>1
  <2>4. \A i \in 1..l : c[i] = written[i]
    BY <2>2, <2>3
  <2>5. ASSUME NEW i \in 1..k
        PROVE  c[l + i] = <<f.attempt, f.off + i - 1>>
    <3>1. l + i \in 1..l + k /\ ~(l + i <= l) /\ (l + i) - l = i /\ i \in 1..f.n
      BY <1>2, <2>2
    <3>2. c[l + i] = s[i]
      BY <2>3, <3>1
    <3>3. QED BY <1>3, <1>6, <3>1, <3>2
  <2>6. QED BY <2>2, <2>3, <2>4, <2>5 DEF l
<1>7. CASE written' = written \o b /\ LoopNumbers("credit", f.n)
  <2>1. f.n \in 0..f.n
    BY <1>2
  <2>2. QED BY <1>1, <1>2, <1>3, <1>5, <1>6, <1>7, <2>1
<1>8. CASE /\ \E k \in 0..(f.n - 1) : written' = written \o SubSeq(b, 1, k)
           /\ LoopNumbers("error", 0)
  <2>1. PICK k \in 0..(f.n - 1) : written' = written \o SubSeq(b, 1, k)
    BY <1>8
  <2>2. k \in 0..f.n /\ k \in Nat /\ k <= f.n
    BY <1>2
  <2> DEFINE s == SubSeq(b, 1, k)
  <2>3. \A j \in 1..k : b[j] \in Nat \X Nat
    BY <1>3, <2>2, ElementOfSeq
  <2>4. /\ s \in Seq(Nat \X Nat)
        /\ Len(s) = IF 1 <= k THEN k - 1 + 1 ELSE 0
        /\ \A j \in 1..k - 1 + 1 : s[j] = b[1 + j - 1]
    BY <2>2, <2>3, SubSeqProperties
  <2>5. Len(s) = k /\ \A j \in 1..k : s[j] = b[j]
    <3>1. \A j \in 1..k : j \in 1..k - 1 + 1 /\ 1 + j - 1 = j
      BY <2>2
    <3>2. QED BY <2>2, <2>4, <3>1
  <2> HIDE DEF s
  <2>6. written' = written \o s
    BY <2>1 DEF s
  <2>7. QED BY <1>1, <1>2, <1>5, <1>6, <1>8, <2>2, <2>4, <2>5, <2>6
<1>9. QED BY <1>4, <1>7, <1>8

(* After a Write the loop has a frame to publish, and none in hand. *)
LEMMA TypesWrite ==
  ASSUME TypeInv, Write
  PROVE  TunnelTypeOK' /\ PlaceInv'
<1> USE DEF peerVars, connVars, loopVars, downVars, sharedVars, PlaceInv, DownHolds
<1>1. TunnelTypeOK /\ PlaceInv
  BY DEF TypeInv
<1>2. /\ tpc = "writing"
      /\ UNCHANGED <<streamVars, peerVars, connOpen, downVars, done, gate, out>>
  BY DEF Write, WriteUpstream, WriteFails, WriteLeaves
<1>3. PICK f \in Frames : /\ written' \in Seq(Nat \X Nat) /\ inHand' = <<>> /\ f.n \in Nat
                          /\ LoopNumbers("credit", f.n) \/ LoopNumbers("error", 0)
  BY WriteAdds
<1>4. <<>> \in Seq(Frames) /\ Len(<<>>) <= 1
  BY EmptySeq
<1>5. inHand' \in Seq(Frames) /\ Len(inHand') <= 1
  BY <1>3, <1>4, Zenon
<1>6. PICK type \in {"credit", "end", "error", "cancelled"}, n \in Nat : LoopNumbers(type, n)
  BY <1>3
<1>7. /\ loopFrame' \in Seq(OutFrames) /\ Len(loopFrame') <= 1
      /\ LoopHolds' /\ builder' \in Nat /\ tpc' = "publishing"
  BY <1>6, LoopNumbersTypes
<1>8. TunnelTypeOK'
  BY <1>1, <1>2, <1>3, <1>5, <1>7 DEF TunnelTypeOK
<1>9. PlaceInv'
  BY <1>1, <1>2, <1>3, <1>7 DEF HandHolds
<1>10. QED BY <1>8, <1>9

(* The download numbers no more than it has read, and reports once. *)
LEMMA TypesDownload ==
  ASSUME TypeInv, Download
  PROVE  TunnelTypeOK' /\ PlaceInv'
<1> USE DEF peerVars, connVars, loopVars, downVars, sharedVars, DownLeaves
<1>1. TunnelTypeOK /\ PlaceInv
  BY DEF TypeInv
<1>2. /\ UNCHANGED <<peerVars, connVars, loopVars>> /\ dpc # "none"
      /\ arrived \in Nat /\ read \in Nat /\ chunk \in Nat /\ chunk <= read /\ read <= arrived
  BY <1>1 DEF Download, DownloadReads, DownloadEnds, DownloadNumbers, DownloadPublishes,
     DownloadGoesOn, ReceiveGrant, DownloadGivesUp, WaitsForCredit, PlaceInv, TunnelTypeOK
<1>3. tpc # "opening" /\ LoopHolds' /\ HandHolds'
  BY <1>1, <1>2 DEF PlaceInv, LoopHolds, HandHolds
<1>4. ASSUME NEW err \in {"eof", "reset", "closed", "context"}, Report(err),
             dpc # "finished"
      PROVE  /\ done' \in Seq({"eof", "reset", "closed", "context"}) /\ Len(done') <= 1
             /\ dpc' = "finished"
  <2>1. done = <<>> /\ done' = Append(done, err) /\ dpc' = "finished"
    BY <1>1, <1>4 DEF Report, PlaceInv
  <2>2. done' = <<err>>
    BY <2>1
  <2>3. QED BY <2>1, <2>2, Single
<1>5. CASE \E n \in 1..BufferBytes : DownloadReads(n)
  <2>1. PICK n \in 1..BufferBytes : DownloadReads(n)
    BY <1>5
  <2>2. /\ n \in Nat /\ n <= arrived - read /\ read' = read + n /\ chunk' = n
        /\ dpc = "reading" /\ dpc' = "sending"
        /\ readErr' = readErr \/ (upstream # "open" /\ readErr' = upstream)
        /\ UNCHANGED <<downFrame, sharedVars>>
    BY <2>1, RawTunnelAssumption DEF DownloadReads, BytesRead
  <2>3. read' \in Nat /\ chunk' \in Nat /\ chunk' <= read' /\ read' <= arrived
    BY <1>2, <2>2
  <2>4. downFrame = <<>> /\ done = <<>>
    BY <1>1, <2>2 DEF PlaceInv, DownHolds
  <2>5. TunnelTypeOK'
    BY <1>1, <1>2, <2>2, <2>3 DEF TunnelTypeOK
  <2>6. QED BY <1>2, <1>3, <2>2, <2>3, <2>4, <2>5 DEF PlaceInv, DownHolds
<1>6. CASE DownloadEnds
  <2>1. PICK err \in {"eof", "reset", "closed", "context"} : Report(err)
    BY <1>1, <1>6 DEF DownloadEnds, TunnelTypeOK
  <2>2. dpc = "reading" /\ UNCHANGED <<read, chunk, readErr, downFrame, gate, builder, out>>
    BY <1>6 DEF DownloadEnds
  <2>3. downFrame = <<>>
    BY <1>1, <2>2 DEF PlaceInv, DownHolds
  <2>4. QED BY <1>1, <1>2, <1>3, <1>4, <2>1, <2>2, <2>3 DEF TunnelTypeOK, PlaceInv, DownHolds
<1>7. CASE DownloadNumbers
  <2> DEFINE n == Available(gate, chunk)
             f == Numbered("data", read - chunk, n)
  <2>1. /\ gate' = Spend(gate, n) /\ downFrame' = <<f>> /\ builder' = builder + 1
        /\ dpc = "sending" /\ chunk \in Nat \ {0} /\ ~MustWait(gate)
        /\ gate \in Gates /\ builder \in Nat
        /\ UNCHANGED <<dpc, read, chunk, readErr, done, out>>
    BY <1>1, <1>7 DEF DownloadNumbers, TunnelTypeOK
  <2>2. n \in 1..chunk /\ gate' \in Gates
    BY <2>1, SpendTakes
  <2> HIDE DEF n
  <2>3. n \in Nat /\ n <= chunk /\ read - chunk \in Nat /\ builder + 1 \in Nat
    BY <1>2, <2>1, <2>2
  <2>4. f \in OutFrames /\ f.type = "data" /\ f.off = read - chunk /\ f.n = n
    BY <2>3 DEF OutFrames, Numbered
  <2> HIDE DEF f
  <2>5. <<f>> \in Seq(OutFrames) /\ Len(<<f>>) = 1
    BY <2>4, Single
  <2>6. downFrame' \in Seq(OutFrames) /\ Len(downFrame') <= 1
    BY <2>1, <2>5
  <2>7. TunnelTypeOK'
    BY <1>1, <1>2, <2>1, <2>2, <2>3, <2>6 DEF TunnelTypeOK
  <2>8. DownHolds'
    <3>1. n \in 1..chunk' /\ chunk' = chunk /\ read' = read /\ dpc' = "sending"
      BY <2>1, <2>2
    <3>2. QED BY <2>1, <2>4, <3>1 DEF DownHolds
  <2>9. QED BY <1>1, <1>2, <1>3, <2>1, <2>7, <2>8 DEF PlaceInv
<1>8. CASE DownloadPublishes
  <2>1. PICK f \in OutFrames : /\ f.n \in 1..chunk /\ chunk' = chunk - f.n /\ dpc = "sending"
                               /\ out' = Append(out, f) /\ downFrame' = <<>>
    BY <1>8, DownSends
  <2>2. f.n \in Nat
    BY DEF OutFrames
  <2>3. chunk' \in Nat /\ chunk' <= read
    BY <1>2, <2>1, <2>2
  <2>4. out' \in Seq(OutFrames)
    BY <1>1, <2>1, AppendProperties DEF TunnelTypeOK
  <2>5. downFrame' \in Seq(OutFrames) /\ Len(downFrame') <= 1
    <3>1. <<>> \in Seq(OutFrames) /\ Len(<<>>) <= 1
      BY EmptySeq
    <3>2. QED BY <2>1, <3>1, Zenon
  <2>6. UNCHANGED <<dpc, read, readErr, done, gate, builder>>
    BY <1>8 DEF DownloadPublishes
  <2>7. TunnelTypeOK'
    BY <1>1, <1>2, <2>3, <2>4, <2>5, <2>6 DEF TunnelTypeOK
  <2>8. QED BY <1>1, <1>2, <1>3, <2>1, <2>3, <2>6, <2>7 DEF PlaceInv, DownHolds
<1>9. CASE DownloadGoesOn
  <2>1. /\ dpc = "sending" /\ chunk = 0
        /\ UNCHANGED <<read, chunk, readErr, downFrame, gate, builder, out>>
    BY <1>9 DEF DownloadGoesOn
  <2>2. downFrame = <<>>
    BY <1>1, <2>1 DEF PlaceInv, DownHolds
  <2>3. CASE readErr = "none"
    BY <1>1, <1>2, <1>3, <1>9, <2>1, <2>2, <2>3
    DEF DownloadGoesOn, TunnelTypeOK, PlaceInv, DownHolds
  <2>4. CASE readErr # "none"
    <3>1. Report(readErr) /\ readErr \in {"eof", "reset", "closed", "context"}
      BY <1>1, <1>9, <2>4 DEF DownloadGoesOn, TunnelTypeOK
    <3>2. /\ done' \in Seq({"eof", "reset", "closed", "context"}) /\ Len(done') <= 1
          /\ dpc' = "finished"
      BY <1>4, <2>1, <3>1
    <3>3. QED BY <1>1, <1>2, <1>3, <2>1, <2>2, <3>2 DEF TunnelTypeOK, PlaceInv, DownHolds
  <2>5. QED BY <2>3, <2>4
<1>10. CASE ReceiveGrant
  <2>1. gate' \in Gates /\ UNCHANGED <<done, builder, out, downVars>>
    BY <1>1, <1>10, TakeGrantMoves DEF ReceiveGrant, TunnelTypeOK
  <2>2. QED BY <1>1, <1>2, <1>3, <2>1 DEF TunnelTypeOK, PlaceInv, DownHolds
<1>11. CASE DownloadGivesUp
  <2>1. /\ Report("context") /\ dpc = "sending" /\ downFrame = <<>>
        /\ UNCHANGED <<read, chunk, readErr, downFrame, gate, builder, out>>
    BY <1>11 DEF DownloadGivesUp, WaitsForCredit
  <2>2. QED BY <1>1, <1>2, <1>3, <1>4, <2>1 DEF TunnelTypeOK, PlaceInv, DownHolds
<1>12. QED BY <1>5, <1>6, <1>7, <1>8, <1>9, <1>10, <1>11 DEF Download

(* Every step of the tunnel keeps the types and the places. *)
LEMMA TypeNext ==
  ASSUME TypeInv, [Next]_vars
  PROVE  TypeInv'
<1>1. StreamOK'
  BY StreamNext DEF TypeInv
<1>2. CASE UNCHANGED tunnelVars
  BY <1>1, <1>2 DEF TypeInv, TunnelTypeOK, PlaceInv, LoopHolds, HandHolds, DownHolds,
     tunnelVars, peerVars, connVars, loopVars, downVars, sharedVars
<1>3. CASE Inputs
  BY <1>2, <1>3, InputsKeepStream DEF TypeInv
<1>4. CASE Upstream \/ Open
  BY <1>1, <1>4, TypesOpen DEF TypeInv
<1>5. CASE Loop
  BY <1>1, <1>5, TypesLoop DEF TypeInv
<1>6. CASE Write
  BY <1>1, <1>6, TypesWrite DEF TypeInv
<1>7. CASE Download
  BY <1>1, <1>7, TypesDownload DEF TypeInv
<1>8. QED BY <1>2, <1>3, <1>4, <1>5, <1>6, <1>7 DEF Next, Inputs, vars

(* Every variable keeps its type: no frame is published or handed over that *)
(* is not there, the report of the download never finds its channel full,   *)
(* and no count of bytes or credit is ever negative.                        *)
THEOREM TunnelTypes == Spec => []TypeOK
<1>1. Init => TypeInv
  BY TypeInit
<1>2. TypeInv /\ [Next]_vars => TypeInv'
  BY TypeNext
<1>3. TypeInv => TypeOK
  BY TypeParts DEF TypeInv, StreamOK
<1>4. QED BY <1>1, <1>2, <1>3, PTL DEF Spec

-----------------------------------------------------------------------------
(* The download. *)

(* One more frame that is out: the bytes, the length and the elements. *)
LEMMA OutBytes ==
  ASSUME TypeInv, NEW f \in OutFrames, out' = Append(out, f)
  PROVE  /\ BytesOf("data", out) \in Nat /\ Weight("data", f) \in Nat
         /\ BytesOf("data", out') = BytesOf("data", out) + Weight("data", f)
         /\ Len(out) \in Nat /\ Len(out') = Len(out) + 1 /\ out'[Len(out')] = f
         /\ \A i \in 1..Len(out) : out'[i] = out[i]
         /\ \A i \in 1..Len(out') : i \in 1..Len(out) \/ i = Len(out')
<1>1. \A g \in OutFrames : g.n \in Nat
  BY DEF OutFrames
<1>2. out \in Seq(OutFrames)
  BY DEF TypeInv, TunnelTypeOK
<1>3. /\ Len(out) \in Nat /\ Len(out') = Len(out) + 1 /\ out'[Len(out) + 1] = f
      /\ \A i \in 1..Len(out) : out'[i] = out[i]
  BY <1>2, AppendProperties, LenProperties
<1>4. \A i \in 1..Len(out') : i \in 1..Len(out) \/ i = Len(out')
  BY <1>3
<1>5. BytesOf("data", Append(out, f)) = BytesOf("data", out) + Weight("data", f)
      /\ BytesOf("data", out) \in Nat /\ Weight("data", f) \in Nat
  BY <1>1, <1>2, BytesAppend
<1>6. QED BY <1>3, <1>4, <1>5

(* The data that are out are what has been read and is not in the chunk. *)
DownInv ==
  /\ BytesOf("data", out) = read - chunk
  /\ \A i \in 1..Len(out) :
       out[i].type = "data" => out[i].off = BytesOf("data", SubSeq(out, 1, i - 1))

(* A frame that starts where the data before it end keeps the order. *)
LEMMA OrderKept ==
  ASSUME TypeInv, DownInv, NEW f \in OutFrames, out' = Append(out, f),
         f.type = "data" => f.off = BytesOf("data", out)
  PROVE  \A i \in 1..Len(out') :
           out'[i].type = "data" => out'[i].off = BytesOf("data", SubSeq(out', 1, i - 1))
<1> SUFFICES ASSUME NEW i \in 1..Len(out'), out'[i].type = "data"
             PROVE  out'[i].off = BytesOf("data", SubSeq(out', 1, i - 1))
  OBVIOUS
<1>1. out \in Seq(OutFrames)
  BY DEF TypeInv, TunnelTypeOK
<1>2. i \in 1..Len(out) + 1
  BY OutBytes
<1>3. SubSeq(out', 1, i - 1) = SubSeq(out, 1, i - 1)
      /\ (i = Len(out) + 1 => SubSeq(out, 1, i - 1) = out)
  BY <1>1, <1>2, PrefixKept
<1>4. CASE i \in 1..Len(out)
  BY <1>3, <1>4, OutBytes DEF DownInv
<1>5. CASE i = Len(out')
  BY <1>3, <1>5, OutBytes
<1>6. QED BY <1>4, <1>5, OutBytes

(* Nothing is read and nothing out when the tunnel starts. *)
LEMMA DownInit ==
  ASSUME Init
  PROVE  DownInv
<1>1. out = <<>> /\ read = 0 /\ chunk = 0
  BY DEF Init
<1>2. BytesOf("data", out) = 0 /\ Len(out) = 0
  BY <1>1, BytesEmpty
<1>3. QED BY <1>1, <1>2 DEF DownInv

(* Every step keeps the data in order and what has been read accounted for. *)
LEMMA DownNext ==
  ASSUME TypeInv, DownInv, [Next]_vars
  PROVE  DownInv'
<1> USE DEF peerVars, connVars, loopVars, downVars, sharedVars
<1>1. ASSUME UNCHANGED <<out, read, chunk>>
      PROVE  DownInv'
  BY <1>1 DEF DownInv
<1>2. read \in Nat /\ chunk \in Nat /\ chunk <= read
  BY DEF TypeInv, TunnelTypeOK, PlaceInv
<1>3. CASE Inputs
  BY <1>1, <1>3, InputsKeepStream DEF TypeInv, tunnelVars
<1>4. CASE Upstream \/ Write
  BY <1>1, <1>4 DEF Upstream, UpstreamSends, UpstreamEnds, Write, WriteUpstream, WriteFails,
     WriteLeaves
<1>5. CASE Open
  <2>1. PICK second \in {"head", "error"} : out' = OpenFrames(second)
    BY <1>5 DEF Open, OpenTunnel, OpenTunnelFails
  <2>2. read' = 0 /\ chunk' = 0
    BY <1>5 DEF Open, OpenTunnel, OpenTunnelFails, TypeInv, PlaceInv
  <2>3. /\ Len(out') = 2 /\ BytesOf("data", out') = 0
        /\ \A i \in 1..2 : i = 1 \/ i = 2
        /\ out'[1].type # "data" /\ out'[2].type # "data"
    BY <2>1, Openers
  <2>4. QED BY <2>2, <2>3 DEF DownInv
<1>6. CASE LoopPublishes
  <2>1. PICK f \in OutFrames : out' = Append(out, f) /\ f.type # "data"
    BY <1>6, LoopSends
  <2>2. UNCHANGED <<read, chunk>> /\ Weight("data", f) = 0
    BY <1>6, <2>1 DEF LoopPublishes, Weight
  <2>3. BytesOf("data", out') = BytesOf("data", out)
    BY <2>1, <2>2, OutBytes
  <2>4. QED BY <2>1, <2>2, <2>3, OrderKept DEF DownInv
<1>7. CASE Loop /\ ~LoopPublishes
  BY <1>1, <1>7 DEF Loop, TakeDone, TakeContext, TakeIdle, LoopEnds, TakeUseless, TakeData,
     TakeCredit, TakeCancel, Taking, HandOverGrant, CloseConn, CancelContext
<1>8. CASE DownloadPublishes
  <2>1. PICK f \in OutFrames : /\ f.type = "data" /\ f.off = read - chunk /\ f.n \in 1..chunk
                               /\ out' = Append(out, f) /\ chunk' = chunk - f.n
    BY <1>8, DownSends
  <2>2. read' = read /\ Weight("data", f) = f.n /\ f.n \in Nat
    BY <1>8, <2>1 DEF DownloadPublishes, Weight, OutFrames
  <2>3. BytesOf("data", out') = (read - chunk) + f.n
    BY <2>1, <2>2, OutBytes DEF DownInv
  <2>4. (read - chunk) + f.n = read - (chunk - f.n)
    BY <1>2, <2>2
  <2>5. QED BY <2>1, <2>2, <2>3, <2>4, OrderKept DEF DownInv
<1>9. CASE \E n \in 1..BufferBytes : DownloadReads(n)
  <2>1. PICK n \in 1..BufferBytes : DownloadReads(n)
    BY <1>9
  <2>2. n \in Nat /\ read' = read + n /\ chunk' = n /\ out' = out /\ chunk = 0
    BY <2>1, RawTunnelAssumption DEF DownloadReads, BytesRead, TypeInv, PlaceInv
  <2>3. read' - chunk' = read - chunk
    BY <1>2, <2>2
  <2>4. QED BY <2>2, <2>3 DEF DownInv
<1>10. CASE DownloadEnds \/ DownloadNumbers \/ DownloadGoesOn \/ ReceiveGrant
            \/ DownloadGivesUp
  BY <1>1, <1>10 DEF DownloadEnds, DownloadNumbers, DownloadGoesOn, ReceiveGrant,
     DownloadGivesUp
<1>11. CASE UNCHANGED vars
  BY <1>1, <1>11 DEF vars, tunnelVars
<1>12. QED BY <1>3, <1>4, <1>5, <1>6, <1>7, <1>8, <1>9, <1>10, <1>11
           DEF Next, Inputs, Download

(* The data published are what the upstream sent, in order and without a    *)
(* hole, however credit cuts them into pieces and whatever the loop         *)
(* publishes in between.                                                    *)
THEOREM TunnelDownloadInOrder == Spec => []DownloadInOrder
<1>1. Init => TypeInv /\ DownInv
  BY TypeInit, DownInit
<1>2. TypeInv /\ DownInv /\ [Next]_vars => (TypeInv /\ DownInv)'
  BY TypeNext, DownNext
<1>3. TypeInv /\ DownInv => DownloadInOrder
  BY LenProperties DEF TypeInv, TunnelTypeOK, DownInv, DownloadInOrder
<1>4. QED BY <1>1, <1>2, <1>3, PTL DEF Spec

-----------------------------------------------------------------------------
(* The upload. *)

(* What the upstream has been given is what the validator has let through,  *)
(* up to the frame in hand; after a failed Write nothing more is given.     *)
UploadInv ==
  /\ \A i \in 1..Len(written) : written[i] = <<Attempt, i - 1>>
  /\ tpc \in {"opening", "loop", "granting"} => Len(written) = validator.offset
  /\ tpc = "publishing" /\ loopFrame[1].type = "credit" =>
       Len(written) = validator.offset
  /\ tpc = "writing" =>
       /\ inHand[1].attempt = Attempt /\ inHand[1].off = Len(written)
       /\ validator.offset = Len(written) + inHand[1].n

(* Nothing is written when the tunnel starts. *)
LEMMA UploadInit ==
  ASSUME Init
  PROVE  UploadInv
<1>1. written = <<>> /\ tpc = "opening" /\ validator.offset = 0
  BY StreamStarts DEF Init
<1>2. Len(written) = 0
  BY <1>1
<1>3. QED BY <1>1, <1>2 DEF UploadInv

(* What is written stays what was accepted, up to the frame in hand. *)
LEMMA UploadNext ==
  ASSUME TypeInv, UploadInv, [Next]_vars
  PROVE  UploadInv'
<1> USE DEF peerVars, connVars, loopVars, downVars, sharedVars
<1>1. ASSUME UNCHANGED <<written, tpc, loopFrame, inHand, validator>>
      PROVE  UploadInv'
  BY <1>1 DEF UploadInv
<1>2. StreamTypeOK /\ validator.attempt = Attempt
  BY DEF TypeInv, StreamOK, CreditInv
<1>3. CASE Inputs
  BY <1>1, <1>3, InputsKeepStream DEF TypeInv, tunnelVars
<1>4. CASE Upstream \/ Download
  BY <1>1, <1>4, ApartKeepsStream DEF Apart, Upstream, UpstreamSends, UpstreamEnds, Download,
     DownloadReads, DownloadEnds, DownloadNumbers, DownloadPublishes, DownloadGoesOn,
     ReceiveGrant, DownloadGivesUp, DownLeaves, streamVars, queueVars
<1>5. CASE Open
  BY <1>5 DEF Open, OpenTunnel, OpenTunnelFails, UploadInv, streamVars, queueVars
<1>6. CASE LoopPublishes
  <2>1. PICK f \in OutFrames : /\ loopFrame = <<f>>
                               /\ f.type \in {"credit", "end", "error", "cancelled"}
                               /\ tpc' = IF IsTerminal(f) THEN "closing" ELSE "loop"
                               /\ tpc = "publishing"
    BY <1>6, LoopSends
  <2>2. UNCHANGED <<written, validator>> /\ loopFrame[1] = f
    BY <1>6, <2>1, Single DEF LoopPublishes, streamVars, queueVars
  <2>3. tpc' = "loop" => f.type = "credit"
    BY <2>1 DEF IsTerminal
  <2>4. QED BY <2>1, <2>2, <2>3 DEF UploadInv
<1>7. CASE TakeDone \/ TakeContext \/ TakeCancel
  <2>1. PICK type \in {"end", "error", "cancelled"} : LoopNumbers(type, 0)
    BY <1>7 DEF TakeDone, TakeContext, TakeCancel, SaysCancelled
  <2>2. PICK f \in OutFrames : f.type = type /\ loopFrame' = <<f>> /\ tpc' = "publishing"
    BY <2>1, LoopNumbersTypes
  <2>3. loopFrame'[1].type # "credit"
    BY <2>2, Single
  <2>4. written' = written
    BY <1>7 DEF TakeDone, TakeContext, TakeCancel, LoopEnds, Taking
  <2>5. QED BY <2>2, <2>3, <2>4 DEF UploadInv
<1>8. CASE TakeIdle \/ CloseConn \/ CancelContext
  BY <1>8 DEF TakeIdle, CloseConn, CancelContext, LoopEnds, UploadInv
<1>9. CASE TakeUseless
  <2>1. validator'.offset = validator.offset
    <3>1. CASE RefuseFrame
      BY <3>1 DEF RefuseFrame
    <3>2. CASE \E types : AcceptFrame(types) /\ "data" \notin types
      BY <1>2, <3>2, AcceptAdvances DEF StreamTypeOK, Validators
    <3>3. QED BY <1>9, <3>1, <3>2 DEF TakeUseless
  <2>2. UNCHANGED <<written, tpc, loopFrame, inHand>> /\ tpc = "loop"
    BY <1>9 DEF TakeUseless, Taking
  <2>3. QED BY <2>1, <2>2 DEF UploadInv
<1>10. CASE TakeCredit
  <2>1. validator'.offset = validator.offset
    BY <1>2, <1>10, AcceptAdvances DEF TakeCredit, StreamTypeOK, Validators
  <2>2. UNCHANGED written /\ tpc = "loop" /\ tpc' = "granting"
    BY <1>10 DEF TakeCredit, Taking
  <2>3. QED BY <2>1, <2>2 DEF UploadInv
<1>11. CASE TakeData
  <2>1. /\ Frame \in Frames /\ Frame.attempt = Attempt /\ Frame.off = validator.offset
        /\ validator'.offset = validator.offset + Frame.n
    BY <1>2, <1>11, AcceptAdvances DEF TakeData
  <2>2. /\ UNCHANGED written /\ tpc = "loop" /\ tpc' = "writing" /\ inHand' = <<Frame>>
    BY <1>11 DEF TakeData, Taking
  <2>3. inHand'[1] = Frame
    BY <2>1, <2>2, Single
  <2>4. QED BY <2>1, <2>2, <2>3 DEF UploadInv
<1>12. CASE HandOverGrant
  BY <1>12 DEF HandOverGrant, UploadInv, streamVars, queueVars
<1>13. CASE Write
  <2> DEFINE l == Len(written)
  <2>1. PICK f \in Frames : \E k \in 0..f.n :
           /\ inHand = <<f>> /\ f.n \in Nat
           /\ written \in Seq(Nat \X Nat) /\ written' \in Seq(Nat \X Nat)
           /\ Len(written') = l + k
           /\ \A i \in 1..l : written'[i] = written[i]
           /\ \A i \in 1..k : written'[l + i] = <<f.attempt, f.off + i - 1>>
           /\ \/ k = f.n /\ LoopNumbers("credit", f.n)
              \/ LoopNumbers("error", 0)
    BY <1>13, WriteAdds
  <2>2. PICK k \in 0..f.n :
           /\ Len(written') = l + k
           /\ \A i \in 1..l : written'[i] = written[i]
           /\ \A i \in 1..k : written'[l + i] = <<f.attempt, f.off + i - 1>>
           /\ \/ k = f.n /\ LoopNumbers("credit", f.n)
              \/ LoopNumbers("error", 0)
    BY <2>1
  <2>3. /\ tpc = "writing" /\ validator' = validator
    BY <1>13 DEF Write, WriteUpstream, WriteFails, WriteLeaves, streamVars, queueVars
  <2>4. /\ f.attempt = Attempt /\ f.off = l /\ validator.offset = l + f.n
        /\ \A i \in 1..l : written[i] = <<Attempt, i - 1>>
    BY <2>1, <2>3, Single DEF UploadInv
  <2>5. l \in Nat /\ k \in Nat
    BY <2>1, <2>2, LenProperties
  <2> HIDE DEF l
  <2>6. \A i \in 1..Len(written') : written'[i] = <<Attempt, i - 1>>
    <3> SUFFICES ASSUME NEW i \in 1..Len(written')
                 PROVE  written'[i] = <<Attempt, i - 1>>
      OBVIOUS
    <3>1. i \in 1..l + k
      BY <2>2
    <3>2. CASE i \in 1..l
      BY <2>2, <2>4, <3>2
    <3>3. CASE i \notin 1..l
      <4> DEFINE j == i - l
      <4>1. j \in 1..k /\ i = l + j /\ l + j - 1 = i - 1
        BY <2>5, <3>1, <3>3
      <4> HIDE DEF j
      <4>2. written'[i] = <<Attempt, l + j - 1>>
        BY <2>2, <2>4, <4>1
      <4>3. QED BY <4>1, <4>2, Zenon
    <3>4. QED BY <3>2, <3>3
  <2>7. CASE k = f.n /\ LoopNumbers("credit", f.n)
    <3>1. tpc' = "publishing"
      BY <2>7 DEF LoopNumbers
    <3>2. Len(written') = validator'.offset
      BY <2>2, <2>3, <2>4, <2>7
    <3>3. QED BY <2>6, <3>1, <3>2 DEF UploadInv
  <2>8. CASE LoopNumbers("error", 0)
    <3>1. PICK g \in OutFrames : g.type = "error" /\ loopFrame' = <<g>> /\ tpc' = "publishing"
      BY <2>8, LoopNumbersTypes
    <3>2. loopFrame'[1].type # "credit"
      BY <3>1, Single
    <3>3. QED BY <2>6, <3>1, <3>2 DEF UploadInv
  <2>9. QED BY <2>2, <2>7, <2>8
<1>14. CASE UNCHANGED vars
  BY <1>1, <1>14 DEF vars, tunnelVars, streamVars, queueVars
<1>15. QED BY <1>3, <1>4, <1>5, <1>6, <1>7, <1>8, <1>9, <1>10, <1>11, <1>12, <1>13, <1>14
           DEF Next, Inputs, Loop

(* The upstream is given what this attempt of Control uploaded: in order,   *)
(* without a hole or a repetition, and nothing after a Write that failed.   *)
THEOREM TunnelUploadForwarded == Spec => []UploadForwarded
<1>1. Init => TypeInv /\ UploadInv
  BY TypeInit, UploadInit
<1>2. TypeInv /\ UploadInv /\ [Next]_vars => (TypeInv /\ UploadInv)'
  BY TypeNext, UploadNext
<1>3. TypeInv /\ UploadInv => UploadForwarded
  BY LenProperties DEF TypeInv, TunnelTypeOK, UploadInv, UploadForwarded
<1>4. QED BY <1>1, <1>2, <1>3, PTL DEF Spec

-----------------------------------------------------------------------------
(* Credit. *)

(* Every byte of credit that has been taken is in the hands of the loop, in *)
(* the channel of the gate, in the gate, in the frame that the download     *)
(* holds, or out as data.                                                   *)
CreditBooks ==
  /\ gate.limited <=> DownloadCredit > 0
  /\ DownloadCredit > 0 =>
       BytesOf("data", out) + BytesOf("data", downFrame) + Unused(gate)
         + BytesOf("credit", inHand) = DownloadCredit + taken

(* The sums, as numbers. *)
LEMMA BookTypes ==
  ASSUME TypeInv
  PROVE  /\ BytesOf("data", out) \in Nat /\ BytesOf("data", downFrame) \in Nat
         /\ Unused(gate) \in Nat /\ BytesOf("credit", inHand) \in Nat /\ taken \in Nat
         /\ inHand = <<>> => BytesOf("credit", inHand) = 0
         /\ downFrame = <<>> => BytesOf("data", downFrame) = 0
<1>1. \A g \in OutFrames : g.n \in Nat
  BY DEF OutFrames
<1>2. \A g \in Frames : g.n \in Nat
  BY DEF Frames
<1>3. /\ out \in Seq(OutFrames) /\ downFrame \in Seq(OutFrames) /\ inHand \in Seq(Frames)
      /\ gate \in Gates /\ taken \in Nat
  BY DEF TypeInv, TunnelTypeOK, StreamOK, StreamTypeOK
<1>4. /\ BytesOf("data", out) \in Nat /\ BytesOf("data", downFrame) \in Nat
      /\ BytesOf("credit", inHand) \in Nat
  BY <1>1, <1>2, <1>3, BytesType
<1>5. Unused(gate) \in Nat
  BY <1>3, UnusedType
<1>6. QED BY <1>3, <1>4, <1>5, BytesEmpty

(* The books balance when the tunnel starts. *)
LEMMA BooksInit ==
  ASSUME Init
  PROVE  CreditBooks
<1>1. /\ gate = NewGate(DownloadCredit) /\ out = <<>> /\ downFrame = <<>>
      /\ inHand = <<>> /\ taken = 0
  BY DEF Init, StreamInit
<1>2. (gate.limited <=> DownloadCredit > 0) /\ Unused(gate) = DownloadCredit
  BY <1>1, NewGateHolds, RawTunnelAssumption
<1>3. BytesOf("data", out) = 0 /\ BytesOf("data", downFrame) = 0 /\ BytesOf("credit", inHand) = 0
  BY <1>1, BytesEmpty
<1>4. QED BY <1>2, <1>3, <1>1, RawTunnelAssumption DEF CreditBooks

(* Credit moves from the loop to the channel, the gate, a frame and out. *)
LEMMA BooksNext ==
  ASSUME TypeInv, CreditBooks, [Next]_vars
  PROVE  CreditBooks'
<1> USE DEF peerVars, connVars, loopVars, downVars, sharedVars
<1> DEFINE b == BytesOf("data", out)
           d == BytesOf("data", downFrame)
           u == Unused(gate)
           h == BytesOf("credit", inHand)
<1>1. ASSUME UNCHANGED <<out, downFrame, gate, inHand, taken>>
      PROVE  CreditBooks'
  BY <1>1 DEF CreditBooks
<1>2. /\ b \in Nat /\ d \in Nat /\ u \in Nat /\ h \in Nat /\ taken \in Nat
      /\ gate.limited <=> DownloadCredit > 0
      /\ DownloadCredit > 0 => b + d + u + h = DownloadCredit + taken
  BY BookTypes DEF CreditBooks
<1>3. gate \in Gates /\ StreamTypeOK
  BY DEF TypeInv, TunnelTypeOK, StreamOK
<1>4. CASE Inputs
  BY <1>1, <1>4, InputsKeepStream DEF TypeInv, tunnelVars
<1>5. CASE Upstream
  BY <1>1, <1>5 DEF Upstream, UpstreamSends, UpstreamEnds, streamVars, queueVars
<1>6. CASE Open
  <2>1. PICK second \in {"head", "error"} : out' = OpenFrames(second)
    BY <1>6 DEF Open, OpenTunnel, OpenTunnelFails
  <2>2. out = <<>> /\ UNCHANGED <<downFrame, gate, inHand, taken>>
    BY <1>6 DEF Open, OpenTunnel, OpenTunnelFails, TypeInv, PlaceInv, streamVars, queueVars
  <2>3. BytesOf("data", out') = 0 /\ b = 0
    BY <2>1, <2>2, Openers, BytesEmpty
  <2>4. QED BY <1>2, <2>2, <2>3 DEF CreditBooks
<1>7. CASE LoopPublishes
  <2>1. PICK f \in OutFrames : out' = Append(out, f) /\ f.type # "data"
    BY <1>7, LoopSends
  <2>2. UNCHANGED <<downFrame, gate, inHand, taken>> /\ Weight("data", f) = 0
    BY <1>7, <2>1 DEF LoopPublishes, Weight, streamVars, queueVars
  <2>3. BytesOf("data", out') = b
    BY <1>2, <2>1, <2>2, OutBytes
  <2>4. QED BY <2>2, <2>3 DEF CreditBooks
<1>8. CASE TakeDone \/ TakeContext \/ TakeIdle \/ CloseConn \/ CancelContext
  BY <1>1, <1>8 DEF TakeDone, TakeContext, TakeIdle, LoopEnds, CloseConn, CancelContext,
     streamVars, queueVars
<1>9. CASE TakeCancel \/ TakeUseless
  <2>1. UNCHANGED <<out, downFrame, gate, inHand>>
    BY <1>9 DEF TakeCancel, TakeUseless, Taking
  <2>2. DownloadCredit > 0 => taken' = taken
    <3>1. CASE \E types : AcceptFrame(types) /\ "credit" \notin types
      BY <1>2, <1>3, <3>1, AcceptAdvances
    <3>2. CASE AcceptFrame({"credit"}) /\ GrantIsVoid(gate, Frame.n)
      BY <1>2, <1>3, <3>2, AcceptAdvances DEF GrantIsVoid
    <3>3. CASE RefuseFrame
      BY <3>3 DEF RefuseFrame
    <3>4. QED BY <1>9, <3>1, <3>2, <3>3 DEF TakeCancel, TakeUseless
  <2>3. QED BY <2>1, <2>2 DEF CreditBooks
<1>10. CASE TakeData \/ TakeCredit
  <2>1. /\ inHand = <<>> /\ inHand' = <<Frame>> /\ UNCHANGED <<out, downFrame, gate>>
    BY <1>10 DEF TakeData, TakeCredit, Taking, TypeInv, PlaceInv, HandHolds
  <2>2. /\ Frame \in Frames /\ Frame.n \in Nat
        /\ taken' = taken + Weight("credit", Frame)
    BY <1>3, <1>10, AcceptAdvances DEF TakeData, TakeCredit, Weight, Frames
  <2>3. h = 0
    BY <2>1, BookTypes
  <2>4. BytesOf("credit", inHand') = Weight("credit", Frame)
    <3>1. \A g \in Frames : g.n \in Nat
      BY DEF Frames
    <3>2. QED BY <2>1, <2>2, <3>1, BytesSingle
  <2> DEFINE w == Weight("credit", Frame)
  <2>5. w \in Nat
    BY <2>2 DEF Weight
  <2> HIDE DEF w, b, d, u, h
  <2>6. DownloadCredit > 0 => b + d + u + w = DownloadCredit + (taken + w)
    BY <1>2, <2>3, <2>5, RawTunnelAssumption
  <2>7. QED BY <1>2, <2>1, <2>2, <2>4, <2>6 DEF CreditBooks, w, b, d, u
<1>11. CASE HandOverGrant
  <2>1. PICK f \in Frames : f.type = "credit" /\ inHand = <<f>>
    BY <1>11 DEF HandOverGrant, TypeInv, PlaceInv, HandHolds
  <2>2. inHand[1] = f /\ f.n \in Nat /\ h = f.n
    <3>1. \A g \in Frames : g.n \in Nat
      BY DEF Frames
    <3>2. inHand[1] = f /\ BytesOf("credit", <<f>>) = Weight("credit", f)
      BY <2>1, <3>1, BytesSingle, Single
    <3>3. QED BY <2>1, <3>1, <3>2 DEF Weight
  <2>3. gate' = Grant(gate, f.n) /\ inHand' = <<>> /\ UNCHANGED <<out, downFrame, taken>>
    BY <1>11, <2>2 DEF HandOverGrant, streamVars, queueVars
  <2>4. Unused(gate') = u + f.n /\ gate'.limited = gate.limited
    BY <1>3, <2>2, <2>3, GrantAdds
  <2>5. BytesOf("credit", inHand') = 0
    BY <2>3, BytesEmpty
  <2> DEFINE n == f.n
  <2> HIDE DEF n, b, d, u, h
  <2>6. DownloadCredit > 0 => b + d + (u + n) + 0 = DownloadCredit + taken
    BY <1>2, <2>2 DEF n
  <2>7. QED BY <1>2, <2>3, <2>4, <2>5, <2>6 DEF CreditBooks, n, b, d
<1>12. CASE Write
  <2>1. PICK f \in Frames : f.type = "data" /\ inHand = <<f>> /\ inHand' = <<>>
    BY <1>12, WriteAdds
  <2>2. UNCHANGED <<out, downFrame, gate, taken>>
    BY <1>12 DEF Write, WriteUpstream, WriteFails, WriteLeaves, streamVars, queueVars
  <2>3. h = 0 /\ BytesOf("credit", inHand') = 0
    <3>1. \A g \in Frames : g.n \in Nat
      BY DEF Frames
    <3>2. BytesOf("credit", <<f>>) = Weight("credit", f)
      BY <3>1, BytesSingle
    <3>3. QED BY <2>1, <3>2, BytesEmpty DEF Weight
  <2>4. QED BY <2>2, <2>3 DEF CreditBooks
<1>13. CASE DownloadNumbers
  <2> DEFINE n == Available(gate, chunk)
             f == Numbered("data", read - chunk, n)
  <2>1. /\ gate' = Spend(gate, n) /\ downFrame = <<>> /\ downFrame' = <<f>>
        /\ chunk \in Nat \ {0} /\ ~MustWait(gate) /\ UNCHANGED <<out, inHand, taken>>
    BY <1>13 DEF DownloadNumbers, TypeInv, TunnelTypeOK, DownLeaves, streamVars, queueVars
  <2>2. /\ n \in Nat /\ gate'.limited = gate.limited
        /\ gate.limited => Unused(gate') = u - n /\ n <= u
    <3>1. n \in 1..chunk /\ gate'.limited = gate.limited
          /\ (gate.limited => Unused(gate') = u - n /\ n <= u)
      BY <1>3, <2>1, SpendTakes
    <3>2. QED BY <2>1, <3>1
  <2> HIDE DEF n
  <2>3. f.type = "data" /\ f.n = n
    BY DEF Numbered
  <2> HIDE DEF f
  <2>4. d = 0
    BY <2>1, BookTypes
  <2>5. BytesOf("data", downFrame') = n
    <3>1. \A g \in {f} : g.n \in Nat
      BY <2>2, <2>3
    <3>2. f \in {f}
      OBVIOUS
    <3>3. BytesOf("data", <<f>>) = Weight("data", f)
      BY <3>1, <3>2, BytesSingle
    <3>4. QED BY <2>1, <2>3, <3>3 DEF Weight
  <2> HIDE DEF b, d, u, h
  <2>6. DownloadCredit > 0 => b + n + (u - n) + h = DownloadCredit + taken
    BY <1>2, <2>2, <2>4
  <2>7. QED BY <1>2, <2>1, <2>2, <2>5, <2>6 DEF CreditBooks, b, h
<1>14. CASE DownloadPublishes
  <2>1. PICK f \in OutFrames : /\ f.type = "data" /\ downFrame = <<f>>
                               /\ out' = Append(out, f) /\ downFrame' = <<>>
    BY <1>14, DownSends
  <2>2. UNCHANGED <<gate, inHand, taken>>
    BY <1>14 DEF DownloadPublishes, DownLeaves, streamVars, queueVars
  <2>3. d = Weight("data", f)
    <3>1. \A g \in OutFrames : g.n \in Nat
      BY DEF OutFrames
    <3>2. QED BY <2>1, <3>1, BytesSingle
  <2>4. BytesOf("data", out') = b + d
    BY <2>1, <2>3, OutBytes
  <2>5. BytesOf("data", downFrame') = 0
    BY <2>1, BytesEmpty
  <2> HIDE DEF b, d, u, h
  <2>6. DownloadCredit > 0 => (b + d) + 0 + u + h = DownloadCredit + taken
    BY <1>2
  <2>7. QED BY <1>2, <2>2, <2>4, <2>5, <2>6 DEF CreditBooks, u, h
<1>15. CASE ReceiveGrant
  <2>1. gate' = TakeGrant(gate) /\ gate.grants # <<>>
        /\ UNCHANGED <<out, downFrame, inHand, taken>>
    BY <1>15 DEF ReceiveGrant, DownLeaves, streamVars, queueVars
  <2>2. Unused(gate') = u /\ gate'.limited = gate.limited
    BY <1>3, <2>1, TakeGrantMoves
  <2>3. QED BY <2>1, <2>2 DEF CreditBooks
<1>16. CASE (\E n \in 1..BufferBytes : DownloadReads(n)) \/ DownloadEnds \/ DownloadGoesOn
            \/ DownloadGivesUp
  BY <1>1, <1>16 DEF DownloadReads, DownloadEnds, DownloadGoesOn, DownloadGivesUp, DownLeaves,
     streamVars, queueVars
<1>17. CASE UNCHANGED vars
  BY <1>1, <1>17 DEF vars, tunnelVars, streamVars, queueVars
<1>18. QED BY <1>4, <1>5, <1>6, <1>7, <1>8, <1>9, <1>10, <1>11, <1>12, <1>13, <1>14, <1>15,
              <1>16, <1>17
           DEF Next, Inputs, Loop, Download

(* No byte of download credit is lost or used twice between the loop, the   *)
(* channel of the gate and the download.                                    *)
THEOREM TunnelCreditConserved == Spec => []CreditConserved
<1>1. Init => TypeInv /\ CreditBooks
  BY TypeInit, BooksInit
<1>2. TypeInv /\ CreditBooks /\ [Next]_vars => (TypeInv /\ CreditBooks)'
  BY TypeNext, BooksNext
<1>3. TypeInv /\ CreditBooks => CreditConserved
  <2>1. SUFFICES ASSUME TypeInv, CreditBooks, DownloadCredit > 0
                 PROVE  BytesOf("data", out \o downFrame) + Unused(gate)
                          + BytesOf("credit", inHand) = DownloadCredit + taken
    BY DEF CreditConserved
  <2>2. BytesOf("data", out \o downFrame)
          = BytesOf("data", out) + BytesOf("data", downFrame)
    <3>1. out \in Seq(OutFrames) /\ \A g \in OutFrames : g.n \in Nat
      BY <2>1 DEF TypeInv, TunnelTypeOK, OutFrames
    <3>2. CASE downFrame = <<>>
      <4>1. out \o <<>> = out
        BY <3>1
      <4>2. QED BY <2>1, <3>2, <4>1, BookTypes
    <3>3. CASE downFrame # <<>>
      <4>1. PICK f \in OutFrames : downFrame = <<f>>
        BY <2>1, <3>3 DEF TypeInv, PlaceInv, DownHolds
      <4>2. out \o <<f>> = Append(out, f)
        BY <3>1, Single
      <4>3. BytesOf("data", Append(out, f)) = BytesOf("data", out) + Weight("data", f)
            /\ BytesOf("data", <<f>>) = Weight("data", f)
        BY <3>1, BytesAppend, BytesSingle
      <4>4. QED BY <4>1, <4>2, <4>3
    <3>4. QED BY <3>2, <3>3
  <2>3. QED BY <2>1, <2>2 DEF CreditBooks
<1>4. QED BY <1>1, <1>2, <1>3, PTL DEF Spec

-----------------------------------------------------------------------------
(* Numbers. *)

Numbers(s) == {s[i].seq : i \in DOMAIN s}

(* The numbers of a sequence, of one frame more, and of one or none. *)
LEMMA NumbersAppend ==
  ASSUME NEW S, NEW s \in Seq(S), NEW f \in S
  PROVE  /\ Numbers(Append(s, f)) = Numbers(s) \cup {f.seq}
         /\ Numbers(<<f>>) = {f.seq} /\ Numbers(<<>>) = {}
<1>1. /\ Append(s, f) \in Seq(S) /\ Len(Append(s, f)) = Len(s) + 1 /\ Len(s) \in Nat
      /\ \A i \in 1..Len(s) : Append(s, f)[i] = s[i]
      /\ Append(s, f)[Len(s) + 1] = f
  BY AppendProperties, LenProperties
<1>2. DOMAIN s = 1..Len(s) /\ DOMAIN Append(s, f) = 1..Len(s) + 1
  BY <1>1, LenProperties
<1>3. \A i : i \in 1..Len(s) + 1 <=> i \in 1..Len(s) \/ i = Len(s) + 1
  BY <1>1
<1>4. Numbers(Append(s, f)) = Numbers(s) \cup {f.seq}
  BY <1>1, <1>2, <1>3 DEF Numbers
<1>5. Numbers(<<f>>) = {f.seq} /\ Numbers(<<>>) = {}
  <2>1. DOMAIN <<f>> = {1} /\ <<f>>[1] = f
    OBVIOUS
  <2>2. Numbers(<<f>>) = {f.seq}
    BY <2>1, Zenon DEF Numbers
  <2>3. Numbers(<<>>) = {}
    BY DEF Numbers
  <2>4. QED BY <2>2, <2>3
<1>6. QED BY <1>4, <1>5

(* The numbers that are out or in the hands of an actor are those that the  *)
(* builder has given, and there are as many frames as numbers.              *)
NumberInv ==
  /\ Len(out) + Len(loopFrame) + Len(downFrame) = builder
  /\ Numbers(out) \cup Numbers(loopFrame) \cup Numbers(downFrame) = 1..builder

(* No number is given before the tunnel opens. *)
LEMMA NumberInit ==
  ASSUME Init
  PROVE  NumberInv
<1>1. out = <<>> /\ loopFrame = <<>> /\ downFrame = <<>> /\ builder = 0
  BY DEF Init
<1>2. Numbers(<<>>) = {} /\ Len(<<>>) = 0 /\ 1..0 = {}
  BY DEF Numbers
<1>3. /\ Numbers(out) = {} /\ Numbers(loopFrame) = {} /\ Numbers(downFrame) = {}
      /\ Len(out) = 0 /\ Len(loopFrame) = 0 /\ Len(downFrame) = 0
  BY <1>1, <1>2, Zenon
<1>4. QED BY <1>1, <1>2, <1>3 DEF NumberInv

(* A frame that is numbered next, whoever takes the number. *)
LEMMA NumberNext ==
  ASSUME TypeInv, NumberInv, NEW f \in OutFrames, f.seq = builder + 1, builder' = builder + 1,
         out' = out,
         \/ loopFrame = <<>> /\ loopFrame' = <<f>> /\ downFrame' = downFrame
         \/ downFrame = <<>> /\ downFrame' = <<f>> /\ loopFrame' = loopFrame
  PROVE  NumberInv'
<1>1. /\ builder \in Nat /\ out \in Seq(OutFrames)
      /\ loopFrame \in Seq(OutFrames) /\ downFrame \in Seq(OutFrames)
  BY DEF TypeInv, TunnelTypeOK
<1>2. Len(out) \in Nat /\ Len(loopFrame) \in Nat /\ Len(downFrame) \in Nat
  BY <1>1, LenProperties
<1>3. /\ Numbers(<<f>>) = {f.seq} /\ Numbers(<<>>) = {} /\ Len(<<f>>) = 1 /\ Len(<<>>) = 0
  BY <1>1, NumbersAppend, Single
<1>4. 1..builder + 1 = (1..builder) \cup {builder + 1}
  BY <1>1
<1>5. CASE loopFrame = <<>> /\ loopFrame' = <<f>> /\ downFrame' = downFrame
  <2>1. /\ Numbers(loopFrame) = {} /\ Len(loopFrame) = 0
        /\ Numbers(loopFrame') = {builder + 1} /\ Len(loopFrame') = 1
    BY <1>3, <1>5, Zenon
  <2>2. QED BY <1>1, <1>2, <1>4, <1>5, <2>1 DEF NumberInv
<1>6. CASE downFrame = <<>> /\ downFrame' = <<f>> /\ loopFrame' = loopFrame
  <2>1. /\ Numbers(downFrame) = {} /\ Len(downFrame) = 0
        /\ Numbers(downFrame') = {builder + 1} /\ Len(downFrame') = 1
    BY <1>3, <1>6, Zenon
  <2>2. QED BY <1>1, <1>2, <1>4, <1>6, <2>1 DEF NumberInv
<1>7. QED BY <1>5, <1>6

(* A frame that goes out keeps its number. *)
LEMMA NumberGoesOut ==
  ASSUME TypeInv, NumberInv, NEW f \in OutFrames, out' = Append(out, f), builder' = builder,
         \/ loopFrame = <<f>> /\ loopFrame' = <<>> /\ downFrame' = downFrame
         \/ downFrame = <<f>> /\ downFrame' = <<>> /\ loopFrame' = loopFrame
  PROVE  NumberInv'
<1>1. /\ builder \in Nat /\ out \in Seq(OutFrames)
      /\ loopFrame \in Seq(OutFrames) /\ downFrame \in Seq(OutFrames)
  BY DEF TypeInv, TunnelTypeOK
<1>2. Len(out) \in Nat /\ Len(loopFrame) \in Nat /\ Len(downFrame) \in Nat
  BY <1>1, LenProperties
<1>3. /\ Numbers(<<f>>) = {f.seq} /\ Numbers(<<>>) = {} /\ Len(<<f>>) = 1 /\ Len(<<>>) = 0
  BY <1>1, NumbersAppend, Single
<1>4. Numbers(out') = Numbers(out) \cup {f.seq} /\ Len(out') = Len(out) + 1
  BY <1>1, NumbersAppend, OutBytes
<1>5. CASE loopFrame = <<f>> /\ loopFrame' = <<>> /\ downFrame' = downFrame
  <2>1. /\ Numbers(loopFrame) = {f.seq} /\ Len(loopFrame) = 1
        /\ Numbers(loopFrame') = {} /\ Len(loopFrame') = 0
    BY <1>3, <1>5, Zenon
  <2>2. QED BY <1>1, <1>2, <1>4, <1>5, <2>1 DEF NumberInv
<1>6. CASE downFrame = <<f>> /\ downFrame' = <<>> /\ loopFrame' = loopFrame
  <2>1. /\ Numbers(downFrame) = {f.seq} /\ Len(downFrame) = 1
        /\ Numbers(downFrame') = {} /\ Len(downFrame') = 0
    BY <1>3, <1>6, Zenon
  <2>2. QED BY <1>1, <1>2, <1>4, <1>6, <2>1 DEF NumberInv
<1>7. QED BY <1>5, <1>6

(* Whoever takes a number or publishes a frame, the numbers stay apart. *)
LEMMA NumberStep ==
  ASSUME TypeInv, NumberInv, [Next]_vars
  PROVE  NumberInv'
<1> USE DEF peerVars, connVars, loopVars, downVars, sharedVars
<1>1. ASSUME UNCHANGED <<out, loopFrame, downFrame, builder>>
      PROVE  NumberInv'
  BY <1>1 DEF NumberInv
<1>2. CASE Inputs
  BY <1>1, <1>2, InputsKeepStream DEF TypeInv, tunnelVars
<1>3. CASE Upstream
  BY <1>1, <1>3 DEF Upstream, UpstreamSends, UpstreamEnds
<1>4. CASE Open
  <2>1. PICK second \in {"head", "error"} : out' = OpenFrames(second)
    BY <1>4 DEF Open, OpenTunnel, OpenTunnelFails
  <2>2. loopFrame = <<>> /\ downFrame = <<>> /\ UNCHANGED <<loopFrame, downFrame>>
        /\ builder' = 2
    BY <1>4 DEF Open, OpenTunnel, OpenTunnelFails, TypeInv, PlaceInv, LoopHolds, DownHolds
  <2>3. /\ out' \in Seq(OutFrames) /\ Len(out') = 2
        /\ \A i \in 1..2 : out'[i].seq = i
    BY <2>1, Openers
  <2>4. Numbers(out') = 1..2
    <3>1. DOMAIN out' = 1..2
      BY <2>3, LenProperties
    <3>2. QED BY <2>3, <3>1 DEF Numbers
  <2>5. Numbers(<<>>) = {} /\ Len(<<>>) = 0
    BY DEF Numbers
  <2>6. /\ Numbers(loopFrame') = {} /\ Len(loopFrame') = 0
        /\ Numbers(downFrame') = {} /\ Len(downFrame') = 0
    BY <2>2, <2>5, Zenon
  <2>7. QED BY <2>2, <2>3, <2>4, <2>6 DEF NumberInv
<1>5. CASE LoopPublishes
  <2>1. PICK f \in OutFrames : loopFrame = <<f>> /\ loopFrame' = <<>> /\ out' = Append(out, f)
    BY <1>5, LoopSends
  <2>2. UNCHANGED <<downFrame, builder>>
    BY <1>5 DEF LoopPublishes
  <2>3. QED BY <2>1, <2>2, NumberGoesOut
<1>6. CASE TakeDone \/ TakeContext \/ TakeCancel \/ Write
  <2>1. PICK type \in {"credit", "end", "error", "cancelled"} : \E n \in Nat : LoopNumbers(type, n)
    <3>1. CASE TakeDone \/ TakeContext \/ TakeCancel
      BY <3>1 DEF TakeDone, TakeContext, TakeCancel, SaysCancelled
    <3>2. CASE Write
      BY <3>2, WriteAdds
    <3>3. QED BY <1>6, <3>1, <3>2
  <2>2. PICK f \in OutFrames : /\ f.seq = builder + 1 /\ loopFrame' = <<f>>
                               /\ builder' = builder + 1
    BY <2>1, LoopNumbersTypes
  <2>3. loopFrame = <<>> /\ UNCHANGED <<out, downFrame>>
    BY <1>6 DEF TakeDone, TakeContext, TakeCancel, Taking, LoopEnds, Write, WriteUpstream,
       WriteFails, WriteLeaves, TypeInv, PlaceInv, LoopHolds
  <2>4. QED BY <2>2, <2>3, NumberNext
<1>7. CASE TakeIdle \/ TakeUseless \/ TakeData \/ TakeCredit \/ HandOverGrant \/ CloseConn
           \/ CancelContext
  BY <1>1, <1>7 DEF TakeIdle, TakeUseless, TakeData, TakeCredit, Taking, LoopEnds,
     HandOverGrant, CloseConn, CancelContext
<1>8. CASE DownloadNumbers
  <2> DEFINE n == Available(gate, chunk)
             f == Numbered("data", read - chunk, n)
  <2>1. /\ downFrame = <<>> /\ downFrame' = <<f>> /\ builder' = builder + 1
        /\ UNCHANGED <<out, loopFrame>>
    BY <1>8 DEF DownloadNumbers, DownLeaves
  <2>2. /\ chunk \in Nat \ {0} /\ ~MustWait(gate) /\ gate \in Gates /\ read \in Nat
        /\ chunk <= read /\ builder \in Nat
    BY <1>8 DEF DownloadNumbers, TypeInv, TunnelTypeOK, PlaceInv
  <2>3. n \in 1..chunk
    BY <2>2, SpendTakes
  <2> HIDE DEF n
  <2>4. f \in OutFrames /\ f.seq = builder + 1
    BY <2>2, <2>3 DEF OutFrames, Numbered
  <2> HIDE DEF f
  <2>5. QED BY <2>1, <2>4, NumberNext
<1>9. CASE DownloadPublishes
  <2>1. PICK f \in OutFrames : downFrame = <<f>> /\ downFrame' = <<>> /\ out' = Append(out, f)
    BY <1>9, DownSends
  <2>2. UNCHANGED <<loopFrame, builder>>
    BY <1>9 DEF DownloadPublishes, DownLeaves
  <2>3. QED BY <2>1, <2>2, NumberGoesOut
<1>10. CASE (\E n \in 1..BufferBytes : DownloadReads(n)) \/ DownloadEnds \/ DownloadGoesOn
            \/ ReceiveGrant \/ DownloadGivesUp
  BY <1>1, <1>10 DEF DownloadReads, DownloadEnds, DownloadGoesOn, ReceiveGrant,
     DownloadGivesUp, DownLeaves
<1>11. CASE UNCHANGED vars
  BY <1>1, <1>11 DEF vars, tunnelVars
<1>12. QED BY <1>2, <1>3, <1>4, <1>5, <1>6, <1>7, <1>8, <1>9, <1>10, <1>11
           DEF Next, Inputs, Loop, Download

(* The loop and the download never give one number to two frames, although  *)
(* they publish outside the mutex: every number the builder has given is    *)
(* that of exactly one frame, out or in the hands of the one that took it.  *)
THEOREM TunnelNumberedOnce == Spec => []NumberedOnce
<1>1. Init => TypeInv /\ NumberInv
  BY TypeInit, NumberInit
<1>2. TypeInv /\ NumberInv /\ [Next]_vars => (TypeInv /\ NumberInv)'
  BY TypeNext, NumberStep
<1>3. TypeInv /\ NumberInv => NumberedOnce
  <2> SUFFICES ASSUME TypeInv, NumberInv PROVE NumberedOnce
    OBVIOUS
  <2>1. /\ out \in Seq(OutFrames) /\ loopFrame \in Seq(OutFrames)
        /\ downFrame \in Seq(OutFrames)
    BY DEF TypeInv, TunnelTypeOK
  <2>2. ASSUME NEW s \in Seq(OutFrames), NEW t \in Seq(OutFrames),
               t = <<>> \/ \E f \in OutFrames : t = <<f>>
        PROVE  /\ s \o t \in Seq(OutFrames) /\ Len(s \o t) = Len(s) + Len(t)
               /\ Numbers(s \o t) = Numbers(s) \cup Numbers(t)
    <3>1. s \o t \in Seq(OutFrames) /\ Len(s \o t) = Len(s) + Len(t)
      BY ConcatProperties
    <3>2. CASE t = <<>>
      <4>1. s \o t = s /\ Numbers(t) = {}
        BY <3>2 DEF Numbers
      <4>2. QED BY <3>1, <4>1
    <3>3. CASE \E f \in OutFrames : t = <<f>>
      <4>1. PICK f \in OutFrames : t = <<f>>
        BY <3>3
      <4>2. s \o t = Append(s, f)
        BY <4>1, Single
      <4>3. Numbers(Append(s, f)) = Numbers(s) \cup {f.seq} /\ Numbers(<<f>>) = {f.seq}
        BY NumbersAppend
      <4>4. Numbers(s \o t) = Numbers(s) \cup Numbers(t)
        BY <4>1, <4>2, <4>3, Zenon
      <4>5. QED BY <3>1, <4>4
    <3>4. QED BY <2>2, <3>2, <3>3
  <2>3. /\ loopFrame = <<>> \/ \E f \in OutFrames : loopFrame = <<f>>
        /\ downFrame = <<>> \/ \E f \in OutFrames : downFrame = <<f>>
    BY DEF TypeInv, PlaceInv, LoopHolds, DownHolds
  <2> DEFINE some == out \o loopFrame
             all == some \o downFrame
  <2>4. /\ some \in Seq(OutFrames) /\ Len(some) = Len(out) + Len(loopFrame)
        /\ Numbers(some) = Numbers(out) \cup Numbers(loopFrame)
    BY <2>1, <2>2, <2>3
  <2> HIDE DEF some
  <2>5. /\ Len(all) = Len(some) + Len(downFrame)
        /\ Numbers(all) = Numbers(some) \cup Numbers(downFrame)
    BY <2>1, <2>2, <2>3, <2>4
  <2>6. Len(all) = builder /\ Numbers(all) = 1..builder
    BY <2>4, <2>5 DEF NumberInv
  <2>7. QED BY <2>6 DEF some, NumberedOnce, Numbers
<1>4. QED BY <1>1, <1>2, <1>3, PTL DEF Spec
-----------------------------------------------------------------------------
(* The answer. *)

Ended == tpc \in {"closing", "closed", "done"}

(* While the loop runs no terminal frame is out; when it has ended there is *)
(* exactly one, or none and Control has been quiet ever since.              *)
AnswerInv ==
  IF Ended
  THEN \/ \E k \in 1..Len(out) : \A i \in 1..Len(out) : IsTerminal(out[i]) <=> i = k
       \/ quiet /\ \A i \in 1..Len(out) : ~IsTerminal(out[i])
  ELSE \A i \in 1..Len(out) : ~IsTerminal(out[i])

(* No frame has gone out before the tunnel is opened. *)
LEMMA AnswerInit ==
  ASSUME Init
  PROVE  AnswerInv
<1>1. out = <<>> /\ ~Ended
  BY DEF Init, Ended
<1>2. Len(out) = 0
  BY <1>1
<1>3. QED BY <1>1, <1>2 DEF AnswerInv

(* The terminal frames out are the same when one that is not terminal goes. *)
LEMMA PlainGoesOut ==
  ASSUME TypeInv, AnswerInv, NEW f \in OutFrames, ~IsTerminal(f), out' = Append(out, f),
         UNCHANGED <<tpc, quiet>> \/ (~Ended /\ ~Ended')
  PROVE  AnswerInv'
<1>1. /\ Len(out) \in Nat /\ Len(out') = Len(out) + 1 /\ out'[Len(out')] = f
      /\ \A i \in 1..Len(out) : out'[i] = out[i] /\ i \in 1..Len(out')
      /\ \A i \in 1..Len(out') : i \in 1..Len(out) \/ i = Len(out')
  BY OutBytes
<1>2. ~(Len(out') \in 1..Len(out))
  BY <1>1
<1>3. CASE \A i \in 1..Len(out) : ~IsTerminal(out[i])
  <2>1. \A i \in 1..Len(out') : ~IsTerminal(out'[i])
    BY <1>1, <1>3
  <2>2. CASE Ended
    <3>1. quiet \/ ~(\A i \in 1..Len(out) : ~IsTerminal(out[i]))
      BY <2>2 DEF AnswerInv
    <3>2. quiet' /\ Ended'
      BY <1>3, <2>2, <3>1 DEF Ended
    <3>3. QED BY <2>1, <3>2 DEF AnswerInv
  <2>3. CASE ~Ended
    <3>1. ~Ended'
      BY <2>3 DEF Ended
    <3>2. QED BY <2>1, <3>1 DEF AnswerInv
  <2>4. QED BY <2>2, <2>3
<1>4. CASE ~(\A i \in 1..Len(out) : ~IsTerminal(out[i]))
  <2>1. Ended /\ Ended'
    BY <1>4 DEF AnswerInv, Ended
  <2>2. PICK k \in 1..Len(out) : \A i \in 1..Len(out) : IsTerminal(out[i]) <=> i = k
    BY <1>4, <2>1 DEF AnswerInv
  <2>3. k \in 1..Len(out') /\ \A i \in 1..Len(out') : IsTerminal(out'[i]) <=> i = k
    BY <1>1, <1>2, <2>2
  <2>4. QED BY <2>1, <2>3 DEF AnswerInv
<1>5. QED BY <1>3, <1>4

(* A terminal frame goes out of the loop alone, and the loop ends with it;  *)
(* without one it only ends when Control has been quiet.                    *)
LEMMA AnswerNext ==
  ASSUME TypeInv, AnswerInv, [Next]_vars
  PROVE  AnswerInv'
<1> USE DEF peerVars, connVars, loopVars, downVars, sharedVars
<1>1. ASSUME UNCHANGED <<tpc, out>>, quiet' \in {quiet, TRUE}
      PROVE  AnswerInv'
  <2>1. (Ended' <=> Ended) /\ (quiet => quiet') /\ out' = out
    <3>1. (Ended' <=> Ended) /\ out' = out
      BY <1>1 DEF Ended
    <3>2. quiet' = quiet \/ quiet' = TRUE
      BY <1>1
    <3>3. quiet => quiet'
      BY <3>2, Zenon
    <3>4. QED BY <3>1, <3>3
  <2> HIDE DEF Ended
  <2>2. CASE Ended
    <3>1. CASE \E k \in 1..Len(out) : \A i \in 1..Len(out) : IsTerminal(out[i]) <=> i = k
      BY <2>1, <2>2, <3>1 DEF AnswerInv
    <3>2. CASE quiet /\ \A i \in 1..Len(out) : ~IsTerminal(out[i])
      BY <2>1, <2>2, <3>2 DEF AnswerInv
    <3>3. QED BY <2>2, <3>1, <3>2 DEF AnswerInv
  <2>3. CASE ~Ended
    BY <2>1, <2>3 DEF AnswerInv
  <2>4. QED BY <2>2, <2>3
<1>2. ASSUME UNCHANGED out, ~Ended, ~Ended'
      PROVE  AnswerInv'
  BY <1>2 DEF AnswerInv
<1>3. CASE Inputs
  BY <1>1, <1>3, InputsKeepStream DEF TypeInv, tunnelVars
<1>4. CASE Upstream
  BY <1>1, <1>4 DEF Upstream, UpstreamSends, UpstreamEnds, streamVars, queueVars
<1>5. CASE Open
  <2>1. PICK second \in {"head", "error"} :
          out' = OpenFrames(second) /\ (Ended' <=> second = "error")
    BY <1>5 DEF Open, OpenTunnel, OpenTunnelFails, Ended
  <2>2. /\ Len(out') = 2 /\ 2 \in 1..2 /\ \A i \in 1..2 : i = 1 \/ i = 2
        /\ out'[1].type = "head" /\ out'[2].type = second
    BY <2>1, Openers
  <2>3. ~IsTerminal(out'[1]) /\ (IsTerminal(out'[2]) <=> second = "error")
    BY <2>2 DEF IsTerminal
  <2>4. CASE second = "error"
    <3>1. \A i \in 1..2 : IsTerminal(out'[i]) <=> i = 2
      BY <2>2, <2>3, <2>4
    <3>2. QED BY <2>1, <2>2, <2>4, <3>1 DEF AnswerInv
  <2>5. CASE second = "head"
    BY <2>1, <2>2, <2>3, <2>5 DEF AnswerInv
  <2>6. QED BY <2>4, <2>5
<1>6. CASE LoopPublishes
  <2>1. PICK f \in OutFrames :
          /\ out' = Append(out, f) /\ tpc = "publishing"
          /\ tpc' = IF IsTerminal(f) THEN "closing" ELSE "loop"
    BY <1>6, LoopSends
  <2>2. CASE ~IsTerminal(f)
    BY <2>1, <2>2, PlainGoesOut DEF Ended
  <2>3. CASE IsTerminal(f)
    <3>1. \A i \in 1..Len(out) : ~IsTerminal(out[i])
      BY <2>1 DEF AnswerInv, Ended
    <3>2. /\ Len(out) \in Nat /\ Len(out') = Len(out) + 1 /\ out'[Len(out')] = f
          /\ \A i \in 1..Len(out) : out'[i] = out[i]
          /\ \A i \in 1..Len(out') : i \in 1..Len(out) \/ i = Len(out')
      BY <2>1, OutBytes
    <3>3. Len(out') \in 1..Len(out') /\ ~(Len(out') \in 1..Len(out))
      BY <3>2
    <3>4. \A i \in 1..Len(out') : IsTerminal(out'[i]) <=> i = Len(out')
      BY <2>3, <3>1, <3>2, <3>3
    <3>5. Ended'
      BY <2>1, <2>3 DEF Ended
    <3>6. QED BY <3>3, <3>4, <3>5 DEF AnswerInv
  <2>4. QED BY <2>2, <2>3
<1>7. CASE TakeDone \/ TakeContext \/ TakeCancel
  BY <1>2, <1>7 DEF TakeDone, TakeContext, TakeCancel, SaysCancelled, LoopNumbers, Taking,
     LoopEnds, Ended
<1>8. CASE TakeUseless \/ TakeData \/ TakeCredit
  <2>1. tpc' \in {"loop", "writing", "granting"} /\ tpc = "loop" /\ out' = out
    BY <1>8 DEF TakeUseless, TakeData, TakeCredit, Taking
  <2>2. QED BY <1>2, <2>1 DEF Ended
<1>9. CASE HandOverGrant
  BY <1>2, <1>9 DEF HandOverGrant, Ended
<1>10. CASE TakeIdle
  <2>1. quiet' /\ tpc = "loop" /\ tpc' = "closing" /\ out' = out
    BY <1>10 DEF TakeIdle, IdleExpired, LoopEnds, streamVars, queueVars
  <2>2. QED BY <2>1 DEF AnswerInv, Ended
<1>11. CASE CloseConn \/ CancelContext
  <2>1. Ended /\ Ended' /\ UNCHANGED <<out, quiet>>
    BY <1>11 DEF CloseConn, CancelContext, Ended, streamVars, queueVars
  <2>2. QED BY <2>1 DEF AnswerInv
<1>12. CASE Write
  <2>1. tpc = "writing" /\ tpc' = "publishing" /\ out' = out
    BY <1>12 DEF Write, WriteUpstream, WriteFails, WriteLeaves, LoopNumbers
  <2>2. QED BY <1>2, <2>1 DEF Ended
<1>13. CASE DownloadPublishes
  <2>1. PICK f \in OutFrames : f.type = "data" /\ out' = Append(out, f)
    BY <1>13, DownSends
  <2>2. ~IsTerminal(f)
    BY <2>1 DEF IsTerminal
  <2>3. UNCHANGED <<tpc, quiet>>
    BY <1>13 DEF DownloadPublishes, DownLeaves, streamVars, queueVars
  <2>4. QED BY <2>1, <2>2, <2>3, PlainGoesOut
<1>14. CASE Download /\ ~DownloadPublishes
  BY <1>1, <1>14 DEF Download, DownloadReads, DownloadEnds, DownloadNumbers, DownloadGoesOn,
     ReceiveGrant, DownloadGivesUp, DownLeaves, streamVars, queueVars
<1>15. CASE UNCHANGED vars
  BY <1>1, <1>15 DEF vars, tunnelVars, streamVars, queueVars
<1>16. QED BY <1>3, <1>4, <1>5, <1>6, <1>7, <1>8, <1>9, <1>10, <1>11, <1>12, <1>13, <1>14,
              <1>15
           DEF Next, Inputs, Loop

(* A tunnel that is over has published exactly one terminal frame, or, when *)
(* Control has been quiet for the idle timeout, none.                       *)
THEOREM TunnelIsAnswered == Spec => []TunnelAnswered
<1>1. Init => TypeInv /\ AnswerInv
  BY TypeInit, AnswerInit
<1>2. TypeInv /\ AnswerInv /\ [Next]_vars => (TypeInv /\ AnswerInv)'
  BY TypeNext, AnswerNext
<1>3. TypeInv /\ AnswerInv => TunnelAnswered
  <2> DEFINE terminals == {i \in DOMAIN out : IsTerminal(out[i])}
  <2> SUFFICES ASSUME TypeInv, AnswerInv, tpc = "done"
               PROVE  Cardinality(terminals) = 1 \/ (terminals = {} /\ quiet)
    BY DEF TunnelAnswered
  <2>1. DOMAIN out = 1..Len(out)
    BY LenProperties DEF TypeInv, TunnelTypeOK
  <2>2. CASE \E k \in 1..Len(out) : \A i \in 1..Len(out) : IsTerminal(out[i]) <=> i = k
    <3>1. PICK k \in 1..Len(out) : \A i \in 1..Len(out) : IsTerminal(out[i]) <=> i = k
      BY <2>2
    <3>2. terminals = {k}
      BY <2>1, <3>1
    <3>3. Cardinality({k}) = 1
      BY FS_Singleton
    <3>4. QED BY <3>2, <3>3, Zenon
  <2>3. CASE quiet /\ \A i \in 1..Len(out) : ~IsTerminal(out[i])
    BY <2>1, <2>3
  <2>4. QED BY <2>2, <2>3 DEF AnswerInv, Ended
<1>4. QED BY <1>1, <1>2, <1>3, PTL DEF Spec

-----------------------------------------------------------------------------
(* What an End means. *)

(* The upstream has closed, and the download has read and published it all. *)
AtEof == upstream = "eof" /\ read = arrived /\ chunk = 0 /\ dpc = "finished"

(* What each actor knows of the end of the upstream is still so, from the   *)
(* error that Read returned to the End that is out.                         *)
EndInv ==
  /\ readErr # "none" => upstream = readErr /\ read = arrived
  /\ done # <<>> => /\ done[1] = "eof" => AtEof
                    /\ done[1] = "closed" => tpc \in {"closed", "done"}
  /\ dpc # "none" /\ ~connOpen => tpc \in {"closed", "done"}
  /\ loopFrame # <<>> => (loopFrame[1].type = "end" => AtEof)
  /\ \A i \in 1..Len(out) : out[i].type = "end" => i = Len(out) /\ AtEof

(* Nothing has ended yet when the tunnel starts. *)
LEMMA EndInit ==
  ASSUME Init
  PROVE  EndInv
<1>1. /\ out = <<>> /\ loopFrame = <<>> /\ done = <<>>
      /\ readErr = "none" /\ dpc = "none"
  BY DEF Init
<1>2. Len(out) = 0
  BY <1>1
<1>3. QED BY <1>1, <1>2 DEF EndInv

(* The download reports what it has seen: an end of file once it has read   *)
(* and handed on all there is.                                              *)
LEMMA ReportSays ==
  ASSUME TypeInv, NEW err \in {"eof", "reset", "closed", "context"}, Report(err),
         dpc # "finished"
  PROVE  done = <<>> /\ done' = <<err>> /\ done' # <<>> /\ done'[1] = err
         /\ dpc' = "finished"
<1>1. done = <<>>
  BY DEF TypeInv, PlaceInv
<1>2. done' = <<err>>
  BY <1>1 DEF Report
<1>3. QED BY <1>1, <1>2 DEF Report

(* Once the upstream has closed and all of it is out, it stays so. *)
LEMMA EofStays ==
  ASSUME TypeInv, AtEof, [Next]_vars
  PROVE  AtEof'
<1> USE DEF peerVars, connVars, loopVars, downVars, sharedVars, AtEof
<1>1. tpc # "opening" /\ downFrame = <<>>
  BY DEF TypeInv, PlaceInv, DownHolds
<1>2. CASE Inputs
  BY <1>2, InputsKeepStream DEF TypeInv, tunnelVars
<1>3. CASE Upstream \/ Open \/ Write
  BY <1>1, <1>3 DEF Upstream, UpstreamSends, UpstreamEnds, Open, OpenTunnelFails, OpenTunnel,
     Write, WriteUpstream, WriteFails, WriteLeaves
<1>4. CASE Loop
  BY <1>4 DEF Loop, LoopPublishes, TakeDone, TakeContext, TakeIdle, LoopEnds, TakeUseless,
     TakeData, TakeCredit, TakeCancel, Taking, HandOverGrant, CloseConn, CancelContext
<1>5. CASE Download
  BY <1>5 DEF Download, DownloadReads, DownloadEnds, DownloadNumbers, DownloadPublishes,
     DownloadGoesOn, ReceiveGrant, WaitsForCredit, DownloadGivesUp
<1>6. CASE UNCHANGED vars
  BY <1>6 DEF vars, tunnelVars
<1>7. QED BY <1>2, <1>3, <1>4, <1>5, <1>6 DEF Next, Inputs

(* Whatever the step, what the actors know of the end remains true. *)
LEMMA EndNext ==
  ASSUME TypeInv, AnswerInv, EndInv, [Next]_vars
  PROVE  EndInv'
<1> USE DEF peerVars, connVars, loopVars, downVars, sharedVars
<1>1. AtEof => AtEof'
  BY EofStays
<1>2. tpc \in {"closed", "done"} => tpc' \in {"closed", "done"}
  <2>1. CASE Inputs
    BY <2>1, InputsKeepStream DEF TypeInv, tunnelVars
  <2>2. CASE Upstream \/ Open \/ Write \/ Download
    BY <2>2 DEF Upstream, UpstreamSends, UpstreamEnds, Open, OpenTunnelFails, OpenTunnel,
       Write, WriteUpstream, WriteFails, Download, DownloadReads, DownloadEnds,
       DownloadNumbers, DownloadPublishes, DownloadGoesOn, ReceiveGrant, DownloadGivesUp,
       DownLeaves
  <2>3. CASE Loop
    BY <2>3 DEF Loop, LoopPublishes, TakeDone, TakeContext, TakeIdle, TakeUseless,
       TakeData, TakeCredit, TakeCancel, Taking, HandOverGrant, CloseConn, CancelContext
  <2>4. CASE UNCHANGED vars
    BY <2>4 DEF vars, tunnelVars
  <2>5. QED BY <2>1, <2>2, <2>3, <2>4 DEF Next, Inputs
<1>3. ASSUME NEW f \in OutFrames, out' = Append(out, f),
             f.type # "end" \/ AtEof,
             \A i \in 1..Len(out) : out[i].type # "end"
      PROVE  \A i \in 1..Len(out') : out'[i].type = "end" => i = Len(out') /\ AtEof'
  <2>1. /\ out'[Len(out')] = f
        /\ \A i \in 1..Len(out) : out'[i] = out[i]
        /\ \A i \in 1..Len(out') : i \in 1..Len(out) \/ i = Len(out')
    BY <1>3, OutBytes
  <2>2. QED BY <1>1, <1>3, <2>1
<1>4. ASSUME UNCHANGED out
      PROVE  \A i \in 1..Len(out') : out'[i].type = "end" => i = Len(out') /\ AtEof'
  BY <1>1, <1>4 DEF EndInv
<1>5. ASSUME UNCHANGED done \/ done' = <<>>
      PROVE  done' # <<>> => /\ done'[1] = "eof" => AtEof'
                             /\ done'[1] = "closed" => tpc' \in {"closed", "done"}
  BY <1>1, <1>2, <1>5 DEF EndInv
<1>6. ASSUME UNCHANGED loopFrame \/ loopFrame' = <<>>
      PROVE  loopFrame' # <<>> => (loopFrame'[1].type = "end" => AtEof')
  BY <1>1, <1>6 DEF EndInv
<1>7. ASSUME UNCHANGED <<readErr, upstream, read, arrived>>
      PROVE  readErr' # "none" => upstream' = readErr' /\ read' = arrived'
  BY <1>7 DEF EndInv
<1>8. ASSUME UNCHANGED <<dpc, connOpen>>
      PROVE  dpc' # "none" /\ ~connOpen' => tpc' \in {"closed", "done"}
  BY <1>2, <1>8 DEF EndInv
<1>9. CASE Inputs
  <2>1. UNCHANGED tunnelVars
    BY <1>9, InputsKeepStream DEF TypeInv
  <2>2. QED BY <2>1, <1>4, <1>5, <1>6, <1>7, <1>8 DEF EndInv, tunnelVars
<1>10. CASE Upstream
  <2>1. readErr' # "none" => upstream' = readErr' /\ read' = arrived'
    BY <1>10 DEF Upstream, UpstreamSends, UpstreamEnds, EndInv, TypeInv, TunnelTypeOK
  <2>2. UNCHANGED <<out, done, loopFrame, dpc, connOpen>>
    BY <1>10 DEF Upstream, UpstreamSends, UpstreamEnds
  <2>3. QED BY <2>1, <2>2, <1>4, <1>5, <1>6, <1>8 DEF EndInv
<1>11. CASE Open
  <2>1. PICK second \in {"head", "error"} : out' = OpenFrames(second)
    BY <1>11 DEF Open, OpenTunnel, OpenTunnelFails
  <2>2. /\ Len(out') = 2 /\ \A i \in 1..2 : i = 1 \/ i = 2
        /\ out'[1].type # "end" /\ out'[2].type # "end"
    BY <2>1, Openers
  <2>3. dpc' # "none" /\ ~connOpen' => tpc' \in {"closed", "done"}
    BY <1>11 DEF Open, OpenTunnel, OpenTunnelFails
  <2>4. UNCHANGED <<done, loopFrame, readErr, upstream, read, arrived>>
    BY <1>11 DEF Open, OpenTunnel, OpenTunnelFails
  <2>5. QED BY <2>2, <2>3, <2>4, <1>5, <1>6, <1>7 DEF EndInv
<1>12. CASE LoopPublishes
  <2>1. PICK f \in OutFrames : /\ loopFrame = <<f>> /\ out' = Append(out, f)
                               /\ loopFrame' = <<>> /\ tpc = "publishing"
    BY <1>12, LoopSends
  <2>2. f.type # "end" \/ AtEof
    BY <2>1 DEF EndInv
  <2>3. \A i \in 1..Len(out) : out[i].type # "end"
    BY <2>1 DEF AnswerInv, Ended, IsTerminal
  <2>4. UNCHANGED <<done, readErr, upstream, read, arrived, dpc, connOpen>>
    BY <1>12 DEF LoopPublishes
  <2>5. QED BY <2>1, <2>2, <2>3, <2>4, <1>3, <1>5, <1>6, <1>7, <1>8 DEF EndInv
<1>13. CASE TakeDone
  <2>1. LoopNumbers(IF done[1] \in {"eof", "closed"} THEN "end" ELSE "error", 0)
        /\ tpc = "loop" /\ done # <<>> /\ done' = <<>>
    BY <1>13 DEF TakeDone, HasDone
  <2>2. loopFrame'[1].type = "end" => done[1] = "eof"
    BY <2>1 DEF LoopNumbers, Numbered, EndInv
  <2>3. loopFrame' # <<>> => (loopFrame'[1].type = "end" => AtEof')
    BY <2>1, <2>2, <1>1 DEF EndInv
  <2>4. UNCHANGED <<out, readErr, upstream, read, arrived, dpc, connOpen>>
    BY <1>13 DEF TakeDone, LoopEnds
  <2>5. QED BY <2>1, <2>3, <2>4, <1>4, <1>5, <1>7, <1>8 DEF EndInv
<1>14. CASE TakeContext \/ TakeCancel \/ Write
  <2>1. PICK type \in {"credit", "error", "cancelled"} : \E n \in Nat : LoopNumbers(type, n)
    <3>1. CASE TakeContext \/ TakeCancel
      BY <3>1 DEF TakeContext, TakeCancel, SaysCancelled
    <3>2. CASE Write
      <4>1. PICK f \in Frames : inHand = <<f>> /\ f.n \in Nat
        BY <3>2, WriteAdds
      <4>2. inHand[1].n \in Nat
        BY <4>1, Single
      <4>3. QED BY <3>2, <4>2 DEF Write, WriteUpstream, WriteFails
    <3>3. QED BY <1>14, <3>1, <3>2
  <2>2. loopFrame'[1].type # "end"
    BY <2>1 DEF LoopNumbers, Numbered
  <2>3. UNCHANGED <<out, done, readErr, upstream, read, arrived, dpc, connOpen>>
    BY <1>14 DEF TakeContext, TakeCancel, Taking, LoopEnds, Write, WriteUpstream, WriteFails,
       WriteLeaves
  <2>4. QED BY <2>2, <2>3, <1>4, <1>5, <1>7, <1>8 DEF EndInv
<1>15. CASE TakeIdle \/ TakeUseless \/ TakeData \/ TakeCredit \/ HandOverGrant
            \/ CancelContext
  <2>1. UNCHANGED <<out, done, loopFrame, readErr, upstream, read, arrived, dpc, connOpen>>
    BY <1>15 DEF TakeIdle, LoopEnds, TakeUseless, TakeData, TakeCredit, Taking,
       HandOverGrant, CancelContext
  <2>2. QED BY <2>1, <1>4, <1>5, <1>6, <1>7, <1>8 DEF EndInv
<1>16. CASE CloseConn
  <2>1. tpc' = "closed"
        /\ UNCHANGED <<out, done, loopFrame, readErr, upstream, read, arrived>>
    BY <1>16 DEF CloseConn
  <2>2. QED BY <2>1, <1>4, <1>5, <1>6, <1>7 DEF EndInv
<1>17. CASE \E n \in 1..BufferBytes : DownloadReads(n)
  <2>1. PICK n \in 1..BufferBytes : DownloadReads(n)
    BY <1>17
  <2>2. /\ UNCHANGED <<out, done, loopFrame, upstream, arrived, connOpen>>
        /\ connOpen
    BY <2>1 DEF DownloadReads, DownLeaves
  <2>3. readErr' # "none" => upstream' = readErr' /\ read' = arrived'
    <3>1. CASE read' = arrived /\ readErr' = upstream
      BY <2>2, <3>1
    <3>2. CASE readErr' = readErr /\ readErr # "none"
      <4>1. read = arrived /\ arrived \in Nat /\ n \in Nat /\ n >= 1 /\ n <= arrived - read
        BY <2>1, <3>2, RawTunnelAssumption DEF DownloadReads, EndInv, TypeInv, TunnelTypeOK
      <4>2. QED BY <4>1
    <3>3. QED BY <2>1, <3>1, <3>2 DEF DownloadReads
  <2>4. QED BY <2>2, <2>3, <1>4, <1>5, <1>6 DEF EndInv
<1>18. CASE DownloadEnds
  <2>1. /\ UNCHANGED <<out, loopFrame, readErr, upstream, read, arrived, connOpen, chunk>>
        /\ dpc = "reading" /\ tpc' = tpc /\ chunk = 0
    BY <1>18 DEF DownloadEnds, DownLeaves, TypeInv, PlaceInv
  <2>2. dpc' # "none" /\ ~connOpen' => tpc' \in {"closed", "done"}
    BY <2>1 DEF EndInv
  <2>3. PICK err \in {"eof", "reset", "closed"} :
          /\ Report(err)
          /\ err = "closed" => ~connOpen
          /\ err = "eof" => upstream = "eof" /\ read = arrived
    BY <1>18 DEF DownloadEnds, TypeInv, TunnelTypeOK
  <2>4. done'[1] = err /\ dpc' = "finished"
    BY <2>1, <2>3, ReportSays
  <2>5. done'[1] = "eof" => AtEof'
    BY <2>1, <2>3, <2>4 DEF AtEof
  <2>6. done'[1] = "closed" => tpc' \in {"closed", "done"}
    BY <2>1, <2>3, <2>4 DEF EndInv
  <2>7. QED BY <2>1, <2>2, <2>5, <2>6, <1>4, <1>6, <1>7 DEF EndInv
<1>19. CASE DownloadNumbers \/ ReceiveGrant
  <2>1. UNCHANGED <<out, done, loopFrame, readErr, upstream, read, arrived, dpc, connOpen>>
    BY <1>19 DEF DownloadNumbers, ReceiveGrant, DownLeaves
  <2>2. QED BY <2>1, <1>4, <1>5, <1>6, <1>7, <1>8 DEF EndInv
<1>20. CASE DownloadPublishes
  <2>1. PICK f \in OutFrames : f.type = "data" /\ out' = Append(out, f) /\ dpc = "sending"
    BY <1>20, DownSends
  <2>2. \A i \in 1..Len(out) : out[i].type # "end"
    BY <2>1 DEF EndInv, AtEof
  <2>3. UNCHANGED <<done, loopFrame, readErr, upstream, read, arrived, dpc, connOpen>>
    BY <1>20 DEF DownloadPublishes, DownLeaves
  <2>4. QED BY <2>1, <2>2, <2>3, <1>3, <1>5, <1>6, <1>7, <1>8 DEF EndInv
<1>21. CASE DownloadGoesOn
  <2>1. /\ UNCHANGED <<out, loopFrame, readErr, upstream, read, arrived, connOpen, chunk, tpc>>
        /\ dpc = "sending" /\ chunk = 0
    BY <1>21 DEF DownloadGoesOn, DownLeaves
  <2>2. dpc' # "none" /\ ~connOpen' => tpc' \in {"closed", "done"}
    BY <2>1 DEF EndInv
  <2>3. CASE readErr = "none"
    <3>1. done' = done
      BY <1>21, <2>3 DEF DownloadGoesOn
    <3>2. QED BY <2>1, <2>2, <3>1, <1>4, <1>5, <1>6, <1>7 DEF EndInv
  <2>4. CASE readErr # "none"
    <3>1. Report(readErr) /\ readErr \in {"eof", "reset"} /\ upstream = readErr
          /\ read = arrived
      BY <1>21, <2>4 DEF DownloadGoesOn, EndInv, TypeInv, TunnelTypeOK
    <3>2. done'[1] = readErr /\ dpc' = "finished"
      BY <2>1, <3>1, ReportSays
    <3>3. done'[1] = "eof" => AtEof'
      BY <2>1, <3>1, <3>2 DEF AtEof
    <3>4. done'[1] # "closed"
      BY <3>1, <3>2
    <3>5. QED BY <2>1, <2>2, <3>3, <3>4, <1>4, <1>6, <1>7 DEF EndInv
  <2>5. QED BY <2>3, <2>4
<1>22. CASE DownloadGivesUp
  <2>1. /\ UNCHANGED <<out, loopFrame, readErr, upstream, read, arrived, connOpen, tpc>>
        /\ dpc = "sending" /\ Report("context")
    BY <1>22 DEF DownloadGivesUp, WaitsForCredit, DownLeaves
  <2>2. dpc' # "none" /\ ~connOpen' => tpc' \in {"closed", "done"}
    BY <2>1 DEF EndInv
  <2>3. done'[1] = "context"
    BY <2>1, ReportSays
  <2>4. QED BY <2>1, <2>2, <2>3, <1>4, <1>6, <1>7 DEF EndInv
<1>23. CASE UNCHANGED vars
  <2>1. UNCHANGED tunnelVars
    BY <1>23 DEF vars
  <2>2. QED BY <2>1, <1>4, <1>5, <1>6, <1>7, <1>8 DEF EndInv, tunnelVars
<1>24. QED BY <1>9, <1>10, <1>11, <1>12, <1>13, <1>14, <1>15, <1>16, <1>17, <1>18, <1>19,
              <1>20, <1>21, <1>22, <1>23
           DEF Next, Inputs, Loop, Download

(* An End says that the upstream has closed and that all it sent has been   *)
(* published, although another goroutine published it; no frame follows it. *)
THEOREM TunnelEndMeansComplete == Spec => []EndMeansComplete
<1> DEFINE Inv == TypeInv /\ AnswerInv /\ DownInv /\ EndInv
<1>1. Init => Inv
  BY TypeInit, AnswerInit, DownInit, EndInit
<1>2. Inv /\ [Next]_vars => Inv'
  BY TypeNext, AnswerNext, DownNext, EndNext
<1>3. Inv => EndMeansComplete
  <2> SUFFICES ASSUME Inv, NEW i \in DOMAIN out, out[i].type = "end"
               PROVE  i = Len(out) /\ upstream = "eof" /\ BytesOf("data", out) = arrived
    BY DEF EndMeansComplete
  <2>1. i \in 1..Len(out) /\ read \in Nat
    BY LenProperties DEF TypeInv, TunnelTypeOK
  <2>2. i = Len(out) /\ AtEof
    BY <2>1 DEF EndInv
  <2>3. BytesOf("data", out) = read - 0
    BY <2>2 DEF DownInv, AtEof
  <2>4. QED BY <2>1, <2>2, <2>3 DEF AtEof
<1> HIDE DEF Inv
<1>4. QED BY <1>1, <1>2, <1>3, PTL DEF Spec
=============================================================================
