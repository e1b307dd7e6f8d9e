------------------------ MODULE RequestStreamProofs ------------------------
(***************************************************************************)
(* What every step of Control, of the wire and of the request does to the  *)
(* stream of a request: types, the validator, and the download credit that *)
(* Control has granted.  The lemmas are about the operators of             *)
(* RequestStream, so that both users of the stream can cite them.          *)
(***************************************************************************)
EXTENDS RequestStream, SequenceTheorems, FiniteSetTheorems, TLAPS

-----------------------------------------------------------------------------
(* Types. *)

(* Every variable of the stream but ctxDone, which is the user's to set when *)
(* a frame is taken.                                                         *)
LEMMA StreamInitTypes ==
  ASSUME NEW seq \in Nat, NEW v \in Validators, StreamInit(seq, v)
  PROVE  StreamTypeOK
BY EmptySeq DEF StreamInit, StreamTypeOK

(* A new validator is a validator. *)
LEMMA NewValidatorType ==
  ASSUME NEW attempt \in Nat, NEW credit \in Nat, NEW allow \in BOOLEAN
  PROVE  NewValidator(attempt, credit, allow) \in Validators
BY DEF NewValidator, Validators

(* A frame that Control sends is appended, or lost. *)
LEMMA SendAppends ==
  ASSUME StreamTypeOK, NEW type \in FrameTypes, NEW off \in Nat, NEW n \in Nat,
         Send(type, off, n)
  PROVE  LET f == [type |-> type, seq |-> ctlSeq, attempt |-> Attempt,
                   off |-> off, n |-> n]
         IN /\ f \in Frames
            /\ frames' = Append(frames, f) \/ frames' = frames
            /\ frames' \in Seq(Frames)
            /\ ctlSeq' \in Nat
<1> DEFINE f == [type |-> type, seq |-> ctlSeq, attempt |-> Attempt,
                 off |-> off, n |-> n]
<1>1. frames \in Seq(Frames) /\ ctlSeq \in Nat
  BY DEF StreamTypeOK
<1>2. f \in Frames
  BY <1>1 DEF Frames, Attempt
<1>3. frames' = Append(frames, f) \/ frames' = frames
  BY DEF Send
<1>4. ctlSeq' \in Nat
  BY <1>1 DEF Send
<1> HIDE DEF f
<1>5. frames' \in Seq(Frames)
  BY <1>1, <1>2, <1>3, AppendProperties
<1>6. QED BY <1>2, <1>3, <1>4, <1>5 DEF f

(* Control's steps. *)
LEMMA UploadsTypes ==
  ASSUME StreamTypeOK, NEW type \in FrameTypes, NEW n \in Nat, Uploads(type, n)
  PROVE  StreamTypeOK'
<1>1. uploaded \in Nat
  BY DEF StreamTypeOK
<1>2. Send(type, uploaded, n)
  BY DEF Uploads
<1>3. frames' \in Seq(Frames) /\ ctlSeq' \in Nat
  BY <1>1, <1>2, SendAppends
<1>4. QED BY <1>2, <1>3 DEF StreamTypeOK, Uploads, Send

(* A grant queues a well-formed frame, or is lost. *)
LEMMA GrantsTypes ==
  ASSUME StreamTypeOK, NEW n \in Nat, Grants(n)
  PROVE  StreamTypeOK'
<1>1. Send("credit", 0, n) /\ "credit" \in FrameTypes
  BY DEF Grants, FrameTypes
<1>2. frames' \in Seq(Frames) /\ ctlSeq' \in Nat
  BY <1>1, SendAppends
<1>3. QED BY <1>1, <1>2 DEF StreamTypeOK, Grants, Send

(* So does a frame without bytes. *)
LEMMA SaysTypes ==
  ASSUME StreamTypeOK, NEW type \in FrameTypes, Says(type)
  PROVE  StreamTypeOK'
<1>1. Send(type, 0, 0)
  BY DEF Says
<1>2. frames' \in Seq(Frames) /\ ctlSeq' \in Nat
  BY <1>1, SendAppends
<1>3. QED BY <1>1, <1>2 DEF StreamTypeOK, Says, Send

(* The wire's steps, and what they append. *)
LEMMA StrayTypes ==
  ASSUME StreamTypeOK, NEW type \in FrameTypes, NEW seq \in Nat,
         StrayFrame(type, seq)
  PROVE  /\ StreamTypeOK'
         /\ \E f \in Frames : f.attempt = OtherAttempt /\ frames' = Append(frames, f)
<1> DEFINE f == [type |-> type, seq |-> seq, attempt |-> OtherAttempt,
                 off |-> 0, n |-> 1]
<1>1. f \in Frames /\ f.attempt = OtherAttempt
  BY DEF Frames, OtherAttempt
<1>2. Noise(f)
  BY DEF StrayFrame
<1> HIDE DEF f
<1>3. frames' = Append(frames, f) /\ frames \in Seq(Frames) /\ noise' \in Nat
  BY <1>2 DEF Noise, StreamTypeOK
<1>4. frames' \in Seq(Frames)
  BY <1>1, <1>3, AppendProperties
<1>5. QED BY <1>1, <1>2, <1>3, <1>4 DEF StreamTypeOK, Noise

(* What is published again is a frame that is in the queue. *)
LEMMA DuplicateTypes ==
  ASSUME StreamTypeOK, DuplicateFrame
  PROVE  /\ StreamTypeOK'
         /\ \E i \in 1..Len(frames) : frames' = Append(frames, frames[i])
<1>1. frames # <<>> /\ frames \in Seq(Frames) /\ Noise(frames[Len(frames)])
  BY DEF DuplicateFrame, StreamTypeOK
<1>2. Len(frames) \in 1..Len(frames)
  BY <1>1, EmptySeq, LenProperties
<1>3. frames[Len(frames)] \in Frames
  BY <1>1, <1>2, ElementOfSeq
<1>4. frames' = Append(frames, frames[Len(frames)]) /\ noise' \in Nat
  BY <1>1 DEF Noise, StreamTypeOK
<1>5. frames' \in Seq(Frames)
  BY <1>1, <1>3, <1>4, AppendProperties
<1>6. QED BY <1>1, <1>2, <1>4, <1>5 DEF StreamTypeOK, Noise

(* The two clocks change nothing but themselves. *)
LEMMA TimeTypes ==
  ASSUME StreamTypeOK, IdlePasses \/ DeadlinePasses
  PROVE  StreamTypeOK'
<1>1. CASE IdlePasses
  BY <1>1 DEF IdlePasses, StreamTypeOK, ctlVars
<1>2. CASE DeadlinePasses
  BY <1>2 DEF DeadlinePasses, StreamTypeOK, ctlVars, queueVars
<1>3. QED BY <1>1, <1>2

(* The request's steps. *)
LEMMA TakeFrameTypes ==
  ASSUME StreamTypeOK, TakeFrame
  PROVE  /\ frames \in Seq(Frames) /\ frames # <<>>
         /\ Frame \in Frames /\ Frame = frames[1]
         /\ frames' = Tail(frames) /\ frames' \in Seq(Frames)
<1>1. frames \in Seq(Frames) /\ frames # <<>> /\ frames' = Tail(frames)
  BY DEF StreamTypeOK, TakeFrame
<1>2. QED BY <1>1, HeadTailProperties, EmptySeq, LenProperties, ElementOfSeq DEF Frame

(* What the validator accepts is the next frame of its attempt, and data    *)
(* that starts where the data before it ended.                              *)
LEMMA AcceptAdvances ==
  ASSUME StreamTypeOK, NEW types, AcceptFrame(types)
  PROVE  /\ Frame \in Frames /\ Frame.type \in types
         /\ Frame.attempt = validator.attempt
         /\ Frame.seq = validator.expectedSeq
         /\ ~validator.terminal
         /\ Frame.type = "bodyRef" => validator.allowBodyRef
         /\ Frame.type = "data" => Frame.off = validator.offset
         /\ validator' \in Validators
         /\ validator'.attempt = validator.attempt
         /\ validator'.allowBodyRef = validator.allowBodyRef
         /\ validator'.expectedSeq = validator.expectedSeq + 1
         /\ validator'.offset
              = validator.offset + IF Frame.type = "data" THEN Frame.n ELSE 0
         /\ taken' = taken + IF Frame.type = "credit" THEN Frame.n ELSE 0
         /\ taken' \in Nat
<1>1. Frame \in Frames /\ validator \in Validators /\ taken \in Nat
  BY TakeFrameTypes DEF AcceptFrame, StreamTypeOK
<1>2. Frame.n \in Nat
  BY <1>1 DEF Frames
<1>3. /\ Frame.attempt = validator.attempt
      /\ Frame.seq = validator.expectedSeq
      /\ ~validator.terminal
      /\ Frame.type = "bodyRef" => validator.allowBodyRef
      /\ Frame.type = "data" => Frame.off = validator.offset /\ Frame.n <= validator.credit
  BY DEF AcceptFrame, Accepts, ShellIsValid, DataFits
<1> DEFINE n == IF Frame.type = "data" THEN Frame.n ELSE 0
           t == validator.terminal \/ IsTerminalFrame(Frame)
<1>4. n \in Nat /\ n <= validator.credit
  BY <1>1, <1>2, <1>3 DEF Validators
<1>5. validator' = [validator EXCEPT !.expectedSeq = @ + 1, !.offset = @ + n,
                                     !.credit = @ - n, !.terminal = t]
  BY DEF AcceptFrame, AfterAccept
<1>6. t \in BOOLEAN
  OBVIOUS
<1> HIDE DEF n, t
<1>7. /\ validator' \in Validators
      /\ validator'.attempt = validator.attempt
      /\ validator'.allowBodyRef = validator.allowBodyRef
      /\ validator'.expectedSeq = validator.expectedSeq + 1
      /\ validator'.offset = validator.offset + n
  <2> DEFINE e == validator.expectedSeq + 1
             o == validator.offset + n
             c == validator.credit - n
  <2>1. e \in Nat /\ o \in Nat /\ c \in Nat
    BY <1>1, <1>4 DEF Validators
  <2>2. validator' = [validator EXCEPT !.expectedSeq = e, !.offset = o,
                                       !.credit = c, !.terminal = t]
    BY <1>5
  <2> HIDE DEF e, o, c
  <2>3. /\ validator' \in Validators
        /\ validator'.attempt = validator.attempt
        /\ validator'.allowBodyRef = validator.allowBodyRef
        /\ validator'.expectedSeq = e /\ validator'.offset = o
    BY <1>1, <1>6, <2>1, <2>2 DEF Validators
  <2>4. QED BY <2>3 DEF e, o
<1>8. taken' = taken + IF Frame.type = "credit" THEN Frame.n ELSE 0
  BY DEF AcceptFrame
<1>9. Frame.type \in types
  BY DEF AcceptFrame
<1>10. taken' \in Nat
  BY <1>1, <1>2, <1>8
<1>11. QED BY <1>1, <1>3, <1>7, <1>8, <1>9, <1>10 DEF n

(* Accepting a frame keeps the types. *)
LEMMA AcceptTypes ==
  ASSUME StreamTypeOK, NEW types, AcceptFrame(types), ctxDone' \in BOOLEAN
  PROVE  StreamTypeOK'
<1>1. frames' \in Seq(Frames)
  BY TakeFrameTypes DEF AcceptFrame
<1>2. validator' \in Validators /\ taken' \in Nat
  BY AcceptAdvances
<1>3. QED BY <1>1, <1>2 DEF AcceptFrame, TakeFrame, StreamTypeOK, ctlVars

(* So does skipping one. *)
LEMMA RefuseTypes ==
  ASSUME StreamTypeOK, RefuseFrame, ctxDone' \in BOOLEAN
  PROVE  StreamTypeOK'
<1>1. frames' \in Seq(Frames)
  BY TakeFrameTypes DEF RefuseFrame
<1>2. QED BY <1>1 DEF RefuseFrame, TakeFrame, StreamTypeOK, ctlVars

-----------------------------------------------------------------------------
(* What is in the queue. *)

Elements(s) == {s[i] : i \in DOMAIN s}

Queued == Elements(frames)

(* The elements of a queue: none, one more at its end, one less at its head. *)
LEMMA ElementsOf ==
  ASSUME NEW S, NEW s \in Seq(S)
  PROVE  /\ Elements(s) \subseteq S
         /\ Elements(<<>>) = {}
         /\ \A x \in S : Elements(Append(s, x)) = Elements(s) \cup {x}
         /\ s # <<>> => Elements(Tail(s)) \subseteq Elements(s) /\ Head(s) \in Elements(s)
<1>1. /\ Len(s) \in Nat /\ DOMAIN s = 1..Len(s)
      /\ \A i \in 1..Len(s) : s[i] \in S
  BY LenProperties, ElementOfSeq
<1>2. Elements(s) \subseteq S
  BY <1>1 DEF Elements
<1>3. Elements(<<>>) = {}
  BY DEF Elements
<1>4. ASSUME NEW x \in S
      PROVE  Elements(Append(s, x)) = Elements(s) \cup {x}
  <2> DEFINE a == Append(s, x)
  <2>1. /\ a \in Seq(S) /\ Len(a) = Len(s) + 1
        /\ \A i \in 1..Len(s) : a[i] = s[i]
        /\ a[Len(s) + 1] = x
    BY AppendProperties
  <2>2. DOMAIN a = 1..(Len(s) + 1)
    BY <2>1, LenProperties
  <2> HIDE DEF a
  <2>3. DOMAIN a = DOMAIN s \cup {Len(s) + 1}
    BY <1>1, <2>2
  <2>4. Elements(a) = Elements(s) \cup {x}
    BY <1>1, <2>1, <2>3 DEF Elements
  <2>5. QED BY <2>4 DEF a
<1>5. ASSUME s # <<>>
      PROVE  Elements(Tail(s)) \subseteq Elements(s) /\ Head(s) \in Elements(s)
  <2> DEFINE t == Tail(s)
  <2>1. /\ t \in Seq(S) /\ Len(t) = Len(s) - 1 /\ Len(s) # 0
        /\ \A i \in 1..Len(t) : t[i] = s[i + 1]
        /\ Head(s) = s[1]
    BY <1>5, HeadTailProperties, EmptySeq, LenProperties
  <2>2. DOMAIN t = 1..Len(t)
    BY <2>1, LenProperties
  <2> HIDE DEF t
  <2>3. Elements(t) \subseteq Elements(s)
    <3>1. ASSUME NEW i \in 1..Len(t)
          PROVE  t[i] \in Elements(s)
      <4>1. i + 1 \in DOMAIN s /\ t[i] = s[i + 1]
        BY <1>1, <2>1
      <4>2. QED BY <4>1 DEF Elements
    <3>2. QED BY <2>2, <3>1 DEF Elements
  <2>4. s[1] \in Elements(s)
    BY <1>1, <2>1 DEF Elements
  <2>5. QED BY <2>1, <2>3, <2>4 DEF t
<1>6. QED BY <1>2, <1>3, <1>4, <1>5

(* What each step does to it.  Nothing but a frame that Control sends, or one *)
(* of another attempt, is ever added.                                         *)
LEMMA SendQueues ==
  ASSUME StreamTypeOK, NEW type \in FrameTypes, NEW off \in Nat, NEW n \in Nat,
         Send(type, off, n)
  PROVE  Queued' \subseteq
           Queued \cup {[type |-> type, seq |-> ctlSeq, attempt |-> Attempt,
                         off |-> off, n |-> n]}
<1> DEFINE f == [type |-> type, seq |-> ctlSeq, attempt |-> Attempt,
                 off |-> off, n |-> n]
<1>1. f \in Frames /\ (frames' = Append(frames, f) \/ frames' = frames)
  BY SendAppends
<1> HIDE DEF f
<1>2. frames \in Seq(Frames)
  BY DEF StreamTypeOK
<1>3. CASE frames' = Append(frames, f)
  <2>1. Elements(frames') = Elements(frames) \cup {f}
    BY <1>1, <1>2, <1>3, ElementsOf
  <2>2. QED BY <2>1 DEF Queued, f
<1>4. CASE frames' = frames
  BY <1>4 DEF Queued
<1>5. QED BY <1>1, <1>3, <1>4

(* A stray frame that is queued is of another attempt. *)
LEMMA StrayQueues ==
  ASSUME StreamTypeOK, NEW type \in FrameTypes, NEW seq \in Nat,
         StrayFrame(type, seq)
  PROVE  \A f \in Queued' : f \in Queued \/ f.attempt = OtherAttempt
<1>1. PICK f \in Frames : f.attempt = OtherAttempt /\ frames' = Append(frames, f)
  BY StrayTypes
<1>2. frames \in Seq(Frames)
  BY DEF StreamTypeOK
<1>3. Elements(frames') = Elements(frames) \cup {f}
  BY <1>1, <1>2, ElementsOf
<1>4. QED BY <1>1, <1>3 DEF Queued

(* A frame published again adds nothing to the set of those queued. *)
LEMMA DuplicateQueues ==
  ASSUME StreamTypeOK, DuplicateFrame
  PROVE  Queued' = Queued
<1>1. PICK i \in 1..Len(frames) : frames' = Append(frames, frames[i])
  BY DuplicateTypes
<1>2. frames \in Seq(Frames)
  BY DEF StreamTypeOK
<1>3. frames[i] \in Frames /\ i \in DOMAIN frames
  BY <1>1, <1>2, ElementOfSeq, LenProperties
<1>4. Elements(frames') = Elements(frames) \cup {frames[i]}
  BY <1>1, <1>2, <1>3, ElementsOf
<1>5. frames[i] \in Elements(frames)
  BY <1>3 DEF Elements
<1>6. QED BY <1>4, <1>5 DEF Queued

(* The frame that is taken was queued, and no other is added. *)
LEMMA TakeQueues ==
  ASSUME StreamTypeOK, TakeFrame
  PROVE  Queued \subseteq Frames /\ Queued' \subseteq Queued /\ Frame \in Queued
<1>1. frames \in Seq(Frames) /\ frames # <<>> /\ frames' = Tail(frames)
  BY TakeFrameTypes
<1>2. QED BY <1>1, ElementsOf DEF Queued, Frame

-----------------------------------------------------------------------------
(* Download credit. *)

(* The bytes of credit in f that a validator may yet take, each known by the *)
(* number of its frame: a duplicate of f is credit for the same bytes.       *)
CreditOf(f, expected) ==
  IF f.type = "credit" /\ f.attempt = Attempt /\ f.seq >= expected
  THEN {f.seq} \X (1..f.n) ELSE {}

CreditQueued == UNION {CreditOf(f, validator.expectedSeq) : f \in Queued}

(* What the request has taken and may yet take was granted by Control.       *)
CreditInv ==
  /\ validator.attempt = Attempt
  /\ IsFiniteSet(CreditQueued)
  /\ taken + Cardinality(CreditQueued) <= granted

(* A credit frame still to come stands for as many units as it has bytes. *)
LEMMA CreditOfCount ==
  ASSUME NEW f \in Frames, f.type = "credit", f.attempt = Attempt,
         NEW expected \in Nat, f.seq >= expected
  PROVE  IsFiniteSet(CreditOf(f, expected)) /\ Cardinality(CreditOf(f, expected)) = f.n
<1> DEFINE n == f.n
           row == {f.seq} \X (1..n)
<1>1. n \in Nat
  BY DEF Frames
<1>2. CreditOf(f, expected) = row
  BY DEF CreditOf
<1> HIDE DEF n
<1>3. IsFiniteSet({f.seq}) /\ Cardinality({f.seq}) = 1
  BY FS_Singleton
<1>4. IsFiniteSet(1..n) /\ Cardinality(1..n) = n
  BY <1>1, FS_Interval
<1>5. IsFiniteSet(row) /\ Cardinality(row) = Cardinality({f.seq}) * Cardinality(1..n)
  BY <1>3, <1>4, FS_Product
<1>6. 1 * n = n
  BY <1>1
<1>7. QED BY <1>2, <1>3, <1>4, <1>5, <1>6 DEF n

(* Nothing is granted and nothing taken when the stream starts. *)
LEMMA CreditInit ==
  ASSUME NEW seq \in Nat, NEW v, v.attempt = Attempt, StreamInit(seq, v)
  PROVE  CreditInv
<1>1. frames = <<>> /\ taken = 0 /\ granted = 0 /\ validator.attempt = Attempt
  BY DEF StreamInit
<1>2. CreditQueued = {}
  BY <1>1 DEF CreditQueued, Queued, Elements
<1>3. QED BY <1>1, <1>2, FS_EmptySet DEF CreditInv

(* Steps that grant nothing and take no credit. *)
LEMMA CreditShrinks ==
  ASSUME StreamTypeOK, CreditInv, CreditQueued' \subseteq CreditQueued,
         taken' = taken, granted' = granted, validator' = validator
  PROVE  CreditInv'
<1>1. IsFiniteSet(CreditQueued)
  BY DEF CreditInv
<1>2. IsFiniteSet(CreditQueued') /\ Cardinality(CreditQueued') <= Cardinality(CreditQueued)
  BY <1>1, FS_Subset
<1>3. Cardinality(CreditQueued) \in Nat /\ Cardinality(CreditQueued') \in Nat
  BY <1>1, <1>2, FS_CardinalityType
<1>4. QED BY <1>2, <1>3 DEF CreditInv, StreamTypeOK

(* A frame that is not credit grants nothing. *)
LEMMA CreditSend ==
  ASSUME StreamTypeOK, CreditInv, NEW type \in FrameTypes \ {"credit"},
         NEW n \in Nat, Uploads(type, n) \/ Says(type)
  PROVE  CreditInv'
<1>1. /\ \E off, k \in Nat : Send(type, off, k)
      /\ taken' = taken /\ granted' = granted /\ validator' = validator
  BY DEF Uploads, Says, Send, StreamTypeOK
<1>2. \A f \in Queued' : f \in Queued \/ f.type # "credit"
  BY <1>1, SendQueues
<1>3. CreditQueued' \subseteq CreditQueued
  BY <1>1, <1>2 DEF CreditQueued, CreditOf
<1>4. QED BY <1>1, <1>3, CreditShrinks

(* A stray or repeated frame brings no credit that was not granted. *)
LEMMA CreditNoise ==
  ASSUME StreamTypeOK, CreditInv, NEW type \in FrameTypes, NEW seq \in Nat,
         StrayFrame(type, seq) \/ DuplicateFrame
  PROVE  CreditInv'
<1>1. taken' = taken /\ granted' = granted /\ validator' = validator
  BY DEF StrayFrame, DuplicateFrame, Noise
<1>2. \A f \in Queued' : f \in Queued \/ f.attempt = OtherAttempt
  BY StrayQueues, DuplicateQueues
<1>3. CreditQueued' \subseteq CreditQueued
  BY <1>1, <1>2 DEF CreditQueued, CreditOf, Attempt, OtherAttempt
<1>4. QED BY <1>1, <1>3, CreditShrinks

(* Neither does time. *)
LEMMA CreditTime ==
  ASSUME CreditInv, UNCHANGED <<frames, validator, taken, granted>>
  PROVE  CreditInv'
BY DEF CreditInv, CreditQueued, Queued

(* A frame that is refused is not credited. *)
LEMMA CreditRefused ==
  ASSUME StreamTypeOK, CreditInv, RefuseFrame
  PROVE  CreditInv'
<1>1. taken' = taken /\ granted' = granted /\ validator' = validator
  BY DEF RefuseFrame, TakeFrame, ctlVars
<1>2. Queued' \subseteq Queued
  BY TakeQueues DEF RefuseFrame
<1>3. CreditQueued' \subseteq CreditQueued
  BY <1>1, <1>2 DEF CreditQueued
<1>4. QED BY <1>1, <1>3, CreditShrinks

(* A grant, whether the wire delivers it or not. *)
LEMMA CreditGranted ==
  ASSUME StreamTypeOK, CreditInv, NEW n \in Nat, Grants(n)
  PROVE  CreditInv'
<1> DEFINE f == [type |-> "credit", seq |-> ctlSeq, attempt |-> Attempt,
                 off |-> 0, n |-> n]
           e == validator.expectedSeq
           C == CreditQueued
           D == CreditOf(f, e)
<1>1. Send("credit", 0, n) /\ "credit" \in FrameTypes
  BY DEF Grants, FrameTypes
<1>2. Queued' \subseteq Queued \cup {f} /\ f \in Frames
  BY <1>1, SendQueues, SendAppends
<1>3. taken' = taken /\ granted' = granted + n /\ validator' = validator
  BY DEF Grants, Send
<1>4. CreditQueued' \subseteq C \cup D
  <2> HIDE DEF f
  <2>1. QED BY <1>2, <1>3 DEF CreditQueued
<1>5. IsFiniteSet(D) /\ Cardinality(D) <= n /\ Cardinality(D) \in Nat
  <2>1. e \in Nat
    BY DEF StreamTypeOK, Validators
  <2>2. CASE f.seq >= e
    BY <1>2, <2>1, <2>2, CreditOfCount
  <2>3. CASE ~(f.seq >= e)
    <3>1. D = {}
      BY <2>3 DEF CreditOf
    <3>2. QED BY <3>1, FS_EmptySet
  <2>4. QED BY <2>2, <2>3
<1>6. IsFiniteSet(C) /\ Cardinality(C) \in Nat
  BY FS_CardinalityType DEF CreditInv
<1> HIDE DEF C, D, e, f
<1>7. /\ IsFiniteSet(C \cup D)
      /\ Cardinality(C \cup D) = Cardinality(C) + Cardinality(D) - Cardinality(C \cap D)
  BY <1>5, <1>6, FS_Union
<1>8. Cardinality(C \cap D) \in Nat
  <2>1. IsFiniteSet(C \cap D)
    BY <1>5, FS_Intersection
  <2>2. QED BY <2>1, FS_CardinalityType
<1>9. IsFiniteSet(CreditQueued') /\ Cardinality(CreditQueued') <= Cardinality(C \cup D)
  BY <1>4, <1>7, FS_Subset
<1>10. Cardinality(CreditQueued') \in Nat
  BY <1>9, FS_CardinalityType
<1>11. taken \in Nat /\ granted \in Nat /\ taken + Cardinality(C) <= granted
  BY DEF StreamTypeOK, CreditInv, C
<1>12. taken + Cardinality(CreditQueued') <= granted + n
  BY <1>5, <1>6, <1>7, <1>8, <1>9, <1>10, <1>11
<1>13. QED BY <1>3, <1>9, <1>12 DEF CreditInv

(* A frame that is accepted is not taken again. *)
LEMMA CreditAccepted ==
  ASSUME StreamTypeOK, CreditInv, NEW types, AcceptFrame(types)
  PROVE  CreditInv'
<1> DEFINE e == validator.expectedSeq
           C == CreditQueued
           D == CreditOf(Frame, e)
           n == IF Frame.type = "credit" THEN Frame.n ELSE 0
<1>1. /\ Frame \in Frames /\ Frame.attempt = validator.attempt
      /\ Frame.seq = e
      /\ validator'.attempt = validator.attempt
      /\ validator'.expectedSeq = e + 1
      /\ taken' = taken + n
  BY AcceptAdvances
<1>2. Queued' \subseteq Queued /\ Frame \in Queued /\ Queued \subseteq Frames
  BY TakeQueues DEF AcceptFrame
<1>3. e \in Nat /\ validator.attempt = Attempt /\ granted' = granted
  BY DEF StreamTypeOK, Validators, CreditInv, AcceptFrame, TakeFrame, ctlVars
<1>4. IsFiniteSet(D) /\ Cardinality(D) = n /\ n \in Nat
  <2>1. CASE Frame.type = "credit"
    <3>1. Frame.seq >= e
      BY <1>1, <1>3
    <3>2. QED BY <1>1, <1>3, <2>1, <3>1, CreditOfCount DEF Frames
  <2>2. CASE Frame.type # "credit"
    <3>1. D = {}
      BY <2>2 DEF CreditOf
    <3>2. QED BY <2>2, <3>1, FS_EmptySet
  <2>3. QED BY <2>1, <2>2
<1>5. D \subseteq C
  BY <1>2 DEF CreditQueued
<1>6. CreditQueued' \subseteq C \ D
  <2>1. SUFFICES ASSUME NEW f \in Queued, NEW u \in CreditOf(f, e + 1)
                 PROVE  u \in C \ D
    BY <1>1, <1>2 DEF CreditQueued
  <2>2. f.seq \in Nat /\ f.seq >= e + 1 /\ u \in CreditOf(f, e) /\ u[1] = f.seq
    BY <1>2, <1>3 DEF CreditOf, Frames
  <2>3. u \in C
    BY <2>2 DEF CreditQueued
  <2>4. u \notin D
    BY <1>1, <1>3, <2>2 DEF CreditOf
  <2>5. QED BY <2>3, <2>4
<1>7. IsFiniteSet(C) /\ Cardinality(C) \in Nat /\ taken + Cardinality(C) <= granted
  BY FS_CardinalityType DEF CreditInv
<1> HIDE DEF C, D, e, n
<1>8. IsFiniteSet(C \ D) /\ Cardinality(C \ D) = Cardinality(C) - Cardinality(C \cap D)
  BY <1>7, FS_Difference
<1>9. C \cap D = D
  BY <1>5
<1>10. IsFiniteSet(CreditQueued') /\ Cardinality(CreditQueued') <= Cardinality(C \ D)
  BY <1>6, <1>8, FS_Subset
<1>11. Cardinality(CreditQueued') \in Nat
  BY <1>10, FS_CardinalityType
<1>12. taken \in Nat /\ granted \in Nat
  BY DEF StreamTypeOK
<1>13. Cardinality(C \ D) = Cardinality(C) - n
  BY <1>4, <1>8, <1>9
<1>14. taken' + Cardinality(CreditQueued') <= granted
  BY <1>1, <1>4, <1>7, <1>10, <1>11, <1>12, <1>13
<1>15. QED BY <1>1, <1>3, <1>10, <1>14 DEF CreditInv

-----------------------------------------------------------------------------
(* What holds of the stream whoever takes its frames. *)

StreamOK == StreamTypeOK /\ CreditInv

(* A step of the owner of the stream: it takes a frame, or none. *)
OwnerStep ==
  /\ \/ RefuseFrame
     \/ \E types \in SUBSET FrameTypes : AcceptFrame(types)
     \/ UNCHANGED <<ctlVars, queueVars, hasDeadline>>
  /\ ctxDone' \in BOOLEAN

(* Whatever the owner of the stream does with its frames, the stream is sound. *)
LEMMA OwnerKeepsStream ==
  ASSUME StreamOK, OwnerStep
  PROVE  StreamOK'
<1>1. CASE RefuseFrame
  BY <1>1, RefuseTypes, CreditRefused DEF StreamOK, OwnerStep
<1>2. CASE \E types \in SUBSET FrameTypes : AcceptFrame(types)
  BY <1>2, AcceptTypes, CreditAccepted DEF StreamOK, OwnerStep
<1>3. CASE UNCHANGED <<ctlVars, queueVars, hasDeadline>>
  <2>1. StreamTypeOK'
    BY <1>3 DEF StreamOK, StreamTypeOK, OwnerStep, ctlVars, queueVars
  <2>2. CreditInv'
    BY <1>3, CreditTime DEF StreamOK, ctlVars, queueVars
  <2>3. QED BY <2>1, <2>2 DEF StreamOK
<1>4. QED BY <1>1, <1>2, <1>3 DEF OwnerStep

(* So no more credit is ever taken than was granted: a grant that the wire  *)
(* delivers twice counts once.                                              *)
LEMMA TakenWithinGranted == StreamOK => taken <= granted
<1> SUFFICES ASSUME StreamOK PROVE taken <= granted
  OBVIOUS
<1>1. Cardinality(CreditQueued) \in Nat
  BY FS_CardinalityType DEF StreamOK, CreditInv
<1>2. QED BY <1>1 DEF StreamOK, StreamTypeOK, CreditInv
=============================================================================
