------------------------------- MODULE BodyRef -------------------------------
(***************************************************************************)
(* HTTPBodyRefResolver (src/egress/bodyref.go): the download of a request  *)
(* body that Control has stored and refers to.  What the store returns     *)
(* need not be what Control stored; the expected size and the checksum of  *)
(* the frame, either of which it may lack, are what it is compared with.   *)
(***************************************************************************)
EXTENDS Naturals, Sequences

CONSTANTS
  RefSized,    \* the frame has an expected_size_bytes
  RefHashed    \* the frame has a sha256_hex

ASSUME BodyRefAssumption == RefSized \in BOOLEAN /\ RefHashed \in BOOLEAN

(* A byte that Control did not store. *)
Foreign == <<0, 0>>

(* What the store may return for the body that Control stored: the same,    *)
(* with its last byte missing or another one added, or something else.      *)
Objects(stored) ==
  {stored, SubSeq(stored, 1, Len(stored) - 1), Append(stored, Foreign),
   [i \in DOMAIN stored |-> Foreign]}

ExpectedSize(stored) == IF RefSized THEN Len(stored) ELSE 0

(* fetch reads one byte more than it expects, so as to notice a longer body. *)
Fetch(stored, object) ==
  LET limit == ExpectedSize(stored) + 1
  IN IF Len(object) <= limit THEN object ELSE SubSeq(object, 1, limit)

(* Fault: nothing is compared. *)
VerifyNothing(stored, body) == TRUE

(* verifyBodyRef *)
Verify(stored, body) ==
  /\ ExpectedSize(stored) > 0 \/ RefHashed => Len(body) = ExpectedSize(stored)
  /\ RefHashed => body = stored

(* What DownloadBodyRef may return when it does not fail. *)
Downloads(stored) ==
  {body \in {Fetch(stored, object) : object \in Objects(stored)} :
     Verify(stored, body)}
=============================================================================
