----------------------------- MODULE CreditGate -----------------------------
(***************************************************************************)
(* responseCreditGate (src/egress/assignment.go): the download credit of a *)
(* response.  One goroutine puts the credit that Control grants into a     *)
(* bounded channel; another one, which publishes the response, takes it    *)
(* out when its own credit is used up.  An initial credit of 0 makes the   *)
(* gate nil, which stands for no limit at all.                             *)
(***************************************************************************)
EXTENDS Naturals, Sequences, FiniteSets

CONSTANT GrantsBuffer   \* streamFrameChannelBuffer, the size of the channel

NewGate(initial) ==
  [limited |-> initial > 0, credit |-> initial, grants |-> <<>>]

(* grant returns at once: there is no gate, or nothing is granted. *)
GrantIsVoid(g, bytes) == ~g.limited \/ bytes = 0

(* The send on the channel does not block. *)
CanGrant(g) == Len(g.grants) < GrantsBuffer

(* Fault: the grant is dropped. *)
GrantDropped(g, bytes) == g

Grant(g, bytes) == [g EXCEPT !.grants = Append(@, bytes)]

(* Fault: the loop that waits for credit is missing. *)
MustWaitDropped(g) == FALSE

(* takeAvailable waits for a grant or for the end of the context. *)
MustWait(g) == g.limited /\ g.credit = 0

TakeGrant(g) == [g EXCEPT !.credit = @ + Head(g.grants),
                          !.grants = Tail(@)]

(* Fault: the whole chunk goes out on the last of the credit. *)
AvailableUnbounded(g, limit) == limit

(* What takeAvailable returns: with less credit than asked for, one byte. *)
Available(g, limit) == IF g.limited /\ g.credit < limit THEN 1 ELSE limit

Spend(g, n) == IF g.limited THEN [g EXCEPT !.credit = @ - n] ELSE g

(* The sum of a sequence of numbers, counted unit by unit. *)
Units(s) == UNION {{i} \X (1..s[i]) : i \in DOMAIN s}
Total(s) == Cardinality(Units(s))

(* The credit that has been granted and not been used. *)
Unused(g) == g.credit + Total(g.grants)
=============================================================================
