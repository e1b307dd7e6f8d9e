-------------------------- MODULE CreditGateProofs --------------------------
(***************************************************************************)
(* What the sum of a sequence is when the sequence grows or shrinks, and   *)
(* what each operation of responseCreditGate does to the credit in it.     *)
(***************************************************************************)
EXTENDS CreditGate, SequenceTheorems, FiniteSetTheorems, TLAPS

-----------------------------------------------------------------------------
(* Sums. *)

(* The units of the first n numbers of a sequence. *)
Below(s, n) == UNION {{i} \X (1..s[i]) : i \in 1..n}

(* A unit of a sum is one position and one of its bytes. *)
LEMMA UnitsIn ==
  ASSUME NEW s \in Seq(Nat), NEW u
  PROVE  /\ u \in Units(s) <=> \E i \in 1..Len(s) : \E k \in 1..s[i] : u = <<i, k>>
         /\ \A n \in Nat : u \in Below(s, n)
              <=> \E i \in 1..n : \E k \in 1..s[i] : u = <<i, k>>
BY LenProperties DEF Units, Below

(* There are finitely many of them. *)
LEMMA UnitsFinite ==
  ASSUME NEW s \in Seq(Nat)
  PROVE  IsFiniteSet(Units(s))
<1> DEFINE Bad == {n \in 0..Len(s) : ~IsFiniteSet(Below(s, n))}
<1>1. Len(s) \in Nat /\ DOMAIN s = 1..Len(s) /\ \A i \in 1..Len(s) : s[i] \in Nat
  BY LenProperties
<1>2. Bad = {}
  <2> SUFFICES ASSUME Bad # {} PROVE FALSE
    OBVIOUS
  <2>1. Bad \subseteq Nat
    BY <1>1
  <2>2. PICK n \in Bad : \A m \in Bad : ~(<<m, n>> \in OpToRel(<, Nat))
    <3> HIDE DEF Bad
    <3>1. QED BY <2>1, WFMin, NatLessThanWellFounded, Zenon
  <2>3. \A m \in Bad : ~(m < n)
    BY <2>1, <2>2 DEF OpToRel
  <2>4. n \in 0..Len(s) /\ ~IsFiniteSet(Below(s, n))
    OBVIOUS
  <2>5. n # 0
    <3>1. Below(s, 0) = {}
      BY DEF Below
    <3>2. QED BY <2>4, <3>1, FS_EmptySet
  <2>6. n - 1 \in 0..Len(s) /\ n \in 1..Len(s) /\ n - 1 < n
    BY <1>1, <2>4, <2>5
  <2>7. IsFiniteSet(Below(s, n - 1))
    BY <2>3, <2>6
  <2>8. IsFiniteSet({n} \X (1..s[n]))
    <3>1. IsFiniteSet({n})
      BY FS_Singleton
    <3>2. IsFiniteSet(1..s[n])
      BY <1>1, <2>6, FS_Interval
    <3>3. QED BY <3>1, <3>2, FS_Product
  <2>9. Below(s, n) = Below(s, n - 1) \cup ({n} \X (1..s[n]))
    <3>1. ASSUME NEW u
          PROVE  u \in Below(s, n) <=> u \in Below(s, n - 1) \/ u \in {n} \X (1..s[n])
      <4>1. \A i : i \in 1..n <=> i \in 1..(n - 1) \/ i = n
        BY <1>1, <2>6
      <4>2. QED BY <4>1 DEF Below
    <3> HIDE DEF Bad
    <3>2. QED BY <3>1, Zenon
  <2>10. IsFiniteSet(Below(s, n - 1) \cup ({n} \X (1..s[n])))
    BY <2>7, <2>8, FS_Union, Zenon
  <2>11. IsFiniteSet(Below(s, n))
    BY <2>9, <2>10, Zenon
  <2>12. QED BY <2>4, <2>11
<1>3. Units(s) = Below(s, Len(s))
  BY <1>1 DEF Units, Below
<1>4. QED BY <1>1, <1>2, <1>3

(* The bytes of a sequence of amounts are a number. *)
LEMMA TotalType ==
  ASSUME NEW s \in Seq(Nat)
  PROVE  Total(s) \in Nat
BY UnitsFinite, FS_CardinalityType DEF Total

(* No amounts, no bytes. *)
LEMMA TotalEmpty == Total(<<>>) = 0
<1>1. Units(<<>>) = {}
  BY DEF Units
<1>2. QED BY <1>1, FS_EmptySet DEF Total

(* One number is its own sum. *)
LEMMA RowTotal ==
  ASSUME NEW n \in Nat, NEW i
  PROVE  IsFiniteSet({i} \X (1..n)) /\ Cardinality({i} \X (1..n)) = n
<1>1. IsFiniteSet({i}) /\ Cardinality({i}) = 1
  BY FS_Singleton
<1>2. IsFiniteSet(1..n) /\ Cardinality(1..n) = n
  BY FS_Interval
<1>3. /\ IsFiniteSet({i} \X (1..n))
      /\ Cardinality({i} \X (1..n)) = Cardinality({i}) * Cardinality(1..n)
  BY <1>1, <1>2, FS_Product
<1>4. 1 * n = n
  OBVIOUS
<1>5. QED BY <1>1, <1>2, <1>3, <1>4

(* A number appended is added. *)
LEMMA TotalAppend ==
  ASSUME NEW s \in Seq(Nat), NEW n \in Nat
  PROVE  Total(Append(s, n)) = Total(s) + n
<1> DEFINE a == Append(s, n)
           row == {Len(s) + 1} \X (1..n)
<1>1. /\ a \in Seq(Nat) /\ Len(a) = Len(s) + 1 /\ Len(s) \in Nat
      /\ \A i \in 1..Len(s) : a[i] = s[i]
      /\ a[Len(s) + 1] = n
      /\ DOMAIN s = 1..Len(s) /\ DOMAIN a = 1..Len(a)
  BY AppendProperties, LenProperties
<1> HIDE DEF a
<1>2. DOMAIN a = DOMAIN s \cup {Len(s) + 1}
  BY <1>1
<1>3. Units(a) = Units(s) \cup row
  BY <1>1, <1>2 DEF Units
<1>4. Units(s) \cap row = {}
  BY <1>1 DEF Units
<1>5. IsFiniteSet(row) /\ Cardinality(row) = n
  BY RowTotal
<1>6. Cardinality(Units(s) \cup row) = Cardinality(Units(s)) + n
  <2> HIDE DEF row
  <2>1. IsFiniteSet(Units(s)) /\ Cardinality(Units(s)) \in Nat
    BY UnitsFinite, FS_CardinalityType
  <2>2. Cardinality(Units(s) \cup row)
          = Cardinality(Units(s)) + Cardinality(row) - Cardinality(Units(s) \cap row)
    BY <1>5, <2>1, FS_Union
  <2>3. Cardinality(Units(s) \cap row) = 0
    BY <1>4, FS_EmptySet, Zenon
  <2>4. QED BY <1>5, <2>1, <2>2, <2>3
<1>7. QED BY <1>3, <1>6 DEF Total, a

(* The first number of a sequence and the rest of it. *)
LEMMA TotalTail ==
  ASSUME NEW s \in Seq(Nat), s # <<>>
  PROVE  /\ Tail(s) \in Seq(Nat) /\ Head(s) \in Nat
         /\ Total(s) = Head(s) + Total(Tail(s))
<1> DEFINE t == Tail(s)
           row == {1} \X (1..Head(s))
           rest == Units(s) \ row
<1>1. /\ t \in Seq(Nat) /\ Len(t) = Len(s) - 1 /\ Len(s) \in Nat \ {0}
      /\ \A i \in 1..Len(t) : t[i] = s[i + 1]
      /\ Head(s) = s[1] /\ s[1] \in Nat
      /\ DOMAIN s = 1..Len(s) /\ DOMAIN t = 1..Len(t)
  BY HeadTailProperties, LenProperties, EmptySeq
<1> HIDE DEF t
<1>2. row \subseteq Units(s)
  BY <1>1 DEF Units
<1>3. IsFiniteSet(row) /\ Cardinality(row) = Head(s)
  BY <1>1, RowTotal
<1>4. \A i, k : <<i, k>> \in Units(t) <=> i \in 1..Len(t) /\ k \in 1..t[i]
  BY <1>1 DEF Units
<1>5. \A i, k : <<i, k>> \in rest <=> i \in 2..Len(s) /\ k \in 1..s[i]
  BY <1>1 DEF Units
<1>6. \A u \in Units(t) : \E i \in 1..Len(t) : \E k \in 1..t[i] : u = <<i, k>>
  <2> SUFFICES ASSUME NEW u \in Units(t)
               PROVE  \E i \in 1..Len(t) : \E k \in 1..t[i] : u = <<i, k>>
    OBVIOUS
  <2>1. t \in Seq(Nat)
    BY <1>1
  <2>2. QED BY <2>1, UnitsIn
<1>7. \A u \in rest : \E i \in 2..Len(s) : \E k \in Nat : u = <<i, k>>
  BY <1>1 DEF Units
<1>8. ExistsBijection(Units(t), rest)
  <2> DEFINE f == [u \in Units(t) |-> <<u[1] + 1, u[2]>>]
  <2>1. f \in [Units(t) -> rest]
    <3>1. ASSUME NEW u \in Units(t) PROVE <<u[1] + 1, u[2]>> \in rest
      <4>1. PICK i \in 1..Len(t) : \E k \in 1..t[i] : u = <<i, k>>
        BY <1>6
      <4>2. PICK k \in 1..t[i] : u = <<i, k>>
        BY <4>1
      <4>3. i + 1 \in 2..Len(s) /\ k \in 1..s[i + 1]
        BY <1>1
      <4>4. <<i + 1, k>> \in rest
        BY <1>5, <4>3
      <4>5. QED BY <4>2, <4>4
    <3>2. QED BY <3>1
  <2>2. \A u, v \in Units(t) : f[u] = f[v] => u = v
    BY <1>6
  <2>3. \A w \in rest : \E u \in Units(t) : f[u] = w
    <3> SUFFICES ASSUME NEW w \in rest PROVE \E u \in Units(t) : f[u] = w
      OBVIOUS
    <3>1. PICK i \in 2..Len(s) : \E k \in Nat : w = <<i, k>>
      BY <1>7
    <3>2. PICK k \in Nat : w = <<i, k>>
      BY <3>1
    <3>3. k \in 1..s[i] /\ i - 1 \in 1..Len(t) /\ t[i - 1] = s[i]
      <4>1. <<i, k>> \in rest
        BY <3>2
      <4>2. k \in 1..s[i]
        BY <1>5, <4>1
      <4>3. i - 1 \in 1..Len(t) /\ i - 1 + 1 = i
        BY <1>1
      <4>4. QED BY <1>1, <4>2, <4>3
    <3>4. <<i - 1, k>> \in Units(t)
      BY <1>4, <3>3
    <3>5. f[<<i - 1, k>>] = w
      BY <3>2, <3>4
    <3>6. QED BY <3>4, <3>5
  <2> HIDE DEF f
  <2>4. f \in Bijection(Units(t), rest)
    BY <2>1, <2>2, <2>3 DEF Bijection, Injection, Surjection, IsInjective
  <2>5. QED BY <2>4 DEF ExistsBijection
<1>9. IsFiniteSet(rest) /\ Cardinality(rest) = Cardinality(Units(t))
  BY <1>1, <1>8, UnitsFinite, FS_Bijection
<1>10. Units(s) = row \cup rest /\ row \cap rest = {}
  BY <1>2
<1> HIDE DEF row, rest
<1>11. Cardinality(Units(s)) = Cardinality(row) + Cardinality(rest) - Cardinality(row \cap rest)
  BY <1>3, <1>9, <1>10, FS_Union
<1>12. Cardinality(row \cap rest) = 0
  BY <1>10, FS_EmptySet, Zenon
<1>13. Total(t) \in Nat
  BY <1>1, TotalType
<1>14. QED BY <1>1, <1>3, <1>9, <1>11, <1>12, <1>13 DEF Total, t

-----------------------------------------------------------------------------
(* The gate. *)

Gates == [limited : BOOLEAN, credit : Nat, grants : Seq(Nat)]

(* What a gate still allows is a number, of which its credit is a part. *)
LEMMA UnusedType ==
  ASSUME NEW g \in Gates
  PROVE  Unused(g) \in Nat /\ g.credit <= Unused(g)
BY TotalType DEF Gates, Unused

(* A new gate allows what the assignment grants, and limits nothing for 0. *)
LEMMA NewGateHolds ==
  ASSUME NEW initial \in Nat
  PROVE  /\ NewGate(initial) \in Gates
         /\ NewGate(initial).limited <=> initial > 0
         /\ Unused(NewGate(initial)) = initial
<1>1. NewGate(initial) \in Gates
  BY EmptySeq DEF NewGate, Gates
<1>2. /\ NewGate(initial).limited <=> initial > 0
      /\ NewGate(initial).credit = initial
      /\ NewGate(initial).grants = <<>>
  BY DEF NewGate
<1>3. QED BY <1>1, <1>2, TotalEmpty DEF Unused

(* What is granted is added to the unused credit. *)
LEMMA GrantAdds ==
  ASSUME NEW g \in Gates, NEW n \in Nat
  PROVE  /\ Grant(g, n) \in Gates
         /\ Grant(g, n).limited = g.limited
         /\ Unused(Grant(g, n)) = Unused(g) + n
<1>1. g.grants \in Seq(Nat) /\ g.credit \in Nat
  BY DEF Gates
<1>2. /\ Append(g.grants, n) \in Seq(Nat)
      /\ Total(Append(g.grants, n)) = Total(g.grants) + n
  BY <1>1, AppendProperties, TotalAppend
<1>3. Grant(g, n) \in Gates
  BY <1>2 DEF Grant, Gates
<1>4. /\ Grant(g, n).limited = g.limited /\ Grant(g, n).credit = g.credit
      /\ Grant(g, n).grants = Append(g.grants, n)
  BY DEF Grant, Gates
<1>5. Total(g.grants) \in Nat
  BY <1>1, TotalType
<1>6. QED BY <1>1, <1>2, <1>3, <1>4, <1>5 DEF Unused

(* A grant that is received moves from the channel to the credit. *)
LEMMA TakeGrantMoves ==
  ASSUME NEW g \in Gates, g.grants # <<>>
  PROVE  /\ TakeGrant(g) \in Gates
         /\ TakeGrant(g).limited = g.limited
         /\ Unused(TakeGrant(g)) = Unused(g)
<1>1. g.grants \in Seq(Nat) /\ g.credit \in Nat
  BY DEF Gates
<1>2. /\ Tail(g.grants) \in Seq(Nat) /\ Head(g.grants) \in Nat
      /\ Total(g.grants) = Head(g.grants) + Total(Tail(g.grants))
  BY <1>1, TotalTail
<1>3. TakeGrant(g) \in Gates
  <2> DEFINE c == g.credit + Head(g.grants)
             r == Tail(g.grants)
  <2>1. c \in Nat /\ r \in Seq(Nat)
    BY <1>1, <1>2
  <2>2. TakeGrant(g) = [g EXCEPT !.credit = c, !.grants = r]
    BY DEF TakeGrant
  <2> HIDE DEF c, r
  <2>3. QED BY <2>1, <2>2 DEF Gates
<1>4. /\ TakeGrant(g).limited = g.limited
      /\ TakeGrant(g).credit = g.credit + Head(g.grants)
      /\ TakeGrant(g).grants = Tail(g.grants)
  BY DEF TakeGrant, Gates
<1>5. Total(Tail(g.grants)) \in Nat
  BY <1>2, TotalType
<1>6. QED BY <1>1, <1>2, <1>3, <1>4, <1>5 DEF Unused

(* takeAvailable returns at least one byte and no more than was asked for,  *)
(* and what it returns is taken from credit that is there.                  *)
LEMMA SpendTakes ==
  ASSUME NEW g \in Gates, ~MustWait(g), NEW limit \in Nat \ {0}
  PROVE  LET n == Available(g, limit)
         IN /\ n \in 1..limit
            /\ Spend(g, n) \in Gates
            /\ Spend(g, n).limited = g.limited
            /\ g.limited => Unused(Spend(g, n)) = Unused(g) - n /\ n <= Unused(g)
<1> DEFINE n == Available(g, limit)
<1>1. g.grants \in Seq(Nat) /\ g.credit \in Nat /\ g.limited \in BOOLEAN
  BY DEF Gates
<1>2. n \in 1..limit /\ (g.limited => n <= g.credit)
  BY <1>1 DEF MustWait, Available
<1>3. Total(g.grants) \in Nat
  BY <1>1, TotalType
<1> HIDE DEF n
<1>4. CASE ~g.limited
  <2>1. Spend(g, n) = g
    BY <1>4 DEF Spend
  <2>2. QED BY <1>2, <1>4, <2>1 DEF n
<1>5. CASE g.limited
  <2>1. Spend(g, n) = [g EXCEPT !.credit = @ - n]
    BY <1>5 DEF Spend
  <2>2. g.credit - n \in Nat
    BY <1>1, <1>2, <1>5
  <2>3. Spend(g, n) \in Gates
    BY <2>1, <2>2 DEF Gates
  <2>4. /\ Spend(g, n).limited = g.limited
        /\ Spend(g, n).credit = g.credit - n
        /\ Spend(g, n).grants = g.grants
    BY <2>1 DEF Gates
  <2>5. Unused(Spend(g, n)) = Unused(g) - n /\ n <= Unused(g)
    BY <1>1, <1>2, <1>3, <1>5, <2>4 DEF Unused
  <2>6. QED BY <1>2, <2>3, <2>4, <2>5 DEF n
<1>6. QED BY <1>1, <1>4, <1>5
=============================================================================
