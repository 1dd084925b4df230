------------------------- MODULE TemporalInduction -------------------------
(***************************************************************************)
(* Induction over the natural numbers for a formula P(d, n), by which the  *)
(* liveness proofs drain a queue, a list of calls or a set of connections  *)
(* of any length: P(d, n) says that n of them will be gone.  A module that *)
(* needs it names its formula and instantiates P with it.  The formula may *)
(* be a temporal one, since nothing here depends on P but its truth for    *)
(* each d and n; so the proofs below say nothing of P that only a state    *)
(* formula can bear, such as its being the value of an expression.         *)
(***************************************************************************)
EXTENDS Naturals, NaturalsInduction, WellFoundedInduction, TLAPS

CONSTANT P(_, _)

(* A set of numbers with 0 and the successor of each of its members has    *)
(* them all, the natural order being well founded.                         *)
LEMMA SetInduction ==
  ASSUME NEW S, 0 \in S, \A n \in Nat : n \in S => n + 1 \in S
  PROVE  Nat \subseteq S
<1>1. SUFFICES ASSUME Nat \ S # {} PROVE FALSE
  OBVIOUS
<1>2. PICK x \in Nat \ S : \A y \in Nat \ S : ~ (<<y, x>> \in OpToRel(<, Nat))
  BY <1>1, WFMin, NatLessThanWellFounded
<1>3. x # 0 /\ x - 1 \in Nat /\ x - 1 < x
  OBVIOUS
<1>4. <<x - 1, x>> \in OpToRel(<, Nat)
  BY <1>3 DEF OpToRel
<1>5. x - 1 \in S
  BY <1>2, <1>3, <1>4
<1> QED
  BY <1>3, <1>5

(* The same of a function whose values are truth values. *)
LEMMA FunctionInduction ==
  ASSUME NEW f, f[0], \A n \in Nat : f[n] => f[n + 1]
  PROVE  \A n \in Nat : f[n]
<1> DEFINE S == {n \in Nat : f[n]}
<1>1. 0 \in S
  OBVIOUS
<1>2. \A n \in Nat : n \in S => n + 1 \in S
  OBVIOUS
<1>3. Nat \subseteq S
  <2> HIDE DEF S
  <2> QED
    BY <1>1, <1>2, SetInduction
<1> QED
  BY <1>3

(* There is such a thing as f: how a step names a witness. *)
Given(f) == TRUE

(* What holds of 0, and of n + 1 whenever it holds of n, holds of every    *)
(* natural number.                                                         *)
THEOREM Induction ==
  \A d : P(d, 0) /\ (\A n \in Nat : P(d, n) => P(d, n + 1)) => \A n \in Nat : P(d, n)
<1> TAKE d
<1>1. \E f : \A n \in Nat : f[n] <=> P(d, n)
  <2>1. Given([n \in Nat |-> P(d, n)])
    BY DEF Given
  <2> QED
    BY <2>1
<1> QED
  BY <1>1, FunctionInduction
=============================================================================
