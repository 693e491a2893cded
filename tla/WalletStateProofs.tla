-------------------------- MODULE WalletStateProofs --------------------------
(***************************************************************************)
(* How Total changes when one entry of a dictionary of credits is added,   *)
(* removed or overwritten, and, by these facts, that each apply_* helper   *)
(* of ahp/economy/wallet.py keeps the books of a wallet sound whenever it  *)
(* does not raise.  Every conservation theorem of the project rests on     *)
(* them.  Before that come the facts about numbers and orders by which     *)
(* other modules reason by induction, as the descent to a least element.   *)
(***************************************************************************)
EXTENDS WalletState, FiniteSetTheorems, TLAPS

(* A set of numbers has a least element. *)
LEMMA LeastOf ==
    ASSUME NEW S \in SUBSET Nat, S # {}
    PROVE  \E n \in S : \A m \in S : n <= m
<1>1. IsWellFoundedOn(OpToRel(<, Nat), Nat)
  BY NatLessThanWellFounded
<1> DEFINE R == {ss \in Nat \X Nat : ss[1] < ss[2]}
<1>2. R = OpToRel(<, Nat)
  BY DEF OpToRel
<1>3. IsWellFoundedOn(R, Nat)
  BY <1>1, <1>2
<1>4. \E x \in S : \A y \in S : <<y, x>> \notin R
  <2> HIDE DEF R
  <2> QED
    BY <1>3, WFMin, Zenon
<1>5. PICK x \in S : \A y \in S : <<y, x>> \notin R
  BY <1>4
<1>6. \A y \in S : x <= y
  <2> SUFFICES ASSUME NEW y \in S PROVE ~ y < x
    OBVIOUS
  <2> QED
    BY <1>5
<1> QED
  BY <1>6

(* Induction: what holds of 0, and of the next number whenever it holds of *)
(* a number, holds of them all.                                            *)
LEMMA StepByStep ==
    ASSUME NEW S, 0 \in S, \A n \in Nat : n \in S => n + 1 \in S
    PROVE  Nat \subseteq S
<1> SUFFICES ASSUME Nat \ S # {} PROVE FALSE
  OBVIOUS
<1>1. PICK n \in Nat \ S : \A m \in Nat \ S : n <= m
  BY LeastOf
<1>2. n # 0 /\ n - 1 \in Nat
  BY <1>1
<1>3. n - 1 \in S
  BY <1>1, <1>2
<1> QED
  BY <1>1, <1>2, <1>3

(* Among finitely many, one precedes all others in a strict total order.   *)
LEMMA FirstOf ==
    ASSUME NEW S, IsFiniteSet(S), S # {}, NEW R,
           \A x \in S : <<x, x>> \notin R,
           \A x, y, z \in S : <<x, y>> \in R /\ <<y, z>> \in R => <<x, z>> \in R,
           \A x, y \in S : x = y \/ <<x, y>> \in R \/ <<y, x>> \in R
    PROVE  \E x \in S : \A y \in S \ {x} : <<x, y>> \in R
<1> DEFINE Before(x) == {y \in S : <<y, x>> \in R}
           sizes == {Cardinality(Before(x)) : x \in S}
<1>1. \A x \in S : Before(x) \in SUBSET S
  OBVIOUS
<1>0. \A x \in S : IsFiniteSet(Before(x)) /\ Cardinality(Before(x)) \in Nat
  <2> HIDE DEF Before
  <2> QED BY <1>1, FS_Subset, FS_CardinalityType
<1>2. sizes \in SUBSET Nat /\ sizes # {}
  <2> HIDE DEF Before
  <2> QED BY <1>0
<1>3. PICK n \in sizes : \A m \in sizes : n <= m
  <2> HIDE DEF sizes
  <2> QED BY <1>2, LeastOf
<1>4. PICK x \in S : n = Cardinality(Before(x))
  BY <1>3
<1>5. ASSUME NEW y \in S, <<y, x>> \in R PROVE FALSE
  <2>1. Before(y) \subseteq Before(x)
    BY <1>5
  <2>2. y \in Before(x) /\ y \notin Before(y)
    BY <1>5
  <2>3. Cardinality(Before(x)) <= Cardinality(Before(y))
    <3> HIDE DEF Before
    <3>1. Cardinality(Before(y)) \in sizes
      BY <1>5
    <3> HIDE DEF sizes
    <3> QED BY <3>1, <1>3, <1>4
  <2> HIDE DEF Before
  <2>4. /\ Cardinality(Before(y)) <= Cardinality(Before(x))
        /\ Cardinality(Before(y)) # Cardinality(Before(x))
    BY <2>1, <2>2, <1>0, <1>4, FS_Subset
  <2> QED
    BY <2>3, <2>4, <1>0, <1>4, <1>5
<1> QED
  BY <1>5

(* A finite set of numbers has a least and a greatest element. *)
LEMMA LeastAndGreatest ==
    ASSUME NEW S \in SUBSET Int, IsFiniteSet(S), S # {}
    PROVE  /\ \E x \in S : \A y \in S : x <= y
           /\ \E x \in S : \A y \in S : x >= y
<1> DEFINE Up == {ss \in S \X S : ss[1] < ss[2]}
           Down == {ss \in S \X S : ss[1] > ss[2]}
<1>1. \E x \in S : \A y \in S \ {x} : <<x, y>> \in Up
  <2>1. /\ \A x \in S : <<x, x>> \notin Up
        /\ \A x, y, z \in S : <<x, y>> \in Up /\ <<y, z>> \in Up => <<x, z>> \in Up
        /\ \A x, y \in S : x = y \/ <<x, y>> \in Up \/ <<y, x>> \in Up
    OBVIOUS
  <2> HIDE DEF Up
  <2> QED
    BY <2>1, FirstOf
<1>2. \E x \in S : \A y \in S \ {x} : <<x, y>> \in Down
  <2>1. /\ \A x \in S : <<x, x>> \notin Down
        /\ \A x, y, z \in S : <<x, y>> \in Down /\ <<y, z>> \in Down => <<x, z>> \in Down
        /\ \A x, y \in S : x = y \/ <<x, y>> \in Down \/ <<y, x>> \in Down
    OBVIOUS
  <2> HIDE DEF Down
  <2> QED
    BY <2>1, FirstOf
<1>3. \E x \in S : \A y \in S : x <= y
  <2>1. PICK x \in S : \A y \in S \ {x} : <<x, y>> \in Up
    BY <1>1
  <2>2. \A y \in S : x = y \/ x < y
    BY <2>1
  <2>3. \A y \in S : x <= y
    BY <2>2
  <2> QED
    BY <2>3
<1>4. \E x \in S : \A y \in S : x >= y
  <2>1. PICK x \in S : \A y \in S \ {x} : <<x, y>> \in Down
    BY <1>2
  <2>2. \A y \in S : x = y \/ x > y
    BY <2>1
  <2>3. \A y \in S : x >= y
    BY <2>2
  <2> QED
    BY <2>3
<1> QED
  BY <1>3, <1>4

(* Multiplying by a positive number keeps the order. *)
LEMMA Products ==
    /\ \A a, b \in Nat : a * b \in Nat
    /\ \A a, b \in Nat \ {0} : a * b \in Nat \ {0}
    /\ \A a, b, k \in Nat : a <= b => a * k <= b * k
    /\ \A a, b \in Nat : \A k \in Nat \ {0} : a < b => a * k < b * k
<1>1. \A a, b \in Nat : a * b \in Nat
  OBVIOUS
<1>2. \A a, b \in Nat \ {0} : a * b \in Nat \ {0}
  OBVIOUS
<1>3. \A a, b, k \in Nat : a <= b => a * k <= b * k
  <2> SUFFICES ASSUME NEW a \in Nat, NEW b \in Nat, NEW k \in Nat, a <= b
               PROVE  a * k <= b * k
    OBVIOUS
  <2>1. b * k = a * k + (b - a) * k
    OBVIOUS
  <2>2. (b - a) * k \in Nat
    BY <1>1
  <2> QED
    BY <2>1, <2>2, <1>1
<1>4. \A a, b \in Nat : \A k \in Nat \ {0} : a < b => a * k < b * k
  <2> SUFFICES ASSUME NEW a \in Nat, NEW b \in Nat, NEW k \in Nat \ {0}, a < b
               PROVE  a * k < b * k
    OBVIOUS
  <2>1. b * k = a * k + (b - a) * k
    OBVIOUS
  <2>2. (b - a) * k \in Nat \ {0}
    BY <1>2
  <2> QED
    BY <2>1, <2>2, <1>1
<1> QED
  BY <1>1, <1>2, <1>3, <1>4

-----------------------------------------------------------------------------
(* A key worth n credits contributes exactly n units. *)
LEMMA PileSize ==
  ASSUME NEW x, NEW n \in Nat
  PROVE  /\ IsFiniteSet({x} \X (1..n))
         /\ Cardinality({x} \X (1..n)) = n
<1>1. IsFiniteSet({x}) /\ Cardinality({x}) = 1
  BY FS_Singleton
<1>2. IsFiniteSet(1..n) /\ Cardinality(1..n) = n
  <2>1. IsFiniteSet(1..n) /\ Cardinality(1..n) = IF 1 > n THEN 0 ELSE n - 1 + 1
    BY FS_Interval
  <2> QED BY <2>1
<1>3. /\ IsFiniteSet({x} \X (1..n))
      /\ Cardinality({x} \X (1..n)) = Cardinality({x}) * Cardinality(1..n)
  BY <1>1, <1>2, FS_Product
<1> QED BY <1>1, <1>2, <1>3

(* A finite dictionary is worth a natural number of credits. *)
LEMMA TotalType ==
  ASSUME NEW S, IsFiniteSet(S), NEW f \in [S -> Nat]
  PROVE  /\ IsFiniteSet(Units(f))
         /\ Total(f) \in Nat
<1> DEFINE pile == [x \in S |-> {x} \X (1..f[x])]
           piles == {{x} \X (1..f[x]) : x \in S}
<1>1. pile \in Surjection(S, piles)
  BY DEF Surjection
<1>2. IsFiniteSet(piles)
  BY <1>1, FS_Surjection
<1>3. \A P \in piles : IsFiniteSet(P)
  <2> TAKE P \in piles
  <2>1. PICK x \in S : P = {x} \X (1..f[x])
    OBVIOUS
  <2> QED BY <2>1, PileSize
<1>4. IsFiniteSet(UNION piles)
  <2> HIDE DEF piles
  <2> QED BY <1>2, <1>3, FS_UNION
<1>5. IsFiniteSet(Units(f))
  BY <1>4 DEF Units
<1> QED BY <1>5, FS_CardinalityType DEF Total

(* Total splits along any key. *)
LEMMA TotalSplit ==
  ASSUME NEW S, IsFiniteSet(S), NEW f \in [S -> Nat], NEW x \in S
  PROVE  Total(f) = Total(Without(f, x)) + f[x]
<1> DEFINE g == Without(f, x)
           pile == {x} \X (1..f[x])
<1>1. g \in [S \ {x} -> Nat] /\ \A y \in S \ {x} : g[y] = f[y]
  BY DEF Without
<1>2. IsFiniteSet(S \ {x})
  BY FS_RemoveElement
<1>3. IsFiniteSet(Units(g)) /\ Cardinality(Units(g)) \in Nat
  <2> HIDE DEF g
  <2> QED BY <1>1, <1>2, TotalType DEF Total
<1>4. IsFiniteSet(pile) /\ Cardinality(pile) = f[x]
  BY PileSize
<1>5. Units(f) = Units(g) \cup pile
  BY DEF Units, Without
<1>6. Units(g) \cap pile = {}
  BY DEF Units, Without
<1>7. Cardinality(Units(g) \cup pile) =
        Cardinality(Units(g)) + Cardinality(pile) - Cardinality(Units(g) \cap pile)
  <2> HIDE DEF g, pile
  <2> QED BY <1>3, <1>4, FS_Union
<1>8. Cardinality(Units(g) \cap pile) = 0
  BY <1>6, FS_EmptySet
<1> HIDE DEF g, pile
<1>9. Total(f) = Total(g) + f[x]
  BY <1>3, <1>4, <1>5, <1>7, <1>8 DEF Total
<1> QED BY <1>9 DEF g

(* An empty dictionary is worth nothing. *)
LEMMA TotalNone == Total(NoCredits) = 0
<1>1. Units(NoCredits) = {}
  BY DEF Units, NoCredits
<1> QED BY <1>1, FS_EmptySet DEF Total

(* Popping a key takes its amount off the total, which was at least that. *)
LEMMA TotalWithout ==
  ASSUME NEW S, IsFiniteSet(S), NEW f \in [S -> Nat], NEW x \in S
  PROVE  /\ Total(f) \in Nat
         /\ f[x] <= Total(f)
         /\ Total(Without(f, x)) = Total(f) - f[x]
<1> DEFINE g == Without(f, x)
<1>1. g \in [S \ {x} -> Nat]
  BY DEF Without
<1>2. IsFiniteSet(S \ {x})
  BY FS_RemoveElement
<1> HIDE DEF g
<1>3. Total(g) \in Nat
  BY <1>1, <1>2, TotalType
<1>4. Total(f) = Total(g) + f[x]
  BY TotalSplit DEF g
<1> QED BY <1>3, <1>4 DEF g

(* Adding a key adds its amount to the total. *)
LEMMA TotalWith ==
  ASSUME NEW S, IsFiniteSet(S), NEW f \in [S -> Nat], NEW v \in Nat, NEW x, x \notin S
  PROVE  /\ Total(f) \in Nat
         /\ Total(With(f, x, v)) = Total(f) + v
<1> DEFINE g == With(f, x, v)
<1>1. g \in [S \cup {x} -> Nat] /\ g[x] = v
  BY DEF With
<1>2. IsFiniteSet(S \cup {x})
  BY FS_AddElement
<1>3. Without(g, x) = f
  <2>1. DOMAIN f = S /\ DOMAIN g = S \cup {x}
    BY DEF With
  <2>2. (S \cup {x}) \ {x} = S
    OBVIOUS
  <2>3. \A y \in S : g[y] = f[y]
    BY DEF With
  <2> QED BY <2>1, <2>2, <2>3 DEF Without
<1> HIDE DEF g
<1>4. Total(g) = Total(Without(g, x)) + g[x]
  BY <1>1, <1>2, TotalSplit
<1>5. Total(f) \in Nat
  BY TotalType
<1> QED BY <1>1, <1>3, <1>4, <1>5 DEF g

(* Two dictionaries that differ at most at x differ in total by what they  *)
(* differ by there.                                                        *)
LEMMA TotalChange ==
  ASSUME NEW S, IsFiniteSet(S), NEW f \in [S -> Nat], NEW g \in [S -> Nat],
         NEW x \in S, \A y \in S : y # x => g[y] = f[y]
  PROVE  /\ Total(f) \in Nat
         /\ Total(g) \in Nat
         /\ Total(g) = Total(f) - f[x] + g[x]
<1>1. Without(g, x) = Without(f, x)
  BY DEF Without
<1>2. Total(g) = Total(Without(g, x)) + g[x]
  BY TotalSplit
<1>3. /\ Total(f) \in Nat
      /\ Total(Without(f, x)) = Total(f) - f[x]
  BY TotalWithout
<1>4. Total(g) \in Nat
  BY TotalType
<1> QED BY <1>1, <1>2, <1>3, <1>4

-----------------------------------------------------------------------------
(* A wallet that was never written is a sound one. *)
LEMMA FreshWalletSound ==
  IsWallet(FreshWallet, {}) /\ Sound(FreshWallet)
<1>1. IsWallet(FreshWallet, {})
  BY FundAssumption DEF IsWallet, FreshWallet, NoCredits
<1>2. Total(FreshWallet.holds) = 0
  BY TotalNone DEF FreshWallet
<1> QED BY <1>1, <1>2, FundAssumption DEF Sound, FreshWallet

(* apply_hold keeps a wallet's books sound when it does not raise. *)
LEMMA HoldSound ==
  ASSUME NEW ids, IsFiniteSet(ids), NEW id \in ids, NEW amount \in Nat,
         NEW w, IsWallet(w, ids), Sound(w), HoldOutcome(w, id, amount) = OK
  PROVE  IsWallet(ApplyHold(w, id, amount), ids) /\ Sound(ApplyHold(w, id, amount))
<1> DEFINE S == DOMAIN w.holds
           v == ApplyHold(w, id, amount)
<1>1. CASE id \in S
  BY <1>1 DEF ApplyHold, IsHeld
<1>2. CASE id \notin S
  <2>1. IsFiniteSet(S)
    BY FS_Subset DEF IsWallet
  <2>2. /\ With(w.holds, id, amount) \in [S \cup {id} -> Nat]
        /\ Total(With(w.holds, id, amount)) = Total(w.holds) + amount
    <3>1. w.holds \in [S -> Nat]
      BY DEF IsWallet
    <3>2. With(w.holds, id, amount) \in [S \cup {id} -> Nat]
      BY <3>1 DEF With
    <3>3. Total(With(w.holds, id, amount)) = Total(w.holds) + amount
      BY <1>2, <2>1, <3>1, TotalWith
    <3> QED BY <3>2, <3>3
  <2>3. Available(w) >= amount
    BY <1>2 DEF HoldOutcome, IsHeld, OK, InsufficientFundsError, Available, IsWallet
  <2>4. v = [balance |-> w.balance, held_total |-> w.held_total + amount,
             holds |-> With(w.holds, id, amount)]
    BY <1>2 DEF ApplyHold, IsHeld, IsWallet
  <2>5. Sound(v)
    BY <2>2, <2>3, <2>4 DEF Sound, Available, IsWallet
  <2>6. IsWallet(v, ids)
    BY <2>2, <2>4 DEF IsWallet
  <2> QED BY <2>5, <2>6
<1> QED BY <1>1, <1>2

(* apply_release keeps a wallet's books sound when it does not raise: the  *)
(* debit is at most the hold, so what is left covers the other holds.      *)
LEMMA ReleaseSound ==
  ASSUME NEW ids, IsFiniteSet(ids), NEW id, NEW debit \in Nat,
         NEW w, IsWallet(w, ids), Sound(w), ReleaseOutcome(w, id, debit) = OK
  PROVE  IsWallet(ApplyRelease(w, id, debit), ids) /\ Sound(ApplyRelease(w, id, debit))
<1> DEFINE S == DOMAIN w.holds
           v == ApplyRelease(w, id, debit)
<1>1. id \in S /\ debit <= w.holds[id]
  BY DEF ReleaseOutcome, IsHeld, OK, UnknownHoldError, InsufficientFundsError, IsWallet
<1>2. IsFiniteSet(S)
  BY FS_Subset DEF IsWallet
<1>3. /\ Without(w.holds, id) \in [S \ {id} -> Nat]
      /\ Total(Without(w.holds, id)) = Total(w.holds) - w.holds[id]
  <2>1. w.holds \in [S -> Nat]
    BY DEF IsWallet
  <2>2. Without(w.holds, id) \in [S \ {id} -> Nat]
    BY <2>1 DEF Without
  <2>3. Total(Without(w.holds, id)) = Total(w.holds) - w.holds[id]
    BY <1>1, <1>2, <2>1, TotalWithout
  <2> QED BY <2>2, <2>3
<1>4. Sound(v)
  BY <1>1, <1>3 DEF Sound, ApplyRelease, IsWallet
<1>5. IsWallet(v, ids)
  BY <1>1, <1>3 DEF ApplyRelease, IsWallet
<1> QED BY <1>4, <1>5

(* apply_refund is a release that debits nothing. *)
LEMMA RefundSound ==
  ASSUME NEW ids, IsFiniteSet(ids), NEW id,
         NEW w, IsWallet(w, ids), Sound(w), RefundOutcome(w, id) = OK
  PROVE  IsWallet(ApplyRefund(w, id), ids) /\ Sound(ApplyRefund(w, id))
<1>1. IsHeld(w, id)
  BY DEF RefundOutcome, OK, UnknownHoldError
<1>2. ReleaseOutcome(w, id, 0) = OK
  BY <1>1 DEF ReleaseOutcome, IsHeld, IsWallet
<1>3. ApplyRefund(w, id) = ApplyRelease(w, id, 0)
  <2>1. w.balance - 0 = w.balance
    BY DEF IsWallet
  <2> QED BY <2>1 DEF ApplyRefund, ApplyRelease
<1> QED BY <1>2, <1>3, ReleaseSound

(* apply_credit keeps a wallet's books sound. *)
LEMMA CreditSound ==
  ASSUME NEW ids, NEW amount \in Nat, NEW w, IsWallet(w, ids), Sound(w)
  PROVE  IsWallet(ApplyCredit(w, amount), ids) /\ Sound(ApplyCredit(w, amount))
<1>1. ApplyCredit(w, amount) = [balance |-> w.balance + amount,
                                held_total |-> w.held_total, holds |-> w.holds]
  BY DEF ApplyCredit, IsWallet
<1> QED BY <1>1 DEF IsWallet, Sound
=============================================================================
