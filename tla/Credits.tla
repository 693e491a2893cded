------------------------------ MODULE Credits ------------------------------
(***************************************************************************)
(* Bookkeeping on dictionaries of credits: what a wallet holds, what a     *)
(* broadcast has reserved, what a set of wallets is worth together.        *)
(*                                                                         *)
(* A dictionary of amounts is a function into Nat whose domain is its set  *)
(* of keys.  Amounts are whole credits.                                    *)
(***************************************************************************)
EXTENDS Integers, FiniteSets

(* The credits of f, one pair per credit: key x contributes f[x] of them.  *)
Units(f) == UNION {{x} \X (1..f[x]) : x \in DOMAIN f}

(* The sum of the values of f, as a number of elements rather than as a    *)
(* fold: a cardinality needs no induction to be reasoned about.            *)
Total(f) == Cardinality(Units(f))

(* dict.pop(x) and dict[x] = v.                                            *)
Without(f, x) == [y \in DOMAIN f \ {x} |-> f[y]]
With(f, x, v) == [y \in DOMAIN f \cup {x} |-> IF y = x THEN v ELSE f[y]]

NoCredits == [x \in {} |-> 0]
=============================================================================
