-------------------------- MODULE CommunityProofs --------------------------
(***************************************************************************)
(* The banker, for any agents, tasks and amounts and for any number of     *)
(* transfers that overlap, fail or are cancelled: its types, the soundness *)
(* of the wallets, and the account of every credit.  Then the community:   *)
(* the factory and its invitations use the banker as it is meant to be     *)
(* used, so that account carries over, no invitation provisions an agent   *)
(* before that agent was funded, and, for any patterns that agree, spawns  *)
(* fill their places however they overlap.  Beside them, the audit sinks,  *)
(* for any number of events and any sizes: the log is kept.                *)
(***************************************************************************)
EXTENDS Community, Sink, WalletStateProofs, SequenceTheorems, FiniteSetTheorems

(* What an operation adds to the wallet it runs on. *)
Gain(operation) ==
    CASE operation.kind = "topup"  -> operation.amount
      [] operation.kind = "settle" -> 0 - operation.amount
      [] OTHER                     -> 0

BankerInv == BankerTypeOK /\ PursesSound

-----------------------------------------------------------------------------
(* There are finitely many wallets and holds, and both sides of a transfer *)
(* have a wallet.                                                          *)
LEMMA PartiesHaveWallets ==
  /\ IsFiniteSet(Owners) /\ IsFiniteSet(HoldIds)
  /\ \A a \in Addresses :
       /\ a \in Owners /\ funding_source_for(a) \in Owners
       /\ refund_destination_for(a) # None => refund_destination_for(a) \in Owners
       /\ FundAmount(a) \in Nat
<1>1. IsFiniteSet({Host, COMMONS_WALLET})
  <2>1. IsFiniteSet({Host}) /\ IsFiniteSet({COMMONS_WALLET})
    BY FS_Singleton
  <2>2. {Host, COMMONS_WALLET} = {Host} \cup {COMMONS_WALLET}
    OBVIOUS
  <2> QED BY <2>1, <2>2, FS_Union
<1>2. IsFiniteSet(Owners)
  BY <1>1, FS_Union, BankerAssumption DEF Owners
<1>3. IsFiniteSet(HoldIds)
  <2>1. IsFiniteSet({"fund", "drain", "call"})
    <3>1. IsFiniteSet({"fund"}) /\ IsFiniteSet({"drain"}) /\ IsFiniteSet({"call"})
      BY FS_Singleton
    <3>2. IsFiniteSet({"fund"} \cup {"drain"})
      BY <3>1, FS_Union
    <3>3. IsFiniteSet(({"fund"} \cup {"drain"}) \cup {"call"})
      BY <3>1, <3>2, FS_Union
    <3>4. {"fund", "drain", "call"} = ({"fund"} \cup {"drain"}) \cup {"call"}
      OBVIOUS
    <3> QED BY <3>3, <3>4
  <2> QED BY <2>1, FS_Product, BankerAssumption DEF HoldIds
<1>4. ASSUME NEW a \in Addresses
      PROVE  /\ a \in Owners /\ funding_source_for(a) \in Owners
             /\ refund_destination_for(a) # None => refund_destination_for(a) \in Owners
             /\ FundAmount(a) \in Nat
  <2>1. lifecycle[a] \in Lifecycles
    BY BankerAssumption
  <2>2. FundAmount(a) \in Nat
    BY <2>1, BankerAssumption DEF FundAmount
  <2> QED BY <2>2 DEF Owners, funding_source_for, refund_destination_for
<1> QED BY <1>2, <1>3, <1>4

(* When one wallet is replaced, what all hold together changes by the      *)
(* difference.                                                             *)
LEMMA WorthChange ==
  ASSUME NEW ws, NEW vs, NEW o \in Owners,
         \A q \in Owners : ws[q].balance \in Nat /\ vs[q].balance \in Nat,
         \A q \in Owners : q # o => vs[q] = ws[q]
  PROVE  /\ Worth(ws) \in Nat /\ Worth(vs) \in Nat
         /\ Worth(vs) = Worth(ws) - ws[o].balance + vs[o].balance
<1> DEFINE f == [q \in Owners |-> ws[q].balance]
           g == [q \in Owners |-> vs[q].balance]
<1>1. f \in [Owners -> Nat] /\ g \in [Owners -> Nat]
  OBVIOUS
<1>2. \A q \in Owners : q # o => g[q] = f[q]
  OBVIOUS
<1>3. IsFiniteSet(Owners)
  BY PartiesHaveWallets
<1>4. /\ Total(f) \in Nat /\ Total(g) \in Nat
      /\ Total(g) = Total(f) - f[o] + g[o]
  <2> HIDE DEF f, g
  <2> QED BY <1>1, <1>2, <1>3, TotalChange
<1> QED BY <1>4 DEF Worth

(* A transfer is worth some credits under way, on at most one side. *)
LEMMA TransferWorth ==
  ASSUME NEW t, IsTransfer(t)
  PROVE  InTransit(t) \in Nat /\ GivenTwice(t) \in Nat
BY DEF IsTransfer, InTransit, GivenTwice, NoPay

(* When one task's transfer is replaced, what is under way changes by the  *)
(* difference.                                                             *)
LEMMA UnderWayChange ==
  ASSUME NEW ps, NEW qs, NEW p \in Tasks,
         \A q \in Tasks : IsTransfer(ps[q]) /\ IsTransfer(qs[q]),
         \A q \in Tasks : q # p => qs[q] = ps[q]
  PROVE  /\ OnTheWay(ps) \in Nat /\ OnTheWay(qs) \in Nat
         /\ OnTheWay(qs) = OnTheWay(ps) - InTransit(ps[p]) + InTransit(qs[p])
         /\ Advanced(ps) \in Nat /\ Advanced(qs) \in Nat
         /\ Advanced(qs) = Advanced(ps) - GivenTwice(ps[p]) + GivenTwice(qs[p])
<1> DEFINE f == [q \in Tasks |-> InTransit(ps[q])]
           g == [q \in Tasks |-> InTransit(qs[q])]
           d == [q \in Tasks |-> GivenTwice(ps[q])]
           e == [q \in Tasks |-> GivenTwice(qs[q])]
<1>1. /\ f \in [Tasks -> Nat] /\ g \in [Tasks -> Nat]
      /\ d \in [Tasks -> Nat] /\ e \in [Tasks -> Nat]
  BY TransferWorth
<1>2. \A q \in Tasks : q # p => g[q] = f[q] /\ e[q] = d[q]
  OBVIOUS
<1>3. IsFiniteSet(Tasks)
  BY BankerAssumption
<1>4. /\ Total(f) \in Nat /\ Total(g) \in Nat
      /\ Total(g) = Total(f) - f[p] + g[p]
  <2> HIDE DEF f, g, d, e
  <2> QED BY <1>1, <1>2, <1>3, TotalChange
<1>5. /\ Total(d) \in Nat /\ Total(e) \in Nat
      /\ Total(e) = Total(d) - d[p] + e[p]
  <2> HIDE DEF f, g, d, e
  <2> QED BY <1>1, <1>2, <1>3, TotalChange
<1> QED BY <1>4, <1>5 DEF OnTheWay, Advanced

-----------------------------------------------------------------------------
(* The operations of the banker and of the agents. *)
IsOperation(operation) ==
    operation.amount \in Nat
    /\ \/ operation.kind \in {"hold", "settle"} /\ operation.id \in HoldIds
       \/ operation.kind = "topup"

(* The operations on holds are named after an agent and are well formed. *)
LEMMA OperationType ==
  ASSUME NEW a \in Addresses, NEW amount \in Nat, NEW what \in {"fund", "drain", "call"}
  PROVE  /\ IsOperation(HoldFor(what, a, amount)) /\ Gain(HoldFor(what, a, amount)) = 0
         /\ IsOperation(SettleFor(what, a, amount))
         /\ Gain(SettleFor(what, a, amount)) = 0 - amount
         /\ IsOperation(Topup(amount)) /\ Gain(Topup(amount)) = amount
<1>1. <<what, a>> \in HoldIds
  BY DEF HoldIds
<1> QED BY <1>1 DEF IsOperation, HoldFor, SettleFor, Topup, Gain

(* An operation that does not raise leaves a sound wallet, with its gain. *)
LEMMA OneOperation ==
  ASSUME NEW w, IsWallet(w, HoldIds), Sound(w), NEW operation, IsOperation(operation),
         Outcome(w, operation) = OK
  PROVE  /\ IsWallet(Apply(w, operation), HoldIds) /\ Sound(Apply(w, operation))
         /\ Apply(w, operation).balance = w.balance + Gain(operation)
<1>1. IsFiniteSet(HoldIds)
  BY PartiesHaveWallets
<1>2. w.balance \in Int
  BY DEF IsWallet
<1>3. CASE operation.kind = "hold"
  <2>1. /\ HoldOutcome(w, operation.id, operation.amount) = OK
        /\ Apply(w, operation) = ApplyHold(w, operation.id, operation.amount)
        /\ Gain(operation) = 0
    BY <1>3 DEF Outcome, Apply, Gain
  <2>2. operation.id \in HoldIds /\ operation.amount \in Nat
    BY <1>3 DEF IsOperation
  <2>3. ApplyHold(w, operation.id, operation.amount).balance = w.balance
    BY DEF ApplyHold, IsWallet
  <2> QED BY <1>1, <1>2, <2>1, <2>2, <2>3, HoldSound
<1>4. CASE operation.kind = "settle"
  <2>1. /\ ReleaseOutcome(w, operation.id, operation.amount) = OK
        /\ Apply(w, operation) = ApplyRelease(w, operation.id, operation.amount)
        /\ Gain(operation) = 0 - operation.amount
    BY <1>4 DEF Outcome, Apply, Gain
  <2>2. operation.amount \in Nat
    BY DEF IsOperation
  <2>3. ApplyRelease(w, operation.id, operation.amount).balance = w.balance - operation.amount
    BY DEF ApplyRelease
  <2> QED BY <1>1, <1>2, <2>1, <2>2, <2>3, ReleaseSound
<1>5. CASE operation.kind = "topup"
  <2>1. /\ Apply(w, operation) = ApplyCredit(w, operation.amount)
        /\ Gain(operation) = operation.amount
    BY <1>5 DEF Apply, Gain
  <2>2. operation.amount \in Nat
    BY DEF IsOperation
  <2>3. ApplyCredit(w, operation.amount).balance = w.balance + operation.amount
    BY DEF ApplyCredit, IsWallet
  <2> QED BY <1>2, <2>1, <2>2, <2>3, CreditSound
<1> QED BY <1>3, <1>4, <1>5 DEF IsOperation

(* A wallet whose books balance is not in debt. *)
LEMMA NoDebt ==
  ASSUME NEW w, IsWallet(w, HoldIds), Sound(w)
  PROVE  w.balance \in Nat
<1>1. IsFiniteSet(DOMAIN w.holds) /\ w.holds \in [DOMAIN w.holds -> Nat]
  BY PartiesHaveWallets, FS_Subset DEF IsWallet
<1>2. Total(w.holds) \in Nat
  BY <1>1, TotalType
<1> QED BY <1>2 DEF Sound, IsWallet

(* What running an operation does to all the wallets. *)
LEMMA RunsEffect ==
  ASSUME BankerInv, NEW o \in Owners, NEW operation, IsOperation(operation),
         Runs(o, operation)
  PROVE  /\ DOMAIN wallets' = Owners /\ \A q \in Owners : IsWallet(wallets'[q], HoldIds)
         /\ \A q \in Owners : Sound(wallets'[q])
         /\ Worth(wallets) \in Nat /\ Worth(wallets') \in Nat
         /\ Worth(wallets') = Worth(wallets) + Gain(operation)
<1> DEFINE v == Apply(wallets[o], operation)
<1>1. /\ DOMAIN wallets = Owners /\ \A q \in Owners : IsWallet(wallets[q], HoldIds)
      /\ \A q \in Owners : Sound(wallets[q])
  BY DEF BankerInv, BankerTypeOK, PursesSound
<1>2. /\ IsWallet(v, HoldIds) /\ Sound(v)
      /\ v.balance = wallets[o].balance + Gain(operation)
  BY <1>1, OneOperation DEF Runs
<1>3. wallets' = [wallets EXCEPT ![o] = v]
  BY DEF Runs
<1>4. DOMAIN wallets' = Owners /\ wallets'[o] = v
      /\ \A q \in Owners : q # o => wallets'[q] = wallets[q]
  <2> HIDE DEF v
  <2> QED BY <1>1, <1>3
<1>5. /\ \A q \in Owners : IsWallet(wallets'[q], HoldIds)
      /\ \A q \in Owners : Sound(wallets'[q])
  BY <1>1, <1>2, <1>4
<1>6. \A q \in Owners : wallets[q].balance \in Nat /\ wallets'[q].balance \in Nat
  BY <1>1, <1>5, NoDebt
<1>7. /\ Worth(wallets) \in Nat /\ Worth(wallets') \in Nat
      /\ Worth(wallets') = Worth(wallets) - wallets[o].balance + v.balance
  <2>1. \A q \in Owners : q # o => wallets'[q] = wallets[q]
    BY <1>4
  <2>2. /\ Worth(wallets) \in Nat /\ Worth(wallets') \in Nat
        /\ Worth(wallets') = Worth(wallets) - wallets[o].balance + wallets'[o].balance
    BY <1>6, <2>1, WorthChange
  <2> HIDE DEF v
  <2> QED BY <1>4, <2>2
<1>8. Gain(operation) \in Int
  <2>1. operation.amount \in Int /\ 0 - operation.amount \in Int
    BY DEF IsOperation
  <2>2. Gain(operation) \in {operation.amount, 0 - operation.amount, 0}
    BY DEF Gain
  <2> QED BY <2>1, <2>2
<1> QED BY <1>2, <1>4, <1>5, <1>6, <1>7, <1>8

-----------------------------------------------------------------------------
(* What replacing one task's transfer does to all of them. *)
LEMMA PayEffect ==
  ASSUME BankerInv, NEW p \in Tasks, NEW t, IsTransfer(t), pay' = [pay EXCEPT ![p] = t]
  PROVE  /\ DOMAIN pay' = Tasks /\ \A q \in Tasks : IsTransfer(pay'[q])
         /\ OnTheWay(pay) \in Nat /\ OnTheWay(pay') \in Nat
         /\ OnTheWay(pay') = OnTheWay(pay) - InTransit(pay[p]) + InTransit(t)
         /\ Advanced(pay) \in Nat /\ Advanced(pay') \in Nat
         /\ Advanced(pay') = Advanced(pay) - GivenTwice(pay[p]) + GivenTwice(t)
<1>1. DOMAIN pay = Tasks /\ \A q \in Tasks : IsTransfer(pay[q])
  BY DEF BankerInv, BankerTypeOK
<1>2. /\ DOMAIN pay' = Tasks /\ pay'[p] = t
      /\ \A q \in Tasks : q # p => pay'[q] = pay[q]
  BY <1>1
<1>3. \A q \in Tasks : IsTransfer(pay'[q])
  BY <1>1, <1>2
<1> QED BY <1>1, <1>2, <1>3, UnderWayChange

(* The transfer at its next place. *)
Moved(t, where) == [t EXCEPT !.at = where]

(* A transfer that goes on keeps its agent and amount. *)
LEMMA GoesOn ==
  ASSUME BankerInv, NEW p \in Tasks, pay[p].at # "none", NEW where \in Places,
         where # "refund", Goes(p, where)
  PROVE  /\ IsTransfer(Moved(pay[p], where))
         /\ pay' = [pay EXCEPT ![p] = Moved(pay[p], where)]
         /\ Moved(pay[p], where).at = where
         /\ Moved(pay[p], where).amount = pay[p].amount
<1>1. pay[p] \in [at : Places, agent : Addresses, amount : Nat]
  BY DEF BankerInv, BankerTypeOK, IsTransfer, NoPay
<1>2. /\ IsTransfer(Moved(pay[p], where)) /\ Moved(pay[p], where).at = where
      /\ Moved(pay[p], where).amount = pay[p].amount
  BY <1>1 DEF IsTransfer, Moved
<1> QED BY <1>2 DEF Goes, Moved

(* A transfer is complete as long as there is one. *)
LEMMA TransferType ==
  ASSUME BankerInv, NEW p \in Tasks, pay[p].at # "none"
  PROVE  /\ pay[p].agent \in Addresses /\ pay[p].amount \in Nat
         /\ pay[p].at = "refund" => refund_destination_for(pay[p].agent) \in Owners
         /\ funding_source_for(pay[p].agent) \in Owners /\ pay[p].agent \in Owners
<1>1. /\ pay[p].agent \in Addresses /\ pay[p].amount \in Nat
      /\ pay[p].at = "refund" => refund_destination_for(pay[p].agent) # None
  BY DEF BankerInv, BankerTypeOK, IsTransfer, NoPay
<1> QED BY <1>1, PartiesHaveWallets

-----------------------------------------------------------------------------
(* What the wallets, the transfers and the books say of the credits        *)
(* together, as a step finds and leaves it.                                *)
Keeps ==
    /\ BankerInv'
    /\ CreditsAreTraced => CreditsAreTraced'

(* The account of the credits before and after a step, as numbers. *)
LEMMA Account ==
  ASSUME BankerInv, BankerInv',
         NEW gain \in Int, NEW way \in Int, NEW twice \in Int,
         Worth(wallets) \in Nat, OnTheWay(pay) \in Nat, Advanced(pay) \in Nat,
         Worth(wallets') = Worth(wallets) + gain,
         OnTheWay(pay') = OnTheWay(pay) + way,
         Advanced(pay') = Advanced(pay) + twice,
         books'.lost + books'.spent + gain + way + books.minted
           = books.lost + books.spent + twice + books'.minted
  PROVE  Keeps
<1>1. /\ books.lost \in Nat /\ books.spent \in Nat /\ books.minted \in Nat
      /\ books'.lost \in Nat /\ books'.spent \in Nat /\ books'.minted \in Nat
  BY DEF BankerInv, BankerTypeOK
<1>2. Initially \in Int
  <2> DEFINE f == [o \in Owners |-> INITIAL_FUND]
  <2>1. f \in [Owners -> Nat]
    BY FundAssumption
  <2>2. Total(f) \in Nat
    <3> HIDE DEF f
    <3> QED BY <2>1, PartiesHaveWallets, TotalType
  <2> QED BY <2>2 DEF Initially
<1>3. ASSUME CreditsAreTraced PROVE CreditsAreTraced'
  <2>1. Worth(wallets) + OnTheWay(pay) + books.lost + books.spent
          = Initially + Advanced(pay) + books.minted
    BY <1>3 DEF CreditsAreTraced
  <2>2. Worth(wallets') + OnTheWay(pay') + books'.lost + books'.spent
          = Initially + Advanced(pay') + books'.minted
    <3> DEFINE w == Worth(wallets)  o == OnTheWay(pay)  a == Advanced(pay)  i == Initially
               l == books.lost  s == books.spent  m == books.minted
               ll == books'.lost  ss == books'.spent  mm == books'.minted
    <3>1. /\ w \in Int /\ o \in Int /\ a \in Int /\ i \in Int
          /\ l \in Int /\ s \in Int /\ m \in Int /\ ll \in Int /\ ss \in Int /\ mm \in Int
      BY <1>1, <1>2
    <3>2. ll + ss + gain + way + m = l + s + twice + mm /\ w + o + l + s = i + a + m
      BY <2>1
    <3>3. (w + gain) + (o + way) + ll + ss = i + (a + twice) + mm
      <4> HIDE DEF w, o, a, i, l, s, m, ll, ss, mm
      <4> QED BY <3>1, <3>2
    <3> QED BY <3>3
  <2>3. Initially' = Initially
    BY DEF Initially
  <2> QED BY <2>2, <2>3 DEF CreditsAreTraced
<1> QED BY <1>3 DEF Keeps

(* The wallets and the transfers are worth numbers. *)
LEMMA Numbers ==
  ASSUME BankerInv
  PROVE  Worth(wallets) \in Nat /\ OnTheWay(pay) \in Nat /\ Advanced(pay) \in Nat
<1>1. /\ \A q \in Owners : wallets[q].balance \in Nat
      /\ \A q \in Tasks : IsTransfer(pay[q])
  BY NoDebt DEF BankerInv, BankerTypeOK, PursesSound
<1>2. Worth(wallets) \in Nat
  <2> DEFINE f == [q \in Owners |-> wallets[q].balance]
  <2>1. f \in [Owners -> Nat]
    BY <1>1
  <2>2. Total(f) \in Nat
    <3> HIDE DEF f
    <3> QED BY <2>1, PartiesHaveWallets, TotalType
  <2> QED BY <2>2 DEF Worth
<1>3. OnTheWay(pay) \in Nat
  <2> DEFINE f == [q \in Tasks |-> InTransit(pay[q])]
  <2>1. f \in [Tasks -> Nat]
    BY <1>1, TransferWorth
  <2>2. Total(f) \in Nat
    <3> HIDE DEF f
    <3> QED BY <2>1, BankerAssumption, TotalType
  <2> QED BY <2>2 DEF OnTheWay
<1>4. Advanced(pay) \in Nat
  <2> DEFINE f == [q \in Tasks |-> GivenTwice(pay[q])]
  <2>1. f \in [Tasks -> Nat]
    BY <1>1, TransferWorth
  <2>2. Total(f) \in Nat
    <3> HIDE DEF f
    <3> QED BY <2>1, BankerAssumption, TotalType
  <2> QED BY <2>2 DEF Advanced
<1> QED BY <1>2, <1>3, <1>4

-----------------------------------------------------------------------------
(* The wallets stay sound and together gain so many credits. *)
WalletsGain(gain) ==
    /\ DOMAIN wallets' = Owners /\ \A q \in Owners : IsWallet(wallets'[q], HoldIds)
    /\ \A q \in Owners : Sound(wallets'[q])
    /\ Worth(wallets') = Worth(wallets) + gain

(* An operation that runs is a gain; one that raises, or none, is not.     *)
LEMMA Gains ==
  ASSUME BankerInv
  PROVE  /\ \A o \in Owners : \A operation :
              IsOperation(operation) /\ Runs(o, operation) => WalletsGain(Gain(operation))
         /\ wallets' = wallets => WalletsGain(0)
<1>1. ASSUME NEW o \in Owners, NEW operation, IsOperation(operation), Runs(o, operation)
      PROVE  WalletsGain(Gain(operation))
  BY <1>1, RunsEffect DEF WalletsGain
<1>2. ASSUME wallets' = wallets PROVE WalletsGain(0)
  <2>1. Worth(wallets') = Worth(wallets) + 0
    BY <1>2, Numbers
  <2> QED BY <1>2, <2>1 DEF WalletsGain, BankerInv, BankerTypeOK, PursesSound
<1> QED BY <1>1, <1>2

(* A step that takes one transfer to its next place keeps the account when *)
(* what it moves in the wallets, under way and in the books agrees.        *)
LEMMA MoveKeeps ==
  ASSUME BankerInv, NEW p \in Tasks, NEW t, IsTransfer(t), pay' = [pay EXCEPT ![p] = t],
         NEW gain \in Int, WalletsGain(gain),
         books' \in [lost : Nat, minted : Nat, spent : Nat, calls : Nat, cut : Nat],
         books'.lost + books'.spent + gain + (InTransit(t) - InTransit(pay[p])) + books.minted
           = books.lost + books.spent + (GivenTwice(t) - GivenTwice(pay[p])) + books'.minted
  PROVE  Keeps
<1>1. /\ DOMAIN pay' = Tasks /\ \A q \in Tasks : IsTransfer(pay'[q])
      /\ OnTheWay(pay') = OnTheWay(pay) - InTransit(pay[p]) + InTransit(t)
      /\ Advanced(pay') = Advanced(pay) - GivenTwice(pay[p]) + GivenTwice(t)
  BY PayEffect
<1>2. BankerInv'
  BY <1>1 DEF BankerInv, BankerTypeOK, PursesSound, WalletsGain
<1>3. /\ InTransit(t) \in Nat /\ GivenTwice(t) \in Nat
      /\ InTransit(pay[p]) \in Nat /\ GivenTwice(pay[p]) \in Nat
  <2>1. IsTransfer(pay[p])
    BY DEF BankerInv, BankerTypeOK
  <2> QED BY <2>1, TransferWorth
<1>4. Worth(wallets) \in Nat /\ OnTheWay(pay) \in Nat /\ Advanced(pay) \in Nat
  BY Numbers
<1> DEFINE way == InTransit(t) - InTransit(pay[p])
           twice == GivenTwice(t) - GivenTwice(pay[p])
<1>5. way \in Int /\ twice \in Int
  BY <1>3
<1>6. OnTheWay(pay') = OnTheWay(pay) + way /\ Advanced(pay') = Advanced(pay) + twice
  BY <1>1, <1>3, <1>4
<1>7. Worth(wallets') = Worth(wallets) + gain
  BY DEF WalletsGain
<1>8. books'.lost + books'.spent + gain + way + books.minted
        = books.lost + books.spent + twice + books'.minted
  OBVIOUS
<1> HIDE DEF way, twice
<1> QED BY <1>2, <1>4, <1>5, <1>6, <1>7, <1>8, Account

(* What a transfer is worth depends on its place only. *)
LEMMA WorthByPlace ==
  ASSUME NEW t
  PROVE  /\ t.at \notin {"topup"} => InTransit(t) = 0
         /\ t.at = "topup" => InTransit(t) = t.amount
         /\ t.at \notin {"empty", "drain"} => GivenTwice(t) = 0
         /\ t.at \in {"empty", "drain"} => GivenTwice(t) = t.amount
BY DEF InTransit, GivenTwice

(* The books are numbers. *)
LEMMA BooksType ==
  ASSUME BankerInv
  PROVE  /\ books \in [lost : Nat, minted : Nat, spent : Nat, calls : Nat, cut : Nat]
         /\ books.lost \in Nat /\ books.minted \in Nat /\ books.spent \in Nat
BY DEF BankerInv, BankerTypeOK

(* A transfer that goes on, with the wallets gaining and the books as they *)
(* are, keeps the account when its places agree with the gain.             *)
LEMMA StepKeeps ==
  ASSUME BankerInv, NEW p \in Tasks, pay[p].at # "none", NEW where \in Places,
         where # "refund", Goes(p, where), NEW gain \in Int, WalletsGain(gain),
         UNCHANGED books,
         gain + InTransit(Moved(pay[p], where)) - InTransit(pay[p])
           = GivenTwice(Moved(pay[p], where)) - GivenTwice(pay[p])
  PROVE  Keeps
<1> DEFINE u == Moved(pay[p], where)
<1>1. IsTransfer(u) /\ pay' = [pay EXCEPT ![p] = u]
  BY GoesOn
<1>2. /\ InTransit(u) \in Nat /\ GivenTwice(u) \in Nat
      /\ InTransit(pay[p]) \in Nat /\ GivenTwice(pay[p]) \in Nat
  <2>1. IsTransfer(pay[p])
    BY DEF BankerInv, BankerTypeOK
  <2> QED BY <1>1, <2>1, TransferWorth
<1>3. gain + InTransit(u) - InTransit(pay[p]) = GivenTwice(u) - GivenTwice(pay[p])
  OBVIOUS
<1> HIDE DEF u
<1>4. books'.lost + books'.spent + gain + (InTransit(u) - InTransit(pay[p])) + books.minted
        = books.lost + books.spent + (GivenTwice(u) - GivenTwice(pay[p])) + books'.minted
  BY <1>2, <1>3, BooksType
<1> QED BY <1>1, <1>4, BooksType, MoveKeeps

-----------------------------------------------------------------------------
(* A new transfer has nothing under way yet. *)
LEMMA TransferKeeps ==
  ASSUME BankerInv, NEW p \in Tasks, Transfer(p)
  PROVE  Keeps
<1>1. At(p, "none") /\ InTransit(pay[p]) = 0 /\ GivenTwice(pay[p]) = 0
  BY WorthByPlace DEF Transfer, At
<1>2. ASSUME NEW t, IsTransfer(t), t.at \in {"check", "refund", "paid"},
             pay' = [pay EXCEPT ![p] = t], UNCHANGED <<wallets, books>>
      PROVE  Keeps
  <2>1. InTransit(t) = 0 /\ GivenTwice(t) = 0
    BY <1>2, WorthByPlace
  <2>2. WalletsGain(0)
    BY <1>2, Gains
  <2>3. books'.lost + books'.spent + 0 + (InTransit(t) - InTransit(pay[p])) + books.minted
          = books.lost + books.spent + (GivenTwice(t) - GivenTwice(pay[p])) + books'.minted
    BY <1>1, <1>2, <2>1, BooksType
  <2>4. books' \in [lost : Nat, minted : Nat, spent : Nat, calls : Nat, cut : Nat]
    BY <1>2, BooksType
  <2>5. IsTransfer(t) /\ pay' = [pay EXCEPT ![p] = t] /\ 0 \in Int
    BY <1>2
  <2> QED BY <2>2, <2>3, <2>4, <2>5, MoveKeeps
<1>3. PICK a \in Addresses : FundAgent(p, a) \/ DrainAgent(p, a)
  BY DEF Transfer
<1>4. CASE FundAgent(p, a)
  <2> DEFINE t == [at |-> "check", agent |-> a, amount |-> FundAmount(a)]
  <2>1. IsTransfer(t) /\ t.at = "check"
    BY PartiesHaveWallets DEF IsTransfer, Places
  <2>2. pay' = [pay EXCEPT ![p] = t] /\ UNCHANGED <<wallets, books>>
    BY <1>4 DEF FundAgent
  <2> HIDE DEF t
  <2> QED BY <1>2, <2>1, <2>2
<1>5. CASE DrainAgent(p, a)
  <2> DEFINE t == [at |-> IF wallets[a].balance > 0 THEN "refund" ELSE "paid",
                   agent |-> a, amount |-> wallets[a].balance]
  <2>1. wallets[a].balance \in Nat
    BY NoDebt, PartiesHaveWallets DEF BankerInv, BankerTypeOK, PursesSound
  <2>2. refund_destination_for(a) # None
    BY <1>5 DEF DrainAgent
  <2>3. IsTransfer(t) /\ t.at \in {"refund", "paid"}
    BY <2>1, <2>2 DEF IsTransfer, Places
  <2>4. pay' = [pay EXCEPT ![p] = t] /\ UNCHANGED <<wallets, books>>
    BY <1>5 DEF DrainAgent
  <2> HIDE DEF t
  <2> QED BY <1>2, <2>3, <2>4
<1> QED BY <1>3, <1>4, <1>5

(* A step on the funder's wallet of an operation with a known gain. *)
LEMMA FunderKeeps ==
  ASSUME BankerInv, NEW p \in Tasks, NEW from \in Places, NEW to \in Places, to # "refund",
         from \notin {"topup", "empty", "drain"}, to \notin {"empty", "drain"},
         NEW operation, IsOperation(operation), FunderStep(p, from, to, operation),
         Gain(operation) = IF to = "topup" THEN 0 - pay[p].amount ELSE 0
  PROVE  Keeps
<1>1. pay[p].at = from /\ from # "none"
  BY DEF FunderStep, At, Places
<1>2. /\ funding_source_for(pay[p].agent) \in Owners /\ pay[p].amount \in Nat
      /\ InTransit(pay[p]) = 0 /\ GivenTwice(pay[p]) = 0
  BY <1>1, TransferType, WorthByPlace
<1>3. CASE Runs(funding_source_for(pay[p].agent), operation) /\ Goes(p, to)
  <2> DEFINE u == Moved(pay[p], to)
  <2>1. WalletsGain(Gain(operation)) /\ UNCHANGED books
    BY <1>2, <1>3, Gains DEF FunderStep
  <2>2. u.at = to /\ u.amount = pay[p].amount
    BY <1>1, <1>3, GoesOn
  <2>3. GivenTwice(u) = 0 /\ InTransit(u) = IF to = "topup" THEN pay[p].amount ELSE 0
    <3> HIDE DEF u
    <3> QED BY <2>2, WorthByPlace
  <2>4. Gain(operation) \in Int
    BY <1>2
  <2>5. Gain(operation) + InTransit(u) - InTransit(pay[p]) = GivenTwice(u) - GivenTwice(pay[p])
    <3> HIDE DEF u
    <3> QED BY <1>2, <2>3
  <2> QED BY <1>1, <1>3, <2>1, <2>4, <2>5, StepKeeps
<1>4. CASE /\ Raises(funding_source_for(pay[p].agent), operation) /\ Goes(p, "failed")
  <2> DEFINE u == Moved(pay[p], "failed")
  <2>1. WalletsGain(0) /\ UNCHANGED books
    BY <1>4, Gains DEF FunderStep, Raises
  <2>2. u.at = "failed" /\ "failed" \in Places
    BY <1>1, <1>4, GoesOn DEF Places
  <2>3. GivenTwice(u) = 0 /\ InTransit(u) = 0
    <3> HIDE DEF u
    <3> QED BY <2>2, WorthByPlace
  <2>4. 0 + InTransit(u) - InTransit(pay[p]) = GivenTwice(u) - GivenTwice(pay[p])
    <3> HIDE DEF u
    <3> QED BY <1>2, <2>3
  <2> QED BY <1>1, <1>4, <2>1, <2>2, <2>4, StepKeeps
<1> QED BY <1>3, <1>4 DEF FunderStep

(* A step that changes no wallet and nothing under way. *)
LEMMA CheckKeeps ==
  ASSUME BankerInv, NEW p \in Tasks, CheckFunder(p)
  PROVE  Keeps
<1>1. pay[p].at = "check" /\ WalletsGain(0) /\ UNCHANGED books
  BY Gains DEF CheckFunder, At
<1>2. PICK where \in {"hold", "failed"} : Goes(p, where)
  BY DEF CheckFunder
<1> DEFINE u == Moved(pay[p], where)
<1>3. u.at = where /\ where \in Places /\ where # "refund"
  BY <1>1, <1>2, GoesOn DEF Places
<1>4. InTransit(u) = 0 /\ GivenTwice(u) = 0 /\ InTransit(pay[p]) = 0 /\ GivenTwice(pay[p]) = 0
  <2> HIDE DEF u
  <2> QED BY <1>1, <1>3, WorthByPlace
<1>5. 0 + InTransit(u) - InTransit(pay[p]) = GivenTwice(u) - GivenTwice(pay[p])
  <2> HIDE DEF u
  <2> QED BY <1>4
<1> QED BY <1>1, <1>2, <1>3, <1>5, StepKeeps

(* The funder's wallet is held. *)
LEMMA HoldKeeps ==
  ASSUME BankerInv, NEW p \in Tasks, HoldFund(p)
  PROVE  Keeps
<1> DEFINE operation == HoldFor("fund", pay[p].agent, pay[p].amount)
<1>1. FunderStep(p, "hold", "settle", operation)
  BY DEF HoldFund
<1>2. pay[p].agent \in Addresses /\ pay[p].amount \in Nat
  BY <1>1, TransferType DEF FunderStep, At
<1>3. IsOperation(operation) /\ Gain(operation) = 0
  BY <1>2, OperationType
<1> HIDE DEF operation
<1> QED BY <1>1, <1>3, FunderKeeps DEF Places

(* The hold is settled, and the credits are on their way. *)
LEMMA SettleKeeps ==
  ASSUME BankerInv, NEW p \in Tasks, SettleFund(p)
  PROVE  Keeps
<1> DEFINE operation == SettleFor("fund", pay[p].agent, pay[p].amount)
<1>1. FunderStep(p, "settle", "topup", operation)
  BY DEF SettleFund
<1>2. pay[p].agent \in Addresses /\ pay[p].amount \in Nat
  BY <1>1, TransferType DEF FunderStep, At
<1>3. IsOperation(operation) /\ Gain(operation) = 0 - pay[p].amount
  BY <1>2, OperationType
<1> HIDE DEF operation
<1> QED BY <1>1, <1>3, FunderKeeps DEF Places

(* The agent is given what was on its way. *)
LEMMA TopupKeeps ==
  ASSUME BankerInv, NEW p \in Tasks, TopupAgent(p)
  PROVE  Keeps
<1> DEFINE operation == Topup(pay[p].amount)
           u == Moved(pay[p], "paid")
<1>1. pay[p].at = "topup" /\ Goes(p, "paid") /\ Runs(pay[p].agent, operation) /\ UNCHANGED books
  BY DEF TopupAgent, At
<1>2. pay[p].agent \in Addresses /\ pay[p].agent \in Owners /\ pay[p].amount \in Nat
  BY <1>1, TransferType
<1>3. IsOperation(operation) /\ Gain(operation) = pay[p].amount
  BY <1>2, OperationType
<1>4. WalletsGain(pay[p].amount)
  <2> HIDE DEF operation
  <2> QED BY <1>1, <1>2, <1>3, Gains
<1>5. u.at = "paid" /\ "paid" \in Places
  BY <1>1, GoesOn DEF Places
<1>6. /\ InTransit(u) = 0 /\ GivenTwice(u) = 0
      /\ InTransit(pay[p]) = pay[p].amount /\ GivenTwice(pay[p]) = 0
  <2> HIDE DEF u
  <2> QED BY <1>1, <1>5, WorthByPlace
<1>7. pay[p].amount + InTransit(u) - InTransit(pay[p]) = GivenTwice(u) - GivenTwice(pay[p])
  <2> HIDE DEF u
  <2> QED BY <1>2, <1>6
<1> HIDE DEF operation
<1> QED BY <1>1, <1>2, <1>4, <1>5, <1>7, StepKeeps

(* The destination is given what is still to be taken. *)
LEMMA RefundKeeps ==
  ASSUME BankerInv, NEW p \in Tasks, RefundDestination(p)
  PROVE  Keeps
<1> DEFINE operation == Topup(pay[p].amount)
           u == Moved(pay[p], "empty")
           o == refund_destination_for(pay[p].agent)
<1>1. pay[p].at = "refund" /\ Goes(p, "empty") /\ Runs(o, operation) /\ UNCHANGED books
  BY DEF RefundDestination, At
<1>2. pay[p].agent \in Addresses /\ o \in Owners /\ pay[p].amount \in Nat
  BY <1>1, TransferType
<1>3. IsOperation(operation) /\ Gain(operation) = pay[p].amount
  BY <1>2, OperationType
<1>4. WalletsGain(pay[p].amount)
  <2> HIDE DEF operation, o
  <2> QED BY <1>1, <1>2, <1>3, Gains
<1>5. u.at = "empty" /\ u.amount = pay[p].amount /\ "empty" \in Places
  BY <1>1, GoesOn DEF Places
<1>6. /\ InTransit(u) = 0 /\ GivenTwice(u) = pay[p].amount
      /\ InTransit(pay[p]) = 0 /\ GivenTwice(pay[p]) = 0
  <2> HIDE DEF u
  <2> QED BY <1>1, <1>5, WorthByPlace
<1>7. pay[p].amount + InTransit(u) - InTransit(pay[p]) = GivenTwice(u) - GivenTwice(pay[p])
  <2> HIDE DEF u
  <2> QED BY <1>2, <1>6
<1> HIDE DEF operation, o
<1> QED BY <1>1, <1>2, <1>4, <1>5, <1>7, StepKeeps

(* A drain that fails leaves what it gave in the books. *)
LEMMA DrainFails ==
  ASSUME BankerInv, NEW p \in Tasks, pay[p].at \in {"empty", "drain"}, Goes(p, "failed"),
         UNCHANGED wallets, books' = [books EXCEPT !.minted = @ + pay[p].amount]
  PROVE  Keeps
<1> DEFINE u == Moved(pay[p], "failed")
<1>1. pay[p].amount \in Nat /\ WalletsGain(0)
  BY TransferType, Gains
<1>2. u.at = "failed" /\ IsTransfer(u) /\ pay' = [pay EXCEPT ![p] = u]
  BY GoesOn DEF Places
<1> HIDE DEF u
<1>3. /\ InTransit(u) = 0 /\ GivenTwice(u) = 0
      /\ InTransit(pay[p]) = 0 /\ GivenTwice(pay[p]) = pay[p].amount
  BY <1>2, WorthByPlace
<1>4. /\ books' \in [lost : Nat, minted : Nat, spent : Nat, calls : Nat, cut : Nat]
      /\ books'.lost = books.lost /\ books'.spent = books.spent
      /\ books'.minted = books.minted + pay[p].amount
  BY <1>1, BooksType
<1>5. books'.lost + books'.spent + 0 + (InTransit(u) - InTransit(pay[p])) + books.minted
        = books.lost + books.spent + (GivenTwice(u) - GivenTwice(pay[p])) + books'.minted
  BY <1>1, <1>3, <1>4, BooksType
<1>6. 0 \in Int
  OBVIOUS
<1> QED BY <1>1, <1>2, <1>4, <1>5, <1>6, MoveKeeps

(* The agent's balance is held and taken, unless a call holds part of it. *)
LEMMA HoldResidualKeeps ==
  ASSUME BankerInv, NEW p \in Tasks, HoldResidual(p)
  PROVE  Keeps
<1> DEFINE operation == HoldFor("drain", pay[p].agent, pay[p].amount)
           u == Moved(pay[p], "drain")
<1>1. pay[p].at = "empty"
  BY DEF HoldResidual, At
<1>2. pay[p].agent \in Addresses /\ pay[p].agent \in Owners /\ pay[p].amount \in Nat
  BY <1>1, TransferType
<1>3. CASE Runs(pay[p].agent, operation) /\ Goes(p, "drain") /\ UNCHANGED books
  <2>1. IsOperation(operation) /\ Gain(operation) = 0
    BY <1>2, OperationType
  <2>2. WalletsGain(0)
    <3> HIDE DEF operation
    <3> QED BY <1>2, <1>3, <2>1, Gains
  <2>3. u.at = "drain" /\ u.amount = pay[p].amount /\ "drain" \in Places
    BY <1>1, <1>3, GoesOn DEF Places
  <2>4. /\ InTransit(u) = 0 /\ GivenTwice(u) = pay[p].amount
        /\ InTransit(pay[p]) = 0 /\ GivenTwice(pay[p]) = pay[p].amount
    <3> HIDE DEF u
    <3> QED BY <1>1, <2>3, WorthByPlace
  <2>5. 0 + InTransit(u) - InTransit(pay[p]) = GivenTwice(u) - GivenTwice(pay[p])
    <3> HIDE DEF u
    <3> QED BY <1>2, <2>4
  <2> HIDE DEF operation
  <2> QED BY <1>1, <1>3, <2>2, <2>3, <2>5, StepKeeps
<1>4. CASE /\ Raises(pay[p].agent, operation) /\ Goes(p, "failed")
           /\ books' = [books EXCEPT !.minted = @ + pay[p].amount]
  <2>1. UNCHANGED wallets
    BY <1>4 DEF Raises
  <2> QED BY <1>1, <1>4, <2>1, DrainFails
<1> QED BY <1>3, <1>4 DEF HoldResidual

(* The agent's balance is taken, after which it is given once only. *)
LEMMA SettleResidualKeeps ==
  ASSUME BankerInv, NEW p \in Tasks, SettleResidual(p)
  PROVE  Keeps
<1> DEFINE operation == SettleFor("drain", pay[p].agent, pay[p].amount)
           u == Moved(pay[p], "paid")
<1>1. pay[p].at = "drain"
  BY DEF SettleResidual, At
<1>2. /\ pay[p].agent \in Addresses /\ pay[p].agent \in Owners /\ pay[p].amount \in Nat
      /\ 0 - pay[p].amount \in Int
  BY <1>1, TransferType
<1>3. CASE Runs(pay[p].agent, operation) /\ Goes(p, "paid") /\ UNCHANGED books
  <2>1. IsOperation(operation) /\ Gain(operation) = 0 - pay[p].amount
    BY <1>2, OperationType
  <2>2. WalletsGain(0 - pay[p].amount)
    <3> HIDE DEF operation
    <3> QED BY <1>2, <1>3, <2>1, Gains
  <2>3. u.at = "paid" /\ "paid" \in Places
    BY <1>1, <1>3, GoesOn DEF Places
  <2>4. /\ InTransit(u) = 0 /\ GivenTwice(u) = 0
        /\ InTransit(pay[p]) = 0 /\ GivenTwice(pay[p]) = pay[p].amount
    <3> HIDE DEF u
    <3> QED BY <1>1, <2>3, WorthByPlace
  <2>5. (0 - pay[p].amount) + InTransit(u) - InTransit(pay[p]) = GivenTwice(u) - GivenTwice(pay[p])
    <3> HIDE DEF u
    <3> QED BY <1>2, <2>4
  <2> HIDE DEF operation
  <2> QED BY <1>1, <1>2, <1>3, <2>2, <2>3, <2>5, StepKeeps
<1>4. CASE /\ Raises(pay[p].agent, operation) /\ Goes(p, "failed")
           /\ books' = [books EXCEPT !.minted = @ + pay[p].amount]
  <2>1. UNCHANGED wallets
    BY <1>4 DEF Raises
  <2> QED BY <1>1, <1>4, <2>1, DrainFails
<1> QED BY <1>3, <1>4 DEF SettleResidual

-----------------------------------------------------------------------------
(* A transfer that stops leaves what was under way in the books. *)
LEMMA AbandonKeeps ==
  ASSUME BankerInv, NEW p \in Tasks, AbandonPay(p)
  PROVE  Keeps
<1> DEFINE u == Moved(pay[p], "failed")
<1>1. pay[p].at # "none" /\ Goes(p, "failed") /\ WalletsGain(0)
  BY Gains DEF AbandonPay
<1>2. u.at = "failed" /\ IsTransfer(u) /\ pay' = [pay EXCEPT ![p] = u]
  BY <1>1, GoesOn DEF Places
<1> HIDE DEF u
<1>3. /\ InTransit(u) = 0 /\ GivenTwice(u) = 0
      /\ InTransit(pay[p]) \in Nat /\ GivenTwice(pay[p]) \in Nat
  BY <1>2, WorthByPlace, TransferWorth DEF BankerInv, BankerTypeOK
<1>4. /\ books' \in [lost : Nat, minted : Nat, spent : Nat, calls : Nat, cut : Nat]
      /\ books'.lost = books.lost + InTransit(pay[p]) /\ books'.spent = books.spent
      /\ books'.minted = books.minted + GivenTwice(pay[p])
  <2> DEFINE lost == InTransit(pay[p])  minted == GivenTwice(pay[p])
  <2>1. books' = [books EXCEPT !.cut = @ + 1, !.lost = @ + lost, !.minted = @ + minted]
    BY DEF AbandonPay
  <2>2. lost \in Nat /\ minted \in Nat /\ books.cut \in Nat
    BY <1>3, BooksType
  <2> HIDE DEF lost, minted
  <2>3. /\ books' \in [lost : Nat, minted : Nat, spent : Nat, calls : Nat, cut : Nat]
        /\ books'.lost = books.lost + lost /\ books'.spent = books.spent
        /\ books'.minted = books.minted + minted
    <3>1. books = [lost |-> books.lost, minted |-> books.minted, spent |-> books.spent,
                   calls |-> books.calls, cut |-> books.cut]
          /\ books.calls \in Nat
      BY BooksType
    <3>2. books' = [lost |-> books.lost + lost, minted |-> books.minted + minted,
                    spent |-> books.spent, calls |-> books.calls, cut |-> books.cut + 1]
      BY <2>1, <3>1
    <3>3. /\ books.lost + lost \in Nat /\ books.minted + minted \in Nat
          /\ books.spent \in Nat /\ books.cut + 1 \in Nat
      BY <2>2, BooksType
    <3> QED BY <3>1, <3>2, <3>3
  <2> QED BY <2>3 DEF lost, minted
<1>5. books'.lost + books'.spent + 0 + (InTransit(u) - InTransit(pay[p])) + books.minted
        = books.lost + books.spent + (GivenTwice(u) - GivenTwice(pay[p])) + books'.minted
  BY <1>3, <1>4, BooksType
<1>6. 0 \in Int
  OBVIOUS
<1> QED BY <1>1, <1>2, <1>4, <1>5, <1>6, MoveKeeps

(* A transfer that has ended has nothing under way any more. *)
LEMMA EndKeeps ==
  ASSUME BankerInv, NEW p \in Tasks, TransferEnds(p)
  PROVE  Keeps
<1>1. /\ pay[p].at \in {"paid", "failed"} /\ pay' = [pay EXCEPT ![p] = NoPay]
      /\ WalletsGain(0) /\ UNCHANGED books
  BY Gains DEF TransferEnds
<1>2. IsTransfer(NoPay) /\ NoPay.at = "none"
  BY DEF IsTransfer, NoPay
<1>3. /\ InTransit(NoPay) = 0 /\ GivenTwice(NoPay) = 0
      /\ InTransit(pay[p]) = 0 /\ GivenTwice(pay[p]) = 0
  BY <1>1, <1>2, WorthByPlace
<1>4. books'.lost + books'.spent + 0 + (InTransit(NoPay) - InTransit(pay[p])) + books.minted
        = books.lost + books.spent + (GivenTwice(NoPay) - GivenTwice(pay[p])) + books'.minted
  BY <1>1, <1>3, BooksType
<1>5. books' \in [lost : Nat, minted : Nat, spent : Nat, calls : Nat, cut : Nat] /\ 0 \in Int
  BY <1>1, BooksType
<1> QED BY <1>1, <1>2, <1>4, <1>5, MoveKeeps

(* A call of an agent touches its wallet and the books only. *)
LEMMA CallKeeps ==
  ASSUME BankerInv, UNCHANGED pay, NEW price \in Nat, WalletsGain(0 - price),
         books' \in [lost : Nat, minted : Nat, spent : Nat, calls : Nat, cut : Nat],
         books'.lost = books.lost, books'.minted = books.minted,
         books'.spent = books.spent + price
  PROVE  Keeps
<1>1. BankerInv'
  BY DEF BankerInv, BankerTypeOK, PursesSound, WalletsGain
<1>2. Worth(wallets) \in Nat /\ OnTheWay(pay) \in Nat /\ Advanced(pay) \in Nat
  BY Numbers
<1>3. OnTheWay(pay') = OnTheWay(pay) + 0 /\ Advanced(pay') = Advanced(pay) + 0
  BY <1>2
<1>4. Worth(wallets') = Worth(wallets) + (0 - price)
  BY DEF WalletsGain
<1>5. books'.lost + books'.spent + (0 - price) + 0 + books.minted
        = books.lost + books.spent + 0 + books'.minted
  BY BooksType
<1>6. 0 \in Int /\ 0 - price \in Int
  OBVIOUS
<1> QED BY <1>1, <1>2, <1>3, <1>4, <1>5, <1>6, Account

(* An agent's own call reserves credits. *)
LEMMA OpenKeeps ==
  ASSUME BankerInv, NEW a \in Addresses, OpenCall(a)
  PROVE  Keeps
<1> DEFINE operation == HoldFor("call", a, 1)
<1>1. Runs(a, operation) /\ UNCHANGED pay
  BY DEF OpenCall
<1>2. IsOperation(operation) /\ Gain(operation) = 0 - 0
  BY OperationType
<1>3. a \in Owners
  BY PartiesHaveWallets
<1> HIDE DEF operation
<1>4. WalletsGain(0 - 0)
  BY <1>1, <1>2, <1>3, Gains
<1>5. /\ books' \in [lost : Nat, minted : Nat, spent : Nat, calls : Nat, cut : Nat]
      /\ books'.lost = books.lost /\ books'.minted = books.minted
      /\ books'.spent = books.spent + 0
  BY BooksType DEF OpenCall
<1>6. 0 \in Nat
  OBVIOUS
<1> QED BY <1>1, <1>4, <1>5, <1>6, CallKeeps

(* An agent's own call is paid for. *)
LEMMA CloseKeeps ==
  ASSUME BankerInv, NEW a \in Addresses, CloseCall(a)
  PROVE  Keeps
<1>1. PICK price \in {0, 1} : /\ Runs(a, SettleFor("call", a, price))
                              /\ books' = [books EXCEPT !.spent = @ + price]
  BY DEF CloseCall
<1> DEFINE operation == SettleFor("call", a, price)
<1>2. UNCHANGED pay /\ price \in Nat
  BY DEF CloseCall
<1>3. IsOperation(operation) /\ Gain(operation) = 0 - price
  BY <1>2, OperationType
<1>4. a \in Owners
  BY PartiesHaveWallets
<1>5. Runs(a, operation)
  BY <1>1
<1> HIDE DEF operation
<1>6. WalletsGain(0 - price)
  BY <1>3, <1>4, <1>5, Gains
<1>7. /\ books' \in [lost : Nat, minted : Nat, spent : Nat, calls : Nat, cut : Nat]
      /\ books'.lost = books.lost /\ books'.minted = books.minted
      /\ books'.spent = books.spent + price
  BY <1>1, <1>2, BooksType
<1> QED BY <1>2, <1>6, <1>7, CallKeeps

-----------------------------------------------------------------------------
(* Every step of the banker keeps the invariant and the account. *)
LEMMA NextKeeps ==
  ASSUME BankerInv, BankerNext
  PROVE  Keeps
<1>1. ASSUME NEW p \in Tasks, Transfer(p) PROVE Keeps
  BY <1>1, TransferKeeps
<1>2. ASSUME NEW p \in Tasks, TransferStep(p) PROVE Keeps
  BY <1>2, CheckKeeps, HoldKeeps, SettleKeeps, TopupKeeps, RefundKeeps,
     HoldResidualKeeps, SettleResidualKeeps, AbandonKeeps DEF TransferStep
<1>3. ASSUME NEW p \in Tasks, TransferEnds(p) PROVE Keeps
  BY <1>3, EndKeeps
<1>4. ASSUME NEW a \in Addresses, OpenCall(a) \/ CloseCall(a) PROVE Keeps
  BY <1>4, OpenKeeps, CloseKeeps
<1> QED BY <1>1, <1>2, <1>3, <1>4 DEF BankerNext

(* At the start every wallet is fresh and nothing is under way. *)
LEMMA StartsKept == BankerInit => BankerInv /\ CreditsAreTraced
<1> SUFFICES ASSUME BankerInit PROVE BankerInv /\ CreditsAreTraced
  OBVIOUS
<1>1. \A o \in Owners : wallets[o] = FreshWallet
  BY DEF BankerInit
<1>2. IsWallet(FreshWallet, HoldIds) /\ Sound(FreshWallet)
  BY FreshWalletSound DEF IsWallet
<1>3. \A p \in Tasks : pay[p] = NoPay
  BY DEF BankerInit
<1>4. IsTransfer(NoPay) /\ InTransit(NoPay) = 0 /\ GivenTwice(NoPay) = 0
  BY DEF IsTransfer, InTransit, GivenTwice, NoPay
<1>5. BankerInv
  <2>1. DOMAIN wallets = Owners /\ DOMAIN pay = Tasks
    BY DEF BankerInit
  <2>2. books \in [lost : Nat, minted : Nat, spent : Nat, calls : Nat, cut : Nat]
    BY DEF BankerInit
  <2>3. \A o \in Owners : IsWallet(wallets[o], HoldIds) /\ Sound(wallets[o])
    BY <1>1, <1>2
  <2>4. \A p \in Tasks : IsTransfer(pay[p])
    BY <1>3, <1>4
  <2> QED BY <2>1, <2>2, <2>3, <2>4 DEF BankerInv, BankerTypeOK, PursesSound
<1>6. Worth(wallets) = Initially
  <2>1. [o \in Owners |-> wallets[o].balance] = [o \in Owners |-> INITIAL_FUND]
    BY <1>1 DEF FreshWallet
  <2> QED BY <2>1 DEF Worth, Initially
<1>7. OnTheWay(pay) = Advanced(pay)
  <2>1. [p \in Tasks |-> InTransit(pay[p])] = [p \in Tasks |-> GivenTwice(pay[p])]
    BY <1>3, <1>4
  <2> QED BY <2>1 DEF OnTheWay, Advanced
<1>8. books.lost = 0 /\ books.spent = 0 /\ books.minted = 0
  BY DEF BankerInit
<1>9. Worth(wallets) \in Nat /\ OnTheWay(pay) \in Nat
  BY <1>5, Numbers
<1>10. CreditsAreTraced
  BY <1>6, <1>7, <1>8, <1>9 DEF CreditsAreTraced
<1> QED BY <1>5, <1>10

(* The invariant is inductive. *)
LEMMA InvKept == BankerInv /\ [BankerNext]_banker_vars => BankerInv'
<1> SUFFICES ASSUME BankerInv, [BankerNext]_banker_vars PROVE BankerInv'
  OBVIOUS
<1>1. CASE BankerNext
  BY <1>1, NextKeeps DEF Keeps
<1>2. CASE UNCHANGED banker_vars
  BY <1>2 DEF BankerInv, BankerTypeOK, PursesSound, banker_vars
<1> QED BY <1>1, <1>2

(* Wallets, transfers and books stay well formed. *)
THEOREM BankerTypes == BankerSpec => []BankerTypeOK
<1>1. BankerInit => BankerInv
  BY StartsKept
<1>2. BankerInv /\ [BankerNext]_banker_vars => BankerInv'
  BY InvKept
<1>3. BankerInv => BankerTypeOK
  BY DEF BankerInv
<1> QED BY <1>1, <1>2, <1>3, PTL DEF BankerSpec

(* No overlap of transfers and calls breaks a wallet's books. *)
THEOREM BankerPurses == BankerSpec => []PursesSound
<1>1. BankerInit => BankerInv
  BY StartsKept
<1>2. BankerInv /\ [BankerNext]_banker_vars => BankerInv'
  BY InvKept
<1>3. BankerInv => PursesSound
  BY DEF BankerInv
<1> QED BY <1>1, <1>2, <1>3, PTL DEF BankerSpec

(* However transfers overlap, fail or stop half way, every credit is       *)
(* accounted for: by the wallets, by a transfer under way or by the books. *)
THEOREM BankerTraces == BankerSpec => []CreditsAreTraced
<1> DEFINE Kept == BankerInv /\ CreditsAreTraced
<1>1. BankerInit => Kept
  BY StartsKept
<1>2. Kept /\ [BankerNext]_banker_vars => Kept'
  <2> SUFFICES ASSUME Kept, [BankerNext]_banker_vars PROVE Kept'
    OBVIOUS
  <2>1. CASE BankerNext
    BY <2>1, NextKeeps DEF Keeps
  <2>2. CASE UNCHANGED banker_vars
    BY <2>2 DEF BankerInv, BankerTypeOK, PursesSound, banker_vars, CreditsAreTraced,
                Initially, Worth, OnTheWay, Advanced
  <2> QED BY <2>1, <2>2
<1>3. Kept => CreditsAreTraced
  OBVIOUS
<1> QED BY <1>1, <1>2, <1>3, PTL DEF BankerSpec

-----------------------------------------------------------------------------
(* The community. *)
IsJob(j) ==
    j = [at |-> j.at, kind |-> j.kind, spec |-> j.spec, todo |-> j.todo, new |-> j.new,
         reused |-> j.reused, paid |-> j.paid, retries |-> j.retries]

(* While an invitation funds its agents, each is paid for or still to be   *)
(* paid for, the first of these by the transfer that is under way.         *)
Invites(j, t) ==
    /\ j.todo \in Seq(Addresses) /\ j.new \in Seq(Addresses)
    /\ j.at = "fund" => ToSet(j.new) \subseteq j.paid \cup ToSet(j.todo)
    /\ j.at \in {"register", "start"} => ToSet(j.new) \subseteq j.paid
    /\ t.at # "none" => j.at = "fund" /\ j.todo # <<>> /\ t.agent = Head(j.todo)

(* A task banks only while it invites. *)
Orderly(j, t) ==
    \/ j = NoJob /\ t.at = "none"
    \/ IsJob(j) /\ j.kind = "spawn" /\ j.at \notin {"ask", "fund"} /\ t.at = "none"
    \/ IsJob(j) /\ j.kind = "invite" /\ Invites(j, t)

JobsOrderly == DOMAIN job = Spawners /\ \A p \in Spawners : Orderly(job[p], pay[p])
CommunityInv == BankerInv /\ JobsOrderly

-----------------------------------------------------------------------------
(* The elements of a sequence are its head and those of its tail. *)
LEMMA Elements ==
  ASSUME NEW S, NEW s \in Seq(S), s # <<>>
  PROVE  /\ Head(s) \in S /\ Tail(s) \in Seq(S)
         /\ \A x : x \in ToSet(s) => x = Head(s) \/ x \in ToSet(Tail(s))
<1>1. /\ Head(s) \in S /\ Tail(s) \in Seq(S) /\ Len(Tail(s)) = Len(s) - 1
      /\ \A i \in 1 .. Len(Tail(s)) : Tail(s)[i] = s[i + 1]
  BY HeadTailProperties
<1>2. ASSUME NEW x, x \in ToSet(s), x # Head(s) PROVE x \in ToSet(Tail(s))
  <2>1. PICK i \in 1 .. Len(s) : x = s[i]
    BY <1>2 DEF ToSet
  <2>2. i # 1
    BY <1>2, <2>1
  <2>3. i - 1 \in 1 .. Len(Tail(s)) /\ (i - 1) + 1 = i
    BY <1>1, <2>2
  <2>4. Tail(s)[i - 1] = x
    BY <1>1, <2>1, <2>3
  <2>5. DOMAIN Tail(s) = 1 .. Len(Tail(s))
    BY <1>1
  <2> QED BY <2>3, <2>4, <2>5 DEF ToSet
<1> QED BY <1>1, <1>2

(* A sequence without elements has none. *)
LEMMA NoElements == ToSet(<<>>) = {}
BY DEF ToSet

(* A task that changes its own job and transfer leaves the others alone.   *)
LEMMA OneJob ==
  ASSUME CommunityInv, NEW p \in Spawners,
         DOMAIN job' = Spawners, \A q \in Spawners : q # p => job'[q] = job[q],
         \A q \in Tasks : q # p => pay'[q] = pay[q],
         Orderly(job'[p], pay'[p])
  PROVE  JobsOrderly'
<1>1. ASSUME NEW q \in Spawners PROVE Orderly(job'[q], pay'[q])
  <2>1. q \in Tasks
    BY CommunityAssumption
  <2>2. CASE q # p
    <3>1. job'[q] = job[q] /\ pay'[q] = pay[q] /\ Orderly(job[q], pay[q])
      BY <2>1, <2>2 DEF CommunityInv, JobsOrderly
    <3> QED BY <3>1
  <2> QED BY <2>2
<1> QED BY <1>1 DEF JobsOrderly

(* A job replaced by another, with the transfers as they are. *)
LEMMA JobReplaced ==
  ASSUME CommunityInv, NEW p \in Spawners, NEW j, job' = [job EXCEPT ![p] = j],
         pay' = pay, Orderly(j, pay[p])
  PROVE  JobsOrderly'
<1>1. DOMAIN job = Spawners
  BY DEF CommunityInv, JobsOrderly
<1>2. /\ DOMAIN job' = Spawners /\ job'[p] = j
      /\ \A q \in Spawners : q # p => job'[q] = job[q]
  BY <1>1
<1>3. Orderly(job'[p], pay'[p])
  BY <1>2
<1> QED BY <1>2, <1>3, OneJob

(* What is known of the job of a task that is at some place. *)
LEMMA AtWork ==
  ASSUME CommunityInv, NEW p \in Spawners, job[p].at # "idle"
  PROVE  /\ IsJob(job[p]) /\ job[p].kind \in {"spawn", "invite"}
         /\ job[p].kind = "spawn" => job[p].at \notin {"ask", "fund"} /\ pay[p].at = "none"
         /\ job[p].kind = "invite" => Invites(job[p], pay[p])
         /\ job[p].at # "fund" => pay[p].at = "none"
<1>1. Orderly(job[p], pay[p])
  BY DEF CommunityInv, JobsOrderly
<1>2. job[p] # NoJob
  BY DEF NoJob
<1> QED BY <1>1, <1>2 DEF Orderly, Invites

-----------------------------------------------------------------------------
(* A call of the factory begins, whichever it is, with nothing to fund. *)
LEMMA BeginsOrderly ==
  ASSUME CommunityInv, NEW p \in Spawners,
         Invite(p) \/ \E spec \in Specs : Spawn(p, spec)
  PROVE  JobsOrderly' /\ UNCHANGED banker_vars
<1>1. pay[p].at = "none"
  <2>1. CASE job[p].at = "idle"
    BY <2>1 DEF CommunityInv, JobsOrderly, Orderly, Invites
  <2>2. CASE job[p].at # "idle"
    <3>1. job[p].at # "fund"
      BY <2>2 DEF Invite, Spawn, Starts, Busy
    <3> QED BY <2>2, <3>1, AtWork
  <2> QED BY <2>1, <2>2
<1>2. CASE Invite(p)
  <2> DEFINE j == NewJob("invite", <<>>, "ask", <<>>)
  <2>1. job' = [job EXCEPT ![p] = j] /\ UNCHANGED banker_vars
    BY <1>2 DEF Invite
  <2>2. IsJob(j) /\ j.kind = "invite" /\ j.at = "ask" /\ j.todo = <<>> /\ j.new = <<>>
    BY DEF NewJob, IsJob
  <2> HIDE DEF j
  <2>3. <<>> \in Seq(Addresses)
    BY EmptySeq
  <2>4. Orderly(j, pay[p])
    BY <1>1, <2>2, <2>3 DEF Orderly, Invites
  <2> QED BY <2>1, <2>4, JobReplaced DEF banker_vars
<1>3. ASSUME NEW spec \in Specs, Spawn(p, spec)
      PROVE  JobsOrderly' /\ UNCHANGED banker_vars
  <2>1. PICK addresses : job' = [job EXCEPT ![p] = NewJob("spawn", spec, "check", addresses)]
    BY <1>3 DEF Spawn
  <2> DEFINE j == NewJob("spawn", spec, "check", addresses)
  <2>2. IsJob(j) /\ j.kind = "spawn" /\ j.at = "check"
    BY DEF NewJob, IsJob
  <2>3. UNCHANGED banker_vars
    BY <1>3 DEF Spawn
  <2> HIDE DEF j
  <2>4. Orderly(j, pay[p])
    BY <1>1, <2>2 DEF Orderly
  <2>5. job' = [job EXCEPT ![p] = j]
    BY <2>1 DEF j
  <2> QED BY <2>3, <2>4, <2>5, JobReplaced DEF banker_vars
<1> QED BY <1>2, <1>3

(* A job that only changes its place stays orderly, except that it may not *)
(* go on to provision without having funded.                               *)
LEMMA PlaceOrderly ==
  ASSUME CommunityInv, NEW p \in Spawners, job[p].at \notin {"idle", "fund"},
         NEW where \in {"ask", "raised", "done"}, where = "ask" => job[p].at = "ask",
         NEW retries, UNCHANGED banker_vars,
         job' = [job EXCEPT ![p] = [job[p] EXCEPT !.at = where, !.retries = retries]]
  PROVE  JobsOrderly'
<1> DEFINE j == [job[p] EXCEPT !.at = where, !.retries = retries]
<1>1. IsJob(job[p])
  BY AtWork
<1>2. /\ IsJob(j) /\ j.kind = job[p].kind /\ j.at = where
      /\ j.todo = job[p].todo /\ j.new = job[p].new
  <2> DEFINE i == [job[p] EXCEPT !.at = where]
  <2>1. /\ IsJob(i) /\ i.kind = job[p].kind /\ i.at = where
        /\ i.todo = job[p].todo /\ i.new = job[p].new
    BY <1>1 DEF IsJob
  <2>2. j = [i EXCEPT !.retries = retries]
    BY <1>1 DEF IsJob
  <2> HIDE DEF i, j
  <2> QED BY <2>1, <2>2 DEF IsJob
<1>3. job' = [job EXCEPT ![p] = j]
  OBVIOUS
<1> HIDE DEF j
<1>4. Orderly(j, pay[p])
  BY <1>2, AtWork DEF Orderly, Invites
<1> QED BY <1>3, <1>4, JobReplaced DEF banker_vars

(* A failed answer of the model is asked for again, or the call raises.    *)
LEMMA ParseErrorOrderly ==
  ASSUME CommunityInv, NEW p \in Spawners, _ParseError(p)
  PROVE  JobsOrderly' /\ UNCHANGED banker_vars
<1>1. job[p].at = "ask" /\ UNCHANGED banker_vars
  BY DEF _ParseError, Is
<1> DEFINE where == IF job[p].retries = max_retries THEN "raised" ELSE "ask"
           retries == job[p].retries + 1
<1>2. IsJob(job[p])
  BY <1>1, AtWork
<1>3. job' = [job EXCEPT ![p] = [job[p] EXCEPT !.at = where, !.retries = retries]]
  BY <1>2 DEF _ParseError, IsJob
<1>4. where \in {"ask", "raised", "done"}
  OBVIOUS
<1> HIDE DEF where, retries
<1> QED BY <1>1, <1>3, <1>4, PlaceOrderly

(* A call raises before it funds or after. *)
LEMMA RaiseOrderly ==
  ASSUME CommunityInv, NEW p \in Spawners, Raise(p)
  PROVE  JobsOrderly' /\ UNCHANGED banker_vars
<1>1. /\ job[p].at \in {"check", "register", "start"} /\ UNCHANGED banker_vars
      /\ job' = [job EXCEPT ![p].at = "raised"]
  BY DEF Raise, Becomes
<1>2. IsJob(job[p])
  BY <1>1, AtWork
<1>3. job' = [job EXCEPT ![p] = [job[p] EXCEPT !.at = "raised", !.retries = job[p].retries]]
  BY <1>1, <1>2 DEF IsJob
<1> QED BY <1>1, <1>3, PlaceOrderly

(* The slate of an invitation is a sequence of agents. *)
LEMMA SlateOrderly ==
  ASSUME CommunityInv, NEW p \in Spawners, _parse_slate(p)
  PROVE  JobsOrderly' /\ UNCHANGED banker_vars
<1>1. job[p].at = "ask" /\ UNCHANGED banker_vars
  BY DEF _parse_slate, Is
<1>2. PICK slugs \in kSubset(Slate, Addresses) : \E order \in SetToSeqs(slugs) :
         job' = [job EXCEPT ![p].at = "check", ![p].todo = order]
  BY DEF _parse_slate
<1>3. PICK order \in SetToSeqs(slugs) :
         job' = [job EXCEPT ![p].at = "check", ![p].todo = order]
  BY <1>2
<1>4. order \in Seq(Addresses)
  <2>1. slugs \subseteq Addresses /\ Cardinality(slugs) = Slate /\ Slate \in Nat
    BY CommunityAssumption DEF kSubset
  <2>2. order \in [1 .. Slate -> slugs]
    BY <2>1 DEF SetToSeqs
  <2>3. order \in [1 .. Slate -> Addresses]
    BY <2>1, <2>2
  <2> QED BY <2>1, <2>3
<1> DEFINE j == [job[p] EXCEPT !.at = "check", !.todo = order]
<1>5. IsJob(job[p]) /\ pay[p].at = "none" /\ job[p].kind = "invite" /\ Invites(job[p], pay[p])
  BY <1>1, AtWork
<1>6. /\ IsJob(j) /\ j.kind = "invite" /\ j.at = "check"
      /\ j.todo = order /\ j.new = job[p].new
  <2> DEFINE i == [job[p] EXCEPT !.at = "check"]
  <2>1. IsJob(i) /\ i.kind = "invite" /\ i.at = "check" /\ i.new = job[p].new
    BY <1>5 DEF IsJob
  <2>2. j = [i EXCEPT !.todo = order]
    BY <1>5 DEF IsJob
  <2> HIDE DEF i, j
  <2> QED BY <2>1, <2>2 DEF IsJob
<1>7. job' = [job EXCEPT ![p] = j]
  BY <1>3
<1> HIDE DEF j
<1>8. Orderly(j, pay[p])
  BY <1>4, <1>5, <1>6 DEF Orderly, Invites
<1> QED BY <1>1, <1>7, <1>8, JobReplaced DEF banker_vars

(* An address is checked, and is to be built or reused. *)
LEMMA CheckOrderly ==
  ASSUME CommunityInv, NEW p \in Spawners, Check(p)
  PROVE  JobsOrderly' /\ UNCHANGED banker_vars
<1>1. job[p].at = "check" /\ job[p].todo # <<>> /\ UNCHANGED banker_vars
  BY DEF Check, Is
<1>2. /\ IsJob(job[p]) /\ pay[p].at = "none" /\ job[p].kind \in {"spawn", "invite"}
      /\ job[p].kind = "invite" => Invites(job[p], pay[p])
  BY <1>1, AtWork
<1> DEFINE a == Head(job[p].todo)
           used == [job[p] EXCEPT !.todo = Tail(@), !.reused = @ \cup {a}]
           built == [job[p] EXCEPT !.todo = Tail(@), !.new = Append(@, a)]
<1>3. PICK j \in {used, built} : job' = [job EXCEPT ![p] = j]
  BY DEF Check
<1>4. /\ IsJob(j) /\ j.kind = job[p].kind /\ j.at = "check" /\ j.todo = Tail(job[p].todo)
      /\ j.new = job[p].new \/ j.new = Append(job[p].new, a)
  BY <1>1, <1>2 DEF IsJob
<1>5. ASSUME job[p].kind = "invite"
      PROVE  j.todo \in Seq(Addresses) /\ j.new \in Seq(Addresses)
  <2>1. job[p].todo \in Seq(Addresses) /\ job[p].new \in Seq(Addresses)
    BY <1>2, <1>5 DEF Invites
  <2>2. a \in Addresses /\ Tail(job[p].todo) \in Seq(Addresses)
    BY <1>1, <2>1, Elements
  <2>3. Append(job[p].new, a) \in Seq(Addresses)
    BY <2>1, <2>2, AppendProperties
  <2> QED BY <1>4, <2>1, <2>2, <2>3
<1>6. Orderly(j, pay[p])
  BY <1>2, <1>4, <1>5 DEF Orderly, Invites
<1> QED BY <1>1, <1>3, <1>6, JobReplaced DEF banker_vars

-----------------------------------------------------------------------------
(* A job at its next place, with what is left to do there. *)
Turned(j, where, todo) == [j EXCEPT !.at = where, !.todo = todo]

(* Nothing else of the job changes. *)
LEMMA TurnedType ==
  ASSUME NEW j, IsJob(j), NEW where, NEW todo
  PROVE  /\ IsJob(Turned(j, where, todo)) /\ Turned(j, where, todo).kind = j.kind
         /\ Turned(j, where, todo).at = where /\ Turned(j, where, todo).todo = todo
         /\ Turned(j, where, todo).new = j.new /\ Turned(j, where, todo).paid = j.paid
<1> DEFINE i == [j EXCEPT !.at = where]
           u == Turned(j, where, todo)
<1>1. IsJob(i) /\ i.kind = j.kind /\ i.at = where /\ i.new = j.new /\ i.paid = j.paid
  BY DEF IsJob
<1>2. u = [i EXCEPT !.todo = todo]
  BY DEF IsJob, Turned
<1> HIDE DEF i, u
<1>3. /\ IsJob(u) /\ u.kind = j.kind /\ u.at = where /\ u.todo = todo
      /\ u.new = j.new /\ u.paid = j.paid
  BY <1>1, <1>2 DEF IsJob
<1> QED BY <1>3 DEF u

(* When every address has been looked at, the new agents of an invitation  *)
(* are all still to be funded.                                             *)
LEMMA BuiltOrderly ==
  ASSUME CommunityInv, NEW p \in Spawners, Built(p)
  PROVE  JobsOrderly' /\ UNCHANGED banker_vars
<1>1. job[p].at = "check" /\ UNCHANGED banker_vars
  BY DEF Built, Is
<1> DEFINE where == IF job[p].kind = "invite" THEN "fund" ELSE "register"
           j == Turned(job[p], where, job[p].new)
<1>2. job' = [job EXCEPT ![p] = j]
  BY DEF Built, Turned
<1>3. /\ IsJob(job[p]) /\ pay[p].at = "none" /\ job[p].kind \in {"spawn", "invite"}
      /\ job[p].kind = "invite" => Invites(job[p], pay[p])
  BY <1>1, AtWork
<1>4. /\ IsJob(j) /\ j.kind = job[p].kind /\ j.at = where
      /\ j.todo = job[p].new /\ j.new = job[p].new
  BY <1>3, TurnedType
<1>5. where = IF job[p].kind = "invite" THEN "fund" ELSE "register"
  OBVIOUS
<1> HIDE DEF j, where
<1>6. Orderly(j, pay[p])
  BY <1>3, <1>4, <1>5 DEF Orderly, Invites
<1> QED BY <1>1, <1>2, <1>6, JobReplaced DEF banker_vars

(* The next agent is funded by a transfer of its own. *)
LEMMA FundNextOrderly ==
  ASSUME CommunityInv, NEW p \in Spawners, FundNext(p)
  PROVE  JobsOrderly' /\ Transfer(p)
<1> DEFINE a == Head(job[p].todo)
           t == [at |-> "check", agent |-> a, amount |-> FundAmount(a)]
<1>1. /\ job[p].at = "fund" /\ job[p].todo # <<>> /\ UNCHANGED job
      /\ At(p, "none") /\ FundAgent(p, a)
  BY DEF FundNext, Is, community_vars
<1>2. IsJob(job[p]) /\ job[p].kind = "invite" /\ Invites(job[p], pay[p])
  BY <1>1, AtWork
<1>3. a \in Addresses
  BY <1>1, <1>2, Elements DEF Invites
<1>4. p \in Tasks /\ DOMAIN pay = Tasks /\ DOMAIN job = Spawners
  BY CommunityAssumption DEF CommunityInv, BankerInv, BankerTypeOK, JobsOrderly
<1>5. pay' = [pay EXCEPT ![p] = t] /\ t.at = "check" /\ t.agent = a
  BY <1>1 DEF FundAgent
<1> HIDE DEF t
<1>6. pay'[p] = t /\ \A q \in Tasks : q # p => pay'[q] = pay[q]
  BY <1>4, <1>5
<1>7. Invites(job[p], t)
  BY <1>1, <1>2, <1>5 DEF Invites
<1>8. Orderly(job'[p], pay'[p])
  BY <1>1, <1>2, <1>6, <1>7 DEF Orderly
<1>9. JobsOrderly'
  BY <1>1, <1>4, <1>6, <1>8, OneJob
<1> QED BY <1>1, <1>3, <1>9 DEF Transfer

(* An agent is done with when its transfer was paid; otherwise the         *)
(* invitation raises.                                                      *)
LEMMA FundedOrderly ==
  ASSUME CommunityInv, NEW p \in Spawners, Funded(p)
  PROVE  JobsOrderly' /\ TransferEnds(p)
<1>1. job[p].at = "fund" /\ TransferEnds(p) /\ pay[p].at \in {"paid", "failed"}
  BY DEF Funded, Is, TransferEnds
<1>2. IsJob(job[p]) /\ job[p].kind = "invite" /\ Invites(job[p], pay[p])
  BY <1>1, AtWork
<1>3. /\ job[p].todo # <<>> /\ pay[p].agent = Head(job[p].todo)
      /\ job[p].todo \in Seq(Addresses) /\ job[p].new \in Seq(Addresses)
      /\ ToSet(job[p].new) \subseteq job[p].paid \cup ToSet(job[p].todo)
  BY <1>1, <1>2 DEF Invites
<1>4. p \in Tasks /\ DOMAIN pay = Tasks /\ DOMAIN job = Spawners
  BY CommunityAssumption DEF CommunityInv, BankerInv, BankerTypeOK, JobsOrderly
<1>5. pay'[p] = NoPay /\ \A q \in Tasks : q # p => pay'[q] = pay[q]
  BY <1>1, <1>4 DEF TransferEnds
<1>6. NoPay.at = "none"
  BY DEF NoPay
<1>7. ASSUME NEW j, job' = [job EXCEPT ![p] = j], Orderly(j, NoPay) PROVE JobsOrderly'
  <2>1. /\ DOMAIN job' = Spawners /\ job'[p] = j
        /\ \A q \in Spawners : q # p => job'[q] = job[q]
    BY <1>4, <1>7
  <2>2. Orderly(job'[p], pay'[p])
    BY <1>5, <1>7, <2>1
  <2> QED BY <1>5, <2>1, <2>2, OneJob
<1>8. CASE At(p, "paid")
  <2> DEFINE i == Turned(job[p], "fund", Tail(job[p].todo))
             j == [job[p] EXCEPT !.todo = Tail(@), !.paid = @ \cup {pay[p].agent}]
  <2>1. job' = [job EXCEPT ![p] = j]
    BY <1>8 DEF Funded
  <2>2. /\ IsJob(i) /\ i.kind = "invite" /\ i.at = "fund" /\ i.new = job[p].new
        /\ i.todo = Tail(job[p].todo) /\ i.paid = job[p].paid
    BY <1>2, TurnedType
  <2>3. j = [i EXCEPT !.paid = job[p].paid \cup {pay[p].agent}]
    BY <1>1, <1>2 DEF IsJob, Turned
  <2> HIDE DEF i, j
  <2>4. /\ IsJob(j) /\ j.kind = "invite" /\ j.at = "fund" /\ j.new = job[p].new
        /\ j.todo = Tail(job[p].todo) /\ j.paid = job[p].paid \cup {pay[p].agent}
    BY <2>2, <2>3 DEF IsJob
  <2>5. /\ Tail(job[p].todo) \in Seq(Addresses)
        /\ \A x : x \in ToSet(job[p].todo) =>
                    x = Head(job[p].todo) \/ x \in ToSet(Tail(job[p].todo))
    BY <1>3, Elements
  <2>6. ToSet(j.new) \subseteq j.paid \cup ToSet(j.todo)
    BY <1>3, <2>4, <2>5
  <2>7. Orderly(j, NoPay)
    BY <1>3, <1>6, <2>4, <2>5, <2>6 DEF Orderly, Invites
  <2> QED BY <1>1, <1>7, <2>1, <2>7
<1>9. CASE ~At(p, "paid")
  <2> DEFINE j == [job[p] EXCEPT !.at = "raised"]
  <2>1. job' = [job EXCEPT ![p] = j]
    BY <1>9 DEF Funded
  <2>2. /\ IsJob(j) /\ j.kind = "invite" /\ j.at = "raised" /\ j.new = job[p].new
        /\ j.todo = job[p].todo
    BY <1>2 DEF IsJob
  <2> HIDE DEF j
  <2>3. Orderly(j, NoPay)
    BY <1>3, <1>6, <2>2 DEF Orderly, Invites
  <2> QED BY <1>1, <1>7, <2>1, <2>3
<1> QED BY <1>8, <1>9

(* When none is left to be funded, all were. *)
LEMMA AllFundedOrderly ==
  ASSUME CommunityInv, NEW p \in Spawners, AllFunded(p)
  PROVE  JobsOrderly' /\ UNCHANGED banker_vars
<1> DEFINE j == Turned(job[p], "register", job[p].new)
<1>1. /\ job[p].at = "fund" /\ job[p].todo = <<>> /\ UNCHANGED banker_vars
      /\ job' = [job EXCEPT ![p] = j]
  BY DEF AllFunded, Is, Turned
<1>2. IsJob(job[p]) /\ job[p].kind = "invite" /\ Invites(job[p], pay[p])
  BY <1>1, AtWork
<1>3. /\ pay[p].at = "none" /\ job[p].new \in Seq(Addresses)
      /\ ToSet(job[p].new) \subseteq job[p].paid
  BY <1>1, <1>2, NoElements DEF Invites
<1>4. /\ IsJob(j) /\ j.kind = "invite" /\ j.at = "register" /\ j.todo = job[p].new
      /\ j.new = job[p].new /\ j.paid = job[p].paid
  BY <1>2, TurnedType
<1> HIDE DEF j
<1>5. Orderly(j, pay[p])
  BY <1>3, <1>4 DEF Orderly, Invites
<1> QED BY <1>1, <1>5, JobReplaced DEF banker_vars

(* Registering and starting work through the funded agents. *)
LEMMA ProvisionOrderly ==
  ASSUME CommunityInv, NEW p \in Spawners, Register(p) \/ Start(p)
  PROVE  JobsOrderly' /\ UNCHANGED banker_vars
<1>1. job[p].at \in {"register", "start"} /\ UNCHANGED banker_vars
  BY DEF Register, Start, Is
<1>2. /\ IsJob(job[p]) /\ pay[p].at = "none" /\ job[p].kind \in {"spawn", "invite"}
      /\ job[p].kind = "invite" => Invites(job[p], pay[p])
  BY <1>1, AtWork
<1>3. ASSUME NEW where \in {"register", "start", "done"}, NEW todo,
             job' = [job EXCEPT ![p] = Turned(job[p], where, todo)],
             job[p].kind = "invite" => todo \in Seq(Addresses)
      PROVE  JobsOrderly'
  <2> DEFINE j == Turned(job[p], where, todo)
  <2>1. /\ IsJob(j) /\ j.kind = job[p].kind /\ j.at = where /\ j.todo = todo
        /\ j.new = job[p].new /\ j.paid = job[p].paid
    BY <1>2, TurnedType
  <2>2. job' = [job EXCEPT ![p] = j]
    BY <1>3
  <2> HIDE DEF j
  <2>3. Orderly(j, pay[p])
    BY <1>1, <1>2, <1>3, <2>1 DEF Orderly, Invites
  <2> QED BY <1>1, <2>2, <2>3, JobReplaced DEF banker_vars
<1>4. CASE job[p].todo = <<>>
  <2>1. PICK where \in {"start", "done"}, todo \in {job[p].new, job[p].todo} :
           job' = [job EXCEPT ![p] = Turned(job[p], where, todo)]
    BY <1>2, <1>4 DEF Register, Start, Becomes, Turned, IsJob
  <2>2. job[p].kind = "invite" => todo \in Seq(Addresses)
    BY <1>2 DEF Invites
  <2> QED BY <1>1, <1>3, <2>1, <2>2
<1>5. CASE job[p].todo # <<>>
  <2>1. job' = [job EXCEPT ![p] = Turned(job[p], job[p].at, Tail(job[p].todo))]
    BY <1>2, <1>5 DEF Register, Start, Turned, IsJob
  <2>2. job[p].kind = "invite" => Tail(job[p].todo) \in Seq(Addresses)
    BY <1>2, <1>5, Elements DEF Invites
  <2> QED BY <1>1, <1>3, <2>1, <2>2
<1> QED BY <1>4, <1>5

-----------------------------------------------------------------------------
(* A transfer goes on for the agent it was begun for. *)
LEMMA TransferGoesOn ==
  ASSUME CommunityInv, NEW p \in Tasks, TransferStep(p)
  PROVE  /\ pay[p].at # "none" /\ pay'[p].agent = pay[p].agent
         /\ \A q \in Tasks : q # p => pay'[q] = pay[q]
<1>1. pay[p].at # "none" /\ \E where : Goes(p, where)
  <2>1. CASE CheckFunder(p) \/ TopupAgent(p) \/ RefundDestination(p) \/ AbandonPay(p)
    BY <2>1 DEF CheckFunder, TopupAgent, RefundDestination, AbandonPay, At
  <2>2. CASE HoldFund(p) \/ SettleFund(p)
    BY <2>2 DEF HoldFund, SettleFund, FunderStep, At
  <2>3. CASE HoldResidual(p) \/ SettleResidual(p)
    BY <2>3 DEF HoldResidual, SettleResidual, At
  <2> QED BY <2>1, <2>2, <2>3 DEF TransferStep
<1>2. PICK where : Goes(p, where)
  BY <1>1
<1>3. pay[p] \in [at : Places, agent : Addresses, amount : Nat] /\ DOMAIN pay = Tasks
  BY <1>1 DEF CommunityInv, BankerInv, BankerTypeOK, IsTransfer, NoPay
<1>4. /\ pay'[p] = [pay[p] EXCEPT !.at = where]
      /\ \A q \in Tasks : q # p => pay'[q] = pay[q]
  BY <1>2, <1>3 DEF Goes
<1> QED BY <1>1, <1>3, <1>4

(* The transfer of an invitation goes on with the same agent. *)
LEMMA FundingOrderly ==
  ASSUME CommunityInv, NEW p \in Spawners, TransferStep(p), UNCHANGED job
  PROVE  JobsOrderly'
<1>1. p \in Tasks /\ DOMAIN job = Spawners
  BY CommunityAssumption DEF CommunityInv, JobsOrderly
<1>2. /\ pay[p].at # "none" /\ pay'[p].agent = pay[p].agent
      /\ \A q \in Tasks : q # p => pay'[q] = pay[q]
  BY <1>1, TransferGoesOn
<1>3. Orderly(job[p], pay[p])
  BY DEF CommunityInv, JobsOrderly
<1>4. Orderly(job[p], pay'[p])
  BY <1>2, <1>3 DEF Orderly, Invites
<1> QED BY <1>1, <1>2, <1>4, OneJob

(* Steps that concern no job leave all orderly. *)
LEMMA OthersOrderly ==
  ASSUME CommunityInv, UNCHANGED job, \A q \in Spawners : pay'[q] = pay[q]
  PROVE  JobsOrderly'
BY DEF CommunityInv, JobsOrderly

(* Transfers beside the factory are not those of its tasks. *)
LEMMA BesideOrderly ==
  ASSUME CommunityInv, BankerStep
  PROVE  JobsOrderly' /\ BankerNext
<1>1. UNCHANGED job
  BY DEF BankerStep, community_vars
<1>2. ASSUME NEW p \in Tasks \ Spawners, Transfer(p) \/ TransferStep(p)
      PROVE  JobsOrderly' /\ BankerNext
  <2>1. \A q \in Tasks : q # p => pay'[q] = pay[q]
    <3>1. CASE TransferStep(p)
      BY <3>1, TransferGoesOn
    <3>2. CASE Transfer(p)
      <4>1. DOMAIN pay = Tasks
        BY DEF CommunityInv, BankerInv, BankerTypeOK
      <4> QED BY <3>2, <4>1 DEF Transfer, FundAgent, DrainAgent
    <3> QED BY <1>2, <3>1, <3>2
  <2>2. \A q \in Spawners : pay'[q] = pay[q]
    BY <2>1, CommunityAssumption
  <2> QED BY <1>1, <1>2, <2>2, OthersOrderly DEF BankerNext
<1>3. ASSUME NEW a \in Addresses, OpenCall(a) \/ CloseCall(a)
      PROVE  JobsOrderly' /\ BankerNext
  <2>1. UNCHANGED pay
    BY <1>3 DEF OpenCall, CloseCall
  <2> QED BY <1>1, <1>3, <2>1, OthersOrderly DEF BankerNext
<1> QED BY <1>2, <1>3 DEF BankerStep

(* A step of a job, or an agent that leaves, is a step of the banker or    *)
(* none of its business.                                                   *)
LEMMA JobStepOrderly ==
  ASSUME CommunityInv, CommunityStep
  PROVE  JobsOrderly' /\ [BankerNext]_banker_vars
<1>1. ASSUME NEW p \in Spawners, JobStep(p)
      PROVE  JobsOrderly' /\ [BankerNext]_banker_vars
  <2>1. p \in Tasks
    BY CommunityAssumption
  <2>2. CASE Invite(p) \/ \E spec \in Specs : Spawn(p, spec)
    BY <2>2, BeginsOrderly
  <2>3. CASE _parse_slate(p) \/ _ParseError(p) \/ Check(p) \/ Raise(p)
    BY <2>3, SlateOrderly, ParseErrorOrderly, CheckOrderly, RaiseOrderly
  <2>4. CASE Built(p) \/ AllFunded(p) \/ Register(p) \/ Start(p)
    BY <2>4, BuiltOrderly, AllFundedOrderly, ProvisionOrderly
  <2>5. CASE FundNext(p)
    BY <2>1, <2>5, FundNextOrderly DEF BankerNext
  <2>6. CASE Funded(p)
    BY <2>1, <2>6, FundedOrderly DEF BankerNext
  <2>7. CASE TransferStep(p) /\ UNCHANGED community_vars
    BY <2>1, <2>7, FundingOrderly DEF BankerNext, community_vars
  <2> QED BY <1>1, <2>2, <2>3, <2>4, <2>5, <2>6, <2>7 DEF JobStep
<1>2. ASSUME NEW a \in alive, Depart(a)
      PROVE  JobsOrderly' /\ [BankerNext]_banker_vars
  <2>1. UNCHANGED <<job, banker_vars>>
    BY <1>2 DEF Depart
  <2> QED BY <2>1, OthersOrderly DEF banker_vars
<1> QED BY <1>1, <1>2 DEF CommunityStep

(* The invariant is inductive, and every step is one of the banker's or    *)
(* leaves what the banker sees.                                            *)
LEMMA CommunityKept ==
  CommunityInv /\ [CommunityStep \/ BankerStep]_<<community_vars, banker_vars>>
    => CommunityInv' /\ [BankerNext]_banker_vars
<1> SUFFICES ASSUME CommunityInv,
                    [CommunityStep \/ BankerStep]_<<community_vars, banker_vars>>
             PROVE  CommunityInv' /\ [BankerNext]_banker_vars
  OBVIOUS
<1>1. JobsOrderly' /\ [BankerNext]_banker_vars
  <2>1. CASE CommunityStep
    BY <2>1, JobStepOrderly
  <2>2. CASE BankerStep
    BY <2>2, BesideOrderly
  <2>3. CASE UNCHANGED <<community_vars, banker_vars>>
    BY <2>3, OthersOrderly DEF community_vars, banker_vars
  <2> QED BY <2>1, <2>2, <2>3
<1>2. BankerInv'
  BY <1>1, InvKept DEF CommunityInv
<1> QED BY <1>1, <1>2 DEF CommunityInv

(* At the start no task has a job. *)
LEMMA CommunityStarts == CommunityInit => CommunityInv
BY StartsKept, CommunityAssumption
   DEF CommunityInit, CommunityInv, JobsOrderly, Orderly, BankerInit, NoPay

(* In an orderly community, what an invitation provisions was paid for. *)
LEMMA OrderlyIsFunded == CommunityInv => LiveAgentsAreFunded
<1> SUFFICES ASSUME CommunityInv, NEW p \in Spawners, Busy(p),
                    job[p].kind = "invite", job[p].at \in {"register", "start"}
             PROVE  ToSet(job[p].new) \subseteq job[p].paid
  BY DEF LiveAgentsAreFunded
<1>1. Invites(job[p], pay[p])
  BY AtWork
<1> QED BY <1>1 DEF Invites

-----------------------------------------------------------------------------
(* No invitation brings an agent to life that it did not fund first,       *)
(* however many overlap and whichever transfers fail.                      *)
THEOREM CommunityFunds == CommunitySpec => []LiveAgentsAreFunded
<1>1. CommunityInv /\ [CommunityStep \/ BankerStep]_<<community_vars, banker_vars>>
        => CommunityInv'
  BY CommunityKept
<1> QED BY <1>1, CommunityStarts, OrderlyIsFunded, PTL DEF CommunitySpec

(* The factory uses the banker as the banker's specification allows: what  *)
(* holds of the banker holds of the community.                             *)
THEOREM CommunityBanks == CommunitySpec => BankerSpec
<1>1. CommunityInit => BankerInit
  BY DEF CommunityInit
<1>2. CommunityInv /\ [CommunityStep \/ BankerStep]_<<community_vars, banker_vars>>
        => CommunityInv'
  BY CommunityKept
<1>3. CommunityInv /\ [CommunityStep \/ BankerStep]_<<community_vars, banker_vars>>
        => [BankerNext]_banker_vars
  BY CommunityKept
<1> QED BY <1>1, <1>2, <1>3, CommunityStarts, PTL DEF CommunitySpec, BankerSpec

(* Every credit of the community is accounted for, with agents provisioned *)
(* and leaving, invitations that overlap and transfers that fail.          *)
THEOREM CommunityTraces == CommunitySpec => []CreditsAreTraced
BY CommunityBanks, BankerTraces, PTL

-----------------------------------------------------------------------------
(* What a sequence holds, and sequences that hold nothing twice. *)
Holds(s) == {s[i] : i \in 1..Len(s)}
Distinct(s) == \A i, j \in 1..Len(s) : s[i] = s[j] => i = j

(* What a sequence holds are its elements. *)
LEMMA HoldsElements ==
  ASSUME NEW S, NEW s \in Seq(S)
  PROVE  /\ Holds(s) \subseteq S /\ ToSet(s) = Holds(s) /\ DOMAIN s = 1..Len(s) /\ Len(s) \in Nat
         /\ s # <<>> <=> Len(s) > 0
         /\ s = <<>> => Holds(s) = {}
  BY DEF Holds, ToSet

(* Two sequences without repetition that share nothing, one after the other. *)
LEMMA Joining ==
  ASSUME NEW S, NEW s \in Seq(S), NEW t \in Seq(S), Distinct(s), Distinct(t),
         Holds(s) \cap Holds(t) = {}
  PROVE  /\ s \o t \in Seq(S) /\ Distinct(s \o t) /\ Len(s \o t) = Len(s) + Len(t)
         /\ Holds(s \o t) = Holds(s) \cup Holds(t)
<1> DEFINE f == s \o t
<1>1. /\ f \in Seq(S) /\ Len(f) = Len(s) + Len(t) /\ Len(s) \in Nat /\ Len(t) \in Nat
      /\ \A i \in 1..(Len(s) + Len(t)) : f[i] = IF i <= Len(s) THEN s[i] ELSE t[i - Len(s)]
  BY ConcatProperties
<1> HIDE DEF f
<1>2. \A i \in 1..Len(f) : \/ i \in 1..Len(s) /\ f[i] = s[i]
                           \/ i - Len(s) \in 1..Len(t) /\ f[i] = t[i - Len(s)]
  BY <1>1
<1>3. /\ \A i \in 1..Len(s) : i \in 1..Len(f) /\ f[i] = s[i]
      /\ \A i \in 1..Len(t) : i + Len(s) \in 1..Len(f) /\ f[i + Len(s)] = t[i]
  BY <1>1
<1>4. Holds(f) = Holds(s) \cup Holds(t)
  <2>1. ASSUME NEW e \in Holds(f) PROVE e \in Holds(s) \cup Holds(t)
    <3>1. PICK i \in 1..Len(f) : e = f[i]
      BY <2>1 DEF Holds
    <3> QED
      BY <3>1, <1>2 DEF Holds
  <2>2. ASSUME NEW i \in 1..Len(s) PROVE s[i] \in Holds(f)
    BY <1>3 DEF Holds
  <2>3. ASSUME NEW i \in 1..Len(t) PROVE t[i] \in Holds(f)
    BY <1>3 DEF Holds
  <2>4. Holds(s) \subseteq Holds(f)
    BY <2>2 DEF Holds
  <2>5. Holds(t) \subseteq Holds(f)
    BY <2>3 DEF Holds
  <2> QED
    BY <2>1, <2>4, <2>5
<1>5. Distinct(f)
  <2> SUFFICES ASSUME NEW i \in 1..Len(f), NEW j \in 1..Len(f), f[i] = f[j] PROVE i = j
    BY DEF Distinct
  <2>1. CASE i \in 1..Len(s) /\ f[i] = s[i] /\ j \in 1..Len(s) /\ f[j] = s[j]
    BY <2>1 DEF Distinct
  <2>2. CASE /\ i - Len(s) \in 1..Len(t) /\ f[i] = t[i - Len(s)]
             /\ j - Len(s) \in 1..Len(t) /\ f[j] = t[j - Len(s)]
    <3>1. i - Len(s) = j - Len(s)
      BY <2>2 DEF Distinct
    <3> QED
      BY <1>1, <3>1
  <2> QED
    BY <1>2, <2>1, <2>2 DEF Holds
<1> QED
  BY <1>1, <1>4, <1>5 DEF f

(* A sequence without repetition, cut in two. *)
LEMMA Trimming ==
  ASSUME NEW S, NEW s \in Seq(S), Distinct(s), NEW k \in 0..Len(s)
  PROVE  LET front == SubSeq(s, 1, k)
             rest == SubSeq(s, k + 1, Len(s))
         IN /\ front \in Seq(S) /\ rest \in Seq(S) /\ Distinct(rest)
            /\ Len(front) = k /\ Len(rest) = Len(s) - k
            /\ Holds(front) \cup Holds(rest) = Holds(s)
            /\ Holds(front) \cap Holds(rest) = {}
<1> DEFINE front == SubSeq(s, 1, k)
           rest == SubSeq(s, k + 1, Len(s))
<1>0. Len(s) \in Nat /\ k \in Int /\ \A i \in 1..Len(s) : s[i] \in S
  BY ElementOfSeq
<1>1. /\ front \in Seq(S) /\ Len(front) = k
      /\ \A i \in 1..k : front[i] = s[i]
  <2>1. \A i \in 1..k : s[i] \in S
    BY <1>0
  <2>2. /\ front \in Seq(S) /\ Len(front) = (IF 1 <= k THEN k - 1 + 1 ELSE 0)
        /\ \A i \in 1..(k - 1 + 1) : front[i] = s[1 + i - 1]
    BY <1>0, <2>1, SubSeqProperties
  <2> HIDE DEF front
  <2> QED
    BY <1>0, <2>2
<1>2. /\ rest \in Seq(S) /\ Len(rest) = Len(s) - k
      /\ \A i \in 1..(Len(s) - k) : rest[i] = s[k + i]
  <2>1. \A i \in (k + 1)..Len(s) : s[i] \in S
    BY <1>0
  <2>2. /\ rest \in Seq(S)
        /\ Len(rest) = (IF k + 1 <= Len(s) THEN Len(s) - (k + 1) + 1 ELSE 0)
        /\ \A i \in 1..(Len(s) - (k + 1) + 1) : rest[i] = s[(k + 1) + i - 1]
    BY <1>0, <2>1, SubSeqProperties
  <2> HIDE DEF rest
  <2> QED
    BY <1>0, <2>2
<1> HIDE DEF front, rest
<1>3. Distinct(rest)
  <2> SUFFICES ASSUME NEW i \in 1..Len(rest), NEW j \in 1..Len(rest), rest[i] = rest[j]
               PROVE  i = j
    BY DEF Distinct
  <2>1. k + i \in 1..Len(s) /\ k + j \in 1..Len(s) /\ s[k + i] = s[k + j]
    BY <1>0, <1>2
  <2>2. k + i = k + j
    BY <2>1 DEF Distinct
  <2> QED
    BY <1>0, <1>2, <2>2
<1>4. Holds(front) \cup Holds(rest) = Holds(s)
  <2>1. ASSUME NEW i \in 1..Len(s) PROVE s[i] \in Holds(front) \cup Holds(rest)
    <3>1. CASE i <= k
      BY <1>0, <1>1, <3>1 DEF Holds
    <3>2. CASE i > k
      <4>1. i - k \in 1..Len(rest) /\ rest[i - k] = s[i]
        BY <1>0, <1>2, <3>2
      <4> QED
        BY <4>1 DEF Holds
    <3> QED
      BY <1>0, <3>1, <3>2
  <2>2. \A i \in 1..Len(front) : i \in 1..Len(s) /\ front[i] = s[i]
    BY <1>0, <1>1
  <2>3. \A i \in 1..Len(rest) : k + i \in 1..Len(s) /\ rest[i] = s[k + i]
    BY <1>0, <1>2
  <2>4. Holds(s) \subseteq Holds(front) \cup Holds(rest)
    BY <2>1 DEF Holds
  <2>5. Holds(front) \subseteq Holds(s)
    BY <2>2 DEF Holds
  <2>6. Holds(rest) \subseteq Holds(s)
    BY <2>3 DEF Holds
  <2> QED
    BY <2>4, <2>5, <2>6
<1>5. Holds(front) \cap Holds(rest) = {}
  <2> SUFFICES ASSUME NEW i \in 1..Len(front), NEW j \in 1..Len(rest), front[i] = rest[j]
               PROVE  FALSE
    BY DEF Holds
  <2>1. i \in 1..Len(s) /\ k + j \in 1..Len(s) /\ s[i] = s[k + j] /\ i <= k /\ j >= 1
    BY <1>0, <1>1, <1>2
  <2>2. i = k + j
    BY <2>1 DEF Distinct
  <2> QED
    BY <1>0, <2>1, <2>2
<1> QED
  BY <1>1, <1>2, <1>3, <1>4, <1>5 DEF front, rest

-----------------------------------------------------------------------------
(* Division with remainder, and what it is uniquely. *)
LEMMA Division ==
  ASSUME NEW q \in Nat, NEW m \in Nat \ {0}
  PROVE  /\ q \div m \in Nat /\ q % m \in 0..(m - 1)
         /\ q = m * (q \div m) + (q % m)
OBVIOUS

(* The quotient is the number of whole divisors. *)
LEMMA QuotientIs ==
  ASSUME NEW m \in Nat \ {0}, NEW b \in Nat, NEW s \in Nat, s < m
  PROVE  (m * b + s) \div m = b
<1> DEFINE q == (m * b + s) \div m
           r == (m * b + s) % m
<1>1. m * b \in Nat
  BY Products
<1>2. q \in Nat /\ r \in 0..(m - 1) /\ m * b + s = m * q + r
  <2>1. m * b + s \in Nat
    BY <1>1
  <2> QED
    BY <2>1, Division
<1> HIDE DEF q, r
<1>3. m * q \in Nat /\ m * b = b * m /\ m * q = q * m
  BY <1>2, Products
<1>4. CASE q < b
  <2>1. (q + 1) * m <= b * m
    BY <1>2, <1>4, Products
  <2>2. (q + 1) * m = q * m + m
    BY <1>2
  <2> QED
    BY <1>1, <1>2, <1>3, <2>1, <2>2
<1>5. CASE b < q
  <2>1. (b + 1) * m <= q * m
    BY <1>2, <1>5, Products
  <2>2. (b + 1) * m = b * m + m
    OBVIOUS
  <2> QED
    BY <1>1, <1>2, <1>3, <2>1, <2>2
<1> QED
  BY <1>2, <1>4, <1>5 DEF q

(* Dividing twice is dividing by the product. *)
LEMMA DivideTwice ==
  ASSUME NEW q \in Nat, NEW m \in Nat \ {0}, NEW c \in Nat \ {0}
  PROVE  (q \div m) \div c = q \div (m * c)
<1> DEFINE a == q \div m
           b == a \div c
           s == q % m
           u == a % c
<1>1. a \in Nat /\ s \in 0..(m - 1) /\ q = m * a + s
  BY Division
<1>2. b \in Nat /\ u \in 0..(c - 1) /\ a = c * b + u
  <2> HIDE DEF a
  <2> QED
    BY <1>1, Division
<1> HIDE DEF a, b, s, u
<1>3. m * c \in Nat \ {0} /\ m * u \in Nat
  BY <1>2, Products
<1>4. q = (m * c) * b + (m * u + s)
  <2>1. m * a = m * (c * b) + m * u
    BY <1>2
  <2>2. m * (c * b) = (m * c) * b
    BY <1>2
  <2>3. (m * c) * b \in Nat
    BY <1>2, <1>3, Products
  <2> QED
    BY <1>1, <1>3, <2>1, <2>2, <2>3
<1>5. m * u + s \in Nat /\ m * u + s < m * c
  <2>1. (u + 1) * m <= c * m
    BY <1>2, Products
  <2>2. (u + 1) * m = m * u + m /\ c * m = m * c
    BY <1>2
  <2> QED
    BY <1>1, <1>3, <2>1, <2>2
<1>6. q \div (m * c) = b
  <2> DEFINE n == m * c
             t == m * u + s
  <2>1. n \in Nat \ {0} /\ t \in Nat /\ t < n /\ q = n * b + t
    BY <1>3, <1>4, <1>5
  <2> HIDE DEF n, t
  <2>2. q \div n = b
    BY <1>2, <2>1, QuotientIs
  <2> QED
    BY <2>2 DEF n
<1> QED
  BY <1>6 DEF a, b
(* What is less than so many rounds is in one of them. *)
LEMMA RoundOf ==
  ASSUME NEW M \in Nat \ {0}, NEW C \in Nat \ {0}, NEW x \in Nat, x < M * C
  PROVE  x \div C \in Nat /\ x \div C < M
<1> DEFINE y == x \div C
           z == x % C
<1>1. y \in Nat /\ z \in Nat /\ x = C * y + z
  BY Division
<1> HIDE DEF y, z
<1>2. ASSUME M <= y PROVE FALSE
  <2>1. M * C <= y * C /\ C * y = y * C /\ M * C \in Nat /\ y * C \in Nat
    BY <1>1, <1>2, Products
  <2> QED
    BY <1>1, <2>1
<1>3. y < M
  BY <1>1, <1>2
<1> QED
  BY <1>1, <1>3 DEF y

(* Numbers that agree in a digit and in the ones before it. *)
LEMMA OneMoreDigit ==
  ASSUME NEW q \in Nat, NEW r \in Nat, NEW m \in Nat \ {0}, NEW c \in Nat \ {0},
         q \div (m * c) = r \div (m * c), (q \div m) % c = (r \div m) % c
  PROVE  q \div m = r \div m
<1> DEFINE a == q \div m
           b == r \div m
<1>1. a \in Nat /\ b \in Nat
  BY Division
<1>2. a \div c = b \div c
  BY DivideTwice
<1>3. a % c = b % c
  OBVIOUS
<1> HIDE DEF a, b
<1>4. a = c * (a \div c) + (a % c) /\ b = c * (b \div c) + (b % c)
  BY <1>1, Division
<1>5. a = b
  BY <1>2, <1>3, <1>4
<1> QED
  BY <1>5 DEF a, b

-----------------------------------------------------------------------------
(* The fields of a provisioning pattern. *)
LEMMA Fields ==
  ASSUME NEW spec \in Specs
  PROVE  /\ Len(spec) \in Nat /\ DOMAIN spec = 1..Len(spec)
         /\ \A i \in DOMAIN spec :
              /\ spec[i].kind \in {"fixed", "max", "cross"} /\ spec[i].count \in Nat \ {0}
              /\ Width(spec[i]) \in Nat \ {0}
<1>1. spec \in Seq(ToSet(spec))
  BY CommunityAssumption
<1>2. Len(spec) \in Nat /\ DOMAIN spec = 1..Len(spec)
  BY <1>1, LenProperties
<1> QED
  BY <1>2, CommunityAssumption DEF Width

(* The combinations are counted from the last field to the first. *)
Counted(N, n, spec) ==
    N = [k \in 0 .. n |-> IF k = 0 THEN 1 ELSE N[k - 1] * Width(spec[Len(spec) - k + 1])]

(* The counting has a value at every step. *)
LEMMA CountingGoesOn ==
  ASSUME NEW n \in Nat, NEW spec
  PROVE  \E N : Counted(N, n, spec)
<1> DEFINE S == {k \in Nat : \E N : Counted(N, k, spec)}
           W(k) == Width(spec[Len(spec) - k + 1])
<1>1. 0 \in S
  <2> DEFINE N == [i \in 0 .. 0 |-> 1]
  <2>1. Counted(N, 0, spec)
    BY DEF Counted
  <2> QED
    BY <2>1
<1>2. ASSUME NEW k \in Nat, k \in S PROVE k + 1 \in S
  <2>1. PICK N : Counted(N, k, spec)
    BY <1>2
  <2> DEFINE M == [i \in 0 .. k + 1 |-> IF i = k + 1 THEN N[k] * W(k + 1) ELSE N[i]]
  <2>2. \A i \in 0 .. k : M[i] = N[i]
    OBVIOUS
  <2>3. \A i \in 0 .. k + 1 : M[i] = IF i = 0 THEN 1 ELSE M[i - 1] * W(i)
    <3> SUFFICES ASSUME NEW i \in 0 .. k + 1
                 PROVE  M[i] = IF i = 0 THEN 1 ELSE M[i - 1] * W(i)
      OBVIOUS
    <3>1. CASE i = k + 1
      <4>1. i - 1 = k /\ M[k] = N[k] /\ M[i] = N[k] * W(k + 1)
        BY <3>1
      <4> HIDE DEF W, M
      <4> QED
        BY <4>1, <3>1
    <3>2. CASE i \in 0 .. k
      <4>1. N[i] = IF i = 0 THEN 1 ELSE N[i - 1] * W(i)
        BY <2>1, <3>2 DEF Counted
      <4>2. i # 0 => i - 1 \in 0 .. k
        BY <3>2
      <4> HIDE DEF M, W
      <4> QED
        BY <4>1, <4>2, <2>2, <3>2
    <3> QED
      BY <3>1, <3>2
  <2>4. Counted(M, k + 1, spec)
    BY <2>3 DEF Counted
  <2> QED
    BY <2>4
<1>3. Nat \subseteq S
  <2> HIDE DEF S
  <2> QED
    BY <1>1, <1>2, StepByStep
<1> QED
  BY <1>3

(* How many combinations there are of the last fields of a pattern. *)
LEMMA TurnsAre ==
  ASSUME NEW spec \in Specs
  PROVE  /\ Turns(spec)[0] = 1
         /\ \A k \in 0 .. Len(spec) : Turns(spec)[k] \in Nat \ {0}
         /\ \A k \in 0 .. Len(spec) - 1 :
              Turns(spec)[k + 1] = Turns(spec)[k] * Width(spec[Len(spec) - k])
<1> DEFINE n == Len(spec)
           N == CHOOSE f : f = [k \in 0 .. n |->
                  IF k = 0 THEN 1 ELSE f[k - 1] * Width(spec[n - k + 1])]
<1>0. n \in Nat
  BY Fields
<1>1. \E f : f = [k \in 0 .. n |->
                    IF k = 0 THEN 1 ELSE f[k - 1] * Width(spec[n - k + 1])]
  <2>1. \E f : Counted(f, n, spec)
    <3> HIDE DEF n
    <3> QED
      BY <1>0, CountingGoesOn
  <2> QED
    BY <2>1, Zenon DEF Counted
<1>2. N = [k \in 0 .. n |-> IF k = 0 THEN 1 ELSE N[k - 1] * Width(spec[n - k + 1])]
  <2> HIDE DEF n
  <2> QED
    BY <1>1
<1>3. Turns(spec) = N
  BY Zenon DEF Turns
<1> HIDE DEF N
<1>4. N[0] = 1
  <2>1. 0 \in 0 .. n
    BY <1>0
  <2> HIDE DEF n
  <2> QED
    BY <1>2, <2>1
<1>5. \A k \in 0 .. n - 1 : N[k + 1] = N[k] * Width(spec[n - k])
  <2> SUFFICES ASSUME NEW k \in 0 .. n - 1 PROVE N[k + 1] = N[k] * Width(spec[n - k])
    OBVIOUS
  <2>1. k + 1 \in 0 .. n /\ k + 1 # 0 /\ (k + 1) - 1 = k /\ n - (k + 1) + 1 = n - k
    BY <1>0
  <2> HIDE DEF n
  <2> QED
    BY <1>2, <2>1
<1>6. \A k \in 0 .. n : N[k] \in Nat \ {0}
  <2> DEFINE S == {k \in Nat : k <= n => N[k] \in Nat \ {0}}
  <2>1. 0 \in S
    BY <1>4
  <2>2. ASSUME NEW k \in Nat, k \in S PROVE k + 1 \in S
    <3> SUFFICES ASSUME k + 1 <= n PROVE N[k + 1] \in Nat \ {0}
      OBVIOUS
    <3>1. N[k] \in Nat \ {0} /\ k \in 0 .. n - 1
      BY <1>0, <2>2
    <3>2. n - k \in DOMAIN spec
      BY <1>0, <3>1, Fields
    <3>3. Width(spec[n - k]) \in Nat \ {0}
      BY <3>2, Fields
    <3>4. N[k + 1] = N[k] * Width(spec[n - k])
      BY <3>1, <1>5
    <3> HIDE DEF n
    <3> QED
      BY <3>1, <3>3, <3>4, Products
  <2>3. Nat \subseteq S
    <3> HIDE DEF S
    <3> QED
      BY <2>1, <2>2, StepByStep
  <2> QED
    BY <2>3, <1>0
<1> QED
  BY <1>3, <1>4, <1>5, <1>6

-----------------------------------------------------------------------------
(* A finite set of numbers that is not empty has a greatest element. *)
LEMMA Greatest ==
  ASSUME NEW S \in SUBSET Int, IsFiniteSet(S), S # {}
  PROVE  Max(S) \in S /\ \A y \in S : Max(S) >= y
BY LeastAndGreatest DEF Max

(* The lesser of two numbers. *)
LEMMA LesserOfTwo ==
  ASSUME NEW a \in Int, NEW b \in Int
  PROVE  Min({a, b}) = IF a <= b THEN a ELSE b
<1>1. Min({a, b}) \in {a, b} /\ \A y \in {a, b} : Min({a, b}) <= y
  <2>1. \E x \in {a, b} : \A y \in {a, b} : x <= y
    OBVIOUS
  <2> QED
    BY <2>1 DEF Min
<1> QED
  BY <1>1

(* The cycled fields go round together until the longest has been through. *)
LEMMA Iterations ==
  ASSUME NEW spec \in Specs
  PROVE  /\ _max_iters(spec) \in Nat \ {0}
         /\ \/ _max_iters(spec) = 1
            \/ \E i \in OfKind(spec, "max") : spec[i].count = _max_iters(spec)
<1> DEFINE I == OfKind(spec, "max")
           counts == {spec[i].count : i \in I}
           S == {1} \cup counts
<1>1. IsFiniteSet(I) /\ I \subseteq DOMAIN spec
  <2>1. IsFiniteSet(1..Len(spec))
    BY Fields, FS_Interval
  <2>2. I \subseteq 1..Len(spec)
    BY Fields DEF OfKind
  <2> HIDE DEF I
  <2> QED
    BY <2>1, <2>2, Fields, FS_Subset
<1>2. IsFiniteSet(counts)
  <2> DEFINE f == [i \in I |-> spec[i].count]
  <2>1. f \in Surjection(I, counts)
    BY DEF Surjection
  <2> HIDE DEF f, I, counts
  <2> QED
    BY <1>1, <2>1, FS_Surjection
<1>3. IsFiniteSet(S)
  <2>1. IsFiniteSet({1})
    BY FS_Singleton
  <2> HIDE DEF counts
  <2> QED
    BY <1>2, <2>1, FS_Union
<1>4. S \in SUBSET Int /\ S # {} /\ S \subseteq Nat \ {0}
  BY <1>1, Fields
<1>5. Max(S) \in S
  <2> HIDE DEF S
  <2> QED
    BY <1>3, <1>4, Greatest
<1>6. _max_iters(spec) = Max(S)
  BY DEF _max_iters
<1>7. _max_iters(spec) \in S
  BY <1>5, <1>6
<1> QED
  BY <1>4, <1>7

-----------------------------------------------------------------------------
(* How many places a pattern has, and what they are. *)
LEMMA PlacesOf ==
  ASSUME NEW spec \in Specs
  PROVE  /\ Combinations(spec) \in Nat \ {0} /\ total(spec) \in Nat \ {0}
         /\ DOMAIN materialize(spec) = 1..total(spec)
         /\ \A k \in 1..total(spec) : materialize(spec)[k] = _combine(spec, k - 1)
<1>1. Combinations(spec) \in Nat \ {0}
  <2>1. Len(spec) \in 0 .. Len(spec)
    BY Fields
  <2> QED
    BY <2>1, TurnsAre DEF Combinations
<1>2. total(spec) \in Nat \ {0}
  BY <1>1, Iterations, Products DEF total
<1> QED
  BY <1>1, <1>2 DEF materialize

(* A value of a cycled or crossed field tells its number. *)
LEMMA Digits ==
  ASSUME NEW spec \in Specs, NEW q \in Nat, NEW i \in DOMAIN spec
  PROVE  /\ spec[i].kind = "max" =>
              _combine(spec, q)[i] = <<"fresh", (q \div Combinations(spec)) % spec[i].count>>
         /\ spec[i].kind = "cross" =>
              _combine(spec, q)[i]
                = <<"fresh", (q \div Turns(spec)[Len(spec) - i]) % spec[i].count>>
BY DEF _combine

(* Equal addresses are the same round of the cycled fields. *)
LEMMA SameRound ==
  ASSUME NEW spec \in Specs, NEW q \in 0..(total(spec) - 1), NEW r \in 0..(total(spec) - 1),
         _combine(spec, q) = _combine(spec, r)
  PROVE  q \div Combinations(spec) = r \div Combinations(spec)
<1> DEFINE C == Combinations(spec)
           M == _max_iters(spec)
           a == q \div C
           b == r \div C
<1>1. C \in Nat \ {0} /\ M \in Nat \ {0} /\ total(spec) = M * C
  BY PlacesOf, Iterations DEF total
<1>2. q \in Nat /\ r \in Nat /\ q < M * C /\ r < M * C
  <2>1. total(spec) \in Nat
    BY PlacesOf
  <2> HIDE DEF M, C
  <2> QED
    BY <1>1, <2>1
<1>4. a \in Nat /\ b \in Nat /\ a < M /\ b < M
  <2> HIDE DEF M, C
  <2> QED
    BY <1>1, <1>2, RoundOf
<1>5. CASE M = 1
  <2> HIDE DEF M, a, b
  <2>1. a = 0 /\ b = 0
    BY <1>4, <1>5
  <2> QED
    BY <2>1 DEF a, b
<1>6. CASE \E i \in OfKind(spec, "max") : spec[i].count = M
  <2>1. PICK i \in OfKind(spec, "max") : spec[i].count = M
    BY <1>6
  <2>2. i \in DOMAIN spec /\ spec[i].kind = "max"
    BY DEF OfKind
  <2>3. /\ _combine(spec, q)[i] = <<"fresh", a % M>>
        /\ _combine(spec, r)[i] = <<"fresh", b % M>>
    BY <1>2, <2>1, <2>2, Digits
  <2> HIDE DEF a, b, M, C
  <2>4. a % M = b % M
    BY <2>3
  <2>5. a % M = a /\ b % M = b
    BY <1>1, <1>4
  <2> QED
    BY <2>4, <2>5 DEF a, b, C
<1> QED
  BY <1>5, <1>6, Iterations

(* The numbers of equal addresses agree in one more crossed field. *)
LEMMA NextDigit ==
  ASSUME NEW spec \in Specs, NEW q \in Nat, NEW r \in Nat,
         _combine(spec, q) = _combine(spec, r), NEW k \in 0 .. Len(spec) - 1,
         q \div Turns(spec)[k + 1] = r \div Turns(spec)[k + 1]
  PROVE  q \div Turns(spec)[k] = r \div Turns(spec)[k]
<1> DEFINE T == Turns(spec)[k]
           i == Len(spec) - k
           c == Width(spec[i])
           a == q \div T
           b == r \div T
<1>1. /\ T \in Nat \ {0} /\ c \in Nat \ {0} /\ Turns(spec)[k + 1] = T * c
      /\ i \in DOMAIN spec /\ Len(spec) - i = k /\ a \in Nat /\ b \in Nat
  <2>1. k \in 0 .. Len(spec) /\ i \in DOMAIN spec /\ Len(spec) - i = k
    BY Fields
  <2>2. T \in Nat \ {0} /\ c \in Nat \ {0} /\ Turns(spec)[k + 1] = T * c
    BY <2>1, Fields, TurnsAre
  <2> HIDE DEF T, i, c
  <2>3. a \in Nat /\ b \in Nat
    BY <2>2, Division
  <2> QED
    BY <2>1, <2>2, <2>3
<1>2. a % c = b % c
  <2>1. CASE spec[i].kind = "cross"
    <3>1. c = spec[i].count
      BY <2>1 DEF Width
    <3> HIDE DEF i
    <3>2. /\ _combine(spec, q)[i] = <<"fresh", a % c>>
          /\ _combine(spec, r)[i] = <<"fresh", b % c>>
      BY <1>1, <2>1, <3>1, Digits
    <3> HIDE DEF a, b, c
    <3> QED
      BY <3>2
  <2>2. CASE spec[i].kind # "cross"
    <3>1. c = 1
      BY <2>2 DEF Width
    <3> HIDE DEF a, b, c
    <3> QED
      BY <1>1, <3>1
  <2> QED
    BY <2>1, <2>2
<1> QED
  <2> HIDE DEF T, c
  <2>1. q \div (T * c) = r \div (T * c)
    BY <1>1
  <2>2. q \div T = r \div T
    BY <1>1, <1>2, <2>1, OneMoreDigit
  <2> QED
    BY <2>2 DEF T

(* Every place of a pattern has an address of its own. *)
LEMMA PlacesAreDistinct ==
  ASSUME NEW spec \in Specs, NEW j \in 1..total(spec), NEW k \in 1..total(spec),
         materialize(spec)[j] = materialize(spec)[k]
  PROVE  j = k
<1> DEFINE n == Len(spec)
           T == Turns(spec)
           q == j - 1
           r == k - 1
           S == {m \in Nat : m <= n => q \div T[n - m] = r \div T[n - m]}
<1>1. q \in 0..(total(spec) - 1) /\ r \in 0..(total(spec) - 1) /\ n \in Nat
  BY PlacesOf, Fields
<1>2. _combine(spec, q) = _combine(spec, r)
  BY PlacesOf
<1>3. 0 \in S
  <2> HIDE DEF q, r
  <2>1. q \div Combinations(spec) = r \div Combinations(spec)
    BY <1>1, <1>2, SameRound
  <2>2. Combinations(spec) = T[n] /\ n - 0 = n
    BY <1>1 DEF Combinations
  <2> HIDE DEF T, n
  <2> QED
    BY <2>1, <2>2
<1>4. ASSUME NEW m \in Nat, m \in S PROVE m + 1 \in S
  <2> SUFFICES ASSUME m + 1 <= n PROVE q \div T[n - (m + 1)] = r \div T[n - (m + 1)]
    OBVIOUS
  <2> DEFINE d == n - (m + 1)
  <2>1. d \in 0 .. Len(spec) - 1 /\ d + 1 = n - m /\ m <= n
    BY <1>1
  <2>2. q \div T[d + 1] = r \div T[d + 1]
    <3> HIDE DEF T, n, q, r
    <3> QED
      BY <1>4, <2>1
  <2>3. q \in Nat /\ r \in Nat
    BY <1>1
  <2> HIDE DEF d, q, r, n
  <2>4. q \div T[d] = r \div T[d]
    BY <1>2, <2>1, <2>2, <2>3, NextDigit
  <2> QED
    BY <2>4 DEF d
<1>5. n \in S
  <2> HIDE DEF S
  <2> QED
    BY <1>1, <1>3, <1>4, StepByStep
<1>6. q \div 1 = r \div 1
  <2>1. n - n = 0 /\ T[0] = 1
    BY <1>1, TurnsAre
  <2> HIDE DEF T, n, q, r
  <2> QED
    BY <1>5, <2>1
<1> QED
  BY <1>1, <1>6

Fits(a, spec) ==
    Len(a) = Len(spec) /\ \A i \in OfKind(spec, "fixed") : a[i] = spec[i].value

(* Of the agents that are alive, those that fit; with the addresses the    *)
(* pattern names, they are all that a spawn may come to.                   *)
Fitting(spec, live) == {a \in live : Fits(a, spec)}
Candidates(spec, live) == Fitting(spec, live) \cup ToSet(materialize(spec))

(* Addresses come to life in the order of the places they are named for. *)
InOrder(live) ==
    \A spec \in Specs : \A k \in 1..total(spec) :
      materialize(spec)[k] \in live => k <= Cardinality(Fitting(spec, live))

(* In a queue, too, no address is before as many others as its place asks. *)
Ranked(q, spec, before) ==
    \A i \in 1..Len(q) : \A k \in 1..total(spec) :
      q[i] = materialize(spec)[k] => k <= Cardinality(before \cup {q[j] : j \in 1..i})

-----------------------------------------------------------------------------
(* A finite set, written as a sequence. *)
LEMMA Enumerated ==
  ASSUME NEW S, IsFiniteSet(S)
  PROVE  /\ SetToSeq(S) \in Seq(S) /\ Len(SetToSeq(S)) = Cardinality(S)
         /\ Holds(SetToSeq(S)) = S /\ Distinct(SetToSeq(S)) /\ Cardinality(S) \in Nat
<1> DEFINE n == Cardinality(S)
           f == SetToSeq(S)
<1>1. n \in Nat /\ ExistsBijection(1..n, S)
  BY FS_CardinalityType
<1>2. \E g \in [1..n -> S] : IsInjective(g)
  BY <1>1 DEF ExistsBijection, Bijection, Injection
<1>3. f \in [1..n -> S] /\ IsInjective(f)
  BY <1>2 DEF SetToSeq
<1>4. f \in Injection(1..n, S)
  BY <1>3 DEF Injection
<1>5. Cardinality(1..n) = n
  <2>1. \A k \in Nat : Cardinality(1..k) = IF 1 > k THEN 0 ELSE k - 1 + 1
    BY FS_Interval
  <2> HIDE DEF n
  <2> QED
    BY <1>1, <2>1
<1>6. f \in Surjection(1..n, S)
  <2> HIDE DEF f
  <2> QED
    BY <1>4, <1>5, FS_Injection
<1> HIDE DEF f, n
<1>7. f \in Seq(S) /\ Len(f) = n
  BY <1>1, <1>3
<1>8. Holds(f) = S
  BY <1>3, <1>6, <1>7 DEF Holds, Surjection
<1>9. Distinct(f)
  BY <1>3, <1>7 DEF Distinct, IsInjective
<1> QED
  BY <1>1, <1>7, <1>8, <1>9 DEF f, n

(* In a sequence without repetition, so many places are so many values. *)
LEMMA SoMany ==
  ASSUME NEW S, NEW q \in Seq(S), Distinct(q), NEW i \in 0..Len(q)
  PROVE  IsFiniteSet({q[j] : j \in 1..i}) /\ Cardinality({q[j] : j \in 1..i}) = i
<1> DEFINE V == {q[j] : j \in 1..i}
           f == [j \in 1..i |-> q[j]]
<1>1. Len(q) \in Nat /\ i \in Nat /\ \A j \in 1..i : j \in 1..Len(q)
  BY LenProperties
<1>2. f \in Surjection(1..i, V)
  BY DEF Surjection
<1>3. f \in Injection(1..i, V)
  BY <1>1 DEF Injection, IsInjective, Distinct
<1>4. IsFiniteSet(1..i) /\ Cardinality(1..i) = i
  <2>1. \A k \in Nat : IsFiniteSet(1..k) /\ Cardinality(1..k) = IF 1 > k THEN 0 ELSE k - 1 + 1
    BY FS_Interval
  <2> QED
    BY <1>1, <2>1
<1> HIDE DEF f, V
<1>5. IsFiniteSet(V) /\ Cardinality(V) = i
  BY <1>2, <1>3, <1>4, FS_Surjection
<1> QED
  BY <1>5 DEF V

(* The addresses a pattern names fit it. *)
LEMMA NamesFit ==
  ASSUME NEW spec \in Specs
  PROVE  /\ \A k \in 1..total(spec) : materialize(spec)[k] \in ToSet(materialize(spec))
         /\ \A a \in ToSet(materialize(spec)) :
              Fits(a, spec) /\ \E k \in 1..total(spec) : a = materialize(spec)[k]
         /\ materialize(spec) \in Seq(ToSet(materialize(spec)))
         /\ Len(materialize(spec)) = total(spec) /\ Distinct(materialize(spec))
         /\ Holds(materialize(spec)) = ToSet(materialize(spec))
<1> DEFINE m == materialize(spec)
           t == total(spec)
<1>1. t \in Nat /\ DOMAIN m = 1..t /\ \A k \in 1..t : m[k] = _combine(spec, k - 1)
  BY PlacesOf
<1>2. m = [k \in 1..t |-> _combine(spec, k - 1)]
  BY DEF materialize
<1>3. \A k \in 1..t : Fits(m[k], spec)
  <2> SUFFICES ASSUME NEW k \in 1..t PROVE Fits(_combine(spec, k - 1), spec)
    BY <1>1
  <2> DEFINE c == _combine(spec, k - 1)
  <2>1. DOMAIN c = 1..Len(spec) /\ Len(spec) \in Nat
    BY Fields DEF _combine
  <2>2. Len(c) = Len(spec)
    <3>1. c = [i \in 1..Len(spec) |-> c[i]]
      BY <2>1 DEF _combine
    <3> HIDE DEF c
    <3> QED
      BY <2>1, <3>1
  <2>3. \A i \in OfKind(spec, "fixed") : c[i] = spec[i].value
    BY DEF OfKind, _combine
  <2> HIDE DEF c
  <2>4. Fits(c, spec)
    BY <2>2, <2>3 DEF Fits
  <2> QED
    BY <2>4 DEF c
<1>4. m \in Seq(ToSet(m)) /\ Len(m) = t
  <2>1. m \in [1..t -> ToSet(m)]
    BY <1>1, <1>2 DEF ToSet
  <2> HIDE DEF m, t
  <2> QED
    BY <1>1, <2>1
<1>5. Distinct(m)
  <2>1. \A i, j \in 1..t : m[i] = m[j] => i = j
    BY PlacesAreDistinct
  <2> HIDE DEF m, t
  <2> QED
    BY <1>4, <2>1 DEF Distinct
<1>6. Holds(m) = ToSet(m)
  <2> HIDE DEF m
  <2> QED
    BY <1>4, HoldsElements
<1> HIDE DEF m, t
<1>7. /\ \A k \in 1..t : m[k] \in ToSet(m)
      /\ \A a \in ToSet(m) : Fits(a, spec) /\ \E k \in 1..t : a = m[k]
  BY <1>1, <1>3 DEF ToSet
<1> QED
  BY <1>4, <1>5, <1>6, <1>7 DEF m, t

-----------------------------------------------------------------------------
(* The registry is read for the agents that fit. *)
LEMMA SkeletonFits == \A spec : skeleton(spec) = Fitting(spec, alive)
BY DEF skeleton, Fitting, Fits

(* There are finitely many agents that fit. *)
LEMMA FittingIs ==
  ASSUME NEW live, IsFiniteSet(live), NEW spec \in Specs
  PROVE  /\ Fitting(spec, live) \subseteq live /\ IsFiniteSet(Fitting(spec, live))
         /\ Cardinality(Fitting(spec, live)) \in Nat
         /\ \A a \in Candidates(spec, live) :
              Fits(a, spec) /\ (a \in live <=> a \in Fitting(spec, live))
<1>1. Fitting(spec, live) \subseteq live
  BY DEF Fitting
<1>2. IsFiniteSet(Fitting(spec, live)) /\ Cardinality(Fitting(spec, live)) \in Nat
  BY <1>1, FS_Subset, FS_CardinalityType
<1>3. \A a \in Candidates(spec, live) : Fits(a, spec)
  BY NamesFit DEF Candidates, Fitting
<1> QED
  BY <1>1, <1>2, <1>3 DEF Fitting

(* The queue a spawn begins with has an address of its own for every place *)
(* and is ranked, whichever agents are reused.                             *)
LEMMA QueueOf ==
  ASSUME NEW spec \in Specs, IsFiniteSet(alive), InOrder(alive),
         NEW queue \in materialize_async(spec)
  PROVE  /\ queue \in Seq(Candidates(spec, alive)) /\ Len(queue) = total(spec)
         /\ Distinct(queue)
         /\ \A i \in 1..Len(queue) : queue[i] \in alive \/ queue[i] = materialize(spec)[i]
<1> DEFINE m == materialize(spec)
           t == total(spec)
           S == Fitting(spec, alive)
           C == Candidates(spec, alive)
           n == Min({t, Cardinality(S)})
<1>1. /\ m \in Seq(ToSet(m)) /\ Len(m) = t /\ Distinct(m) /\ t \in Nat
      /\ IsFiniteSet(S) /\ Cardinality(S) \in Nat /\ S \subseteq alive
      /\ ToSet(m) \subseteq C /\ S \subseteq C
  BY NamesFit, PlacesOf, FittingIs DEF Candidates
<1>2. \A k \in 1..t : m[k] \in alive => k <= Cardinality(S)
  BY DEF InOrder
<1>3. n = IF t <= Cardinality(S) THEN t ELSE Cardinality(S)
  BY <1>1, LesserOfTwo
<1>4. m \in Seq(C)
  <2> HIDE DEF m, C
  <2> QED
    BY <1>1, SeqMonotonic
<1>5. CASE queue = m
  <2> HIDE DEF m, t, S, C
  <2> QED
    BY <1>1, <1>4, <1>5 DEF m, t, C
<1>6. CASE \E reused \in kSubset(n, S) : queue = SetToSeq(reused) \o SubSeq(m, n + 1, t)
  <2>1. PICK reused \in kSubset(n, S) : queue = SetToSeq(reused) \o SubSeq(m, n + 1, t)
    BY <1>6
  <2> DEFINE r == SetToSeq(reused)
             rest == SubSeq(m, n + 1, t)
  <2>2. reused \subseteq S /\ Cardinality(reused) = n
    BY DEF kSubset
  <2> HIDE DEF m, t, S, C, n
  <2>3. n \in 0..t /\ n \in Nat
    BY <1>1, <1>3
  <2>4. IsFiniteSet(reused)
    BY <1>1, <2>2, FS_Subset
  <2>5. r \in Seq(reused) /\ Len(r) = n /\ Holds(r) = reused /\ Distinct(r)
    BY <2>2, <2>4, Enumerated
  <2>6. /\ rest \in Seq(ToSet(m)) /\ Distinct(rest) /\ Len(rest) = t - n
    BY <1>1, <2>3, Trimming
  <2>7. \A i \in 1..Len(rest) : n + i \in 1..t /\ rest[i] = m[n + i]
    <3>1. \A i \in (n + 1)..t : m[i] \in ToSet(m)
      BY <1>1, <2>3, ElementOfSeq
    <3>2. \A i \in 1..(t - (n + 1) + 1) : SubSeq(m, n + 1, t)[i] = m[(n + 1) + i - 1]
      BY <1>1, <2>3, <3>1, SubSeqProperties
    <3> HIDE DEF rest
    <3>3. \A i \in 1..Len(rest) : i \in 1..(t - (n + 1) + 1) /\ n + i \in 1..t
                                  /\ (n + 1) + i - 1 = n + i
      BY <1>1, <2>3, <2>6
    <3> QED
      BY <3>2, <3>3 DEF rest
  <2> HIDE DEF r, rest
  <2>8. \A i \in 1..Len(rest) : rest[i] \notin alive
    <3> SUFFICES ASSUME NEW i \in 1..Len(rest), rest[i] \in alive PROVE FALSE
      OBVIOUS
    <3>1. n + i \in 1..t /\ m[n + i] \in alive
      BY <2>7
    <3>2. n + i <= Cardinality(S)
      BY <1>2, <3>1
    <3> QED
      BY <1>1, <1>3, <2>3, <3>1, <3>2
  <2>9. Holds(r) \cap Holds(rest) = {}
    BY <1>1, <2>2, <2>5, <2>8 DEF Holds
  <2>10. r \in Seq(C) /\ rest \in Seq(C)
    <3>1. reused \subseteq C
      BY <1>1, <2>2
    <3> QED
      BY <1>1, <2>5, <2>6, <3>1, SeqMonotonic
  <2>11. queue = r \o rest
    BY <2>1 DEF r, rest
  <2>12. queue \in Seq(C) /\ Distinct(queue) /\ Len(queue) = t
    <3>1. queue \in Seq(C) /\ Distinct(queue) /\ Len(queue) = Len(r) + Len(rest)
      BY <2>5, <2>6, <2>9, <2>10, <2>11, Joining
    <3> QED
      BY <1>1, <2>3, <2>5, <2>6, <3>1
  <2>13. \A i \in 1..t : queue[i] \in alive \/ queue[i] = m[i]
    <3> SUFFICES ASSUME NEW i \in 1..t PROVE queue[i] \in alive \/ queue[i] = m[i]
      OBVIOUS
    <3>1. \A j \in 1..(n + (t - n)) : queue[j] = IF j <= n THEN r[j] ELSE rest[j - n]
      BY <2>5, <2>6, <2>10, <2>11, ConcatProperties
    <3>2. n + (t - n) = t
      BY <1>1, <2>3
    <3>3. CASE i <= n
      <4>1. i \in 1..Len(r) /\ queue[i] = r[i]
        BY <2>3, <2>5, <3>1, <3>2, <3>3
      <4>2. r[i] \in reused
        BY <2>5, <4>1 DEF Holds
      <4> QED
        BY <1>1, <2>2, <4>1, <4>2
    <3>4. CASE i > n
      <4>1. i - n \in 1..Len(rest) /\ queue[i] = rest[i - n] /\ n + (i - n) = i
        BY <1>1, <2>3, <2>6, <3>1, <3>2, <3>4
      <4> QED
        BY <2>7, <4>1
    <3> QED
      BY <1>1, <2>3, <3>3, <3>4
  <2> QED
    BY <2>12, <2>13 DEF t, C, m
<1> QED
  BY <1>5, <1>6, SkeletonFits DEF materialize_async

(* That queue is ranked. *)
LEMMA QueueIsRanked ==
  ASSUME NEW spec \in Specs, IsFiniteSet(alive), InOrder(alive),
         NEW queue \in materialize_async(spec)
  PROVE  /\ IsFiniteSet(ToSet(queue)) /\ Cardinality(ToSet(queue)) = total(spec)
         /\ Ranked(queue, spec, Fitting(spec, alive))
<1> DEFINE m == materialize(spec)
           S == Fitting(spec, alive)
           t == total(spec)
<1>1. /\ queue \in Seq(Candidates(spec, alive)) /\ Len(queue) = t /\ Distinct(queue) /\ t \in Nat
      /\ \A i \in 1..Len(queue) : queue[i] \in alive \/ queue[i] = m[i]
  BY QueueOf, PlacesOf
<1>2. ToSet(queue) = {queue[j] : j \in 1..t}
  BY <1>1, HoldsElements DEF Holds
<1>3. IsFiniteSet(ToSet(queue)) /\ Cardinality(ToSet(queue)) = t
  <2>1. t \in 0..Len(queue)
    BY <1>1
  <2> HIDE DEF t
  <2>2. /\ IsFiniteSet({queue[j] : j \in 1..t})
        /\ Cardinality({queue[j] : j \in 1..t}) = t
    BY <1>1, <2>1, SoMany
  <2> QED
    BY <1>2, <2>2, Zenon
<1>4. ASSUME NEW i \in 1..Len(queue), NEW k \in 1..t, queue[i] = m[k]
      PROVE  k <= Cardinality(S \cup {queue[j] : j \in 1..i})
  <2> DEFINE V == {queue[j] : j \in 1..i}
  <2>1. i \in 0..Len(queue) /\ i \in Nat /\ k \in Nat
    BY <1>1
  <2>2. IsFiniteSet(V) /\ Cardinality(V) = i /\ IsFiniteSet(S) /\ Cardinality(S) \in Nat
    <3>1. IsFiniteSet(V) /\ Cardinality(V) = i
      BY <1>1, <2>1, SoMany
    <3> HIDE DEF V, S
    <3>2. IsFiniteSet(S) /\ Cardinality(S) \in Nat
      BY FittingIs DEF S
    <3> QED
      BY <3>1, <3>2
  <2> HIDE DEF V
  <2>3. /\ IsFiniteSet(S \cup V) /\ Cardinality(S \cup V) \in Nat
        /\ i <= Cardinality(S \cup V) /\ Cardinality(S) <= Cardinality(S \cup V)
    <3> HIDE DEF S
    <3>1. IsFiniteSet(S \cup V) /\ V \subseteq S \cup V /\ S \subseteq S \cup V
      BY <2>2, FS_Union
    <3>2. Cardinality(V) <= Cardinality(S \cup V) /\ Cardinality(S) <= Cardinality(S \cup V)
      BY <3>1, FS_Subset
    <3> QED
      BY <2>2, <3>1, <3>2, FS_CardinalityType
  <2>4. CASE queue[i] \in alive
    <3>1. k <= Cardinality(S)
      BY <1>4, <2>4 DEF InOrder
    <3> HIDE DEF S
    <3> QED
      BY <2>1, <2>2, <2>3, <3>1 DEF V
  <2>5. CASE queue[i] = m[i]
    <3>1. i \in 1..t
      BY <1>1
    <3>2. i = k
      BY <1>4, <2>5, <3>1, PlacesAreDistinct
    <3> HIDE DEF S
    <3> QED
      BY <2>3, <3>2 DEF V
  <2> QED
    BY <1>1, <2>4, <2>5
<1> QED
  BY <1>3, <1>4 DEF Ranked

-----------------------------------------------------------------------------
(* The places of a queue up to one are finitely many. *)
LEMMA FrontIsFinite ==
  ASSUME NEW q, NEW i \in Nat
  PROVE  IsFiniteSet({q[j] : j \in 1..i})
<1> DEFINE V == {q[j] : j \in 1..i}
           f == [j \in 1..i |-> q[j]]
<1>1. f \in Surjection(1..i, V)
  BY DEF Surjection
<1>2. IsFiniteSet(1..i)
  BY FS_Interval
<1> HIDE DEF f, V
<1>3. IsFiniteSet(V)
  BY <1>1, <1>2, FS_Surjection
<1> QED
  BY <1>3 DEF V

(* A queue stays ranked when others come before it. *)
LEMMA RankedMore ==
  ASSUME NEW C, NEW q \in Seq(C), NEW spec \in Specs, NEW B, NEW D, IsFiniteSet(D),
         B \subseteq D, Ranked(q, spec, B)
  PROVE  Ranked(q, spec, D)
<1> SUFFICES ASSUME NEW i \in 1..Len(q), NEW k \in 1..total(spec),
                    q[i] = materialize(spec)[k]
             PROVE  k <= Cardinality(D \cup {q[j] : j \in 1..i})
  BY DEF Ranked
<1> DEFINE V == {q[j] : j \in 1..i}
<1>1. k <= Cardinality(B \cup V)
  BY DEF Ranked
<1>2. IsFiniteSet(V)
  BY FrontIsFinite
<1> HIDE DEF V
<1>3. IsFiniteSet(D \cup V) /\ B \cup V \subseteq D \cup V
  BY <1>2, FS_Union
<1>4. /\ Cardinality(B \cup V) <= Cardinality(D \cup V)
      /\ Cardinality(B \cup V) \in Nat /\ Cardinality(D \cup V) \in Nat
  BY <1>3, FS_Subset, FS_CardinalityType
<1>5. k \in Int
  BY PlacesOf
<1> QED
  BY <1>1, <1>4, <1>5 DEF V

(* The rest of a queue is ranked once the first of it has come. *)
LEMMA RankedRest ==
  ASSUME NEW C, NEW q \in Seq(C), q # <<>>, NEW spec \in Specs, NEW B, NEW D,
         IsFiniteSet(D), B \subseteq D, Head(q) \in D, Ranked(q, spec, B)
  PROVE  Ranked(Tail(q), spec, D)
<1> DEFINE r == Tail(q)
<1>1. /\ r \in Seq(C) /\ Len(r) = Len(q) - 1 /\ \A i \in 1..Len(r) : r[i] = q[i + 1]
      /\ Len(q) \in Nat /\ Head(q) = q[1]
  BY HeadTailProperties
<1> HIDE DEF r
<1>2. ASSUME NEW i \in 1..Len(r), NEW k \in 1..total(spec), r[i] = materialize(spec)[k]
      PROVE  k <= Cardinality(D \cup {r[j] : j \in 1..i})
  <2> DEFINE V == {r[j] : j \in 1..i}
             W == {q[j] : j \in 1..(i + 1)}
  <2>1. i + 1 \in 1..Len(q) /\ q[i + 1] = materialize(spec)[k] /\ i \in Nat
    BY <1>1, <1>2
  <2>2. k <= Cardinality(B \cup W)
    BY <2>1 DEF Ranked
  <2>3. B \cup W \subseteq D \cup V
    <3> SUFFICES ASSUME NEW j \in 1..(i + 1) PROVE q[j] \in D \cup V
      OBVIOUS
    <3>1. CASE j = 1
      BY <1>1, <3>1
    <3>2. CASE j # 1
      <4>1. j - 1 \in 1..i /\ j - 1 \in 1..Len(r) /\ (j - 1) + 1 = j
        BY <1>1, <3>2
      <4>2. r[j - 1] = q[j]
        BY <1>1, <4>1
      <4> QED
        BY <4>1, <4>2
    <3> QED
      BY <3>1, <3>2
  <2>4. IsFiniteSet(V)
    BY <2>1, FrontIsFinite
  <2> HIDE DEF V, W
  <2>5. IsFiniteSet(D \cup V)
    BY <2>4, FS_Union
  <2>6. /\ Cardinality(B \cup W) <= Cardinality(D \cup V)
        /\ Cardinality(B \cup W) \in Nat /\ Cardinality(D \cup V) \in Nat
    BY <2>3, <2>5, FS_Subset, FS_CardinalityType
  <2>7. k \in Int
    BY PlacesOf
  <2> QED
    BY <2>2, <2>6, <2>7 DEF V
<1> QED
  BY <1>2 DEF Ranked, r

(* What is to be built is ranked as it was in the queue it comes from. *)
LEMMA RankedBuilt ==
  ASSUME NEW C, NEW q \in Seq(C), q # <<>>, NEW new \in Seq(C), NEW spec \in Specs, NEW B,
         Ranked(q, spec, B \cup ToSet(new)), Ranked(new, spec, B)
  PROVE  Ranked(Append(new, Head(q)), spec, B)
<1> DEFINE n == Len(new)
           a == Head(q)
           r == Append(new, a)
<1>1. /\ n \in Nat /\ a \in C /\ a = q[1] /\ Len(q) \in Nat /\ 1 \in 1..Len(q)
      /\ Len(r) = n + 1 /\ r[n + 1] = a /\ \A i \in 1..n : r[i] = new[i]
      /\ ToSet(new) = {new[j] : j \in 1..n}
  <2>1. n \in Nat /\ ToSet(new) = {new[j] : j \in 1..n} /\ Len(q) \in Nat /\ 1 \in 1..Len(q)
    BY HoldsElements DEF Holds
  <2>2. a \in C /\ a = q[1]
    BY HeadTailProperties
  <2> HIDE DEF a
  <2>3. Len(r) = n + 1 /\ r[n + 1] = a /\ \A i \in 1..n : r[i] = new[i]
    BY <2>2, AppendProperties
  <2> QED
    BY <2>1, <2>2, <2>3
<1> HIDE DEF r, n, a
<1>2. ASSUME NEW i \in 1..Len(r), NEW k \in 1..total(spec), r[i] = materialize(spec)[k]
      PROVE  k <= Cardinality(B \cup {r[j] : j \in 1..i})
  <2>1. CASE i \in 1..n
    <3>1. {r[j] : j \in 1..i} = {new[j] : j \in 1..i}
      <4>1. \A j \in 1..i : r[j] = new[j]
        BY <1>1, <2>1
      <4> QED
        BY <4>1
    <3>2. k <= Cardinality(B \cup {new[j] : j \in 1..i})
      BY <1>1, <1>2, <2>1 DEF Ranked, n
    <3> QED
      BY <3>1, <3>2
  <2>2. CASE i = n + 1
    <3>1. {r[j] : j \in 1..(n + 1)} = ToSet(new) \cup {a}
      <4>1. \A j \in 1..(n + 1) : j \in 1..n \/ j = n + 1
        BY <1>1
      <4>2. \A j \in 1..n : j \in 1..(n + 1)
        BY <1>1
      <4>3. n + 1 \in 1..(n + 1)
        BY <1>1
      <4>4. ASSUME NEW x \in {r[j] : j \in 1..(n + 1)} PROVE x \in ToSet(new) \cup {a}
        <5>1. PICK j \in 1..(n + 1) : x = r[j]
          BY <4>4
        <5> QED
          BY <1>1, <4>1, <5>1
      <4>5. ASSUME NEW x \in ToSet(new) \cup {a} PROVE x \in {r[j] : j \in 1..(n + 1)}
        <5>1. CASE x = a
          BY <1>1, <4>3, <5>1
        <5>2. CASE x \in ToSet(new)
          <6>1. PICK j \in 1..n : x = new[j]
            BY <1>1, <5>2
          <6> QED
            BY <1>1, <4>2, <6>1
        <5> QED
          BY <5>1, <5>2
      <4> QED
        BY <4>4, <4>5
    <3>2. q[1] = materialize(spec)[k] /\ {q[j] : j \in 1..1} = {a}
      BY <1>1, <1>2, <2>2
    <3>3. k <= Cardinality((B \cup ToSet(new)) \cup {q[j] : j \in 1..1})
      BY <1>1, <3>2 DEF Ranked
    <3>4. (B \cup ToSet(new)) \cup {a} = B \cup (ToSet(new) \cup {a})
      OBVIOUS
    <3> QED
      BY <2>2, <3>1, <3>2, <3>3, <3>4
  <2> QED
    BY <1>1, <2>1, <2>2
<1> QED
  BY <1>2 DEF Ranked, r, a

-----------------------------------------------------------------------------
(* A spawn under way: together the addresses it has still to look at, has  *)
(* built and has reused are as many as its pattern has places, and what it *)
(* has still to build or to register is ranked.                            *)
IsSpawn(j, live) ==
    /\ j.spec \in Specs /\ j.reused \subseteq live
    /\ j.todo \in Seq(Candidates(j.spec, live)) /\ j.new \in Seq(Candidates(j.spec, live))
    /\ j.at = "check" =>
         /\ Cardinality(ToSet(j.todo) \cup ToSet(j.new) \cup j.reused) = total(j.spec)
         /\ Ranked(j.todo, j.spec, Fitting(j.spec, live) \cup ToSet(j.new))
         /\ Ranked(j.new, j.spec, Fitting(j.spec, live))
    /\ j.at # "check" => Cardinality(ToSet(j.new) \cup j.reused) = total(j.spec)
    /\ j.at = "register" =>
         /\ Ranked(j.todo, j.spec, Fitting(j.spec, live))
         /\ ToSet(j.new) \subseteq live \cup ToSet(j.todo)
    /\ j.at \in {"start", "done"} => ToSet(j.new) \subseteq live

(* Other agents that come to life leave it as it is. *)
LEMMA MoreFit ==
  ASSUME NEW live, NEW more, live \subseteq more, IsFiniteSet(more), NEW spec \in Specs
  PROVE  /\ Fitting(spec, live) \subseteq Fitting(spec, more)
         /\ Candidates(spec, live) \subseteq Candidates(spec, more)
         /\ Cardinality(Fitting(spec, live)) <= Cardinality(Fitting(spec, more))
         /\ IsFiniteSet(Fitting(spec, more))
         /\ Cardinality(Fitting(spec, live)) \in Nat
         /\ Cardinality(Fitting(spec, more)) \in Nat
<1>1. Fitting(spec, live) \subseteq Fitting(spec, more)
  BY DEF Fitting
<1>2. IsFiniteSet(live)
  BY FS_Subset
<1>3. /\ IsFiniteSet(Fitting(spec, more)) /\ Cardinality(Fitting(spec, live)) \in Nat
      /\ Cardinality(Fitting(spec, more)) \in Nat
  BY <1>2, FittingIs
<1>4. Cardinality(Fitting(spec, live)) <= Cardinality(Fitting(spec, more))
  BY <1>1, <1>3, FS_Subset
<1> QED
  BY <1>1, <1>3, <1>4 DEF Candidates

(* A spawn goes on when other agents come to life. *)
LEMMA LivesOn ==
  ASSUME NEW j, NEW live, NEW more, live \subseteq more, IsFiniteSet(more), IsSpawn(j, live)
  PROVE  IsSpawn(j, more)
<1> DEFINE spec == j.spec
           F == Fitting(spec, live)
           G == Fitting(spec, more)
           C == Candidates(spec, live)
           D == Candidates(spec, more)
<1>1. spec \in Specs /\ j.todo \in Seq(C) /\ j.new \in Seq(C)
  BY DEF IsSpawn
<1>2. F \subseteq G /\ C \subseteq D /\ IsFiniteSet(G)
  BY <1>1, MoreFit
<1>3. j.todo \in Seq(D) /\ j.new \in Seq(D)
  <2> HIDE DEF C, D
  <2> QED
    BY <1>1, <1>2, SeqMonotonic
<1>4. ASSUME Ranked(j.new, spec, F) PROVE Ranked(j.new, spec, G)
  <2> HIDE DEF C, D, F, G, spec
  <2> QED
    BY <1>1, <1>2, <1>4, RankedMore
<1>5. ASSUME Ranked(j.todo, spec, F) PROVE Ranked(j.todo, spec, G)
  <2> HIDE DEF C, D, F, G, spec
  <2> QED
    BY <1>1, <1>2, <1>5, RankedMore
<1>6. ASSUME Ranked(j.todo, spec, F \cup ToSet(j.new))
      PROVE  Ranked(j.todo, spec, G \cup ToSet(j.new))
  <2>1. IsFiniteSet(ToSet(j.new))
    <3>1. ToSet(j.new) = {j.new[i] : i \in 1..Len(j.new)} /\ Len(j.new) \in Nat
      BY <1>1, HoldsElements DEF Holds
    <3>2. IsFiniteSet({j.new[i] : i \in 1..Len(j.new)})
      BY <3>1, FrontIsFinite
    <3> QED
      BY <3>1, <3>2, Zenon
  <2> HIDE DEF C, D, F, G, spec
  <2>2. IsFiniteSet(G \cup ToSet(j.new)) /\ F \cup ToSet(j.new) \subseteq G \cup ToSet(j.new)
    BY <1>2, <2>1, FS_Union
  <2> QED
    BY <1>1, <1>6, <2>2, RankedMore
<1>7. j.reused \subseteq more
  BY DEF IsSpawn
<1> QED
  BY <1>1, <1>3, <1>4, <1>5, <1>6, <1>7 DEF IsSpawn

-----------------------------------------------------------------------------
(* An address of a queue is looked at: it is alive and reused, or built.   *)
LEMMA ChecksOut ==
  ASSUME NEW live, IsFiniteSet(live), NEW j, IsSpawn(j, live), j.at = "check",
         j.todo # <<>>, NEW i, i.at = "check", i.spec = j.spec, i.todo = Tail(j.todo),
         \/ /\ Head(j.todo) \in live /\ i.reused = j.reused \cup {Head(j.todo)}
            /\ i.new = j.new
         \/ i.reused = j.reused /\ i.new = Append(j.new, Head(j.todo))
  PROVE  IsSpawn(i, live)
<1> DEFINE spec == j.spec
           F == Fitting(spec, live)
           C == Candidates(spec, live)
           a == Head(j.todo)
<1>1. /\ spec \in Specs /\ j.todo \in Seq(C) /\ j.new \in Seq(C) /\ j.reused \subseteq live
      /\ Cardinality(ToSet(j.todo) \cup ToSet(j.new) \cup j.reused) = total(spec)
      /\ Ranked(j.todo, spec, F \cup ToSet(j.new)) /\ Ranked(j.new, spec, F)
  BY DEF IsSpawn
<1>2. /\ a \in C /\ i.todo \in Seq(C) /\ ToSet(j.todo) = {a} \cup ToSet(i.todo)
  <2>1. /\ a \in C /\ i.todo \in Seq(C)
        /\ \A x : x \in ToSet(j.todo) => x = a \/ x \in ToSet(i.todo)
    BY <1>1, Elements
  <2>2. a = j.todo[1] /\ 1 \in DOMAIN j.todo
    BY <1>1
  <2>3. a \in ToSet(j.todo)
    BY <2>2 DEF ToSet
  <2>4. ToSet(i.todo) \subseteq ToSet(j.todo)
    <3>1. /\ Len(i.todo) = Len(j.todo) - 1 /\ Len(j.todo) \in Nat
          /\ \A k \in 1..Len(i.todo) : i.todo[k] = j.todo[k + 1]
          /\ DOMAIN i.todo = 1..Len(i.todo) /\ DOMAIN j.todo = 1..Len(j.todo)
      BY <1>1, <2>1, HeadTailProperties
    <3>2. \A k \in DOMAIN i.todo : k + 1 \in DOMAIN j.todo /\ i.todo[k] = j.todo[k + 1]
      BY <3>1
    <3> QED
      BY <3>2 DEF ToSet
  <2> HIDE DEF a
  <2> QED
    BY <2>1, <2>3, <2>4
<1>3. F \subseteq live /\ IsFiniteSet(F) /\ (a \in live => a \in F)
  BY <1>1, <1>2, FittingIs
<1>4. IsFiniteSet(ToSet(j.new)) /\ IsFiniteSet(F \cup ToSet(j.new))
  <2>1. ToSet(j.new) = {j.new[k] : k \in 1..Len(j.new)} /\ Len(j.new) \in Nat
    BY <1>1, HoldsElements DEF Holds
  <2>2. IsFiniteSet({j.new[k] : k \in 1..Len(j.new)})
    BY <2>1, FrontIsFinite
  <2>3. IsFiniteSet(ToSet(j.new))
    BY <2>1, <2>2, Zenon
  <2> HIDE DEF F
  <2> QED
    BY <1>3, <2>3, FS_Union
<1>5. CASE a \in live /\ i.reused = j.reused \cup {a} /\ i.new = j.new
  <2>1. Ranked(i.todo, spec, F \cup ToSet(j.new))
    <3> HIDE DEF C, F, spec
    <3> QED
      BY <1>1, <1>3, <1>4, <1>5, RankedRest
  <2>2. ToSet(i.todo) \cup ToSet(i.new) \cup i.reused
          = ToSet(j.todo) \cup ToSet(j.new) \cup j.reused
    BY <1>2, <1>5
  <2> HIDE DEF F, C, a
  <2>3. /\ i.todo \in Seq(C) /\ i.new \in Seq(C) /\ i.reused \subseteq live
        /\ Cardinality(ToSet(i.todo) \cup ToSet(i.new) \cup i.reused) = total(spec)
        /\ Ranked(i.todo, spec, F \cup ToSet(i.new)) /\ Ranked(i.new, spec, F)
    BY <1>1, <1>2, <1>5, <2>1, <2>2
  <2> QED
    BY <1>1, <2>3 DEF IsSpawn, F, C
<1>6. CASE i.reused = j.reused /\ i.new = Append(j.new, a)
  <2>1. i.new \in Seq(C) /\ ToSet(i.new) = ToSet(j.new) \cup {a}
    <3> DEFINE r == Append(j.new, a)
               n == Len(j.new)
    <3>1. /\ r \in Seq(C) /\ Len(r) = n + 1 /\ n \in Nat
          /\ \A k \in 1..n : r[k] = j.new[k]
          /\ r[n + 1] = a /\ DOMAIN j.new = 1..n
      BY <1>1, <1>2, AppendProperties
    <3> HIDE DEF r, a, n
    <3>2. DOMAIN r = 1..(n + 1)
      BY <3>1
    <3>3. \A k \in 1..(n + 1) : k \in 1..n \/ k = n + 1
      BY <3>1
    <3>4. n + 1 \in 1..(n + 1) /\ \A k \in 1..n : k \in 1..(n + 1)
      BY <3>1
    <3>5. ToSet(r) = ToSet(j.new) \cup {a}
      BY <3>1, <3>2, <3>3, <3>4 DEF ToSet
    <3> QED
      BY <1>6, <3>1, <3>5 DEF r
  <2>2. Ranked(i.new, spec, F)
    <3> HIDE DEF C, F, spec
    <3> QED
      BY <1>1, <1>6, RankedBuilt
  <2>3. Ranked(i.todo, spec, F \cup ToSet(i.new))
    <3> DEFINE D == F \cup ToSet(i.new)
    <3>1. D = (F \cup ToSet(j.new)) \cup {a}
      BY <2>1
    <3>2. IsFiniteSet(D) /\ F \cup ToSet(j.new) \subseteq D /\ a \in D
      <4> HIDE DEF F, a
      <4>1. IsFiniteSet((F \cup ToSet(j.new)) \cup {a})
        BY <1>4, FS_AddElement
      <4> QED
        BY <3>1, <4>1
    <3> HIDE DEF D, C, F, spec
    <3>3. Ranked(i.todo, spec, D)
      BY <1>1, <3>2, RankedRest
    <3> QED
      BY <3>3 DEF D
  <2>4. ToSet(i.todo) \cup ToSet(i.new) \cup i.reused
          = ToSet(j.todo) \cup ToSet(j.new) \cup j.reused
    <3> HIDE DEF a
    <3> QED
      BY <1>2, <1>6, <2>1
  <2> HIDE DEF F, C, a
  <2>5. /\ i.todo \in Seq(C) /\ i.new \in Seq(C) /\ i.reused \subseteq live
        /\ Cardinality(ToSet(i.todo) \cup ToSet(i.new) \cup i.reused) = total(spec)
        /\ Ranked(i.todo, spec, F \cup ToSet(i.new)) /\ Ranked(i.new, spec, F)
    BY <1>1, <1>2, <1>6, <2>1, <2>2, <2>3, <2>4
  <2> QED
    BY <1>1, <2>5 DEF IsSpawn, F, C
<1> QED
  BY <1>5, <1>6

(* What is built goes through registration, then through the start. *)
LEMMA GoesToRegister ==
  ASSUME NEW live, NEW j, IsSpawn(j, live), j.at = "check", j.todo = <<>>,
         NEW i, i.at = "register", i.spec = j.spec, i.reused = j.reused,
         i.new = j.new, i.todo = j.new
  PROVE  IsSpawn(i, live)
<1>1. ToSet(j.todo) \cup ToSet(j.new) \cup j.reused = ToSet(j.new) \cup j.reused
  BY NoElements
<1>2. /\ j.spec \in Specs /\ j.reused \subseteq live
      /\ j.new \in Seq(Candidates(j.spec, live))
      /\ Cardinality(ToSet(j.new) \cup j.reused) = total(j.spec)
      /\ Ranked(j.new, j.spec, Fitting(j.spec, live))
  BY <1>1 DEF IsSpawn
<1> QED
  BY <1>2 DEF IsSpawn

(* When all are registered, all are to be started. *)
LEMMA GoesToStart ==
  ASSUME NEW live, NEW j, IsSpawn(j, live), j.at = "register", j.todo = <<>>,
         NEW i, i.at = "start", i.spec = j.spec, i.reused = j.reused,
         i.new = j.new, i.todo = j.new
  PROVE  IsSpawn(i, live)
<1>1. /\ j.spec \in Specs /\ j.reused \subseteq live
      /\ j.new \in Seq(Candidates(j.spec, live))
      /\ Cardinality(ToSet(j.new) \cup j.reused) = total(j.spec)
      /\ ToSet(j.new) \subseteq live \cup ToSet(j.todo)
  BY DEF IsSpawn
<1>2. ToSet(j.new) \subseteq live
  BY <1>1, NoElements
<1> QED
  BY <1>1, <1>2 DEF IsSpawn

(* Starting brings nobody to life. *)
LEMMA Started ==
  ASSUME NEW live, NEW j, IsSpawn(j, live), j.at = "start",
         NEW i, i.spec = j.spec, i.reused = j.reused, i.new = j.new,
         \/ i.at = "start" /\ i.todo = Tail(j.todo) /\ j.todo # <<>>
         \/ i.at = "done" /\ i.todo = j.todo
  PROVE  IsSpawn(i, live)
<1>1. /\ j.spec \in Specs /\ j.reused \subseteq live
      /\ j.todo \in Seq(Candidates(j.spec, live))
      /\ j.new \in Seq(Candidates(j.spec, live))
      /\ Cardinality(ToSet(j.new) \cup j.reused) = total(j.spec)
      /\ ToSet(j.new) \subseteq live
  BY DEF IsSpawn
<1>2. i.todo \in Seq(Candidates(j.spec, live))
  BY <1>1, Elements
<1> QED
  BY <1>1, <1>2 DEF IsSpawn

(* The agent a spawn registers is one of its own. *)
LEMMA Registered ==
  ASSUME NEW live, NEW j, IsSpawn(j, live), IsFiniteSet(live), j.at = "register",
         j.todo # <<>>, NEW i, i.at = "register", i.spec = j.spec, i.reused = j.reused,
         i.new = j.new, i.todo = Tail(j.todo)
  PROVE  IsSpawn(i, live \cup {Head(j.todo)})
<1> DEFINE spec == j.spec
           a == Head(j.todo)
           more == live \cup {a}
           F == Fitting(spec, live)
           G == Fitting(spec, more)
           C == Candidates(spec, live)
           D == Candidates(spec, more)
<1>1. /\ spec \in Specs /\ j.reused \subseteq live /\ j.todo \in Seq(C) /\ j.new \in Seq(C)
      /\ Cardinality(ToSet(j.new) \cup j.reused) = total(spec)
      /\ Ranked(j.todo, spec, F) /\ ToSet(j.new) \subseteq live \cup ToSet(j.todo)
  BY DEF IsSpawn
<1>2. live \subseteq more /\ IsFiniteSet(more) /\ a \in more
  <2> HIDE DEF a
  <2> QED
    BY FS_AddElement
<1>3. F \subseteq G /\ C \subseteq D /\ IsFiniteSet(G)
  <2> HIDE DEF more
  <2> QED
    BY <1>1, <1>2, MoreFit
<1>4. /\ a \in C /\ i.todo \in Seq(C)
      /\ \A x : x \in ToSet(j.todo) => x = a \/ x \in ToSet(i.todo)
  BY <1>1, Elements
<1>5. a \in G
  <2>1. a \in D
    <3> HIDE DEF C, D
    <3> QED
      BY <1>3, <1>4
  <2> HIDE DEF more, a
  <2> QED
    BY <1>1, <1>2, <2>1, FittingIs
<1>6. Ranked(i.todo, spec, G)
  <2> HIDE DEF C, F, G, spec
  <2> QED
    BY <1>1, <1>3, <1>5, RankedRest
<1>7. i.todo \in Seq(D) /\ j.new \in Seq(D)
  <2> HIDE DEF C, D
  <2> QED
    BY <1>1, <1>3, <1>4, SeqMonotonic
<1>8. ToSet(j.new) \subseteq more \cup ToSet(i.todo) /\ j.reused \subseteq more
  <2> HIDE DEF a
  <2> QED
    BY <1>1, <1>4
<1> HIDE DEF a, F, C
<1> QED
  BY <1>1, <1>6, <1>7, <1>8 DEF IsSpawn, a

-----------------------------------------------------------------------------
(* One more agent comes to life in order. *)
LEMMA OneMoreAlive ==
  ASSUME NEW live, IsFiniteSet(live), InOrder(live), NEW a,
         \A t \in Specs : \A k \in 1..total(t) :
           materialize(t)[k] = a => k <= Cardinality(Fitting(t, live \cup {a}))
  PROVE  IsFiniteSet(live \cup {a}) /\ InOrder(live \cup {a})
<1> DEFINE more == live \cup {a}
<1>1. IsFiniteSet(more)
  BY FS_AddElement
<1>2. ASSUME NEW t \in Specs, NEW k \in 1..total(t), materialize(t)[k] \in more
      PROVE  k <= Cardinality(Fitting(t, more))
  <2>1. CASE materialize(t)[k] \in live
    <3>1. k <= Cardinality(Fitting(t, live))
      BY <2>1 DEF InOrder
    <3>2. live \subseteq more
      OBVIOUS
    <3>3. k \in Int
      BY PlacesOf
    <3> HIDE DEF more
    <3>4. /\ Cardinality(Fitting(t, live)) <= Cardinality(Fitting(t, more))
          /\ Cardinality(Fitting(t, live)) \in Nat /\ Cardinality(Fitting(t, more)) \in Nat
      BY <1>1, <3>2, MoreFit
    <3> QED
      BY <3>1, <3>3, <3>4
  <2>2. CASE materialize(t)[k] = a
    BY <2>2
  <2> QED
    BY <1>2, <2>1, <2>2
<1> QED
  BY <1>1, <1>2 DEF InOrder

(* Specs that agree fit the same agents. *)
LEMMA SameFit ==
  ASSUME SpecsAgree, NEW s \in Specs, NEW t \in Specs, NEW j \in 1..total(s),
         NEW k \in 1..total(t), materialize(s)[j] = materialize(t)[k], NEW live
  PROVE  j = k /\ Fitting(s, live) = Fitting(t, live)
<1>1. CASE s = t
  BY <1>1, PlacesAreDistinct
<1>2. CASE s # t
  <2>1. j = k /\ Pinned(s) = Pinned(t)
    BY <1>2 DEF SpecsAgree
  <2> DEFINE a == materialize(s)[j]
  <2>2. Fits(a, s) /\ Fits(a, t)
    BY NamesFit
  <2> HIDE DEF a
  <2>3. Len(s) = Len(t)
    BY <2>2 DEF Fits
  <2>4. OfKind(s, "fixed") = OfKind(t, "fixed")
    <3>1. /\ DOMAIN Pinned(s) = OfKind(s, "fixed")
          /\ DOMAIN Pinned(t) = OfKind(t, "fixed")
      BY DEF Pinned
    <3> QED
      BY <2>1, <3>1
  <2>5. \A i \in OfKind(s, "fixed") : s[i].value = t[i].value
    <3>1. /\ \A i \in OfKind(s, "fixed") : Pinned(s)[i] = s[i].value
          /\ \A i \in OfKind(t, "fixed") : Pinned(t)[i] = t[i].value
      BY DEF Pinned
    <3> QED
      BY <2>1, <2>4, <3>1
  <2>6. \A x : Fits(x, s) <=> Fits(x, t)
    BY <2>3, <2>4, <2>5 DEF Fits
  <2> QED
    BY <2>1, <2>6 DEF Fitting
<1> QED
  BY <1>1, <1>2

(* The next address that a spawn registers comes to life in order. *)
LEMMA RegistersInOrder ==
  ASSUME SpecsAgree, NEW live, IsFiniteSet(live), InOrder(live), NEW j, IsSpawn(j, live),
         j.at = "register", j.todo # <<>>
  PROVE  InOrder(live \cup {Head(j.todo)})
<1> DEFINE s == j.spec
           a == Head(j.todo)
           F == Fitting(s, live)
           G == Fitting(s, live \cup {a})
<1>1. s \in Specs /\ j.todo \in Seq(Candidates(s, live)) /\ Ranked(j.todo, s, F)
  BY DEF IsSpawn
<1>2. a \in Candidates(s, live) /\ a = j.todo[1] /\ 1 \in 1..Len(j.todo)
  BY <1>1, HeadTailProperties
<1>3. Fits(a, s)
  BY <1>1, <1>2, FittingIs
<1>4. CASE a \in live
  <2>1. live \cup {a} = live
    BY <1>4
  <2> QED
    BY <2>1
<1>5. CASE a \notin live
  <2>1. a \in ToSet(materialize(s))
    BY <1>2, <1>5 DEF Candidates, Fitting
  <2>2. PICK i \in 1..total(s) : a = materialize(s)[i]
    BY <1>1, <2>1, NamesFit
  <2>3. F \cup {a} = G
    BY <1>3 DEF Fitting
  <2>4. {j.todo[n] : n \in 1..1} = {a}
    BY <1>2
  <2>5. i <= Cardinality(G)
    <3>1. i <= Cardinality(F \cup {j.todo[n] : n \in 1..1})
      <4> HIDE DEF F
      <4> QED
        BY <1>1, <1>2, <2>2 DEF Ranked
    <3> QED
      BY <2>3, <2>4, <3>1
  <2>6. ASSUME NEW t \in Specs, NEW k \in 1..total(t), materialize(t)[k] = a
        PROVE  k <= Cardinality(Fitting(t, live \cup {a}))
    <3>1. i = k /\ Fitting(s, live \cup {a}) = Fitting(t, live \cup {a})
      BY <1>1, <2>2, <2>6, SameFit
    <3> QED
      BY <2>5, <3>1
  <2> HIDE DEF a
  <2>7. InOrder(live \cup {a})
    BY <2>6, OneMoreAlive
  <2> QED
    BY <2>7 DEF a
<1> QED
  BY <1>4, <1>5

-----------------------------------------------------------------------------
(* As long as no agent left, agents come to life in order, and spawns fill *)
(* their places.                                                           *)
Spawning(j) == j.at \notin {"idle", "raised"} /\ j.kind = "spawn"
SpawnInv ==
    /\ IsFiniteSet(alive) /\ departed \in Nat
    /\ departed = 0 =>
         InOrder(alive) /\ \A p \in Spawners : Spawning(job[p]) => IsSpawn(job[p], alive)

(* One job changes, and no agent comes or goes. *)
LEMMA OneSpawn ==
  ASSUME CommunityInv, SpawnInv, NEW p \in Spawners, NEW j, job' = [job EXCEPT ![p] = j],
         UNCHANGED <<alive, departed>>,
         departed = 0 /\ InOrder(alive) /\ Spawning(j) => IsSpawn(j, alive)
  PROVE  SpawnInv'
<1>1. DOMAIN job = Spawners
  BY DEF CommunityInv, JobsOrderly
<1>2. job'[p] = j /\ \A q \in Spawners : q # p => job'[q] = job[q]
  BY <1>1
<1>3. ASSUME departed = 0, NEW q \in Spawners, Spawning(job'[q])
      PROVE  IsSpawn(job'[q], alive)
  <2>1. CASE q = p
    BY <1>2, <1>3, <2>1 DEF SpawnInv
  <2>2. CASE q # p
    <3>1. job'[q] = job[q]
      BY <1>2, <2>2
    <3>2. Spawning(job[q])
      BY <1>3, <3>1
    <3>3. IsSpawn(job[q], alive)
      BY <1>3, <3>2 DEF SpawnInv
    <3> QED
      BY <3>1, <3>3
  <2> QED
    BY <2>1, <2>2
<1> QED
  BY <1>3 DEF SpawnInv

(* Steps that concern neither jobs nor agents. *)
LEMMA StillSpawns ==
  ASSUME SpawnInv, UNCHANGED <<job, alive, departed>>
  PROVE  SpawnInv'
BY DEF SpawnInv

(* A spawn begins. *)
LEMMA SpawnsBegin ==
  ASSUME CommunityInv, SpawnInv, NEW p \in Spawners, NEW spec \in Specs, Spawn(p, spec)
  PROVE  SpawnInv'
<1>1. PICK queue \in materialize_async(spec) :
         job' = [job EXCEPT ![p] = NewJob("spawn", spec, "check", queue)]
  BY DEF Spawn
<1> DEFINE j == NewJob("spawn", spec, "check", queue)
<1>2. /\ j.at = "check" /\ j.spec = spec /\ j.todo = queue /\ j.new = <<>>
      /\ j.reused = {}
  BY DEF NewJob
<1>3. UNCHANGED <<alive, departed>> /\ job' = [job EXCEPT ![p] = j]
  BY <1>1 DEF Spawn
<1> HIDE DEF j
<1>4. ASSUME InOrder(alive) PROVE IsSpawn(j, alive)
  <2>1. IsFiniteSet(alive)
    BY DEF SpawnInv
  <2>2. queue \in Seq(Candidates(spec, alive))
    BY <1>4, <2>1, QueueOf
  <2>3. Cardinality(ToSet(queue)) = total(spec) /\ Ranked(queue, spec, Fitting(spec, alive))
    BY <1>4, <2>1, QueueIsRanked
  <2>4. ToSet(queue) \cup ToSet(<<>>) \cup {} = ToSet(queue)
        /\ Fitting(spec, alive) \cup ToSet(<<>>) = Fitting(spec, alive)
    BY NoElements
  <2>5. Ranked(<<>>, spec, Fitting(spec, alive)) /\ <<>> \in Seq(Candidates(spec, alive))
    BY EmptySeq DEF Ranked
  <2> QED
    BY <1>2, <2>2, <2>3, <2>4, <2>5 DEF IsSpawn
<1> QED
  BY <1>3, <1>4, OneSpawn

(* What an invitation does before it registers anybody is no spawn's. *)
LEMMA InvitationsAreNot ==
  ASSUME CommunityInv, SpawnInv, NEW p \in Spawners,
         Invite(p) \/ _parse_slate(p) \/ _ParseError(p) \/ Funded(p) \/ AllFunded(p)
  PROVE  SpawnInv'
<1>1. UNCHANGED <<alive, departed>>
  BY DEF Invite, _parse_slate, _ParseError, Funded, AllFunded
<1>2. CASE Invite(p)
  <2> DEFINE j == NewJob("invite", <<>>, "ask", <<>>)
  <2>1. job' = [job EXCEPT ![p] = j] /\ j.kind # "spawn"
    BY <1>2 DEF Invite, NewJob
  <2> HIDE DEF j
  <2> QED
    BY <1>1, <2>1, OneSpawn DEF Spawning
<1>3. CASE ~Invite(p)
  <2>1. job[p].at \in {"ask", "fund"}
    BY <1>3 DEF _parse_slate, _ParseError, Funded, AllFunded, Is
  <2>2. IsJob(job[p]) /\ job[p].kind = "invite"
    BY <2>1, AtWork
  <2>3. \E j : job' = [job EXCEPT ![p] = j] /\ j.kind = "invite"
    <3>1. CASE _parse_slate(p)
      <4>1. PICK slugs \in kSubset(Slate, Addresses) : \E order \in SetToSeqs(slugs) :
              job' = [job EXCEPT ![p].at = "check", ![p].todo = order]
        BY <3>1 DEF _parse_slate
      <4>2. PICK order \in SetToSeqs(slugs) :
              job' = [job EXCEPT ![p].at = "check", ![p].todo = order]
        BY <4>1
      <4> DEFINE j == Turned(job[p], "check", order)
      <4>3. job' = [job EXCEPT ![p] = j]
        BY <4>2 DEF Turned
      <4>4. j.kind = "invite"
        BY <2>2, TurnedType
      <4> QED
        BY <4>3, <4>4
    <3>2. CASE AllFunded(p)
      <4> DEFINE j == Turned(job[p], "register", job[p].new)
      <4>1. job' = [job EXCEPT ![p] = j]
        BY <3>2 DEF AllFunded, Turned
      <4>2. j.kind = "invite"
        BY <2>2, TurnedType
      <4> QED
        BY <4>1, <4>2
    <3>3. CASE _ParseError(p)
      <4>1. PICK j : /\ job' = [job EXCEPT ![p] = j]
                     /\ \E where : j = [job[p] EXCEPT !.retries = @ + 1, !.at = where]
        BY <3>3 DEF _ParseError
      <4>2. j.kind = "invite"
        BY <2>2, <4>1 DEF IsJob
      <4> QED
        BY <4>1, <4>2
    <3>4. CASE Funded(p)
      <4>1. PICK j : /\ job' = [job EXCEPT ![p] = j]
                     /\ \/ \E paid : j = [job[p] EXCEPT !.todo = Tail(@), !.paid = paid]
                        \/ j = [job[p] EXCEPT !.at = "raised"]
        BY <3>4 DEF Funded
      <4>2. j.kind = "invite"
        BY <2>2, <4>1 DEF IsJob
      <4> QED
        BY <4>1, <4>2
    <3> QED
      BY <1>3, <3>1, <3>2, <3>3, <3>4
  <2>4. PICK j : job' = [job EXCEPT ![p] = j] /\ j.kind = "invite"
    BY <2>3
  <2> QED
    BY <1>1, <2>4, OneSpawn DEF Spawning
<1> QED
  BY <1>2, <1>3

(* The next address is looked at. *)
LEMMA SpawnsCheck ==
  ASSUME CommunityInv, SpawnInv, NEW p \in Spawners, Check(p)
  PROVE  SpawnInv'
<1>1. job[p].at = "check" /\ job[p].todo # <<>> /\ UNCHANGED <<alive, departed>>
  BY DEF Check, Is
<1>2. IsJob(job[p]) /\ job[p].kind \in {"spawn", "invite"}
  BY <1>1, AtWork
<1> DEFINE a == Head(job[p].todo)
           used == [job[p] EXCEPT !.todo = Tail(@), !.reused = @ \cup {a}]
           built == [job[p] EXCEPT !.todo = Tail(@), !.new = Append(@, a)]
<1>3. PICK j : /\ job' = [job EXCEPT ![p] = j]
               /\ \/ a \in alive /\ j = used
                  \/ j = built
  BY DEF Check
<1>4. /\ j.at = "check" /\ j.spec = job[p].spec /\ j.todo = Tail(job[p].todo)
      /\ j.kind = job[p].kind
      /\ \/ a \in alive /\ j.reused = job[p].reused \cup {a} /\ j.new = job[p].new
         \/ j.reused = job[p].reused /\ j.new = Append(job[p].new, a)
  BY <1>1, <1>2, <1>3 DEF IsJob
<1> HIDE DEF used, built
<1>5. ASSUME departed = 0, Spawning(j) PROVE IsSpawn(j, alive)
  <2>1. Spawning(job[p])
    BY <1>1, <1>4, <1>5 DEF Spawning
  <2>2. IsSpawn(job[p], alive) /\ IsFiniteSet(alive)
    BY <1>5, <2>1 DEF SpawnInv
  <2> DEFINE i == job[p]
  <2>3. /\ IsSpawn(i, alive) /\ IsFiniteSet(alive) /\ i.at = "check" /\ i.todo # <<>>
        /\ j.at = "check" /\ j.spec = i.spec /\ j.todo = Tail(i.todo)
        /\ \/ /\ Head(i.todo) \in alive /\ j.reused = i.reused \cup {Head(i.todo)}
              /\ j.new = i.new
           \/ j.reused = i.reused /\ j.new = Append(i.new, Head(i.todo))
    BY <1>1, <1>4, <2>2
  <2> HIDE DEF i
  <2> QED
    BY <2>3, ChecksOut
<1> QED
  BY <1>1, <1>3, <1>5, OneSpawn

(* A job that goes on to its next place keeps what it has reused. *)
LEMMA TurnedKeeps ==
  ASSUME NEW j, IsJob(j), NEW where, NEW todo
  PROVE  /\ Turned(j, where, todo).spec = j.spec
         /\ Turned(j, where, todo).reused = j.reused
BY DEF IsJob, Turned

(* Everything is built, or the call raises. *)
LEMMA SpawnsBuild ==
  ASSUME CommunityInv, SpawnInv, NEW p \in Spawners, Built(p) \/ Raise(p)
  PROVE  SpawnInv'
<1>1. CASE Built(p)
  <2>1. job[p].at = "check" /\ job[p].todo = <<>> /\ UNCHANGED <<alive, departed>>
    BY <1>1 DEF Built, Is
  <2>2. IsJob(job[p])
    BY <2>1, AtWork
  <2> DEFINE where == IF job[p].kind = "invite" THEN "fund" ELSE "register"
             j == Turned(job[p], where, job[p].new)
             i == job[p]
  <2>3. job' = [job EXCEPT ![p] = j]
    BY <1>1 DEF Built, Turned
  <2>4. /\ j.kind = job[p].kind /\ j.at = where /\ j.todo = job[p].new
        /\ j.new = job[p].new /\ j.spec = job[p].spec /\ j.reused = job[p].reused
    BY <2>2, TurnedType, TurnedKeeps
  <2>5. job[p].kind # "invite" => where = "register"
    OBVIOUS
  <2> HIDE DEF j, where
  <2>6. ASSUME departed = 0, Spawning(j) PROVE IsSpawn(j, alive)
    <3>1. Spawning(job[p]) /\ j.at = "register"
      BY <2>1, <2>4, <2>5, <2>6 DEF Spawning
    <3>2. IsSpawn(i, alive)
      BY <2>6, <3>1 DEF SpawnInv
    <3>3. /\ i.at = "check" /\ i.todo = <<>> /\ j.spec = i.spec /\ j.reused = i.reused
          /\ j.new = i.new /\ j.todo = i.new
      BY <2>1, <2>4
    <3> HIDE DEF i
    <3> QED
      BY <3>1, <3>2, <3>3, GoesToRegister
  <2> QED
    BY <2>1, <2>3, <2>6, OneSpawn
<1>2. CASE Raise(p)
  <2>1. job[p].at \in {"check", "register", "start"} /\ UNCHANGED <<alive, departed>>
    BY <1>2 DEF Raise
  <2>2. IsJob(job[p])
    BY <2>1, AtWork
  <2> DEFINE j == [job[p] EXCEPT !.at = "raised"]
  <2>3. job' = [job EXCEPT ![p] = j]
    BY <1>2 DEF Raise, Becomes
  <2>4. j.at = "raised"
    BY <2>2 DEF IsJob
  <2> HIDE DEF j
  <2> QED
    BY <2>1, <2>3, <2>4, OneSpawn DEF Spawning
<1> QED
  BY <1>1, <1>2

(* All are registered, or one is started. *)
LEMMA SpawnsStart ==
  ASSUME CommunityInv, SpawnInv, NEW p \in Spawners,
         Start(p) \/ (Register(p) /\ job[p].todo = <<>>)
  PROVE  SpawnInv'
<1>1. job[p].at \in {"register", "start"} /\ UNCHANGED <<alive, departed>>
  BY DEF Start, Register, Is
<1>2. IsJob(job[p])
  BY <1>1, AtWork
<1>3. \E where, todo :
        /\ job' = [job EXCEPT ![p] = Turned(job[p], where, todo)]
        /\ \/ /\ job[p].at = "register" /\ where = "start" /\ todo = job[p].new
              /\ job[p].todo = <<>>
           \/ /\ job[p].at = "start" /\ where = "start" /\ todo = Tail(job[p].todo)
              /\ job[p].todo # <<>>
           \/ job[p].at = "start" /\ where = "done" /\ todo = job[p].todo
  <2>1. CASE Register(p) /\ job[p].todo = <<>>
    <3>1. job' = [job EXCEPT ![p] = Turned(job[p], "start", job[p].new)]
      BY <2>1 DEF Register, Turned
    <3> QED
      BY <2>1, <3>1 DEF Register, Is
  <2>2. CASE Start(p) /\ job[p].todo = <<>>
    <3>1. job' = [job EXCEPT ![p] = Turned(job[p], "done", job[p].todo)]
      BY <1>2, <2>2 DEF Start, Becomes, Turned, IsJob
    <3> QED
      BY <2>2, <3>1 DEF Start, Is
  <2>3. CASE Start(p) /\ job[p].todo # <<>>
    <3>1. job' = [job EXCEPT ![p] = Turned(job[p], "start", Tail(job[p].todo))]
      BY <1>2, <2>3 DEF Start, Turned, Is, IsJob
    <3> QED
      BY <2>3, <3>1 DEF Start, Is
  <2> QED
    BY <2>1, <2>2, <2>3
<1>4. PICK where, todo :
        /\ job' = [job EXCEPT ![p] = Turned(job[p], where, todo)]
        /\ \/ /\ job[p].at = "register" /\ where = "start" /\ todo = job[p].new
              /\ job[p].todo = <<>>
           \/ /\ job[p].at = "start" /\ where = "start" /\ todo = Tail(job[p].todo)
              /\ job[p].todo # <<>>
           \/ job[p].at = "start" /\ where = "done" /\ todo = job[p].todo
  BY <1>3
<1> DEFINE j == Turned(job[p], where, todo)
           i == job[p]
<1>5. /\ j.kind = job[p].kind /\ j.at = where /\ j.todo = todo
      /\ j.new = job[p].new /\ j.spec = job[p].spec /\ j.reused = job[p].reused
  BY <1>2, TurnedType, TurnedKeeps
<1>6. job' = [job EXCEPT ![p] = j]
  BY <1>4
<1> HIDE DEF j
<1>7. ASSUME departed = 0, Spawning(j) PROVE IsSpawn(j, alive)
  <2>1. Spawning(job[p])
    BY <1>1, <1>5, <1>7 DEF Spawning
  <2>2. IsSpawn(i, alive)
    BY <1>7, <2>1 DEF SpawnInv
  <2>3. /\ j.spec = i.spec /\ j.reused = i.reused /\ j.new = i.new
        /\ \/ i.at = "register" /\ j.at = "start" /\ j.todo = i.new /\ i.todo = <<>>
           \/ i.at = "start" /\ j.at = "start" /\ j.todo = Tail(i.todo) /\ i.todo # <<>>
           \/ i.at = "start" /\ j.at = "done" /\ j.todo = i.todo
    BY <1>4, <1>5
  <2> HIDE DEF i
  <2> QED
    BY <2>2, <2>3, GoesToStart, Started
<1> QED
  BY <1>1, <1>6, <1>7, OneSpawn

(* A registration: whoever is registered comes to life in order, and no    *)
(* other spawn minds.                                                      *)
LEMMA SpawnsRegister ==
  ASSUME SpecsAgree, GuestsHaveNames, CommunityInv, SpawnInv, NEW p \in Spawners,
         Register(p), job[p].todo # <<>>
  PROVE  SpawnInv'
<1> DEFINE i == job[p]
           a == Head(job[p].todo)
           j == Turned(job[p], "register", Tail(job[p].todo))
<1>1. /\ job[p].at = "register" /\ alive' = alive \cup {a} /\ departed' = departed
      /\ job' = [job EXCEPT ![p].todo = Tail(@)]
  BY DEF Register, Is
<1>2. /\ IsJob(job[p]) /\ job[p].kind \in {"spawn", "invite"}
      /\ job[p].kind = "invite" => Invites(job[p], pay[p])
  BY <1>1, AtWork
<1>3. job' = [job EXCEPT ![p] = j]
  BY <1>1, <1>2 DEF Turned, IsJob
<1>4. /\ j.kind = job[p].kind /\ j.at = "register" /\ j.todo = Tail(job[p].todo)
      /\ j.new = job[p].new /\ j.spec = job[p].spec /\ j.reused = job[p].reused
  BY <1>2, TurnedType, TurnedKeeps
<1> HIDE DEF j
<1>5. DOMAIN job = Spawners
  BY DEF CommunityInv, JobsOrderly
<1>6. job'[p] = j /\ \A q \in Spawners : q # p => job'[q] = job[q]
  BY <1>3, <1>5
<1>7. IsFiniteSet(alive) /\ IsFiniteSet(alive') /\ alive \subseteq alive'
  <2>1. IsFiniteSet(alive)
    BY DEF SpawnInv
  <2> HIDE DEF a
  <2> QED
    BY <1>1, <2>1, FS_AddElement
<1>8. ASSUME departed = 0 PROVE InOrder(alive')
  <2>1. InOrder(alive)
    BY <1>8 DEF SpawnInv
  <2>2. CASE job[p].kind = "spawn"
    <3>1. Spawning(job[p])
      BY <1>1, <2>2 DEF Spawning
    <3>2. IsSpawn(i, alive) /\ i.at = "register" /\ i.todo # <<>>
      BY <1>1, <1>8, <3>1 DEF SpawnInv
    <3>3. a = Head(i.todo)
      OBVIOUS
    <3> HIDE DEF i, a
    <3>4. InOrder(alive \cup {Head(i.todo)})
      BY <1>7, <2>1, <3>2, RegistersInOrder
    <3> QED
      BY <1>1, <3>3, <3>4
  <2>3. CASE job[p].kind = "invite"
    <3>1. a \in Addresses
      BY <1>2, <2>3, Elements DEF Invites
    <3> HIDE DEF a
    <3>2. ASSUME NEW t \in Specs, NEW k \in 1..total(t), materialize(t)[k] = a
          PROVE  FALSE
      <4>1. a \in ToSet(materialize(t))
        BY <3>2, NamesFit
      <4> QED
        BY <3>1, <4>1 DEF GuestsHaveNames
    <3>3. InOrder(alive \cup {a})
      BY <1>7, <2>1, <3>2, OneMoreAlive
    <3> QED
      BY <1>1, <3>3
  <2> QED
    BY <1>2, <2>2, <2>3
<1>9. ASSUME departed = 0, NEW q \in Spawners, Spawning(job'[q])
      PROVE  IsSpawn(job'[q], alive')
  <2>1. CASE q = p
    <3>1. Spawning(job[p])
      BY <1>1, <1>4, <1>6, <1>9, <2>1 DEF Spawning
    <3>2. /\ IsSpawn(i, alive) /\ i.at = "register" /\ i.todo # <<>> /\ a = Head(i.todo)
          /\ j.at = "register" /\ j.todo = Tail(i.todo)
          /\ j.new = i.new /\ j.spec = i.spec /\ j.reused = i.reused
      BY <1>1, <1>4, <1>9, <3>1 DEF SpawnInv
    <3> HIDE DEF i, a
    <3>3. IsSpawn(j, alive \cup {Head(i.todo)})
      BY <1>7, <3>2, Registered
    <3> QED
      BY <1>1, <1>6, <2>1, <3>2, <3>3
  <2>2. CASE q # p
    <3> DEFINE h == job[q]
    <3>1. job'[q] = h
      BY <1>6, <2>2
    <3>2. IsSpawn(h, alive)
      BY <1>9, <3>1 DEF SpawnInv
    <3> HIDE DEF h
    <3>3. IsSpawn(h, alive')
      BY <1>7, <3>2, LivesOn
    <3> QED
      BY <3>1, <3>3
  <2> QED
    BY <2>1, <2>2
<1> HIDE DEF a
<1> QED
  BY <1>1, <1>7, <1>8, <1>9 DEF SpawnInv

(* The invariant is inductive. *)
LEMMA SpawnsKept ==
  ASSUME SpecsAgree, GuestsHaveNames, CommunityInv, SpawnInv,
         [CommunityStep \/ BankerStep]_<<community_vars, banker_vars>>
  PROVE  SpawnInv'
<1>1. ASSUME NEW p \in Spawners, JobStep(p) PROVE SpawnInv'
  <2>1. CASE \E spec \in Specs : Spawn(p, spec)
    BY <2>1, SpawnsBegin
  <2>2. CASE \/ Invite(p) \/ _parse_slate(p) \/ _ParseError(p) \/ Funded(p) \/ AllFunded(p)
    BY <2>2, InvitationsAreNot
  <2>3. CASE Check(p)
    BY <2>3, SpawnsCheck
  <2>4. CASE Built(p) \/ Raise(p)
    BY <2>4, SpawnsBuild
  <2>5. CASE Start(p) \/ Register(p)
    BY <2>5, SpawnsStart, SpawnsRegister
  <2>6. CASE FundNext(p) \/ (TransferStep(p) /\ UNCHANGED community_vars)
    BY <2>6, StillSpawns DEF FundNext, community_vars
  <2> QED
    BY <1>1, <2>1, <2>2, <2>3, <2>4, <2>5, <2>6 DEF JobStep
<1>2. ASSUME NEW a \in alive, Depart(a) PROVE SpawnInv'
  <2>1. alive' = alive \ {a} /\ departed' = departed + 1
    BY <1>2 DEF Depart
  <2>2. departed' \in Nat /\ departed' # 0
    BY <2>1 DEF SpawnInv
  <2>3. IsFiniteSet(alive')
    BY <2>1, FS_Subset DEF SpawnInv
  <2> QED
    BY <2>2, <2>3 DEF SpawnInv
<1>3. CASE BankerStep \/ UNCHANGED <<community_vars, banker_vars>>
  BY <1>3, StillSpawns DEF BankerStep, community_vars
<1> QED
  BY <1>1, <1>2, <1>3 DEF CommunityStep

(* At the start there are no spawns, and no named agents. *)
LEMMA SpawnsAtFirst == ASSUME GuestsHaveNames, CommunityInit PROVE SpawnInv
<1>1. alive \in Already /\ IsFiniteSet(alive) /\ departed = 0
  BY CommunityAssumption DEF CommunityInit
<1>2. InOrder(alive)
  <2> SUFFICES ASSUME NEW spec \in Specs, NEW k \in 1..total(spec),
                      materialize(spec)[k] \in alive
               PROVE  FALSE
    BY DEF InOrder
  <2>1. materialize(spec)[k] \in ToSet(materialize(spec))
    BY NamesFit
  <2>2. materialize(spec)[k] \in UNION Already
    BY <1>1
  <2> QED
    BY <2>1, <2>2 DEF GuestsHaveNames
<1>3. ASSUME NEW p \in Spawners PROVE ~Spawning(job[p])
  BY DEF CommunityInit, Spawning, NoJob
<1> QED
  BY <1>1, <1>2, <1>3 DEF SpawnInv

(* The invariant says that spawns that ended well filled their places. *)
LEMMA SpawnsFill == ASSUME CommunityInv, SpawnInv PROVE SpawnsFillTheirPlaces
<1> SUFFICES ASSUME NEW p \in Spawners, job[p].at = "done", job[p].kind = "spawn",
                    departed = 0
             PROVE  LET placed == ToSet(job[p].new) \cup job[p].reused
                    IN Cardinality(placed) = total(job[p].spec) /\ placed \subseteq alive
  BY DEF SpawnsFillTheirPlaces, Is
<1>1. IsSpawn(job[p], alive)
  BY DEF SpawnInv, Spawning
<1> QED
  BY <1>1 DEF IsSpawn

(* A spawn that ended well has as many agents as its spec has places, each *)
(* at an address of its own and alive, for any patterns that agree, and    *)
(* however many calls of the factory overlap, leave agents behind to be    *)
(* reused, or raise half way.                                              *)
THEOREM PlacesAreFilled ==
  ASSUME SpecsAgree, GuestsHaveNames
  PROVE  CommunitySpec => []SpawnsFillTheirPlaces
<1>1. CommunityInit => CommunityInv /\ SpawnInv
  BY CommunityStarts, SpawnsAtFirst
<1>2. CommunityInv /\ SpawnInv
        /\ [CommunityStep \/ BankerStep]_<<community_vars, banker_vars>>
        => (CommunityInv /\ SpawnInv)'
  BY CommunityKept, SpawnsKept
<1>3. CommunityInv /\ SpawnInv => SpawnsFillTheirPlaces
  BY SpawnsFill
<1> QED
  BY <1>1, <1>2, <1>3, PTL DEF CommunitySpec

-----------------------------------------------------------------------------
(* The audit sinks. *)
(* An event is in at most one place that is not the log: trimmed, dropped, *)
(* in the buffer, or in one of the batches that are out.  While it is in   *)
(* one of them the log has it only through replies that were lost; if it   *)
(* is in none, a batch with it has been accepted.                          *)
SinkTyped ==
    /\ emitted \in 0..Events /\ unheard \in Nat /\ delivered \in [1..Events -> Nat]
    /\ _buffer \in Seq(1..emitted) /\ Distinct(_buffer)
    /\ \A b \in sending : b \in Seq(1..emitted) /\ b # <<>> /\ Distinct(b)
Partition ==
    /\ overflowed \subseteq 1..emitted /\ dropped \subseteq 1..emitted
    /\ overflowed \cap dropped = {}
    /\ Holds(_buffer) \cap (overflowed \cup dropped) = {}
    /\ \A b \in sending : Holds(b) \cap (overflowed \cup dropped \cup Holds(_buffer)) = {}
    /\ \A b, c \in sending : b # c => Holds(b) \cap Holds(c) = {}
Remains(e) ==
    e \in overflowed \/ e \in dropped \/ e \in Holds(_buffer) \/ \E b \in sending : e \in Holds(b)
Deliveries ==
    /\ \A e \in 1..Events : e > emitted => delivered[e] = 0
    /\ \A e \in 1..emitted : Remains(e) => delivered[e] <= unheard
    /\ \A e \in 1..emitted : ~Remains(e) => 1 <= delivered[e] /\ delivered[e] <= 1 + unheard
SinkInv ==
    /\ SinkTyped /\ Partition /\ Deliveries
    /\ (_buffer = <<>>) = (oldest_pending = Nothing)
    /\ overflowed # {} => emitted > max_buffer

(* The greater of two numbers. *)
LEMMA MaxOfTwo ==
  ASSUME NEW a \in Int, NEW b \in Int
  PROVE  Max({a, b}) = IF a >= b THEN a ELSE b
<1> DEFINE m == IF a >= b THEN a ELSE b
<1>1. m \in {a, b} /\ \A y \in {a, b} : m >= y
  OBVIOUS
<1>2. \A x \in {a, b} : (\A y \in {a, b} : x >= y) => x = m
  OBVIOUS
<1> HIDE DEF m
<1>3. Max({a, b}) \in {a, b} /\ \A y \in {a, b} : Max({a, b}) >= y
  BY <1>1 DEF Max
<1>4. Max({a, b}) = m
  BY <1>2, <1>3
<1> QED
  BY <1>4 DEF m

(* The next event is appended. *)
LEMMA Appending ==
  ASSUME NEW n \in Nat, NEW s \in Seq(1..n), Distinct(s)
  PROVE  /\ Append(s, n + 1) \in Seq(1..(n + 1)) /\ Distinct(Append(s, n + 1))
         /\ Append(s, n + 1) # <<>>
         /\ Holds(Append(s, n + 1)) = Holds(s) \cup {n + 1}
<1> DEFINE f == Append(s, n + 1)
<1>1. s \in Seq(1..(n + 1)) /\ n + 1 \in 1..(n + 1)
  BY SeqMonotonic
<1>2. /\ f \in Seq(1..(n + 1)) /\ f # <<>> /\ Len(f) = Len(s) + 1 /\ Len(s) \in Nat
      /\ \A i \in 1..Len(s) : f[i] = s[i]
      /\ f[Len(s) + 1] = n + 1
  BY <1>1, AppendProperties
<1>3. \A i \in 1..Len(s) : s[i] \in 1..n
  BY ElementOfSeq
<1> HIDE DEF f
<1>4. \A i \in 1..Len(f) : i \in 1..Len(s) \/ i = Len(s) + 1
  BY <1>2
<1>5. Distinct(f)
  BY <1>2, <1>3, <1>4 DEF Distinct
<1>6. Holds(f) = Holds(s) \cup {n + 1}
  BY <1>2, <1>4 DEF Holds
<1> QED
  BY <1>2, <1>5, <1>6 DEF f

(* Among so many events, no more are distinct. *)
LEMMA DistinctIsShort ==
  ASSUME NEW n \in Nat, NEW s \in Seq(1..n), Distinct(s)
  PROVE  Len(s) <= n
<1>1. s \in [1..Len(s) -> 1..n] /\ Len(s) \in Nat
  BY LenProperties
<1>2. s \in Injection(1..Len(s), 1..n)
  <2>1. DOMAIN s = 1..Len(s)
    BY <1>1
  <2>2. IsInjective(s)
    BY <2>1 DEF Distinct, IsInjective
  <2> QED
    BY <1>1, <2>2 DEF Injection
<1>3. IsFiniteSet(1..n) /\ Cardinality(1..n) = n /\ Cardinality(1..Len(s)) = Len(s)
  <2>1. \A k \in Nat : IsFiniteSet(1..k) /\ Cardinality(1..k) = IF 1 > k THEN 0 ELSE k - 1 + 1
    BY FS_Interval
  <2>2. \A k \in Nat : IsFiniteSet(1..k) /\ Cardinality(1..k) = k
    BY <2>1
  <2> QED
    BY <1>1, <2>2
<1>4. Cardinality(1..Len(s)) <= Cardinality(1..n)
  BY <1>2, <1>3, FS_Injection
<1> QED
  BY <1>3, <1>4

(* A batch in the order of time holds what it held. *)
LEMMA Sorting ==
  ASSUME NEW S \in SUBSET Int, NEW s \in Seq(S), NEW f \in InTimeOrder(s)
  PROVE  f \in Seq(S) /\ Distinct(f) /\ Holds(f) = Holds(s) /\ Len(f) = Len(s)
<1>1. /\ f \in [1..Len(s) -> Holds(s)] /\ ToSet(f) = Holds(s) /\ Holds(s) \subseteq S
      /\ \A i, j \in 1..Len(s) : i < j => f[i] < f[j]
      /\ Len(s) \in Nat
  BY HoldsElements DEF InTimeOrder
<1>2. f \in Seq(S) /\ Len(f) = Len(s)
  BY <1>1
<1>3. \A i \in 1..Len(s) : f[i] \in Int
  BY <1>1
<1>4. Distinct(f)
  <2> SUFFICES ASSUME NEW i \in 1..Len(s), NEW j \in 1..Len(s), f[i] = f[j], i # j PROVE FALSE
    BY <1>2 DEF Distinct
  <2>1. i < j \/ j < i
    BY <1>1
  <2> QED
    BY <1>1, <1>3, <2>1
<1>5. Holds(f) = Holds(s)
  BY <1>1, <1>2, HoldsElements
<1> QED
  BY <1>2, <1>4, <1>5

(* Accepting a batch counts its events once more. *)
LEMMA Accepting ==
  ASSUME SinkTyped, NEW batch \in sending, Accept(batch)
  PROVE  /\ delivered' \in [1..Events -> Nat]
         /\ \A e \in 1..Events : e \in Holds(batch) => delivered'[e] = delivered[e] + 1
         /\ \A e \in 1..Events : e \notin Holds(batch) => delivered'[e] = delivered[e]
<1>1. \A e : Contains(batch, e) <=> e \in Holds(batch)
  BY HoldsElements DEF SinkTyped, Contains, Holds
<1>2. /\ delivered' = [e \in 1..Events |-> delivered[e] + IF Contains(batch, e) THEN 1 ELSE 0]
      /\ delivered \in [1..Events -> Nat]
  BY DEF Accept, SinkTyped
<1> QED
  BY <1>1, <1>2

(* The invariant of the sinks is inductive. *)
LEMMA SinkKept == SinkInv /\ [SinkStep]_sink_vars => SinkInv'
<1> SUFFICES ASSUME SinkInv, [SinkStep]_sink_vars PROVE SinkInv'
  OBVIOUS
<1> USE SinkAssumption DEF SinkInv, SinkTyped
<1>h. /\ Holds(_buffer) \subseteq 1..emitted /\ \A b \in sending : Holds(b) \subseteq 1..emitted
      /\ Holds(<<>>) = {} /\ Distinct(<<>>) /\ emitted \in Nat
      /\ \A e \in 1..emitted : e \in 1..Events
      /\ \A e \in 1..Events : delivered[e] \in Nat
  <2>1. Holds(_buffer) \subseteq 1..emitted
    BY HoldsElements
  <2>2. ASSUME NEW b \in sending PROVE Holds(b) \subseteq 1..emitted
    BY HoldsElements
  <2> QED
    BY <2>1, <2>2 DEF Holds, Distinct
<1>1. CASE emit
  <2> DEFINE full == Append(_buffer, emitted + 1)
  <2>1. /\ full \in Seq(1..(emitted + 1)) /\ Distinct(full) /\ full # <<>>
        /\ Holds(full) = Holds(_buffer) \cup {emitted + 1}
    BY <1>h, Appending
  <2>2. /\ emitted < Events /\ emitted' = emitted + 1
        /\ UNCHANGED <<delivered, overflowed, dropped, unheard>>
        /\ \/ /\ sending' = sending \cup {full} /\ _buffer' = <<>> /\ oldest_pending' = Nothing
           \/ /\ sending' = sending /\ _buffer' = full
              /\ oldest_pending' = IF oldest_pending = Nothing THEN emitted' ELSE oldest_pending
    BY <1>1 DEF emit
  <2> HIDE DEF full
  <2>3. \A b \in sending : b \in Seq(1..(emitted + 1))
    <3>1. 1..emitted \subseteq 1..(emitted + 1)
      OBVIOUS
    <3> QED
      BY <3>1, SeqMonotonic
  <2>4. \A e : e \in 1..(emitted + 1) <=> e \in 1..emitted \/ e = emitted + 1
    BY <1>h
  <2>5. emitted + 1 \notin 1..emitted /\ emitted + 1 \in 1..Events
    BY <1>h, <2>2
  <2>6. Partition' /\ \A e : Remains(e)' <=> Remains(e) \/ e = emitted + 1
    <3>1. CASE sending' = sending \cup {full} /\ _buffer' = <<>>
      <4>1. Partition'
        BY <1>h, <2>1, <2>2, <2>4, <2>5, <3>1 DEF Partition
      <4>2. \A e : Remains(e)' <=> Remains(e) \/ e = emitted + 1
        BY <1>h, <2>1, <2>2, <3>1 DEF Remains
      <4> QED
        BY <4>1, <4>2
    <3>2. CASE sending' = sending /\ _buffer' = full
      <4>0. /\ overflowed' = overflowed /\ dropped' = dropped /\ sending' = sending
            /\ Holds(_buffer') = Holds(_buffer) \cup {emitted + 1} /\ emitted' = emitted + 1
        BY <2>1, <2>2, <3>2
      <4>1. Partition'
        <5>1. /\ emitted + 1 \notin overflowed \cup dropped
              /\ \A b \in sending : emitted + 1 \notin Holds(b)
          BY <1>h, <2>5 DEF Partition
        <5>2. 1..emitted \subseteq 1..emitted'
          BY <2>4, <4>0
        <5> QED
          BY <4>0, <5>1, <5>2 DEF Partition
      <4>2. \A e : Remains(e)' <=> Remains(e) \/ e = emitted + 1
        <5>1. /\ Holds(_buffer') = Holds(_buffer) \cup {emitted + 1} /\ sending' = sending
              /\ overflowed' = overflowed /\ dropped' = dropped
          BY <2>1, <2>2, <3>2
        <5> QED
          BY <5>1 DEF Remains
      <4> QED
        BY <4>1, <4>2
    <3> QED
      BY <2>2, <3>1, <3>2
  <2>7. SinkTyped'
    <3>1. emitted' = emitted + 1 /\ emitted' \in 0..Events
      BY <1>h, <2>2
    <3>2. _buffer' \in Seq(1..(emitted + 1)) /\ Distinct(_buffer')
      <4>1. CASE _buffer' = <<>>
        BY <1>h, <4>1, EmptySeq
      <4>2. CASE _buffer' = full
        BY <2>1, <4>2
      <4> QED
        BY <2>2, <4>1, <4>2
    <3>3. \A b \in sending' : b \in Seq(1..(emitted + 1)) /\ b # <<>> /\ Distinct(b)
      BY <2>1, <2>2, <2>3
    <3> QED
      BY <2>2, <3>1, <3>2, <3>3
  <2>8. (_buffer' = <<>>) = (oldest_pending' = Nothing)
    BY <1>h, <2>1, <2>2 DEF Nothing
  <2>9. overflowed' # {} => emitted' > max_buffer
    BY <1>h, <2>2
  <2>10. Deliveries'
    <3>1. delivered[emitted + 1] = 0
      BY <1>h, <2>5 DEF Deliveries
    <3> QED
      BY <1>h, <2>2, <2>4, <2>5, <2>6, <3>1 DEF Deliveries
  <2> QED
    BY <2>6, <2>7, <2>8, <2>9, <2>10
<1>2. CASE flush
  <2>1. /\ _buffer # <<>> /\ sending' = sending \cup {_buffer} /\ _buffer' = <<>>
        /\ oldest_pending' = Nothing
        /\ UNCHANGED <<emitted, delivered, overflowed, dropped, unheard>>
    BY <1>2 DEF flush
  <2>2. Partition' /\ \A e : Remains(e)' <=> Remains(e)
    BY <1>h, <2>1 DEF Partition, Remains
  <2>3. SinkTyped'
    BY <1>h, <2>1
  <2>4. Deliveries'
    BY <2>1, <2>2 DEF Deliveries
  <2> QED
    BY <2>1, <2>2, <2>3, <2>4
<1>3. ASSUME NEW batch \in sending, sending' = sending \ {batch}, Accept(batch),
             UNCHANGED <<emitted, _buffer, oldest_pending, overflowed, dropped, unheard>>
      PROVE  SinkInv'
  <2>1. /\ delivered' \in [1..Events -> Nat]
        /\ \A e \in 1..Events : e \in Holds(batch) => delivered'[e] = delivered[e] + 1
        /\ \A e \in 1..Events : e \notin Holds(batch) => delivered'[e] = delivered[e]
    BY <1>3, Accepting
  <2>2. Partition' /\ \A e : Remains(e)' <=> Remains(e) /\ e \notin Holds(batch)
    BY <1>h, <1>3 DEF Partition, Remains
  <2>3. \A e \in Holds(batch) : Remains(e) /\ e \in 1..emitted
    BY <1>h DEF Remains
  <2>4. Deliveries'
    <3>1. \A e \in 1..Events : e > emitted => e \notin Holds(batch)
      BY <1>h, <2>3
    <3>2. \A e \in 1..Events : e > emitted => delivered'[e] = 0
      BY <2>1, <3>1 DEF Deliveries
    <3>3. ASSUME NEW e \in 1..emitted
          PROVE  /\ Remains(e)' => delivered'[e] <= unheard
                 /\ ~Remains(e)' => 1 <= delivered'[e] /\ delivered'[e] <= 1 + unheard
      <4>1. /\ Remains(e) => delivered[e] <= unheard
            /\ ~Remains(e) => 1 <= delivered[e] /\ delivered[e] <= 1 + unheard
            /\ e \in 1..Events /\ delivered[e] \in Nat
        BY <1>h DEF Deliveries
      <4>2. CASE e \in Holds(batch)
        BY <2>1, <2>2, <2>3, <4>1, <4>2
      <4>3. CASE e \notin Holds(batch)
        BY <2>1, <2>2, <4>1, <4>3
      <4> QED
        BY <4>2, <4>3
    <3> QED
      BY <1>3, <3>2, <3>3 DEF Deliveries
  <2> QED
    BY <1>3, <2>1, <2>2, <2>4
<1>4. ASSUME NEW batch \in sending, Sent(batch) PROVE SinkInv'
  BY <1>3, <1>4 DEF Sent
<1>5. ASSUME NEW batch \in sending, SendFails(batch) PROVE SinkInv'
  <2>0. PICK again \in {batch} \cup InTimeOrder(batch) :
          LET merged == again \o _buffer
              excess == Max({0, Len(merged) - max_buffer})
          IN /\ sending' = sending \ {batch}
             /\ _buffer' = SubSeq(merged, excess + 1, Len(merged))
             /\ overflowed' = overflowed \cup ToSet(SubSeq(merged, 1, excess))
             /\ oldest_pending' = Head(_buffer')
             /\ \/ delivered' = delivered /\ unheard' = unheard
                \/ Accept(batch) /\ unheard' = unheard + 1
             /\ UNCHANGED <<emitted, dropped>>
    BY <1>5, Zenon DEF SendFails
  <2> DEFINE merged == again \o _buffer
             excess == Max({0, Len(merged) - max_buffer})
             front == SubSeq(merged, 1, excess)
             rest == SubSeq(merged, excess + 1, Len(merged))
  <2>1. /\ again \in Seq(1..emitted) /\ Distinct(again) /\ Holds(again) = Holds(batch)
        /\ Len(again) = Len(batch)
    <3>1. 1..emitted \in SUBSET Int
      OBVIOUS
    <3> QED
      BY <2>0, <3>1, Sorting
  <2>2. /\ merged \in Seq(1..emitted) /\ Distinct(merged)
        /\ Len(merged) = Len(batch) + Len(_buffer)
        /\ Holds(merged) = Holds(batch) \cup Holds(_buffer)
    <3>1. Holds(again) \cap Holds(_buffer) = {}
      BY <2>1 DEF Partition
    <3>2. /\ merged \in Seq(1..emitted) /\ Distinct(merged)
          /\ Len(merged) = Len(again) + Len(_buffer)
          /\ Holds(merged) = Holds(again) \cup Holds(_buffer)
      <4>1. _buffer \in Seq(1..emitted) /\ Distinct(_buffer)
        OBVIOUS
      <4>2. again \in Seq(1..emitted) /\ Distinct(again)
        BY <2>1
      <4> QED
        BY ONLY <3>1, <4>1, <4>2, Joining
    <3> QED
      BY <2>1, <3>2
  <2>3. /\ Len(batch) \in Nat /\ Len(batch) > 0 /\ Len(_buffer) \in Nat
    BY HoldsElements
  <2>4. /\ sending' = sending \ {batch} /\ _buffer' = rest
        /\ overflowed' = overflowed \cup ToSet(front)
        /\ oldest_pending' = Head(_buffer')
        /\ UNCHANGED <<emitted, dropped>>
    BY <2>0
  <2> HIDE DEF merged
  <2>5. /\ excess = IF 0 >= Len(merged) - max_buffer THEN 0 ELSE Len(merged) - max_buffer
        /\ Len(merged) \in Nat /\ Len(merged) > 0
    <3> DEFINE n == Len(merged)
    <3>1. n \in Nat /\ n > 0
      BY <2>2, <2>3
    <3> HIDE DEF n
    <3>2. n - max_buffer \in Int
      BY <3>1
    <3>3. Max({0, n - max_buffer}) = IF 0 >= n - max_buffer THEN 0 ELSE n - max_buffer
      BY <3>2, MaxOfTwo
    <3> QED
      BY <3>1, <3>3 DEF n
  <2> HIDE DEF excess
  <2>6. excess \in 0..Len(merged) /\ Len(merged) - excess > 0
        /\ (excess > 0 => Len(merged) > max_buffer)
    BY <2>5
  <2>7. /\ front \in Seq(1..emitted) /\ rest \in Seq(1..emitted) /\ Distinct(rest)
        /\ Len(front) = excess /\ Len(rest) = Len(merged) - excess
        /\ Holds(front) \cup Holds(rest) = Holds(merged)
        /\ Holds(front) \cap Holds(rest) = {}
    BY <2>2, <2>6, Trimming
  <2> HIDE DEF front, rest
  <2>8. ToSet(front) = Holds(front) /\ (front = <<>> => Holds(front) = {}) /\ rest # <<>>
        /\ (front # <<>> => excess > 0)
    BY <2>6, <2>7, HoldsElements
  <2>9. Head(rest) # Nothing
    <3>1. Head(rest) \in 1..emitted
      BY <2>7, <2>8, HeadTailProperties
    <3> QED
      BY <3>1 DEF Nothing
  <2>10. Partition' /\ \A e : Remains(e)' <=> Remains(e)
    <3>1. _buffer' = rest /\ overflowed' = overflowed \cup Holds(front)
      BY <2>4, <2>8
    <3>2. Holds(front) \subseteq 1..emitted /\ Holds(rest) \subseteq 1..emitted
      BY <2>7, HoldsElements
    <3>3. Partition'
      BY <1>h, <2>2, <2>4, <2>7, <3>1, <3>2 DEF Partition
    <3>4. \A e : Remains(e)' <=> Remains(e)
      BY <1>h, <2>2, <2>4, <2>7, <3>1 DEF Remains
    <3> QED
      BY <3>3, <3>4
  <2>11. overflowed' # {} => emitted' > max_buffer
    <3>1. Len(merged) <= emitted
      BY <1>h, <2>2, DistinctIsShort
    <3> QED
      BY <1>h, <2>4, <2>5, <2>6, <2>8, <3>1
  <2>12. delivered' \in [1..Events -> Nat] /\ unheard' \in Nat /\ Deliveries'
    <3>1. CASE delivered' = delivered /\ unheard' = unheard
      BY <2>4, <2>10, <3>1 DEF Deliveries
    <3>2. CASE Accept(batch) /\ unheard' = unheard + 1
      <4>1. /\ delivered' \in [1..Events -> Nat]
            /\ \A e \in 1..Events : e \in Holds(batch) => delivered'[e] = delivered[e] + 1
            /\ \A e \in 1..Events : e \notin Holds(batch) => delivered'[e] = delivered[e]
        BY <3>2, Accepting
      <4>2. \A e \in Holds(batch) : Remains(e) /\ e \in 1..emitted
        BY <1>h DEF Remains
      <4>3. \A e \in 1..Events : e > emitted => e \notin Holds(batch)
        BY <1>h, <4>2
      <4>4. \A e \in 1..Events : e > emitted => delivered'[e] = 0
        BY <4>1, <4>3 DEF Deliveries
      <4>5. ASSUME NEW e \in 1..emitted
            PROVE  /\ Remains(e) => delivered'[e] <= unheard + 1
                   /\ ~Remains(e) => 1 <= delivered'[e] /\ delivered'[e] <= 1 + (unheard + 1)
        <5>1. /\ Remains(e) => delivered[e] <= unheard
              /\ ~Remains(e) => 1 <= delivered[e] /\ delivered[e] <= 1 + unheard
              /\ e \in 1..Events /\ delivered[e] \in Nat
          BY <1>h DEF Deliveries
        <5>2. CASE e \in Holds(batch)
          BY <4>1, <4>2, <5>1, <5>2
        <5>3. CASE e \notin Holds(batch)
          BY <4>1, <5>1, <5>3
        <5> QED
          BY <5>2, <5>3
      <4>6. Deliveries'
        BY <2>4, <2>10, <3>2, <4>4, <4>5 DEF Deliveries
      <4> QED
        BY <3>2, <4>1, <4>6
    <3> QED
      BY <2>0, <3>1, <3>2
  <2> QED
    BY <2>4, <2>7, <2>8, <2>9, <2>10, <2>11, <2>12
<1>6. ASSUME NEW batch \in sending, Cancelled(batch) PROVE SinkInv'
  <2>1. /\ sending' = sending \ {batch}
        /\ UNCHANGED <<emitted, _buffer, oldest_pending, overflowed, unheard>>
        /\ \/ Accept(batch) /\ dropped' = dropped
           \/ dropped' = dropped \cup Holds(batch) /\ delivered' = delivered
    BY <1>6, HoldsElements DEF Cancelled
  <2>2. CASE Accept(batch) /\ dropped' = dropped
    BY <1>3, <2>1, <2>2
  <2>3. CASE dropped' = dropped \cup Holds(batch) /\ delivered' = delivered
    <3>1. Partition' /\ \A e : Remains(e)' <=> Remains(e)
      BY <1>h, <2>1, <2>3 DEF Partition, Remains
    <3>2. Deliveries'
      BY <2>1, <2>3, <3>1 DEF Deliveries
    <3> QED
      BY <2>1, <2>3, <3>1, <3>2
  <2> QED
    BY <2>1, <2>2, <2>3
<1>7. CASE UNCHANGED sink_vars
  BY <1>7 DEF sink_vars, Partition, Deliveries, Remains
<1> QED
  BY <1>1, <1>2, <1>4, <1>5, <1>6, <1>7 DEF SinkStep

(* Whatever emitters, flushes, failing and cancelled batches overlap: an   *)
(* event never waits twice; it reaches the log unless it waits, was        *)
(* dropped with a cancelled flush, or was trimmed after more than          *)
(* max_buffer were emitted; and only a lost reply can double it.           *)
THEOREM SinksKeepTheLog == SinkInit /\ [][SinkStep]_sink_vars => []LogsAreKept
<1>1. SinkInit => SinkInv
  <2> SUFFICES ASSUME SinkInit PROVE SinkInv
    OBVIOUS
  <2>1. SinkTyped /\ Partition
    BY SinkAssumption DEF SinkInit, SinkTyped, Partition, Holds, Distinct
  <2>2. Deliveries
    BY SinkAssumption DEF SinkInit, Deliveries
  <2> QED
    BY <2>1, <2>2 DEF SinkInit, SinkInv, Nothing
<1>2. SinkInv => LogsAreKept
  <2> SUFFICES ASSUME SinkInv, NEW e \in 1..emitted
               PROVE  Whereabouts(e) <= 1 /\ delivered[e] + Whereabouts(e) \in 1 .. 1 + unheard
    BY DEF SinkInv, LogsAreKept
  <2> DEFINE here == {i \in DOMAIN _buffer : _buffer[i] = e}
             out == {batch \in sending : Contains(batch, e)}
  <2>1. /\ DOMAIN _buffer = 1..Len(_buffer)
        /\ \A b \in sending : Contains(b, e) <=> e \in Holds(b)
    BY HoldsElements DEF SinkInv, SinkTyped, Contains, Holds
  <2>2. here = {} \/ \E i : here = {i}
    <3>1. \A i, j \in here : i = j
      BY <2>1 DEF SinkInv, SinkTyped, Distinct
    <3> HIDE DEF here
    <3> QED
      BY <3>1
  <2>3. here # {} <=> e \in Holds(_buffer)
    BY <2>1 DEF Holds
  <2>4. out = {} \/ \E b : out = {b}
    <3>1. \A b, c \in out : b = c
      BY <2>1 DEF SinkInv, Partition
    <3> HIDE DEF out
    <3> QED
      BY <3>1
  <2>5. out # {} <=> \E b \in sending : e \in Holds(b)
    BY <2>1
  <2> HIDE DEF here, out
  <2>6. /\ Cardinality(here) = IF here = {} THEN 0 ELSE 1
        /\ Cardinality(out) = IF out = {} THEN 0 ELSE 1
    BY <2>2, <2>4, FS_EmptySet, FS_Singleton
  <2>7. Whereabouts(e) = (IF e \in overflowed THEN 1 ELSE 0) + (IF e \in dropped THEN 1 ELSE 0)
                    + Cardinality(here) + Cardinality(out)
    BY DEF Whereabouts, here, out
  <2>8. \/ Remains(e) /\ Whereabouts(e) = 1
        \/ ~Remains(e) /\ Whereabouts(e) = 0
    <3>1. Whereabouts(e) = (IF e \in overflowed THEN 1 ELSE 0) + (IF e \in dropped THEN 1 ELSE 0)
                      + (IF e \in Holds(_buffer) THEN 1 ELSE 0)
                      + (IF \E b \in sending : e \in Holds(b) THEN 1 ELSE 0)
      BY <2>3, <2>5, <2>6, <2>7
    <3> DEFINE o == e \in overflowed
               d == e \in dropped
               w == e \in Holds(_buffer)
               s == \E b \in sending : e \in Holds(b)
    <3>2. ~(o /\ d) /\ ~(w /\ (o \/ d)) /\ ~(s /\ (o \/ d \/ w)) /\ (Remains(e) <=> o \/ d \/ w \/ s)
      BY DEF SinkInv, Partition, Remains
    <3> HIDE DEF o, d, w, s
    <3>3. Whereabouts(e) = (IF o THEN 1 ELSE 0) + (IF d THEN 1 ELSE 0)
                           + (IF w THEN 1 ELSE 0) + (IF s THEN 1 ELSE 0)
      BY <3>1 DEF o, d, w, s
    <3>4. CASE o
      BY <3>2, <3>3, <3>4
    <3>5. CASE ~o /\ d
      BY <3>2, <3>3, <3>5
    <3>6. CASE ~o /\ ~d /\ w
      BY <3>2, <3>3, <3>6
    <3>7. CASE ~o /\ ~d /\ ~w
      BY <3>2, <3>3, <3>7
    <3> QED
      BY <3>4, <3>5, <3>6, <3>7
  <2>9. delivered[e] \in Nat /\ unheard \in Nat
    BY SinkAssumption DEF SinkInv, SinkTyped
  <2> QED
    BY <2>8, <2>9 DEF SinkInv, Deliveries
<1> QED
  BY <1>1, <1>2, SinkKept, PTL
=============================================================================
