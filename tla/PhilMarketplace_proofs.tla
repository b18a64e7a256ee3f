------------------------ MODULE PhilMarketplace_proofs ------------------------
(***************************************************************************)
(* Proofs about the marketplace, for any accounts, contracts that call     *)
(* back or refuse, tokens, asks, amounts and royalty the constructor takes:*)
(* the contract's ether is what it owes, a sale is within its seller's own *)
(* ask, and between transactions money moves as EscrowLedger says.         *)
(*                                                                         *)
(* Solvency is about a sum over all tokens, so the first part proves what  *)
(* SumFunction does when one value changes.  The induction behind it is    *)
(* the well-foundedness of strict inclusion among the subsets of a finite  *)
(* set (SmallestSet).                                                      *)
(***************************************************************************)
EXTENDS PhilMarketplace, FiniteSetTheorems, WellFoundedInduction, TLAPS

-----------------------------------------------------------------------------
(* Sums. *)

Pick(s) == CHOOSE x \in s : TRUE

(* The array `it` adds f up over the subsets of u, taking the elements in CHOOSE's order. *)
SumsUp(it, f, u) ==
    \A s \in SUBSET u : it[s] = IF s = {} THEN 0 ELSE f[Pick(s)] + it[s \ {Pick(s)}]

LEMMA SmallestSet ==
    ASSUME NEW S, IsFiniteSet(S), NEW T \in SUBSET (SUBSET S), T # {}
    PROVE  \E u \in T : \A s \in SUBSET u : s # u => s \notin T
<1>1. IsWellFoundedOn(StrictSubsetOrdering(S), SUBSET S)
  <2>1. FiniteSubsetsOf(S) = SUBSET S
    BY FS_Subset DEF FiniteSubsetsOf
  <2> QED
    BY <2>1, FS_StrictSubsetOrderingWellFounded
<1>2. PICK u \in T : \A s \in T : ~ (<<s, u>> \in StrictSubsetOrdering(S))
  BY <1>1, WFMin
<1>3. ASSUME NEW s \in SUBSET u, s # u, s \in T PROVE FALSE
  BY <1>2, <1>3 DEF StrictSubsetOrdering
<1> QED
  BY <1>3

LEMMA PickIn == ASSUME NEW s, s # {} PROVE Pick(s) \in s
  BY DEF Pick

LEMMA SumsAgree ==
    ASSUME NEW S, IsFiniteSet(S), NEW f, NEW u \in SUBSET S, NEW v \in SUBSET u,
           NEW it, NEW jt, SumsUp(it, f, u), SumsUp(jt, f, v)
    PROVE  it[v] = jt[v]
<1> DEFINE T == {s \in SUBSET v : it[s] # jt[s]}
<1>1. SUFFICES ASSUME T # {} PROVE FALSE
  OBVIOUS
<1>2. PICK s \in T : \A w \in SUBSET s : w # s => w \notin T
  <2>1. T \in SUBSET (SUBSET S)
    OBVIOUS
  <2> HIDE DEF T
  <2> QED
    BY <1>1, <2>1, SmallestSet
<1>3. s # {}
  BY <1>2 DEF SumsUp
<1>4. Pick(s) \in s
  BY <1>3, PickIn
<1>5. it[s \ {Pick(s)}] = jt[s \ {Pick(s)}]
  BY <1>2, <1>4
<1> QED
  BY <1>2, <1>3, <1>5 DEF SumsUp

LEMMA SumsExist ==
    ASSUME NEW S, IsFiniteSet(S), NEW f \in [S -> Int]
    PROVE  \A u \in SUBSET S : \E it \in [SUBSET u -> Int] : SumsUp(it, f, u)
<1> DEFINE Fit(v) == CHOOSE it \in [SUBSET v -> Int] : SumsUp(it, f, v)
           T == {u \in SUBSET S : ~ \E it \in [SUBSET u -> Int] : SumsUp(it, f, u)}
<1>1. SUFFICES ASSUME T # {} PROVE FALSE
  OBVIOUS
<1>2. PICK u \in T : \A w \in SUBSET u : w # u => w \notin T
  <2>1. T \in SUBSET (SUBSET S)
    OBVIOUS
  <2> HIDE DEF T
  <2> QED
    BY <1>1, <2>1, SmallestSet
<1> DEFINE Rest(s) == s \ {Pick(s)}
           g == [s \in SUBSET u |-> IF s = {} THEN 0 ELSE f[Pick(s)] + Fit(Rest(s))[Rest(s)]]
<1>3. ASSUME NEW s \in SUBSET u, s # {}
      PROVE  /\ Rest(s) \in SUBSET u
             /\ Fit(Rest(s)) \in [SUBSET Rest(s) -> Int] /\ SumsUp(Fit(Rest(s)), f, Rest(s))
  <2>1. Pick(s) \in s
    BY <1>3, PickIn
  <2>2. Rest(s) \in SUBSET u /\ Rest(s) # u
    BY <2>1
  <2>3. \E it \in [SUBSET Rest(s) -> Int] : SumsUp(it, f, Rest(s))
    BY <1>2, <2>2
  <2> QED
    BY <2>2, <2>3
<1> HIDE DEF Fit
<1>4. g \in [SUBSET u -> Int]
  <2>1. ASSUME NEW s \in SUBSET u, s # {} PROVE f[Pick(s)] + Fit(Rest(s))[Rest(s)] \in Int
    <3>1. Fit(Rest(s))[Rest(s)] \in Int
      <4>1. PICK r, it : r = Rest(s) /\ it = Fit(Rest(s))
        OBVIOUS
      <4>2. it \in [SUBSET r -> Int]
        BY <1>3, <2>1, <4>1
      <4>3. it[r] \in Int
        BY <4>2
      <4> QED
        BY <4>1, <4>3
    <3>2. f[Pick(s)] \in Int
      BY <2>1, PickIn
    <3> HIDE DEF Rest
    <3> QED
      BY <3>1, <3>2
  <2> QED
    BY <2>1
<1>5. ASSUME NEW s \in SUBSET u, s # {} PROVE g[Rest(s)] = Fit(Rest(s))[Rest(s)]
  <2>1. CASE Rest(s) = {}
    BY <1>3, <1>5, <2>1 DEF SumsUp
  <2>2. CASE Rest(s) # {}
    <3>0. PICK v : v = Rest(s)
      OBVIOUS
    <3>1. v \in SUBSET u /\ SumsUp(Fit(v), f, v)
      BY <1>3, <1>5, <3>0
    <3>2. Rest(v) \in SUBSET v /\ SumsUp(Fit(Rest(v)), f, Rest(v))
      BY <1>3, <2>2, <3>0, <3>1
    <3>3. Fit(v)[Rest(v)] = Fit(Rest(v))[Rest(v)]
      BY <3>1, <3>2, SumsAgree
    <3>4. Fit(v)[v] = f[Pick(v)] + Fit(v)[Rest(v)]
      BY <3>0, <3>1, <2>2 DEF SumsUp
    <3> QED
      BY <2>2, <3>0, <3>1, <3>3, <3>4
  <2> QED
    BY <2>1, <2>2
<1>6. SumsUp(g, f, u)
  BY <1>5 DEF SumsUp
<1> QED
  BY <1>2, <1>4, <1>6

LEMMA SumFunctionSumsUp ==
    ASSUME NEW S, IsFiniteSet(S), NEW f \in [S -> Int]
    PROVE  \E it \in [SUBSET S -> Int] : SumsUp(it, f, S) /\ SumFunction(f) = it[S]
<1> DEFINE Fits(it) == it = [s \in SUBSET S |-> IF s = {} THEN 0 ELSE f[Pick(s)] + it[s \ {Pick(s)}]]
<1>1. PICK it \in [SUBSET S -> Int] : SumsUp(it, f, S)
  BY SumsExist
<1>2. Fits(it)
  BY <1>1 DEF SumsUp
<1>3. Fits(CHOOSE jt : Fits(jt))
  BY <1>2
<1>4. SumFunction(f) = (CHOOSE jt : Fits(jt))[S]
  BY DEF SumFunction, SumFunctionOnSet, FoldFunctionOnSet, MapThenFoldSet, Pick
<1>5. SumsUp(CHOOSE jt : Fits(jt), f, S)
  BY <1>3 DEF SumsUp
<1>6. (CHOOSE jt : Fits(jt))[S] = it[S]
  BY <1>1, <1>5, SumsAgree
<1> QED
  BY <1>1, <1>4, <1>6

LEMMA SumChanges ==
    ASSUME NEW S, IsFiniteSet(S), NEW f \in [S -> Int], NEW g \in [S -> Int], NEW x \in S,
           \A y \in S \ {x} : f[y] = g[y]
    PROVE  /\ SumFunction(f) \in Int
           /\ SumFunction(g) = SumFunction(f) + (g[x] - f[x])
<1>1. PICK it \in [SUBSET S -> Int] : SumsUp(it, f, S) /\ SumFunction(f) = it[S]
  BY SumFunctionSumsUp
<1>2. PICK jt \in [SUBSET S -> Int] : SumsUp(jt, g, S) /\ SumFunction(g) = jt[S]
  BY SumFunctionSumsUp
<1> DEFINE T == {s \in SUBSET S : jt[s] # it[s] + (IF x \in s THEN g[x] - f[x] ELSE 0)}
<1>3. SUFFICES ASSUME T # {} PROVE FALSE
  BY <1>1, <1>2
<1>4. PICK s \in T : \A w \in SUBSET s : w # s => w \notin T
  <2>1. T \in SUBSET (SUBSET S)
    OBVIOUS
  <2> HIDE DEF T
  <2> QED
    BY <1>3, <2>1, SmallestSet
<1>5. ASSUME s = {} PROVE FALSE
  <2>1. it[s] = 0 /\ jt[s] = 0 /\ x \notin s
    BY <1>1, <1>2, <1>5 DEF SumsUp
  <2> QED
    BY <1>4, <2>1
<1>6. Pick(s) \in s
  BY <1>5, PickIn
<1>7. PICK p \in S, w \in SUBSET S : p = Pick(s) /\ p \in s /\ w = s \ {p}
  BY <1>4, <1>6
<1>8. jt[w] = it[w] + (IF x \in w THEN g[x] - f[x] ELSE 0)
  BY <1>4, <1>7
<1>9. it[s] = f[p] + it[w] /\ jt[s] = g[p] + jt[w]
  BY <1>1, <1>2, <1>4, <1>5, <1>7 DEF SumsUp
<1>10. it[w] \in Int /\ f[p] \in Int /\ g[p] \in Int /\ f[x] \in Int /\ g[x] \in Int
  BY <1>1, <1>7
<1>11. jt[s] = it[s] + (IF x \in s THEN g[x] - f[x] ELSE 0)
  <2>1. CASE p = x
    <3>1. x \in s /\ x \notin w
      BY <1>7, <2>1
    <3> QED
      BY <1>8, <1>9, <1>10, <2>1, <3>1
  <2>2. CASE p # x
    <3>1. (x \in s <=> x \in w) /\ f[p] = g[p]
      BY <1>7, <2>2
    <3> QED
      BY <1>8, <1>9, <1>10, <3>1
  <2> QED
    BY <2>1, <2>2
<1> QED
  BY <1>4, <1>11

LEMMA SumOfNone == ASSUME NEW f \in [{} -> Int] PROVE SumFunction(f) = 0
<1>1. PICK it \in [SUBSET {} -> Int] : SumsUp(it, f, {}) /\ SumFunction(f) = it[{}]
  BY SumFunctionSumsUp, FS_EmptySet
<1> QED
  BY <1>1 DEF SumsUp

LEMMA SumOfOne == ASSUME NEW f \in [1 .. 1 -> Int] PROVE SumFunction(f) = f[1]
<1>1. IsFiniteSet(1 .. 1)
  <2>1. 1 .. 1 = {1}
    OBVIOUS
  <2> QED
    BY <2>1, FS_Singleton
<1>2. PICK it \in [SUBSET (1 .. 1) -> Int] : SumsUp(it, f, 1 .. 1) /\ SumFunction(f) = it[1 .. 1]
  BY <1>1, SumFunctionSumsUp
<1>3. 1 .. 1 # {} /\ (1 .. 1) \ {1} = {}
  OBVIOUS
<1>4. Pick(1 .. 1) = 1
  BY <1>3, PickIn
<1> QED
  <2>1. it[{}] = 0 /\ it[1 .. 1] = f[1] + it[{}]
    BY <1>2, <1>3, <1>4 DEF SumsUp
  <2> QED
    BY <1>2, <2>1

LEMMA SumOfTwo == ASSUME NEW f \in [1 .. 2 -> Int] PROVE SumFunction(f) = f[1] + f[2]
<1>1. IsFiniteSet(1 .. 2)
  <2>1. 1 .. 2 = {1} \cup {2}
    OBVIOUS
  <2>2. IsFiniteSet({1})
    BY FS_Singleton
  <2> QED
    BY <2>1, <2>2, FS_AddElement
<1>2. PICK it \in [SUBSET (1 .. 2) -> Int] : SumsUp(it, f, 1 .. 2) /\ SumFunction(f) = it[1 .. 2]
  BY <1>1, SumFunctionSumsUp
<1>3. PICK i, j \in 1 .. 2 : i = Pick(1 .. 2) /\ {i, j} = 1 .. 2 /\ i # j
  BY PickIn
<1>4. /\ (1 .. 2) \ {i} = {j} /\ Pick({j}) = j /\ {j} \ {j} = {}
      /\ {j} \in SUBSET (1 .. 2) /\ {} \in SUBSET (1 .. 2) /\ 1 .. 2 # {}
  BY <1>3, PickIn
<1>5. it[{}] = 0 /\ it[{j}] = f[j] + it[{}] /\ it[1 .. 2] = f[i] + it[{j}]
  BY <1>2, <1>3, <1>4 DEF SumsUp
<1> QED
  BY <1>2, <1>3, <1>5

LEMMA SumOfNaturals ==
    ASSUME NEW S, IsFiniteSet(S), NEW f \in [S -> Nat]
    PROVE  /\ SumFunction(f) \in Nat
           /\ (\A x \in S : f[x] = 0) => SumFunction(f) = 0
<1>1. PICK it \in [SUBSET S -> Int] : SumsUp(it, f, S) /\ SumFunction(f) = it[S]
  <2>1. f \in [S -> Int]
    OBVIOUS
  <2> QED
    BY <2>1, SumFunctionSumsUp
<1> DEFINE T == {s \in SUBSET S : ~ (it[s] \in Nat /\ ((\A x \in S : f[x] = 0) => it[s] = 0))}
<1>2. SUFFICES ASSUME T # {} PROVE FALSE
  BY <1>1
<1>3. PICK s \in T : \A w \in SUBSET s : w # s => w \notin T
  <2>1. T \in SUBSET (SUBSET S)
    OBVIOUS
  <2> HIDE DEF T
  <2> QED
    BY <1>2, <2>1, SmallestSet
<1>4. ASSUME s = {} PROVE FALSE
  <2>1. it[s] = 0
    BY <1>1, <1>4 DEF SumsUp
  <2> QED
    BY <1>3, <2>1
<1>5. PICK p \in S, w \in SUBSET S : p = Pick(s) /\ p \in s /\ w = s \ {p}
  BY <1>3, <1>4, PickIn
<1>6. it[w] \in Nat /\ ((\A x \in S : f[x] = 0) => it[w] = 0)
  BY <1>3, <1>5
<1>7. it[s] = f[p] + it[w] /\ f[p] \in Nat
  BY <1>1, <1>3, <1>4, <1>5 DEF SumsUp
<1> QED
  BY <1>3, <1>6, <1>7

-----------------------------------------------------------------------------
(* The invariant. *)

(* What the payments of a call still come to, and what they make of funds. *)
Due(payouts) ==
    IF Len(payouts) = 0 THEN 0
    ELSE IF Len(payouts) = 1 THEN payouts[1].amount
    ELSE payouts[1].amount + payouts[2].amount

Credit(f, pay) == [f EXCEPT ![pay.to] = @ + pay.amount]
Paid(f, payouts) ==
    IF Len(payouts) = 0 THEN f
    ELSE IF Len(payouts) = 1 THEN Credit(f, payouts[1])
    ELSE Credit(Credit(f, payouts[1]), payouts[2])

(* An open offer carries its seller's latest ask. *)
OffersAsked(o, k) ==
    \A t \in Tokens : o[t] # NoOffer =>
        /\ o[t].seller \in Accounts
        /\ k[t][o[t].seller] = [minPrice |-> o[t].minPrice, onlySellTo |-> o[t].onlySellTo]

(* Once a call has paid everyone, b and f are one move of the ledger away   *)
(* from what they were when the call began.                                 *)
MovesLedger(call, b, f) ==
    LET old == call.saved.bids
        was == call.saved.funds
        t == call.token
    IN \/ /\ call.op = "buy"
          /\ b = old /\ call.seller \in Accounts /\ call.gross \in Amounts
          /\ f = Ledger!PaySeller(Ledger!Move(was, call.sender, -call.gross), call.seller, call.gross)
       \/ /\ call.op = "enterBid"
          /\ call.gross \in Amounts /\ call.gross > old[t].amount
          /\ b = [old EXCEPT ![t] = [bidder |-> call.sender, amount |-> call.gross]]
          /\ f = Ledger!Move(IF old[t] = NoBid THEN was
                             ELSE Ledger!Move(was, old[t].bidder, old[t].amount),
                             call.sender, -call.gross)
       \/ /\ call.op = "withdrawBid"
          /\ old[t] # NoBid /\ b = [old EXCEPT ![t] = NoBid]
          /\ f = Ledger!Move(was, old[t].bidder, old[t].amount)
       \/ /\ call.op = "acceptBid"
          /\ old[t] # NoBid /\ b = [old EXCEPT ![t] = NoBid]
          /\ call.seller \in Accounts /\ call.seller # old[t].bidder
          /\ f = Ledger!PaySeller(was, call.seller, old[t].amount)

(* A call in progress: two payments at most; the books balance with what it *)
(* still owes, and balanced in the state a revert brings back.              *)
CallOK(call) ==
    /\ Len(call.payouts) <= 2
    /\ balance = Escrowed(bids) + Due(call.payouts)
    /\ MovesLedger(call, bids, Paid(funds, call.payouts))
    /\ OffersAsked(call.saved.offers, call.saved.asks)
    /\ call.saved.balance = Escrowed(call.saved.bids)

(* A bid that is not NoBid has a bidder. *)
BidsHaveBidders(b) == \A t \in Tokens : b[t] # NoBid => b[t].bidder \in Accounts

MarketInv ==
    /\ TypeOK
    /\ BidsHaveBidders(bids)
    /\ OffersAsked(offers, asks)
    /\ stack = <<>> => balance = Escrowed(bids)
    /\ stack # <<>> => CallOK(stack[1]) /\ BidsHaveBidders(stack[1].saved.bids)

-----------------------------------------------------------------------------
(* What the invariant's parts come to. *)

Payment == [to : Accounts, amount : Nat]
Payouts == Seq(Payment)

LEMMA ShortLength ==
    ASSUME NEW S, NEW s \in Seq(S), Len(s) <= 2
    PROVE  /\ Len(s) = 0 \/ Len(s) = 1 \/ Len(s) = 2
           /\ Len(s) <= 1 => Len(s) = 0 \/ Len(s) = 1
<1>1. PICK n : n = Len(s)
  OBVIOUS
<1>2. n \in Nat /\ n <= 2
  BY <1>1
<1>3. (n = 0 \/ n = 1 \/ n = 2) /\ (n <= 1 => n = 0 \/ n = 1)
  BY <1>2
<1> QED
  BY <1>1, <1>3

LEMMA BidAmounts == ASSUME NEW bid \in Bids PROVE bid.amount \in Nat
<1>1. Amounts \cup {0} \subseteq Nat
  BY MarketAssumption
<1> QED
  BY <1>1 DEF Bids

LEMMA EscrowIsNat == ASSUME NEW b \in [Tokens -> Bids] PROVE Escrowed(b) \in Nat
<1>1. PICK f : f = [u \in Tokens |-> b[u].amount]
  OBVIOUS
<1>2. f \in [Tokens -> Nat] /\ IsFiniteSet(Tokens)
  BY <1>1, BidAmounts, MarketAssumption
<1>3. SumFunction(f) \in Nat
  BY <1>2, SumOfNaturals
<1> QED
  BY <1>1, <1>3 DEF Escrowed

LEMMA EscrowChanges ==
    ASSUME NEW b \in [Tokens -> Bids], NEW t \in Tokens, NEW bid \in Bids
    PROVE  Escrowed([b EXCEPT ![t] = bid]) = Escrowed(b) + (bid.amount - b[t].amount)
<1>1. PICK f : f = [u \in Tokens |-> b[u].amount]
  OBVIOUS
<1>2. PICK c : c = [b EXCEPT ![t] = bid]
  OBVIOUS
<1>3. PICK g : g = [u \in Tokens |-> c[u].amount]
  OBVIOUS
<1>5. c \in [Tokens -> Bids] /\ c[t] = bid /\ \A u \in Tokens \ {t} : c[u] = b[u]
  BY <1>2
<1>6. f \in [Tokens -> Nat] /\ g \in [Tokens -> Nat] /\ f[t] = b[t].amount /\ g[t] = bid.amount
  BY <1>1, <1>3, <1>5, BidAmounts
<1>7. \A u \in Tokens \ {t} : f[u] = g[u]
  BY <1>1, <1>3, <1>5
<1>8. SumFunction(g) = SumFunction(f) + (g[t] - f[t])
  <2>1. f \in [Tokens -> Int] /\ g \in [Tokens -> Int] /\ IsFiniteSet(Tokens)
    BY <1>6, MarketAssumption
  <2> QED
    BY <1>7, <2>1, SumChanges
<1> QED
  BY <1>1, <1>2, <1>3, <1>6, <1>8 DEF Escrowed

LEMMA NothingEscrowed == Escrowed([t \in Tokens |-> NoBid]) = 0
<1>1. PICK f : f = [t \in Tokens |-> 0]
  OBVIOUS
<1>2. [t \in Tokens |-> [u \in Tokens |-> NoBid][t].amount] = f
  BY <1>1 DEF NoBid
<1>3. f \in [Tokens -> Nat] /\ \A t \in Tokens : f[t] = 0
  BY <1>1
<1>4. SumFunction(f) = 0
  BY <1>3, SumOfNaturals, MarketAssumption
<1> QED
  BY <1>2, <1>4 DEF Escrowed

LEMMA OwedIsDue ==
    ASSUME NEW call, call.payouts \in Payouts, Len(call.payouts) <= 2
    PROVE  Owed(call) = Due(call.payouts) /\ Due(call.payouts) \in Nat
<1>1. PICK ps \in Payouts : ps = call.payouts
  OBVIOUS
<1>2. PICK f : f = [i \in 1 .. Len(ps) |-> ps[i].amount]
  OBVIOUS
<1>3. Owed(call) = SumFunction(f)
  BY <1>1, <1>2 DEF Owed, Payouts
<1>4. ASSUME NEW i \in 1 .. Len(ps) PROVE ps[i].amount \in Nat
  <2>1. ps[i] \in Payment
    BY DEF Payouts
  <2> QED
    BY <2>1 DEF Payment
<1>5. Len(ps) = 0 \/ Len(ps) = 1 \/ Len(ps) = 2
  BY <1>1, ShortLength DEF Payouts
<1>6. CASE Len(ps) = 0
  <2>1. f \in [{} -> Int]
    BY <1>2, <1>6
  <2> QED
    BY <1>1, <1>3, <1>6, <2>1, SumOfNone DEF Due
<1>7. CASE Len(ps) = 1
  <2>1. f \in [1 .. 1 -> Int] /\ f[1] = ps[1].amount
    BY <1>2, <1>4, <1>7
  <2> QED
    BY <1>1, <1>3, <1>4, <1>7, <2>1, SumOfOne DEF Due
<1>8. CASE Len(ps) = 2
  <2>1. f \in [1 .. 2 -> Int] /\ f[1] = ps[1].amount /\ f[2] = ps[2].amount
    BY <1>2, <1>4, <1>8
  <2> QED
    BY <1>1, <1>3, <1>4, <1>8, <2>1, SumOfTwo DEF Due
<1> QED
  BY <1>5, <1>6, <1>7, <1>8

LEMMA InvIsSolvent == MarketInv => Solvency
<1> SUFFICES ASSUME MarketInv PROVE Solvency
  OBVIOUS
<1>1. stack \in Seq(Frames) /\ (Len(stack) = 0 \/ Len(stack) = 1) /\ bids \in [Tokens -> Bids]
  <2>1. stack \in Seq(Frames) /\ Len(stack) <= 1 /\ bids \in [Tokens -> Bids]
    BY DEF MarketInv, TypeOK
  <2>2. PICK n : n = Len(stack)
    OBVIOUS
  <2>3. n \in Nat /\ n <= 1
    BY <2>1, <2>2
  <2>4. n = 0 \/ n = 1
    BY <2>3
  <2> QED
    BY <2>1, <2>2, <2>4
<1>2. Escrowed(bids) \in Nat
  BY <1>1, EscrowIsNat
<1>3. CASE Len(stack) = 0
  <2>1. PICK f : f = [i \in DOMAIN stack |-> Owed(stack[i])]
    OBVIOUS
  <2>2. stack = <<>> /\ f \in [{} -> Int]
    BY <1>1, <1>3, <2>1
  <2>3. SumFunction(f) = 0
    BY <2>2, SumOfNone
  <2>4. balance = Escrowed(bids)
    BY <2>2 DEF MarketInv
  <2> QED
    BY <1>2, <2>1, <2>3, <2>4 DEF Solvency
<1>4. CASE Len(stack) = 1
  <2>1. PICK f : f = [i \in DOMAIN stack |-> Owed(stack[i])]
    OBVIOUS
  <2>2. stack # <<>> /\ stack[1] \in Frames
    BY <1>1, <1>4
  <2>3. CallOK(stack[1])
    BY <2>2 DEF MarketInv
  <2>4. stack[1].payouts \in Payouts
    BY <2>2 DEF Frames, Payouts, Payment
  <2>5. Owed(stack[1]) = Due(stack[1].payouts) /\ Due(stack[1].payouts) \in Nat
    BY <2>3, <2>4, OwedIsDue DEF CallOK
  <2>6. f \in [1 .. 1 -> Int] /\ f[1] = Owed(stack[1])
    BY <1>1, <1>4, <2>1, <2>5
  <2>7. SumFunction(f) = Owed(stack[1])
    BY <2>6, SumOfOne
  <2> QED
    BY <2>1, <2>3, <2>5, <2>7 DEF Solvency, CallOK
<1> QED
  BY <1>1, <1>3, <1>4

-----------------------------------------------------------------------------
(* Calls in progress. *)

LEMMA StackShape == ASSUME TypeOK PROVE stack = <<>> \/ \E c \in Frames : stack = <<c>>
<1>1. stack \in Seq(Frames) /\ Len(stack) <= 2
  <2>1. stack \in Seq(Frames) /\ Len(stack) <= 1
    BY DEF TypeOK
  <2>2. PICK n \in Nat : n = Len(stack)
    BY <2>1
  <2> QED
    BY <2>1, <2>2
<1>2. Len(stack) = 0 \/ Len(stack) = 1
  BY <1>1, ShortLength DEF TypeOK
<1>3. CASE Len(stack) = 0
  BY <1>1, <1>3
<1>4. CASE Len(stack) = 1
  <2>1. stack[1] \in Frames /\ stack = <<stack[1]>>
    BY <1>1, <1>4
  <2> QED
    BY <2>1
<1> QED
  BY <1>2, <1>3, <1>4

LEMMA OneCall ==
    ASSUME NEW c, NEW d
    PROVE  /\ Last(<<c>>) = c /\ Front(<<c>>) = <<>> /\ <<c>> # <<>> /\ <<c>>[1] = c
           /\ Append(Front(<<c>>), d) = <<d>> /\ Append(<<>>, d) = <<d>>
<1>1. Len(<<c>>) = 1 /\ <<c>>[1] = c
  OBVIOUS
<1>2. Front(<<c>>) = <<>>
  BY <1>1 DEF Front
<1> QED
  BY <1>1, <1>2 DEF Last

LEMMA SnapshotType == ASSUME TypeOK PROVE Snapshot \in Snapshots
  BY DEF TypeOK, Snapshot, Snapshots

LEMMA RoyaltyIsPart ==
    ASSUME NEW g \in Nat
    PROVE  RoyaltyAmount(g) \in Nat /\ RoyaltyAmount(g) <= g /\ Ledger!Royalty(g) = RoyaltyAmount(g)
<1>1. PICK r \in 0 .. 1000 : r = RoyaltyBps
  BY MarketAssumption
<1>2. g * r \in Nat /\ g * r <= g * 10000
  OBVIOUS
<1>3. PICK p \in Nat : p = g * r
  BY <1>2
<1>4. p \div 10000 \in Nat /\ p \div 10000 <= g
  BY <1>2, <1>3
<1> QED
  BY <1>1, <1>3, <1>4 DEF RoyaltyAmount, Ledger!Royalty

(* Both splits of a sale pay the same, rounded to nothing or not. *)
LEMMA SalePays ==
    ASSUME NEW seller \in Accounts, NEW g \in Nat, NEW f \in [Accounts -> Int],
           NEW ps, ps = SaleProceeds(seller, g)
    PROVE  /\ ps \in Payouts /\ Len(ps) <= 2 /\ Due(ps) = g
           /\ Paid(f, ps) = Ledger!PaySeller(f, seller, g)
<1>1. PICK royalty \in Nat : royalty = RoyaltyAmount(g) /\ royalty <= g /\ royalty = Ledger!Royalty(g)
  BY RoyaltyIsPart
<1>2. PICK toSeller : toSeller = [to |-> seller, amount |-> g - royalty]
  OBVIOUS
<1>3. PICK toArtist : toArtist = [to |-> RoyaltyRecipient, amount |-> royalty]
  OBVIOUS
<1>4. toSeller \in Payment /\ toArtist \in Payment
  <2>1. g - royalty \in Nat
    BY <1>1
  <2> QED
    BY <1>2, <1>3, <2>1, MarketAssumption DEF Payment
<1>5. CASE royalty = 0
  <2>1. ps = <<toSeller>>
    BY <1>1, <1>2, <1>5 DEF SaleProceeds
  <2>2. ps \in Payouts /\ Len(ps) = 1 /\ ps[1] = toSeller
    BY <1>4, <2>1 DEF Payouts
  <2>3. Due(ps) = g
    BY <1>2, <1>5, <2>2 DEF Due
  <2>4. [f EXCEPT ![RoyaltyRecipient] = f[RoyaltyRecipient] + 0] = f
    BY MarketAssumption
  <2>5. Ledger!PaySeller(f, seller, g) = [f EXCEPT ![seller] = f[seller] + (g - 0)]
    BY <1>1, <1>5, <2>4 DEF Ledger!PaySeller, Ledger!Move
  <2>6. Paid(f, ps) = [f EXCEPT ![seller] = f[seller] + (g - 0)]
    BY <1>2, <1>5, <2>2 DEF Paid, Credit
  <2> QED
    BY <2>2, <2>3, <2>5, <2>6
<1>6. CASE royalty # 0
  <2>1. ps = <<toArtist>> \o <<toSeller>>
    BY <1>1, <1>2, <1>3, <1>6 DEF SaleProceeds
  <2>2. <<toArtist>> \in Payouts /\ <<toSeller>> \in Payouts
    BY <1>4 DEF Payouts
  <2>3. ps \in Payouts /\ Len(ps) = 2 /\ ps[1] = toArtist /\ ps[2] = toSeller
    BY <2>1, <2>2 DEF Payouts
  <2>4. Due(ps) = g
    BY <1>1, <1>2, <1>3, <2>3 DEF Due
  <2>5. Paid(f, ps) = Ledger!PaySeller(f, seller, g)
    BY <1>1, <1>2, <1>3, <2>3 DEF Paid, Credit, Ledger!PaySeller, Ledger!Move
  <2> QED
    BY <2>3, <2>4, <2>5
<1> QED
  BY <1>5, <1>6

(* The storage of the marketplace and of the token, as TypeOK has it. *)
StorageOK ==
    /\ tokenOwner \in [Tokens -> Accounts]
    /\ approved \in [Tokens -> BOOLEAN]
    /\ approvedForAll \in [Accounts -> BOOLEAN]
    /\ offers \in [Tokens -> Offers] /\ OffersAsked(offers, asks)
    /\ bids \in [Tokens -> Bids] /\ BidsHaveBidders(bids)
    /\ paused \in BOOLEAN
    /\ balance \in Nat
    /\ funds \in [Accounts -> Nat]
    /\ asks \in [Tokens -> [Accounts -> AskRecords]]

LEMMA InvStorage == ASSUME MarketInv PROVE StorageOK
  BY DEF MarketInv, TypeOK, StorageOK

(* A call that begins hands the invariant on to the frame it pushes. *)
LEMMA BeginKeepsInv ==
    ASSUME MarketInv, stack = <<>>, StorageOK',
           NEW op \in {"buy", "enterBid", "withdrawBid", "acceptBid"}, NEW sender \in Accounts,
           NEW t \in Tokens, NEW seller \in Accounts \cup {Nobody}, NEW gross \in Nat,
           NEW callee \in Accounts \cup {Nobody}, NEW ps \in Payouts,
           Call(op, sender, t, seller, gross, callee, ps),
           Len(ps) <= 2, balance' = Escrowed(bids') + Due(ps),
           NEW c, c = [op |-> op, sender |-> sender, token |-> t, seller |-> seller,
                       gross |-> gross, callee |-> callee, payouts |-> ps, saved |-> Snapshot],
           MovesLedger(c, bids', Paid(funds', ps))
    PROVE  MarketInv' /\ stack' = <<c>>
<1>1. stack' = <<c>>
  BY OneCall DEF Call
<1>2. Snapshot \in Snapshots
  BY SnapshotType DEF MarketInv
<1>3. c \in Frames /\ c.payouts = ps /\ c.saved = Snapshot
  BY <1>2 DEF Frames, Payouts, Payment
<1>4. TypeOK'
  <2>1. <<c>> \in Seq(Frames) /\ Len(<<c>>) = 1
    BY <1>3
  <2>2. Len(<<c>>) <= 1
    BY <2>1
  <2> QED
    BY <1>1, <2>1, <2>2 DEF StorageOK, TypeOK
<1>5. /\ OffersAsked(c.saved.offers, c.saved.asks) /\ BidsHaveBidders(c.saved.bids)
      /\ c.saved.balance = Escrowed(c.saved.bids)
  BY <1>3 DEF MarketInv, Snapshot
<1>6. CallOK(c)'
  BY <1>3, <1>5 DEF CallOK
<1>7. stack' # <<>> /\ stack'[1] = c
  BY <1>1, OneCall
<1> QED
  BY <1>1, <1>4, <1>5, <1>6, <1>7 DEF MarketInv, StorageOK

(* A step that moves no money leaves the call in progress as it was. *)
LEMMA QuietKeepsInv ==
    ASSUME MarketInv, StorageOK', UNCHANGED <<bids, balance, funds, stack>>
    PROVE  MarketInv'
<1>1. TypeOK'
  BY DEF MarketInv, TypeOK, StorageOK
<1>2. stack # <<>> => CallOK(stack[1])'
  BY DEF MarketInv, CallOK
<1> QED
  BY <1>1, <1>2 DEF MarketInv, StorageOK

-----------------------------------------------------------------------------
(* Every step keeps the invariant. *)

LEMMA OfferKeepsInv ==
    ASSUME MarketInv, NEW a \in Accounts, NEW t \in Tokens, NEW p \in Asks, NEW to \in Invitees,
           OfferForSale(a, t, p, to)
    PROVE  MarketInv'
<1>1. to \in Accounts \cup {Nobody}
  BY MarketAssumption
<1>2. StorageOK
  BY InvStorage
<1>3. PICK offer : offer = [seller |-> a, minPrice |-> p, onlySellTo |-> to]
  OBVIOUS
<1>4. PICK ask : ask = [minPrice |-> p, onlySellTo |-> to]
  OBVIOUS
<1>5. offer \in Offers /\ ask \in AskRecords
  BY <1>1, <1>3, <1>4 DEF Offers, AskRecords
<1>6. offers' = [offers EXCEPT ![t] = offer] /\ asks' = [asks EXCEPT ![t][a] = ask]
  BY <1>3, <1>4 DEF OfferForSale
<1>7. OffersAsked(offers', asks')
  <2>1. ASSUME NEW u \in Tokens, offers'[u] # NoOffer
        PROVE  /\ offers'[u].seller \in Accounts
               /\ asks'[u][offers'[u].seller]
                    = [minPrice |-> offers'[u].minPrice, onlySellTo |-> offers'[u].onlySellTo]
    <3>1. CASE u = t
      BY <1>2, <1>3, <1>4, <1>6, <3>1 DEF StorageOK
    <3>2. CASE u # t
      BY <1>2, <1>6, <2>1, <3>2 DEF StorageOK, OffersAsked
    <3> QED
      BY <3>1, <3>2
  <2> QED
    BY <2>1 DEF OffersAsked
<1>8. StorageOK'
  BY <1>2, <1>5, <1>6, <1>7 DEF StorageOK, OfferForSale, tokenVars
<1> QED
  BY <1>8, QuietKeepsInv DEF OfferForSale

(* Withdrawing the offer and the ask together leaves the other offers asked. *)
LEMMA ClearedOffer ==
    ASSUME StorageOK, NEW t \in Tokens, NEW a \in Accounts,
           offers' = [offers EXCEPT ![t] = NoOffer], asks' = [asks EXCEPT ![t][a] = NoAsk]
    PROVE  /\ offers' \in [Tokens -> Offers] /\ asks' \in [Tokens -> [Accounts -> AskRecords]]
           /\ OffersAsked(offers', asks')
<1>1. NoOffer \in Offers /\ NoAsk \in AskRecords
  BY DEF NoOffer, NoAsk, Offers, AskRecords
<1>2. offers' \in [Tokens -> Offers] /\ asks' \in [Tokens -> [Accounts -> AskRecords]]
  BY <1>1 DEF StorageOK
<1>3. ASSUME NEW u \in Tokens, offers'[u] # NoOffer
      PROVE  /\ offers'[u].seller \in Accounts
             /\ asks'[u][offers'[u].seller]
                  = [minPrice |-> offers'[u].minPrice, onlySellTo |-> offers'[u].onlySellTo]
  <2>1. u # t
    BY <1>3 DEF StorageOK
  <2> QED
    BY <1>3, <2>1 DEF StorageOK, OffersAsked
<1> QED
  BY <1>2, <1>3 DEF OffersAsked

LEMMA CancelKeepsInv ==
    ASSUME MarketInv, NEW a \in Accounts, NEW t \in Tokens, CancelOffer(a, t)
    PROVE  MarketInv'
<1>1. StorageOK
  BY InvStorage
<1>2. /\ offers' \in [Tokens -> Offers] /\ asks' \in [Tokens -> [Accounts -> AskRecords]]
      /\ OffersAsked(offers', asks')
  BY <1>1, ClearedOffer DEF CancelOffer
<1>3. StorageOK'
  BY <1>1, <1>2 DEF StorageOK, CancelOffer, tokenVars
<1> QED
  BY <1>3, QuietKeepsInv DEF CancelOffer

(* The token contract and the pause switch. *)
LEMMA OutsideKeepsInv ==
    ASSUME MarketInv, NEW a \in Accounts, NEW t \in Tokens, NEW value \in BOOLEAN,
           \/ \E to \in Actors : Transfer(a, t, to)
           \/ Approve(a, t, value)
    PROVE  MarketInv'
<1>1. StorageOK
  BY InvStorage
<1>2. CASE \E to \in Actors : Transfer(a, t, to)
  <2>1. PICK to \in Accounts : Transfer(a, t, to)
    BY <1>2, MarketAssumption
  <2>2. StorageOK'
    BY <1>1, <2>1 DEF StorageOK, Transfer, Deliver
  <2> QED
    BY <2>1, <2>2, QuietKeepsInv DEF Transfer
<1>3. CASE Approve(a, t, value)
  <2>1. StorageOK'
    BY <1>1, <1>3 DEF StorageOK, Approve
  <2> QED
    BY <1>3, <2>1, QuietKeepsInv DEF Approve
<1> QED
  BY <1>2, <1>3

LEMMA SwitchKeepsInv ==
    ASSUME MarketInv, NEW a \in Accounts, NEW value \in BOOLEAN,
           SetPaused(a, value) \/ SetApprovalForAll(a, value)
    PROVE  MarketInv'
<1>1. StorageOK
  BY InvStorage
<1>2. CASE SetPaused(a, value)
  <2>1. StorageOK'
    BY <1>1, <1>2 DEF StorageOK, SetPaused, tokenVars
  <2> QED
    BY <1>2, <2>1, QuietKeepsInv DEF SetPaused
<1>3. CASE SetApprovalForAll(a, value)
  <2>1. StorageOK'
    BY <1>1, <1>3 DEF StorageOK, SetApprovalForAll
  <2> QED
    BY <1>3, <2>1, QuietKeepsInv DEF SetApprovalForAll
<1> QED
  BY <1>2, <1>3

LEMMA ReceiveMovesEther ==
    ASSUME StorageOK, NEW a \in Accounts, NEW v \in Nat, Receive(a, v)
    PROVE  /\ funds' \in [Accounts -> Nat] /\ balance' \in Nat
           /\ balance' = balance + v /\ funds' = Ledger!Move(funds, a, -v)
<1>1. funds[a] \in Nat /\ funds[a] >= v /\ funds' = [funds EXCEPT ![a] = funds[a] - v]
  BY DEF StorageOK, Receive
<1>2. PICK n \in Nat : n = funds[a] - v /\ n = funds[a] + (-v)
  BY <1>1
<1>3. funds' = [funds EXCEPT ![a] = n] /\ funds' \in [Accounts -> Nat]
  BY <1>1, <1>2 DEF StorageOK
<1>4. funds' = Ledger!Move(funds, a, -v)
  BY <1>2, <1>3 DEF Ledger!Move
<1>5. balance' = balance + v /\ balance' \in Nat
  BY DEF StorageOK, Receive
<1> QED
  BY <1>3, <1>4, <1>5

LEMMA BuyKeepsInv ==
    ASSUME MarketInv, NEW a \in Accounts, NEW t \in Tokens, NEW v \in Amounts, Buy(a, t, v)
    PROVE  MarketInv'
<1>1. StorageOK /\ stack = <<>> /\ v \in Nat
  BY InvStorage, MarketAssumption DEF Buy, NotEntered
<1>2. PICK seller \in Accounts : seller = tokenOwner[t]
  BY <1>1 DEF StorageOK
<1>3. /\ offers' \in [Tokens -> Offers] /\ asks' \in [Tokens -> [Accounts -> AskRecords]]
      /\ OffersAsked(offers', asks')
  BY <1>1, <1>2, ClearedOffer DEF Buy
<1>4. /\ funds' \in [Accounts -> Nat] /\ balance' \in Nat
      /\ balance' = balance + v /\ funds' = Ledger!Move(funds, a, -v)
  BY <1>1, ReceiveMovesEther DEF Buy
<1>5. StorageOK'
  BY <1>1, <1>3, <1>4 DEF StorageOK, Buy, Deliver
<1>6. PICK ps : ps = SaleProceeds(seller, v)
  OBVIOUS
<1>7. /\ ps \in Payouts /\ Len(ps) <= 2 /\ Due(ps) = v
      /\ Paid(funds', ps) = Ledger!PaySeller(funds', seller, v)
  <2>1. funds' \in [Accounts -> Int]
    BY <1>4
  <2> QED
    BY <1>1, <1>6, <2>1, SalePays
<1>8. balance' = Escrowed(bids') + Due(ps)
  BY <1>1, <1>4, <1>7 DEF Buy, MarketInv
<1>9. PICK c : c = [op |-> "buy", sender |-> a, token |-> t, seller |-> seller,
                    gross |-> v, callee |-> a, payouts |-> ps, saved |-> Snapshot]
  OBVIOUS
<1>10. MovesLedger(c, bids', Paid(funds', ps))
  <2>1. /\ c.op = "buy" /\ c.sender = a /\ c.seller = seller /\ c.gross = v
        /\ c.saved.bids = bids /\ c.saved.funds = funds
    BY <1>9 DEF Snapshot
  <2>2. bids' = bids
    BY DEF Buy
  <2> QED
    BY <1>4, <1>7, <2>1, <2>2 DEF MovesLedger
<1>11. Call("buy", a, t, seller, v, a, ps)
  BY <1>2, <1>6 DEF Buy
<1> QED
  BY <1>1, <1>5, <1>7, <1>8, <1>9, <1>10, <1>11, BeginKeepsInv

LEMMA NoBidIsBid == NoBid \in Bids /\ NoBid.amount = 0
  BY DEF NoBid, Bids

LEMMA OnePayment ==
    ASSUME NEW to \in Accounts, NEW n \in Nat, NEW ps, ps = <<[to |-> to, amount |-> n]>>, NEW f
    PROVE  /\ ps \in Payouts /\ Len(ps) <= 2 /\ Due(ps) = n
           /\ Paid(f, ps) = Ledger!Move(f, to, n)
<1>1. PICK pay : pay = [to |-> to, amount |-> n]
  OBVIOUS
<1>2. pay \in Payment
  BY <1>1 DEF Payment
<1>3. ps \in Payouts /\ Len(ps) = 1 /\ ps[1] = pay
  BY <1>1, <1>2 DEF Payouts
<1>4. Due(ps) = n
  BY <1>1, <1>3 DEF Due
<1>5. Paid(f, ps) = Credit(f, pay)
  BY <1>3 DEF Paid
<1>6. pay.to = to /\ pay.amount = n
  BY <1>1
<1>7. Credit(f, pay) = Ledger!Move(f, to, n)
  BY <1>6 DEF Credit, Ledger!Move
<1> QED
  BY <1>3, <1>4, <1>5, <1>7

LEMMA MovesCommute ==
    ASSUME NEW f \in [Accounts -> Int], NEW a \in Accounts, NEW b \in Accounts,
           NEW x \in Int, NEW y \in Int
    PROVE  Ledger!Move(Ledger!Move(f, a, x), b, y) = Ledger!Move(Ledger!Move(f, b, y), a, x)
<1>1. PICK g, h : g = Ledger!Move(f, a, x) /\ h = Ledger!Move(f, b, y)
  OBVIOUS
<1>2. /\ g \in [Accounts -> Int] /\ h \in [Accounts -> Int]
      /\ \A u \in Accounts : /\ g[u] = IF u = a THEN f[u] + x ELSE f[u]
                            /\ h[u] = IF u = b THEN f[u] + y ELSE f[u]
  BY <1>1 DEF Ledger!Move
<1>3. PICK k, l : k = Ledger!Move(g, b, y) /\ l = Ledger!Move(h, a, x)
  OBVIOUS
<1>4. /\ k \in [Accounts -> Int] /\ l \in [Accounts -> Int]
      /\ \A u \in Accounts : /\ k[u] = IF u = b THEN g[u] + y ELSE g[u]
                            /\ l[u] = IF u = a THEN h[u] + x ELSE h[u]
  BY <1>2, <1>3 DEF Ledger!Move
<1>5. ASSUME NEW u \in Accounts PROVE k[u] = l[u]
  <2>1. f[u] \in Int
    OBVIOUS
  <2> QED
    BY <1>2, <1>4, <2>1
<1>6. k = l
  BY <1>4, <1>5
<1> QED
  BY <1>1, <1>3, <1>6

LEMMA BidKeepsInv ==
    ASSUME MarketInv, NEW a \in Accounts, NEW t \in Tokens, NEW v \in Amounts, EnterBid(a, t, v)
    PROVE  MarketInv'
<1>1. StorageOK /\ stack = <<>> /\ v \in Nat /\ v > 0
  BY InvStorage, MarketAssumption DEF EnterBid, NotEntered
<1>2. PICK old \in Bids : old = bids[t]
  BY <1>1 DEF StorageOK
<1>3. old.amount \in Nat /\ v > old.amount /\ (old # NoBid => old.bidder \in Accounts)
  BY <1>1, <1>2, BidAmounts DEF EnterBid, StorageOK, BidsHaveBidders
<1>4. PICK bid : bid = [bidder |-> a, amount |-> v]
  OBVIOUS
<1>5. bid \in Bids /\ bid.amount = v /\ bid.bidder = a
  BY <1>4 DEF Bids
<1>6. bids' = [bids EXCEPT ![t] = bid]
  BY <1>4 DEF EnterBid
<1>7. bids' \in [Tokens -> Bids] /\ BidsHaveBidders(bids')
  BY <1>1, <1>5, <1>6 DEF StorageOK, BidsHaveBidders
<1>8. /\ funds' \in [Accounts -> Nat] /\ balance' \in Nat
      /\ balance' = balance + v /\ funds' = Ledger!Move(funds, a, -v)
  BY <1>1, ReceiveMovesEther DEF EnterBid
<1>9. StorageOK'
  BY <1>1, <1>7, <1>8 DEF StorageOK, EnterBid, tokenVars
<1>10. PICK ps : ps = IF old = NoBid THEN <<>> ELSE <<[to |-> old.bidder, amount |-> old.amount]>>
  OBVIOUS
<1>11. /\ ps \in Payouts /\ Len(ps) <= 2 /\ Due(ps) = old.amount
       /\ Paid(funds', ps) = IF old = NoBid THEN funds' ELSE Ledger!Move(funds', old.bidder, old.amount)
  <2>1. CASE old = NoBid
    <3>1. ps = <<>> /\ old.amount = 0
      BY <1>10, <2>1, NoBidIsBid
    <3>2. ps \in Payouts /\ Len(ps) = 0
      BY <3>1 DEF Payouts
    <3> QED
      BY <2>1, <3>1, <3>2 DEF Due, Paid
  <2>2. CASE old # NoBid
    BY <1>3, <1>10, <2>2, OnePayment
  <2> QED
    BY <2>1, <2>2
<1>12. balance' = Escrowed(bids') + Due(ps)
  <2>1. Escrowed(bids') = Escrowed(bids) + (v - old.amount)
    BY <1>1, <1>2, <1>5, <1>6, EscrowChanges DEF StorageOK
  <2>2. Escrowed(bids) \in Nat /\ balance = Escrowed(bids)
    BY <1>1, EscrowIsNat DEF StorageOK, MarketInv
  <2> QED
    BY <1>1, <1>3, <1>8, <1>11, <2>1, <2>2
<1>13. PICK c : c = [op |-> "enterBid", sender |-> a, token |-> t, seller |-> Nobody,
                     gross |-> v, callee |-> Nobody, payouts |-> ps, saved |-> Snapshot]
  OBVIOUS
<1>14. MovesLedger(c, bids', Paid(funds', ps))
  <2>1. /\ c.op = "enterBid" /\ c.sender = a /\ c.token = t /\ c.gross = v
        /\ c.saved.bids = bids /\ c.saved.funds = funds
    BY <1>13 DEF Snapshot
  <2>2. Paid(funds', ps) = Ledger!Move(IF old = NoBid THEN funds
                                      ELSE Ledger!Move(funds, old.bidder, old.amount), a, -v)
    <3>1. CASE old = NoBid
      BY <1>8, <1>11, <3>1
    <3>2. CASE old # NoBid
      <4>1. funds \in [Accounts -> Int] /\ -v \in Int /\ old.amount \in Int
        BY <1>1, <1>3 DEF StorageOK
      <4>2. old.bidder \in Accounts
        BY <1>3, <3>2
      <4> QED
        BY <1>8, <1>11, <3>2, <4>1, <4>2, MovesCommute
    <3> QED
      BY <3>1, <3>2
  <2> QED
    BY <1>2, <1>3, <1>4, <1>6, <2>1, <2>2 DEF MovesLedger
<1>15. Call("enterBid", a, t, Nobody, v, Nobody, ps)
  BY <1>2, <1>10 DEF EnterBid
<1> QED
  BY <1>1, <1>9, <1>11, <1>12, <1>13, <1>14, <1>15, BeginKeepsInv

(* Taking a bid off the books lowers the escrow by its amount. *)
LEMMA TakeBid ==
    ASSUME StorageOK, NEW t \in Tokens, bids' = [bids EXCEPT ![t] = NoBid]
    PROVE  /\ bids' \in [Tokens -> Bids] /\ BidsHaveBidders(bids')
           /\ Escrowed(bids) = Escrowed(bids') + bids[t].amount
<1>1. bids' \in [Tokens -> Bids] /\ BidsHaveBidders(bids')
  BY NoBidIsBid DEF StorageOK, BidsHaveBidders
<1>2. Escrowed(bids') = Escrowed(bids) + (0 - bids[t].amount)
  BY NoBidIsBid, EscrowChanges DEF StorageOK
<1>3. Escrowed(bids) \in Nat /\ bids[t].amount \in Nat
  BY EscrowIsNat, BidAmounts DEF StorageOK
<1> QED
  BY <1>1, <1>2, <1>3

LEMMA WithdrawKeepsInv ==
    ASSUME MarketInv, NEW a \in Accounts, NEW t \in Tokens, WithdrawBid(a, t)
    PROVE  MarketInv'
<1>1. StorageOK /\ stack = <<>>
  BY InvStorage DEF WithdrawBid, MayWithdraw, NotEntered
<1>2. PICK old \in Bids : old = bids[t] /\ old # NoBid /\ old.bidder = a
  BY <1>1 DEF StorageOK, WithdrawBid
<1>3. PICK n \in Nat : n = old.amount
  BY BidAmounts
<1>4. bids' = [bids EXCEPT ![t] = NoBid] /\ UNCHANGED <<balance, funds>>
  BY DEF WithdrawBid
<1>5. /\ bids' \in [Tokens -> Bids] /\ BidsHaveBidders(bids')
      /\ Escrowed(bids) = Escrowed(bids') + n
  BY <1>1, <1>2, <1>3, <1>4, TakeBid
<1>6. StorageOK'
  BY <1>1, <1>5 DEF StorageOK, WithdrawBid, tokenVars
<1>7. PICK ps : ps = <<[to |-> a, amount |-> n]>>
  OBVIOUS
<1>8. ps \in Payouts /\ Len(ps) <= 2 /\ Due(ps) = n /\ Paid(funds', ps) = Ledger!Move(funds, a, n)
  BY <1>4, <1>7, OnePayment
<1>9. balance' = Escrowed(bids') + Due(ps)
  BY <1>1, <1>4, <1>5, <1>8 DEF MarketInv
<1>10. PICK c : c = [op |-> "withdrawBid", sender |-> a, token |-> t, seller |-> Nobody,
                     gross |-> n, callee |-> Nobody, payouts |-> ps, saved |-> Snapshot]
  OBVIOUS
<1>11. MovesLedger(c, bids', Paid(funds', ps))
  <2>1. /\ c.op = "withdrawBid" /\ c.token = t /\ c.saved.bids = bids /\ c.saved.funds = funds
    BY <1>10 DEF Snapshot
  <2> QED
    BY <1>2, <1>3, <1>4, <1>8, <2>1 DEF MovesLedger
<1>12. Call("withdrawBid", a, t, Nobody, n, Nobody, ps)
  BY <1>2, <1>3, <1>7 DEF WithdrawBid
<1> QED
  BY <1>1, <1>6, <1>8, <1>9, <1>10, <1>11, <1>12, BeginKeepsInv

LEMMA AcceptKeepsInv ==
    ASSUME MarketInv, NEW a \in Accounts, NEW t \in Tokens, NEW v \in Amounts, AcceptBid(a, t, v)
    PROVE  MarketInv'
<1>1. StorageOK /\ stack = <<>>
  BY InvStorage DEF AcceptBid, NotEntered
<1>2. PICK old \in Bids : old = bids[t] /\ old # NoBid /\ old.bidder # a /\ old.bidder \in Accounts
  BY <1>1 DEF StorageOK, AcceptBid, BidsHaveBidders
<1>3. PICK n \in Nat : n = old.amount
  BY BidAmounts
<1>4. bids' = [bids EXCEPT ![t] = NoBid] /\ UNCHANGED <<balance, funds>>
  BY DEF AcceptBid
<1>5. /\ bids' \in [Tokens -> Bids] /\ BidsHaveBidders(bids')
      /\ Escrowed(bids) = Escrowed(bids') + n
  BY <1>1, <1>2, <1>3, <1>4, TakeBid
<1>6. /\ offers' \in [Tokens -> Offers] /\ asks' \in [Tokens -> [Accounts -> AskRecords]]
      /\ OffersAsked(offers', asks')
  BY <1>1, ClearedOffer DEF AcceptBid
<1>7. StorageOK'
  BY <1>1, <1>2, <1>5, <1>6 DEF StorageOK, AcceptBid, Deliver
<1>8. PICK ps : ps = SaleProceeds(a, n)
  OBVIOUS
<1>9. /\ ps \in Payouts /\ Len(ps) <= 2 /\ Due(ps) = n
      /\ Paid(funds', ps) = Ledger!PaySeller(funds, a, n)
  <2>1. funds' = funds /\ funds \in [Accounts -> Int]
    BY <1>1, <1>4 DEF StorageOK
  <2> QED
    BY <1>8, <2>1, SalePays
<1>10. balance' = Escrowed(bids') + Due(ps)
  BY <1>1, <1>4, <1>5, <1>9 DEF MarketInv
<1>11. PICK c : c = [op |-> "acceptBid", sender |-> a, token |-> t, seller |-> a,
                     gross |-> n, callee |-> old.bidder, payouts |-> ps, saved |-> Snapshot]
  OBVIOUS
<1>12. MovesLedger(c, bids', Paid(funds', ps))
  <2>1. /\ c.op = "acceptBid" /\ c.token = t /\ c.seller = a
        /\ c.saved.bids = bids /\ c.saved.funds = funds
    BY <1>11 DEF Snapshot
  <2> QED
    BY <1>2, <1>3, <1>4, <1>9, <2>1 DEF MovesLedger
<1>13. Call("acceptBid", a, t, a, n, old.bidder, ps)
  BY <1>2, <1>3, <1>8 DEF AcceptBid
<1> QED
  BY <1>1, <1>2, <1>7, <1>9, <1>10, <1>11, <1>12, <1>13, BeginKeepsInv

(* Paying the head of what is owed changes neither total. *)
LEMMA PayHead ==
    ASSUME NEW ps \in Payouts, ps # <<>>, Len(ps) <= 2, NEW f
    PROVE  /\ Head(ps) \in Payment /\ Tail(ps) \in Payouts /\ Len(Tail(ps)) <= 2
           /\ Due(ps) = Head(ps).amount + Due(Tail(ps)) /\ Due(Tail(ps)) \in Nat
           /\ Paid(f, ps) = Paid(Credit(f, Head(ps)), Tail(ps))
<1>1. Len(ps) = 1 \/ Len(ps) = 2
  BY ShortLength DEF Payouts
<1>2. Head(ps) = ps[1] /\ ps[1] \in Payment /\ Tail(ps) \in Payouts
  BY <1>1 DEF Payouts
<1>3. ps[1].amount \in Nat
  BY <1>2 DEF Payment
<1>4. CASE Len(ps) = 1
  <2>1. Len(Tail(ps)) = 0
    BY <1>4 DEF Payouts
  <2>2. Due(ps) = ps[1].amount /\ Due(Tail(ps)) = 0
    BY <1>4, <2>1 DEF Due
  <2>3. Paid(f, ps) = Credit(f, ps[1]) /\ Paid(Credit(f, ps[1]), Tail(ps)) = Credit(f, ps[1])
    BY <1>4, <2>1 DEF Paid
  <2>4. Len(Tail(ps)) <= 2
    BY <2>1
  <2> QED
    BY <1>2, <1>3, <2>2, <2>3, <2>4
<1>5. CASE Len(ps) = 2
  <2>1. Len(Tail(ps)) = 1 /\ Tail(ps)[1] = ps[2] /\ ps[2] \in Payment
    BY <1>5 DEF Payouts
  <2>2. ps[2].amount \in Nat
    BY <2>1 DEF Payment
  <2>3. Due(ps) = ps[1].amount + ps[2].amount /\ Due(Tail(ps)) = ps[2].amount
    <3>1. Due(ps) = ps[1].amount + ps[2].amount
      BY <1>5 DEF Due
    <3>2. Due(Tail(ps)) = Tail(ps)[1].amount
      BY <2>1 DEF Due
    <3> QED
      BY <2>1, <3>1, <3>2
  <2>4. /\ Paid(f, ps) = Credit(Credit(f, ps[1]), ps[2])
        /\ Paid(Credit(f, ps[1]), Tail(ps)) = Credit(Credit(f, ps[1]), ps[2])
    BY <1>5, <2>1 DEF Paid
  <2>5. Len(Tail(ps)) <= 2
    BY <2>1
  <2> QED
    BY <1>2, <1>3, <2>2, <2>3, <2>4, <2>5
<1> QED
  BY <1>1, <1>4, <1>5

LEMMA PayKeepsInv ==
    ASSUME MarketInv, PayNext
    PROVE  /\ MarketInv'
           /\ \E c, d : stack = <<c>> /\ stack' = <<d>> /\ d.saved = c.saved
<1>1. StorageOK /\ stack # <<>>
  BY InvStorage DEF PayNext
<1>2. PICK c \in Frames : stack = <<c>>
  BY <1>1, StackShape DEF MarketInv
<1>3. CallOK(c) /\ BidsHaveBidders(c.saved.bids) /\ Last(stack) = c
  BY <1>1, <1>2, OneCall DEF MarketInv
<1>4. PICK ps \in Payouts : ps = c.payouts /\ ps # <<>> /\ Len(ps) <= 2
  BY <1>3 DEF Frames, Payouts, Payment, PayNext, CallOK
<1>5. PICK pay \in Payment : pay = Head(ps)
  BY <1>4, PayHead
<1>6. /\ balance >= pay.amount /\ balance' = balance - pay.amount
      /\ funds' = Credit(funds, pay)
      /\ UNCHANGED <<tokenVars, offers, bids, paused, asks>>
  BY <1>3, <1>4, <1>5 DEF PayNext, Credit
<1>7. PICK d : d = [c EXCEPT !.callee = pay.to, !.payouts = Tail(ps)]
  OBVIOUS
<1>8. stack' = <<d>>
  <2>1. stack' = Append(Front(stack), d)
    BY <1>3, <1>4, <1>5, <1>7 DEF PayNext
  <2> QED
    BY <1>2, <2>1, OneCall
<1>9. pay.to \in Accounts /\ pay.amount \in Nat
  BY <1>5 DEF Payment
<1>10. /\ d \in Frames /\ d.payouts = Tail(ps) /\ d.saved = c.saved /\ d.op = c.op
       /\ d.sender = c.sender /\ d.token = c.token /\ d.seller = c.seller /\ d.gross = c.gross
  <2>1. Tail(ps) \in Seq([to : Accounts, amount : Nat])
    BY <1>4, PayHead DEF Payouts, Payment
  <2> QED
    BY <1>7, <1>9, <2>1 DEF Frames
<1>11. StorageOK'
  <2>1. balance' \in Nat
    BY <1>1, <1>6, <1>9 DEF StorageOK
  <2>2. funds' \in [Accounts -> Nat]
    <3>1. funds[pay.to] + pay.amount \in Nat
      BY <1>1, <1>9 DEF StorageOK
    <3> QED
      BY <1>1, <1>6, <3>1 DEF StorageOK, Credit
  <2> QED
    BY <1>1, <1>6, <2>1, <2>2 DEF StorageOK, tokenVars
<1>12. TypeOK'
  <2>1. <<d>> \in Seq(Frames) /\ Len(<<d>>) = 1
    BY <1>10
  <2>2. Len(<<d>>) <= 1
    BY <2>1
  <2> QED
    BY <1>8, <1>11, <2>1, <2>2 DEF StorageOK, TypeOK
<1>13. CallOK(d)'
  <2>1. /\ Len(Tail(ps)) <= 2 /\ Due(ps) = pay.amount + Due(Tail(ps)) /\ Due(Tail(ps)) \in Nat
        /\ Paid(funds, ps) = Paid(funds', Tail(ps))
    BY <1>4, <1>5, <1>6, PayHead
  <2>2. balance' = Escrowed(bids') + Due(Tail(ps))
    <3>1. balance = Escrowed(bids) + Due(ps) /\ Escrowed(bids) \in Nat /\ bids' = bids
      BY <1>1, <1>3, <1>4, <1>6, EscrowIsNat DEF CallOK, StorageOK
    <3> QED
      BY <1>6, <1>9, <2>1, <3>1
  <2>3. MovesLedger(d, bids', Paid(funds', Tail(ps)))
    <3>1. MovesLedger(c, bids, Paid(funds, ps))
      BY <1>3, <1>4 DEF CallOK
    <3> QED
      BY <1>6, <1>10, <2>1, <3>1 DEF MovesLedger
  <2> QED
    BY <1>3, <1>10, <2>1, <2>2, <2>3 DEF CallOK
<1>14. stack' # <<>> /\ stack'[1] = d
  BY <1>8, OneCall
<1>15. MarketInv'
  BY <1>3, <1>10, <1>11, <1>12, <1>13, <1>14 DEF MarketInv, StorageOK
<1> QED
  BY <1>2, <1>8, <1>10, <1>15

LEMMA EmptyStack == <<>> \in Seq(Frames) /\ Len(<<>>) <= 1
<1>1. <<>> \in Seq(Frames) /\ Len(<<>>) = 0
  OBVIOUS
<1> QED
  BY <1>1

LEMMA FinishKeepsInv ==
    ASSUME MarketInv, Finish
    PROVE  /\ MarketInv' /\ stack' = <<>> /\ UNCHANGED <<bids, funds>>
           /\ \E c \in Frames : stack = <<c>> /\ MovesLedger(c, bids, funds)
<1>1. StorageOK /\ stack # <<>>
  BY InvStorage DEF Finish
<1>2. PICK c \in Frames : stack = <<c>>
  BY <1>1, StackShape DEF MarketInv
<1>3. CallOK(c) /\ c.payouts = <<>> /\ stack' = <<>>
  BY <1>1, <1>2, OneCall DEF MarketInv, Finish
<1>4. Len(c.payouts) = 0
  BY <1>3
<1>5. Due(c.payouts) = 0 /\ Paid(funds, c.payouts) = funds
  BY <1>4 DEF Due, Paid
<1>6. balance = Escrowed(bids) /\ MovesLedger(c, bids, funds)
  <2>1. Escrowed(bids) \in Nat
    BY <1>1, EscrowIsNat DEF StorageOK
  <2> QED
    BY <1>3, <1>5, <2>1 DEF CallOK
<1>7. StorageOK' /\ balance' = Escrowed(bids')
  BY <1>1, <1>6 DEF StorageOK, Finish, tokenVars
<1>8. MarketInv'
  BY <1>3, <1>7, EmptyStack DEF MarketInv, TypeOK, StorageOK
<1> QED
  BY <1>2, <1>3, <1>6, <1>8 DEF Finish

LEMMA RevertKeepsInv ==
    ASSUME MarketInv, Revert
    PROVE  /\ MarketInv' /\ stack' = <<>>
           /\ \E c \in Frames : stack = <<c>> /\ bids' = c.saved.bids /\ funds' = c.saved.funds
<1>1. stack # <<>>
  BY DEF Revert
<1>2. PICK c \in Frames : stack = <<c>>
  BY <1>1, StackShape DEF MarketInv
<1>3. /\ CallOK(c) /\ BidsHaveBidders(c.saved.bids)
      /\ Last(stack) = c /\ Front(stack) = <<>>
  BY <1>1, <1>2, OneCall DEF MarketInv
<1>4. PICK saved \in Snapshots : saved = c.saved
  BY DEF Frames
<1>5. /\ tokenOwner' = saved.tokenOwner /\ approved' = saved.approved
      /\ approvedForAll' = saved.approvedForAll
      /\ offers' = saved.offers /\ bids' = saved.bids /\ paused' = saved.paused
      /\ balance' = saved.balance /\ funds' = saved.funds /\ asks' = saved.asks
      /\ stack' = <<>>
  BY <1>3, <1>4 DEF Revert
<1>6. /\ OffersAsked(saved.offers, saved.asks) /\ BidsHaveBidders(saved.bids)
      /\ saved.balance = Escrowed(saved.bids)
  BY <1>3, <1>4 DEF CallOK
<1>7. StorageOK' /\ balance' = Escrowed(bids')
  BY <1>5, <1>6 DEF StorageOK, Snapshots
<1>8. MarketInv'
  BY <1>5, <1>7, EmptyStack DEF MarketInv, TypeOK, StorageOK
<1> QED
  BY <1>2, <1>4, <1>5, <1>8

LEMMA InitMarketInv == Init => MarketInv
<1> SUFFICES ASSUME Init PROVE MarketInv
  OBVIOUS
<1>1. NoOffer \in Offers /\ NoAsk \in AskRecords
  BY DEF NoOffer, NoAsk, Offers, AskRecords
<1>2. StorageOK
  <2>1. /\ tokenOwner \in [Tokens -> Accounts] /\ approved \in [Tokens -> BOOLEAN]
        /\ approvedForAll \in [Accounts -> BOOLEAN] /\ paused \in BOOLEAN
        /\ balance \in Nat /\ funds \in [Accounts -> Nat]
    BY MarketAssumption DEF Init
  <2>2. bids \in [Tokens -> Bids] /\ BidsHaveBidders(bids)
    BY NoBidIsBid DEF Init, BidsHaveBidders
  <2>3. offers \in [Tokens -> Offers] /\ OffersAsked(offers, asks)
    BY <1>1 DEF Init, OffersAsked
  <2>4. asks \in [Tokens -> [Accounts -> AskRecords]]
    BY <1>1 DEF Init
  <2> QED
    BY <2>1, <2>2, <2>3, <2>4 DEF StorageOK
<1>3. balance = Escrowed(bids) /\ stack = <<>>
  BY NothingEscrowed DEF Init
<1> QED
  BY <1>2, <1>3, EmptyStack DEF MarketInv, TypeOK, StorageOK

LEMMA NextMarketInv == MarketInv /\ [Next]_vars => MarketInv'
<1> SUFFICES ASSUME MarketInv, [Next]_vars PROVE MarketInv'
  OBVIOUS
<1>1. CASE UNCHANGED vars
  <2>1. StorageOK'
    BY <1>1, InvStorage DEF vars, StorageOK
  <2> QED
    BY <1>1, <2>1, QuietKeepsInv DEF vars
<1>2. ASSUME NEW a \in Accounts, NEW t \in Tokens,
             \/ \E p \in Asks, to \in Invitees : OfferForSale(a, t, p, to)
             \/ CancelOffer(a, t)
      PROVE  MarketInv'
  BY <1>2, OfferKeepsInv, CancelKeepsInv
<1>3. ASSUME NEW a \in Accounts, NEW t \in Tokens, NEW v \in Amounts,
             Buy(a, t, v) \/ EnterBid(a, t, v) \/ AcceptBid(a, t, v)
      PROVE  MarketInv'
  BY <1>3, BuyKeepsInv, BidKeepsInv, AcceptKeepsInv
<1>4. ASSUME NEW a \in Accounts, NEW t \in Tokens, WithdrawBid(a, t) PROVE MarketInv'
  BY <1>4, WithdrawKeepsInv
<1>5. ASSUME NEW a \in Accounts, NEW t \in Tokens,
             (\E to \in Actors : Transfer(a, t, to)) \/ (\E value \in BOOLEAN : Approve(a, t, value))
      PROVE  MarketInv'
  BY <1>5, OutsideKeepsInv
<1>6. ASSUME NEW a \in Accounts, NEW value \in BOOLEAN,
             SetPaused(a, value) \/ SetApprovalForAll(a, value)
      PROVE  MarketInv'
  BY <1>6, SwitchKeepsInv
<1>7. CASE PayNext \/ Finish \/ Revert
  BY <1>7, PayKeepsInv, FinishKeepsInv, RevertKeepsInv
<1> QED
  BY <1>1, <1>2, <1>3, <1>4, <1>5, <1>6, <1>7 DEF Next

LEMMA AlwaysMarketInv == Spec => []MarketInv
  BY InitMarketInv, NextMarketInv, PTL DEF Spec

-----------------------------------------------------------------------------
(* The theorems. *)

(* Storage, both ledgers and the one call that can be in progress keep      *)
(* their types: no callback enters a second payable call.                   *)
THEOREM MarketTypeCorrect == Spec => []TypeOK
<1>1. MarketInv => TypeOK
  BY DEF MarketInv
<1> QED
  BY <1>1, AlwaysMarketInv, PTL

(* The contract holds, at every instant, exactly the open bids and what the *)
(* call in progress still owes, whoever calls back or refuses.              *)
THEOREM AlwaysSolvent == Spec => []Solvency
  BY AlwaysMarketInv, InvIsSolvent, PTL

(* Hence no payment ever fails for want of ether: the next one owed is      *)
(* always covered, and the contract could at any time repay every bid.      *)
NextPaymentCovered ==
    stack # <<>> /\ Last(stack).payouts # <<>> => balance >= Head(Last(stack).payouts).amount

THEOREM PaymentsCovered == Spec => []NextPaymentCovered
<1>1. MarketInv => NextPaymentCovered
  <2> SUFFICES ASSUME MarketInv, stack # <<>>, Last(stack).payouts # <<>>
               PROVE  balance >= Head(Last(stack).payouts).amount
    BY DEF NextPaymentCovered
  <2>1. PICK c \in Frames : stack = <<c>>
    BY StackShape DEF MarketInv
  <2>2. CallOK(c) /\ Last(stack) = c
    BY <2>1, OneCall DEF MarketInv
  <2>3. PICK ps \in Payouts : ps = c.payouts /\ ps # <<>> /\ Len(ps) <= 2
    BY <2>2 DEF Frames, Payouts, Payment, CallOK
  <2>4. PICK pay \in Payment : pay = Head(ps)
    BY <2>3, PayHead
  <2>5. Due(ps) = pay.amount + Due(Tail(ps)) /\ Due(Tail(ps)) \in Nat /\ pay.amount \in Nat
    BY <2>3, <2>4, PayHead DEF Payment
  <2>6. balance = Escrowed(bids) + Due(ps) /\ Escrowed(bids) \in Nat
    BY <2>2, <2>3, EscrowIsNat DEF CallOK, MarketInv, TypeOK
  <2> QED
    BY <2>2, <2>3, <2>4, <2>5, <2>6
<1> QED
  BY <1>1, AlwaysMarketInv, PTL

(* Only buy pushes a frame of that name. *)
LEMMA NewSaleIsBuy ==
    ASSUME MarketInv, [Next]_vars, Len(stack') > Len(stack), Last(stack').op = "buy"
    PROVE  \E a \in Accounts, t \in Tokens, v \in Amounts : Buy(a, t, v)
<1>1. PICK n : n = Len(stack)
  OBVIOUS
<1>2. n \in Nat
  BY <1>1 DEF MarketInv, TypeOK
<1>3. stack' # stack
  BY <1>1, <1>2
<1>4. ~ PayNext
  <2>1. ASSUME NEW c, NEW d, stack = <<c>>, stack' = <<d>> PROVE FALSE
    <3>1. Len(<<c>>) = 1 /\ Len(<<d>>) = 1
      OBVIOUS
    <3>2. Len(stack') = Len(stack)
      BY <2>1, <3>1
    <3> QED
      BY <1>1, <1>2, <3>2
  <2> QED
    BY <2>1, PayKeepsInv
<1>5. stack' # <<>>
  <2>1. ASSUME stack' = <<>> PROVE FALSE
    <3>1. Len(stack') = 0
      BY <2>1
    <3> QED
      BY <1>1, <1>2, <3>1
  <2> QED
    BY <2>1
<1>6. ~ Finish /\ ~ Revert
  BY <1>5, FinishKeepsInv, RevertKeepsInv
<1>7. ASSUME NEW op, NEW sender, NEW t, NEW seller, NEW gross, NEW callee, NEW ps,
             stack = <<>>, Call(op, sender, t, seller, gross, callee, ps)
      PROVE  op = "buy"
  <2>1. PICK c : c = [op |-> op, sender |-> sender, token |-> t, seller |-> seller,
                      gross |-> gross, callee |-> callee, payouts |-> ps, saved |-> Snapshot]
    OBVIOUS
  <2>2. stack' = <<c>>
    BY <1>7, <2>1, OneCall DEF Call
  <2>3. c.op = op
    BY <2>1
  <2> QED
    BY <2>2, <2>3, OneCall
<1>8. ASSUME NEW a, NEW t, NEW v, EnterBid(a, t, v) \/ AcceptBid(a, t, v) \/ WithdrawBid(a, t)
      PROVE  FALSE
  <2>1. CASE EnterBid(a, t, v)
    BY <1>7, <2>1 DEF EnterBid, NotEntered
  <2>2. CASE AcceptBid(a, t, v)
    BY <1>7, <2>2 DEF AcceptBid, NotEntered
  <2>3. CASE WithdrawBid(a, t)
    BY <1>7, <2>3 DEF WithdrawBid, MayWithdraw, NotEntered
  <2> QED
    BY <1>8, <2>1, <2>2, <2>3
<1>9. /\ ~ UNCHANGED vars
      /\ \A a, t, p, to : ~ OfferForSale(a, t, p, to) /\ ~ Transfer(a, t, to)
      /\ \A a, t, value : ~ CancelOffer(a, t) /\ ~ Approve(a, t, value)
      /\ \A a, value : ~ SetPaused(a, value) /\ ~ SetApprovalForAll(a, value)
  BY <1>3 DEF vars, OfferForSale, Transfer, CancelOffer, Approve, SetPaused, SetApprovalForAll
<1> QED
  BY <1>4, <1>6, <1>8, <1>9 DEF Next

(* Every purchase is within an ask its own seller made and never withdrew,  *)
(* whoever transfers, calls back or offers in between.                      *)
SaleAsked ==
    Len(stack') > Len(stack) /\ Last(stack').op = "buy" =>
      LET call == Last(stack')
          ask == asks[call.token][call.seller]
      IN  /\ tokenOwner[call.token] = call.seller
          /\ ask # NoAsk
          /\ ask.minPrice <= call.gross
          /\ ask.onlySellTo \in {Nobody, call.sender}

LEMMA NextSaleAsked == MarketInv /\ [Next]_vars => SaleAsked
<1> SUFFICES ASSUME MarketInv, [Next]_vars, Len(stack') > Len(stack), Last(stack').op = "buy"
             PROVE  SaleAsked
  BY DEF SaleAsked
<1>1. PICK a \in Accounts, t \in Tokens, v \in Amounts : Buy(a, t, v)
  BY NewSaleIsBuy
<1>2. stack = <<>> /\ StorageOK
  BY <1>1, InvStorage DEF Buy, NotEntered
<1>3. PICK seller : seller = tokenOwner[t]
  OBVIOUS
<1>4. PICK call : call = [op |-> "buy", sender |-> a, token |-> t, seller |-> seller, gross |-> v,
                          callee |-> a, payouts |-> SaleProceeds(seller, v), saved |-> Snapshot]
  OBVIOUS
<1>5. Last(stack') = call
  <2>1. stack' = <<call>>
    BY <1>1, <1>2, <1>3, <1>4, OneCall DEF Buy, Call
  <2> QED
    BY <2>1, OneCall
<1>6. call.token = t /\ call.seller = seller /\ call.gross = v /\ call.sender = a
  BY <1>4
<1>7. PICK offer \in Offers : offer = offers[t]
  BY <1>2 DEF StorageOK
<1>8. /\ offer # NoOffer /\ offer.seller = seller
      /\ offer.onlySellTo \in {Nobody, a} /\ v >= offer.minPrice
  BY <1>1, <1>3, <1>7 DEF Buy, OfferStands, Invited
<1>9. offer.minPrice \in Nat
  <2>1. Asks \cup {0} \subseteq Nat
    BY MarketAssumption
  <2> QED
    BY <2>1 DEF Offers
<1>10. asks[t][seller] = [minPrice |-> offer.minPrice, onlySellTo |-> offer.onlySellTo]
  BY <1>2, <1>7, <1>8 DEF StorageOK, OffersAsked
<1>11. PICK ask : ask = asks[t][seller]
  OBVIOUS
<1>12. ask.minPrice = offer.minPrice /\ ask.onlySellTo = offer.onlySellTo
  BY <1>10, <1>11
<1>13. ask # NoAsk
  <2>1. NoAsk.minPrice = -1
    BY DEF NoAsk
  <2> QED
    BY <1>9, <1>12, <2>1
<1>14. v \in Nat /\ ask.minPrice <= v
  BY <1>8, <1>9, <1>12, MarketAssumption
<1> QED
  BY <1>3, <1>5, <1>6, <1>8, <1>11, <1>12, <1>13, <1>14 DEF SaleAsked

THEOREM SalesAsked == Spec => SoldAsAsked
<1>1. MarketInv /\ [Next]_vars => [SaleAsked]_vars
  BY NextSaleAsked
<1> QED
  BY <1>1, AlwaysMarketInv, PTL DEF Spec, SoldAsAsked, SaleAsked

-----------------------------------------------------------------------------
(* The refinement of EscrowLedger. *)

(* A call that ends without a revert is one move of the ledger. *)
LEMMA FinishIsLedgerStep == ASSUME MarketInv, Finish PROVE Ledger!LedgerNext
<1>1. /\ stack' = <<>> /\ bids' = bids /\ funds' = funds
      /\ \E c \in Frames : stack = <<c>> /\ MovesLedger(c, bids, funds)
  BY FinishKeepsInv
<1>2. PICK c \in Frames : stack = <<c>> /\ MovesLedger(c, bids, funds)
  BY <1>1
<1>3. /\ CommittedBids = c.saved.bids /\ CommittedFunds = c.saved.funds
      /\ CommittedBids' = bids /\ CommittedFunds' = funds
  BY <1>1, <1>2, OneCall DEF CommittedBids, CommittedFunds
<1>4. PICK old, was, a, t : old = c.saved.bids /\ was = c.saved.funds /\ a = c.sender /\ t = c.token
  OBVIOUS
<1>5. a \in Accounts /\ t \in Tokens
  BY <1>4 DEF Frames
<1>6. old \in [Tokens -> Bids] /\ BidsHaveBidders(old)
  <2>1. c.saved \in Snapshots
    BY DEF Frames
  <2>2. BidsHaveBidders(c.saved.bids)
    BY <1>2, OneCall DEF MarketInv
  <2> QED
    BY <1>4, <2>1, <2>2 DEF Snapshots
<1>7. CASE c.op = "buy"
  <2>1. /\ bids = old /\ c.seller \in Accounts /\ c.gross \in Amounts
        /\ funds = Ledger!PaySeller(Ledger!Move(was, a, -c.gross), c.seller, c.gross)
    BY <1>2, <1>4, <1>7 DEF MovesLedger
  <2>2. Ledger!SellToBuyer(c.seller, a, c.gross)
    BY <1>3, <1>4, <2>1 DEF Ledger!SellToBuyer
  <2> QED
    BY <1>5, <2>1, <2>2 DEF Ledger!LedgerNext
<1>8. CASE c.op = "enterBid"
  <2>1. /\ c.gross \in Amounts /\ c.gross > old[t].amount
        /\ bids = [old EXCEPT ![t] = [bidder |-> a, amount |-> c.gross]]
        /\ funds = Ledger!Move(IF old[t] = NoBid THEN was
                               ELSE Ledger!Move(was, old[t].bidder, old[t].amount), a, -c.gross)
    BY <1>2, <1>4, <1>8 DEF MovesLedger
  <2>2. Ledger!PlaceBid(a, t, c.gross)
    BY <1>3, <1>4, <2>1 DEF Ledger!PlaceBid
  <2> QED
    BY <1>5, <2>1, <2>2 DEF Ledger!LedgerNext
<1>9. CASE c.op = "withdrawBid"
  <2>1. /\ old[t] # NoBid /\ bids = [old EXCEPT ![t] = NoBid]
        /\ funds = Ledger!Move(was, old[t].bidder, old[t].amount)
    BY <1>2, <1>4, <1>9 DEF MovesLedger
  <2>2. Ledger!Withdraw(t)
    BY <1>3, <1>4, <2>1 DEF Ledger!Withdraw
  <2> QED
    BY <1>5, <2>2 DEF Ledger!LedgerNext
<1>10. CASE c.op = "acceptBid"
  <2>1. /\ old[t] # NoBid /\ bids = [old EXCEPT ![t] = NoBid]
        /\ c.seller \in Accounts /\ c.seller # old[t].bidder
        /\ funds = Ledger!PaySeller(was, c.seller, old[t].amount)
    BY <1>2, <1>4, <1>10 DEF MovesLedger
  <2>2. Ledger!SellToBidder(c.seller, t)
    BY <1>3, <1>4, <2>1 DEF Ledger!SellToBidder
  <2> QED
    BY <1>5, <2>1, <2>2 DEF Ledger!LedgerNext
<1> QED
  BY <1>2, <1>7, <1>8, <1>9, <1>10 DEF MovesLedger

(* A call that begins has committed nothing yet. *)
LEMMA BeginIsStutter ==
    ASSUME stack = <<>>, NEW op, NEW sender, NEW t, NEW seller, NEW gross, NEW callee, NEW ps,
           Call(op, sender, t, seller, gross, callee, ps)
    PROVE  UNCHANGED <<CommittedFunds, CommittedBids>>
<1>1. PICK c : c = [op |-> op, sender |-> sender, token |-> t, seller |-> seller,
                    gross |-> gross, callee |-> callee, payouts |-> ps, saved |-> Snapshot]
  OBVIOUS
<1>2. stack' = <<c>> /\ c.saved = Snapshot
  BY <1>1, OneCall DEF Call
<1>3. stack' # <<>> /\ stack'[1].saved.funds = funds /\ stack'[1].saved.bids = bids
  BY <1>2, OneCall DEF Snapshot
<1> QED
  BY <1>3 DEF CommittedFunds, CommittedBids

LEMMA NextLedger ==
    ASSUME MarketInv, [Next]_vars
    PROVE  [Ledger!LedgerNext]_(Ledger!ledgerVars)
<1>1. SUFFICES ASSUME ~ Finish PROVE UNCHANGED <<CommittedFunds, CommittedBids>>
  BY FinishIsLedgerStep DEF Ledger!ledgerVars
<1>2. ASSUME UNCHANGED <<funds, bids, stack>>
      PROVE  UNCHANGED <<CommittedFunds, CommittedBids>>
  BY <1>2 DEF CommittedFunds, CommittedBids
<1>3. CASE UNCHANGED vars
  BY <1>2, <1>3 DEF vars
<1>4. ASSUME NEW a \in Accounts, NEW t \in Tokens,
             \/ \E p \in Asks, to \in Invitees : OfferForSale(a, t, p, to)
             \/ CancelOffer(a, t)
             \/ \E to \in Actors : Transfer(a, t, to)
             \/ \E value \in BOOLEAN : Approve(a, t, value)
      PROVE  UNCHANGED <<CommittedFunds, CommittedBids>>
  BY <1>2, <1>4 DEF OfferForSale, CancelOffer, Transfer, Approve
<1>5. ASSUME NEW a \in Accounts, NEW value \in BOOLEAN,
             SetPaused(a, value) \/ SetApprovalForAll(a, value)
      PROVE  UNCHANGED <<CommittedFunds, CommittedBids>>
  BY <1>2, <1>5 DEF SetPaused, SetApprovalForAll
<1>6. ASSUME NEW a \in Accounts, NEW t \in Tokens, NEW v \in Amounts, Buy(a, t, v)
      PROVE  UNCHANGED <<CommittedFunds, CommittedBids>>
  BY <1>6, BeginIsStutter DEF Buy, NotEntered
<1>7. ASSUME NEW a \in Accounts, NEW t \in Tokens, NEW v \in Amounts, EnterBid(a, t, v)
      PROVE  UNCHANGED <<CommittedFunds, CommittedBids>>
  BY <1>7, BeginIsStutter DEF EnterBid, NotEntered
<1>8. ASSUME NEW a \in Accounts, NEW t \in Tokens, NEW v \in Amounts, AcceptBid(a, t, v)
      PROVE  UNCHANGED <<CommittedFunds, CommittedBids>>
  BY <1>8, BeginIsStutter DEF AcceptBid, NotEntered
<1>9. ASSUME NEW a \in Accounts, NEW t \in Tokens, WithdrawBid(a, t)
      PROVE  UNCHANGED <<CommittedFunds, CommittedBids>>
  BY <1>9, BeginIsStutter DEF WithdrawBid, MayWithdraw, NotEntered
<1>10. CASE PayNext
  <2>1. PICK c, d : stack = <<c>> /\ stack' = <<d>> /\ d.saved = c.saved
    BY <1>10, PayKeepsInv
  <2> QED
    BY <2>1, OneCall DEF CommittedFunds, CommittedBids
<1>11. CASE Revert
  <2>1. PICK c \in Frames : /\ stack = <<c>> /\ stack' = <<>>
                            /\ bids' = c.saved.bids /\ funds' = c.saved.funds
    BY <1>11, RevertKeepsInv
  <2> QED
    BY <2>1, OneCall DEF CommittedFunds, CommittedBids
<1> QED
  BY <1>1, <1>3, <1>4, <1>5, <1>6, <1>7, <1>8, <1>9, <1>10, <1>11 DEF Next

(* What is seen between transactions moves as EscrowLedger says: a call     *)
(* moves money all at once or not at all, and its royalty is exact.         *)
THEOREM MarketImplementsLedger == Spec => ImplementsLedger
<1>1. MarketInv /\ [Next]_vars => [Ledger!LedgerNext]_(Ledger!ledgerVars)
  BY NextLedger
<1> QED
  BY <1>1, AlwaysMarketInv, PTL DEF Spec, ImplementsLedger, Ledger!LedgerSpec
=============================================================================
