--------------------------- MODULE ScannerProofs ----------------------------
(***************************************************************************)
(* Proofs about the operators of Curves and Simulation and about Scanner.  *)
(*                                                                         *)
(*  - constant-product pools and the simulator's round trip, for all       *)
(*    reserves, fees, sizes and prices;                                    *)
(*  - types, and what the pipeline holds (TypeCorrect);                    *)
(*  - moves and what is remembered of them (LaggersAreStill);              *)
(*  - what candidates are of (NoneAcrossChains);                           *)
(*  - passes over a pair while it changes (SpreadsAreTold);                *)
(*  - the legs of a round trip through pools of any curves, and what is    *)
(*    ranked (RankedIsCheaper).                                            *)
(***************************************************************************)
EXTENDS Scanner, FiniteSetTheorems, WellFoundedInduction, TLAPS

Fees == 0..Bps
Positive == Nat \ {0}

\* A quotient is the integer below the fraction.
LEMMA Quotient ==
  ASSUME NEW a \in Nat, NEW b \in Positive
  PROVE  /\ a \div b \in Nat
         /\ (a \div b) * b <= a
  BY SMT DEF Positive

\* Products of naturals are naturals.
LEMMA Product ==
  ASSUME NEW a \in Nat, NEW b \in Nat
  PROVE  a * b \in Nat
  BY SMT

\* A product with a positive factor is ordered by the other factor.
LEMMA Cancel ==
  ASSUME NEW a \in Int, NEW b \in Int, NEW c \in Positive, a * c <= b * c
  PROVE  a <= b
  BY SMT DEF Positive

\* So it is with a factor that is not negative, the other way round.
LEMMA Scale ==
  ASSUME NEW a \in Int, NEW b \in Int, NEW c \in Nat, a <= b
  PROVE  a * c <= b * c
  BY SMT

\* The output of v2_amount_out, before it is rounded, is what it is said to
\* be: out (rIn Bps + w) <= w rOut for the input w less the fee.
LEMMA Output ==
  ASSUME NEW in \in Positive, NEW rIn \in Positive, NEW rOut \in Positive, NEW fee \in Fees
  PROVE  LET out == v2_amount_out(in, rIn, rOut, fee)
             w == in * (Bps - fee)
         IN /\ out \in Nat /\ w \in Nat /\ w <= in * Bps
            /\ out * (rIn * Bps + w) <= w * rOut
<1> DEFINE w == in * (Bps - fee)
           den == rIn * Bps + w
           out == v2_amount_out(in, rIn, rOut, fee)
<1>1. Bps - fee \in Nat /\ Bps - fee <= Bps /\ Bps \in Positive
  BY SMT DEF Fees, Bps, Positive
<1>2. w \in Nat
  BY <1>1, Product DEF Positive
<1>3. w <= in * Bps
  <2>1. (Bps - fee) * in <= Bps * in
    BY <1>1, Scale DEF Positive
  <2> QED
    BY <2>1, <1>1, SMT DEF Positive
<1>4. den \in Positive
  <2>1. rIn * Bps \in Positive
    BY SMT DEF Positive, Bps
  <2> QED
    BY <2>1, <1>2, SMT DEF Positive
<1>5. w * rOut \in Nat
  BY <1>2, Product DEF Positive
<1>6. out = (w * rOut) \div den
  BY SMT DEF v2_amount_out, Positive
<1> QED
  BY <1>2, <1>3, <1>4, <1>5, <1>6, Quotient

\* The pool's product of reserves never falls: what leaves is paid for
\* (curves.py:24-27, with the division rounded down in the pool's favour).
THEOREM ProductKept ==
  ASSUME NEW in \in Positive, NEW rIn \in Positive, NEW rOut \in Positive, NEW fee \in Fees
  PROVE  LET out == v2_amount_out(in, rIn, rOut, fee)
         IN out * rIn <= in * (rOut - out)
<1> DEFINE w == in * (Bps - fee)
           out == v2_amount_out(in, rIn, rOut, fee)
<1>1. /\ out \in Nat /\ w \in Nat /\ w <= in * Bps
      /\ out * (rIn * Bps + w) <= w * rOut
  BY Output
<1> HIDE DEF w, out
<1>2. out * rIn * Bps <= w * (rOut - out)
  BY <1>1, SMT DEF Bps, Positive
<1>3. 0 <= rOut - out
  <2> SUFFICES ASSUME out > rOut PROVE FALSE
    BY <1>1, SMT DEF Positive
  <2>1. w * (rOut - out) <= 0
    <3>1. (rOut - out) * w <= 0 * w
      BY <1>1, Scale, SMT DEF Positive
    <3> QED
      BY <3>1, <1>1, SMT DEF Positive
  <2>2. out * rIn * Bps \in Positive
    BY <1>1, SMT DEF Bps, Positive
  <2> QED
    BY <2>1, <2>2, <1>1, <1>2, SMT DEF Positive
<1>4. w * (rOut - out) <= (in * Bps) * (rOut - out)
  BY <1>1, <1>3, Scale, SMT DEF Bps, Positive
<1>5. (out * rIn) * Bps <= (in * (rOut - out)) * Bps
  BY <1>1, <1>2, <1>4, SMT DEF Bps, Positive
<1>6. out * rIn <= in * (rOut - out)
  BY <1>1, <1>5, SMT DEF Bps, Positive
<1> QED
  BY <1>6 DEF out

\* No swap empties a pool (curves.py:27).
THEOREM BelowReserve ==
  ASSUME NEW in \in Positive, NEW rIn \in Positive, NEW rOut \in Positive, NEW fee \in Fees
  PROVE  v2_amount_out(in, rIn, rOut, fee) \in 0..(rOut - 1)
<1> DEFINE out == v2_amount_out(in, rIn, rOut, fee)
<1>1. out \in Nat /\ out * rIn <= in * (rOut - out)
  BY Output, ProductKept
<1> HIDE DEF out
<1> SUFFICES ASSUME rOut <= out PROVE FALSE
  BY <1>1, SMT DEF out, Positive
<1>2. (rOut - out) * in <= 0 * in
  BY <1>1, Scale, SMT DEF Positive
<1>3. out * rIn \in Positive
  BY <1>1, SMT DEF Positive
<1> QED
  BY <1>1, <1>2, <1>3, SMT DEF Positive

\* A swap yields no more than the spot price gives (curves.py:30-41, whose
\* impact is therefore never clipped at zero but for rounding).
THEOREM NoBetterThanSpot ==
  ASSUME NEW in \in Positive, NEW rIn \in Positive, NEW rOut \in Positive, NEW fee \in Fees
  PROVE  v2_amount_out(in, rIn, rOut, fee) * rIn <= in * rOut
<1> DEFINE out == v2_amount_out(in, rIn, rOut, fee)
<1>1. out \in Nat /\ out * rIn <= in * (rOut - out)
  BY Output, ProductKept
<1> HIDE DEF out
<1>2. in * out \in Nat
  BY <1>1, Product DEF Positive
<1>3. out * rIn <= in * rOut
  BY <1>1, <1>2, SMT DEF Positive
<1> QED
  BY <1>3 DEF out

\* A quote spent on base tokens in one pool and got back for them in another
\* is not increased unless the base token is dearer there: the simulator finds
\* no gain where there is no spread, and none on the way there and back through
\* one pool (simulator.py:147-161).
THEOREM NoProfitWithoutSpread ==
  ASSUME NEW q \in Positive,
         NEW b0 \in Positive, NEW b1 \in Positive, NEW bFee \in Fees,
         NEW s0 \in Positive, NEW s1 \in Positive, NEW sFee \in Fees,
         s1 * b0 <= b1 * s0
  PROVE  v2_amount_out(v2_amount_out(q, b1, b0, bFee), s0, s1, sFee) \in 0..q
<1> DEFINE base == v2_amount_out(q, b1, b0, bFee)
           back == v2_amount_out(base, s0, s1, sFee)
<1>1. base \in Nat /\ base * b1 <= q * b0
  BY Output, NoBetterThanSpot
<1>2. CASE base = 0
  <2>1. back = 0
    BY <1>2, SMT DEF v2_amount_out
  <2> QED
    BY <2>1, SMT DEF Positive
<1>3. CASE base # 0
  <2>1. base \in Positive
    BY <1>1, <1>3, SMT DEF Positive
  <2>2. back \in Nat /\ back * s0 <= base * s1
    BY <2>1, Output, NoBetterThanSpot
  <2> HIDE DEF base, back
  <2>3. (back * s0) * b1 <= (base * s1) * b1
    BY <2>1, <2>2, Scale, SMT DEF Positive
  <2>4. (base * b1) * s1 <= (q * b0) * s1
    BY <1>1, <2>1, Scale, SMT DEF Positive
  <2>5. (s1 * b0) * q <= (b1 * s0) * q
    BY Scale, SMT DEF Positive
  <2>6. s0 * b1 \in Positive
    BY SMT DEF Positive
  <2>7. back * (s0 * b1) <= q * (s0 * b1)
    BY <2>1, <2>2, <2>3, <2>4, <2>5, SMT DEF Positive
  <2>8. back <= q
    BY <2>2, <2>6, <2>7, Cancel DEF Positive
  <2>9. back \in 0..q
    BY <2>2, <2>8, SMT DEF Positive
  <2> QED
    BY <2>9 DEF back, base
<1> QED
  BY <1>2, <1>3
-----------------------------------------------------------------------------
\* A pool of reserves, none of them drained.
Reserved(pool) ==
  /\ pool.curve = "v2"
  /\ pool.r0 \in Positive /\ pool.r1 \in Positive
  /\ pool.fee \in Fees /\ pool.unit1 \in Positive

\* The base token is no dearer in the pool to sell in than in the one to buy
\* in, whatever the order in which the former has the tokens.
NoSpread(from, into) ==
  IF SellLeg(from, into) THEN into.r1 * from.r0 <= from.r1 * into.r0
  ELSE into.r0 * from.r0 <= from.r1 * into.r1

Back(from, into, in) == Swap(into, Swap(from, in, FALSE), SellLeg(from, into))

\* The two legs of a round trip return no more than went in.
LEMMA RoundTrip ==
  ASSUME NEW from, NEW into, NEW in \in Positive,
         Reserved(from), Reserved(into), NoSpread(from, into)
  PROVE  Back(from, into, in) \in 0..in
<1>1. Swap(from, in, FALSE) = v2_amount_out(in, from.r1, from.r0, from.fee)
  BY DEF Swap, Reserved
<1>2. /\ from.r0 \in Positive /\ from.r1 \in Positive /\ from.fee \in Fees
      /\ into.r0 \in Positive /\ into.r1 \in Positive /\ into.fee \in Fees
  BY DEF Reserved
<1>3. CASE SellLeg(from, into)
  <2>1. Back(from, into, in)
          = v2_amount_out(v2_amount_out(in, from.r1, from.r0, from.fee), into.r0, into.r1, into.fee)
    BY <1>1, <1>3 DEF Back, Swap, Reserved
  <2>2. into.r1 * from.r0 <= from.r1 * into.r0
    BY <1>3 DEF NoSpread
  <2>3. v2_amount_out(v2_amount_out(in, from.r1, from.r0, from.fee), into.r0, into.r1, into.fee) \in 0..in
    BY <1>2, <2>2, NoProfitWithoutSpread, Zenon
  <2> QED
    BY <2>1, <2>3
<1>4. CASE ~SellLeg(from, into)
  <2>1. Back(from, into, in)
          = v2_amount_out(v2_amount_out(in, from.r1, from.r0, from.fee), into.r1, into.r0, into.fee)
    BY <1>1, <1>4 DEF Back, Swap, Reserved
  <2>2. into.r0 * from.r0 <= from.r1 * into.r1
    BY <1>4 DEF NoSpread
  <2>3. v2_amount_out(v2_amount_out(in, from.r1, from.r0, from.fee), into.r1, into.r0, into.fee) \in 0..in
    BY <1>2, <2>2, NoProfitWithoutSpread, Zenon
  <2> QED
    BY <2>1, <2>3
<1> QED
  BY <1>3, <1>4

\* Where the base token is no dearer to sell than to buy, no size nets more
\* than nothing (simulator.py:163-208): gas and fees only take away, so that
\* whatever the scanners made of the prices the pipeline ranks no such pair.
THEOREM NoSpreadNotFeasible ==
  ASSUME NEW from, NEW into, NEW notional \in Nat, NEW worth \in Nat,
         Reserved(from), Reserved(into), NoSpread(from, into),
         from.chain = into.chain, Gas[from.chain] \in Nat
  PROVE  ~Simulate(from, into, notional, worth).feasible
<1> DEFINE quoteIn == IF worth <= 0 THEN 0 ELSE (notional * from.unit1 * PScale) \div worth
           gross == ((Back(from, into, quoteIn) - quoteIn) * worth) \div (from.unit1 * PScale)
           net == gross - Gas[from.chain] - Gas[into.chain] - 0
<1> PScale \in Positive
  BY CurvesAssumption DEF Positive
<1>1. CASE \/ ~Matches(from, into)
           \/ quoteIn <= 0 \/ Swap(from, quoteIn, FALSE) <= 0
           \/ Back(from, into, quoteIn) <= 0
  <2>1. Simulate(from, into, notional, worth) = Infeasible(notional)
    BY <1>1 DEF Simulate, Back
  <2> QED
    BY <2>1 DEF Infeasible
<1>2. CASE ~(\/ ~Matches(from, into)
             \/ quoteIn <= 0 \/ Swap(from, quoteIn, FALSE) <= 0
             \/ Back(from, into, quoteIn) <= 0)
  <2>1. Simulate(from, into, notional, worth).feasible = (net > 0)
    BY <1>2 DEF Simulate, Back
  <2>2. quoteIn \in Positive
    <3>1. notional * from.unit1 \in Nat
      BY Product DEF Reserved, Positive
    <3>2. notional * from.unit1 * PScale \in Nat
      BY <3>1, Product DEF Positive
    <3>3. CASE worth <= 0
      BY <1>2, <3>3, SMT
    <3>4. CASE ~(worth <= 0)
      <4>1. worth \in Positive
        BY <3>4, SMT DEF Positive
      <4>2. (notional * from.unit1 * PScale) \div worth \in Nat
        BY <3>2, <4>1, Quotient
      <4>3. quoteIn = (notional * from.unit1 * PScale) \div worth
        BY <3>4, Zenon
      <4>4. ~(quoteIn <= 0)
        BY <1>2
      <4> HIDE DEF quoteIn
      <4> QED
        BY <4>2, <4>3, <4>4, SMT DEF Positive
    <3> QED
      BY <3>3, <3>4
  <2>3. Back(from, into, quoteIn) \in 0..quoteIn
    BY <2>2, RoundTrip
  <2> DEFINE back == Back(from, into, quoteIn)
             one == from.unit1 * PScale
  <2>4. one \in Positive
    BY SMT DEF Positive, Reserved
  <2>5. Gas[into.chain] = Gas[from.chain]
    OBVIOUS
  <2>6. net = ((back - quoteIn) * worth) \div one - Gas[from.chain] - Gas[from.chain] - 0
    BY <2>5, Zenon
  <2> HIDE DEF quoteIn, back, one, net
  <2>7. (back - quoteIn) * worth <= 0
    <3>1. (back - quoteIn) * worth <= 0 * worth
      BY <2>2, <2>3, Scale, SMT DEF back, Positive
    <3> QED
      BY <3>1, SMT
  <2>8. ((back - quoteIn) * worth) \div one <= 0
    BY <2>2, <2>3, <2>4, <2>7, SMT DEF back, Positive
  <2>9. ((back - quoteIn) * worth) \div one \in Int
    BY <2>2, <2>3, <2>4, SMT DEF back, Positive
  <2>10. ~(net > 0)
    BY <2>6, <2>8, <2>9, SMT
  <2> QED
    BY <2>1, <2>10
<1> QED
  BY <1>1, <1>2
-----------------------------------------------------------------------------
\* A snapshot of a pool says what does not change of it.
LEMMA StateIs ==
  ASSUME NEW p, NEW s
  PROVE  \A f \in Fields : State(p, s)[f] = Attr[p][f]
BY DEF State

\* So for the fields by name.
LEMMA StateOf ==
  ASSUME NEW p \in Pools, NEW s
  PROVE  /\ State(p, s).pool = p /\ State(p, s).chain = Attr[p].chain
         /\ State(p, s).token0 = Attr[p].token0 /\ State(p, s).token1 = Attr[p].token1
         /\ State(p, s).dex = Attr[p].dex /\ State(p, s).curve = Attr[p].curve
BY StateIs, ScannerAssumption DEF ScannerAssumption, Fields, State

\* A set of numbers has a least one.
LEMMA LeastOf ==
  ASSUME NEW B \in SUBSET Nat, B # {}
  PROVE  \E m \in B : \A n \in B : m <= n
<1>1. IsWellFoundedOn({ss \in Nat \X Nat : ss[1] < ss[2]}, Nat)
  BY NatLessThanWellFounded DEF OpToRel
<1>2. PICK m \in B : \A n \in B : <<n, m>> \notin {ss \in Nat \X Nat : ss[1] < ss[2]}
  BY <1>1, WFMin
<1>3. ASSUME NEW n \in B PROVE m <= n
  <2>1. m \in Nat /\ n \in Nat
    OBVIOUS
  <2>2. ~(n < m)
    BY <1>2, <2>1
  <2> QED
    BY <2>1, <2>2
<1> QED
  BY <1>3

\* The least of a set of numbers is of it.
LEMMA MinIs ==
  ASSUME NEW B \in SUBSET Nat, B # {}
  PROVE  Min(B) \in B /\ \A n \in B : Min(B) <= n
<1>1. \E m \in B : \A n \in B : m <= n
  BY LeastOf
<1> QED
  BY <1>1 DEF Min

\* Ages stop after the window.
LEMMA OlderIs ==
  ASSUME NEW n \in 0..Old
  PROVE  Older(n) \in 0..Old /\ Older(n) = IF n = Old THEN Old ELSE n + 1
<1>1. Old \in Nat
  BY ScannerAssumption DEF ScannerAssumption, Old
<1>2. {n + 1, Old} \in SUBSET Nat /\ {n + 1, Old} # {}
  BY <1>1
<1>3. Min({n + 1, Old}) \in {n + 1, Old} /\ \A x \in {n + 1, Old} : Min({n + 1, Old}) <= x
  BY <1>2, MinIs
<1> QED
  BY <1>1, <1>3 DEF Older

\* The deque loses none of the moves within the window.
LEMMA TrimIs ==
  ASSUME NEW S, NEW w \in Seq(S), \A i \in DOMAIN w : w[i].age \in Nat
  PROVE  /\ Trim(w) \in Seq(S)
         /\ \A i \in DOMAIN w :
              w[i].age <= Window => \E j \in DOMAIN Trim(w) : Trim(w)[j] = w[i]
<1> DEFINE young == {i \in DOMAIN w : w[i].age <= Window}
<1>1. CASE young = {}
  BY <1>1 DEF Trim
<1>2. CASE young # {}
  <2> DEFINE m == Min(young)
  <2>0. young \in SUBSET Nat
    OBVIOUS
  <2>1. m \in young /\ \A i \in young : m <= i
    <3> HIDE DEF young
    <3> QED
      BY <1>2, <2>0, MinIs
  <2>2. Trim(w) = SubSeq(w, m, Len(w))
    BY <1>2 DEF Trim
  <2>3. m \in 1..Len(w)
    BY <2>1
  <2> HIDE DEF m
  <2>4. /\ SubSeq(w, m, Len(w)) \in Seq(S)
        /\ DOMAIN SubSeq(w, m, Len(w)) = 1..(Len(w) - m + 1)
        /\ \A i \in 1..(Len(w) - m + 1) : SubSeq(w, m, Len(w))[i] = w[i + m - 1]
    BY <2>3
  <2>5. ASSUME NEW i \in young
        PROVE  \E j \in DOMAIN Trim(w) : Trim(w)[j] = w[i]
    <3>1. i \in 1..Len(w) /\ m <= i /\ Len(w) \in Nat
      BY <2>1
    <3>2. i - m + 1 \in 1..(Len(w) - m + 1) /\ (i - m + 1) + m - 1 = i
      BY <2>3, <3>1
    <3> QED
      BY <2>2, <2>4, <3>2
  <2> QED
    BY <2>2, <2>4, <2>5
<1> QED
  BY <1>1, <1>2
-----------------------------------------------------------------------------
\* Quotients are ordered as the fractions are.
LEMMA DivMono ==
  ASSUME NEW x \in Nat, NEW y \in Nat, NEW c \in Positive, NEW d \in Positive, x * d <= y * c
  PROVE  x \div c \in Nat /\ y \div d \in Nat /\ x \div c <= y \div d
<1> DEFINE a == x \div c
           b == y \div d
<1>1. a \in Nat /\ a * c <= x /\ b \in Nat
  BY Quotient
<1>2. y < (b + 1) * d
  BY SMT DEF Positive
<1> HIDE DEF a, b
<1>3. (a * c) * d <= x * d
  BY <1>1, Scale, SMT DEF Positive
<1>4. (a * d) * c <= y * c
  BY <1>1, <1>3, SMT DEF Positive
<1>5. a * d <= y
  BY <1>1, <1>4, Cancel, SMT DEF Positive
<1>6. a * d < (b + 1) * d
  BY <1>1, <1>2, <1>5, SMT DEF Positive
<1>7. a <= b
  BY <1>1, <1>6, SMT DEF Positive
<1> QED
  BY <1>1, <1>7 DEF a, b

\* The spread of two prices is in basis points of the larger.
LEMMA SpreadType ==
  ASSUME NEW a \in Nat, NEW b \in Nat
  PROVE  SpreadBps(a, b) \in 0..Bps /\ (a = b => SpreadBps(a, b) = 0)
<1> DEFINE larger == IF a < b THEN b ELSE a
<1>1. CASE a <= 0 \/ b <= 0
  <2>1. SpreadBps(a, b) = 0 /\ 0 \in 0..Bps
    BY <1>1 DEF SpreadBps, Bps
  <2> QED
    BY <2>1
<1>2. CASE ~(a <= 0 \/ b <= 0)
  <2>1. larger \in Positive /\ Gap(a, b) \in Nat /\ Gap(a, b) <= larger /\ (a = b => Gap(a, b) = 0)
    BY <1>2, SMT DEF Gap, Positive
  <2>2. SpreadBps(a, b) = (Gap(a, b) * Bps) \div larger
    BY <1>2 DEF SpreadBps
  <2> HIDE DEF larger
  <2>3. Gap(a, b) * Bps \in Nat /\ (Gap(a, b) * Bps) * 1 <= Bps * larger /\ Bps \in Nat /\ 1 \in Positive
    BY <2>1, SMT DEF Bps, Positive
  <2>4. /\ (Gap(a, b) * Bps) \div larger \in Nat
        /\ (Gap(a, b) * Bps) \div larger <= Bps \div 1
    BY <2>1, <2>3, DivMono
  <2>5. a = b => (Gap(a, b) * Bps) \div larger = 0
    BY <2>1, SMT DEF Positive, Bps
  <2>6. Bps \div 1 = Bps /\ Bps \in Nat
    BY SMT DEF Bps
  <2>7. (Gap(a, b) * Bps) \div larger \in 0..Bps
    BY <2>4, <2>6
  <2> QED
    BY <2>2, <2>5, <2>7
<1> QED
  BY <1>1, <1>2

\* No two prices are further apart than the lowest and the highest.
LEMMA SpreadWidens ==
  ASSUME NEW a \in Positive, NEW b \in Positive, NEW lo \in Positive, NEW hi \in Positive,
         lo <= a, lo <= b, a <= hi, b <= hi
  PROVE  SpreadBps(a, b) <= SpreadBps(lo, hi)
<1>1. ASSUME NEW x \in Positive, NEW y \in Positive, x <= y, lo <= x, y <= hi
      PROVE  ((y - x) * Bps) \div y <= ((hi - lo) * Bps) \div hi
  <2>1. (y - x) * Bps \in Nat /\ (hi - lo) * Bps \in Nat
    BY <1>1, SMT DEF Positive, Bps
  <2>2. lo * y <= x * y
    BY <1>1, Scale, SMT DEF Positive
  <2>3. y * x <= hi * x
    BY <1>1, Scale, SMT DEF Positive
  <2>4. (y - x) * hi <= (hi - lo) * y
    BY <1>1, <2>2, <2>3, SMT DEF Positive
  <2>5. ((y - x) * hi) * Bps <= ((hi - lo) * y) * Bps
    BY <1>1, <2>4, Scale, SMT DEF Positive, Bps
  <2>6. ((y - x) * Bps) * hi <= ((hi - lo) * Bps) * y
    BY <1>1, <2>5, SMT DEF Positive, Bps
  <2> QED
    BY <2>1, <2>6, DivMono
<1>2. SpreadBps(lo, hi) = ((hi - lo) * Bps) \div hi
  BY SMT DEF SpreadBps, Gap, Positive
<1>3. CASE a < b
  <2>1. SpreadBps(a, b) = ((b - a) * Bps) \div b
    BY <1>3, SMT DEF SpreadBps, Gap, Positive
  <2> QED
    BY <1>1, <1>2, <1>3, <2>1, SMT DEF Positive
<1>4. CASE ~(a < b)
  <2>1. SpreadBps(a, b) = ((a - b) * Bps) \div a
    BY <1>4, SMT DEF SpreadBps, Gap, Positive
  <2> QED
    BY <1>1, <1>2, <1>4, <2>1, SMT DEF Positive
<1> QED
  BY <1>3, <1>4
-----------------------------------------------------------------------------
\* What the scanner's control point says of its job, and of what it and the
\* pipeline hold.
Held ==
  /\ job = "cross" => pc # "self" /\ news = <<>>
  /\ pc \in {"leader", "follow"} => job = "lag"
  /\ pc = "scan" /\ job = "fresh" =>
       /\ mine \in Snapshots /\ mine.pool = me.pool
       /\ \A q \in left : q # me.pool /\ Attr[q].chain = Attr[me.pool].chain
  /\ ppc = "sell" => buy = None \/ (buy \in Snapshots /\ buy.pool = cand.buy)
  /\ ppc \in {"price", "judge"} =>
       /\ buy \in Snapshots /\ buy.pool = cand.buy
       /\ sell \in Snapshots /\ sell.pool = cand.sell

\* The scenes' pools, and what the assumptions say of one.
LEMMA LiveIs ==
  ASSUME TypeOK
  PROVE  job \in ScannerJobs /\ live \subseteq Pools /\ IsFiniteSet(live)
BY ScannerAssumption DEF TypeOK, ScannerAssumption, Pools

\* Every snapshot has a price, and only a whirlpool's may be zero.
LEMMA PriceIs ==
  ASSUME NEW p \in Pools, NEW s \in Snaps[p]
  PROVE  /\ State(p, s) \in Snapshots
         /\ Price(State(p, s)) \in Nat
         /\ Attr[p].curve # "whirlpool" => Price(State(p, s)) \in Positive
BY ScannerAssumption DEF ScannerAssumption, Snapshots, Positive

\* A snapshot says of its pool what does not change of it.
LEMMA SnapshotIs ==
  ASSUME NEW x \in Snapshots
  PROVE  /\ x.pool \in Pools /\ x.chain = Attr[x.pool].chain /\ x.dex = Attr[x.pool].dex
         /\ x.token0 = Attr[x.pool].token0 /\ x.token1 = Attr[x.pool].token1
         /\ x.curve = Attr[x.pool].curve
         /\ Price(x) \in Nat
         /\ x.curve # "whirlpool" => Price(x) \in Positive
<1>1. PICK p \in Pools : \E s \in Snaps[p] : x = State(p, s)
  BY DEF Snapshots
<1>2. PICK s \in Snaps[p] : x = State(p, s)
  BY <1>1
<1> QED
  BY <1>2, PriceIs, StateOf

\* The numbers among the constants are numbers.
LEMMA Bounds ==
  /\ MinSpread \in Nat \ {0} /\ Window \in Nat /\ Old = Window + 1 /\ Old \in Nat
  /\ MaxMoves \in Nat /\ MaxTicks \in Nat /\ MaxCands \in Nat /\ MaxFaults \in Nat
BY ScannerAssumption DEF ScannerAssumption, Old

\* No event is None.
LEMMA NoneIs == None \notin Moves
BY ScannerAssumption, Bounds DEF ScannerAssumption, Moves

\* Of a finite set of things with a number each, one has the largest.
LEMMA LargestOf ==
  ASSUME NEW S, IsFiniteSet(S), S # {}, NEW At, \A p \in S : At[p] \in Nat
  PROVE  \E p \in S : \A q \in S : At[q] <= At[p]
<1> DEFINE Above(p) == {q \in S : At[p] < At[q]}
           R == {Cardinality(Above(p)) : p \in S}
<1>1. \A p \in S : Above(p) \in SUBSET S /\ IsFiniteSet(Above(p)) /\ Cardinality(Above(p)) \in Nat
  BY FS_Subset, FS_CardinalityType
<1>2. PICK m \in R : \A n \in R : m <= n
  <2>1. R \in SUBSET Nat /\ R # {}
    BY <1>1
  <2> HIDE DEF R
  <2> QED
    BY <2>1, LeastOf
<1>3. PICK p \in S : m = Cardinality(Above(p))
  OBVIOUS
<1>4. ASSUME NEW q \in S, ~(At[q] <= At[p]) PROVE FALSE
  <2>1. q \in Above(p) /\ q \notin Above(q) /\ Above(q) \subseteq Above(p)
    BY <1>4
  <2>2. PICK A, B : A = Above(p) /\ B = Above(q)
    OBVIOUS
  <2>3. IsFiniteSet(A) /\ B \in SUBSET A /\ B # A
    BY <1>1, <2>1, <2>2
  <2>4. Cardinality(B) <= Cardinality(A) /\ Cardinality(B) # Cardinality(A)
    BY <2>3, FS_Subset
  <2>5. Cardinality(B) \in Nat /\ Cardinality(A) \in Nat
    BY <1>1, <2>2
  <2>6. Cardinality(A) <= Cardinality(B)
    BY <1>2, <1>3, <2>2
  <2> QED
    BY <2>4, <2>5, <2>6
<1> QED
  BY <1>4

\* Of a finite set of things with a number each, one is the k-th.
LEMMA NthOf ==
  ASSUME NEW S, IsFiniteSet(S), NEW At, \A p \in S : At[p] \in Nat,
         NEW k \in 1..Cardinality(S)
  PROVE  \E p \in S : /\ Cardinality({q \in S : At[q] < At[p]}) < k
                      /\ k <= Cardinality({q \in S : At[q] <= At[p]})
<1> DEFINE Below(p) == {q \in S : At[q] < At[p]}
           UpTo(p) == {q \in S : At[q] <= At[p]}
           R == {At[p] : p \in {q \in S : k <= Cardinality(UpTo(q))}}
<1>1. Cardinality(S) \in Nat /\ k \in Nat /\ 1 <= k /\ k <= Cardinality(S)
  BY FS_CardinalityType
<1>2. S # {}
  BY <1>1, FS_EmptySet
<1>3. PICK m \in R : \A n \in R : m <= n
  <2>1. PICK p \in S : \A q \in S : At[q] <= At[p]
    BY <1>2, LargestOf
  <2>2. UpTo(p) = S
    BY <2>1
  <2>3. R \in SUBSET Nat /\ R # {}
    BY <1>1, <2>2
  <2> HIDE DEF R
  <2> QED
    BY <2>3, LeastOf
<1>4. PICK p \in S : m = At[p] /\ k <= Cardinality(UpTo(p))
  OBVIOUS
<1>5. ASSUME ~(Cardinality(Below(p)) < k) PROVE FALSE
  <2>1. PICK B : B = Below(p)
    OBVIOUS
  <2>2. B \in SUBSET S /\ IsFiniteSet(B) /\ Cardinality(B) \in Nat
    BY <2>1, FS_Subset, FS_CardinalityType
  <2>3. B # {}
    BY <1>1, <1>5, <2>1, <2>2, FS_EmptySet
  <2>4. PICK q \in B : \A r \in B : At[r] <= At[q]
    BY <2>2, <2>3, LargestOf
  <2>5. q \in S /\ At[q] < At[p] /\ At[q] \in Nat /\ At[p] \in Nat
    BY <2>1, <2>2, <2>4
  <2>6. PICK U : U = UpTo(q)
    OBVIOUS
  <2>7. B \in SUBSET U /\ U \in SUBSET S
    BY <2>1, <2>4, <2>6
  <2>8. IsFiniteSet(U) /\ Cardinality(U) \in Nat
    BY <2>7, FS_Subset, FS_CardinalityType
  <2>9. Cardinality(B) <= Cardinality(U)
    BY <2>7, <2>8, FS_Subset
  <2>10. k <= Cardinality(UpTo(q))
    BY <1>1, <1>5, <2>1, <2>2, <2>6, <2>8, <2>9
  <2>11. At[q] \in R
    BY <2>5, <2>10
  <2>12. m <= At[q]
    <3> HIDE DEF R
    <3> QED
      BY <1>3, <2>11
  <2> QED
    BY <1>4, <2>5, <2>12
<1> QED
  BY <1>4, <1>5

\* The price in dollars that is found for a pool's quote token is a natural
\* number, and not above all of those it may be found by.
LEMMA UsdType ==
  ASSUME TypeOK, NEW p \in Pools, NEW c
  PROVE  /\ usd_price(c, Attr[p].token1) \in Nat
         /\ \E u \in UsdPrices(p) : usd_price(c, Attr[p].token1) <= u
<1> DEFINE token == Attr[p].token1
           quoted == {q \in live : /\ Priced(q) /\ Attr[q].chain = c
                                   /\ Attr[q].token0 = token /\ Attr[q].token1 \in Stable}
<1>1. PScale \in Nat
  BY CurvesAssumption DEF CurvesAssumption
<1>2. token \notin Stable => ListedUsd[token] \in Nat
  BY ScannerAssumption DEF ScannerAssumption
<1>3. ASSUME quoted # {}, token \notin Stable
      PROVE  Median(quoted) \in Nat /\ \E u \in UsdPrices(p) : Median(quoted) <= u
  <2>1. PICK S : S = quoted
    OBVIOUS
  <2>2. S \in SUBSET live /\ IsFiniteSet(S) /\ S # {}
    BY <1>3, <2>1, LiveIs, FS_Subset
  <2>3. ASSUME NEW q \in S
        PROVE  implied_price[q][hot[q]] \in Nat /\ implied_price[q][hot[q]] \in UsdPrices(p)
    <3>1. q \in Pools /\ hot[q] \in Snaps[q] /\ Attr[q].token0 = token
      BY <2>1, LiveIs DEF Priced, TypeOK
    <3>2. implied_price[q][hot[q]] = Price(State(q, hot[q]))
      BY <3>1 DEF implied_price
    <3> QED
      BY <1>3, <3>1, <3>2, PriceIs DEF UsdPrices
  <2> DEFINE At(q) == implied_price[q][hot[q]]
             f == [q \in S |-> At(q)]
             n == Cardinality(S)
  <2>4. n \in Nat /\ n # 0
    BY <2>2, FS_CardinalityType, FS_EmptySet
  <2>5. ASSUME NEW k \in 1..n
        PROVE  \E q \in S : /\ Cardinality({r \in S : At(r) < At(q)}) < k
                            /\ k <= Cardinality({r \in S : At(r) <= At(q)})
    <3>1. \A q \in S : f[q] = At(q)
      OBVIOUS
    <3>2. \A q \in S : f[q] \in Nat
      BY <2>3
    <3>3. PICK q \in S : /\ Cardinality({r \in S : f[r] < f[q]}) < k
                         /\ k <= Cardinality({r \in S : f[r] <= f[q]})
      <4> HIDE DEF f, At
      <4> QED
        BY <2>2, <3>2, NthOf
    <3>4. {r \in S : f[r] < f[q]} = {r \in S : At(r) < At(q)}
      BY <3>1
    <3>5. {r \in S : f[r] <= f[q]} = {r \in S : At(r) <= At(q)}
      BY <3>1
    <3> QED
      BY <3>3, <3>4, <3>5
  <2> DEFINE Nth(k) == CHOOSE q \in S :
                         /\ Cardinality({r \in S : At(r) < At(q)}) < k
                         /\ k <= Cardinality({r \in S : At(r) <= At(q)})
  <2>6. \A k \in 1..n : Nth(k) \in S
    BY <2>5
  <2>7. (n + 1) \div 2 \in 1..n /\ n \div 2 + 1 \in 1..n
    <3> HIDE DEF n
    <3> QED
      BY <2>4
  <2>8. /\ At(Nth((n + 1) \div 2)) \in Nat /\ At(Nth(n \div 2 + 1)) \in Nat
        /\ At(Nth((n + 1) \div 2)) \in UsdPrices(p) /\ At(Nth(n \div 2 + 1)) \in UsdPrices(p)
    <3> HIDE DEF Nth, n
    <3> QED
      BY <2>3, <2>6, <2>7
  <2>9. Median(S) = (At(Nth((n + 1) \div 2)) + At(Nth(n \div 2 + 1))) \div 2
    BY DEF Median
  <2>10. \A a, b \in Nat : /\ (a + b) \div 2 \in Nat
                           /\ (a + b) \div 2 <= a \/ (a + b) \div 2 <= b
    OBVIOUS
  <2> QED
    <3> HIDE DEF At, Nth, n, quoted
    <3> QED
      BY <2>1, <2>8, <2>9, <2>10
<1>4. CASE token \in Stable
  <2>1. usd_price(c, token) = PScale /\ PScale \in UsdPrices(p)
    BY <1>4 DEF usd_price, UsdPrices
  <2>2. PScale <= PScale
    BY <1>1
  <2> QED
    BY <1>1, <2>1, <2>2
<1>5. CASE token \notin Stable /\ quoted # {}
  BY <1>3, <1>5 DEF usd_price
<1>6. CASE token \notin Stable /\ quoted = {}
  <2>1. usd_price(c, token) = ListedUsd[token] /\ ListedUsd[token] \in UsdPrices(p)
    BY <1>6 DEF usd_price, UsdPrices
  <2>2. ListedUsd[token] \in Nat /\ ListedUsd[token] <= ListedUsd[token]
    BY <1>2, <1>6
  <2> QED
    BY <2>1, <2>2
<1> QED
  BY <1>4, <1>5, <1>6

\* What a pass over snapshots finds is of the right form.
LEMMA CandidateType ==
  ASSUME NEW x \in Snapshots, NEW y \in Snapshots,
         NEW kind \in {"intra-dex", "cross-dex", "cross-chain", "fresh"},
         SpreadBps(Price(x), Price(y)) >= MinSpread
  PROVE  Candidate(x, y, kind) \in Candidates
<1>1. SpreadBps(Price(x), Price(y)) \in 0..Bps
  BY SnapshotIs, SpreadType
<1>2. \A n \in 0..Bps : n >= MinSpread => n \in MinSpread..Bps
  BY Bounds DEF Bps
<1>3. SpreadBps(Price(x), Price(y)) \in MinSpread..Bps
  BY <1>1, <1>2
<1> QED
  BY <1>3, SnapshotIs DEF Candidate, Candidates

\* What Judge finds is what the groups of its snapshots give.
LEMMA JudgeFinds ==
  ASSUME Judge
  PROVE  \E pick \in [Groups -> UNION {Outcomes(G) : G \in Groups}] :
           /\ \A G \in Groups : pick[G] \in Outcomes(G)
           /\ found' = UNION {pick[G] : G \in Groups}
           /\ verdict' = [k \in Pairs |->
                            IF job = "state" /\ k[2] = Tokens(Attr[me.pool])
                            THEN {c \in found' : Attr[c.buy].chain = k[1]} ELSE verdict[k]]
BY DEF Judge, Range

\* What a group gives is its extremes, if they are not refused.
LEMMA OutcomeIs ==
  ASSUME NEW G, NEW o \in Outcomes(G), NEW c \in o
  PROVE  \E x \in Lowest(G), y \in Highest(G) :
           /\ o = {c} /\ c = Candidate(x, y, KindOf(x, y))
           /\ ~Refused(x, y) /\ ~(SpreadBps(Price(x), Price(y)) < MinSpread)
BY DEF Outcomes
-----------------------------------------------------------------------------
\* The types, action by action: what the trackers and the clock do...
LEMMA TypeInit == ASSUME Init PROVE TypeOK /\ Held
<1>1. \E c \in Scenes : job = c.job /\ live = c.live
  BY DEF Init
<1>2. DOMAIN hot = Pools /\ \A p \in Pools : hot[p] \in Snaps[p] \cup {None}
  BY ScannerAssumption DEF Init, ScannerAssumption
<1>3. age \in [Pools -> 0..Old] /\ big \in [Pools -> 0..Old]
  BY Bounds DEF Init
<1>4. win \in [Pools -> Seq([bps : Nat, age : 0..Old])]
  BY DEF Init
<1>5. 0 \in 0..MaxMoves /\ 0 \in 0..MaxTicks /\ 0 \in 0..MaxFaults
  BY Bounds
<1>6. Len(cands) <= MaxCands
  BY Bounds DEF Init
<1>7. Held
  BY DEF Init, Held
<1> QED
  BY <1>1, <1>2, <1>3, <1>4, <1>5, <1>6, <1>7 DEF Init, TypeOK

LEMMA TypeMove ==
  ASSUME TypeOK, NEW p \in live, NEW s \in Snaps[p], Move(p, s)
  PROVE  TypeOK'
<1>1. p \in Pools
  BY LiveIs
<1>2. DOMAIN hot' = Pools /\ \A q \in Pools : hot'[q] \in Snaps[q] \cup {None}
  BY <1>1 DEF Move, TypeOK
<1>3. age' \in [Pools -> 0..Old]
  BY <1>1, Bounds DEF Move, TypeOK
<1> DEFINE old == Price(State(p, hot[p]))
           bps == IF hot[p] = None THEN 0 ELSE (Gap(Price(State(p, s)), old) * Bps) \div old
<1>4. Attr[p].curve # "whirlpool" => [pool |-> p, age |-> 0, bps |-> bps] \in Moves
  <2> SUFFICES ASSUME Attr[p].curve # "whirlpool" PROVE [pool |-> p, age |-> 0, bps |-> bps] \in Moves
    OBVIOUS
  <2>1. 0 \in 0..Old
    BY Bounds
  <2>2. ASSUME hot[p] # None
        PROVE  (Gap(Price(State(p, s)), old) * Bps) \div old \in Nat
    <3>1. hot[p] \in Snaps[p]
      BY <1>1, <2>2 DEF TypeOK
    <3>2. old \in Positive /\ Price(State(p, s)) \in Nat
      BY <1>1, <3>1, PriceIs
    <3> HIDE DEF old
    <3>3. Gap(Price(State(p, s)), old) \in Nat
      BY <3>2, SMT DEF Gap, Positive
    <3>4. Gap(Price(State(p, s)), old) * Bps \in Nat
      BY <3>3, SMT DEF Bps
    <3> QED
      BY <3>2, <3>4, Quotient
  <2>3. bps \in Nat
    BY <2>2
  <2> QED
    BY <1>1, <2>1, <2>3 DEF Moves
<1>5. unsaid' \subseteq Moves
  BY <1>4 DEF Move, TypeOK
<1>6. moves' \in 0..MaxMoves
  BY Bounds DEF Move, TypeOK
<1> QED
  BY <1>2, <1>3, <1>5, <1>6 DEF Move, TypeOK, scan, pipe, history

LEMMA TypeAnnounce ==
  ASSUME TypeOK, NEW d \in unsaid, Announce(d)
  PROVE  TypeOK'
<1>1. d \in Moves
  BY DEF TypeOK
<1>2. news' \in Seq(Moves) /\ unsaid' \subseteq Moves
  BY <1>1 DEF Announce, TypeOK
<1>3. stirred' \subseteq Pairs
  BY <1>1 DEF Announce, TypeOK, Pairs, Moves
<1> QED
  BY <1>2, <1>3 DEF Announce, TypeOK, scan, pipe

LEMMA TypeExpire ==
  ASSUME TypeOK, NEW p \in live, Expire(p)
  PROVE  TypeOK'
<1>1. DOMAIN hot' = Pools /\ \A q \in Pools : hot'[q] \in Snaps[q] \cup {None}
  BY LiveIs DEF Expire, TypeOK
<1>2. moves' \in 0..MaxMoves
  BY Bounds DEF Expire, TypeOK
<1> QED
  BY <1>1, <1>2 DEF Expire, TypeOK, scan, pipe

LEMMA TypeCreated ==
  ASSUME TypeOK, NEW p \in live, Created(p)
  PROVE  TypeOK'
<1>1. [pool |-> p, age |-> 0, bps |-> 0] \in Moves
  BY LiveIs, Bounds DEF Moves
<1>2. news' \in Seq(Moves)
  BY <1>1 DEF Created, TypeOK
<1>3. moves' \in 0..MaxMoves
  BY Bounds DEF Created, TypeOK
<1> QED
  BY <1>2, <1>3 DEF Created, TypeOK, scan, pipe, history

\* Growing older keeps the rest of a sequence's elements.
LEMMA AgeAllIs ==
  ASSUME NEW S, NEW s \in Seq(S),
         \A i \in DOMAIN s : s[i].age \in 0..Old /\ [s[i] EXCEPT !.age = Older(@)] \in S
  PROVE  /\ AgeAll(s) \in Seq(S) /\ DOMAIN AgeAll(s) = DOMAIN s /\ Len(AgeAll(s)) = Len(s)
         /\ \A i \in DOMAIN s : AgeAll(s)[i] = [s[i] EXCEPT !.age = Older(@)]
<1>1. DOMAIN s = 1..Len(s) /\ Len(s) \in Nat
  OBVIOUS
<1>2. AgeAll(s) \in [1..Len(s) -> S]
  BY <1>1 DEF AgeAll
<1> QED
  BY <1>1, <1>2 DEF AgeAll

\* A move grown older is a move of the same pool.
LEMMA OlderMove ==
  ASSUME NEW d \in Moves
  PROVE  /\ [d EXCEPT !.age = Older(@)] \in Moves
         /\ [d EXCEPT !.age = Older(@)].pool = d.pool
         /\ [d EXCEPT !.age = Older(@)].age = Older(d.age)
BY OlderIs DEF Moves

LEMMA TypeTick ==
  ASSUME TypeOK, Tick
  PROVE  TypeOK'
<1>1. age' \in [Pools -> 0..Old] /\ big' \in [Pools -> 0..Old]
  BY OlderIs DEF Tick, TypeOK
<1>2. news' \in Seq(Moves)
  <2>1. \A i \in DOMAIN news : news[i] \in Moves
    BY DEF TypeOK
  <2>2. \A i \in DOMAIN news : news[i].age \in 0..Old
    BY <2>1 DEF Moves
  <2> QED
    BY <2>1, <2>2, OlderMove, AgeAllIs DEF Tick, TypeOK
<1>3. unsaid' \subseteq Moves
  BY OlderMove DEF Tick, TypeOK
<1>4. win' \in [Pools -> Seq([bps : Nat, age : 0..Old])]
  <2> DEFINE E == [bps : Nat, age : 0..Old]
  <2>1. ASSUME NEW p \in Pools PROVE AgeAll(win[p]) \in Seq(E)
    <3>1. win[p] \in Seq(E)
      BY DEF TypeOK
    <3>2. ASSUME NEW i \in DOMAIN win[p]
          PROVE  win[p][i].age \in 0..Old /\ [win[p][i] EXCEPT !.age = Older(@)] \in E
      <4>1. win[p][i] \in E
        <5> HIDE DEF E
        <5> QED
          BY <3>1
      <4> QED
        BY <4>1, OlderIs
    <3> HIDE DEF E
    <3> QED
      BY <3>1, <3>2, AgeAllIs
  <2> QED
    BY <2>1 DEF Tick
<1>5. me' = None \/ me' \in Moves
  BY OlderMove DEF Tick, TypeOK
<1>6. pc' # "idle" /\ job' # "cross" => me' # None
  BY OlderMove, NoneIs DEF Tick, TypeOK
<1>7. ticks' \in 0..MaxTicks
  BY Bounds DEF Tick, TypeOK
<1> QED
  BY <1>1, <1>2, <1>3, <1>4, <1>5, <1>6, <1>7 DEF Tick, TypeOK, pipe

\* ... the scanners ...
LEMMA TypeTake ==
  ASSUME TypeOK, Take
  PROVE  TypeOK' /\ me' \in Moves
<1>1. news \in Seq(Moves) /\ news # <<>>
  BY DEF Take, TypeOK
<1>2. Head(news) \in Moves /\ Tail(news) \in Seq(Moves)
  BY <1>1
<1> QED
  BY <1>2, NoneIs DEF Take, TypeOK, env, pipe, history

\* ...what a scanner's pass does, from its start...
LEMMA TypeBeginRound == ASSUME TypeOK, BeginRound PROVE TypeOK'
BY DEF BeginRound, TypeOK, env, pipe, history

LEMMA TypeReadSelf == ASSUME TypeOK, Held, ReadSelf PROVE TypeOK'
<1>1. me \in Moves /\ me.pool \in Pools
  BY NoneIs DEF ReadSelf, TypeOK, Held, Moves
<1>2. Priced(me.pool) => State(me.pool, hot[me.pool]) \in Snapshots
  BY <1>1, PriceIs DEF Priced, TypeOK
<1>3. \A x \in seen' \cup ({mine', buy', sell'} \ {None}) : x \in Snapshots
  BY <1>2 DEF ReadSelf, Rest, TypeOK, pipe
<1>4. left' \subseteq live /\ UNCHANGED <<me, found>> /\ pc' \in {"idle", "scan"}
  BY DEF ReadSelf, Rest, TypeOK
<1>5. UNCHANGED <<job, live, env, news, win, cands, pipe, history, faults>>
  BY DEF ReadSelf
<1> QED
  BY <1>1, <1>3, <1>4, <1>5, NoneIs DEF TypeOK, env, pipe, history

LEMMA TypeScanOne == ASSUME TypeOK, NEW p \in live, ScanOne(p) PROVE TypeOK'
<1>1. hot[p] # None => State(p, hot[p]) \in Snapshots
  BY LiveIs, PriceIs DEF TypeOK
<1> QED
  BY <1>1 DEF ScanOne, TypeOK, env, pipe, history

\* ...to its findings...
LEMMA TypeJudge == ASSUME TypeOK, Judge PROVE TypeOK'
<1>1. found' \subseteq Candidates
  <2>1. PICK pick \in [Groups -> UNION {Outcomes(G) : G \in Groups}] :
          /\ \A G \in Groups : pick[G] \in Outcomes(G)
          /\ found' = UNION {pick[G] : G \in Groups}
    BY JudgeFinds
  <2>2. ASSUME NEW G \in Groups, NEW c \in pick[G] PROVE c \in Candidates
    <3>1. PICK o \in Outcomes(G) : c \in o
      BY <2>1
    <3>2. PICK x \in Lowest(G), y \in Highest(G) :
            c = Candidate(x, y, KindOf(x, y)) /\ ~(SpreadBps(Price(x), Price(y)) < MinSpread)
      BY <3>1, OutcomeIs
    <3>3. x \in Snapshots /\ y \in Snapshots
      BY DEF Lowest, Highest, Groups, TypeOK
    <3>4. SpreadBps(Price(x), Price(y)) \in 0..Bps
      BY <3>3, SnapshotIs, SpreadType
    <3>5. \A n \in 0..Bps : ~(n < MinSpread) => n >= MinSpread
      BY Bounds DEF Bps
    <3> QED
      BY <3>2, <3>3, <3>4, <3>5, CandidateType DEF KindOf
  <2> QED
    BY <2>1, <2>2
<1>2. DOMAIN verdict' = Pairs
  BY DEF Judge
<1> QED
  BY <1>1, <1>2 DEF Judge, TypeOK, env, pipe, history

LEMMA TypeTell == ASSUME TypeOK, Tell PROVE TypeOK'
<1>1. CASE found = {}
  BY <1>1 DEF Tell, Rest, TypeOK, env, pipe, history
<1>2. CASE found # {}
  <2>1. PICK c \in found : /\ Len(cands) < MaxCands
                           /\ cands' = Append(cands, c) /\ found' = found \ {c}
                           /\ UNCHANGED <<pc, me, mine, left, seen>>
    BY <1>2 DEF Tell
  <2>2. cands' \in Seq(Candidates \cup LagEvents) /\ Len(cands') <= MaxCands
    BY <2>1, Bounds DEF TypeOK
  <2> QED
    BY <2>1, <2>2 DEF Tell, TypeOK, env, pipe, history
<1> QED
  BY <1>1, <1>2

\* What the fresh-pool loop puts into the stream.
LEMMA FreshFinds ==
  ASSUME TypeOK, Held, NEW p \in live, FreshOne(p)
  PROVE  \/ UNCHANGED cands
         \/ /\ hot[p] # None /\ SamePair(p, me.pool) /\ Len(cands) < MaxCands
            /\ \E c \in Candidates :
                 /\ cands' = Append(cands, c)
                 /\ {c.buy, c.sell} = {me.pool, p}
<1> DEFINE other == State(p, hot[p])
           c == IF Price(mine) < Price(other) THEN Candidate(mine, other, "fresh")
                ELSE Candidate(other, mine, "fresh")
<1>1. CASE hot[p] # None /\ SamePair(p, me.pool)
           /\ SpreadBps(Price(mine), Price(other)) >= MinSpread
  <2>1. mine \in Snapshots /\ mine.pool = me.pool
    BY DEF FreshOne, Held
  <2>2. other \in Snapshots /\ other.pool = p
    BY <1>1, LiveIs, PriceIs, StateOf DEF TypeOK
  <2> HIDE DEF other
  <2>3. SpreadBps(Price(other), Price(mine)) = SpreadBps(Price(mine), Price(other))
    <3>1. Price(mine) \in Nat /\ Price(other) \in Nat
      BY <2>1, <2>2, SnapshotIs
    <3>2. \A a, b \in Nat : SpreadBps(a, b) = SpreadBps(b, a)
      <4>1. \A a, b \in Nat : Gap(a, b) = Gap(b, a)
        BY DEF Gap
      <4>2. \A a, b \in Nat : (IF a < b THEN b ELSE a) = (IF b < a THEN a ELSE b)
        OBVIOUS
      <4> QED
        BY <4>1, <4>2 DEF SpreadBps
    <3> QED
      BY <3>1, <3>2
  <2>4. /\ Candidate(mine, other, "fresh") \in Candidates
        /\ Candidate(other, mine, "fresh") \in Candidates
    BY <1>1, <2>1, <2>2, <2>3, CandidateType
  <2>5. c \in Candidates /\ {c.buy, c.sell} = {me.pool, p}
    BY <2>1, <2>2, <2>4 DEF Candidate
  <2>6. Len(cands) < MaxCands /\ cands' = Append(cands, c)
    BY <1>1 DEF FreshOne, other
  <2> QED
    BY <1>1, <2>5, <2>6
<1>2. CASE ~(hot[p] # None /\ SamePair(p, me.pool)
             /\ SpreadBps(Price(mine), Price(other)) >= MinSpread)
  BY <1>2 DEF FreshOne
<1> QED
  BY <1>1, <1>2

LEMMA TypeFreshOne == ASSUME TypeOK, Held, NEW p \in live, FreshOne(p) PROVE TypeOK'
<1>1. cands \in Seq(Candidates \cup LagEvents) /\ Len(cands) <= MaxCands
  BY DEF TypeOK
<1>2. \/ UNCHANGED cands
      \/ Len(cands) < MaxCands /\ \E c \in Candidates : cands' = Append(cands, c)
  BY FreshFinds
<1>3. cands' \in Seq(Candidates \cup LagEvents) /\ Len(cands') <= MaxCands
  BY <1>1, <1>2, Bounds
<1> QED
  BY <1>3 DEF FreshOne, TypeOK, env, pipe, history

LEMMA TypeFreshDone == ASSUME TypeOK, FreshDone PROVE TypeOK'
BY DEF FreshDone, Rest, TypeOK, env, pipe, history

\* ... the lag detector ...
LEMMA HearTrims ==
  ASSUME TypeOK, Held, LagHear, hot[me.pool] # None
  PROVE  LET E == [bps : Nat, age : 0..Old]
             e == [bps |-> me.bps, age |-> age[me.pool]]
         IN /\ me \in Moves /\ e \in E /\ Append(win[me.pool], e) \in Seq(E)
            /\ \A i \in DOMAIN Append(win[me.pool], e) : Append(win[me.pool], e)[i].age \in Nat
            /\ Trim(Append(win[me.pool], e)) \in Seq(E)
            /\ win' = [win EXCEPT ![me.pool] = Trim(Append(win[me.pool], e))]
<1> DEFINE E == [bps : Nat, age : 0..Old]
           e == [bps |-> me.bps, age |-> age[me.pool]]
           w == Append(win[me.pool], e)
<1>1. me \in Moves /\ me.pool \in Pools
  BY NoneIs DEF LagHear, TypeOK, Moves
<1>2. e \in E
  BY <1>1 DEF TypeOK, Moves
<1>3. win[me.pool] \in Seq(E)
  BY <1>1 DEF TypeOK
<1>4. w \in Seq(E)
  <2> HIDE DEF E, e
  <2> QED
    BY <1>2, <1>3
<1>5. \A i \in DOMAIN w : w[i].age \in Nat
  <2>1. \A i \in DOMAIN w : w[i] \in E
    <3> HIDE DEF E, w
    <3> QED
      BY <1>4
  <2> QED
    BY <2>1, Bounds
<1>6. Trim(w) \in Seq(E)
  <2> HIDE DEF E, w
  <2> QED
    BY <1>4, <1>5, TrimIs
<1>7. win' = [win EXCEPT ![me.pool] = Trim(w)]
  BY DEF LagHear
<1> QED
  BY <1>1, <1>2, <1>4, <1>5, <1>6, <1>7

\* ...what the lag detector does...
LEMMA TypeLagHear == ASSUME TypeOK, Held, LagHear PROVE TypeOK'
<1>1. CASE hot[me.pool] = None
  BY <1>1 DEF LagHear, Rest, TypeOK, env, pipe
<1>2. CASE hot[me.pool] # None
  <2>1. win' \in [Pools -> Seq([bps : Nat, age : 0..Old])]
    <3> DEFINE W == Trim(Append(win[me.pool], [bps |-> me.bps, age |-> age[me.pool]]))
    <3>1. W \in Seq([bps : Nat, age : 0..Old]) /\ win' = [win EXCEPT ![me.pool] = W]
      BY <1>2, HearTrims
    <3> HIDE DEF W
    <3> QED
      BY <3>1 DEF TypeOK
  <2>2. me \in Moves
    BY <1>2, HearTrims
  <2>3. big' \in [Pools -> 0..Old]
    BY <1>2, <2>2 DEF LagHear, TypeOK, Moves
  <2>4. \/ UNCHANGED me /\ pc' = "idle"
        \/ pc' = "leader" /\ \E q \in Pools : me' = [me EXCEPT !.pool = q]
    BY <1>2, LiveIs DEF LagHear, Rest, Peers
  <2>5. me' \in Moves
    BY <2>2, <2>4 DEF Moves
  <2>6. UNCHANGED <<job, live, env, news, cands, pipe, verdict, stirred, faults, mine, left, seen, found>>
    BY <1>2 DEF LagHear, Rest
  <2> QED
    BY <2>1, <2>3, <2>4, <2>5, <2>6, NoneIs DEF TypeOK, env, pipe
<1> QED
  BY <1>1, <1>2

LEMMA TypeLagLeader == ASSUME TypeOK, Held, LagLeader PROVE TypeOK'
<1>1. CASE hot[me.pool] = None
  BY <1>1 DEF LagLeader, Rest, TypeOK, env, pipe, history
<1>2. CASE hot[me.pool] # None
  <2>1. me' = me /\ pc' = "follow" /\ mine' = State(me.pool, hot[me.pool])
    BY <1>2 DEF LagLeader
  <2>2. me \in Moves /\ me.pool \in Pools
    BY NoneIs DEF LagLeader, TypeOK, Held, Moves
  <2>3. State(me.pool, hot[me.pool]) \in Snapshots
    BY <1>2, <2>2, PriceIs DEF TypeOK
  <2>4. left' \subseteq live
    BY <1>2 DEF LagLeader, Peers
  <2>5. UNCHANGED <<job, live, env, news, win, cands, pipe, history, faults, seen, found>>
    BY <1>2 DEF LagLeader
  <2> QED
    BY <2>1, <2>2, <2>3, <2>4, <2>5, NoneIs DEF TypeOK, env, pipe, history
<1> QED
  BY <1>1, <1>2

LEMMA TypeLagOne == ASSUME TypeOK, Held, NEW p \in live, LagOne(p) PROVE TypeOK'
<1>1. me \in Moves /\ me.pool \in Pools /\ p \in Pools
  BY NoneIs, LiveIs DEF LagOne, TypeOK, Held, Moves
<1>2. \/ cands' = cands
      \/ /\ Len(cands) < MaxCands
         /\ cands' = Append(cands, [kind |-> "lagging", leader |-> me.pool, lagger |-> p])
  BY DEF LagOne
<1>3. [kind |-> "lagging", leader |-> me.pool, lagger |-> p] \in LagEvents
  BY <1>1 DEF LagEvents
<1>4. cands' \in Seq(Candidates \cup LagEvents) /\ Len(cands') <= MaxCands
  <2>1. cands \in Seq(Candidates \cup LagEvents) /\ Len(cands) <= MaxCands
    BY DEF TypeOK
  <2> QED
    BY <1>2, <1>3, <2>1, Bounds
<1>5. /\ UNCHANGED <<job, live, env, news, win, pipe, history, faults, me, mine, seen, found>>
      /\ left' \subseteq left /\ pc' \in {"idle", pc}
  BY DEF LagOne, Rest
<1> QED
  BY <1>1, <1>4, <1>5, NoneIs DEF TypeOK, env, pipe, history

LEMMA TypeLagDone == ASSUME TypeOK, LagDone PROVE TypeOK'
BY DEF LagDone, Rest, TypeOK, env, pipe, history

\* ...how an event is given up...
LEMMA TypeJobFails == ASSUME TypeOK, JobFails PROVE TypeOK'
<1>1. faults' \in 0..MaxFaults
  BY Bounds DEF JobFails, TypeOK
<1> QED
  BY <1>1 DEF JobFails, Rest, TypeOK, env, pipe, history

\* ... and the pipeline.
LEMMA TypePipeTake == ASSUME TypeOK, PipeTake PROVE TypeOK'
<1>1. cands \in Seq(Candidates \cup LagEvents) /\ cands # <<>> /\ Len(cands) <= MaxCands
  BY DEF PipeTake, TypeOK
<1>2. /\ cands' \in Seq(Candidates \cup LagEvents) /\ Len(cands') <= MaxCands
      /\ Head(cands) \in Candidates \cup LagEvents
  BY <1>1, Bounds DEF PipeTake
<1>3. Head(cands).kind # "lagging" => Head(cands) \in Candidates
  BY <1>2 DEF LagEvents
<1> QED
  BY <1>2, <1>3 DEF PipeTake, TypeOK, env, scan, history

\* ...and what the pipeline reads and makes of it.
LEMMA SnapshotType ==
  ASSUME TypeOK, NEW p \in Pools
  PROVE  hot[p] # None => Snapshot(p) \in Snapshots /\ Snapshot(p).pool = p
BY PriceIs, StateOf DEF TypeOK, Snapshot

LEMMA TypePipeReadBuy == ASSUME TypeOK, PipeReadBuy PROVE TypeOK'
<1>1. cand.buy \in Pools
  BY DEF PipeReadBuy, TypeOK, Candidates
<1>2. buy' = None \/ buy' \in Snapshots
  BY <1>1, SnapshotType DEF PipeReadBuy, Snapshot
<1> QED
  BY <1>2 DEF PipeReadBuy, TypeOK, env, scan, history

LEMMA TypePipeReadSell == ASSUME TypeOK, PipeReadSell PROVE TypeOK'
<1>1. cand.sell \in Pools
  BY DEF PipeReadSell, TypeOK, Candidates
<1>2. \/ ppc' = "idle" /\ buy' = None /\ sell' = None /\ usd' = 0
      \/ /\ ppc' = "price" /\ UNCHANGED <<cand, buy, usd>>
         /\ sell' = None \/ sell' \in Snapshots
  BY <1>1, SnapshotType DEF PipeReadSell, Ends, Snapshot
<1>3. UNCHANGED <<job, live, env, news, scan, cands, ranked, history, faults>>
  BY DEF PipeReadSell
<1>4. \A x \in seen' \cup ({mine', buy', sell'} \ {None}) : x \in Snapshots
  BY <1>2, <1>3 DEF TypeOK, scan
<1>5. /\ ppc' \in {"idle", "price"} /\ usd' \in Nat
      /\ (ppc' # "idle" => cand' \in Candidates)
  BY <1>2 DEF PipeReadSell, TypeOK
<1> QED
  BY <1>3, <1>4, <1>5 DEF TypeOK, env, scan, history

LEMMA TypePipePrice == ASSUME TypeOK, Held, PipePrice PROVE TypeOK'
<1>1. buy \in Snapshots /\ buy.pool \in Pools /\ buy.token1 = Attr[buy.pool].token1
  BY SnapshotIs DEF PipePrice, Held
<1>2. usd' \in Nat
  BY <1>1, UsdType DEF PipePrice
<1> QED
  BY <1>2 DEF PipePrice, TypeOK, env, scan, history

LEMMA TypePipeRank == ASSUME TypeOK, PipeRank PROVE TypeOK'
BY DEF PipeRank, Ends, TypeOK, env, scan, history

LEMMA TypePipeFails == ASSUME TypeOK, PipeFails PROVE TypeOK'
<1>1. faults' \in 0..MaxFaults
  BY Bounds DEF PipeFails, TypeOK
<1> QED
  BY <1>1 DEF PipeFails, Ends, TypeOK, env, scan, history

LEMMA TypeStutter == ASSUME TypeOK, UNCHANGED vars PROVE TypeOK'
BY DEF vars, TypeOK, env, scan, pipe, history
-----------------------------------------------------------------------------
\* What is held stays so: of what Held speaks, trackers change nothing, a
\* scanner the first three parts, the pipeline the others.
HeldScan ==
  /\ job = "cross" => pc # "self" /\ news = <<>>
  /\ pc \in {"leader", "follow"} => job = "lag"
  /\ pc = "scan" /\ job = "fresh" =>
       /\ mine \in Snapshots /\ mine.pool = me.pool
       /\ \A q \in left : q # me.pool /\ Attr[q].chain = Attr[me.pool].chain

HeldPipe ==
  /\ ppc = "sell" => buy = None \/ (buy \in Snapshots /\ buy.pool = cand.buy)
  /\ ppc \in {"price", "judge"} =>
       /\ buy \in Snapshots /\ buy.pool = cand.buy
       /\ sell \in Snapshots /\ sell.pool = cand.sell

\* What is held by the scanner, and what by the pipeline.
LEMMA HeldParts == Held <=> HeldScan /\ HeldPipe
BY DEF Held, HeldScan, HeldPipe

\* Each part is kept, action by action.
LEMMA HeldStep == ASSUME TypeOK, Held, [Next]_vars PROVE Held'
<1>1. HeldScan /\ HeldPipe
  BY HeldParts
<1>2. ASSUME UNCHANGED <<job, scan, pipe>>, job = "cross" => UNCHANGED news PROVE Held'
  BY <1>2, <1>1, HeldParts DEF scan, pipe, HeldScan, HeldPipe, Held
<1>3. ASSUME UNCHANGED pipe, HeldScan' PROVE Held'
  BY <1>3, <1>1 DEF pipe, HeldScan, HeldPipe, Held
<1>4. ASSUME UNCHANGED <<job, news, scan>>, HeldPipe' PROVE Held'
  BY <1>4, <1>1 DEF scan, HeldScan, HeldPipe, Held
<1>5. ASSUME Rest, UNCHANGED <<job, news>> PROVE HeldScan'
  BY <1>1, <1>5 DEF Rest, HeldScan
<1>6. ASSUME Ends PROVE HeldPipe'
  BY <1>6 DEF Ends, HeldPipe
<1>7. ASSUME NEW p \in live, NEW s \in Snaps[p], Move(p, s) PROVE Held'
  BY <1>2, <1>7 DEF Move
<1>8. ASSUME NEW d \in unsaid, Announce(d) PROVE Held'
  BY <1>2, <1>8 DEF Announce
<1>9. ASSUME NEW p \in live, Expire(p) PROVE Held'
  BY <1>2, <1>9 DEF Expire
<1>10. ASSUME NEW p \in live, Created(p) PROVE Held'
  BY <1>2, <1>10 DEF Created
<1>11. CASE Tick
  <2>1. HeldScan'
    BY <1>1, <1>11 DEF Tick, HeldScan
  <2> QED
    BY <1>3, <1>11, <2>1 DEF Tick
<1>12. CASE Take
  <2>1. job # "cross"
    BY <1>1, <1>12 DEF Take, HeldScan
  <2>2. HeldScan'
    BY <1>12, <2>1 DEF Take, HeldScan
  <2> QED
    BY <1>3, <1>12, <2>2 DEF Take
<1>13. CASE BeginRound
  <2>1. HeldScan'
    BY <1>1, <1>13 DEF BeginRound, HeldScan
  <2> QED
    BY <1>3, <1>13, <2>1 DEF BeginRound
<1>14. CASE ReadSelf
  <2>1. me.pool \in Pools
    BY <1>1, <1>14, NoneIs DEF ReadSelf, TypeOK, HeldScan, Moves
  <2>2. Priced(me.pool) => /\ State(me.pool, hot[me.pool]) \in Snapshots
                           /\ State(me.pool, hot[me.pool]).pool = me.pool
    BY <2>1, PriceIs, StateOf DEF Priced, TypeOK
  <2>3. HeldScan'
    BY <1>1, <1>5, <1>14, <2>2 DEF ReadSelf, HeldScan, Rest
  <2> QED
    BY <1>3, <1>14, <2>3 DEF ReadSelf
<1>15. ASSUME NEW p \in live, ScanOne(p) PROVE Held'
  <2>1. HeldScan'
    BY <1>1, <1>15 DEF ScanOne, HeldScan
  <2> QED
    BY <1>3, <1>15, <2>1 DEF ScanOne
<1>16. CASE Judge
  <2>1. HeldScan'
    BY <1>1, <1>16 DEF Judge, HeldScan
  <2> QED
    BY <1>3, <1>16, <2>1 DEF Judge
<1>17. CASE Tell
  <2>1. HeldScan'
    BY <1>1, <1>5, <1>17 DEF Tell, HeldScan
  <2> QED
    BY <1>3, <1>17, <2>1 DEF Tell
<1>18. ASSUME NEW p \in live, FreshOne(p) PROVE Held'
  <2>1. HeldScan'
    BY <1>1, <1>18 DEF FreshOne, HeldScan
  <2> QED
    BY <1>3, <1>18, <2>1 DEF FreshOne
<1>19. CASE FreshDone
  BY <1>3, <1>5, <1>19 DEF FreshDone
<1>20. CASE LagHear
  <2>1. HeldScan'
    BY <1>1, <1>5, <1>20 DEF LagHear, HeldScan
  <2> QED
    BY <1>3, <1>20, <2>1 DEF LagHear
<1>21. CASE LagLeader
  <2>1. HeldScan'
    BY <1>1, <1>5, <1>21 DEF LagLeader, HeldScan
  <2> QED
    BY <1>3, <1>21, <2>1 DEF LagLeader
<1>22. ASSUME NEW p \in live, LagOne(p) PROVE Held'
  <2>1. HeldScan'
    BY <1>1, <1>22 DEF LagOne, Rest, HeldScan
  <2> QED
    BY <1>3, <1>22, <2>1 DEF LagOne
<1>23. CASE LagDone
  BY <1>3, <1>5, <1>23 DEF LagDone
<1>24. CASE JobFails
  BY <1>3, <1>5, <1>24 DEF JobFails
<1>25. CASE PipeTake
  <2>1. HeldPipe'
    BY <1>1, <1>25 DEF PipeTake, HeldPipe
  <2> QED
    BY <1>4, <1>25, <2>1 DEF PipeTake
<1>26. CASE PipeReadBuy
  <2>1. cand.buy \in Pools
    BY <1>26 DEF PipeReadBuy, TypeOK, Candidates
  <2>2. HeldPipe'
    BY <1>26, <2>1, SnapshotType DEF PipeReadBuy, HeldPipe, Snapshot
  <2> QED
    BY <1>4, <1>26, <2>2 DEF PipeReadBuy
<1>27. CASE PipeReadSell
  <2>1. cand.sell \in Pools
    BY <1>27 DEF PipeReadSell, TypeOK, Candidates
  <2>2. CASE buy = None \/ hot[cand.sell] = None
    BY <1>4, <1>6, <1>27, <2>2 DEF PipeReadSell
  <2>3. CASE ~(buy = None \/ hot[cand.sell] = None)
    <3>1. HeldPipe'
      BY <1>1, <1>27, <2>1, <2>3, SnapshotType DEF PipeReadSell, HeldPipe
    <3> QED
      BY <1>4, <1>27, <3>1 DEF PipeReadSell
  <2> QED
    BY <2>2, <2>3
<1>28. CASE PipePrice
  <2>1. HeldPipe'
    BY <1>1, <1>28 DEF PipePrice, HeldPipe
  <2> QED
    BY <1>4, <1>28, <2>1 DEF PipePrice
<1>29. CASE PipeRank
  BY <1>4, <1>6, <1>29 DEF PipeRank
<1>30. CASE PipeFails
  BY <1>4, <1>6, <1>30 DEF PipeFails
<1>31. CASE UNCHANGED vars
  BY <1>2, <1>31 DEF vars
<1> QED
  BY <1>7, <1>8, <1>9, <1>10, <1>11, <1>12, <1>13, <1>14, <1>15, <1>16, <1>17, <1>18, <1>19,
     <1>20, <1>21, <1>22, <1>23, <1>24, <1>25, <1>26, <1>27, <1>28, <1>29, <1>30, <1>31
     DEF Next, Step, PipeStep

\* Types are kept.
LEMMA TypeStep == ASSUME TypeOK, Held, [Next]_vars PROVE TypeOK'
<1>1. ASSUME NEW p \in live,
             Expire(p) \/ Created(p) \/ ScanOne(p) \/ FreshOne(p) \/ LagOne(p)
               \/ \E s \in Snaps[p] : Move(p, s)
      PROVE  TypeOK'
  BY <1>1, TypeExpire, TypeCreated, TypeScanOne, TypeFreshOne, TypeLagOne, TypeMove
<1>2. ASSUME NEW d \in unsaid, Announce(d) PROVE TypeOK'
  BY <1>2, TypeAnnounce
<1>3. ASSUME Tick \/ Take \/ BeginRound \/ ReadSelf \/ Judge \/ Tell \/ FreshDone \/ LagHear
               \/ LagLeader \/ LagDone \/ JobFails
      PROVE  TypeOK'
  BY <1>3, TypeTick, TypeTake, TypeBeginRound, TypeReadSelf, TypeJudge, TypeTell, TypeFreshDone,
     TypeLagHear, TypeLagLeader, TypeLagDone, TypeJobFails
<1>4. ASSUME PipeTake \/ PipeReadBuy \/ PipeReadSell \/ PipePrice \/ PipeRank \/ PipeFails
      PROVE  TypeOK'
  BY <1>4, TypePipeTake, TypePipeReadBuy, TypePipeReadSell, TypePipePrice, TypePipeRank,
     TypePipeFails
<1>5. CASE UNCHANGED vars
  BY <1>5, TypeStutter
<1> QED
  BY <1>1, <1>2, <1>3, <1>4, <1>5 DEF Next, Step, PipeStep

\* In every state of every behaviour each variable has its type; what the
\* scanner and the pipeline hold is what their control points promise.
THEOREM TypeCorrect == Spec => [](TypeOK /\ Held)
<1>1. Init => TypeOK /\ Held
  BY TypeInit
<1>2. (TypeOK /\ Held) /\ [Next]_vars => (TypeOK /\ Held)'
  BY TypeStep, HeldStep
<1> QED
  BY <1>1, <1>2, PTL DEF Spec
-----------------------------------------------------------------------------
\* The deltas that are still to be handled.
Heard == unsaid \cup Range(news) \cup (IF pc = "self" THEN {me} ELSE {})

\* The head of a stream was in it, and so was all of the rest.
LEMMA RangeTail ==
  ASSUME NEW S, NEW s \in Seq(S), s # <<>>
  PROVE  Head(s) \in Range(s) /\ Range(Tail(s)) \subseteq Range(s)
<1>1. Len(s) \in Nat /\ Len(s) >= 1 /\ DOMAIN s = 1..Len(s) /\ Head(s) = s[1]
  OBVIOUS
<1>2. /\ DOMAIN Tail(s) = 1..(Len(s) - 1)
      /\ \A i \in 1..(Len(s) - 1) : Tail(s)[i] = s[i + 1]
  OBVIOUS
<1>3. \A i \in 1..(Len(s) - 1) : i + 1 \in 1..Len(s)
  BY <1>1
<1> QED
  BY <1>1, <1>2, <1>3 DEF Range

\* What is put at its end is in it besides.
LEMMA RangeAppend ==
  ASSUME NEW S, NEW s \in Seq(S), NEW e \in S
  PROVE  Range(Append(s, e)) = Range(s) \cup {e}
<1>1. /\ Len(s) \in Nat /\ DOMAIN s = 1..Len(s)
      /\ DOMAIN Append(s, e) = 1..(Len(s) + 1)
      /\ \A i \in 1..Len(s) : Append(s, e)[i] = s[i]
      /\ Append(s, e)[Len(s) + 1] = e
  OBVIOUS
<1>2. \A i \in 1..(Len(s) + 1) : i \in 1..Len(s) \/ i = Len(s) + 1
  BY <1>1
<1>3. \A i \in 1..Len(s) : i \in 1..(Len(s) + 1)
  BY <1>1
<1>4. Len(s) + 1 \in 1..(Len(s) + 1)
  BY <1>1
<1> QED
  BY <1>1, <1>2, <1>3, <1>4 DEF Range

\* What is in a stream has the type of its entries.
LEMMA RangeIn == ASSUME NEW S, NEW s \in Seq(S) PROVE Range(s) \subseteq S
BY DEF Range

\* What is heard of are moves.
LEMMA HeardType == ASSUME TypeOK, Held PROVE Heard \subseteq Moves
<1>1. Range(news) \subseteq Moves
  BY RangeIn DEF TypeOK
<1>2. pc = "self" => me \in Moves
  BY NoneIs DEF TypeOK, Held
<1> QED
  BY <1>1, <1>2 DEF Heard, TypeOK

\* Deltas become more by a move or a creation only.
LEMMA HeardStep ==
  ASSUME TypeOK, Held, [Next]_vars
  PROVE  \/ Heard' \subseteq Heard /\ UNCHANGED age
         \/ \E p \in live : Created(p) \/ \E s \in Snaps[p] : Move(p, s)
         \/ Tick
<1>1. ASSUME UNCHANGED <<unsaid, news, age>>, pc' = "self" => pc = "self" /\ UNCHANGED me
      PROVE  Heard' \subseteq Heard /\ UNCHANGED age
  BY <1>1 DEF Heard
<1>2. ASSUME NEW d \in unsaid, Announce(d) PROVE Heard' \subseteq Heard /\ UNCHANGED age
  <2>1. d \in Moves /\ news \in Seq(Moves)
    BY DEF TypeOK
  <2>2. Range(news') \subseteq Range(news) \cup {d}
    <3>1. news' = news \/ news' = Append(news, d)
      BY <1>2 DEF Announce
    <3>2. Range(Append(news, d)) = Range(news) \cup {d}
      BY <2>1, RangeAppend
    <3>3. CASE news' = news
      BY <3>3 DEF Range
    <3>4. CASE news' = Append(news, d)
      <4>1. Range(news') = Range(Append(news, d))
        BY <3>4 DEF Range
      <4> QED
        BY <3>2, <4>1
    <3> QED
      BY <3>1, <3>3, <3>4
  <2> QED
    BY <1>2, <2>2 DEF Announce, Heard, scan
<1>3. CASE Take
  <2>1. Head(news) \in Range(news) /\ Range(Tail(news)) \subseteq Range(news)
    BY <1>3, RangeTail DEF Take, TypeOK
  <2>2. Range(news') \subseteq Range(news) /\ me' \in Range(news) /\ unsaid' = unsaid /\ age' = age
    BY <1>3, <2>1 DEF Take, env
  <2> QED
    BY <2>2 DEF Heard
<1>4. ASSUME NEW p \in live, Expire(p) \/ ScanOne(p) \/ FreshOne(p) \/ LagOne(p)
      PROVE  Heard' \subseteq Heard /\ UNCHANGED age
  <2>1. /\ UNCHANGED <<unsaid, news, age>>
        /\ pc' = "self" => pc = "self" /\ UNCHANGED me
    BY <1>4 DEF Expire, ScanOne, FreshOne, LagOne, Rest, env, scan
  <2> QED
    BY <1>1, <2>1
<1>5. CASE BeginRound \/ ReadSelf \/ Judge \/ Tell \/ FreshDone \/ LagDone \/ JobFails
  <2>1. /\ UNCHANGED <<unsaid, news, age>>
        /\ pc' = "self" => pc = "self" /\ UNCHANGED me
    BY <1>5 DEF BeginRound, ReadSelf, Judge, Tell, FreshDone, LagDone, JobFails, Rest, env
  <2> QED
    BY <1>1, <2>1
<1>6. CASE LagHear \/ LagLeader
  <2>1. UNCHANGED <<unsaid, news, age>> /\ pc' # "self"
    BY <1>6 DEF LagHear, LagLeader, Rest, env
  <2> QED
    BY <1>1, <2>1
<1>7. CASE PipeTake \/ PipeReadBuy \/ PipeReadSell \/ PipePrice \/ PipeRank \/ PipeFails
  <2>1. UNCHANGED <<unsaid, news, age, pc, me>>
    BY <1>7 DEF PipeTake, PipeReadBuy, PipeReadSell, PipePrice, PipeRank, PipeFails, env, scan
  <2> QED
    BY <1>1, <2>1
<1>8. CASE UNCHANGED vars
  BY <1>1, <1>8 DEF vars, env, scan
<1> QED
  BY <1>2, <1>3, <1>4, <1>5, <1>6, <1>7, <1>8 DEF Next, Step, PipeStep

\* No delta is younger than its pool's snapshot: either the snapshot was
\* written with it, or a later one has replaced that.
Dated == job = "lag" => \A d \in Heard : age[d.pool] <= d.age

\* Growing older keeps the order of two ages.
LEMMA OlderMono ==
  ASSUME NEW m \in 0..Old, NEW n \in 0..Old, m <= n
  PROVE  Older(m) <= Older(n)
<1>1. Older(m) = IF m = Old THEN Old ELSE m + 1
  BY OlderIs
<1>2. Older(n) = IF n = Old THEN Old ELSE n + 1
  BY OlderIs
<1> QED
  BY <1>1, <1>2, Bounds

\* A move that is to be heard is no younger than its pool's snapshot.
LEMMA DatedStep == ASSUME TypeOK, Held, Dated, [Next]_vars PROVE Dated'
<1>1. job' = job
  BY DEF Next, Step, PipeStep, Move, Announce, Expire, Created, Tick, Take, BeginRound, ReadSelf,
     ScanOne, Judge, Tell, FreshOne, FreshDone, LagHear, LagLeader, LagOne, LagDone, JobFails,
     PipeTake, PipeReadBuy, PipeReadSell, PipePrice, PipeRank, PipeFails, vars
<1>2. CASE Heard' \subseteq Heard /\ UNCHANGED age
  BY <1>1, <1>2 DEF Dated
<1>3. ASSUME NEW p \in live, NEW s \in Snaps[p], Move(p, s) PROVE Dated'
  <2>1. PICK new \in Moves : new.pool = p /\ new.age = 0 /\ Heard' \subseteq Heard \cup {new}
    <3>1. \E new \in Moves : new.pool = p /\ new.age = 0 /\ unsaid' \subseteq unsaid \cup {new}
      <4>1. CASE unsaid' = unsaid
        <5>1. [pool |-> p, age |-> 0, bps |-> 0] \in Moves
          BY LiveIs, Bounds DEF Moves
        <5> QED
          BY <4>1, <5>1
      <4>2. CASE unsaid' # unsaid
        <5>1. \E b : unsaid' = unsaid \cup {[pool |-> p, age |-> 0, bps |-> b]}
          BY <1>3, <4>2 DEF Move
        <5>2. unsaid' \subseteq Moves
          BY <1>3, TypeMove DEF TypeOK
        <5> QED
          BY <5>1, <5>2
      <4> QED
        BY <4>1, <4>2
    <3> QED
      BY <1>3, <3>1 DEF Move, Heard, scan
  <2>2. age' = [age EXCEPT ![p] = 0] /\ age \in [Pools -> 0..Old]
    BY <1>3 DEF Move, TypeOK
  <2>3. ASSUME NEW d \in Heard, job = "lag" PROVE age'[d.pool] <= d.age
    <3>1. d \in Moves /\ age[d.pool] <= d.age
      BY <2>3, HeardType DEF Dated
    <3>2. d.pool \in Pools /\ d.age \in 0..Old
      BY <3>1 DEF Moves
    <3> QED
      BY <2>2, <3>1, <3>2, Bounds
  <2>4. age'[p] = 0
    BY <2>2, LiveIs
  <2> QED
    BY <1>1, <2>1, <2>3, <2>4 DEF Dated
<1>4. CASE \E p \in live : Created(p)
  BY <1>4 DEF Created, Dated
<1>5. CASE Tick
  <2>1. ASSUME NEW d \in Heard'
        PROVE  \E e \in Heard : d = [e EXCEPT !.age = Older(@)]
    <3>1. CASE d \in unsaid'
      BY <1>5, <3>1 DEF Tick, Heard
    <3>2. CASE d \in Range(news')
      <4>1. news \in Seq(Moves)
        BY DEF TypeOK
      <4>2. \A i \in DOMAIN news : news[i] \in Moves
        BY <4>1
      <4>3. \A i \in DOMAIN news : news[i].age \in 0..Old /\ [news[i] EXCEPT !.age = Older(@)] \in Moves
        BY <4>2, OlderMove DEF Moves
      <4>4. /\ DOMAIN AgeAll(news) = DOMAIN news
            /\ \A i \in DOMAIN news : AgeAll(news)[i] = [news[i] EXCEPT !.age = Older(@)]
        BY <4>1, <4>3, AgeAllIs
      <4> QED
        BY <1>5, <3>2, <4>4 DEF Tick, Heard, Range
    <3>3. CASE pc' = "self" /\ d = me'
      <4>1. me # None
        BY <1>5, <3>3, HeardType, NoneIs DEF Tick, Heard
      <4> QED
        BY <1>5, <3>3, <4>1 DEF Tick, Heard
    <3> QED
      BY <3>1, <3>2, <3>3 DEF Heard
  <2>2. ASSUME NEW d \in Heard', job = "lag" PROVE age'[d.pool] <= d.age
    <3>1. PICK e \in Heard : d = [e EXCEPT !.age = Older(@)]
      BY <2>1
    <3>2. e \in Moves /\ age[e.pool] <= e.age
      BY <2>2, HeardType DEF Dated
    <3>3. e.pool \in Pools /\ e.age \in 0..Old /\ age[e.pool] \in 0..Old
      BY <3>2 DEF Moves, TypeOK
    <3>4. Older(age[e.pool]) <= Older(e.age)
      BY <3>2, <3>3, OlderMono
    <3>5. d.pool = e.pool /\ d.age = Older(e.age)
      BY <3>1, <3>2, OlderMove
    <3>6. age'[e.pool] = Older(age[e.pool])
      BY <1>5, <3>3 DEF Tick
    <3> QED
      BY <3>4, <3>5, <3>6
  <2> QED
    BY <1>1, <2>2 DEF Dated
<1> QED
  BY <1>2, <1>3, <1>4, <1>5, HeardStep

\* A large move of p that was taken in during the window is in the deque, no
\* older than it was then.
Remembers(p) ==
  big[p] <= Window =>
    \E i \in DOMAIN win[p] : 2 * win[p][i].bps >= MinMove /\ win[p][i].age <= big[p]
Remembered == \A p \in Pools : Remembers(p)

\* What is remembered ages with the large move it is measured against...
LEMMA RememberedTick == ASSUME TypeOK, Remembered, Tick PROVE Remembered'
<1> DEFINE E == [bps : Nat, age : 0..Old]
<1>1. ASSUME NEW p \in Pools, big'[p] <= Window
      PROVE  \E i \in DOMAIN win'[p] : 2 * win'[p][i].bps >= MinMove /\ win'[p][i].age <= big'[p]
  <2>1. big[p] \in 0..Old /\ big'[p] = Older(big[p])
    BY <1>1 DEF Tick, TypeOK
  <2>2. big'[p] = IF big[p] = Old THEN Old ELSE big[p] + 1
    BY <2>1, OlderIs
  <2>3. big[p] <= Window /\ big'[p] = big[p] + 1
    BY <1>1, <2>1, <2>2, Bounds
  <2>4. PICK i \in DOMAIN win[p] : 2 * win[p][i].bps >= MinMove /\ win[p][i].age <= big[p]
    BY <2>3 DEF Remembered, Remembers
  <2>5. win[p] \in Seq(E)
    BY DEF TypeOK
  <2>6. \A j \in DOMAIN win[p] : win[p][j] \in E
    <3> HIDE DEF E
    <3> QED
      BY <2>5
  <2>7. \A j \in DOMAIN win[p] : win[p][j].age \in 0..Old /\ [win[p][j] EXCEPT !.age = Older(@)] \in E
    BY <2>6, OlderIs
  <2>8. /\ DOMAIN AgeAll(win[p]) = DOMAIN win[p]
        /\ \A j \in DOMAIN win[p] : AgeAll(win[p])[j] = [win[p][j] EXCEPT !.age = Older(@)]
    <3> HIDE DEF E
    <3> QED
      BY <2>5, <2>7, AgeAllIs
  <2>9. win'[p] = AgeAll(win[p])
    BY DEF Tick
  <2>10. win'[p][i].bps = win[p][i].bps /\ win'[p][i].age = Older(win[p][i].age)
    BY <2>4, <2>6, <2>8, <2>9, ZenonT(60)
  <2>11. win'[p][i].age <= big'[p]
    BY <2>1, <2>4, <2>7, <2>10, OlderMono
  <2> QED
    BY <2>4, <2>8, <2>9, <2>10, <2>11
<1> QED
  BY <1>1 DEF Remembered, Remembers

\* ...and what is heard of is remembered with an age that is no larger.
LEMMA RememberedHear == ASSUME TypeOK, Held, Dated, Remembered, LagHear PROVE Remembered'
<1>1. CASE hot[me.pool] = None
  BY <1>1 DEF LagHear, Remembered, Remembers
<1>2. CASE hot[me.pool] # None
  <2> DEFINE E == [bps : Nat, age : 0..Old]
             e == [bps |-> me.bps, age |-> age[me.pool]]
             w == Append(win[me.pool], e)
             Kept(p) == big'[p] <= Window =>
                          \E i \in DOMAIN win'[p] :
                            2 * win'[p][i].bps >= MinMove /\ win'[p][i].age <= big'[p]
  <2>0. (\A p \in Pools : Kept(p)) => Remembered'
    BY DEF Remembered, Remembers
  <2>1. /\ me \in Moves /\ e \in E /\ w \in Seq(E)
        /\ \A i \in DOMAIN w : w[i].age \in Nat
        /\ win' = [win EXCEPT ![me.pool] = Trim(w)]
    BY <1>2, HearTrims
  <2>2. me.pool \in Pools /\ me.bps \in Nat /\ me.age \in 0..Old
    BY <2>1 DEF Moves
  <2>3. \A i \in DOMAIN w : w[i].age <= Window => \E j \in DOMAIN Trim(w) : Trim(w)[j] = w[i]
    <3> HIDE DEF E, w
    <3> QED
      BY <2>1, TrimIs
  <2>4. win[me.pool] \in Seq(E)
    BY <2>2 DEF TypeOK
  <2>5. /\ \A i \in DOMAIN win[me.pool] : i \in DOMAIN w /\ w[i] = win[me.pool][i]
        /\ \E i \in DOMAIN w : w[i] = e
    <3>1. Len(win[me.pool]) \in Nat /\ DOMAIN win[me.pool] = 1..Len(win[me.pool])
      BY <2>4
    <3>2. /\ DOMAIN w = 1..(Len(win[me.pool]) + 1)
          /\ \A i \in 1..Len(win[me.pool]) : w[i] = win[me.pool][i]
          /\ w[Len(win[me.pool]) + 1] = e
      <4> HIDE DEF E, e
      <4> QED
        BY <2>1, <2>4
    <3>3. /\ \A i \in 1..Len(win[me.pool]) : i \in 1..(Len(win[me.pool]) + 1)
          /\ Len(win[me.pool]) + 1 \in 1..(Len(win[me.pool]) + 1)
      BY <3>1
    <3> HIDE DEF e, w
    <3> QED
      BY <3>1, <3>2, <3>3
  <2>6. ASSUME NEW p \in Pools, p # me.pool PROVE Kept(p)
    <3>1. win'[p] = win[p] /\ big'[p] = big[p]
      BY <1>2, <2>1, <2>6 DEF LagHear, TypeOK
    <3> QED
      BY <3>1 DEF Remembered, Remembers
  <2>7. win'[me.pool] = Trim(w)
    BY <2>1, <2>2 DEF TypeOK
  <2>8. CASE 2 * me.bps >= MinMove
    <3>1. big'[me.pool] = me.age
      BY <1>2, <2>2, <2>8 DEF LagHear, TypeOK
    <3>2. age[me.pool] <= me.age /\ age[me.pool] \in 0..Old
      <4>1. me \in Heard /\ job = "lag"
        BY DEF LagHear, Heard
      <4> QED
        BY <4>1, <2>2 DEF Dated, TypeOK
    <3>3. PICK i \in DOMAIN w : w[i] = e
      BY <2>5
    <3>4. ASSUME me.age <= Window
          PROVE  \E j \in DOMAIN Trim(w) : 2 * Trim(w)[j].bps >= MinMove /\ Trim(w)[j].age <= me.age
      <4>1. w[i].age <= Window
        BY <2>2, <3>2, <3>3, <3>4, Bounds
      <4>2. PICK j \in DOMAIN Trim(w) : Trim(w)[j] = w[i]
        BY <2>3, <4>1
      <4>3. Trim(w)[j].bps = me.bps /\ Trim(w)[j].age = age[me.pool]
        BY <3>3, <4>2
      <4> QED
        BY <2>8, <3>2, <4>3
    <3>5. Kept(me.pool)
      BY <2>7, <3>1, <3>4
    <3> QED
      BY <2>0, <2>6, <3>5
  <2>9. CASE ~(2 * me.bps >= MinMove)
    <3>1. big' = big
      BY <1>2, <2>9 DEF LagHear
    <3>2. ASSUME big[me.pool] <= Window
          PROVE  \E j \in DOMAIN Trim(w) :
                   2 * Trim(w)[j].bps >= MinMove /\ Trim(w)[j].age <= big[me.pool]
      <4>1. PICK i \in DOMAIN win[me.pool] :
              2 * win[me.pool][i].bps >= MinMove /\ win[me.pool][i].age <= big[me.pool]
        BY <2>2, <3>2 DEF Remembered, Remembers
      <4>2. i \in DOMAIN w /\ w[i] = win[me.pool][i] /\ w[i].age \in Nat /\ big[me.pool] \in Nat
        BY <2>1, <2>2, <2>5, <4>1, Bounds, SMTT(30) DEF TypeOK
      <4>3. w[i].age <= Window
        BY ONLY <3>2, <4>1, <4>2, Bounds, SMTT(30)
      <4>4. PICK j \in DOMAIN Trim(w) : Trim(w)[j] = w[i]
        BY <2>3, <4>2, <4>3
      <4> QED
        BY <4>1, <4>2, <4>4
    <3>3. Kept(me.pool)
      BY <2>7, <3>1, <3>2
    <3> QED
      BY <2>0, <2>6, <3>3
  <2> QED
    BY <2>8, <2>9
<1> QED
  BY <1>1, <1>2

\* Remembered is kept.
LEMMA RememberedStep ==
  ASSUME TypeOK, Held, Dated, Remembered, [Next]_vars
  PROVE  Remembered'
<1>1. ASSUME UNCHANGED <<win, big>> PROVE Remembered'
  BY <1>1 DEF Remembered, Remembers
<1>2. \/ UNCHANGED <<win, big>>
      \/ Tick \/ LagHear
  <2>1. ASSUME NEW p \in live,
               Expire(p) \/ Created(p) \/ ScanOne(p) \/ FreshOne(p) \/ LagOne(p)
                 \/ \E s \in Snaps[p] : Move(p, s)
        PROVE  UNCHANGED <<win, big>>
    BY <2>1 DEF Expire, Created, ScanOne, FreshOne, LagOne, Move, scan, history
  <2>2. ASSUME NEW d \in unsaid, Announce(d) PROVE UNCHANGED <<win, big>>
    BY <2>2 DEF Announce, scan
  <2>3. CASE Take \/ BeginRound \/ ReadSelf \/ Judge \/ Tell \/ FreshDone \/ LagLeader \/ LagDone
               \/ JobFails
    BY <2>3 DEF Take, BeginRound, ReadSelf, Judge, Tell, FreshDone, LagLeader, LagDone, JobFails,
       history
  <2>4. CASE PipeTake \/ PipeReadBuy \/ PipeReadSell \/ PipePrice \/ PipeRank \/ PipeFails
    BY <2>4 DEF PipeTake, PipeReadBuy, PipeReadSell, PipePrice, PipeRank, PipeFails, scan, history
  <2>5. CASE UNCHANGED vars
    BY <2>5 DEF vars, scan, history
  <2> QED
    BY <2>1, <2>2, <2>3, <2>4, <2>5 DEF Next, Step, PipeStep
<1> QED
  BY <1>1, <1>2, RememberedTick, RememberedHear

\* The least large move is an integer.
LEMMA MoveIs == MinMove \in Int
<1>1. MinSpread \div 2 \in Int
  BY Bounds
<1>2. Max({20, MinSpread \div 2}) \in {20, MinSpread \div 2}
  <2>1. \E x \in {20, MinSpread \div 2} : \A y \in {20, MinSpread \div 2} : x >= y
    BY <1>1
  <2> QED
    BY <2>1 DEF Max
<1> QED
  BY <1>1, <1>2 DEF MinMove

\* A pool that is named a laggard is still.
LEMMA LaggerStep ==
  ASSUME TypeOK, Held, Remembered, [Next]_vars, pc = "follow", NEW p \in Pools,
         cands' = Append(cands, [kind |-> "lagging", leader |-> me.pool, lagger |-> p])
  PROVE  big[p] > Window
<1>1. cands \in Seq(Candidates \cup LagEvents)
  BY DEF TypeOK
<1>2. cands' # cands /\ Len(cands') = Len(cands) + 1 /\ Last(cands').lagger = p
  BY <1>1 DEF Last
<1>3. ~PipeTake
  <2>1. ASSUME PipeTake PROVE FALSE
    <3>1. cands # <<>> /\ cands' = Tail(cands)
      BY <2>1 DEF PipeTake
    <3> QED
      BY <1>1, <1>2, <3>1
  <2> QED
    BY <2>1
<1>4. \E q \in live : LagOne(q)
  BY <1>2, <1>3 DEF Next, Step, PipeStep, Move, Announce, Expire, Created, Tick, Take, BeginRound,
     ReadSelf, ScanOne, Judge, Tell, FreshOne, FreshDone, LagHear, LagLeader, LagDone, JobFails,
     PipeReadBuy, PipeReadSell, PipePrice, PipeRank, PipeFails, vars
<1>5. PICK q \in live : LagOne(q)
  BY <1>4
<1>6. /\ Still(q)
      /\ cands' = Append(cands, [kind |-> "lagging", leader |-> me.pool, lagger |-> q])
  BY <1>2, <1>5 DEF LagOne
<1>7. p = q
  BY <1>1, <1>2, <1>6 DEF Last
<1>8. ASSUME big[p] <= Window PROVE FALSE
  <2>1. PICK i \in DOMAIN win[p] : 2 * win[p][i].bps >= MinMove
    BY <1>8 DEF Remembered, Remembers
  <2>2. 2 * win[p][i].bps < MinMove
    BY <1>6, <1>7 DEF Still
  <2>3. win[p] \in Seq([bps : Nat, age : 0..Old])
    BY DEF TypeOK
  <2>4. win[p][i].bps \in Nat
    <3> DEFINE E == [bps : Nat, age : 0..Old]
    <3>1. win[p][i] \in E
      <4>1. win[p] \in Seq(E) /\ i \in DOMAIN win[p]
        BY <2>1, <2>3
      <4> HIDE DEF E
      <4> QED
        BY <4>1
    <3> QED
      BY <3>1
  <2>5. MinMove \in Int
    BY MoveIs
  <2> QED
    BY <2>1, <2>2, <2>4, <2>5
<1>9. big[p] \in Nat
  BY Bounds DEF TypeOK
<1> QED
  BY <1>8, <1>9, Bounds

\* A laggard has not moved during the window.
THEOREM LaggersAreStill == Spec => LaggerStill
<1> DEFINE Inv == TypeOK /\ Held /\ Dated /\ Remembered
<1>1. Init => Inv
  <2>1. ASSUME Init PROVE Dated /\ Remembered
    <3>1. Heard = {}
      BY <2>1 DEF Init, Heard, Range
    <3>2. Remembered
      BY <2>1, Bounds DEF Init, Remembered, Remembers
    <3> QED
      BY <3>1, <3>2 DEF Dated
  <2> QED
    BY <2>1, TypeInit
<1>2. Inv /\ [Next]_vars => Inv'
  BY TypeStep, HeldStep, DatedStep, RememberedStep
<1>3. Inv /\ [Next]_vars =>
        [pc = "follow" => \A p \in Pools :
           cands' = Append(cands, [kind |-> "lagging", leader |-> me.pool, lagger |-> p])
             => big[p] > Window]_vars
  BY LaggerStep
<1> QED
  <2> HIDE DEF Inv
  <2> QED
    BY <1>1, <1>2, <1>3, PTL DEF Spec, LaggerStill
-----------------------------------------------------------------------------
\* The canonical groups of a pool's tokens, in the pool's order.
Canon(p) ==
  <<GroupOf(Attr[p].chain, Attr[p].token0), GroupOf(Attr[p].chain, Attr[p].token1)>>

\* Two pools are compared, within a chain or within canonical groups.
Near(c) ==
  /\ c.buy # c.sell
  /\ Attr[c.buy].chain = Attr[c.sell].chain \/ Canon(c.buy) = Canon(c.sell)

Compared ==
  /\ \A c \in found : Near(c)
  /\ \A c \in Range(cands) : c \in Candidates => Near(c)
  /\ ppc # "idle" => Near(cand)

\* A token is in its group, which is canonical or the token alone.
LEMMA GroupIs ==
  ASSUME NEW c, NEW t
  PROVE  /\ <<c, t>> \in GroupOf(c, t)
         /\ GroupOf(c, t) \in Canonical \/ GroupOf(c, t) = {<<c, t>>}
<1>1. CASE \E g \in Canonical : <<c, t>> \in g
  <2> DEFINE h == CHOOSE g \in Canonical : <<c, t>> \in g
  <2>1. h \in Canonical /\ <<c, t>> \in h
    BY <1>1
  <2> QED
    BY <1>1, <2>1 DEF GroupOf
<1>2. CASE ~ \E g \in Canonical : <<c, t>> \in g
  BY <1>2 DEF GroupOf
<1> QED
  BY <1>1, <1>2

\* Two tokens with one address and canonical groups are one token.
LEMMA OneAddress ==
  ASSUME NEW g \in Canonical, NEW h \in Canonical, NEW c, NEW d, NEW t,
         <<c, t>> \in g, <<d, t>> \in h
  PROVE  c = d
<1>1. \A x \in g, y \in h : x[2] = y[2] => x = y
  BY ScannerAssumption DEF ScannerAssumption
<1>2. <<c, t>>[2] = <<d, t>>[2]
  OBVIOUS
<1>3. <<c, t>> = <<d, t>>
  BY <1>1, <1>2
<1> QED
  BY <1>3

\* Pairs of the same groups and the same addresses are of one chain, in
\* whatever order each has its tokens.
LEMMA OneChain ==
  ASSUME NEW c, NEW d, NEW a0, NEW a1, NEW b0, NEW b1, {a0, a1} = {b0, b1},
         GroupOf(c, a0) = GroupOf(d, b0), GroupOf(c, a1) = GroupOf(d, b1)
  PROVE  c = d
<1>0. ASSUME NEW a, NEW b, GroupOf(c, a) = GroupOf(d, b), GroupOf(c, a) = {<<c, a>>}
      PROVE  c = d
  <2>1. <<d, b>> \in {<<c, a>>}
    BY <1>0, GroupIs
  <2> QED
    BY <2>1
<1>1. CASE GroupOf(c, a0) = {<<c, a0>>}
  BY <1>0, <1>1
<1>2. CASE GroupOf(c, a1) = {<<c, a1>>}
  BY <1>0, <1>2
<1>3. CASE GroupOf(c, a0) \in Canonical /\ GroupOf(c, a1) \in Canonical
  <2>1. CASE a0 = b0
    BY <1>3, <2>1, GroupIs, OneAddress
  <2>2. CASE a0 = b1
    \* <<c, a0>> and <<d, a0>> are in the groups of the two tokens
    <3>1. <<c, a0>> \in GroupOf(c, a0) /\ <<d, a0>> \in GroupOf(c, a1)
      BY <2>2, GroupIs
    <3> QED
      BY <1>3, <3>1, OneAddress
  <2> QED
    BY <2>1, <2>2
<1> QED
  BY <1>1, <1>2, <1>3, GroupIs

\* What a pass finds are two pools that are compared...
LEMMA JudgeNear == ASSUME TypeOK, Judge PROVE \A c \in found' : Near(c)
<1> SUFFICES ASSUME NEW c \in found' PROVE Near(c)
  OBVIOUS
<1>1. PICK pick \in [Groups -> UNION {Outcomes(G) : G \in Groups}] :
        /\ \A G \in Groups : pick[G] \in Outcomes(G)
        /\ found' = UNION {pick[G] : G \in Groups}
  BY JudgeFinds
<1>2. PICK G \in Groups : c \in pick[G]
  BY <1>1
<1>3. PICK o \in Outcomes(G) : c \in o
  BY <1>1, <1>2
<1>4. PICK x \in Lowest(G), y \in Highest(G) :
        c = Candidate(x, y, KindOf(x, y)) /\ ~Refused(x, y)
  BY <1>3, OutcomeIs
<1>5. x \in seen /\ y \in seen /\ KeyOf(x) = KeyOf(y)
  BY <1>2 DEF Groups, Lowest, Highest
<1>6. x \in Snapshots /\ y \in Snapshots
  BY <1>5 DEF TypeOK
<1>7. c.buy = x.pool /\ c.sell = y.pool
  BY <1>4 DEF Candidate
<1>8. ~Refused(x, y)
  BY <1>4
<1>9. CASE job = "state"
  BY <1>5, <1>7, <1>8, <1>9 DEF KeyOf, PairOf, Refused, Near
<1>10. CASE job # "state"
  BY <1>5, <1>6, <1>7, <1>8, <1>10, SnapshotIs DEF KeyOf, Canon, Refused, Near
<1> QED
  BY <1>9, <1>10

\* ...and so are those of a new pool's candidate.
LEMMA FreshNear ==
  ASSUME TypeOK, Held, NEW p \in live, FreshOne(p)
  PROVE  UNCHANGED cands \/ \E c \in Candidates : cands' = Append(cands, c) /\ Near(c)
<1>1. p # me.pool /\ Attr[p].chain = Attr[me.pool].chain
  BY DEF FreshOne, Held
<1>2. \A c : {c.buy, c.sell} = {me.pool, p} => Near(c)
  BY <1>1 DEF Near
<1> QED
  BY <1>2, FreshFinds

\* What is put at the end of the stream, or taken from its head, leaves the
\* rest as it is.
LEMMA ComparedAppend ==
  ASSUME TypeOK, Compared, NEW c \in Candidates \cup LagEvents, c \in Candidates => Near(c),
         cands' = Append(cands, c)
  PROVE  \A x \in Range(cands') : x \in Candidates => Near(x)
<1>1. Range(Append(cands, c)) = Range(cands) \cup {c}
  BY RangeAppend DEF TypeOK
<1>2. Range(cands') = Range(Append(cands, c))
  BY DEF Range
<1> QED
  BY <1>1, <1>2 DEF Compared

\* Compared is kept: candidates travel unchanged.
LEMMA ComparedStep == ASSUME TypeOK, Held, Compared, [Next]_vars PROVE Compared'
<1> DEFINE Stream == \A x \in Range(cands) : x \in Candidates => Near(x)
           StreamNext == \A x \in Range(cands') : x \in Candidates => Near(x)
<1>0. /\ Stream /\ \A c \in found : Near(c)
      /\ ppc # "idle" => Near(cand)
  BY DEF Compared
<1>1. ASSUME found' \subseteq found, StreamNext, UNCHANGED <<ppc, cand>> PROVE Compared'
  BY <1>0, <1>1 DEF Compared, Near
<1>2. ASSUME UNCHANGED cands PROVE StreamNext
  BY <1>0, <1>2 DEF Range
<1>3. ASSUME UNCHANGED <<found, cands>>, ppc' = "idle" \/ (cand' = cand /\ ppc # "idle") \/ UNCHANGED <<ppc, cand>>
      PROVE  Compared'
  <2>1. ppc' # "idle" => Near(cand')
    BY <1>0, <1>3
  <2> QED
    BY <1>0, <1>2, <1>3, <2>1 DEF Compared, Near, StreamNext
<1> HIDE DEF Stream, StreamNext
<1>4. ASSUME NEW p \in live, Expire(p) \/ Created(p) \/ ScanOne(p) \/ \E s \in Snaps[p] : Move(p, s)
      PROVE  Compared'
  <2>1. UNCHANGED <<found, cands, ppc, cand>>
    BY <1>4 DEF Expire, Created, ScanOne, Move, scan, pipe
  <2> QED
    BY <1>3, <2>1
<1>5. ASSUME NEW d \in unsaid, Announce(d) PROVE Compared'
  <2>1. UNCHANGED <<found, cands, ppc, cand>>
    BY <1>5 DEF Announce, scan, pipe
  <2> QED
    BY <1>3, <2>1
<1>6. CASE Tick \/ Take \/ BeginRound \/ ReadSelf \/ FreshDone \/ LagHear \/ LagLeader \/ LagDone
             \/ JobFails
  <2>1. UNCHANGED <<found, cands, ppc, cand>>
    BY <1>6 DEF Tick, Take, BeginRound, ReadSelf, FreshDone, LagHear, LagLeader, LagDone,
       JobFails, Rest, pipe
  <2> QED
    BY <1>3, <2>1
<1>7. CASE Judge
  <2>1. UNCHANGED <<cands, ppc, cand>>
    BY <1>7 DEF Judge, pipe
  <2> QED
    BY <1>0, <1>2, <1>7, <2>1, JudgeNear DEF Compared, Near, StreamNext
<1>8. CASE Tell
  <2>1. CASE found = {}
    <3>1. UNCHANGED <<found, cands, ppc, cand>>
      BY <1>8, <2>1 DEF Tell, Rest, pipe
    <3> QED
      BY <1>3, <3>1
  <2>2. CASE found # {}
    <3>1. PICK c \in found : cands' = Append(cands, c) /\ found' = found \ {c}
      BY <1>8, <2>2 DEF Tell
    <3>2. c \in Candidates /\ Near(c)
      BY <1>0 DEF TypeOK
    <3>3. StreamNext
      BY <3>1, <3>2, ComparedAppend DEF StreamNext
    <3> QED
      BY <1>1, <1>8, <3>1, <3>3 DEF Tell, pipe
  <2> QED
    BY <2>1, <2>2
<1>9. ASSUME NEW p \in live, FreshOne(p) PROVE Compared'
  <2>1. UNCHANGED <<found, ppc, cand>>
    BY <1>9 DEF FreshOne, pipe
  <2>2. StreamNext
    <3>1. CASE UNCHANGED cands
      BY <1>2, <3>1
    <3>2. CASE \E c \in Candidates : cands' = Append(cands, c) /\ Near(c)
      BY <3>2, ComparedAppend DEF StreamNext
    <3> QED
      BY <1>9, <3>1, <3>2, FreshNear
  <2> QED
    BY <1>1, <2>1, <2>2
<1>10. ASSUME NEW p \in live, LagOne(p) PROVE Compared'
  <2>1. UNCHANGED <<found, ppc, cand>>
    BY <1>10 DEF LagOne, Rest, pipe
  <2>2. StreamNext
    <3>1. CASE UNCHANGED cands
      BY <1>2, <3>1
    <3>2. CASE cands' # cands
      <4> DEFINE e == [kind |-> "lagging", leader |-> me.pool, lagger |-> p]
      <4>1. cands' = Append(cands, e)
        BY <1>10, <3>2 DEF LagOne
      <4>2. e \notin Candidates
        BY DEF Candidates
      <4>3. me.pool \in Pools /\ p \in Pools
        BY <1>10, NoneIs, LiveIs DEF LagOne, TypeOK, Held, Moves
      <4>4. e \in LagEvents
        BY <4>3 DEF LagEvents
      <4> HIDE DEF e
      <4> QED
        BY <4>1, <4>2, <4>4, ComparedAppend DEF StreamNext
    <3> QED
      BY <3>1, <3>2
  <2> QED
    BY <1>1, <2>1, <2>2
<1>11. CASE PipeTake
  <2>1. cands \in Seq(Candidates \cup LagEvents) /\ cands # <<>> /\ cands' = Tail(cands)
    BY <1>11 DEF PipeTake, TypeOK
  <2>2. Head(cands) \in Range(cands) /\ Range(Tail(cands)) \subseteq Range(cands)
    BY <2>1, RangeTail
  <2>3. Head(cands) \in Candidates \cup LagEvents
    BY <2>1
  <2>4. Range(cands') = Range(Tail(cands))
    BY <2>1 DEF Range
  <2>5. StreamNext
    BY <1>0, <2>2, <2>4 DEF Stream, StreamNext
  <2>6. ppc' # "idle" => cand' = Head(cands) /\ Head(cands).kind # "lagging"
    BY <1>11 DEF PipeTake
  <2>7. Head(cands).kind # "lagging" => Near(Head(cands))
    BY <1>0, <2>2, <2>3 DEF LagEvents, Stream
  <2>8. found' = found
    BY <1>11 DEF PipeTake, scan
  <2> QED
    BY <1>0, <2>5, <2>6, <2>7, <2>8 DEF Compared, Near, StreamNext
<1>12. CASE PipeReadBuy \/ PipeReadSell \/ PipePrice \/ PipeRank \/ PipeFails
  BY <1>3, <1>12 DEF PipeReadBuy, PipeReadSell, PipePrice, PipeRank, PipeFails, Ends, scan
<1>13. CASE UNCHANGED vars
  <2>1. UNCHANGED <<found, cands, ppc, cand>>
    BY <1>13 DEF vars, scan, pipe
  <2> QED
    BY <1>3, <2>1
<1> QED
  BY <1>4, <1>5, <1>6, <1>7, <1>8, <1>9, <1>10, <1>11, <1>12, <1>13 DEF Next, Step, PipeStep

\* The simulator finds nothing between pools of other addresses.
LEMMA RankedMatch ==
  ASSUME NEW kind, NEW spread, NEW b, NEW s, NEW u, Ranks(kind, spread, b, s, u)
  PROVE  Tokens(b) = Tokens(s)
<1>1. PICK best \in Best(b, s, u) : best.feasible
  BY DEF Ranks
<1>2. PICK n \in Sizes : best = Simulate(b, s, n, u)
  BY DEF Best
<1>3. ASSUME ~Matches(b, s) PROVE FALSE
  <2>1. best = Infeasible(n)
    BY <1>2, <1>3 DEF Simulate
  <2> QED
    BY <1>1, <2>1 DEF Infeasible
<1> QED
  BY <1>3 DEF Matches

\* What is ranked is of one chain: the cross-chain loop pairs tokens of a
\* canonical group (scanner.py:173-177), whose addresses differ, and the
\* simulator wants the same addresses (simulator.py:113).
RankedOneChain == ranked # None => ranked.buy.chain = ranked.sell.chain

\* What is ranked matches, so that the groups' pools are of one chain.
LEMMA OneChainStep ==
  ASSUME TypeOK, Held, Compared, RankedOneChain, [Next]_vars
  PROVE  RankedOneChain'
<1>1. CASE UNCHANGED ranked
  BY <1>1 DEF RankedOneChain
<1>2. CASE PipeRank /\ ranked' # ranked
  <2>1. /\ Ranks(cand.kind, cand.spread, buy, sell, usd)
        /\ ranked' = [kind |-> cand.kind, buy |-> buy, sell |-> sell]
        /\ ppc = "judge"
    BY <1>2 DEF PipeRank
  <2>2. /\ buy \in Snapshots /\ buy.pool = cand.buy
        /\ sell \in Snapshots /\ sell.pool = cand.sell
        /\ Near(cand)
    BY <2>1 DEF Held, Compared
  <2>3. Tokens(buy) = Tokens(sell)
    BY <2>1, RankedMatch
  <2>4. ASSUME Canon(cand.buy) = Canon(cand.sell) PROVE buy.chain = sell.chain
    <3>1. /\ GroupOf(buy.chain, buy.token0) = GroupOf(sell.chain, sell.token0)
          /\ GroupOf(buy.chain, buy.token1) = GroupOf(sell.chain, sell.token1)
      BY <2>2, <2>4, SnapshotIs DEF Canon
    <3> QED
      BY <2>3, <3>1, OneChain DEF Tokens
  <2>5. ASSUME Attr[cand.buy].chain = Attr[cand.sell].chain PROVE buy.chain = sell.chain
    BY <2>2, <2>5, SnapshotIs
  <2>6. buy.chain = sell.chain
    BY <2>2, <2>4, <2>5 DEF Near
  <2> QED
    BY <2>1, <2>6 DEF RankedOneChain
<1>3. UNCHANGED ranked \/ PipeRank
  BY DEF Next, Step, PipeStep, Move, Announce, Expire, Created, Tick, Take, BeginRound, ReadSelf,
     ScanOne, Judge, Tell, FreshOne, FreshDone, LagHear, LagLeader, LagOne, LagDone, JobFails,
     PipeTake, PipeReadBuy, PipeReadSell, PipePrice, PipeFails, vars, pipe
<1> QED
  BY <1>1, <1>2, <1>3

\* No opportunity between chains is ever ranked, whatever the tokens, pools
\* and bridges, although the cross-chain loop looks for nothing else and the
\* simulator charges the bridge (scanner.py:166-203, simulator.py:113, 179-189):
\* that BridgedRanked fails does not depend on the instance.
THEOREM NoneAcrossChains == Spec => []RankedOneChain
<1> DEFINE Inv == TypeOK /\ Held /\ Compared /\ RankedOneChain
<1>1. Init => Inv
  <2>1. ASSUME Init PROVE Compared /\ RankedOneChain
    BY <2>1 DEF Init, Compared, RankedOneChain, Range
  <2> QED
    BY <2>1, TypeInit
<1>2. Inv /\ [Next]_vars => Inv'
  BY TypeStep, HeldStep, ComparedStep, OneChainStep
<1> QED
  <2> HIDE DEF Inv
  <2>1. Inv => RankedOneChain
    BY DEF Inv
  <2> QED
    BY <1>1, <1>2, <2>1, PTL DEF Spec
-----------------------------------------------------------------------------
\* What a pair's pools in L show, and whether a verdict is right for it.
ShownIn(h, k, L) == {State(p, h[p]) : p \in {q \in L : PairOf(q) = k /\ h[q] # None}}

DexKind(cheap, dear) == IF cheap.dex = dear.dex THEN "intra-dex" ELSE "cross-dex"

Told(S, v) ==
  IF \E x, y \in S : SpreadBps(Price(x), Price(y)) >= MinSpread
  THEN \E x \in Lowest(S), y \in Highest(S) : \E c \in v : c = Candidate(x, y, DexKind(x, y))
  ELSE v = {}

\* A delta of the pair is to be handled, and its pool is still there.
Waiting(k) == \E d \in Heard : d.pool \in live /\ PairOf(d.pool) = k /\ hot[d.pool] # None

\* A pass over the pair is under way; it has seen what it has read as it is.
Reading(k) == pc = "scan" /\ k[2] = Tokens(Attr[me.pool])
SeenRight(k) == {x \in seen : PairOf(x.pool) = k} = ShownIn(hot, k, live \ left)

\* The pair will be read again, is being read right, or was told of right.
Followed(k) ==
  Waiting(k) \/ IF Reading(k) THEN SeenRight(k) ELSE Told(ShownIn(hot, k, live), verdict[k])

UnsaidHot == \A d \in unsaid : d.pool \in live /\ hot[d.pool] # None
SeenScoped ==
  job = "state" /\ pc = "scan" => \A x \in seen : Tokens(Attr[x.pool]) = Tokens(Attr[me.pool])
StirredFollowed ==
  job = "state" /\ faults = 0 => \A k \in stirred : Aligned(k) => Followed(k)

\* The scene does not change.
LEMMA JobFixed == ASSUME [Next]_vars PROVE UNCHANGED <<job, live>>
BY DEF Next, Step, PipeStep, Move, Announce, Expire, Created, Tick, Take, BeginRound, ReadSelf,
   ScanOne, Judge, Tell, FreshOne, FreshDone, LagHear, LagLeader, LagOne, LagDone, JobFails,
   PipeTake, PipeReadBuy, PipeReadSell, PipePrice, PipeRank, PipeFails, vars

\* A pair stays right while neither its snapshots nor what was read of them
\* or told of it changes.
LEMMA FollowedKeeps ==
  ASSUME NEW k, Followed(k), Heard \subseteq Heard', UNCHANGED <<live, hot>>,
         Reading(k)' => Reading(k) /\ UNCHANGED <<seen, left>>,
         ~Reading(k)' => ~Reading(k) /\ verdict'[k] = verdict[k]
  PROVE  Followed(k)'
<1>1. CASE Waiting(k)
  BY <1>1 DEF Followed, Waiting
<1>2. CASE ~Waiting(k) /\ Reading(k)'
  <2>1. SeenRight(k)
    BY <1>2 DEF Followed
  <2>2. SeenRight(k)'
    BY <1>2, <2>1 DEF SeenRight
  <2> QED
    BY <1>2, <2>2 DEF Followed
<1>3. CASE ~Waiting(k) /\ ~Reading(k)'
  <2>1. Told(ShownIn(hot, k, live), verdict[k])
    BY <1>3 DEF Followed
  <2>2. Told(ShownIn(hot', k, live'), verdict'[k])
    BY <1>3, <2>1
  <2> QED
    BY <1>3, <2>2 DEF Followed
<1> QED
  BY <1>1, <1>2, <1>3

\* So it does when a pool of another pair moves or goes.
LEMMA FollowedOther ==
  ASSUME TypeOK, NEW p \in live, NEW v, NEW k, Followed(k), PairOf(p) # k,
         hot' = [hot EXCEPT ![p] = v], Heard \subseteq Heard',
         UNCHANGED <<live, pc, me, seen, left, verdict>>
  PROVE  Followed(k)'
<1>1. \A q : PairOf(q) = k => hot'[q] = hot[q] \/ q \notin Pools
  BY DEF TypeOK
<1>2. \A q \in live : PairOf(q) = k => hot'[q] = hot[q]
  BY <1>1, LiveIs
<1>3. ASSUME NEW L, L \subseteq live PROVE ShownIn(hot', k, L) = ShownIn(hot, k, L)
  <2>1. \A q \in L : PairOf(q) = k => hot'[q] = hot[q]
    BY <1>2, <1>3
  <2> QED
    BY <2>1 DEF ShownIn
<1>4. CASE Waiting(k)
  BY <1>2, <1>4 DEF Followed, Waiting
<1>5. CASE ~Waiting(k) /\ Reading(k)
  <2>1. SeenRight(k)
    BY <1>5 DEF Followed
  <2>2. ShownIn(hot', k, live \ left) = ShownIn(hot, k, live \ left)
    BY <1>3
  <2>3. SeenRight(k)' /\ Reading(k)'
    BY <1>5, <2>1, <2>2 DEF SeenRight, Reading
  <2> QED
    BY <2>3 DEF Followed
<1>6. CASE ~Waiting(k) /\ ~Reading(k)
  <2>1. Told(ShownIn(hot, k, live), verdict[k])
    BY <1>6 DEF Followed
  <2>2. ShownIn(hot', k, live) = ShownIn(hot, k, live)
    BY <1>3
  <2>3. Told(ShownIn(hot', k, live'), verdict'[k]) /\ ~Reading(k)'
    BY <1>6, <2>1, <2>2 DEF Reading
  <2> QED
    BY <2>3 DEF Followed
<1> QED
  BY <1>4, <1>5, <1>6

\* There is nothing else in it.
LEMMA RangeHead ==
  ASSUME NEW S, NEW s \in Seq(S), s # <<>>
  PROVE  Range(s) \subseteq {Head(s)} \cup Range(Tail(s))
<1>1. Len(s) \in Nat /\ Len(s) >= 1 /\ DOMAIN s = 1..Len(s) /\ Head(s) = s[1]
  OBVIOUS
<1>2. /\ DOMAIN Tail(s) = 1..(Len(s) - 1)
      /\ \A i \in 1..(Len(s) - 1) : Tail(s)[i] = s[i + 1]
  OBVIOUS
<1>3. \A i \in 1..Len(s) : i = 1 \/ (i - 1 \in 1..(Len(s) - 1) /\ (i - 1) + 1 = i)
  BY <1>1
<1> QED
  BY <1>1, <1>2, <1>3 DEF Range

\* A move is waiting then, if it is of the pair.
LEMMA FollowedMove ==
  ASSUME TypeOK, NEW p \in live, NEW s \in Snaps[p], Move(p, s), NEW k, Aligned(k), Followed(k)
  PROVE  Followed(k)'
<1>1. Heard \subseteq Heard'
  BY DEF Move, Heard, scan
<1>2. CASE PairOf(p) # k
  BY <1>1, <1>2, FollowedOther DEF Move, scan, history
<1>3. CASE PairOf(p) = k
  <2>1. Attr[p].curve # "whirlpool"
    BY <1>3 DEF Aligned
  <2>2. PICK d \in Heard' : d.pool = p
    <3>1. \E b : unsaid' = unsaid \cup {[pool |-> p, age |-> 0, bps |-> b]}
      BY <2>1 DEF Move
    <3>2. \E d \in unsaid' : d.pool = p
      <4>1. PICK b : [pool |-> p, age |-> 0, bps |-> b] \in unsaid'
        BY <3>1
      <4>2. [pool |-> p, age |-> 0, bps |-> b].pool = p
        OBVIOUS
      <4> QED
        BY <4>1, <4>2
    <3> QED
      BY <3>2 DEF Heard
  <2>3. hot'[p] # None
    <3>1. p \in Pools /\ hot'[p] = s
      BY LiveIs DEF Move, TypeOK
    <3> QED
      BY <3>1, ScannerAssumption DEF ScannerAssumption
  <2>4. live' = live
    BY DEF Move
  <2>5. Waiting(k)'
    BY <1>3, <2>2, <2>3, <2>4 DEF Waiting
  <2> QED
    BY <2>5 DEF Followed
<1> QED
  BY <1>2, <1>3

\* A pair that loses a pool is no longer stirred.
LEMMA FollowedExpire ==
  ASSUME TypeOK, NEW p \in live, Expire(p), NEW k \in stirred', Followed(k)
  PROVE  Followed(k)'
<1>1. Heard \subseteq Heard' /\ PairOf(p) # k
  BY DEF Expire, Heard, scan
<1> QED
  BY <1>1, FollowedOther DEF Expire, scan

\* An announced move is still to be handled.
LEMMA FollowedAnnounce ==
  ASSUME TypeOK, UnsaidHot, job = "state", NEW d \in unsaid, Announce(d), NEW k \in stirred',
         k \in stirred => Followed(k)
  PROVE  Followed(k)'
<1>1. d \in Moves /\ news \in Seq(Moves) /\ news' = Append(news, d)
  BY DEF TypeOK, Announce
<1>2. Range(news') = Range(news) \cup {d}
  <2>1. Range(Append(news, d)) = Range(news) \cup {d}
    BY <1>1, RangeAppend
  <2>2. Range(news') = Range(Append(news, d))
    BY <1>1 DEF Range
  <2> QED
    BY <2>1, <2>2
<1>3. Heard \subseteq Heard' /\ d \in Heard'
  BY <1>2 DEF Heard, Announce, scan
<1>4. CASE k = PairOf(d.pool)
  <2>1. d.pool \in live' /\ hot'[d.pool] # None
    BY DEF UnsaidHot, Announce
  <2>2. Waiting(k)'
    BY <1>3, <1>4, <2>1 DEF Waiting
  <2> QED
    BY <2>2 DEF Followed
<1>5. CASE k # PairOf(d.pool)
  <2>1. Followed(k)
    BY <1>5 DEF Announce
  <2>2. Reading(k)' <=> Reading(k)
    BY DEF Reading, Announce, scan
  <2> QED
    BY <1>3, <2>1, <2>2, FollowedKeeps DEF Announce, scan
<1> QED
  BY <1>4, <1>5

\* An event taken is handled, not forgotten.
LEMMA FollowedTake == ASSUME TypeOK, Take, NEW k, Followed(k) PROVE Followed(k)'
<1>1. Range(news) \subseteq {me'} \cup Range(news')
  <2>1. Range(news) \subseteq {Head(news)} \cup Range(Tail(news))
    BY RangeHead DEF Take, TypeOK
  <2>2. Range(news') = Range(Tail(news))
    BY DEF Take, Range
  <2> QED
    BY <2>1, <2>2 DEF Take
<1>2. Heard \subseteq Heard'
  BY <1>1 DEF Take, Heard, env
<1>3. ~Reading(k) /\ ~Reading(k)'
  BY DEF Take, Reading
<1> QED
  BY <1>2, <1>3, FollowedKeeps DEF Take, env, history

\* A pass begins having seen nothing of a pair, with all of it to read.
LEMMA FollowedReadSelf ==
  ASSUME TypeOK, job = "state", ReadSelf, NEW k, Aligned(k), Followed(k)
  PROVE  Followed(k)'
<1>1. UNCHANGED <<live, hot, unsaid, news, verdict, me>> /\ pc = "self" /\ pc' # "self"
  BY DEF ReadSelf, Rest, env, history
<1>2. Range(news') = Range(news)
  BY <1>1 DEF Range
<1>3. Heard' = unsaid \cup Range(news) /\ Heard = Heard' \cup {me}
  BY <1>1, <1>2 DEF Heard
<1>4. ~Reading(k)
  BY <1>1 DEF Reading
<1>5. ASSUME Waiting(k), ~Waiting(k)' PROVE Priced(me.pool) /\ PairOf(me.pool) = k
  <2>1. me.pool \in live /\ PairOf(me.pool) = k /\ hot[me.pool] # None
    BY <1>1, <1>3, <1>5 DEF Waiting
  <2>2. Attr[me.pool].curve # "whirlpool"
    BY <2>1 DEF Aligned
  <2>3. me.pool \in Pools /\ hot[me.pool] \in Snaps[me.pool]
    BY <2>1, LiveIs DEF TypeOK
  <2>4. implied_price[me.pool][hot[me.pool]] \in Positive
    BY <2>2, <2>3, PriceIs DEF implied_price
  <2> QED
    BY <2>1, <2>4 DEF Priced, Positive
<1>6. CASE ~Priced(me.pool)
  <2>1. pc' = "idle"
    BY <1>6 DEF ReadSelf, Rest
  <2>2. CASE Waiting(k)
    BY <1>5, <1>6, <2>2 DEF Followed
  <2>3. CASE ~Waiting(k)
    <3>1. Told(ShownIn(hot', k, live'), verdict'[k]) /\ ~Reading(k)'
      BY <1>1, <1>4, <2>1, <2>3 DEF Followed, Reading
    <3> QED
      BY <3>1 DEF Followed
  <2> QED
    BY <2>2, <2>3
<1>7. CASE Priced(me.pool)
  <2>1. pc' = "scan" /\ left' = live /\ seen' = {}
    BY <1>7 DEF ReadSelf
  <2>2. CASE Reading(k)'
    <3>1. ShownIn(hot', k, live' \ left') = {}
      BY <1>1, <2>1 DEF ShownIn
    <3>2. SeenRight(k)'
      BY <2>1, <3>1 DEF SeenRight
    <3> QED
      BY <2>2, <3>2 DEF Followed
  <2>3. CASE ~Reading(k)'
    <3>1. k[2] # Tokens(Attr[me.pool])
      BY <1>1, <2>1, <2>3 DEF Reading
    <3>2. PairOf(me.pool) # k
      BY <3>1 DEF PairOf
    <3>3. CASE Waiting(k)
      BY <1>5, <3>2, <3>3 DEF Followed
    <3>4. CASE ~Waiting(k)
      <4>1. Told(ShownIn(hot', k, live'), verdict'[k])
        BY <1>1, <1>4, <3>4 DEF Followed
      <4> QED
        BY <2>3, <4>1 DEF Followed
    <3> QED
      BY <3>3, <3>4
  <2> QED
    BY <2>2, <2>3
<1> QED
  BY <1>6, <1>7

\* What is read is seen as it is.
LEMMA FollowedScanOne ==
  ASSUME TypeOK, job = "state", NEW p \in live, ScanOne(p), NEW k, Followed(k)
  PROVE  Followed(k)'
<1>1. UNCHANGED <<live, hot, unsaid, news, verdict, me, pc>> /\ pc = "scan" /\ left' = left \ {p}
  BY DEF ScanOne, env, history
<1>2. Heard \subseteq Heard'
  <2>1. Range(news') = Range(news)
    BY <1>1 DEF Range
  <2> QED
    BY <1>1, <2>1 DEF Heard
<1>3. CASE Waiting(k)
  BY <1>1, <1>2, <1>3 DEF Followed, Waiting
<1>4. CASE ~Waiting(k) /\ ~Reading(k)
  <2>1. Told(ShownIn(hot', k, live'), verdict'[k]) /\ ~Reading(k)'
    BY <1>1, <1>4 DEF Followed, Reading
  <2> QED
    BY <2>1 DEF Followed
<1>5. CASE ~Waiting(k) /\ Reading(k)
  <2>1. SeenRight(k) /\ k[2] = Tokens(Attr[me.pool])
    BY <1>5 DEF Followed, Reading
  <2>2. live \ left' = (live \ left) \cup {p}
    BY <1>1
  <2>3. CASE PairOf(p) = k /\ hot[p] # None
    <3>1. InScope(p)
      BY <2>1, <2>3 DEF InScope, SamePair, PairOf
    <3>2. seen' = seen \cup {State(p, hot[p])}
      BY <2>3, <3>1 DEF ScanOne
    <3>3. State(p, hot[p]).pool = p
      BY LiveIs, StateOf
    <3>4. {x \in seen' : PairOf(x.pool) = k} = {x \in seen : PairOf(x.pool) = k} \cup {State(p, hot[p])}
      BY <2>3, <3>2, <3>3
    <3>5. ShownIn(hot, k, live \ left') = ShownIn(hot, k, live \ left) \cup {State(p, hot[p])}
      BY <2>2, <2>3 DEF ShownIn
    <3>6. {x \in seen' : PairOf(x.pool) = k} = ShownIn(hot', k, live' \ left')
      BY <1>1, <2>1, <3>4, <3>5 DEF SeenRight
    <3>7. SeenRight(k)'
      BY <3>6 DEF SeenRight
    <3> QED
      BY <1>1, <1>5, <3>7 DEF Followed, Reading
  <2>4. CASE ~(PairOf(p) = k /\ hot[p] # None)
    <3>1. \A x \in seen' \ seen : PairOf(x.pool) # k
      <4>1. seen' = seen \/ (seen' = seen \cup {State(p, hot[p])} /\ hot[p] # None)
        BY DEF ScanOne
      <4>2. State(p, hot[p]).pool = p
        BY LiveIs, StateOf
      <4> QED
        BY <2>4, <4>1, <4>2
    <3>2. seen \subseteq seen'
      BY DEF ScanOne
    <3>3. {x \in seen' : PairOf(x.pool) = k} = {x \in seen : PairOf(x.pool) = k}
      BY <3>1, <3>2
    <3>4. {q \in live \ left' : PairOf(q) = k /\ hot[q] # None}
            = {q \in live \ left : PairOf(q) = k /\ hot[q] # None}
      BY <2>2, <2>4
    <3>5. ShownIn(hot, k, live \ left') = ShownIn(hot, k, live \ left)
      BY <3>4 DEF ShownIn
    <3>6. {x \in seen' : PairOf(x.pool) = k} = ShownIn(hot', k, live' \ left')
      BY <1>1, <2>1, <3>3, <3>5 DEF SeenRight
    <3>7. SeenRight(k)'
      BY <3>6 DEF SeenRight
    <3> QED
      BY <1>1, <1>5, <3>7 DEF Followed, Reading
  <2> QED
    BY <2>3, <2>4
<1> QED
  BY <1>3, <1>4, <1>5

\* What a group gives is right for it, where its pools' prices are positive
\* and no two of its snapshots are of one pool.
LEMMA OutcomeTold ==
  ASSUME job = "state", NEW S, S # {}, NEW o \in Outcomes(S),
         \A x \in S : Price(x) \in Positive,
         \A x, y \in S : x.pool = y.pool => x = y
  PROVE  Told(S, o)
<1>1. PICK x \in Lowest(S), y \in Highest(S) :
        o = IF Refused(x, y) \/ SpreadBps(Price(x), Price(y)) < MinSpread THEN {}
            ELSE {Candidate(x, y, KindOf(x, y))}
  BY DEF Outcomes
<1>2. /\ x \in S /\ y \in S
      /\ \A z \in S : Price(x) <= Price(z) /\ Price(z) <= Price(y)
  BY DEF Lowest, Highest
<1>3. /\ Price(x) \in Positive /\ Price(y) \in Positive
      /\ SpreadBps(Price(x), Price(y)) \in 0..Bps
  BY <1>2, SpreadType DEF Positive
<1>4. MinSpread \in Nat \ {0} /\ Bps \in Nat
  BY Bounds DEF Bps
<1>5. CASE \E a, b \in S : SpreadBps(Price(a), Price(b)) >= MinSpread
  <2>1. PICK a \in S, b \in S : SpreadBps(Price(a), Price(b)) >= MinSpread
    BY <1>5
  <2>2. SpreadBps(Price(a), Price(b)) <= SpreadBps(Price(x), Price(y))
    BY <1>2, <1>3, SpreadWidens
  <2>3. SpreadBps(Price(a), Price(b)) \in 0..Bps
    BY SpreadType DEF Positive
  <2>4. ~(SpreadBps(Price(x), Price(y)) < MinSpread) /\ SpreadBps(Price(x), Price(y)) # 0
    <3> \A m, n \in 0..Bps : m >= MinSpread /\ m <= n => ~(n < MinSpread) /\ n # 0
      BY <1>4
    <3> QED
      BY <1>3, <2>1, <2>2, <2>3
  <2>5. ~Refused(x, y)
    <3>1. Price(x) # Price(y)
      BY <1>3, <2>4, SpreadType DEF Positive
    <3> QED
      BY <1>2, <3>1 DEF Refused
  <2>6. KindOf(x, y) = DexKind(x, y)
    BY DEF KindOf, DexKind
  <2>7. o = {Candidate(x, y, DexKind(x, y))}
    BY <1>1, <2>4, <2>5, <2>6
  <2> QED
    BY <1>5, <2>7 DEF Told
<1>6. CASE ~ \E a, b \in S : SpreadBps(Price(a), Price(b)) >= MinSpread
  <2>1. ~(SpreadBps(Price(x), Price(y)) >= MinSpread)
    BY <1>2, <1>6
  <2>2. SpreadBps(Price(x), Price(y)) < MinSpread
    <3> \A n \in 0..Bps : ~(n >= MinSpread) => n < MinSpread
      BY <1>4
    <3> QED
      BY <1>3, <2>1
  <2>3. o = {}
    BY <1>1, <2>2
  <2> QED
    BY <1>6, <2>3 DEF Told
<1> QED
  BY <1>5, <1>6

\* A pass that has seen a pair as it is tells right of it.
LEMMA JudgeTold ==
  ASSUME TypeOK, SeenScoped, job = "state", Judge, NEW k \in Pairs, Aligned(k),
         k[2] = Tokens(Attr[me.pool]), NEW S, S = {x \in seen : PairOf(x.pool) = k},
         S = ShownIn(hot, k, live)
  PROVE  Told(S, verdict'[k])
<1>1. PICK pick \in [Groups -> UNION {Outcomes(G) : G \in Groups}] :
        /\ \A G \in Groups : pick[G] \in Outcomes(G)
        /\ found' = UNION {pick[G] : G \in Groups}
        /\ verdict' = [m \in Pairs |->
                         IF job = "state" /\ m[2] = Tokens(Attr[me.pool])
                         THEN {c \in found' : Attr[c.buy].chain = m[1]} ELSE verdict[m]]
  BY JudgeFinds
<1>2. verdict'[k] = {c \in found' : Attr[c.buy].chain = k[1]}
  BY <1>1
<1>3. PICK r \in Pools : k = <<Attr[r].chain, Tokens(Attr[r])>>
  BY DEF Pairs, PairOf
<1>4. ASSUME NEW G \in Groups, NEW c \in pick[G]
      PROVE  \E x \in G : /\ c.buy = x.pool
                          /\ G = {z \in seen : PairOf(z.pool) = PairOf(x.pool)}
                          /\ Tokens(Attr[x.pool]) = k[2]
  <2>1. PICK o \in Outcomes(G) : c \in o
    BY <1>1
  <2>2. PICK x \in Lowest(G), y \in Highest(G) : c = Candidate(x, y, KindOf(x, y))
    BY <2>1, OutcomeIs
  <2>3. x \in G /\ c.buy = x.pool
    BY <2>2 DEF Lowest, Candidate
  <2>4. PICK m : G = {z \in seen : KeyOf(z) = m}
    BY DEF Groups
  <2>5. G = {z \in seen : PairOf(z.pool) = m}
    BY <2>4 DEF KeyOf
  <2>6. x \in seen /\ PairOf(x.pool) = m
    BY <2>3, <2>5
  <2>7. Tokens(Attr[x.pool]) = k[2]
    BY <2>6 DEF SeenScoped, Judge
  <2> QED
    BY <2>3, <2>5, <2>6, <2>7
<1>5. CASE S = {}
  <2>1. ASSUME NEW c \in verdict'[k] PROVE FALSE
    <3>1. PICK G \in Groups : c \in pick[G]
      BY <1>1, <1>2
    <3>2. PICK x \in G : /\ c.buy = x.pool
                         /\ G = {y \in seen : PairOf(y.pool) = PairOf(x.pool)}
                         /\ Tokens(Attr[x.pool]) = k[2]
      BY <1>4, <3>1
    <3>3. PairOf(x.pool) = k
      BY <1>2, <1>3, <3>2 DEF PairOf
    <3>4. x \in S
      BY <3>2, <3>3
    <3> QED
      BY <1>5, <3>4
  <2> QED
    BY <1>5, <2>1 DEF Told
<1>6. CASE S # {}
  <2>1. S \in Groups
    <3>1. PICK x \in S : TRUE
      BY <1>6
    <3>2. x \in seen /\ KeyOf(x) = k
      BY <3>1 DEF KeyOf
    <3>3. S = {y \in seen : KeyOf(y) = k}
      BY DEF KeyOf
    <3> QED
      BY <3>2, <3>3 DEF Groups
  <2>2. verdict'[k] \subseteq pick[S]
    <3> SUFFICES ASSUME NEW c \in verdict'[k] PROVE c \in pick[S]
      OBVIOUS
    <3>1. PICK G \in Groups : c \in pick[G]
      BY <1>1, <1>2
    <3>2. PICK x \in G : /\ c.buy = x.pool
                         /\ G = {y \in seen : PairOf(y.pool) = PairOf(x.pool)}
                         /\ Tokens(Attr[x.pool]) = k[2]
      BY <1>4, <3>1
    <3>3. PairOf(x.pool) = k
      BY <1>2, <1>3, <3>2 DEF PairOf
    <3>4. G = S
      BY <3>2, <3>3
    <3> QED
      BY <3>1, <3>4
  <2>3. pick[S] \subseteq verdict'[k]
    <3> SUFFICES ASSUME NEW c \in pick[S] PROVE c \in verdict'[k]
      OBVIOUS
    <3>1. PICK x \in S : c.buy = x.pool
      BY <1>4, <2>1
    <3>2. Attr[c.buy].chain = k[1]
      BY <1>3, <3>1 DEF PairOf
    <3> QED
      BY <1>1, <1>2, <2>1, <3>2
  <2>4. verdict'[k] = pick[S] /\ pick[S] \in Outcomes(S)
    BY <1>1, <2>1, <2>2, <2>3
  <2>5. ASSUME NEW x \in S
        PROVE  \E q \in live : x = State(q, hot[q]) /\ x.pool = q /\ Price(x) \in Positive
    <3>1. PICK q \in live : x = State(q, hot[q]) /\ PairOf(q) = k /\ hot[q] # None
      BY DEF ShownIn
    <3>2. q \in Pools /\ hot[q] \in Snaps[q] /\ Attr[q].curve # "whirlpool"
      BY <3>1, LiveIs DEF TypeOK, Aligned
    <3> QED
      BY <3>1, <3>2, PriceIs, StateOf
  <2>6. /\ \A x \in S : Price(x) \in Positive
        /\ \A x, y \in S : x.pool = y.pool => x = y
    BY <2>5
  <2>7. Told(S, pick[S])
    BY <1>6, <2>4, <2>6, OutcomeTold
  <2> QED
    BY <2>4, <2>7
<1> QED
  BY <1>5, <1>6

\* So the verdict takes the place of what was seen.
LEMMA FollowedJudge ==
  ASSUME TypeOK, SeenScoped, job = "state", Judge, NEW k \in Pairs, Aligned(k), Followed(k)
  PROVE  Followed(k)'
<1>1. /\ UNCHANGED <<live, hot, unsaid, news, me>>
      /\ pc = "scan" /\ pc' = "tell" /\ left = {}
  BY DEF Judge, env
<1>2. ~Reading(k)'
  BY <1>1 DEF Reading
<1>3. CASE Waiting(k)
  <2>1. Range(news') = Range(news)
    BY <1>1 DEF Range
  <2>2. Heard \subseteq Heard'
    BY <1>1, <2>1 DEF Heard
  <2> QED
    BY <1>1, <1>3, <2>2 DEF Followed, Waiting
<1>4. CASE ~Waiting(k) /\ ~Reading(k)
  <2>1. k[2] # Tokens(Attr[me.pool])
    BY <1>1, <1>4 DEF Reading
  <2>2. verdict'[k] = verdict[k]
    BY <2>1 DEF Judge
  <2>3. Told(ShownIn(hot', k, live'), verdict'[k])
    BY <1>1, <1>4, <2>2 DEF Followed
  <2> QED
    BY <1>2, <2>3 DEF Followed
<1>5. CASE ~Waiting(k) /\ Reading(k)
  <2>1. SeenRight(k) /\ k[2] = Tokens(Attr[me.pool])
    BY <1>5 DEF Followed, Reading
  <2>2. PICK S : S = {x \in seen : PairOf(x.pool) = k}
    OBVIOUS
  <2>3. live \ left = live
    BY <1>1
  <2>4. S = ShownIn(hot, k, live)
    BY <2>1, <2>2, <2>3 DEF SeenRight
  <2>5. Told(S, verdict'[k])
    BY <2>1, <2>2, <2>4, JudgeTold
  <2>6. Told(ShownIn(hot', k, live'), verdict'[k])
    BY <1>1, <2>4, <2>5
  <2> QED
    BY <1>2, <2>6 DEF Followed
<1> QED
  BY <1>3, <1>4, <1>5

\* A delta not yet published is of a live pool with a snapshot.
LEMMA UnsaidHotStep == ASSUME TypeOK, UnsaidHot, [Next]_vars PROVE UnsaidHot'
<1>0. live' = live
  BY JobFixed
<1>1. CASE UNCHANGED <<unsaid, hot>>
  BY <1>0, <1>1 DEF UnsaidHot
<1>2. ASSUME NEW p \in live, NEW s \in Snaps[p], Move(p, s) PROVE UnsaidHot'
  <2>1. p \in Pools /\ s # None
    BY LiveIs, ScannerAssumption DEF ScannerAssumption
  <2>2. \A d \in unsaid' : d \in unsaid \/ d.pool = p
    BY <1>2 DEF Move
  <2>3. hot' = [hot EXCEPT ![p] = s] /\ DOMAIN hot = Pools
    BY <1>2 DEF Move, TypeOK
  <2>4. ASSUME NEW d \in unsaid' PROVE d.pool \in live /\ hot'[d.pool] # None
    <3>1. CASE d.pool = p
      BY <2>1, <2>3, <3>1
    <3>2. CASE d.pool # p
      <4>1. d.pool \in live /\ hot[d.pool] # None
        BY <2>2, <2>4, <3>2 DEF UnsaidHot
      <4> QED
        BY <2>3, <3>2, <4>1, LiveIs
    <3> QED
      BY <3>1, <3>2
  <2> QED
    BY <1>0, <2>4 DEF UnsaidHot
<1>3. ASSUME NEW d \in unsaid, Announce(d) PROVE UnsaidHot'
  BY <1>0, <1>3 DEF Announce, UnsaidHot
<1>4. ASSUME NEW p \in live, Expire(p) PROVE UnsaidHot'
  <2>1. ASSUME NEW d \in unsaid PROVE hot'[d.pool] # None
    <3>1. d.pool \in Pools /\ d.pool # p /\ hot[d.pool] # None
      BY <1>4, LiveIs DEF Expire, UnsaidHot
    <3> QED
      BY <1>4, <3>1 DEF Expire, TypeOK
  <2> QED
    BY <1>0, <1>4, <2>1 DEF Expire, UnsaidHot
<1>5. CASE Tick
  <2>1. ASSUME NEW d \in unsaid' PROVE \E e \in unsaid : d.pool = e.pool
    <3>1. PICK e \in unsaid : d = [e EXCEPT !.age = Older(@)]
      BY <1>5 DEF Tick
    <3> QED
      BY <3>1, OlderMove DEF TypeOK
  <2>2. hot' = hot
    BY <1>5 DEF Tick
  <2> QED
    BY <1>0, <2>1, <2>2 DEF UnsaidHot
<1>6. ASSUME NEW p \in live, Created(p) \/ ScanOne(p) \/ FreshOne(p) \/ LagOne(p) PROVE UnsaidHot'
  <2>1. UNCHANGED <<unsaid, hot>>
    BY <1>6 DEF Created, ScanOne, FreshOne, LagOne, env
  <2> QED
    BY <1>1, <2>1
<1>7. CASE Take \/ BeginRound \/ ReadSelf \/ Judge \/ Tell \/ FreshDone \/ LagHear \/ LagLeader
             \/ LagDone \/ JobFails
  <2>1. UNCHANGED <<unsaid, hot>>
    BY <1>7 DEF Take, BeginRound, ReadSelf, Judge, Tell, FreshDone, LagHear, LagLeader, LagDone,
       JobFails, env
  <2> QED
    BY <1>1, <2>1
<1>8. CASE PipeTake \/ PipeReadBuy \/ PipeReadSell \/ PipePrice \/ PipeRank \/ PipeFails
  <2>1. UNCHANGED <<unsaid, hot>>
    BY <1>8 DEF PipeTake, PipeReadBuy, PipeReadSell, PipePrice, PipeRank, PipeFails, env
  <2> QED
    BY <1>1, <2>1
<1>9. CASE UNCHANGED vars
  BY <1>1, <1>9 DEF vars, env
<1> QED
  BY <1>2, <1>3, <1>4, <1>5, <1>6, <1>7, <1>8, <1>9 DEF Next, Step, PipeStep

\* A pass sees its event's pair alone.
LEMMA SeenScopedStep == ASSUME TypeOK, Held, SeenScoped, [Next]_vars PROVE SeenScoped'
<1>0. job' = job
  BY JobFixed
<1>1. ASSUME UNCHANGED <<pc, seen, me>> \/ pc' # "scan" \/ seen' = {} PROVE SeenScoped'
  BY <1>0, <1>1 DEF SeenScoped
<1>2. ASSUME NEW p \in live, ScanOne(p) PROVE SeenScoped'
  <2>1. State(p, hot[p]).pool = p
    BY LiveIs, StateOf
  <2>2. ASSUME NEW x \in seen', job = "state" PROVE Tokens(Attr[x.pool]) = Tokens(Attr[me.pool])
    <3>1. x \in seen \/ (InScope(p) /\ x = State(p, hot[p]))
      BY <1>2 DEF ScanOne
    <3> QED
      BY <1>2, <2>1, <2>2, <3>1 DEF ScanOne, SeenScoped, InScope, SamePair
  <2>3. me' = me
    BY <1>2 DEF ScanOne
  <2> QED
    BY <1>0, <2>2, <2>3 DEF SeenScoped
<1>3. ASSUME NEW p \in live,
             Expire(p) \/ Created(p) \/ FreshOne(p) \/ \E s \in Snaps[p] : Move(p, s)
      PROVE  SeenScoped'
  <2>1. UNCHANGED <<pc, seen, me>>
    BY <1>3 DEF Expire, Created, FreshOne, Move, scan
  <2> QED
    BY <1>1, <2>1
<1>4. ASSUME NEW d \in unsaid, Announce(d) PROVE SeenScoped'
  <2>1. UNCHANGED <<pc, seen, me>>
    BY <1>4 DEF Announce, scan
  <2> QED
    BY <1>1, <2>1
<1>5. CASE Tick
  BY <1>0, <1>5 DEF Tick, SeenScoped
<1>6. CASE Take \/ BeginRound \/ ReadSelf \/ Judge \/ FreshDone \/ LagHear \/ LagLeader \/ LagDone
             \/ JobFails
  <2>1. pc' # "scan" \/ seen' = {}
    BY <1>6 DEF Take, BeginRound, ReadSelf, Judge, FreshDone, LagHear, LagLeader, LagDone, JobFails,
       Rest
  <2> QED
    BY <1>1, <2>1
<1>7. CASE Tell
  <2>1. pc' # "scan"
    BY <1>7 DEF Tell, Rest
  <2> QED
    BY <1>1, <2>1
<1>8. ASSUME NEW p \in live, LagOne(p) PROVE SeenScoped'
  <2>1. pc' # "scan"
    BY <1>8 DEF LagOne, Rest
  <2> QED
    BY <1>1, <2>1
<1>9. CASE PipeTake \/ PipeReadBuy \/ PipeReadSell \/ PipePrice \/ PipeRank \/ PipeFails
  <2>1. UNCHANGED <<pc, seen, me>>
    BY <1>9 DEF PipeTake, PipeReadBuy, PipeReadSell, PipePrice, PipeRank, PipeFails, scan
  <2> QED
    BY <1>1, <2>1
<1>10. CASE UNCHANGED vars
  BY <1>1, <1>10 DEF vars, scan
<1> QED
  BY <1>2, <1>3, <1>4, <1>5, <1>6, <1>7, <1>8, <1>9, <1>10 DEF Next, Step, PipeStep

\* A stirred pair is followed, action by action.
LEMMA StirredFollowedStep ==
  ASSUME TypeOK, Held, UnsaidHot, SeenScoped, StirredFollowed, [Next]_vars
  PROVE  StirredFollowed'
<1>0. UNCHANGED <<job, live>>
  BY JobFixed
<1>1. \A k : Aligned(k)' <=> Aligned(k)
  BY <1>0 DEF Aligned
<1>2. (faults' = 0 => faults = 0) /\ ~(faults' = 0 /\ (JobFails \/ PipeFails))
  <2>0. faults \in Nat
    BY Bounds DEF TypeOK
  <2>1. faults' = faults \/ faults' = faults + 1
    BY DEF Next, Step, PipeStep, Move, Announce, Expire, Created, Tick, Take,
       BeginRound, ReadSelf, ScanOne, Judge, Tell, FreshOne, FreshDone, LagHear, LagLeader, LagOne,
       LagDone, JobFails, PipeTake, PipeReadBuy, PipeReadSell, PipePrice, PipeRank, PipeFails, vars
  <2>2. JobFails \/ PipeFails => faults' = faults + 1
    BY DEF JobFails, PipeFails
  <2> QED
    BY <2>0, <2>1, <2>2
<1> SUFFICES ASSUME job = "state", faults' = 0, NEW k \in stirred', Aligned(k)
             PROVE  Followed(k)'
  BY <1>0, <1>1 DEF StirredFollowed
<1>3. k \in stirred => Followed(k)
  BY <1>2 DEF StirredFollowed
<1>4. ASSUME k \in stirred, UNCHANGED <<hot, unsaid, news, pc, me, seen, left, verdict>>
      PROVE  Followed(k)'
  <2>1. Heard \subseteq Heard'
    BY <1>4 DEF Heard, Range
  <2>2. Reading(k)' <=> Reading(k)
    BY <1>4 DEF Reading
  <2> QED
    BY <1>0, <1>3, <1>4, <2>1, <2>2, FollowedKeeps
<1>5. ASSUME NEW p \in live, NEW s \in Snaps[p], Move(p, s) PROVE Followed(k)'
  BY <1>3, <1>5, FollowedMove DEF Move, history
<1>6. ASSUME NEW d \in unsaid, Announce(d) PROVE Followed(k)'
  BY <1>3, <1>6, FollowedAnnounce
<1>7. ASSUME NEW p \in live, Expire(p) PROVE Followed(k)'
  BY <1>3, <1>7, FollowedExpire DEF Expire
<1>8. CASE Take
  BY <1>3, <1>8, FollowedTake DEF Take, history
<1>9. CASE ReadSelf
  BY <1>3, <1>9, FollowedReadSelf DEF ReadSelf, history
<1>10. ASSUME NEW p \in live, ScanOne(p) PROVE Followed(k)'
  BY <1>3, <1>10, FollowedScanOne DEF ScanOne, history
<1>11. CASE Judge
  <2>1. k \in stirred /\ k \in Pairs
    BY <1>11 DEF Judge, TypeOK
  <2> QED
    BY <1>3, <1>11, <2>1, FollowedJudge
<1>12. CASE Tell
  <2>1. UNCHANGED <<hot, unsaid, news, verdict, stirred>> /\ pc = "tell" /\ pc' \in {"tell", "idle"}
    BY <1>12 DEF Tell, Rest, env, history
  <2>2. Heard \subseteq Heard'
    BY <2>1 DEF Heard, Range
  <2>3. ~Reading(k) /\ ~Reading(k)'
    BY <2>1 DEF Reading
  <2> QED
    BY <1>0, <1>3, <2>1, <2>2, <2>3, FollowedKeeps
<1>13. ~(Tick \/ BeginRound \/ FreshDone \/ LagHear \/ LagLeader \/ LagDone)
       /\ \A p \in live : ~(Created(p) \/ FreshOne(p) \/ LagOne(p))
  BY DEF Tick, BeginRound, FreshDone, LagHear, LagLeader, LagDone, Created, FreshOne, LagOne, Held
<1>14. CASE PipeTake \/ PipeReadBuy \/ PipeReadSell \/ PipePrice \/ PipeRank
  <2>1. UNCHANGED <<hot, unsaid, news, pc, me, seen, left, verdict, stirred>>
    BY <1>14 DEF PipeTake, PipeReadBuy, PipeReadSell, PipePrice, PipeRank, env, scan, history
  <2> QED
    BY <1>4, <2>1
<1>15. CASE UNCHANGED vars
  <2>1. UNCHANGED <<hot, unsaid, news, pc, me, seen, left, verdict, stirred>>
    BY <1>15 DEF vars, env, scan, history
  <2> QED
    BY <1>4, <2>1
<1> QED
  BY <1>2, <1>5, <1>6, <1>7, <1>8, <1>9, <1>10, <1>11, <1>12, <1>13, <1>14, <1>15
     DEF Next, Step, PipeStep

\* Once all moves are announced and handled, the last pass over a pair has
\* told of its cheapest and its dearest pool as they are.
THEOREM SpreadsAreTold == Spec => []SpreadTold
<1> DEFINE Inv == TypeOK /\ Held /\ UnsaidHot /\ SeenScoped /\ StirredFollowed
<1>1. Init => Inv
  <2>1. ASSUME Init PROVE UnsaidHot /\ SeenScoped /\ StirredFollowed
    BY <2>1 DEF Init, UnsaidHot, SeenScoped, StirredFollowed
  <2> QED
    BY <2>1, TypeInit
<1>2. Inv /\ [Next]_vars => Inv'
  BY TypeStep, HeldStep, UnsaidHotStep, SeenScopedStep, StirredFollowedStep
<1>3. Inv => SpreadTold
  <2> SUFFICES ASSUME Inv, job = "state", Quiet, faults = 0, NEW k \in stirred, Aligned(k)
               PROVE  IF \E x, y \in Shown(k) : SpreadBps(Price(x), Price(y)) >= MinSpread
                      THEN \E x \in Lowest(Shown(k)), y \in Highest(Shown(k)) :
                             \E c \in verdict[k] : c = Candidate(x, y, KindOf(x, y))
                      ELSE verdict[k] = {}
    BY DEF SpreadTold
  <2>1. Heard = {}
    BY DEF Quiet, Heard, Range
  <2>2. ~Waiting(k) /\ ~Reading(k)
    BY <2>1 DEF Waiting, Reading, Quiet
  <2>3. Told(ShownIn(hot, k, live), verdict[k])
    BY <2>2 DEF StirredFollowed, Followed
  <2>4. ShownIn(hot, k, live) = Shown(k)
    BY DEF ShownIn, Shown
  <2>5. \A x, y : KindOf(x, y) = DexKind(x, y)
    BY DEF KindOf, DexKind
  <2> QED
    BY <2>3, <2>4, <2>5 DEF Told
<1> QED
  <2> HIDE DEF Inv
  <2> QED
    BY <1>1, <1>2, <1>3, PTL DEF Spec
-----------------------------------------------------------------------------
\* A snapshot the curves can take, and what rounding may add to what it yields,
\* in 1/Q units.
Sound(x) ==
  /\ x.fee \in Fees /\ x.unit0 \in Positive /\ x.unit1 \in Positive
  /\ \/ x.curve = "v2" /\ x.r0 \in Positive /\ x.r1 \in Positive
     \/ x.curve \in {"v3", "whirlpool"} /\ x.sqrt \in Nat /\ x.liq \in Nat
     \/ x.curve = "dlmm" /\ x.price \in Nat /\ x.unit0 = x.unit1

Slack(x) == IF x.curve \in {"v3", "whirlpool"} THEN x.liq ELSE 0

\* A fraction is less than its quotient and one.
LEMMA QuotientBelow ==
  ASSUME NEW a \in Nat, NEW b \in Positive
  PROVE  a < (a \div b + 1) * b
BY SMT DEF Positive

\* What a fee leaves of an amount.
LEMMA LessFee ==
  ASSUME NEW in \in Nat, NEW fee \in Fees
  PROVE  (in * (Bps - fee)) \div Bps \in 0..in /\ in * (Bps - fee) \in 0..(in * Bps)
<1>1. Bps - fee \in Nat /\ Bps - fee <= Bps /\ Bps \in Positive
  BY SMT DEF Fees, Bps, Positive
<1>2. in * (Bps - fee) \in Nat /\ in * Bps \in Nat
  BY <1>1, Product DEF Positive
<1>3. in * (Bps - fee) <= in * Bps
  <2>1. (Bps - fee) * in <= Bps * in
    BY <1>1, Scale DEF Positive
  <2> QED
    BY <2>1, <1>1, SMT DEF Positive
<1> DEFINE w == in * (Bps - fee)
           e == w \div Bps
<1>4. e \in Nat /\ e * Bps <= w
  BY <1>1, <1>2, Quotient
<1> HIDE DEF w, e
<1>5. e * Bps <= in * Bps
  BY <1>1, <1>2, <1>3, <1>4, SMT DEF w, Positive
<1>6. e <= in
  BY <1>1, <1>4, <1>5, Cancel
<1> QED
  BY <1>2, <1>3, <1>4, <1>6, SMT DEF w, e

\* In the range of a tick, token1 buys no more token0 than the spot price
\* gives: the new price is rounded down, but in this direction against the
\* trader (curves.py:91-95, 133-134).
LEMMA RangeBought ==
  ASSUME NEW in \in Positive, NEW sqrt \in Positive, NEW liq \in Positive, NEW fee \in Fees
  PROVE  LET out == whirlpool_amount_out_in_range(in, sqrt, liq, fee, FALSE)
         IN /\ out \in Nat /\ out * (sqrt * sqrt) <= in * (Q * Q)
            /\ NewSqrt(in, sqrt, liq, fee, FALSE) \in Positive
<1> DEFINE eff == (in * (Bps - fee)) \div Bps
           d == (eff * Q) \div liq
           new == sqrt + d
           num == liq * Q * d
           out == num \div (sqrt * new)
<1>1. Q \in Positive
  BY CurvesAssumption DEF Positive
<1>2. eff \in Nat /\ eff <= in
  BY LessFee DEF Positive
<1>3. NewSqrt(in, sqrt, liq, fee, FALSE) = new
  BY DEF NewSqrt
<1> HIDE DEF eff
<1>4. eff * Q \in Nat
  BY <1>1, <1>2, Product DEF Positive
<1>5. d \in Nat /\ d * liq <= eff * Q
  BY <1>4, Quotient
<1>6. new - sqrt = d
  BY <1>5, SMT DEF Positive
<1>7. whirlpool_amount_out_in_range(in, sqrt, liq, fee, FALSE) = out
  <2>1. ~(in <= 0 \/ liq <= 0 \/ sqrt <= 0)
    BY SMT DEF Positive
  <2>2. whirlpool_amount_out_in_range(in, sqrt, liq, fee, FALSE)
          = (liq * Q * (new - sqrt)) \div (sqrt * new)
    BY <1>3, <2>1, Zenon DEF whirlpool_amount_out_in_range
  <2> QED
    BY <1>6, <2>2, Zenon
<1> HIDE DEF d
<1>8. new \in Positive /\ sqrt <= new
  BY <1>5, SMT DEF Positive
<1>9. sqrt * new \in Positive /\ sqrt * sqrt \in Nat /\ sqrt * sqrt <= sqrt * new
  <2>1. sqrt * sqrt <= new * sqrt
    BY <1>8, Scale DEF Positive
  <2> QED
    BY <2>1, <1>8, SMT DEF Positive
<1>10. liq * Q \in Nat /\ num \in Nat
  BY <1>1, <1>5, Product DEF Positive
<1>11. out \in Nat /\ out * (sqrt * new) <= num
  BY <1>9, <1>10, Quotient
<1>12. num <= in * (Q * Q)
  <2>1. (d * liq) * Q <= (eff * Q) * Q
    <3>1. d * liq \in Nat
      BY <1>5, Product DEF Positive
    <3> QED
      BY <3>1, <1>1, <1>4, <1>5, Scale DEF Positive
  <2>2. num = (d * liq) * Q
    BY <1>1, <1>5, SMT DEF Positive
  <2>3. Q * Q \in Nat /\ (eff * Q) * Q = eff * (Q * Q)
    BY <1>1, <1>2, SMT DEF Positive
  <2>4. eff * (Q * Q) <= in * (Q * Q)
    BY <1>2, <2>3, Scale DEF Positive
  <2> HIDE DEF num
  <2> QED
    BY <1>10, <1>4, <1>1, <1>2, <2>1, <2>2, <2>3, <2>4, SMT DEF Positive
<1> HIDE DEF out, new, num
<1>13. out * (sqrt * sqrt) <= out * (sqrt * new)
  <2>1. (sqrt * sqrt) * out <= (sqrt * new) * out
    BY <1>9, <1>11, Scale DEF Positive
  <2> QED
    BY <2>1, <1>9, <1>11, SMT DEF Positive
<1>14. out * (sqrt * sqrt) \in Int /\ out * (sqrt * new) \in Int /\ in * (Q * Q) \in Int
  BY <1>1, <1>9, <1>11, SMT DEF Positive
<1>15. out * (sqrt * sqrt) <= in * (Q * Q)
  BY <1>10, <1>11, <1>12, <1>13, <1>14, SMT
<1> QED
  BY <1>3, <1>7, <1>8, <1>11, <1>15

\* Token0 sells for no more than the spot price gives, and what the rounding of
\* the new price adds (curves.py:84-89, 128-131).
LEMMA RangeSold ==
  ASSUME NEW in \in Positive, NEW sqrt \in Positive, NEW liq \in Positive, NEW fee \in Fees
  PROVE  LET out == whirlpool_amount_out_in_range(in, sqrt, liq, fee, TRUE)
         IN out \in Nat /\ (out * Q) * Q <= in * (sqrt * sqrt) + liq * Q
<1> DEFINE eff == (in * (Bps - fee)) \div Bps
           den == liq * Q + eff * sqrt
           new == (liq * Q * sqrt) \div den
           fall == sqrt - new
           out == (liq * fall) \div Q
<1>1. Q \in Positive
  BY CurvesAssumption DEF Positive
<1>2. eff \in Nat /\ eff <= in
  BY LessFee DEF Positive
<1>3. NewSqrt(in, sqrt, liq, fee, TRUE) = new
  BY DEF NewSqrt
<1>4. whirlpool_amount_out_in_range(in, sqrt, liq, fee, TRUE) = out
  <2>1. ~(in <= 0 \/ liq <= 0 \/ sqrt <= 0)
    BY SMT DEF Positive
  <2> QED
    BY <1>3, <2>1, Zenon DEF whirlpool_amount_out_in_range
<1> HIDE DEF eff
<1>5. liq * Q \in Positive /\ eff * sqrt \in Nat
  BY <1>1, <1>2, SMT DEF Positive
<1>6. den \in Positive /\ liq * Q <= den
  BY <1>5, SMT DEF Positive
<1>7. liq * Q * sqrt \in Nat
  BY <1>5, Product DEF Positive
<1> HIDE DEF den
<1>8. new \in Nat /\ new * den <= liq * Q * sqrt /\ liq * Q * sqrt < (new + 1) * den
  BY <1>6, <1>7, Quotient, QuotientBelow
<1> HIDE DEF new
<1>9. sqrt * den = liq * Q * sqrt + (eff * sqrt) * sqrt
  <2>1. \A a, b \in Int : sqrt * (a + b) = a * sqrt + b * sqrt
    BY SMT DEF Positive
  <2> QED
    BY <1>5, <2>1, SMT DEF den, Positive
<1>10. new <= sqrt
  <2>1. (eff * sqrt) * sqrt \in Nat
    BY <1>5, Product DEF Positive
  <2>2. new * den <= sqrt * den
    BY <1>6, <1>7, <1>8, <1>9, <2>1, SMT DEF Positive
  <2> QED
    BY <1>6, <1>8, <2>2, Cancel DEF Positive
<1>11. fall \in Nat /\ sqrt = new + fall
  BY <1>8, <1>10, SMT DEF Positive
<1> HIDE DEF fall
\* but for the rounding, the price falls by what the swap takes
<1>12. (fall - 1) * (liq * Q) <= in * (sqrt * sqrt)
  <2>1. in * (sqrt * sqrt) \in Nat
    BY SMT DEF Positive
  <2>2. CASE fall = 0
    <3>1. (fall - 1) * (liq * Q) <= 0
      BY <2>2, <1>5, SMT DEF Positive
    <3> QED
      BY <3>1, <2>1, <1>5, <2>2, SMT DEF Positive
  <2>3. CASE fall # 0
    <3>1. fall - 1 \in Nat
      BY <2>3, <1>11, SMT
    <3>2. (fall - 1) * den <= (eff * sqrt) * sqrt
      <4>1. sqrt * den = (new + 1) * den + (fall - 1) * den
        BY <1>6, <1>8, <1>11, SMT DEF Positive
      <4>2. (new + 1) * den \in Int /\ (fall - 1) * den \in Int /\ (eff * sqrt) * sqrt \in Int
        BY <1>5, <1>6, <1>8, <1>11, SMT DEF Positive
      <4> QED
        BY <1>7, <1>8, <1>9, <4>1, <4>2, SMT
    <3>3. (fall - 1) * (liq * Q) <= (fall - 1) * den
      <4>1. (liq * Q) * (fall - 1) <= den * (fall - 1)
        BY <1>5, <1>6, <3>1, Scale DEF Positive
      <4> QED
        BY <4>1, <1>5, <1>6, <3>1, SMT DEF Positive
    <3>4. (eff * sqrt) * sqrt <= in * (sqrt * sqrt)
      <4>1. sqrt * sqrt \in Nat
        BY SMT DEF Positive
      <4>2. eff * (sqrt * sqrt) <= in * (sqrt * sqrt)
        BY <1>2, <4>1, Scale DEF Positive
      <4> QED
        BY <1>2, <4>1, <4>2, SMT DEF Positive
    <3>5. (fall - 1) * (liq * Q) \in Int /\ (fall - 1) * den \in Int /\ (eff * sqrt) * sqrt \in Int
      BY <1>5, <1>6, <3>1, SMT DEF Positive
    <3> QED
      BY <2>1, <3>2, <3>3, <3>4, <3>5, SMT
  <2> QED
    BY <2>2, <2>3
<1>13. liq * fall \in Nat
  BY <1>11, Product DEF Positive
<1>14. out \in Nat /\ out * Q <= liq * fall
  BY <1>1, <1>13, Quotient
<1> HIDE DEF out
<1>15. (out * Q) * Q <= (liq * fall) * Q
  BY <1>1, <1>13, <1>14, Scale, SMT DEF Positive
<1>16. (liq * fall) * Q = (fall - 1) * (liq * Q) + liq * Q
  BY <1>1, <1>11, SMT DEF Positive
<1>17. /\ (out * Q) * Q \in Int /\ (liq * fall) * Q \in Int /\ in * (sqrt * sqrt) \in Int
       /\ (fall - 1) * (liq * Q) \in Int /\ liq * Q \in Int
  BY <1>1, <1>5, <1>11, <1>13, <1>14, SMT DEF Positive
<1>18. (out * Q) * Q <= in * (sqrt * sqrt) + liq * Q
  BY <1>12, <1>15, <1>16, <1>17, SMT
<1> QED
  BY <1>4, <1>14, <1>18

\* A swap within the range, through a v3 pool or a whirlpool, that yields
\* something.
LEMMA RangeIs ==
  ASSUME NEW x, NEW in \in Positive, NEW zeroForOne \in BOOLEAN,
         Sound(x), x.curve \in {"v3", "whirlpool"}, Swap(x, in, zeroForOne) # 0
  PROVE  /\ x.sqrt \in Positive /\ x.liq \in Positive
         /\ Swap(x, in, zeroForOne)
              = whirlpool_amount_out_in_range(in, x.sqrt, x.liq, x.fee, zeroForOne)
<1>1. x.sqrt \in Nat /\ x.liq \in Nat
  BY DEF Sound
<1>2. \/ Swap(x, in, zeroForOne) = v3_amount_out_in_range(in, x.sqrt, x.liq, x.fee, zeroForOne)
      \/ Swap(x, in, zeroForOne) = whirlpool_amount_out_in_range(in, x.sqrt, x.liq, x.fee, zeroForOne)
  BY DEF Swap
<1>3. ~(in <= 0 \/ x.liq <= 0 \/ x.sqrt <= 0)
  BY <1>2, Zenon DEF v3_amount_out_in_range, whirlpool_amount_out_in_range
<1>4. x.sqrt \in Positive /\ x.liq \in Positive
  BY <1>1, <1>3, SMT DEF Positive
<1>5. Swap(x, in, zeroForOne)
        = whirlpool_amount_out_in_range(in, x.sqrt, x.liq, x.fee, zeroForOne)
  BY <1>2, <1>3, Zenon DEF v3_amount_out_in_range
<1> QED
  BY <1>4, <1>5

\* The same of a bin, which has one price (simulator.py:84-94).
LEMMA BinYields ==
  ASSUME NEW in \in Positive, NEW n \in Positive, NEW d \in Positive, NEW unit \in Positive,
         NEW fee \in Fees
  PROVE  LET out == (in * n * (Bps - fee)) \div (d * Bps)
         IN out \in Nat /\ out * (d * unit) <= in * (n * unit)
<1> DEFINE w == (in * n) * (Bps - fee)
           out == w \div (d * Bps)
<1>1. in * n \in Nat /\ d * Bps \in Positive
  BY SMT DEF Positive, Bps
<1>2. w \in 0..((in * n) * Bps)
  BY <1>1, LessFee
<1> HIDE DEF w
<1>3. out \in Nat /\ out * (d * Bps) <= w
  BY <1>1, <1>2, Quotient
<1> HIDE DEF out
<1>4. (out * d) * Bps <= (in * n) * Bps
  BY <1>1, <1>2, <1>3, SMT DEF Bps, Positive
<1>5. out * d <= in * n
  BY <1>1, <1>3, <1>4, SMT DEF Bps, Positive
<1>6. (out * d) * unit <= (in * n) * unit
  <2>1. out * d \in Int /\ in * n \in Int
    BY <1>1, <1>3, SMT DEF Positive
  <2> QED
    BY <1>5, <2>1, Scale DEF Positive
<1>7. out * (d * unit) <= in * (n * unit)
  BY <1>3, <1>6, SMT DEF Positive
<1> QED
  BY <1>3, <1>7 DEF out, w

\* A product of positive numbers is positive.
LEMMA PositiveProduct == ASSUME NEW a \in Positive, NEW b \in Positive PROVE a * b \in Positive
BY SMT DEF Positive

\* The base token bought for a quote is worth no more than it at the pool's
\* price, whatever the curve.
LEMMA Bought ==
  ASSUME NEW x, NEW in \in Positive, Sound(x), NEW out, out = Swap(x, in, FALSE), out # 0
  PROVE  /\ out \in Positive /\ Spot(x).num \in Positive /\ Spot(x).den \in Positive
         /\ out * Spot(x).num <= in * Spot(x).den
<1>0. Q \in Positive /\ PScale \in Positive
  BY CurvesAssumption DEF Positive
<1>1. ASSUME NEW n \in Positive, NEW d \in Positive, out \in Nat, out * n <= in * d,
             Spot(x).num = n, Spot(x).den = d
      PROVE  /\ out \in Positive /\ Spot(x).num \in Positive /\ Spot(x).den \in Positive
             /\ out * Spot(x).num <= in * Spot(x).den
  <2>1. out \in Positive
    BY <1>1, Zenon DEF Positive
  <2> QED
    BY <1>1, <2>1
<1>2. CASE x.curve = "v2"
  <2>1. out = v2_amount_out(in, x.r1, x.r0, x.fee)
    BY <1>2 DEF Swap
  <2>2. x.r0 \in Positive /\ x.r1 \in Positive /\ x.fee \in Fees
    BY <1>2 DEF Sound
  <2>3. Spot(x).num = x.r1 /\ Spot(x).den = x.r0
    BY <1>2 DEF Spot
  <2>4. out \in Nat /\ out * x.r1 <= in * x.r0
    BY <2>1, <2>2, Output, NoBetterThanSpot
  <2> QED
    BY <1>1, <2>2, <2>3, <2>4, Zenon
<1>3. CASE x.curve \in {"v3", "whirlpool"}
  <2>2. /\ x.sqrt \in Positive /\ x.liq \in Positive /\ x.fee \in Fees
        /\ out = whirlpool_amount_out_in_range(in, x.sqrt, x.liq, x.fee, FALSE)
    BY <1>3, RangeIs DEF Sound
  <2>3. out \in Nat /\ out * (x.sqrt * x.sqrt) <= in * (Q * Q)
    BY <2>2, RangeBought
  <2>4. Spot(x).num = x.sqrt * x.sqrt /\ Spot(x).den = Q * Q
    BY <1>3 DEF Spot
  <2>5. x.sqrt * x.sqrt \in Positive /\ Q * Q \in Positive
    BY <1>0, <2>2, PositiveProduct
  <2> QED
    BY <1>1, <2>3, <2>4, <2>5, Zenon
<1>4. CASE x.curve = "dlmm"
  <2>1. x.price \in Nat /\ x.unit0 = x.unit1 /\ x.unit1 \in Positive /\ x.fee \in Fees
    BY <1>4 DEF Sound
  <2>2. out = IF x.price <= 0 THEN 0 ELSE (in * PScale * (Bps - x.fee)) \div (x.price * Bps)
    BY <1>4, Zenon DEF Swap
  <2>3. ~(x.price <= 0)
    BY <2>2, Zenon
  <2>4. x.price \in Positive
    BY <2>1, <2>3, SMT DEF Positive
  <2>5. out = (in * PScale * (Bps - x.fee)) \div (x.price * Bps)
    BY <2>2, <2>3, Zenon
  <2>6. out \in Nat /\ out * (x.price * x.unit1) <= in * (PScale * x.unit1)
    BY <1>0, <2>1, <2>4, <2>5, BinYields
  <2>7. Spot(x).num = x.price * x.unit1 /\ Spot(x).den = PScale * x.unit1
    BY <1>4, <2>1 DEF Spot
  <2>8. x.price * x.unit1 \in Positive /\ PScale * x.unit1 \in Positive
    BY <1>0, <2>1, <2>4, PositiveProduct
  <2> QED
    BY <1>1, <2>6, <2>7, <2>8, Zenon
<1> QED
  BY <1>2, <1>3, <1>4 DEF Sound

\* A bound on what is sold, in 1/Q units: without slack...
LEMMA Unslacked ==
  ASSUME NEW out \in Nat, NEW in \in Positive, NEW n \in Positive, NEW d \in Positive,
         out * d <= in * n
  PROVE  (out * Q) * d <= (in * Q) * n + 0 * d
<1>1. Q \in Positive
  BY CurvesAssumption DEF Positive
<1>2. out * d \in Int /\ in * n \in Int
  BY SMT DEF Positive
<1>3. (out * d) * Q <= (in * n) * Q
  BY <1>1, <1>2, Scale DEF Positive
<1> QED
  BY <1>1, <1>3, SMT DEF Positive

\* ...and with it.
LEMMA Slacked ==
  ASSUME NEW out \in Nat, NEW in \in Positive, NEW n \in Positive, NEW liq \in Positive,
         (out * Q) * Q <= in * n + liq * Q
  PROVE  (out * Q) * (Q * Q) <= (in * Q) * n + liq * (Q * Q)
<1>1. Q \in Positive
  BY CurvesAssumption DEF Positive
<1>2. (out * Q) * Q \in Int /\ in * n + liq * Q \in Int
  BY <1>1, SMT DEF Positive
<1>3. ((out * Q) * Q) * Q <= (in * n + liq * Q) * Q
  BY <1>1, <1>2, Scale DEF Positive
<1>4. ((out * Q) * Q) * Q = (out * Q) * (Q * Q)
  BY <1>1, SMT DEF Positive
<1>5. (in * n + liq * Q) * Q = (in * Q) * n + liq * (Q * Q)
  BY <1>1, SMT DEF Positive
<1> QED
  BY <1>3, <1>4, <1>5

\* What a base token sells for is its worth at the pool's price at most, and
\* the slack.
LEMMA Sold ==
  ASSUME NEW x, NEW in \in Positive, Sound(x), NEW out, out = Swap(x, in, TRUE), out # 0
  PROVE  /\ out \in Positive /\ Spot(x).num \in Positive /\ Spot(x).den \in Positive
         /\ (out * Q) * Spot(x).den <= (in * Q) * Spot(x).num + Slack(x) * Spot(x).den
<1>0. Q \in Positive /\ PScale \in Positive
  BY CurvesAssumption DEF Positive
<1>1. ASSUME NEW n \in Positive, NEW d \in Positive, NEW slack, out \in Nat,
             (out * Q) * d <= (in * Q) * n + slack * d,
             Spot(x).num = n, Spot(x).den = d, Slack(x) = slack
      PROVE  /\ out \in Positive /\ Spot(x).num \in Positive /\ Spot(x).den \in Positive
             /\ (out * Q) * Spot(x).den <= (in * Q) * Spot(x).num + Slack(x) * Spot(x).den
  <2>1. out \in Positive
    BY <1>1, Zenon DEF Positive
  <2> QED
    BY <1>1, <2>1, Zenon
<1>3. CASE x.curve = "v2"
  <2>1. out = v2_amount_out(in, x.r0, x.r1, x.fee)
    BY <1>3 DEF Swap
  <2>2. x.r0 \in Positive /\ x.r1 \in Positive /\ x.fee \in Fees
    BY <1>3 DEF Sound
  <2>3. Spot(x).num = x.r1 /\ Spot(x).den = x.r0 /\ Slack(x) = 0
    BY <1>3 DEF Spot, Slack
  <2>4. out \in Nat /\ out * x.r0 <= in * x.r1
    BY <2>1, <2>2, Output, NoBetterThanSpot
  <2>5. (out * Q) * x.r0 <= (in * Q) * x.r1 + 0 * x.r0
    BY Unslacked, <2>2, <2>4, Zenon
  <2> QED
    BY <1>1, <2>2, <2>3, <2>4, <2>5, Zenon
<1>4. CASE x.curve \in {"v3", "whirlpool"}
  <2>2. /\ x.sqrt \in Positive /\ x.liq \in Positive /\ x.fee \in Fees
        /\ out = whirlpool_amount_out_in_range(in, x.sqrt, x.liq, x.fee, TRUE)
    BY <1>4, RangeIs DEF Sound
  <2>3. out \in Nat /\ (out * Q) * Q <= in * (x.sqrt * x.sqrt) + x.liq * Q
    BY <2>2, RangeSold
  <2>4. Spot(x).num = x.sqrt * x.sqrt /\ Spot(x).den = Q * Q /\ Slack(x) = x.liq
    BY <1>4 DEF Spot, Slack
  <2>5. x.sqrt * x.sqrt \in Positive /\ Q * Q \in Positive
    BY <1>0, <2>2, PositiveProduct
  <2>7. (out * Q) * (Q * Q) <= (in * Q) * (x.sqrt * x.sqrt) + x.liq * (Q * Q)
    BY Slacked, <2>2, <2>3, <2>5, Zenon
  <2> QED
    BY <1>1, <2>3, <2>4, <2>5, <2>7, Zenon
<1>5. CASE x.curve = "dlmm"
  <2>1. x.price \in Nat /\ x.unit0 = x.unit1 /\ x.unit1 \in Positive /\ x.fee \in Fees
    BY <1>5 DEF Sound
  <2>2. out = IF x.price <= 0 THEN 0 ELSE (in * x.price * (Bps - x.fee)) \div (PScale * Bps)
    BY <1>5, Zenon DEF Swap
  <2>3. ~(x.price <= 0)
    BY <2>2, Zenon
  <2>4. x.price \in Positive
    BY <2>1, <2>3, SMT DEF Positive
  <2>5. out = (in * x.price * (Bps - x.fee)) \div (PScale * Bps)
    BY <2>2, <2>3, Zenon
  <2>6. out \in Nat /\ out * (PScale * x.unit1) <= in * (x.price * x.unit1)
    BY <1>0, <2>1, <2>4, <2>5, BinYields
  <2>7. Spot(x).num = x.price * x.unit1 /\ Spot(x).den = PScale * x.unit1 /\ Slack(x) = 0
    BY <1>5, <2>1 DEF Spot, Slack
  <2>8. x.price * x.unit1 \in Positive /\ PScale * x.unit1 \in Positive
    BY <1>0, <2>1, <2>4, PositiveProduct
  <2>9. (out * Q) * (PScale * x.unit1) <= (in * Q) * (x.price * x.unit1) + 0 * (PScale * x.unit1)
    BY Unslacked, <2>6, <2>8, Zenon
  <2> QED
    BY <1>1, <2>6, <2>7, <2>8, <2>9, Zenon
<1> QED
  BY <1>3, <1>4, <1>5 DEF Sound

\* The base token is cheaper in x than in y (RankedCheaper).
Cheaper(x, y) ==
  IF x.token0 = y.token0
  THEN Spot(x).num * Spot(y).den < Spot(y).num * Spot(x).den
  ELSE Spot(x).num * Spot(y).num < Spot(y).den * Spot(x).den

\* The two legs together, where the base token is no dearer to sell: with both
\* pools' tokens in one order...
LEMMA LegsAligned ==
  ASSUME NEW in \in Positive, NEW base \in Positive, NEW back \in Positive,
         NEW nb \in Positive, NEW db \in Positive, NEW ns \in Positive, NEW ds \in Positive,
         NEW slack \in Nat,
         base * nb <= in * db, (back * Q) * ds <= (base * Q) * ns + slack * ds,
         ~(nb * ds < ns * db)
  PROVE  (back - in) * Q <= slack
<1>1. Q \in Positive
  BY CurvesAssumption DEF Positive
<1>2. (ns * db) * base <= (nb * ds) * base
  <2>1. ns * db \in Int /\ nb * ds \in Int
    BY SMT DEF Positive
  <2>2. ns * db <= nb * ds
    BY <2>1, SMT
  <2> QED
    BY <2>1, <2>2, Scale DEF Positive
<1>3. (base * nb) * ds <= (in * db) * ds
  <2>1. base * nb \in Int /\ in * db \in Int
    BY SMT DEF Positive
  <2> QED
    BY <2>1, Scale DEF Positive
<1>4. (base * ns) * db <= (in * ds) * db
  BY <1>2, <1>3, SMT DEF Positive
<1>5. base * ns <= in * ds
  <2>1. base * ns \in Int /\ in * ds \in Int
    BY SMT DEF Positive
  <2> QED
    BY <1>4, <2>1, Cancel
<1>6. (base * ns) * Q <= (in * ds) * Q
  <2>1. base * ns \in Int /\ in * ds \in Int
    BY SMT DEF Positive
  <2> QED
    BY <1>1, <1>5, <2>1, Scale DEF Positive
<1>7. (back * Q) * ds <= (in * Q + slack) * ds
  BY <1>1, <1>6, SMT DEF Positive
<1>8. back * Q <= in * Q + slack
  <2>1. back * Q \in Int /\ in * Q + slack \in Int
    BY <1>1, SMT DEF Positive
  <2> QED
    BY <1>7, <2>1, Cancel
<1> QED
  BY <1>1, <1>8, SMT DEF Positive

\* ...and with the tokens of one in the other order.
LEMMA LegsCrossed ==
  ASSUME NEW in \in Positive, NEW base \in Positive, NEW back \in Positive,
         NEW nb \in Positive, NEW db \in Positive, NEW ns \in Positive, NEW ds \in Positive,
         base * nb <= in * db, back * ns <= base * ds,
         ~(nb * ns < ds * db)
  PROVE  back <= in
<1>1. (back * ns) * nb <= (base * ds) * nb
  <2>1. back * ns \in Int /\ base * ds \in Int
    BY SMT DEF Positive
  <2> QED
    BY <2>1, Scale DEF Positive
<1>2. (base * nb) * ds <= (in * db) * ds
  <2>1. base * nb \in Int /\ in * db \in Int
    BY SMT DEF Positive
  <2> QED
    BY <2>1, Scale DEF Positive
<1>3. (ds * db) * in <= (nb * ns) * in
  <2>1. ds * db \in Int /\ nb * ns \in Int
    BY SMT DEF Positive
  <2>2. ds * db <= nb * ns
    BY <2>1, SMT
  <2> QED
    BY <2>1, <2>2, Scale DEF Positive
<1>4. back * (nb * ns) <= in * (nb * ns)
  BY <1>1, <1>2, <1>3, SMT DEF Positive
<1>5. nb * ns \in Positive
  BY PositiveProduct
<1> QED
  BY <1>4, <1>5, Cancel DEF Positive

\* What is no more gains nothing.
LEMMA NoMore ==
  ASSUME NEW a \in Positive, NEW b \in Positive, a <= b
  PROVE  (a - b) * Q <= 0
<1>1. Q \in Nat /\ a - b <= 0
  BY CurvesAssumption, SMT DEF Positive
<1>2. (a - b) * Q <= 0 * Q
  BY <1>1, Scale, SMT DEF Positive
<1> QED
  BY <1>1, <1>2, SMT

\* What there is to gain by rounding.
Rounding(x, y) == IF SellLeg(x, y) THEN Slack(y) ELSE 0

\* A round trip between pools of any two curves gains nothing but by
\* rounding, unless the base token is cheaper in the first.
LEMMA TripGainsNothing ==
  ASSUME NEW x, NEW y, NEW in \in Positive, Sound(x), Sound(y), Matches(x, y), ~Cheaper(x, y),
         NEW base, base = Swap(x, in, FALSE), base # 0,
         NEW back, back = Swap(y, base, SellLeg(x, y)), back # 0
  PROVE  back \in Positive /\ (back - in) * Q <= Rounding(x, y)
<1>1. /\ base \in Positive /\ Spot(x).num \in Positive /\ Spot(x).den \in Positive
      /\ base * Spot(x).num <= in * Spot(x).den
  BY Bought
<1>2. SellLeg(x, y) \in BOOLEAN /\ (SellLeg(x, y) <=> x.token0 = y.token0)
  BY DEF SellLeg, Matches, Tokens
<1>3. CASE SellLeg(x, y)
  <2>1. back = Swap(y, base, TRUE)
    BY <1>3
  <2>2. /\ back \in Positive /\ Spot(y).num \in Positive /\ Spot(y).den \in Positive
        /\ (back * Q) * Spot(y).den <= (base * Q) * Spot(y).num + Slack(y) * Spot(y).den
    BY <1>1, <2>1, Sold
  <2>3. ~(Spot(x).num * Spot(y).den < Spot(y).num * Spot(x).den)
    BY <1>2, <1>3 DEF Cheaper
  <2>4. Slack(y) \in Nat
    <3>1. CASE y.curve \in {"v3", "whirlpool"}
      BY <3>1 DEF Slack, Sound
    <3>2. CASE y.curve \notin {"v3", "whirlpool"}
      <4>1. Slack(y) = 0
        BY <3>2, Zenon DEF Slack
      <4>2. 0 \in Nat
        OBVIOUS
      <4> QED
        BY <4>1, <4>2, Zenon
    <3> QED
      BY <3>1, <3>2
  <2>5. (back - in) * Q <= Slack(y)
    BY <1>1, <2>2, <2>3, <2>4, LegsAligned, Zenon
  <2> QED
    BY <1>3, <2>2, <2>5 DEF Rounding
<1>4. CASE ~SellLeg(x, y)
  <2>1. back = Swap(y, base, FALSE)
    BY <1>2, <1>4
  <2>2. /\ back \in Positive /\ Spot(y).num \in Positive /\ Spot(y).den \in Positive
        /\ back * Spot(y).num <= base * Spot(y).den
    BY <1>1, <2>1, Bought
  <2>3. ~(Spot(x).num * Spot(y).num < Spot(y).den * Spot(x).den)
    BY <1>2, <1>4 DEF Cheaper
  <2>4. back <= in
    BY <1>1, <2>2, <2>3, LegsCrossed, Zenon
  <2>5. ASSUME NEW a \in Positive, NEW b \in Positive, a <= b PROVE (a - b) * Q <= 0
    BY <2>5, NoMore
  <2> QED
    BY <1>4, <2>2, <2>4, <2>5, Zenon DEF Rounding
<1> QED
  BY <1>3, <1>4

\* A gain worth less than the least profit stays less when it is paid out in
\* whole dollars, and less what gas costs.
LEMMA SmallGain ==
  ASSUME NEW gain \in Int, NEW usdPrice \in Nat, NEW one \in Positive, NEW slack \in Nat,
         NEW least \in Positive, NEW gas \in Nat, gain * Q <= slack,
         slack * usdPrice < (Q * one) * least
  PROVE  ~((gain * usdPrice) \div one - gas - gas - 0 >= least)
<1>1. Q \in Positive
  BY CurvesAssumption DEF Positive
<1> DEFINE g == gain * usdPrice
           d == g \div one
<1>2. g \in Int
  BY SMT
<1>3. (gain * Q) * usdPrice <= slack * usdPrice
  <2>1. gain * Q \in Int
    BY <1>1, SMT DEF Positive
  <2> QED
    BY <2>1, Scale
<1>4. g * Q = (gain * Q) * usdPrice
  BY <1>1, SMT DEF Positive
<1> HIDE DEF g
<1>5. g * Q < (one * least) * Q
  <2>1. (Q * one) * least = (one * least) * Q
    BY <1>1, SMT DEF Positive
  <2>2. slack * usdPrice \in Int /\ g * Q \in Int /\ (one * least) * Q \in Int
    BY <1>1, <1>2, SMT DEF Positive
  <2> QED
    BY <1>3, <1>4, <2>1, <2>2, SMT
<1>6. g < one * least
  <2>1. one * least \in Int
    BY SMT DEF Positive
  <2>2. ASSUME one * least <= g PROVE FALSE
    <3>1. (one * least) * Q <= g * Q
      BY <1>1, <1>2, <2>1, <2>2, Scale DEF Positive
    <3>2. (one * least) * Q \in Int /\ g * Q \in Int
      BY <1>1, <1>2, <2>1, SMT DEF Positive
    <3> QED
      BY <1>5, <3>1, <3>2, SMT
  <2> QED
    BY <1>2, <2>1, <2>2, SMT
<1>7. d \in Int /\ d * one <= g
  BY <1>2, SMT DEF Positive
<1> HIDE DEF d
<1>8. d < least
  <2>1. ASSUME least <= d PROVE FALSE
    <3>1. least * one <= d * one
      BY <1>7, <2>1, Scale DEF Positive
    <3>2. least * one = one * least /\ one * least \in Int /\ d * one \in Int
      BY <1>7, SMT DEF Positive
    <3> QED
      BY <1>2, <1>6, <1>7, <3>1, <3>2, SMT
  <2> QED
    BY <1>7, <2>1, SMT DEF Positive
<1>9. ~(d - gas - gas - 0 >= least)
  BY <1>7, <1>8, SMT DEF Positive
<1> QED
  BY <1>9 DEF d, g

\* The quote bought for a notional.
LEMMA QuoteType ==
  ASSUME NEW notional \in Nat, NEW unit \in Positive, NEW usdPrice \in Nat,
         NEW in, in = IF usdPrice <= 0 THEN 0 ELSE (notional * unit * PScale) \div usdPrice,
         ~(in <= 0)
  PROVE  in \in Positive
<1>1. PScale \in Nat
  BY CurvesAssumption DEF CurvesAssumption
<1>2. (notional * unit) * PScale \in Nat
  BY <1>1, Product DEF Positive
<1>3. CASE usdPrice <= 0
  BY <1>3, SMT
<1>4. CASE ~(usdPrice <= 0)
  <2>1. usdPrice \in Positive
    BY <1>4, SMT DEF Positive
  <2>2. in = (notional * unit * PScale) \div usdPrice
    BY <1>4, Zenon
  <2>3. in \in Nat
    BY <1>2, <2>1, <2>2, Quotient
  <2> QED
    BY <2>3, SMT DEF Positive
<1> QED
  BY <1>3, <1>4

\* What is not below zero is not zero.
LEMMA NotZero == ASSUME NEW n, ~(n <= 0) PROVE n # 0
<1> SUFFICES ASSUME n = 0 PROVE FALSE
  OBVIOUS
<1>1. 0 <= 0
  OBVIOUS
<1> QED
  BY <1>1

\* Where the base token is not cheaper to buy, no size is ranked: what
\* rounding gives is not worth the least profit (simulator.py:147-208,
\* pipeline.py:46-52).
LEMMA DearNotRanked ==
  ASSUME NEW x, NEW y, NEW notional \in Nat, NEW usdPrice \in Nat,
         Sound(x), Sound(y), ~Cheaper(x, y), x.chain = y.chain, Gas[x.chain] \in Nat,
         Rounding(x, y) \in Nat,
         Rounding(x, y) * usdPrice < Q * x.unit1 * PScale * MinProfit
  PROVE  LET sim == Simulate(x, y, notional, usdPrice)
         IN ~(sim.feasible /\ sim.net >= MinProfit)
<1>1. PICK in : in = IF usdPrice <= 0 THEN 0 ELSE (notional * x.unit1 * PScale) \div usdPrice
  OBVIOUS
<1>2. PICK base : base = Swap(x, in, FALSE)
  OBVIOUS
<1>3. PICK back : back = Swap(y, base, SellLeg(x, y))
  OBVIOUS
<1> DEFINE dead == ~Matches(x, y) \/ in <= 0 \/ base <= 0 \/ back <= 0
           one == x.unit1 * PScale
           net == ((back - in) * usdPrice) \div one - Gas[x.chain] - Gas[y.chain] - 0
<1>4. CASE dead
  <2>1. Simulate(x, y, notional, usdPrice) = Infeasible(notional)
    BY <1>1, <1>2, <1>3, <1>4, Zenon DEF Simulate
  <2> QED
    BY <2>1 DEF Infeasible
<1>5. CASE ~dead
  <2>1. Simulate(x, y, notional, usdPrice).net = net
    BY <1>1, <1>2, <1>3, <1>5 DEF Simulate
  <2>2. x.unit1 \in Positive /\ PScale \in Positive /\ MinProfit \in Positive
    BY CurvesAssumption, SimulationAssumption DEF Sound, Positive, SimulationAssumption
  <2>3. in \in Positive
    BY <1>1, <1>5, <2>2, QuoteType, Zenon
  <2>4. Matches(x, y) /\ base # 0 /\ back # 0
    BY <1>5, NotZero
  <2>5. back \in Positive /\ (back - in) * Q <= Rounding(x, y)
    BY <1>2, <1>3, <2>3, <2>4, TripGainsNothing
  <2>6. one \in Positive
    BY <2>2, PositiveProduct
  <2>7. Q * x.unit1 * PScale = Q * one
    BY <2>2, CurvesAssumption, SMT DEF Positive
  <2>8. back - in \in Int
    BY <2>3, <2>5, SMT DEF Positive
  <2>9. net = ((back - in) * usdPrice) \div one - Gas[x.chain] - Gas[x.chain] - 0
    BY Zenon
  <2> HIDE DEF net, one
  <2>10. ~(((back - in) * usdPrice) \div one - Gas[x.chain] - Gas[x.chain] - 0 >= MinProfit)
    BY <2>2, <2>5, <2>6, <2>7, <2>8, SmallGain, Zenon
  <2> QED
    BY <2>1, <2>9, <2>10
<1> QED
  BY <1>4, <1>5

\* Every snapshot is one the curves can take.
LEMMA SnapshotSound ==
  ASSUME NEW x \in Snapshots
  PROVE  /\ Sound(x) /\ x.pool \in Pools /\ x.unit1 = Attr[x.pool].unit1
         /\ x.chain = Attr[x.pool].chain /\ Gas[x.chain] \in Nat
         /\ x.curve \in {"v3", "whirlpool"} => \E s \in Snaps[x.pool] : x.liq = s.liq
<1>0. PICK p \in Pools : \E s \in Snaps[p] : x = State(p, s)
  BY DEF Snapshots
<1>1. PICK s \in Snaps[p] : x = State(p, s)
  BY <1>0
<1>2. /\ x.fee = Attr[p].fee /\ x.unit0 = Attr[p].unit0 /\ x.unit1 = Attr[p].unit1
      /\ x.pool = p /\ x.chain = Attr[p].chain /\ x.curve = Attr[p].curve
  BY <1>1, StateIs, StateOf DEF Fields
<1>3. /\ Attr[p].fee \in Fees /\ Attr[p].unit0 \in Positive /\ Attr[p].unit1 \in Positive
      /\ Gas[Attr[p].chain] \in Nat
  BY SnapshotAssumption DEF Fees, Positive
<1>4. CASE Attr[p].curve = "v2"
  <2>1. s \in [r0 : Nat \ {0}, r1 : Nat \ {0}]
    BY <1>4, SnapshotAssumption
  <2>2. x.r0 = s.r0 /\ x.r1 = s.r1
    BY <1>1, <2>1 DEF State, Fields
  <2> QED
    BY <1>2, <1>3, <1>4, <2>1, <2>2 DEF Sound, Positive
<1>5. CASE Attr[p].curve \in {"v3", "whirlpool"}
  <2>1. s \in [sqrt : Nat, liq : Nat]
    BY <1>5, SnapshotAssumption
  <2>2. x.sqrt = s.sqrt /\ x.liq = s.liq
    BY <1>1, <2>1 DEF State, Fields
  <2> QED
    BY <1>2, <1>3, <1>5, <2>1, <2>2 DEF Sound
<1>6. CASE Attr[p].curve = "dlmm"
  <2>1. s \in [price : Nat] /\ Attr[p].unit0 = Attr[p].unit1
    BY <1>6, SnapshotAssumption
  <2>2. x.price = s.price
    BY <1>1, <2>1 DEF State, Fields
  <2> QED
    BY <1>2, <1>3, <1>6, <2>1, <2>2 DEF Sound
<1> QED
  BY <1>4, <1>5, <1>6, SnapshotAssumption

\* What rounding gives between two pools is not worth the least profit.
LEMMA RoundingIsSmall ==
  ASSUME NEW x \in Snapshots, NEW y \in Snapshots, x.pool # y.pool,
         NEW u \in UsdPrices(x.pool), NEW usdPrice \in Nat, usdPrice <= u, u \in Nat
  PROVE  /\ Rounding(x, y) \in Nat
         /\ Rounding(x, y) * usdPrice < Q * x.unit1 * PScale * MinProfit
<1>1. /\ Q \in Positive /\ x.unit1 \in Positive /\ PScale \in Positive /\ MinProfit \in Positive
  BY CurvesAssumption, SimulationAssumption, SnapshotSound
     DEF Positive, Sound, SimulationAssumption
<1>2. Q * x.unit1 * PScale * MinProfit \in Positive
  BY <1>1, PositiveProduct
<1>3. CASE Rounding(x, y) = 0
  <2>1. \A n \in Positive : 0 \in Nat /\ 0 * usdPrice < n
    BY SMT DEF Positive
  <2> QED
    BY <1>2, <1>3, <2>1, Zenon
<1>4. CASE Rounding(x, y) # 0
  <2>1. SellLeg(x, y) /\ y.curve \in {"v3", "whirlpool"} /\ Rounding(x, y) = y.liq
    BY <1>4 DEF Rounding, Slack
  <2>2. PICK s \in Snaps[y.pool] : y.liq = s.liq
    BY <2>1, SnapshotSound
  <2>3. x.pool \in Pools /\ y.pool \in Pools /\ x.unit1 = Attr[x.pool].unit1
    BY SnapshotSound
  <2>4. /\ Attr[y.pool].curve \in {"v3", "whirlpool"}
        /\ Attr[x.pool].token0 = Attr[y.pool].token0
        /\ Attr[x.pool].token1 = Attr[y.pool].token1
    BY <2>1, SnapshotIs DEF SellLeg
  <2>5. y.liq * u < Q * x.unit1 * PScale * MinProfit
    BY <2>2, <2>3, <2>4, RoundingAssumption
  <2>6. y.liq \in Nat
    BY <2>1, SnapshotSound DEF Sound
  <2>7. ASSUME NEW l \in Nat, NEW n \in Positive, l * u < n PROVE l * usdPrice < n
    <3>1. usdPrice * l <= u * l
      BY Scale
    <3> QED
      BY <2>7, <3>1, SMT DEF Positive
  <2>8. y.liq * usdPrice < Q * x.unit1 * PScale * MinProfit
    BY <1>2, <2>5, <2>6, <2>7
  <2> QED
    BY <2>1, <2>6, <2>8
<1> QED
  BY <1>3, <1>4

\* The quote's price is bounded while the pipeline judges.
Quoted == ppc = "judge" => \E u \in UsdPrices(cand.buy) : u \in Nat /\ usd <= u

\* The prices a quote token may be given are natural numbers.
LEMMA UsdPricesAre == ASSUME NEW p \in Pools, NEW u \in UsdPrices(p) PROVE u \in Nat
<1>1. CASE Attr[p].token1 \in Stable
  BY <1>1, CurvesAssumption DEF UsdPrices, CurvesAssumption
<1>2. CASE Attr[p].token1 \notin Stable
  <2>1. ListedUsd[Attr[p].token1] \in Nat
    BY <1>2, ScannerAssumption DEF ScannerAssumption
  <2> QED
    BY <1>2, <2>1, PriceIs DEF UsdPrices
<1> QED
  BY <1>1, <1>2

\* Quoted is kept: the price is found last, and judged at once.
LEMMA QuotedStep == ASSUME TypeOK, Held, Quoted, [Next]_vars PROVE Quoted'
<1>1. ASSUME ppc' # "judge" PROVE Quoted'
  BY <1>1 DEF Quoted
<1>2. ASSUME UNCHANGED <<ppc, cand, usd>> PROVE Quoted'
  <2>1. UsdPrices(cand'.buy) = UsdPrices(cand.buy)
    BY <1>2
  <2> QED
    BY <1>2, <2>1 DEF Quoted
<1>3. CASE PipePrice
  <2>1. /\ buy \in Snapshots /\ buy.pool = cand.buy /\ buy.pool \in Pools
        /\ buy.token1 = Attr[buy.pool].token1
    BY <1>3, SnapshotIs DEF PipePrice, Held
  <2>2. PICK u \in UsdPrices(buy.pool) : usd_price(buy.chain, Attr[buy.pool].token1) <= u
    BY <2>1, UsdType
  <2>3. cand' = cand /\ usd' = usd_price(buy.chain, buy.token1)
    BY <1>3 DEF PipePrice
  <2>4. u \in Nat
    BY <2>1, UsdPricesAre
  <2> QED
    BY <2>1, <2>2, <2>3, <2>4 DEF Quoted, UsdPrices
<1>4. CASE PipeTake \/ PipeReadBuy \/ PipeReadSell \/ PipeRank \/ PipeFails
  <2>1. ppc' # "judge" \/ UNCHANGED <<ppc, cand, usd>>
    BY <1>4 DEF PipeTake, PipeReadBuy, PipeReadSell, PipeRank, PipeFails, Ends
  <2> QED
    BY <1>1, <1>2, <2>1
<1>5. CASE ~(PipeTake \/ PipeReadBuy \/ PipeReadSell \/ PipePrice \/ PipeRank \/ PipeFails)
  <2>1. UNCHANGED <<ppc, cand, usd>>
    BY <1>5 DEF Next, Step, PipeStep, Move, Announce, Expire, Created, Tick, Take, BeginRound,
       ReadSelf, ScanOne, Judge, Tell, FreshOne, FreshDone, LagHear, LagLeader, LagOne, LagDone,
       JobFails, vars, pipe
  <2> QED
    BY <1>2, <2>1
<1> QED
  BY <1>3, <1>4, <1>5

\* What is ranked is cheaper, since a dearer pair is not.
LEMMA CheaperStep ==
  ASSUME TypeOK, Held, Compared, Quoted, RankedCheaper, RankedOneChain', [Next]_vars
  PROVE  RankedCheaper'
<1>1. CASE UNCHANGED ranked
  BY <1>1 DEF RankedCheaper, Spot
<1>2. CASE PipeRank /\ ranked' # ranked
  <2>1. /\ Ranks(cand.kind, cand.spread, buy, sell, usd)
        /\ ranked' = [kind |-> cand.kind, buy |-> buy, sell |-> sell]
        /\ ppc = "judge"
    BY <1>2 DEF PipeRank
  <2>2. /\ buy \in Snapshots /\ buy.pool = cand.buy
        /\ sell \in Snapshots /\ sell.pool = cand.sell
        /\ Near(cand)
    BY <2>1 DEF Held, Compared
  <2>3. buy.pool # sell.pool
    BY <2>2 DEF Near
  <2>4. ranked' # None => buy.chain = sell.chain
    BY <2>1 DEF RankedOneChain
  <2>5. PICK best \in Best(buy, sell, usd) : best.feasible /\ best.net >= MinProfit
    BY <2>1 DEF Ranks
  <2>6. PICK n \in Sizes : best = Simulate(buy, sell, n, usd)
    BY DEF Best
  <2>7. PICK u \in UsdPrices(cand.buy) : u \in Nat /\ usd <= u
    BY <2>1 DEF Quoted
  <2>8. usd \in Nat /\ n \in Nat
    BY SimulationAssumption DEF TypeOK, SimulationAssumption
  <2>9. Rounding(buy, sell) \in Nat /\ Rounding(buy, sell) * usd < Q * buy.unit1 * PScale * MinProfit
    BY <2>2, <2>3, <2>7, <2>8, RoundingIsSmall
  <2>10. Sound(buy) /\ Sound(sell) /\ Gas[buy.chain] \in Nat
    BY <2>2, SnapshotSound
  <2>11. buy.chain = sell.chain => Cheaper(buy, sell)
    BY <2>5, <2>6, <2>8, <2>9, <2>10, DearNotRanked, Zenon
  <2> QED
    BY <2>1, <2>3, <2>4, <2>11 DEF RankedCheaper, Cheaper, Spot
<1>3. UNCHANGED ranked \/ PipeRank
  BY DEF Next, Step, PipeStep, Move, Announce, Expire, Created, Tick, Take, BeginRound, ReadSelf,
     ScanOne, Judge, Tell, FreshOne, FreshDone, LagHear, LagLeader, LagOne, LagDone, JobFails,
     PipeTake, PipeReadBuy, PipeReadSell, PipePrice, PipeFails, vars, pipe
<1> QED
  BY <1>1, <1>2, <1>3

\* An opportunity is ranked only if its base token is cheaper in the pool to
\* buy in than in the one to sell in, as the pipeline read them, whatever the
\* two curves, the order of their tokens and what moved since the scan.
THEOREM RankedIsCheaper == Spec => []RankedCheaper
<1> DEFINE Inv == TypeOK /\ Held /\ Compared /\ RankedOneChain /\ Quoted /\ RankedCheaper
<1>1. Init => Inv
  <2>1. ASSUME Init PROVE Compared /\ RankedOneChain /\ Quoted /\ RankedCheaper
    BY <2>1 DEF Init, Compared, RankedOneChain, Quoted, RankedCheaper, Range
  <2> QED
    BY <2>1, TypeInit
<1>2. Inv /\ [Next]_vars => Inv'
  BY TypeStep, HeldStep, ComparedStep, OneChainStep, QuotedStep, CheaperStep
<1> QED
  <2> HIDE DEF Inv
  <2>1. Inv => RankedCheaper
    BY DEF Inv
  <2> QED
    BY <1>1, <1>2, <2>1, PTL DEF Spec
=============================================================================
