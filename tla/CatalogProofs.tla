--------------------------- MODULE CatalogProofs ----------------------------
(***************************************************************************)
(* Proofs about Catalog for any number of processes, chains, tokens and    *)
(* pools, and listings of any length: type correctness, the order of the   *)
(* locks, and the decimals the trackers correct.                           *)
(***************************************************************************)
EXTENDS Catalog, FiniteSetTheorems, WellFoundedInduction, TLAPS

\* The chain of a row, and its place among the chains.
Home(r) ==
  IF r \in Chains THEN r
  ELSE IF r \in Pools THEN ChainOf[r]
  ELSE CHOOSE c \in Chains : \E q \in Pools : r \in {Pair[q][1], Pair[q][2]} /\ c = ChainOf[q]

Place(r) == CHOOSE i \in DOMAIN Networks : Networks[i] = Home(r)

\* Rows are locked chain by chain, a chain before what belongs to it, and the
\* tokens of a pool before the pool.
Ordered(s) == \A i, j \in DOMAIN s : i < j => Place(s[i].row) <= Place(s[j].row)
Needs(r) == {Home(r)} \cup IF r \in Pools THEN {Pair[r][1], Pair[r][2]} ELSE {}
NeedsFirst(s) ==
  \A i \in DOMAIN s :
    Home(s[i].row) \in Chains /\ \A n \in Needs(s[i].row) : \E j \in 1..i : s[j].row = n

\* Chains are different rows from tokens and pools, and a token is of one.
LEMMA HomeOf ==
  ASSUME NEW q \in Pools
  PROVE  /\ ChainOf[q] \in Chains /\ Pair[q][1] \in Tokens /\ Pair[q][2] \in Tokens
         /\ \A r \in {ChainOf[q], Pair[q][1], Pair[q][2], q} : r \in Rows /\ Home(r) = ChainOf[q]
<1>1. ChainOf[q] \in Chains /\ Pair[q][1] \in Tokens /\ Pair[q][2] \in Tokens
  BY CatalogAssumption DEF CatalogAssumption
<1>2. Home(ChainOf[q]) = ChainOf[q]
  BY <1>1 DEF Home
<1>3. q \notin Chains /\ Home(q) = ChainOf[q]
  BY CatalogAssumption DEF CatalogAssumption, Home
<1>4. ASSUME NEW t \in {Pair[q][1], Pair[q][2]} PROVE Home(t) = ChainOf[q]
  <2>1. t \in Tokens /\ t \notin Chains /\ t \notin Pools
    BY <1>1, CatalogAssumption DEF CatalogAssumption
  <2>2. ASSUME NEW x \in Pools, t \in {Pair[x][1], Pair[x][2]} PROVE ChainOf[x] = ChainOf[q]
    BY <2>2, <1>4, CatalogAssumption DEF CatalogAssumption
  <2>3. \A c : (\E x \in Pools : t \in {Pair[x][1], Pair[x][2]} /\ c = ChainOf[x]) <=> c = ChainOf[q]
    BY <2>2, <1>4
  <2> QED
    BY <2>1, <2>3 DEF Home
<1>5. q \in Rows /\ ChainOf[q] \in Rows /\ Pair[q][1] \in Rows /\ Pair[q][2] \in Rows
  BY <1>1 DEF Rows
<1> QED
  BY <1>1, <1>2, <1>3, <1>4, <1>5

\* What a row refers to is a row.
LEMMA NeedsAreRows ==
  ASSUME NEW r, Home(r) \in Chains, NEW n \in Needs(r) PROVE n \in Rows
BY HomeOf DEF Needs, Rows

\* A chain is found at its place.
LEMMA PlaceOfChain ==
  ASSUME NEW c \in Chains
  PROVE  Home(c) = c /\ Place(c) \in DOMAIN Networks /\ Networks[Place(c)] = c
<1>1. \E i \in DOMAIN Networks : Networks[i] = c
  BY DEF Chains, Range
<1>2. Home(c) = c
  BY DEF Home
<1> QED
  BY <1>1, <1>2 DEF Place

\* A pool's position in a listing is that of its chain.
LEMMA PositionIsPlace ==
  ASSUME NEW q \in Pools, NEW r, Home(r) = ChainOf[q]
  PROVE  Place(r) = Position(q)
BY DEF Place, Position

\* The upserts of one pool.
OfPool(s, q, d0, d1) ==
  /\ s \in Seq(Updates(Rows)) /\ DOMAIN s = 1..4
  /\ s[2].dec = d0 /\ s[3].dec = d1
  /\ s[1].row \notin Tokens /\ s[4].row \notin Tokens
  /\ \A i \in 1..4 : /\ s[i] \in Updates(Rows) /\ Home(s[i].row) = ChainOf[q]
                     /\ \A n \in Needs(s[i].row) : \E j \in 1..i : s[j].row = n

\* What is written for a pool, whatever the order of its tokens.
LEMMA UpsertsOf ==
  ASSUME NEW q \in Pools, NEW t0, NEW t1,
         (t0 = Pair[q][1] /\ t1 = Pair[q][2]) \/ (t0 = Pair[q][2] /\ t1 = Pair[q][1]),
         NEW d0 \in Nat, NEW d1 \in Nat, NEW s, s = Upserts(q, t0, t1, d0, d1)
  PROVE  OfPool(s, q, d0, d1)
<1>0. /\ t0 \in {Pair[q][1], Pair[q][2]} /\ t1 \in {Pair[q][1], Pair[q][2]}
      /\ Pair[q][1] \in {t0, t1} /\ Pair[q][2] \in {t0, t1}
  OBVIOUS
<1>1. /\ DOMAIN s = 1..4 /\ s[1] = [row |-> ChainOf[q], dec |-> 0] /\ s[2] = [row |-> t0, dec |-> d0]
      /\ s[3] = [row |-> t1, dec |-> d1] /\ s[4] = [row |-> q, dec |-> 0]
      /\ Len(s) = 4
  BY DEF Upserts
<1>2. /\ s[1] \in Updates(Rows) /\ s[2] \in Updates(Rows)
      /\ s[3] \in Updates(Rows) /\ s[4] \in Updates(Rows)
  BY <1>0, <1>1, HomeOf DEF Updates
<1>3. s \in Seq(Updates(Rows))
  BY <1>1, <1>2 DEF Upserts
<1>4. /\ Home(s[1].row) = ChainOf[q] /\ Home(s[2].row) = ChainOf[q]
      /\ Home(s[3].row) = ChainOf[q] /\ Home(s[4].row) = ChainOf[q]
  BY <1>0, <1>1, HomeOf
<1>5. /\ ChainOf[q] \notin Pools /\ t0 \notin Pools /\ t1 \notin Pools
      /\ ChainOf[q] \notin Tokens /\ q \notin Tokens
  BY <1>0, HomeOf, CatalogAssumption DEF CatalogAssumption
<1>6. /\ s[1].row = ChainOf[q] /\ s[2].row = t0 /\ s[3].row = t1 /\ s[4].row = q
      /\ s[2].dec = d0 /\ s[3].dec = d1
  BY <1>1
<1>7. /\ Needs(s[1].row) = {ChainOf[q]} /\ Needs(s[2].row) = {ChainOf[q]}
      /\ Needs(s[3].row) = {ChainOf[q]} /\ Needs(s[4].row) = {ChainOf[q], t0, t1}
  BY <1>0, <1>4, <1>5, <1>6 DEF Needs
<1>8. ASSUME NEW i \in 1..4
      PROVE  /\ s[i] \in Updates(Rows) /\ Home(s[i].row) = ChainOf[q]
             /\ \A n \in Needs(s[i].row) : \E j \in 1..i : s[j].row = n
  <2>1. i = 1 \/ i = 2 \/ i = 3 \/ i = 4
    OBVIOUS
  <2>2. s[i] \in Updates(Rows) /\ Home(s[i].row) = ChainOf[q]
    BY <1>2, <1>4, <2>1
  <2>3. 1 \in 1..i /\ (i = 4 => 2 \in 1..i /\ 3 \in 1..i)
    OBVIOUS
  <2>4. ASSUME NEW n \in Needs(s[i].row) PROVE \E j \in 1..i : s[j].row = n
    <3>1. n = ChainOf[q] \/ (i = 4 /\ (n = t0 \/ n = t1))
      BY <1>7, <2>1
    <3> QED
      BY <1>6, <2>3, <3>1
  <2> QED
    BY <2>2, <2>4
<1> QED
  BY <1>1, <1>3, <1>5, <1>6, <1>8 DEF OfPool

\* What a listing does not know it writes as 18.
Hinted(s) == \A i \in DOMAIN s : s[i].row \in Tokens => s[i].dec = Unknown

\* What a listing writes for a pool: each row after those it refers to.
LEMMA ListedIs ==
  ASSUME NEW q \in Pools, NEW b \in BOOLEAN
  PROVE  /\ Listed(q, b) \in Seq(Updates(Rows)) /\ DOMAIN Listed(q, b) = 1..4
         /\ \A i \in 1..4 :
              /\ Listed(q, b)[i] \in Updates(Rows) /\ Home(Listed(q, b)[i].row) = ChainOf[q]
              /\ \A n \in Needs(Listed(q, b)[i].row) : \E j \in 1..i : Listed(q, b)[j].row = n
              /\ Listed(q, b)[i].row \in Tokens => Listed(q, b)[i].dec = Unknown
<1>1. Unknown \in Nat
  BY DEF Unknown
<1>2. PICK t0, t1 :
        /\ (t0 = Pair[q][1] /\ t1 = Pair[q][2]) \/ (t0 = Pair[q][2] /\ t1 = Pair[q][1])
        /\ Listed(q, b) = Upserts(q, t0, t1, Unknown, Unknown)
  BY DEF Listed
<1>s. PICK s : s = Upserts(q, t0, t1, Unknown, Unknown)
  OBVIOUS
<1>3. /\ s \in Seq(Updates(Rows)) /\ DOMAIN s = 1..4
      /\ s[2].dec = Unknown /\ s[3].dec = Unknown
      /\ s[1].row \notin Tokens /\ s[4].row \notin Tokens
      /\ \A i \in 1..4 : /\ s[i] \in Updates(Rows) /\ Home(s[i].row) = ChainOf[q]
                         /\ \A n \in Needs(s[i].row) : \E j \in 1..i : s[j].row = n
  <2>1. OfPool(s, q, Unknown, Unknown)
    BY <1>1, <1>2, <1>s, UpsertsOf
  <2> QED
    BY <2>1 DEF OfPool
<1>4. \A i \in 1..4 : s[i].row \in Tokens => s[i].dec = Unknown
  <2>1. \A i \in 1..4 : i = 1 \/ i = 2 \/ i = 3 \/ i = 4
    OBVIOUS
  <2> QED
    BY <1>3, <2>1
<1>5. Listed(q, b) = s
  BY <1>2, <1>s
<1> QED
  BY <1>3, <1>4, <1>5

\* Rows of one pool have one place.
LEMMA SamePlace ==
  ASSUME NEW q \in Pools, NEW r, Home(r) = ChainOf[q]
  PROVE  Place(r) = Position(q) /\ Position(q) \in Nat
<1>1. Place(ChainOf[q]) \in DOMAIN Networks
  BY HomeOf, PlaceOfChain
<1>2. DOMAIN Networks \subseteq Nat
  BY CatalogAssumption DEF CatalogAssumption
<1>3. Place(ChainOf[q]) = Position(q)
  BY HomeOf, PositionIsPlace
<1> QED
  BY <1>1, <1>2, <1>3, PositionIsPlace

\* A registration locks the chain first, and one chain only.
LEMMA RegistrationOrdered ==
  ASSUME NEW q \in Pools, NEW d0 \in Nat, NEW d1 \in Nat
  PROVE  LET s == Upserts(q, Pair[q][1], Pair[q][2], d0, d1) IN
         /\ s \in Seq(Updates(Rows)) /\ Ordered(s) /\ NeedsFirst(s)
         /\ \A i \in DOMAIN s : Home(s[i].row) = ChainOf[q]
<1>s. PICK s : s = Upserts(q, Pair[q][1], Pair[q][2], d0, d1)
  OBVIOUS
<1>1. /\ s \in Seq(Updates(Rows)) /\ DOMAIN s = 1..4
      /\ \A i \in 1..4 : /\ Home(s[i].row) = ChainOf[q]
                         /\ \A n \in Needs(s[i].row) : \E j \in 1..i : s[j].row = n
  <2>1. OfPool(s, q, d0, d1)
    BY <1>s, UpsertsOf
  <2> QED
    BY <2>1 DEF OfPool
<1>2. \A i \in 1..4 : Place(s[i].row) = Position(q) /\ Position(q) \in Nat
  BY <1>1, SamePlace
<1>3. Ordered(s)
  BY <1>1, <1>2 DEF Ordered
<1>4. NeedsFirst(s)
  BY <1>1, HomeOf DEF NeedsFirst
<1> QED
  BY <1>1, <1>3, <1>4, <1>s

\* Where the i-th upsert of a batch comes from.
LEMMA FourEach ==
  ASSUME NEW n \in Nat, NEW i \in 1..4 * n
  PROVE  /\ (i + 3) \div 4 \in 1..n /\ ((i + 3) % 4) + 1 \in 1..4
         /\ \A m \in 1..((i + 3) % 4) + 1 :
              LET j == 4 * ((i + 3) \div 4) - 4 + m IN
              /\ j \in 1..i /\ j \in 1..4 * n
              /\ (j + 3) \div 4 = (i + 3) \div 4 /\ ((j + 3) % 4) + 1 = m
         /\ \A j \in 1..4 * n : i < j => (i + 3) \div 4 <= (j + 3) \div 4
OBVIOUS

\* So does a batch, for one pool after another.
LEMMA BatchesOrdered ==
  ASSUME NEW b \in Batches
  PROVE  b \in Seq(Updates(Rows)) /\ Ordered(b) /\ NeedsFirst(b) /\ Hinted(b)
<1>1. PICK s \in Listings : b = Batch(s)
  BY DEF Batches
<1>2. PICK n \in 0..MaxListed : s \in [1..n -> [pool : Pools, inverse : BOOLEAN]] /\ ChainByChain(s)
  BY <1>1 DEF Listings
<1>3. n \in Nat /\ Len(s) = n /\ DOMAIN s = 1..n
  BY <1>2, CatalogAssumption DEF CatalogAssumption
<1> DEFINE from(i) == (i + 3) \div 4
           nth(i) == ((i + 3) % 4) + 1
           pool(i) == s[from(i)].pool
           listed(i) == Listed(pool(i), s[from(i)].inverse)
<1>4. b = [i \in 1..4 * n |-> listed(i)[nth(i)]]
  BY <1>1, <1>3 DEF Batch
<1>5. DOMAIN b = 1..4 * n
  BY <1>4
<1>6. \A i \in 1..4 * n : from(i) \in 1..n /\ nth(i) \in 1..4
  BY <1>3, FourEach
<1>7. \A i \in 1..4 * n : pool(i) \in Pools /\ s[from(i)].inverse \in BOOLEAN
  BY <1>2, <1>6
<1>8. ASSUME NEW i \in 1..4 * n
      PROVE  /\ b[i] \in Updates(Rows) /\ Home(b[i].row) = ChainOf[pool(i)]
             /\ b[i].row \in Tokens => b[i].dec = Unknown
             /\ \A x \in Needs(b[i].row) : \E j \in 1..nth(i) : listed(i)[j].row = x
  <2>1. b[i] = listed(i)[nth(i)] /\ nth(i) \in 1..4
    BY <1>4, <1>6
  <2>2. pool(i) \in Pools /\ s[from(i)].inverse \in BOOLEAN
    BY <1>7
  <2> HIDE DEF pool, nth, from
  <2> QED
    BY <2>1, <2>2, ListedIs
<1>9. b \in Seq(Updates(Rows))
  BY <1>3, <1>5, <1>8, <1>4
<1>10. Ordered(b)
  <2> SUFFICES ASSUME NEW i \in 1..4 * n, NEW j \in 1..4 * n, i < j
               PROVE  Place(b[i].row) <= Place(b[j].row)
    BY <1>5 DEF Ordered
  <2>1. from(i) \in 1..n /\ from(j) \in 1..n /\ from(i) <= from(j)
    BY <1>3, FourEach
  <2> HIDE DEF from
  <2>2. Position(pool(i)) <= Position(pool(j))
    <3>1. CASE from(i) = from(j)
      BY <1>7, <1>8, <3>1, SamePlace
    <3>2. CASE from(i) # from(j)
      BY <1>2, <1>3, <2>1, <3>2 DEF ChainByChain
    <3> QED
      BY <3>1, <3>2
  <2> QED
    BY <2>2, <1>7, <1>8, SamePlace
<1>11. NeedsFirst(b)
  <2>a. ASSUME NEW i \in 1..4 * n PROVE Home(b[i].row) \in Chains
    <3>1. pool(i) \in Pools /\ Home(b[i].row) = ChainOf[pool(i)]
      BY <1>7, <1>8
    <3> HIDE DEF from, pool
    <3> QED
      BY <3>1, HomeOf
  <2> SUFFICES ASSUME NEW i \in 1..4 * n, NEW x \in Needs(b[i].row)
               PROVE  \E j \in 1..i : b[j].row = x
    BY <1>5, <2>a DEF NeedsFirst
  <2>1. PICK m \in 1..nth(i) : listed(i)[m].row = x
    BY <1>8
  <2> DEFINE j == 4 * ((i + 3) \div 4) - 4 + m
  <2>2. j \in 1..i /\ j \in 1..4 * n /\ from(j) = from(i) /\ nth(j) = m
    BY <1>3, FourEach
  <2> HIDE DEF j
  <2>3. listed(j) = listed(i) /\ b[j] = listed(j)[nth(j)]
    BY <1>4, <2>2
  <2>4. b[j] = listed(i)[m]
    BY <2>2, <2>3
  <2> QED
    BY <2>1, <2>2, <2>4
<1>12. Hinted(b)
  BY <1>5, <1>8 DEF Hinted
<1> QED
  BY <1>9, <1>10, <1>11, <1>12

\* The decimals a handler registers are numbers.
LEMMA HandlerDecimalsType ==
  ASSUME NEW q \in Pools
  PROVE  HandlerDecimals(q)[1] \in Nat /\ HandlerDecimals(q)[2] \in Nat
<1>1. Dec[Pair[q][1]] \in Nat /\ Dec[Pair[q][2]] \in Nat
  BY HomeOf, CatalogAssumption DEF CatalogAssumption
<1>2. CASE Program[q] = "raydium"
  BY <1>1, <1>2 DEF HandlerDecimals
<1>3. CASE Program[q] = "pumpswap"
  BY <1>3 DEF HandlerDecimals
<1>4. CASE Program[q] # "raydium" /\ Program[q] # "pumpswap"
  BY <1>4 DEF HandlerDecimals
<1> QED
  BY <1>2, <1>3, <1>4
-----------------------------------------------------------------------------
\* The first of a sequence, and the rest.
LEMMA HeadAndTail ==
  ASSUME NEW S, NEW s \in Seq(S), s # <<>>
  PROVE  Head(s) \in S /\ Tail(s) \in Seq(S)
OBVIOUS

\* A function on 1..n is a sequence.
LEMMA SequenceOf ==
  ASSUME NEW S, NEW n \in Nat, NEW f, f = [i \in 1..n |-> f[i]], \A i \in 1..n : f[i] \in S
  PROVE  f \in Seq(S)
OBVIOUS

\* An update is of a row.
LEMMA UpdateIs ==
  ASSUME NEW S, NEW u \in Updates(S) PROVE u.row \in S /\ u.dec \in Nat
BY DEF Updates

\* What a process wants, unless it is None, is a row.
LEMMA WantedIs ==
  ASSUME TypeOK, NEW p \in Procs
  PROVE  /\ p \in Trackers => (Wanted(p) = None <=> dirty[p] = None)
         /\ p \in Trackers /\ dirty[p] # None => Wanted(p) = dirty[p].row /\ Wanted(p) \in Tokens
         /\ p \notin Trackers => (Wanted(p) = None <=> todo[p] = <<>>)
         /\ p \notin Trackers /\ todo[p] # <<>> => Wanted(p) = Head(todo[p]).row /\ Wanted(p) \in Rows
<1>1. None \notin Rows /\ Tokens \subseteq Rows
  BY CatalogAssumption DEF CatalogAssumption, Rows
<1>2. ASSUME p \in Trackers, dirty[p] # None PROVE dirty[p].row \in Tokens
  BY <1>2 DEF TypeOK
<1>3. ASSUME todo[p] # <<>> PROVE Head(todo[p]).row \in Rows
  <2>1. todo[p] \in Seq(Updates(Rows))
    BY DEF TypeOK
  <2>2. Head(todo[p]) \in Updates(Rows)
    BY <2>1, <1>3, HeadAndTail
  <2> QED
    BY <2>2, UpdateIs
<1> QED
  BY <1>1, <1>2, <1>3 DEF Wanted

\* The parts of a process's state that are its own.
LEMMA RestIs ==
  ASSUME NEW p \in Procs
  PROVE  /\ Rest(p) # "tx"
         /\ p \in Trackers => p \notin Loops /\ p \notin Watchers
         /\ Rest(p) = "list" <=> p \in Loops
         /\ Rest(p) = "off" <=> p \in Trackers
BY CatalogAssumption DEF CatalogAssumption, Rest, Procs

\* The tokens of the trackers' chain.
EvmTokens == UNION {{Pair[q][1], Pair[q][2]} : q \in {p \in Pools : ChainOf[p] = Evm}}

\* A tracker's tokens are rows of its chain.
LEMMA EvmTokensAre ==
  ASSUME NEW t \in EvmTokens
  PROVE  t \in Tokens /\ t \in Rows /\ Home(t) = Evm
<1>1. PICK q \in Pools : ChainOf[q] = Evm /\ t \in {Pair[q][1], Pair[q][2]}
  BY DEF EvmTokens
<1> QED
  BY <1>1, HomeOf

\* The tokens the query shows, whichever, are of the trackers' chain.
LEMMA ShownAre ==
  ASSUME NEW T \in Shown, NEW t \in T
  PROVE  t \in EvmTokens
<1>1. PICK e \in [Stored -> 1..2] : T = {Pair[q][e[q]] : q \in Stored}
  BY DEF Shown
<1>2. PICK q \in Stored : t = Pair[q][e[q]]
  BY <1>1
<1>3. e[q] = 1 \/ e[q] = 2
  BY <1>1
<1> QED
  BY <1>2, <1>3 DEF Stored, EvmTokens

\* Type correctness, one action after another.
LEMMA TypeStep == ASSUME TypeOK, [Next]_vars PROVE TypeOK'
<1> USE DEF session, tracker, Goto
<1>p. Loops \subseteq Procs /\ Watchers \subseteq Procs /\ Trackers \subseteq Procs
  BY DEF Procs
<1>b. MaxTx \in Nat /\ MaxFaults \in Nat
  BY CatalogAssumption DEF CatalogAssumption
<1>1. ASSUME NEW l \in Loops, Fetch(l) PROVE TypeOK'
  <2>1. PICK s \in Batches :
          IF s = <<>>
          THEN stage' = [stage EXCEPT ![l] = NextStage(l)] /\ UNCHANGED <<pc, todo, txs>>
          ELSE /\ txs < MaxTx /\ txs' = txs + 1
               /\ todo' = [todo EXCEPT ![l] = s]
               /\ pc' = [pc EXCEPT ![l] = "tx"] /\ UNCHANGED stage
    BY <1>1 DEF Fetch
  <2>2. UNCHANGED <<row, tx, dirty, tracker, late, faults>>
    BY <1>1 DEF Fetch
  <2>3. s \in Seq(Updates(Rows))
    BY BatchesOrdered DEF Updates
  <2>4. CASE s = <<>>
    BY <2>1, <2>2, <2>4 DEF TypeOK, NextStage
  <2>5. CASE s # <<>>
    <3>1. /\ todo' = [todo EXCEPT ![l] = s] /\ pc' = [pc EXCEPT ![l] = "tx"] /\ stage' = stage
          /\ txs < MaxTx /\ txs' = txs + 1
      BY <2>1, <2>5
    <3>2. todo' \in [Procs -> Seq(Updates(Rows))]
      BY <3>1, <2>3, <1>p DEF TypeOK
    <3>3. \A k \in Trackers : todo'[k] = todo[k] /\ pc'[k] = pc[k]
      BY <3>1, <1>p, RestIs
    <3> QED
      BY <2>2, <3>1, <3>2, <3>3, <1>p, <1>b DEF TypeOK
  <2> QED
    BY <2>4, <2>5
<1>2. ASSUME NEW w \in Watchers, Notified(w) PROVE TypeOK'
  <2>1. PICK q \in Pools :
          todo' = [todo EXCEPT ![w] = Upserts(q, Pair[q][1], Pair[q][2],
                                              HandlerDecimals(q)[1], HandlerDecimals(q)[2])]
    BY <1>2 DEF Notified
  <2>2. /\ txs < MaxTx /\ txs' = txs + 1 /\ pc' = [pc EXCEPT ![w] = "tx"]
        /\ UNCHANGED <<row, stage, tx, dirty, tracker, late, faults>>
    BY <1>2 DEF Notified
  <2> DEFINE s == Upserts(q, Pair[q][1], Pair[q][2], HandlerDecimals(q)[1], HandlerDecimals(q)[2])
  <2>3. s \in Seq(Updates(Rows))
    BY RegistrationOrdered, HandlerDecimalsType DEF Updates
  <2>4. todo' = [todo EXCEPT ![w] = s]
    BY <2>1
  <2> HIDE DEF s
  <2> QED
    BY <2>2, <2>3, <2>4, <1>p, <1>b, RestIs DEF TypeOK
<1>3. ASSUME NEW p \in Procs, Upsert(p) PROVE TypeOK'
  <2>1. /\ pc[p] = "tx" /\ p \notin Trackers /\ todo[p] # <<>>
        /\ tx' = [tx EXCEPT ![p][Head(todo[p]).row] = Head(todo[p]).dec]
        /\ todo' = [todo EXCEPT ![p] = Tail(todo[p])]
        /\ UNCHANGED <<row, pc, stage, dirty, tracker, late, txs, faults>>
    BY <1>3 DEF Upsert
  <2>2. Head(todo[p]) \in Updates(Rows) /\ Tail(todo[p]) \in Seq(Updates(Rows))
    BY <2>1, HeadAndTail DEF TypeOK
  <2>3. Head(todo[p]).row \in Rows /\ Head(todo[p]).dec \in Nat
    BY <2>2, UpdateIs
  <2>4. tx' \in [Procs -> [Rows -> Nat \cup {None}]]
    BY <2>1, <2>3 DEF TypeOK
  <2> QED
    BY <2>1, <2>2, <2>4, <1>p DEF TypeOK
<1>4. ASSUME NEW k \in Trackers, Load(k) PROVE TypeOK'
  <2>1. PICK T \in Shown :
          /\ asked' = [asked EXCEPT ![k] = Missing(T)]
          /\ \E l \in {"reload", "ask"} : pc' = [pc EXCEPT ![k] = l]
    BY <1>4 DEF Load
  <2>2. /\ pc[k] = "load" /\ late' = [late EXCEPT ![k] = {}]
        /\ UNCHANGED <<row, stage, session, failed, txs, faults>>
    BY <1>4 DEF Load
  <2>3. Missing(T) \subseteq Tokens
    BY ShownAre, EvmTokensAre DEF Missing
  <2>4. todo[k] = <<>> /\ failed[k] = {}
    BY <2>2, <1>p, RestIs DEF TypeOK
  <2> HIDE DEF Missing
  <2> QED
    BY <2>1, <2>2, <2>3, <2>4, <1>p, RestIs DEF TypeOK
<1>5. ASSUME NEW k \in Trackers, Ask(k) PROVE TypeOK'
  <2>1. PICK F \in SUBSET {t \in asked[k] : Dec[t] # Unknown}, s \in SetToSeqs(asked[k]) :
          /\ faults + Cardinality(F) <= MaxFaults /\ faults' = faults + Cardinality(F)
          /\ failed' = [failed EXCEPT ![k] = F]
          /\ todo' = [todo EXCEPT ![k] =
               [i \in DOMAIN s |-> [row |-> s[i], dec |-> IF s[i] \in F THEN Unknown ELSE Dec[s[i]]]]]
    BY <1>5 DEF Ask
  <2>2. /\ pc[k] = "ask" /\ pc' = [pc EXCEPT ![k] = "tx"]
        /\ UNCHANGED <<row, stage, tx, dirty, asked, late, txs>>
    BY <1>5 DEF Ask
  <2>3. asked[k] \subseteq Tokens /\ IsFiniteSet(asked[k]) /\ IsFiniteSet(F)
    BY FS_Subset, CatalogAssumption DEF TypeOK, CatalogAssumption
  <2>4. Cardinality(asked[k]) \in Nat /\ Cardinality(F) \in Nat
    BY <2>3, FS_CardinalityType
  <2>5. s \in [1..Cardinality(asked[k]) -> asked[k]]
    BY DEF SetToSeqs
  <2> DEFINE ss == [i \in DOMAIN s |-> [row |-> s[i], dec |-> IF s[i] \in F THEN Unknown ELSE Dec[s[i]]]]
  <2>6. \A i \in DOMAIN s : ss[i] \in Updates(asked[k]) /\ ss[i] \in Updates(Rows)
    BY <2>3, <2>5, CatalogAssumption DEF CatalogAssumption, Unknown, Rows, Updates
  <2>7. DOMAIN ss = 1..Cardinality(asked[k])
    BY <2>5
  <2>e. ss = [i \in 1..Cardinality(asked[k]) |-> ss[i]]
    BY <2>5
  <2> HIDE DEF ss
  <2>8. ss \in Seq(Updates(asked[k])) /\ ss \in Seq(Updates(Rows))
    BY <2>4, <2>5, <2>6, <2>7, <2>e, SequenceOf
  <2>9. todo' = [todo EXCEPT ![k] = ss]
    BY <2>1 DEF ss
  <2> HIDE DEF ss
  <2>10. faults' \in 0..MaxFaults /\ failed' = [failed EXCEPT ![k] = F] /\ F \subseteq asked[k]
    BY <2>1, <2>4, <1>b DEF TypeOK
  <2> QED
    BY <2>2, <2>8, <2>9, <2>10, <1>p, RestIs DEF TypeOK
<1>6. ASSUME NEW k \in Trackers, pc[k] = "tx", Select(k) PROVE TypeOK'
  <2>1. /\ todo[k] # <<>> /\ todo' = [todo EXCEPT ![k] = Tail(todo[k])]
        /\ \/ dirty' = [dirty EXCEPT ![k] = Head(todo[k])]
           \/ dirty' = [dirty EXCEPT ![k] = [row |-> Head(todo[k]).row, dec |-> None]]
           \/ dirty' = dirty
        /\ UNCHANGED <<row, pc, stage, tx, tracker, late, txs, faults>>
    BY <1>6 DEF Select
  <2>2. Head(todo[k]) \in Updates(asked[k]) /\ Tail(todo[k]) \in Seq(Updates(asked[k]))
    BY <2>1, HeadAndTail DEF TypeOK
  <2>3. Tail(todo[k]) \in Seq(Updates(Rows))
    BY <2>1, <1>p, HeadAndTail DEF TypeOK
  <2>4. asked[k] \subseteq Tokens
    BY DEF TypeOK
  <2>5. dirty' \in [Trackers -> {None} \cup [row : Tokens, dec : Nat \cup {None}]]
    <3>1. Head(todo[k]) \in [row : Tokens, dec : Nat \cup {None}]
      BY <2>2, <2>4 DEF Updates
    <3>2. [row |-> Head(todo[k]).row, dec |-> None] \in [row : Tokens, dec : Nat \cup {None}]
      BY <2>2, <2>4, UpdateIs
    <3> DEFINE U == [row : Tokens, dec : Nat \cup {None}]
    <3> HIDE DEF U
    <3>3. dirty \in [Trackers -> {None} \cup U]
      BY DEF TypeOK, U
    <3>4. dirty' \in [Trackers -> {None} \cup U]
      BY <2>1, <3>1, <3>2, <3>3 DEF U
    <3> QED
      BY <3>4 DEF U
  <2> QED
    BY <1>6, <2>1, <2>2, <2>3, <2>5, <1>p DEF TypeOK
<1>7. ASSUME NEW k \in Trackers, Flush(k) PROVE TypeOK'
  <2> DEFINE u == dirty[k]
             d == IF u.dec = None THEN Visible(k, u.row) ELSE u.dec
  <2>1. /\ pc[k] = "tx" /\ u # None
        /\ tx' = [tx EXCEPT ![k][u.row] = d]
        /\ dirty' = [dirty EXCEPT ![k] = None]
        /\ UNCHANGED <<row, pc, stage, todo, tracker, late, txs, faults>>
    BY <1>7 DEF Flush
  <2>2. u.row \in Tokens /\ u.dec \in Nat \cup {None} /\ u.row \in Rows
    BY <2>1 DEF TypeOK, Rows
  <2>3. Visible(k, u.row) \in Nat \cup {None}
    BY <2>2, <1>p DEF Visible, TypeOK
  <2>4. d \in Nat \cup {None}
    BY <2>2, <2>3
  <2> HIDE DEF d, u
  <2>5. tx' \in [Procs -> [Rows -> Nat \cup {None}]]
    BY <2>1, <2>4 DEF TypeOK
  <2> QED
    BY <2>1, <2>5, <1>p DEF TypeOK
<1>8. ASSUME NEW k \in Trackers, Start(k) \/ Reload(k) PROVE TypeOK'
  <2>1. /\ \/ pc[k] = "off" /\ pc' = [pc EXCEPT ![k] = "load"]
           \/ pc[k] = "reload" /\ pc' = [pc EXCEPT ![k] = "run"]
        /\ UNCHANGED <<row, stage, session, tracker, late, txs, faults>>
    BY <1>8 DEF Start, Reload
  <2> QED
    BY <2>1, <1>p, RestIs DEF TypeOK
<1>9. ASSUME NEW p \in Procs, Commit(p) PROVE TypeOK'
  <2>1. /\ pc[p] = "tx" /\ todo[p] = <<>> /\ Wanted(p) = None
        /\ row' = [r \in Rows |-> Visible(p, r)] /\ tx' = [tx EXCEPT ![p] = NoRows]
        /\ late' = [k \in Trackers |-> late[k] \cup Late(p)]
        /\ pc' = [pc EXCEPT ![p] = IF p \in Trackers THEN "reload" ELSE Rest(p)]
        /\ UNCHANGED <<todo, dirty, tracker, txs, faults>>
    BY <1>9 DEF Commit
  <2>2. stage' \in [Loops -> {"dexscreener", "gecko"}]
    BY <1>9 DEF Commit, NextStage, TypeOK
  <2>3. row' \in [Rows -> Nat \cup {None}]
    BY <2>1 DEF Visible, TypeOK
  <2>4. tx' \in [Procs -> [Rows -> Nat \cup {None}]] /\ tx'[p] = NoRows
    BY <2>1 DEF NoRows, TypeOK
  <2>5. late' \in [Trackers -> SUBSET Tokens]
    BY <2>1 DEF Late, Written, TypeOK
  <2>6. p \in Trackers => dirty[p] = None
    BY <2>1, WantedIs
  <2>7. \A x \in Procs : pc'[x] \in {Rest(x), "tx"} \/ (x \in Trackers /\ pc'[x] \in {"load", "ask", "reload", "run"})
    BY <2>1 DEF TypeOK
  <2>8. \A x \in Procs : pc'[x] # "tx" => tx'[x] = NoRows /\ todo'[x] = <<>>
    BY <2>1, <2>4 DEF TypeOK
  <2>9. \A k \in Trackers : /\ pc'[k] # "tx" => dirty'[k] = None
                            /\ pc'[k] \in {"off", "load", "ask"} => failed'[k] = {}
    BY <2>1, <2>6, <1>p DEF TypeOK
  <2> QED
    BY <2>1, <2>2, <2>3, <2>4, <2>5, <2>7, <2>8, <2>9 DEF TypeOK
<1>10. ASSUME NEW p \in Procs, GiveUp(p), faults' \in 0..MaxFaults PROVE TypeOK'
  <2>1. /\ tx' = [tx EXCEPT ![p] = NoRows] /\ todo' = [todo EXCEPT ![p] = <<>>]
        /\ pc' = [pc EXCEPT ![p] = Rest(p)]
        /\ UNCHANGED <<row, late, txs>>
    BY <1>10 DEF GiveUp, Rollback
  <2>2. stage' \in [Loops -> {"dexscreener", "gecko"}]
    BY <1>10 DEF GiveUp, TypeOK
  <2>3. tx' \in [Procs -> [Rows -> Nat \cup {None}]] /\ tx'[p] = NoRows
    BY <2>1 DEF NoRows, TypeOK
  <2>4. /\ dirty' \in [Trackers -> {None} \cup [row : Tokens, dec : Nat \cup {None}]]
        /\ asked' \in [Trackers -> SUBSET Tokens] /\ failed' \in [Trackers -> SUBSET Tokens]
    BY <1>10, ZenonT(60) DEF GiveUp, TypeOK
  <2>5. \A x \in Procs : /\ pc'[x] \in {Rest(x), "tx"} \/ (x \in Trackers /\ pc'[x] \in {"load", "ask", "reload", "run"})
                         /\ pc'[x] # "tx" => tx'[x] = NoRows /\ todo'[x] = <<>>
    BY <2>1, <2>3 DEF TypeOK
  <2>6. todo' \in [Procs -> Seq(Updates(Rows))]
    BY <2>1 DEF TypeOK
  <2>7. ASSUME NEW k \in Trackers
        PROVE  /\ pc'[k] # "tx" => dirty'[k] = None
               /\ pc'[k] \in {"off", "load", "ask"} => failed'[k] = {}
               /\ todo'[k] \in Seq(Updates(asked'[k])) /\ failed'[k] \subseteq asked'[k]
    <3>1. CASE k = p
      <4>1. /\ dirty'[k] = None /\ failed'[k] = {} /\ asked'[k] = {}
        BY <1>10, <3>1 DEF GiveUp, TypeOK
      <4>2. todo'[k] = <<>> /\ pc'[k] = "off"
        BY <2>1, <3>1, <1>p, RestIs DEF TypeOK
      <4> QED
        BY <4>1, <4>2
    <3>2. CASE k # p
      <4>1. /\ dirty'[k] = dirty[k] /\ failed'[k] = failed[k] /\ asked'[k] = asked[k]
        BY <1>10, <3>2 DEF GiveUp, TypeOK
      <4>2. todo'[k] = todo[k] /\ pc'[k] = pc[k]
        BY <2>1, <3>2, <1>p DEF TypeOK
      <4> QED
        BY <4>1, <4>2 DEF TypeOK
    <3> QED
      BY <3>1, <3>2
  <2> QED
    BY <1>10, <2>1, <2>2, <2>3, <2>4, <2>5, <2>6, <2>7 DEF TypeOK
<1>11. ASSUME NEW p \in Procs, Fail(p) PROVE TypeOK'
  BY <1>10, <1>11, <1>b DEF Fail, TypeOK
<1>12. ASSUME NEW p \in Procs, Deadlock(p) PROVE TypeOK'
  BY <1>10, <1>12 DEF Deadlock, TypeOK
<1>13. ASSUME NEW k \in Trackers, Refuse(k) PROVE TypeOK'
  BY <1>p, <1>10, <1>13 DEF Refuse, TypeOK
<1>14. CASE UNCHANGED vars
  BY <1>14 DEF vars, TypeOK
<1> QED
  BY <1>1, <1>2, <1>3, <1>4, <1>5, <1>6, <1>7, <1>8, <1>9, <1>11, <1>12, <1>13, <1>14
     DEF Next, Work, Take, Track
-----------------------------------------------------------------------------
\* A row has one holder.
Exclusive ==
  \A p, q \in Procs : p # q => \A r \in Rows : ~(Holds(p, r) /\ Holds(q, r))

\* What a row needs that a process holds or has still to write is held by it
\* or written before the row; rows are written chain by chain.
InOrder(p) ==
  /\ Ordered(todo[p])
  /\ \A r \in Rows : Holds(p, r) => Home(r) \in Chains /\ \A n \in Needs(r) : Holds(p, n)
  /\ \A i \in DOMAIN todo[p] :
       /\ Home(todo[p][i].row) \in Chains
       /\ \A r \in Rows : Holds(p, r) => Place(r) <= Place(todo[p][i].row)
       /\ \A n \in Needs(todo[p][i].row) :
            Holds(p, n) \/ \E j \in 1..i : todo[p][j].row = n

Upserters == Loops \cup Watchers

LocksInv == Exclusive /\ \A p \in Upserters : InOrder(p)

\* What a step does to the locks: nothing, or one process gets the row it
\* wants, which nobody else has, or one releases all of its rows.
LEMMA TxStep ==
  ASSUME TypeOK, [Next]_vars
  PROVE  \/ tx' = tx
         \/ \E p \in Procs :
              \/ tx' = [tx EXCEPT ![p] = NoRows]
              \/ /\ Free(p) /\ Wanted(p) \in Rows
                 /\ \E d : tx' = [tx EXCEPT ![p][Wanted(p)] = d]
<1>1. ASSUME NEW p \in Procs, Upsert(p)
      PROVE  Free(p) /\ Wanted(p) \in Rows /\ \E d : tx' = [tx EXCEPT ![p][Wanted(p)] = d]
  BY <1>1, WantedIs DEF Upsert
<1>2. ASSUME NEW k \in Trackers, Flush(k)
      PROVE  Free(k) /\ Wanted(k) \in Rows /\ \E d : tx' = [tx EXCEPT ![k][Wanted(k)] = d]
  <2>1. k \in Procs /\ Tokens \subseteq Rows
    BY DEF Procs, Rows
  <2> QED
    BY <1>2, <2>1, WantedIs DEF Flush
<1>3. ASSUME NEW p \in Procs, Commit(p) \/ GiveUp(p) PROVE tx' = [tx EXCEPT ![p] = NoRows]
  BY <1>3 DEF Commit, GiveUp, Rollback
<1>4. ASSUME NEW p \in Procs, Fetch(p) \/ Notified(p) \/ Start(p) \/ Load(p) \/ Ask(p) \/ Reload(p) \/ Select(p)
      PROVE  tx' = tx
  BY <1>4 DEF Fetch, Notified, Start, Load, Ask, Reload, Select, session
<1>5. CASE UNCHANGED vars
  BY <1>5 DEF vars, session
<1> QED
  BY <1>1, <1>2, <1>3, <1>4, <1>5 DEF Next, Work, Take, Track, Refuse, Fail, Deadlock, Procs

\* A row stays locked by one process at most.
LEMMA ExclusiveStep == ASSUME TypeOK, Exclusive, [Next]_vars PROVE Exclusive'
<1> SUFFICES ASSUME NEW p \in Procs, NEW q \in Procs, p # q, NEW r \in Rows,
                    tx'[p][r] # None, tx'[q][r] # None
             PROVE  FALSE
  BY DEF Exclusive, Holds
<1>1. tx \in [Procs -> [Rows -> Nat \cup {None}]] /\ ~(tx[p][r] # None /\ tx[q][r] # None)
  BY DEF TypeOK, Exclusive, Holds
<1>2. CASE tx' = tx
  BY <1>1, <1>2
<1>3. ASSUME NEW x \in Procs, tx' = [tx EXCEPT ![x] = NoRows] PROVE FALSE
  BY <1>1, <1>3 DEF NoRows
<1>4. ASSUME NEW x \in Procs, Free(x), Wanted(x) \in Rows, NEW d,
             tx' = [tx EXCEPT ![x][Wanted(x)] = d]
      PROVE  FALSE
  <2>1. Wanted(x) # None
    BY <1>4, CatalogAssumption DEF CatalogAssumption
  <2>2. \A y \in Procs : y # x => tx[y][Wanted(x)] = None
    BY <1>4, <2>1 DEF Free, Waits, Holds
  <2> QED
    BY <1>1, <1>4, <2>2
<1> QED
  BY <1>2, <1>3, <1>4, TxStep

\* A process whose locks and updates stay keeps the order.
LEMMA InOrderKept ==
  ASSUME NEW p \in Procs, InOrder(p), tx'[p] = tx[p], todo'[p] = todo[p]
  PROVE  InOrder(p)'
BY DEF InOrder, Holds

\* One that begins a transaction, or has ended one, is in order.
LEMMA InOrderFresh ==
  ASSUME NEW p \in Procs, tx'[p] = NoRows, Ordered(todo'[p]), NeedsFirst(todo'[p])
  PROVE  InOrder(p)'
BY DEF InOrder, Holds, NoRows, NeedsFirst

\* What is left of a sequence keeps its order.
LEMMA TailIs ==
  ASSUME NEW S, NEW s \in Seq(S), s # <<>>
  PROVE  /\ Head(s) = s[1] /\ 1 \in DOMAIN s
         /\ \A i \in DOMAIN Tail(s) : i \in Nat \ {0} /\ i + 1 \in DOMAIN s /\ Tail(s)[i] = s[i + 1]
         /\ \A i \in DOMAIN s : i \in Nat /\ (i # 1 => i - 1 \in DOMAIN Tail(s) /\ i - 1 \in Nat \ {0})
OBVIOUS

\* A process that gets its next row keeps the order.
LEMMA InOrderUpsert ==
  ASSUME TypeOK, NEW p \in Procs, InOrder(p), Upsert(p)
  PROVE  InOrder(p)'
<1> DEFINE s == todo[p]
           n == Tail(todo[p])
           u == Head(todo[p]).row
           held(r) == tx'[p][r] # None
<1>1. /\ s \in Seq(Updates(Rows)) /\ s # <<>> /\ todo' = [todo EXCEPT ![p] = n]
      /\ tx' = [tx EXCEPT ![p][u] = Head(todo[p]).dec]
  BY DEF Upsert, TypeOK
<1>2. Head(todo[p]) \in Updates(Rows)
  BY <1>1, HeadAndTail
<1>3. u \in Rows /\ Head(todo[p]).dec \in Nat /\ Head(todo[p]).dec # None
  BY <1>2, UpdateIs, CatalogAssumption DEF CatalogAssumption
<1>4. \A r \in Rows : held(r) <=> Holds(p, r) \/ r = u
  BY <1>1, <1>3 DEF Holds, TypeOK
<1>5. todo'[p] = n
  BY <1>1 DEF TypeOK
<1>6. /\ u = s[1].row /\ 1 \in DOMAIN s
      /\ \A i \in DOMAIN n : i \in Nat \ {0} /\ i + 1 \in DOMAIN s /\ n[i] = s[i + 1]
      /\ \A i \in DOMAIN s : i \in Nat /\ (i # 1 => i - 1 \in DOMAIN n /\ i - 1 \in Nat \ {0})
  BY <1>1, TailIs
<1>7. \A i \in DOMAIN s : s[i] \in Updates(Rows)
  BY <1>1
<1>8. Chains \subseteq Rows
  BY DEF Rows
<1> HIDE DEF s, n, u, held
<1>9. /\ \A i, j \in DOMAIN s : i < j => Place(s[i].row) <= Place(s[j].row)
      /\ \A r \in Rows : Holds(p, r) => Home(r) \in Chains /\ \A x \in Needs(r) : Holds(p, x)
      /\ \A i \in DOMAIN s :
           /\ Home(s[i].row) \in Chains
           /\ \A r \in Rows : Holds(p, r) => Place(r) <= Place(s[i].row)
           /\ \A x \in Needs(s[i].row) : Holds(p, x) \/ \E j \in 1..i : s[j].row = x
  BY DEF InOrder, Ordered, s
<1>10. ASSUME NEW i \in DOMAIN n, NEW j \in DOMAIN n, i < j
       PROVE  Place(n[i].row) <= Place(n[j].row)
  <2>1. i + 1 \in DOMAIN s /\ j + 1 \in DOMAIN s /\ i + 1 < j + 1
    BY <1>6, <1>10
  <2> QED
    BY <1>6, <1>9, <2>1
<1>11. \A x \in Needs(u) : Holds(p, x) \/ u = x
  <2>1. \A j \in 1..1 : j = 1
    OBVIOUS
  <2> QED
    BY <1>6, <1>9, <2>1
<1>12. ASSUME NEW r \in Rows, held(r) PROVE Home(r) \in Chains /\ \A x \in Needs(r) : held(x)
  <2>1. Home(r) \in Chains /\ \A x \in Needs(r) : x \in Rows
    BY <1>4, <1>6, <1>8, <1>9, <1>12, NeedsAreRows
  <2>2. CASE Holds(p, r)
    BY <1>4, <1>9, <2>1, <2>2
  <2>3. CASE r = u
    BY <1>4, <1>11, <2>1, <2>3
  <2> QED
    BY <1>4, <1>12, <2>2, <2>3
<1>13. ASSUME NEW i \in DOMAIN n, NEW r \in Rows, held(r)
       PROVE  Place(r) <= Place(n[i].row)
  <2>1. i + 1 \in DOMAIN s /\ n[i] = s[i + 1] /\ 1 < i + 1
    BY <1>6
  <2>2. CASE Holds(p, r)
    BY <1>9, <2>1, <2>2
  <2>3. CASE r = u
    BY <1>6, <1>9, <2>1, <2>3
  <2> QED
    BY <1>4, <1>13, <2>2, <2>3
<1>14. ASSUME NEW i \in DOMAIN n, NEW x \in Needs(n[i].row)
       PROVE  /\ Home(n[i].row) \in Chains
              /\ held(x) \/ \E j \in 1..i : n[j].row = x
  <2>1. i \in Nat \ {0} /\ i + 1 \in DOMAIN s /\ n[i] = s[i + 1]
    BY <1>6
  <2>2. Home(n[i].row) \in Chains /\ x \in Rows
    BY <1>8, <1>9, <2>1, NeedsAreRows
  <2>3. CASE Holds(p, x)
    BY <1>4, <2>2, <2>3
  <2>4. CASE \E j \in 1..(i + 1) : s[j].row = x
    <3>1. PICK j \in 1..(i + 1) : s[j].row = x
      BY <2>4
    <3>2. CASE j = 1
      BY <1>4, <1>6, <2>2, <3>1, <3>2
    <3>3. CASE j # 1
      <4>1. j - 1 \in 1..i
        BY <2>1, <3>3
      <4>2. j - 1 \in DOMAIN n
        <5>1. j \in DOMAIN s
          BY <1>1, <2>1 DEF s
        <5> QED
          BY <1>6, <3>3, <5>1
      <4>3. n[j - 1] = s[j]
        <5>1. n[j - 1] = s[(j - 1) + 1] /\ (j - 1) + 1 = j
          BY <1>6, <4>2
        <5> QED
          BY <5>1
      <4> QED
        BY <2>2, <3>1, <4>1, <4>3
    <3> QED
      BY <3>2, <3>3
  <2> QED
    BY <1>9, <2>1, <2>2, <2>3, <2>4
<1>15. \A i \in DOMAIN n : Home(n[i].row) \in Chains
  BY <1>6, <1>9
<1> QED
  BY <1>5, <1>10, <1>12, <1>13, <1>14, <1>15 DEF InOrder, Ordered, Holds, held

\* Locks are taken in order and dropped together.
LEMMA LocksStep == ASSUME TypeOK, LocksInv, [Next]_vars PROVE LocksInv'
<1>1. Exclusive'
  BY ExclusiveStep DEF LocksInv
<1> SUFFICES ASSUME NEW p \in Upserters PROVE InOrder(p)'
  BY <1>1 DEF LocksInv
<1>2. p \in Procs /\ p \notin Trackers /\ InOrder(p)
  BY CatalogAssumption DEF CatalogAssumption, LocksInv, Upserters, Procs
<1>3. tx \in [Procs -> [Rows -> Nat \cup {None}]] /\ DOMAIN todo = Procs
  BY DEF TypeOK
<1>4. CASE tx'[p] = tx[p] /\ todo'[p] = todo[p]
  BY <1>2, <1>4, InOrderKept
<1>5. CASE tx'[p] = NoRows /\ todo'[p] = <<>>
  <2>1. Ordered(<<>>) /\ NeedsFirst(<<>>)
    BY DEF Ordered, NeedsFirst
  <2> QED
    BY <1>2, <1>5, <2>1, InOrderFresh
<1>6. ASSUME NEW l \in Loops, Fetch(l) PROVE InOrder(p)'
  <2>1. PICK s \in Batches : todo' = todo \/ todo' = [todo EXCEPT ![l] = s]
    BY <1>6 DEF Fetch
  <2>2. tx' = tx /\ pc[l] = "list" /\ l \in Procs
    BY <1>6 DEF Fetch, Procs
  <2>3. tx[l] = NoRows
    BY <2>2 DEF TypeOK
  <2>4. CASE l = p /\ todo' = [todo EXCEPT ![l] = s]
    BY <1>2, <1>3, <2>2, <2>3, <2>4, BatchesOrdered, InOrderFresh
  <2>5. CASE l # p \/ todo' = todo
    <3>1. todo'[p] = todo[p]
      BY <1>2, <1>3, <2>1, <2>5
    <3> QED
      BY <1>4, <2>2, <3>1
  <2> QED
    BY <2>1, <2>4, <2>5
<1>7. ASSUME NEW w \in Watchers, Notified(w) PROVE InOrder(p)'
  <2>1. PICK q \in Pools :
          todo' = [todo EXCEPT ![w] = Upserts(q, Pair[q][1], Pair[q][2],
                                              HandlerDecimals(q)[1], HandlerDecimals(q)[2])]
    BY <1>7 DEF Notified
  <2> DEFINE s == Upserts(q, Pair[q][1], Pair[q][2], HandlerDecimals(q)[1], HandlerDecimals(q)[2])
  <2>2. Ordered(s) /\ NeedsFirst(s) /\ todo' = [todo EXCEPT ![w] = s]
    BY <2>1, RegistrationOrdered, HandlerDecimalsType
  <2> HIDE DEF s
  <2>3. tx' = tx /\ pc[w] = "idle" /\ w \in Procs
    BY <1>7 DEF Notified, Procs
  <2>4. tx[w] = NoRows
    BY <2>3 DEF TypeOK
  <2>5. CASE w = p
    BY <1>2, <1>3, <2>2, <2>3, <2>4, <2>5, InOrderFresh
  <2>6. CASE w # p
    BY <1>3, <1>4, <2>2, <2>3, <2>6
  <2> QED
    BY <2>5, <2>6
<1>8. ASSUME NEW q \in Procs, Upsert(q) PROVE InOrder(p)'
  <2>1. CASE q = p
    BY <1>2, <1>8, <2>1, InOrderUpsert
  <2>2. CASE q # p
    <3>1. tx'[p] = tx[p] /\ todo'[p] = todo[p]
      BY <1>2, <1>3, <1>8, <2>2 DEF Upsert
    <3> QED
      BY <1>4, <3>1
  <2> QED
    BY <2>1, <2>2
<1>9. ASSUME NEW q \in Procs, Commit(q) \/ GiveUp(q) PROVE InOrder(p)'
  <2>1. tx' = [tx EXCEPT ![q] = NoRows]
    BY <1>9 DEF Commit, GiveUp, Rollback
  <2>2. todo' = [todo EXCEPT ![q] = <<>>] \/ (todo' = todo /\ todo[q] = <<>>)
    BY <1>9 DEF Commit, GiveUp
  <2>3. CASE q = p
    BY <1>2, <1>3, <1>5, <2>1, <2>2, <2>3
  <2>4. CASE q # p
    BY <1>2, <1>3, <1>4, <2>1, <2>2, <2>4
  <2> QED
    BY <2>3, <2>4
<1>10. ASSUME NEW k \in Trackers, Start(k) \/ Load(k) \/ Ask(k) \/ Reload(k) \/ Select(k) \/ Flush(k)
       PROVE  InOrder(p)'
  <2>1. k # p
    BY <1>2
  <2>2. tx'[p] = tx[p] /\ todo'[p] = todo[p]
    BY <1>2, <1>3, <1>10, <2>1 DEF Start, Load, Ask, Reload, Select, Flush, session, tracker
  <2> QED
    BY <1>4, <2>2
<1>11. CASE UNCHANGED vars
  BY <1>4, <1>11 DEF vars, session
<1> QED
  BY <1>6, <1>7, <1>8, <1>9, <1>10, <1>11 DEF Next, Work, Take, Track, Refuse, Fail, Deadlock, Procs

\* A set of numbers has a least one.
LEMMA Least ==
  ASSUME NEW B \in SUBSET Nat, B # {}
  PROVE  \E m \in B : \A n \in B : m <= n
<1>1. IsWellFoundedOn({ss \in Nat \X Nat : ss[1] < ss[2]}, Nat)
  BY NatLessThanWellFounded DEF OpToRel
<1>2. PICK m \in B : \A n \in B : <<n, m>> \notin {ss \in Nat \X Nat : ss[1] < ss[2]}
  BY <1>1, WFMin
<1>3. ASSUME NEW n \in B PROVE m <= n
  <2>1. m \in Nat /\ n \in Nat
    OBVIOUS
  <2>2. ~(n < m)
    BY <1>2, <2>1
  <2> QED
    BY <2>1, <2>2
<1> QED
  BY <1>3

\* A process that waits in a circle without trackers waits for a chain, and
\* the one that has the chain waits for a chain further on.
LEMMA NoCircle == TypeOK /\ LocksInv => LocksOrdered
<1> SUFFICES ASSUME TypeOK, LocksInv, NEW S \in Circles, S \cap Trackers = {} PROVE FALSE
  BY DEF LocksOrdered
<1>1. S # {} /\ \A p \in S : p \in Procs /\ \E q \in S : Waits(p, q)
  BY DEF Circles
<1>2. ASSUME NEW p \in S
      PROVE  /\ p \in Upserters /\ p \in Procs /\ InOrder(p) /\ 1 \in DOMAIN todo[p]
             /\ Wanted(p) = todo[p][1].row /\ Wanted(p) \in Rows
  <2>1. p \in Procs /\ p \notin Trackers /\ p \in Upserters
    BY <1>1 DEF Procs, Upserters
  <2>2. todo[p] # <<>> /\ todo[p] \in Seq(Updates(Rows))
    BY <1>1, <2>1, WantedIs DEF Waits, TypeOK
  <2>3. Head(todo[p]) = todo[p][1] /\ 1 \in DOMAIN todo[p]
    BY <2>2, TailIs
  <2> QED
    BY <2>1, <2>2, <2>3, WantedIs DEF LocksInv
<1>3. ASSUME NEW p \in S, NEW q \in S, Waits(p, q)
      PROVE  Wanted(p) \in Chains /\ Holds(q, Wanted(p)) /\ ~Holds(p, Wanted(p))
  <2> DEFINE w == Wanted(p)
  <2>1. p # q /\ Holds(q, w) /\ w \in Rows
    BY <1>2, <1>3 DEF Waits
  <2>2. \A r \in Rows : ~(Holds(p, r) /\ Holds(q, r))
    BY <1>2, <2>1 DEF LocksInv, Exclusive
  <2>3. Home(w) \in Chains /\ Holds(q, Home(w))
    BY <1>2, <2>1 DEF InOrder, Needs
  <2>4. Holds(p, Home(w)) \/ w = Home(w)
    <3>1. \A j \in 1..1 : j = 1
      OBVIOUS
    <3> QED
      BY <1>2, <3>1 DEF InOrder, Needs
  <2>5. Home(w) \in Rows
    BY <2>3 DEF Rows
  <2> QED
    BY <2>1, <2>2, <2>3, <2>4, <2>5
<1> DEFINE rank(p) == Place(Wanted(p))
<1>4. ASSUME NEW p \in S
      PROVE  /\ rank(p) \in 1..Len(Networks) /\ Networks[rank(p)] = Wanted(p)
             /\ ~Holds(p, Wanted(p))
  <2>1. Wanted(p) \in Chains /\ ~Holds(p, Wanted(p))
    BY <1>1, <1>3
  <2>2. DOMAIN Networks = 1..Len(Networks)
    BY CatalogAssumption DEF CatalogAssumption
  <2> QED
    BY <2>1, <2>2, PlaceOfChain
<1>5. Len(Networks) \in Nat
  BY CatalogAssumption DEF CatalogAssumption
<1>6. ASSUME NEW p \in S PROVE \E q \in S : rank(p) < rank(q)
  <2>1. PICK q \in S : Waits(p, q)
    BY <1>1
  <2>2. Holds(q, Wanted(p)) /\ ~Holds(q, Wanted(q)) /\ Wanted(p) \in Rows
    BY <1>2, <1>3, <1>4, <2>1
  <2>3. Place(Wanted(p)) <= Place(todo[q][1].row)
    BY <1>2, <2>2 DEF InOrder
  <2>4. rank(p) <= rank(q)
    BY <1>2, <2>3
  <2>5. rank(p) # rank(q)
    BY <1>4, <2>2
  <2> QED
    BY <1>4, <1>5, <2>4, <2>5
<1> HIDE DEF rank
<1> DEFINE B == {Len(Networks) - rank(p) : p \in S}
<1>7. B \in SUBSET Nat /\ B # {}
  BY <1>1, <1>4, <1>5
<1>8. PICK m \in B : \A n \in B : m <= n
  <2> HIDE DEF B
  <2> QED
    BY <1>7, Least
<1>9. PICK p \in S : m = Len(Networks) - rank(p)
  OBVIOUS
<1>10. PICK q \in S : rank(p) < rank(q)
  BY <1>6
<1>11. Len(Networks) - rank(q) \in B
  OBVIOUS
<1>12. m <= Len(Networks) - rank(q)
  BY <1>8, <1>11
<1> QED
  BY ONLY <1>4, <1>5, <1>9, <1>10, <1>12
-----------------------------------------------------------------------------
\* The loops write 18, and the watchers nothing of the trackers' chain.
LoopWrites(l) == Hinted(todo[l]) /\ \A t \in Tokens : tx[l][t] \in {None, Unknown}
WatcherWrites(w) ==
  /\ \A r \in Rows : Holds(w, r) => Home(r) = Solana
  /\ \A i \in DOMAIN todo[w] : Home(todo[w][i].row) = Solana

\* A tracker writes tokens that were asked, with what the contract says, or
\* 18 where it did not answer, or what the row has.
Answer(k, t, d) == d = Dec[t] \/ (t \in failed[k] /\ d = Unknown)
Answers(k) == \A i \in DOMAIN todo[k] : Answer(k, todo[k][i].row, todo[k][i].dec)
TrackerWrites(k) ==
  /\ asked[k] \subseteq EvmTokens
  /\ \A t \in EvmTokens : Holds(k, t) => Answer(k, t, tx[k][t]) \/ tx[k][t] = row[t]
  /\ Answers(k)
  /\ dirty[k] # None =>
       /\ dirty[k].row \in asked[k]
       /\ dirty[k].dec = None \/ Answer(k, dirty[k].row, dirty[k].dec)

WritesInv ==
  /\ \A l \in Loops : LoopWrites(l)
  /\ \A w \in Watchers : WatcherWrites(w)
  /\ \A k \in Trackers : TrackerWrites(k)

\* Why the decimals of a token that was asked may be wrong.
Excused(k, t) == t \in late[k] \cup failed[k]

\* What is right for a tracker that has come so far, or will be at the end
\* of its transaction.
Coming(k, t) ==
  \/ pc[k] = "ask" /\ t \in asked[k]
  \/ pc[k] = "tx" /\ \E i \in DOMAIN todo[k] : todo[k][i].row = t
  \/ pc[k] = "tx" /\ dirty[k] # None /\ dirty[k].row = t /\ dirty[k].dec = Dec[t]
  \/ Visible(k, t) = Dec[t]
Grounded(k) ==
  pc[k] \in {"ask", "tx", "reload", "run"} => \A t \in asked[k] : Excused(k, t) \/ Coming(k, t)

-----------------------------------------------------------------------------
\* What a step does to a loop or a watcher.
LEMMA UpserterStep ==
  ASSUME TypeOK, [Next]_vars, NEW p \in Upserters
  PROVE  \/ tx'[p] = tx[p] /\ todo'[p] = todo[p]
         \/ (p \in Loops /\ Fetch(p)) \/ (p \in Watchers /\ Notified(p))
         \/ Upsert(p) \/ Commit(p) \/ GiveUp(p)
<1> DEFINE same == tx'[p] = tx[p] /\ todo'[p] = todo[p]
<1>1. p \in Procs /\ p \notin Trackers
  BY CatalogAssumption DEF CatalogAssumption, Upserters, Procs
<1>2. tx \in [Procs -> [Rows -> Nat \cup {None}]] /\ DOMAIN todo = Procs
  BY DEF TypeOK
<1>3. ASSUME NEW q \in Procs, q # p,
             Fetch(q) \/ Notified(q) \/ Upsert(q) \/ Commit(q) \/ GiveUp(q)
      PROVE  same
  BY <1>1, <1>2, <1>3 DEF Fetch, Notified, Upsert, Commit, GiveUp, Rollback, session
<1>4. ASSUME NEW k \in Trackers, Start(k) \/ Load(k) \/ Ask(k) \/ Reload(k) \/ Select(k) \/ Flush(k)
      PROVE  same
  <2>1. k # p /\ k \in Procs
    BY <1>1 DEF Procs
  <2> QED
    BY <1>1, <1>2, <1>4, <2>1 DEF Start, Load, Ask, Reload, Select, Flush, session, tracker
<1>5. CASE UNCHANGED vars
  BY <1>5 DEF vars, session
<1>6. Loops \subseteq Procs /\ Watchers \subseteq Procs
  BY DEF Procs
<1>7. ASSUME NEW l \in Loops, Fetch(l), l = p PROVE p \in Loops /\ Fetch(p)
  BY <1>7
<1>8. ASSUME NEW w \in Watchers, Notified(w), w = p PROVE p \in Watchers /\ Notified(p)
  BY <1>8
<1> HIDE DEF same
<1>9. \/ \E l \in Loops : Fetch(l)
      \/ \E w \in Watchers : Notified(w)
      \/ \E q \in Procs : Upsert(q) \/ Commit(q) \/ GiveUp(q)
      \/ \E k \in Trackers : Start(k) \/ Load(k) \/ Ask(k) \/ Reload(k) \/ Select(k) \/ Flush(k)
      \/ UNCHANGED vars
  BY DEF Next, Work, Take, Track, Refuse, Fail, Deadlock, Procs
<1> QED
  BY <1>3, <1>4, <1>5, <1>6, <1>7, <1>8, <1>9 DEF same

\* What is a tracker's own.
Own(k) == <<pc[k], tx[k], todo[k], dirty[k], asked[k], failed[k]>>

\* Another's commit leaves a tracker's own writes, and makes what it wrote late.
LEMMA CommitElsewhere ==
  ASSUME TypeOK, NEW k \in Trackers, NEW p \in Procs, p # k, Commit(p)
  PROVE  Own(k)' = Own(k) /\ late'[k] = late[k] \cup Late(p)
<1>1. k \in Procs /\ tx \in [Procs -> [Rows -> Nat \cup {None}]] /\ DOMAIN pc = Procs
  BY DEF TypeOK, Procs
<1> QED
  BY <1>1 DEF Commit, Own, tracker, Goto

\* What a step does to a tracker.
LEMMA TrackerStep ==
  ASSUME TypeOK, [Next]_vars, NEW k \in Trackers
  PROVE  \/ Own(k)' = Own(k) /\ row' = row /\ late'[k] = late[k]
         \/ \E p \in Procs \ {k} : Commit(p)
         \/ Start(k) \/ Load(k) \/ Ask(k) \/ Select(k) \/ Flush(k) \/ Reload(k) \/ Commit(k)
         \/ GiveUp(k)
<1> DEFINE same == Own(k)' = Own(k) /\ row' = row /\ late'[k] = late[k]
<1>1. /\ k \in Procs /\ k \notin Loops /\ k \notin Watchers
      /\ Loops \subseteq Procs /\ Watchers \subseteq Procs /\ Trackers \subseteq Procs
  BY RestIs DEF Procs
<1>2. /\ tx \in [Procs -> [Rows -> Nat \cup {None}]] /\ DOMAIN todo = Procs /\ DOMAIN pc = Procs
      /\ DOMAIN dirty = Trackers /\ DOMAIN asked = Trackers
      /\ DOMAIN failed = Trackers /\ DOMAIN late = Trackers
  BY DEF TypeOK
<1>3. ASSUME NEW l \in Loops, Fetch(l) PROVE same
  BY <1>1, <1>2, <1>3 DEF Fetch, Own, tracker, Goto
<1>4. ASSUME NEW w \in Watchers, Notified(w) PROVE same
  BY <1>1, <1>2, <1>4 DEF Notified, Own, tracker, Goto
<1>5. ASSUME NEW p \in Procs, Upsert(p) PROVE same
  <2>1. p # k
    BY <1>5 DEF Upsert
  <2> QED
    BY <1>1, <1>2, <1>5, <2>1 DEF Upsert, Own, tracker
<1>6. ASSUME NEW p \in Procs, p # k, GiveUp(p) PROVE same
  BY <1>1, <1>2, <1>6 DEF GiveUp, Rollback, Own, tracker, Goto
<1>7. ASSUME NEW j \in Trackers, j # k, Start(j) \/ Load(j) \/ Ask(j) \/ Reload(j) PROVE same
  BY <1>1, <1>2, <1>7 DEF Start, Load, Ask, Reload, Own, tracker, session, Goto
<1>8. ASSUME NEW j \in Trackers, j # k, Select(j) PROVE same
  <2>1. \E d : dirty' = [dirty EXCEPT ![j] = d] \/ dirty' = dirty
    BY <1>8 DEF Select
  <2>2. todo' = [todo EXCEPT ![j] = Tail(@)]
    BY <1>8 DEF Select
  <2>3. UNCHANGED <<row, pc, tx, tracker, late>>
    BY <1>8 DEF Select
  <2> QED
    BY <1>1, <1>2, <1>8, <2>1, <2>2, <2>3 DEF Own, tracker
<1>9. ASSUME NEW j \in Trackers, j # k, Flush(j) PROVE same
  <2>1. \E r, d : tx' = [tx EXCEPT ![j][r] = d]
    BY <1>9 DEF Flush
  <2>2. dirty' = [dirty EXCEPT ![j] = None] /\ UNCHANGED <<row, pc, todo, tracker, late>>
    BY <1>9 DEF Flush
  <2> QED
    BY <1>1, <1>2, <1>9, <2>1, <2>2 DEF Own, tracker
<1>10. CASE UNCHANGED vars
  BY <1>10 DEF vars, session, tracker, Own
<1> HIDE DEF same
<1>11. \/ \E l \in Loops : Fetch(l)
       \/ \E w \in Watchers : Notified(w)
       \/ \E q \in Procs : Upsert(q) \/ Commit(q) \/ GiveUp(q)
       \/ \E j \in Trackers : Start(j) \/ Load(j) \/ Ask(j) \/ Reload(j) \/ Select(j) \/ Flush(j)
       \/ UNCHANGED vars
  BY DEF Next, Work, Take, Track, Refuse, Fail, Deadlock, Procs
<1>12. ASSUME NEW q \in Procs, Commit(q), q # k PROVE \E p \in Procs \ {k} : Commit(p)
  BY <1>12
<1> QED
  BY <1>3, <1>4, <1>5, <1>6, <1>7, <1>8, <1>9, <1>10, <1>11, <1>12 DEF same

\* The rows change by commits only.
LEMMA RowStep ==
  ASSUME [Next]_vars PROVE row' = row \/ \E p \in Procs : Commit(p)
BY DEF Next, Work, Take, Track, Refuse, Fail, Deadlock, Fetch, Notified, Upsert, Start, Load, Ask,
       Select, Flush, Reload, GiveUp, vars

\* What one that writes a row that others hold no more may leave there.
LEMMA WrittenIs ==
  ASSUME WritesInv, NEW p \in Procs, NEW t \in EvmTokens, Holds(p, t)
  PROVE  \/ p \in Loops /\ tx[p][t] = Unknown
         \/ p \in Trackers /\ (Answer(p, t, tx[p][t]) \/ tx[p][t] = row[t])
<1>1. t \in Tokens /\ t \in Rows /\ Home(t) = Evm
  BY EvmTokensAre
<1>2. CASE p \in Loops
  BY <1>1, <1>2 DEF WritesInv, LoopWrites, Holds
<1>3. CASE p \in Watchers
  BY <1>1, <1>3, CatalogAssumption DEF WritesInv, WatcherWrites, CatalogAssumption
<1>4. CASE p \in Trackers
  BY <1>1, <1>4 DEF WritesInv, TrackerWrites
<1> QED
  BY <1>2, <1>3, <1>4 DEF Procs

\* What a listing writes stays a listing's.
LEMMA LoopStep ==
  ASSUME TypeOK, WritesInv, [Next]_vars, NEW l \in Loops PROVE LoopWrites(l)'
<1>1. /\ l \in Procs /\ l \in Upserters /\ LoopWrites(l)
      /\ tx \in [Procs -> [Rows -> Nat \cup {None}]] /\ DOMAIN todo = Procs
  BY DEF Procs, Upserters, WritesInv, TypeOK
<1>2. Hinted(<<>>) /\ \A t \in Tokens : t \in Rows /\ NoRows[t] = None
  BY DEF Hinted, Rows, NoRows
<1>3. CASE tx'[l] = tx[l] /\ todo'[l] = todo[l]
  BY <1>1, <1>3 DEF LoopWrites, Hinted
<1>4. CASE Fetch(l)
  <2>1. PICK s \in Batches : todo' = todo \/ todo' = [todo EXCEPT ![l] = s]
    BY <1>4 DEF Fetch
  <2>2. Hinted(s) /\ tx' = tx
    BY <1>4, BatchesOrdered DEF Fetch
  <2> QED
    BY <1>1, <2>1, <2>2 DEF LoopWrites, Hinted
<1>5. CASE Upsert(l)
  <2>1. /\ todo[l] \in Seq(Updates(Rows)) /\ todo[l] # <<>> /\ todo' = [todo EXCEPT ![l] = Tail(todo[l])]
        /\ tx' = [tx EXCEPT ![l][Head(todo[l]).row] = Head(todo[l]).dec]
    BY <1>1, <1>5 DEF Upsert, TypeOK
  <2>2. /\ Head(todo[l]) = todo[l][1] /\ 1 \in DOMAIN todo[l]
        /\ \A i \in DOMAIN Tail(todo[l]) : i + 1 \in DOMAIN todo[l] /\ Tail(todo[l])[i] = todo[l][i + 1]
    BY <2>1, TailIs
  <2>3. Hinted(Tail(todo[l]))
    BY <1>1, <2>2 DEF LoopWrites, Hinted
  <2>4. ASSUME NEW t \in Tokens PROVE tx'[l][t] \in {None, Unknown}
    <3>1. t \in Rows /\ tx[l][t] \in {None, Unknown}
      BY <1>1, <1>2 DEF LoopWrites
    <3>2. t = Head(todo[l]).row => Head(todo[l]).dec = Unknown
      BY <1>1, <2>2 DEF LoopWrites, Hinted
    <3> QED
      BY <1>1, <2>1, <3>1, <3>2
  <2>5. todo'[l] = Tail(todo[l])
    BY <1>1, <2>1
  <2> QED
    BY <2>3, <2>4, <2>5 DEF LoopWrites, Hinted
<1>6. CASE Commit(l) \/ GiveUp(l)
  <2>1. tx'[l] = NoRows /\ todo'[l] = <<>>
    BY <1>1, <1>6 DEF Commit, GiveUp, Rollback
  <2> QED
    BY <1>2, <2>1 DEF LoopWrites, Hinted
<1>7. l \notin Watchers
  BY CatalogAssumption DEF CatalogAssumption
<1> QED
  BY <1>1, <1>3, <1>4, <1>5, <1>6, <1>7, UpserterStep

\* What a watcher writes stays a registration's.
LEMMA WatcherStep ==
  ASSUME TypeOK, WritesInv, [Next]_vars, NEW w \in Watchers PROVE WatcherWrites(w)'
<1>1. /\ w \in Procs /\ w \in Upserters /\ WatcherWrites(w)
      /\ tx \in [Procs -> [Rows -> Nat \cup {None}]] /\ DOMAIN todo = Procs
  BY DEF Procs, Upserters, WritesInv, TypeOK
<1>3. CASE tx'[w] = tx[w] /\ todo'[w] = todo[w]
  BY <1>1, <1>3 DEF WatcherWrites, Holds
<1>4. CASE Notified(w)
  <2>1. PICK q \in Pools : ChainOf[q] = Solana /\
          todo' = [todo EXCEPT ![w] = Upserts(q, Pair[q][1], Pair[q][2],
                                              HandlerDecimals(q)[1], HandlerDecimals(q)[2])]
    BY <1>4 DEF Notified
  <2>2. PICK s : s = Upserts(q, Pair[q][1], Pair[q][2], HandlerDecimals(q)[1], HandlerDecimals(q)[2])
    OBVIOUS
  <2>3. \A i \in DOMAIN s : Home(s[i].row) = Solana
    BY <2>1, <2>2, RegistrationOrdered, HandlerDecimalsType
  <2>4. tx' = tx /\ todo' = [todo EXCEPT ![w] = s]
    BY <1>4, <2>1, <2>2 DEF Notified
  <2> QED
    BY <1>1, <2>3, <2>4 DEF WatcherWrites, Holds
<1>5. CASE Upsert(w)
  <2>1. /\ todo[w] \in Seq(Updates(Rows)) /\ todo[w] # <<>> /\ todo' = [todo EXCEPT ![w] = Tail(todo[w])]
        /\ tx' = [tx EXCEPT ![w][Head(todo[w]).row] = Head(todo[w]).dec]
    BY <1>1, <1>5 DEF Upsert, TypeOK
  <2>2. /\ Head(todo[w]) = todo[w][1] /\ 1 \in DOMAIN todo[w]
        /\ \A i \in DOMAIN Tail(todo[w]) : i + 1 \in DOMAIN todo[w] /\ Tail(todo[w])[i] = todo[w][i + 1]
    BY <2>1, TailIs
  <2>3. \A i \in DOMAIN Tail(todo[w]) : Home(Tail(todo[w])[i].row) = Solana
    BY <1>1, <2>2 DEF WatcherWrites
  <2>4. \A r \in Rows : tx'[w][r] # None => Home(r) = Solana
    BY <1>1, <2>1, <2>2 DEF WatcherWrites, Holds
  <2>5. todo'[w] = Tail(todo[w])
    BY <1>1, <2>1
  <2> QED
    BY <2>3, <2>4, <2>5 DEF WatcherWrites, Holds
<1>6. CASE Commit(w) \/ GiveUp(w)
  <2>1. tx'[w] = NoRows /\ todo'[w] = <<>>
    BY <1>1, <1>6 DEF Commit, GiveUp, Rollback
  <2> QED
    BY <2>1 DEF WatcherWrites, Holds, NoRows
<1>7. w \notin Loops
  BY CatalogAssumption DEF CatalogAssumption
<1> QED
  BY <1>1, <1>3, <1>4, <1>5, <1>6, <1>7, UpserterStep

\* A commit leaves what a tracker holds as it was.
LEMMA HeldStays ==
  ASSUME TypeOK, Exclusive, NEW k \in Procs, NEW p \in Procs, p # k, Commit(p)
  PROVE  \A r \in Rows : Holds(k, r) => row'[r] = row[r]
BY DEF Commit, Exclusive, Visible, Holds

\* The answers a tracker writes.
LEMMA AskIs ==
  ASSUME TypeOK, NEW k \in Trackers, Ask(k)
  PROVE  /\ Answers(k)'
         /\ \A t \in asked[k] : \E i \in DOMAIN todo'[k] : todo'[k][i].row = t
<1>0. k \in Procs
  BY DEF Procs
<1>1. PICK F \in SUBSET asked[k], s \in SetToSeqs(asked[k]) :
        /\ failed' = [failed EXCEPT ![k] = F]
        /\ todo' = [todo EXCEPT ![k] =
                      [i \in DOMAIN s |-> [row |-> s[i], dec |-> IF s[i] \in F THEN Unknown ELSE Dec[s[i]]]]]
  <2>1. PICK F \in SUBSET {t \in asked[k] : Dec[t] # Unknown}, s \in SetToSeqs(asked[k]) :
        /\ failed' = [failed EXCEPT ![k] = F]
        /\ todo' = [todo EXCEPT ![k] =
                      [i \in DOMAIN s |-> [row |-> s[i], dec |-> IF s[i] \in F THEN Unknown ELSE Dec[s[i]]]]]
    BY <1>0 DEF Ask
  <2>2. F \in SUBSET asked[k]
    OBVIOUS
  <2> QED
    BY <2>1, <2>2
<1>2. IsFiniteSet(asked[k])
  <2>1. asked[k] \subseteq Tokens
    BY DEF TypeOK
  <2> QED
    BY <2>1, FS_Subset, CatalogAssumption DEF CatalogAssumption
<1> DEFINE n == Cardinality(asked[k])
<1>3. n \in Nat
  BY <1>2, FS_CardinalityType
<1>4. s \in [1..n -> asked[k]] /\ \A i, j \in 1..n : i # j => s[i] # s[j]
  <2>1. s \in [1..n -> asked[k]] /\ \A i, j \in 1..n : i # j => s[i] # s[j]
    BY DEF SetToSeqs
  <2> QED
    BY <2>1
<1>5. /\ todo'[k] = [i \in 1..n |-> [row |-> s[i], dec |-> IF s[i] \in F THEN Unknown ELSE Dec[s[i]]]]
      /\ failed'[k] = F
  BY <1>0, <1>1, <1>4 DEF TypeOK
<1>6. ASSUME NEW i \in 1..n
      PROVE  Answer(k, todo[k][i].row, todo[k][i].dec)'
  BY <1>4, <1>5 DEF Answer
<1>7. ASSUME NEW t \in asked[k] PROVE \E i \in 1..n : s[i] = t
  <2> SUFFICES ASSUME \A i \in 1..n : s[i] # t PROVE FALSE
    OBVIOUS
  <2> HIDE DEF n
  <2>1. IsFiniteSet(asked[k] \ {t}) /\ Cardinality(asked[k] \ {t}) = n - 1
    BY <1>2, FS_RemoveElement DEF n
  <2>2. IsFiniteSet(1..n) /\ Cardinality(1..n) = n
    BY <1>3, FS_Interval
  <2>3. s \in [1..n -> asked[k] \ {t}]
    BY <1>4
  <2>4. \E x, y \in 1..n : x # y /\ s[x] = s[y]
    <3>1. Cardinality(1..n) > Cardinality(asked[k] \ {t})
      BY <1>3, <2>1, <2>2
    <3>2. PICK D, T : D = 1..n /\ T = asked[k] \ {t}
      OBVIOUS
    <3>3. IsFiniteSet(D) /\ IsFiniteSet(T) /\ Cardinality(T) < Cardinality(D) /\ s \in [D -> T]
      BY <2>1, <2>2, <2>3, <3>1, <3>2
    <3>4. \E x, y \in D : x # y /\ s[x] = s[y]
      BY <3>3, FS_PigeonHole
    <3> QED
      BY <3>2, <3>4
  <2> QED
    BY <1>4, <2>4
<1> QED
  BY <1>5, <1>6, <1>7 DEF Answers

\* A tracker whose step leaves the rows, and the rest of its own, in order.
LEMMA TrackerWritesStep ==
  ASSUME TypeOK, LocksInv, WritesInv, [Next]_vars, NEW k \in Trackers PROVE TrackerWrites(k)'
<1>1. /\ k \in Procs /\ TrackerWrites(k)
      /\ DOMAIN pc = Procs /\ DOMAIN todo = Procs /\ DOMAIN dirty = Trackers
      /\ DOMAIN asked = Trackers /\ DOMAIN failed = Trackers
      /\ tx \in [Procs -> [Rows -> Nat \cup {None}]]
      /\ pc[k] # "tx" => tx[k] = NoRows /\ todo[k] = <<>> /\ dirty[k] = None
  BY DEF Procs, WritesInv, TypeOK
<1>2. EvmTokens' = EvmTokens /\ \A t \in EvmTokens : t \in Rows /\ t \in Tokens
  BY EvmTokensAre DEF EvmTokens
<1>n. \A r \in Rows : NoRows[r] = None
  BY DEF NoRows
<1>3. CASE Own(k)' = Own(k) /\ row' = row
  BY <1>1, <1>2, <1>3 DEF Own, TrackerWrites, Answers, Answer, Holds
<1>4. ASSUME NEW p \in Procs \ {k}, Commit(p) PROVE TrackerWrites(k)'
  <2>1. Own(k)' = Own(k)
    BY <1>4, CommitElsewhere
  <2>2. \A r \in Rows : Holds(k, r) => row'[r] = row[r]
    BY <1>1, <1>4, HeldStays DEF LocksInv
  <2> QED
    BY <1>1, <1>2, <2>1, <2>2 DEF Own, TrackerWrites, Answers, Answer, Holds
<1>5. CASE Load(k)
  <2>1. PICK T \in Shown : asked'[k] = Missing(T)
    BY <1>1, <1>5 DEF Load
  <2>2. pc[k] = "load" /\ row' = row /\ tx' = tx /\ todo' = todo /\ dirty' = dirty
    BY <1>5 DEF Load, session
  <2>3. \A t \in Missing(T) : t \in EvmTokens
    BY ShownAre DEF Missing
  <2> QED
    BY <1>1, <1>2, <1>n, <2>1, <2>2, <2>3 DEF TrackerWrites, Answers, Holds
<1>6. CASE Ask(k)
  <2>1. pc[k] = "ask" /\ row' = row /\ tx' = tx /\ dirty' = dirty /\ asked' = asked
    BY <1>6 DEF Ask
  <2>2. Answers(k)'
    BY <1>6, AskIs
  <2> QED
    BY <1>1, <1>2, <1>n, <2>1, <2>2 DEF TrackerWrites, Holds
<1>7. CASE Select(k)
  <2> DEFINE u == Head(todo[k])
  <2>1. /\ pc[k] = "tx" /\ todo[k] # <<>> /\ todo'[k] = Tail(todo[k])
        /\ row' = row /\ tx' = tx /\ asked' = asked /\ failed' = failed /\ pc' = pc
    BY <1>1, <1>7 DEF Select, tracker
  <2>2. /\ u = todo[k][1] /\ 1 \in DOMAIN todo[k] /\ u \in Updates(asked[k])
        /\ \A i \in DOMAIN Tail(todo[k]) : i + 1 \in DOMAIN todo[k] /\ Tail(todo[k])[i] = todo[k][i + 1]
    <3>1. todo[k] \in Seq(Updates(asked[k]))
      BY DEF TypeOK
    <3> QED
      BY <2>1, <3>1, TailIs, HeadAndTail
  <2>3. u.row \in asked[k] /\ Answer(k, u.row, u.dec)
    BY <1>1, <2>2, UpdateIs DEF TrackerWrites, Answers
  <2>4. dirty'[k] # None => dirty'[k].row = u.row /\ dirty'[k].dec \in {None, u.dec}
    <3>1. \/ dirty' = dirty /\ dirty[k] = None
          \/ dirty' = [dirty EXCEPT ![k] = u]
          \/ dirty' = [dirty EXCEPT ![k] = [row |-> u.row, dec |-> None]]
      BY <1>7 DEF Select
    <3> QED
      BY <1>1, <3>1
  <2> HIDE DEF u
  <2>5. Answers(k)'
    BY <1>1, <2>1, <2>2 DEF TrackerWrites, Answers, Answer
  <2> QED
    BY <1>1, <1>2, <2>1, <2>3, <2>4, <2>5 DEF TrackerWrites, Holds, Answer
<1>8. CASE Flush(k)
  <2> DEFINE u == dirty[k]
             d == IF u.dec = None THEN Visible(k, u.row) ELSE u.dec
  <2>1. /\ u # None /\ tx' = [tx EXCEPT ![k][u.row] = d] /\ dirty'[k] = None
        /\ row' = row /\ todo' = todo /\ asked' = asked /\ failed' = failed /\ pc' = pc
    BY <1>1, <1>8 DEF Flush, tracker
  <2>2. u.row \in asked[k] /\ (u.dec = None \/ Answer(k, u.row, u.dec))
    BY <1>1, <2>1 DEF TrackerWrites
  <2>3. u.row \in EvmTokens /\ u.row \in Rows
    BY <1>1, <1>2, <2>2 DEF TrackerWrites
  <2>4. Answer(k, u.row, d) \/ d = row[u.row]
    BY <1>1, <2>2, <2>3 DEF TrackerWrites, Visible
  <2> HIDE DEF u, d
  <2>5. /\ \A r \in Rows : r # u.row => tx'[k][r] = tx[k][r]
        /\ tx'[k][u.row] = d
    BY <1>1, <2>1, <2>3
  <2>6. \A t \in EvmTokens : tx'[k][t] # None => Answer(k, t, tx'[k][t]) \/ tx'[k][t] = row[t]
    BY <1>1, <1>2, <2>4, <2>5 DEF TrackerWrites, Holds
  <2> QED
    BY <1>1, <1>2, <2>1, <2>6 DEF TrackerWrites, Holds, Answers, Answer
<1>9. CASE Start(k) \/ Reload(k)
  <2>1. pc[k] # "tx" /\ tx' = tx /\ todo' = todo /\ dirty' = dirty /\ asked' = asked
    BY <1>9 DEF Start, Reload, session, tracker
  <2> QED
    BY <1>1, <1>2, <1>n, <2>1 DEF TrackerWrites, Answers, Holds
<1>10. CASE Commit(k)
  <2>1. /\ pc'[k] = "reload" /\ tx'[k] = NoRows /\ todo'[k] = <<>> /\ dirty'[k] = None
        /\ asked' = asked
    BY <1>1, <1>10, WantedIs DEF Commit, tracker, Goto
  <2> QED
    BY <1>1, <1>2, <1>n, <2>1 DEF TrackerWrites, Answers, Holds
<1>11. CASE GiveUp(k)
  <2>1. tx'[k] = NoRows /\ todo'[k] = <<>> /\ dirty'[k] = None /\ asked'[k] = {}
    BY <1>1, <1>11 DEF GiveUp, Rollback
  <2> QED
    BY <1>1, <1>2, <1>n, <2>1 DEF TrackerWrites, Answers, Holds
<1> QED
  BY <1>3, <1>4, <1>5, <1>6, <1>7, <1>8, <1>9, <1>10, <1>11, TrackerStep

\* What each process may write is kept.
LEMMA WritesStep == ASSUME TypeOK, LocksInv, WritesInv, [Next]_vars PROVE WritesInv'
BY LoopStep, WatcherStep, TrackerWritesStep DEF WritesInv
-----------------------------------------------------------------------------
\* What another's commit means to a token of the trackers' chain: an excuse,
\* the right decimals, or nothing.
LEMMA OthersCommit ==
  ASSUME TypeOK, LocksInv, WritesInv, NEW k \in Trackers, NEW p \in Procs, p # k, Commit(p),
         NEW t \in EvmTokens
  PROVE  \/ t \in late'[k]
         \/ row'[t] = Dec[t] /\ ~Holds(k, t)
         \/ row'[t] = row[t]
<1>1. \A r \in Rows : row'[r] = Visible(p, r)
  BY DEF Commit
<1>2. late'[k] = late[k] \cup Late(p)
  BY CommitElsewhere
<1>3. t \in Tokens /\ t \in Rows
  BY EvmTokensAre
<1>4. k \in Procs /\ \A r \in Rows : ~(Holds(p, r) /\ Holds(k, r))
  BY DEF Procs, LocksInv, Exclusive
<1>5. CASE Holds(p, t)
  <2>1. CASE p \in Loops
    BY <1>2, <1>3, <1>5, <2>1 DEF Late, Written
  <2>2. CASE p \in Trackers /\ Answer(p, t, tx[p][t])
    <3>1. p \notin Loops
      BY <2>2, RestIs
    <3>2. CASE tx[p][t] = Dec[t]
      BY <1>1, <1>3, <1>4, <1>5, <3>2 DEF Visible
    <3>3. CASE t \in failed[p]
      BY <1>2, <1>3, <1>5, <2>2, <3>1, <3>3 DEF Late, Written
    <3> QED
      BY <2>2, <3>2, <3>3 DEF Answer
  <2>3. CASE tx[p][t] = row[t]
    BY <1>1, <1>3, <1>5, <2>3 DEF Visible
  <2> QED
    BY <1>5, <2>1, <2>2, <2>3, WrittenIs
<1>6. CASE ~Holds(p, t)
  BY <1>1, <1>3, <1>6 DEF Visible
<1> QED
  BY <1>5, <1>6

\* The token a tracker reads next is right, or will be.
LEMMA SelectGrounds ==
  ASSUME TypeOK, WritesInv, NEW k \in Trackers, Select(k), NEW t \in Tokens,
         Excused(k, t) \/ Coming(k, t)
  PROVE  (Excused(k, t) \/ Coming(k, t))'
<1> DEFINE u == Head(todo[k])
<1>1. /\ k \in Procs /\ TrackerWrites(k) /\ DOMAIN todo = Procs /\ DOMAIN dirty = Trackers
      /\ todo[k] \in Seq(Updates(asked[k]))
  BY DEF WritesInv, TypeOK, Procs
<1>2. /\ pc[k] = "tx" /\ pc' = pc /\ row' = row /\ tx' = tx /\ late' = late /\ failed' = failed
      /\ dirty[k] = None /\ todo[k] # <<>> /\ todo'[k] = Tail(todo[k])
  BY <1>1 DEF Select, tracker
<1>3. /\ u = todo[k][1] /\ 1 \in DOMAIN todo[k]
      /\ \A i \in DOMAIN todo[k] : i # 1 => i - 1 \in DOMAIN Tail(todo[k])
      /\ \A i \in DOMAIN Tail(todo[k]) : Tail(todo[k])[i] = todo[k][i + 1]
      /\ DOMAIN todo[k] \subseteq Nat
  BY <1>1, <1>2, TailIs
<1>4. Answer(k, u.row, u.dec)
  BY <1>1, <1>3 DEF TrackerWrites, Answers
<1>5. u.dec # Visible(k, u.row) => dirty'[k] = u
  BY <1>1 DEF Select
<1>6. u \in Updates(asked[k])
  BY <1>1, <1>2, HeadAndTail
<1>7. u # None
  <2>1. asked[k] \subseteq Tokens /\ None \notin Updates(Tokens)
    BY CatalogAssumption DEF CatalogAssumption, TypeOK
  <2>2. Updates(asked[k]) \subseteq Updates(Tokens)
    BY <2>1 DEF Updates
  <2> QED
    BY <1>6, <2>1, <2>2
<1> HIDE DEF u
<1>8. CASE Excused(k, t)
  BY <1>2, <1>8 DEF Excused
<1>9. CASE Visible(k, t) = Dec[t]
  BY <1>2, <1>9 DEF Coming, Visible, Holds
<1>10. ASSUME NEW i \in DOMAIN todo[k], todo[k][i].row = t, i # 1
       PROVE  Coming(k, t)'
  <2>1. i - 1 \in DOMAIN Tail(todo[k]) /\ Tail(todo[k])[i - 1] = todo[k][i]
    <3>1. i - 1 \in DOMAIN Tail(todo[k]) /\ (i - 1) + 1 = i
      BY <1>3, <1>10
    <3> QED
      BY <1>3, <3>1
  <2>2. \E j \in DOMAIN todo'[k] : todo'[k][j].row = t
    BY <1>2, <1>10, <2>1
  <2> QED
    BY <1>2, <2>2 DEF Coming
<1>11. CASE u.row = t
  <2>1. CASE u.dec = Dec[t]
    <3>1. CASE u.dec = Visible(k, t)
      BY <1>9, <2>1, <3>1
    <3>2. CASE u.dec # Visible(k, t)
      BY <1>2, <1>5, <1>7, <1>11, <2>1, <3>2 DEF Coming
    <3> QED
      BY <3>1, <3>2
  <2>2. CASE t \in failed[k]
    BY <1>2, <2>2 DEF Excused
  <2> QED
    BY <1>4, <1>11, <2>1, <2>2 DEF Answer
<1>12. ASSUME NEW i \in DOMAIN todo[k], todo[k][i].row = t PROVE (Excused(k, t) \/ Coming(k, t))'
  <2>1. CASE i = 1
    BY <1>3, <1>11, <1>12, <2>1
  <2>2. CASE i # 1
    BY <1>10, <1>12, <2>2
  <2> QED
    BY <2>1, <2>2
<1> QED
  BY <1>2, <1>8, <1>9, <1>12 DEF Coming

\* So it is when the session flushes.
LEMMA FlushGrounds ==
  ASSUME TypeOK, WritesInv, NEW k \in Trackers, Flush(k), NEW t \in EvmTokens,
         Excused(k, t) \/ Coming(k, t)
  PROVE  (Excused(k, t) \/ Coming(k, t))'
<1> DEFINE u == dirty[k]
           d == IF u.dec = None THEN Visible(k, u.row) ELSE u.dec
<1>1. /\ k \in Procs /\ TrackerWrites(k) /\ DOMAIN dirty = Trackers
      /\ tx \in [Procs -> [Rows -> Nat \cup {None}]]
  BY DEF WritesInv, TypeOK, Procs
<1>2. /\ pc[k] = "tx" /\ pc' = pc /\ row' = row /\ todo' = todo /\ late' = late /\ failed' = failed
      /\ u # None /\ tx' = [tx EXCEPT ![k][u.row] = d]
  BY <1>1 DEF Flush, tracker
<1>3. u.row \in asked[k] /\ (u.dec = None \/ Answer(k, u.row, u.dec))
  BY <1>1, <1>2 DEF TrackerWrites
<1>4. t \in Rows /\ t \in Tokens /\ u.row \in Rows
  <2>1. u.row \in EvmTokens
    BY <1>1, <1>3 DEF TrackerWrites
  <2> QED
    BY <2>1, EvmTokensAre
<1>5. Dec[t] \in Nat /\ Dec[t] # None
  BY <1>4, CatalogAssumption DEF CatalogAssumption
<1> HIDE DEF u, d
<1>6. /\ \A r \in Rows : r # u.row => tx'[k][r] = tx[k][r]
      /\ tx'[k][u.row] = d
  BY <1>1, <1>2, <1>4
<1>7. CASE Excused(k, t)
  BY <1>2, <1>7 DEF Excused
<1>8. CASE \E i \in DOMAIN todo[k] : todo[k][i].row = t
  BY <1>2, <1>8 DEF Coming
<1>9. CASE u.row = t /\ u.dec = Dec[t]
  <2>1. tx'[k][t] = Dec[t]
    BY <1>5, <1>6, <1>9 DEF d
  <2> QED
    BY <1>5, <2>1 DEF Coming, Visible, Holds
<1>10. CASE Visible(k, t) = Dec[t]
  <2>1. CASE u.row # t
    BY <1>2, <1>4, <1>6, <1>10, <2>1 DEF Coming, Visible, Holds
  <2>2. CASE u.row = t /\ u.dec = None
    <3>1. tx'[k][t] = Dec[t]
      BY <1>6, <1>10, <2>2 DEF d
    <3> QED
      BY <1>5, <3>1 DEF Coming, Visible, Holds
  <2>3. CASE u.row = t /\ t \in failed[k]
    BY <1>2, <2>3 DEF Excused
  <2> QED
    BY <1>3, <1>9, <2>1, <2>2, <2>3 DEF Answer
<1> QED
  BY <1>2, <1>7, <1>8, <1>9, <1>10 DEF Coming, u

\* What a tracker has asked for stays right, or will be.
LEMMA GroundedStep ==
  ASSUME TypeOK, LocksInv, WritesInv, [Next]_vars, NEW k \in Trackers, Grounded(k)
  PROVE  Grounded(k)'
<1> DEFINE good(t) == Excused(k, t) \/ Coming(k, t)
           begun == pc[k] \in {"ask", "tx", "reload", "run"}
<1>1. /\ k \in Procs /\ TrackerWrites(k)
      /\ DOMAIN pc = Procs /\ DOMAIN asked = Trackers
      /\ DOMAIN late = Trackers /\ DOMAIN todo = Procs
      /\ tx \in [Procs -> [Rows -> Nat \cup {None}]]
      /\ pc[k] # "tx" => tx[k] = NoRows
      /\ pc[k] \in {"off", "load", "ask"} => failed[k] = {}
  BY DEF Procs, WritesInv, TypeOK
<1>2. \A t \in asked[k] : t \in EvmTokens /\ t \in Rows /\ t \in Tokens
  BY <1>1, EvmTokensAre DEF TrackerWrites
<1>n. \A r \in Rows : NoRows[r] = None
  BY DEF NoRows
<1>3. begun => \A t \in asked[k] : good(t)
  BY DEF Grounded
<1>4. CASE Own(k)' = Own(k) /\ row' = row /\ late'[k] = late[k]
  BY <1>4 DEF Own, Grounded, Excused, Coming, Visible, Holds
<1>5. ASSUME NEW p \in Procs \ {k}, Commit(p) PROVE Grounded(k)'
  <2>1. Own(k)' = Own(k) /\ late[k] \subseteq late'[k]
    BY <1>5, CommitElsewhere
  <2>2. ASSUME begun, NEW t \in asked[k] PROVE good(t)'
    <3>1. t \in late'[k] => good(t)'
      BY DEF Excused
    <3>2. row'[t] = Dec[t] /\ ~Holds(k, t) => good(t)'
      BY <2>1 DEF Coming, Visible, Holds, Own
    <3>3. ASSUME row'[t] = row[t] PROVE good(t)'
      <4>1. good(t)
        BY <1>3, <2>2
      <4> QED
        BY <2>1, <3>3, <4>1 DEF Own, Excused, Coming, Visible, Holds
    <3> QED
      BY <1>2, <1>5, <3>1, <3>2, <3>3, OthersCommit
  <2> QED
    BY <2>1, <2>2 DEF Grounded, Own
<1>6. CASE Load(k)
  <2>1. PICK T \in Shown :
          /\ asked' = [asked EXCEPT ![k] = Missing(T)]
          /\ pc' = [pc EXCEPT ![k] = IF Missing(T) = {} THEN "reload" ELSE "ask"]
    BY <1>6 DEF Load, Goto
  <2>2. asked'[k] = {} \/ pc'[k] = "ask"
    BY <1>1, <2>1
  <2> QED
    BY <2>2 DEF Grounded, Coming
<1>7. CASE Ask(k)
  <2>1. /\ pc[k] = "ask" /\ pc'[k] = "tx" /\ asked' = asked
    BY <1>1, <1>7 DEF Ask, Goto
  <2>2. \A t \in asked[k] : \E i \in DOMAIN todo'[k] : todo'[k][i].row = t
    BY <1>7, AskIs
  <2> QED
    BY <2>1, <2>2 DEF Grounded, Coming
<1>8. CASE Select(k) \/ Flush(k)
  <2>1. pc[k] = "tx" /\ pc' = pc /\ asked' = asked
    BY <1>8 DEF Select, Flush, tracker
  <2>2. ASSUME NEW t \in asked[k] PROVE good(t)'
    <3>1. good(t) /\ t \in EvmTokens /\ t \in Tokens
      BY <1>2, <1>3, <2>1
    <3> QED
      BY <1>8, <3>1, SelectGrounds, FlushGrounds
  <2> QED
    BY <2>1, <2>2 DEF Grounded
<1>9. CASE Start(k) \/ Reload(k)
  <2>1. /\ pc'[k] = "load" \/ (pc[k] = "reload" /\ pc'[k] = "run")
        /\ UNCHANGED <<row, tx, asked, failed, late>>
    BY <1>1, <1>9 DEF Start, Reload, Goto, session, tracker
  <2>2. ASSUME pc[k] = "reload", NEW t \in asked[k] PROVE good(t)'
    <3>1. Excused(k, t) \/ Visible(k, t) = Dec[t]
      BY <1>3, <2>2 DEF Coming
    <3> QED
      BY <2>1, <3>1 DEF Excused, Coming, Visible, Holds
  <2> QED
    BY <2>1, <2>2 DEF Grounded
<1>10. CASE Commit(k)
  <2>1. /\ pc[k] = "tx" /\ todo[k] = <<>> /\ dirty[k] = None
        /\ failed' = failed /\ asked' = asked
        /\ tx'[k] = NoRows /\ late[k] \subseteq late'[k]
        /\ \A r \in Rows : row'[r] = Visible(k, r)
    BY <1>1, <1>10, WantedIs DEF Commit, tracker, Goto
  <2>2. ASSUME NEW t \in asked[k] PROVE good(t)'
    <3>1. Excused(k, t) \/ Visible(k, t) = Dec[t]
      BY <1>3, <2>1 DEF Coming
    <3>2. Excused(k, t) => Excused(k, t)'
      BY <2>1 DEF Excused
    <3>3. t \in Rows /\ row'[t] = Visible(k, t)
      BY <1>2, <2>1
    <3>4. Visible(k, t) = Dec[t] => Coming(k, t)'
      BY <1>n, <2>1, <3>3 DEF Coming, Visible, Holds
    <3> QED
      BY <3>1, <3>2, <3>4
  <2> QED
    BY <2>1, <2>2 DEF Grounded
<1>11. CASE GiveUp(k)
  <2>1. pc'[k] = "off"
    BY <1>1, <1>11, RestIs DEF GiveUp, Goto
  <2> QED
    BY <2>1 DEF Grounded
<1> QED
  BY <1>4, <1>5, <1>6, <1>7, <1>8, <1>9, <1>10, <1>11, TrackerStep
-----------------------------------------------------------------------------
\* The inductive invariant: the types, who holds which rows and in which
\* order, what each process may write, and what becomes of the corrections.
IInv == TypeOK /\ LocksInv /\ WritesInv /\ \A k \in Trackers : Grounded(k)

\* The inductive invariant holds at first...
THEOREM InitIInv == Init => IInv
<1> SUFFICES ASSUME Init PROVE IInv
  OBVIOUS
<1>1. TypeOK
  <2>1. NoRows \in [Rows -> Nat \cup {None}]
    BY DEF NoRows
  <2>2. Loops \subseteq Procs /\ Watchers \subseteq Procs /\ Trackers \subseteq Procs
    BY DEF Procs
  <2>3. MaxTx \in Nat /\ MaxFaults \in Nat
    BY CatalogAssumption DEF CatalogAssumption
  <2> QED
    BY <2>1, <2>2, <2>3, RestIs DEF Init, TypeOK
<1>2. LocksInv
  BY DEF Init, LocksInv, Exclusive, InOrder, Ordered, Holds, NoRows, Upserters, Procs
<1>3. \A t \in Tokens \cup Pools \cup EvmTokens : t \in Rows /\ NoRows[t] = None
  BY EvmTokensAre DEF NoRows, Rows
<1>4. \A p \in Procs : todo[p] = <<>> /\ tx[p] = NoRows /\ \A r \in Rows : NoRows[r] = None
  BY DEF Init, NoRows
<1>5. Loops \subseteq Procs /\ Watchers \subseteq Procs /\ Trackers \subseteq Procs
  BY DEF Procs
<1>6. \A l \in Loops : LoopWrites(l)
  BY <1>3, <1>4, <1>5 DEF LoopWrites, Hinted
<1>7. \A w \in Watchers : WatcherWrites(w)
  BY <1>4, <1>5 DEF WatcherWrites, Holds
<1>8. \A k \in Trackers : pc[k] = "off" /\ asked[k] = {} /\ dirty[k] = None
  BY <1>5, RestIs DEF Init
<1>9. \A k \in Trackers : TrackerWrites(k)
  BY <1>3, <1>4, <1>5, <1>8 DEF TrackerWrites, Answers, Holds
<1>10. \A k \in Trackers : Grounded(k)
  BY <1>8 DEF Grounded
<1> QED
  BY <1>1, <1>2, <1>6, <1>7, <1>9, <1>10 DEF IInv, WritesInv

\* ...is kept by every step...
THEOREM StepIInv == IInv /\ [Next]_vars => IInv'
BY TypeStep, LocksStep, WritesStep, GroundedStep DEF IInv

\* ...and so holds always.
THEOREM Invariance == Spec => []IInv
BY InitIInv, StepIInv, PTL DEF Spec

\* Type correctness: every process is where its code can be, and has locks
\* and rows to write in its transactions only.
THEOREM TypeCorrect == Spec => []TypeOK
<1>1. IInv => TypeOK
  BY DEF IInv
<1> QED
  BY <1>1, Invariance, PTL

\* However many listings and registrations there are, and whatever they name:
\* a circle of waits takes a tracker (bootstrap.py:59-79, evm_tracker.py:83-98).
THEOREM LocksAreOrdered == Spec => []LocksOrdered
<1>1. IInv => LocksOrdered
  BY NoCircle DEF IInv
<1> QED
  BY <1>1, Invariance, PTL

\* What a transaction of a tracker corrects stays corrected, but for the
\* excuses the property names, however many trackers and loops write the same
\* tokens (evm_tracker.py:84-98).
THEOREM CorrectionsLast == Spec => []CorrectionKept
<1>1. IInv => CorrectionKept
  <2> SUFFICES ASSUME IInv, NEW k \in Trackers, pc[k] \in {"reload", "run"}, NEW t \in asked[k],
                      t \notin late[k] \cup failed[k]
               PROVE  row[t] = Dec[t]
    BY DEF CorrectionKept
  <2>1. Visible(k, t) = Dec[t]
    BY DEF IInv, Grounded, Excused, Coming
  <2>2. tx[k] = NoRows /\ t \in Rows
    <3>1. t \in EvmTokens /\ k \in Procs
      BY DEF IInv, WritesInv, TrackerWrites, Procs
    <3> QED
      BY <3>1, EvmTokensAre DEF IInv, TypeOK
  <2> QED
    BY <2>1, <2>2 DEF Visible, Holds, NoRows
<1> QED
  BY <1>1, Invariance, PTL
=============================================================================
