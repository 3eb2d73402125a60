--------------------------- MODULE OperatorProofs ---------------------------
(***************************************************************************)
(* Facts about the operators the models are built from: tallies of reports *)
(* with their majorities, and sums of tokens with the operations on the    *)
(* records that hold them.                                                 *)
(***************************************************************************)
EXTENDS Plurality, Tokens, FiniteSetTheorems, FunctionTheorems, TLAPS

(***************************************************************************)
(* Tallies: what happens to the count of every value when a reporter files *)
(* a report, with or without an older one on file.                         *)
(***************************************************************************)

\* The supporters of a value are finitely many, and their number is a natural
\* number.
LEMMA TallyType ==
  ASSUME NEW D, IsFiniteSet(D), NEW ballot \in [D -> Values]
  PROVE  /\ Tally(ballot) \in [Values -> Nat]
         /\ \A v : IsFiniteSet(Supporters(ballot, v))
<1>1. \A v : IsFiniteSet(Supporters(ballot, v))
  <2> TAKE v
  <2>1. Supporters(ballot, v) \in SUBSET D
    BY DEF Supporters
  <2> QED
    BY <2>1, FS_Subset
<1>2. \A v \in Values : Cardinality(Supporters(ballot, v)) \in Nat
  BY <1>1, FS_CardinalityType
<1> QED
  BY <1>1, <1>2 DEF Tally

\* Filing a report adds one to the count of its value, and takes one from the
\* count of the value it replaces.
LEMMA TallyOfStore ==
  ASSUME NEW D, IsFiniteSet(D), NEW ballot \in [D -> Values],
         NEW a, NEW v \in Values, NEW w \in Values
  PROVE  Tally(Store(ballot, a, v))[w] =
           IF w = v
           THEN IF a \in D /\ ballot[a] = v
                THEN Tally(ballot)[v] ELSE Tally(ballot)[v] + 1
           ELSE IF a \in D /\ ballot[a] = w
                THEN Tally(ballot)[w] - 1 ELSE Tally(ballot)[w]
<1> DEFINE filed == Store(ballot, a, v)
           old   == Supporters(ballot, w)
<1>1. IsFiniteSet(old)
  BY TallyType
<1>2. Tally(filed)[w] = Cardinality(Supporters(filed, w))
  BY DEF Tally
<1>3. Tally(ballot)[w] = Cardinality(old)
  BY DEF Tally
<1>4. a \in old <=> a \in D /\ ballot[a] = w
  BY DEF Supporters
<1>5. CASE w = v
  <2>1. Supporters(filed, w) = old \cup {a}
    BY <1>5 DEF Supporters, Store
  <2> QED
    BY <2>1, <1>1, <1>2, <1>3, <1>4, <1>5, FS_AddElement
<1>6. CASE w # v
  <2>1. Supporters(filed, w) = old \ {a}
    BY <1>6 DEF Supporters, Store
  <2> QED
    BY <2>1, <1>1, <1>2, <1>3, <1>4, <1>6, FS_RemoveElement
<1> QED
  BY <1>5, <1>6

\* The value that has a majority when the report at hand is counted next to
\* the one it replaces still leads once only the new one is on file.
LEMMA MajorityLeadsOnFile ==
  ASSUME NEW D, IsFiniteSet(D), NEW ballot \in [D -> Values],
         NEW a, NEW v \in Values, NEW m \in Values,
         IsMajority(CountIn(Tally(ballot), v), m)
  PROVE  Leads(Tally(Store(ballot, a, v)), m)
<1> DEFINE old == Tally(ballot)
           new == Tally(Store(ballot, a, v))
<1>1. old \in [Values -> Nat]
  BY TallyType
<1>2. SUFFICES ASSUME NEW w \in Values PROVE new[w] <= new[m]
  BY DEF Leads
<1>3. CASE w = m
  <2>1. new[m] \in Int
    BY <1>1, TallyOfStore
  <2> QED
    BY <1>3, <2>1
<1>4. CASE w # m
  <2>1. CountIn(old, v)[w] < CountIn(old, v)[m]
    BY <1>4 DEF IsMajority
  <2>2. \A u \in Values : CountIn(old, v)[u] = IF u = v THEN old[v] + 1 ELSE old[u]
    BY <1>1 DEF CountIn
  <2>3. \A u \in Values : old[u] \in Nat
    BY <1>1
  <2>4. (IF w = v THEN old[v] + 1 ELSE old[w]) < (IF m = v THEN old[v] + 1 ELSE old[m])
    BY <2>1, <2>2
  <2>5. /\ new[w] = IF w = v
                    THEN IF a \in D /\ ballot[a] = v THEN old[v] ELSE old[v] + 1
                    ELSE IF a \in D /\ ballot[a] = w THEN old[w] - 1 ELSE old[w]
        /\ new[m] = IF m = v
                    THEN IF a \in D /\ ballot[a] = v THEN old[v] ELSE old[v] + 1
                    ELSE IF a \in D /\ ballot[a] = m THEN old[m] - 1 ELSE old[m]
    BY TallyOfStore
  <2> HIDE DEF old, new
  <2> QED
    BY <1>4, <2>3, <2>4, <2>5
<1> QED
  BY <1>3, <1>4

\* A majority among the reports on file is the value that leads there.
LEMMA MajorityIsLeader ==
  ASSUME NEW tally \in [Values -> Nat], NEW v \in Values, NEW m \in Values,
         Leads(tally, v), IsMajority(tally, m)
  PROVE  m = v
BY DEF Leads, IsMajority

\* A majority leads, and somebody reported it.
LEMMA MajorityLeads ==
  ASSUME NEW D, IsFiniteSet(D), NEW ballot \in [D -> Values],
         NEW m \in Values, IsMajority(Tally(ballot), m)
  PROVE  Leads(Tally(ballot), m) /\ D # {}
<1>1. Tally(ballot) \in [Values -> Nat]
  BY TallyType
<1>2. Leads(Tally(ballot), m)
  BY <1>1 DEF Leads, IsMajority
<1>3. D # {}
  <2>1. SUFFICES ASSUME D = {} PROVE FALSE
    OBVIOUS
  <2>2. Supporters(ballot, m) = {}
    BY <2>1 DEF Supporters
  <2>3. Tally(ballot)[m] = 0
    BY <2>2, FS_EmptySet DEF Tally
  <2> QED
    BY <2>3 DEF IsMajority
<1> QED
  BY <1>2, <1>3
-----------------------------------------------------------------------------
(***************************************************************************)
(* Sums of tokens.                                                         *)
(***************************************************************************)

\* The coins of a holder are numbered up to what it has.
LEMMA CoinsAre ==
  ASSUME NEW D, NEW amount, DOMAIN amount = D
  PROVE  /\ \A h, i : <<h, i>> \in Coins(amount)
                         <=> h \in D /\ i \in 1 .. amount[h]
         /\ \A c \in Coins(amount) : c = <<c[1], c[2]>>
BY DEF Coins

\* A record function of natural amounts has finitely many coins.
LEMMA CoinsFinite ==
  ASSUME NEW D, IsFiniteSet(D), NEW amount \in [D -> Nat]
  PROVE  IsFiniteSet(Coins(amount))
<1> DEFINE CoinsOf == [h \in D |-> {h} \X (1 .. amount[h])]
<1>1. /\ CoinsOf \in [D -> Range(CoinsOf)]
      /\ CoinsOf \in Surjection(D, Range(CoinsOf))
  <2>1. CoinsOf \in [D -> Range(CoinsOf)]
    BY DEF Range
  <2> QED
    BY <2>1, Fun_RangeProperties, Zenon
<1>2. IsFiniteSet(Range(CoinsOf))
  BY <1>1, FS_Surjection, Zenon
<1>3. \A S \in Range(CoinsOf) : IsFiniteSet(S)
  <2> SUFFICES ASSUME NEW h \in D
               PROVE  IsFiniteSet({h} \X (1 .. amount[h]))
    BY DEF Range
  <2>1. IsFiniteSet({h})
    BY FS_Singleton
  <2>2. IsFiniteSet(1 .. amount[h])
    BY FS_Interval
  <2> QED
    BY <2>1, <2>2, FS_Product
<1>4. Coins(amount) = UNION Range(CoinsOf)
  BY DEF Coins, Range
<1> QED
  BY <1>2, <1>3, <1>4, FS_UNION

\* The sum of natural amounts is a natural number.
LEMMA SumOfType ==
  ASSUME NEW D, IsFiniteSet(D), NEW amount \in [D -> Nat]
  PROVE  SumOf(amount) \in Nat
BY CoinsFinite, FS_CardinalityType DEF SumOf

\* An address has a natural balance, with or without a record.
LEMMA GetBalanceType ==
  ASSUME NEW A, NEW ledger, IsLedger(ledger, A), NEW a
  PROVE  GetBalance(ledger, a) \in Nat
BY DEF IsLedger, GetBalance

\* Crediting an address keeps the ledger well typed.
LEMMA AddBalanceType ==
  ASSUME NEW A, NEW ledger, IsLedger(ledger, A), NEW a \in A, NEW n \in Nat
  PROVE  IsLedger(AddBalance(ledger, a, n), A)
BY DEF IsLedger, GetBalance, AddBalance

\* So does a debit that the balance covers.
LEMMA SubBalanceType ==
  ASSUME NEW A, NEW ledger, IsLedger(ledger, A), NEW a, NEW n \in Nat,
         CanSub(ledger, a, n)
  PROVE  IsLedger(SubBalance(ledger, a, n), A)
<1>1. CASE ledger[a] = n
  BY <1>1 DEF IsLedger, CanSub, SubBalance, Restrict
<1>2. CASE ledger[a] # n
  <2>1. ledger[a] \in Nat /\ ledger[a] - n \in Nat
    BY <1>2 DEF IsLedger, CanSub
  <2>2. SubBalance(ledger, a, n) = [ledger EXCEPT ![a] = @ - n]
    BY <1>2 DEF SubBalance
  <2> QED
    BY <2>1, <2>2 DEF IsLedger
<1> QED
  BY <1>1, <1>2

\* No summand exceeds the sum of natural amounts.
LEMMA SumBoundsEach ==
  ASSUME NEW D, IsFiniteSet(D), NEW amount \in [D -> Nat], NEW h \in D
  PROVE  amount[h] <= SumOf(amount)
<1> DEFINE own == {h} \X (1 .. amount[h])
<1>1. IsFiniteSet({h}) /\ Cardinality({h}) = 1
  BY FS_Singleton
<1>2. IsFiniteSet(1 .. amount[h]) /\ Cardinality(1 .. amount[h]) = amount[h]
  BY FS_Interval
<1>3. Cardinality(own) = 1 * amount[h]
  <2>1. Cardinality(own) = Cardinality({h}) * Cardinality(1 .. amount[h])
    BY <1>1, <1>2, FS_Product, Zenon
  <2> QED
    BY <1>1, <1>2, <2>1, Zenon
<1>4. own \subseteq Coins(amount)
  BY DEF Coins
<1>5. Cardinality(own) <= Cardinality(Coins(amount))
  BY <1>4, CoinsFinite, FS_Subset
<1>6. amount[h] \in Nat
  OBVIOUS
<1> HIDE DEF own
<1> QED
  BY <1>3, <1>5, <1>6 DEF SumOf

\* A sum splits along any part of its summands.
LEMMA SumSplit ==
  ASSUME NEW D, IsFiniteSet(D), NEW amount \in [D -> Nat], NEW S \in SUBSET D
  PROVE  /\ SumOf(Restrict(amount, S)) \in Nat
         /\ SumOf(Restrict(amount, D \ S)) \in Nat
         /\ SumOf(amount) = SumOf(Restrict(amount, S))
                              + SumOf(Restrict(amount, D \ S))
<1> DEFINE part == Restrict(amount, S)
           rest == Restrict(amount, D \ S)
<1>1. IsFiniteSet(S) /\ part \in [S -> Nat]
  BY FS_Subset DEF Restrict
<1>2. IsFiniteSet(D \ S) /\ rest \in [D \ S -> Nat]
  BY FS_Difference DEF Restrict
<1>3. Coins(amount) = Coins(part) \cup Coins(rest)
  BY DEF Coins, Restrict
<1>4. Coins(part) \cap Coins(rest) = {}
  BY DEF Coins, Restrict
<1> HIDE DEF part, rest
<1>5. IsFiniteSet(Coins(part)) /\ IsFiniteSet(Coins(rest))
  BY <1>1, <1>2, CoinsFinite
<1>6. SumOf(part) \in Nat /\ SumOf(rest) \in Nat
  BY <1>1, <1>2, SumOfType
<1>7. Cardinality(Coins(part) \cup Coins(rest))
        = Cardinality(Coins(part)) + Cardinality(Coins(rest)) - Cardinality({})
  BY <1>4, <1>5, FS_Union
<1>8. SumOf(amount) = SumOf(part) + SumOf(rest)
  BY <1>3, <1>6, <1>7, FS_EmptySet DEF SumOf
<1> QED
  BY <1>6, <1>8 DEF part, rest

\* The sum of one amount is that amount.
LEMMA SumOfOne ==
  ASSUME NEW h, NEW n \in Nat
  PROVE  SumOf([x \in {h} |-> n]) = n
<1>1. Coins([x \in {h} |-> n]) = {h} \X (1 .. n)
  BY DEF Coins
<1>2. IsFiniteSet({h}) /\ Cardinality({h}) = 1
  BY FS_Singleton
<1>3. IsFiniteSet(1 .. n) /\ Cardinality(1 .. n) = n
  BY FS_Interval
<1>4. Cardinality({h} \X (1 .. n)) = Cardinality({h}) * Cardinality(1 .. n)
  BY <1>2, <1>3, FS_Product, Zenon
<1>5. Cardinality({h} \X (1 .. n)) = 1 * n
  BY <1>2, <1>3, <1>4, Zenon
<1> QED
  BY <1>1, <1>5 DEF SumOf

\* Nothing adds up to nothing.
LEMMA SumOfZeros ==
  ASSUME NEW D, NEW amount, DOMAIN amount = D, \A h \in D : amount[h] = 0
  PROVE  SumOf(amount) = 0
<1>1. Coins(amount) = {}
  BY DEF Coins
<1> QED
  BY <1>1, FS_EmptySet DEF SumOf

\* A sum changes by what is written under one key; a key that is missing
\* counts as nothing.
LEMMA SumOfStore ==
  ASSUME NEW D, IsFiniteSet(D), NEW amount \in [D -> Nat], NEW x, NEW n \in Nat
  PROVE  /\ SumOf(Store(amount, x, n)) \in Nat
         /\ SumOf(Store(amount, x, n))
              = SumOf(amount) - GetBalance(amount, x) + n
<1> DEFINE new == Store(amount, x, n)
           kept == Restrict(amount, D \ {x})
<1>1. IsFiniteSet(D \cup {x}) /\ new \in [D \cup {x} -> Nat]
  BY FS_AddElement DEF Store
<1>2. Restrict(new, {x}) = [y \in {x} |-> n]
  BY DEF Store, Restrict
<1>3. Restrict(new, (D \cup {x}) \ {x}) = kept
  BY DEF Store, Restrict
<1> HIDE DEF new, kept
<1>4. /\ SumOf(kept) \in Nat
      /\ SumOf(new) = n + SumOf(kept)
  <2>1. SumOf([y \in {x} |-> n]) = n
    BY SumOfOne
  <2>2. {x} \in SUBSET (D \cup {x})
    OBVIOUS
  <2>3. /\ SumOf(Restrict(new, (D \cup {x}) \ {x})) \in Nat
        /\ SumOf(new) = SumOf(Restrict(new, {x}))
                          + SumOf(Restrict(new, (D \cup {x}) \ {x}))
    BY <1>1, <2>2, SumSplit
  <2> QED
    BY <1>2, <1>3, <2>1, <2>3
<1>5. SumOf(amount) = GetBalance(amount, x) + SumOf(kept)
  <2>1. CASE x \in D
    <3>1. Restrict(amount, {x}) = [y \in {x} |-> amount[x]]
      BY DEF Restrict
    <3>2. SumOf(amount) = SumOf(Restrict(amount, {x})) + SumOf(kept)
      BY <2>1, SumSplit DEF kept
    <3>3. amount[x] \in Nat
      BY <2>1
    <3> QED
      BY <2>1, <3>1, <3>2, <3>3, SumOfOne DEF GetBalance
  <2>2. CASE x \notin D
    <3>1. kept = amount
      BY <2>2 DEF kept, Restrict
    <3> QED
      BY <2>2, <3>1, <1>4 DEF GetBalance
  <2> QED
    BY <2>1, <2>2
<1>6. GetBalance(amount, x) \in Nat
  BY DEF GetBalance
<1> QED
  BY <1>4, <1>5, <1>6 DEF new

\* The same for a key that is there.
LEMMA SumOfOverwrite ==
  ASSUME NEW D, IsFiniteSet(D), NEW amount \in [D -> Nat], NEW x \in D,
         NEW n \in Nat
  PROVE  SumOf(Store(amount, x, n)) = SumOf(amount) - amount[x] + n
BY SumOfStore DEF GetBalance

\* A key that is removed takes its amount along.
LEMMA SumOfRemove ==
  ASSUME NEW D, IsFiniteSet(D), NEW amount \in [D -> Nat], NEW x \in D
  PROVE  SumOf(Restrict(amount, D \ {x})) = SumOf(amount) - amount[x]
<1>1. Restrict(amount, {x}) = [y \in {x} |-> amount[x]]
  BY DEF Restrict
<1>2. /\ SumOf(Restrict(amount, D \ {x})) \in Nat
      /\ SumOf(amount) = SumOf(Restrict(amount, {x}))
                           + SumOf(Restrict(amount, D \ {x}))
  BY SumSplit
<1>3. amount[x] \in Nat /\ SumOf([y \in {x} |-> amount[x]]) = amount[x]
  BY SumOfOne
<1> QED
  BY <1>1, <1>2, <1>3

\* A credit adds to the sum of a ledger what it credits, with or without a
\* record.
LEMMA SumOfAddBalance ==
  ASSUME NEW A, IsFiniteSet(A), NEW ledger, IsLedger(ledger, A),
         NEW a \in A, NEW n \in Nat
  PROVE  SumOf(AddBalance(ledger, a, n)) = SumOf(ledger) + n
<1>1. IsFiniteSet(DOMAIN ledger) /\ ledger \in [DOMAIN ledger -> Nat]
  BY FS_Subset DEF IsLedger
<1>2. GetBalance(ledger, a) \in Nat /\ GetBalance(ledger, a) + n \in Nat
  BY GetBalanceType
<1>3. AddBalance(ledger, a, n) = Store(ledger, a, GetBalance(ledger, a) + n)
  BY DEF AddBalance, Store
<1>4. SumOf(Store(ledger, a, GetBalance(ledger, a) + n))
        = SumOf(ledger) - GetBalance(ledger, a) + (GetBalance(ledger, a) + n)
  BY <1>1, <1>2, SumOfStore
<1>5. SumOf(ledger) \in Nat
  BY <1>1, SumOfType
<1> QED
  BY <1>2, <1>3, <1>4, <1>5

\* A debit takes from the sum what it debits, the removal of a record that
\* reaches zero included.
LEMMA SumOfSubBalance ==
  ASSUME NEW A, IsFiniteSet(A), NEW ledger, IsLedger(ledger, A),
         NEW a, NEW n \in Nat, CanSub(ledger, a, n)
  PROVE  /\ SumOf(SubBalance(ledger, a, n)) = SumOf(ledger) - n
         /\ GetBalance(SubBalance(ledger, a, n), a)
              = GetBalance(ledger, a) - n
<1>1. IsFiniteSet(DOMAIN ledger) /\ ledger \in [DOMAIN ledger -> Nat]
  BY FS_Subset DEF IsLedger
<1>2. a \in DOMAIN ledger /\ ledger[a] \in Nat /\ ledger[a] - n \in Nat
  BY <1>1 DEF CanSub
<1>3. SumOf(ledger) \in Nat
  BY <1>1, SumOfType
<1>4. CASE ledger[a] = n
  <2>1. SubBalance(ledger, a, n) = Restrict(ledger, DOMAIN ledger \ {a})
    BY <1>4 DEF SubBalance
  <2>2. SumOf(SubBalance(ledger, a, n)) = SumOf(ledger) - n
    BY <1>1, <1>2, <1>4, <2>1, SumOfRemove
  <2>3. GetBalance(SubBalance(ledger, a, n), a) = GetBalance(ledger, a) - n
    BY <1>2, <1>4, <2>1 DEF GetBalance, Restrict
  <2> QED
    BY <2>2, <2>3
<1>5. CASE ledger[a] # n
  <2>1. SubBalance(ledger, a, n) = Store(ledger, a, ledger[a] - n)
    BY <1>1, <1>2, <1>5 DEF SubBalance, Store
  <2>2. SumOf(Store(ledger, a, ledger[a] - n))
          = SumOf(ledger) - ledger[a] + (ledger[a] - n)
    BY <1>1, <1>2, SumOfOverwrite
  <2>3. GetBalance(SubBalance(ledger, a, n), a) = GetBalance(ledger, a) - n
    BY <1>2, <2>1 DEF GetBalance, Store
  <2> QED
    BY <1>2, <1>3, <2>1, <2>2, <2>3
<1> QED
  BY <1>4, <1>5

\* What a function of pairs has under the pairs of one key.
Row(amount, k, S) == [x \in S |-> amount[<<k, x>>]]

\* It adds up to the same as those pairs.
LEMMA SumOfRow ==
  ASSUME NEW D, IsFiniteSet(D), NEW amount \in [D -> Nat], NEW k, NEW S,
         {k} \X S \in SUBSET D
  PROVE  SumOf(Restrict(amount, {k} \X S)) = SumOf(Row(amount, k, S))
<1> DEFINE Pairs == {k} \X S
           row == Restrict(amount, Pairs)
           own == Row(amount, k, S)
           moved == [c \in Coins(row) |-> <<c[1][2], c[2]>>]
<1>1. row \in [Pairs -> Nat] /\ own \in [S -> Nat]
  BY DEF Restrict, Row
<1>2. IsFiniteSet(Coins(row))
  <2>1. IsFiniteSet(Pairs)
    BY FS_Subset
  <2> HIDE DEF row
  <2> QED
    BY <1>1, <2>1, CoinsFinite
<1>3. /\ \A x, i : <<x, i>> \in Coins(own)
                     <=> x \in S /\ i \in 1 .. own[x]
      /\ \A c \in Coins(own) : c = <<c[1], c[2]>>
  <2> HIDE DEF own
  <2> QED
    BY <1>1, CoinsAre
<1>4. /\ \A h, i : <<h, i>> \in Coins(row)
                     <=> h \in Pairs /\ i \in 1 .. row[h]
      /\ \A c \in Coins(row) : c = <<c[1], c[2]>>
  <2> HIDE DEF row
  <2> QED
    BY <1>1, CoinsAre
<1>5. \A x \in S : row[<<k, x>>] = own[x]
  BY DEF Restrict, Row
<1>6. \A h \in Pairs : h = <<k, h[2]>> /\ h[2] \in S
  OBVIOUS
<1> HIDE DEF row, own
<1>7. \A c \in Coins(row) : /\ c = <<<<k, c[1][2]>>, c[2]>>
                            /\ <<c[1][2], c[2]>> \in Coins(own)
  <2> SUFFICES ASSUME NEW c \in Coins(row)
               PROVE  /\ c = <<<<k, c[1][2]>>, c[2]>>
                      /\ <<c[1][2], c[2]>> \in Coins(own)
    OBVIOUS
  <2>1. c = <<c[1], c[2]>> /\ c[1] \in Pairs /\ c[2] \in 1 .. row[c[1]]
    BY <1>4
  <2>2. c[1] = <<k, c[1][2]>> /\ c[1][2] \in S
    BY <1>6, <2>1
  <2> QED
    BY <1>3, <1>5, <2>1, <2>2, Zenon
<1>8. \A c, d \in Coins(row) : moved[c] = moved[d] => c = d
  BY <1>7
<1>9. \A c \in Coins(own) : \E d \in Coins(row) : moved[d] = c
  <2> SUFFICES ASSUME NEW c \in Coins(own)
               PROVE  <<<<k, c[1]>>, c[2]>> \in Coins(row)
                      /\ moved[<<<<k, c[1]>>, c[2]>>] = c
    OBVIOUS
  <2>1. c = <<c[1], c[2]>> /\ c[1] \in S /\ c[2] \in 1 .. own[c[1]]
    BY <1>3
  <2>2. <<<<k, c[1]>>, c[2]>> \in Coins(row)
    BY <1>4, <1>5, <2>1
  <2> QED
    BY <2>1, <2>2
<1>10. ExistsBijection(Coins(row), Coins(own))
  <2>1. moved \in [Coins(row) -> Coins(own)]
    BY <1>7
  <2> HIDE DEF moved
  <2> QED
    BY <2>1, <1>8, <1>9
       DEF ExistsBijection, Bijection, Injection, Surjection, IsInjective
<1> QED
  BY <1>2, <1>10, FS_Bijection DEF SumOf, row, own

\* Some of the amounts are raised by the same gain.
Raised(amount, S, gain) ==
  [x \in DOMAIN amount |-> amount[x] + (IF x \in S THEN gain ELSE 0)]

\* The sum is raised that many times.
LEMMA SumOfRaised ==
  ASSUME NEW D, IsFiniteSet(D), NEW amount \in [D -> Nat], NEW S \in SUBSET D,
         NEW gain \in Nat
  PROVE  /\ Raised(amount, S, gain) \in [D -> Nat]
         /\ SumOf(Raised(amount, S, gain))
              = SumOf(amount) + Cardinality(S) * gain
<1> DEFINE raised == Raised(amount, S, gain)
           extra == Coins(raised) \ Coins(amount)
           moved == [c \in S \X (1 .. gain) |-> <<c[1], amount[c[1]] + c[2]>>]
<1>1. raised \in [D -> Nat]
  BY DEF Raised
<1>2. IsFiniteSet(S) /\ Cardinality(S) \in Nat
  BY FS_Subset, FS_CardinalityType
<1>3. IsFiniteSet(1 .. gain) /\ Cardinality(1 .. gain) = gain
  BY FS_Interval
<1>4. /\ IsFiniteSet(S \X (1 .. gain))
      /\ Cardinality(S \X (1 .. gain)) = Cardinality(S) * Cardinality(1 .. gain)
  BY <1>2, <1>3, FS_Product, Zenon
<1>5. Cardinality(S \X (1 .. gain)) = Cardinality(S) * gain
  BY <1>3, <1>4, Zenon
<1>6. \A x, i : <<x, i>> \in extra
                  <=> x \in S /\ i \in (amount[x] + 1) .. (amount[x] + gain)
  BY DEF Coins, Raised
<1>7. Coins(amount) \subseteq Coins(raised)
  BY DEF Coins, Raised
<1>8. \A c \in extra : c = <<c[1], c[2]>>
  BY DEF Coins
<1>9. IsFiniteSet(Coins(amount)) /\ IsFiniteSet(Coins(raised))
  <2> HIDE DEF raised
  <2> QED
    BY <1>1, CoinsFinite
<1> HIDE DEF extra
<1>10. moved \in [S \X (1 .. gain) -> extra]
  BY <1>6
<1>11. \A c, d \in S \X (1 .. gain) : moved[c] = moved[d] => c = d
  OBVIOUS
<1>12. \A c \in extra : \E d \in S \X (1 .. gain) : moved[d] = c
  <2> SUFFICES ASSUME NEW c \in extra
               PROVE  <<c[1], c[2] - amount[c[1]]>> \in S \X (1 .. gain)
                      /\ moved[<<c[1], c[2] - amount[c[1]]>>] = c
    OBVIOUS
  <2> QED
    BY <1>6, <1>8
<1>13. ExistsBijection(S \X (1 .. gain), extra)
  <2> HIDE DEF moved
  <2> QED
    BY <1>10, <1>11, <1>12
       DEF ExistsBijection, Bijection, Injection, Surjection, IsInjective
<1>14. IsFiniteSet(extra) /\ Cardinality(extra) = Cardinality(S) * gain
  BY <1>4, <1>5, <1>13, FS_Bijection
<1> HIDE DEF raised
<1>15. Coins(raised) = Coins(amount) \cup extra /\ Coins(amount) \cap extra = {}
  BY <1>7 DEF extra
<1>16. Cardinality(Coins(raised))
         = Cardinality(Coins(amount)) + Cardinality(extra) - Cardinality({})
  BY <1>9, <1>14, <1>15, FS_Union
<1>17. SumOf(amount) \in Nat
  BY SumOfType
<1> QED
  BY <1>1, <1>2, <1>14, <1>16, <1>17, FS_EmptySet DEF SumOf, raised
=============================================================================
