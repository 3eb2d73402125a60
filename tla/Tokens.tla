------------------------------- MODULE Tokens -------------------------------
(***************************************************************************)
(* Amounts of tokens and the balance records that hold them.               *)
(*                                                                         *)
(* The sum of a function with natural values is the number of its coins,   *)
(* the pairs <<holder, i>> with i up to what the holder has: a definition  *)
(* without recursion, about which theorems can be proved.                  *)
(***************************************************************************)
EXTENDS Integers, FiniteSets, Functions

\* Writing y under the key x of a function that may not have the key.
Store(f, x, y) == [z \in DOMAIN f \cup {x} |-> IF z = x THEN y ELSE f[z]]

Coins(amount) == UNION {{h} \X (1 .. amount[h]) : h \in DOMAIN amount}

SumOf(amount) == Cardinality(Coins(amount))

-----------------------------------------------------------------------------
(***************************************************************************)
(* A ledger is a function whose domain is the set of addresses that have a *)
(* balance record in the store.                                            *)
(***************************************************************************)
IsLedger(ledger, A) ==
  /\ DOMAIN ledger \subseteq A
  /\ ledger \in [DOMAIN ledger -> Nat]

GetBalance(ledger, a) == IF a \in DOMAIN ledger THEN ledger[a] ELSE 0

\* Adding creates the record when there is none, even to add nothing.
AddBalance(ledger, a, n) ==
  [x \in DOMAIN ledger \cup {a} |->
     IF x = a THEN GetBalance(ledger, a) + n ELSE ledger[x]]

\* A variant with a mistake: only the record is looked for.
CanOverdraw(ledger, a, n) == a \in DOMAIN ledger

\* An address without a record cannot pay, not even nothing.
CanSub(ledger, a, n) == a \in DOMAIN ledger /\ n <= ledger[a]

\* A variant with a mistake: a record that reaches zero is left alone.
SubBalanceSparing(ledger, a, n) ==
  IF ledger[a] = n THEN ledger ELSE [ledger EXCEPT ![a] = @ - n]

\* A record that reaches zero is removed.
SubBalance(ledger, a, n) ==
  IF ledger[a] = n
  THEN Restrict(ledger, DOMAIN ledger \ {a})
  ELSE [ledger EXCEPT ![a] = @ - n]
=============================================================================
