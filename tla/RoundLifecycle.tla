--------------------------- MODULE RoundLifecycle ---------------------------
(***************************************************************************)
(* What the oracle promises to whoever consumes a feed: rounds are opened  *)
(* one after the other, each with a first result; the result of the        *)
(* current round may be revised; closing a round neither invents nor       *)
(* changes its result, and what is closed stays as it is.                  *)
(***************************************************************************)
EXTENDS Integers

CONSTANTS Feeds, MaxRound, Values, NoValue

VARIABLES
  number,     \* feed -> number of the current round, 0 before the first
  published   \* <<feed, round>> -> result

lvars == <<number, published>>

LifecycleInit ==
  /\ number = [f \in Feeds |-> 0]
  /\ published = [fr \in Feeds \X (1 .. MaxRound) |-> NoValue]

\* The first report opens round 1.
Open(f) ==
  /\ number[f] = 0
  /\ number' = [number EXCEPT ![f] = 1]
  /\ \E v \in Values : published' = [published EXCEPT ![<<f, 1>>] = v]

\* A report into the current round publishes a result for it.
Publish(f) ==
  /\ number[f] > 0
  /\ \E v \in Values : published' = [published EXCEPT ![<<f, number[f]>>] = v]
  /\ UNCHANGED number

\* Only a round with a result is closed, and the result is the final one.
Close(f) ==
  /\ number[f] \in 1 .. MaxRound - 1
  /\ published[<<f, number[f]>>] # NoValue
  /\ number' = [number EXCEPT ![f] = @ + 1]
  /\ UNCHANGED published

LifecycleNext == \E f \in Feeds : Open(f) \/ Publish(f) \/ Close(f)

LifecycleSpec == LifecycleInit /\ [][LifecycleNext]_lvars
=============================================================================
