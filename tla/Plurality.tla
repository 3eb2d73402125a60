----------------------------- MODULE Plurality -----------------------------
(***************************************************************************)
(* What an aggregator of reports computes: the value that strictly more    *)
(* reports carry than any other, if there is one.  A ballot is a function  *)
(* from whoever reports (a reporter, or a position in a list of reports)   *)
(* to the reported value.                                                  *)
(***************************************************************************)
EXTENDS Integers, FiniteSets

CONSTANT Values       \* the one-byte values a report can carry

Supporters(ballot, v) == {s \in DOMAIN ballot : ballot[s] = v}

Tally(ballot) == [v \in Values |-> Cardinality(Supporters(ballot, v))]

\* One more report, of value v, is counted.
CountIn(tally, v) == [tally EXCEPT ![v] = @ + 1]

\* v has at least as many reports as any other value.
Leads(tally, v) == \A w \in Values : tally[w] <= tally[v]

\* A variant with a mistake, to show which properties depend on it: a tie
\* for the lead goes unnoticed.
LeadsOrTies(tally, v) == tally[v] > 0 /\ Leads(tally, v)

\* v is the majority: nonempty, and no other value ties with it.
IsMajority(tally, v) ==
  /\ tally[v] > 0
  /\ \A w \in Values \ {v} : tally[w] < tally[v]

Undecided(tally) == \A v \in Values : ~ IsMajority(tally, v)
=============================================================================
