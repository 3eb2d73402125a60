-------------------------- MODULE BinaryAggregator --------------------------
(***************************************************************************)
(* The aggregator of programs/binary_aggregator.go at work for one report  *)
(* transaction: reports are inserted, then CalculateMajority counts them   *)
(* and looks for the biggest count, visiting the values in the order in    *)
(* which the runtime happens to iterate over a map.                        *)
(***************************************************************************)
EXTENDS Plurality, Sequences

CONSTANTS
  NoMajority,     \* the nil pointer in agg.majority
  MaxReports      \* bound: the number of reports inserted

ASSUME AggregatorAssumption == NoMajority \notin Values /\ MaxReports \in Nat

VARIABLES
  reports,    \* agg.reports
  majority,   \* agg.majority
  tie,        \* agg.tie
  pc,         \* "insert", "scan" or "done"
  unvisited,  \* values of the count map the loop has not visited
  biggest     \* biggestFeedVal

avars == <<reports, majority, tie, pc, unvisited, biggest>>

\* The count map: the reported values with how many reports carry each.
count == [v \in {reports[i] : i \in DOMAIN reports} |-> Tally(reports)[v]]

\* A variant with a mistake: the counts are sorted the other way.
SmallestCountTwice ==
  \E v, w \in DOMAIN count :
    /\ v # w /\ count[v] = count[w]
    /\ \A u \in DOMAIN count : count[u] >= count[v]

\* Two different values share the biggest count.
BiggestCountTwice ==
  \E v, w \in DOMAIN count :
    /\ v # w /\ count[v] = count[w]
    /\ \A u \in DOMAIN count : count[u] <= count[v]

AggregatorInit ==
  /\ reports = <<>>
  /\ majority = NoMajority
  /\ tie = FALSE
  /\ pc = "insert"
  /\ unvisited = {}
  /\ biggest = NoMajority

InsertReport(v) ==
  /\ pc = "insert"
  /\ Len(reports) < MaxReports
  /\ reports' = Append(reports, v)
  /\ UNCHANGED <<majority, tie, pc, unvisited, biggest>>

\* CalculateMajority up to its loop: nothing to do, a tie, or a scan that
\* starts from the value of the first report.
CalculateEmpty ==
  /\ pc = "insert"
  /\ reports = <<>>
  /\ pc' = "done"
  /\ UNCHANGED <<reports, majority, tie, unvisited, biggest>>

CalculateTie ==
  /\ pc = "insert"
  /\ reports # <<>>
  /\ BiggestCountTwice
  /\ tie' = TRUE
  /\ pc' = "done"
  /\ UNCHANGED <<reports, majority, unvisited, biggest>>

StartScan ==
  /\ pc = "insert"
  /\ reports # <<>>
  /\ ~ BiggestCountTwice
  /\ biggest' = reports[1]
  /\ unvisited' = DOMAIN count
  /\ pc' = "scan"
  /\ UNCHANGED <<reports, majority, tie>>

Visit(v) ==
  /\ pc = "scan"
  /\ v \in unvisited
  /\ unvisited' = unvisited \ {v}
  /\ biggest' = IF count[v] > count[biggest] THEN v ELSE biggest
  /\ UNCHANGED <<reports, majority, tie, pc>>

SetMajority ==
  /\ pc = "scan"
  /\ unvisited = {}
  /\ majority' = biggest
  /\ pc' = "done"
  /\ UNCHANGED <<reports, tie, unvisited, biggest>>

AggregatorNext ==
  \/ \E v \in Values : InsertReport(v) \/ Visit(v)
  \/ CalculateEmpty \/ CalculateTie \/ StartScan \/ SetMajority

AggregatorSpec == AggregatorInit /\ [][AggregatorNext]_avars
-----------------------------------------------------------------------------
\* Whatever the order of the map iteration, the calculation ends with the
\* one value that more reports carry than any other, and with no majority
\* exactly when there is none: what Report and Seal of OracleVM take from
\* Plurality (binary_aggregator.go 78-111).
MajorityIsPlurality ==
  pc = "done" => /\ \A v \in Values :
                      majority = v <=> IsMajority(Tally(reports), v)
                 /\ majority = NoMajority <=> Undecided(Tally(reports))
                 /\ tie <=> majority = NoMajority /\ reports # <<>>
=============================================================================
