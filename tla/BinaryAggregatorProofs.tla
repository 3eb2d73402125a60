----------------------- MODULE BinaryAggregatorProofs -----------------------
(***************************************************************************)
(* For every set of values, every list of reports and every order of map   *)
(* iteration, CalculateMajority ends with the plurality of the reports.    *)
(* The inductive invariant says what the scan knows half way: the biggest  *)
(* value so far beats every value it has visited.                          *)
(***************************************************************************)
EXTENDS BinaryAggregator, OperatorProofs, SequenceTheorems

\* The types of the variables.
AggregatorTypeOK ==
  /\ reports \in Seq(Values) /\ Len(reports) <= MaxReports
  /\ majority \in Values \cup {NoMajority}
  /\ tie \in BOOLEAN
  /\ pc \in {"insert", "scan", "done"}
  /\ unvisited \subseteq Values
  /\ biggest \in Values \cup {NoMajority}

\* What holds while the loop over the count map runs.
ScanLeads ==
  /\ reports # <<>> /\ ~ BiggestCountTwice
  /\ majority = NoMajority /\ tie = FALSE
  /\ biggest \in DOMAIN count
  /\ unvisited \subseteq DOMAIN count
  /\ \A u \in DOMAIN count \ unvisited : count[u] <= count[biggest]

\* The inductive invariant.
AggregatorInv ==
  /\ AggregatorTypeOK
  /\ pc = "insert" => majority = NoMajority /\ tie = FALSE
  /\ pc = "scan" => ScanLeads
  /\ MajorityIsPlurality

\* The count map holds the reported values, each with its tally.
LEMMA CountIsTally ==
  ASSUME reports \in Seq(Values)
  PROVE  /\ Tally(reports) \in [Values -> Nat]
         /\ DOMAIN count = {v \in Values : Tally(reports)[v] > 0}
         /\ \A v \in DOMAIN count : count[v] = Tally(reports)[v]
<1>1. /\ IsFiniteSet(DOMAIN reports)
      /\ reports \in [DOMAIN reports -> Values]
  <2>1. DOMAIN reports = 1 .. Len(reports) /\ Len(reports) \in Nat
    OBVIOUS
  <2>2. IsFiniteSet(1 .. Len(reports))
    BY <2>1, FS_Interval
  <2> QED
    BY <2>1, <2>2
<1>2. Tally(reports) \in [Values -> Nat]
  BY <1>1, TallyType
<1>3. \A v \in Values : IsFiniteSet(Supporters(reports, v))
  BY <1>1, TallyType
<1>4. DOMAIN count = {reports[i] : i \in DOMAIN reports}
  BY DEF count
<1>5. ASSUME NEW v \in Values
      PROVE  v \in DOMAIN count <=> Tally(reports)[v] > 0
  <2>1. v \in DOMAIN count <=> Supporters(reports, v) # {}
    BY <1>4 DEF Supporters
  <2>2. Supporters(reports, v) = {} <=> Cardinality(Supporters(reports, v)) = 0
    BY <1>3, FS_EmptySet
  <2>3. Tally(reports)[v] = Cardinality(Supporters(reports, v))
    BY DEF Tally
  <2>4. Tally(reports)[v] \in Nat
    BY <1>2
  <2> QED
    BY <2>1, <2>2, <2>3, <2>4
<1>6. DOMAIN count \subseteq Values
  BY <1>1, <1>4
<1>7. DOMAIN count = {v \in Values : Tally(reports)[v] > 0}
  BY <1>5, <1>6
<1>8. \A v \in DOMAIN count : count[v] = Tally(reports)[v]
  BY DEF count
<1> QED
  BY <1>2, <1>7, <1>8

\* Without a report, or with two values that share the biggest count, no
\* value has a majority.
LEMMA NobodyWins ==
  ASSUME reports \in Seq(Values), reports = <<>> \/ BiggestCountTwice
  PROVE  Undecided(Tally(reports))
<1> DEFINE tally == Tally(reports)
<1>1. tally \in [Values -> Nat]
  BY CountIsTally
<1>2. CASE reports = <<>>
  <2>1. DOMAIN count = {}
    BY <1>2 DEF count
  <2>2. \A v \in Values : ~ (tally[v] > 0)
    BY <2>1, CountIsTally
  <2> QED
    BY <2>2 DEF Undecided, IsMajority
<1>3. CASE BiggestCountTwice
  <2>1. PICK v \in DOMAIN count, w \in DOMAIN count :
          /\ v # w /\ count[v] = count[w]
          /\ \A u \in DOMAIN count : count[u] <= count[v]
    BY <1>3 DEF BiggestCountTwice
  <2>2. /\ v \in Values /\ w \in Values
        /\ tally[v] = tally[w] /\ tally[v] > 0
        /\ \A u \in Values : tally[u] > 0 => tally[u] <= tally[v]
    BY <2>1, CountIsTally
  <2>3. \A u \in Values : ~ IsMajority(tally, u)
    <3> SUFFICES ASSUME NEW u \in Values, IsMajority(tally, u) PROVE FALSE
      OBVIOUS
    <3>1. tally[u] > 0 /\ (u # v => tally[v] < tally[u]) /\ (u # w => tally[w] < tally[u])
      BY <2>2 DEF IsMajority
    <3> HIDE DEF tally
    <3> QED
      BY <1>1, <2>1, <2>2, <3>1
  <2> QED
    BY <2>3 DEF Undecided
<1> QED
  BY <1>2, <1>3

\* If no two values share the biggest count, whoever has it has the majority.
LEMMA BiggestWins ==
  ASSUME reports \in Seq(Values), ~ BiggestCountTwice,
         NEW b \in DOMAIN count, \A u \in DOMAIN count : count[u] <= count[b]
  PROVE  b \in Values /\ IsMajority(Tally(reports), b)
<1> DEFINE tally == Tally(reports)
<1>1. tally \in [Values -> Nat]
  BY CountIsTally
<1>2. b \in Values /\ tally[b] > 0 /\ count[b] = tally[b]
  BY CountIsTally
<1>3. ASSUME NEW w \in Values \ {b} PROVE tally[w] < tally[b]
  <2>1. CASE w \in DOMAIN count
    <3>1. count[w] # count[b]
      BY <1>3, <2>1 DEF BiggestCountTwice
    <3>2. tally[w] = count[w] /\ count[w] <= count[b]
      BY <2>1, CountIsTally
    <3>3. tally[w] # tally[b] /\ tally[w] <= tally[b]
      BY <1>2, <3>1, <3>2
    <3> HIDE DEF tally
    <3> QED
      BY <1>1, <1>2, <3>3
  <2>2. CASE w \notin DOMAIN count
    <3>1. ~ (tally[w] > 0) /\ tally[w] \in Nat
      BY <2>2, <1>1, CountIsTally
    <3> HIDE DEF tally
    <3> QED
      BY <1>1, <1>2, <3>1
  <2> QED
    BY <2>1, <2>2
<1> QED
  BY <1>2, <1>3 DEF IsMajority

\* Two values cannot both have the majority.
LEMMA OneMajority ==
  ASSUME NEW tally \in [Values -> Nat], NEW v \in Values, NEW w \in Values,
         IsMajority(tally, v), IsMajority(tally, w)
  PROVE  v = w
BY DEF IsMajority

-----------------------------------------------------------------------------
\* The loop invariant holds before the first report.
LEMMA AggregatorInitInv == AggregatorInit => AggregatorInv
<1> SUFFICES ASSUME AggregatorInit PROVE AggregatorInv
  OBVIOUS
<1>1. /\ reports = <<>> /\ majority = NoMajority /\ tie = FALSE
      /\ pc = "insert" /\ unvisited = {} /\ biggest = NoMajority
  BY DEF AggregatorInit
<1>2. reports \in Seq(Values) /\ Len(reports) = 0
  BY <1>1
<1>3. tie \in BOOLEAN
  BY <1>1, Zenon
<1>4. Len(reports) <= MaxReports
  BY <1>2, AggregatorAssumption
<1>5. AggregatorTypeOK
  BY <1>1, <1>2, <1>3, <1>4, Zenon DEF AggregatorTypeOK
<1> QED
  BY <1>1, <1>5 DEF AggregatorInv, MajorityIsPlurality

\* A report that is inserted keeps it (binary_aggregator.go 68-76).
LEMMA InsertKeepsInv ==
  ASSUME AggregatorInv, NEW v \in Values, InsertReport(v)
  PROVE  AggregatorInv'
<1>1. /\ reports' = Append(reports, v)
      /\ pc = "insert" /\ pc' = "insert"
      /\ Len(reports) < MaxReports
      /\ UNCHANGED <<majority, tie, unvisited, biggest>>
  BY DEF InsertReport
<1>2. AggregatorTypeOK'
  BY <1>1, AggregatorAssumption DEF AggregatorInv, AggregatorTypeOK
<1> QED
  BY <1>1, <1>2 DEF AggregatorInv, MajorityIsPlurality

\* The paths without a majority.
LEMMA NoMajorityKeepsInv ==
  ASSUME AggregatorInv, CalculateEmpty \/ CalculateTie
  PROVE  AggregatorInv'
<1>1. /\ pc = "insert" /\ pc' = "done"
      /\ tie' = (reports # <<>>)
      /\ reports = <<>> \/ BiggestCountTwice
      /\ UNCHANGED <<reports, majority, unvisited, biggest>>
      /\ majority = NoMajority
  <2>1. CASE CalculateEmpty
    BY <2>1 DEF CalculateEmpty, AggregatorInv
  <2>2. CASE CalculateTie
    BY <2>2 DEF CalculateTie, AggregatorInv
  <2> QED
    BY <2>1, <2>2
<1>2. AggregatorTypeOK'
  BY <1>1 DEF AggregatorInv, AggregatorTypeOK
<1>3. Undecided(Tally(reports))
  BY <1>1, NobodyWins DEF AggregatorInv, AggregatorTypeOK
<1>4. MajorityIsPlurality'
  <2>1. \A v \in Values : v # NoMajority
    BY AggregatorAssumption
  <2> QED
    BY <1>1, <1>3, <2>1 DEF MajorityIsPlurality, Undecided
<1> QED
  BY <1>1, <1>2, <1>4 DEF AggregatorInv

\* The scan starts from a reported value, with every value still to visit.
LEMMA StartKeepsInv ==
  ASSUME AggregatorInv, StartScan
  PROVE  AggregatorInv'
<1>1. /\ pc = "insert" /\ pc' = "scan"
      /\ reports # <<>> /\ ~ BiggestCountTwice
      /\ biggest' = reports[1] /\ unvisited' = DOMAIN count
      /\ UNCHANGED <<reports, majority, tie>>
      /\ majority = NoMajority /\ tie = FALSE
      /\ reports \in Seq(Values)
  BY DEF StartScan, AggregatorInv, AggregatorTypeOK
<1>2. count' = count /\ BiggestCountTwice' = BiggestCountTwice
  BY <1>1 DEF count, BiggestCountTwice
<1>3. reports[1] \in DOMAIN count
  BY <1>1 DEF count
<1>4. DOMAIN count \subseteq Values
  BY <1>1, CountIsTally
<1>5. AggregatorTypeOK'
  BY <1>1, <1>3, <1>4 DEF AggregatorInv, AggregatorTypeOK
<1>6. ScanLeads'
  BY <1>1, <1>2, <1>3 DEF ScanLeads
<1> QED
  BY <1>1, <1>5, <1>6 DEF AggregatorInv, MajorityIsPlurality

\* A visited value takes the lead or is beaten.
LEMMA VisitKeepsInv ==
  ASSUME AggregatorInv, NEW v \in Values, Visit(v)
  PROVE  AggregatorInv'
<1>1. /\ pc = "scan" /\ pc' = "scan"
      /\ v \in unvisited /\ unvisited' = unvisited \ {v}
      /\ biggest' = IF count[v] > count[biggest] THEN v ELSE biggest
      /\ UNCHANGED <<reports, majority, tie>>
      /\ ScanLeads
      /\ reports \in Seq(Values)
  BY DEF Visit, AggregatorInv, AggregatorTypeOK
<1>2. count' = count /\ BiggestCountTwice' = BiggestCountTwice
  BY <1>1 DEF count, BiggestCountTwice
<1>3. /\ v \in DOMAIN count /\ biggest \in DOMAIN count
      /\ \A u \in DOMAIN count : count[u] \in Nat
  <2>1. \A u \in DOMAIN count : u \in Values /\ count[u] = Tally(reports)[u]
    BY <1>1, CountIsTally
  <2> QED
    BY <1>1, <2>1, CountIsTally DEF ScanLeads
<1>4. AggregatorTypeOK'
  BY <1>1 DEF AggregatorInv, AggregatorTypeOK
<1>5. \A u \in DOMAIN count \ unvisited' : count[u] <= count[biggest']
  <2> SUFFICES ASSUME NEW u \in DOMAIN count, u \notin unvisited \/ u = v
               PROVE  count[u] <= count[biggest']
    BY <1>1
  <2>1. u = v \/ count[u] <= count[biggest]
    BY <1>1 DEF ScanLeads
  <2>2. count[u] \in Nat /\ count[v] \in Nat /\ count[biggest] \in Nat
    BY <1>3
  <2>3. CASE count[v] > count[biggest]
    BY <1>1, <2>1, <2>2, <2>3
  <2>4. CASE ~ (count[v] > count[biggest])
    BY <1>1, <2>1, <2>2, <2>4
  <2> QED
    BY <2>3, <2>4
<1>6. ScanLeads'
  BY <1>1, <1>2, <1>3, <1>5 DEF ScanLeads
<1> QED
  BY <1>1, <1>4, <1>6 DEF AggregatorInv, MajorityIsPlurality

\* With every value visited, the biggest one is the plurality.
LEMMA SetMajorityKeepsInv ==
  ASSUME AggregatorInv, SetMajority
  PROVE  AggregatorInv'
<1>1. /\ pc = "scan" /\ pc' = "done" /\ unvisited = {}
      /\ majority' = biggest
      /\ UNCHANGED <<reports, tie, unvisited, biggest>>
      /\ ScanLeads
      /\ reports \in Seq(Values)
  BY DEF SetMajority, AggregatorInv, AggregatorTypeOK
<1>2. biggest \in Values /\ IsMajority(Tally(reports), biggest)
  BY <1>1, BiggestWins DEF ScanLeads
<1>3. AggregatorTypeOK'
  BY <1>1, <1>2 DEF AggregatorInv, AggregatorTypeOK
<1>4. MajorityIsPlurality'
  <2>1. ASSUME NEW v \in Values
        PROVE  biggest = v <=> IsMajority(Tally(reports), v)
    BY <1>1, <1>2, CountIsTally, OneMajority
  <2>2. biggest # NoMajority /\ ~ Undecided(Tally(reports))
    BY <1>2, AggregatorAssumption DEF Undecided
  <2>3. tie' = FALSE
    BY <1>1 DEF ScanLeads
  <2> QED
    BY <1>1, <2>1, <2>2, <2>3 DEF MajorityIsPlurality
<1> QED
  BY <1>1, <1>3, <1>4 DEF AggregatorInv

\* The inductive invariant of the aggregator.
THEOREM AggregatorInvariant == AggregatorSpec => []AggregatorInv
<1>1. AggregatorInv /\ [AggregatorNext]_avars => AggregatorInv'
  <2> SUFFICES ASSUME AggregatorInv, [AggregatorNext]_avars PROVE AggregatorInv'
    OBVIOUS
  <2>1. ASSUME NEW v \in Values, InsertReport(v) PROVE AggregatorInv'
    BY <2>1, InsertKeepsInv
  <2>2. ASSUME NEW v \in Values, Visit(v) PROVE AggregatorInv'
    BY <2>2, VisitKeepsInv
  <2>3. CASE CalculateEmpty \/ CalculateTie
    BY <2>3, NoMajorityKeepsInv
  <2>4. CASE StartScan
    BY <2>4, StartKeepsInv
  <2>5. CASE SetMajority
    BY <2>5, SetMajorityKeepsInv
  <2>6. CASE UNCHANGED avars
    <3>1. UNCHANGED <<reports, majority, tie, pc, unvisited, biggest>>
      BY <2>6 DEF avars
    <3>2. count' = count
      BY <3>1 DEF count
    <3>3. ScanLeads' = ScanLeads
      BY <3>1, <3>2 DEF ScanLeads, BiggestCountTwice
    <3>4. MajorityIsPlurality' = MajorityIsPlurality
      BY <3>1 DEF MajorityIsPlurality
    <3>5. AggregatorTypeOK' = AggregatorTypeOK
      BY <3>1 DEF AggregatorTypeOK
    <3> QED
      BY <3>1, <3>3, <3>4, <3>5 DEF AggregatorInv
  <2> QED
    BY <2>1, <2>2, <2>3, <2>4, <2>5, <2>6 DEF AggregatorNext
<1> QED
  BY <1>1, AggregatorInitInv, PTL DEF AggregatorSpec

\* In whatever order the map is visited, the majority that comes out is the
\* value with strictly most reports, and none exactly if there is none
\* (binary_aggregator.go 78-111).
THEOREM MajorityComputed == AggregatorSpec => []MajorityIsPlurality
<1>1. AggregatorInv => MajorityIsPlurality
  BY DEF AggregatorInv
<1> QED
  BY <1>1, AggregatorInvariant, PTL
=============================================================================
