------------------------- MODULE OracleRoundsProofs -------------------------
(***************************************************************************)
(* Rounds and results: the published result always leads, a seal keeps it, *)
(* and the virtual machine implements RoundLifecycle.                      *)
(***************************************************************************)
EXTENDS OracleVMProofs

\* The inductive invariant.  That a seal finds the majority that was
\* published needs PublishedLeads; that a seal never meets a round without a
\* record needs NoReportsAhead.
RoundsInv == TypeOK /\ PublishedLeads /\ NoReportsAhead

\* A step that is no seal and no report leaves reports and results alone, and
\* the number of every round.
LEMMA OtherSteps ==
  ASSUME TypeOK, [Next]_vars
  PROVE  \/ \E a \in Accounts, f \in FeedIDs, r \in Rounds : Seal(a, f, r)
         \/ \E a \in Accounts, f \in FeedIDs, r \in Rounds, v \in Values :
              Report(a, f, r, v)
         \/ /\ reports' = reports /\ results' = results
            /\ \A f \in FeedIDs : round'[f].number = round[f].number
<1>1. CASE Execute
  <2>1. CASE \E a \in Appellants, f \in FeedIDs : AppealFeed(a, f)
    BY <2>1 DEF AppealFeed, TypeOK, RoundInfo
  <2> QED
    BY <1>1, <2>1 DEF Execute, Transfer, RegisterFeed, FundFeed, DepositFeed,
                      BribeInsert, BribeDelete
<1>2. CASE Panic \/ Tick \/ Restart \/ UNCHANGED vars
  BY <1>2 DEF Panic, Tick, Restart, vars
<1> QED
  BY <1>1, <1>2 DEF Next

\* The ballot of a round is a finite function.
LEMMA BallotType ==
  ASSUME TypeOK, NEW f \in FeedIDs, NEW r \in Rounds
  PROVE  /\ IsFiniteSet(DOMAIN reports[<<f, r>>])
         /\ reports[<<f, r>>] \in [DOMAIN reports[<<f, r>>] -> Values]
<1>1. DOMAIN reports[<<f, r>>] \in SUBSET Accounts
  BY DEF TypeOK
<1>2. IsFiniteSet(DOMAIN reports[<<f, r>>])
  BY <1>1, AccountsAssumption, FS_Subset
<1> QED
  BY <1>2 DEF TypeOK

\* A seal closes the current round of its feed and leaves every result as it
\* was published.
LEMMA SealKeepsResults ==
  ASSUME RoundsInv, NEW a \in Accounts, NEW f \in FeedIDs, NEW r \in Rounds,
         Seal(a, f, r)
  PROVE  /\ HasRound(f) /\ r = round[f].number /\ r < MaxRound
         /\ results[<<f, r>>] \in Values
         /\ results' = results
         /\ reports' = reports
         /\ round' = [round EXCEPT ![f] = OpenRound(f, r + 1)]
         /\ deposit' = [fx \in DOMAIN deposit |->
                          IF /\ fx[1] = f
                             /\ fx[2] \in DOMAIN reports[<<f, r>>]
                                  \ Supporters(reports[<<f, r>>],
                                               results[<<f, r>>])
                          THEN 0 ELSE deposit[fx]]
<1> DEFINE ballot == reports[<<f, r>>]
<1>1. PICK m \in Values :
        /\ IsMajority(Tally(ballot), m)
        /\ results' = [results EXCEPT ![<<f, r>>] = m]
        /\ deposit' = [fx \in DOMAIN deposit |->
                         IF fx[1] = f /\ fx[2] \in DOMAIN ballot
                                                     \ Supporters(ballot, m)
                         THEN 0 ELSE deposit[fx]]
  BY DEF Seal
<1>2. IsFiniteSet(DOMAIN ballot) /\ ballot \in [DOMAIN ballot -> Values]
  BY BallotType DEF RoundsInv
<1>3. DOMAIN ballot # {}
  BY <1>1, <1>2, MajorityLeads
<1>4. results[<<f, r>>] \in Values /\ Leads(Tally(ballot), results[<<f, r>>])
  BY <1>3 DEF RoundsInv, PublishedLeads
<1>5. m = results[<<f, r>>]
  <2>1. Tally(ballot) \in [Values -> Nat]
    BY <1>2, TallyType
  <2> QED
    BY <1>1, <1>4, <2>1, MajorityIsLeader
<1>6. results' = results
  BY <1>1, <1>5 DEF RoundsInv, TypeOK
<1>7. round[f] \in RoundInfo /\ r \in Nat
  BY DEF RoundsInv, TypeOK, Rounds
<1>8. HasRound(f)
  <2>1. SUFFICES ASSUME ~ HasRound(f) PROVE FALSE
    OBVIOUS
  <2>2. r > round[f].number
    BY <2>1 DEF HasRound, Rounds
  <2> QED
    BY <1>3, <2>2 DEF RoundsInv, NoReportsAhead
<1>9. r = round[f].number /\ r < MaxRound
  BY <1>8 DEF Seal, Admitted, CurrentRound
<1> QED
  BY <1>1, <1>4, <1>5, <1>6, <1>8, <1>9 DEF Seal

\* A report publishes a value that leads the reports then on file.
LEMMA ReportPublishes ==
  ASSUME RoundsInv, NEW a \in Accounts, NEW f \in FeedIDs, NEW r \in Rounds,
         NEW v \in Values, Report(a, f, r, v)
  PROVE  /\ \E m \in Values :
              /\ results' = [results EXCEPT ![<<f, r>>] = m]
              /\ Leads(Tally(Store(reports[<<f, r>>], a, v)), m)
         /\ reports' = [reports EXCEPT ![<<f, r>>] = Store(@, a, v)]
<1>1. PICK m \in Values :
        /\ IsMajority(TallyWith(f, r, v), m)
        /\ results' = [results EXCEPT ![<<f, r>>] = m]
  BY DEF Report
<1>2. Leads(Tally(Store(reports[<<f, r>>], a, v)), m)
  BY <1>1, BallotType, MajorityLeadsOnFile DEF RoundsInv, TallyWith
<1> QED
  BY <1>1, <1>2 DEF Report

\* A report goes into the current round of its feed, the first one if there
\* is none.
LEMMA ReportIsCurrent ==
  ASSUME RoundsInv, NEW a \in Accounts, NEW f \in FeedIDs, NEW r \in Rounds,
         NEW v \in Values, Report(a, f, r, v)
  PROVE  /\ r = IF HasRound(f) THEN round[f].number ELSE 1
         /\ \A g \in FeedIDs :
              round'[g].number = IF g = f THEN r ELSE round[g].number
<1>1. r = CurrentRound(f).number
  BY DEF Report, Admitted
<1>2. CurrentRound(f).number = IF HasRound(f) THEN round[f].number ELSE 1
  BY DEF CurrentRound, OpenRound
<1>3. round' = [round EXCEPT ![f] = CurrentRound(f)]
  BY DEF Report
<1> QED
  BY <1>1, <1>2, <1>3 DEF RoundsInv, TypeOK
-----------------------------------------------------------------------------
\* The inductive invariant holds at the start.
LEMMA InitRoundsInv == Init => RoundsInv
<1> SUFFICES ASSUME Init PROVE RoundsInv
  OBVIOUS
<1>1. TypeOK
  BY InitTypeOK
<1>2. \A f \in FeedIDs, r \in Rounds :
        DOMAIN reports[<<f, r>>] = {} /\ results[<<f, r>>] = NoValue
  BY DEF Init
<1> QED
  BY <1>1, <1>2 DEF RoundsInv, PublishedLeads, NoReportsAhead

\* A seal preserves it.
LEMMA SealRoundsInv ==
  ASSUME RoundsInv, NEW a \in Accounts, NEW f \in FeedIDs, NEW r \in Rounds,
         Seal(a, f, r)
  PROVE  PublishedLeads' /\ NoReportsAhead'
<1>1. results' = results /\ reports' = reports
  BY SealKeepsResults
<1>2. PublishedLeads'
  BY <1>1 DEF RoundsInv, PublishedLeads
<1>3. NoReportsAhead'
  <2>1. \A g \in FeedIDs : /\ round[g].number \in Nat
                           /\ round'[g].number \in Nat
                           /\ round'[g].number >= round[g].number
    <3>1. round' = [round EXCEPT ![f] = OpenRound(f, r + 1)]
          /\ r = round[f].number
      BY SealKeepsResults
    <3>2. \A g \in FeedIDs : round[g].number \in Nat
      BY DEF RoundsInv, TypeOK, RoundInfo
    <3> QED
      BY <3>1, <3>2 DEF RoundsInv, TypeOK, OpenRound
  <2>2. SUFFICES ASSUME NEW g \in FeedIDs, NEW n \in Rounds,
                        n > round'[g].number
                 PROVE  DOMAIN reports[<<g, n>>] = {}
    BY <1>1 DEF NoReportsAhead
  <2>3. n > round[g].number
    BY <2>1, <2>2 DEF Rounds
  <2> QED
    BY <2>3 DEF RoundsInv, NoReportsAhead
<1> QED
  BY <1>2, <1>3

\* So does a report.
LEMMA ReportRoundsInv ==
  ASSUME RoundsInv, NEW a \in Accounts, NEW f \in FeedIDs, NEW r \in Rounds,
         NEW v \in Values, Report(a, f, r, v)
  PROVE  PublishedLeads' /\ NoReportsAhead'
<1>1. PICK m \in Values :
        /\ results' = [results EXCEPT ![<<f, r>>] = m]
        /\ Leads(Tally(Store(reports[<<f, r>>], a, v)), m)
  BY ReportPublishes
<1>2. reports' = [reports EXCEPT ![<<f, r>>] = Store(@, a, v)]
  BY ReportPublishes
<1>3. /\ reports'[<<f, r>>] = Store(reports[<<f, r>>], a, v)
      /\ results'[<<f, r>>] = m
      /\ \A g \in FeedIDs, n \in Rounds : <<g, n>> # <<f, r>> =>
           /\ reports'[<<g, n>>] = reports[<<g, n>>]
           /\ results'[<<g, n>>] = results[<<g, n>>]
  BY <1>1, <1>2 DEF RoundsInv, TypeOK
<1>4. PublishedLeads'
  <2>1. SUFFICES ASSUME NEW g \in FeedIDs, NEW n \in Rounds
                 PROVE  IF DOMAIN reports'[<<g, n>>] = {}
                        THEN results'[<<g, n>>] = NoValue
                        ELSE /\ results'[<<g, n>>] \in Values
                             /\ Leads(Tally(reports'[<<g, n>>]),
                                      results'[<<g, n>>])
    BY DEF PublishedLeads
  <2>2. CASE <<g, n>> = <<f, r>>
    <3>1. a \in DOMAIN Store(reports[<<f, r>>], a, v)
      BY DEF Store
    <3>2. g = f /\ n = r
      BY <2>2
    <3>3. DOMAIN reports'[<<f, r>>] # {}
      BY <1>3, <3>1
    <3> QED
      BY <1>1, <1>3, <3>2, <3>3
  <2>3. CASE <<g, n>> # <<f, r>>
    BY <1>3, <2>3 DEF RoundsInv, PublishedLeads
  <2> QED
    BY <2>2, <2>3
<1>5. NoReportsAhead'
  <2>1. SUFFICES ASSUME NEW g \in FeedIDs, NEW n \in Rounds,
                        n > round'[g].number
                 PROVE  DOMAIN reports'[<<g, n>>] = {}
    BY DEF NoReportsAhead
  <2>2. /\ \A h \in FeedIDs :
             round'[h].number = IF h = f THEN r ELSE round[h].number
        /\ r = IF HasRound(f) THEN round[f].number ELSE 1
    BY ReportIsCurrent
  <2>3. round[g].number \in Nat
    BY DEF RoundsInv, TypeOK, RoundInfo
  <2>4. n > round[g].number /\ <<g, n>> # <<f, r>>
    BY <2>1, <2>2, <2>3 DEF HasRound, Rounds
  <2> QED
    BY <1>3, <2>4 DEF RoundsInv, NoReportsAhead
<1> QED
  BY <1>4, <1>5

\* The induction step.
LEMMA NextRoundsInv == RoundsInv /\ [Next]_vars => RoundsInv'
<1> SUFFICES ASSUME RoundsInv, [Next]_vars PROVE RoundsInv'
  OBVIOUS
<1>1. TypeOK'
  BY NextTypeOK DEF RoundsInv
<1>2. CASE \E a \in Accounts, f \in FeedIDs, r \in Rounds : Seal(a, f, r)
  BY <1>1, <1>2, SealRoundsInv DEF RoundsInv
<1>3. CASE \E a \in Accounts, f \in FeedIDs, r \in Rounds, v \in Values :
             Report(a, f, r, v)
  BY <1>1, <1>3, ReportRoundsInv DEF RoundsInv
<1>4. CASE /\ reports' = reports /\ results' = results
           /\ \A f \in FeedIDs : round'[f].number = round[f].number
  BY <1>1, <1>4 DEF RoundsInv, PublishedLeads, NoReportsAhead
<1> QED
  BY <1>2, <1>3, <1>4, OtherSteps DEF RoundsInv

\* RoundsInv is an invariant.
THEOREM RoundsInvariant == Spec => []RoundsInv
BY InitRoundsInv, NextRoundsInv, PTL DEF Spec

\* The published result is never contradicted by the reports on file,
\* although a handler that counts a report into an open round also counts
\* the older report of the same reporter.
THEOREM ResultsLead == Spec => []PublishedLeads
<1>1. RoundsInv => PublishedLeads
  BY DEF RoundsInv
<1> QED
  BY <1>1, RoundsInvariant, PTL

\* No report is on file for a round that is not open yet.
THEOREM ReportsStayBehind == Spec => []NoReportsAhead
<1>1. RoundsInv => NoReportsAhead
  BY DEF RoundsInv
<1> QED
  BY <1>1, RoundsInvariant, PTL
-----------------------------------------------------------------------------
\* A step leaves the results and reports of earlier rounds alone: the only
\* writer is a report, which goes into the current round.
LEMMA EarlierRoundsStay ==
  ASSUME RoundsInv, [Next]_vars
  PROVE  \A f \in FeedIDs, r \in Rounds :
           r < round[f].number =>
             /\ results'[<<f, r>>] = results[<<f, r>>]
             /\ reports'[<<f, r>>] = reports[<<f, r>>]
<1>1. CASE \E a \in Accounts, f \in FeedIDs, r \in Rounds : Seal(a, f, r)
  BY <1>1, SealKeepsResults
<1>2. CASE \E a \in Accounts, f \in FeedIDs, r \in Rounds, v \in Values :
             Report(a, f, r, v)
  <2>1. PICK a \in Accounts, f \in FeedIDs, r \in Rounds, v \in Values :
          Report(a, f, r, v)
    BY <1>2
  <2>2. PICK m \in Values : results' = [results EXCEPT ![<<f, r>>] = m]
    BY <2>1, ReportPublishes
  <2>3. /\ reports' = [reports EXCEPT ![<<f, r>>] = Store(@, a, v)]
        /\ r = IF HasRound(f) THEN round[f].number ELSE 1
    BY <2>1, ReportPublishes, ReportIsCurrent
  <2>4. round[f].number \in Nat /\ r \in Nat
    BY DEF RoundsInv, TypeOK, RoundInfo, Rounds
  <2>5. ~ (r < round[f].number)
    BY <2>3, <2>4 DEF HasRound
  <2> QED
    BY <2>2, <2>3, <2>5 DEF RoundsInv, TypeOK
<1>3. CASE reports' = reports /\ results' = results
  BY <1>3
<1> QED
  BY <1>1, <1>2, <1>3, OtherSteps DEF RoundsInv

\* No step takes a feed back to an earlier round.
LEMMA RoundNumbersGrow ==
  ASSUME RoundsInv, [Next]_vars
  PROVE  \A f \in FeedIDs : /\ round[f].number \in Nat
                            /\ round'[f].number \in Nat
                            /\ round'[f].number >= round[f].number
<1>1. TypeOK /\ TypeOK'
  BY NextTypeOK DEF RoundsInv
<1>2. \A f \in FeedIDs : round[f].number \in Nat /\ round'[f].number \in Nat
  BY <1>1 DEF TypeOK, RoundInfo
<1>3. CASE \E a \in Accounts, f \in FeedIDs, r \in Rounds : Seal(a, f, r)
  <2>1. PICK a \in Accounts, f \in FeedIDs, r \in Rounds : Seal(a, f, r)
    BY <1>3
  <2>2. r = round[f].number /\ round' = [round EXCEPT ![f] = OpenRound(f, r + 1)]
    BY <2>1, SealKeepsResults
  <2> QED
    BY <1>1, <1>2, <2>2 DEF TypeOK, OpenRound
<1>4. CASE \E a \in Accounts, f \in FeedIDs, r \in Rounds, v \in Values :
             Report(a, f, r, v)
  <2>1. PICK a \in Accounts, f \in FeedIDs, r \in Rounds, v \in Values :
          Report(a, f, r, v)
    BY <1>4
  <2>2. /\ r = IF HasRound(f) THEN round[f].number ELSE 1
        /\ \A g \in FeedIDs :
             round'[g].number = IF g = f THEN r ELSE round[g].number
    BY <2>1, ReportIsCurrent
  <2> QED
    BY <1>2, <2>2 DEF HasRound
<1>5. CASE \A f \in FeedIDs : round'[f].number = round[f].number
  BY <1>2, <1>5
<1> QED
  BY <1>1, <1>3, <1>4, <1>5, OtherSteps

\* Results and reports of earlier rounds never change.
THEOREM SealedRoundsFinal == Spec => SealedRoundsAreFinal
<1> DEFINE Final == \A f \in FeedIDs, r \in Rounds :
                      r < round[f].number =>
                        /\ results'[<<f, r>>] = results[<<f, r>>]
                        /\ reports'[<<f, r>>] = reports[<<f, r>>]
<1>1. RoundsInv /\ [Next]_vars => [Final]_vars
  BY EarlierRoundsStay
<1> QED
  BY <1>1, RoundsInvariant, PTL DEF Spec, SealedRoundsAreFinal

\* The deposits a seal takes are those of the reporters whose report on file
\* contradicts the result that was published before the seal.
THEOREM SlashingFollowsResult == Spec => SlashingFollowsPublished
<1> DEFINE Fair == \A f \in FeedIDs : Sealed(f) =>
                     LET ballot == reports[<<f, round[f].number>>]
                         shown  == results[<<f, round[f].number>>]
                     IN  \A a \in Accounts :
                           deposit'[<<f, a>>] =
                             IF a \in DOMAIN ballot \ Supporters(ballot, shown)
                             THEN 0 ELSE deposit[<<f, a>>]
<1>1. ASSUME RoundsInv, [Next]_vars PROVE Fair
  <2>1. ASSUME NEW g \in FeedIDs, Sealed(g)
        PROVE  \E a \in Accounts : Seal(a, g, round[g].number)
    <3>1. CASE \E a \in Accounts, f \in FeedIDs, r \in Rounds : Seal(a, f, r)
      <4>1. PICK a \in Accounts, f \in FeedIDs, r \in Rounds : Seal(a, f, r)
        BY <3>1
      <4>2. /\ r = round[f].number
            /\ round' = [round EXCEPT ![f] = OpenRound(f, r + 1)]
        BY <1>1, <4>1, SealKeepsResults
      <4>3. f = g
        BY <1>1, <2>1, <4>2 DEF Sealed, RoundsInv, TypeOK
      <4> QED
        BY <4>1, <4>2, <4>3
    <3>2. CASE \E a \in Accounts, f \in FeedIDs, r \in Rounds, v \in Values :
                 Report(a, f, r, v)
      BY <1>1, <2>1, <3>2, ReportIsCurrent DEF Sealed
    <3>3. CASE \A f \in FeedIDs : round'[f].number = round[f].number
      BY <2>1, <3>3 DEF Sealed
    <3> QED
      BY <1>1, <3>1, <3>2, <3>3, OtherSteps DEF RoundsInv
  <2>2. ASSUME NEW g \in FeedIDs, NEW a \in Accounts,
               Seal(a, g, round[g].number), NEW x \in Accounts
        PROVE  deposit'[<<g, x>>] =
                 IF x \in DOMAIN reports[<<g, round[g].number>>]
                          \ Supporters(reports[<<g, round[g].number>>],
                                       results[<<g, round[g].number>>])
                 THEN 0 ELSE deposit[<<g, x>>]
    <3>1. round[g].number \in Rounds
      <4>1. round[g].number \in Nat
        BY <1>1 DEF RoundsInv, TypeOK, RoundInfo
      <4>2. round[g].number = CurrentRound(g).number
        BY <2>2 DEF Seal, Admitted
      <4>3. round[g].number # 0
        BY <4>2 DEF CurrentRound, HasRound, OpenRound
      <4>4. round[g].number < MaxRound
        BY <2>2 DEF Seal
      <4> QED
        BY <4>1, <4>3, <4>4, FeedsAssumption DEF Rounds
    <3>2. deposit' = [fx \in DOMAIN deposit |->
                        IF /\ fx[1] = g
                           /\ fx[2] \in DOMAIN reports[<<g, round[g].number>>]
                                \ Supporters(reports[<<g, round[g].number>>],
                                             results[<<g, round[g].number>>])
                        THEN 0 ELSE deposit[fx]]
      BY <1>1, <2>2, <3>1, SealKeepsResults
    <3>3. <<g, x>> \in DOMAIN deposit
      BY <1>1 DEF RoundsInv, TypeOK
    <3> QED
      BY <3>2, <3>3
  <2> QED
    BY <2>1, <2>2
<1>2. RoundsInv /\ [Next]_vars => [Fair]_vars
  BY <1>1
<1> QED
  BY <1>2, RoundsInvariant, PTL DEF Spec, SlashingFollowsPublished
-----------------------------------------------------------------------------
\* The round numbers, the state of RoundLifecycle that is not results.
Number == [f \in FeedIDs |-> round[f].number]

\* A seal of the virtual machine closes a round of the lifecycle.
LEMMA SealCloses ==
  ASSUME RoundsInv, NEW a \in Accounts, NEW f \in FeedIDs, NEW r \in Rounds,
         Seal(a, f, r)
  PROVE  Lifecycle!Close(f)
<1>1. /\ r = round[f].number /\ r < MaxRound
      /\ results[<<f, r>>] \in Values
      /\ results' = results
      /\ round' = [round EXCEPT ![f] = OpenRound(f, r + 1)]
  BY SealKeepsResults
<1>2. Number[f] = r /\ Number[f] \in 1 .. MaxRound - 1
  BY <1>1, FeedsAssumption DEF Number, Rounds
<1>3. results[<<f, Number[f]>>] # NoValue
  BY <1>1, <1>2, ValuesAssumption
<1>4. Number' = [Number EXCEPT ![f] = Number[f] + 1]
  BY <1>1, <1>2 DEF Number, OpenRound, RoundsInv, TypeOK
<1> QED
  BY <1>1, <1>2, <1>3, <1>4 DEF Lifecycle!Close, Number

\* A report opens the first round of its feed, or publishes a result for the
\* current one.
LEMMA ReportOpensOrPublishes ==
  ASSUME RoundsInv, NEW a \in Accounts, NEW f \in FeedIDs, NEW r \in Rounds,
         NEW v \in Values, Report(a, f, r, v)
  PROVE  Lifecycle!Open(f) \/ Lifecycle!Publish(f)
<1>1. PICK m \in Values : results' = [results EXCEPT ![<<f, r>>] = m]
  BY ReportPublishes
<1>2. /\ r = IF HasRound(f) THEN round[f].number ELSE 1
      /\ \A g \in FeedIDs :
           round'[g].number = IF g = f THEN r ELSE round[g].number
  BY ReportIsCurrent
<1>3. \A g \in FeedIDs : Number[g] = round[g].number
  BY DEF Number
<1>4. Number[f] \in Nat
  BY <1>3 DEF RoundsInv, TypeOK, RoundInfo
<1>5. Number' = [Number EXCEPT ![f] = r]
  BY <1>2, <1>3 DEF Number
<1>6. CASE HasRound(f)
  <2>1. r = Number[f] /\ Number[f] > 0
    BY <1>2, <1>3, <1>4, <1>6 DEF HasRound
  <2>2. Number' = Number
    BY <1>5, <2>1 DEF Number
  <2> QED
    BY <1>1, <2>1, <2>2 DEF Lifecycle!Publish, Number
<1>7. CASE ~ HasRound(f)
  <2>1. r = 1 /\ Number[f] = 0
    BY <1>2, <1>3, <1>7 DEF HasRound
  <2> QED
    BY <1>1, <1>5, <2>1 DEF Lifecycle!Open, Number
<1> QED
  BY <1>6, <1>7

\* The virtual machine implements RoundLifecycle: its initial states are
\* initial states of the lifecycle, and each of its steps a step or a
\* stuttering step.
THEOREM RefinesLifecycle == Spec => ImplementsLifecycle
<1>1. Init => Lifecycle!LifecycleInit
  BY DEF Init, Lifecycle!LifecycleInit, NoRound, Rounds
<1>2. RoundsInv /\ [Next]_vars
        => [Lifecycle!LifecycleNext]_<<Number, results>>
  <2> SUFFICES ASSUME RoundsInv, [Next]_vars
               PROVE  [Lifecycle!LifecycleNext]_<<Number, results>>
    OBVIOUS
  <2>1. CASE \E a \in Accounts, f \in FeedIDs, r \in Rounds : Seal(a, f, r)
    BY <2>1, SealCloses DEF Lifecycle!LifecycleNext
  <2>2. CASE \E a \in Accounts, f \in FeedIDs, r \in Rounds, v \in Values :
               Report(a, f, r, v)
    BY <2>2, ReportOpensOrPublishes DEF Lifecycle!LifecycleNext
  <2>3. CASE /\ reports' = reports /\ results' = results
             /\ \A f \in FeedIDs : round'[f].number = round[f].number
    BY <2>3 DEF Number
  <2> QED
    BY <2>1, <2>2, <2>3, OtherSteps DEF RoundsInv
<1>3. RoundsInv /\ [Next]_vars
        => [Lifecycle!LifecycleNext]_(Lifecycle!lvars)
  BY <1>2 DEF Number, Lifecycle!lvars
<1> QED
  BY <1>1, <1>3, RoundsInvariant, PTL
     DEF Spec, ImplementsLifecycle, Lifecycle!LifecycleSpec
=============================================================================
