-------------------------- MODULE FeedQueryProofs --------------------------
(***************************************************************************)
(* What a consumer can rely on who is told that a round is final, and asks *)
(* again.                                                                  *)
(***************************************************************************)
EXTENDS FeedQuery, OracleRoundsProofs

\* The round fr of a feed is over.
Over(fr) == round[fr[1]].number > fr[2]

\* The inductive invariant.  A consumer has had a final answer only for
\* rounds that are over, and they stay over; the result read for a question
\* that had one before is therefore the result of the round for good, also
\* while it waits for the round to be read and after it has been sent.
QueryInv ==
  /\ RoundsInv
  /\ QueryTypeOK
  /\ \A fr \in finals : Over(fr)
  /\ reading = "round" /\ asked \in finals
       => rawFeed = ResultOf(asked[1], asked[2])
  /\ answer # NoAnswer /\ answer.again =>
       /\ answer.finalized
       /\ Over(answer.asked)
       /\ answer.value = ResultOf(answer.asked[1], answer.asked[2])

\* What can be asked for.
LEMMA QuestionsType ==
  ASSUME NEW fr \in Questions
  PROVE  fr[1] \in FeedIDs /\ fr[2] \in Nat
BY FeedsAssumption DEF Questions

\* The inductive invariant holds at the start.
LEMMA InitQueryInv == QueryInit => QueryInv
<1> SUFFICES ASSUME QueryInit PROVE QueryInv
  OBVIOUS
<1>1. RoundsInv
  BY InitRoundsInv DEF QueryInit
<1>2. <<0, 0>> \in Questions
  BY FeedsAssumption DEF Questions, FeedIDs
<1> QED
  BY <1>1, <1>2 DEF QueryInit, QueryInv, QueryTypeOK

\* A step of the virtual machine leaves alone what is over.
LEMMA OverStays ==
  ASSUME RoundsInv, [Next]_vars, NEW fr \in Questions, Over(fr)
  PROVE  Over(fr)' /\ ResultOf(fr[1], fr[2])' = ResultOf(fr[1], fr[2])
<1>1. fr[1] \in FeedIDs /\ fr[2] \in Nat
  BY QuestionsType
<1>2. Over(fr)'
  BY <1>1, RoundNumbersGrow DEF Over
<1>3. ASSUME fr[2] \in Rounds
      PROVE  results'[<<fr[1], fr[2]>>] = results[<<fr[1], fr[2]>>]
  BY <1>1, <1>3, EarlierRoundsStay DEF Over
<1> QED
  BY <1>2, <1>3 DEF ResultOf

\* So it preserves the invariant, the panic of a query included.
LEMMA ExecutionQueryInv ==
  ASSUME QueryInv, [Next]_vars, UNCHANGED <<asked, rawFeed, finals, answer>>,
         reading' = reading \/ reading' = "nothing"
  PROVE  QueryInv'
<1>1. RoundsInv'
  BY NextRoundsInv DEF QueryInv
<1>2. QueryTypeOK'
  BY DEF QueryInv, QueryTypeOK
<1>3. asked \in Questions /\ finals \subseteq Questions
  BY DEF QueryInv, QueryTypeOK
<1>4. \A fr \in finals' : Over(fr)'
  BY <1>3, OverStays DEF QueryInv
<1>5. reading' = "round" /\ asked' \in finals'
        => rawFeed' = ResultOf(asked[1], asked[2])'
  <2> SUFFICES ASSUME reading = "round", asked \in finals
               PROVE  rawFeed' = ResultOf(asked[1], asked[2])'
    OBVIOUS
  <2>1. Over(asked) /\ rawFeed = ResultOf(asked[1], asked[2])
    BY DEF QueryInv
  <2>2. ASSUME NEW fr \in Questions, fr = asked
        PROVE  ResultOf(fr[1], fr[2])' = ResultOf(fr[1], fr[2])
    BY <2>1, <2>2, OverStays DEF QueryInv
  <2> QED
    BY <1>3, <2>1, <2>2 DEF ResultOf
<1>6. answer' # NoAnswer /\ answer'.again =>
        /\ answer'.finalized
        /\ Over(answer.asked)'
        /\ answer'.value = ResultOf(answer.asked[1], answer.asked[2])'
  <2> SUFFICES ASSUME answer # NoAnswer, answer.again
               PROVE  /\ answer.finalized
                      /\ Over(answer.asked)'
                      /\ answer.value = ResultOf(answer.asked[1], answer.asked[2])'
    OBVIOUS
  <2>1. /\ answer.finalized /\ Over(answer.asked)
        /\ answer.value = ResultOf(answer.asked[1], answer.asked[2])
    BY DEF QueryInv
  <2>2. answer.asked \in Questions
    BY DEF QueryInv, QueryTypeOK
  <2>3. ASSUME NEW fr \in Questions, fr = answer.asked
        PROVE  Over(fr)' /\ ResultOf(fr[1], fr[2])' = ResultOf(fr[1], fr[2])
    BY <2>1, <2>3, OverStays DEF QueryInv
  <2> QED
    BY <2>1, <2>2, <2>3 DEF Over, ResultOf
<1> QED
  BY <1>1, <1>2, <1>4, <1>5, <1>6 DEF QueryInv

\* The result is read of a round that is over, or nothing is said of it.
LEMMA ReadResultQueryInv ==
  ASSUME QueryInv, ReadResult
  PROVE  QueryInv'
<1>1. asked \in Questions /\ asked[1] \in FeedIDs /\ asked[2] \in Nat
  BY QuestionsType DEF QueryInv, QueryTypeOK
<1>2. RoundsInv' /\ UNCHANGED vars
  BY DEF ReadResult, QueryInv, RoundsInv, TypeOK, PublishedLeads,
         NoReportsAhead, vars
<1>3. QueryTypeOK'
  <2>1. ResultOf(asked[1], asked[2]) \in Values \cup {NoValue}
    BY <1>1 DEF QueryInv, RoundsInv, TypeOK, ResultOf
  <2> QED
    BY <2>1 DEF ReadResult, QueryInv, QueryTypeOK
<1> QED
  BY <1>1, <1>2, <1>3 DEF ReadResult, QueryInv, Over, ResultOf, vars

\* The round is read later than the result: a round that was over then is
\* still over, and the answer is final.
LEMMA ReadRoundQueryInv ==
  ASSUME QueryInv, ReadRound
  PROVE  QueryInv'
<1> DEFINE new == [asked |-> asked, value |-> rawFeed,
                   finalized |-> Finalized(asked[1], asked[2]),
                   again |-> asked \in finals]
<1>1. asked \in Questions /\ asked[1] \in FeedIDs /\ asked[2] \in Nat
  BY QuestionsType DEF QueryInv, QueryTypeOK
<1>2. RoundsInv' /\ UNCHANGED vars
  BY DEF ReadRound, QueryInv, RoundsInv, TypeOK, PublishedLeads,
         NoReportsAhead, vars
<1>3. Finalized(asked[1], asked[2]) = Over(asked)
  BY DEF Finalized, Over
<1>4. answer' = new
  BY DEF ReadRound
<1>5. QueryTypeOK'
  <2>1. /\ rawFeed \in Values \cup {NoValue}
        /\ finals \subseteq Questions
    BY DEF QueryInv, QueryTypeOK
  <2>2. Finalized(asked[1], asked[2]) \in BOOLEAN
    BY DEF Finalized
  <2>3. new \in [asked : Questions, value : Values \cup {NoValue},
                 finalized : BOOLEAN, again : BOOLEAN]
    BY <1>1, <2>1, <2>2
  <2> QED
    BY <1>1, <1>4, <2>1, <2>3 DEF ReadRound, QueryTypeOK
<1>6. \A fr \in finals' : Over(fr)'
  BY <1>2, <1>3 DEF ReadRound, QueryInv, Over, vars
<1>7. asked \in finals
        => Over(asked) /\ rawFeed = ResultOf(asked[1], asked[2])
  BY DEF ReadRound, QueryInv
<1>8. answer'.again =>
        /\ answer'.finalized
        /\ Over(answer.asked)'
        /\ answer'.value = ResultOf(answer.asked[1], answer.asked[2])'
  BY <1>2, <1>3, <1>4, <1>7 DEF Over, ResultOf, vars
<1>9. reading' # "round"
  BY DEF ReadRound
<1> QED
  BY <1>2, <1>5, <1>6, <1>8, <1>9 DEF QueryInv

\* The induction step.
LEMMA NextQueryInv == QueryInv /\ [QueryNext]_allvars => QueryInv'
<1> SUFFICES ASSUME QueryInv, [QueryNext]_allvars PROVE QueryInv'
  OBVIOUS
<1>1. CASE Next /\ UNCHANGED qvars
  BY <1>1, ExecutionQueryInv DEF qvars
<1>2. ASSUME NEW fr \in Questions, Ask(fr[1], fr[2]) PROVE QueryInv'
  <2>1. fr = <<fr[1], fr[2]>>
    BY DEF Questions
  <2>2. RoundsInv'
    BY <1>2 DEF Ask, QueryInv, RoundsInv, TypeOK, PublishedLeads,
                NoReportsAhead, vars
  <2> QED
    BY <1>2, <2>1, <2>2 DEF Ask, QueryInv, QueryTypeOK, Over, ResultOf, vars
<1>3. CASE ReadFeed
  <2>1. RoundsInv'
    BY <1>3 DEF ReadFeed, QueryInv, RoundsInv, TypeOK, PublishedLeads,
                NoReportsAhead, vars
  <2> QED
    BY <1>3, <2>1 DEF ReadFeed, QueryInv, QueryTypeOK, Over, ResultOf, vars
<1>4. CASE ReadResult
  BY <1>4, ReadResultQueryInv
<1>5. CASE ReadRound
  BY <1>5, ReadRoundQueryInv
<1>6. CASE RoundPanics
  <2>1. RoundsInv'
    BY <1>6 DEF RoundPanics, QueryInv, RoundsInv, TypeOK, PublishedLeads,
                NoReportsAhead
  <2> QED
    BY <1>6, <2>1 DEF RoundPanics, QueryInv, QueryTypeOK, Over, ResultOf
<1>7. CASE QueryFails
  BY <1>7, ExecutionQueryInv DEF QueryFails
<1>8. CASE UNCHANGED allvars
  BY <1>8, ExecutionQueryInv DEF allvars, qvars
<1> QED
  BY <1>1, <1>2, <1>3, <1>4, <1>5, <1>6, <1>7, <1>8 DEF QueryNext, FeedResult

\* QueryInv is an invariant of the queries and the transactions together.
THEOREM QueryInvariant == QuerySpec => []QueryInv
BY InitQueryInv, NextQueryInv, PTL DEF QuerySpec

\* Asking again after a final answer is enough to get the result of the
\* round.
THEOREM SecondAnswersStay == QuerySpec => []SecondAnswersHold
<1>1. QueryInv => SecondAnswersHold
  BY DEF QueryInv, SecondAnswersHold
<1> QED
  BY <1>1, QueryInvariant, PTL
=============================================================================
