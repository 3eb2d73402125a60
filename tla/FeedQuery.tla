----------------------------- MODULE FeedQuery -----------------------------
(***************************************************************************)
(* A consumer who asks a node for the results of feeds, over JSON-RPC      *)
(* (vm/server.go, vm/client.go), while the node executes transactions.     *)
(*                                                                         *)
(* The handler FeedResult reads the last accepted state three times, the   *)
(* feed, the result and the round, and blocks may be accepted in between.  *)
(* The other queries read once and need no model of their own.             *)
(***************************************************************************)
EXTENDS OracleVM

CONSTANT NoAnswer   \* no query has been answered yet

VARIABLES
  asked,     \* args of the query at hand: <<feed, round>>
  reading,   \* what the handler reads next, "nothing" between queries
  rawFeed,   \* the result it has read
  finals,    \* history: the rounds the consumer has had final answers for
  answer     \* the last reply

qvars == <<asked, reading, rawFeed, finals, answer>>

allvars == <<vars, qvars>>

\* Any number can be asked for, 0 included, which is no round.
Questions == FeedIDs \X (0 .. MaxRound)

ResultOf(f, r) == IF r \in Rounds THEN results[<<f, r>>] ELSE NoValue

\* A variant with a mistake: the current round counts as over.
FinalizedTooEarly(f, r) == round[f].number >= r

Finalized(f, r) == round[f].number > r

QueryInit ==
  /\ Init
  /\ asked = <<0, 0>>
  /\ reading = "nothing"
  /\ rawFeed = NoValue
  /\ finals = {}
  /\ answer = NoAnswer

Ask(f, r) ==
  /\ reading = "nothing"
  /\ asked' = <<f, r>>
  /\ reading' = "feed"
  /\ UNCHANGED <<vars, rawFeed, finals, answer>>

\* A feed that is not stored has no configuration to decode.
ReadFeed ==
  /\ reading = "feed" /\ ~ crashed
  /\ asked[1] \in DOMAIN feeds
  /\ reading' = "result"
  /\ UNCHANGED <<vars, asked, rawFeed, finals, answer>>

ReadResult ==
  /\ reading = "result" /\ ~ crashed
  /\ rawFeed' = ResultOf(asked[1], asked[2])
  /\ reading' = "round"
  /\ UNCHANGED <<vars, asked, finals, answer>>

ReadRound ==
  /\ reading = "round" /\ ~ crashed
  /\ HasRound(asked[1])
  /\ answer' = [asked |-> asked, value |-> rawFeed,
                finalized |-> Finalized(asked[1], asked[2]),
                again |-> asked \in finals]
  /\ finals' = IF Finalized(asked[1], asked[2])
               THEN finals \cup {asked} ELSE finals
  /\ reading' = "nothing"
  /\ UNCHANGED <<vars, asked, rawFeed>>

\* A feed that has no round is a nil pointer, which ends the request, and
\* the process with it if whoever serves the request does not recover.
RoundPanics ==
  /\ reading = "round" /\ ~ crashed
  /\ ~ HasRound(asked[1])
  /\ crashed' \in BOOLEAN
  /\ reading' = "nothing"
  /\ UNCHANGED <<balance, highestFeedID, feeds, vault, deposit, round,
                 reports, results, bribes, now,
                 asked, rawFeed, finals, answer>>

\* A read fails, the feed does not exist or the node is down.
QueryFails ==
  /\ reading # "nothing"
  /\ reading' = "nothing"
  /\ UNCHANGED <<vars, asked, rawFeed, finals, answer>>

FeedResult == ReadFeed \/ ReadResult \/ ReadRound \/ RoundPanics \/ QueryFails

QueryNext ==
  \/ Next /\ UNCHANGED qvars
  \/ \E fr \in Questions : Ask(fr[1], fr[2])
  \/ FeedResult

QuerySpec == QueryInit /\ [][QueryNext]_allvars
-----------------------------------------------------------------------------
\* Type invariant.
QueryTypeOK ==
  /\ asked \in Questions
  /\ reading \in {"nothing", "feed", "result", "round"}
  /\ rawFeed \in Values \cup {NoValue}
  /\ finals \subseteq Questions
  /\ answer = NoAnswer \/
     answer \in [asked : Questions, value : Values \cup {NoValue},
                 finalized : BOOLEAN, again : BOOLEAN]

\* A first answer marked final may carry an older result of its round, or
\* none: the result is read before the round (server.go 119-130), and a seal
\* may come in between.  But who has been told once that a round is final,
\* and asks again, gets the result of the round, marked final, whenever the
\* first answer was given: asking twice is a remedy for the reads that are
\* not one snapshot.
SecondAnswersHold ==
  answer # NoAnswer =>
    (answer.again
       => /\ answer.finalized
          /\ answer.value = ResultOf(answer.asked[1], answer.asked[2]))
=============================================================================
