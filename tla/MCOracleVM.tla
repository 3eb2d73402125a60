----------------------------- MODULE MCOracleVM -----------------------------
(***************************************************************************)
(* Values of the constants of OracleVM for the runs of the model checker.  *)
(***************************************************************************)
EXTENDS OracleVMClaims, StateKeys, TLC

CONSTANTS Alice, Bob, Carol, Yes, No, Maybe

\* Balance records at the start.
TwoEach     == [a \in Accounts |-> 2]
FourEach    == [a \in Accounts |-> 4]
MostlyAlice == [a \in {Alice} |-> 4]

\* Everything a feed can be configured with that a run leaves out is zero.
PlainFeed == [rewardPerRound |-> 0, minDeposit |-> 1, appealFee |-> 0,
              appealEffect |-> 0, appealMaxDelay |-> 0,
              finalizeInterval |-> 0, programID |-> 0]

\* Whoever reports alone and seals gets the two shares of a reward of 2.
RewardingFeed == [PlainFeed EXCEPT !.rewardPerRound = 2]

JustRewarding == {RewardingFeed}
JustPlain     == {PlainFeed}

\* Two appeals reach the cap.
AppealableFeed == [PlainFeed EXCEPT !.appealFee = 1, !.appealEffect = 2,
                                    !.appealMaxDelay = 3,
                                    !.finalizeInterval = 1]

\* The cap is above the delay of two appeals; the delay of three, 9, is no
\* int64 from -8 to 7.
WrappingFeed == [PlainFeed EXCEPT !.minDeposit = 0, !.appealEffect = 3,
                                  !.appealMaxDelay = 7]

OpenFeed == [PlainFeed EXCEPT !.minDeposit = 0, !.finalizeInterval = 1]

\* The store of a new chain, and the ones the unit tests set up.
NoFeeds        == [f \in {} |-> PlainFeed]
PlainStored    == [f \in {0} |-> PlainFeed]
RewardingStored == [f \in {0} |-> RewardingFeed]
AppealableStored == [f \in {0} |-> AppealableFeed]
WrappingStored == [f \in {0} |-> WrappingFeed]
OpenStored     == [f \in {0} |-> OpenFeed]

\* Accounts with the same balance, and values, are interchangeable.
Symmetric == Permutations({Alice, Bob, Carol}) \cup Permutations({Yes, No, Maybe})
=============================================================================
