--------------------------- MODULE OracleVMClaims ---------------------------
(***************************************************************************)
(* What comments and error messages of the code say of the system, and     *)
(* what the handlers do not keep.                                          *)
(***************************************************************************)
EXTENDS OracleVM

\* "the last tx reports into an expired round will seal the feed at that
\* round and increment the round number" (report_feed.go 328): whoever may
\* report into an expired round whose reward the vault can pay can seal it.
ExpiredRoundsCanBeSealed ==
  \A a \in Accounts, f \in FeedIDs :
    /\ ~ crashed /\ HasRound(f)
    /\ round[f].number < MaxRound
    /\ Admitted(a, f, round[f].number)
    /\ Expired(f) /\ CanPayReward(f)
    => ENABLED Seal(a, f, round[f].number)

\* "funding feed not exists" (fund_feed.go 16) is the answer to a FundFeed
\* for a feed that does not exist: only the vaults of feeds hold tokens.
VaultsBelongToFeeds ==
  \A f \in FeedIDs : vault[f] > 0 => f \in DOMAIN feeds

\* "num of miliseconds one appeal can delay the finalization"
\* (register_feed.go 39, of the appeal effect): an appeal delays the end of
\* the round, or at worst leaves it where it is, once the cap is reached.
AppealsDelay ==
  [][\A f \in DOMAIN feeds :
       /\ HasRound(f) /\ round'[f].number = round[f].number
       /\ round'[f].appeals # round[f].appeals
       => EndAt(round'[f]) >= EndAt(round[f])]_vars
=============================================================================
