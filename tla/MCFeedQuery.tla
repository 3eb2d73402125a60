---------------------------- MODULE MCFeedQuery ----------------------------
(***************************************************************************)
(* Queries against the virtual machine of the runs of MCOracleVM.          *)
(***************************************************************************)
EXTENDS MCOracleVM, FeedQuery
=============================================================================
