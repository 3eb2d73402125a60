# Verification of the appeal oracle VM

TLA+ models of the oracle virtual machine in this repository (`actions/`,
`storage/`, `programs/`, `common/`), of a client that queries it (`vm/`) and of
its faucet (`cmd/faucet/`), checked with TLC on small instances, and theorems
about them checked with TLAPS.

An oracle *feed* has a configuration, a *reward vault* and a sequence of
*rounds*. Accounts deposit into a feed to be allowed to report a value into its
current round. Every report publishes the majority so far as the result of the
round. The first report transaction after the end of the round *seals* it
instead: reporters who are not with the majority lose their deposits, the
others share the reward, and the next round opens. *Appeals* postpone the end
of a round for a fee. *Bribes* are offers to a reporter to report a wanted
value (an attack the authors built in to study it).

## Inventory

| component | code | state | operations | what makes it correct |
|---|---|---|---|---|
| balances, transfers | `transfer.go`, `storage.go` 47-183 | balance records | Transfer; credits and debits of every other handler | no amount below zero, no tokens made or lost |
| feed registry | `register_feed.go`, `storage.go` 185-343 | highest ID, feed configurations | RegisterFeed | consecutive IDs, configuration never changes |
| reward vaults | `fund_feed.go`, `storage.go` 658-752 | vault per feed | FundFeed, appeal fees, seal | tokens only in vaults of feeds; conservation |
| deposits | `deposit_feed.go`, `storage.go` 596-655 | deposit per feed and account | DepositFeed, slashing | only those who contradict the result are slashed |
| reports, rounds, sealing | `report_feed.go`, `storage.go` 346-593 | round record, reporter list, reports, results | ReportFeed (first round, open round, seal) | results lead, closed rounds are final, expired rounds can be sealed |
| appeals | `appeal_feed.go`, `common/types.go` 11-105 | appeals and delay in the round record | AppealFeed | the end only moves later, up to the cap, within int64 |
| bribes | `bribe_feed.go`, `common/types.go` 107-165, `storage.go` 755-894 | offers per feed, recipient, round | insert, delete, settlement by a report | an offer is paid once, exactly, to the right party |
| aggregator | `programs/` | reports of one transaction, majority, tie | InsertReport, CalculateMajority, IsMajority | the strict plurality, whatever the map order |
| fees, declared keys | `state_manager.go`, every `StateKeys` | none of its own | CanDeduct, Deduct, StateKeys | handlers touch declared keys only, with the permissions they need in every state |
| JSON-RPC queries | `vm/server.go`, `vm/client.go` | none | FeedInfo, FeedResult, BribeInfo, Balance | who asks again after a final answer gets the result for good |
| faucet | `cmd/faucet/faucet.go`, `vm/client.go` 38-55 | readiness, one shared websocket client, rate limiters | requests, initial transfer with retries | who is told of a success was paid, paying stops, every call returns |
| assembly, wallet, tests, scripts | `vm/vm.go`, `web_wallet/`, `tests/`, `scripts/`, `throughput/` | none | | |

How they interact: all handlers read and write one key-value store;
`ReportFeed` calls the aggregator, moves balances, deposits and the vault, and
settles bribes; `AppealFeed` moves a fee into the vault and rewrites the round
record that `ReportFeed` reads. hypersdk (outside of this repository) gives a
handler the store, the timestamp of the block and the signer, and keeps what it
wrote only if it returns no error and touched only what its `StateKeys` declare.
The query handlers read the last accepted state while blocks are executed. The
faucet is a client of the node: it queries balances, sends `Transfer`s and reads
their outcomes from a websocket.

What is hard: transactions arrive in any order, so that a report may come after
the round it was meant for was sealed, an appeal after its end, a bribe
withdrawal before or after the report it paid for; the same account reports,
deposits or bribes twice; a report that makes a tie, a round without reports,
an empty vault; sums and quotients of tokens that must add up; int64 sums of
configuration values that wrap; handlers that dereference nil pointers; a query
whose three reads are not one snapshot; concurrent requests that take each
other's messages, and answers that come too late or never. `PROJECT.json` lists
each hazard at its line, with the property that watches it or the reason why
none does.

## Modules

| module | models |
|---|---|
| `Plurality` | what an aggregation decides: `Tally`, `IsMajority`, `Undecided` |
| `Tokens` | balance records (`AddBalance`, `CanSub`, `SubBalance`) and sums of tokens |
| `OracleVM` | the store and one action for each path of each handler; the properties |
| `RoundLifecycle` | abstract specification: rounds open in order, the current result may be revised, closing invents and changes nothing |
| `OracleVMClaims` | three claims of comments and error messages that the code does not keep |
| `StateKeys` | what each handler declares and what each function of the storage touches, with permissions |
| `FeedQuery` | the query `FeedResult`, interleaved with the actions of `OracleVM` |
| `Faucet` | the calls of `transferCoins`, the websocket and the chain they depend on |
| `MCOracleVM`, `MCFeedQuery` | values of the constants for TLC |
| `BinaryAggregator` | `CalculateMajority` step by step, with the order of map iteration as a choice |
| `OperatorProofs`, `OracleVMProofs`, `OracleEconomyProofs`, `OracleRoundsProofs`, `OracleAppealsProofs`, `BinaryAggregatorProofs`, `FeedQueryProofs`, `FaucetProofs` | theorems and lemmas |

`Plurality` and `Tokens` have neither recursion nor state; `OracleVM` extends
both. The module `BinaryAggregator` justifies the use of `Plurality` in
`OracleVM`: it shows that the loop of the code computes `IsMajority`.
`OracleVMClaims`, `StateKeys` and `FeedQuery` extend `OracleVM`: the first two add
formulas about its states and actions, the last one composes it with a consumer, whose steps leave the
virtual machine alone except for the panic of a query. `Faucet` stands alone: of
the chain it needs only whether a transfer was executed.

### State of OracleVM and the keys of the store

`balance` maps the addresses that have a balance record to amounts: a record
that reaches zero is removed (`storage.go` 154-183) and an account without a
record cannot pay even zero, so the domain matters. `feeds` is defined on the
stored feeds. `vault`, `deposit`, `results` and `round` are total, with 0,
`NoValue` and `NoRound` for a key that is not in the store, because the code
does not tell an absent key from such a value. `reports[<<f, r>>]` stands for the
reporter list and the reports together: its domain is the (deduplicated) list.
`bribes` is defined on the keys that exist, because deleting under a key that
does not exist panics and deleting under an empty list fails. `now` is the
timestamp of the block being executed.

The ends of rounds and the delays of appeals are int64 sums and products of
values that `RegisterFeed` does not check. `Int64` wraps them at `HalfRange`,
which is 2^63 in the code and any positive number in the theorems. Amounts are natural
numbers: the code adds uint64 amounts without a check in two places (`fund_feed.go` 59, `report_feed.go` 174), and
`UncheckedSumsFit` says that the sums never exceed the tokens of the genesis, so that they do not wrap when those fit.

### Actions and handlers

`Transfer`, `RegisterFeed`, `FundFeed`, `DepositFeed` and `AppealFeed` are the
handlers of the same names. `ReportFeed` has two successful paths, `Seal` and
`Report`, which share `Admitted`; the record of the first round is written by
either. `BribeFeed` has `BribeInsert` and `BribeDelete`, for its opcodes. A handler
that returns an error leaves the store as it was, thanks to the rollback of
hypersdk: a stuttering step, so that only the successful paths are actions, with
the negations of the error conditions as guards. A handler that dereferences a
nil pointer (`SealPanics`, `ReportPanics`, `AppealPanics`, `BribeInsertPanics`,
`BribeDeletePanics`) takes the process down; `Restart` brings it back with the
store as it was. The clock (`Tick`) is free between transactions.

`Seal` keeps the whole handler in one action: aggregation, slashing, division
of the reward among the benign reporters with the sealing account counted once
more, the rest back to the vault, the next round, the result. The model keeps
what the code does where that is surprising: the aggregator of a seal is
looked up by the feed's ID (`CanAggregateToSeal`), a second deposit overwrites
the first, an account that reports again is counted twice in the tally of the open
round (`TallyWith`), whoever inserts a bribe need not be the provider it is filed
under, and one offer whose value is empty or too large makes its whole list
unreadable (`Readable`).

Names, descriptions, memos, compute units and the results handlers return are left out.

### Declared keys

A permission is a pair of a key and `read`, `write` or `allocate`. Each handler has an operator
for its `StateKeys` method, and each function of `storage.go` one for what
it needs in the current state: writing a key that is not there takes `allocate`. `...Touches`
puts them together in the order of the handler. `Lacks` compares, and
adds `SponsorStateKeys`, since the issuer of a transaction pays its fee; the balances
of the model are the ones left after the fee. In `TransferStateKeys` the actor's entry gives way to the
recipient's when both have the same key, as in a Go map literal that is filled in this order.

### Queries

`Ask` is the client's request, `ReadFeed`, `ReadResult` and `ReadRound` are the three
reads of the handler, and any action of `OracleVM` may come between them. `QueryFails` stands
for every error return, a missing feed included. `RoundPanics` is the nil `roundInfo` of a feed
without a round; whether it takes the process down depends on the HTTP server, so both
outcomes are possible. `finals` and the field `again` of an answer are history
variables for the property.

### Faucet

A caller is the main goroutine with the initial transfer, or an HTTP request; each is in one step
of `transferCoins`. `ListenTx` takes the first message of the one `inbox`, whoever
listens. A call can fail in every step (`Fails`): an RPC, a closed websocket,
the deadline of 5 seconds. `RegisterTx` is given no context (`faucet.go` 124): that it does not block for ever is an
assumption about hypersdk's websocket client, which queues the transaction and returns. A transaction is its recipient and the second it was generated in,
since hypersdk's timestamps have the resolution of a second and the faucet's transfers differ in
nothing else; the node ignores one that it knows. The node executes transactions in any order, when it wants
to, and sends an outcome, an expiry or nothing. Balances count transfers, because one
transfer (10) exceeds the threshold (1). What the code does in a surprising way stays: an error about any
transaction ends the call that reads it (`faucet.go` 138), the websocket is not opened
again, a limiter belongs to a remote address with its port.

Definitions that a comment calls a variant with a mistake (`LeadsOrTies`,
`CanOverdraw`, `SubBalanceSparing`, `AdmittedAnyRound`, `PayOnce`, `UncappedDelay`,
`PaymentOfOne`, `CanOfferAgain`, `SmallestCountTwice`,
`TransferStateKeysSwapped`, `BribeFeedStateKeysNoAllocate`, `FinalizedTooEarly`,
`ReturnReady`, `WakeUpOnceMore`, `ChecksForTwo`, `ConcernsAnybody`,
`FailsBeforeListening`) are used by no specification. Put in the place of the definition after them, they make TLC find a
counterexample, which shows that the properties depend on that line of the code.

## Properties

- `TypeOK`: what the keys can hold; in particular no balance, vault or deposit is negative.
- `PublishedLeads`: a round has a result exactly when it has reports, and then no value
  has more reports on file than the result. It is not obvious, because a report that
  replaces an older one is counted next to it. Nor is the result always strictly ahead: after
  two equal reports, one of which is changed, the reports on file tie and the round can never be sealed.
- `NoReportsAhead`, `SealedRoundsAreFinal`: no report is on file for a round that is not
  open, and nothing changes the results and reports of earlier rounds.
- `SlashingFollowsPublished`: a seal takes exactly the deposits of those who
  contradict the result that was public before the seal.
- `OnlyRedepositsBurn`: no step makes tokens; only a second deposit loses some,
  exactly the deposit it overwrites.
- `UncheckedSumsFit`: a vault together with a balance, or with all deposits of its feed, is never more
  than the tokens of the genesis: the additions that the code does not check cannot overflow.
- `AppealsOnlyPostpone`: the end of a current round only moves later, up to the cap, for a
  feed whose effect and cap are not negative and do not overflow int64 (`Postponable`). An
  appeal after the end, before the seal, opens the round again; the code allows that and so does the property.
- `BribesAreSettled`: per key, the offers that disappear in a step are paid exactly: those for one value together, by
  their sum, to the recipient who has that report on file, or one of them back to its provider. No offer is
  altered, and a report that is new or other than the one before leaves no offer for its value behind. (An offer that is paid
  and kept by a report that repeats the one on file would be new tokens, which `OnlyRedepositsBurn` excludes in the same run.)
- `ImplementsLifecycle`: rounds and results behave as `RoundLifecycle` says.
- `DeclaredKeysSuffice`: transfers, registrations, deposits and bribe inserts declare every
  permission they need in every reachable state. Funding and withdrawing a bribe do so too, except that
  an emptied vault and a removed balance record may not be allocated again.
- `SecondAnswersHold`: the order of the reads in `FeedResult` permits that a first answer marked final carries an
  older result, or none, when a seal falls between the reads. Who asks again after a final answer gets the result of the
  round, so that asking twice repairs it.
- `AnswersAreBacked`: who is told of a success has been paid, by a transfer of its own,
  although callers take each other's messages and may wait for one transaction.
- `ReadinessIsEarned`: the faucet is ready only after an executed transfer, and then the
  genesis is cached, so that no request writes the shared client.
- `NoTransfersOncePaid`: an address may be paid more than once, because the balance is
  checked before the transfer is sent; but the transfers under way to it become no more once one is executed.
- `CallsReturn`: every request is answered, and the initial transfer succeeds or gives up,
  whatever the node does.
- `MajorityIsPlurality`: `CalculateMajority` ends with the strict plurality if there is one, and
  with no majority otherwise, in every order of iteration.

## Runs

All runs set `CHECK_DEADLOCK FALSE`: time and rounds are bounded, so that the
system stops.

| run | instance | shows |
|---|---|---|
| `voting` | 3 accounts with 4 tokens and deposits of 4, 3 values, 4 rounds, time 0-3, feed 0 without reward | `PublishedLeads`, `NoReportsAhead`, `SealedRoundsAreFinal`, `SlashingFollowsPublished`, `OnlyRedepositsBurn`, `ImplementsLifecycle` |
| `economy` | 2 accounts, 4 tokens, feed 0 with a reward of 2 and feed 1 to be registered, 2 rounds, time 0-2 | `TypeOK`, `OnlyRedepositsBurn`, `UncheckedSumsFit`, `DeclaredKeysSuffice` |
| `appeals` | 3 accounts, effect 2, cap 3, 2 rounds, time 0-5, int64 from -8 to 7 | `AppealsOnlyPostpone` |
| `bribes` | 2 accounts, offers of 1 token for 2 rounds, a value that cannot be read back | `BribesAreSettled`, `OnlyRedepositsBurn`, `DeclaredKeysSuffice` |
| `aggregator` | lists of up to 6 reports over 3 values | `MajorityIsPlurality` |
| `query` | one consumer, 2 accounts, 2 values, 3 rounds, time 0-2 | `SecondAnswersHold` |
| `faucet` | 2 requests for 2 addresses, an initial transfer with 2 attempts, seconds 0-2, funds for 3 transfers | `FaucetTypeOK`, `AnswersAreBacked`, `ReadinessIsEarned`, `NoTransfersOncePaid`, `CallsReturn` |
| `registered_seal`, `empty_seal` | a new chain; a stored feed 0 | `ExpiredRoundsCanBeSealed` is violated |
| `fund_missing` | a new chain | `VaultsBelongToFeeds` is violated |
| `declared_keys` | a stored feed 0, with reports, appeals and bribes | `VotesFindTheirKeys` is violated |
| `appeal_overflow` | a stored feed 0 with effect 3 and cap 7, 3 appellants, int64 from -8 to 7 | `AppealsDelay` is violated |

Why the bounds are enough for the cases that matter. Three reporters are the least
with a majority and a malicious reporter at once, and three values the least in
which the values that tie can be other than the majority. A deposit of 4
among two benign reporters and the sealing account leaves a rest of 1. The sealing account
may be benign or malicious itself. Four rounds allow a slashed account to come back. In `economy` vault,
deposit and balance compete for four tokens, with deposits of 0 that overwrite, amounts above what an
account has, and a reward that the vault cannot always pay. In `appeals` the second appeal
reaches the cap and the third stays there. In `bribes` both accounts provide, one of them to itself, and one report
can fulfil the offers of both, of the same amount: paying one of them is not enough.
In `query` the third round lets a consumer ask about a round that is over, the current one and one that is
not open yet, and a round can be sealed before, between and after the three reads. In `faucet` two requests
can ask for one address or two and generate the same transaction or two; the second attempt of the
initial transfer may find the balance of the first; the third second lets a transaction expire while another one
of the same recipient is pending; funds for three transfers let the fourth one fail. In `appeals` the width
of int64 is so small that the end of a round that opens late and is appealed twice wraps.
Accounts with equal balances and values are interchangeable: `voting`, `appeals` and `query` use symmetry.

### Fairness

`FairFaucetSpec` has weak fairness of the steps of each call, because
the goroutine of a call is scheduled and its context ends it after 5 seconds, and of the wake-up of the main goroutine
after `time.Sleep`. The node, the network and the clock are not fair: `CallsReturn` does not depend on them.

The virtual machine has no fairness. The code has no timer of its own: a round is sealed by whoever sends a report after
its end, and a vault is filled by whoever funds it, so that nothing can be said about what happens in the end without
assumptions about users.

### The feed at the start

Feed 0 is in the store at the start of most runs although `RegisterFeed` starts
with ID 1. The unit tests store it in the same way (`attacks_test.go` 33-49, where no feed has been registered; the test
also stores a round numbered 0, which no handler does, and `report_feed_test.go` raises the highest ID), and it is the only feed whose rounds the code can seal. No other feed can be in the store before one is
registered: `FeedsAssumption` allows feed 0, in any configuration, or none.

### What the code does not keep

1. `registered_seal`: the seal looks up its aggregator by the feed's ID (`report_feed.go` 119), so
   only feed 0 can be sealed, and a registered feed has ID 1 or higher.
2. `empty_seal`: a round that expires without reports or with a tie has no majority
   (`report_feed.go` 203), so it can never be sealed.
3. `fund_missing`: `FundFeed` accepts feed 0 as soon as one feed is registered (`fund_feed.go` 47).
4. `declared_keys`: `ReportFeed` touches the round, the result, the bribes and the reports of others, which it does
   not declare (`report_feed.go` 47), and `AppealFeed` the highest feed ID (`appeal_feed.go` 38); a transaction with an
   undeclared key fails under hypersdk (`README.md` 99). The unit tests use a store without permissions.
5. `appeal_overflow`: `ApplyAppeal` caps the delay after a multiplication of int64 that can wrap (`common/types.go` 53-56), and
   `RegisterFeed` accepts every effect; one appeal more can then move the end of the round back, although the effect is
   the delay of one appeal (`register_feed.go` 39).

Two more disagreements have no run. The comment at `bribe_feed.go` 36-37 says that bribes only work with one provider
and that withdrawal is not implemented; the code keeps a list of offers with different providers, pays all that a report
fulfils, and implements withdrawal with an opcode, and `BribesAreSettled` shows that both work at the level of the handlers. And
`FundFeed.GetTypeID` returns `RegisterFeedID` (`fund_feed.go` 25) instead of `FundFeedID`: the two actions would collide if
both were registered in the parser. The model, like the unit tests, calls the handlers directly.

## Proofs

The theorems hold for every value of the constants allowed by the assumptions of the
modules: finitely many accounts, amounts that are natural numbers, a `NoValue` that is no value, any width of
int64; finitely many requests and addresses. Feeds, rounds, values and feed configurations are arbitrary.

- `OperatorProofs`, lemmas about the operators. Sums: `SumOf` counts coins, so that splitting a domain splits the sum
  (`SumSplit`); from this follow what writing, removing, crediting and debiting an entry do to a sum, the sum of one
  row of a table (`SumOfRow`), and of a function raised on a set (`SumOfRaised`). Ledgers: crediting and debiting yield ledgers.
  Tallies: a majority leads and is the only leader (`MajorityIsLeader`); and `MajorityLeadsOnFile`, the heart of
  `PublishedLeads`: if a value is the majority of the stored reports and one more, it still leads after that one has
  replaced the older report of its reporter. The majority is strict, so it has
  at least one report to spare against any other value: removing the older report costs the majority
  at most that one.
- `OracleVMProofs`: `TypeCorrect`, with one lemma per action. That a vault stays natural after a
  seal needs that the shares paid do not exceed the total (`SharesBound`). `BribesSettled`: only reports, inserts and
  withdrawals touch offers or reports on file; a report clears exactly the offers for its value and pays their sum
  (`ReportSettles`), and files itself under nobody else (`ReportIsFiled`).
- `OracleEconomyProofs`: `TokensConserved`, with one lemma per handler that moves tokens from one part of `Supply` to
  another. Offers are nested, so the escrow is a sum over keys of sums over providers (`EscrowOfStore`). The seal is the hard one: the
  shares paid are one for each benign reporter and one more (`SumOfPayShares`), the deposits taken are one row of the table
  without the malicious (`SumOfTaken`), and quotient and rest make up the total. `OnlyRedepositsBurn` is not inductive by
  `TypeOK` alone: `RegisterFeed` overwrites a vault, so that one needs to know that the vault of the next feed is still empty
  (`VaultsAwaitFeeds`: vaults under IDs above the highest registered one are empty). It is, because funding and appeals check the highest ID and only feed 0 can be sealed. `EconomyInv` adds that `Supply` never exceeds the
  tokens of the genesis, from which `SumsFit` follows. `KeysDeclared` compares, handler by handler, what is touched with what is
  declared; it needs `TypeOK` only, for the vault that is empty when it is not positive.
- `OracleRoundsProofs`: `RoundsInv == TypeOK /\ PublishedLeads /\ NoReportsAhead` is inductive.
  A seal preserves it because its majority is the only leader of the reports on file, and the published
  result is a leader by `PublishedLeads`: the seal rewrites the result with itself (`SealKeepsResults`).
  `NoReportsAhead` is needed to see that a seal which finds a majority has a round
  record. From the invariant follow `ResultsLead`, `ReportsStayBehind`, `SealedRoundsFinal`,
  `SlashingFollowsResult` and `RefinesLifecycle` (a seal is a `Close`, a report an
  `Open` or a `Publish`, every other step stutters).
- `OracleAppealsProofs`: `AppealsPostpone`, for feeds that are `Postponable`. The handler recomputes the delay from the number of appeals, so the property
  needs that the stored delay is the one of the stored appeals (`DelayFollowsAppeals`), that the capped delay is
  monotone in their number where nothing overflows (`DelayGrows`), and that no registration replaces the configuration
  it was computed from (`FeedsCounted`: the next ID is free). Together with `TypeOK` these are `AppealsInv`.
- `BinaryAggregatorProofs`: the loop invariant `AggregatorInv` of the scan over the map: the biggest count so far is at least
  that of every visited value, and no tie was found before the scan. At its end the biggest is the plurality.
- `FeedQueryProofs`: `QueryInv` extends `RoundsInv`: a consumer has had final answers only for rounds that are over; they stay
  over and keep their results, by the lemmas behind `SealedRoundsFinal`; so a consumer who has had a final answer reads
  the result after the seal whenever it asks again. `SecondAnswersStay` follows.
- `FaucetProofs`: `FaucetInv` says that there is at most one message of success per transaction and none once somebody was told
  (`SuccessOnce`), that a caller waits for a transaction to its own recipient (`OwnTransactions`), that the genesis is known
  before a transaction exists (`GenesisIsKnown`), and that the attempts suffice (`AttemptsLeft`). `PaidOnce` shows by cases that
  each step moves a call or a transaction within `UnderWay` or out of it, once the balance check must fail.

Only model-checked: `CallsReturn`, because liveness under fairness is out of the
prover's reach. `ExpiredRoundsCanBeSealed`, `VaultsBelongToFeeds`, `VotesFindTheirKeys` and `AppealsDelay` are claims that the code does not
keep, which TLC's counterexamples show.

## Not modelled

- Rollback, the scheduling of transactions in parallel and the amounts of fees: hypersdk's. The model executes one
  transaction at a time, a failed one changes nothing, and fees are paid before the balances of the model.
- Queries that are a single read (`Balance`, `FeedInfo`, `BribeInfo`, `Genesis`) and `WaitForBalance`, which polls one of them:
  nothing can come between.
- Registration of actions in the parser: only `Transfer` is registered in `vm.go` (43). The
  handlers are modelled as the unit tests call them, as if they were registered. The rest of the assembly is wiring without state.
- The layout of encodings, except for the bribes that cannot be read back; chunk limits of keys, which hypersdk enforces; the
  parser of genesis files.
- The wallet, scripts, tests and the load generator: no protocol state.
