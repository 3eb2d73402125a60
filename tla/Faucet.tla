------------------------------- MODULE Faucet -------------------------------
(***************************************************************************)
(* The faucet, cmd/faucet/faucet.go: an initial transfer that is retried   *)
(* until it succeeds, then an HTTP server whose requests run concurrently. *)
(* Each of them is a call of transferCoins, and all calls share one        *)
(* websocket client: whoever calls ListenTx next takes the next message,   *)
(* whatever transaction it is about.                                       *)
(*                                                                         *)
(* A transaction is identified by its recipient and by the second in which *)
(* it is generated: two calls that agree on both generate the same one.    *)
(* The amount of a transfer is above the threshold for a transfer, so that *)
(* balances are counted in transfers.                                      *)
(***************************************************************************)
EXTENDS Integers, FiniteSets, Sequences

CONSTANTS
  Requests,       \* the HTTP requests to /faucet/{address}
  Main,           \* the main goroutine, which performs the initial transfer
  Addresses,      \* the addresses requests ask for
  RandomAddress,  \* the address of the initial transfer
  Remotes,        \* the remote addresses requests come from
  Burst,          \* requests a rate limiter lets through at once
  Attempts,       \* attempts of the initial transfer
  MaxSecond,      \* bound: the seconds in which transactions are generated
  Funds,          \* transfers the account of the faucet can pay
  NoTx

Callers    == Requests \cup {Main}
Recipients == Addresses \cup {RandomAddress}
TxIDs      == Recipients \X (0 .. MaxSecond)

ASSUME FaucetAssumption ==
  /\ Main \notin Requests
  /\ RandomAddress \notin Addresses
  /\ NoTx \notin TxIDs /\ Callers \cap TxIDs = {}
  /\ IsFiniteSet(Requests) /\ IsFiniteSet(Addresses)
  /\ Burst \in Nat /\ MaxSecond \in Nat /\ Funds \in Nat
  /\ Attempts \in Nat \ {0}

VARIABLES
  step,       \* where a caller is in transferCoins
  to,         \* the address it asks for
  tx,         \* the transaction it has generated
  reply,      \* what it is told in the end
  failed,     \* attempts of the initial transfer that have failed
  isReady,    \* isReady: the server serves requests
  exited,     \* log.Fatal has ended the process
  genesis,    \* cli.g is set
  tokens,     \* ipLimiters: the requests each one lets through
  second,     \* the current second
  status,     \* what the chain has done with each transaction
  watched,    \* the transactions whose outcome the node is to send
  inbox,      \* messages from the node that no caller has taken
  connected,  \* the websocket is open
  balance,    \* transfers each recipient has received
  funds       \* transfers the faucet can still pay

callvars  == <<step, to, tx, reply, failed, isReady, exited>>
chainvars == <<second, status, watched, balance, funds, connected>>
fvars     == <<callvars, genesis, tokens, inbox, chainvars>>

Steps == {"off", "balance", "parser", "generate", "register", "listen",
          "asleep", "answered"}

\* transferCoins has been called and has not returned.
Calling(p) == step[p] \in {"balance", "parser", "generate", "register", "listen"}

FaucetInit ==
  /\ step = [p \in Callers |-> IF p = Main THEN "balance" ELSE "off"]
  /\ to = [p \in Callers |-> RandomAddress]
  /\ tx = [p \in Callers |-> NoTx]
  /\ reply = [p \in Callers |-> "none"]
  /\ failed = 0
  /\ isReady = FALSE
  /\ exited = FALSE
  /\ genesis = FALSE
  /\ tokens = [c \in Remotes |-> Burst]
  /\ second = 0
  /\ status = [id \in TxIDs |-> "unsent"]
  /\ watched = {}
  /\ inbox = <<>>
  /\ connected = TRUE
  /\ balance = [a \in Recipients |-> 0]
  /\ funds = Funds
-----------------------------------------------------------------------------
\* The next step of a caller.
GoTo(p, s) ==
  /\ step' = [step EXCEPT ![p] = s]
  /\ UNCHANGED <<reply, failed, isReady, exited>>

\* A variant with a mistake: the initial transfer reports readiness whatever
\* came out of it.
ReturnReady(p, answer) ==
  IF p = Main /\ answer = "error"
  THEN /\ failed' = failed + 1
       /\ step' = [step EXCEPT ![p] = "asleep"]
       /\ isReady' = TRUE
       /\ UNCHANGED <<reply, exited>>
  ELSE /\ step' = [step EXCEPT ![p] = "answered"]
       /\ reply' = [reply EXCEPT ![p] = answer]
       /\ isReady' = (isReady \/ p = Main)
       /\ UNCHANGED <<failed, exited>>

\* transferCoins returns.  After an error the initial transfer is repeated,
\* or given up.
Return(p, answer) ==
  IF p = Main /\ answer = "error"
  THEN /\ failed' = failed + 1
       /\ step' = [step EXCEPT ![p] = "asleep"]
       /\ UNCHANGED <<reply, isReady, exited>>
  ELSE /\ step' = [step EXCEPT ![p] = "answered"]
       /\ reply' = [reply EXCEPT ![p] = answer]
       /\ isReady' = (isReady \/ p = Main)
       /\ UNCHANGED <<failed, exited>>

\* A variant with a mistake: one attempt more.
WakeUpOnceMore ==
  /\ step[Main] = "asleep" /\ ~ exited
  /\ IF failed <= Attempts
     THEN GoTo(Main, "balance")
     ELSE exited' = TRUE /\ UNCHANGED <<step, reply, failed, isReady>>
  /\ UNCHANGED <<to, tx, genesis, tokens, inbox, chainvars>>

WakeUp ==
  /\ step[Main] = "asleep" /\ ~ exited
  /\ IF failed < Attempts
     THEN GoTo(Main, "balance")
     ELSE exited' = TRUE /\ UNCHANGED <<step, reply, failed, isReady>>
  /\ UNCHANGED <<to, tx, genesis, tokens, inbox, chainvars>>

\* A request arrives.  The key of its limiter is the address of its
\* connection.
Request(p, c, a) ==
  /\ isReady /\ step[p] = "off" /\ p # Main
  /\ IF tokens[c] > 0
     THEN /\ tokens' = [tokens EXCEPT ![c] = @ - 1]
          /\ to' = [to EXCEPT ![p] = a]
          /\ GoTo(p, "balance")
     ELSE Return(p, "limited") /\ UNCHANGED <<tokens, to>>
  /\ UNCHANGED <<tx, genesis, inbox, chainvars>>

\* A variant with a mistake: the threshold is the amount of a transfer.
ChecksForTwo(p) ==
  /\ step[p] = "balance"
  /\ IF balance[to[p]] > 1 THEN Return(p, "rich") ELSE GoTo(p, "parser")
  /\ UNCHANGED <<to, tx, genesis, tokens, inbox, chainvars>>

CheckBalance(p) ==
  /\ step[p] = "balance"
  /\ IF balance[to[p]] > 0 THEN Return(p, "rich") ELSE GoTo(p, "parser")
  /\ UNCHANGED <<to, tx, genesis, tokens, inbox, chainvars>>

\* The genesis is fetched once and kept.
GetParser(p) ==
  /\ step[p] = "parser"
  /\ genesis' = TRUE
  /\ GoTo(p, "generate")
  /\ UNCHANGED <<to, tx, tokens, inbox, chainvars>>

GenerateTransaction(p) ==
  /\ step[p] = "generate"
  /\ tx' = [tx EXCEPT ![p] = <<to[p], second>>]
  /\ GoTo(p, "register")
  /\ UNCHANGED <<to, genesis, tokens, inbox, chainvars>>

\* The node submits the transaction, unless it knows it already.
RegisterTx(p) ==
  /\ step[p] = "register"
  /\ connected
  /\ status' = [status EXCEPT ![tx[p]] = IF @ = "unsent" THEN "pending" ELSE @]
  /\ watched' = watched \cup {tx[p]}
  /\ GoTo(p, "listen")
  /\ UNCHANGED <<to, tx, genesis, tokens, inbox, second, balance, funds,
                 connected>>

\* A variant with a mistake: the transaction of a message is not looked at.
ConcernsAnybody(m, p) == TRUE

Concerns(m, p) == m.id = tx[p]

\* An error ends the call even if it is about another transaction.
ListenTx(p) ==
  /\ step[p] = "listen"
  /\ inbox # <<>>
  /\ LET m == Head(inbox)
     IN  CASE m.outcome = "error" -> Return(p, "error")
           [] m.outcome # "error" /\ ~ Concerns(m, p) -> GoTo(p, "listen")
           [] m.outcome = "success" /\ Concerns(m, p) -> Return(p, "sent")
           [] m.outcome = "failure" /\ Concerns(m, p) -> Return(p, "error")
  /\ inbox' = Tail(inbox)
  /\ UNCHANGED <<to, tx, genesis, tokens, chainvars>>

\* A variant with a mistake: whoever listens is not told of the deadline.
FailsBeforeListening(p) ==
  /\ Calling(p) /\ step[p] # "listen"
  /\ Return(p, "error")
  /\ UNCHANGED <<to, tx, genesis, tokens, inbox, chainvars>>

\* A step of the call returns an error: an address that cannot be parsed, an
\* RPC, a closed websocket, and at the latest the deadline of 5 seconds.
Fails(p) ==
  /\ Calling(p)
  /\ Return(p, "error")
  /\ UNCHANGED <<to, tx, genesis, tokens, inbox, chainvars>>

TransferCoins(p) ==
  \/ CheckBalance(p) \/ GetParser(p) \/ GenerateTransaction(p)
  \/ RegisterTx(p) \/ ListenTx(p) \/ Fails(p)
-----------------------------------------------------------------------------
(***************************************************************************)
(* The clock, the limiters, the node and the chain.                        *)
(***************************************************************************)
NextSecond ==
  /\ second < MaxSecond
  /\ second' = second + 1
  /\ UNCHANGED <<callvars, genesis, tokens, inbox, status, watched, balance,
                 funds, connected>>

Refill(c) ==
  /\ tokens[c] < Burst
  /\ tokens' = [tokens EXCEPT ![c] = @ + 1]
  /\ UNCHANGED <<callvars, genesis, inbox, chainvars>>

\* The node sends the outcome of a transaction to those who watch it.
Send(id, outcome) ==
  /\ inbox' = IF id \in watched /\ connected
              THEN Append(inbox, [id |-> id, outcome |-> outcome]) ELSE inbox
  /\ watched' = watched \ {id}

ExecuteTx(id) ==
  /\ status[id] = "pending"
  /\ IF funds > 0
     THEN /\ status' = [status EXCEPT ![id] = "executed"]
          /\ balance' = [balance EXCEPT ![id[1]] = @ + 1]
          /\ funds' = funds - 1
          /\ Send(id, "success")
     ELSE /\ status' = [status EXCEPT ![id] = "failed"]
          /\ Send(id, "failure")
          /\ UNCHANGED <<balance, funds>>
  /\ UNCHANGED <<callvars, genesis, tokens, second, connected>>

\* A transaction that is watched for too long.
ExpireTx(id) ==
  /\ id \in watched
  /\ second > id[2]
  /\ status' = [status EXCEPT ![id] = IF @ = "pending" THEN "expired" ELSE @]
  /\ Send(id, "error")
  /\ UNCHANGED <<callvars, genesis, tokens, second, balance, funds, connected>>

\* Nothing opens the websocket again.
Disconnect ==
  /\ connected
  /\ connected' = FALSE
  /\ UNCHANGED <<callvars, genesis, tokens, inbox, second, status, watched,
                 balance, funds>>

Environment ==
  \/ NextSecond \/ Disconnect
  \/ \E c \in Remotes : Refill(c)
  \/ \E id \in TxIDs : ExecuteTx(id) \/ ExpireTx(id)

FaucetNext ==
  \/ \E p \in Requests, c \in Remotes, a \in Addresses : Request(p, c, a)
  \/ \E p \in Callers : TransferCoins(p)
  \/ WakeUp
  \/ Environment

FaucetSpec == FaucetInit /\ [][FaucetNext]_fvars

\* Goroutines are scheduled, the deadline of a call fires and sleeps end.
\* Neither the node nor the chain is trusted with anything.
FairFaucetSpec ==
  /\ FaucetSpec
  /\ \A p \in Callers : WF_fvars(TransferCoins(p))
  /\ WF_fvars(WakeUp)
-----------------------------------------------------------------------------
Outcomes == {"success", "failure", "error"}

\* Type invariant.
FaucetTypeOK ==
  /\ step \in [Callers -> Steps]
  /\ to \in [Callers -> Recipients]
  /\ tx \in [Callers -> TxIDs \cup {NoTx}]
  /\ reply \in [Callers -> {"none", "sent", "rich", "error", "limited"}]
  /\ failed \in 0 .. Attempts
  /\ isReady \in BOOLEAN /\ exited \in BOOLEAN
  /\ genesis \in BOOLEAN /\ connected \in BOOLEAN
  /\ tokens \in [Remotes -> 0 .. Burst]
  /\ second \in 0 .. MaxSecond
  /\ status \in [TxIDs -> {"unsent", "pending", "executed", "failed", "expired"}]
  /\ watched \subseteq TxIDs
  /\ inbox \in Seq([id : TxIDs, outcome : Outcomes])
  /\ balance \in [Recipients -> Nat]
  /\ funds \in Nat

ToldSent(p) == reply[p] = "sent"

\* Who is told "Coins transferred successfully" has been paid, by a transfer
\* of its own: no message about one transaction makes two callers believe
\* that they were paid, although all of them read one stream of messages,
\* may wait for the same transaction and take each other's messages
\* (faucet.go 122-147).
AnswersAreBacked ==
  \A p \in Callers : ToldSent(p) =>
    /\ tx[p][1] = to[p] /\ status[tx[p]] = "executed"
    /\ \A q \in Callers \ {p} : ToldSent(q) => tx[q] # tx[p]

\* The server says that it is ready, and lets requests in, only after a
\* transfer has been executed, also when the answer to it was lost and a
\* later attempt finds the balance (faucet.go 96-103, 213-223); and then the
\* genesis is cached, so that the concurrent requests never write the client
\* they share, which has no lock (client.go 38-55).
ReadinessIsEarned ==
  isReady => balance[RandomAddress] > 0 /\ genesis

\* The transfers to an address that are decided on and not over yet.
UnderWay(a) ==
  {p \in Callers : to[p] = a /\ step[p] \in {"parser", "generate", "register"}}
    \cup {id \in TxIDs : id[1] = a /\ status[id] = "pending"}

\* The balance that is checked is stale when the transfer is executed, so an
\* address can be paid by several calls and by several attempts; but only by
\* transfers that were under way when the first one was executed.  From then
\* on their number only falls, whatever is retried (faucet.go 92-103).
NoTransfersOncePaid ==
  [][\A a \in Recipients : balance[a] > 0 =>
       Cardinality(UnderWay(a)') <= Cardinality(UnderWay(a))]_fvars

\* Every request that got past its limiter is answered and the initial
\* transfer comes to an end, even if the node never sends anything, messages
\* are taken by others or the websocket is closed (faucet.go 80, 124-141).
CallsReturn ==
  /\ \A p \in Requests : Calling(p) ~> step[p] = "answered"
  /\ <>(isReady \/ exited)
=============================================================================
