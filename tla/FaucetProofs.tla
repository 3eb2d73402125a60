---------------------------- MODULE FaucetProofs ----------------------------
(***************************************************************************)
(* What holds of the faucet for any number of concurrent requests, any     *)
(* limits and any behaviour of the node.                                   *)
(***************************************************************************)
EXTENDS Faucet, FiniteSetTheorems, SequenceTheorems, TLAPS

Messages == [id : TxIDs, outcome : Outcomes]

\* Message i of the inbox says that id has succeeded.
IsSuccess(i, id) == inbox[i].outcome = "success" /\ inbox[i].id = id

\* Attempts are left while the initial transfer is made.
AttemptsLeft ==
  /\ to[Main] = RandomAddress
  /\ Calling(Main) => failed < Attempts

\* The genesis is known to whoever has passed GetParser, so it is there when
\* any transaction has been generated; an executed one has been paid.
GenesisIsKnown ==
  /\ \A p \in Callers :
       step[p] \in {"generate", "register", "listen"} => genesis
  /\ \A id \in TxIDs :
       /\ status[id] # "unsent" => genesis
       /\ status[id] = "executed" => balance[id[1]] > 0
  /\ \A a \in Recipients : balance[a] > 0 => genesis
  /\ isReady => balance[RandomAddress] > 0

\* A caller waits for a transaction to its own recipient.
OwnTransactions ==
  \A p \in Callers :
    /\ step[p] \in {"register", "listen"} \/ ToldSent(p) =>
         tx[p] \in TxIDs /\ tx[p][1] = to[p]
    /\ reply[p] # "none" => step[p] = "answered"

\* There is at most one message of success for a transaction, and it is gone
\* when somebody has been told so.
SuccessOnce ==
  /\ \A i \in DOMAIN inbox, id \in TxIDs :
       IsSuccess(i, id) =>
         /\ status[id] = "executed"
         /\ \A j \in DOMAIN inbox : IsSuccess(j, id) => i = j
         /\ \A p \in Callers : ToldSent(p) => tx[p] # id
  /\ \A p \in Callers : ToldSent(p) =>
       /\ status[tx[p]] = "executed"
       /\ \A q \in Callers \ {p} : ToldSent(q) => tx[q] # tx[p]

\* The inductive invariant.
FaucetInv ==
  FaucetTypeOK /\ AttemptsLeft /\ GenesisIsKnown /\ OwnTransactions /\ SuccessOnce
-----------------------------------------------------------------------------
\* Constants that are not equal.
LEMMA DistinctConstants ==
  /\ Main \in Callers /\ RandomAddress \in Recipients
  /\ \A p \in Requests : p # Main /\ p \in Callers
  /\ \A id \in TxIDs : id[1] \in Recipients /\ id[2] \in 0 .. MaxSecond
BY FaucetAssumption DEF Callers, Recipients, TxIDs

\* Taking a message moves the others one place up.
LEMMA TakeMessage ==
  ASSUME FaucetTypeOK, inbox # <<>>, inbox' = Tail(inbox)
  PROVE  /\ Head(inbox) \in Messages /\ Head(inbox) = inbox[1]
         /\ 1 \in DOMAIN inbox
         /\ inbox' \in Seq(Messages)
         /\ \A i \in DOMAIN inbox' :
              /\ i \in Nat /\ i + 1 # 1
              /\ i + 1 \in DOMAIN inbox /\ inbox'[i] = inbox[i + 1]
<1>1. inbox \in Seq(Messages)
  BY DEF FaucetTypeOK, Messages
<1>2. /\ Head(inbox) \in Messages
      /\ Tail(inbox) \in Seq(Messages)
      /\ Len(Tail(inbox)) = Len(inbox) - 1
      /\ \A i \in 1 .. Len(Tail(inbox)) : Tail(inbox)[i] = inbox[i + 1]
  BY <1>1, HeadTailProperties
<1>3. /\ Len(inbox) \in Nat \ {0} /\ DOMAIN inbox = 1 .. Len(inbox)
      /\ DOMAIN Tail(inbox) = 1 .. Len(Tail(inbox))
  BY <1>1, <1>2, EmptySeq, LenProperties
<1>4. Head(inbox) = inbox[1]
  BY <1>1
<1> QED
  BY <1>2, <1>3, <1>4

\* Sending a message adds it to the inbox, at the end, or changes nothing.
LEMMA SendMessage ==
  ASSUME FaucetTypeOK, NEW id \in TxIDs, NEW o \in Outcomes, Send(id, o)
  PROVE  /\ inbox' \in Seq(Messages)
         /\ watched' \subseteq TxIDs
         /\ \/ inbox' = inbox
            \/ \E n \in Nat :
                 /\ DOMAIN inbox' = DOMAIN inbox \cup {n} /\ n \notin DOMAIN inbox
                 /\ inbox'[n] = [id |-> id, outcome |-> o]
                 /\ \A i \in DOMAIN inbox : inbox'[i] = inbox[i]
<1> DEFINE m == [id |-> id, outcome |-> o]
<1>1. inbox \in Seq(Messages) /\ m \in Messages
  BY DEF FaucetTypeOK, Messages
<1>2. Len(inbox) \in Nat /\ DOMAIN inbox = 1 .. Len(inbox)
  BY <1>1, LenProperties
<1>3. watched' \subseteq TxIDs
  BY DEF Send, FaucetTypeOK
<1>4. inbox' = inbox \/ inbox' = Append(inbox, m)
  BY DEF Send
<1>5. CASE inbox' = Append(inbox, m)
  <2> HIDE DEF m
  <2>1. /\ Append(inbox, m) \in Seq(Messages)
        /\ Len(Append(inbox, m)) = Len(inbox) + 1
        /\ \A i \in 1 .. Len(inbox) : Append(inbox, m)[i] = inbox[i]
        /\ Append(inbox, m)[Len(inbox) + 1] = m
    BY <1>1, AppendProperties
  <2>2. DOMAIN inbox' = 1 .. Len(inbox) + 1
    BY <1>5, <2>1, LenProperties
  <2>3. /\ Len(inbox) + 1 \in Nat
        /\ DOMAIN inbox' = DOMAIN inbox \cup {Len(inbox) + 1}
        /\ Len(inbox) + 1 \notin DOMAIN inbox
    BY <1>2, <2>2
  <2>4. inbox'[Len(inbox) + 1] = m /\ \A i \in DOMAIN inbox : inbox'[i] = inbox[i]
    BY <1>2, <1>5, <2>1
  <2>5. m = [id |-> id, outcome |-> o]
    BY DEF m
  <2> QED
    BY <1>3, <1>5, <2>1, <2>3, <2>4, <2>5
<1> QED
  BY <1>1, <1>3, <1>4, <1>5

\* The inductive invariant holds at the start.
LEMMA InitFaucetInv == FaucetInit => FaucetInv
<1> SUFFICES ASSUME FaucetInit PROVE FaucetInv
  OBVIOUS
<1>1. FaucetTypeOK
  <2>1. /\ step \in [Callers -> Steps]
        /\ to \in [Callers -> Recipients]
        /\ tx \in [Callers -> TxIDs \cup {NoTx}]
        /\ reply \in [Callers -> {"none", "sent", "rich", "error", "limited"}]
    BY DistinctConstants DEF FaucetInit, Steps
  <2>2. /\ failed \in 0 .. Attempts /\ second \in 0 .. MaxSecond
        /\ funds \in Nat
        /\ tokens \in [Remotes -> 0 .. Burst]
    BY FaucetAssumption DEF FaucetInit
  <2>3. /\ status \in [TxIDs -> {"unsent", "pending", "executed", "failed", "expired"}]
        /\ watched \subseteq TxIDs
        /\ balance \in [Recipients -> Nat]
    BY DEF FaucetInit
  <2>4. inbox \in Seq([id : TxIDs, outcome : Outcomes])
    BY DEF FaucetInit
  <2>5. /\ isReady \in BOOLEAN /\ exited \in BOOLEAN
        /\ genesis \in BOOLEAN /\ connected \in BOOLEAN
    BY DEF FaucetInit
  <2> QED
    BY <2>1, <2>2, <2>3, <2>4, <2>5 DEF FaucetTypeOK
<1>2. AttemptsLeft
  BY FaucetAssumption, DistinctConstants DEF FaucetInit, AttemptsLeft
<1>3. GenesisIsKnown
  BY DistinctConstants DEF FaucetInit, GenesisIsKnown
<1>4. OwnTransactions /\ SuccessOnce
  BY DEF FaucetInit, OwnTransactions, SuccessOnce, ToldSent
<1> QED
  BY <1>1, <1>2, <1>3, <1>4 DEF FaucetInv

\* A caller goes on.
LEMMA GoToType ==
  ASSUME FaucetTypeOK, NEW p \in Callers, NEW s \in Steps, GoTo(p, s)
  PROVE  /\ step' \in [Callers -> Steps]
         /\ reply' \in [Callers -> {"none", "sent", "rich", "error", "limited"}]
         /\ failed' \in 0 .. Attempts
         /\ isReady' \in BOOLEAN /\ exited' \in BOOLEAN
BY DEF FaucetTypeOK, GoTo

\* A caller returns.
LEMMA ReturnType ==
  ASSUME FaucetTypeOK, NEW p \in Callers,
         NEW a \in {"sent", "rich", "error", "limited"}, Return(p, a),
         p = Main => failed < Attempts
  PROVE  /\ step' \in [Callers -> Steps]
         /\ reply' \in [Callers -> {"none", "sent", "rich", "error", "limited"}]
         /\ failed' \in 0 .. Attempts
         /\ isReady' \in BOOLEAN /\ exited' \in BOOLEAN
<1>1. CASE p = Main /\ a = "error"
  <2>1. failed \in 0 .. Attempts /\ failed < Attempts /\ Attempts \in Nat
    BY <1>1, FaucetAssumption DEF FaucetTypeOK
  <2>2. failed + 1 \in 0 .. Attempts
    BY <2>1
  <2> QED
    BY <1>1, <2>2 DEF FaucetTypeOK, Return, Steps
<1>2. CASE ~ (p = Main /\ a = "error")
  BY <1>2 DEF FaucetTypeOK, Return, Steps
<1> QED
  BY <1>1, <1>2

\* A step of a call in a few words: nothing but what GoTo and Return change.
LEMMA CallEffect ==
  ASSUME FaucetInv, NEW p \in Callers,
         TransferCoins(p) \/ (\E c \in Remotes, a \in Addresses : Request(p, c, a))
  PROVE  /\ step[p] # "answered"
         /\ \/ \E s \in Steps : GoTo(p, s)
            \/ \E a \in {"sent", "rich", "error", "limited"} :
                 Return(p, a) /\ (p = Main => failed < Attempts)
<1>1. p = Main /\ Calling(p) => failed < Attempts
  BY DEF FaucetInv, AttemptsLeft
<1>2. CASE \E c \in Remotes, a \in Addresses : Request(p, c, a)
  BY <1>2 DEF Request, Steps
<1>3. CASE CheckBalance(p) \/ GetParser(p) \/ GenerateTransaction(p) \/ RegisterTx(p)
  BY <1>1, <1>3 DEF CheckBalance, GetParser, GenerateTransaction, RegisterTx,
                    Calling, Steps
<1>4. CASE ListenTx(p)
  <2>1. Head(inbox).outcome \in {"success", "failure", "error"}
    BY <1>4, TakeMessage DEF ListenTx, FaucetInv, Messages, Outcomes
  <2>2. \/ Return(p, "error") \/ Return(p, "sent") \/ GoTo(p, "listen")
    BY <1>4, <2>1 DEF ListenTx
  <2> QED
    BY <1>1, <1>4, <2>2 DEF ListenTx, Calling, Steps
<1>5. CASE Fails(p)
  BY <1>1, <1>5 DEF Fails, Calling
<1> QED
  BY <1>2, <1>3, <1>4, <1>5 DEF TransferCoins

\* Types are preserved.
LEMMA NextFaucetType ==
  ASSUME FaucetInv, [FaucetNext]_fvars
  PROVE  FaucetTypeOK'
<1> USE DEF FaucetInv
<1>1. ASSUME NEW p \in Callers,
             TransferCoins(p) \/ (\E c \in Remotes, a \in Addresses : Request(p, c, a))
      PROVE  FaucetTypeOK'
  <2>1. /\ step' \in [Callers -> Steps]
        /\ reply' \in [Callers -> {"none", "sent", "rich", "error", "limited"}]
        /\ failed' \in 0 .. Attempts
        /\ isReady' \in BOOLEAN /\ exited' \in BOOLEAN
    BY <1>1, CallEffect, GoToType, ReturnType
  <2>2. CASE \E c \in Remotes, a \in Addresses : Request(p, c, a)
    <3>1. PICK c \in Remotes, a \in Addresses : Request(p, c, a)
      BY <2>2
    <3>2. to' \in [Callers -> Recipients]
      BY <3>1 DEF Request, FaucetTypeOK, Recipients
    <3>3. tokens' \in [Remotes -> 0 .. Burst]
      <4>1. tokens[c] \in 0 .. Burst /\ Burst \in Nat
        BY FaucetAssumption DEF FaucetTypeOK
      <4>2. tokens[c] > 0 => tokens[c] - 1 \in 0 .. Burst
        BY <4>1
      <4>3. tokens' = tokens \/ (tokens[c] > 0 /\ tokens' = [tokens EXCEPT ![c] = @ - 1])
        BY <3>1 DEF Request
      <4> QED
        BY <4>2, <4>3 DEF FaucetTypeOK
    <3> QED
      BY <2>1, <3>1, <3>2, <3>3 DEF Request, FaucetTypeOK, chainvars
  <2>3. CASE CheckBalance(p) \/ GetParser(p) \/ Fails(p)
    BY <2>1, <2>3 DEF CheckBalance, GetParser, Fails, FaucetTypeOK, chainvars
  <2>4. CASE GenerateTransaction(p)
    BY <2>1, <2>4 DEF GenerateTransaction, FaucetTypeOK, chainvars, TxIDs
  <2>5. CASE RegisterTx(p)
    <3>1. tx[p] \in TxIDs
      BY <2>5 DEF RegisterTx, OwnTransactions
    <3> QED
      BY <2>1, <2>5, <3>1 DEF RegisterTx, FaucetTypeOK
  <2>6. CASE ListenTx(p)
    <3>1. inbox' \in Seq([id : TxIDs, outcome : Outcomes])
      BY <2>6, TakeMessage DEF ListenTx, Messages
    <3> QED
      BY <2>1, <2>6, <3>1 DEF ListenTx, FaucetTypeOK, chainvars
  <2> QED
    BY <1>1, <2>2, <2>3, <2>4, <2>5, <2>6 DEF TransferCoins
<1>2. CASE WakeUp
  BY <1>2, GoToType, DistinctConstants
     DEF WakeUp, FaucetTypeOK, chainvars, Steps
<1>3. CASE NextSecond
  BY <1>3, FaucetAssumption DEF NextSecond, FaucetTypeOK, callvars
<1>4. CASE Disconnect
  BY <1>4 DEF Disconnect, FaucetTypeOK, callvars
<1>5. ASSUME NEW c \in Remotes, Refill(c) PROVE FaucetTypeOK'
  <2>1. tokens[c] \in 0 .. Burst /\ Burst \in Nat /\ tokens[c] < Burst
    BY <1>5, FaucetAssumption DEF Refill, FaucetTypeOK
  <2>2. tokens[c] + 1 \in 0 .. Burst
    BY <2>1
  <2>3. tokens' \in [Remotes -> 0 .. Burst]
    BY <1>5, <2>2 DEF Refill, FaucetTypeOK
  <2> QED
    BY <1>5, <2>3 DEF Refill, FaucetTypeOK, callvars, chainvars
<1>6. ASSUME NEW id \in TxIDs, NEW o \in Outcomes, Send(id, o)
      PROVE  /\ inbox' \in Seq([id : TxIDs, outcome : Outcomes])
             /\ watched' \subseteq TxIDs
  BY <1>6, SendMessage DEF Messages
<1>7. ASSUME NEW id \in TxIDs, ExecuteTx(id) PROVE FaucetTypeOK'
  <2>1. /\ inbox' \in Seq([id : TxIDs, outcome : Outcomes])
        /\ watched' \subseteq TxIDs
    BY <1>6, <1>7 DEF ExecuteTx, Outcomes
  <2>2. status' \in [TxIDs -> {"unsent", "pending", "executed", "failed", "expired"}]
    BY <1>7 DEF ExecuteTx, FaucetTypeOK
  <2>3. balance' \in [Recipients -> Nat]
    <3>1. balance' = balance \/ balance' = [balance EXCEPT ![id[1]] = @ + 1]
      BY <1>7 DEF ExecuteTx
    <3>2. id[1] \in Recipients /\ balance \in [Recipients -> Nat]
      BY DistinctConstants DEF FaucetTypeOK
    <3>3. balance[id[1]] + 1 \in Nat
      BY <3>2
    <3> QED
      BY <3>1, <3>2, <3>3
  <2>4. funds' \in Nat
    BY <1>7 DEF ExecuteTx, FaucetTypeOK
  <2> QED
    BY <1>7, <2>1, <2>2, <2>3, <2>4 DEF ExecuteTx, FaucetTypeOK, callvars
<1>8. ASSUME NEW id \in TxIDs, ExpireTx(id) PROVE FaucetTypeOK'
  <2>1. /\ inbox' \in Seq([id : TxIDs, outcome : Outcomes])
        /\ watched' \subseteq TxIDs
    BY <1>6, <1>8 DEF ExpireTx, Outcomes
  <2> QED
    BY <1>8, <2>1 DEF ExpireTx, FaucetTypeOK, callvars
<1>9. CASE UNCHANGED fvars
  BY <1>9 DEF fvars, callvars, chainvars, FaucetTypeOK
<1> QED
  BY <1>1, <1>2, <1>3, <1>4, <1>5, <1>7, <1>8, <1>9, DistinctConstants
     DEF FaucetNext, Environment
-----------------------------------------------------------------------------
\* The steps by which a caller proceeds, and those of the others.
IsCallStep(p) ==
  TransferCoins(p) \/ \E c \in Remotes, a \in Addresses : Request(p, c, a)

\* Every step is one of a call, the wake-up, an outcome on the chain, or one
\* that moves only the clock, the websocket or the limiters.
LEMMA StepCases ==
  ASSUME [FaucetNext]_fvars
  PROVE  \/ \E p \in Callers : IsCallStep(p)
         \/ WakeUp
         \/ \E id \in TxIDs : ExecuteTx(id) \/ ExpireTx(id)
         \/ UNCHANGED <<callvars, genesis, inbox, status, watched, balance>>
<1>1. CASE NextSecond \/ Disconnect \/ \E c \in Remotes : Refill(c)
  BY <1>1 DEF NextSecond, Disconnect, Refill, chainvars
<1>2. CASE UNCHANGED fvars
  BY <1>2 DEF fvars, chainvars
<1> QED
  BY <1>1, <1>2, DistinctConstants DEF FaucetNext, Environment, IsCallStep

\* The initial transfer is retried only while attempts are left.
LEMMA NextAttemptsLeft ==
  ASSUME FaucetInv, [FaucetNext]_fvars
  PROVE  AttemptsLeft'
<1> USE DEF FaucetInv
<1>1. failed \in 0 .. Attempts /\ step \in [Callers -> Steps] /\ Main \in Callers
  BY DistinctConstants DEF FaucetTypeOK
<1>2. ASSUME NEW p \in Callers, IsCallStep(p) PROVE AttemptsLeft'
  <2>1. to'[Main] = RandomAddress
    BY <1>2, DistinctConstants
       DEF IsCallStep, TransferCoins, CheckBalance, GetParser,
           GenerateTransaction, RegisterTx, ListenTx, Fails, Request,
           AttemptsLeft, FaucetTypeOK
  <2>2. CASE \E s \in Steps : GoTo(p, s)
    <3>1. p = Main => Calling(Main)
      <4>1. ~ \E c \in Remotes, a \in Addresses : Request(Main, c, a)
        BY DEF Request
      <4> QED
        BY <1>2, <4>1 DEF IsCallStep, TransferCoins, CheckBalance, GetParser,
                          GenerateTransaction, RegisterTx, ListenTx, Fails,
                          Calling
    <3> QED
      BY <1>1, <2>1, <2>2, <3>1 DEF GoTo, AttemptsLeft, Calling
  <2>3. CASE \E a \in {"sent", "rich", "error", "limited"} : Return(p, a)
    <3>1. CASE p = Main
      <4>1. step'[Main] \in {"asleep", "answered"}
        BY <1>1, <2>3, <3>1 DEF Return
      <4> QED
        BY <2>1, <4>1 DEF AttemptsLeft, Calling
    <3>2. CASE p # Main
      BY <1>1, <2>1, <2>3, <3>2 DEF Return, AttemptsLeft, Calling
    <3> QED
      BY <3>1, <3>2
  <2> QED
    BY <1>2, <2>2, <2>3, CallEffect DEF IsCallStep
<1>3. CASE WakeUp
  BY <1>1, <1>3 DEF WakeUp, GoTo, AttemptsLeft, Calling
<1>4. CASE \E id \in TxIDs : ExecuteTx(id) \/ ExpireTx(id)
  BY <1>4 DEF ExecuteTx, ExpireTx, callvars, AttemptsLeft, Calling
<1>5. CASE UNCHANGED <<callvars, genesis, inbox, status, watched, balance>>
  BY <1>5 DEF callvars, AttemptsLeft, Calling
<1> QED
  BY <1>2, <1>3, <1>4, <1>5, StepCases

\* Who waits for a transaction waits for its own, and answers come last.
LEMMA NextOwnTransactions ==
  ASSUME FaucetInv, [FaucetNext]_fvars
  PROVE  OwnTransactions'
<1> USE DEF FaucetInv
<1>1. /\ step \in [Callers -> Steps] /\ to \in [Callers -> Recipients]
      /\ tx \in [Callers -> TxIDs \cup {NoTx}]
      /\ reply \in [Callers -> {"none", "sent", "rich", "error", "limited"}]
      /\ second \in 0 .. MaxSecond
  BY DEF FaucetTypeOK
<1>2. ASSUME NEW p \in Callers, IsCallStep(p) PROVE OwnTransactions'
  <2>1. reply[p] = "none"
    BY <1>2, CallEffect DEF IsCallStep, OwnTransactions
  <2>2. CASE \E c \in Remotes, a \in Addresses : Request(p, c, a)
    BY <1>1, <2>1, <2>2
       DEF Request, GoTo, Return, OwnTransactions, ToldSent
  <2>3. CASE CheckBalance(p) \/ GetParser(p) \/ Fails(p)
    BY <1>1, <2>1, <2>3
       DEF CheckBalance, GetParser, Fails, GoTo, Return, OwnTransactions, ToldSent
  <2>4. CASE GenerateTransaction(p)
    BY <1>1, <2>1, <2>4
       DEF GenerateTransaction, GoTo, OwnTransactions, ToldSent, TxIDs
  <2>5. CASE RegisterTx(p)
    BY <1>1, <2>1, <2>5 DEF RegisterTx, GoTo, OwnTransactions, ToldSent
  <2>6. CASE ListenTx(p)
    <3>1. Head(inbox).outcome \in {"success", "failure", "error"}
      BY <2>6, TakeMessage DEF ListenTx, Messages, Outcomes
    <3>2. \/ Return(p, "error") \/ Return(p, "sent") \/ GoTo(p, "listen")
      BY <2>6, <3>1 DEF ListenTx
    <3>3. step[p] = "listen" /\ UNCHANGED <<to, tx>>
      BY <2>6 DEF ListenTx
    <3> QED
      BY <1>1, <2>1, <3>2, <3>3 DEF GoTo, Return, OwnTransactions, ToldSent
  <2> QED
    BY <1>2, <2>2, <2>3, <2>4, <2>5, <2>6 DEF IsCallStep, TransferCoins
<1>3. CASE WakeUp
  BY <1>1, <1>3, DistinctConstants DEF WakeUp, GoTo, OwnTransactions, ToldSent
<1>4. CASE \E id \in TxIDs : ExecuteTx(id) \/ ExpireTx(id)
  BY <1>4 DEF ExecuteTx, ExpireTx, callvars, OwnTransactions, ToldSent
<1>5. CASE UNCHANGED <<callvars, genesis, inbox, status, watched, balance>>
  BY <1>5 DEF callvars, OwnTransactions, ToldSent
<1> QED
  BY <1>2, <1>3, <1>4, <1>5, StepCases

\* Whoever is told of success holds the message of success for its own
\* transaction, which has been executed.
LEMMA ToldByMessage ==
  ASSUME FaucetInv, NEW p \in Callers, ListenTx(p)
  PROVE  \/ Return(p, "error")
         \/ GoTo(p, "listen")
         \/ Return(p, "sent") /\ IsSuccess(1, tx[p]) /\ tx[p] \in TxIDs
              /\ tx[p][1] = to[p] /\ status[tx[p]] = "executed"
<1>1. /\ Head(inbox) \in Messages /\ Head(inbox) = inbox[1] /\ 1 \in DOMAIN inbox
  BY TakeMessage DEF ListenTx, FaucetInv
<1>2. tx[p] \in TxIDs /\ tx[p][1] = to[p]
  BY DEF ListenTx, FaucetInv, OwnTransactions
<1>3. Head(inbox).outcome \in {"success", "failure", "error"}
  BY <1>1 DEF Messages, Outcomes
<1>4. CASE Head(inbox).outcome = "success" /\ Concerns(Head(inbox), p)
  <2>1. IsSuccess(1, tx[p])
    BY <1>1, <1>4 DEF IsSuccess, Concerns
  <2>2. status[tx[p]] = "executed"
    BY <1>1, <1>2, <2>1 DEF FaucetInv, SuccessOnce
  <2>3. Return(p, "sent")
    BY <1>4 DEF ListenTx
  <2> QED
    BY <1>2, <2>1, <2>2, <2>3
<1>5. CASE ~ (Head(inbox).outcome = "success" /\ Concerns(Head(inbox), p))
  BY <1>3, <1>5 DEF ListenTx
<1> QED
  BY <1>4, <1>5

\* The genesis is fetched before a transaction is generated, and a success
\* of the initial transfer has been paid.
LEMMA NextGenesisIsKnown ==
  ASSUME FaucetInv, [FaucetNext]_fvars
  PROVE  GenesisIsKnown'
<1> USE DEF FaucetInv
<1>1. /\ step \in [Callers -> Steps] /\ genesis \in BOOLEAN
      /\ status \in [TxIDs -> {"unsent", "pending", "executed", "failed", "expired"}]
      /\ balance \in [Recipients -> Nat]
      /\ RandomAddress \in Recipients
  BY DistinctConstants DEF FaucetTypeOK
<1>2. ASSUME NEW p \in Callers, IsCallStep(p) PROVE GenesisIsKnown'
  <2>1. p = Main => to[p] = RandomAddress
    BY DEF AttemptsLeft
  <2>2. CASE \E c \in Remotes, a \in Addresses : Request(p, c, a)
    BY <1>1, <2>2 DEF Request, GoTo, Return, GenesisIsKnown, chainvars
  <2>3. CASE CheckBalance(p)
    BY <1>1, <2>1, <2>3 DEF CheckBalance, GoTo, Return, GenesisIsKnown, chainvars
  <2>4. CASE GetParser(p)
    BY <1>1, <2>4 DEF GetParser, GoTo, GenesisIsKnown, chainvars
  <2>5. CASE GenerateTransaction(p)
    BY <1>1, <2>5 DEF GenerateTransaction, GoTo, GenesisIsKnown, chainvars
  <2>6. CASE RegisterTx(p)
    <3>1. genesis /\ tx[p] \in TxIDs
      BY <2>6 DEF RegisterTx, GenesisIsKnown, OwnTransactions
    <3> QED
      BY <1>1, <2>6, <3>1 DEF RegisterTx, GoTo, GenesisIsKnown
  <2>7. CASE ListenTx(p)
    <3>1. /\ step[p] = "listen"
          /\ UNCHANGED <<genesis, status, balance>>
      BY <2>7 DEF ListenTx, chainvars
    <3>2. CASE Return(p, "error")
      <4>1. isReady' = isReady
        BY <3>2 DEF Return, FaucetTypeOK
      <4> QED
        BY <1>1, <3>1, <3>2, <4>1 DEF Return, GenesisIsKnown
    <3>4. CASE GoTo(p, "listen")
      BY <1>1, <3>1, <3>4 DEF GoTo, GenesisIsKnown
    <3>3. CASE Return(p, "sent") /\ tx[p] \in TxIDs /\ tx[p][1] = to[p]
                 /\ status[tx[p]] = "executed"
      <4>1. balance[to[p]] > 0
        BY <3>3 DEF GenesisIsKnown
      <4> QED
        BY <1>1, <2>1, <3>1, <3>3, <4>1 DEF Return, GenesisIsKnown
    <3> QED
      BY <2>7, <3>2, <3>3, <3>4, ToldByMessage
  <2>8. CASE Fails(p)
    BY <1>1, <2>8 DEF Fails, Return, GenesisIsKnown, chainvars
  <2> QED
    BY <1>2, <2>2, <2>3, <2>4, <2>5, <2>6, <2>7, <2>8 DEF IsCallStep, TransferCoins
<1>3. CASE WakeUp
  BY <1>1, <1>3, DistinctConstants DEF WakeUp, GoTo, GenesisIsKnown, chainvars
<1>4. ASSUME NEW id \in TxIDs, ExecuteTx(id) PROVE GenesisIsKnown'
  <2>1. genesis /\ id[1] \in Recipients /\ UNCHANGED <<step, genesis, isReady>>
    BY <1>4, DistinctConstants DEF ExecuteTx, GenesisIsKnown, callvars
  <2>2. \A a \in Recipients : /\ balance[a] \in Nat
                              /\ balance[a] > 0 => balance'[a] > 0
    <3> DEFINE a == id[1]
    <3>1. balance' = balance \/ balance' = [balance EXCEPT ![a] = @ + 1]
      BY <1>4 DEF ExecuteTx
    <3>2. a \in Recipients
      BY <2>1
    <3> HIDE DEF a
    <3>3. balance[a] \in Nat /\ balance[a] + 1 > 0
      BY <1>1, <3>2
    <3> QED
      BY <1>1, <3>1, <3>2, <3>3
  <2>3. \A i \in TxIDs : status'[i] = "executed" => balance'[i[1]] > 0
    <3>1. CASE funds > 0
      <4>1. /\ status' = [status EXCEPT ![id] = "executed"]
            /\ balance' = [balance EXCEPT ![id[1]] = @ + 1]
        BY <1>4, <3>1 DEF ExecuteTx
      <4>2. balance'[id[1]] > 0
        BY <1>1, <2>1, <4>1
      <4> QED
        BY <1>1, <2>2, <4>1, <4>2, DistinctConstants DEF GenesisIsKnown
    <3>2. CASE ~ (funds > 0)
      BY <1>1, <1>4, <3>2 DEF ExecuteTx, GenesisIsKnown
    <3> QED
      BY <3>1, <3>2
  <2> QED
    BY <1>1, <2>1, <2>2, <2>3 DEF GenesisIsKnown
<1>5. ASSUME NEW id \in TxIDs, ExpireTx(id) PROVE GenesisIsKnown'
  BY <1>1, <1>5 DEF ExpireTx, GenesisIsKnown, callvars
<1>6. CASE UNCHANGED <<callvars, genesis, inbox, status, watched, balance>>
  BY <1>6 DEF callvars, GenesisIsKnown
<1> QED
  BY <1>2, <1>3, <1>4, <1>5, <1>6, StepCases

\* While nobody is told of success and no message is taken or sent, the
\* messages stay what they are.
LEMMA NothingTold ==
  ASSUME FaucetInv, inbox' = inbox,
         \A p \in Callers : ToldSent(p)' => ToldSent(p) /\ tx'[p] = tx[p],
         \A id \in TxIDs : status[id] = "executed" => status'[id] = "executed"
  PROVE  SuccessOnce'
<1>1. \A p \in Callers : ToldSent(p) => tx[p] \in TxIDs
  BY DEF FaucetInv, OwnTransactions
<1> QED
  BY <1>1 DEF FaucetInv, SuccessOnce, IsSuccess

\* A message is sent that is no success of a transaction that had succeeded
\* before.
LEMMA MessageSent ==
  ASSUME FaucetInv, NEW id \in TxIDs, NEW o \in Outcomes, Send(id, o),
         UNCHANGED <<reply, tx>>,
         o = "success" => status[id] # "executed" /\ status'[id] = "executed",
         \A i \in TxIDs : status[i] = "executed" => status'[i] = "executed"
  PROVE  SuccessOnce'
<1>1. CASE inbox' = inbox
  BY <1>1, NothingTold DEF ToldSent
<1>2. CASE \E n \in Nat :
             /\ DOMAIN inbox' = DOMAIN inbox \cup {n} /\ n \notin DOMAIN inbox
             /\ inbox'[n] = [id |-> id, outcome |-> o]
             /\ \A i \in DOMAIN inbox : inbox'[i] = inbox[i]
  <2>1. PICK n \in Nat :
          /\ DOMAIN inbox' = DOMAIN inbox \cup {n} /\ n \notin DOMAIN inbox
          /\ inbox'[n] = [id |-> id, outcome |-> o]
          /\ \A i \in DOMAIN inbox : inbox'[i] = inbox[i]
    BY <1>2
  <2>2. \A i \in TxIDs : IsSuccess(n, i)' => i = id /\ o = "success"
    BY <2>1 DEF IsSuccess
  <2>3. \A j \in DOMAIN inbox, i \in TxIDs : IsSuccess(j, i)' <=> IsSuccess(j, i)
    BY <2>1 DEF IsSuccess
  <2>4. \A p \in Callers : ToldSent(p) =>
          tx[p] \in TxIDs /\ status[tx[p]] = "executed"
    BY DEF FaucetInv, OwnTransactions, SuccessOnce
  <2>5. ASSUME NEW j \in DOMAIN inbox', NEW i \in TxIDs, IsSuccess(j, i)'
        PROVE  /\ status'[i] = "executed"
               /\ \A k \in DOMAIN inbox' : IsSuccess(k, i)' => j = k
               /\ \A p \in Callers : ToldSent(p)' => tx'[p] # i
    <3>1. CASE j = n
      <4>1. i = id /\ o = "success" /\ status[id] # "executed"
        BY <2>2, <2>5, <3>1
      <4>2. \A k \in DOMAIN inbox : ~ IsSuccess(k, i)
        BY <4>1 DEF FaucetInv, SuccessOnce
      <4>3. \A p \in Callers : ToldSent(p) => tx[p] # i
        BY <2>4, <4>1
      <4> QED
        BY <2>1, <2>3, <3>1, <4>1, <4>2, <4>3 DEF ToldSent
    <3>2. CASE j \in DOMAIN inbox
      <4>1. /\ IsSuccess(j, i) /\ status[i] = "executed"
            /\ \A k \in DOMAIN inbox : IsSuccess(k, i) => j = k
            /\ \A p \in Callers : ToldSent(p) => tx[p] # i
        BY <2>3, <2>5, <3>2 DEF FaucetInv, SuccessOnce
      <4>2. ~ IsSuccess(n, i)'
        BY <2>2, <4>1
      <4> QED
        BY <2>1, <2>3, <4>1, <4>2 DEF ToldSent
    <3> QED
      BY <2>1, <3>1, <3>2
  <2>6. \A p \in Callers : ToldSent(p)' =>
          /\ status'[tx'[p]] = "executed"
          /\ \A q \in Callers \ {p} : ToldSent(q)' => tx'[q] # tx'[p]
    BY <2>4 DEF ToldSent, FaucetInv, SuccessOnce
  <2> QED
    BY <2>5, <2>6 DEF SuccessOnce
<1> QED
  BY <1>1, <1>2, SendMessage DEF FaucetInv

\* A message is taken.  If it tells of success, it was the only one.
LEMMA MessageTaken ==
  ASSUME FaucetInv, NEW p \in Callers, ListenTx(p)
  PROVE  SuccessOnce'
<1>1. /\ 1 \in DOMAIN inbox
      /\ \A i \in DOMAIN inbox' :
           /\ i \in Nat /\ i + 1 # 1
           /\ i + 1 \in DOMAIN inbox /\ inbox'[i] = inbox[i + 1]
  BY TakeMessage DEF ListenTx, FaucetInv
<1>2. UNCHANGED <<tx, status>> /\ step[p] = "listen"
  BY DEF ListenTx, chainvars
<1>3. \A i \in DOMAIN inbox', id \in TxIDs : IsSuccess(i, id)' => IsSuccess(i + 1, id)
  BY <1>1 DEF IsSuccess
<1>4. /\ reply \in [Callers -> {"none", "sent", "rich", "error", "limited"}]
      /\ ~ ToldSent(p)
      /\ \A q \in Callers : ToldSent(q) => tx[q] \in TxIDs
  BY <1>2 DEF FaucetInv, FaucetTypeOK, OwnTransactions, ToldSent
<1>5. ASSUME NEW i \in DOMAIN inbox', NEW id \in TxIDs, IsSuccess(i, id)'
      PROVE  /\ status[id] = "executed"
             /\ \A j \in DOMAIN inbox' : IsSuccess(j, id)' => i = j
             /\ ~ IsSuccess(1, id)
             /\ \A q \in Callers : ToldSent(q) => tx[q] # id
  <2>1. i \in Nat /\ i + 1 \in DOMAIN inbox /\ i + 1 # 1 /\ IsSuccess(i + 1, id)
    BY <1>1, <1>3, <1>5
  <2>2. /\ status[id] = "executed"
        /\ \A j \in DOMAIN inbox : IsSuccess(j, id) => i + 1 = j
        /\ \A q \in Callers : ToldSent(q) => tx[q] # id
    BY <2>1 DEF FaucetInv, SuccessOnce
  <2>3. \A j \in DOMAIN inbox' : IsSuccess(j, id)' => i = j
    <3> SUFFICES ASSUME NEW j \in DOMAIN inbox', IsSuccess(j, id)' PROVE i = j
      OBVIOUS
    <3>1. j \in Nat /\ i + 1 = j + 1
      BY <1>1, <1>3, <2>2
    <3> QED
      BY <2>1, <3>1
  <2> QED
    BY <1>1, <2>1, <2>2, <2>3
<1>6. CASE \A q \in Callers : ToldSent(q)' => ToldSent(q)
  BY <1>2, <1>5, <1>6 DEF FaucetInv, SuccessOnce
<1>7. CASE /\ \A q \in Callers : ToldSent(q)' => q = p \/ ToldSent(q)
           /\ IsSuccess(1, tx[p]) /\ tx[p] \in TxIDs /\ status[tx[p]] = "executed"
  <2>1. \A q \in Callers : ToldSent(q) => tx[q] # tx[p]
    BY <1>1, <1>7 DEF FaucetInv, SuccessOnce
  <2>2. \A i \in DOMAIN inbox', id \in TxIDs : IsSuccess(i, id)' => tx[p] # id
    BY <1>5, <1>7
  <2>3. \A q \in Callers : ToldSent(q)' =>
          /\ status[tx[q]] = "executed"
          /\ \A o \in Callers \ {q} : ToldSent(o)' => tx[o] # tx[q]
    BY <1>7, <2>1 DEF FaucetInv, SuccessOnce
  <2> QED
    BY <1>2, <1>5, <1>7, <2>2, <2>3 DEF SuccessOnce
<1>8. CASE Return(p, "error") \/ GoTo(p, "listen")
  BY <1>4, <1>6, <1>8 DEF Return, GoTo, ToldSent
<1>9. CASE Return(p, "sent") /\ IsSuccess(1, tx[p]) /\ tx[p] \in TxIDs
             /\ status[tx[p]] = "executed"
  BY <1>4, <1>7, <1>9 DEF Return, ToldSent
<1> QED
  BY <1>8, <1>9, ToldByMessage

\* No success is told twice.
LEMMA NextSuccessOnce ==
  ASSUME FaucetInv, [FaucetNext]_fvars
  PROVE  SuccessOnce'
<1> USE DEF FaucetInv
<1>1. /\ reply \in [Callers -> {"none", "sent", "rich", "error", "limited"}]
      /\ tx \in [Callers -> TxIDs \cup {NoTx}]
      /\ status \in [TxIDs -> {"unsent", "pending", "executed", "failed", "expired"}]
  BY DEF FaucetTypeOK
<1>2. ASSUME NEW p \in Callers, IsCallStep(p) PROVE SuccessOnce'
  <2>1. reply[p] = "none"
    BY <1>2, CallEffect DEF IsCallStep, OwnTransactions
  <2>2. CASE \E c \in Remotes, a \in Addresses : Request(p, c, a)
    BY <1>1, <2>1, <2>2, NothingTold DEF Request, GoTo, Return, ToldSent, chainvars
  <2>3. CASE CheckBalance(p) \/ GetParser(p) \/ Fails(p)
    BY <1>1, <2>1, <2>3, NothingTold
       DEF CheckBalance, GetParser, Fails, GoTo, Return, ToldSent, chainvars
  <2>4. CASE GenerateTransaction(p)
    BY <1>1, <2>1, <2>4, NothingTold
       DEF GenerateTransaction, GoTo, ToldSent, chainvars
  <2>5. CASE RegisterTx(p)
    <3>1. tx[p] \in TxIDs
      BY <2>5 DEF RegisterTx, OwnTransactions
    <3> QED
      BY <1>1, <2>1, <2>5, <3>1, NothingTold DEF RegisterTx, GoTo, ToldSent
  <2>6. CASE ListenTx(p)
    BY <2>6, MessageTaken
  <2> QED
    BY <1>2, <2>2, <2>3, <2>4, <2>5, <2>6 DEF IsCallStep, TransferCoins
<1>3. CASE WakeUp
  BY <1>3, NothingTold DEF WakeUp, GoTo, ToldSent, chainvars
<1>4. ASSUME NEW id \in TxIDs, ExecuteTx(id) PROVE SuccessOnce'
  <2>1. UNCHANGED <<reply, tx>> /\ status[id] = "pending"
    BY <1>4 DEF ExecuteTx, callvars
  <2>2. CASE funds > 0
    <3>1. Send(id, "success") /\ status' = [status EXCEPT ![id] = "executed"]
      BY <1>4, <2>2 DEF ExecuteTx
    <3> QED
      BY <1>1, <2>1, <3>1, MessageSent DEF Outcomes
  <2>3. CASE ~ (funds > 0)
    <3>1. Send(id, "failure") /\ status' = [status EXCEPT ![id] = "failed"]
      BY <1>4, <2>3 DEF ExecuteTx
    <3> QED
      BY <1>1, <2>1, <3>1, MessageSent DEF Outcomes
  <2> QED
    BY <2>2, <2>3
<1>5. ASSUME NEW id \in TxIDs, ExpireTx(id) PROVE SuccessOnce'
  <2>1. /\ UNCHANGED <<reply, tx>> /\ Send(id, "error")
        /\ \A i \in TxIDs : status[i] = "executed" => status'[i] = "executed"
    BY <1>1, <1>5 DEF ExpireTx, callvars
  <2> QED
    BY <2>1, MessageSent DEF Outcomes
<1>6. CASE UNCHANGED <<callvars, genesis, inbox, status, watched, balance>>
  BY <1>6, NothingTold DEF callvars, ToldSent
<1> QED
  BY <1>2, <1>3, <1>4, <1>5, <1>6, StepCases

\* The induction step.
LEMMA NextFaucetInv == FaucetInv /\ [FaucetNext]_fvars => FaucetInv'
BY NextFaucetType, NextAttemptsLeft, NextGenesisIsKnown, NextOwnTransactions,
   NextSuccessOnce DEF FaucetInv

\* FaucetInv is an invariant, whatever the node sends and loses.
THEOREM FaucetInvariant == FaucetSpec => []FaucetInv
BY InitFaucetInv, NextFaucetInv, PTL DEF FaucetSpec

\* The faucet keeps its types; in particular the initial transfer never
\* fails more often than it may be attempted, and no limiter goes below zero.
THEOREM FaucetTypeCorrect == FaucetSpec => []FaucetTypeOK
<1>1. FaucetInv => FaucetTypeOK
  BY DEF FaucetInv
<1> QED
  BY <1>1, FaucetInvariant, PTL

\* No two callers are told that the same transfer was theirs, and who is
\* told of a transfer has been paid.
THEOREM AnswersBacked == FaucetSpec => []AnswersAreBacked
<1>1. FaucetInv => AnswersAreBacked
  BY DEF FaucetInv, OwnTransactions, SuccessOnce, AnswersAreBacked
<1> QED
  BY <1>1, FaucetInvariant, PTL

\* Readiness means that a transfer was executed and that the genesis is
\* cached.
THEOREM ReadinessEarned == FaucetSpec => []ReadinessIsEarned
<1>1. FaucetInv => ReadinessIsEarned
  BY DistinctConstants DEF FaucetInv, GenesisIsKnown, ReadinessIsEarned
<1> QED
  BY <1>1, FaucetInvariant, PTL
-----------------------------------------------------------------------------
\* Replacing an element of a finite set does not make it larger.
LEMMA ReplaceElement ==
  ASSUME NEW S, IsFiniteSet(S), NEW p \in S, NEW t, NEW T \in SUBSET ((S \ {p}) \cup {t})
  PROVE  Cardinality(T) <= Cardinality(S)
<1>1. /\ IsFiniteSet(S \ {p})
      /\ Cardinality(S \ {p}) = Cardinality(S) - 1
  BY FS_RemoveElement
<1>2. /\ IsFiniteSet((S \ {p}) \cup {t})
      /\ Cardinality((S \ {p}) \cup {t}) <= Cardinality(S \ {p}) + 1
  <2> DEFINE R == S \ {p}
  <2>1. IsFiniteSet(R) /\ Cardinality(R) \in Nat
    BY <1>1, FS_CardinalityType
  <2> HIDE DEF R
  <2>2. /\ IsFiniteSet(R \cup {t})
        /\ Cardinality(R \cup {t}) = IF t \in R THEN Cardinality(R)
                                     ELSE Cardinality(R) + 1
    BY <2>1, FS_AddElement, Zenon
  <2>3. IsFiniteSet(R \cup {t}) /\ Cardinality(R \cup {t}) <= Cardinality(R) + 1
    BY <2>1, <2>2
  <2> QED
    BY <2>3 DEF R
<1>3. Cardinality(T) <= Cardinality((S \ {p}) \cup {t})
  BY <1>2, FS_Subset
<1>4. /\ Cardinality(S) \in Nat /\ Cardinality(S \ {p}) \in Nat
      /\ Cardinality((S \ {p}) \cup {t}) \in Nat
  BY <1>1, <1>2, FS_CardinalityType
<1>5. IsFiniteSet(T) /\ Cardinality(T) \in Nat
  BY <1>2, FS_Subset, FS_CardinalityType
<1> QED
  BY <1>1, <1>2, <1>3, <1>4, <1>5

\* There are finitely many callers and transactions.
LEMMA UnderWayFinite == \A a : IsFiniteSet(UnderWay(a))
<1>1. IsFiniteSet(Callers)
  BY FaucetAssumption, FS_AddElement DEF Callers
<1>2. IsFiniteSet(Recipients)
  BY FaucetAssumption, FS_AddElement DEF Recipients
<1>3. IsFiniteSet(0 .. MaxSecond)
  BY FaucetAssumption, FS_Interval
<1>4. IsFiniteSet(TxIDs)
  BY <1>2, <1>3, FS_Product DEF TxIDs
<1>5. IsFiniteSet(Callers \cup TxIDs)
  BY <1>1, <1>4, FS_Union
<1>6. \A a : UnderWay(a) \in SUBSET (Callers \cup TxIDs)
  BY DEF UnderWay
<1> QED
  BY <1>5, <1>6, FS_Subset

\* No step adds a transfer to an address that has been paid; the submission
\* of its transaction takes the place of the caller.
LEMMA PaidUnderWay ==
  ASSUME FaucetInv, [FaucetNext]_fvars, NEW a \in Recipients, balance[a] > 0
  PROVE  \/ UnderWay(a)' \in SUBSET UnderWay(a)
         \/ \E p \in UnderWay(a), t \in TxIDs :
              UnderWay(a)' \in SUBSET ((UnderWay(a) \ {p}) \cup {t})
<1> USE DEF FaucetInv
<1>1. /\ step \in [Callers -> Steps] /\ to \in [Callers -> Recipients]
      /\ status \in [TxIDs -> {"unsent", "pending", "executed", "failed", "expired"}]
  BY DEF FaucetTypeOK
<1>2. ASSUME NEW p \in Callers, IsCallStep(p), ~ RegisterTx(p)
      PROVE  UnderWay(a)' \in SUBSET UnderWay(a)
  <2>1. CASE \E c \in Remotes, x \in Addresses : Request(p, c, x)
    BY <1>1, <2>1 DEF Request, GoTo, Return, UnderWay, chainvars
  <2>2. CASE CheckBalance(p)
    BY <1>1, <2>2 DEF CheckBalance, GoTo, Return, UnderWay, chainvars
  <2>3. CASE GetParser(p) \/ GenerateTransaction(p)
    BY <1>1, <2>3 DEF GetParser, GenerateTransaction, GoTo, UnderWay, chainvars
  <2>4. CASE ListenTx(p)
    <3>1. UNCHANGED <<to, status>>
      BY <2>4 DEF ListenTx, chainvars
    <3>2. \E s \in {"listen", "asleep", "answered"} : step' = [step EXCEPT ![p] = s]
      BY <2>4, ToldByMessage DEF GoTo, Return
    <3> QED
      BY <1>1, <3>1, <3>2 DEF UnderWay
  <2>5. CASE Fails(p)
    BY <1>1, <2>5 DEF Fails, Return, UnderWay, chainvars
  <2> QED
    BY <1>2, <2>1, <2>2, <2>3, <2>4, <2>5 DEF IsCallStep, TransferCoins
<1>3. ASSUME NEW p \in Callers, RegisterTx(p)
      PROVE  \/ UnderWay(a)' \in SUBSET UnderWay(a)
             \/ \E q \in UnderWay(a), t \in TxIDs :
                  UnderWay(a)' \in SUBSET ((UnderWay(a) \ {q}) \cup {t})
  <2>1. /\ tx[p] \in TxIDs /\ tx[p][1] = to[p] /\ step[p] = "register"
        /\ to' = to
        /\ step' = [step EXCEPT ![p] = "listen"]
    BY <1>3 DEF RegisterTx, OwnTransactions, GoTo
  <2>2. \A id \in TxIDs : status'[id] = "pending" => status[id] = "pending" \/ id = tx[p]
    BY <1>1, <1>3, <2>1 DEF RegisterTx
  <2>3. {q \in Callers : to'[q] = a /\ step'[q] \in {"parser", "generate", "register"}}
          = {q \in Callers : to[q] = a /\ step[q] \in {"parser", "generate", "register"}} \ {p}
    BY <1>1, <2>1
  <2>4. {id \in TxIDs : id[1] = a /\ status'[id] = "pending"}
          \subseteq {id \in TxIDs : id[1] = a /\ status[id] = "pending"}
                      \cup (IF to[p] = a THEN {tx[p]} ELSE {})
    BY <2>1, <2>2
  <2>5. p \notin TxIDs
    BY FaucetAssumption
  <2>6. CASE to[p] # a
    BY <2>3, <2>4, <2>6 DEF UnderWay
  <2>7. CASE to[p] = a
    <3>1. p \in UnderWay(a)
      BY <2>1, <2>7 DEF UnderWay
    <3>2. UnderWay(a)' \subseteq (UnderWay(a) \ {p}) \cup {tx[p]}
      BY <2>3, <2>4, <2>5, <2>7 DEF UnderWay
    <3> QED
      BY <2>1, <3>1, <3>2
  <2> QED
    BY <2>6, <2>7
<1>4. CASE WakeUp
  BY <1>1, <1>4 DEF WakeUp, GoTo, UnderWay, chainvars
<1>5. CASE \E id \in TxIDs : ExecuteTx(id) \/ ExpireTx(id)
  BY <1>1, <1>5 DEF ExecuteTx, ExpireTx, UnderWay, callvars
<1>6. CASE UNCHANGED <<callvars, genesis, inbox, status, watched, balance>>
  BY <1>6 DEF callvars, UnderWay
<1> QED
  BY <1>2, <1>3, <1>4, <1>5, <1>6, StepCases

\* Retries and stale checks of the balance pay an address more than once,
\* but only by transfers that were under way when it was paid.
THEOREM PaidOnce == FaucetSpec => NoTransfersOncePaid
<1> DEFINE Falls == \A a \in Recipients : balance[a] > 0 =>
                      Cardinality(UnderWay(a)') <= Cardinality(UnderWay(a))
<1>1. ASSUME FaucetInv, [FaucetNext]_fvars PROVE Falls
  <2> SUFFICES ASSUME NEW a \in Recipients, balance[a] > 0
               PROVE  Cardinality(UnderWay(a)') <= Cardinality(UnderWay(a))
    OBVIOUS
  <2>1. IsFiniteSet(UnderWay(a))
    BY UnderWayFinite
  <2>2. CASE UnderWay(a)' \in SUBSET UnderWay(a)
    BY <2>1, <2>2, FS_Subset
  <2>3. CASE \E p \in UnderWay(a), t \in TxIDs :
               UnderWay(a)' \in SUBSET ((UnderWay(a) \ {p}) \cup {t})
    BY <2>1, <2>3, ReplaceElement
  <2> QED
    BY <1>1, <2>2, <2>3, PaidUnderWay
<1>2. FaucetInv /\ [FaucetNext]_fvars => [Falls]_fvars
  BY <1>1
<1> QED
  BY <1>2, FaucetInvariant, PTL DEF FaucetSpec, NoTransfersOncePaid
=============================================================================
