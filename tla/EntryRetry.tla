----------------------------- MODULE EntryRetry -----------------------------
(***************************************************************************)
(* Entering a position: FarmBot._create_position_with_retry, one attempt   *)
(* of LPService.create_position after the other, each of which ends in     *)
(* TxSender.send, and the chain that runs what was sent whenever it likes. *)
(* The bot talks to the chain through endpoints that may know more or less *)
(* of the pending transactions, refuse one, or lose the answer.            *)
(***************************************************************************)
EXTENDS Integers, Sequences, FiniteSets

CONSTANTS MaxAttempts,  \* len(MANTLE_RPC_ENDPOINTS)
          MaxCalls,     \* bound: cycles that try to enter
          Wallet,       \* what the wallet holds, in units of value
          Budget,       \* the part of it that may be deployed
          Alloc         \* what one add asks for

ASSUME AttemptsAssumption == MaxAttempts \in Nat \ {0}
ASSUME CallsAssumption    == MaxCalls \in Nat \ {0}
ASSUME AllocAssumption    == /\ {Wallet, Budget, Alloc} \subseteq Nat
                             /\ 0 < Alloc /\ Alloc <= Budget /\ Budget <= Wallet

VARIABLES step,       \* where the call is
          call,       \* which call it is
          attempt,    \* attempt of the loop
          err,        \* the exception the attempt ended with
          nonce,      \* the nonce of the transaction being sent
          mempool,    \* transactions that may still be mined
          chain,      \* the mined ones: the i-th has nonce i
          registered, \* adds the registry was told of
          recorded,   \* adds the analytics were told of
          result,     \* what the call returned
          doubts,     \* only observed: the attempts that ended with an add the
                      \* bot lost sight of
          blind       \* only observed: calls made over an add that was there

bot   == <<step, call, attempt, err, nonce, registered, recorded, result, doubts, blind>>
vars  == <<bot, mempool, chain>>

Steps   == {"estimate", "compose", "broadcast", "receipt", "register", "record",
            "caught", "done"}
Errors  == {"none", "fill", "sender", "other"}
Results == {"none", "entered", "skipped", "failed"}
Tries   == (1..MaxCalls) \X (1..MaxAttempts)
Txs     == [nonce: Nat \ {0}, try: Tries]

Try == <<call, attempt>>
Tx  == [nonce |-> nonce, try |-> Try]

Succeeded == {i \in 1..Len(chain) : chain[i].ok}
Deployed  == Alloc * Cardinality(Succeeded)

-----------------------------------------------------------------------------
Init ==
    /\ step = "estimate" /\ call = 1 /\ attempt = 1 /\ err = "none" /\ nonce = 0
    /\ mempool = {} /\ chain = <<>>
    /\ registered = 0 /\ recorded = 0 /\ result = "none"
    /\ doubts = {} /\ blind = 0

Return(what) == step' = "done" /\ result' = what

(* The expected fill is looked at before the loop; not being able to is no  *)
(* reason to stop.                                                          *)
Estimate ==
    /\ step = "estimate"
    /\ \/ Return("skipped")
       \/ step' = "compose" /\ UNCHANGED result
    /\ UNCHANGED <<call, attempt, err, nonce, mempool, chain, registered,
                   recorded, doubts, blind>>

Raise(what) == step' = "caught" /\ err' = what

(* What ends an attempt before the broadcast: create_position refuses the   *)
(* fill of the plan; the sender refuses a native balance below value and    *)
(* gas, or an approval of its reverts; anything else goes wrong.            *)
Refused   == {"fill"}
Unfunded  == {"sender"}

(* create_position up to the transaction: pool state, approvals, active id, *)
(* distribution, the recheck of the active id, build_tx.  The nonce is the  *)
(* "pending" transaction count of whichever endpoint is asked.  A fill that *)
(* is too small is told apart from the other exceptions, as is what the     *)
(* sender raises.                                                           *)
Compose ==
    /\ step = "compose"
    /\ \/ /\ nonce' \in (Len(chain) + 1)..(Len(chain) + 1 + Cardinality(mempool))
          /\ step' = "broadcast"
          /\ UNCHANGED err
       \/ /\ \E e \in Refused \cup Unfunded \cup {"other"} : Raise(e)
          /\ UNCHANGED nonce
    /\ UNCHANGED <<call, attempt, mempool, chain, registered, recorded, doubts,
                   result, blind>>

(* send_raw_transaction: the endpoint takes it; or refuses it (a used       *)
(* nonce, a replacement that pays no more, no funds); or fails, with an     *)
(* error or without a word, and may have passed it on or not.               *)
Broadcast ==
    /\ step = "broadcast"
    /\ \/ /\ mempool' = mempool \cup {Tx}
          /\ step' = "receipt"
          /\ UNCHANGED <<err, doubts>>
       \/ /\ Raise("sender")
          /\ UNCHANGED <<mempool, doubts>>
       \/ /\ mempool' \in {mempool, mempool \cup {Tx}}
          /\ \E e \in {"sender", "other"} : Raise(e)
          /\ doubts' = doubts \cup {Try}
    /\ UNCHANGED <<call, attempt, nonce, chain, registered, recorded, result,
                   blind>>

MinedAs(ok) == \E i \in 1..Len(chain) : chain[i] = [try |-> Try, ok |-> ok]

(* A receipt that is waited for in vain taken for a good one: for the check *)
(* of the properties.                                                       *)
TimeoutTakenForSuccess ==
    /\ step = "receipt"
    /\ step' = "register"
    /\ UNCHANGED <<call, attempt, err, nonce, mempool, chain, registered,
                   recorded, doubts, result, blind>>

(* wait_for_transaction_receipt hears of the add. *)
ReceiptOk ==
    /\ step = "receipt"
    /\ MinedAs(TRUE)
    /\ step' = "register"
    /\ UNCHANGED <<call, attempt, err, nonce, mempool, chain, registered,
                   recorded, doubts, result, blind>>

ReceiptReverted ==
    /\ step = "receipt"
    /\ MinedAs(FALSE)
    /\ Raise("sender")
    /\ UNCHANGED <<call, attempt, nonce, mempool, chain, registered, recorded,
                   doubts, result, blind>>

(* A wait with no end: for the check of the properties. *)
NoTimeout ==
    /\ step = "receipt"
    /\ MinedAs(TRUE)
    /\ Raise("other")
    /\ doubts' = doubts \cup {Try}
    /\ UNCHANGED <<call, attempt, nonce, mempool, chain, registered, recorded,
                   result, blind>>

(* The wait is over without a receipt: after two minutes (TimeExhausted) or *)
(* with a connection error, neither of which send wraps, or with an error   *)
(* of the endpoint, which it does.                                          *)
ReceiptLost ==
    /\ step = "receipt"
    /\ \E e \in {"sender", "other"} : Raise(e)
    /\ doubts' = doubts \cup {Try}
    /\ UNCHANGED <<call, attempt, nonce, mempool, chain, registered, recorded,
                   result, blind>>

(* _register_position, whose exceptions are swallowed. *)
Register ==
    /\ step = "register"
    /\ registered' \in {registered, registered + 1}
    /\ step' = "record"
    /\ UNCHANGED <<call, attempt, err, nonce, mempool, chain, recorded, doubts,
                   result, blind>>

(* The telemetry and analytics.record_operation stand inside the same try:  *)
(* an exception there is treated as a failed attempt.                       *)
Record ==
    /\ step = "record"
    /\ \/ /\ recorded' = recorded + 1
          /\ Return("entered")
          /\ UNCHANGED <<err, doubts>>
       \/ /\ Raise("other")
          /\ doubts' = doubts \cup {Try}
          /\ UNCHANGED <<recorded, result>>
    /\ UNCHANGED <<call, attempt, nonce, mempool, chain, registered, blind>>

(* An except branch that never takes a revert for final: for the check of   *)
(* the properties.                                                          *)
RetryEverything ==
    /\ step = "caught"
    /\ CASE err = "fill"            -> Return("skipped") /\ UNCHANGED attempt
         [] attempt = MaxAttempts   -> Return("failed") /\ UNCHANGED attempt
         [] OTHER                   -> /\ attempt' = attempt + 1
                                       /\ step' = "compose"
                                       /\ UNCHANGED result
    /\ err' = "none"
    /\ UNCHANGED <<call, nonce, mempool, chain, registered, recorded, doubts,
                   blind>>

(* One attempt too many: for the check of the properties. *)
RetryPastTheEnd ==
    /\ step = "caught"
    /\ \/ /\ attempt > MaxAttempts
          /\ Return("failed")
          /\ UNCHANGED attempt
       \/ /\ attempt <= MaxAttempts
          /\ attempt' = attempt + 1
          /\ step' = "compose"
          /\ UNCHANGED result
    /\ err' = "none"
    /\ UNCHANGED <<call, nonce, mempool, chain, registered, recorded, doubts,
                   blind>>

(* The except branch: an unfillable add is skipped; what the sender raises  *)
(* ends the loop from the second attempt on.                                *)
Final == \/ err = "sender" /\ attempt >= 2
         \/ err # "fill" /\ attempt = MaxAttempts

Caught ==
    /\ step = "caught"
    /\ \/ /\ err = "fill"
          /\ Return("skipped")
          /\ UNCHANGED attempt
       \/ /\ Final
          /\ Return("failed")
          /\ UNCHANGED attempt
       \/ /\ err # "fill" /\ ~Final
          /\ attempt' = attempt + 1
          /\ step' = "compose"
          /\ UNCHANGED result
    /\ err' = "none"
    /\ UNCHANGED <<call, nonce, mempool, chain, registered, recorded, doubts,
                   blind>>

(* A cycle that knows nothing of the one before: for the check of the       *)
(* properties.                                                              *)
NextCallUnseen ==
    /\ step = "done"
    /\ call < MaxCalls
    /\ call' = call + 1
    /\ step' = "estimate" /\ attempt' = 1 /\ result' = "none"
    /\ UNCHANGED <<err, nonce, mempool, chain, registered, recorded, doubts, blind>>

(* A later cycle enters again: there is no position, or its look at the     *)
(* chain failed or took the one there is for dust.                          *)
NextCall ==
    /\ step = "done"
    /\ call < MaxCalls
    /\ call' = call + 1
    /\ step' = "estimate" /\ attempt' = 1 /\ result' = "none"
    /\ blind' = IF Succeeded = {} THEN blind ELSE blind + 1
    /\ UNCHANGED <<err, nonce, mempool, chain, registered, recorded, doubts>>

-----------------------------------------------------------------------------
(* The chain runs the transaction whose turn it is, and forgets the others  *)
(* with its nonce.  An add goes through when the wallet has the funds, the  *)
(* active bin has not moved too far and the deadline has not passed.        *)
Mine(tx) ==
    /\ tx.nonce = Len(chain) + 1
    /\ \E ok \in BOOLEAN :
          /\ ok => Deployed + Alloc <= Wallet
          /\ chain' = Append(chain, [try |-> tx.try, ok |-> ok])
    /\ mempool' = {t \in mempool : t.nonce # tx.nonce}
    /\ UNCHANGED bot

Drop(tx) ==
    /\ mempool' = mempool \ {tx}
    /\ UNCHANGED <<bot, chain>>

BotStep ==
    \/ Estimate \/ Compose \/ Broadcast
    \/ ReceiptOk \/ ReceiptReverted \/ ReceiptLost
    \/ Register \/ Record \/ Caught

Next ==
    \/ BotStep
    \/ NextCall
    \/ \E tx \in mempool : Mine(tx) \/ Drop(tx)

Spec == Init /\ [][Next]_vars

(* The bot never stops by itself in the middle of a call: every wait it     *)
(* makes has a timeout.  Nothing is assumed of the chain.                   *)
FairSpec == Spec /\ WF_vars(BotStep)

-----------------------------------------------------------------------------
(* Every variable has its type. *)
TypeOK ==
    /\ step \in Steps /\ err \in Errors /\ result \in Results
    /\ call \in 1..MaxCalls /\ attempt \in 1..MaxAttempts
    /\ nonce \in Nat
    /\ mempool \subseteq Txs
    /\ chain \in Seq([try: Tries, ok: BOOLEAN])
    /\ {registered, recorded, blind} \subseteq Nat
    /\ doubts \subseteq Tries

(* Neither the registry nor the analytics is ever told of an add that the   *)
(* chain has not run.                                                       *)
BooksNeverAhead ==
    /\ registered <= Cardinality(Succeeded)
    /\ recorded <= Cardinality(Succeeded)

(* A call that says it entered did: the add of its last attempt is on the   *)
(* chain, whatever became of those before it.                               *)
EnteredIsOnChain == result = "entered" => MinedAs(TRUE)

(* However many endpoints there are to try, a call pays for at most two     *)
(* reverted adds that it did not lose sight of; those whose receipts it     *)
(* gave up waiting for may all revert besides, one an attempt.              *)
Reverted(c) == {i \in 1..Len(chain) : ~chain[i].ok /\ chain[i].try[1] = c}

AtMostTwoReverts ==
    \A c \in 1..MaxCalls :
        Cardinality({i \in Reverted(c) : chain[i].try \notin doubts}) <= 2

(* Adds are doubled only in the dark: each add beyond the first is paid for *)
(* by an attempt that ended without the bot knowing, or keeping in mind,    *)
(* what became of its transaction, or by a call that took the add that was  *)
(* there for none.                                                          *)
DoublesComeFromDoubt == Cardinality(Succeeded) <= 1 + Cardinality(doubts) + blind

(* Every call returns. *)
CallReturns == step = "estimate" ~> step = "done"

(* What is deployed stays within the budget the allocation was made from.   *)
DeployedWithinBudget == Deployed <= Budget
=============================================================================
