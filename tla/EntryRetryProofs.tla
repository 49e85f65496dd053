-------------------------- MODULE EntryRetryProofs --------------------------
(***************************************************************************)
(* What holds of an entry for any number of endpoints, of calls and for    *)
(* any wallet, whichever transactions the chain runs, drops or runs late.  *)
(***************************************************************************)
EXTENDS EntryRetry, FiniteSetTheorems, TLAPS

LEMMA ConstantsType ==
    /\ MaxAttempts \in Nat \ {0} /\ MaxCalls \in Nat \ {0}
    /\ Wallet \in Nat /\ Budget \in Nat /\ Alloc \in Nat \ {0}
BY AttemptsAssumption, CallsAssumption, AllocAssumption

Mined == [try: Tries, ok: BOOLEAN]

-----------------------------------------------------------------------------
(* Types.  A nonce is one from the broadcast on; it comes from the number of *)
(* pending transactions, so the pool has to be finite for it to be a number. *)
Typed ==
    /\ TypeOK
    /\ IsFiniteSet(mempool)
    /\ step = "broadcast" => nonce \in Nat \ {0}

LEMMA TryType == Typed => Try \in Tries
BY DEF Typed, TypeOK, Try, Tries

LEMMA TypeInit == Init => Typed
BY ConstantsType, FS_EmptySet
   DEF Init, Typed, TypeOK, Steps, Errors, Results, Tries

LEMMA TypeStep == Typed /\ [Next]_vars => Typed'
<1> SUFFICES ASSUME Typed, [Next]_vars
             PROVE  Typed'
  OBVIOUS
<1>c. Len(chain) \in Nat /\ Cardinality(mempool) \in Nat
  BY FS_CardinalityType DEF Typed, TypeOK
<1> USE ConstantsType DEF Typed, TypeOK, Steps, Errors, Results
<1>1. CASE Estimate
  BY <1>1 DEF Estimate, Return
<1>2. CASE Compose
  BY <1>2, <1>c DEF Compose, Raise, Refused, Unfunded
<1>3. CASE Broadcast
  <2>1. Tx \in Txs
    BY <1>3, TryType DEF Tx, Txs, Broadcast
  <2>2. IsFiniteSet(mempool \cup {Tx})
    BY FS_AddElement
  <2>3. mempool' = mempool \/ mempool' = mempool \cup {Tx}
    BY <1>3 DEF Broadcast
  <2>4. mempool' \subseteq Txs /\ IsFiniteSet(mempool')
    BY <2>1, <2>2, <2>3
  <2> QED
    BY <1>3, <2>4, TryType DEF Broadcast, Raise
<1>4. CASE ReceiptOk
  BY <1>4 DEF ReceiptOk
<1>5. CASE ReceiptReverted
  BY <1>5 DEF ReceiptReverted, Raise
<1>6. CASE ReceiptLost
  BY <1>6, TryType DEF ReceiptLost, Raise
<1>7. CASE Register
  BY <1>7 DEF Register
<1>8. CASE Record
  BY <1>8, TryType DEF Record, Raise, Return
<1>9. CASE Caught
  BY <1>9 DEF Caught, Final, Return
<1>10. CASE NextCall
  BY <1>10 DEF NextCall
<1>11. ASSUME NEW tx \in mempool, Mine(tx)
       PROVE  Typed'
  <2>1. PICK ok \in BOOLEAN : chain' = Append(chain, [try |-> tx.try, ok |-> ok])
    BY <1>11 DEF Mine
  <2>2. tx.try \in Tries
    BY DEF Txs
  <2>3. chain' \in Seq([try: Tries, ok: BOOLEAN])
    BY <2>1, <2>2
  <2>4. mempool' \subseteq mempool
    BY <1>11 DEF Mine
  <2>5. IsFiniteSet(mempool')
    BY <2>4, FS_Subset
  <2> QED
    BY <1>11, <2>3, <2>4, <2>5 DEF Mine, bot
<1>12. ASSUME NEW tx \in mempool, Drop(tx)
       PROVE  Typed'
  <2>1. mempool' \subseteq mempool /\ IsFiniteSet(mempool')
    BY <1>12, FS_RemoveElement DEF Drop
  <2> QED
    BY <1>12, <2>1 DEF Drop, bot
<1>13. CASE UNCHANGED vars
  BY <1>13 DEF vars, bot
<1> QED
  BY <1>1, <1>2, <1>3, <1>4, <1>5, <1>6, <1>7, <1>8, <1>9, <1>10, <1>11, <1>12, <1>13
     DEF Next, BotStep

(* Every variable of an entry has its type, whatever the chain does with the *)
(* transactions it is sent: the pool stays finite and no attempt is counted  *)
(* past the last endpoint (the loop of _create_position_with_retry).         *)
THEOREM EntryTypeCorrect == Spec => []TypeOK
<1>1. Typed => TypeOK
  BY DEF Typed
<1> QED
  BY <1>1, TypeInit, TypeStep, PTL DEF Spec

-----------------------------------------------------------------------------
(* Which attempt a transaction is of.  An attempt broadcasts once, so it has *)
(* one transaction at most, in the pool or on the chain and not in both; and *)
(* what is in either is of an attempt made so far.                           *)
Sent == step \notin {"estimate", "compose", "broadcast"}
Older(t) == t[1] < call \/ (t[1] = call /\ t[2] < attempt)
Made(t) == Older(t) \/ (t = Try /\ Sent)

OneTransactionEach ==
    /\ \A x \in mempool : Made(x.try)
    /\ \A i \in 1..Len(chain) : Made(chain[i].try)
    /\ \A x, y \in mempool : x.try = y.try => x = y
    /\ \A x \in mempool, i \in 1..Len(chain) : x.try # chain[i].try
    /\ \A i, j \in 1..Len(chain) : chain[i].try = chain[j].try => i = j

LEMMA MadeNotBefore == Typed /\ ~Sent => ~Made(Try)
BY ConstantsType DEF Typed, TypeOK, Made, Older, Try

(* No step of the bot unmakes an attempt. *)
LEMMA MadeStays ==
    ASSUME Typed, [Next]_vars, NEW t \in Tries, Made(t)
    PROVE  Made(t)'
<1>t. /\ call \in Nat /\ attempt \in Nat
      /\ t[1] \in Nat /\ t[2] \in Nat /\ t = <<t[1], t[2]>>
  BY ConstantsType DEF Typed, TypeOK, Tries
<1>1. CASE UNCHANGED <<call, attempt>> /\ (Sent => Sent')
  BY <1>1, <1>t DEF Made, Older, Try
<1>2. CASE call' = call /\ attempt' = attempt + 1
  BY <1>2, <1>t DEF Made, Older, Try
<1>3. CASE call' = call + 1
  BY <1>3, <1>t DEF Made, Older, Try
<1>4. CASE BotStep
  <2>1. CASE Caught
    BY <2>1, <1>1, <1>2 DEF Caught, Return, Sent
  <2>2. CASE ~Caught
    BY <2>2, <1>4, <1>1 DEF BotStep, Estimate, Compose, Broadcast, ReceiptOk,
       ReceiptReverted, ReceiptLost, Register, Record, Raise, Return, Sent
  <2> QED BY <2>1, <2>2
<1>5. CASE NextCall
  BY <1>5, <1>3 DEF NextCall
<1>6. CASE \E tx \in mempool : Mine(tx) \/ Drop(tx)
  BY <1>6, <1>1 DEF Mine, Drop, bot, Sent
<1>7. CASE UNCHANGED vars
  BY <1>7, <1>1 DEF vars, bot, Sent
<1> QED
  BY <1>4, <1>5, <1>6, <1>7 DEF Next

LEMMA TriesOf ==
    ASSUME Typed
    PROVE  /\ \A x \in mempool : x.try \in Tries /\ x.nonce \in Nat \ {0}
           /\ \A i \in 1..Len(chain) : chain[i].try \in Tries /\ chain[i].ok \in BOOLEAN
           /\ Len(chain) \in Nat
<1>1. \A x \in Txs : x.try \in Tries /\ x.nonce \in Nat \ {0}
  BY DEF Txs
<1>2. \A x \in mempool : x \in Txs
  BY DEF Typed, TypeOK
<1>3. chain \in Seq(Mined)
  BY DEF Typed, TypeOK, Mined
<1>4. Len(chain) \in Nat /\ \A i \in 1..Len(chain) : chain[i] \in Mined
  BY <1>3
<1> QED
  BY <1>1, <1>2, <1>4 DEF Mined

(* The chain grows by what was pending, and only so. *)
LEMMA AppendedTo ==
    ASSUME Typed, NEW tx \in mempool, Mine(tx)
    PROVE  /\ Len(chain') = Len(chain) + 1
           /\ \A i \in 1..Len(chain) : chain'[i] = chain[i]
           /\ chain'[Len(chain) + 1].try = tx.try
           /\ chain'[Len(chain) + 1].ok \in BOOLEAN
           /\ mempool' = {t \in mempool : t.nonce # tx.nonce}
           /\ UNCHANGED bot
<1>1. PICK ok \in BOOLEAN : chain' = Append(chain, [try |-> tx.try, ok |-> ok])
  BY DEF Mine
<1>2. chain \in Seq([try: Tries, ok: BOOLEAN]) /\ [try |-> tx.try, ok |-> ok] \in [try: Tries, ok: BOOLEAN]
  BY TriesOf DEF Typed, TypeOK
<1> DEFINE new == [try |-> tx.try, ok |-> ok]
<1>3. new.try = tx.try /\ new.ok = ok
  OBVIOUS
<1> HIDE DEF new
<1>4. chain' = Append(chain, new) /\ chain \in Seq([try: Tries, ok: BOOLEAN]) /\ new \in [try: Tries, ok: BOOLEAN]
  BY <1>1, <1>2 DEF new
<1>5. /\ Len(chain') = Len(chain) + 1
      /\ \A i \in 1..Len(chain) : chain'[i] = chain[i]
      /\ chain'[Len(chain) + 1] = new
  BY <1>4
<1> QED
  BY <1>3, <1>5 DEF Mine

LEMMA OneEachInit == Init => OneTransactionEach
BY DEF Init, OneTransactionEach

LEMMA OneEachStep == Typed /\ OneTransactionEach /\ [Next]_vars => OneTransactionEach'
<1> SUFFICES ASSUME Typed, OneTransactionEach, [Next]_vars
             PROVE  OneTransactionEach'
  OBVIOUS
<1>m. \A t \in Tries : Made(t) => Made(t)'
  BY MadeStays
<1>1. CASE UNCHANGED <<mempool, chain>>
  <2>1. /\ \A x \in mempool : Made(x.try)'
        /\ \A i \in 1..Len(chain) : Made(chain[i].try)'
    BY <1>m, <1>1, TriesOf DEF OneTransactionEach
  <2> QED
    BY <2>1, <1>1 DEF OneTransactionEach
<1>2. CASE Broadcast /\ mempool' = mempool \cup {Tx}
  <2>1. Try \in Tries /\ Tx.try = Try /\ ~Sent /\ Sent'
    BY <1>2, TryType DEF Tx, Broadcast, Raise, Sent
  <2>2. ~Made(Try)
    BY <2>1, MadeNotBefore
  <2>3. chain' = chain /\ Try' = Try /\ Made(Try)'
    BY <1>2, <2>1 DEF Broadcast, Try, Made
  <2>4. \A x \in mempool' : Made(x.try)'
    BY <1>2, <1>m, <2>1, <2>3, TriesOf DEF OneTransactionEach
  <2>5. \A i \in 1..Len(chain) : Made(chain[i].try)'
    BY <1>m, <2>3, TriesOf DEF OneTransactionEach
  <2>6. \A x \in mempool : x.try # Try
    BY <2>2 DEF OneTransactionEach
  <2>7. \A i \in 1..Len(chain) : chain[i].try # Try
    BY <2>2 DEF OneTransactionEach
  <2> QED
    BY <1>2, <2>1, <2>3, <2>4, <2>5, <2>6, <2>7 DEF OneTransactionEach
<1>3. ASSUME NEW tx \in mempool, Drop(tx)
      PROVE  OneTransactionEach'
  <2>1. mempool' \subseteq mempool /\ chain' = chain
    BY <1>3 DEF Drop
  <2>2. /\ \A x \in mempool' : Made(x.try)'
        /\ \A i \in 1..Len(chain) : Made(chain[i].try)'
    BY <2>1, <1>m, TriesOf DEF OneTransactionEach
  <2> QED
    BY <2>1, <2>2 DEF OneTransactionEach
<1>4. ASSUME NEW tx \in mempool, Mine(tx)
      PROVE  OneTransactionEach'
  <2>1. /\ Len(chain') = Len(chain) + 1 /\ Len(chain) \in Nat
        /\ \A i \in 1..Len(chain) : chain'[i] = chain[i]
        /\ chain'[Len(chain) + 1].try = tx.try
        /\ mempool' = {t \in mempool : t.nonce # tx.nonce}
    BY <1>4, AppendedTo, TriesOf
  <2>2. \A i \in 1..Len(chain') : i \in 1..Len(chain) \/ i = Len(chain) + 1
    BY <2>1
  <2>3. \A x \in mempool' : x \in mempool /\ x.try # tx.try
    BY <2>1 DEF OneTransactionEach
  <2>4. \A i \in 1..Len(chain) : tx.try # chain[i].try
    BY DEF OneTransactionEach
  <2>5. \A x \in mempool' : Made(x.try)'
    BY <2>3, <1>m, TriesOf DEF OneTransactionEach
  <2>6. \A i \in 1..Len(chain') : Made(chain[i].try)'
    <3>1. \A t \in Tries : (\E i \in 1..Len(chain) : t = chain[i].try) \/ t = tx.try => Made(t)'
      BY <1>m, TriesOf DEF OneTransactionEach
    <3>2. \A i \in 1..Len(chain') : chain'[i].try \in Tries
      BY <2>1, <2>2, TriesOf
    <3> QED
      BY <3>1, <3>2, <2>1, <2>2
  <2>7. \A x, y \in mempool' : x.try = y.try => x = y
    BY <2>3 DEF OneTransactionEach
  <2>8. \A x \in mempool', i \in 1..Len(chain') : x.try # chain'[i].try
    BY <2>1, <2>2, <2>3 DEF OneTransactionEach
  <2>9. \A i, j \in 1..Len(chain') : chain'[i].try = chain'[j].try => i = j
    BY <2>1, <2>2, <2>4 DEF OneTransactionEach
  <2> QED
    BY <2>5, <2>6, <2>7, <2>8, <2>9 DEF OneTransactionEach
<1> QED
  <2>1. CASE BotStep \/ NextCall \/ UNCHANGED vars
    BY <2>1, <1>1, <1>2 DEF BotStep, Estimate, Compose, Broadcast, ReceiptOk, ReceiptReverted,
       ReceiptLost, Register, Record, Caught, NextCall, vars, bot
  <2> QED
    BY <2>1, <1>3, <1>4 DEF Next

-----------------------------------------------------------------------------
(* Counting.  The attempts with a transaction in the pool, those with a      *)
(* successful one on the chain, and those with one that may still succeed.   *)
Pending == {x.try : x \in mempool}
Entered == {chain[i].try : i \in Succeeded}
Live    == Pending \cup Entered

LEMMA ImageBound ==
    ASSUME NEW S, IsFiniteSet(S), NEW f, DOMAIN f = S, NEW T, T = {f[x] : x \in S},
           f = [x \in S |-> f[x]]
    PROVE  /\ IsFiniteSet(T)
           /\ Cardinality(T) <= Cardinality(S)
           /\ (\A x, y \in S : f[x] = f[y] => x = y) => Cardinality(T) = Cardinality(S)
<1>1. f \in Surjection(S, T)
  BY DEF Surjection
<1>2. (\A x, y \in S : f[x] = f[y] => x = y) => f \in Injection(S, T)
  BY <1>1 DEF Injection, IsInjective, Surjection
<1> QED
  BY <1>1, <1>2, FS_Surjection

LEMMA OneMore ==
    ASSUME NEW S, IsFiniteSet(S), NEW x, NEW T, T \subseteq S \cup {x}
    PROVE  /\ IsFiniteSet(T)
           /\ Cardinality(T) \in Nat /\ Cardinality(S) \in Nat
           /\ Cardinality(T) <= Cardinality(S) + 1
<1>1. /\ IsFiniteSet(S \cup {x})
      /\ Cardinality(S \cup {x}) <= Cardinality(S) + 1
      /\ Cardinality(S) \in Nat
  BY FS_AddElement, FS_CardinalityType
<1>2. IsFiniteSet(T) /\ Cardinality(T) <= Cardinality(S \cup {x})
  BY <1>1, FS_Subset
<1>3. Cardinality(T) \in Nat /\ Cardinality(S \cup {x}) \in Nat
  BY <1>1, <1>2, FS_CardinalityType
<1> QED
  BY <1>1, <1>2, <1>3

LEMMA NoMore ==
    ASSUME NEW S, IsFiniteSet(S), NEW T, T \subseteq S
    PROVE  /\ IsFiniteSet(T)
           /\ Cardinality(T) \in Nat /\ Cardinality(S) \in Nat
           /\ Cardinality(T) <= Cardinality(S)
BY FS_Subset, FS_CardinalityType

LEMMA Counts ==
    ASSUME Typed
    PROVE  /\ IsFiniteSet(Succeeded) /\ IsFiniteSet(Entered) /\ IsFiniteSet(Live)
           /\ Cardinality(Succeeded) \in Nat /\ Cardinality(Entered) \in Nat
           /\ Cardinality(Live) \in Nat
           /\ Cardinality(Entered) <= Cardinality(Succeeded)
           /\ OneTransactionEach => Cardinality(Entered) = Cardinality(Succeeded)
<1>1. IsFiniteSet(Succeeded)
  <2>1. IsFiniteSet(1..Len(chain))
    BY FS_Interval, TriesOf
  <2> QED
    BY <2>1, FS_Subset DEF Succeeded
<1> DEFINE f == [i \in Succeeded |-> chain[i].try]
<1>2. /\ IsFiniteSet(Entered)
      /\ Cardinality(Entered) <= Cardinality(Succeeded)
      /\ (\A x, y \in Succeeded : f[x] = f[y] => x = y) => Cardinality(Entered) = Cardinality(Succeeded)
  <2>1. DOMAIN f = Succeeded /\ Entered = {f[i] : i \in Succeeded} /\ f = [i \in Succeeded |-> f[i]]
    BY DEF Entered
  <2> HIDE DEF f
  <2> QED
    BY <1>1, <2>1, ImageBound
<1>3. OneTransactionEach => \A x, y \in Succeeded : f[x] = f[y] => x = y
  BY DEF OneTransactionEach, Succeeded
<1>4. IsFiniteSet(Pending)
  <2> DEFINE g == [x \in mempool |-> x.try]
  <2>1. DOMAIN g = mempool /\ Pending = {g[x] : x \in mempool} /\ g = [x \in mempool |-> g[x]]
    BY DEF Pending
  <2>2. IsFiniteSet(mempool)
    BY DEF Typed
  <2> HIDE DEF g
  <2> QED
    BY <2>1, <2>2, ImageBound
<1>5. IsFiniteSet(Live)
  BY <1>2, <1>4, FS_Union DEF Live
<1> QED
  BY <1>1, <1>2, <1>3, <1>5, FS_CardinalityType

(* The attempt in hand has nothing to show before it is broadcast.           *)
LEMMA FreshTry == Typed /\ OneTransactionEach /\ ~Sent => Try \notin Live
BY MadeNotBefore DEF OneTransactionEach, Live, Pending, Entered, Succeeded

LEMMA FreshTryNext == (Typed /\ OneTransactionEach /\ ~Sent => Try \notin Live)'
BY FreshTry, PTL

LEMMA MinedIsEntered == Typed => (MinedAs(TRUE) <=> Try \in Entered)
<1> SUFFICES ASSUME Typed PROVE MinedAs(TRUE) <=> Try \in Entered
  OBVIOUS
<1>1. \A i \in 1..Len(chain) : chain[i] \in Mined
  <2>1. chain \in Seq(Mined)
    BY DEF Typed, TypeOK, Mined
  <2> QED BY <2>1
<1>2. \A m \in Mined : m = [try |-> Try, ok |-> TRUE] <=> m.try = Try /\ m.ok
  BY DEF Mined
<1> QED
  BY <1>1, <1>2 DEF MinedAs, Entered, Succeeded

(* What has succeeded stays, and only a broadcast adds to what may succeed.  *)
LEMMA EnteredStays == Typed /\ [Next]_vars => Entered \subseteq Entered'
<1> SUFFICES ASSUME Typed, [Next]_vars PROVE Entered \subseteq Entered'
  OBVIOUS
<1>1. CASE chain' = chain
  BY <1>1 DEF Entered, Succeeded
<1>2. ASSUME NEW tx \in mempool, Mine(tx)
      PROVE  Entered \subseteq Entered'
  <2>1. /\ Len(chain') = Len(chain) + 1 /\ Len(chain) \in Nat
        /\ \A i \in 1..Len(chain) : chain'[i] = chain[i]
    BY <1>2, AppendedTo, TriesOf
  <2>2. \A i \in 1..Len(chain) : i \in 1..Len(chain')
    BY <2>1
  <2> QED
    BY <2>1, <2>2 DEF Entered, Succeeded
<1> QED
  BY <1>1, <1>2 DEF Next, BotStep, Estimate, Compose, Broadcast, ReceiptOk, ReceiptReverted,
     ReceiptLost, Register, Record, Caught, NextCall, Drop, vars, bot

LEMMA LiveShrinks ==
    Typed /\ [Next]_vars => Live' \subseteq Live \/ (Broadcast /\ Live' \subseteq Live \cup {Try})
<1> SUFFICES ASSUME Typed, [Next]_vars
             PROVE  Live' \subseteq Live \/ (Broadcast /\ Live' \subseteq Live \cup {Try})
  OBVIOUS
<1>1. CASE UNCHANGED <<mempool, chain>>
  BY <1>1 DEF Live, Pending, Entered, Succeeded
<1>2. CASE Broadcast
  BY <1>2 DEF Broadcast, Tx, Live, Pending, Entered, Succeeded
<1>3. ASSUME NEW tx \in mempool, Mine(tx)
      PROVE  Live' \subseteq Live
  <2>1. /\ Len(chain') = Len(chain) + 1 /\ Len(chain) \in Nat
        /\ \A i \in 1..Len(chain) : chain'[i] = chain[i]
        /\ chain'[Len(chain) + 1].try = tx.try
        /\ mempool' \subseteq mempool
    BY <1>3, AppendedTo, TriesOf
  <2>2. Pending' \subseteq Pending
    BY <2>1 DEF Pending
  <2>3. Entered' \subseteq Entered \cup {tx.try}
    <3>1. \A i \in 1..Len(chain') : i \in 1..Len(chain) \/ i = Len(chain) + 1
      BY <2>1
    <3> QED
      BY <2>1, <3>1 DEF Entered, Succeeded
  <2> QED
    BY <2>2, <2>3 DEF Live, Pending
<1>4. ASSUME NEW tx \in mempool, Drop(tx)
      PROVE  Live' \subseteq Live
  BY <1>4 DEF Drop, Live, Pending, Entered, Succeeded
<1> QED
  BY <1>1, <1>2, <1>3, <1>4 DEF Next, BotStep, Estimate, Compose, ReceiptOk, ReceiptReverted,
     ReceiptLost, Register, Record, Caught, NextCall, vars, bot

-----------------------------------------------------------------------------
(* The books.  Registering and recording follow the receipt of a successful  *)
(* add, once per attempt: until an attempt is registered the count is borne  *)
(* by the successes of the other attempts.                                   *)
Unregistered == step \in {"estimate", "compose", "broadcast", "receipt", "register"}
Unrecorded   == Unregistered \/ step = "record"

SaidIsEntered ==
    /\ result = "entered" => step = "done"
    /\ step \in {"register", "record"} \/ result = "entered" => Try \in Entered

BooksFollow ==
    /\ registered <= Cardinality(IF Unregistered THEN Entered \ {Try} ELSE Entered)
    /\ recorded <= Cardinality(IF Unrecorded THEN Entered \ {Try} ELSE Entered)

LEMMA SaidInit == Init => SaidIsEntered
BY DEF Init, SaidIsEntered

LEMMA SaidStep == Typed /\ SaidIsEntered /\ [Next]_vars => SaidIsEntered'
<1> SUFFICES ASSUME Typed, SaidIsEntered, [Next]_vars
             PROVE  SaidIsEntered'
  OBVIOUS
<1>e. Entered \subseteq Entered'
  BY EnteredStays
<1>1. CASE Estimate \/ Compose \/ Broadcast
  BY <1>1 DEF Estimate, Compose, Broadcast, Return, Raise, SaidIsEntered
<1>2. CASE ReceiptOk
  <2>1. Try \in Entered /\ Try' = Try /\ step' = "register" /\ result' = result
    BY <1>2, MinedIsEntered DEF ReceiptOk, Try
  <2> QED
    BY <2>1, <1>e, <1>2 DEF ReceiptOk, SaidIsEntered
<1>3. CASE ReceiptReverted \/ ReceiptLost
  BY <1>3 DEF ReceiptReverted, ReceiptLost, Raise, SaidIsEntered
<1>4. CASE Register \/ Record
  <2>1. Try \in Entered /\ Try' = Try
    BY <1>4 DEF Register, Record, SaidIsEntered, Try
  <2> QED
    BY <2>1, <1>e, <1>4 DEF Register, Record, Raise, Return, SaidIsEntered
<1>5. CASE Caught \/ NextCall
  BY <1>5 DEF Caught, NextCall, Return, SaidIsEntered
<1>6. CASE \/ \E tx \in mempool : Mine(tx) \/ Drop(tx)
           \/ UNCHANGED vars
  <2>1. step' = step /\ result' = result /\ Try' = Try
    BY <1>6 DEF Mine, Drop, vars, bot, Try
  <2> QED
    BY <2>1, <1>e DEF SaidIsEntered
<1> QED
  BY <1>1, <1>2, <1>3, <1>4, <1>5, <1>6 DEF Next, BotStep

LEMMA BooksInit == Init => BooksFollow
<1> SUFFICES ASSUME Init PROVE BooksFollow
  OBVIOUS
<1>1. Entered = {}
  BY DEF Init, Entered, Succeeded
<1>2. Cardinality({}) = 0 /\ Entered \ {Try} = {}
  BY <1>1, FS_EmptySet
<1> QED
  BY <1>1, <1>2 DEF Init, BooksFollow

(* The count without one attempt: no less when the others' successes stay,   *)
(* one less when that attempt has succeeded.                                 *)
LEMMA Without ==
    ASSUME NEW S, IsFiniteSet(S), NEW x
    PROVE  /\ Cardinality(S \ {x}) \in Nat /\ Cardinality(S) \in Nat
           /\ Cardinality(S \ {x}) <= Cardinality(S)
           /\ x \in S => Cardinality(S) = Cardinality(S \ {x}) + 1
           /\ x \notin S => S \ {x} = S
<1>1. /\ IsFiniteSet(S \ {x})
      /\ Cardinality(S \ {x}) = IF x \in S THEN Cardinality(S) - 1 ELSE Cardinality(S)
  BY FS_RemoveElement
<1>2. Cardinality(S \ {x}) \in Nat /\ Cardinality(S) \in Nat
  BY <1>1, FS_CardinalityType
<1>3. x \notin S => S \ {x} = S
  OBVIOUS
<1> QED
  BY <1>1, <1>2, <1>3

LEMMA BooksStep ==
    /\ Typed /\ OneTransactionEach /\ SaidIsEntered /\ BooksFollow /\ [Next]_vars
    /\ Typed' /\ OneTransactionEach'
    => BooksFollow'
<1> SUFFICES ASSUME Typed, OneTransactionEach, SaidIsEntered, BooksFollow, [Next]_vars,
                    Typed', OneTransactionEach'
             PROVE  BooksFollow'
  OBVIOUS
<1>f. IsFiniteSet(Entered)
  BY Counts
<1>g. IsFiniteSet(Entered')
  <2>1. (Typed => IsFiniteSet(Entered))'
    BY Counts, PTL
  <2> QED BY <2>1
<1>e. Entered \subseteq Entered' /\ Entered \ {Try} \subseteq Entered' \ {Try}
  BY EnteredStays
<1>n. /\ Cardinality(Entered) \in Nat /\ Cardinality(Entered') \in Nat
      /\ Cardinality(Entered \ {Try}) \in Nat /\ Cardinality(Entered' \ {Try}) \in Nat
      /\ Cardinality(Entered) <= Cardinality(Entered')
      /\ Cardinality(Entered \ {Try}) <= Cardinality(Entered' \ {Try})
      /\ Cardinality(Entered \ {Try}) <= Cardinality(Entered)
      /\ Cardinality(Entered' \ {Try}) <= Cardinality(Entered')
      /\ Try \in Entered => Cardinality(Entered) = Cardinality(Entered \ {Try}) + 1
  <2>1. IsFiniteSet(Entered' \ {Try})
    BY <1>g, FS_RemoveElement
  <2>2. /\ Cardinality(Entered) <= Cardinality(Entered')
        /\ Cardinality(Entered \ {Try}) <= Cardinality(Entered' \ {Try})
    BY <1>e, <1>g, <2>1, NoMore
  <2>3. /\ Cardinality(Entered \ {Try}) \in Nat /\ Cardinality(Entered) \in Nat
        /\ Cardinality(Entered \ {Try}) <= Cardinality(Entered)
        /\ Try \in Entered => Cardinality(Entered) = Cardinality(Entered \ {Try}) + 1
    BY <1>f, Without
  <2>4. /\ Cardinality(Entered' \ {Try}) \in Nat /\ Cardinality(Entered') \in Nat
        /\ Cardinality(Entered' \ {Try}) <= Cardinality(Entered')
    BY <1>g, Without
  <2> QED
    BY <2>2, <2>3, <2>4
<1>t. registered \in Nat /\ recorded \in Nat
  BY DEF Typed, TypeOK
<1> USE DEF Unregistered, Unrecorded
<1>1. CASE Try' = Try /\ registered' = registered /\ recorded' = recorded
           /\ (Unregistered' => Unregistered) /\ (Unrecorded' => Unrecorded)
  BY <1>1, <1>n, <1>t DEF BooksFollow
<1>2. CASE Register
  <2>1. /\ Try' = Try /\ Try \in Entered /\ step = "register" /\ step' = "record"
        /\ registered' \in {registered, registered + 1} /\ recorded' = recorded
    BY <1>2 DEF Register, SaidIsEntered, Try
  <2> QED
    BY <2>1, <1>n, <1>t DEF BooksFollow
<1>3. CASE Record
  <2>1. /\ Try' = Try /\ Try \in Entered /\ step = "record" /\ step' \in {"caught", "done"}
        /\ recorded' \in {recorded, recorded + 1} /\ registered' = registered
    BY <1>3 DEF Record, SaidIsEntered, Try, Raise, Return
  <2> QED
    BY <2>1, <1>n, <1>t DEF BooksFollow
<1>4. CASE step \in {"caught", "done"} /\ step' \in {"compose", "estimate"}
           /\ registered' = registered /\ recorded' = recorded
  <2>1. Try' \notin Entered'
    BY <1>4, FreshTryNext DEF Sent, Live
  <2>2. Entered' \ {Try'} = Entered'
    BY <2>1
  <2> QED
    BY <1>4, <2>2, <1>n, <1>t DEF BooksFollow
<1>5. CASE BotStep
  <2>1. CASE Caught
    BY <2>1, <1>1, <1>4 DEF Caught, Return, Try
  <2>2. CASE Estimate \/ Compose \/ Broadcast \/ ReceiptOk \/ ReceiptReverted \/ ReceiptLost
    BY <2>2, <1>1 DEF Estimate, Compose, Broadcast, ReceiptOk, ReceiptReverted, ReceiptLost,
       Return, Raise, Try
  <2> QED
    BY <2>1, <2>2, <1>2, <1>3, <1>5 DEF BotStep
<1>6. CASE NextCall
  BY <1>6, <1>4 DEF NextCall
<1>7. CASE \/ \E tx \in mempool : Mine(tx) \/ Drop(tx)
           \/ UNCHANGED vars
  BY <1>7, <1>1 DEF Mine, Drop, vars, bot, Try
<1> QED
  BY <1>5, <1>6, <1>7 DEF Next

-----------------------------------------------------------------------------
(* The doubts.  While a receipt is awaited, or once the add is known to be   *)
(* on the chain, the attempt in hand is not one the bot has lost sight of;   *)
(* every other attempt that may have succeeded is in doubt, or is one that a *)
(* later call took for none.                                                 *)
InSight == step \in {"receipt", "register", "record"} \/ result = "entered"
OutOfSight == IF InSight THEN Live \ {Try} ELSE Live

DoubtsAreCounted == Cardinality(OutOfSight \ doubts) <= blind

LEMMA DoubtsInit == Init => DoubtsAreCounted
<1> SUFFICES ASSUME Init PROVE DoubtsAreCounted
  OBVIOUS
<1>1. Live = {}
  BY DEF Init, Live, Pending, Entered, Succeeded
<1>2. OutOfSight \ doubts = {}
  BY <1>1 DEF OutOfSight
<1> QED
  BY <1>2, FS_EmptySet DEF Init, DoubtsAreCounted

LEMMA DoubtsStep ==
    /\ Typed /\ OneTransactionEach /\ SaidIsEntered /\ DoubtsAreCounted
    /\ [Next]_vars
    => DoubtsAreCounted'
<1> SUFFICES ASSUME Typed, OneTransactionEach, SaidIsEntered, DoubtsAreCounted, [Next]_vars
             PROVE  DoubtsAreCounted'
  OBVIOUS
<1> DEFINE unknown == OutOfSight \ doubts
<1>f. IsFiniteSet(Live) /\ IsFiniteSet(unknown)
  BY Counts, NoMore DEF OutOfSight
<1>d. blind \in Nat /\ Cardinality(unknown) \in Nat /\ Cardinality(unknown) <= blind
  BY <1>f, FS_CardinalityType DEF Typed, TypeOK, DoubtsAreCounted
<1>s. ASSUME OutOfSight' \ doubts' \subseteq unknown, blind' = blind
      PROVE  DoubtsAreCounted'
  <2> DEFINE T == OutOfSight' \ doubts'
  <2> HIDE DEF unknown
  <2>1. Cardinality(T) \in Nat /\ Cardinality(T) <= Cardinality(unknown)
    BY <1>f, <1>s, NoMore
  <2> QED
    BY <2>1, <1>s, <1>d DEF DoubtsAreCounted
<1>m. ASSUME OutOfSight' \ doubts' \subseteq unknown \cup {Try}, blind' = blind + 1
      PROVE  DoubtsAreCounted'
  <2> DEFINE T == OutOfSight' \ doubts'
  <2> HIDE DEF unknown
  <2>1. Cardinality(T) \in Nat /\ Cardinality(T) <= Cardinality(unknown) + 1
    BY <1>f, <1>m, OneMore
  <2> QED
    BY <2>1, <1>m, <1>d DEF DoubtsAreCounted
<1>l. ~Broadcast => Live' \subseteq Live
  BY LiveShrinks
<1>1. CASE Estimate \/ Compose
  <2>1. /\ ~Broadcast /\ doubts' = doubts /\ blind' = blind /\ Try' = Try
        /\ ~InSight /\ ~InSight'
    BY <1>1 DEF Estimate, Compose, Return, Raise, Broadcast, Try, InSight, SaidIsEntered
  <2> QED
    BY <2>1, <1>l, <1>s DEF OutOfSight
<1>2. CASE Broadcast
  <2>1. ~InSight /\ Try' = Try /\ Live' \subseteq Live \cup {Try} /\ blind' = blind
    BY <1>2, LiveShrinks DEF Broadcast, Try, InSight, SaidIsEntered
  <2>2. CASE step' = "receipt" /\ doubts' = doubts
    BY <2>1, <2>2, <1>s DEF OutOfSight, InSight
  <2>3. CASE mempool' = mempool /\ doubts' = doubts /\ step' = "caught"
    <3>1. Live' = Live
      BY <2>3, <1>2 DEF Broadcast, Live, Pending, Entered, Succeeded
    <3>2. ~InSight'
      BY <2>1, <2>3, <1>2 DEF InSight, Broadcast
    <3> QED
      BY <3>1, <3>2, <2>1, <2>3, <1>s DEF OutOfSight
  <2>4. CASE doubts' = doubts \cup {Try}
    BY <2>1, <2>4, <1>s DEF OutOfSight
  <2> QED
    BY <1>2, <2>2, <2>3, <2>4 DEF Broadcast, Raise
<1>3. CASE ReceiptOk
  <2>1. /\ ~Broadcast /\ doubts' = doubts /\ blind' = blind /\ Try' = Try
        /\ InSight /\ InSight'
    BY <1>3 DEF ReceiptOk, Broadcast, Try, InSight
  <2> QED
    BY <2>1, <1>l, <1>s DEF OutOfSight
<1>4. CASE ReceiptReverted
  <2>1. /\ InSight /\ doubts' = doubts /\ blind' = blind /\ Live' = Live
    BY <1>4 DEF ReceiptReverted, InSight, Live, Pending, Entered, Succeeded
  <2>2. PICK i \in 1..Len(chain) : chain[i] = [try |-> Try, ok |-> FALSE]
    BY <1>4 DEF ReceiptReverted, MinedAs
  <2>3. chain[i].try = Try /\ ~chain[i].ok
    BY <2>2
  <2>4. Try \notin Pending
    BY <2>3 DEF OneTransactionEach, Pending
  <2>5. Try \notin Entered
    BY <2>3 DEF OneTransactionEach, Entered, Succeeded
  <2> QED
    BY <2>1, <2>4, <2>5, <1>s DEF OutOfSight, Live
<1>5. CASE ReceiptLost
  <2>1. /\ InSight /\ doubts' = doubts \cup {Try} /\ blind' = blind /\ Live' = Live
    BY <1>5 DEF ReceiptLost, InSight, Live, Pending, Entered, Succeeded
  <2> QED
    BY <2>1, <1>s DEF OutOfSight
<1>6. CASE Register
  <2>1. /\ ~Broadcast /\ doubts' = doubts /\ blind' = blind /\ Try' = Try
        /\ InSight /\ InSight'
    BY <1>6 DEF Register, Broadcast, Try, InSight
  <2> QED
    BY <2>1, <1>l, <1>s DEF OutOfSight
<1>7. CASE Record
  <2>1. /\ ~Broadcast /\ Try' = Try /\ InSight /\ blind' = blind
        /\ (doubts' = doubts /\ InSight') \/ doubts' = doubts \cup {Try}
    BY <1>7 DEF Record, Return, Raise, Broadcast, Try, InSight
  <2> QED
    BY <2>1, <1>l, <1>s DEF OutOfSight
<1>8. CASE Caught
  <2>1. /\ ~Broadcast /\ doubts' = doubts /\ blind' = blind /\ ~InSight /\ ~InSight'
    BY <1>8 DEF Caught, Return, Broadcast, InSight, SaidIsEntered
  <2> QED
    BY <2>1, <1>l, <1>s DEF OutOfSight
<1>9. CASE NextCall
  <2>1. /\ ~Broadcast /\ doubts' = doubts /\ ~InSight' /\ Live' \subseteq Live
        /\ blind' = IF Succeeded = {} THEN blind ELSE blind + 1
    BY <1>9, <1>l DEF NextCall, Broadcast, InSight
  <2>2. OutOfSight' \ doubts' \subseteq unknown \cup {Try}
    BY <2>1 DEF OutOfSight
  <2>3. CASE Succeeded = {}
    <3>1. ~InSight
      BY <2>3, <1>9 DEF NextCall, InSight, SaidIsEntered, Entered
    <3> QED
      BY <2>1, <2>3, <3>1, <1>s DEF OutOfSight
  <2>4. CASE Succeeded # {}
    BY <2>1, <2>2, <2>4, <1>m
  <2> QED
    BY <2>3, <2>4
<1>10. CASE \/ \E tx \in mempool : Mine(tx) \/ Drop(tx)
            \/ UNCHANGED vars
  <2>1. doubts' = doubts /\ blind' = blind /\ Try' = Try /\ InSight' = InSight
    BY <1>10 DEF Mine, Drop, vars, bot, Try, InSight
  <2>2. Live' \subseteq Live
    <3>1. CASE Broadcast
      BY <3>1, <1>10 DEF Broadcast, Raise, Mine, Drop, vars, bot
    <3> QED
      BY <3>1, <1>l
  <2> QED
    BY <2>1, <2>2, <1>s DEF OutOfSight
<1> QED
  BY <1>1, <1>2, <1>3, <1>4, <1>5, <1>6, <1>7, <1>8, <1>9, <1>10 DEF Next, BotStep

-----------------------------------------------------------------------------
(* The reverts.  What is pending is in doubt or awaited, so a revert that is *)
(* not in doubt is one the bot sees; and what it sees the sender raises,     *)
(* which the loop forgives once, on its first attempt.                       *)
Bad(i) == i \in 1..Len(chain) /\ ~chain[i].ok /\ chain[i].try \notin doubts

RevertsAreSeen ==
    /\ Pending \subseteq doubts \cup (IF step = "receipt" THEN {Try} ELSE {})
    /\ \A i \in 1..Len(chain) : Bad(i) /\ chain[i].try[1] = call /\ chain[i].try[2] >= 2 =>
           /\ chain[i].try = Try
           /\ \/ step \in {"receipt", "done"}
              \/ step = "caught" /\ err = "sender"
    /\ \A i, j \in 1..Len(chain) :
           Bad(i) /\ Bad(j) /\ chain[i].try[1] = chain[j].try[1]
              /\ chain[i].try[2] >= 2 /\ chain[j].try[2] >= 2
           => chain[i].try = chain[j].try

LEMMA RevertsInit == Init => RevertsAreSeen
BY DEF Init, RevertsAreSeen, Pending

LEMMA RevertsStep ==
    /\ Typed /\ OneTransactionEach /\ SaidIsEntered /\ RevertsAreSeen /\ [Next]_vars
    => RevertsAreSeen'
<1> SUFFICES ASSUME Typed, OneTransactionEach, SaidIsEntered, RevertsAreSeen, [Next]_vars
             PROVE  RevertsAreSeen'
  OBVIOUS
<1>t. /\ call \in Nat /\ attempt \in Nat \ {0}
      /\ \A i \in 1..Len(chain) : chain[i].try \in Tries
      /\ \A t \in Tries : t[1] \in Nat /\ t[2] \in Nat /\ t = <<t[1], t[2]>>
  BY ConstantsType, TriesOf DEF Typed, TypeOK, Tries
<1>a. \A i \in 1..Len(chain) : chain[i].try[1] < call \/ chain[i].try[1] = call
  BY <1>t DEF OneTransactionEach, Made, Older, Try
\* A step of the bot in which nothing new goes bad.
<1>b. ASSUME chain' = chain, doubts \subseteq doubts', call' = call,
             Pending' \subseteq doubts' \cup (IF step' = "receipt" THEN {Try'} ELSE {}),
             \A i \in 1..Len(chain) :
                Bad(i) /\ chain[i].try = Try /\ Try \notin doubts' /\ attempt >= 2 =>
                   /\ Try' = Try
                   /\ \/ step' \in {"receipt", "done"}
                      \/ step' = "caught" /\ err' = "sender"
      PROVE  RevertsAreSeen'
  <2>1. \A i \in 1..Len(chain) : Bad(i)' => Bad(i) /\ chain[i].try \notin doubts'
    BY <1>b DEF Bad
  <2>2. \A i \in 1..Len(chain) : chain[i].try = Try => chain[i].try[2] = attempt
    BY DEF Try
  <2> QED
    BY <1>b, <2>1, <2>2 DEF RevertsAreSeen
<1>c. Pending' = Pending \/ mempool' # mempool
  BY DEF Pending
<1>1. CASE Estimate
  BY <1>1, <1>b, <1>c DEF Estimate, Return, Try, RevertsAreSeen
<1>2. CASE Compose
  BY <1>2, <1>b, <1>c DEF Compose, Raise, Try, RevertsAreSeen
<1>3. CASE Broadcast
  <2>1. /\ chain' = chain /\ call' = call /\ Try' = Try /\ doubts \subseteq doubts' /\ ~Sent
        /\ step = "broadcast"
    BY <1>3 DEF Broadcast, Raise, Try, Sent
  <2>2. ~Made(Try)
    BY <2>1, MadeNotBefore
  <2>3. \A i \in 1..Len(chain) : chain[i].try # Try
    BY <2>2 DEF OneTransactionEach
  <2>4. Pending' \subseteq doubts' \cup (IF step' = "receipt" THEN {Try'} ELSE {})
    <3>1. Pending \subseteq doubts
      BY <2>1 DEF RevertsAreSeen
    <3>2. CASE mempool' = mempool \cup {Tx} /\ step' = "receipt"
      BY <2>1, <3>1, <3>2 DEF Pending, Tx
    <3>3. CASE mempool' = mempool
      BY <2>1, <3>1, <3>3 DEF Pending
    <3>4. CASE mempool' \in {mempool, mempool \cup {Tx}} /\ doubts' = doubts \cup {Try}
      BY <2>1, <3>1, <3>4 DEF Pending, Tx
    <3> QED
      BY <1>3, <3>2, <3>3, <3>4 DEF Broadcast
  <2> QED
    BY <2>1, <2>3, <2>4, <1>b
<1>4. CASE ReceiptOk
  <2>1. PICK k \in 1..Len(chain) : chain[k] = [try |-> Try, ok |-> TRUE]
    BY <1>4 DEF ReceiptOk, MinedAs
  <2>2. chain[k].try = Try /\ chain[k].ok
    BY <2>1
  <2>3. Try \notin Pending /\ \A i \in 1..Len(chain) : chain[i].try = Try => chain[i].ok
    BY <2>2 DEF OneTransactionEach, Pending
  <2> QED
    BY <1>4, <1>b, <1>c, <2>3 DEF ReceiptOk, Try, Bad, RevertsAreSeen
<1>5. CASE ReceiptReverted
  <2>1. PICK k \in 1..Len(chain) : chain[k] = [try |-> Try, ok |-> FALSE]
    BY <1>5 DEF ReceiptReverted, MinedAs
  <2>2. chain[k].try = Try
    BY <2>1
  <2>3. Try \notin Pending
    BY <2>2 DEF OneTransactionEach, Pending
  <2> QED
    BY <1>5, <1>b, <1>c, <2>3 DEF ReceiptReverted, Raise, Try, RevertsAreSeen
<1>6. CASE ReceiptLost
  BY <1>6, <1>b, <1>c DEF ReceiptLost, Raise, Try, RevertsAreSeen
<1>7. CASE Register \/ Record
  <2>1. Try \in Entered
    BY <1>7 DEF Register, Record, SaidIsEntered
  <2>2. \A i \in 1..Len(chain) : chain[i].try = Try => chain[i].ok
    BY <2>1 DEF Entered, Succeeded, OneTransactionEach
  <2> QED
    BY <1>7, <1>b, <1>c, <2>2 DEF Register, Record, Raise, Return, Try, Bad, RevertsAreSeen
<1>8. CASE Caught
  <2>1. /\ chain' = chain /\ call' = call /\ doubts' = doubts /\ Pending' = Pending
        /\ step = "caught"
    BY <1>8, <1>c DEF Caught
  <2>2. ASSUME NEW i \in 1..Len(chain), Bad(i), chain[i].try = Try, attempt >= 2
        PROVE  Try' = Try /\ step' = "done"
    <3>1. err = "sender"
      BY <2>1, <2>2 DEF RevertsAreSeen, Try
    <3> QED
      BY <3>1, <2>2, <1>8 DEF Caught, Final, Return, Try
  <2> QED
    BY <2>1, <2>2, <1>b DEF RevertsAreSeen
<1>9. CASE NextCall
  <2>1. /\ chain' = chain /\ call' = call + 1 /\ doubts' = doubts /\ Pending' = Pending
        /\ step = "done"
    BY <1>9, <1>c DEF NextCall
  <2>2. \A i \in 1..Len(chain) : chain[i].try[1] # call'
    BY <2>1, <1>a, <1>t
  <2>3. \A i \in 1..Len(chain) : Bad(i)' <=> Bad(i)
    BY <2>1 DEF Bad
  <2> QED
    BY <2>1, <2>2, <2>3 DEF RevertsAreSeen
<1>10. ASSUME NEW tx \in mempool, Drop(tx)
       PROVE  RevertsAreSeen'
  <2>1. /\ chain' = chain /\ UNCHANGED bot /\ Pending' \subseteq Pending /\ Try' = Try
    BY <1>10 DEF Drop, Pending, bot, Try
  <2> QED
    BY <2>1, <1>b DEF bot, RevertsAreSeen, Try
<1>11. ASSUME NEW tx \in mempool, Mine(tx)
       PROVE  RevertsAreSeen'
  <2>1. /\ Len(chain') = Len(chain) + 1 /\ Len(chain) \in Nat
        /\ \A i \in 1..Len(chain) : chain'[i] = chain[i]
        /\ chain'[Len(chain) + 1].try = tx.try
        /\ mempool' \subseteq mempool /\ UNCHANGED bot /\ Try' = Try
    BY <1>11, AppendedTo, TriesOf DEF bot, Try
  <2>u. UNCHANGED <<step, call, attempt, err, doubts>>
    BY <2>1 DEF bot
  <2>2. \A i \in 1..Len(chain') : i \in 1..Len(chain) \/ i = Len(chain) + 1
    BY <2>1
  <2>3. Pending' \subseteq Pending /\ tx.try \in Pending
    BY <2>1 DEF Pending
  <2>4. tx.try \notin doubts => tx.try = Try /\ step = "receipt"
    BY <2>3 DEF RevertsAreSeen
  <2>5. \A i \in 1..Len(chain) : Bad(i)' => Bad(i)
    BY <2>1, <2>u DEF Bad
  <2>6. ASSUME NEW i \in 1..Len(chain'), Bad(i)', chain'[i].try[1] = call', chain'[i].try[2] >= 2
        PROVE  /\ chain'[i].try = Try'
               /\ \/ step' \in {"receipt", "done"}
                  \/ step' = "caught" /\ err' = "sender"
    <3>1. CASE i \in 1..Len(chain)
      BY <3>1, <2>1, <2>u, <2>5, <2>6 DEF RevertsAreSeen
    <3>2. CASE i = Len(chain) + 1
      BY <3>2, <2>1, <2>u, <2>4, <2>6 DEF Bad
    <3> QED
      BY <2>2, <3>1, <3>2
  <2>7. ASSUME NEW i \in 1..Len(chain'), NEW j \in 1..Len(chain'), Bad(i)', Bad(j)',
               chain'[i].try[1] = chain'[j].try[1],
               chain'[i].try[2] >= 2, chain'[j].try[2] >= 2
        PROVE  chain'[i].try = chain'[j].try
    <3>1. CASE i \in 1..Len(chain) /\ j \in 1..Len(chain)
      BY <3>1, <2>1, <2>5, <2>7 DEF RevertsAreSeen
    <3>2. CASE i = Len(chain) + 1 \/ j = Len(chain) + 1
      <4>1. tx.try = Try /\ Try[1] = call
        BY <3>2, <2>1, <2>u, <2>4, <2>7 DEF Bad, Try
      <4>2. chain'[i].try[1] = call' /\ chain'[j].try[1] = call'
        BY <4>1, <3>2, <2>1, <2>u, <2>7
      <4> QED
        BY <4>2, <2>6, <2>7
    <3> QED
      BY <2>2, <3>1, <3>2
  <2>8. Pending' \subseteq doubts' \cup (IF step' = "receipt" THEN {Try'} ELSE {})
    BY <2>1, <2>3, <2>u DEF RevertsAreSeen
  <2> QED
    BY <2>6, <2>7, <2>8 DEF RevertsAreSeen
<1>12. CASE UNCHANGED vars
  BY <1>12, <1>b, <1>c DEF vars, bot, Try, RevertsAreSeen
<1> QED
  BY <1>1, <1>2, <1>3, <1>4, <1>5, <1>6, <1>7, <1>8, <1>9, <1>10, <1>11, <1>12
     DEF Next, BotStep

-----------------------------------------------------------------------------
(* The invariant behind the theorems, in one piece. *)
EntryInv ==
    /\ Typed
    /\ OneTransactionEach
    /\ SaidIsEntered
    /\ BooksFollow
    /\ DoubtsAreCounted
    /\ RevertsAreSeen

LEMMA EntryInvariant == Spec => []EntryInv
<1>1. Init => EntryInv
  BY TypeInit, OneEachInit, SaidInit, BooksInit, DoubtsInit, RevertsInit DEF EntryInv
<1>2. EntryInv /\ [Next]_vars => EntryInv'
  BY TypeStep, OneEachStep, SaidStep, BooksStep, DoubtsStep, RevertsStep DEF EntryInv
<1> QED
  BY <1>1, <1>2, PTL DEF Spec

(* Neither the registry nor the analytics is ever told of an add the chain   *)
(* has not run, whichever receipts are lost and whichever attempts repeated  *)
(* (_register_position and record_operation come after the receipt).         *)
THEOREM EntryBooksNeverAhead == Spec => []BooksNeverAhead
<1>1. EntryInv => BooksNeverAhead
  <2> SUFFICES ASSUME EntryInv PROVE BooksNeverAhead
    OBVIOUS
  <2>1. IsFiniteSet(Entered) /\ Cardinality(Succeeded) \in Nat
        /\ Cardinality(Entered) <= Cardinality(Succeeded)
    BY Counts DEF EntryInv
  <2>2. /\ Cardinality(Entered \ {Try}) \in Nat /\ Cardinality(Entered) \in Nat
        /\ Cardinality(Entered \ {Try}) <= Cardinality(Entered)
    BY <2>1, Without
  <2>3. registered \in Nat /\ recorded \in Nat
    BY DEF EntryInv, Typed, TypeOK
  <2> QED
    BY <2>1, <2>2, <2>3 DEF EntryInv, BooksFollow, BooksNeverAhead
<1> QED
  BY <1>1, EntryInvariant, PTL

(* A call that says it entered did (the result of                            *)
(* _create_position_with_retry against the chain).                           *)
THEOREM EntryIsOnChain == Spec => []EnteredIsOnChain
<1>1. EntryInv => EnteredIsOnChain
  BY MinedIsEntered DEF EntryInv, SaidIsEntered, EnteredIsOnChain
<1> QED
  BY <1>1, EntryInvariant, PTL

(* However many endpoints there are to try, a call pays for at most two      *)
(* reverted adds besides those whose receipts it gave up waiting for (the    *)
(* except branch of _create_position_with_retry, which takes an error of the *)
(* sender for final from the second attempt on).                             *)
THEOREM EntryRevertsTwiceAtMost == Spec => []AtMostTwoReverts
<1>1. EntryInv => AtMostTwoReverts
  <2> SUFFICES ASSUME EntryInv, NEW c \in 1..MaxCalls
               PROVE  Cardinality({i \in Reverted(c) : chain[i].try \notin doubts}) <= 2
    BY DEF AtMostTwoReverts
  <2> DEFINE bad == {i \in Reverted(c) : chain[i].try \notin doubts}
  <2>1. \A i \in bad : i \in 1..Len(chain) /\ Bad(i) /\ chain[i].try[1] = c
    BY DEF Reverted, Bad
  <2>2. \A i \in bad : chain[i].try[2] >= 2 \/ chain[i].try = <<c, 1>>
    <3>1. \A t \in Tries : t[1] = c => t[2] >= 2 \/ t = <<c, 1>>
      BY ConstantsType DEF Tries
    <3> QED
      BY <2>1, <3>1, TriesOf DEF EntryInv
  <2>3. \A i, j \in bad : (chain[i].try[2] >= 2 <=> chain[j].try[2] >= 2) => i = j
    <3> SUFFICES ASSUME NEW i \in bad, NEW j \in bad,
                        chain[i].try[2] >= 2 <=> chain[j].try[2] >= 2
                 PROVE  i = j
      OBVIOUS
    <3>1. chain[i].try = chain[j].try
      <4>1. CASE chain[i].try[2] >= 2
        BY <4>1, <2>1 DEF EntryInv, RevertsAreSeen
      <4>2. CASE ~(chain[i].try[2] >= 2)
        BY <4>2, <2>2
      <4> QED
        BY <4>1, <4>2
    <3> QED
      BY <2>1, <3>1 DEF EntryInv, OneTransactionEach
  <2> HIDE DEF bad
  <2> DEFINE first == CHOOSE i \in bad : ~(chain[i].try[2] >= 2)
             last  == CHOOSE i \in bad : chain[i].try[2] >= 2
  <2>4. bad \subseteq {first} \cup {last}
    BY <2>3
  <2>5. IsFiniteSet({first}) /\ Cardinality({first}) = 1
    BY FS_Singleton
  <2> HIDE DEF first, last
  <2>6. Cardinality(bad) <= Cardinality({first}) + 1
    BY <2>4, <2>5, OneMore
  <2> QED
    BY <2>5, <2>6 DEF bad
<1> QED
  BY <1>1, EntryInvariant, PTL

(* Every add beyond the first is paid for by an attempt that ended without   *)
(* the bot knowing, or keeping in mind, what became of its transaction, or   *)
(* by a call made over an add that the cycle did not see or took for dust:   *)
(* with reliable receipts, analytics and reads the bot never deploys twice.  *)
THEOREM EntryDoublesComeFromDoubt == Spec => []DoublesComeFromDoubt
<1>1. EntryInv => DoublesComeFromDoubt
  <2> SUFFICES ASSUME EntryInv PROVE DoublesComeFromDoubt
    OBVIOUS
  <2>1. /\ IsFiniteSet(Live) /\ IsFiniteSet(Entered)
        /\ Cardinality(Entered) = Cardinality(Succeeded)
    BY Counts DEF EntryInv
  <2> DEFINE unknown == OutOfSight \ doubts
  <2>2. IsFiniteSet(unknown) /\ IsFiniteSet(doubts)
    <3>1. IsFiniteSet(unknown)
      BY <2>1, NoMore DEF OutOfSight
    <3>3. IsFiniteSet(Tries)
      <4>1. IsFiniteSet(1..MaxCalls) /\ IsFiniteSet(1..MaxAttempts)
        BY FS_Interval, ConstantsType
      <4> QED
        BY <4>1, FS_Product DEF Tries
    <3>4. IsFiniteSet(doubts)
      BY <3>3, NoMore DEF EntryInv, Typed, TypeOK
    <3> QED
      BY <3>1, <3>4
  <2>3. Entered \subseteq (unknown \cup doubts) \cup {Try}
    BY DEF OutOfSight, Live
  <2>b. blind \in Nat /\ Cardinality(unknown) <= blind
    BY DEF EntryInv, Typed, TypeOK, DoubtsAreCounted
  <2> HIDE DEF unknown
  <2>4. /\ IsFiniteSet(unknown \cup doubts)
        /\ Cardinality(unknown \cup doubts) <= Cardinality(unknown) + Cardinality(doubts)
        /\ Cardinality(unknown) \in Nat /\ Cardinality(doubts) \in Nat
    <3>1. IsFiniteSet(unknown \cup doubts)
      BY <2>2, FS_Union
    <3>2. IsFiniteSet(unknown \cap doubts)
      BY <2>2, FS_Intersection
    <3>3. Cardinality(unknown \cup doubts) =
              Cardinality(unknown) + Cardinality(doubts) - Cardinality(unknown \cap doubts)
      BY <2>2, FS_Union
    <3>4. /\ Cardinality(unknown) \in Nat /\ Cardinality(doubts) \in Nat
          /\ Cardinality(unknown \cap doubts) \in Nat
      BY <2>2, <3>2, FS_CardinalityType
    <3> QED
      BY <3>1, <3>3, <3>4
  <2> DEFINE known == unknown \cup doubts
  <2>5. /\ Cardinality(Entered) <= Cardinality(known) + 1
        /\ Cardinality(Entered) \in Nat /\ Cardinality(known) \in Nat
    <3> HIDE DEF known
    <3>1. IsFiniteSet(known) /\ Entered \subseteq known \cup {Try}
      BY <2>3, <2>4 DEF known
    <3> QED
      BY <3>1, OneMore
  <2> QED
    BY <2>1, <2>4, <2>5, <2>b DEF DoublesComeFromDoubt
<1> QED
  BY <1>1, EntryInvariant, PTL
=============================================================================
