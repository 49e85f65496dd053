-------------------------- MODULE RpcRotationProofs --------------------------
(***************************************************************************)
(* What holds of the rotation for every list of endpoints, whether the     *)
(* configured one is among them or not, and any number of retries.         *)
(***************************************************************************)
EXTENDS RpcRotation, TLAPS

(* A rotation leaves an endpoint off the list, whatever was on it. *)
LEMMA RotateLeavesOne ==
    ASSUME Rotate PROVE SkipsNeverEverything'
<1>1. Configured \in Endpoints
  BY DEF Endpoints
<1>2. CASE Endpoints \subseteq failed \cup {active}
  BY <1>1, <1>2 DEF Rotate, SkipsNeverEverything, Endpoints
<1>3. CASE ~ Endpoints \subseteq failed \cup {active}
  BY <1>3 DEF Rotate, SkipsNeverEverything, Endpoints
<1> QED
  BY <1>2, <1>3

LEMMA EmptyLeavesOne ==
    ASSUME failed = {} PROVE SkipsNeverEverything
BY DEF SkipsNeverEverything, Endpoints

(* The list of failed endpoints never has all of them, through the calls    *)
(* that rotate, the entries that do, and endpoints that come and go.        *)
THEOREM OneIsLeft == Spec => []SkipsNeverEverything
<1>1. Init => SkipsNeverEverything
  BY EmptyLeavesOne DEF Init
<1>2. SkipsNeverEverything /\ [Next]_vars => SkipsNeverEverything'
  <2> SUFFICES ASSUME SkipsNeverEverything, [Next]_vars
               PROVE  SkipsNeverEverything'
    OBVIOUS
  <2> USE DEF SkipsNeverEverything, Endpoints
  <2>1. ASSUME NEW how \in Ways, Call(how) PROVE SkipsNeverEverything'
    BY <2>1 DEF Call
  <2>2. CASE Answer
    BY <2>2 DEF Answer
  <2>3. CASE Error
    <3>1. Rotate \/ UNCHANGED failed
      BY <2>3 DEF Error
    <3> QED
      BY <3>1, RotateLeavesOne
  <2>4. CASE Unreachable
    BY <2>4 DEF Unreachable
  <2>5. CASE Connect
    BY <2>5 DEF Connect
  <2>6. CASE EntryRotates
    BY <2>6, RotateLeavesOne DEF EntryRotates
  <2>7. CASE EntrySucceeds
    BY <2>7 DEF EntrySucceeds
  <2>8. CASE Change \/ UNCHANGED vars
    BY <2>8 DEF Change, vars
  <2> QED
    BY <2>1, <2>2, <2>3, <2>4, <2>5, <2>6, <2>7, <2>8 DEF Next, ClientStep
<1> QED
  BY <1>1, <1>2, PTL DEF Spec

-----------------------------------------------------------------------------
(* The types.  The places still to try are places of the order in which     *)
(* _connect_with_failover goes through the endpoints.                       *)
LEMMA OrderCovers ==
    /\ \A i \in DOMAIN Order : Order[i] \in Endpoints
    /\ \A e \in Endpoints : \E i \in DOMAIN Order : Order[i] = e
<1>1. Listed \in Seq(Range(Listed)) /\ DOMAIN Listed = 1..Len(Listed) /\ Len(Listed) \in Nat
  BY ListedAssumption
<1>2. Range(Listed) = {Listed[i] : i \in 1..Len(Listed)}
  BY <1>1 DEF Range
<1>3. CASE Configured \in Range(Listed)
  BY <1>1, <1>2, <1>3 DEF Order, Endpoints
<1>4. CASE Configured \notin Range(Listed)
  <2>1. Order = <<Configured>> \o Listed
    BY <1>4 DEF Order
  <2>2. Order \in Seq(Endpoints) /\ Len(Order) = Len(Listed) + 1
    <3>1. <<Configured>> \in Seq(Endpoints) /\ Listed \in Seq(Endpoints)
      BY <1>1 DEF Endpoints
    <3> QED
      BY <2>1, <3>1
  <2>3. Order[1] = Configured /\ \A i \in 1..Len(Listed) : Order[i + 1] = Listed[i]
    BY <1>1, <2>1
  <2>4. ASSUME NEW e \in Endpoints PROVE \E i \in DOMAIN Order : Order[i] = e
    <3>1. CASE e = Configured
      <4>1. 1 \in DOMAIN Order
        BY <1>1, <2>2
      <4> QED
        BY <2>3, <3>1, <4>1
    <3>2. CASE e # Configured
      <4>1. PICK i \in 1..Len(Listed) : Listed[i] = e
        BY <1>2, <3>2 DEF Endpoints
      <4>2. i + 1 \in DOMAIN Order
        BY <1>1, <2>2, <4>1
      <4> QED
        BY <2>3, <4>1, <4>2
    <3> QED
      BY <3>1, <3>2
  <2> QED
    BY <2>2, <2>4
<1> QED
  BY <1>3, <1>4

LEMMA RotateTyped ==
    ASSUME TypeOK, Rotate
    PROVE  /\ failed' \subseteq Endpoints /\ queue' \subseteq DOMAIN Order
           /\ pc' = "connect"
BY DEF TypeOK, Rotate, Tries

LEMMA InitTyped == Init => TypeOK
BY RetriesAssumption DEF Init, TypeOK, Ways, Outcomes

LEMMA StepTyped == TypeOK /\ [Next]_vars => TypeOK'
<1> SUFFICES ASSUME TypeOK, [Next]_vars
             PROVE  TypeOK'
  OBVIOUS
<1>0. MaxRetries \in Nat \ {0} /\ attempt \in 0..MaxRetries
  BY RetriesAssumption DEF TypeOK
<1>1. ASSUME NEW how \in Ways, Call(how) PROVE TypeOK'
  BY <1>0, <1>1 DEF Call, TypeOK
<1>2. CASE Answer
  BY <1>0, <1>2 DEF Answer, End, TypeOK, Outcomes
<1>3. CASE Error
  <2>1. CASE attempt < MaxRetries /\ Rotate /\ attempt' = attempt + 1 /\ UNCHANGED outcome
    <3>1. attempt' \in 0..MaxRetries
      BY <1>0, <2>1
    <3> QED
      BY <1>3, <2>1, <3>1, RotateTyped DEF Error, TypeOK
  <2>2. CASE End("errors") /\ UNCHANGED <<failed, queue>>
    BY <1>0, <1>3, <2>2 DEF Error, End, TypeOK, Outcomes
  <2> QED
    BY <1>3, <2>1, <2>2 DEF Error
<1>4. CASE Unreachable
  BY <1>0, <1>4 DEF Unreachable, End, TypeOK, Outcomes
<1>5. CASE Connect
  <2>1. /\ active' \in Endpoints /\ queue' \subseteq DOMAIN Order
        /\ pc' \in {"idle", "ask", "connect"}
    BY <1>5, OrderCovers DEF Connect, Resume, TypeOK
  <2> QED
    BY <1>5, <2>1 DEF Connect, TypeOK
<1>6. CASE EntryRotates
  BY <1>6, RotateTyped DEF EntryRotates, TypeOK
<1>7. CASE EntrySucceeds
  BY <1>7 DEF EntrySucceeds, TypeOK, Outcomes
<1>8. CASE Change
  BY <1>8 DEF Change, TypeOK
<1>9. CASE UNCHANGED vars
  BY <1>9 DEF vars, TypeOK
<1> QED
  BY <1>1, <1>2, <1>3, <1>4, <1>5, <1>6, <1>7, <1>8, <1>9 DEF Next, ClientStep

(* Every variable has its type; in particular no call is tried more often   *)
(* than max_retries says, for every list and number of retries.             *)
THEOREM RotationTypeCorrect == Spec => []TypeOK
BY InitTyped, StepTyped, PTL DEF Spec

-----------------------------------------------------------------------------
(* What a rotation has still to try is off the list: since the list never   *)
(* has all of the endpoints, the fallback to the whole of them is never     *)
(* taken.                                                                   *)
QueueIsOffTheList == \A i \in queue : Order[i] \notin failed

LEMMA RotateTriesTheRest ==
    ASSUME Rotate PROVE QueueIsOffTheList' /\ queue' # {}
<1>1. PICK e \in Endpoints : e \notin failed'
  BY RotateLeavesOne DEF SkipsNeverEverything
<1>2. PICK i \in DOMAIN Order : Order[i] = e
  BY OrderCovers
<1>3. queue' = Tries(failed') /\ Order' = Order
  BY DEF Rotate, Order
<1>4. Tries(failed') = {j \in DOMAIN Order : Order[j] \notin failed'}
  BY <1>1, <1>2 DEF Tries
<1> QED
  BY <1>1, <1>2, <1>3, <1>4 DEF QueueIsOffTheList

LEMMA QueueStep == QueueIsOffTheList /\ [Next]_vars => QueueIsOffTheList'
<1> SUFFICES ASSUME QueueIsOffTheList, [Next]_vars
             PROVE  QueueIsOffTheList'
  OBVIOUS
<1>0. Order' = Order
  BY DEF Order
<1>1. ASSUME NEW how \in Ways, Call(how) PROVE QueueIsOffTheList'
  BY <1>0, <1>1 DEF Call, QueueIsOffTheList
<1>2. CASE Answer \/ Unreachable
  BY <1>0, <1>2 DEF Answer, Unreachable, QueueIsOffTheList
<1>3. CASE Error
  <2>1. Rotate \/ UNCHANGED <<failed, queue>>
    BY <1>3 DEF Error
  <2> QED
    BY <1>0, <2>1, RotateTriesTheRest DEF QueueIsOffTheList
<1>4. CASE Connect
  <2>1. queue' \subseteq queue /\ failed' = failed
    BY <1>4 DEF Connect
  <2> QED
    BY <1>0, <2>1 DEF QueueIsOffTheList
<1>5. CASE EntryRotates
  BY <1>5, RotateTriesTheRest DEF EntryRotates
<1>6. CASE EntrySucceeds
  BY <1>6 DEF EntrySucceeds, QueueIsOffTheList
<1>7. CASE Change \/ UNCHANGED vars
  BY <1>0, <1>7 DEF Change, vars, QueueIsOffTheList
<1> QED
  BY <1>1, <1>2, <1>3, <1>4, <1>5, <1>6, <1>7 DEF Next, ClientStep

(* A rotation has an endpoint to try, and takes none of the failed ones.    *)
TakesNoFailedEndpoint ==
    [][/\ active' # active => active' \notin failed
       /\ pc # "connect" /\ pc' = "connect" => queue' # {}]_vars

(* A rotation never takes an endpoint that is on the list of failed ones,   *)
(* and every rotation has one to try: the fallback of _connect_with_failover *)
(* to the whole list is dead code.                                          *)
THEOREM RotationAvoidsTheFailed == Spec => TakesNoFailedEndpoint
<1>1. Init => QueueIsOffTheList
  BY DEF Init, QueueIsOffTheList
<1>2. QueueIsOffTheList /\ [Next]_vars =>
        [/\ active' # active => active' \notin failed
         /\ pc # "connect" /\ pc' = "connect" => queue' # {}]_vars
  <2> SUFFICES ASSUME QueueIsOffTheList, Next
               PROVE  /\ active' # active => active' \notin failed
                      /\ pc # "connect" /\ pc' = "connect" => queue' # {}
    OBVIOUS
  <2>1. CASE Connect
    BY <2>1 DEF Connect, QueueIsOffTheList
  <2>2. CASE Error
    <3>1. active' = active /\ (Rotate \/ pc' = "idle")
      BY <2>2 DEF Error, End
    <3> QED
      BY <3>1, RotateTriesTheRest
  <2>3. CASE EntryRotates
    BY <2>3, RotateTriesTheRest DEF EntryRotates
  <2>4. ASSUME NEW how \in Ways, Call(how)
        PROVE  active' = active /\ pc' # "connect"
    BY <2>4 DEF Call
  <2>5. CASE Answer \/ Unreachable \/ EntrySucceeds \/ Change
    BY <2>5 DEF Answer, Unreachable, EntrySucceeds, Change, End
  <2> QED
    BY <2>1, <2>2, <2>3, <2>4, <2>5 DEF Next, ClientStep
<1> QED
  BY <1>1, <1>2, QueueStep, PTL DEF Spec, TakesNoFailedEndpoint
=============================================================================
