----------------------------- MODULE RpcRotation -----------------------------
(***************************************************************************)
(* The RPC client (rpc_client.py): one endpoint in use, a list of those    *)
(* that failed, and calls that are retried after a rotation.  Contracts    *)
(* that LPService and BalanceManager keep were built when the client was,  *)
(* and go on asking the endpoint of that time.  An endpoint that is up     *)
(* answers; one that is not answers with an error, or not at all.          *)
(***************************************************************************)
EXTENDS Integers, Sequences, Functions

CONSTANTS Listed,      \* MANTLE_RPC_ENDPOINTS
          Configured,  \* settings.rpc_url
          MaxRetries   \* max_retries of call_with_retry

ASSUME ListedAssumption  == Listed \in Seq(Range(Listed)) /\ Listed # <<>>
ASSUME RetriesAssumption == MaxRetries \in Nat \ {0}

VARIABLES active,   \* active_rpc_url, the endpoint of w3
          home,     \* the endpoint of the contracts
          failed,   \* _failed_endpoints, as a set
          up,       \* the endpoints that answer
          pc,       \* what the client is doing
          via,      \* how the call under way, or the last one, asks
          attempt,  \* its attempt, or 0 outside of a call
          queue,    \* the places of Order that a rotation has still to try
          outcome   \* how the last call ended

vars == <<active, home, failed, up, pc, via, attempt, queue, outcome>>

Endpoints == Range(Listed) \cup {Configured}
Ways      == {"client", "home"}
Outcomes  == {"none", "answered", "errors", "unreachable"}

(* _connect_with_failover: the configured one first, if the list does not   *)
(* have it; without those to skip, or all of the list if that leaves none.  *)
Order == IF Configured \in Range(Listed) THEN Listed ELSE <<Configured>> \o Listed

Tries(skipped) ==
    LET left == {i \in DOMAIN Order : Order[i] \notin skipped}
    IN  IF left = {} THEN {i \in DOMAIN Order : Order[i] \in Range(Listed)} ELSE left

(* The client has been built: the first endpoint that would connect.        *)
Init ==
    /\ active \in Endpoints /\ home = active
    /\ up \in {e \in SUBSET Endpoints : active \in e}
    /\ failed = {} /\ queue = {}
    /\ pc = "idle" /\ via = "client" /\ attempt = 0 /\ outcome = "none"

-----------------------------------------------------------------------------
(* Endpoints come and go, whatever the client is doing. *)
Change ==
    /\ up' \in SUBSET Endpoints
    /\ up' # up
    /\ UNCHANGED <<active, home, failed, pc, via, attempt, queue, outcome>>

(* A list that is emptied one rotation late: for the check of the           *)
(* properties.                                                              *)
RotateLate ==
    /\ failed' = IF Endpoints \subseteq failed THEN {} ELSE failed \cup {active}
    /\ queue' = Tries(failed')
    /\ pc' = "connect"

(* A rotation that keeps no list: for the check of the properties. *)
RotateForgetfully ==
    /\ UNCHANGED failed
    /\ queue' = Tries(failed)
    /\ pc' = "connect"

(* reconnect, up to the first try: the endpoint in use has failed; when all *)
(* have, the list is emptied.                                               *)
Rotate ==
    /\ failed' = IF Endpoints \subseteq failed \cup {active}
                 THEN {} ELSE failed \cup {active}
    /\ queue' = Tries(failed')
    /\ pc' = "connect"

(* A call of call_with_retry: through the w3 of the client (native balance, *)
(* tokens, logs), or through a contract that was built with it (pool state, *)
(* balances of the bins).                                                   *)
Call(how) ==
    /\ pc = "idle"
    /\ pc' = "ask" /\ via' = how /\ attempt' = 1
    /\ UNCHANGED <<active, home, failed, up, queue, outcome>>

Asked == IF via = "home" THEN home ELSE active

End(how) == pc' = "idle" /\ attempt' = 0 /\ outcome' = how

Answer ==
    /\ pc = "ask"
    /\ Asked \in up
    /\ End("answered")
    /\ UNCHANGED <<active, home, failed, up, via, queue>>

(* HTTPError and Web3RPCError are caught, and the last of them is raised.   *)
Error ==
    /\ pc = "ask"
    /\ Asked \notin up
    /\ \/ attempt < MaxRetries /\ Rotate /\ attempt' = attempt + 1 /\ UNCHANGED outcome
       \/ attempt = MaxRetries /\ End("errors") /\ UNCHANGED <<failed, queue>>
    /\ UNCHANGED <<active, home, up, via>>

(* The ConnectionError and the Timeout of requests are not the builtin ones *)
(* that call_with_retry names: nobody catches them, and nothing is retried. *)
Unreachable ==
    /\ pc = "ask"
    /\ Asked \notin up
    /\ End("unreachable")
    /\ UNCHANGED <<active, home, failed, up, via, queue>>

(* _connect_with_failover goes on to the next endpoint; the first that      *)
(* answers is taken; when none does, reconnect raises, which is swallowed,  *)
(* and the endpoint stays.                                                  *)
Resume == pc' = IF attempt = 0 THEN "idle" ELSE "ask"

Connect ==
    /\ pc = "connect"
    /\ \/ \E i \in queue :
            /\ \A j \in queue : i <= j
            /\ \/ /\ Order[i] \in up
                  /\ active' = Order[i] /\ queue' = {}
                  /\ Resume
               \/ /\ Order[i] \notin up
                  /\ queue' = queue \ {i}
                  /\ UNCHANGED <<active, pc>>
       \/ /\ queue = {}
          /\ Resume
          /\ UNCHANGED <<active, queue>>
    /\ UNCHANGED <<home, failed, up, via, attempt, outcome>>

(* _create_position_with_retry: an attempt that failed in a way a node may  *)
(* be to blame for rotates, one that succeeded empties the list.            *)
EntryRotates ==
    /\ pc = "idle"
    /\ Rotate
    /\ UNCHANGED <<active, home, up, via, attempt, outcome>>

EntrySucceeds ==
    /\ pc = "idle"
    /\ active \in up
    /\ failed' = {}
    /\ outcome' = "answered"
    /\ UNCHANGED <<active, home, up, pc, via, attempt, queue>>

ClientStep ==
    \/ \E how \in Ways : Call(how)
    \/ Answer \/ Error \/ Unreachable \/ Connect

Next == ClientStep \/ EntryRotates \/ EntrySucceeds \/ Change

Spec == Init /\ [][Next]_vars

(* The loop goes on calling, and every request ends, with an answer or not. *)
FairSpec == Spec /\ WF_vars(ClientStep)

-----------------------------------------------------------------------------
(* Every variable has its type. *)
TypeOK ==
    /\ {active, home} \subseteq Endpoints
    /\ failed \subseteq Endpoints /\ up \subseteq Endpoints
    /\ pc \in {"idle", "ask", "connect"}
    /\ via \in Ways
    /\ attempt \in 0..MaxRetries
    /\ queue \subseteq DOMAIN Order
    /\ outcome \in Outcomes

(* The list of failed endpoints never has all of them: there is always one  *)
(* to rotate to, and the list is never passed over because nothing is left. *)
SkipsNeverEverything == ~ Endpoints \subseteq failed

Answered == []<>(outcome = "answered")
Errs(how) == via = how /\ outcome # "unreachable"

(* As long as one endpoint stays up, is not on the list of the failed ones  *)
(* and is not rotated away from, the calls through the client find one that *)
(* answers again and again, if the others at least answer with errors.  (An *)
(* endpoint that is on the list is another matter: the list is not emptied  *)
(* before each of the others has been in use.)                              *)
Stays(e) == e \in up \ failed /\ ~(active = e /\ pc = "connect")

ClientCallsFailOver ==
    \A e \in Endpoints : <>[](Stays(e) /\ Errs("client")) => Answered

(* "Each call_with_retry() tries up to 3 times with endpoint rotation": as  *)
(* long as one endpoint stays up, the reads of the pool are answered again  *)
(* and again.                                                               *)
PoolReadsFailOver ==
    \A e \in Endpoints : <>[](e \in up /\ Errs("home")) => Answered
=============================================================================
