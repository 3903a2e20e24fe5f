--------------------------- MODULE RunLifecycle ---------------------------
(***************************************************************************)
(* What the run endpoints promise about a QueryRun row, with no lock,      *)
(* heartbeat, sweep or crash in sight: a run is taken by one execution at  *)
(* a time under a token nobody else acts under, only that execution        *)
(* concludes it, anybody may hand a run that is not concluded back as      *)
(* "retryable", and a concluded run stays concluded.                       *)
(***************************************************************************)
CONSTANTS Executions, NoToken

VARIABLES
    status,     \* QueryRun.status
    owner,      \* the token of the execution that holds the run, or NoToken
    claim       \* claim[e]: the token execution e acts under, or NoToken

lifecycle == <<status, owner, claim>>

Claimable == {"pending", "awaiting_confirmation", "retryable"}
Results   == {"awaiting_confirmation", "completed", "failed"}

Init ==
    /\ status = "pending"
    /\ owner = NoToken
    /\ claim = [e \in Executions |-> NoToken]

Take(e) ==
    /\ status \in Claimable
    /\ status' = "running"
    /\ owner' # NoToken
    /\ \A f \in Executions : claim[f] # owner'
    /\ claim' = [claim EXCEPT ![e] = owner']

Conclude(e, result) ==
    /\ status = "running"
    /\ owner = claim[e]
    /\ status' = result
    /\ owner' = NoToken
    /\ UNCHANGED claim

HandBack ==
    /\ status \in {"pending", "running"}
    /\ status' = "retryable"
    /\ owner' = NoToken

Leave(e) ==
    /\ claim' = [claim EXCEPT ![e] = NoToken]
    /\ \/ UNCHANGED <<status, owner>>
       \/ HandBack

Next ==
    \/ \E e \in Executions : Take(e) \/ Leave(e)
    \/ \E e \in Executions : \E result \in Results : Conclude(e, result)
    \/ HandBack /\ UNCHANGED claim

Spec == Init /\ [][Next]_lifecycle
=============================================================================
