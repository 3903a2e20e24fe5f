----------------------- MODULE SubscriptionContract -----------------------
(***************************************************************************)
(* What a subscription promises, with no lock, tick, run or crash in sight:*)
(* its occurrences are consumed one by one and in order, each by a         *)
(* delivered report and in the same step as the inbox hears of it; an      *)
(* occurrence that fails is counted and stays due, and the third failure in*)
(* a row pauses the subscription.                                          *)
(***************************************************************************)
EXTENDS Integers, Sequences

CONSTANTS Notices, Unseen, Patience

VARIABLES
    status,     \* "active" or "paused"
    next,       \* the occurrence that is due next
    failures,   \* how many times in a row it, or an earlier one, has failed
    reported,   \* occurrences whose run has a report
    seen,       \* seen[n]: the version of n that was compared last, or Unseen
    told        \* told[n]: what the inbox has heard of n

contract == <<status, next, failures, reported, seen, told>>

Init ==
    /\ status = "active" /\ next = 1 /\ failures = 0 /\ reported = {}
    /\ seen = [n \in Notices |-> Unseen]
    /\ told = [n \in Notices |-> <<>>]

\* One new event at the most, and only of a notice that has moved.
Hears(n) ==
    \/ told'[n] = told[n] /\ (seen[n] = Unseen => seen'[n] = Unseen)
    \/ /\ seen'[n] # seen[n]
       /\ Len(told'[n]) = Len(told[n]) + 1
       /\ SubSeq(told'[n], 1, Len(told[n])) = told[n]

Deliver ==
    /\ next \in reported
    /\ next' = next + 1
    /\ failures' = 0
    /\ \A n \in Notices : Hears(n)
    /\ UNCHANGED <<status, reported>>

Miss ==
    /\ failures' = failures + 1
    /\ status' = IF failures' >= Patience THEN "paused" ELSE status
    /\ UNCHANGED <<next, reported, seen, told>>

Report ==
    /\ reported \subseteq reported'
    /\ UNCHANGED <<status, next, failures, seen, told>>

Switch ==
    /\ status' \in {"active", "paused"}
    /\ UNCHANGED <<next, failures, reported, seen, told>>

Next == Deliver \/ Miss \/ Report \/ Switch

Spec == Init /\ [][Next]_contract
=============================================================================
