------------------------ MODULE MCSubscriptionCycle ------------------------
(* SubscriptionCycle with a notice that is parsed anew, and then extended. *)
EXTENDS SubscriptionCycle, CronSchedule
CONSTANTS w1, w2, n1
MCPublished == <<"july", "july", "august">>
=============================================================================
