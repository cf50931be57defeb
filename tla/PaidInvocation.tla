--------------------------- MODULE PaidInvocation ----------------------------
(***************************************************************************)
(* What the seller promises a buyer of an Invocation, whatever processes,  *)
(* retries and crashes are behind it: work starts only for money taken,    *)
(* once; its output is delivered or it fails; and money is returned, once  *)
(* and in full, only for work that failed.                                 *)
(***************************************************************************)
CONSTANT Keys

VARIABLES money, work

invocationVars == <<money, work>>

Init ==
    /\ money = [k \in Keys |-> "none"]
    /\ work = [k \in Keys |-> "none"]

Take(k) ==
    /\ money[k] = "none"
    /\ work[k] = "none"
    /\ money' = [money EXCEPT ![k] = "taken"]
    /\ UNCHANGED work

Start(k) ==
    /\ money[k] = "taken"
    /\ work[k] = "none"
    /\ work' = [work EXCEPT ![k] = "running"]
    /\ UNCHANGED money

Deliver(k) ==
    /\ work[k] = "running"
    /\ work' = [work EXCEPT ![k] = "delivered"]
    /\ UNCHANGED money

Fail(k) ==
    /\ work[k] = "running"
    /\ work' = [work EXCEPT ![k] = "failed"]
    /\ UNCHANGED money

Return(k) ==
    /\ money[k] = "taken"
    /\ work[k] = "failed"
    /\ money' = [money EXCEPT ![k] = "returned"]
    /\ UNCHANGED work

Next == \E k \in Keys : Take(k) \/ Start(k) \/ Deliver(k) \/ Fail(k) \/ Return(k)

Spec == Init /\ [][Next]_invocationVars
=============================================================================
