------------------------------ MODULE MCAccess ------------------------------
(***************************************************************************)
(* Three state machines that meet only in the requests of users: codes and *)
(* user rows, tokens, and the rate limiter.  None reads the state of       *)
(* another, so a behaviour follows one of them, chosen at its start.       *)
(***************************************************************************)
EXTENDS SignIn, Tokens, RateLimit, TLC

VARIABLE part

Init == /\ part \in {"sign_in", "tokens", "rate_limit"}
        /\ SignInInit /\ TokensInit /\ LimitInit
Next == \/ /\ part = "sign_in" /\ SignInNext
           /\ UNCHANGED <<part, tokenVars, limitVars>>
        \/ /\ part = "tokens" /\ TokensNext
           /\ UNCHANGED <<part, signInVars, limitVars>>
        \/ /\ part = "rate_limit" /\ LimitNext
           /\ UNCHANGED <<part, signInVars, tokenVars>>
Spec == Init /\ [][Next]_<<part, signInVars, tokenVars, limitVars>>

TypeOK == SignInType /\ TokensType /\ LimitType

\* A strict endpoint and a lenient one, as for signing up and refreshing.
TwoEndpoints == {[limit |-> 1, period |-> 1], [limit |-> 2, period |-> 2]}

Interchangeable == Permutations(Pairs) \cup Permutations(Handlers)
=============================================================================
