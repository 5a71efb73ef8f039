----------------------------- MODULE RetryPolicy -----------------------------
(***************************************************************************)
(* When the LAN client asks again (_retry_request in                       *)
(* src/openaria/bridge/sdk/_lan.py).  Time is counted in steps of 0.15 s.  *)
(* `asked` is the delay of a Retry-After header, 0 when there is none; a    *)
(* delay above MaxWait stands for every delay the budget never allows, the  *)
(* infinite one included.                                                   *)
(***************************************************************************)
EXTENDS Naturals

CONSTANTS
    MaxAttempts,    \* MAX_REQUEST_ATTEMPTS
    MaxWait         \* MAX_RETRY_WAIT_SECONDS

RetryConstants == MaxAttempts \in Nat \ {0} /\ MaxWait \in Nat

Attempts == 0..MaxAttempts - 1

Delay(attempt, asked) ==
    IF asked > 2 ^ attempt THEN asked ELSE 2 ^ attempt

MayRetry(attempt, waited, asked) ==
    /\ attempt < MaxAttempts - 1
    /\ waited + Delay(attempt, asked) <= MaxWait
=============================================================================
