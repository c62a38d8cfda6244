---------------------------- MODULE CircuitBreaker ----------------------------
(***************************************************************************)
(* The circuit breaker every PJUD detail request goes through              *)
(* (scrapper/pjud/resilience/circuit_breaker.py), as functions of its      *)
(* state: each method body runs under the breaker's lock, so each is one   *)
(* atomic change of the record.                                            *)
(*                                                                         *)
(* elapsed is the number of ticks since the last recorded failure, counted *)
(* up to the recovery timeout and only while the circuit is open, where it *)
(* matters.  The failure count is told apart only up to the threshold it   *)
(* is compared with.                                                       *)
(***************************************************************************)
EXTENDS Naturals

CONSTANTS
    FailureThreshold,   \* PJUD_CB_FAILURE_THRESHOLD
    RecoveryTimeout,    \* PJUD_CB_RECOVERY_TIMEOUT, in ticks
    HalfOpenMax,        \* half_open_max_calls
    SuccessThreshold    \* success_threshold

ASSUME BreakerAssumption ==
    /\ FailureThreshold \in Nat \ {0}
    /\ RecoveryTimeout \in Nat
    /\ HalfOpenMax \in Nat \ {0}
    /\ SuccessThreshold \in Nat \ {0}

Breaker == [state : {"closed", "open", "half_open"}, failures : 0..FailureThreshold,
            successes : 0..SuccessThreshold, probes : 0..HalfOpenMax,
            elapsed : 0..RecoveryTimeout]

NewBreaker == [state |-> "closed", failures |-> 0, successes |-> 0, probes |-> 0,
               elapsed |-> 0]

AtMost(n, limit) == IF n < limit THEN n ELSE limit

\* _check_state_transition: an open circuit is tried again after the recovery timeout.
Checked(cb) ==
    IF cb.state = "open" /\ cb.elapsed >= RecoveryTimeout
    THEN [cb EXCEPT !.state = "half_open", !.probes = 0, !.successes = 0, !.elapsed = 0]
    ELSE cb

\* call() lets the request through, or raises CircuitOpenError.
Admits(cb) ==
    \/ Checked(cb).state = "closed"
    \/ Checked(cb).state = "half_open" /\ Checked(cb).probes < HalfOpenMax

\* The state after call()'s admission, whether it lets the request through or not.
Entered(cb) ==
    IF Admits(cb) /\ Checked(cb).state = "half_open"
    THEN [Checked(cb) EXCEPT !.probes = @ + 1]
    ELSE Checked(cb)

\* record_success
Succeeded(cb) ==
    CASE cb.state = "half_open" /\ cb.successes + 1 >= SuccessThreshold ->
            [cb EXCEPT !.state = "closed", !.failures = 0, !.successes = 0]
      [] cb.state = "half_open" /\ cb.successes + 1 < SuccessThreshold ->
            [cb EXCEPT !.successes = @ + 1]
      [] cb.state = "closed" -> [cb EXCEPT !.failures = 0]
      [] OTHER -> cb

\* record_failure
Failed(cb) ==
    LET counted == [cb EXCEPT !.failures = AtMost(@ + 1, FailureThreshold), !.elapsed = 0]
    IN  CASE cb.state = "half_open" -> [counted EXCEPT !.state = "open", !.probes = 0]
          [] cb.state = "closed" /\ counted.failures >= FailureThreshold ->
                [counted EXCEPT !.state = "open"]
          [] OTHER -> counted

Later(cb) == [cb EXCEPT !.elapsed = AtMost(@ + 1, RecoveryTimeout)]
=============================================================================
