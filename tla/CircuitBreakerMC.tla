------------------------- MODULE CircuitBreakerMC -------------------------
(***************************************************************************)
(* Finite instances of CircuitBreaker.  In half of the behaviours nobody   *)
(* is cancelled and no operator interferes: these are the ones of which    *)
(* KeepsAdmitting speaks.                                                  *)
(***************************************************************************)
EXTENDS CircuitBreaker

AllOutcomes == {"ok", "transient", "permanent"}

VARIABLE undisturbed

MCInit == Init /\ undisturbed \in BOOLEAN

Undisturbed ==
    \/ Tick
    \/ \E c \in Calls :
          \/ Call(c) \/ Return(c) \/ Settle(c)
          \/ \E outcome \in Outcomes : Finish(c, outcome)

MCNext ==
    /\ \/ ~undisturbed /\ Next
       \/ undisturbed /\ Undisturbed
    /\ UNCHANGED undisturbed

MCSpec == MCInit /\ [][MCNext]_<<vars, undisturbed>> /\ Fairness

\* A caller that keeps calling is let through again and again: whatever the order of
\* results, no breaker rejects for ever unless a probe was cancelled (ProbeResolves) or
\* an operator keeps it open.
KeepsAdmitting ==
    undisturbed => []<>(\E c \in Calls : pc[c] = "calling")

=============================================================================
