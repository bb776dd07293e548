--------------------------- MODULE CircuitBreaker ---------------------------
(***************************************************************************)
(* One breaker instance, shared by every concurrent call of one endpoint   *)
(* slice (core/pipeline/builtin/circuit_breaker.py).                       *)
(*                                                                         *)
(* The code runs on one event loop, and no critical section of the         *)
(* breaker's lock awaits anything: each is one action here.  Between the   *)
(* admission of a call and the settling of its result everything else may  *)
(* happen: that gap, and the wait for the lock that opens the settling, is *)
(* where the breaker's hazards are.                                        *)
(***************************************************************************)
EXTENDS Naturals, Sequences, FiniteSets

CONSTANTS
    Calls,            \* places for concurrent calls, each used again and again
    Window,           \* settings.window
    FailureThreshold, \* settings.failure_threshold
    ResetTimeout,     \* settings.reset_timeout, in ticks of the clock
    Outcomes,         \* how the guarded call may end: "ok", "transient", "permanent"
    Cancellable,      \* the calls that run in a cancel scope of their caller
    Manual            \* TRUE iff an operator may use force_open and reset

\* The validators of CircuitBreakerSettings.
ASSUME SettingsAssumption ==
    /\ Window \in Nat \ {0}
    /\ FailureThreshold \in 1..Window
    /\ ResetTimeout \in Nat \ {0}
    /\ Outcomes \subseteq {"ok", "transient", "permanent"}
    /\ Cancellable \subseteq Calls
    /\ Manual \in BOOLEAN

VARIABLES
    state,          \* _state
    window,         \* _window: "transient" stands for True, "ok" for False
    elapsed,        \* monotonic() - _opened_at; it stops at ResetTimeout
    slot,           \* _probe_in_flight: "taken" is True
    pc,             \* where each call is
    probes,         \* history: the probes in flight in this half-open period
    spoilt,         \* history: "yes" once another call's permanent failure has freed the slot
    tally           \* history: transient failures recorded since the window was cleared

breaker == <<state, window, elapsed, slot>>
vars == <<breaker, pc, probes, spoilt, tally>>

\* "ok", "transient" and "permanent": the guarded call has ended that way and
\* its task is about to take the lock to report it.
Phases == {"idle", "calling", "rejected", "ok", "transient", "permanent"}

Init ==
    /\ state = "closed"
    /\ window = <<>>
    /\ elapsed = ResetTimeout
    /\ slot = "free"
    /\ pc = [c \in Calls |-> "idle"]
    /\ probes = {} /\ spoilt = "no"
    /\ tally = 0

-----------------------------------------------------------------------------
(* The window and the transitions *)

\* Mutant: whatever the result, a failure is recorded.
PushFailure(w, result) ==
    LET longer == Append(w, "transient")
    IN  IF Len(longer) > Window THEN Tail(longer) ELSE longer

\* deque(maxlen=window).append
Push(w, result) ==
    LET longer == Append(w, result)
    IN  IF Len(longer) > Window THEN Tail(longer) ELSE longer

\* sum(_window)
Failures(w) == Cardinality({i \in DOMAIN w : w[i] = "transient"})

\* Mutant: the breaker trips one failure late.
TooManyLate(w) == Failures(w) > FailureThreshold

TooMany(w) == Failures(w) >= FailureThreshold

Saturate(n, limit) == IF n < limit THEN n ELSE limit

\* Mutant: the window outlives the closed period.
OpenKeepsWindow ==
    /\ state' = "open"
    /\ elapsed' = 0
    /\ slot' = "free"
    /\ probes' = {} /\ spoilt' = "no"
    /\ tally' = 0
    /\ UNCHANGED window

Open ==
    /\ state' = "open"
    /\ elapsed' = 0
    /\ window' = <<>>
    /\ slot' = "free"
    /\ probes' = {} /\ spoilt' = "no"
    /\ tally' = 0

Close ==
    /\ state' = "closed"
    /\ window' = <<>>
    /\ slot' = "free"
    /\ probes' = {} /\ spoilt' = "no"
    /\ tally' = 0
    /\ UNCHANGED elapsed

-----------------------------------------------------------------------------
(* _admit *)

Go(c, phase) == pc' = [pc EXCEPT ![c] = phase]

AdmitClosed(c) ==
    /\ pc[c] = "idle"
    /\ state = "closed"
    /\ Go(c, "calling")
    /\ UNCHANGED <<breaker, probes, spoilt, tally>>

TimeoutOver == elapsed >= ResetTimeout

\* The first call after the timeout flips the breaker and is the probe.
AdmitAfterTimeout(c) ==
    /\ pc[c] = "idle"
    /\ state = "open" /\ TimeoutOver
    /\ state' = "half_open"
    /\ slot' = "taken"
    /\ probes' = {c}
    /\ Go(c, "calling")
    /\ UNCHANGED <<window, elapsed, spoilt, tally>>

\* Mutant: the slot is not looked at.
AdmitProbeAnyway(c) ==
    /\ pc[c] = "idle"
    /\ state = "half_open"
    /\ slot' = "taken"
    /\ probes' = probes \union {c}
    /\ Go(c, "calling")
    /\ UNCHANGED <<state, window, elapsed, spoilt, tally>>

\* A later call takes the slot when an earlier probe has given it up.
AdmitProbe(c) ==
    /\ pc[c] = "idle"
    /\ state = "half_open" /\ slot = "free"
    /\ slot' = "taken"
    /\ probes' = probes \union {c}
    /\ Go(c, "calling")
    /\ UNCHANGED <<state, window, elapsed, spoilt, tally>>

\* CircuitOpen is raised to the caller.
Reject(c) ==
    /\ pc[c] = "idle"
    /\ \/ state = "open" /\ ~TimeoutOver
       \/ state = "half_open" /\ slot = "taken"
    /\ Go(c, "rejected")
    /\ UNCHANGED <<breaker, probes, spoilt, tally>>

Call(c) == AdmitClosed(c) \/ AdmitAfterTimeout(c) \/ AdmitProbe(c) \/ Reject(c)

\* The caller has its CircuitOpen; its place may serve another call.
Return(c) ==
    /\ pc[c] = "rejected"
    /\ Go(c, "idle")
    /\ UNCHANGED <<breaker, probes, spoilt, tally>>

-----------------------------------------------------------------------------
(* The guarded call ends, and its result is settled under the lock *)

Finish(c, outcome) ==
    /\ pc[c] = "calling"
    /\ Go(c, outcome)
    /\ UNCHANGED <<breaker, probes, spoilt, tally>>

OnSuccess(c) ==
    /\ pc[c] = "ok"
    /\ Go(c, "idle")
    /\ \/ state = "half_open" /\ Close
       \/ /\ state = "closed"
          /\ window' = Push(window, "ok")
          /\ probes' = probes \ {c}
          /\ UNCHANGED <<state, elapsed, slot, spoilt, tally>>
       \/ /\ state = "open"
          /\ probes' = probes \ {c}
          /\ UNCHANGED <<breaker, spoilt, tally>>

\* _on_error, a transient failure
OnTransient(c) ==
    /\ pc[c] = "transient"
    /\ Go(c, "idle")
    /\ LET recorded == Push(window, "transient")
       IN  \/ state = "half_open" /\ Open
           \/ state = "closed" /\ TooMany(recorded) /\ Open
           \/ /\ state = "closed" /\ ~TooMany(recorded)
              /\ window' = recorded
              /\ probes' = probes \ {c}
              /\ tally' = Saturate(tally + 1, FailureThreshold)
              /\ UNCHANGED <<state, elapsed, slot, spoilt>>
           \/ /\ state = "open"
              /\ probes' = probes \ {c}
              /\ UNCHANGED <<breaker, spoilt, tally>>

\* Mutant: a permanent failure keeps the probe slot.
OnPermanentKeepsSlot(c) ==
    /\ pc[c] = "permanent"
    /\ Go(c, "idle")
    /\ probes' = probes \ {c}
    /\ UNCHANGED <<breaker, spoilt, tally>>

\* _on_error, everything else: the slot is released by whoever fails, the
\* probe or a call that was admitted while the breaker was closed.
OnPermanent(c) ==
    /\ pc[c] = "permanent"
    /\ Go(c, "idle")
    /\ slot' = (IF state = "half_open" THEN "free" ELSE slot)
    /\ spoilt' = (IF state = "half_open" /\ probes \ {c} # {} THEN "yes" ELSE spoilt)
    /\ probes' = probes \ {c}
    /\ UNCHANGED <<state, window, elapsed, tally>>

\* The scope of the caller is cancelled.  Every await in it raises, the
\* acquisition of the lock in _on_error and _on_success included: neither
\* body runs and the breaker never learns that the call is gone.
Cancel(c) ==
    /\ c \in Cancellable
    /\ pc[c] \in {"calling", "ok", "transient", "permanent"}
    /\ Go(c, "idle")
    /\ probes' = probes \ {c}
    /\ UNCHANGED <<breaker, spoilt, tally>>

-----------------------------------------------------------------------------
(* Operators and the clock *)

ForceOpen ==
    /\ Manual
    /\ Open
    /\ UNCHANGED pc

Reset ==
    /\ Manual
    /\ \/ state # "closed" /\ Close
       \/ /\ state = "closed"
          /\ window' = <<>>
          /\ slot' = "free"
          /\ tally' = 0
          /\ UNCHANGED <<state, elapsed, probes, spoilt>>
    /\ UNCHANGED pc

Tick ==
    /\ elapsed < ResetTimeout
    /\ elapsed' = elapsed + 1
    /\ UNCHANGED <<state, window, slot, pc, probes, spoilt, tally>>

Settle(c) == OnSuccess(c) \/ OnTransient(c) \/ OnPermanent(c)

Next ==
    \/ \E c \in Calls :
          \/ Call(c) \/ Return(c) \/ Settle(c) \/ Cancel(c)
          \/ \E outcome \in Outcomes : Finish(c, outcome)
    \/ ForceOpen
    \/ Reset
    \/ Tick

Spec == Init /\ [][Next]_vars

\* The loop runs every ready task; the timeout link inside the breaker bounds
\* the guarded call; callers come back; the clock advances.
Fairness ==
    /\ \A c \in Calls :
          /\ WF_vars(Call(c))
          /\ WF_vars(Return(c))
          /\ WF_vars(\E outcome \in Outcomes : Finish(c, outcome))
          /\ WF_vars(Settle(c))
    /\ WF_vars(Tick)

LiveSpec == Spec /\ Fairness

-----------------------------------------------------------------------------
(* Properties *)

TypeOK ==
    /\ state \in {"closed", "open", "half_open"}
    /\ window \in Seq({"ok", "transient"})
    /\ Len(window) <= Window
    /\ elapsed \in 0..ResetTimeout
    /\ slot \in {"free", "taken"}
    /\ pc \in [Calls -> Phases]
    /\ probes \subseteq Calls /\ spoilt \in {"no", "yes"}
    /\ tally \in 0..FailureThreshold

\* A breaker that lets everybody through has seen fewer transient failures in
\* its window than the threshold: no order of results slips past it (_on_error).
ClosedBelowThreshold ==
    state = "closed" => Failures(window) < FailureThreshold

\* Results that arrive while the breaker is open or half-open (of calls that
\* were admitted before) do not seed the window of the next closed period.
WindowOnlyWhileClosed ==
    state # "closed" => window = <<>>

\* After every trip, whoever caused it and however often it was re-armed, no
\* probe leaves before reset_timeout has passed.
HalfOpenOnlyAfterTimeout ==
    state = "half_open" => elapsed >= ResetTimeout

\* The slot is a matter of the half-open state: it is never found taken by the
\* first call of a later half-open period, whatever became of the old probe.
SlotOnlyWhileHalfOpen ==
    slot = "taken" => state = "half_open"

\* Of the calls admitted as probes since the breaker became half-open, at most one
\* is in flight.
AtMostOneProbe ==
    Cardinality(probes) <= 1

\* A probe in flight holds the slot, so that everybody else is rejected.
ProbeHoldsSlot ==
    probes # {} => slot = "taken"

\* "In half-open exactly one probe is let through", whatever is cancelled, forced,
\* reset or late, until a call that was admitted earlier fails permanently while the
\* probe is in flight: it frees the slot of the probe (_on_error), and the code then
\* sends a second one.
OneProbeUnlessSpoilt ==
    spoilt = "no" => AtMostOneProbe /\ ProbeHoldsSlot

\* A result that trips a closed breaker is a transient failure, and at least the
\* FailureThreshold-th one that was recorded since the window was last cleared: those
\* of calls admitted in an earlier closed period are recorded too, a success, a
\* permanent failure or a result that arrives in another state is not among them.
TripJustified ==
    [][(state = "closed" /\ state' = "open" /\ pc' # pc)
          => /\ tally + 1 >= FailureThreshold
             /\ \E c \in Calls : pc[c] = "transient" /\ pc'[c] = "idle"]_vars

\* "Release the probe slot": a half-open breaker that rejects everybody because
\* of a probe does so only until that probe has ended.
ProbeResolves ==
    (state = "half_open" /\ slot = "taken") ~> ~(state = "half_open" /\ slot = "taken")

=============================================================================
