----------------------- MODULE CircuitBreaker_proofs -----------------------
(***************************************************************************)
(* Proofs about CircuitBreaker, for every window, threshold, timeout and   *)
(* set of concurrent calls.                                                *)
(***************************************************************************)
EXTENDS CircuitBreaker, FiniteSetTheorems, TLAPS

-----------------------------------------------------------------------------
(* What the window counts *)

Results == {"ok", "transient"}

FailurePositions(w) == {i \in DOMAIN w : w[i] = "transient"}

\* The count of failures in a window is a natural number.
LEMMA FailuresNat ==
    ASSUME NEW w \in Seq(Results)
    PROVE  /\ IsFiniteSet(FailurePositions(w))
           /\ Failures(w) = Cardinality(FailurePositions(w))
           /\ Failures(w) \in Nat
<1>1. IsFiniteSet(1..Len(w))
  BY FS_Interval
<1>2. FailurePositions(w) \in SUBSET (1..Len(w))
  BY DEF FailurePositions
<1>3. IsFiniteSet(FailurePositions(w))
  BY <1>1, <1>2, FS_Subset
<1> QED
  BY <1>3, FS_CardinalityType DEF Failures, FailurePositions

\* Appending a result adds one failure, or none when the result is a success.
LEMMA AppendFailures ==
    ASSUME NEW w \in Seq(Results)
    PROVE  /\ Failures(Append(w, "transient")) = Failures(w) + 1
           /\ Failures(Append(w, "ok")) = Failures(w)
<1>1. \A r \in Results : Append(w, r) \in Seq(Results)
  OBVIOUS
<1>2. /\ \A r \in Results :
            Failures(Append(w, r)) = Cardinality(FailurePositions(Append(w, r)))
      /\ Failures(w) = Cardinality(FailurePositions(w))
      /\ IsFiniteSet(FailurePositions(w))
  BY <1>1, FailuresNat
<1>3. FailurePositions(Append(w, "transient")) = FailurePositions(w) \union {Len(w) + 1}
  BY DEF FailurePositions, Results
<1>4. FailurePositions(Append(w, "ok")) = FailurePositions(w)
  BY DEF FailurePositions, Results
<1>5. Len(w) + 1 \notin FailurePositions(w)
  BY DEF FailurePositions
<1>6. Cardinality(FailurePositions(w) \union {Len(w) + 1})
        = Cardinality(FailurePositions(w)) + 1
  BY <1>2, <1>5, FS_AddElement
<1> QED
  BY <1>2, <1>3, <1>4, <1>6 DEF Results

\* Dropping the oldest result never adds a failure.
LEMMA TailFailures ==
    ASSUME NEW w \in Seq(Results), w # <<>>
    PROVE  Failures(Tail(w)) <= Failures(w)
<1> DEFINE S == FailurePositions(Tail(w))
           T == FailurePositions(w)
           f == [i \in S |-> i + 1]
<1>1. Tail(w) \in Seq(Results)
  OBVIOUS
<1>2. \A i \in S : i \in Nat /\ i + 1 \in T
  BY DEF FailurePositions
<1>3. f \in Injection(S, T)
  BY <1>2 DEF Injection, IsInjective
<1>4. IsFiniteSet(T) /\ Failures(w) = Cardinality(T) /\ Failures(Tail(w)) = Cardinality(S)
  BY <1>1, FailuresNat
<1>5. Cardinality(S) <= Cardinality(T)
  <2> HIDE DEF S, T, f
  <2> QED
    BY <1>3, <1>4, FS_Injection
<1> QED
  BY <1>4, <1>5

\* What the bounded deque of the code does to the count of failures.
LEMMA PushFailures ==
    ASSUME NEW w \in Seq(Results), Len(w) <= Window, NEW result \in Results
    PROVE  /\ Push(w, result) \in Seq(Results)
           /\ Len(Push(w, result)) <= Window
           /\ Failures(Push(w, result)) \in Nat
           /\ Failures(Push(w, result)) <= Failures(w) + 1
           /\ result = "ok" => Failures(Push(w, result)) <= Failures(w)
<1> DEFINE longer == Append(w, result)
<1>1. longer \in Seq(Results) /\ longer # <<>> /\ Len(longer) = Len(w) + 1
  OBVIOUS
<1>2. /\ Failures(longer) <= Failures(w) + 1
      /\ result = "ok" => Failures(longer) = Failures(w)
  <2>1. Failures(w) \in Nat
    BY FailuresNat
  <2> QED
    BY <2>1, AppendFailures DEF Results
<1>3. Failures(Tail(longer)) <= Failures(longer)
  BY <1>1, TailFailures
<1>4. Push(w, result) = longer \/ Push(w, result) = Tail(longer)
  BY DEF Push
<1>5. Push(w, result) \in Seq(Results) /\ Len(Push(w, result)) <= Window
  BY <1>1, SettingsAssumption DEF Push
<1>6. Failures(w) \in Nat /\ Failures(longer) \in Nat /\ Failures(Push(w, result)) \in Nat
  BY <1>1, <1>5, FailuresNat
<1> HIDE DEF longer
<1>7. Failures(Push(w, result)) <= Failures(longer)
  <2>1. CASE Push(w, result) = longer
    <3>1. Failures(Push(w, result)) = Failures(longer)
      BY <2>1
    <3> QED
      BY <3>1, <1>6
  <2>2. CASE Push(w, result) = Tail(longer)
    <3>1. Failures(Push(w, result)) = Failures(Tail(longer))
      BY <2>2
    <3> QED
      BY <3>1, <1>3
  <2> QED
    BY <2>1, <2>2, <1>4
<1> QED
  BY <1>2, <1>5, <1>6, <1>7

\* An empty window holds no failure.
LEMMA EmptyFailures == Failures(<<>>) = 0
<1>1. {i \in DOMAIN <<>> : <<>>[i] = "transient"} = {}
  OBVIOUS
<1> QED
  BY <1>1, FS_EmptySet DEF Failures

-----------------------------------------------------------------------------
(* The inductive invariant *)

\* The tally, which is never cut by the bound of the window, covers what the
\* window counts.
TallyCoversWindow == Failures(window) <= tally

IInv ==
    /\ TypeOK
    /\ ClosedBelowThreshold
    /\ WindowOnlyWhileClosed
    /\ HalfOpenOnlyAfterTimeout
    /\ SlotOnlyWhileHalfOpen
    /\ TallyCoversWindow

LEMMA InitIInv == Init => IInv
<1> SUFFICES ASSUME Init PROVE IInv
  OBVIOUS
<1>1. Failures(window) = 0
  BY EmptyFailures DEF Init
<1>2. TypeOK
  BY SettingsAssumption DEF Init, TypeOK, Phases
<1>3. ClosedBelowThreshold /\ TallyCoversWindow
  BY <1>1, SettingsAssumption DEF Init, ClosedBelowThreshold, TallyCoversWindow
<1>4. WindowOnlyWhileClosed /\ HalfOpenOnlyAfterTimeout /\ SlotOnlyWhileHalfOpen
  BY DEF Init, WindowOnlyWhileClosed, HalfOpenOnlyAfterTimeout, SlotOnlyWhileHalfOpen
<1> QED
  BY <1>2, <1>3, <1>4 DEF IInv

\* Opening establishes the invariant from any state of the right type.
LEMMA OpenIInv ==
    ASSUME Open, pc' \in [Calls -> Phases]
    PROVE  IInv'
<1>1. Failures(window') = 0
  BY EmptyFailures DEF Open
<1>2. TypeOK'
  BY SettingsAssumption DEF Open, TypeOK
<1>3. ClosedBelowThreshold' /\ TallyCoversWindow'
  BY <1>1, SettingsAssumption DEF Open, ClosedBelowThreshold, TallyCoversWindow
<1>4. WindowOnlyWhileClosed' /\ HalfOpenOnlyAfterTimeout' /\ SlotOnlyWhileHalfOpen'
  BY DEF Open, WindowOnlyWhileClosed, HalfOpenOnlyAfterTimeout, SlotOnlyWhileHalfOpen
<1> QED
  BY <1>2, <1>3, <1>4 DEF IInv

\* So does closing.
LEMMA CloseIInv ==
    ASSUME IInv, Close, pc' \in [Calls -> Phases]
    PROVE  IInv'
<1>1. Failures(window') = 0
  BY EmptyFailures DEF Close
<1>2. TypeOK'
  BY SettingsAssumption DEF Close, TypeOK, IInv
<1>3. ClosedBelowThreshold' /\ TallyCoversWindow'
  BY <1>1, SettingsAssumption DEF Close, ClosedBelowThreshold, TallyCoversWindow
<1>4. WindowOnlyWhileClosed' /\ HalfOpenOnlyAfterTimeout' /\ SlotOnlyWhileHalfOpen'
  BY DEF Close, WindowOnlyWhileClosed, HalfOpenOnlyAfterTimeout, SlotOnlyWhileHalfOpen
<1> QED
  BY <1>2, <1>3, <1>4 DEF IInv

\* Steps that leave the window, the timer and the tally alone, and do not
\* leave the half-open state, preserve it.
LEMMA QuietIInv ==
    ASSUME IInv, pc' \in [Calls -> Phases], probes' \subseteq Calls,
           UNCHANGED <<state, window, elapsed, tally>>, spoilt' \in {"no", "yes"},
           slot' \in {"free", "taken"},
           slot' = "taken" => state = "half_open"
    PROVE  IInv'
<1>1. Failures(window') = Failures(window)
  OBVIOUS
<1> QED
  BY <1>1
     DEF IInv, TypeOK, ClosedBelowThreshold, WindowOnlyWhileClosed,
         HalfOpenOnlyAfterTimeout, SlotOnlyWhileHalfOpen, TallyCoversWindow

LEMMA NextIInv == IInv /\ [Next]_vars => IInv'
<1> SUFFICES ASSUME IInv, [Next]_vars PROVE IInv'
  OBVIOUS
<1> USE DEF IInv
<1>1. ASSUME NEW c \in Calls, AdmitClosed(c) \/ AdmitProbe(c) \/ Reject(c) \/ Return(c)
      PROVE  IInv'
  <2>1. pc' \in [Calls -> Phases]
    BY <1>1 DEF AdmitClosed, AdmitProbe, Reject, Return, Go, TypeOK, Phases
  <2>2. /\ UNCHANGED <<state, window, elapsed, tally>>
        /\ probes' \subseteq Calls /\ spoilt' \in {"no", "yes"}
        /\ slot' \in {"free", "taken"}
        /\ slot' = "taken" => state = "half_open"
    BY <1>1 DEF AdmitClosed, AdmitProbe, Reject, Return, TypeOK, breaker, SlotOnlyWhileHalfOpen
  <2> QED
    BY <2>1, <2>2, QuietIInv
<1>2. ASSUME NEW c \in Calls, AdmitAfterTimeout(c)
      PROVE  IInv'
  <2>1. pc' \in [Calls -> Phases]
    BY <1>2 DEF AdmitAfterTimeout, Go, TypeOK, Phases
  <2>2. Failures(window') = Failures(window)
    BY <1>2 DEF AdmitAfterTimeout
  <2> QED
    BY <1>2, <2>1, <2>2
       DEF AdmitAfterTimeout, TimeoutOver, TypeOK, ClosedBelowThreshold, WindowOnlyWhileClosed,
           HalfOpenOnlyAfterTimeout, SlotOnlyWhileHalfOpen, TallyCoversWindow
<1>3. ASSUME NEW c \in Calls, NEW outcome \in Outcomes, Finish(c, outcome)
      PROVE  IInv'
  <2>1. pc' \in [Calls -> Phases]
    BY <1>3, SettingsAssumption DEF Finish, Go, TypeOK, Phases
  <2> QED
    BY <1>3, <2>1, QuietIInv DEF Finish, breaker, TypeOK, SlotOnlyWhileHalfOpen
<1>4. ASSUME NEW c \in Calls, OnSuccess(c)
      PROVE  IInv'
  <2>1. pc' \in [Calls -> Phases]
    BY <1>4 DEF OnSuccess, Go, TypeOK, Phases
  <2>2. CASE Close
    BY <2>1, <2>2, CloseIInv
  <2>3. CASE /\ state = "closed"
             /\ window' = Push(window, "ok")
             /\ probes' = probes \ {c}
             /\ UNCHANGED <<state, elapsed, slot, spoilt, tally>>
    <3>1. /\ window' \in Seq(Results)
          /\ Len(window') <= Window
          /\ Failures(window') \in Nat
          /\ Failures(window') <= Failures(window)
      <4>1. window \in Seq(Results) /\ Len(window) <= Window /\ "ok" \in Results
        BY DEF TypeOK, Results
      <4> QED
        BY <2>3, <4>1, PushFailures
    <3>2. Failures(window) \in Nat
      BY FailuresNat DEF TypeOK, Results
    <3>3. TypeOK'
      BY <2>1, <2>3, <3>1 DEF TypeOK, Results
    <3>4. ClosedBelowThreshold' /\ TallyCoversWindow'
      BY <2>3, <3>1, <3>2, SettingsAssumption
         DEF TypeOK, ClosedBelowThreshold, TallyCoversWindow
    <3> QED
      BY <2>3, <3>3, <3>4
         DEF WindowOnlyWhileClosed, HalfOpenOnlyAfterTimeout, SlotOnlyWhileHalfOpen
  <2>4. CASE /\ state = "open"
             /\ probes' = probes \ {c}
             /\ UNCHANGED <<breaker, spoilt, tally>>
    BY <2>1, <2>4, QuietIInv DEF breaker, TypeOK, SlotOnlyWhileHalfOpen
  <2> QED
    BY <1>4, <2>2, <2>3, <2>4 DEF OnSuccess
<1>5. ASSUME NEW c \in Calls, OnTransient(c)
      PROVE  IInv'
  <2> DEFINE recorded == Push(window, "transient")
  <2>1. pc' \in [Calls -> Phases]
    BY <1>5 DEF OnTransient, Go, TypeOK, Phases
  <2>2. CASE Open
    BY <2>1, <2>2, OpenIInv
  <2>3. CASE /\ state = "closed" /\ ~TooMany(recorded)
             /\ window' = recorded
             /\ probes' = probes \ {c}
             /\ tally' = Saturate(tally + 1, FailureThreshold)
             /\ UNCHANGED <<state, elapsed, slot, spoilt>>
    <3>1. /\ window' \in Seq(Results)
          /\ Len(window') <= Window
          /\ Failures(window') \in Nat
          /\ Failures(window') <= Failures(window) + 1
      <4>1. window \in Seq(Results) /\ Len(window) <= Window /\ "transient" \in Results
        BY DEF TypeOK, Results
      <4> QED
        BY <2>3, <4>1, PushFailures
    <3>2. Failures(window) \in Nat
      BY FailuresNat DEF TypeOK, Results
    <3>0. Failures(window') < FailureThreshold
      BY <2>3, <3>1, SettingsAssumption DEF TooMany
    <3>3. tally' \in 0..FailureThreshold /\ Failures(window') <= tally'
      BY <2>3, <3>0, <3>1, <3>2, SettingsAssumption DEF TypeOK, TallyCoversWindow, Saturate
    <3>4. TypeOK'
      BY <2>1, <2>3, <3>1, <3>3 DEF TypeOK, Results
    <3>5. ClosedBelowThreshold' /\ TallyCoversWindow'
      BY <2>3, <3>0, <3>3 DEF ClosedBelowThreshold, TallyCoversWindow
    <3> QED
      BY <2>3, <3>4, <3>5
         DEF WindowOnlyWhileClosed, HalfOpenOnlyAfterTimeout, SlotOnlyWhileHalfOpen
  <2>4. CASE /\ state = "open"
             /\ probes' = probes \ {c}
             /\ UNCHANGED <<breaker, spoilt, tally>>
    BY <2>1, <2>4, QuietIInv DEF breaker, TypeOK, SlotOnlyWhileHalfOpen
  <2> QED
    BY <1>5, <2>2, <2>3, <2>4 DEF OnTransient
<1>6. ASSUME NEW c \in Calls, OnPermanent(c) \/ Cancel(c)
      PROVE  IInv'
  <2>1. pc' \in [Calls -> Phases]
    BY <1>6 DEF OnPermanent, Cancel, Go, TypeOK, Phases
  <2> QED
    BY <1>6, <2>1, QuietIInv DEF OnPermanent, Cancel, breaker, TypeOK, SlotOnlyWhileHalfOpen
<1>7. CASE ForceOpen
  BY <1>7, OpenIInv DEF ForceOpen, TypeOK
<1>8. CASE Reset
  <2>1. CASE Close
    BY <1>8, <2>1, CloseIInv DEF Reset, TypeOK
  <2>2. CASE /\ state = "closed"
             /\ window' = <<>>
             /\ slot' = "free"
             /\ tally' = 0
             /\ UNCHANGED <<state, elapsed, probes, spoilt>>
    <3>1. Failures(window') = 0
      BY <2>2, EmptyFailures
    <3> QED
      BY <1>8, <2>2, <3>1, SettingsAssumption
         DEF Reset, TypeOK, ClosedBelowThreshold, WindowOnlyWhileClosed,
             HalfOpenOnlyAfterTimeout, SlotOnlyWhileHalfOpen, TallyCoversWindow
  <2> QED
    BY <1>8, <2>1, <2>2 DEF Reset
<1>9. CASE Tick
  <2>1. Failures(window') = Failures(window)
    BY <1>9 DEF Tick
  <2> QED
    BY <1>9, <2>1, SettingsAssumption
       DEF Tick, TypeOK, ClosedBelowThreshold, WindowOnlyWhileClosed,
           HalfOpenOnlyAfterTimeout, SlotOnlyWhileHalfOpen, TallyCoversWindow
<1>10. CASE UNCHANGED vars
  <2>1. Failures(window') = Failures(window)
    BY <1>10 DEF vars, breaker
  <2> QED
    BY <1>10, <2>1
       DEF vars, breaker, TypeOK, ClosedBelowThreshold, WindowOnlyWhileClosed,
           HalfOpenOnlyAfterTimeout, SlotOnlyWhileHalfOpen, TallyCoversWindow
<1> QED
  BY <1>1, <1>2, <1>3, <1>4, <1>5, <1>6, <1>7, <1>8, <1>9, <1>10
     DEF Next, Call, Settle

LEMMA Invariance == Spec => []IInv
<1> QED
  BY InitIInv, NextIInv, PTL DEF Spec

-----------------------------------------------------------------------------
(* The theorems *)

\* Type correctness.
THEOREM TypeCorrect == Spec => []TypeOK
<1>1. IInv => TypeOK
  BY DEF IInv
<1> QED
  BY <1>1, Invariance, PTL

\* However results interleave, a closed breaker has fewer transient failures in
\* its window than the threshold (_on_error trips at once).
THEOREM Trips == Spec => []ClosedBelowThreshold
<1>1. IInv => ClosedBelowThreshold
  BY DEF IInv
<1> QED
  BY <1>1, Invariance, PTL

\* Stale results leave no trace in the window of an open or half-open breaker.
THEOREM NoStaleWindow == Spec => []WindowOnlyWhileClosed
<1>1. IInv => WindowOnlyWhileClosed
  BY DEF IInv
<1> QED
  BY <1>1, Invariance, PTL

\* No probe leaves before reset_timeout has passed since the last opening.
THEOREM TimeoutRespected == Spec => []HalfOpenOnlyAfterTimeout
<1>1. IInv => HalfOpenOnlyAfterTimeout
  BY DEF IInv
<1> QED
  BY <1>1, Invariance, PTL

\* The probe slot is free whenever the breaker is not half-open.
THEOREM SlotFreed == Spec => []SlotOnlyWhileHalfOpen
<1>1. IInv => SlotOnlyWhileHalfOpen
  BY DEF IInv
<1> QED
  BY <1>1, Invariance, PTL

\* A result that trips the breaker is a transient failure, and at least the
\* failure_threshold-th that was recorded since the window was cleared, those of calls
\* admitted in an earlier closed period included.
THEOREM OnlyTransientFailuresTrip == Spec => TripJustified
<1>1. IInv /\ [Next]_vars
        => [(state = "closed" /\ state' = "open" /\ pc' # pc)
              => /\ tally + 1 >= FailureThreshold
                 /\ \E c \in Calls : pc[c] = "transient" /\ pc'[c] = "idle"]_vars
  <2> SUFFICES ASSUME IInv, Next, state = "closed", state' = "open", pc' # pc
               PROVE  /\ tally + 1 >= FailureThreshold
                      /\ \E c \in Calls : pc[c] = "transient" /\ pc'[c] = "idle"
    OBVIOUS
  <2>1. PICK c \in Calls : OnTransient(c)
    BY DEF Next, Call, Settle, AdmitClosed, AdmitAfterTimeout, AdmitProbe, Reject, Return,
           Finish, OnSuccess, OnPermanent, Cancel, ForceOpen, Reset, Tick, Close, breaker
  <2>2. pc[c] = "transient" /\ pc'[c] = "idle"
    BY <2>1 DEF OnTransient, Go, IInv, TypeOK
  <2>3. Failures(Push(window, "transient")) >= FailureThreshold
    BY <2>1 DEF OnTransient, TooMany, breaker
  <2>4. /\ Failures(Push(window, "transient")) <= Failures(window) + 1
        /\ Failures(Push(window, "transient")) \in Nat
        /\ Failures(window) \in Nat
    BY PushFailures, FailuresNat DEF IInv, TypeOK, Results
  <2> QED
    BY <2>2, <2>3, <2>4, SettingsAssumption DEF IInv, TypeOK, TallyCoversWindow
<1> QED
  BY <1>1, Invariance, PTL DEF Spec, TripJustified

-----------------------------------------------------------------------------
(* The probe *)

\* Until a permanent failure of another call frees the slot, it goes together with
\* the one probe in flight.
ProbeInv ==
    spoilt = "no" => /\ \A c, d \in probes : c = d
                     /\ ProbeHoldsSlot

\* Of the probes of a half-open period at most one is in flight, and it holds the slot,
\* cancelled calls, permanent failures of the probe itself, force_open and reset
\* included, until another call's permanent failure frees the slot under it: the proviso
\* that the code needs and its docstring omits.
THEOREM OneProbe == Spec => []OneProbeUnlessSpoilt
<1> DEFINE J == IInv /\ ProbeInv
<1>1. Init => J
  BY InitIInv DEF Init, ProbeInv, ProbeHoldsSlot
<1>2. J /\ [Next]_vars => J'
  <2> SUFFICES ASSUME J, [Next]_vars PROVE ProbeInv'
    BY NextIInv
  <2> USE DEF IInv, TypeOK, ProbeInv, ProbeHoldsSlot
  <2>1. ASSUME NEW c \in Calls, AdmitClosed(c) \/ Reject(c) \/ Return(c)
        PROVE  ProbeInv'
    BY <2>1 DEF AdmitClosed, Reject, Return, Go, breaker
  <2>2. ASSUME NEW c \in Calls, AdmitAfterTimeout(c) \/ AdmitProbe(c)
        PROVE  ProbeInv'
    BY <2>2 DEF AdmitAfterTimeout, AdmitProbe, Go
  <2>3. ASSUME NEW c \in Calls, NEW outcome \in Outcomes, Finish(c, outcome)
        PROVE  ProbeInv'
    BY <2>3 DEF Finish, Go, breaker
  <2>4. ASSUME NEW c \in Calls, OnSuccess(c)
        PROVE  ProbeInv'
    BY <2>4 DEF OnSuccess, Close, Go, breaker
  <2>5. ASSUME NEW c \in Calls, OnTransient(c)
        PROVE  ProbeInv'
    BY <2>5 DEF OnTransient, Open, Go, breaker
  <2>6. ASSUME NEW c \in Calls, OnPermanent(c)
        PROVE  ProbeInv'
    <3>1. CASE state = "half_open" /\ probes \ {c} # {}
      BY <2>6, <3>1 DEF OnPermanent
    <3>2. CASE state # "half_open"
      BY <2>6, <3>2 DEF OnPermanent
    <3>3. CASE probes \ {c} = {}
      BY <2>6, <3>3 DEF OnPermanent
    <3> QED
      BY <3>1, <3>2, <3>3
  <2>7. ASSUME NEW c \in Calls, Cancel(c)
        PROVE  ProbeInv'
    BY <2>7 DEF Cancel, Go, breaker
  <2>8. CASE ForceOpen \/ Reset \/ Tick \/ UNCHANGED vars
    BY <2>8, SettingsAssumption
       DEF ForceOpen, Reset, Tick, vars, breaker, Open, Close, SlotOnlyWhileHalfOpen
  <2> QED
    BY <2>1, <2>2, <2>3, <2>4, <2>5, <2>6, <2>7, <2>8 DEF Next, Call, Settle
<1>3. J => OneProbeUnlessSpoilt
  <2> SUFFICES ASSUME J, spoilt = "no" PROVE ProbeHoldsSlot /\ Cardinality(probes) <= 1
    BY DEF OneProbeUnlessSpoilt, AtMostOneProbe
  <2>1. CASE probes = {}
    BY <2>1, FS_EmptySet DEF ProbeInv
  <2>2. CASE probes # {}
    <3>1. PICK c \in probes : probes = {c}
      BY <2>2 DEF ProbeInv
    <3>2. Cardinality({c}) = 1
      BY FS_Singleton
    <3> QED
      BY <3>1, <3>2 DEF ProbeInv
  <2> QED
    BY <2>1, <2>2
<1> QED
  BY <1>1, <1>2, <1>3, PTL DEF Spec

=============================================================================
