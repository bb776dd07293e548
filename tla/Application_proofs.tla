-------------------------- MODULE Application_proofs --------------------------
(***************************************************************************)
(* One lifespan at a time, and a running container while it serves, for    *)
(* every set of hosts of every kind.                                       *)
(***************************************************************************)
EXTENDS Application, FiniteSetTheorems, TLAPS

In(h) == at[h] \in Inside

\* The claim is with the one host of the HTTP app that is inside.
ClaimInv ==
    /\ \A h \in Hosts : Http(h) /\ In(h) => running
    /\ running => \E h \in Hosts : Http(h) /\ In(h)
    /\ \A g, h \in Hosts : Http(g) /\ Http(h) /\ In(g) /\ In(h) => g = h

\* Whoever serves, runs a call or runs jobs has been let in and is not stopping.
ServingInv ==
    /\ inner # NoHost => at[inner] = "serving" /\ Http(inner)
    /\ request # NoHost => at[request] \in {"serving", "closing"}
    /\ \A h \in runner : at[h] \in {"opening", "serving", "closing"}

\* Alone and undisturbed, a host that is past the start has a started container, and
\* nobody leaves one behind.
AloneInv ==
    Alone /\ setup.disturbed = "no" =>
        /\ \A h \in Hosts : at[h] \in {"opening", "serving", "closing"} =>
              current # NoHost /\ container[current] = "started"
        /\ current # NoHost =>
              \E h \in Hosts : at[h] \in {"opening", "serving", "closing", "stopping"}

IInv == TypeOK /\ ClaimInv /\ ServingInv /\ AloneInv

-----------------------------------------------------------------------------

LEMMA InitIInv == Init => IInv
  BY ApplicationAssumption
     DEF Init, IInv, TypeOK, ClaimInv, ServingInv, AloneInv, In, Inside, Places, States

\* The claim is a Boolean.
LEMMA ClaimIsBoolean ==
  ASSUME TypeOK, NEW h \in Hosts
  PROVE  /\ Claim(h) => running' \in BOOLEAN /\ (running' <=> running \/ Http(h))
         /\ Over(h) => running' \in BOOLEAN
  BY DEF TypeOK, Claim, Over

\* Type correctness, one action after the other
LEMMA NextTypeOK == TypeOK /\ [Next]_vars => TypeOK'
  <1> SUFFICES ASSUME TypeOK, [Next]_vars PROVE TypeOK'
    OBVIOUS
  <1> USE ApplicationAssumption DEF TypeOK, Places, States, Goes, Http
  <1>1. ASSUME NEW h \in Hosts, Refused(h) \/ Invalid(h) PROVE TypeOK'
    BY <1>1 DEF Refused, Invalid
  <1>2. ASSUME NEW h \in Hosts, Join(h) \/ Begin(h) PROVE TypeOK'
    BY <1>2, ClaimIsBoolean DEF Join, Begin
  <1>3. ASSUME NEW h \in Hosts, Started(h) PROVE TypeOK'
    BY <1>3 DEF Started
  <1>3a. ASSUME NEW h \in Hosts, StartFails(h) PROVE TypeOK'
    <2>1. running' \in BOOLEAN /\ at' = [at EXCEPT ![h] = "done"]
      BY <1>3a, ClaimIsBoolean DEF StartFails, Over
    <2>2. PICK left \in {"stopped", "broken"} : container' = [container EXCEPT ![h] = left]
      BY <1>3a DEF StartFails
    <2> QED
      BY <1>3a, <2>1, <2>2 DEF StartFails
  <1>4. ASSUME NEW h \in Hosts, Opened(h) \/ Leave(h) PROVE TypeOK'
    BY <1>4 DEF Opened, Leave
  <1>5. ASSUME NEW h \in Hosts, StopBegins(h) PROVE TypeOK'
    BY <1>5 DEF StopBegins, RunnerClosed
  <1>6. ASSUME NEW h \in Hosts, NothingToStop(h) PROVE TypeOK'
    BY <1>6 DEF NothingToStop, RunnerClosed, Over
  <1>7. ASSUME NEW h \in Hosts, StopEnds(h) PROVE TypeOK'
    BY <1>7 DEF StopEnds, Forget, Over
  <1>8. ASSUME NEW h \in Hosts, StopRaises(h) PROVE TypeOK'
    BY <1>8 DEF StopRaises, Over
  <1>9. CASE Dispatch \/ Answered \/ UNCHANGED vars
    BY <1>9 DEF Dispatch, Answered, vars
  <1> QED
    BY <1>1, <1>2, <1>3, <1>3a, <1>4, <1>5, <1>6, <1>7, <1>8, <1>9 DEF Next

\* A host that is not of the HTTP app neither claims nor releases.
LEMMA NextClaimInv == TypeOK /\ ClaimInv /\ [Next]_vars => ClaimInv'
  <1> SUFFICES ASSUME TypeOK, ClaimInv, [Next]_vars PROVE ClaimInv'
    OBVIOUS
  <1> USE DEF TypeOK, Places, Inside, Goes, Http, ClaimInv, In
  <1>1. ASSUME NEW h \in Hosts, Refused(h) \/ Invalid(h) PROVE ClaimInv'
    BY <1>1 DEF Refused, Invalid, Admitted
  <1>2. ASSUME NEW h \in Hosts, Join(h) PROVE ClaimInv'
    <2>1. running' <=> running \/ Http(h)
      BY <1>2, ClaimIsBoolean DEF Join
    <2> QED
      BY <1>2, <2>1 DEF Join, Admitted
  <1>3. ASSUME NEW h \in Hosts, Begin(h) PROVE ClaimInv'
    <2>1. running' <=> running \/ Http(h)
      BY <1>3, ClaimIsBoolean DEF Begin
    <2> QED
      BY <1>3, <2>1 DEF Begin, Admitted
  <1>4. ASSUME NEW h \in Hosts, Started(h) PROVE ClaimInv'
    BY <1>4 DEF Started
  <1>5. ASSUME NEW h \in Hosts, Opened(h) \/ Leave(h) PROVE ClaimInv'
    BY <1>5 DEF Opened, Leave
  <1>6. ASSUME NEW h \in Hosts, StopBegins(h) PROVE ClaimInv'
    BY <1>6 DEF StopBegins
  <1>7. ASSUME NEW h \in Hosts, In(h), Over(h), UNCHANGED setup PROVE ClaimInv'
    BY <1>7 DEF Over
  <1>8. ASSUME NEW h \in Hosts, StartFails(h) \/ NothingToStop(h) \/ StopEnds(h) \/ StopRaises(h)
        PROVE ClaimInv'
    BY <1>7, <1>8 DEF StartFails, NothingToStop, StopEnds, StopRaises
  <1>9. CASE Dispatch \/ Answered \/ UNCHANGED vars
    BY <1>9 DEF Dispatch, Answered, vars
  <1> QED
    BY <1>1, <1>2, <1>3, <1>4, <1>5, <1>6, <1>8, <1>9 DEF Next

\* It is the uniqueness of the claim that makes a leaving host the one that serves.
LEMMA NextServingInv == TypeOK /\ ClaimInv /\ ServingInv /\ [Next]_vars => ServingInv'
  <1> SUFFICES ASSUME TypeOK, ClaimInv, ServingInv, [Next]_vars PROVE ServingInv'
    OBVIOUS
  <1> USE ApplicationAssumption DEF TypeOK, Goes, Http, ServingInv
  <1>1. ASSUME NEW h \in Hosts, Refused(h) \/ Invalid(h) PROVE ServingInv'
    BY <1>1 DEF Refused, Invalid, Admitted
  <1>2. ASSUME NEW h \in Hosts, Join(h) \/ Begin(h) PROVE ServingInv'
    BY <1>2 DEF Join, Begin, Admitted
  <1>3. ASSUME NEW h \in Hosts, Started(h) PROVE ServingInv'
    BY <1>3 DEF Started
  <1>3a. ASSUME NEW h \in Hosts, at[h] \in {"starting", "stopping"}, Over(h),
                UNCHANGED <<setup, runner, inner, request>>
         PROVE  ServingInv'
    <2>1. at' = [at EXCEPT ![h] = "done"]
      BY <1>3a DEF Over
    <2> QED
      BY <1>3a, <2>1
  <1>3b. ASSUME NEW h \in Hosts, StartFails(h) PROVE ServingInv'
    BY <1>3a, <1>3b DEF StartFails
  <1>4. ASSUME NEW h \in Hosts, Opened(h) PROVE ServingInv'
    BY <1>4 DEF Opened
  <1>5. ASSUME NEW h \in Hosts, Leave(h) PROVE ServingInv'
    BY <1>5 DEF Leave, ClaimInv, In, Inside, Places
  <1>6. ASSUME NEW h \in Hosts, StopBegins(h) PROVE ServingInv'
    BY <1>6 DEF StopBegins, RunnerClosed
  <1>7. ASSUME NEW h \in Hosts, NothingToStop(h) PROVE ServingInv'
    BY <1>7 DEF NothingToStop, RunnerClosed, Over
  <1>8. ASSUME NEW h \in Hosts, StopEnds(h) \/ StopRaises(h) PROVE ServingInv'
    BY <1>3a, <1>8 DEF StopEnds, StopRaises
  <1>9. CASE Dispatch \/ Answered \/ UNCHANGED vars
    BY <1>9 DEF Dispatch, Answered, vars
  <1> QED
    BY <1>1, <1>2, <1>3, <1>3b, <1>4, <1>5, <1>6, <1>7, <1>8, <1>9 DEF Next

\* With the claim held, no other host starts or stops anything.
LEMMA NextAloneInv == TypeOK /\ ClaimInv /\ AloneInv /\ [Next]_vars => AloneInv'
  <1> SUFFICES ASSUME TypeOK, ClaimInv, AloneInv, [Next]_vars, Alone', setup'.disturbed = "no"
               PROVE AloneInv'
    BY DEF AloneInv
  <1>0. Alone /\ setup.disturbed = "no"
    BY DEF Alone, Http, Next, vars, Refused, Invalid, Join, Begin, Started, StartFails, Opened,
           Leave, StopBegins, NothingToStop, StopEnds, StopRaises, Dispatch, Answered
  <1> USE <1>0, ApplicationAssumption DEF TypeOK, Goes, AloneInv, Alone
  <1>a. ASSUME NEW g \in Hosts, NEW h \in Hosts, In(g), In(h) PROVE g = h
    BY <1>a DEF ClaimInv
  <1>b. ASSUME NEW h \in Hosts, Admitted(h) PROVE current = NoHost /\ \A g \in Hosts : ~In(g)
    BY <1>b DEF Admitted, ClaimInv, In, Inside, Places
  <1>1. ASSUME NEW h \in Hosts, Refused(h) \/ Invalid(h) PROVE AloneInv'
    BY <1>1 DEF Refused, Invalid, Admitted
  <1>2. ASSUME NEW h \in Hosts, Join(h) PROVE AloneInv'
    BY <1>2, <1>b DEF Join
  <1>3. ASSUME NEW h \in Hosts, Begin(h) PROVE AloneInv'
    BY <1>3, <1>b DEF Begin, In, Inside, Places
  <1>4. ASSUME NEW h \in Hosts, Started(h) PROVE AloneInv'
    BY <1>4 DEF Started
  <1>5. ASSUME NEW h \in Hosts, StartFails(h) PROVE AloneInv'
    BY <1>5, <1>a DEF StartFails, Over, In, Inside, Places
  <1>6. ASSUME NEW h \in Hosts, Opened(h) \/ Leave(h) PROVE AloneInv'
    BY <1>6 DEF Opened, Leave
  <1>7. ASSUME NEW h \in Hosts, StopBegins(h) PROVE AloneInv'
    BY <1>7, <1>a DEF StopBegins, In, Inside, Places
  <1>8. ASSUME NEW h \in Hosts, NothingToStop(h) PROVE AloneInv'
    BY <1>8 DEF NothingToStop
  <1>9. ASSUME NEW h \in Hosts, StopEnds(h) PROVE AloneInv'
    BY <1>9, <1>a DEF StopEnds, Forget, Over, In, Inside, Places
  <1>10. ASSUME NEW h \in Hosts, StopRaises(h) PROVE AloneInv'
    BY <1>10 DEF StopRaises
  <1>11. CASE Dispatch \/ Answered \/ UNCHANGED vars
    BY <1>11 DEF Dispatch, Answered, vars
  <1> QED
    BY <1>1, <1>2, <1>3, <1>4, <1>5, <1>6, <1>7, <1>8, <1>9, <1>10, <1>11 DEF Next

LEMMA Inductive == Spec => []IInv
  <1>1. IInv /\ [Next]_vars => IInv'
    BY NextTypeOK, NextClaimInv, NextServingInv, NextAloneInv DEF IInv
  <1> QED
    BY InitIInv, <1>1, PTL DEF Spec

-----------------------------------------------------------------------------

\* Type correctness of App and its hosts
THEOREM TypeCorrect == Spec => []TypeOK
  BY Inductive, PTL DEF IInv

\* MCPHttpApp refuses overlapping lifespans, and one that is over, however it ended,
\* does not keep the claim.
THEOREM ServesOneLifespan == Spec => []OneLifespan
  <1>1. IInv => OneLifespan
    <2> SUFFICES ASSUME IInv PROVE OneLifespan
      OBVIOUS
    <2> DEFINE HttpInside == {h \in Hosts : Http(h) /\ at[h] \in Inside}
    <2>1. CASE running
      <3>1. PICK h \in Hosts : HttpInside = {h}
        BY <2>1 DEF IInv, ClaimInv, In
      <3>2. Cardinality({h}) = 1
        BY FS_Singleton
      <3> QED
        BY <2>1, <3>1, <3>2 DEF IInv, ServingInv, OneLifespan
    <2>2. CASE ~running
      <3>1. HttpInside = {}
        BY <2>2 DEF IInv, ClaimInv, In
      <3>2. Cardinality({}) = 0
        BY FS_EmptySet
      <3> QED
        BY <2>2, <3>1, <3>2 DEF IInv, ServingInv, OneLifespan
    <2> QED
      BY <2>1, <2>2
  <1> QED
    BY Inductive, <1>1, PTL

\* "The app is running exactly while requests can reach it": in an app that is run by HTTP
\* hosts alone, and whose stops neither raise nor are cancelled, for any number of
\* lifespans after one another.
THEOREM RunsWhileServed == Spec => []RunningWhileServed
  <1>1. IInv => RunningWhileServed
    <2> SUFFICES ASSUME IInv, Alone, setup.disturbed = "no", NEW h \in Hosts,
                        h = inner \/ h = request \/ h \in runner
                 PROVE  current # NoHost /\ container[current] = "started"
      BY DEF RunningWhileServed
    <2>1. at[h] \in {"opening", "serving", "closing"}
      BY ApplicationAssumption DEF IInv, ServingInv
    <2> QED
      BY <2>1 DEF IInv, AloneInv
  <1> QED
    BY Inductive, <1>1, PTL

=============================================================================
