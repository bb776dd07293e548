----------------------------- MODULE Application -----------------------------
(***************************************************************************)
(* An App and the hosts that run it (runtime/app.py, mcp/http.py,          *)
(* open_server of mcp/server.py).  A host is one entry of a block:         *)
(* App.run(), which App.lifespan() and App.serve() are made of,            *)
(* open_server() of a stdio server, or the lifespan of the one MCPHttpApp. *)
(*                                                                         *)
(* What a block does between two awaits is one step.  A container is named *)
(* by the host that built it: a host builds one at most.                   *)
(***************************************************************************)
EXTENDS Naturals, FiniteSets

CONSTANTS
    Hosts,    \* the entries
    Setups,   \* [kind : [Hosts -> Kinds], disturbed : {"no", "yes"}]
    NoHost    \* None

Kinds == {"run", "stdio", "http"}

ASSUME ApplicationAssumption ==
    /\ NoHost \notin Hosts
    /\ Setups \subseteq [kind : [Hosts -> Kinds], disturbed : {"no", "yes"}]

VARIABLES
    setup,      \* the kinds of the hosts; "disturbed": a component may raise in stop(),
                \* and a host may be cancelled while it stops the app; fixed
    at,         \* where each host is
    container,  \* the container each host has built
    current,    \* App._container: the host that built it
    victim,     \* the container a host is stopping
    runner,     \* the hosts whose task runner is open
    running,    \* MCPHttpApp._running
    inner,      \* MCPHttpApp._inner: the host that serves
    request     \* the host whose server is running a tool call

vars == <<setup, at, container, current, victim, runner, running, inner, request>>

\* "opening": the task runner and the app of the SDK are entered; "closing": they
\* are left.
Places == {"out", "starting", "opening", "serving", "closing", "stopping", "done"}
Inside == Places \ {"out", "done"}

\* _started is true from "started" to the end of "stopping"; a "broken" one has
\* been left half stopped.
States == {"none", "starting", "started", "stopping", "broken", "stopped"}

Http(h) == setup.kind[h] = "http"

Init ==
    /\ setup \in Setups
    /\ at = [h \in Hosts |-> "out"]
    /\ container = [h \in Hosts |-> "none"]
    /\ current = NoHost
    /\ victim = [h \in Hosts |-> NoHost]
    /\ runner = {}
    /\ running = FALSE
    /\ inner = NoHost
    /\ request = NoHost

Goes(h, place) == at' = [at EXCEPT ![h] = place]

\* The block is over, as ended or as failed: the lifespan gives back its claim.
Over(h) ==
    /\ Goes(h, "done")
    /\ running' = IF Http(h) THEN FALSE ELSE running

-----------------------------------------------------------------------------
(* Entering *)

\* MCPHttpApp: one lifespan at a time
Refused(h) ==
    /\ at[h] = "out" /\ Http(h) /\ running
    /\ Goes(h, "done")
    /\ UNCHANGED <<setup, container, current, victim, runner, running, inner, request>>

Admitted(h) == at[h] = "out" /\ ~(Http(h) /\ running)

\* Mutant: the claim is made when the app has started.
ClaimLate(h) == UNCHANGED running

\* Claimed before any await
Claim(h) == running' = (running \/ Http(h))

\* _served_tools or Container.build raises, before anything is started.
Invalid(h) ==
    /\ Admitted(h)
    /\ setup.kind[h] = "run" => current = NoHost
    /\ Goes(h, "done")
    /\ UNCHANGED <<setup, container, current, victim, runner, running, inner, request>>

\* App.start finds a container: no await on the way to the runner, which App.run
\* does without.
Join(h) ==
    /\ Admitted(h) /\ current # NoHost
    /\ Claim(h)
    /\ IF setup.kind[h] = "run"
         THEN Goes(h, "serving") /\ UNCHANGED runner
         ELSE Goes(h, "opening") /\ runner' = runner \union {h}
    /\ UNCHANGED <<setup, container, current, victim, inner, request>>

\* ... or builds one and awaits its start.
Begin(h) ==
    /\ Admitted(h) /\ current = NoHost
    /\ Claim(h)
    /\ Goes(h, "starting")
    /\ container' = [container EXCEPT ![h] = "starting"]
    /\ UNCHANGED <<setup, current, victim, runner, inner, request>>

Started(h) ==
    /\ at[h] = "starting"
    /\ container' = [container EXCEPT ![h] = "started"]
    /\ current' = h
    /\ IF setup.kind[h] = "run"
         THEN Goes(h, "serving") /\ UNCHANGED runner
         ELSE Goes(h, "opening") /\ runner' = runner \union {h}
    /\ UNCHANGED <<setup, victim, running, inner, request>>

\* A required component fails, and Container.start stops what it had started; or the host
\* is cancelled: what it does to stop them is cancelled with it, and raises at its first
\* await, so that some components may be left running.
StartFails(h) ==
    /\ at[h] = "starting"
    /\ \E left \in {"stopped", "broken"} : container' = [container EXCEPT ![h] = left]
    /\ Over(h)
    /\ UNCHANGED <<setup, current, victim, runner, inner, request>>

\* The lifespan of the SDK's app is entered; stdio has none.
Opened(h) ==
    /\ at[h] = "opening"
    /\ Goes(h, "serving")
    /\ inner' = IF Http(h) THEN h ELSE inner
    /\ UNCHANGED <<setup, container, current, victim, runner, running, request>>

\* _dispatch: a request reaches the server, if there is one (it is answered with 503
\* otherwise), and its tool call runs in the task group of the SDK's session manager.
Dispatch ==
    /\ inner # NoHost /\ request = NoHost
    /\ request' = inner
    /\ UNCHANGED <<setup, at, container, current, victim, runner, running, inner>>

Answered ==
    /\ request # NoHost
    /\ request' = NoHost
    /\ UNCHANGED <<setup, at, container, current, victim, runner, running, inner>>

-----------------------------------------------------------------------------
(* Leaving, with whatever exception *)

\* The body is over, or cancelled; or the SDK's app fails to start.  No request
\* gets in any more.
Leave(h) ==
    /\ at[h] \in {"opening", "serving"}
    /\ Goes(h, "closing")
    /\ inner' = IF Http(h) THEN NoHost ELSE inner
    /\ UNCHANGED <<setup, container, current, victim, runner, running, request>>

\* Mutant: the app is stopped while the jobs still run.
ClosedNothing(h) == UNCHANGED <<runner, request>>

\* The session manager and the nursery are cancelled: calls and jobs have unwound.
RunnerClosed(h) ==
    /\ runner' = runner \ {h}
    /\ request' = IF request = h THEN NoHost ELSE request

\* Container.stop, unless it is stopped: one that is being stopped is drained and
\* stopped once more.
StopBegins(h) ==
    /\ at[h] = "closing" /\ current # NoHost
    /\ RunnerClosed(h)
    /\ container[current] # "stopped"
    /\ Goes(h, "stopping")
    /\ victim' = [victim EXCEPT ![h] = current]
    /\ container' = [container EXCEPT ![current] = "stopping"]
    /\ UNCHANGED <<setup, current, running, inner>>

\* App.stop with nothing to stop
NothingToStop(h) ==
    /\ at[h] = "closing"
    /\ current # NoHost => container[current] = "stopped"
    /\ RunnerClosed(h)
    /\ current' = NoHost
    /\ Over(h)
    /\ UNCHANGED <<setup, container, victim, inner>>

\* Whatever it has become meanwhile
Forget == current' = NoHost

StopEnds(h) ==
    /\ at[h] = "stopping"
    /\ container' = [container EXCEPT ![victim[h]] = "stopped"]
    /\ victim' = [victim EXCEPT ![h] = NoHost]
    /\ Forget
    /\ Over(h)
    /\ UNCHANGED <<setup, runner, inner, request>>

\* stop() of a component raises, or the host is cancelled: the app keeps the container.
StopRaises(h) ==
    /\ setup.disturbed = "yes"
    /\ at[h] = "stopping"
    /\ container' = [container EXCEPT ![victim[h]] =
                        IF @ = "stopped" THEN "stopped" ELSE "broken"]
    /\ victim' = [victim EXCEPT ![h] = NoHost]
    /\ Over(h)
    /\ UNCHANGED <<setup, current, runner, inner, request>>

-----------------------------------------------------------------------------

Next ==
    \/ \E h \in Hosts :
          \/ Refused(h) \/ Invalid(h) \/ Join(h) \/ Begin(h)
          \/ Started(h) \/ StartFails(h) \/ Opened(h)
          \/ Leave(h)
          \/ StopBegins(h) \/ NothingToStop(h) \/ StopEnds(h) \/ StopRaises(h)
    \/ Dispatch \/ Answered

Spec == Init /\ [][Next]_vars

-----------------------------------------------------------------------------
(* Properties *)

TypeOK ==
    /\ setup \in Setups
    /\ at \in [Hosts -> Places]
    /\ container \in [Hosts -> States]
    /\ current \in Hosts \union {NoHost}
    /\ victim \in [Hosts -> Hosts \union {NoHost}]
    /\ runner \subseteq Hosts
    /\ running \in BOOLEAN
    /\ inner \in Hosts \union {NoHost} /\ request \in Hosts \union {NoHost}

\* "One instance serves one lifespan at a time": overlapping entries are refused, and
\* a lifespan that fails, wherever it does, can be entered again.
OneLifespan ==
    /\ Cardinality({h \in Hosts : Http(h) /\ at[h] \in Inside}) = IF running THEN 1 ELSE 0
    /\ inner # NoHost => at[inner] = "serving"

\* The hosts that the app is not shared with
Alone == \A h \in Hosts : Http(h)

\* "The app is running exactly while requests can reach it": a request that gets in,
\* its tool call until it ends, and a job in the background find a container that is
\* started, if nobody else runs the app and stops are undisturbed.
RunningWhileServed ==
    Alone /\ setup.disturbed = "no" =>
        \A h \in Hosts :
            h = inner \/ h = request \/ h \in runner => current # NoHost /\ container[current] = "started"

=============================================================================
