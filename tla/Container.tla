----------------------------- MODULE Container -----------------------------
(***************************************************************************)
(* The life of a container (core/composition/container.py): it is built,   *)
(* started, invoked, drained and stopped, over the dependency graph of     *)
(* DependencyGraph.                                                        *)
(*                                                                         *)
(* The calls run concurrently with start() and stop(), which one owner     *)
(* awaits one after the other, as App does.  A step is what runs between   *)
(* two awaits.  A scoped component has one slice here: the tenants of a    *)
(* store and its eviction are the subject of StateStore.                   *)
(***************************************************************************)
EXTENDS DependencyGraph

CONSTANTS
    Lively,  \* the systems that are also started
    Calls    \* concurrent invocations

ASSUME LivelyAssumption == Lively \subseteq Systems

NoCall == "no call"

ASSUME CallsAssumption == IsFiniteSet(Calls) /\ NoCall \notin Calls

VARIABLES
    phase,     \* where start() or stop() is
    layer,     \* the startup layer under way
    inst,      \* the instance of each process component: "none", "starting", "running", "stopping"
    members,   \* the keys of _process
    chains,    \* the components with their chains in _process_chains
    degraded,  \* _degraded
    slice,     \* the slice of each scoped component: "none", "starting", "running", "stopping"
    owner,     \* the call whose resolution creates the slice, under the store's lock
    shut,      \* the scoped stores that are closed
    links,     \* the link store: "open" or "closed"
    call,      \* where each invocation is: [at, on]
    active,    \* _active_calls
    late,      \* history: calls counted after the drain of the stop() under way
    overtime,  \* history: calls that a drain has given up waiting for
    raised     \* history: "yes" once a stop() of an instance has raised

vars == <<gvars, phase, layer, inst, members, chains, degraded, slice, owner,
          shut, links, call, active, late, overtime, raised>>

cvars == <<call, active, late, overtime>>
svars == <<slice, owner, shut, links>>
pvars == <<inst, members, chains, degraded>>

Idle == [at |-> "idle", on |-> 0]

\* _started
Started == phase \in {"up", "draining", "stopping", "closing"}

Init ==
    /\ GraphInit
    /\ phase = "down"
    /\ layer = 0
    /\ inst = [c \in Components |-> "none"]
    /\ members = {} /\ chains = {} /\ degraded = {}
    /\ slice = [c \in Components |-> "none"]
    /\ owner = [c \in Components |-> NoCall]
    /\ shut = {} /\ links = "open"
    /\ call = [k \in Calls |-> Idle]
    /\ active = 0
    /\ late = {} /\ overtime = {} /\ raised = "no"

-----------------------------------------------------------------------------
(* build() *)

Validate ==
    /\ Build
    /\ UNCHANGED <<phase, layer, raised, pvars, svars, cvars>>

-----------------------------------------------------------------------------
(* start() *)

\* Mutant: the whole system is started at once.
InLayerAll(i) == Process

\* The process components of a startup layer
InLayer(i) == layers[i] \intersect Process

Starting == {c \in Process : inst[c] = "starting"}

\* start(): the task group of the first layer.  It may be tried again when it has
\* failed; a container that has been stopped, or could not be, is dropped by its
\* owner.
Start ==
    /\ phase = "down" /\ verdict = "built" /\ sys \in Lively
    /\ members = {} /\ links = "open"
    /\ phase' = "starting" /\ layer' = 1
    /\ inst' = [c \in Components |-> IF c \in InLayer(1) THEN "starting" ELSE inst[c]]
    /\ UNCHANGED <<gvars, raised, members, chains, degraded, svars, cvars>>

\* The task group is left, and the next one entered.
NextLayer ==
    /\ phase = "starting" /\ Starting = {} /\ layer + 1 \in DOMAIN layers
    /\ layer' = layer + 1
    /\ inst' = [c \in Components |-> IF c \in InLayer(layer + 1) THEN "starting" ELSE inst[c]]
    /\ UNCHANGED <<gvars, phase, raised, members, chains, degraded, svars, cvars>>

\* The components whose chains start() builds once all layers are up
Bound == members

StartDone ==
    /\ phase = "starting" /\ Starting = {} /\ layer + 1 \notin DOMAIN layers
    /\ chains' = Bound
    /\ phase' = "up"
    /\ UNCHANGED <<gvars, layer, raised, inst, members, degraded, svars, cvars>>

\* _start_process: start() of the component returns in time, be it after the
\* failure of another one of its layer.
StartOk(c) ==
    /\ phase \in {"starting", "aborting"} /\ inst[c] = "starting"
    /\ inst' = [inst EXCEPT ![c] = "running"]
    /\ members' = members \union {c}
    /\ UNCHANGED <<gvars, phase, layer, raised, chains, degraded, svars, cvars>>

Optional(c) == c \notin Required

\* ... it raises or exceeds init_timeout: the component is degraded, or the task
\* group is cancelled.
StartFails(c) ==
    /\ phase \in {"starting", "aborting"} /\ inst[c] = "starting"
    /\ inst' = [inst EXCEPT ![c] = "none"]
    /\ IF Optional(c)
         THEN degraded' = degraded \union {c} /\ UNCHANGED phase
         ELSE phase' = "aborting" /\ UNCHANGED degraded
    /\ UNCHANGED <<gvars, layer, raised, members, chains, svars, cvars>>

\* The configuration or the constructor refuses, which criticality does not
\* soften: _instantiate is outside the try.
InstantiateFails(c) ==
    /\ phase \in {"starting", "aborting"} /\ inst[c] = "starting"
    /\ inst' = [inst EXCEPT ![c] = "none"]
    /\ phase' = "aborting"
    /\ UNCHANGED <<gvars, layer, raised, members, chains, degraded, svars, cvars>>

\* The owner is cancelled in start(), and the group with it.
OwnerCancels ==
    /\ phase = "starting"
    /\ phase' = "aborting"
    /\ UNCHANGED <<gvars, layer, raised, pvars, svars, cvars>>

\* The cancellation of the group reaches a component that is starting: it is
\* neither a member nor stopped.
StartCancelled(c) ==
    /\ phase = "aborting" /\ inst[c] = "starting"
    /\ inst' = [inst EXCEPT ![c] = "none"]
    /\ UNCHANGED <<gvars, phase, layer, raised, members, chains, degraded, svars, cvars>>

\* Mutant: the failure is passed on at once.
UnwindNothing ==
    /\ phase = "aborting" /\ Starting = {}
    /\ phase' = "down"
    /\ UNCHANGED <<gvars, layer, raised, pvars, svars, cvars>>

\* The handler of start(): stop what has been started.  It runs in the scope of the
\* owner: when that is what was cancelled, the first stop() that waits raises.
Unwind ==
    /\ phase = "aborting" /\ Starting = {}
    /\ phase' = "unwinding"
    /\ UNCHANGED <<gvars, layer, raised, pvars, svars, cvars>>

-----------------------------------------------------------------------------
(* stop() *)

Running == {k \in Calls : call[k].at = "running"}

Stop ==
    /\ phase = "up"
    /\ phase' = "draining"
    /\ UNCHANGED <<gvars, layer, raised, pvars, svars, cvars>>

\* Mutant: a stop() that is due does not look at the calls.
DrainedAtOnce == TRUE

Drained == active = 0

DrainDone ==
    /\ phase = "draining" /\ Drained
    /\ phase' = "stopping"
    /\ UNCHANGED <<gvars, layer, raised, pvars, svars, cvars>>

\* Mutant: the drain has no limit.
DrainForEver == FALSE /\ UNCHANGED vars

\* drain_timeout
DrainTimeout ==
    /\ phase = "draining" /\ active > 0
    /\ phase' = "stopping"
    /\ overtime' = overtime \union Running
    /\ UNCHANGED <<gvars, layer, raised, pvars, svars, call, active, late>>

\* The member that comes first in shutdown_order()
NextToStop == CHOOSE c \in members : \A d \in members \ {c} : StopsBefore(c, d)

\* _stop_process_instances: the instance leaves _process, and its stop() begins.
StopNext ==
    /\ phase \in {"unwinding", "stopping"} /\ members # {}
    /\ \A c \in Process : inst[c] # "stopping"
    /\ inst' = [inst EXCEPT ![NextToStop] = "stopping"]
    /\ members' = members \ {NextToStop}
    /\ UNCHANGED <<gvars, phase, layer, raised, chains, degraded, svars, cvars>>

\* ... and returns, or is given up after drain_timeout,
StopEnds(c) ==
    /\ inst[c] = "stopping"
    /\ inst' = [inst EXCEPT ![c] = "none"]
    /\ UNCHANGED <<gvars, phase, layer, raised, members, chains, degraded, svars, cvars>>

\* ... or it raises, or the owner is cancelled: the rest is left as it is.  A
\* stop() of the container leaves it started, and may be tried again.
StopRaises(c) ==
    /\ inst[c] = "stopping"
    /\ inst' = [inst EXCEPT ![c] = "none"]
    /\ phase' = IF phase = "stopping" THEN "up" ELSE "down"
    /\ raised' = "yes"
    /\ UNCHANGED <<gvars, layer, members, chains, degraded, svars, cvars>>

AllStopped ==
    /\ phase \in {"unwinding", "stopping"} /\ members = {}
    /\ \A c \in Process : inst[c] # "stopping"
    /\ chains' = {}
    /\ phase' = IF phase = "stopping" THEN "closing" ELSE "down"
    /\ UNCHANGED <<gvars, layer, raised, inst, members, degraded, svars, cvars>>

\* One store after the other
BetweenStores == phase = "closing" /\ \A c \in Scoped : slice[c] # "stopping"

\* store.close(), once its lock is free: the stop() of its slice begins, pinned or
\* not.
CloseStore(c) ==
    /\ BetweenStores /\ c \in Scoped \ shut /\ slice[c] # "starting"
    /\ slice' = [slice EXCEPT ![c] = IF slice[c] = "running" THEN "stopping" ELSE "none"]
    /\ shut' = shut \union {c}
    /\ UNCHANGED <<gvars, phase, layer, raised, owner, links, pvars, cvars>>

\* ... and returns, in its own time,
CloseEnds(c) ==
    /\ phase = "closing" /\ slice[c] = "stopping"
    /\ slice' = [slice EXCEPT ![c] = "none"]
    /\ UNCHANGED <<gvars, phase, layer, raised, owner, shut, links, pvars, cvars>>

\* ... or it raises, or the owner is cancelled.
CloseRaises(c) ==
    /\ phase = "closing" /\ slice[c] = "stopping"
    /\ slice' = [slice EXCEPT ![c] = "none"]
    /\ phase' = "up" /\ raised' = "yes"
    /\ UNCHANGED <<gvars, layer, owner, shut, links, pvars, cvars>>

\* The link store is closed, for good, and the container is down.
CloseLinks ==
    /\ BetweenStores /\ Scoped \subseteq shut
    /\ links' = "closed"
    /\ phase' = "down"
    /\ UNCHANGED <<gvars, layer, raised, slice, owner, shut, pvars, cvars>>

-----------------------------------------------------------------------------
(* invoke() *)

\* The call waits for its slice, and is not counted yet.
Enter(k, c) ==
    /\ call' = [call EXCEPT ![k] = [at |-> "resolving", on |-> c]]
    /\ UNCHANGED <<active, late>>

\* From the pin and the count to the chain, with no checkpoint between.
Run(k, c) ==
    /\ call' = [call EXCEPT ![k] = [at |-> "running", on |-> c]]
    /\ active' = active + 1
    /\ late' = IF phase \in {"stopping", "closing"} THEN late \union {k} ELSE late

\* Otherwise: ComponentUnavailable
Available(c) == c \in members

InvokeProcess(k, c) ==
    /\ Started /\ call[k].at = "idle"
    /\ c \in Process /\ Available(c)
    /\ Run(k, c)
    /\ UNCHANGED <<gvars, phase, layer, raised, overtime, pvars, svars>>

InvokeScoped(k, c) ==
    /\ Started /\ call[k].at = "idle"
    /\ c \in Scoped
    /\ Enter(k, c)
    /\ UNCHANGED <<gvars, phase, layer, raised, overtime, pvars, svars>>

\* The slices that k is creating, one within the factory of the other
Creating(k) == {c \in Scoped : owner[c] = k}

\* What k wants next: its own component, or a scoped dependency of one whose
\* factory it is in.
Wanted(k) == {call[k].on} \union UNION {Deps(c) \intersect Scoped : c \in Creating(k)}

\* _scoped_instance, on a miss: the store's lock is taken, and the factory
\* resolves the dependencies.
Create(k, c) ==
    /\ call[k].at = "resolving" /\ c \in Wanted(k)
    /\ c \notin shut /\ slice[c] = "none"
    /\ slice' = [slice EXCEPT ![c] = "starting"]
    /\ owner' = [owner EXCEPT ![c] = k]
    /\ UNCHANGED <<gvars, phase, layer, raised, shut, links, pvars, cvars>>

\* Mutant: a slice is published before what it depends on.
ReadyAtOnce(c) == TRUE

ReadyToStart(c) == \A d \in Deps(c) \intersect Scoped : slice[d] = "running"

\* The instance has started and is published.
Created(k, c) ==
    /\ owner[c] = k /\ ReadyToStart(c)
    /\ slice' = [slice EXCEPT ![c] = "running"]
    /\ owner' = [owner EXCEPT ![c] = NoCall]
    /\ UNCHANGED <<gvars, phase, layer, raised, shut, links, pvars, cvars>>

\* The instance is there, the call's own or another one's making.
Resolved(k) ==
    /\ call[k].at = "resolving" /\ Creating(k) = {}
    /\ call[k].on \notin shut /\ slice[call[k].on] = "running"
    /\ Run(k, call[k].on)
    /\ UNCHANGED <<gvars, phase, layer, raised, overtime, pvars, svars>>

\* A resolution ends without an instance: nothing of it is published.
Drop(k) ==
    /\ call' = [call EXCEPT ![k] = Idle]
    /\ slice' = [c \in Components |-> IF owner[c] = k THEN "none" ELSE slice[c]]
    /\ owner' = [c \in Components |-> IF owner[c] = k THEN NoCall ELSE owner[c]]
    /\ UNCHANGED <<active, late>>

\* A start fails, the wait exceeds init_timeout, or the store is closed: that
\* degrades the optional ones among the components on the way, or the outermost
\* one alone if it is its own time that runs out.
ResolveFails(k) ==
    /\ call[k].at = "resolving"
    /\ Drop(k)
    /\ \E failed \in {{call[k].on}, {call[k].on} \union Creating(k)} :
          degraded' = degraded \union (failed \ Required)
    /\ UNCHANGED <<gvars, phase, layer, raised, overtime, inst, members, chains, shut, links>>

\* The caller is cancelled, or a slice override does not validate.
ResolveAbandoned(k) ==
    /\ call[k].at = "resolving"
    /\ Drop(k)
    /\ UNCHANGED <<gvars, phase, layer, raised, overtime, pvars, shut, links>>

Uncount(k) == active' = active - 1

\* The chain returns, raises or is cancelled.
Return(k) ==
    /\ call[k].at = "running"
    /\ Uncount(k)
    /\ call' = [call EXCEPT ![k] = Idle]
    /\ late' = late \ {k}
    /\ overtime' = overtime \ {k}
    /\ UNCHANGED <<gvars, phase, layer, raised, pvars, svars>>

-----------------------------------------------------------------------------
(* Health *)

\* Mutant: a component that is not running is asked all the same.
OwnStatusPolled(poll) ==
    [c \in Components |-> IF c \in degraded THEN "degraded" ELSE poll[c]]

\* _component_status, poll being what the instances answer
OwnStatus(poll) ==
    [c \in Components |->
        IF c \in degraded THEN "degraded"
        ELSE IF c \in members \/ (c \in Scoped /\ slice[c] = "running") THEN poll[c]
        ELSE IF c \in Scoped THEN "ok" ELSE "unhealthy"]

\* The instances that are asked
Polled == members \union {c \in Scoped : slice[c] = "running"}

\* What health() of an instance comes to: a verdict, or none in time
Answers == {"ok", "degraded", "unhealthy", "none"}

\* _poll_health
Polling(answer) == IF answer = "none" THEN "unhealthy" ELSE answer

\* readiness().ready
ReadyNow(answers) == Ready(OwnStatus([c \in Components |-> Polling(answers[c])]))

-----------------------------------------------------------------------------

\* What goes on by itself once start() or stop() has been called
Proceed ==
    \/ NextLayer \/ StartDone \/ Unwind
    \/ DrainDone \/ DrainTimeout \/ StopNext \/ AllStopped \/ CloseLinks
    \/ \E c \in Process : \/ StartOk(c) \/ StartFails(c) \/ StartCancelled(c)
                          \/ InstantiateFails(c) \/ StopEnds(c) \/ StopRaises(c)
    \/ \E c \in Scoped : CloseStore(c)

Invocation(k) ==
    \/ \E c \in Process : InvokeProcess(k, c)
    \/ \E c \in Scoped : InvokeScoped(k, c) \/ Create(k, c) \/ Created(k, c)
    \/ Resolved(k) \/ ResolveFails(k) \/ ResolveAbandoned(k)
    \/ Return(k)

\* The answer of a slice that is stopped, for which close() waits without a limit
Closing == \E c \in Scoped : CloseEnds(c) \/ CloseRaises(c)

Next ==
    \/ Validate \/ Start \/ OwnerCancels \/ Stop \/ Proceed \/ Closing
    \/ \E k \in Calls : Invocation(k)

Spec == Init /\ [][Next]_vars

\* start() and stop() of the process instances are bounded by init_timeout and
\* drain_timeout, as the drain is, and a resolution by init_timeout.  The lock of
\* a store is granted in the order of arrival, to close() too.  Nothing makes a
\* running call return, nor the stop() of a slice.
Fairness ==
    /\ SF_vars(Proceed)
    /\ \A k \in Calls : WF_vars(Resolved(k) \/ ResolveFails(k) \/ ResolveAbandoned(k))

LiveSpec == Spec /\ Fairness

-----------------------------------------------------------------------------
(* Properties *)

TypeOK ==
    /\ GraphTypeOK
    /\ phase \in {"down", "starting", "aborting", "unwinding",
                  "up", "draining", "stopping", "closing"}
    /\ layer \in Nat
    /\ inst \in [Components -> {"none", "starting", "running", "stopping"}]
    /\ members \subseteq Process /\ chains \subseteq Process
    /\ degraded \subseteq Components \ Required
    /\ slice \in [Components -> {"none", "starting", "running", "stopping"}]
    /\ owner \in [Components -> Calls \union {NoCall}]
    /\ shut \subseteq Scoped /\ links \in {"open", "closed"}
    /\ call \in [Calls -> {Idle} \union [at : {"resolving", "running"}, on : Components]]
    /\ active \in Nat
    /\ late \subseteq Running /\ overtime \subseteq Running
    /\ raised \in {"no", "yes"}

Live(c) == IF c \in Process THEN inst[c] = "running" ELSE slice[c] = "running"

\* Start before dependents, stop after them: every dependency of a process instance
\* is running from the beginning of its start() to the end of its stop(), and every
\* dependency of a slice, of either lifetime, for as long as the container is up or
\* draining, unless it is an optional one that failed to start, or a stop() was
\* broken off.  Beyond the drain there is nothing to say of slices: stop() stops the
\* process instances before them.
DependenciesOutlive ==
    /\ \A c \in Process : inst[c] # "none" =>
          \A d \in Deps(c) : inst[d] = "running" \/ d \in degraded
    /\ phase \in {"up", "draining"} /\ raised = "no" =>
          \A c \in Scoped : slice[c] = "running" =>
              \A d \in Deps(c) : Live(d) \/ d \in degraded

\* A container that is up has every required process component, and one that is
\* down has nothing running, unless a stop() was broken off: so may be the clean-up
\* of a start() that was cancelled.
AllOrNothing ==
    raised = "no" =>
        /\ phase = "up" => Required \intersect Process \subseteq members
        /\ phase = "down" => \A c \in Components : inst[c] = "none"

\* Readiness does not lie: the container is ready exactly when the required process
\* components are there to be called, and no required instance, of whatever lifetime,
\* answers anything but ok, or fails to answer.
ReadyIsServing ==
    verdict = "built" =>
        \A c \in Components : \A answer \in Answers :
            LET answers == [[d \in Components |-> "ok"] EXCEPT ![c] = answer]
            IN  ReadyNow(answers) <=> /\ Required \intersect Process \subseteq members
                                      /\ c \in Required \intersect Polled => answer = "ok"

\* stop() does not take the instance away from a call that was counted before the
\* drain was over, nor a component that its instance depends on, unless the drain
\* had to give the call up, or a stop() was broken off.
DrainProtects ==
    raised = "no" => \A k \in Running \ (late \union overtime) :
        \A c \in {call[k].on} \union Deps(call[k].on) :
            Live(c) \/ c \in degraded

\* stop() comes to its end though calls keep arriving, hang or hold the lock of a
\* store: it gives up the drain in time, and a process instance that does not stop.
\* Only a slice whose stop() never returns can keep it for ever.
StopReturns ==
    [](phase = "draining" =>
           <>(phase \in {"down", "up"} \/ []\E c \in Scoped : slice[c] = "stopping"))

=============================================================================
