------------------------------- MODULE Slices -------------------------------
(***************************************************************************)
(* A running container seen by the calls of different slices: the axes     *)
(* (core/axes.py, runtime/tenancy.py), the configuration of each slice,    *)
(* its instance and what that captures (core/composition/container.py),    *)
(* the link state its calls reach (core/pipeline/chain.py), and the calls  *)
(* through dependency proxies (core/telemetry/dependency.py).  What these  *)
(* are made from is Assembly.                                              *)
(*                                                                         *)
(* A task is a request of a host.  Tasks may run in different threads      *)
(* while they resolve axes; in between they share one event loop, and a    *)
(* step is what runs between two awaits.  The locks around the creation of *)
(* an instance are the subject of StateStore: here it is one step.         *)
(***************************************************************************)
EXTENDS Assembly

CONSTANTS
    Tasks,
    Apps,     \* the apps considered, with the values that requests bind and the overrides of slices
    MaxDepth  \* calls nested in one another

ASSUME SlicesAssumption ==
    /\ MaxDepth \in Nat \ {0} /\ IsFiniteSet(Tasks)
    /\ \A a \in Apps :
          /\ \A cls \in a.classes :
                /\ IsClass(cls) /\ Dependencies(cls) \subseteq {c.name : c \in a.classes}
                /\ cls.scope \union {"component"} \subseteq Range(AxisOrder)
          /\ \A axis \in DOMAIN a.axes : IsAxis(a.axes[axis])
          /\ \A values \in a.bindings : DOMAIN values = DOMAIN a.axes
          /\ a.sources \in Seq(Range(a.sources))

VARIABLES
    app,        \* fixed
    phase,      \* "down", "up", or "refused"
    answer,     \* what the SettingsResolver answers: [<<component, scope key>> -> mapping]
    configs,    \* _config_cache and _provenance_cache
    instances,  \* [<<component, scope key>> -> what it captured of its dependencies]
    links,      \* the link store: [store key -> settings of the instance]
    seen,       \* AxisRegistry._seen
    warned,     \* _cardinality_warned
    met,        \* history: the values that have been resolved for each axis
    bound,      \* the axis values that each task has bound
    endpoint,   \* the endpoint axis in the context of each task
    stack       \* the calls of each task, the innermost last

vars == <<app, phase, answer, configs, instances, links, seen, warned, met, bound, endpoint, stack>>
axes == <<seen, warned, met>>
wiring == <<configs, instances, links>>

Axes == DOMAIN app.axes
Unbound == [axis \in Axes |-> None]
Class(name) == CHOOSE cls \in app.classes : cls.name = name

\* The key that configures an instance, and the one its calls carry
ConfigKey(cls, values) == IF cls.scoped THEN ScopeKey(app.axes, values, cls.scope) ELSE GlobalScope
CallKey(cls, key) == IF cls.scoped THEN key ELSE [component |-> <<cls.name>>]

Init ==
    /\ app \in Apps
    /\ phase = IF Buildable(app) THEN "down" ELSE "refused"
    /\ answer \in {a \in [DOMAIN app.overrides -> UNION Range(app.overrides)] :
                     \A k \in DOMAIN a : a[k] \in app.overrides[k]}
    /\ configs = Nothing /\ instances = Nothing /\ links = Nothing
    /\ seen = [axis \in Axes |-> {}] /\ warned = {} /\ met = [axis \in Axes |-> {}]
    /\ bound = [t \in Tasks |-> Unbound]
    /\ endpoint = [t \in Tasks |-> None]
    /\ stack = [t \in Tasks |-> <<>>]

-----------------------------------------------------------------------------
(* Configuration *)

\* DictSettingsResolver.resolve, or a database
Override(name, key) == IF <<name, key>> \in DOMAIN answer THEN answer[<<name, key>>] ELSE Nothing

\* The answers change.
Tune(k, tree) ==
    /\ k \in DOMAIN answer /\ tree \in app.overrides[k]
    /\ answer' = [answer EXCEPT ![k] = tree]
    /\ UNCHANGED <<app, phase, wiring, axes, bound, endpoint, stack>>

\* Mutant: one configuration for all slices.
CacheKeyOfComponent(cls, key) == <<cls.name, GlobalScope>>

CacheKey(cls, key) == <<cls.name, key>>

\* Mutant: every call asks the resolver.
AssembleAfresh(cls, key) == Assembled(app, cls, Override(cls.name, key))

\* _assemble: merged once
Assemble(cls, key) ==
    IF CacheKey(cls, key) \in DOMAIN configs THEN configs[CacheKey(cls, key)]
    ELSE Assembled(app, cls, Override(cls.name, key))

Cache(ks) ==
    LET ConfigOf(k) == CHOOSE i \in ks : CacheKey(Class(i[1]), i[2]) = k
        fresh == [k \in {CacheKey(Class(i[1]), i[2]) : i \in ks} |->
                     Assemble(Class(ConfigOf(k)[1]), ConfigOf(k)[2])]
    IN  configs' = Over(fresh, configs)

\* explain, resolved_settings and config_json: they assemble, and cache.
Introspect(cls, key) ==
    /\ phase # "refused"
    /\ ~cls.scoped => key = GlobalScope
    /\ Valid(cls, Assemble(cls, key))
    /\ Cache({<<cls.name, key>>})
    /\ UNCHANGED <<app, phase, answer, instances, links, axes, bound, endpoint, stack>>

Explanation(cls, method, key) ==
    [chain |-> ActiveLinks(Assemble(cls, key).tree, PolicyOf(cls, method)),
     provenance |-> Assemble(cls, key).from]

\* "describe", on the command line: what a container that was just built would explain
Described(cls) ==
    LET tree == Assembled(app, cls, Override(cls.name, GlobalScope)).tree
    IN  [method \in DOMAIN cls.methods |-> ActiveLinks(tree, PolicyOf(cls, method))]

-----------------------------------------------------------------------------
(* Instances *)

Process == {cls \in app.classes : ~cls.scoped}

\* start(): the process components; an invalid override aborts it.
Start ==
    /\ phase = "down"
    /\ IF \A cls \in Process : Valid(cls, Assemble(cls, GlobalScope))
         THEN /\ phase' = "up"
              /\ Cache({<<cls.name, GlobalScope>> : cls \in Process})
              /\ instances' = [k \in {<<cls.name, GlobalScope>> : cls \in Process} |-> Nothing]
         ELSE phase' = "refused" /\ UNCHANGED <<configs, instances>>
    /\ UNCHANGED <<app, answer, links, axes, bound, endpoint, stack>>

\* _resolve_dependencies, with what the task has bound.  The dependencies of a
\* dependency are left out.
Captured(cls, values) ==
    [name \in Dependencies(cls) |-> [key |-> ConfigKey(Class(name), values), live |-> TRUE]]

\* What _scoped_instance makes if it finds no instance: first the dependencies that
\* are not there either, then the instance.
Dependees(cls, values) ==
    {<<name, Captured(cls, values)[name].key>> : name \in Dependencies(cls)} \ DOMAIN instances

Created(cls, key, values) ==
    IF <<cls.name, key>> \in DOMAIN instances THEN {}
    ELSE {<<cls.name, key>>} \union Dependees(cls, values)

WithDependees(ks) == Over([k \in ks |-> Nothing], instances)

Instantiated(cls, key, values) ==
    Over([k \in Created(cls, key, values) |-> IF k[1] = cls.name THEN Captured(cls, values) ELSE Nothing],
         instances)

Proper(k) == Valid(Class(k[1]), Assemble(Class(k[1]), k[2]))

\* Every axis of what is made has a value.
Resolvable(cls, values) ==
    \A name \in Dependencies(cls) : ~Missing(app.axes, values, Class(name).scope)

InUse(k) ==
    \E t \in Tasks : \E n \in DOMAIN stack[t] :
        LET f == stack[t][n] IN f.at # "resolving" /\ f.method # "any" /\ <<f.cls.name, f.key>> = k

Loses(deps, k) ==
    [name \in DOMAIN deps |->
        IF name = k[1] /\ deps[name].key = k[2] THEN [deps[name] EXCEPT !.live = FALSE] ELSE deps[name]]

\* The LRU store drops a slice and stops it, unless it is pinned: a call pins the
\* instance that it is made on, not the ones that this has captured.  The deferred stop
\* is left out.
Evict(k) ==
    /\ k \in DOMAIN instances /\ Class(k[1]).scoped
    /\ LET lost(deps) == IF InUse(k) THEN deps ELSE Loses(deps, k)
       IN  /\ instances' = [x \in DOMAIN instances \ {k} |-> lost(instances[x])]
           /\ stack' = [t \in Tasks |-> [n \in DOMAIN stack[t] |->
                            [stack[t][n] EXCEPT !.deps = lost(@)]]]
    /\ UNCHANGED <<app, phase, answer, configs, links, axes, bound, endpoint>>

-----------------------------------------------------------------------------
(* Calls *)

Top(t) == Last(stack[t])
Push(t, frame) == stack' = [stack EXCEPT ![t] = Append(@, frame)]
Update(t, frame) == stack' = [stack EXCEPT ![t][Len(stack[t])] = frame]

\* AxisHandle.use around a request
Bind(t, values) ==
    /\ phase = "up" /\ stack[t] = <<>> /\ bound[t] = Unbound
    /\ bound' = [bound EXCEPT ![t] = values]
    /\ UNCHANGED <<app, phase, answer, wiring, axes, endpoint, stack>>

Unbind(t) ==
    /\ stack[t] = <<>> /\ bound[t] # Unbound
    /\ bound' = [bound EXCEPT ![t] = Unbound]
    /\ UNCHANGED <<app, phase, answer, wiring, axes, endpoint, stack>>

\* The scope of a call is resolved, unless an axis it requires has no value.  What is
\* new to _observe's first look is left to do.
Resolve(t, cls, method) ==
    /\ phase = "up"
    /\ stack[t] # <<>> => Top(t).at = "base" /\ Top(t).method # "any"
    /\ Len(stack[t]) < MaxDepth
    /\ ~Missing(app.axes, bound[t], cls.scope)
    /\ LET key == ConfigKey(cls, bound[t])
           values == [axis \in cls.scope |-> ScopeKey(app.axes, bound[t], cls.scope)[axis]]
       IN  /\ Push(t, [at |-> "resolving", cls |-> cls, method |-> method, key |-> key,
                       todo |-> {axis \in cls.scope : values[axis] \notin seen[axis] /\ axis \notin warned},
                       chain |-> <<>>, stubbed |-> FALSE, next |-> 1, used |-> {},
                       outer |-> endpoint[t], deps |-> Nothing])
           /\ met' = [axis \in Axes |-> IF axis \in cls.scope THEN met[axis] \union {values[axis]}
                                        ELSE met[axis]]
    /\ UNCHANGED <<app, phase, answer, wiring, seen, warned, bound, endpoint>>

\* invoke, by the host or from inside a call
Invoke(t, cls, method) == method \in DOMAIN cls.methods /\ Resolve(t, cls, method)

\* get: the instance of the slice, which nothing pins
Get(t, cls) == cls.scoped /\ Resolve(t, cls, "get")

\* Mutant: the set is not looked at again under the lock.
KnownUnchecked(axis, value) == FALSE

Known(axis, value) == value \in seen[axis] \/ axis \in warned

\* _observe under its lock
Track(t, axis) ==
    LET value == Top(t).key[axis]
    IN  /\ stack[t] # <<>> /\ axis \in Top(t).todo
        /\ Update(t, [Top(t) EXCEPT !.todo = @ \ {axis}])
        /\ IF Known(axis, value) THEN UNCHANGED <<seen, warned>>
           ELSE IF Cardinality(seen[axis]) < app.axes[axis].cap
                THEN seen' = [seen EXCEPT ![axis] = @ \union {value}] /\ UNCHANGED warned
                ELSE warned' = warned \union {axis} /\ UNCHANGED seen
        /\ UNCHANGED <<app, phase, answer, wiring, met, bound, endpoint>>

EndpointOf(f) == Endpoint(f.cls, CallKey(f.cls, f.key))

\* The instance is found or made, and the chain of the method built over its
\* configuration; the call runs with its own endpoint.
Enter(t) ==
    LET f == Top(t)
        created == Created(f.cls, f.key, bound[t])
        all == Instantiated(f.cls, f.key, bound[t])
        tree == Assemble(f.cls, f.key).tree
    IN  /\ stack[t] # <<>> /\ f.at = "resolving" /\ f.todo = {} /\ f.method # "get"
        /\ created # {} => Resolvable(f.cls, bound[t])
        /\ \A k \in created : Proper(k)
        /\ Cache(created)
        /\ instances' = all
        /\ endpoint' = [endpoint EXCEPT ![t] = EndpointOf(f)]
        /\ Update(t, [f EXCEPT !.at = "chain", !.deps = all[<<f.cls.name, f.key>>],
                               !.chain = ActiveLinks(tree, PolicyOf(f.cls, f.method)),
                               !.stubbed = Stubbed(f.cls, tree)])
        /\ UNCHANGED <<app, phase, answer, links, axes, bound>>

\* get() has its instance.
Got(t) ==
    LET f == Top(t)
        created == Created(f.cls, f.key, bound[t])
    IN  /\ stack[t] # <<>> /\ f.at = "resolving" /\ f.todo = {} /\ f.method = "get"
        /\ created # {} => Resolvable(f.cls, bound[t])
        /\ \A k \in created : Proper(k)
        /\ Cache(created)
        /\ instances' = Instantiated(f.cls, f.key, bound[t])
        /\ stack' = [stack EXCEPT ![t] = Front(@)]
        /\ UNCHANGED <<app, phase, answer, links, axes, bound, endpoint>>

\* A configuration of the slice does not hold, or an axis of a dependency has no value:
\* the error is the caller's, and what was made before it stays.
Misconfigured(t) ==
    LET f == Top(t)
        created == Created(f.cls, f.key, bound[t])
        dependees == Dependees(f.cls, bound[t])
    IN  /\ stack[t] # <<>> /\ f.at = "resolving" /\ f.todo = {}
        /\ created # {}
        /\ ~Resolvable(f.cls, bound[t]) \/ \E k \in created : ~Proper(k)
        /\ \E made \in SUBSET {k \in dependees : Proper(k)} :
              /\ Resolvable(f.cls, bound[t]) /\ (\A k \in dependees : Proper(k)) => made = dependees
              /\ instances' = WithDependees(made)
              /\ Cache(made)
        /\ stack' = [stack EXCEPT ![t] = Front(@)]
        /\ UNCHANGED <<app, phase, answer, links, axes, bound, endpoint>>

\* The settings of a link as the method's factories have them
OwnSettings(f, link) ==
    LinkSettings(Assemble(f.cls, f.key).tree, link, PolicyOf(f.cls, f.method).overrides[link])

\* The next link inwards: its instance in the store, made by whoever comes first
Descend(t) ==
    LET f == Top(t)
        link == f.chain[f.next]
        k == StoreKey(link, endpoint[t])
        settings == IF k \in DOMAIN links THEN links[k] ELSE OwnSettings(f, link)
    IN  /\ stack[t] # <<>> /\ f.at = "chain" /\ f.next \in DOMAIN f.chain
        /\ links' = Over([x \in {k} |-> settings], links)
        /\ Update(t, [f EXCEPT !.next = @ + 1, !.used = @ \union {<<k, settings>>}])
        /\ UNCHANGED <<app, phase, answer, configs, instances, axes, bound, endpoint>>

\* _live_breakers of an endpoint: what force_open_breakers and reset_breakers act on
LiveBreakers(only) == {k \in DOMAIN links : k[1] = "circuit_breaker" /\ k[2].endpoint = only}

\* The method of the component runs.
Base(t) ==
    /\ stack[t] # <<>> /\ Top(t).at = "chain" /\ Top(t).next \notin DOMAIN Top(t).chain
    /\ Update(t, [Top(t) EXCEPT !.at = "base"])
    /\ UNCHANGED <<app, phase, answer, wiring, axes, bound, endpoint>>

\* It fails, and a retry link runs the links inside it once more.
Retry(t) ==
    /\ stack[t] # <<>> /\ Top(t).at = "base"
    /\ \E n \in DOMAIN Top(t).chain :
          /\ Top(t).chain[n] = "retry"
          /\ Update(t, [Top(t) EXCEPT !.at = "chain", !.next = n + 1])
    /\ UNCHANGED <<app, phase, answer, wiring, axes, bound, endpoint>>

\* The wrapper of a method of a dependency: no links, the endpoint of the caller, and
\* the instance that was captured.
Proxied(t, name) ==
    [at |-> "base", cls |-> Class(name), method |-> "any", key |-> Top(t).deps[name].key,
     todo |-> {}, chain |-> <<>>, stubbed |-> FALSE, next |-> 1, used |-> {},
     outer |-> endpoint[t], deps |-> [x \in {name} |-> Top(t).deps[x]]]

\* The method that runs calls a dependency, through its proxy.
Depend(t, name) ==
    /\ stack[t] # <<>> /\ Top(t).at = "base" /\ Len(stack[t]) < MaxDepth
    /\ name \in DOMAIN Top(t).deps /\ Top(t).method # "any"
    /\ Push(t, Proxied(t, name))
    /\ UNCHANGED <<app, phase, answer, wiring, axes, bound, endpoint>>

\* use_endpoint restores what it found.
Restored(t, how) == Top(t).outer

\* The call returns, from whatever link, raises or is cancelled.
Ends(t, how) ==
    /\ stack[t] # <<>> /\ Top(t).at # "resolving"
    /\ stack' = [stack EXCEPT ![t] = Front(@)]
    /\ endpoint' = [endpoint EXCEPT ![t] = Restored(t, how)]
    /\ UNCHANGED <<app, phase, answer, wiring, axes, bound>>

-----------------------------------------------------------------------------

Next ==
    \/ Start
    \/ \E k \in DOMAIN answer : \E tree \in app.overrides[k] : Tune(k, tree)
    \/ \E cls \in app.classes :
          \E key \in {GlobalScope} \union {k[2] : k \in DOMAIN answer} : Introspect(cls, key)
    \/ \E k \in DOMAIN instances : Evict(k)
    \/ \E t \in Tasks :
          \/ \E values \in app.bindings : Bind(t, values)
          \/ Unbind(t)
          \/ \E cls \in app.classes : \E method \in DOMAIN cls.methods : Invoke(t, cls, method)
          \/ \E cls \in app.classes : Get(t, cls)
          \/ \E axis \in Axes : Track(t, axis)
          \/ Enter(t) \/ Got(t) \/ Misconfigured(t)
          \/ Descend(t) \/ Base(t) \/ Retry(t)
          \/ \E cls \in app.classes : Depend(t, cls.name)
          \/ \E how \in {"ok", "error"} : Ends(t, how)

Spec == Init /\ [][Next]_vars

-----------------------------------------------------------------------------
(* Properties *)

Calls(t) == {stack[t][n] : n \in DOMAIN stack[t]}
InFlight == UNION {{f \in Calls(t) : f.at # "resolving"} : t \in Tasks}

\* The last layer that says anything about a path, the leaves it has it from, and where
\* their provenance says they are from
Speaks(layer, p) == p \in DOMAIN layer[2] \/ \E q \in Prefixes(p) : Scalar(layer[2], q)
Decides(layers, last, p) ==
    Speaks(layers[last], p) /\ \A i \in DOMAIN layers : i > last => ~Speaks(layers[i], p)

Takes(tree, layer, p) ==
    /\ Scalar(tree, p) <=> Scalar(layer[2], p)
    /\ Scalar(tree, p) => tree[p] = layer[2][p]

Paths(layers) == UNION {DOMAIN layers[i][2] : i \in DOMAIN layers}

LastWins(tree, layers) ==
    \A p \in Paths(layers) :
        \E last \in DOMAIN layers : Decides(layers, last, p) /\ Takes(tree, layers[last], p)

TracedToLast(config, layers) ==
    \A p \in Paths(layers) : Scalar(config.tree, p) =>
        \E last \in DOMAIN layers : Decides(layers, last, p) /\ config.from[p] = layers[last][1]

\* What the resolver may have answered for a component and key
Offered(k) == {Nothing} \union (IF k \in DOMAIN app.overrides THEN app.overrides[k] ELSE {})

\* "Layered field by field, each overriding the previous": what the deployment says is
\* what its sources add up to; what has been assembled is what the layers below, the
\* deployment and an answer of the resolver add up to, and it is traced to the layer that
\* it is from.  For all the container knows, the deployment is one layer.
FieldByField ==
    \A k \in DOMAIN configs :
        LET cls == Class(k[1])
            Stack(override) == Append(Layers(app, cls), <<"slice override", override>>)
        IN  /\ LastWins(Deployment(app, cls.name), Sources(app, cls.name))
            /\ \E override \in Offered(k) :
                  LastWins(configs[k].tree, Stack(override)) /\ TracedToLast(configs[k], Stack(override))

\* A slice override tunes its own slice: what the configuration of a call has from an
\* override is what the resolver had to offer for that component and key.
SlicesTuneThemselves ==
    \A f \in InFlight :
        LET config == Assemble(f.cls, f.key)
        IN  \A p \in DOMAIN config.from :
                config.from[p] = "slice override" /\ p \in DOMAIN config.tree =>
                    \E override \in Offered(<<f.cls.name, f.key>>) :
                        p \in DOMAIN override /\ override[p] = config.tree[p]

\* explain() of the running container tells what runs: the chain of every call in flight,
\* whatever the resolver has been answering since its instance was made.  "describe"
\* builds a container of its own, and tells the same of a component whose configuration
\* no resolver may change.  The harness builds "the same chain", where only the
\* deployment has a policy.  And a configured degradation is "never a silent no-op", nor
\* is one of the override of a slice.
ExplainIsTrue ==
    \A f \in InFlight : f.method # "any" =>
        LET tree == Assemble(f.cls, f.key).tree
            driven == Drive(f.cls, f.method, Deployment(app, f.cls.name))
        IN  /\ Explanation(f.cls, f.method, f.key).chain = f.chain
            /\ f.key = GlobalScope /\ <<f.cls.name, GlobalScope>> \notin DOMAIN app.overrides
                  => Described(f.cls)[f.method] = f.chain
            /\ f.cls.defaults = Nothing /\ app.framework = Nothing /\ app.overrides = <<>>
                  => driven.chain = f.chain /\ driven.stubbed = f.stubbed
            /\ Configured(tree, "degradation") => f.stubbed

PlainKey(key) == \A axis \in DOMAIN key : Plain(key[axis])

\* "One tenant tripping the breaker never opens it for another": calls that share the
\* state of a link that is sliced by endpoint, or whose breakers are opened together by
\* hand, are calls of one slice of one component, or of an endpoint that a component
\* names, after nested calls that fail, too.  It holds as long as no value of an axis
\* has a comma: slices whose texts are the same share their endpoint.
EndpointsApart ==
    \A f, g \in InFlight :
        \/ f.cls = g.cls /\ f.key = g.key
        \/ EndpointOf(f) = EndpointOf(g) /\ {f.cls.endpoint, g.cls.endpoint} # {None}
        \/ EndpointOf(f) = EndpointOf(g) /\ ~(PlainKey(f.key) /\ PlainKey(g.key))
        \/ f.method = "any" \/ g.method = "any"  \* calls without links
        \/ \A u \in f.used :
              /\ u[1][1] \in EndpointSliced => \A v \in g.used : u[1] # v[1]
              /\ u[1] \notin LiveBreakers(EndpointOf(g))

\* The watch on an axis warns when, and only when, it has had more distinct values than
\* its cap, in whatever threads they are resolved.
WatchIsExact ==
    \A axis \in Axes :
        /\ Cardinality(seen[axis]) <= app.axes[axis].cap
        /\ axis \in warned => Cardinality(met[axis]) > app.axes[axis].cap
        /\ (\A t \in Tasks : \A f \in Calls(t) : axis \notin f.todo) =>
              (Cardinality(met[axis]) > app.axes[axis].cap => axis \in warned)

\* "Each later layer winning field by field": a call runs through links that have the
\* settings of its own method.
LinksHaveOwnSettings ==
    \A f \in InFlight : \A u \in f.used : u[2] = OwnSettings(f, u[1][1])

\* "An LRU eviction triggered by another tenant must not stop it while this call runs on
\* it": neither the instance of the call, nor the dependency that it calls.
DependenciesAreLive ==
    \A t \in Tasks : \A f \in Calls(t) : f.method = "any" => f.deps[f.cls.name].live

=============================================================================
