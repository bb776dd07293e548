------------------------------ MODULE Assembly ------------------------------
(***************************************************************************)
(* What a container is made from: component classes and their descriptors  *)
(* (core/component), the registry, the layers of configuration and the     *)
(* links of a method (core/composition), the sources an App reads          *)
(* (runtime/app.py, runtime/sources.py) and the questions that explain()   *)
(* and the command line answer.                                            *)
(*                                                                         *)
(* A mapping of mappings is a function on the paths of its entries, nested *)
(* ones included; an inner mapping is a Node.  A scope key is a function   *)
(* from axes to values: its pairs are sorted.  A value of an axis is the   *)
(* sequence of the pieces of its text that commas separate, and a piece    *)
(* that reads axis=text is that pair.                                      *)
(***************************************************************************)
EXTENDS SequencesExt

CONSTANTS
    Node,     \* the value of an entry that is a mapping
    None,     \* null
    Bad,      \* a value that the model of its field refuses
    Default,  \* the default of a field
    Inherit,  \* Policy.chain when it is not pinned
    Fields,   \* the fields of the settings of a link
    AxisOrder \* the names of axes, in their alphabetical order

ASSUME AssemblyAssumption == AxisOrder \in Seq(Range(AxisOrder)) /\ IsInjective(AxisOrder)

Nothing == [p \in {} |-> Node]
GlobalScope == [axis \in {} |-> None]

\* One function laid over another
Over(f, g) == [x \in DOMAIN f \union DOMAIN g |-> IF x \in DOMAIN f THEN f[x] ELSE g[x]]

\* BUILTIN_LINK_MODELS and BUILTIN_LINK_BUILDERS
DefaultOrder == <<"concurrency", "cache", "circuit_breaker", "retry", "timeout">>
Builders == Range(DefaultOrder)
LinkModels == Builders \union {"degradation"}

-----------------------------------------------------------------------------
(* Layers *)

Scalar(tree, p) == p \in DOMAIN tree /\ tree[p] # Node

\* Mutant: a mapping replaces the one below it.
MergeWhole(below, above) ==
    [p \in DOMAIN above \union {p \in DOMAIN below : \A q \in Prefixes(p) : q \notin DOMAIN above}
        |-> IF p \in DOMAIN above THEN above[p] ELSE below[p]]

\* deep_merge of two layers: the one above wins per leaf; a leaf takes the place
\* of a mapping, and a mapping that of a leaf.
Merge(below, above) ==
    [p \in DOMAIN above \union {p \in DOMAIN below : \A q \in Prefixes(p) : ~Scalar(above, q)}
        |-> IF p \in DOMAIN above THEN above[p] ELSE below[p]]

\* Its provenance: nothing is ever forgotten.
Traced(from, above, source) ==
    [p \in DOMAIN from \union {p \in DOMAIN above : Scalar(above, p)}
        |-> IF Scalar(above, p) THEN source ELSE from[p]]

\* Layers are pairs of a source and a mapping.
Overlay(config, layer) ==
    [tree |-> Merge(config.tree, layer[2]), from |-> Traced(config.from, layer[2], layer[1])]

DeepMerge(layers) ==
    LET merged[n \in 0..Len(layers)] ==
            IF n = 0 THEN [tree |-> Nothing, from |-> Nothing] ELSE Overlay(merged[n - 1], layers[n])
    IN  merged[Len(layers)]

\* What validation against the config model complains about
Errors(cls, tree) ==
    {p \in DOMAIN tree : tree[p] = Bad} \union {<<f>> : f \in {f \in cls.required : <<f>> \notin DOMAIN tree}}

-----------------------------------------------------------------------------
(* Policies and links *)

\* Inside out: the layers of a policy, the default one first
Pinned(policies) ==
    FoldLeft(LAMBDA chain, policy : IF policy.chain = Inherit THEN chain ELSE policy.chain,
             DefaultOrder, policies)

\* resolve_policy, of a method and its component
Resolved(method, component) ==
    [chain |-> Pinned(<<component, method>>),
     overrides |-> [link \in LinkModels |-> Over(method.overrides[link], component.overrides[link])]]

\* link_settings: None without a block of its own, whatever overrides it
Configured(tree, link) == <<"policy", link>> \in DOMAIN tree /\ ~Scalar(tree, <<"policy", link>>)

LinkSettings(tree, link, override) ==
    IF ~Configured(tree, link) THEN None
    ELSE Over(override, [f \in Fields |->
            LET p == <<"policy", link, f>> IN IF p \in DOMAIN tree THEN tree[p] ELSE Default])

ConfigChain(tree) ==
    LET p == <<"policy", "chain">>
    IN  IF Scalar(tree, p) /\ tree[p] # <<>> THEN tree[p] ELSE DefaultOrder

\* active_links: in the order of the config, those the policy allows and that
\* have settings
Allowed(tree, policy) == {link \in Range(policy.chain) \intersect Builders : Configured(tree, link)}
Filtered(chain, links) == SelectSeq(chain, LAMBDA link : link \in links)
ActiveLinks(tree, policy) == Filtered(ConfigChain(tree), Allowed(tree, policy))

\* degradation_interceptor: it stands outside the chain.
Stubbed(cls, tree) == cls.optional /\ cls.stub /\ Configured(tree, "degradation")

\* validate_degradation
DegradationFits(cls, tree) == Configured(tree, "degradation") => cls.optional /\ cls.stub

-----------------------------------------------------------------------------
(* Classes *)

\* What AComponent lets a class say of itself
IsClass(cls) ==
    /\ {cls.optional, cls.stub, cls.scoped, cls.entrypoint} \subseteq BOOLEAN
    /\ DOMAIN cls.policy = {"chain", "overrides"}
    /\ \A x \in {cls.scope, cls.dependencies, cls.annotated} : IsFiniteSet(x)

\* describe and build_config_model
Describable(cls) ==
    /\ cls.entrypoint => DOMAIN cls.methods # {}
    /\ cls.scoped <=> cls.scope # {}
    /\ "policy" \notin cls.fields

\* Registry.register, one class after the other: [name -> class]
Refused(classes) ==
    \/ \E cls \in classes : ~Describable(cls)
    \/ \E c, d \in classes : c.name = d.name /\ c # d

\* The effective policy of a method
PolicyOf(cls, method) == Resolved(cls.methods[method], cls.policy)

\* component_dependencies
Dependencies(cls) == cls.dependencies \union cls.annotated

-----------------------------------------------------------------------------
(* Configurations *)

\* _clean: sections that are mappings
Section(source, name) ==
    IF name \in DOMAIN source /\ source[name] # None THEN source[name] ELSE Nothing

\* App.config_mapping: file, code, .env and environment, each [name -> mapping]
Sources(app, name) ==
    [i \in DOMAIN app.sources |-> <<app.sources[i][1], Section(app.sources[i][2], name)>>]

Deployment(app, name) == DeepMerge(Sources(app, name)).tree

\* The layers of Container.build
Layers(app, cls) ==
    <<<<"framework defaults", app.framework>>,
      <<"component defaults", cls.defaults>>,
      <<"deployment config", Deployment(app, cls.name)>>>>

\* _assemble, and build() with an override of nothing
Assembled(app, cls, override) ==
    DeepMerge(Append(Layers(app, cls), <<"slice override", override>>))

Valid(cls, config) == Errors(cls, config.tree) = {} /\ DegradationFits(cls, config.tree)

\* Registration, then Container.build up to the graph: what "check" reports
Buildable(app) ==
    /\ ~Refused(app.classes)
    /\ \A cls \in app.classes : Valid(cls, Assembled(app, cls, Nothing))

-----------------------------------------------------------------------------
(* The test harness (core/testing/harness.py) *)

\* _run: the links of a policy section alone, with no layers below it
Harness(cls, policy, section) ==
    [chain |-> ActiveLinks(section, policy), stubbed |-> Stubbed(cls, section)]

\* drive(), with what the deployment says of the component
Drive(cls, method, deployment) ==
    Harness(cls, PolicyOf(cls, method),
            [p \in {p \in DOMAIN deployment : Head(p) = "policy"} |-> deployment[p]])

-----------------------------------------------------------------------------
(* Scopes *)

\* Axis; without a default it is required
IsAxis(axis) == axis.cap \in Nat \ {0}

\* App.axis: bound in a context variable
AppAxis(default, cap) == [default |-> default, cap |-> cap]

\* AxisRegistry.resolve: the values bound, or the defaults, which required axes do not
\* have; a scope may name an axis that is not registered.
Missing(axes, bound, scope) ==
    \E axis \in scope : axis \in DOMAIN axes => bound[axis] = None /\ axes[axis].default = None

ScopeKey(axes, bound, scope) ==
    [axis \in scope |-> IF bound[axis] = None THEN axes[axis].default ELSE bound[axis]]

\* Mutant: an instance is its component.
EndpointOfComponent(cls, key) == IF cls.endpoint # None THEN cls.endpoint ELSE <<cls.name>>

\* The text of a pair of the key, and its pieces; a plain value has no comma.
Plain(value) == value = <<Head(value)>>
Written(axis, value) == <<<<axis, Head(value)>>>> \o Tail(value)

\* default_endpoint: the text of the name and the key, whose pairs commas separate
DefaultEndpoint(name, key) ==
    LET joined[n \in 0..Len(AxisOrder)] ==
            IF n = 0 THEN <<name>>
            ELSE joined[n - 1] \o (IF AxisOrder[n] \in DOMAIN key
                                     THEN Written(AxisOrder[n], key[AxisOrder[n]]) ELSE <<>>)
    IN  joined[Len(AxisOrder)]

Endpoint(cls, key) == IF cls.endpoint # None THEN cls.endpoint ELSE DefaultEndpoint(cls.name, key)

\* build_chain: breaker and semaphores are sliced by endpoint, the rest is not.
EndpointSliced == {"concurrency", "circuit_breaker"}

StoreKey(link, endpoint) ==
    <<link, IF link \in EndpointSliced THEN [endpoint |-> endpoint] ELSE GlobalScope>>

=============================================================================
