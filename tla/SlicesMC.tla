------------------------------ MODULE SlicesMC ------------------------------
(* Small deployments for Slices. *)
EXTENDS Slices

Free == [chain |-> Inherit, overrides |-> [link \in LinkModels |-> Nothing]]
Probe == [chain |-> <<"timeout">>, overrides |-> [link \in LinkModels |-> Nothing]]
Tuned == [Free EXCEPT !.overrides["retry"] = [x \in {"attempts"} |-> 5]]

Thing == [name |-> "c", methods |-> [x \in {"go"} |-> Free], policy |-> Free, defaults |-> Nothing,
          optional |-> FALSE, stub |-> FALSE, scoped |-> FALSE, scope |-> {}, entrypoint |-> FALSE,
          fields |-> {"url"}, required |-> {}, endpoint |-> None, dependencies |-> {}, annotated |-> {}]

Scoped(axes_) == [Thing EXCEPT !.scoped = TRUE, !.scope = axes_]

\* A tree with some policy blocks, of one field each
Blocks(bs) ==
    [p \in {<<"policy">>} \union {<<"policy", b>> : b \in bs} \union {<<"policy", b, "attempts">> : b \in bs}
        |-> IF Len(p) = 3 THEN 3 ELSE Node]

Tenants(values) == {[x \in {"tenant"} |-> value] : value \in values}
Tenant == [x \in {"tenant"} |-> AppAxis(None, 5)]

Bare == [classes |-> {Thing}, framework |-> Nothing, sources |-> <<>>, axes |-> <<>>, bindings |-> {},
         overrides |-> <<>>]

\* Two tenants, calls nested in one another, and a process component that names its
\* endpoint
Ring ==
    [Bare EXCEPT
       !.classes = {[Scoped({"tenant"}) EXCEPT !.name = "a"],
                    [Thing EXCEPT !.name = "b", !.endpoint = <<"crm">>]},
       !.framework = Blocks({"circuit_breaker"}),
       !.axes = Tenant, !.bindings = Tenants({<<"t1">>, <<"t2">>})]

\* A method that may not be retried, and overrides for the slice of one tenant
Slice ==
    [Bare EXCEPT
       !.classes = {[Scoped({"tenant"}) EXCEPT !.methods = [x \in {"go", "health"} |->
                                                                IF x = "go" THEN Free ELSE Probe]]},
       !.framework = Blocks({"retry"}),
       !.axes = Tenant, !.bindings = Tenants({<<"t1">>, <<"t2">>}),
       !.overrides = [k \in {<<"c", [tenant |-> <<"t1">>]>>} |->
                        {Nothing, [p \in {<<"policy", "retry">>} |-> None]}]]

\* An axis with a default and a cap
Watched ==
    [Bare EXCEPT
       !.classes = {Scoped({"user"})},
       !.axes = [x \in {"user"} |-> AppAxis(<<"guest">>, 1)],
       !.bindings = {[x \in {"user"} |-> value] : value \in {<<"u1">>, <<"u2">>}}]

\* A dependency of the same scope
Same ==
    [Bare EXCEPT
       !.classes = {[Scoped({"tenant"}) EXCEPT !.annotated = {"d"}], [Scoped({"tenant"}) EXCEPT !.name = "d"]},
       !.axes = Tenant, !.bindings = Tenants({<<"t1">>}),
       !.overrides = [k \in {<<"c", [tenant |-> <<"t1">>]>>} |-> {Nothing, [p \in {<<"url">>} |-> Bad]}]]

\* What is configured by the deployment alone; an optional component
Deployed ==
    [Bare EXCEPT
       !.classes = {[Thing EXCEPT !.methods = [x \in {"go", "health"} |-> IF x = "go" THEN Free ELSE Probe],
                                  !.optional = TRUE, !.stub = TRUE]},
       !.sources = <<<<"file", [x \in {"c"} |-> Blocks({"retry", "timeout"})]>>,
                     <<"environment", [x \in {"c"} |-> Blocks({"cache", "degradation"})]>>>>]

\* Degradation for the slice of one tenant
Degraded ==
    [Bare EXCEPT
       !.classes = {[Scoped({"tenant"}) EXCEPT !.optional = TRUE, !.stub = TRUE]},
       !.axes = Tenant, !.bindings = Tenants({<<"t1">>, <<"t2">>}),
       !.overrides = [k \in {<<"c", [tenant |-> <<"t1">>]>>} |-> {Nothing, Blocks({"degradation"})}]]

\* Two components with settings of their own for one link
TwoRetries ==
    [Bare EXCEPT
       !.classes = {[Thing EXCEPT !.methods = [x \in {"go", "sync"} |-> IF x = "go" THEN Free ELSE Tuned]]},
       !.framework = Blocks({"retry"})]

\* Layers: what each of four may say of one mapping
Says == {Nothing, [p \in {<<"policy">>} |-> None], Blocks({}), Blocks({"retry"}),
         [p \in {<<"policy">>, <<"policy", "retry">>} |-> IF Len(p) = 1 THEN Node ELSE None],
         [Blocks({"retry"}) EXCEPT ![<<"policy", "retry", "attempts">>] = 4]}

Layered ==
    {[Bare EXCEPT !.framework = f,
                  !.classes = {[Thing EXCEPT !.defaults = d, !.methods = <<>>]},
                  !.sources = <<<<"file", [x \in {"c"} |-> a]>>, <<"environment", [x \in {"c"} |-> b]>>>>] :
        f \in Says, d \in Says, a \in Says, b \in Says}

\* What "check" refuses, or start()
Stub == [p \in {<<"policy">>, <<"policy", "degradation">>} |-> Node]

Wrong ==
    {[Bare EXCEPT !.classes = {c}] : c \in
        {[Thing EXCEPT !.required = {"url"}], [Thing EXCEPT !.fields = {"policy"}],
         [Thing EXCEPT !.entrypoint = TRUE, !.methods = <<>>], [Thing EXCEPT !.scope = {"tenant"}],
         [Thing EXCEPT !.defaults = Stub]}}
    \union {[Bare EXCEPT !.classes = {Thing, [Thing EXCEPT !.optional = TRUE]}],
            [Bare EXCEPT !.overrides = [k \in {<<"c", GlobalScope>>} |-> {Stub}]]}

\* Two axes, and values with commas: a=x,b=y,b=z is the text of two keys.
Commas ==
    [Bare EXCEPT
       !.classes = {Scoped({"a", "b"})},
       !.framework = Blocks({"circuit_breaker"}),
       !.axes = [x \in {"a", "b"} |-> AppAxis(None, 5)],
       !.bindings = {[a |-> <<"x">>, b |-> <<"y", <<"b", "z">>>>], [a |-> <<"x", <<"b", "y">>>>, b |-> <<"z">>]}]

\* A resolver that also tunes what has no slices
Tried ==
    [Bare EXCEPT
       !.classes = {Thing},
       !.framework = Blocks({"retry"}),
       !.overrides = [k \in {<<"c", GlobalScope>>} |-> {Nothing, [p \in {<<"policy", "retry">>} |-> None]}]]

MCAxes == <<"a", "b", "component", "tenant", "user">>
MCApps == {Ring, Slice, Watched, Same, Deployed, Degraded, Commas, Tried} \union Layered \union Wrong
MCTwoRetries == {TwoRetries}
Symmetry == Permutations(Tasks)
MCSame == {Same}

=============================================================================
