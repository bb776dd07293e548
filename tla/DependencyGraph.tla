--------------------------- MODULE DependencyGraph ---------------------------
(***************************************************************************)
(* The dependency graph of the configured components                       *)
(* (core/composition/graph.py), and the readiness verdict that is          *)
(* aggregated over it (core/composition/health.py).                        *)
(*                                                                         *)
(* A graph maps each component to the tuple of its dependencies, in the    *)
(* order of their declaration and with duplicates, as the descriptor holds *)
(* it.  Components are numbers: their order is that of sorted().  The      *)
(* loops of the code run one round per step, the recursion of the          *)
(* depth-first search on its explicit stack.                               *)
(***************************************************************************)
EXTENDS Naturals, Sequences, FiniteSets, SequencesExt

CONSTANT Systems  \* the configurations that are built

\* A system: the dependencies of each component, the scoped components and the
\* required ones.
ASSUME SystemsAssumption ==
    \A s \in Systems :
        /\ DOMAIN s.graph \subseteq Nat
        /\ IsFiniteSet(DOMAIN s.graph)
        /\ \A n \in DOMAIN s.graph : s.graph[n] \in Seq(Nat)
        /\ s.scoped \subseteq DOMAIN s.graph
        /\ s.required \subseteq DOMAIN s.graph

VARIABLES
    sys,       \* the system, fixed
    verdict,   \* "new", "visiting", "layering", "built" or "refused"
    finished,  \* the BLACK nodes, in the order in which visit() leaves them
    stack,     \* the GREY nodes
    cycle,     \* the path that the error names
    layers     \* what startup_layers() has collected

gvars == <<sys, verdict, finished, stack, cycle, layers>>

Components == DOMAIN sys.graph
Scoped == sys.scoped
Process == Components \ Scoped
Required == sys.required
Deps(n) == Range(sys.graph[n])

GraphInit ==
    /\ sys \in Systems
    /\ verdict = "new"
    /\ finished = <<>> /\ stack = <<>> /\ cycle = <<>> /\ layers = <<>>

-----------------------------------------------------------------------------
(* Validation *)

\* _check_missing
Missing == \E n \in Components : \E d \in Deps(n) : d \notin Components

\* _check_lifetime
ScopeLeak == \E n \in Process : \E d \in Deps(n) : d \in Scoped

CheckEdges ==
    /\ verdict = "new"
    /\ verdict' = IF Missing \/ ScopeLeak THEN "refused" ELSE "visiting"
    /\ UNCHANGED <<sys, finished, stack, cycle, layers>>

White == Components \ (Range(finished) \union Range(stack))

\* _check_cycles: the next WHITE node
Root ==
    /\ verdict = "visiting" /\ stack = <<>> /\ White # {}
    /\ stack' = <<CHOOSE n \in White : \A m \in White : n <= m>>
    /\ UNCHANGED <<sys, verdict, finished, cycle, layers>>

Dependencies == sys.graph[Last(stack)]

\* Mutant: a dependency that is being visited counts as visited.
PendingWhite == {i \in DOMAIN Dependencies : Dependencies[i] \in White}

\* What the loop of visit() over the dependencies of the top node is not done with:
\* the first one that is not BLACK is next.
Pending == {i \in DOMAIN Dependencies : Dependencies[i] \notin Range(finished)}
NextDependency == Dependencies[CHOOSE i \in Pending : \A j \in Pending : i <= j]

Descend ==
    /\ verdict = "visiting" /\ stack # <<>> /\ Pending # {}
    /\ NextDependency \in White
    /\ stack' = Append(stack, NextDependency)
    /\ UNCHANGED <<sys, verdict, finished, cycle, layers>>

\* The stack from d on, and d again
PathFrom(d) ==
    LET from == CHOOSE i \in DOMAIN stack : stack[i] = d
    IN  SubSeq(stack, from, Len(stack)) \o <<d>>

BackEdge ==
    /\ verdict = "visiting" /\ stack # <<>> /\ Pending # {}
    /\ NextDependency \in Range(stack)
    /\ cycle' = PathFrom(NextDependency)
    /\ verdict' = "refused"
    /\ UNCHANGED <<sys, finished, stack, layers>>

Leave ==
    /\ verdict = "visiting" /\ stack # <<>> /\ Pending = {}
    /\ finished' = Append(finished, Last(stack))
    /\ stack' = Front(stack)
    /\ UNCHANGED <<sys, verdict, cycle, layers>>

Acyclic ==
    /\ verdict = "visiting" /\ stack = <<>> /\ White = {}
    /\ verdict' = "layering"
    /\ UNCHANGED <<sys, finished, stack, cycle, layers>>

-----------------------------------------------------------------------------
(* Order *)

\* The components that are in a layer
Layered == UNION Range(layers)

\* startup_layers: the nodes whose indegree is down to zero, each entry of a tuple
\* of dependencies being one edge.
ReadyNodes ==
    {n \in Components \ Layered :
        {i \in DOMAIN sys.graph[n] : sys.graph[n][i] \in Layered} = DOMAIN sys.graph[n]}

Layer ==
    /\ verdict = "layering"
    /\ IF ReadyNodes # {}
         THEN layers' = Append(layers, ReadyNodes) /\ UNCHANGED verdict
         ELSE verdict' = "built" /\ UNCHANGED layers
    /\ UNCHANGED <<sys, finished, stack, cycle>>

Build == CheckEdges \/ Root \/ Descend \/ BackEdge \/ Leave \/ Acyclic \/ Layer

Level(n) == CHOOSE i \in DOMAIN layers : n \in layers[i]

\* m comes before n in shutdown_order(): the layers, and the sorted names in each
\* of them, from the last to the first.
StopsBefore(m, n) ==
    \/ Level(m) > Level(n)
    \/ Level(m) = Level(n) /\ m > n

-----------------------------------------------------------------------------
(* Readiness *)

\* aggregate_readiness: a component that reports ok is unhealthy when a required
\* dependency of it is not ok, in effect.
Effective(own) ==
    LET resolve[n \in Components] ==
            IF own[n] = "ok" /\ \E d \in Deps(n) \intersect Required : resolve[d] # "ok"
            THEN "unhealthy" ELSE own[n]
    IN  resolve

\* Readiness.ready
Ready(own) == \A n \in Required : Effective(own)[n] = "ok"

-----------------------------------------------------------------------------
(* Properties *)

GraphTypeOK ==
    /\ sys \in Systems
    /\ verdict \in {"new", "visiting", "layering", "built", "refused"}
    /\ finished \in Seq(Components) /\ stack \in Seq(Components)
    /\ cycle \in Seq(Components) /\ layers \in Seq(SUBSET Components)

\* Reference: among any components there is one that needs none of the others.
Grounded == \A some \in SUBSET Components : some # {} => \E n \in some : Deps(n) \intersect some = {}

IsCycle(path) ==
    /\ Len(path) > 1 /\ path[1] = path[Len(path)]
    /\ \A i \in 1..(Len(path) - 1) : path[i + 1] \in Deps(path[i])

\* A graph with a cycle is refused, and one that is refused for a cycle has the one that
\* the error names.
CyclesAreRefused ==
    /\ verdict = "layering" => Grounded
    /\ verdict = "refused" => Missing \/ ScopeLeak \/ IsCycle(cycle)

=============================================================================
