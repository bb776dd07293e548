-------------------------- MODULE Container_proofs --------------------------
(***************************************************************************)
(* Start-up and shutdown in the order of the dependencies, and what a stop *)
(* leaves to the calls, for every set of systems and of calls.             *)
(***************************************************************************)
EXTENDS Container, FiniteSetTheorems, WellFoundedInduction, TLAPS

\* Missing dependencies and process components that depend on scoped ones are refused.
EdgesInv == verdict \notin {"new", "refused"} => ~Missing /\ ~ScopeLeak

\* The search leaves a node after its dependencies.
VisitedInv ==
    /\ \A i \in DOMAIN finished : \A d \in Deps(finished[i]) :
          \E j \in DOMAIN finished : j < i /\ finished[j] = d
    /\ verdict \in {"layering", "built"} => Components \subseteq Range(finished)

\* Dependencies are in earlier layers, and every component is in one of them.
LayersInv ==
    /\ layers # <<>> => verdict \in {"layering", "built"}
    /\ \A i \in DOMAIN layers : \A n \in layers[i] : \A d \in Deps(n) :
          \E j \in DOMAIN layers : j < i /\ d \in layers[j]
    /\ \A i, j \in DOMAIN layers : \A n \in layers[i] : n \in layers[j] => i = j
    /\ verdict = "built" => \A n \in Components : \E i \in DOMAIN layers : n \in layers[i]

GraphInv == EdgesInv /\ VisitedInv /\ LayersInv

\* Only the layer under way is starting, and only one component is stopping.
InstInv ==
    \A c \in Components :
        /\ inst[c] # "none" => c \in Process /\ verdict = "built"
        /\ c \in members <=> inst[c] = "running"
        /\ inst[c] = "starting" => /\ phase \in {"starting", "aborting"}
                                   /\ Level(c) = layer
        /\ inst[c] = "stopping" => /\ phase \in {"unwinding", "stopping"}
                                   /\ \A d \in Components : inst[d] = "stopping" => d = c

\* The layers up to the one under way have been started, and no others.
LayerInv ==
    /\ phase # "down" => verdict = "built"
    /\ phase \in {"starting", "aborting"} =>
          \A c \in Components : inst[c] # "none" => Level(c) <= layer
    /\ phase = "starting" =>
          \A c \in Process : Level(c) <= layer => inst[c] \in {"starting", "running"} \/ c \in degraded
    /\ phase = "closing" => \A c \in Components : inst[c] = "none"

\* Unless a stop() was broken off, everything is there when the container is up,
\* and nothing when it is down.
WholeInv ==
    raised = "no" =>
        /\ phase \in {"up", "draining"} => Process \subseteq members \union degraded
        /\ phase = "down" => \A c \in Components : inst[c] = "none"

\* The dependencies of what is not a slice
InstancesOutlive ==
    \A c \in Process : inst[c] # "none" =>
        \A d \in Deps(c) : inst[d] = "running" \/ d \in degraded

StartInv == GraphInv /\ InstInv /\ LayerInv /\ WholeInv /\ InstancesOutlive

\* A slice is published after the slices that it is bound to, and they stay for as
\* long as the stores are open.
SlicesInOrder ==
    \A c \in Scoped : (slice[c] = "running" /\ shut = {}) =>
        \A d \in Deps(c) \intersect Scoped : slice[d] = "running"

SliceInv ==
    /\ \A c \in Components : /\ owner[c] # NoCall <=> slice[c] = "starting"
                             /\ slice[c] # "none" => c \in Scoped
                             /\ slice[c] = "stopping" => c \in shut
    /\ SlicesInOrder
    /\ links = "closed" => phase = "down" /\ Scoped \subseteq shut
    /\ raised = "no" /\ shut # {} => phase = "closing" \/ links = "closed"

CallTypes ==
    /\ call \in [Calls -> {Idle} \union [at : {"resolving", "running"}, on : Components]]
    /\ active \in Nat /\ late \subseteq Running /\ overtime \subseteq Running

\* There are calls only once the container has been up; those that run are counted,
\* and have their instance until the drain is over.
CallInv ==
    /\ phase \in {"down", "starting", "aborting", "unwinding"} /\ links = "open" =>
          \A k \in Calls : call[k].at = "idle"
    /\ active = Cardinality(Running)
    /\ \A k \in Calls : call[k].at = "resolving" => call[k].on \in Scoped
    /\ raised = "no" /\ phase \notin {"up", "draining"} => Running \subseteq late \union overtime
    /\ raised = "no" /\ phase \in {"up", "draining"} => \A k \in Running : Live(call[k].on)

IInv == TypeOK /\ StartInv /\ SliceInv /\ CallInv

-----------------------------------------------------------------------------
(* The graph *)

LEMMA SystemFacts ==
  ASSUME GraphTypeOK
  PROVE  /\ Components \subseteq Nat /\ IsFiniteSet(Components)
         /\ Scoped \subseteq Components /\ Required \subseteq Components /\ Process \subseteq Components
         /\ \A n \in Components : sys.graph[n] \in Seq(Nat)
  BY SystemsAssumption DEF GraphTypeOK, Components, Scoped, Required, Process

\* A set of numbers has a least element.
LEMMA Least == ASSUME NEW S \in SUBSET Nat, S # {} PROVE \E x \in S : \A y \in S : ~(y < x)
  <1> DEFINE R == {e \in Nat \X Nat : e[1] < e[2]}
  <1>1. R = OpToRel(<, Nat)
    BY DEF OpToRel
  <1>2. IsWellFoundedOn(R, Nat)
    BY <1>1, NatLessThanWellFounded
  <1>3. \A x, y \in Nat : y < x => <<y, x>> \in R
    OBVIOUS
  <1> HIDE DEF R
  <1>4. PICK x \in S : \A y \in S : <<y, x>> \notin R
    BY <1>2, WFMin
  <1> QED
    BY <1>3, <1>4

LEMMA AppendIs ==
  ASSUME NEW S, NEW s \in Seq(S), NEW e \in S
  PROVE  /\ Append(s, e) \in Seq(S) /\ DOMAIN Append(s, e) = 1..(Len(s) + 1)
         /\ DOMAIN s = 1..Len(s) /\ Len(s) \in Nat
         /\ Append(s, e)[Len(s) + 1] = e /\ \A i \in DOMAIN s : Append(s, e)[i] = s[i]
  OBVIOUS

LEMMA BuildTypes == ASSUME GraphTypeOK, Build PROVE GraphTypeOK' /\ sys' = sys
  <1>0. /\ sys \in Systems /\ finished \in Seq(Components) /\ stack \in Seq(Components)
        /\ cycle \in Seq(Components) /\ layers \in Seq(SUBSET Components)
    BY DEF GraphTypeOK
  <1>1. sys' = sys
    BY DEF Build, CheckEdges, Root, Descend, BackEdge, Leave, Acyclic, Layer
  <1>2. Components' = Components
    BY <1>1 DEF Components
  <1>3. verdict' \in {"new", "visiting", "layering", "built", "refused"}
    BY DEF GraphTypeOK, Build, CheckEdges, Root, Descend, BackEdge, Leave, Acyclic, Layer
  <1>4. White \subseteq Components
    BY DEF White
  <1>5. stack # <<>> => Last(stack) \in Components /\ Front(stack) \in Seq(Components)
    BY <1>0 DEF Last, Front
  <1>6. stack' \in Seq(Components)
    <2>1. CASE Root
      <3>1. White \in SUBSET Nat /\ White # {}
        BY <1>4, <2>1, SystemFacts DEF Root
      <3>2. PICK n \in White : \A m \in White : ~(m < n)
        BY <3>1, Least
      <3>3. \A m \in White : n <= m
        BY <3>1, <3>2
      <3>4. (CHOOSE i \in White : \A m \in White : i <= m) \in White
        BY <3>3
      <3> QED
        BY <1>4, <2>1, <3>4 DEF Root
    <2>2. CASE Descend
      BY <1>0, <1>4, <2>2, AppendIs DEF Descend
    <2>3. CASE Leave
      BY <1>5, <2>3 DEF Leave
    <2>4. CASE stack' = stack
      BY <1>0, <2>4
    <2> QED
      BY <2>1, <2>2, <2>3, <2>4 DEF Build, CheckEdges, BackEdge, Acyclic, Layer
  <1>7. finished' \in Seq(Components)
    <2>1. CASE Leave
      BY <1>0, <1>5, <2>1, AppendIs DEF Leave
    <2>2. CASE finished' = finished
      BY <1>0, <2>2
    <2> QED
      BY <2>1, <2>2 DEF Build, CheckEdges, Root, Descend, BackEdge, Acyclic, Layer
  <1>8. cycle' \in Seq(Components)
    <2>1. CASE BackEdge
      <3>1. PICK at \in DOMAIN stack : stack[at] = NextDependency
        BY <2>1 DEF BackEdge, Range
      <3> DEFINE from == CHOOSE i \in DOMAIN stack : stack[i] = NextDependency
      <3>2. from \in DOMAIN stack /\ NextDependency \in Components
        BY <1>0, <3>1
      <3> HIDE DEF from
      <3>3. SubSeq(stack, from, Len(stack)) \in Seq(Components) /\ <<NextDependency>> \in Seq(Components)
        BY <1>0, <3>2
      <3>4. SubSeq(stack, from, Len(stack)) \o <<NextDependency>> \in Seq(Components)
        BY <3>3
      <3> QED
        BY <2>1, <3>4 DEF BackEdge, PathFrom, from
    <2>2. CASE cycle' = cycle
      BY <1>0, <2>2
    <2> QED
      BY <2>1, <2>2 DEF Build, CheckEdges, Root, Descend, Leave, Acyclic, Layer
  <1>9. layers' \in Seq(SUBSET Components)
    <2>1. CASE Layer
      <3>1. ReadyNodes \in SUBSET Components
        BY DEF ReadyNodes
      <3>2. Append(layers, ReadyNodes) \in Seq(SUBSET Components)
        BY <1>0, <3>1
      <3> QED
        BY <1>0, <2>1, <3>2 DEF Layer
    <2>2. CASE layers' = layers
      BY <1>0, <2>2
    <2> QED
      BY <2>1, <2>2 DEF Build, CheckEdges, Root, Descend, BackEdge, Leave, Acyclic
  <1> QED
    BY <1>0, <1>1, <1>2, <1>3, <1>6, <1>7, <1>8, <1>9 DEF GraphTypeOK

\* When no node is ready, none is left: the first one that the search left among
\* them would be.
LEMMA NoneLeft ==
  ASSUME GraphTypeOK, VisitedInv, verdict = "layering", ReadyNodes = {}
  PROVE  Components \subseteq Layered
  <1> SUFFICES ASSUME NEW n \in Components, n \notin Layered PROVE FALSE
    OBVIOUS
  <1> DEFINE T == {i \in DOMAIN finished : finished[i] \notin Layered}
  <1>1. DOMAIN finished \subseteq Nat /\ \A i \in DOMAIN finished : finished[i] \in Components
    BY DEF GraphTypeOK
  <1>2. n \in Range(finished)
    BY DEF VisitedInv
  <1>3. T \in SUBSET Nat /\ T # {}
    BY <1>1, <1>2 DEF Range
  <1>4. PICK i \in T : \A j \in T : ~(j < i)
    BY <1>3, Least
  <1>5. finished[i] \in Components \ Layered /\ \A d \in Deps(finished[i]) : d \in Layered
    <2>1. finished[i] \in Components \ Layered
      BY <1>1, <1>4
    <2>2. ASSUME NEW d \in Deps(finished[i]) PROVE d \in Layered
      <3>1. PICK j \in DOMAIN finished : j < i /\ finished[j] = d
        BY <1>4, <2>2 DEF VisitedInv
      <3> QED
        BY <1>4, <3>1
    <2> QED
      BY <2>1, <2>2
  <1>6. finished[i] \in ReadyNodes
    BY <1>5 DEF ReadyNodes, Deps, Range
  <1> QED
    BY <1>6

LEMMA BuildKeeps == ASSUME GraphTypeOK, GraphInv, Build PROVE GraphInv'
  <1>0. /\ sys' = sys /\ finished \in Seq(Components) /\ layers \in Seq(SUBSET Components)
        /\ EdgesInv /\ VisitedInv /\ LayersInv
    BY BuildTypes DEF GraphTypeOK, GraphInv
  <1>1. EdgesInv'
    BY <1>0 DEF EdgesInv, Missing, ScopeLeak, Components, Process, Scoped, Deps, Build, CheckEdges, Root,
                Descend, BackEdge, Leave, Acyclic, Layer
  <1>2. VisitedInv'
    <2>1. CASE Leave
      <3>1. /\ finished' = Append(finished, Last(stack)) /\ verdict' = verdict /\ verdict = "visiting"
            /\ Pending = {} /\ Last(stack) \in Components
        BY <2>1 DEF Leave, GraphTypeOK, Last
      <3>2. \A d \in Deps(Last(stack)) : \E j \in DOMAIN finished : finished[j] = d
        BY <3>1 DEF Pending, Dependencies, Deps, Range
      <3>3. /\ DOMAIN finished' = 1..(Len(finished) + 1) /\ DOMAIN finished = 1..Len(finished) /\ Len(finished) \in Nat
            /\ finished'[Len(finished) + 1] = Last(stack) /\ \A i \in DOMAIN finished : finished'[i] = finished[i]
        BY <1>0, <3>1, AppendIs
      <3>4. ASSUME NEW i \in DOMAIN finished', NEW d \in Deps(finished'[i])
            PROVE  \E j \in DOMAIN finished' : j < i /\ finished'[j] = d
        <4>2. CASE i \in DOMAIN finished
          <5>1. PICK j \in DOMAIN finished : j < i /\ finished[j] = d
            BY <1>0, <3>3, <3>4, <4>2 DEF VisitedInv
          <5> QED
            BY <3>3, <5>1
        <4>3. CASE i = Len(finished) + 1
          <5>1. PICK j \in DOMAIN finished : finished[j] = d
            BY <3>2, <3>3, <3>4, <4>3
          <5> QED
            BY <3>3, <4>3, <5>1
        <4> QED
          BY <3>3, <4>2, <4>3
      <3>5. \A i \in DOMAIN finished' : \A d \in Deps(finished[i])' : \E j \in DOMAIN finished' : j < i /\ finished'[j] = d
        BY <1>0, <3>4 DEF Deps
      <3> QED
        BY <3>1, <3>5 DEF VisitedInv
    <2>2. CASE Acyclic
      <3>1. Components \subseteq Range(finished) /\ finished' = finished
        BY <2>2 DEF Acyclic, White, Range
      <3> QED
        BY <1>0, <3>1 DEF VisitedInv, Components, Deps
    <2>3. CASE finished' = finished /\ (verdict' \in {"layering", "built"} => verdict \in {"layering", "built"})
      BY <1>0, <2>3 DEF VisitedInv, Components, Deps
    <2> QED
      BY <2>1, <2>2, <2>3 DEF Build, CheckEdges, Root, Descend, BackEdge, Layer
  <1>3. LayersInv'
    <2>1. CASE Layer /\ ReadyNodes # {}
      <3>1. layers' = Append(layers, ReadyNodes) /\ verdict' = verdict /\ verdict = "layering"
        BY <2>1 DEF Layer
      <3>2. ReadyNodes \in SUBSET Components
        BY DEF ReadyNodes
      <3>3. /\ DOMAIN layers' = 1..(Len(layers) + 1) /\ DOMAIN layers = 1..Len(layers) /\ Len(layers) \in Nat
            /\ layers'[Len(layers) + 1] = ReadyNodes /\ \A i \in DOMAIN layers : layers'[i] = layers[i]
        BY <1>0, <3>1, <3>2, AppendIs
      <3>4. /\ \A n \in ReadyNodes : \A d \in Deps(n) : \E j \in DOMAIN layers : d \in layers[j]
            /\ \A n \in ReadyNodes : \A j \in DOMAIN layers : n \notin layers[j]
        BY DEF ReadyNodes, Layered, Deps, Range
      <3>5. ASSUME NEW i \in DOMAIN layers', NEW n \in layers'[i], NEW d \in Deps(n)'
            PROVE  \E j \in DOMAIN layers' : j < i /\ d \in layers'[j]
        <4>1. d \in Deps(n)
          BY <1>0, <3>5 DEF Deps
        <4>2. CASE i \in DOMAIN layers
          <5>1. PICK j \in DOMAIN layers : j < i /\ d \in layers[j]
            BY <1>0, <3>3, <4>1, <4>2 DEF LayersInv
          <5> QED
            BY <3>3, <5>1
        <4>3. CASE i = Len(layers) + 1
          <5>1. PICK j \in DOMAIN layers : d \in layers[j]
            BY <3>3, <3>4, <4>1, <4>3
          <5> QED
            BY <3>3, <4>3, <5>1
        <4> QED
          BY <3>3, <4>2, <4>3
      <3>6. ASSUME NEW i \in DOMAIN layers', NEW j \in DOMAIN layers', NEW n \in layers'[i], n \in layers'[j]
            PROVE  i = j
        <4>1. \A m \in DOMAIN layers' : m \in DOMAIN layers \/ m = Len(layers) + 1
          BY <3>3
        <4> QED
          BY <1>0, <3>3, <3>4, <3>6, <4>1 DEF LayersInv
      <3> QED
        BY <3>1, <3>5, <3>6 DEF LayersInv
    <2>2. CASE Layer /\ ReadyNodes = {}
      <3>1. verdict = "layering" /\ verdict' = "built" /\ layers' = layers
        BY <2>2 DEF Layer
      <3>2. \A n \in Components : \E i \in DOMAIN layers : n \in layers[i]
        BY <1>0, <2>2, <3>1, NoneLeft DEF Layered, Range
      <3> QED
        BY <1>0, <3>1, <3>2 DEF LayersInv, Components, Deps
    <2>3. CASE layers' = layers /\ verdict' # "built" /\ verdict \notin {"layering", "built"}
      BY <1>0, <2>3 DEF LayersInv, Components, Deps
    <2> QED
      BY <2>1, <2>2, <2>3 DEF Build, CheckEdges, Root, Descend, BackEdge, Leave, Acyclic, Layer
  <1> QED
    BY <1>1, <1>2, <1>3 DEF GraphInv

\* What the layers of a graph that is built are good for
LEMMA LevelFacts ==
  ASSUME GraphTypeOK, GraphInv, verdict = "built"
  PROVE  /\ \A n \in Components : Level(n) \in DOMAIN layers /\ n \in layers[Level(n)]
         /\ \A n \in Components : \A i \in DOMAIN layers : n \in layers[i] => Level(n) = i
         /\ DOMAIN layers = 1..Len(layers) /\ Len(layers) \in Nat
         /\ \A n \in Components : Level(n) \in Nat /\ Level(n) >= 1 /\ Level(n) <= Len(layers)
         /\ \A n \in Components : \A d \in Deps(n) : d \in Components /\ Level(d) < Level(n)
         /\ \A c \in Process : Deps(c) \subseteq Process
  <1>1. DOMAIN layers = 1..Len(layers) /\ Len(layers) \in Nat
    BY DEF GraphTypeOK
  <1>2. \A n \in Components : Level(n) \in DOMAIN layers /\ n \in layers[Level(n)]
    BY DEF GraphInv, LayersInv, Level
  <1>3. \A n \in Components : \A i \in DOMAIN layers : n \in layers[i] => Level(n) = i
    BY <1>2 DEF GraphInv, LayersInv
  <1>4. \A n \in Components : \A d \in Deps(n) : d \in Components
    BY DEF GraphInv, EdgesInv, Missing
  <1>5. ASSUME NEW n \in Components, NEW d \in Deps(n) PROVE Level(d) < Level(n)
    <2>1. PICK j \in DOMAIN layers : j < Level(n) /\ d \in layers[j]
      BY <1>2 DEF GraphInv, LayersInv
    <2> QED
      BY <1>3, <1>4, <2>1
  <1>6. \A c \in Process : Deps(c) \subseteq Process
    BY <1>4 DEF GraphInv, EdgesInv, ScopeLeak, Process
  <1> QED
    BY <1>1, <1>2, <1>3, <1>4, <1>5, <1>6

LEMMA GraphSame == ASSUME UNCHANGED gvars, GraphInv PROVE GraphInv'
  BY DEF gvars, GraphInv, EdgesInv, VisitedInv, LayersInv, Missing, ScopeLeak, Components, Process, Scoped, Deps

-----------------------------------------------------------------------------
(* Start-up and shutdown *)

LEMMA ValidateKeeps == ASSUME TypeOK, StartInv, Validate PROVE StartInv'
  <1>1. GraphTypeOK /\ Build /\ verdict # "built"
    BY DEF TypeOK, Validate, Build, CheckEdges, Root, Descend, BackEdge, Leave, Acyclic, Layer
  <1>2. sys' = sys /\ GraphInv'
    BY <1>1, BuildTypes, BuildKeeps DEF StartInv
  <1>3. phase' = "down" /\ UNCHANGED pvars /\ \A c \in Components : inst[c] = "none"
    BY <1>1 DEF Validate, StartInv, LayerInv, InstInv
  <1>4. InstInv'
    BY <1>2, <1>3 DEF StartInv, InstInv, Components, pvars
  <1>5. LayerInv' /\ WholeInv'
    BY <1>2, <1>3 DEF LayerInv, WholeInv, Components, pvars
  <1>6. InstancesOutlive'
    BY <1>2, <1>3 DEF InstancesOutlive, Components, Process, Scoped, pvars
  <1> QED
    BY <1>2, <1>4, <1>5, <1>6 DEF StartInv

\* The terms in which the steps are argued about
LEMMA Bearings ==
  ASSUME TypeOK, StartInv
  PROVE  /\ inst \in [Components -> {"none", "starting", "running", "stopping"}]
         /\ Process \subseteq Components /\ members \subseteq Process /\ layer \in Nat
         /\ InstInv /\ LayerInv /\ WholeInv /\ InstancesOutlive /\ GraphInv /\ GraphTypeOK
  BY SystemFacts DEF TypeOK, StartInv

LEMMA StartKeeps == ASSUME TypeOK, StartInv, Start PROVE StartInv'
  <1>1. /\ phase = "down" /\ phase' = "starting" /\ verdict = "built" /\ members = {} /\ layer' = 1
        /\ inst' = [c \in Components |-> IF c \in InLayer(1) THEN "starting" ELSE inst[c]]
        /\ UNCHANGED <<gvars, raised, members, chains, degraded>>
    BY DEF Start
  <1>2. /\ verdict' = verdict /\ layers' = layers /\ Components' = Components /\ Process' = Process
        /\ members' = members /\ (\A c : Deps(c)' = Deps(c)) /\ (\A c : Level(c)' = Level(c))
    BY <1>1 DEF gvars, Components, Process, Scoped, Deps, Level
  <1>3. \A c \in Components : inst[c] = "none"
    BY <1>1, Bearings DEF InstInv
  <1>4. \A c \in Components : inst'[c] = IF c \in Process /\ Level(c) = 1 THEN "starting" ELSE "none"
    <2>1. \A c \in Components : c \in InLayer(1) <=> c \in Process /\ Level(c) = 1
      BY <1>1, Bearings, LevelFacts DEF InLayer
    <2> QED
      BY <1>1, <1>3, <2>1
  <1>5. InstInv'
    BY <1>1, <1>2, <1>4 DEF InstInv
  <1>6. LayerInv'
    BY <1>1, <1>2, <1>4, Bearings, LevelFacts DEF LayerInv
  <1>7. WholeInv'
    BY <1>1 DEF WholeInv
  <1>8. InstancesOutlive'
    BY <1>1, <1>2, <1>4, Bearings, LevelFacts DEF InstancesOutlive
  <1> QED
    BY <1>1, <1>5, <1>6, <1>7, <1>8, GraphSame DEF StartInv

LEMMA NextLayerKeeps == ASSUME TypeOK, StartInv, NextLayer PROVE StartInv'
  <1>1. /\ phase = "starting" /\ phase' = phase /\ Starting = {} /\ layer + 1 \in DOMAIN layers /\ layer' = layer + 1
        /\ inst' = [c \in Components |-> IF c \in InLayer(layer + 1) THEN "starting" ELSE inst[c]]
        /\ UNCHANGED <<gvars, raised, members, chains, degraded>>
    BY DEF NextLayer
  <1>2. /\ verdict' = verdict /\ layers' = layers /\ Components' = Components /\ Process' = Process
        /\ members' = members /\ (\A c : Deps(c)' = Deps(c)) /\ (\A c : Level(c)' = Level(c))
        /\ degraded' = degraded
    BY <1>1 DEF gvars, Components, Process, Scoped, Deps, Level
  <1>3. verdict = "built" /\ layer \in Nat
    BY <1>1, Bearings DEF LayerInv
  <1>4. \A c \in Components : inst[c] # "starting"
    BY <1>1, Bearings DEF Starting, InstInv
  <1>5. \A c \in Components : /\ inst'[c] = IF c \in Process /\ Level(c) = layer + 1 THEN "starting" ELSE inst[c]
                              /\ Level(c) > layer => inst[c] = "none"
    <2>1. \A c \in Components : c \in InLayer(layer + 1) <=> c \in Process /\ Level(c) = layer + 1
      BY <1>1, <1>3, Bearings, LevelFacts DEF InLayer
    <2>2. \A c \in Components : inst[c] # "none" => Level(c) <= layer /\ Level(c) \in Nat
      BY <1>1, <1>3, Bearings, LevelFacts DEF LayerInv
    <2>3. \A c \in Components : Level(c) > layer => inst[c] = "none"
      BY <1>3, <2>2
    <2> QED
      BY <1>1, <2>1, <2>3
  <1>6. InstInv'
    <2>1. \A c \in Components : Level(c) = layer + 1 => inst[c] = "none"
      BY <1>3, <1>5
    <2> QED
      BY <1>1, <1>2, <1>3, <1>4, <1>5, <2>1, Bearings DEF InstInv
  <1>7. LayerInv'
    <2>1. \A c \in Components : inst'[c] # "none" => Level(c) <= layer + 1
      BY <1>3, <1>5, Bearings, LevelFacts
    <2>2. ASSUME NEW c \in Process, Level(c) <= layer + 1 PROVE inst'[c] \in {"starting", "running"} \/ c \in degraded
      <3>1. CASE Level(c) = layer + 1
        BY <1>5, <3>1, Bearings
      <3>2. CASE Level(c) <= layer
        <4>1. Level(c) # layer + 1
          BY <1>3, <3>2, Bearings, LevelFacts
        <4> QED
          BY <1>1, <1>5, <3>2, <4>1, Bearings DEF LayerInv
      <3> QED
        BY <1>3, <2>2, <3>1, <3>2, Bearings, LevelFacts
    <2> QED
      BY <1>1, <1>2, <1>3, <2>1, <2>2 DEF LayerInv
  <1>8. WholeInv'
    BY <1>1 DEF WholeInv
  <1>9. InstancesOutlive'
    <2>1. ASSUME NEW c \in Process, inst'[c] # "none", NEW d \in Deps(c) PROVE inst'[d] = "running" \/ d \in degraded
      <3>1. d \in Process /\ d \in Components /\ Level(d) < Level(c) /\ Level(d) \in Nat /\ Level(c) \in Nat
        BY <1>3, <2>1, Bearings, LevelFacts
      <3>2. Level(c) <= layer + 1
        BY <1>3, <1>5, <2>1, <3>1, Bearings
      <3>3. Level(d) <= layer /\ Level(d) # layer + 1
        BY <1>3, <3>1, <3>2
      <3>4. inst[d] \in {"starting", "running"} \/ d \in degraded
        BY <1>1, <3>1, <3>3, Bearings DEF LayerInv
      <3> QED
        BY <1>4, <1>5, <3>1, <3>3, <3>4
    <2> QED
      BY <1>2, <2>1 DEF InstancesOutlive
  <1> QED
    BY <1>1, <1>6, <1>7, <1>8, <1>9, GraphSame DEF StartInv

\* Steps that start and stop nothing
LEMMA PhaseKeeps ==
  ASSUME TypeOK, StartInv, UNCHANGED <<gvars, inst, members, layer>>, degraded \subseteq degraded',
         phase' # "down" => verdict = "built",
         phase' \in {"starting", "aborting"} => phase' = phase,
         phase' = "closing" => \A c \in Components : inst[c] = "none",
         \A c \in Components : /\ inst[c] = "starting" => phase' \in {"starting", "aborting"}
                               /\ inst[c] = "stopping" => phase' \in {"unwinding", "stopping"},
         raised' = "no" => /\ phase' \in {"up", "draining"} => Process \subseteq members \union degraded'
                           /\ phase' = "down" => \A c \in Components : inst[c] = "none"
  PROVE  StartInv'
  <1>1. /\ verdict' = verdict /\ layers' = layers /\ Components' = Components /\ Process' = Process
        /\ members' = members /\ inst' = inst /\ layer' = layer /\ UNCHANGED gvars
        /\ (\A c : Deps(c)' = Deps(c)) /\ (\A c : Level(c)' = Level(c))
    BY DEF gvars, Components, Process, Scoped, Deps, Level
  <1>2. InstInv'
    BY <1>1, Bearings DEF InstInv
  <1>3. LayerInv'
    BY <1>1, Bearings DEF LayerInv
  <1>4. WholeInv'
    BY <1>1 DEF WholeInv
  <1>5. InstancesOutlive'
    BY <1>1, Bearings DEF InstancesOutlive
  <1> QED
    BY <1>1, <1>2, <1>3, <1>4, <1>5, Bearings, GraphSame DEF StartInv

LEMMA StartDoneKeeps == ASSUME TypeOK, StartInv, StartDone PROVE StartInv'
  <1>1. /\ phase = "starting" /\ phase' = "up" /\ Starting = {} /\ layer + 1 \notin DOMAIN layers
        /\ UNCHANGED <<gvars, raised, inst, members, layer, degraded>>
    BY DEF StartDone
  <1>2. verdict = "built" /\ layer \in Nat
    BY <1>1, Bearings DEF LayerInv
  <1>3. \A c \in Components : inst[c] \notin {"starting", "stopping"}
    BY <1>1, Bearings DEF Starting, InstInv
  <1>4. ASSUME NEW c \in Process PROVE c \in members \union degraded
    <2>1. Level(c) <= layer
      <3>1. /\ Level(c) \in Nat /\ Level(c) <= Len(layers) /\ DOMAIN layers = 1..Len(layers)
            /\ Len(layers) \in Nat
        BY <1>2, Bearings, LevelFacts
      <3>2. layer + 1 > Len(layers)
        BY <1>1, <1>2, <3>1
      <3> QED
        BY <1>2, <3>1, <3>2
    <2> QED
      BY <1>1, <1>3, <2>1, Bearings DEF LayerInv, InstInv
  <1> QED
    BY <1>1, <1>2, <1>3, <1>4, PhaseKeeps

LEMMA StartOkKeeps == ASSUME TypeOK, StartInv, NEW c \in Process, StartOk(c) PROVE StartInv'
  <1>1. /\ phase \in {"starting", "aborting"} /\ phase' = phase /\ inst[c] = "starting"
        /\ inst' = [inst EXCEPT ![c] = "running"] /\ members' = members \union {c}
        /\ UNCHANGED <<gvars, layer, raised, degraded>>
    BY DEF StartOk
  <1>2. /\ verdict' = verdict /\ layers' = layers /\ Components' = Components /\ Process' = Process
        /\ layer' = layer /\ UNCHANGED gvars /\ degraded' = degraded
        /\ (\A d : Deps(d)' = Deps(d)) /\ (\A d : Level(d)' = Level(d))
    BY <1>1 DEF gvars, Components, Process, Scoped, Deps, Level
  <1>3. \A d \in Components : inst'[d] = IF d = c THEN "running" ELSE inst[d]
    BY <1>1, Bearings
  <1>4. InstInv'
    BY <1>1, <1>2, <1>3, Bearings DEF InstInv
  <1>5. LayerInv'
    BY <1>1, <1>2, <1>3, Bearings DEF LayerInv
  <1>6. WholeInv'
    BY <1>1 DEF WholeInv
  <1>7. InstancesOutlive'
    <2>1. ASSUME NEW e \in Process, inst'[e] # "none", NEW d \in Deps(e) PROVE inst'[d] = "running" \/ d \in degraded
      <3>1. inst[e] # "none" /\ verdict = "built"
        BY <1>1, <1>3, <2>1, Bearings DEF InstInv
      <3>2. d \in Components
        BY <2>1, <3>1, Bearings, LevelFacts
      <3> QED
        BY <1>3, <2>1, <3>1, <3>2, Bearings DEF InstancesOutlive
    <2> QED
      BY <1>2, <2>1 DEF InstancesOutlive
  <1> QED
    BY <1>2, <1>4, <1>5, <1>6, <1>7, Bearings, GraphSame DEF StartInv

\* A component that is starting fails: nobody depends on it yet.
LEMMA StartFailsKeeps ==
  ASSUME TypeOK, StartInv, NEW c \in Process, StartFails(c) \/ InstantiateFails(c) \/ StartCancelled(c)
  PROVE  StartInv'
  <1>1. /\ phase \in {"starting", "aborting"} /\ inst[c] = "starting"
        /\ inst' = [inst EXCEPT ![c] = "none"] /\ degraded \subseteq degraded'
        /\ phase' = "aborting" \/ (phase' = "starting" /\ phase = "starting" /\ c \in degraded')
        /\ UNCHANGED <<gvars, layer, raised, members>>
    BY DEF StartFails, InstantiateFails, StartCancelled
  <1>2. /\ verdict' = verdict /\ layers' = layers /\ Components' = Components /\ Process' = Process
        /\ layer' = layer /\ members' = members /\ UNCHANGED gvars
        /\ (\A d : Deps(d)' = Deps(d)) /\ (\A d : Level(d)' = Level(d))
    BY <1>1 DEF gvars, Components, Process, Scoped, Deps, Level
  <1>3. \A d \in Components : inst'[d] = IF d = c THEN "none" ELSE inst[d]
    BY <1>1, Bearings
  <1>4. verdict = "built" /\ Level(c) = layer
    BY <1>1, Bearings DEF InstInv
  <1>5. InstInv'
    BY <1>1, <1>2, <1>3, Bearings DEF InstInv
  <1>6. LayerInv'
    BY <1>1, <1>2, <1>3, <1>4, Bearings DEF LayerInv
  <1>7. WholeInv'
    BY <1>1 DEF WholeInv
  <1>8. InstancesOutlive'
    <2>1. ASSUME NEW e \in Process, inst'[e] # "none", NEW d \in Deps(e) PROVE inst'[d] = "running" \/ d \in degraded'
      <3>1. inst[e] # "none"
        BY <1>3, <2>1, Bearings
      <3>2. d \in Components /\ Level(d) < Level(e) /\ Level(d) \in Nat /\ Level(e) \in Nat /\ layer \in Nat
        BY <1>4, <2>1, Bearings, LevelFacts
      <3>3. Level(e) <= layer
        BY <1>1, <3>1, Bearings DEF LayerInv
      <3>4. d # c
        BY <1>4, <3>2, <3>3
      <3> QED
        BY <1>1, <1>3, <2>1, <3>1, <3>2, <3>4, Bearings DEF InstancesOutlive
    <2> QED
      BY <1>2, <2>1 DEF InstancesOutlive
  <1> QED
    BY <1>2, <1>5, <1>6, <1>7, <1>8, Bearings, GraphSame DEF StartInv

\* Of any members there is one that the others do not come before.
LEMMA FirstToStop ==
  ASSUME GraphTypeOK, GraphInv, verdict = "built", NEW M \in SUBSET Components, M # {}
  PROVE  \E c \in M : \A d \in M \ {c} : StopsBefore(c, d)
  <1> DEFINE First(U) == \E c \in U : \A d \in U \ {c} : StopsBefore(c, d)
             T == {U \in FiniteSubsetsOf(M) : U # {} /\ ~First(U)}
  <1>0. /\ \A c \in M : c \in Nat /\ Level(c) \in Nat
        /\ IsFiniteSet(M)
    BY SystemFacts, LevelFacts, FS_Subset
  <1> SUFFICES ASSUME T # {} PROVE FALSE
    BY <1>0 DEF FiniteSubsetsOf
  <1>1. PICK U \in T : \A V \in T : <<V, U>> \notin StrictSubsetOrdering(M)
    <2>1. IsWellFoundedOn(StrictSubsetOrdering(M), FiniteSubsetsOf(M)) /\ T \subseteq FiniteSubsetsOf(M)
      BY FS_StrictSubsetOrderingWellFounded
    <2> QED
      BY <2>1, WFMin
  <1>2. U \subseteq M /\ IsFiniteSet(U) /\ U # {} /\ ~First(U)
    BY <1>1 DEF FiniteSubsetsOf
  <1>3. PICK u \in U : TRUE
    BY <1>2
  <1>4. U \ {u} # {}
    BY <1>2, <1>3
  <1>5. First(U \ {u})
    <2>1. U \ {u} \in FiniteSubsetsOf(M) /\ U \ {u} # U /\ U \ {u} \subseteq U
      BY <1>2, <1>3, FS_Subset DEF FiniteSubsetsOf
    <2>2. <<U \ {u}, U>> \in StrictSubsetOrdering(M)
      BY <1>2, <2>1 DEF StrictSubsetOrdering
    <2> QED
      BY <1>1, <1>4, <2>1, <2>2
  <1>6. PICK v \in U \ {u} : \A d \in (U \ {u}) \ {v} : StopsBefore(v, d)
    BY <1>5
  <1>7. CASE StopsBefore(v, u)
    BY <1>2, <1>6, <1>7
  <1>8. CASE ~StopsBefore(v, u)
    <2>1. u \in Nat /\ v \in Nat /\ Level(u) \in Nat /\ Level(v) \in Nat /\ u # v
      BY <1>0, <1>2, <1>3, <1>6
    <2>2. StopsBefore(u, v)
      BY <1>8, <2>1 DEF StopsBefore
    <2>3. ASSUME NEW d \in U \ {u} PROVE StopsBefore(u, d)
      <3>1. d = v \/ StopsBefore(v, d)
        BY <1>6, <2>3
      <3>2. Level(d) \in Nat /\ d \in Nat
        BY <1>0, <1>2, <2>3
      <3> QED
        BY <2>1, <2>2, <3>1, <3>2 DEF StopsBefore
    <2> QED
      BY <1>2, <1>3, <2>3
  <1> QED
    BY <1>7, <1>8

LEMMA StopNextKeeps == ASSUME TypeOK, StartInv, StopNext PROVE StartInv'
  <1> DEFINE c == NextToStop
  <1>1. /\ phase \in {"unwinding", "stopping"} /\ phase' = phase /\ members # {}
        /\ \A d \in Process : inst[d] # "stopping"
        /\ inst' = [inst EXCEPT ![c] = "stopping"] /\ members' = members \ {c}
        /\ UNCHANGED <<gvars, layer, raised, degraded>>
    BY DEF StopNext
  <1>2. /\ verdict' = verdict /\ layers' = layers /\ Components' = Components /\ Process' = Process
        /\ layer' = layer /\ UNCHANGED gvars /\ degraded' = degraded
        /\ (\A d : Deps(d)' = Deps(d)) /\ (\A d : Level(d)' = Level(d))
    BY <1>1 DEF gvars, Components, Process, Scoped, Deps, Level
  <1>3. verdict = "built"
    BY <1>1, Bearings DEF LayerInv
  <1>4. c \in members /\ \A d \in members \ {c} : StopsBefore(c, d)
    <2>1. members \in SUBSET Components
      BY Bearings
    <2>2. \E m \in members : \A d \in members \ {m} : StopsBefore(m, d)
      BY <1>1, <1>3, <2>1, Bearings, FirstToStop
    <2> QED
      BY <2>2 DEF NextToStop
  <1> HIDE DEF c
  <1>5. c \in Components /\ \A d \in Components : inst'[d] = IF d = c THEN "stopping" ELSE inst[d]
    BY <1>1, <1>4, Bearings
  <1>6. \A d \in Components : inst[d] \in {"none", "running"}
    BY <1>1, Bearings DEF InstInv
  <1>7. InstInv'
    BY <1>1, <1>2, <1>3, <1>4, <1>5, <1>6, Bearings DEF InstInv
  <1>8. LayerInv' /\ WholeInv'
    BY <1>1, <1>2, <1>3 DEF LayerInv, WholeInv
  <1>9. InstancesOutlive'
    <2>1. ASSUME NEW e \in Process, inst'[e] # "none", NEW d \in Deps(e) PROVE inst'[d] = "running" \/ d \in degraded
      <3>1. d \in Components /\ Level(d) < Level(e) /\ Level(d) \in Nat /\ Level(e) \in Nat
        BY <1>3, <2>1, Bearings, LevelFacts
      <3>2. inst[e] = "running" /\ e \in members
        BY <1>4, <1>5, <1>6, <2>1, Bearings DEF InstInv
      <3>3. d # c
        <4>1. ASSUME d = c PROVE FALSE
          <5>1. e # c /\ StopsBefore(c, e)
            BY <1>4, <3>1, <3>2, <4>1
          <5> QED
            BY <3>1, <4>1, <5>1 DEF StopsBefore
        <4> QED
          BY <4>1
      <3> QED
        BY <1>5, <2>1, <3>1, <3>2, <3>3, Bearings DEF InstancesOutlive
    <2> QED
      BY <1>2, <2>1 DEF InstancesOutlive
  <1> QED
    BY <1>2, <1>7, <1>8, <1>9, Bearings, GraphSame DEF StartInv

\* What is gone was stopped after what depends on it.
LEMMA StopEndsKeeps ==
  ASSUME TypeOK, StartInv, NEW c \in Process, StopEnds(c) \/ StopRaises(c)
  PROVE  StartInv'
  <1>1. /\ inst[c] = "stopping" /\ inst' = [inst EXCEPT ![c] = "none"]
        /\ (phase' = phase /\ raised' = raised) \/ (phase' \in {"up", "down"} /\ raised' = "yes")
        /\ UNCHANGED <<gvars, layer, members, degraded>>
    BY DEF StopEnds, StopRaises
  <1>2. /\ verdict' = verdict /\ layers' = layers /\ Components' = Components /\ Process' = Process
        /\ layer' = layer /\ members' = members /\ UNCHANGED gvars /\ degraded' = degraded
        /\ (\A d : Deps(d)' = Deps(d)) /\ (\A d : Level(d)' = Level(d))
    BY <1>1 DEF gvars, Components, Process, Scoped, Deps, Level
  <1>3. c \in Components /\ \A d \in Components : inst'[d] = IF d = c THEN "none" ELSE inst[d]
    BY <1>1, Bearings
  <1>4. phase \in {"unwinding", "stopping"} /\ verdict = "built"
        /\ \A d \in Components : inst[d] \in {"stopping", "starting"} => d = c
    BY <1>1, <1>3, Bearings DEF InstInv
  <1>5. InstInv'
    BY <1>1, <1>2, <1>3, <1>4, Bearings DEF InstInv
  <1>6. LayerInv' /\ WholeInv'
    BY <1>1, <1>2, <1>4 DEF LayerInv, WholeInv
  <1>7. InstancesOutlive'
    <2>1. ASSUME NEW e \in Process, inst'[e] # "none", NEW d \in Deps(e) PROVE inst'[d] = "running" \/ d \in degraded
      <3>1. d \in Components /\ inst[e] # "none"
        BY <1>3, <1>4, <2>1, Bearings, LevelFacts
      <3>2. inst[d] = "running" \/ d \in degraded
        BY <2>1, <3>1, Bearings DEF InstancesOutlive
      <3> QED
        BY <1>1, <1>3, <3>1, <3>2
    <2> QED
      BY <1>2, <2>1 DEF InstancesOutlive
  <1> QED
    BY <1>2, <1>5, <1>6, <1>7, Bearings, GraphSame DEF StartInv

LEMMA AllStoppedKeeps == ASSUME TypeOK, StartInv, AllStopped PROVE StartInv'
  <1>1. /\ phase \in {"unwinding", "stopping"} /\ members = {} /\ \A c \in Process : inst[c] # "stopping"
        /\ phase' \in {"closing", "down"} /\ UNCHANGED <<gvars, layer, raised, inst, members, degraded>>
    BY DEF AllStopped
  <1>2. \A c \in Components : inst[c] = "none"
    BY <1>1, Bearings DEF InstInv
  <1> QED
    BY <1>1, <1>2, Bearings, PhaseKeeps DEF LayerInv

\* The cancellation of the owner starts and stops nothing yet.
LEMMA CancelKeeps == ASSUME TypeOK, StartInv, OwnerCancels PROVE StartInv'
  <1>1. /\ phase = "starting" /\ phase' = "aborting" /\ UNCHANGED <<gvars, layer, raised, pvars>>
    BY DEF OwnerCancels
  <1>2. /\ verdict' = verdict /\ layers' = layers /\ Components' = Components /\ Process' = Process
        /\ UNCHANGED <<inst, members, layer, degraded, gvars>>
        /\ (\A c : Deps(c)' = Deps(c)) /\ (\A c : Level(c)' = Level(c))
    BY <1>1 DEF gvars, pvars, Components, Process, Scoped, Deps, Level
  <1>3. InstInv' /\ InstancesOutlive'
    BY <1>1, <1>2, Bearings DEF InstInv, InstancesOutlive
  <1>4. LayerInv' /\ WholeInv'
    BY <1>1, <1>2, Bearings DEF LayerInv, WholeInv
  <1> QED
    BY <1>2, <1>3, <1>4, Bearings, GraphSame DEF StartInv

LEMMA LifeKeeps ==
  ASSUME TypeOK, StartInv, Unwind \/ Stop \/ DrainDone \/ DrainTimeout PROVE StartInv'
  <1>1. /\ UNCHANGED <<gvars, layer, raised, pvars>>
        /\ \/ phase = "aborting" /\ Starting = {} /\ phase' = "unwinding"
           \/ phase = "up" /\ phase' = "draining"
           \/ phase = "draining" /\ phase' = "stopping"
    BY DEF Unwind, Stop, DrainDone, DrainTimeout
  <1>2. /\ UNCHANGED <<gvars, inst, members, layer>> /\ degraded' = degraded /\ raised' = raised
        /\ phase # "down" /\ phase' \in {"unwinding", "draining", "stopping"}
    BY <1>1 DEF pvars
  <1>3. verdict = "built"
    BY <1>2, Bearings DEF LayerInv
  <1>4. \A c \in Components : /\ inst[c] # "starting"
                              /\ inst[c] = "stopping" => phase' \in {"unwinding", "stopping"}
    BY <1>1, Bearings DEF Starting, InstInv
  <1>5. raised = "no" /\ phase' = "draining" => Process \subseteq members \union degraded
    BY <1>1, Bearings DEF WholeInv
  <1> QED
    BY <1>2, <1>3, <1>4, <1>5, PhaseKeeps

LEMMA CloseKeeps ==
  ASSUME TypeOK, StartInv, CloseLinks \/ Closing \/ \E c \in Scoped : CloseStore(c) PROVE StartInv'
  <1>1. /\ UNCHANGED <<gvars, layer, pvars>> /\ phase = "closing"
        /\ \/ phase' \in {"closing", "down"} /\ raised' = raised
           \/ phase' = "up" /\ raised' = "yes"
    BY DEF CloseLinks, BetweenStores, CloseStore, Closing, CloseEnds, CloseRaises
  <1>2. verdict = "built" /\ \A c \in Components : inst[c] = "none"
    BY <1>1, Bearings DEF LayerInv
  <1> QED
    BY <1>1, <1>2, PhaseKeeps DEF pvars

\* Calls leave the process components alone; they may degrade scoped ones.
LEMMA CallStep ==
  ASSUME TypeOK, NEW k \in Calls, Invocation(k)
  PROVE  /\ UNCHANGED <<gvars, phase, layer, raised, inst, members, chains, shut, links>>
         /\ degraded \subseteq degraded'
  BY DEF Invocation, InvokeProcess, InvokeScoped, Create, Created, Resolved, ResolveFails, ResolveAbandoned,
         Return, pvars, svars

LEMMA StartInvKept == ASSUME TypeOK, StartInv, [Next]_vars PROVE StartInv'
  <1>1. ASSUME UNCHANGED <<gvars, phase, layer, raised, inst, members>>, degraded \subseteq degraded' PROVE StartInv'
    <2>1. /\ phase # "down" => verdict = "built"
          /\ phase = "closing" => \A c \in Components : inst[c] = "none"
      BY Bearings DEF LayerInv
    <2>2. \A c \in Components : /\ inst[c] = "starting" => phase \in {"starting", "aborting"}
                                /\ inst[c] = "stopping" => phase \in {"unwinding", "stopping"}
      BY Bearings DEF InstInv
    <2>3. raised = "no" => /\ phase \in {"up", "draining"} => Process \subseteq members \union degraded
                           /\ phase = "down" => \A c \in Components : inst[c] = "none"
      BY Bearings DEF WholeInv
    <2> QED
      BY <1>1, <2>1, <2>2, <2>3, PhaseKeeps
  <1>2. CASE \E k \in Calls : Invocation(k)
    BY <1>1, <1>2, CallStep
  <1>3. CASE UNCHANGED vars
    BY <1>1, <1>3 DEF vars, gvars
  <1>4. CASE Proceed
    BY <1>4, NextLayerKeeps, StartDoneKeeps, LifeKeeps, StopNextKeeps, AllStoppedKeeps, CloseKeeps,
       StartOkKeeps, StartFailsKeeps, StopEndsKeeps DEF Proceed
  <1> QED
    BY <1>2, <1>3, <1>4, ValidateKeeps, StartKeeps, CancelKeeps, LifeKeeps, CloseKeeps DEF Next


-----------------------------------------------------------------------------
(* Calls *)

\* The ways in which a call moves: not at all, in, on, back and out.
LEMMA CallMoves ==
  ASSUME TypeOK, SliceInv, CallInv, InstInv, NEW k \in Calls, Invocation(k)
  PROVE  \/ UNCHANGED cvars
         \/ \E c \in Scoped : /\ call' = [call EXCEPT ![k] = [at |-> "resolving", on |-> c]]
                              /\ call[k].at = "idle" /\ Started /\ UNCHANGED <<active, late, overtime, slice>>
         \/ \E c \in Components : /\ call' = [call EXCEPT ![k] = [at |-> "running", on |-> c]]
                                  /\ call[k].at # "running" /\ Started /\ Live(c)
                                  /\ active' = active + 1 /\ UNCHANGED <<overtime, slice>>
                                  /\ late' = IF phase \in {"stopping", "closing"} THEN late \union {k} ELSE late
         \/ /\ call' = [call EXCEPT ![k] = Idle] /\ call[k].at = "resolving"
            /\ UNCHANGED <<active, late, overtime>>
         \/ /\ call' = [call EXCEPT ![k] = Idle] /\ call[k].at = "running" /\ active' = active - 1
            /\ late' = late \ {k} /\ overtime' = overtime \ {k} /\ slice' = slice
  <1>1. CASE \E c \in Process : InvokeProcess(k, c)
    <2>1. PICK c \in Process : InvokeProcess(k, c)
      BY <1>1
    <2>2. c \in Components /\ inst[c] = "running"
      BY <2>1 DEF InvokeProcess, Available, InstInv, Process
    <2> QED
      BY <2>1, <2>2 DEF InvokeProcess, Run, svars, Live
  <1>2. CASE \E c \in Scoped : InvokeScoped(k, c)
    BY <1>2 DEF InvokeScoped, Enter, svars
  <1>3. CASE \E c \in Scoped : Create(k, c) \/ Created(k, c)
    BY <1>3 DEF Create, Created
  <1>4. CASE Resolved(k)
    <2> DEFINE c == call[k].on
    <2>1. call[k].at = "resolving" /\ c \in Scoped /\ c \notin shut /\ slice[c] = "running"
      BY <1>4 DEF Resolved, CallInv
    <2>2. links # "closed"
      BY <2>1 DEF SliceInv
    <2>3. Started
      BY <2>1, <2>2 DEF CallInv, TypeOK, Started
    <2>4. c \in Components /\ Live(c)
      BY <2>1, SystemFacts DEF Live, Process, TypeOK
    <2>5. Run(k, c) /\ UNCHANGED <<overtime, slice>>
      BY <1>4 DEF Resolved, svars
    <2> QED
      BY <2>1, <2>3, <2>4, <2>5 DEF Run
  <1>5. CASE ResolveFails(k) \/ ResolveAbandoned(k)
    BY <1>5 DEF ResolveFails, ResolveAbandoned, Drop
  <1>6. CASE Return(k)
    BY <1>6 DEF Return, Uncount, svars
  <1> QED
    BY <1>1, <1>2, <1>3, <1>4, <1>5, <1>6 DEF Invocation

\* A call does not take a slice that is running away from anyone.
LEMMA SlicesStay ==
  ASSUME TypeOK, SliceInv, CallInv, NEW k \in Calls, Invocation(k)
  PROVE  /\ \A c \in Components : slice[c] = "running" => slice'[c] = "running"
         /\ \A c \in Components : Live(c) => Live(c)'
  <1>0. /\ slice \in [Components -> {"none", "starting", "running", "stopping"}] /\ Scoped \subseteq Components
        /\ \A c \in Components : owner[c] # NoCall => slice[c] = "starting"
    BY SystemFacts DEF TypeOK, SliceInv
  <1>1. k # NoCall
    BY CallsAssumption
  <1>2. \A c \in Components : slice[c] = "running" => slice'[c] = "running"
    <2>1. CASE \E c \in Scoped : Create(k, c) \/ Created(k, c)
      BY <1>0, <2>1 DEF Create, Created
    <2>2. CASE ResolveFails(k) \/ ResolveAbandoned(k)
      BY <1>0, <1>1, <2>2 DEF ResolveFails, ResolveAbandoned, Drop
    <2>3. CASE \/ \E c \in Process : InvokeProcess(k, c)
               \/ \E c \in Scoped : InvokeScoped(k, c)
               \/ Resolved(k) \/ Return(k)
      BY <2>3 DEF InvokeProcess, InvokeScoped, Resolved, Return, svars
    <2> QED
      BY <2>1, <2>2, <2>3 DEF Invocation
  <1>3. UNCHANGED <<sys, inst>>
    BY CallStep DEF gvars
  <1> QED
    BY <1>2, <1>3 DEF Live, Process, Components, Scoped

\* The calls that are running are as many as are counted.
LEMMA Counted ==
  ASSUME TypeOK, CallInv, NEW k \in Calls
  PROVE  /\ IsFiniteSet(Running)
         /\ k \in Running => active - 1 \in Nat /\ Cardinality(Running \ {k}) = active - 1
         /\ k \notin Running => Cardinality(Running \union {k}) = active + 1
         /\ active = 0 => Running = {}
  <1>1. IsFiniteSet(Running)
    BY CallsAssumption, FS_Subset DEF Running
  <1>2. active = Cardinality(Running) /\ active \in Nat
    BY DEF CallInv, TypeOK
  <1>3. ASSUME k \in Running PROVE active - 1 \in Nat /\ Cardinality(Running \ {k}) = active - 1
    <2>1. Cardinality(Running \ {k}) = active - 1
      BY <1>1, <1>2, <1>3, FS_RemoveElement
    <2>2. Cardinality(Running \ {k}) \in Nat
      BY <1>1, FS_Subset, FS_CardinalityType
    <2> QED
      BY <2>1, <2>2
  <1>4. k \notin Running => Cardinality(Running \union {k}) = active + 1
    BY <1>1, <1>2, FS_AddElement
  <1>5. active = 0 => Running = {}
    BY <1>1, <1>2, FS_EmptySet
  <1> QED
    BY <1>1, <1>3, <1>4, <1>5

LEMMA CallFacts ==
  ASSUME TypeOK, CallInv
  PROVE  /\ CallTypes /\ active = Cardinality(Running)
         /\ \A j \in Calls : call[j].at # "idle" => call[j].on \in Components
         /\ \A j \in Calls : call[j].at = "resolving" => call[j].on \in Scoped
         /\ Scoped \subseteq Components /\ \A j : j \in Running <=> j \in Calls /\ call[j].at = "running"
         /\ phase \in {"down", "starting", "aborting", "unwinding"} /\ links = "open" =>
              \A j \in Calls : call[j].at = "idle"
         /\ raised = "no" /\ phase \notin {"up", "draining"} => Running \subseteq late \union overtime
         /\ raised = "no" /\ phase \in {"up", "draining"} => \A j \in Running : Live(call[j].on)
  <1>1. call \in [Calls -> {Idle} \union [at : {"resolving", "running"}, on : Components]]
    BY DEF TypeOK
  <1>2. \A j \in Calls : call[j].at # "idle" => call[j].on \in Components
    BY <1>1 DEF Idle
  <1> QED
    BY <1>2, SystemFacts DEF TypeOK, CallTypes, CallInv, Running

LEMMA MoveKeeps ==
  ASSUME TypeOK, SliceInv, CallInv, NEW k \in Calls, Invocation(k),
         NEW e \in {Idle} \union [at : {"resolving", "running"}, on : Components],
         call' = [call EXCEPT ![k] = e],
         e.at = "resolving" => e.on \in Scoped,
         e.at # "idle" => e = call[k] \/ Started,
         e.at = "running" => e = call[k] \/ Live(e.on),
         active' \in Nat, active' = Cardinality(Running'),
         late' \subseteq Running', overtime' \subseteq Running',
         raised = "no" /\ phase \notin {"up", "draining"} => Running' \subseteq late' \union overtime'
  PROVE  CallTypes' /\ CallInv'
  <1>1. /\ phase' = phase /\ raised' = raised /\ links' = links /\ Scoped' = Scoped /\ Components' = Components
        /\ \A c \in Components : Live(c) => Live(c)'
    BY CallStep, SlicesStay DEF Scoped, Components, gvars
  <1>2. call' \in [Calls -> {Idle} \union [at : {"resolving", "running"}, on : Components]]
    BY CallFacts DEF CallTypes
  <1>3. \A j \in Calls : call'[j] = IF j = k THEN e ELSE call[j]
    BY CallFacts DEF CallTypes
  <1>4. CallTypes'
    BY <1>1, <1>2 DEF CallTypes, Idle
  <1>5. phase \in {"down", "starting", "aborting", "unwinding"} /\ links = "open" =>
          \A j \in Calls : call'[j].at = "idle"
    BY <1>3, CallFacts DEF Started
  <1>6. \A j \in Calls : call'[j].at = "resolving" => call'[j].on \in Scoped
    BY <1>3, CallFacts
  <1>7. raised = "no" /\ phase \in {"up", "draining"} => (\A j \in Running : Live(call[j].on))'
    <2>1. SUFFICES ASSUME raised = "no", phase \in {"up", "draining"}, NEW j \in Running'
                   PROVE  Live(call[j].on)'
      OBVIOUS
    <2>2. PICK c \in Components : c = call'[j].on
      BY <1>2, <2>1 DEF Idle, Running
    <2>3. Live(c)
      BY <1>3, <2>1, <2>2, CallFacts DEF Running
    <2>4. Live(c)'
      BY <1>1, <2>3
    <2> QED
      BY <2>2, <2>4 DEF Live
  <1>8. (active = Cardinality(Running))'
    OBVIOUS
  <1> QED
    BY <1>1, <1>4, <1>5, <1>6, <1>7, <1>8 DEF CallInv

LEMMA CallStepKeeps ==
  ASSUME TypeOK, SliceInv, CallInv, InstInv, NEW k \in Calls, Invocation(k)
  PROVE  CallTypes' /\ CallInv'
  <1>0. /\ call \in [Calls -> {Idle} \union [at : {"resolving", "running"}, on : Components]]
        /\ active \in Nat /\ late \subseteq Running /\ overtime \subseteq Running
    BY CallFacts DEF CallTypes
  <1>1. CASE UNCHANGED cvars
    <2>1. call' = [call EXCEPT ![k] = call[k]] /\ Running' = Running /\ UNCHANGED <<active, late, overtime>>
      BY <1>0, <1>1 DEF cvars, Running
    <2> QED
      BY <1>0, <2>1, CallFacts, MoveKeeps
  <1>2. ASSUME NEW c \in Scoped, call' = [call EXCEPT ![k] = [at |-> "resolving", on |-> c]],
               call[k].at = "idle", Started, UNCHANGED <<active, late, overtime, slice>>
        PROVE  CallTypes' /\ CallInv'
    <2> DEFINE e == [at |-> "resolving", on |-> c]
    <2>1. e \in [at : {"resolving", "running"}, on : Components]
      BY CallFacts
    <2>2. Running' = Running
      BY <1>0, <1>2 DEF Running
    <2> QED
      BY <1>0, <1>2, <2>1, <2>2, CallFacts, MoveKeeps
  <1>3. ASSUME NEW c \in Components, call' = [call EXCEPT ![k] = [at |-> "running", on |-> c]],
               call[k].at # "running", Started, Live(c), active' = active + 1, UNCHANGED <<overtime, slice>>,
               late' = IF phase \in {"stopping", "closing"} THEN late \union {k} ELSE late
        PROVE  CallTypes' /\ CallInv'
    <2> DEFINE e == [at |-> "running", on |-> c]
    <2>1. Running' = Running \union {k} /\ k \notin Running
      BY <1>0, <1>3 DEF Running
    <2>2. active' = Cardinality(Running') /\ active' \in Nat
      <3>1. active + 1 \in Nat
        BY <1>0
      <3> QED
        BY <1>3, <2>1, <3>1, Counted
    <2>3. raised = "no" /\ phase \notin {"up", "draining"} => Running' \subseteq late' \union overtime'
      BY <1>3, <2>1, CallFacts DEF Started
    <2>4. late' \subseteq Running' /\ overtime' \subseteq Running'
      BY <1>0, <1>3, <2>1
    <2> QED
      BY <1>3, <2>2, <2>3, <2>4, MoveKeeps
  <1>4. CASE /\ call' = [call EXCEPT ![k] = Idle] /\ call[k].at = "resolving"
             /\ UNCHANGED <<active, late, overtime>>
    <2>1. Running' = Running
      BY <1>0, <1>4 DEF Running, Idle
    <2>2. Idle.at = "idle"
      BY DEF Idle
    <2> QED
      BY <1>0, <1>4, <2>1, <2>2, CallFacts, MoveKeeps
  <1>5. CASE /\ call' = [call EXCEPT ![k] = Idle] /\ call[k].at = "running" /\ active' = active - 1
             /\ late' = late \ {k} /\ overtime' = overtime \ {k} /\ slice' = slice
    <2>1. Running' = Running \ {k} /\ k \in Running
      BY <1>0, <1>5 DEF Running, Idle
    <2>2. active' = Cardinality(Running') /\ active' \in Nat
      BY <1>5, <2>1, Counted
    <2>3. raised = "no" /\ phase \notin {"up", "draining"} => Running' \subseteq late' \union overtime'
      BY <1>5, <2>1, CallFacts
    <2>4. Idle.at = "idle" /\ late' \subseteq Running' /\ overtime' \subseteq Running'
      BY <1>0, <1>5, <2>1 DEF Idle
    <2> QED
      BY <1>5, <2>2, <2>3, <2>4, MoveKeeps
  <1> QED
    BY <1>1, <1>2, <1>3, <1>4, <1>5, CallMoves

\* What the steps of start() and stop() leave to the calls and the slices
LEMMA LifeStep ==
  ASSUME Validate \/ Start \/ OwnerCancels \/ Stop \/ Proceed \/ Closing
  PROVE  /\ UNCHANGED <<call, active, late, owner>> /\ sys' = sys
         /\ overtime' = overtime \/ DrainTimeout
         /\ raised' = raised \/ raised' = "yes"
         /\ \/ UNCHANGED svars /\ ~CloseLinks
            \/ /\ \E c \in Scoped : /\ slice[c] # "starting"
                                    /\ \E to \in {"none", "stopping"} : slice' = [slice EXCEPT ![c] = to]
                                    /\ shut' = shut \union {c} \/ (shut' = shut /\ slice[c] = "stopping")
               /\ phase = "closing" /\ links' = links
            \/ CloseLinks /\ UNCHANGED <<slice, shut>>
  <1>1. Validate => sys' = sys
    BY DEF Validate, Build, CheckEdges, Root, Descend, BackEdge, Leave, Acyclic, Layer
  <1>2. CASE Validate
    BY <1>1, <1>2 DEF Validate, svars, cvars, CloseLinks, Build, CheckEdges, Root, Descend, BackEdge, Leave,
                      Acyclic, Layer, gvars
  <1>3. CASE Start \/ OwnerCancels \/ Stop \/ NextLayer \/ StartDone \/ Unwind \/ DrainDone \/ StopNext
    BY <1>3 DEF Start, OwnerCancels, Stop, NextLayer, StartDone, Unwind, DrainDone, StopNext, svars, cvars, gvars,
                CloseLinks
  <1>4. CASE DrainTimeout \/ AllStopped \/ CloseLinks
    BY <1>4 DEF DrainTimeout, AllStopped, CloseLinks, svars, cvars, gvars
  <1>5. CASE \E c \in Process : \/ StartOk(c) \/ StartFails(c) \/ StartCancelled(c)
                                \/ InstantiateFails(c) \/ StopEnds(c) \/ StopRaises(c)
    BY <1>5 DEF StartOk, StartFails, StartCancelled, InstantiateFails, StopEnds, StopRaises, svars, cvars, gvars,
                CloseLinks
  <1>6. CASE Closing \/ \E c \in Scoped : CloseStore(c)
    BY <1>6 DEF BetweenStores, CloseStore, Closing, CloseEnds, CloseRaises, cvars, gvars
  <1> QED
    BY <1>2, <1>3, <1>4, <1>5, <1>6 DEF Proceed

\* Where a step of start() or stop() leads
LEMMA PhaseStep ==
  ASSUME InstInv, Validate \/ Start \/ OwnerCancels \/ Stop \/ Proceed \/ Closing
  PROVE  /\ phase' # phase => \/ phase = "down" /\ links = "open" /\ phase' = "starting"
                              \/ phase = "starting" /\ phase' \in {"up", "aborting"}
                              \/ phase = "aborting" /\ phase' \in {"aborting", "unwinding"}
                              \/ phase = "unwinding" /\ phase' = "down"
                              \/ phase = "up" /\ phase' = "draining"
                              \/ phase = "draining" /\ phase' = "stopping"
                                   /\ (active = 0 \/ overtime' = overtime \union Running)
                              \/ phase = "stopping" /\ (phase' = "closing" \/ (phase' = "up" /\ raised' = "yes"))
                              \/ phase = "closing" /\ (CloseLinks \/ (phase' = "up" /\ raised' = "yes"))
         /\ phase \in {"up", "draining"} => inst' = inst
         /\ inst' # inst => phase # "closing"
  <1>1. CASE Validate \/ Start \/ OwnerCancels \/ Stop \/ NextLayer \/ StartDone \/ Unwind
    BY <1>1 DEF Validate, Start, OwnerCancels, Stop, NextLayer, StartDone, Unwind, pvars
  <1>2. CASE DrainDone \/ DrainTimeout \/ StopNext \/ AllStopped \/ CloseLinks
    BY <1>2 DEF DrainDone, Drained, DrainTimeout, StopNext, AllStopped, CloseLinks, BetweenStores, pvars
  <1>3. CASE \E c \in Process : \/ StartOk(c) \/ StartFails(c) \/ StartCancelled(c) \/ InstantiateFails(c)
    BY <1>3 DEF StartOk, StartFails, StartCancelled, InstantiateFails
  <1>4. CASE \E c \in Process : StopEnds(c) \/ StopRaises(c)
    BY <1>4 DEF StopEnds, StopRaises, InstInv, Process
  <1>5. CASE Closing \/ \E c \in Scoped : CloseStore(c)
    BY <1>5 DEF BetweenStores, CloseStore, Closing, CloseEnds, CloseRaises, pvars
  <1> QED
    BY <1>1, <1>2, <1>3, <1>4, <1>5 DEF Proceed

LEMMA CallInvKept == ASSUME TypeOK, StartInv, SliceInv, CallInv, [Next]_vars PROVE CallTypes' /\ CallInv'
  <1>0. InstInv
    BY DEF StartInv
  <1>1. CASE \E k \in Calls : Invocation(k)
    BY <1>0, <1>1, CallStepKeeps
  <1>2. CASE Validate \/ Start \/ OwnerCancels \/ Stop \/ Proceed \/ Closing
    <2>1. /\ UNCHANGED <<call, active, late>> /\ sys' = sys /\ Running' = Running
          /\ Scoped' = Scoped /\ Components' = Components /\ Process' = Process
          /\ overtime' = overtime \/ DrainTimeout
      BY <1>2, LifeStep DEF Running, Scoped, Components, Process
    <2>2. overtime' = overtime \/ overtime' = overtime \union Running
      BY <2>1 DEF DrainTimeout
    <2>3. CallTypes'
      BY <2>1, <2>2, CallFacts DEF CallTypes, Idle
    <2>4. (phase \in {"down", "starting", "aborting", "unwinding"} /\ links = "open" =>
             \A j \in Calls : call[j].at = "idle")'
      <3>1. links \in {"open", "closed"} /\ (links = "closed" => phase = "down")
        BY DEF TypeOK, SliceInv
      <3>2. links' = links \/ links' = "closed"
        BY <1>2, LifeStep DEF svars, CloseLinks
      <3>3. phase \in {"down", "starting", "aborting", "unwinding"} \/ links' = "closed"
              \/ phase' \notin {"down", "starting", "aborting", "unwinding"}
        BY <1>0, <1>2, PhaseStep DEF CloseLinks
      <3> QED
        BY <2>1, <3>1, <3>2, <3>3, CallFacts
    <2>5. (raised = "no" /\ phase \notin {"up", "draining"} => Running \subseteq late \union overtime)'
      <3>1. active = 0 => Running = {}
        BY Counted, CallFacts
      <3> QED
        BY <1>0, <1>2, <2>1, <2>2, <3>1, CallFacts, PhaseStep, LifeStep
    <2>6. (raised = "no" /\ phase \in {"up", "draining"} => \A j \in Running : Live(call[j].on))'
      <3>1. SUFFICES ASSUME raised' = "no", phase' \in {"up", "draining"}, NEW j \in Running
                     PROVE  Live(call[j].on)'
        BY <2>1
      <3>2. raised = "no" /\ links \in {"open", "closed"} /\ (links = "closed" => phase = "down")
        BY <1>2, <3>1, LifeStep DEF TypeOK, SliceInv
      <3>3. CASE phase \in {"up", "draining"}
        <4>1. inst' = inst
          BY <1>0, <1>2, <3>3, PhaseStep
        <4>2. slice' = slice
          BY <1>2, <3>3, LifeStep DEF svars
        <4>3. Live(call[j].on)
          BY <3>1, <3>2, <3>3, CallFacts
        <4> QED
          BY <2>1, <4>1, <4>2, <4>3 DEF Live
      <3>4. CASE phase \notin {"up", "draining"}
        <4>1. phase = "starting"
          BY <1>0, <1>2, <3>1, <3>4, PhaseStep DEF CloseLinks
        <4>2. call[j].at = "idle" /\ call[j].at = "running"
          BY <3>1, <3>2, <4>1, CallFacts
        <4> QED
          BY <4>2
      <3> QED
        BY <3>3, <3>4
    <2> QED
      BY <2>1, <2>3, <2>4, <2>5, <2>6, CallFacts DEF CallInv
  <1>3. CASE UNCHANGED vars
    <2>1. /\ UNCHANGED <<call, active, late, overtime, phase, links, raised, inst, slice, sys>> /\ Running' = Running
          /\ Scoped' = Scoped /\ Components' = Components /\ Process' = Process
      BY <1>3 DEF vars, gvars, cvars, svars, pvars, Running, Scoped, Components, Process
    <2>2. CallTypes'
      BY <2>1, CallFacts DEF CallTypes, Idle
    <2>3. (\A j \in Running : Live(call[j].on)) => (\A j \in Running : Live(call[j].on))'
      BY <2>1 DEF Live
    <2> QED
      BY <2>1, <2>2, <2>3 DEF CallInv
  <1> QED
    BY <1>1, <1>2, <1>3 DEF Next

LEMMA SliceInvKept == ASSUME TypeOK, StartInv, SliceInv, CallInv, [Next]_vars PROVE SliceInv'
  <1>0. /\ slice \in [Components -> {"none", "starting", "running", "stopping"}] /\ owner \in [Components -> Calls \union {NoCall}]
        /\ Scoped \subseteq Components /\ shut \subseteq Scoped /\ links \in {"open", "closed"}
        /\ InstInv /\ NoCall \notin Calls
    BY SystemFacts, CallsAssumption DEF TypeOK, StartInv
  <1>1. /\ \A c \in Components : /\ owner[c] # NoCall <=> slice[c] = "starting"
                                 /\ slice[c] # "none" => c \in Scoped
                                 /\ slice[c] = "stopping" => c \in shut
        /\ SlicesInOrder
        /\ links = "closed" => phase = "down" /\ Scoped \subseteq shut
        /\ raised = "no" /\ shut # {} => phase = "closing" \/ links = "closed"
    BY DEF SliceInv
  <1>2. CASE \E k \in Calls : Invocation(k)
    <2>1. PICK k \in Calls : Invocation(k)
      BY <1>2
    <2>2. /\ UNCHANGED <<phase, raised, shut, links>> /\ Scoped' = Scoped /\ Components' = Components
          /\ \A c : Deps(c)' = Deps(c)
      BY <2>1, CallStep DEF Scoped, Components, Deps, gvars
    <2>3. /\ \A c \in Components : /\ owner'[c] # NoCall <=> slice'[c] = "starting"
                                   /\ slice'[c] # "none" => c \in Scoped
                                   /\ slice'[c] = "stopping" => c \in shut
          /\ \A c \in Scoped : slice'[c] = "running" /\ slice[c] # "running" => ReadyToStart(c)
      <3>1. CASE \E c \in Scoped : Create(k, c)
        BY <1>0, <1>1, <3>1 DEF Create
      <3>2. CASE \E c \in Scoped : Created(k, c)
        BY <1>0, <1>1, <3>2 DEF Created
      <3>3. CASE ResolveFails(k) \/ ResolveAbandoned(k)
        BY <1>0, <1>1, <3>3 DEF ResolveFails, ResolveAbandoned, Drop
      <3>4. CASE \/ \E c \in Process : InvokeProcess(k, c)
                 \/ \E c \in Scoped : InvokeScoped(k, c)
                 \/ Resolved(k) \/ Return(k)
        <4>1. UNCHANGED <<slice, owner>>
          BY <3>4 DEF InvokeProcess, InvokeScoped, Resolved, Return, svars
        <4> QED
          BY <1>1, <4>1
      <3> QED
        BY <2>1, <3>1, <3>2, <3>3, <3>4 DEF Invocation
    <2>4. SlicesInOrder'
      BY <1>0, <1>1, <2>1, <2>2, <2>3, SlicesStay DEF SlicesInOrder, ReadyToStart
    <2> QED
      BY <1>1, <2>2, <2>3, <2>4 DEF SliceInv
  <1>3. CASE Validate \/ Start \/ OwnerCancels \/ Stop \/ Proceed \/ Closing
    <2>1. /\ owner' = owner /\ Scoped' = Scoped /\ Components' = Components /\ \A c : Deps(c)' = Deps(c)
      BY <1>3, LifeStep DEF Scoped, Components, Deps
    <2>2. CASE UNCHANGED svars /\ ~CloseLinks
      <3>1. /\ UNCHANGED <<slice, shut, links>> /\ (links = "closed" => phase' = phase)
            /\ (raised' = "no" /\ phase = "closing" => phase' = "closing" /\ raised = "no")
            /\ (raised' = "no" => raised = "no")
        BY <1>0, <1>1, <1>3, <2>2, PhaseStep, LifeStep DEF svars
      <3> QED
        BY <1>1, <2>1, <3>1 DEF SliceInv, SlicesInOrder
    <2>3. CASE /\ \E c \in Scoped : /\ slice[c] # "starting"
                                    /\ \E to \in {"none", "stopping"} : slice' = [slice EXCEPT ![c] = to]
                                    /\ shut' = shut \union {c} \/ (shut' = shut /\ slice[c] = "stopping")
               /\ phase = "closing" /\ links' = links
      <3>1. PICK c \in Scoped, to \in {"none", "stopping"} :
                /\ slice[c] # "starting" /\ slice' = [slice EXCEPT ![c] = to]
                /\ shut' = shut \union {c} \/ (shut' = shut /\ slice[c] = "stopping")
        BY <2>3
      <3>2. links' # "closed" /\ c \in shut' /\ shut \subseteq shut'
        BY <1>0, <1>1, <2>3, <3>1
      <3>3. \A d \in Components : slice'[d] = IF d = c THEN to ELSE slice[d]
        BY <1>0, <3>1
      <3>4. raised' = "no" => phase' = "closing"
        BY <1>0, <1>3, <2>3, <3>2, PhaseStep DEF CloseLinks
      <3>5. SlicesInOrder'
        BY <3>2 DEF SlicesInOrder
      <3>6. \A d \in Components : /\ owner[d] # NoCall <=> slice'[d] = "starting"
                                  /\ slice'[d] # "none" => d \in Scoped
                                  /\ slice'[d] = "stopping" => d \in shut'
        BY <1>0, <1>1, <3>1, <3>2, <3>3
      <3> QED
        BY <2>1, <2>3, <3>2, <3>4, <3>5, <3>6 DEF SliceInv
    <2>4. CASE CloseLinks /\ UNCHANGED <<slice, shut>>
      <3>1. links' = "closed" /\ phase' = "down" /\ Scoped \subseteq shut
        BY <2>4 DEF CloseLinks
      <3> QED
        BY <1>1, <2>1, <2>4, <3>1 DEF SliceInv, SlicesInOrder
    <2> QED
      BY <1>3, <2>2, <2>3, <2>4, LifeStep
  <1>4. CASE UNCHANGED vars
    BY <1>1, <1>4 DEF vars, gvars, svars, SliceInv, SlicesInOrder, Scoped, Components, Deps
  <1> QED
    BY <1>2, <1>3, <1>4 DEF Next

-----------------------------------------------------------------------------
(* Types *)

\* The variables of start() and stop()
LifeTypes ==
    /\ phase \in {"down", "starting", "aborting", "unwinding", "up", "draining", "stopping", "closing"}
    /\ layer \in Nat
    /\ inst \in [Components -> {"none", "starting", "running", "stopping"}]
    /\ members \subseteq Process /\ chains \subseteq Process
    /\ degraded \subseteq Components \ Required
    /\ raised \in {"no", "yes"}

\* The slices and the stores
SliceTypes ==
    /\ slice \in [Components -> {"none", "starting", "running", "stopping"}]
    /\ owner \in [Components -> Calls \union {NoCall}]
    /\ shut \subseteq Scoped /\ links \in {"open", "closed"}

LEMMA TypeParts == TypeOK <=> GraphTypeOK /\ LifeTypes /\ SliceTypes /\ CallTypes
  BY DEF TypeOK, LifeTypes, SliceTypes, CallTypes

LEMMA SameSystem ==
  ASSUME sys' = sys
  PROVE  Components' = Components /\ Scoped' = Scoped /\ Process' = Process /\ Required' = Required
  BY DEF Components, Scoped, Process, Required

LEMMA CallTyped == ASSUME CallTypes, NEW k \in Calls, call[k].at # "idle" PROVE call[k].on \in Components
  BY DEF CallTypes, Idle

LEMMA LifeTypesKept == ASSUME TypeOK, [Next]_vars PROVE GraphTypeOK' /\ LifeTypes' /\ sys' = sys
  <1>0. /\ GraphTypeOK /\ LifeTypes /\ Scoped \subseteq Components /\ Process \subseteq Components
    BY TypeParts, SystemFacts
  <1>1. ASSUME UNCHANGED gvars PROVE GraphTypeOK' /\ sys' = sys
    BY <1>0, <1>1 DEF gvars, GraphTypeOK, Components
  <1>2. CASE Validate
    <2>1. GraphTypeOK' /\ sys' = sys /\ UNCHANGED <<phase, layer, raised, pvars>>
      BY <1>0, <1>2, BuildTypes DEF Validate
    <2> QED
      BY <1>0, <2>1, SameSystem DEF LifeTypes, pvars
  <1>3. CASE \/ Start \/ OwnerCancels \/ Stop \/ NextLayer \/ StartDone \/ Unwind \/ DrainDone \/ DrainTimeout
             \/ StopNext \/ AllStopped \/ CloseLinks
    <2>1. UNCHANGED gvars /\ UNCHANGED raised
      BY <1>3 DEF Start, OwnerCancels, Stop, NextLayer, StartDone, Unwind, DrainDone, DrainTimeout, StopNext,
                   AllStopped, CloseLinks
    <2>2. phase' \in {"down", "starting", "aborting", "unwinding", "up", "draining", "stopping", "closing"}
      BY <1>0, <1>3 DEF LifeTypes, Start, OwnerCancels, Stop, NextLayer, StartDone, Unwind, DrainDone, DrainTimeout,
                        StopNext, AllStopped, CloseLinks
    <2>3. layer' \in Nat
      BY <1>0, <1>3 DEF LifeTypes, Start, OwnerCancels, Stop, NextLayer, StartDone, Unwind, DrainDone, DrainTimeout,
                        StopNext, AllStopped, CloseLinks
    <2>4. inst' \in [Components -> {"none", "starting", "running", "stopping"}]
      BY <1>0, <1>3 DEF LifeTypes, Start, OwnerCancels, Stop, NextLayer, StartDone, Unwind, DrainDone, DrainTimeout,
                        StopNext, AllStopped, CloseLinks, pvars
    <2>5. members' \subseteq Process /\ chains' \subseteq Process /\ degraded' = degraded
      BY <1>0, <1>3 DEF LifeTypes, Start, OwnerCancels, Stop, NextLayer, StartDone, Unwind, DrainDone, DrainTimeout,
                        StopNext, AllStopped, CloseLinks, pvars, Bound
    <2> QED
      BY <1>0, <1>1, <2>1, <2>2, <2>3, <2>4, <2>5, SameSystem DEF LifeTypes
  <1>4. CASE \E c \in Process : \/ StartOk(c) \/ StartFails(c) \/ StartCancelled(c)
                                \/ InstantiateFails(c) \/ StopEnds(c) \/ StopRaises(c)
    <2>1. PICK c \in Process : \/ StartOk(c) \/ StartFails(c) \/ StartCancelled(c)
                               \/ InstantiateFails(c) \/ StopEnds(c) \/ StopRaises(c)
      BY <1>4
    <2>2. UNCHANGED gvars /\ UNCHANGED <<layer, chains>> /\ raised' \in {raised, "yes"}
          /\ phase' \in {phase, "aborting", "up", "down"} /\ members' \in {members, members \union {c}}
          /\ inst' \in {[inst EXCEPT ![c] = "running"], [inst EXCEPT ![c] = "none"]}
          /\ degraded' \in {degraded, degraded \union ({c} \ Required)}
      BY <2>1 DEF StartOk, StartFails, StartCancelled, InstantiateFails, StopEnds, StopRaises, Optional
    <2>3. inst' \in [Components -> {"none", "starting", "running", "stopping"}]
      BY <1>0, <2>2 DEF LifeTypes
    <2> QED
      BY <1>0, <1>1, <2>2, <2>3, SameSystem DEF LifeTypes
  <1>5. CASE Closing \/ \E c \in Scoped : CloseStore(c)
    <2>1. UNCHANGED gvars /\ UNCHANGED <<layer, inst, members, chains, degraded>>
          /\ phase' \in {phase, "up"} /\ raised' \in {raised, "yes"}
      BY <1>5 DEF CloseStore, Closing, CloseEnds, CloseRaises, pvars
    <2> QED
      BY <1>0, <1>1, <2>1, SameSystem DEF LifeTypes
  <1>6. CASE \E k \in Calls : Invocation(k)
    <2>1. PICK k \in Calls : Invocation(k)
      BY <1>6
    <2>2. UNCHANGED gvars /\ UNCHANGED <<phase, layer, raised, inst, members, chains>>
      BY <2>1, CallStep
    <2>3. degraded' \subseteq Components \ Required
      <3>1. CASE ResolveFails(k)
        <4>1. call[k].on \in Components
          BY <3>1, CallTyped, TypeParts DEF ResolveFails
        <4>2. Creating(k) \subseteq Components
          BY <1>0 DEF Creating
        <4> QED
          BY <1>0, <3>1, <4>1, <4>2 DEF ResolveFails, LifeTypes
      <3>2. CASE ~ResolveFails(k)
        <4>1. degraded' = degraded
          BY <2>1, <3>2 DEF Invocation, InvokeProcess, InvokeScoped, Create, Created, Resolved, ResolveAbandoned,
                            Return, pvars
        <4> QED
          BY <1>0, <4>1 DEF LifeTypes
      <3> QED
        BY <3>1, <3>2
    <2> QED
      BY <1>0, <1>1, <2>2, <2>3, SameSystem DEF LifeTypes
  <1>7. CASE UNCHANGED vars
    <2>1. UNCHANGED gvars /\ UNCHANGED <<phase, layer, raised, inst, members, chains, degraded>>
      BY <1>7 DEF vars, gvars
    <2> QED
      BY <1>0, <1>1, <2>1, SameSystem DEF LifeTypes
  <1> QED
    BY <1>2, <1>3, <1>4, <1>5, <1>6, <1>7 DEF Next, Proceed

LEMMA SliceTypesKept == ASSUME TypeOK, [Next]_vars PROVE SliceTypes'
  <1>0. SliceTypes /\ Scoped \subseteq Components
    BY TypeParts, SystemFacts
  <1>1. sys' = sys
    BY LifeTypesKept
  <1>2. CASE UNCHANGED vars
    BY <1>0, <1>1, <1>2, SameSystem DEF SliceTypes, vars, svars
  <1>3. CASE Validate \/ Start \/ OwnerCancels \/ Stop \/ Proceed \/ Closing
    <2>1. /\ owner' = owner
          /\ slice' = slice \/ \E c \in Scoped, to \in {"none", "stopping"} : slice' = [slice EXCEPT ![c] = to]
          /\ shut' \subseteq Scoped /\ links' \in {links, "closed"}
      BY <1>0, <1>3, LifeStep DEF SliceTypes, svars, CloseLinks
    <2>2. slice' \in [Components -> {"none", "starting", "running", "stopping"}]
      BY <1>0, <2>1 DEF SliceTypes
    <2> QED
      BY <1>0, <1>1, <2>1, <2>2, SameSystem DEF SliceTypes
  <1>4. CASE \E k \in Calls : Invocation(k)
    <2>1. PICK k \in Calls : Invocation(k)
      BY <1>4
    <2>2. UNCHANGED <<shut, links>>
      BY <2>1, CallStep
    <2>3. slice' \in [Components -> {"none", "starting", "running", "stopping"}] /\ owner' \in [Components -> Calls \union {NoCall}]
      <3>1. CASE \E c \in Scoped : Create(k, c) \/ Created(k, c)
        BY <1>0, <3>1 DEF SliceTypes, Create, Created
      <3>2. CASE ResolveFails(k) \/ ResolveAbandoned(k)
        BY <1>0, <3>2 DEF SliceTypes, ResolveFails, ResolveAbandoned, Drop
      <3>3. CASE \/ \E c \in Process : InvokeProcess(k, c)
                 \/ \E c \in Scoped : InvokeScoped(k, c)
                 \/ Resolved(k) \/ Return(k)
        BY <1>0, <3>3 DEF SliceTypes, InvokeProcess, InvokeScoped, Resolved, Return, svars
      <3> QED
        BY <2>1, <3>1, <3>2, <3>3 DEF Invocation
    <2> QED
      BY <1>0, <1>1, <2>2, <2>3, SameSystem DEF SliceTypes
  <1> QED
    BY <1>2, <1>3, <1>4 DEF Next

-----------------------------------------------------------------------------
(* The invariant *)

LEMMA Initially == ASSUME Init PROVE IInv
  <1>1. GraphTypeOK /\ GraphInv
    BY DEF Init, GraphInit, GraphTypeOK, GraphInv, EdgesInv, VisitedInv, LayersInv
  <1>2. Running = {}
    BY DEF Init, Running, Idle
  <1>3. TypeOK
    BY <1>1 DEF Init, TypeOK
  <1>4. StartInv
    BY <1>1 DEF Init, GraphInit, StartInv, InstInv, LayerInv, WholeInv, InstancesOutlive, Process
  <1>5. SliceInv
    BY SystemFacts, <1>1 DEF Init, SliceInv, SlicesInOrder
  <1>6. Cardinality(Running) = 0
    BY <1>2, FS_EmptySet
  <1>7. CallInv
    BY <1>2, <1>6 DEF Init, CallInv, Idle
  <1> QED
    BY <1>3, <1>4, <1>5, <1>7 DEF IInv

LEMMA Inductive == Spec => []IInv
  <1>1. IInv /\ [Next]_vars => IInv'
    <2> SUFFICES ASSUME IInv, [Next]_vars PROVE IInv'
      OBVIOUS
    <2>1. TypeOK /\ StartInv /\ SliceInv /\ CallInv
      BY DEF IInv
    <2>2. StartInv' /\ SliceInv' /\ CallTypes' /\ CallInv'
      BY <2>1, StartInvKept, SliceInvKept, CallInvKept
    <2>3. GraphTypeOK' /\ LifeTypes' /\ SliceTypes'
      BY <2>1, LifeTypesKept, SliceTypesKept
    <2>4. TypeOK'
      BY <2>2, <2>3 DEF TypeOK, LifeTypes, SliceTypes, CallTypes
    <2> QED
      BY <2>2, <2>4 DEF IInv
  <1> QED
    BY <1>1, Initially, PTL DEF Spec

-----------------------------------------------------------------------------
(* Theorems *)

\* The variables keep their types.
THEOREM TypeCorrect == Spec => []TypeOK
  <1>1. IInv => TypeOK
    BY DEF IInv
  <1> QED
    BY <1>1, Inductive, PTL

\* startup_layers() of a graph that build() accepts is a topological order: every
\* component is in one layer, and its dependencies are in earlier ones.
LayersSort ==
    verdict = "built" =>
        \A n \in Components :
            \E i \in DOMAIN layers :
                /\ \A j \in DOMAIN layers : n \in layers[j] <=> j = i
                /\ \A d \in Deps(n) : \E j \in DOMAIN layers : j < i /\ d \in layers[j]

\* The order in which a container that has been built starts its components
THEOREM LayersAreSorted == Spec => []LayersSort
  <1>1. IInv => LayersSort
    BY DEF IInv, StartInv, GraphInv, LayersInv, LayersSort
  <1> QED
    BY <1>1, Inductive, PTL

\* Start before dependents, stop after them: what a process instance depends on is
\* running for as long as it is there, and what a slice depends on, of either
\* lifetime, until the drain is over.
THEOREM DependenciesAreThere == Spec => []DependenciesOutlive
  <1>1. IInv => DependenciesOutlive
    <2> SUFFICES ASSUME IInv PROVE DependenciesOutlive
      OBVIOUS
    <2>1. TypeOK /\ StartInv /\ SliceInv /\ InstancesOutlive /\ Scoped \subseteq Components
      BY SystemFacts DEF IInv, StartInv, TypeOK
    <2>2. ASSUME phase \in {"up", "draining"}, raised = "no", NEW c \in Scoped, slice[c] = "running", NEW d \in Deps(c)
          PROVE  Live(d) \/ d \in degraded
      <3>1. d \in Components
        BY <2>1, <2>2, Bearings, LevelFacts DEF LayerInv
      <3>2. CASE d \in Process
        BY <2>1, <2>2, <3>1, <3>2, Bearings DEF WholeInv, InstInv, Live
      <3>3. CASE d \notin Process
        BY <2>1, <2>2, <3>1, <3>3 DEF SliceInv, SlicesInOrder, Live, Process
      <3> QED
        BY <3>2, <3>3
    <2> QED
      BY <2>1, <2>2 DEF DependenciesOutlive, InstancesOutlive
  <1> QED
    BY <1>1, Inductive, PTL

\* start() leaves every required process component behind, or nothing at all.
THEOREM StartIsAtomic == Spec => []AllOrNothing
  <1>1. IInv => AllOrNothing
    <2> SUFFICES ASSUME IInv, raised = "no"
                 PROVE  /\ phase = "up" => Required \intersect Process \subseteq members
                        /\ phase = "down" => \A c \in Components : inst[c] = "none"
      BY DEF AllOrNothing
    <2> QED
      BY DEF IInv, StartInv, WholeInv, TypeOK
  <1> QED
    BY <1>1, Inductive, PTL

\* stop() leaves a call that it has waited for its component and the dependencies of
\* that until the call has returned.
THEOREM CallsKeepTheirInstances == Spec => []DrainProtects
  <1>1. IInv => DrainProtects
    <2> SUFFICES ASSUME IInv, raised = "no", NEW k \in Running \ (late \union overtime),
                        NEW c \in {call[k].on} \union Deps(call[k].on), c \notin degraded
                 PROVE  Live(c)
      BY DEF DrainProtects
    <2> DEFINE on == call[k].on
    <2>1. TypeOK /\ StartInv /\ SliceInv /\ CallInv /\ k \in Calls
      BY DEF IInv, Running
    <2>2. on \in Components /\ phase \in {"up", "draining"} /\ Live(on)
      BY <2>1, CallFacts
    <2>3. GraphTypeOK /\ GraphInv /\ verdict = "built" /\ InstInv
      BY <2>1, <2>2, Bearings DEF LayerInv
    <2>4. CASE c = on
      BY <2>2, <2>4
    <2>5. CASE c \in Process
      <3>1. c \in members
        BY <2>1, <2>2, <2>5, Bearings DEF WholeInv
      <3> QED
        BY <2>3, <2>5, <3>1, Bearings, <2>1 DEF InstInv, Live
    <2>6. CASE c \notin Process /\ c \in Deps(on)
      <3>1. c \in Scoped /\ on \notin Process
        BY <2>2, <2>3, <2>6, LevelFacts DEF Process
      <3>2. on \in Scoped /\ slice[on] = "running"
        BY <2>2, <3>1 DEF Live, Process
      <3>3. shut = {}
        BY <2>1, <2>2 DEF SliceInv
      <3> QED
        BY <2>1, <2>6, <3>1, <3>2, <3>3 DEF SliceInv, SlicesInOrder, Live
    <2> QED
      BY <2>4, <2>5, <2>6
  <1> QED
    BY <1>1, Inductive, PTL
-----------------------------------------------------------------------------
(* Cycles *)

\* The stack of the search is a path, and what it names is a part of it.
PathInv ==
    /\ \A i \in DOMAIN stack : \A j \in DOMAIN stack : j = i + 1 => stack[j] \in Deps(stack[i])
    /\ verdict = "refused" => Missing \/ ScopeLeak \/ IsCycle(cycle)

\* What the search looks at next is a dependency of the top of the stack.
LEMMA NextIs ==
  ASSUME GraphTypeOK, stack # <<>>, Pending # {}
  PROVE  NextDependency \in Deps(stack[Len(stack)])
  <1>1. stack \in Seq(Components) /\ Last(stack) = stack[Len(stack)] /\ Last(stack) \in Components
    BY DEF GraphTypeOK, Last
  <1>2. Pending \in SUBSET Nat
    BY <1>1, SystemFacts DEF Pending, Dependencies
  <1>3. \E i \in Pending : \A j \in Pending : i <= j
    BY <1>2, Least
  <1>4. (CHOOSE i \in Pending : \A j \in Pending : i <= j) \in Pending
    BY <1>3
  <1>5. PICK i \in Pending : NextDependency = Dependencies[i]
    BY <1>4 DEF NextDependency
  <1> QED
    BY <1>1, <1>5 DEF Pending, Dependencies, Deps, Range

LEMMA ConcatIs ==
  ASSUME NEW S, NEW s \in Seq(S), NEW e \in S
  PROVE  /\ Len(s \o <<e>>) = Len(s) + 1 /\ (s \o <<e>>)[Len(s) + 1] = e
         /\ \A i \in 1..Len(s) : (s \o <<e>>)[i] = s[i]
  OBVIOUS

LEMMA CloseUp ==
  ASSUME NEW S, NEW s \in Seq(S), NEW from \in 1..Len(s), NEW d \in S,
         NEW path, path = SubSeq(s, from, Len(s)) \o <<d>>,
         NEW n, n = Len(s) - from + 1
  PROVE  /\ n \in Nat /\ n >= 1 /\ Len(path) = n + 1 /\ path[n + 1] = d
         /\ \A i \in 1..n : path[i] = s[from + i - 1]
  <1> DEFINE part == SubSeq(s, from, Len(s))
  <1>1. n \in Nat /\ n >= 1
    OBVIOUS
  <1>2. part \in Seq(S) /\ Len(part) = n /\ \A i \in 1..n : part[i] = s[from + i - 1]
    OBVIOUS
  <1>3. path = part \o <<d>>
    OBVIOUS
  <1> HIDE DEF part
  <1> QED
    BY <1>1, <1>2, <1>3, ConcatIs

\* The path from where it is entered again
LEMMA PathIsCycle ==
  ASSUME GraphTypeOK, PathInv, BackEdge
  PROVE  IsCycle(cycle')
  <1> DEFINE d == NextDependency
             from == CHOOSE i \in DOMAIN stack : stack[i] = d
             path == SubSeq(stack, from, Len(stack)) \o <<d>>
  <1>1. stack \in Seq(Components) /\ stack # <<>> /\ cycle' = path
    BY DEF GraphTypeOK, BackEdge, PathFrom
  <1>2. from \in DOMAIN stack /\ stack[from] = d
    <2>1. \E i \in DOMAIN stack : stack[i] = d
      BY DEF BackEdge, Range
    <2> QED
      BY <2>1
  <1>3. d \in Components /\ d \in Deps(stack[Len(stack)])
    <2>1. Pending # {}
      BY DEF BackEdge
    <2> QED
      BY <1>1, <1>2, <2>1, NextIs
  <1> HIDE DEF d, from
  <1> DEFINE n == Len(stack) - from + 1
  <1>4. /\ n \in Nat /\ n >= 1 /\ Len(path) = n + 1 /\ path[n + 1] = d
        /\ \A i \in 1..n : path[i] = stack[from + i - 1]
    <2>1. from \in 1..Len(stack)
      BY <1>1, <1>2
    <2>2. path = SubSeq(stack, from, Len(stack)) \o <<d>> /\ n = Len(stack) - from + 1
      OBVIOUS
    <2> HIDE DEF path, n
    <2> QED
      BY <1>1, <1>3, <2>1, <2>2, CloseUp
  <1> HIDE DEF path
  <1>5. path[1] = d
    BY <1>2, <1>4, <1>1
  <1>6. ASSUME NEW i \in 1..n PROVE path[i + 1] \in Deps(path[i])
    <2>1. CASE i = n
      <3>1. path[i + 1] = d /\ path[i] = stack[from + i - 1] /\ from + i - 1 = Len(stack)
        <4>1. n \in 1..n /\ from + n - 1 = Len(stack)
          BY <1>1, <1>2, <1>4
        <4> HIDE DEF n
        <4>2. path[n] = stack[from + n - 1] /\ path[n + 1] = d
          BY <1>4, <4>1
        <4> QED
          BY <2>1, <4>1, <4>2
      <3> QED
        BY <1>3, <3>1
    <2>2. CASE i # n
      <3>1. path[i] = stack[from + i - 1] /\ path[i + 1] = stack[from + i]
        <4>1. i + 1 \in 1..n /\ from + (i + 1) - 1 = from + i
          BY <1>1, <1>2, <1>4, <1>6, <2>2
        <4> QED
          BY <1>4, <1>6, <4>1
      <3>2. from + i - 1 \in DOMAIN stack /\ from + i \in DOMAIN stack
        BY <1>1, <1>2, <1>6, <2>2
      <3>3. from + i = (from + i - 1) + 1
        BY <1>1, <1>2, <1>6
      <3> QED
        BY <3>1, <3>2, <3>3 DEF PathInv
    <2> QED
      BY <2>1, <2>2
  <1> QED
    BY <1>1, <1>4, <1>5, <1>6 DEF IsCycle

LEMMA PathKept == ASSUME GraphTypeOK, PathInv, Build PROVE PathInv'
  <1>1. /\ sys' = sys /\ stack \in Seq(Components)
        /\ \A i \in DOMAIN stack : \A j \in DOMAIN stack : j = i + 1 => stack[j] \in Deps(stack[i])
    BY BuildTypes DEF GraphTypeOK, PathInv
  <1>2. \A n : Deps(n)' = Deps(n)
    BY <1>1 DEF Deps
  <1>3. (\A i \in DOMAIN stack : \A j \in DOMAIN stack : j = i + 1 => stack[j] \in Deps(stack[i]))'
    <2>1. CASE stack' = stack
      BY <1>1, <1>2, <2>1
    <2>2. CASE Root
      BY <1>2, <2>2 DEF Root
    <2>3. CASE Descend
      <3>1. stack' = Append(stack, NextDependency) /\ stack # <<>> /\ NextDependency \in Components
        BY <2>3 DEF Descend, White
      <3>2. NextDependency \in Deps(stack[Len(stack)])
        <4>1. Pending # {}
          BY <2>3 DEF Descend
        <4> QED
          BY <3>1, <4>1, NextIs
      <3> QED
        BY <1>1, <1>2, <3>1, <3>2, AppendIs
    <2>4. CASE Leave
      <3>1. stack' = SubSeq(stack, 1, Len(stack) - 1) /\ stack # <<>>
        BY <2>4 DEF Leave, Front
      <3> QED
        BY <1>1, <1>2, <3>1
    <2> QED
      BY <2>1, <2>2, <2>3, <2>4 DEF Build, CheckEdges, BackEdge, Acyclic, Layer
  <1>4. (verdict = "refused" => Missing \/ ScopeLeak \/ IsCycle(cycle))'
    <2>1. Missing' = Missing /\ ScopeLeak' = ScopeLeak
      BY <1>1, <1>2 DEF Missing, ScopeLeak, Components, Process, Scoped
    <2>2. CASE BackEdge
      <3>1. IsCycle(cycle')
        BY <2>2, PathIsCycle
      <3> QED
        BY <1>2, <3>1 DEF IsCycle
    <2>3. CASE CheckEdges
      BY <2>1, <2>3 DEF CheckEdges
    <2>4. CASE Root \/ Descend \/ Leave \/ Acyclic \/ Layer
      BY <2>4 DEF Root, Descend, Leave, Acyclic, Layer
    <2> QED
      BY <2>2, <2>3, <2>4 DEF Build
  <1> QED
    BY <1>3, <1>4 DEF PathInv

\* The component of some that the search left first needs none of the others.
LEMMA VisitedGrounds ==
  ASSUME GraphTypeOK, VisitedInv, verdict \in {"layering", "built"}
  PROVE  Grounded
  <1> SUFFICES ASSUME NEW some \in SUBSET Components, some # {}
               PROVE  \E n \in some : Deps(n) \intersect some = {}
    BY DEF Grounded
  <1> DEFINE T == {i \in DOMAIN finished : finished[i] \in some}
  <1>1. T \in SUBSET Nat /\ T # {}
    BY DEF GraphTypeOK, VisitedInv, Range
  <1>2. PICK i \in T : \A j \in T : ~(j < i)
    BY <1>1, Least
  <1> QED
    BY <1>2 DEF VisitedInv

LEMMA GraphStays == ASSUME Proceed \/ Closing PROVE UNCHANGED gvars
  BY DEF Proceed, Closing, CloseEnds, NextLayer, StartDone, Unwind, DrainDone, DrainTimeout, StopNext, AllStopped,
         CloseLinks, StartOk, StartFails, StartCancelled, InstantiateFails, StopEnds, StopRaises, CloseStore, CloseRaises

\* build() refuses exactly the graphs with a cycle, among those that pass the other
\* checks, and names one, in every graph.
THEOREM CyclesRefused == Spec => []CyclesAreRefused
  <1>1. Init => PathInv
    BY DEF Init, GraphInit, PathInv
  <1>2. IInv /\ PathInv /\ [Next]_vars => PathInv'
    <2> SUFFICES ASSUME IInv, PathInv, [Next]_vars PROVE PathInv'
      OBVIOUS
    <2>1. CASE Validate
      BY <2>1, PathKept DEF Validate, IInv, TypeOK
    <2>2. CASE UNCHANGED gvars
      BY <2>2 DEF gvars, PathInv, Missing, ScopeLeak, IsCycle, Components, Process, Scoped, Deps
    <2>3. Validate \/ UNCHANGED gvars
      <3>1. CASE Proceed \/ Closing
        BY <3>1, GraphStays
      <3> QED
        BY <3>1, CallStep DEF Next, vars, gvars, Start, OwnerCancels, Stop, IInv
    <2> QED
      BY <2>1, <2>2, <2>3
  <1>3. IInv /\ PathInv => CyclesAreRefused
    BY VisitedGrounds DEF IInv, TypeOK, StartInv, GraphInv, PathInv, CyclesAreRefused
  <1> QED
    BY <1>1, <1>2, <1>3, Inductive, PTL DEF Spec

-----------------------------------------------------------------------------
(* Readiness *)

\* The recursion of aggregate_readiness has a solution, which Effective is: the
\* components that are pulled down are the least set that is closed under it.
LEMMA EffectiveIs ==
  ASSUME GraphTypeOK, NEW own
  PROVE  \A n \in Components :
            Effective(own)[n] = IF own[n] = "ok" /\ \E d \in Deps(n) \intersect Required : Effective(own)[d] # "ok"
                                THEN "unhealthy" ELSE own[n]
  <1> DEFINE Pulled(n, X) == own[n] = "ok" /\ \E d \in Deps(n) \intersect Required : own[d] # "ok" \/ d \in X
             Closed == {X \in SUBSET Components : \A n \in Components : Pulled(n, X) => n \in X}
             B == {n \in Components : \A X \in Closed : n \in X}
             f == [n \in Components |-> IF n \in B THEN "unhealthy" ELSE own[n]]
             Solves(g) == g = [n \in Components |->
                                IF own[n] = "ok" /\ \E d \in Deps(n) \intersect Required : g[d] # "ok"
                                THEN "unhealthy" ELSE own[n]]
  <1>1. B \in Closed
    OBVIOUS
  <1>2. ASSUME NEW n \in B PROVE Pulled(n, B)
    <2>1. SUFFICES ASSUME ~Pulled(n, B) PROVE FALSE
      OBVIOUS
    <2>2. B \ {n} \in Closed
      <3>1. ASSUME NEW m \in Components, Pulled(m, B \ {n}) PROVE m \in B \ {n}
        <4>1. Pulled(m, B)
          BY <3>1
        <4> QED
          BY <1>1, <2>1, <4>1
      <3> QED
        BY <3>1
    <2> QED
      BY <2>2
  <1>3. \A n \in Components : n \in B <=> Pulled(n, B)
    BY <1>1, <1>2
  <1> HIDE DEF B
  <1>4. \A d \in Required : f[d] # "ok" <=> own[d] # "ok" \/ d \in B
    BY SystemFacts
  <1>5. \A n \in Components : f[n] = IF own[n] = "ok" /\ \E d \in Deps(n) \intersect Required : f[d] # "ok"
                                     THEN "unhealthy" ELSE own[n]
    <2> HIDE DEF Closed
    <2>1. \A n \in Components : f[n] = IF n \in B THEN "unhealthy" ELSE own[n]
      OBVIOUS
    <2> HIDE DEF f
    <2> QED
      BY <1>3, <1>4, <2>1
  <1>6. Solves(f)
    BY <1>5
  <1> HIDE DEF f
  <1>7. Solves(CHOOSE g : Solves(g))
    BY <1>6
  <1>8. Effective(own) = CHOOSE g : Solves(g)
    BY DEF Effective
  <1>9. Solves(Effective(own))
    BY <1>7, <1>8
  <1> QED
    BY <1>9

\* If the required components are well, they are so in effect: of those that are not,
\* one of the first layer has no reason.
LEMMA AllWell ==
  ASSUME GraphTypeOK, GraphInv, verdict = "built", NEW own, \A n \in Required : own[n] = "ok"
  PROVE  Ready(own)
  <1> DEFINE Ill == {n \in Required : Effective(own)[n] # "ok"}
             T == {Level(n) : n \in Ill}
  <1>1. SUFFICES ASSUME Ill # {} PROVE FALSE
    BY DEF Ready
  <1>2. T \in SUBSET Nat /\ T # {}
    BY <1>1, SystemFacts, LevelFacts
  <1>3. PICK i \in T : \A j \in T : ~(j < i)
    BY <1>2, Least
  <1>4. PICK n \in Ill : Level(n) = i
    BY <1>3
  <1>5. n \in Components /\ own[n] = "ok" /\ Effective(own)[n] # "ok"
    BY SystemFacts
  <1>6. PICK d \in Deps(n) \intersect Required : Effective(own)[d] # "ok"
    BY <1>5, EffectiveIs
  <1>7. Level(d) < Level(n) /\ Level(d) \in T
    BY <1>5, <1>6, LevelFacts
  <1> QED
    BY <1>3, <1>4, <1>7

\* readiness() says that the container is ready exactly when it is, in every graph.
THEOREM ReadinessIsTrue == Spec => []ReadyIsServing
  <1>1. IInv => ReadyIsServing
    <2> SUFFICES ASSUME IInv, verdict = "built", NEW c \in Components, NEW answer \in Answers
                 PROVE  LET answers == [[d \in Components |-> "ok"] EXCEPT ![c] = answer]
                        IN  ReadyNow(answers) <=> /\ Required \intersect Process \subseteq members
                                                  /\ c \in Required \intersect Polled => answer = "ok"
      BY DEF ReadyIsServing
    <2> DEFINE answers == [[d \in Components |-> "ok"] EXCEPT ![c] = answer]
               own == OwnStatus([d \in Components |-> Polling(answers[d])])
               Fine == /\ Required \intersect Process \subseteq members
                       /\ c \in Required \intersect Polled => answer = "ok"
    <2>1. /\ GraphTypeOK /\ GraphInv /\ members \subseteq Process /\ degraded \subseteq Components \ Required
          /\ Required \subseteq Components /\ Process = Components \ Scoped
      BY SystemFacts DEF IInv, TypeOK, StartInv, Process
    <2>2. \A d \in Components : Polling(answers[d]) = "ok" <=> (d = c => answer = "ok")
      BY DEF Polling
    <2>3. \A d \in Required : own[d] = IF d \in Polled THEN Polling(answers[d])
                                       ELSE IF d \in Scoped THEN "ok" ELSE "unhealthy"
      BY <2>1 DEF OwnStatus, Polled
    <2> HIDE DEF own, answers
    <2>4. (\A d \in Required : own[d] = "ok") <=> Fine
      BY <2>1, <2>2, <2>3 DEF Polled
    <2>5. Ready(own) <=> \A d \in Required : own[d] = "ok"
      <3>1. ASSUME Ready(own), NEW d \in Required PROVE own[d] = "ok"
        <4>1. Effective(own)[d] = "ok" /\ d \in Components
          BY <2>1, <3>1 DEF Ready
        <4> QED
          BY <2>1, <4>1, EffectiveIs
      <3> QED
        BY <2>1, <3>1, AllWell
    <2>6. ReadyNow(answers) <=> Ready(own)
      BY DEF ReadyNow, own
    <2> QED
      BY <2>4, <2>5, <2>6 DEF answers
  <1> QED
    BY <1>1, Inductive, PTL

=============================================================================
