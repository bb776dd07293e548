---------------------------- MODULE Slices_proofs ----------------------------
(***************************************************************************)
(* Proofs about Slices, for every set of tasks and every set of apps.      *)
(***************************************************************************)
EXTENDS Slices, FiniteSetTheorems, NaturalsInduction, WellFoundedInduction, SequenceTheorems, TLAPS

-----------------------------------------------------------------------------
(* Stacks of calls *)

FrameFields == {"at", "cls", "method", "key", "todo", "chain", "stubbed", "next", "used", "outer", "deps"}

\* Only a call that is resolving has axes left to look at.
FrameOK(f) ==
    /\ DOMAIN f = FrameFields /\ f.cls \in app.classes
    /\ f.at \in {"resolving", "chain", "base"}
    /\ f.at # "resolving" => f.todo = {}

\* A call waits in its base while it calls another.
Waits(t, n) == n # Len(stack[t]) => stack[t][n].at = "base"

TaskInv(t) ==
    /\ stack[t] \in Seq(Calls(t))
    /\ \A n \in DOMAIN stack[t] : FrameOK(stack[t][n]) /\ Waits(t, n)
    /\ stack[t] # <<>> => phase = "up"

StackInv == stack = [t \in Tasks |-> stack[t]] /\ \A t \in Tasks : TaskInv(t)

AppInv ==
    /\ app \in Apps
    /\ phase \in {"down", "up", "refused"}
    /\ phase # "refused" => Buildable(app)

LEMMA StackFacts ==
    ASSUME StackInv, NEW t \in Tasks
    PROVE  /\ Len(stack[t]) \in Nat /\ DOMAIN stack[t] = 1..Len(stack[t])
           /\ stack[t] # <<>> => /\ Len(stack[t]) \in DOMAIN stack[t] /\ Top(t) = stack[t][Len(stack[t])]
                                 /\ Top(t) \in Calls(t)
<1>1. stack[t] \in Seq(Calls(t))
  BY DEF StackInv, TaskInv
<1>2. stack[t] # <<>> => Len(stack[t]) \in 1..Len(stack[t])
  BY <1>1
<1> QED
  BY <1>1, <1>2 DEF Top, Last, Calls

\* What pushing, changing and popping the innermost call does to the stacks
LEMMA PushIs ==
    ASSUME StackInv, NEW t \in Tasks, NEW f, Push(t, f)
    PROVE  /\ stack' = [u \in Tasks |-> stack'[u]]
           /\ \A u \in Tasks \ {t} : stack'[u] = stack[u]
           /\ stack'[t] \in Seq(Calls(t)') /\ Len(stack'[t]) = Len(stack[t]) + 1
           /\ \A n \in DOMAIN stack[t] : stack'[t][n] = stack[t][n]
           /\ stack'[t][Len(stack[t]) + 1] = f
           /\ Calls(t)' = Calls(t) \union {f}
<1> DEFINE s == stack[t]
           S == Calls(t) \union {f}
<1>1. s \in Seq(S) /\ Len(s) \in Nat /\ DOMAIN s = 1..Len(s)
  BY StackFacts DEF StackInv, TaskInv
<1>2. stack' = [u \in Tasks |-> IF u = t THEN Append(s, f) ELSE stack[u]]
  BY DEF Push, StackInv, TaskInv
<1>3. /\ Append(s, f) \in Seq(S) /\ Len(Append(s, f)) = Len(s) + 1
      /\ DOMAIN Append(s, f) = 1..(Len(s) + 1)
      /\ \A n \in DOMAIN s : Append(s, f)[n] = s[n]
      /\ Append(s, f)[Len(s) + 1] = f
  <2> HIDE DEF s, S
  <2>1. f \in S
    BY DEF S
  <2> QED
    BY <1>1, <2>1
<1>4. {Append(s, f)[n] : n \in DOMAIN Append(s, f)} = S
  <2>1. S = {s[n] : n \in DOMAIN s} \union {f}
    BY DEF Calls
  <2> HIDE DEF S, s
  <2>2. 1..(Len(s) + 1) = DOMAIN s \union {Len(s) + 1}
    BY <1>1
  <2> QED
    BY <1>1, <1>3, <2>1, <2>2
<1>5. stack'[t] = Append(s, f) /\ Calls(t)' = {stack'[t][n] : n \in DOMAIN stack'[t]}
  BY <1>2 DEF Calls
<1> QED
  BY <1>1, <1>2, <1>3, <1>4, <1>5

LEMMA UpdateIs ==
    ASSUME StackInv, NEW t \in Tasks, stack[t] # <<>>, NEW f, Update(t, f)
    PROVE  /\ stack' = [u \in Tasks |-> stack'[u]]
           /\ \A u \in Tasks \ {t} : stack'[u] = stack[u]
           /\ stack'[t] \in Seq(Calls(t)') /\ Len(stack'[t]) = Len(stack[t])
           /\ \A n \in DOMAIN stack[t] \ {Len(stack[t])} : stack'[t][n] = stack[t][n]
           /\ stack'[t][Len(stack[t])] = f
           /\ Calls(t)' \subseteq Calls(t) \union {f} /\ f \in Calls(t)'
           /\ \A g \in Calls(t) \ {Top(t)} : g \in Calls(t)'
<1> DEFINE s == stack[t]
           r == [n \in 1..Len(s) |-> IF n = Len(s) THEN f ELSE s[n]]
<1>1. s \in Seq(Calls(t)) /\ Len(s) \in Nat /\ DOMAIN s = 1..Len(s) /\ Len(s) \in DOMAIN s
      /\ Top(t) = s[Len(s)]
  BY StackFacts DEF StackInv, TaskInv
<1>2. [s EXCEPT ![Len(s)] = f] = r
  BY <1>1
<1>3. stack' = [u \in Tasks |-> IF u = t THEN r ELSE stack[u]]
  BY <1>2 DEF Update, StackInv, TaskInv
<1>4. stack'[t] = r
  BY <1>3
<1>5. Calls(t)' = {r[n] : n \in DOMAIN r} /\ DOMAIN r = 1..Len(s)
  BY <1>4 DEF Calls
<1>6. r \in Seq(Calls(t)') /\ Len(r) = Len(s)
  <2> DEFINE C == Calls(t)'
  <2>1. \A n \in 1..Len(s) : r[n] \in C
    BY <1>5
  <2>2. r = [n \in 1..Len(s) |-> r[n]] /\ Len(s) \in Nat
    BY <1>1
  <2> HIDE DEF C, r, s
  <2>3. r \in Seq(C) /\ Len(r) = Len(s)
    BY <2>1, <2>2
  <2> QED
    BY <2>3 DEF C
<1>7. /\ \A n \in DOMAIN s \ {Len(s)} : r[n] = s[n]
      /\ r[Len(s)] = f
  BY <1>1
<1>8. /\ Calls(t)' \subseteq Calls(t) \union {f} /\ f \in Calls(t)'
      /\ \A g \in Calls(t) \ {Top(t)} : g \in Calls(t)'
  <2> HIDE DEF r
  <2> QED
    BY <1>1, <1>5, <1>7 DEF Calls
<1> QED
  <2> HIDE DEF r
  <2> QED
    BY <1>3, <1>4, <1>6, <1>7, <1>8

LEMMA PopIs ==
    ASSUME StackInv, NEW t \in Tasks, stack[t] # <<>>, stack' = [stack EXCEPT ![t] = Front(@)]
    PROVE  /\ stack' = [u \in Tasks |-> stack'[u]]
           /\ \A u \in Tasks \ {t} : stack'[u] = stack[u]
           /\ stack'[t] \in Seq(Calls(t)') /\ Len(stack'[t]) = Len(stack[t]) - 1
           /\ \A n \in 1..(Len(stack[t]) - 1) : stack'[t][n] = stack[t][n]
           /\ Calls(t)' \subseteq Calls(t)
           /\ \A g \in Calls(t) \ {Top(t)} : g \in Calls(t)'
<1> DEFINE s == stack[t]
           r == SubSeq(s, 1, Len(s) - 1)
<1>1. s \in Seq(Calls(t)) /\ Len(s) \in Nat /\ DOMAIN s = 1..Len(s) /\ Len(s) \in DOMAIN s
      /\ Top(t) = s[Len(s)]
  BY StackFacts DEF StackInv, TaskInv
<1>2. stack' = [u \in Tasks |-> IF u = t THEN r ELSE stack[u]]
  BY DEF Front, StackInv, TaskInv
<1>3. r = [n \in 1..(Len(s) - 1) |-> s[n]] /\ Len(r) = Len(s) - 1 /\ DOMAIN r = 1..(Len(s) - 1)
  <2> HIDE DEF s
  <2> QED
    BY <1>1
<1> HIDE DEF r
<1>4. stack'[t] = r /\ Calls(t)' = {r[n] : n \in DOMAIN r}
  BY <1>2 DEF Calls
<1>5. r \in Seq(Calls(t)')
  <2>1. \A n \in 1..(Len(s) - 1) : r[n] \in Calls(t)'
    BY <1>3, <1>4
  <2>2. Len(s) - 1 \in Nat
    BY <1>1
  <2> HIDE DEF s
  <2> QED
    BY <1>3, <2>1, <2>2
<1>6. /\ Calls(t)' \subseteq Calls(t)
      /\ \A g \in Calls(t) \ {Top(t)} : g \in Calls(t)'
  <2>1. Calls(t)' = {s[n] : n \in 1..(Len(s) - 1)}
    BY <1>3, <1>4
  <2>2. Calls(t) = {s[n] : n \in 1..Len(s)}
    BY <1>1 DEF Calls
  <2>3. \A n \in 1..Len(s) : n \in 1..(Len(s) - 1) \/ n = Len(s)
    BY <1>1
  <2>4. \A n \in 1..(Len(s) - 1) : n \in 1..Len(s)
    BY <1>1
  <2> HIDE DEF s
  <2> QED
    BY <1>1, <2>1, <2>2, <2>3, <2>4
<1> QED
  BY <1>2, <1>3, <1>4, <1>5, <1>6

\* The stack of a task stays in order if each of its calls does.
LEMMA TaskKept ==
    ASSUME NEW t \in Tasks, stack'[t] \in Seq(Calls(t)'), app' = app,
           \A n \in DOMAIN stack'[t] :
              FrameOK(stack'[t][n]) /\ (n # Len(stack'[t]) => stack'[t][n].at = "base"),
           stack'[t] # <<>> => phase' = "up"
    PROVE  TaskInv(t)'
BY DEF TaskInv, FrameOK, Waits

LEMMA OtherTasks ==
    ASSUME StackInv, NEW t \in Tasks, stack'[t] = stack[t], app' = app,
           phase' = phase \/ phase' = "up"
    PROVE  TaskInv(t)'
<1>1. Calls(t)' = Calls(t)
  BY DEF Calls
<1> QED
  BY <1>1, TaskKept DEF StackInv, TaskInv, Waits

LEMMA PushKeeps ==
    ASSUME StackInv, NEW t \in Tasks, NEW f, Push(t, f), FrameOK(f),
           stack[t] # <<>> => Top(t).at = "base",
           phase' = "up", app' = app
    PROVE  StackInv'
<1>1. TaskInv(t)'
  <2>1. DOMAIN stack'[t] = 1..(Len(stack[t]) + 1) /\ Len(stack[t]) \in Nat
        /\ DOMAIN stack[t] = 1..Len(stack[t])
    BY PushIs, StackFacts
  <2>2. ASSUME NEW n \in DOMAIN stack'[t]
        PROVE  FrameOK(stack'[t][n]) /\ (n # Len(stack'[t]) => stack'[t][n].at = "base")
    <3>1. CASE n \in DOMAIN stack[t]
      <4>1. stack'[t][n] = stack[t][n] /\ stack[t] # <<>>
        BY <2>1, <3>1, PushIs
      <4>2. stack[t][n].at = "base" /\ FrameOK(stack[t][n])
        BY <3>1, <4>1, StackFacts DEF StackInv, TaskInv, Waits
      <4> QED
        BY <4>1, <4>2
    <3>2. CASE n = Len(stack[t]) + 1
      BY <3>2, PushIs
    <3> QED
      BY <2>1, <3>1, <3>2
  <2> QED
    BY <2>2, PushIs, TaskKept
<1>2. \A u \in Tasks \ {t} : TaskInv(u)'
  BY PushIs, OtherTasks
<1> QED
  BY <1>1, <1>2, PushIs DEF StackInv

LEMMA UpdateKeeps ==
    ASSUME StackInv, NEW t \in Tasks, stack[t] # <<>>, NEW f, Update(t, f), FrameOK(f),
           phase' = phase, app' = app
    PROVE  StackInv'
<1>1. TaskInv(t)'
  <2>1. DOMAIN stack'[t] = DOMAIN stack[t] /\ Len(stack'[t]) = Len(stack[t])
    BY UpdateIs, StackFacts
  <2>2. ASSUME NEW n \in DOMAIN stack'[t]
        PROVE  FrameOK(stack'[t][n]) /\ (n # Len(stack'[t]) => stack'[t][n].at = "base")
    <3>1. CASE n # Len(stack[t])
      BY <2>1, <3>1, UpdateIs DEF StackInv, TaskInv, Waits
    <3>2. CASE n = Len(stack[t])
      BY <2>1, <3>2, UpdateIs
    <3> QED
      BY <3>1, <3>2
  <2>3. phase = "up"
    BY DEF StackInv, TaskInv
  <2> QED
    BY <2>2, <2>3, UpdateIs, TaskKept
<1>2. \A u \in Tasks \ {t} : TaskInv(u)'
  BY UpdateIs, OtherTasks
<1> QED
  BY <1>1, <1>2, UpdateIs DEF StackInv

LEMMA PopKeeps ==
    ASSUME StackInv, NEW t \in Tasks, stack[t] # <<>>, stack' = [stack EXCEPT ![t] = Front(@)],
           phase' = phase, app' = app
    PROVE  StackInv'
<1>1. TaskInv(t)'
  <2>1. /\ stack'[t] \in Seq(Calls(t)') /\ Len(stack'[t]) = Len(stack[t]) - 1
        /\ Len(stack[t]) \in Nat /\ DOMAIN stack[t] = 1..Len(stack[t])
    BY PopIs, StackFacts
  <2>2. DOMAIN stack'[t] = 1..(Len(stack[t]) - 1)
    BY <2>1
  <2>3. ASSUME NEW n \in DOMAIN stack'[t]
        PROVE  FrameOK(stack'[t][n]) /\ (n # Len(stack'[t]) => stack'[t][n].at = "base")
    <3>0. n \in 1..(Len(stack[t]) - 1)
      BY <2>2
    <3>1. n \in DOMAIN stack[t] /\ n # Len(stack[t])
      BY <2>1, <3>0
    <3>2. stack'[t][n] = stack[t][n]
      BY <3>0, PopIs
    <3> QED
      BY <3>1, <3>2 DEF StackInv, TaskInv, Waits
  <2>4. phase = "up"
    BY DEF StackInv, TaskInv
  <2> QED
    BY <2>1, <2>3, <2>4, TaskKept
<1>2. \A u \in Tasks \ {t} : TaskInv(u)'
  BY PopIs, OtherTasks
<1> QED
  BY <1>1, <1>2, PopIs DEF StackInv

\* An eviction changes what the calls know of their dependencies, and nothing else.
LEMMA EvictIs ==
    ASSUME StackInv, NEW k, Evict(k)
    PROVE  \A t \in Tasks :
              /\ Len(stack'[t]) = Len(stack[t]) /\ DOMAIN stack'[t] = DOMAIN stack[t]
              /\ \A n \in DOMAIN stack[t] :
                    \E deps : stack'[t][n] = [stack[t][n] EXCEPT !.deps = deps]
<1> TAKE t \in Tasks
<1> DEFINE lost(deps) == IF InUse(k) THEN deps ELSE Loses(deps, k)
<1>1. stack' = [u \in Tasks |-> [n \in DOMAIN stack[u] |->
                    [stack[u][n] EXCEPT !.deps = lost(stack[u][n].deps)]]]
  BY DEF Evict
<1> HIDE DEF lost
<1>2. stack'[t] = [n \in DOMAIN stack[t] |-> [stack[t][n] EXCEPT !.deps = lost(stack[t][n].deps)]]
  BY <1>1
<1>3. DOMAIN stack[t] = 1..Len(stack[t]) /\ Len(stack[t]) \in Nat
  BY StackFacts
<1>4. Len(stack'[t]) = Len(stack[t]) /\ DOMAIN stack'[t] = DOMAIN stack[t]
  BY <1>2, <1>3
<1>5. \A n \in DOMAIN stack[t] : stack'[t][n] = [stack[t][n] EXCEPT !.deps = lost(stack[t][n].deps)]
  BY <1>2
<1> QED
  BY <1>4, <1>5

LEMMA EvictKeeps ==
    ASSUME StackInv, NEW k, Evict(k)
    PROVE  StackInv'
<1>1. app' = app /\ phase' = phase /\ stack' = [t \in Tasks |-> stack'[t]]
  BY DEF Evict
<1>2. ASSUME NEW t \in Tasks PROVE TaskInv(t)'
  <2>1. /\ Len(stack'[t]) = Len(stack[t]) /\ DOMAIN stack'[t] = DOMAIN stack[t]
        /\ DOMAIN stack[t] = 1..Len(stack[t]) /\ Len(stack[t]) \in Nat
    BY EvictIs, StackFacts
  <2>2. ASSUME NEW n \in DOMAIN stack'[t]
        PROVE  FrameOK(stack'[t][n]) /\ (n # Len(stack'[t]) => stack'[t][n].at = "base")
    <3>1. PICK deps : stack'[t][n] = [stack[t][n] EXCEPT !.deps = deps]
      BY <2>1, EvictIs
    <3>2. FrameOK(stack[t][n]) /\ (n # Len(stack[t]) => stack[t][n].at = "base")
      BY <2>1 DEF StackInv, TaskInv, Waits
    <3> QED
      BY <2>1, <3>1, <3>2 DEF FrameOK, FrameFields
  <2>3. stack'[t] \in Seq(Calls(t)')
    <3>1. stack'[t] = [n \in 1..Len(stack[t]) |-> stack'[t][n]]
      BY <2>1 DEF Evict
    <3>2. \A n \in 1..Len(stack[t]) : stack'[t][n] \in Calls(t)'
      BY <2>1 DEF Calls
    <3> QED
      BY <2>1, <3>1, <3>2
  <2>4. stack'[t] # <<>> => phase' = "up"
    BY <1>1, <2>1 DEF StackInv, TaskInv
  <2> QED
    BY <1>1, <2>2, <2>3, <2>4, TaskKept
<1> QED
  BY <1>1, <1>2 DEF StackInv

-----------------------------------------------------------------------------
(* The app is fixed, and it is one that can be built once it is up *)

BaseInv == AppInv /\ StackInv

\* The class and the state of the innermost call
LEMMA TopFacts ==
    ASSUME StackInv, NEW t \in Tasks, stack[t] # <<>>
    PROVE  /\ FrameOK(Top(t)) /\ Top(t) \in Calls(t) /\ phase = "up"
           /\ Top(t) = stack[t][Len(stack[t])] /\ Len(stack[t]) \in DOMAIN stack[t]
<1>1. /\ Len(stack[t]) \in DOMAIN stack[t] /\ Top(t) = stack[t][Len(stack[t])] /\ Top(t) \in Calls(t)
  BY StackFacts
<1> QED
  BY <1>1 DEF StackInv, TaskInv

\* What a name stands for, where names are unique
LEMMA ClassOf ==
    ASSUME Buildable(app), NEW cls \in app.classes
    PROVE  Class(cls.name) = cls
BY DEF Buildable, Refused, Class

LEMMA ClassIs ==
    ASSUME AppInv, phase # "refused", NEW cls \in app.classes
    PROVE  Class(cls.name) = cls
BY ClassOf DEF AppInv

LEMMA AppFacts ==
    ASSUME AppInv
    PROVE  /\ \A cls \in app.classes :
                 /\ IsClass(cls) /\ Dependencies(cls) \subseteq {c.name : c \in app.classes}
                 /\ phase # "refused" => (cls.scoped <=> cls.scope # {})
           /\ \A axis \in Axes : IsAxis(app.axes[axis])
BY SlicesAssumption DEF AppInv, Buildable, Refused, Describable, Axes

LEMMA InitBase == Init => BaseInv
<1> SUFFICES ASSUME Init PROVE BaseInv
  OBVIOUS
<1>1. AppInv
  BY DEF Init, AppInv
<1>2. stack = [t \in Tasks |-> stack[t]] /\ \A t \in Tasks : stack[t] = <<>>
  BY DEF Init
<1>3. ASSUME NEW t \in Tasks PROVE TaskInv(t)
  <2>1. Calls(t) = {} /\ DOMAIN stack[t] = {}
    BY <1>2 DEF Calls
  <2>2. <<>> \in Seq({})
    OBVIOUS
  <2> QED
    BY <1>2, <2>1, <2>2 DEF TaskInv
<1> QED
  BY <1>1, <1>2, <1>3 DEF BaseInv, StackInv

LEMMA SameStack ==
    ASSUME StackInv, stack' = stack, app' = app, phase' \in {phase, "up"}
    PROVE  StackInv'
<1>1. \A t \in Tasks : TaskInv(t)'
  BY OtherTasks
<1> QED
  BY <1>1 DEF StackInv

LEMMA NextBase == BaseInv /\ [Next]_vars => BaseInv'
<1> SUFFICES ASSUME AppInv, StackInv, [Next]_vars PROVE BaseInv'
  BY DEF BaseInv
<1> USE DEF FrameFields
<1>1. CASE Start
  <2>1. AppInv'
    BY <1>1 DEF Start, AppInv, Buildable
  <2>2. \A t \in Tasks : stack[t] = <<>>
    BY <1>1 DEF Start, StackInv, TaskInv
  <2>3. \A t \in Tasks : TaskInv(t)'
    <3> SUFFICES ASSUME NEW t \in Tasks PROVE TaskInv(t)'
      OBVIOUS
    <3>1. stack'[t] = <<>> /\ Calls(t)' = {}
      BY <1>1, <2>2 DEF Start, Calls
    <3> QED
      BY <3>1 DEF TaskInv
  <2> QED
    BY <1>1, <2>1, <2>3 DEF BaseInv, StackInv, Start
<1>2. ASSUME ~Start, ~UNCHANGED vars PROVE app' = app /\ phase' = phase
  <2>1. ASSUME NEW k, (\E tree : Tune(k, tree)) \/ Evict(k) \/ \E cls : Introspect(cls, k)
        PROVE  app' = app /\ phase' = phase
    BY <2>1 DEF Tune, Introspect, Evict
  <2>2. ASSUME NEW t \in Tasks, (\E values : Bind(t, values)) \/ Unbind(t) \/ \E axis : Track(t, axis)
        PROVE  app' = app /\ phase' = phase
    BY <2>2 DEF Bind, Unbind, Track
  <2>3. ASSUME NEW t \in Tasks, \E cls, method : Resolve(t, cls, method) \/ Depend(t, method)
        PROVE  app' = app /\ phase' = phase
    BY <2>3 DEF Resolve, Depend
  <2>4. ASSUME NEW t \in Tasks, Enter(t) \/ Got(t) \/ Misconfigured(t)
        PROVE  app' = app /\ phase' = phase
    BY <2>4 DEF Enter, Got, Misconfigured
  <2>5. ASSUME NEW t \in Tasks, Descend(t) \/ Base(t) \/ Retry(t) \/ \E how : Ends(t, how)
        PROVE  app' = app /\ phase' = phase
    BY <2>5 DEF Descend, Base, Retry, Ends
  <2> QED
    BY <1>2, <2>1, <2>2, <2>3, <2>4, <2>5 DEF Next, Invoke, Get
<1>3. ASSUME app' = app, phase' = phase PROVE AppInv'
  BY <1>3 DEF AppInv
<1>4. ASSUME app' = app, phase' = phase, UNCHANGED stack PROVE StackInv'
  BY <1>4, SameStack
<1>5. ASSUME NEW k \in DOMAIN instances, Evict(k) PROVE StackInv'
  BY <1>5, EvictKeeps
<1>6. ASSUME NEW t \in Tasks, NEW cls \in app.classes, NEW method, Resolve(t, cls, method) PROVE StackInv'
  <2> DEFINE key == ConfigKey(cls, bound[t])
             todo == {axis \in cls.scope : ScopeKey(app.axes, bound[t], cls.scope)[axis] \notin seen[axis]
                                               /\ axis \notin warned}
             f == [at |-> "resolving", cls |-> cls, method |-> method, key |-> key, todo |-> todo,
                   chain |-> <<>>, stubbed |-> FALSE, next |-> 1, used |-> {},
                   outer |-> endpoint[t], deps |-> Nothing]
  <2>1. Push(t, f) /\ phase = "up" /\ phase' = phase /\ app' = app
        /\ (stack[t] # <<>> => Top(t).at = "base")
    <3>1. todo = {axis \in cls.scope :
                    [a \in cls.scope |-> ScopeKey(app.axes, bound[t], cls.scope)[a]][axis] \notin seen[axis]
                       /\ axis \notin warned}
      OBVIOUS
    <3> QED
      BY <1>6, <3>1 DEF Resolve
  <2>2. FrameOK(f)
    BY DEF FrameOK
  <2> HIDE DEF f
  <2> QED
    BY <2>1, <2>2, PushKeeps
<1>7. ASSUME NEW t \in Tasks, stack[t] # <<>>, app' = app, phase' = phase, NEW f, Update(t, f), FrameOK(f)
      PROVE  StackInv'
  BY <1>7, UpdateKeeps
<1>8. ASSUME NEW t \in Tasks, NEW axis, Track(t, axis) PROVE StackInv'
  <2>1. FrameOK([Top(t) EXCEPT !.todo = @ \ {axis}])
    BY <1>8, TopFacts DEF Track, FrameOK
  <2> QED
    BY <1>8, <2>1, UpdateKeeps DEF Track
<1>9. ASSUME NEW t \in Tasks, Enter(t) PROVE StackInv'
  <2> DEFINE deps == Instantiated(Top(t).cls, Top(t).key, bound[t])[<<Top(t).cls.name, Top(t).key>>]
             tree == Assemble(Top(t).cls, Top(t).key).tree
             f == [Top(t) EXCEPT !.at = "chain", !.deps = deps,
                                 !.chain = ActiveLinks(tree, PolicyOf(Top(t).cls, Top(t).method)),
                                 !.stubbed = Stubbed(Top(t).cls, tree)]
  <2>1. stack[t] # <<>> /\ Top(t).todo = {} /\ Update(t, f) /\ app' = app /\ phase' = phase
    BY <1>9 DEF Enter
  <2>2. FrameOK(f)
    <3> HIDE DEF deps, tree
    <3> QED
      BY <2>1, TopFacts DEF FrameOK
  <2> HIDE DEF f
  <2> QED
    BY <2>1, <2>2, UpdateKeeps
<1>10. ASSUME NEW t \in Tasks, Got(t) \/ Misconfigured(t) \/ \E how : Ends(t, how) PROVE StackInv'
  <2>1. stack[t] # <<>> /\ stack' = [stack EXCEPT ![t] = Front(@)] /\ app' = app /\ phase' = phase
    BY <1>10 DEF Got, Misconfigured, Ends
  <2> QED
    BY <2>1, PopKeeps
<1>11. ASSUME NEW t \in Tasks, Descend(t) PROVE StackInv'
  <2>1. PICK used : Update(t, [Top(t) EXCEPT !.next = @ + 1, !.used = used])
    BY <1>11 DEF Descend
  <2>2. FrameOK([Top(t) EXCEPT !.next = @ + 1, !.used = used])
    BY <1>11, TopFacts DEF Descend, FrameOK
  <2> QED
    BY <1>11, <2>1, <2>2, UpdateKeeps DEF Descend
<1>12. ASSUME NEW t \in Tasks, Base(t) PROVE StackInv'
  <2>1. FrameOK([Top(t) EXCEPT !.at = "base"])
    BY <1>12, TopFacts DEF Base, FrameOK
  <2> QED
    BY <1>12, <2>1, UpdateKeeps DEF Base
<1>13. ASSUME NEW t \in Tasks, Retry(t) PROVE StackInv'
  <2>1. PICK n : Update(t, [Top(t) EXCEPT !.at = "chain", !.next = n + 1])
    BY <1>13 DEF Retry
  <2>2. FrameOK([Top(t) EXCEPT !.at = "chain", !.next = n + 1])
    BY <1>13, TopFacts DEF Retry, FrameOK
  <2> QED
    BY <1>13, <2>1, <2>2, UpdateKeeps DEF Retry
<1>14. ASSUME NEW t \in Tasks, NEW cls \in app.classes, Depend(t, cls.name) PROVE StackInv'
  <2>1. stack[t] # <<>> /\ phase = "up"
    BY <1>14, TopFacts DEF Depend
  <2>2. FrameOK(Proxied(t, cls.name))
    BY <2>1, ClassIs DEF Proxied, FrameOK
  <2>3. /\ Push(t, Proxied(t, cls.name)) /\ (stack[t] # <<>> => Top(t).at = "base")
        /\ phase' = phase /\ app' = app
    BY <1>14 DEF Depend
  <2> QED
    BY <2>1, <2>2, <2>3, PushKeeps
<1>15. CASE UNCHANGED vars
  BY <1>3, <1>15, SameStack DEF vars, BaseInv
<1>16. ASSUME ~Start, ~UNCHANGED vars PROVE StackInv'
  <2>1. app' = app /\ phase' = phase
    BY <1>2, <1>16
  <2>2. CASE \/ \E k \in DOMAIN answer : \E tree \in app.overrides[k] : Tune(k, tree)
             \/ \E cls \in app.classes :
                   \E key \in {GlobalScope} \union {k[2] : k \in DOMAIN answer} : Introspect(cls, key)
             \/ \E t \in Tasks : Unbind(t) \/ \E values \in app.bindings : Bind(t, values)
    <3>1. UNCHANGED stack
      BY <2>2 DEF Tune, Introspect, Bind, Unbind
    <3> QED
      BY <2>1, <3>1, <1>4
  <2> QED
    BY <1>5, <1>6, <1>8, <1>9, <1>10, <1>11, <1>12, <1>13, <1>14, <1>16, <2>2 DEF Next, Invoke, Get
<1> QED
  BY <1>1, <1>2, <1>3, <1>15, <1>16 DEF BaseInv

-----------------------------------------------------------------------------
(* The watch on the axes *)

Pending(axis, v) == \E t \in Tasks : \E f \in Calls(t) : axis \in f.todo /\ f.key[axis] = v

\* What has been resolved and is not counted is still to be looked at, unless the warning
\* is out.
AxisInv(axis) ==
    /\ IsFiniteSet(met[axis]) /\ seen[axis] \subseteq met[axis]
    /\ Cardinality(seen[axis]) <= app.axes[axis].cap
    /\ axis \in warned => Cardinality(met[axis]) > app.axes[axis].cap
    /\ axis \notin warned => \A v \in met[axis] \ seen[axis] : Pending(axis, v)
    /\ \A t \in Tasks : \A f \in Calls(t) : axis \in f.todo => f.key[axis] \in met[axis]

WatchInv ==
    /\ DOMAIN seen = Axes /\ DOMAIN met = Axes
    /\ \A axis \in Axes : AxisInv(axis)

\* The same calls have the same left to look at.
SameTodo(t) ==
    /\ \A f \in Calls(t) : f.todo # {} => \E g \in Calls(t)' : g.todo = f.todo /\ g.key = f.key
    /\ \A g \in Calls(t)' : g.todo # {} => \E f \in Calls(t) : g.todo = f.todo /\ g.key = f.key

LEMMA AxisKept ==
    ASSUME NEW axis, AxisInv(axis), app' = app, met' = met, seen' = seen, warned' = warned,
           \A t \in Tasks : SameTodo(t)
    PROVE  AxisInv(axis)'
<1>1. ASSUME NEW v, Pending(axis, v) PROVE Pending(axis, v)'
  BY <1>1 DEF Pending, SameTodo
<1>2. \A t \in Tasks : \A f \in Calls(t)' : axis \in f.todo => f.key[axis] \in met[axis]
  BY DEF AxisInv, SameTodo
<1> QED
  BY <1>1, <1>2 DEF AxisInv

LEMMA WatchKept ==
    ASSUME WatchInv, app' = app, UNCHANGED axes, \A t \in Tasks : SameTodo(t)
    PROVE  WatchInv'
<1>1. Axes' = Axes /\ met' = met /\ seen' = seen /\ warned' = warned
  BY DEF Axes, axes
<1> QED
  BY <1>1, AxisKept DEF WatchInv

\* Four ways to change a stack that leave that alone
LEMMA TodoKept ==
    ASSUME StackInv, NEW t \in Tasks, NEW f,
           \/ Push(t, f) /\ f.todo = {}
           \/ stack[t] # <<>> /\ Update(t, f) /\ f.todo = Top(t).todo /\ f.key = Top(t).key
           \/ stack[t] # <<>> /\ stack' = [stack EXCEPT ![t] = Front(@)] /\ Top(t).todo = {}
    PROVE  \A u \in Tasks : SameTodo(u)
<1>1. ASSUME NEW u \in Tasks \ {t} PROVE SameTodo(u)
  <2>1. stack'[u] = stack[u]
    BY PushIs, UpdateIs, PopIs
  <2>2. Calls(u)' = Calls(u)
    BY <2>1 DEF Calls
  <2> QED
    BY <2>2 DEF SameTodo
<1>2. CASE Push(t, f) /\ f.todo = {}
  <2>1. Calls(t)' = Calls(t) \union {f}
    BY <1>2, PushIs
  <2> QED
    BY <1>1, <1>2, <2>1 DEF SameTodo
<1>3. CASE stack[t] # <<>> /\ Update(t, f) /\ f.todo = Top(t).todo /\ f.key = Top(t).key
  <2>1. /\ Calls(t)' \subseteq Calls(t) \union {f} /\ f \in Calls(t)'
        /\ \A g \in Calls(t) \ {Top(t)} : g \in Calls(t)'
    BY <1>3, UpdateIs
  <2>2. Top(t) \in Calls(t)
    BY <1>3, TopFacts
  <2> QED
    BY <1>1, <1>3, <2>1, <2>2 DEF SameTodo
<1>4. CASE stack[t] # <<>> /\ stack' = [stack EXCEPT ![t] = Front(@)] /\ Top(t).todo = {}
  <2>1. Calls(t)' \subseteq Calls(t) /\ \A g \in Calls(t) \ {Top(t)} : g \in Calls(t)'
    BY <1>4, PopIs
  <2> QED
    BY <1>1, <1>4, <2>1 DEF SameTodo
<1> QED
  BY <1>2, <1>3, <1>4

LEMMA InitWatch == Init => WatchInv
<1> SUFFICES ASSUME Init PROVE WatchInv
  OBVIOUS
<1>1. \A t \in Tasks : Calls(t) = {}
  BY DEF Init, Calls
<1>2. /\ app \in Apps /\ DOMAIN seen = Axes /\ DOMAIN met = Axes /\ warned = {}
      /\ \A axis \in Axes : seen[axis] = {} /\ met[axis] = {}
  BY DEF Init
<1>3. ASSUME NEW axis \in Axes PROVE AxisInv(axis)
  <2>1. app.axes[axis].cap \in Nat \ {0}
    BY <1>2, SlicesAssumption DEF Axes, IsAxis
  <2> QED
    BY <1>1, <1>2, <2>1, FS_EmptySet DEF AxisInv
<1> QED
  BY <1>2, <1>3 DEF WatchInv

LEMMA CapIs == ASSUME AppInv, NEW axis \in Axes PROVE app.axes[axis].cap \in Nat \ {0}
BY AppFacts DEF IsAxis

\* A value that is met is left to be looked at, unless it is known.
LEMMA ResolveWatch ==
    ASSUME BaseInv, WatchInv, NEW t \in Tasks, NEW cls \in app.classes, NEW method, Resolve(t, cls, method)
    PROVE  WatchInv'
<1>0. PICK values : values = ScopeKey(app.axes, bound[t], cls.scope)
  OBVIOUS
<1> DEFINE todo == {axis \in cls.scope : values[axis] \notin seen[axis] /\ axis \notin warned}
           f == [at |-> "resolving", cls |-> cls, method |-> method, key |-> ConfigKey(cls, bound[t]), todo |-> todo,
                 chain |-> <<>>, stubbed |-> FALSE, next |-> 1, used |-> {},
                 outer |-> endpoint[t], deps |-> Nothing]
<1>1. /\ Push(t, f) /\ phase = "up" /\ app' = app /\ seen' = seen /\ warned' = warned
      /\ DOMAIN met' = Axes
      /\ \A axis \in Axes : met'[axis] = IF axis \in cls.scope THEN met[axis] \union {values[axis]} ELSE met[axis]
  <2>1. \A axis \in cls.scope : [a \in cls.scope |-> values[a]][axis] = values[axis]
    OBVIOUS
  <2>2. todo = {axis \in cls.scope : [a \in cls.scope |-> values[a]][axis] \notin seen[axis] /\ axis \notin warned}
    BY <2>1
  <2>3. met' = [axis \in Axes |-> IF axis \in cls.scope THEN met[axis] \union {[a \in cls.scope |-> values[a]][axis]}
                                  ELSE met[axis]]
    BY <1>0 DEF Resolve
  <2>4. \A axis \in Axes : met'[axis] = IF axis \in cls.scope THEN met[axis] \union {values[axis]} ELSE met[axis]
    BY <2>1, <2>3
  <2>5. Push(t, f)
    BY <1>0, <2>2 DEF Resolve
  <2> QED
    BY <2>3, <2>4, <2>5 DEF Resolve
<1>2. f.todo = todo /\ f.key = ConfigKey(cls, bound[t]) /\ \A axis \in todo : f.key[axis] = values[axis]
  <2>1. cls.scoped <=> cls.scope # {}
    BY <1>1, AppFacts DEF BaseInv
  <2> QED
    BY <1>0, <2>1 DEF ConfigKey
<1> HIDE DEF f
<1>3. /\ Calls(t)' = Calls(t) \union {f}
      /\ \A u \in Tasks \ {t} : Calls(u)' = Calls(u)
  <2>1. Calls(t)' = Calls(t) \union {f} /\ \A u \in Tasks \ {t} : stack'[u] = stack[u]
    BY <1>1, PushIs DEF BaseInv
  <2> QED
    BY <2>1 DEF Calls
<1> HIDE DEF todo
<1>4. ASSUME NEW axis \in Axes PROVE AxisInv(axis)'
  <2>0. AxisInv(axis)
    BY DEF WatchInv
  <2>1. \A v : Pending(axis, v) => Pending(axis, v)'
    BY <1>3 DEF Pending
  <2>2. axis \in cls.scope /\ values[axis] \notin seen[axis] /\ axis \notin warned => Pending(axis, values[axis])'
    <3>1. axis \in cls.scope /\ values[axis] \notin seen[axis] /\ axis \notin warned => axis \in todo
      BY DEF todo
    <3> QED
      BY <1>2, <1>3, <3>1 DEF Pending
  <2>3. /\ IsFiniteSet(met'[axis]) /\ Cardinality(met'[axis]) >= Cardinality(met[axis])
        /\ met[axis] \subseteq met'[axis] /\ Cardinality(met[axis]) \in Nat /\ Cardinality(met'[axis]) \in Nat
    <3>1. IsFiniteSet(met[axis] \union {values[axis]}) /\ IsFiniteSet(met[axis])
      BY <2>0, FS_AddElement DEF AxisInv
    <3> QED
      BY <1>1, <3>1, FS_Subset, FS_CardinalityType
  <2>4. \A u \in Tasks : \A g \in Calls(u)' : axis \in g.todo => g.key[axis] \in met'[axis]
    <3>1. axis \in f.todo => f.key[axis] \in met'[axis]
      BY <1>1, <1>2 DEF todo
    <3> QED
      BY <1>1, <1>3, <2>0, <2>3, <3>1 DEF AxisInv
  <2>5. axis \notin warned => \A v \in met'[axis] \ seen[axis] : Pending(axis, v)'
    <3> SUFFICES ASSUME axis \notin warned, NEW v \in met'[axis] \ seen[axis] PROVE Pending(axis, v)'
      OBVIOUS
    <3>1. CASE v \in met[axis]
      BY <2>0, <2>1, <3>1 DEF AxisInv
    <3>2. CASE axis \in cls.scope /\ v = values[axis]
      BY <2>2, <3>2
    <3> QED
      BY <1>1, <3>1, <3>2
  <2>6. app.axes[axis].cap \in Nat
    BY CapIs DEF BaseInv
  <2> QED
    BY <1>1, <2>0, <2>3, <2>4, <2>5, <2>6 DEF AxisInv
<1>5. Axes' = Axes
  BY <1>1 DEF Axes
<1> QED
  BY <1>1, <1>4, <1>5 DEF WatchInv

\* It is counted, or the warning goes out, which is due: those counted are as many as
\* the cap, and there is one more.
LEMMA TrackWatch ==
    ASSUME BaseInv, WatchInv, NEW t \in Tasks, NEW axis \in Axes, Track(t, axis)
    PROVE  WatchInv'
<1> DEFINE f == Top(t)
           g == [f EXCEPT !.todo = @ \ {axis}]
           value == f.key[axis]
<1>1. /\ stack[t] # <<>> /\ axis \in f.todo /\ Update(t, g) /\ app' = app /\ met' = met
      /\ \/ Known(axis, value) /\ UNCHANGED <<seen, warned>>
         \/ /\ ~Known(axis, value) /\ Cardinality(seen[axis]) < app.axes[axis].cap
            /\ seen' = [seen EXCEPT ![axis] = @ \union {value}] /\ UNCHANGED warned
         \/ /\ ~Known(axis, value) /\ ~(Cardinality(seen[axis]) < app.axes[axis].cap)
            /\ warned' = warned \union {axis} /\ UNCHANGED seen
  BY DEF Track
<1>2. /\ \A u \in Tasks \ {t} : Calls(u)' = Calls(u)
      /\ Calls(t)' \subseteq Calls(t) \union {g} /\ g \in Calls(t)'
      /\ \A h \in Calls(t) \ {f} : h \in Calls(t)'
      /\ f \in Calls(t) /\ g.key = f.key /\ g.todo = f.todo \ {axis}
  <2>1. FrameOK(f) /\ f \in Calls(t)
    BY <1>1, TopFacts DEF BaseInv
  <2>2. g.key = f.key /\ g.todo = f.todo \ {axis}
    BY <2>1 DEF FrameOK, FrameFields
  <2> HIDE DEF f, g
  <2>3. /\ Calls(t)' \subseteq Calls(t) \union {g} /\ g \in Calls(t)'
        /\ \A h \in Calls(t) \ {Top(t)} : h \in Calls(t)'
        /\ \A u \in Tasks \ {t} : stack'[u] = stack[u]
    BY <1>1, UpdateIs DEF BaseInv
  <2> QED
    BY <2>1, <2>2, <2>3 DEF Calls, f
<1> HIDE DEF f, g
<1>3. Axes' = Axes
  BY <1>1 DEF Axes
<1>4. ASSUME NEW a \in Axes, NEW v, Pending(a, v) PROVE (a = axis /\ v = value) \/ Pending(a, v)'
  <2>0. PICK u \in Tasks : \E h \in Calls(u) : a \in h.todo /\ h.key[a] = v
    BY <1>4 DEF Pending
  <2>1. PICK h \in Calls(u) : a \in h.todo /\ h.key[a] = v
    BY <2>0
  <2>2. CASE u # t \/ h # f
    BY <1>2, <2>1, <2>2 DEF Pending
  <2>3. CASE u = t /\ h = f /\ a # axis
    <3>1. g \in Calls(t)' /\ a \in g.todo /\ g.key[a] = v
      BY <1>2, <2>1, <2>3
    <3> QED
      BY <3>1 DEF Pending
  <2>4. CASE h = f /\ a = axis
    BY <2>1, <2>4
  <2> QED
    BY <2>2, <2>3, <2>4
<1>5. ASSUME NEW a \in Axes
      PROVE  \A u \in Tasks : \A h \in Calls(u)' : a \in h.todo => h.key[a] \in met[a]
  BY <1>2 DEF WatchInv, AxisInv
<1>6. value \in met[axis]
  BY <1>1, <1>2 DEF WatchInv, AxisInv
<1>7. ASSUME NEW a \in Axes \ {axis} PROVE AxisInv(a)'
  <2>1. AxisInv(a) /\ seen'[a] = seen[a] /\ (a \in warned' <=> a \in warned)
    BY <1>1 DEF WatchInv
  <2> QED
    BY <1>1, <1>4, <1>5, <2>1 DEF AxisInv
<1>8. AxisInv(axis)'
  <2>0. AxisInv(axis) /\ app.axes[axis].cap \in Nat /\ IsFiniteSet(met[axis]) /\ IsFiniteSet(seen[axis])
        /\ Cardinality(met[axis]) \in Nat /\ Cardinality(seen[axis]) \in Nat
    <3>1. AxisInv(axis) /\ app.axes[axis].cap \in Nat
      BY CapIs DEF WatchInv, BaseInv
    <3> QED
      BY <3>1, FS_Subset, FS_CardinalityType DEF AxisInv
  <2>1. CASE Known(axis, value) /\ UNCHANGED <<seen, warned>>
    BY <1>1, <1>4, <1>5, <2>0, <2>1 DEF AxisInv, Known
  <2>2. CASE /\ ~Known(axis, value) /\ Cardinality(seen[axis]) < app.axes[axis].cap
             /\ seen' = [seen EXCEPT ![axis] = @ \union {value}] /\ UNCHANGED warned
    <3>1. seen'[axis] = seen[axis] \union {value}
      BY <2>2 DEF WatchInv
    <3>2. Cardinality(seen[axis] \union {value}) = Cardinality(seen[axis]) + 1
      BY <2>0, <2>2, FS_AddElement DEF Known
    <3>3. axis \notin warned => \A v \in met[axis] \ seen'[axis] : Pending(axis, v)'
      BY <1>4, <2>0, <3>1 DEF AxisInv
    <3>4. seen'[axis] \subseteq met[axis] /\ Cardinality(seen'[axis]) <= app.axes[axis].cap
      <4>1. seen'[axis] \subseteq met[axis]
        BY <1>6, <2>0, <3>1 DEF AxisInv
      <4>2. Cardinality(seen[axis]) + 1 <= app.axes[axis].cap
        <5>1. Cardinality(seen[axis]) < app.axes[axis].cap
          BY <2>2
        <5> QED
          BY <2>0, <5>1
      <4>3. Cardinality(seen'[axis]) <= app.axes[axis].cap
        BY <3>1, <3>2, <4>2
      <4> QED
        BY <4>1, <4>3
    <3> QED
      BY <1>1, <1>5, <2>0, <2>2, <3>3, <3>4 DEF AxisInv
  <2>3. CASE /\ ~Known(axis, value) /\ ~(Cardinality(seen[axis]) < app.axes[axis].cap)
             /\ warned' = warned \union {axis} /\ UNCHANGED seen
    <3>1. Cardinality(seen[axis] \union {value}) = Cardinality(seen[axis]) + 1
          /\ IsFiniteSet(seen[axis] \union {value})
      BY <2>0, <2>3, FS_AddElement DEF Known
    <3>2. seen[axis] \union {value} \subseteq met[axis]
      BY <1>6, <2>0 DEF AxisInv
    <3>3. Cardinality(seen[axis] \union {value}) <= Cardinality(met[axis])
      BY <2>0, <3>2, FS_Subset
    <3> QED
      BY <1>1, <1>5, <2>0, <2>3, <3>1, <3>3 DEF AxisInv
  <2> QED
    BY <1>1, <2>1, <2>2, <2>3
<1>9. DOMAIN seen' = Axes /\ DOMAIN met' = Axes
  BY <1>1 DEF WatchInv
<1> QED
  BY <1>3, <1>7, <1>8, <1>9 DEF WatchInv

LEMMA NextWatch == BaseInv /\ WatchInv /\ [Next]_vars => WatchInv'
<1> SUFFICES ASSUME BaseInv, WatchInv, [Next]_vars PROVE WatchInv'
  OBVIOUS
<1>1. ASSUME UNCHANGED <<app, axes, stack>> PROVE WatchInv'
  <2>1. \A t \in Tasks : SameTodo(t)
    BY <1>1 DEF SameTodo, Calls
  <2> QED
    BY <1>1, <2>1, WatchKept
<1>2. ASSUME UNCHANGED <<app, axes>>, NEW t \in Tasks, NEW f,
             \/ Push(t, f) /\ f.todo = {}
             \/ stack[t] # <<>> /\ Update(t, f) /\ f.todo = Top(t).todo /\ f.key = Top(t).key
             \/ stack[t] # <<>> /\ stack' = [stack EXCEPT ![t] = Front(@)] /\ Top(t).todo = {}
      PROVE  WatchInv'
  <2>1. \A u \in Tasks : SameTodo(u)
    BY <1>2, TodoKept DEF BaseInv
  <2> QED
    BY <1>2, <2>1, WatchKept
<1>3. ASSUME NEW k, Evict(k) PROVE WatchInv'
  <2>1. ASSUME NEW t \in Tasks PROVE SameTodo(t)
    <3>1. DOMAIN stack'[t] = DOMAIN stack[t]
      BY <1>3, EvictIs DEF BaseInv
    <3>2. ASSUME NEW n \in DOMAIN stack[t]
          PROVE  stack'[t][n].todo = stack[t][n].todo /\ stack'[t][n].key = stack[t][n].key
      <4>1. PICK deps : stack'[t][n] = [stack[t][n] EXCEPT !.deps = deps]
        BY <1>3, EvictIs DEF BaseInv
      <4>2. DOMAIN stack[t][n] = FrameFields
        BY DEF BaseInv, StackInv, TaskInv, FrameOK
      <4> QED
        BY <4>1, <4>2 DEF FrameFields
    <3> QED
      BY <3>1, <3>2 DEF SameTodo, Calls
  <2> QED
    BY <1>3, <2>1, WatchKept DEF Evict
<1>4. ASSUME NEW t \in Tasks, Enter(t) PROVE WatchInv'
  <2> DEFINE deps == Instantiated(Top(t).cls, Top(t).key, bound[t])[<<Top(t).cls.name, Top(t).key>>]
             tree == Assemble(Top(t).cls, Top(t).key).tree
             f == [Top(t) EXCEPT !.at = "chain", !.deps = deps,
                                 !.chain = ActiveLinks(tree, PolicyOf(Top(t).cls, Top(t).method)),
                                 !.stubbed = Stubbed(Top(t).cls, tree)]
  <2>1. stack[t] # <<>> /\ Update(t, f) /\ UNCHANGED <<app, axes>>
    BY <1>4 DEF Enter
  <2>2. f.todo = Top(t).todo /\ f.key = Top(t).key
    <3> HIDE DEF deps, tree
    <3> QED
      BY <2>1, TopFacts DEF FrameOK, FrameFields, BaseInv
  <2> HIDE DEF f
  <2> QED
    BY <1>2, <2>1, <2>2
<1>5. ASSUME NEW t \in Tasks, Got(t) \/ Misconfigured(t) \/ \E how : Ends(t, how) PROVE WatchInv'
  <2>1. stack[t] # <<>> /\ stack' = [stack EXCEPT ![t] = Front(@)] /\ UNCHANGED <<app, axes>>
    BY <1>5 DEF Got, Misconfigured, Ends
  <2>2. Top(t).todo = {}
    BY <1>5, <2>1, TopFacts DEF Got, Misconfigured, Ends, FrameOK, BaseInv
  <2> QED
    BY <1>2, <2>1, <2>2
<1>6. ASSUME NEW t \in Tasks, Descend(t) \/ Base(t) \/ Retry(t) PROVE WatchInv'
  <2>1. stack[t] # <<>> /\ UNCHANGED <<app, axes>>
    BY <1>6 DEF Descend, Base, Retry, wiring, axes
  <2>2. DOMAIN Top(t) = FrameFields
    BY <2>1, TopFacts DEF FrameOK, BaseInv
  <2>3. \E f : Update(t, f) /\ f.todo = Top(t).todo /\ f.key = Top(t).key
    <3>1. CASE Descend(t)
      <4>1. PICK used : Update(t, [Top(t) EXCEPT !.next = @ + 1, !.used = used])
        BY <3>1 DEF Descend
      <4> DEFINE f == [Top(t) EXCEPT !.next = @ + 1, !.used = used]
      <4>2. f.todo = Top(t).todo /\ f.key = Top(t).key
        BY <2>2 DEF FrameFields
      <4> HIDE DEF f
      <4>3. Update(t, f)
        BY <4>1 DEF f
      <4> QED
        BY <4>2, <4>3
    <3>2. CASE Base(t)
      BY <2>2, <3>2 DEF Base, FrameFields
    <3>3. CASE Retry(t)
      <4>1. PICK n : Update(t, [Top(t) EXCEPT !.at = "chain", !.next = n + 1])
        BY <3>3 DEF Retry
      <4> DEFINE f == [Top(t) EXCEPT !.at = "chain", !.next = n + 1]
      <4>2. f.todo = Top(t).todo /\ f.key = Top(t).key
        BY <2>2 DEF FrameFields
      <4> HIDE DEF f
      <4>3. Update(t, f)
        BY <4>1 DEF f
      <4> QED
        BY <4>2, <4>3
    <3> QED
      BY <1>6, <3>1, <3>2, <3>3
  <2> QED
    BY <1>2, <2>1, <2>3
<1>7. ASSUME NEW t \in Tasks, NEW name, Depend(t, name) PROVE WatchInv'
  <2>1. Push(t, Proxied(t, name)) /\ UNCHANGED <<app, axes>>
    BY <1>7 DEF Depend
  <2>2. Proxied(t, name).todo = {}
    BY DEF Proxied
  <2> QED
    BY <1>2, <2>1, <2>2
<1>8. CASE \/ Start \/ UNCHANGED vars
           \/ \E k \in DOMAIN answer : \E tree \in app.overrides[k] : Tune(k, tree)
           \/ \E cls \in app.classes :
                 \E key \in {GlobalScope} \union {k[2] : k \in DOMAIN answer} : Introspect(cls, key)
           \/ \E t \in Tasks : Unbind(t) \/ \E values \in app.bindings : Bind(t, values)
  <2>1. UNCHANGED <<app, axes, stack>>
    BY <1>8 DEF Start, Tune, Introspect, Bind, Unbind, vars, axes
  <2> QED
    BY <1>1, <2>1
<1> QED
  BY <1>3, <1>4, <1>5, <1>6, <1>7, <1>8, ResolveWatch, TrackWatch DEF Next, Invoke, Get

LEMMA Inductive == Spec => [](BaseInv /\ WatchInv)
BY InitBase, NextBase, InitWatch, NextWatch, PTL DEF Spec

\* The watch on an axis counts every value once, in whatever threads they are resolved,
\* and warns exactly when there are more than the cap: AxisRegistry._observe.
THEOREM WatchExact == Spec => []WatchIsExact
<1>1. BaseInv /\ WatchInv => WatchIsExact
  <2> SUFFICES ASSUME BaseInv, WatchInv, NEW axis \in Axes
               PROVE  /\ Cardinality(seen[axis]) <= app.axes[axis].cap
                      /\ axis \in warned => Cardinality(met[axis]) > app.axes[axis].cap
                      /\ (\A t \in Tasks : \A f \in Calls(t) : axis \notin f.todo) =>
                            (Cardinality(met[axis]) > app.axes[axis].cap => axis \in warned)
    BY DEF WatchIsExact
  <2>1. AxisInv(axis) /\ app.axes[axis].cap \in Nat
    BY CapIs DEF WatchInv, BaseInv
  <2>2. ASSUME \A t \in Tasks : \A f \in Calls(t) : axis \notin f.todo, axis \notin warned
        PROVE  Cardinality(met[axis]) <= app.axes[axis].cap
    <3>1. met[axis] = seen[axis]
      BY <2>1, <2>2 DEF AxisInv, Pending
    <3> QED
      BY <2>1, <3>1 DEF AxisInv
  <2>3. Cardinality(met[axis]) \in Nat
    BY <2>1, FS_CardinalityType DEF AxisInv
  <2> QED
    BY <2>1, <2>2, <2>3 DEF AxisInv
<1> QED
  BY <1>1, Inductive, PTL

-----------------------------------------------------------------------------
(* What the recursive functions of Assembly compute is shown by induction, over the set  *)
(* of the lengths for which it would fail.                                               *)

LEMMA NoFailure ==
    ASSUME NEW S \in SUBSET Nat, 0 \notin S, \A n \in Nat : n \notin S => n + 1 \notin S
    PROVE  S = {}
<1> SUFFICES ASSUME S # {} PROVE FALSE
  OBVIOUS
<1> DEFINE R == {e \in Nat \X Nat : e[1] < e[2]}
<1>1. R = OpToRel(<, Nat)
  BY DEF OpToRel
<1>2. IsWellFoundedOn(R, Nat)
  BY <1>1, NatLessThanWellFounded
<1>3. \A x, y \in Nat : y < x => <<y, x>> \in R
  OBVIOUS
<1> HIDE DEF R
<1>4. PICK x \in S : \A y \in S : <<y, x>> \notin R
  BY <1>2, WFMin
<1>5. x \in Nat /\ x # 0 /\ x - 1 \in Nat /\ x - 1 < x /\ (x - 1) + 1 = x
  OBVIOUS
<1>6. x - 1 \notin S
  BY <1>3, <1>4, <1>5
<1> QED
  BY <1>4, <1>5, <1>6

-----------------------------------------------------------------------------
(* Endpoints: their text, and the one around a call *)

\* What the text of a key has of the axis at a place of the order
Pair(n, key) ==
    IF AxisOrder[n] \in DOMAIN key THEN Written(AxisOrder[n], key[AxisOrder[n]]) ELSE <<>>

\* The recursion has a solution.
LEMMA JoinedIs ==
    ASSUME NEW name, NEW key
    PROVE  \E joined : /\ joined[0] = <<name>> /\ DefaultEndpoint(name, key) = joined[Len(AxisOrder)]
                       /\ \A n \in 1..Len(AxisOrder) : joined[n] = joined[n - 1] \o Pair(n, key)
<1> DEFINE Solves(g, k) ==
              g = [n \in 0..k |-> IF n = 0 THEN <<name>>
                                  ELSE g[n - 1] \o (IF AxisOrder[n] \in DOMAIN key
                                                    THEN Written(AxisOrder[n], key[AxisOrder[n]])
                                                    ELSE <<>>)]
           S == {k \in Nat : ~\E g : Solves(g, k)}
<1>0. Len(AxisOrder) \in Nat
  BY AssemblyAssumption
<1>1. 0 \notin S
  <2>1. Solves([n \in 0..0 |-> <<name>>], 0)
    OBVIOUS
  <2> QED
    BY <2>1
<1>2. ASSUME NEW k \in Nat, k \notin S PROVE k + 1 \notin S
  <2>1. PICK g : Solves(g, k)
    BY <1>2
  <2> DEFINE h == [n \in 0..(k + 1) |-> IF n = k + 1 THEN g[k] \o Pair(k + 1, key) ELSE g[n]]
  <2>2. \A n \in 0..k : g[n] = IF n = 0 THEN <<name>> ELSE g[n - 1] \o Pair(n, key)
    <3>1. g = [n \in 0..k |-> IF n = 0 THEN <<name>> ELSE g[n - 1] \o Pair(n, key)]
      BY <2>1 DEF Pair
    <3> QED
      BY <3>1
  <2>3. \A n \in 0..(k + 1) : h[n] = IF n = 0 THEN <<name>> ELSE h[n - 1] \o Pair(n, key)
    <3> SUFFICES ASSUME NEW n \in 0..(k + 1)
                 PROVE  h[n] = IF n = 0 THEN <<name>> ELSE h[n - 1] \o Pair(n, key)
      OBVIOUS
    <3>1. CASE n = k + 1
      <4>1. h[n] = g[k] \o Pair(n, key) /\ h[n - 1] = g[k] /\ n # 0
        BY <3>1
      <4> QED
        BY <4>1
    <3>2. CASE n # k + 1
      <4>1. n \in 0..k /\ h[n] = g[n] /\ (n # 0 => h[n - 1] = g[n - 1])
        BY <3>2
      <4> HIDE DEF h
      <4> QED
        BY <2>2, <4>1
    <3> QED
      BY <3>1, <3>2
  <2>4. h = [n \in 0..(k + 1) |-> h[n]]
    OBVIOUS
  <2> HIDE DEF h
  <2>5. Solves(h, k + 1)
    BY <2>3, <2>4 DEF Pair
  <2> HIDE DEF Solves
  <2> QED
    BY <2>5
<1>3. S = {}
  <2> HIDE DEF S
  <2>1. S \in SUBSET Nat
    BY DEF S
  <2> QED
    BY <1>1, <1>2, <2>1, NoFailure
<1>4. \E g : Solves(g, Len(AxisOrder))
  <2> HIDE DEF Solves
  <2> QED
    BY <1>0, <1>3
<1> DEFINE joined == CHOOSE g : Solves(g, Len(AxisOrder))
<1>5. Solves(joined, Len(AxisOrder))
  <2> HIDE DEF Solves
  <2> QED
    BY <1>4
<1>6. DefaultEndpoint(name, key) = joined[Len(AxisOrder)]
  BY DEF DefaultEndpoint
<1> HIDE DEF joined
<1>7. \A n \in 0..Len(AxisOrder) : joined[n] = IF n = 0 THEN <<name>> ELSE joined[n - 1] \o Pair(n, key)
  <2>1. joined = [n \in 0..Len(AxisOrder) |-> IF n = 0 THEN <<name>> ELSE joined[n - 1] \o Pair(n, key)]
    BY <1>5 DEF Pair
  <2> QED
    BY <2>1
<1>8. joined[0] = <<name>>
  <2>1. 0 \in 0..Len(AxisOrder)
    BY <1>0
  <2> QED
    BY <1>7, <2>1
<1>9. ASSUME NEW n \in 1..Len(AxisOrder) PROVE joined[n] = joined[n - 1] \o Pair(n, key)
  <2>1. n \in 0..Len(AxisOrder) /\ n # 0
    BY <1>0
  <2> QED
    BY <1>7, <2>1
<1> QED
  BY <1>6, <1>8, <1>9

\* A plain value has one piece, after its axis.
LEMMA PairOfPlain ==
    ASSUME NEW key, PlainKey(key), NEW n, AxisOrder[n] \in DOMAIN key
    PROVE  Pair(n, key) = <<<<AxisOrder[n], Head(key[AxisOrder[n]])>>>>
<1>1. PICK v : v = key[AxisOrder[n]]
  OBVIOUS
<1>2. PICK h : h = Head(v)
  OBVIOUS
<1>3. v = <<h>>
  BY <1>1, <1>2 DEF PlainKey, Plain
<1>4. Tail(v) = <<>>
  BY <1>3
<1>5. PICK pair : pair = <<AxisOrder[n], h>>
  OBVIOUS
<1>6. <<pair>> \o <<>> = <<pair>>
  OBVIOUS
<1> QED
  BY <1>1, <1>2, <1>4, <1>5, <1>6 DEF Pair, Written

PairsOf(key) == {<<axis, Head(key[axis])>> : axis \in DOMAIN key}

\* The text of a plain key begins with the name, and has one more pair for each axis.
TextOf(joined, name, key) ==
    /\ joined[0] = <<name>> /\ DefaultEndpoint(name, key) = joined[Len(AxisOrder)]
    /\ \A n \in 1..Len(AxisOrder) :
          joined[n] = IF AxisOrder[n] \in DOMAIN key
                      THEN Append(joined[n - 1], <<AxisOrder[n], Head(key[AxisOrder[n]])>>)
                      ELSE joined[n - 1]
    /\ \A n \in 0..Len(AxisOrder) :
          /\ joined[n] \in Seq({name} \union PairsOf(key))
          /\ joined[n] # <<>> /\ joined[n][1] = name

LEMMA PlainText ==
    ASSUME NEW name, NEW key, PlainKey(key)
    PROVE  \E joined : TextOf(joined, name, key)
<1>1. PICK joined : /\ joined[0] = <<name>> /\ DefaultEndpoint(name, key) = joined[Len(AxisOrder)]
                    /\ \A n \in 1..Len(AxisOrder) : joined[n] = joined[n - 1] \o Pair(n, key)
  BY JoinedIs
<1> DEFINE T == {name} \union PairsOf(key)
           Good(n) == joined[n] \in Seq(T) /\ joined[n] # <<>> /\ joined[n][1] = name
           S == {n \in Nat : n <= Len(AxisOrder) /\ ~Good(n)}
<1>2. Len(AxisOrder) \in Nat
  BY AssemblyAssumption
<1>3. ASSUME NEW n \in 1..Len(AxisOrder), Good(n - 1)
      PROVE  /\ joined[n] = IF AxisOrder[n] \in DOMAIN key
                            THEN Append(joined[n - 1], <<AxisOrder[n], Head(key[AxisOrder[n]])>>)
                            ELSE joined[n - 1]
             /\ Good(n)
  <2>1. joined[n] = joined[n - 1] \o Pair(n, key)
    BY <1>1
  <2>2. CASE AxisOrder[n] \in DOMAIN key
    <3>1. PICK pair \in PairsOf(key) : pair = <<AxisOrder[n], Head(key[AxisOrder[n]])>>
      BY <2>2 DEF PairsOf
    <3>2. PICK before \in Seq(T) : before = joined[n - 1]
      BY <1>3
    <3>3. Pair(n, key) = <<pair>>
      BY <2>2, <3>1, PairOfPlain
    <3> HIDE DEF T
    <3>4. pair \in T
      BY DEF T
    <3>5. before \o <<pair>> = Append(before, pair)
      BY <3>4
    <3>6. Append(before, pair) \in Seq(T) /\ Append(before, pair) # <<>>
      BY <3>4
    <3>7. before # <<>> => Append(before, pair)[1] = before[1]
      BY <3>4
    <3> QED
      BY <1>3, <2>1, <2>2, <3>1, <3>2, <3>3, <3>5, <3>6, <3>7
  <2>3. CASE AxisOrder[n] \notin DOMAIN key
    <3>1. Pair(n, key) = <<>>
      BY <2>3 DEF Pair
    <3> HIDE DEF T
    <3>2. joined[n - 1] \o <<>> = joined[n - 1]
      BY <1>3
    <3> QED
      BY <1>3, <2>1, <2>3, <3>1, <3>2
  <2> QED
    BY <2>2, <2>3
<1>4. 0 \notin S
  <2>1. name \in T /\ <<name>> \in Seq(T) /\ <<name>> # <<>> /\ <<name>>[1] = name
    OBVIOUS
  <2> QED
    BY <1>1, <2>1
<1>5. ASSUME NEW n \in Nat, n \notin S PROVE n + 1 \notin S
  <2> SUFFICES ASSUME n + 1 <= Len(AxisOrder) PROVE Good(n + 1)
    OBVIOUS
  <2>1. n + 1 \in 1..Len(AxisOrder) /\ (n + 1) - 1 = n /\ n <= Len(AxisOrder)
    BY <1>2
  <2> HIDE DEF Good
  <2>2. Good((n + 1) - 1)
    BY <1>5, <2>1
  <2> QED
    BY <1>3, <2>1, <2>2
<1>6. S = {}
  <2> HIDE DEF S
  <2>1. S \in SUBSET Nat
    BY DEF S
  <2> QED
    BY <1>4, <1>5, <2>1, NoFailure
<1> HIDE DEF Good
<1>7. \A n \in 0..Len(AxisOrder) : Good(n)
  BY <1>2, <1>6
<1>8. \A n \in 1..Len(AxisOrder) :
         joined[n] = IF AxisOrder[n] \in DOMAIN key
                     THEN Append(joined[n - 1], <<AxisOrder[n], Head(key[AxisOrder[n]])>>)
                     ELSE joined[n - 1]
  BY <1>2, <1>3, <1>7
<1> QED
  BY <1>1, <1>7, <1>8 DEF Good, TextOf

\* The text of plain keys tells them apart: an axis after the other is the same.
LEMMA TextsDiffer ==
    ASSUME NEW name, NEW other, NEW key, NEW key2, PlainKey(key), PlainKey(key2),
           DefaultEndpoint(name, key) = DefaultEndpoint(other, key2)
    PROVE  /\ name = other
           /\ /\ key = [axis \in DOMAIN key |-> key[axis]] /\ key2 = [axis \in DOMAIN key2 |-> key2[axis]]
              /\ DOMAIN key = DOMAIN key2 /\ DOMAIN key \subseteq Range(AxisOrder)
              => key = key2
<1>1. Len(AxisOrder) \in Nat /\ DOMAIN AxisOrder = 1..Len(AxisOrder)
  BY AssemblyAssumption
<1>2. PICK j : TextOf(j, name, key)
  BY PlainText
<1>3. PICK k : TextOf(k, other, key2)
  BY PlainText
<1>4. name = other
  <2>1. Len(AxisOrder) \in 0..Len(AxisOrder)
    BY <1>1
  <2>2. j[Len(AxisOrder)] = k[Len(AxisOrder)]
    BY <1>2, <1>3 DEF TextOf
  <2> QED
    BY <1>2, <1>3, <2>1, <2>2 DEF TextOf
<1>5. ASSUME key = [axis \in DOMAIN key |-> key[axis]], key2 = [axis \in DOMAIN key2 |-> key2[axis]],
             DOMAIN key = DOMAIN key2, DOMAIN key \subseteq Range(AxisOrder)
      PROVE  key = key2
  <2> DEFINE T == {name, other} \union PairsOf(key) \union PairsOf(key2)
             Same(i) == AxisOrder[i] \in DOMAIN key => Head(key[AxisOrder[i]]) = Head(key2[AxisOrder[i]])
             Good(n) == Len(j[n]) = Len(k[n]) /\ (j[n] = k[n] => \A i \in 1..n : Same(i))
             S == {n \in Nat : n <= Len(AxisOrder) /\ ~Good(n)}
  <2>1. \A n \in 0..Len(AxisOrder) : j[n] \in Seq(T) /\ k[n] \in Seq(T)
    <3>1. Seq({name} \union PairsOf(key)) \subseteq Seq(T) /\ Seq({other} \union PairsOf(key2)) \subseteq Seq(T)
      OBVIOUS
    <3> QED
      BY <1>2, <1>3, <3>1 DEF TextOf
  <2>2. 0 \notin S
    <3>1. j[0] = <<name>> /\ k[0] = <<other>>
      BY <1>2, <1>3 DEF TextOf
    <3>2. Len(<<name>>) = 1 /\ Len(<<other>>) = 1 /\ 1..0 = {}
      OBVIOUS
    <3> HIDE DEF Same
    <3> QED
      BY <3>1, <3>2
  <2>3. ASSUME NEW n \in Nat, n \notin S, n + 1 <= Len(AxisOrder) PROVE Good(n + 1)
    <3>1. n + 1 \in 1..Len(AxisOrder) /\ (n + 1) - 1 = n /\ n \in 0..Len(AxisOrder)
      BY <1>1, <2>3
    <3> HIDE DEF Same
    <3>2. Good(n)
      BY <2>3, <3>1
    <3>3. CASE AxisOrder[n + 1] \notin DOMAIN key
      <4>1. j[n + 1] = j[n] /\ k[n + 1] = k[n]
        BY <1>2, <1>3, <1>5, <3>1, <3>3 DEF TextOf
      <4>2. Same(n + 1)
        BY <3>3 DEF Same
      <4> QED
        BY <3>2, <4>1, <4>2
    <3>4. CASE AxisOrder[n + 1] \in DOMAIN key
      <4>1. PICK p \in PairsOf(key) : p = <<AxisOrder[n + 1], Head(key[AxisOrder[n + 1]])>>
        BY <3>4 DEF PairsOf
      <4>2. PICK q \in PairsOf(key2) : q = <<AxisOrder[n + 1], Head(key2[AxisOrder[n + 1]])>>
        BY <1>5, <3>4 DEF PairsOf
      <4>3. PICK s \in Seq(T) : s = j[n]
        BY <2>1, <3>1
      <4>4. PICK t \in Seq(T) : t = k[n]
        BY <2>1, <3>1
      <4>5. j[n + 1] = Append(s, p) /\ k[n + 1] = Append(t, q)
        BY <1>2, <1>3, <1>5, <3>1, <3>4, <4>1, <4>2, <4>3, <4>4 DEF TextOf
      <4>6. p \in T /\ q \in T
        OBVIOUS
      <4> HIDE DEF T
      <4>7. Len(s) = Len(t)
        BY <3>2, <4>3, <4>4
      <4>8. Len(Append(s, p)) = Len(Append(t, q))
        BY <4>6, <4>7
      <4>9. Append(s, p) = Append(t, q) => p = q /\ s = t
        BY <4>6, <4>7, AppendInjective
      <4>10. p = q => Same(n + 1)
        BY <4>1, <4>2 DEF Same
      <4> QED
        BY <3>2, <4>3, <4>4, <4>5, <4>8, <4>9, <4>10
    <3> QED
      BY <3>3, <3>4
  <2>4. S = {}
    <3> HIDE DEF Good
    <3>1. \A n \in Nat : n \notin S => n + 1 \notin S
      BY <2>3
    <3> HIDE DEF S
    <3>2. S \in SUBSET Nat
      BY DEF S
    <3> QED
      BY <2>2, <3>1, <3>2, NoFailure
  <2>5. \A i \in 1..Len(AxisOrder) : Same(i)
    <3>1. Good(Len(AxisOrder))
      <4> HIDE DEF Good
      <4> QED
        BY <1>1, <2>4
    <3> QED
      BY <1>2, <1>3, <3>1 DEF TextOf
  <2>6. ASSUME NEW axis \in DOMAIN key PROVE key[axis] = key2[axis]
    <3>1. PICK i \in 1..Len(AxisOrder) : axis = AxisOrder[i]
      BY <1>1, <1>5 DEF Range
    <3>2. Head(key[axis]) = Head(key2[axis])
      BY <2>5, <3>1
    <3> QED
      BY <1>5, <3>2 DEF PlainKey, Plain
  <2> QED
    BY <1>5, <2>6
<1> QED
  BY <1>4, <1>5

\* The endpoint in the context while a call is the innermost one
Within(t, n) == IF n = Len(stack[t]) THEN endpoint[t] ELSE stack[t][n + 1].outer

\* A call that runs does so with its own endpoint around it, whose links it has used.
FrameEndpoint(f, e) ==
    /\ f.at = "resolving" => e = f.outer
    /\ f.method # "any" =>
          /\ f.at # "resolving" => e = EndpointOf(f)
          /\ \A u \in f.used : \E link : u[1] = StoreKey(link, EndpointOf(f))
          /\ IF f.cls.scoped THEN f.key = [axis \in f.cls.scope |-> f.key[axis]] ELSE f.key = GlobalScope

EndpointInv ==
    /\ endpoint = [t \in Tasks |-> endpoint[t]]
    /\ \A t \in Tasks : \A n \in DOMAIN stack[t] : FrameEndpoint(stack[t][n], Within(t, n))

LEMMA OthersEndpoint ==
    ASSUME EndpointInv, NEW t \in Tasks, stack'[t] = stack[t], endpoint'[t] = endpoint[t]
    PROVE  \A n \in DOMAIN stack'[t] : FrameEndpoint(stack'[t][n], Within(t, n)')
BY DEF EndpointInv, Within

LEMMA PushEndpoint ==
    ASSUME StackInv, EndpointInv, NEW t \in Tasks, NEW f, Push(t, f), endpoint' = endpoint,
           f.outer = endpoint[t], FrameEndpoint(f, endpoint[t])
    PROVE  EndpointInv'
<1>1. ASSUME NEW n \in DOMAIN stack'[t] PROVE FrameEndpoint(stack'[t][n], Within(t, n)')
  <2>1. /\ DOMAIN stack'[t] = 1..(Len(stack[t]) + 1) /\ Len(stack'[t]) = Len(stack[t]) + 1
        /\ Len(stack[t]) \in Nat /\ DOMAIN stack[t] = 1..Len(stack[t])
        /\ stack'[t][Len(stack[t]) + 1] = f
    BY PushIs, StackFacts
  <2>2. CASE n = Len(stack[t]) + 1
    BY <2>1, <2>2 DEF Within
  <2>3. CASE n \in DOMAIN stack[t]
    <3>1. stack'[t][n] = stack[t][n]
      BY <2>3, PushIs
    <3>2. Within(t, n)' = Within(t, n)
      <4>1. CASE n = Len(stack[t])
        BY <2>1, <4>1 DEF Within
      <4>2. CASE n # Len(stack[t])
        <5>1. n + 1 \in DOMAIN stack[t] /\ n # Len(stack[t]) + 1
          BY <2>1, <2>3, <4>2
        <5>2. stack'[t][n + 1] = stack[t][n + 1]
          BY <5>1, PushIs
        <5> QED
          BY <2>1, <4>2, <5>1, <5>2 DEF Within
      <4> QED
        BY <4>1, <4>2
    <3> QED
      BY <2>3, <3>1, <3>2 DEF EndpointInv
  <2> QED
    BY <2>1, <2>2, <2>3
<1>2. \A u \in Tasks \ {t} : \A n \in DOMAIN stack'[u] : FrameEndpoint(stack'[u][n], Within(u, n)')
  BY OthersEndpoint, PushIs
<1> QED
  BY <1>1, <1>2 DEF EndpointInv, Within

LEMMA UpdateEndpoint ==
    ASSUME StackInv, EndpointInv, NEW t \in Tasks, stack[t] # <<>>, NEW f, Update(t, f), NEW e,
           endpoint' = [endpoint EXCEPT ![t] = e], f.outer = Top(t).outer, FrameEndpoint(f, e)
    PROVE  EndpointInv'
<1>0. endpoint'[t] = e /\ endpoint' = [u \in Tasks |-> endpoint'[u]] /\ \A u \in Tasks \ {t} : endpoint'[u] = endpoint[u]
  BY DEF EndpointInv
<1>1. ASSUME NEW n \in DOMAIN stack'[t] PROVE FrameEndpoint(stack'[t][n], Within(t, n)')
  <2>1. /\ DOMAIN stack'[t] = DOMAIN stack[t] /\ Len(stack'[t]) = Len(stack[t])
        /\ Len(stack[t]) \in Nat /\ DOMAIN stack[t] = 1..Len(stack[t])
        /\ stack'[t][Len(stack[t])] = f /\ stack[t][Len(stack[t])] = Top(t)
    BY UpdateIs, StackFacts
  <2>2. CASE n = Len(stack[t])
    BY <1>0, <2>1, <2>2 DEF Within
  <2>3. CASE n # Len(stack[t])
    <3>1. stack'[t][n] = stack[t][n] /\ n + 1 \in DOMAIN stack[t]
      BY <2>1, <2>3, UpdateIs
    <3>2. stack'[t][n + 1].outer = stack[t][n + 1].outer
      BY <2>1, <3>1, UpdateIs
    <3>3. Within(t, n)' = Within(t, n)
      BY <2>1, <2>3, <3>2 DEF Within
    <3> QED
      BY <2>1, <3>1, <3>3 DEF EndpointInv
  <2> QED
    BY <2>2, <2>3
<1>2. \A u \in Tasks \ {t} : \A n \in DOMAIN stack'[u] : FrameEndpoint(stack'[u][n], Within(u, n)')
  BY <1>0, OthersEndpoint, UpdateIs
<1> QED
  BY <1>0, <1>1, <1>2 DEF EndpointInv, Within

LEMMA PopEndpoint ==
    ASSUME StackInv, EndpointInv, NEW t \in Tasks, stack[t] # <<>>,
           stack' = [stack EXCEPT ![t] = Front(@)], endpoint' = [endpoint EXCEPT ![t] = Top(t).outer]
    PROVE  EndpointInv'
<1>0. endpoint'[t] = Top(t).outer /\ endpoint' = [u \in Tasks |-> endpoint'[u]]
      /\ \A u \in Tasks \ {t} : endpoint'[u] = endpoint[u]
  BY DEF EndpointInv
<1>1. ASSUME NEW n \in DOMAIN stack'[t] PROVE FrameEndpoint(stack'[t][n], Within(t, n)')
  <2>1. /\ stack'[t] \in Seq(Calls(t)') /\ Len(stack'[t]) = Len(stack[t]) - 1
        /\ Len(stack[t]) \in Nat /\ DOMAIN stack[t] = 1..Len(stack[t])
        /\ stack[t][Len(stack[t])] = Top(t)
    BY PopIs, StackFacts
  <2>2. n \in 1..(Len(stack[t]) - 1)
    BY <2>1
  <2>3. n \in DOMAIN stack[t] /\ n # Len(stack[t])
    BY <2>1, <2>2
  <2>4. stack'[t][n] = stack[t][n]
    BY <2>2, PopIs
  <2>5. Within(t, n)' = Within(t, n)
    <3>1. CASE n = Len(stack[t]) - 1
      BY <1>0, <2>1, <2>3, <3>1 DEF Within
    <3>2. CASE n # Len(stack[t]) - 1
      <4>1. n + 1 \in 1..(Len(stack[t]) - 1)
        BY <2>1, <2>2, <3>2
      <4>2. stack'[t][n + 1] = stack[t][n + 1]
        BY <4>1, PopIs
      <4> QED
        BY <2>1, <2>3, <3>2, <4>2 DEF Within
    <3> QED
      BY <3>1, <3>2
  <2> QED
    BY <2>3, <2>4, <2>5 DEF EndpointInv
<1>2. \A u \in Tasks \ {t} : \A n \in DOMAIN stack'[u] : FrameEndpoint(stack'[u][n], Within(u, n)')
  BY <1>0, OthersEndpoint, PopIs
<1> QED
  BY <1>0, <1>1, <1>2 DEF EndpointInv, Within

\* What the innermost call knows of the endpoint
LEMMA TopEndpoint ==
    ASSUME StackInv, EndpointInv, NEW t \in Tasks, stack[t] # <<>>
    PROVE  FrameEndpoint(Top(t), endpoint[t])
<1>1. Within(t, Len(stack[t])) = endpoint[t]
  BY DEF Within
<1> QED
  BY <1>1, TopFacts DEF EndpointInv

LEMMA InitEndpoint == Init => EndpointInv
BY DEF Init, EndpointInv

LEMMA NextEndpoint == BaseInv /\ EndpointInv /\ [Next]_vars => EndpointInv'
<1> SUFFICES ASSUME StackInv, EndpointInv, [Next]_vars PROVE EndpointInv'
  BY DEF BaseInv
<1>1. ASSUME UNCHANGED <<stack, endpoint>> PROVE EndpointInv'
  BY <1>1 DEF EndpointInv, Within
<1>2. ASSUME NEW t \in Tasks, stack[t] # <<>>, NEW f, Update(t, f), endpoint' = endpoint,
             f.outer = Top(t).outer, FrameEndpoint(f, endpoint[t])
      PROVE  EndpointInv'
  <2>1. endpoint' = [endpoint EXCEPT ![t] = endpoint[t]]
    <3>1. endpoint = [u \in Tasks |-> endpoint[u]]
      BY DEF EndpointInv
    <3> QED
      BY <1>2, <3>1
  <2> QED
    BY <1>2, <2>1, UpdateEndpoint
<1>3. ASSUME NEW k, Evict(k) PROVE EndpointInv'
  <2>1. ASSUME NEW t \in Tasks, NEW n \in DOMAIN stack'[t]
        PROVE  FrameEndpoint(stack'[t][n], Within(t, n)')
    <3>1. /\ Len(stack'[t]) = Len(stack[t]) /\ DOMAIN stack'[t] = DOMAIN stack[t]
          /\ DOMAIN stack[t] = 1..Len(stack[t]) /\ Len(stack[t]) \in Nat /\ endpoint' = endpoint
      BY <1>3, EvictIs, StackFacts DEF Evict
    <3>2. ASSUME NEW m \in DOMAIN stack[t]
          PROVE  \A x \in FrameFields \ {"deps"} : stack'[t][m][x] = stack[t][m][x]
      <4>1. PICK deps : stack'[t][m] = [stack[t][m] EXCEPT !.deps = deps]
        BY <1>3, EvictIs
      <4>2. DOMAIN stack[t][m] = FrameFields
        BY DEF StackInv, TaskInv, FrameOK
      <4> QED
        BY <4>1, <4>2
    <3>3. Within(t, n)' = Within(t, n)
      BY <3>1, <3>2 DEF Within, FrameFields
    <3>4. FrameEndpoint(stack[t][n], Within(t, n))
      BY <3>1 DEF EndpointInv
    <3>5. /\ stack'[t][n].at = stack[t][n].at /\ stack'[t][n].outer = stack[t][n].outer
          /\ stack'[t][n].method = stack[t][n].method /\ stack'[t][n].used = stack[t][n].used
          /\ stack'[t][n].cls = stack[t][n].cls /\ stack'[t][n].key = stack[t][n].key
      BY <3>1, <3>2 DEF FrameFields
    <3> QED
      BY <3>3, <3>4, <3>5 DEF FrameEndpoint, EndpointOf
  <2> QED
    BY <1>3, <2>1 DEF EndpointInv, Evict, Within
<1>4. ASSUME NEW t \in Tasks, NEW cls \in app.classes, NEW method, Resolve(t, cls, method) PROVE EndpointInv'
  <2>1. PICK f : /\ Push(t, f) /\ endpoint' = endpoint
                 /\ f.outer = endpoint[t] /\ f.at = "resolving" /\ f.used = {}
                 /\ f.cls = cls /\ f.key = ConfigKey(cls, bound[t])
    <3> DEFINE values == [axis \in cls.scope |-> ScopeKey(app.axes, bound[t], cls.scope)[axis]]
               todo == {axis \in cls.scope : values[axis] \notin seen[axis] /\ axis \notin warned}
               f == [at |-> "resolving", cls |-> cls, method |-> method, key |-> ConfigKey(cls, bound[t]),
                     todo |-> todo, chain |-> <<>>, stubbed |-> FALSE, next |-> 1, used |-> {},
                     outer |-> endpoint[t], deps |-> Nothing]
    <3>1. Push(t, f) /\ endpoint' = endpoint
      BY <1>4 DEF Resolve
    <3>2. /\ f.outer = endpoint[t] /\ f.at = "resolving" /\ f.used = {}
          /\ f.cls = cls /\ f.key = ConfigKey(cls, bound[t])
      OBVIOUS
    <3> HIDE DEF f
    <3> QED
      BY <3>1, <3>2
  <2>2. FrameEndpoint(f, endpoint[t])
    <3>1. cls.scoped => f.key = [axis \in cls.scope |-> f.key[axis]]
      BY <2>1 DEF ConfigKey, ScopeKey
    <3>2. ~cls.scoped => f.key = GlobalScope
      BY <2>1 DEF ConfigKey
    <3> QED
      BY <2>1, <3>1, <3>2 DEF FrameEndpoint
  <2> QED
    BY <2>1, <2>2, PushEndpoint
<1>5. ASSUME NEW t \in Tasks, NEW axis, Track(t, axis) PROVE EndpointInv'
  <2> DEFINE f == [Top(t) EXCEPT !.todo = @ \ {axis}]
  <2>1. stack[t] # <<>> /\ Update(t, f) /\ endpoint' = endpoint
    BY <1>5 DEF Track
  <2>2. DOMAIN Top(t) = FrameFields
    BY <2>1, TopFacts DEF FrameOK
  <2>3. /\ f.at = Top(t).at /\ f.outer = Top(t).outer /\ f.method = Top(t).method /\ f.used = Top(t).used
        /\ f.cls = Top(t).cls /\ f.key = Top(t).key
    BY <2>2 DEF FrameFields
  <2> HIDE DEF f
  <2>4. FrameEndpoint(f, endpoint[t])
    BY <2>1, <2>3, TopEndpoint DEF FrameEndpoint, EndpointOf
  <2> QED
    BY <1>2, <2>1, <2>3, <2>4
<1>6. ASSUME NEW t \in Tasks, Enter(t) PROVE EndpointInv'
  <2> DEFINE deps == Instantiated(Top(t).cls, Top(t).key, bound[t])[<<Top(t).cls.name, Top(t).key>>]
             tree == Assemble(Top(t).cls, Top(t).key).tree
             f == [Top(t) EXCEPT !.at = "chain", !.deps = deps,
                                 !.chain = ActiveLinks(tree, PolicyOf(Top(t).cls, Top(t).method)),
                                 !.stubbed = Stubbed(Top(t).cls, tree)]
  <2>1. stack[t] # <<>> /\ Update(t, f) /\ endpoint' = [endpoint EXCEPT ![t] = EndpointOf(Top(t))]
    BY <1>6 DEF Enter
  <2>2. DOMAIN Top(t) = FrameFields
    BY <2>1, TopFacts DEF FrameOK
  <2>3. /\ f.at = "chain" /\ f.outer = Top(t).outer /\ f.method = Top(t).method /\ f.used = Top(t).used
        /\ f.cls = Top(t).cls /\ f.key = Top(t).key
    <3> HIDE DEF deps, tree
    <3> QED
      BY <2>2 DEF FrameFields
  <2> HIDE DEF f
  <2>4. FrameEndpoint(f, EndpointOf(Top(t)))
    BY <2>1, <2>3, TopEndpoint DEF FrameEndpoint, EndpointOf
  <2> QED
    BY <2>1, <2>3, <2>4, UpdateEndpoint
<1>7. ASSUME NEW t \in Tasks, Got(t) \/ Misconfigured(t) \/ \E how : Ends(t, how) PROVE EndpointInv'
  <2>1. stack[t] # <<>> /\ stack' = [stack EXCEPT ![t] = Front(@)]
    BY <1>7 DEF Got, Misconfigured, Ends
  <2>2. endpoint = [u \in Tasks |-> endpoint[u]]
    BY DEF EndpointInv
  <2>3. endpoint' = [endpoint EXCEPT ![t] = Top(t).outer]
    <3>1. CASE Got(t) \/ Misconfigured(t)
      <4>1. endpoint' = endpoint /\ Top(t).at = "resolving"
        BY <3>1 DEF Got, Misconfigured
      <4>2. endpoint[t] = Top(t).outer
        BY <2>1, <4>1, TopEndpoint DEF FrameEndpoint
      <4> QED
        BY <2>2, <4>1, <4>2
    <3>2. CASE \E how : Ends(t, how)
      BY <3>2 DEF Ends, Restored
    <3> QED
      BY <1>7, <3>1, <3>2
  <2> QED
    BY <2>1, <2>3, PopEndpoint
<1>8. ASSUME NEW t \in Tasks, Descend(t) PROVE EndpointInv'
  <2>1. PICK link, settings :
             Update(t, [Top(t) EXCEPT !.next = @ + 1,
                                      !.used = @ \union {<<StoreKey(link, endpoint[t]), settings>>}])
    BY <1>8 DEF Descend
  <2> DEFINE f == [Top(t) EXCEPT !.next = @ + 1,
                                 !.used = @ \union {<<StoreKey(link, endpoint[t]), settings>>}]
  <2>2. stack[t] # <<>> /\ endpoint' = endpoint /\ Top(t).at = "chain"
    BY <1>8 DEF Descend
  <2>3. DOMAIN Top(t) = FrameFields
    BY <2>2, TopFacts DEF FrameOK
  <2>4. /\ f.at = Top(t).at /\ f.outer = Top(t).outer /\ f.method = Top(t).method
        /\ f.cls = Top(t).cls /\ f.key = Top(t).key
        /\ f.used = Top(t).used \union {<<StoreKey(link, endpoint[t]), settings>>}
    BY <2>3 DEF FrameFields
  <2>5. Update(t, f)
    BY <2>1
  <2> HIDE DEF f
  <2>6. FrameEndpoint(f, endpoint[t])
    <3>1. FrameEndpoint(Top(t), endpoint[t])
      BY <2>2, TopEndpoint
    <3> QED
      BY <2>2, <2>4, <3>1 DEF FrameEndpoint, EndpointOf
  <2> QED
    BY <1>2, <2>2, <2>4, <2>5, <2>6
<1>9. ASSUME NEW t \in Tasks, NEW f, stack[t] # <<>>, Top(t).at # "resolving", endpoint' = endpoint,
             Update(t, f), f.at \in {"chain", "base"},
             \A x \in FrameFields \ {"at", "next"} : f[x] = Top(t)[x]
      PROVE  EndpointInv'
  <2>1. /\ f.outer = Top(t).outer /\ f.method = Top(t).method /\ f.used = Top(t).used
        /\ f.cls = Top(t).cls /\ f.key = Top(t).key
    BY <1>9 DEF FrameFields
  <2>2. FrameEndpoint(f, endpoint[t])
    BY <1>9, <2>1, TopEndpoint DEF FrameEndpoint, EndpointOf
  <2> QED
    BY <1>2, <1>9, <2>1, <2>2
<1>10. ASSUME NEW t \in Tasks, Base(t) PROVE EndpointInv'
  <2> DEFINE f == [Top(t) EXCEPT !.at = "base"]
  <2>1. stack[t] # <<>> /\ Top(t).at # "resolving" /\ endpoint' = endpoint /\ Update(t, f)
    BY <1>10 DEF Base
  <2>2. f.at = "base" /\ \A x \in FrameFields \ {"at", "next"} : f[x] = Top(t)[x]
    BY <2>1, TopFacts DEF FrameOK, FrameFields
  <2> HIDE DEF f
  <2> QED
    BY <1>9, <2>1, <2>2
<1>11. ASSUME NEW t \in Tasks, Retry(t) PROVE EndpointInv'
  <2>1. PICK n : Update(t, [Top(t) EXCEPT !.at = "chain", !.next = n + 1])
    BY <1>11 DEF Retry
  <2> DEFINE f == [Top(t) EXCEPT !.at = "chain", !.next = n + 1]
  <2>2. stack[t] # <<>> /\ Top(t).at # "resolving" /\ endpoint' = endpoint /\ Update(t, f)
    BY <1>11, <2>1 DEF Retry
  <2>3. f.at = "chain" /\ \A x \in FrameFields \ {"at", "next"} : f[x] = Top(t)[x]
    BY <2>2, TopFacts DEF FrameOK, FrameFields
  <2> HIDE DEF f
  <2> QED
    BY <1>9, <2>2, <2>3
<1>12. ASSUME NEW t \in Tasks, NEW name, Depend(t, name) PROVE EndpointInv'
  <2>1. Push(t, Proxied(t, name)) /\ endpoint' = endpoint
    BY <1>12 DEF Depend
  <2>2. /\ Proxied(t, name).outer = endpoint[t] /\ Proxied(t, name).at = "base"
        /\ Proxied(t, name).method = "any"
    BY DEF Proxied
  <2>3. FrameEndpoint(Proxied(t, name), endpoint[t])
    BY <2>2 DEF FrameEndpoint
  <2> QED
    BY <2>1, <2>2, <2>3, PushEndpoint
<1>13. CASE \/ Start \/ UNCHANGED vars
            \/ \E k \in DOMAIN answer : \E tree \in app.overrides[k] : Tune(k, tree)
            \/ \E cls \in app.classes :
                  \E key \in {GlobalScope} \union {k[2] : k \in DOMAIN answer} : Introspect(cls, key)
            \/ \E t \in Tasks : Unbind(t) \/ \E values \in app.bindings : Bind(t, values)
  <2>1. UNCHANGED <<stack, endpoint>>
    BY <1>13 DEF Start, Tune, Introspect, Bind, Unbind, vars
  <2> QED
    BY <1>1, <2>1
<1> QED
  BY <1>3, <1>4, <1>5, <1>6, <1>7, <1>8, <1>10, <1>11, <1>12, <1>13 DEF Next, Invoke, Get

LEMMA EndpointsInductive == Spec => [](BaseInv /\ EndpointInv)
BY InitBase, NextBase, InitEndpoint, NextEndpoint, PTL DEF Spec

\* Two calls whose endpoints are the same are calls of one slice, unless a component has
\* named that endpoint or a value of an axis has a comma.
SliceKey(f) == IF f.cls.scoped THEN f.key = [axis \in f.cls.scope |-> f.key[axis]] ELSE f.key = GlobalScope

LEMMA PlainCallKey ==
    ASSUME AppInv, NEW f, f.cls \in app.classes, SliceKey(f), PlainKey(f.key), NEW key, key = CallKey(f.cls, f.key)
    PROVE  /\ PlainKey(key) /\ key = [axis \in DOMAIN key |-> key[axis]]
           /\ DOMAIN key = (IF f.cls.scoped THEN f.cls.scope ELSE {"component"})
           /\ DOMAIN key \subseteq Range(AxisOrder)
<1>1. f.cls.scope \union {"component"} \subseteq Range(AxisOrder)
  BY SlicesAssumption DEF AppInv
<1>2. CASE f.cls.scoped
  <2>1. key = f.key
    BY <1>2 DEF CallKey
  <2>2. key = [axis \in f.cls.scope |-> key[axis]]
    BY <1>2, <2>1 DEF SliceKey
  <2>3. DOMAIN key = f.cls.scope
    BY <2>2
  <2> QED
    BY <1>1, <1>2, <2>1, <2>2, <2>3
<1>3. CASE ~f.cls.scoped
  <2>1. key = [axis \in {"component"} |-> <<f.cls.name>>]
    BY <1>3 DEF CallKey
  <2>2. Plain(<<f.cls.name>>)
    BY DEF Plain
  <2> QED
    BY <1>1, <1>3, <2>1, <2>2 DEF PlainKey
<1> QED
  BY <1>2, <1>3

LEMMA EndpointsDiffer ==
    ASSUME AppInv, phase = "up", NEW f, NEW g, f.cls \in app.classes, g.cls \in app.classes,
           SliceKey(f), SliceKey(g), f.cls.endpoint = None, g.cls.endpoint = None,
           EndpointOf(f) = EndpointOf(g), PlainKey(f.key), PlainKey(g.key)
    PROVE  f.cls = g.cls /\ f.key = g.key
<1>1. PICK key : key = CallKey(f.cls, f.key)
  OBVIOUS
<1>2. PICK key2 : key2 = CallKey(g.cls, g.key)
  OBVIOUS
<1>3. DefaultEndpoint(f.cls.name, key) = DefaultEndpoint(g.cls.name, key2)
  BY <1>1, <1>2 DEF EndpointOf, Endpoint
<1>4. /\ PlainKey(key) /\ key = [axis \in DOMAIN key |-> key[axis]]
      /\ DOMAIN key = (IF f.cls.scoped THEN f.cls.scope ELSE {"component"})
      /\ DOMAIN key \subseteq Range(AxisOrder)
  BY <1>1, PlainCallKey
<1>5. /\ PlainKey(key2) /\ key2 = [axis \in DOMAIN key2 |-> key2[axis]]
      /\ DOMAIN key2 = (IF g.cls.scoped THEN g.cls.scope ELSE {"component"})
  BY <1>2, PlainCallKey
<1>6. f.cls.name = g.cls.name
  BY <1>3, <1>4, <1>5, TextsDiffer
<1>7. f.cls = g.cls
  BY <1>6 DEF AppInv, Buildable, Refused
<1>8. key = key2
  <2>1. DOMAIN key = DOMAIN key2
    BY <1>4, <1>5, <1>7
  <2> QED
    BY <1>3, <1>4, <1>5, <2>1, TextsDiffer
<1> QED
  BY <1>1, <1>2, <1>7, <1>8 DEF CallKey, SliceKey

\* "One tenant tripping the breaker never opens it for another": calls of different
\* slices, none of whose values has a comma, have no state of an endpoint's links in
\* common, however calls are nested, fail and are retried: the text that default_endpoint
\* makes tells them apart, use_endpoint puts it around each call, build_chain slices by it.
THEOREM EndpointsStayApart == Spec => []EndpointsApart
<1>1. BaseInv /\ EndpointInv => EndpointsApart
  <2> SUFFICES ASSUME BaseInv, EndpointInv, NEW f \in InFlight, NEW g \in InFlight,
                      ~(f.cls = g.cls /\ f.key = g.key),
                      ~(EndpointOf(f) = EndpointOf(g) /\ {f.cls.endpoint, g.cls.endpoint} # {None}),
                      ~(EndpointOf(f) = EndpointOf(g) /\ ~(PlainKey(f.key) /\ PlainKey(g.key))),
                      f.method # "any", g.method # "any",
                      NEW u \in f.used
               PROVE  /\ u[1][1] \in EndpointSliced => \A v \in g.used : u[1] # v[1]
                      /\ u[1] \notin LiveBreakers(EndpointOf(g))
    BY DEF EndpointsApart
  <2>1. ASSUME NEW h \in InFlight, h.method # "any"
        PROVE  /\ phase = "up" /\ h.cls \in app.classes /\ SliceKey(h)
               /\ \A v \in h.used : \E link : v[1] = StoreKey(link, EndpointOf(h))
    <3>1. PICK t \in Tasks : h \in Calls(t)
      BY DEF InFlight
    <3>2. PICK n \in DOMAIN stack[t] : h = stack[t][n]
      BY <3>1 DEF Calls
    <3>3. FrameOK(h) /\ FrameEndpoint(h, Within(t, n)) /\ stack[t] # <<>>
      BY <3>2 DEF BaseInv, StackInv, TaskInv, EndpointInv
    <3> QED
      BY <2>1, <3>3 DEF FrameOK, FrameEndpoint, SliceKey, BaseInv, StackInv, TaskInv
  <2>2. EndpointOf(f) # EndpointOf(g)
    BY <2>1, EndpointsDiffer DEF BaseInv
  <2>3. PICK link : u[1] = StoreKey(link, EndpointOf(f))
    BY <2>1
  <2>4. u[1][1] = link /\ (link \in EndpointSliced => u[1][2] = [endpoint |-> EndpointOf(f)])
    BY <2>3 DEF StoreKey
  <2>5. ASSUME link \in EndpointSliced, NEW v \in g.used, u[1] = v[1] PROVE FALSE
    <3>1. PICK other : v[1] = StoreKey(other, EndpointOf(g))
      BY <2>1
    <3>2. other = link /\ v[1][2] = [endpoint |-> EndpointOf(g)]
      BY <2>4, <2>5, <3>1 DEF StoreKey
    <3> QED
      BY <2>2, <2>4, <2>5, <3>2
  <2>6. u[1] \notin LiveBreakers(EndpointOf(g))
    BY <2>2, <2>4 DEF LiveBreakers, EndpointSliced
  <2> QED
    BY <2>4, <2>5, <2>6
<1> QED
  BY <1>1, EndpointsInductive, PTL

-----------------------------------------------------------------------------
(* Layers: what deep_merge makes of any number of them *)

NoConfig == [tree |-> Nothing, from |-> Nothing]

\* The recursion has a solution: one for each length, the next one from the last.
LEMMA DeepMergeIs ==
    ASSUME NEW layers, Len(layers) \in Nat
    PROVE  \E m : /\ m[0] = NoConfig /\ DeepMerge(layers) = m[Len(layers)]
                  /\ \A n \in 1..Len(layers) : m[n] = Overlay(m[n - 1], layers[n])
<1> DEFINE Solves(g, k) ==
              g = [n \in 0..k |-> IF n = 0 THEN [tree |-> Nothing, from |-> Nothing]
                                  ELSE Overlay(g[n - 1], layers[n])]
           S == {k \in Nat : ~\E g : Solves(g, k)}
<1>1. 0 \notin S
  <2>1. Solves([n \in 0..0 |-> NoConfig], 0)
    BY DEF NoConfig
  <2> QED
    BY <2>1
<1>2. ASSUME NEW k \in Nat, k \notin S PROVE k + 1 \notin S
  <2>1. PICK g : Solves(g, k)
    BY <1>2
  <2> DEFINE h == [n \in 0..(k + 1) |-> IF n = k + 1 THEN Overlay(g[k], layers[k + 1]) ELSE g[n]]
  <2>2. \A n \in 0..k : g[n] = IF n = 0 THEN NoConfig ELSE Overlay(g[n - 1], layers[n])
    <3> HIDE DEF NoConfig
    <3>1. g = [n \in 0..k |-> IF n = 0 THEN NoConfig ELSE Overlay(g[n - 1], layers[n])]
      BY <2>1 DEF NoConfig
    <3> QED
      BY <3>1
  <2>3. \A n \in 0..(k + 1) : h[n] = IF n = 0 THEN NoConfig ELSE Overlay(h[n - 1], layers[n])
    <3> SUFFICES ASSUME NEW n \in 0..(k + 1)
                 PROVE  h[n] = IF n = 0 THEN NoConfig ELSE Overlay(h[n - 1], layers[n])
      OBVIOUS
    <3>1. CASE n = k + 1
      <4>1. h[n] = Overlay(g[k], layers[n]) /\ h[n - 1] = g[k] /\ n # 0
        BY <3>1
      <4> QED
        BY <4>1
    <3>2. CASE n # k + 1
      <4>1. n \in 0..k /\ h[n] = g[n] /\ (n # 0 => h[n - 1] = g[n - 1])
        BY <3>2
      <4> HIDE DEF h
      <4> QED
        BY <2>2, <4>1
    <3> QED
      BY <3>1, <3>2
  <2>4. h = [n \in 0..(k + 1) |-> h[n]]
    OBVIOUS
  <2> HIDE DEF h
  <2>5. Solves(h, k + 1)
    BY <2>3, <2>4 DEF NoConfig
  <2> HIDE DEF Solves
  <2> QED
    BY <2>5
<1>3. S = {}
  <2> HIDE DEF S
  <2>1. S \in SUBSET Nat
    BY DEF S
  <2> QED
    BY <1>1, <1>2, <2>1, NoFailure
<1>4. \E g : Solves(g, Len(layers))
  <2> HIDE DEF Solves
  <2> QED
    BY <1>3
<1> DEFINE m == CHOOSE g : Solves(g, Len(layers))
<1>5. Solves(m, Len(layers))
  <2> HIDE DEF Solves
  <2> QED
    BY <1>4
<1>6. DeepMerge(layers) = m[Len(layers)]
  BY DEF DeepMerge
<1> HIDE DEF m
<1>7. \A n \in 0..Len(layers) : m[n] = IF n = 0 THEN NoConfig ELSE Overlay(m[n - 1], layers[n])
  <2> HIDE DEF NoConfig
  <2>1. m = [n \in 0..Len(layers) |-> IF n = 0 THEN NoConfig ELSE Overlay(m[n - 1], layers[n])]
    BY <1>5 DEF NoConfig
  <2> QED
    BY <2>1
<1> QED
  BY <1>6, <1>7

\* "Later layers win per leaf", for any layers: deep_merge.
LEMMA LastLayerWins ==
    ASSUME NEW layers, Len(layers) \in Nat, DOMAIN layers = 1..Len(layers)
    PROVE  LastWins(DeepMerge(layers).tree, layers) /\ TracedToLast(DeepMerge(layers), layers)
<1>1. PICK m : /\ m[0] = NoConfig /\ DeepMerge(layers) = m[Len(layers)]
               /\ \A n \in 1..Len(layers) : m[n] = Overlay(m[n - 1], layers[n])
  BY DeepMergeIs
<1> DEFINE Says(i, p) == p \in DOMAIN layers[i][2] \/ \E q \in Prefixes(p) : Scalar(layers[i][2], q)
           Leaf(n, last, p) ==
              /\ Scalar(m[n].tree, p) <=> Scalar(layers[last][2], p)
              /\ Scalar(m[n].tree, p) => /\ m[n].tree[p] = layers[last][2][p] /\ p \in DOMAIN m[n].from
                                         /\ m[n].from[p] = layers[last][1]
           Silent(n, p) == p \notin DOMAIN m[n].tree /\ \A i \in 1..n : ~Says(i, p)
           Decided(n, p) == \E last \in 1..n : /\ Says(last, p) /\ Leaf(n, last, p)
                                               /\ \A i \in 1..n : i > last => ~Says(i, p)
<1>2. ASSUME NEW p PROVE \A n \in Nat : n <= Len(layers) => Silent(n, p) \/ Decided(n, p)
  <2> DEFINE S == {n \in Nat : n <= Len(layers) /\ ~Silent(n, p) /\ ~Decided(n, p)}
  <2>1. 0 \notin S
    BY <1>1 DEF NoConfig, Nothing
  <2>2. ASSUME NEW n \in Nat, n \notin S PROVE n + 1 \notin S
    <3> SUFFICES ASSUME n + 1 <= Len(layers) PROVE Silent(n + 1, p) \/ Decided(n + 1, p)
      OBVIOUS
    <3>0. PICK k \in Nat : k = n + 1
      OBVIOUS
    <3> DEFINE l == layers[k][2]
    <3>1. m[k] = Overlay(m[n], layers[k])
      <4>1. k \in 1..Len(layers) /\ k - 1 = n
        BY <3>0
      <4> QED
        BY <1>1, <4>1
    <3>2. /\ m[k].tree = Merge(m[n].tree, l)
          /\ m[k].from = Traced(m[n].from, l, layers[k][1])
      BY <3>1 DEF Overlay
    <3>3. Silent(n, p) \/ Decided(n, p)
      BY <2>2
    <3>4. CASE Says(k, p)
      <4>1. Leaf(k, k, p)
        <5>1. CASE p \in DOMAIN l
          <6>1. p \in DOMAIN m[k].tree /\ m[k].tree[p] = l[p]
            BY <3>2, <5>1 DEF Merge
          <6>2. Scalar(l, p) => p \in DOMAIN m[k].from /\ m[k].from[p] = layers[k][1]
            BY <3>2, <5>1 DEF Traced
          <6> QED
            BY <5>1, <6>1, <6>2 DEF Scalar
        <5>2. CASE p \notin DOMAIN l
          <6>1. \E q \in Prefixes(p) : Scalar(l, q)
            BY <3>4, <5>2
          <6>2. p \notin DOMAIN m[k].tree
            BY <3>2, <5>2, <6>1 DEF Merge
          <6> QED
            BY <5>2, <6>2 DEF Scalar
        <5> QED
          BY <5>1, <5>2
      <4>2. k \in 1..k /\ \A i \in 1..k : ~(i > k)
        BY <3>0
      <4>3. Decided(k, p)
        <5> HIDE DEF Says, Leaf
        <5> QED
          BY <3>4, <4>1, <4>2
      <4> HIDE DEF Decided, Silent
      <4> QED
        BY <3>0, <4>3
    <3>5. CASE ~Says(k, p)
      <4>1. p \notin DOMAIN l /\ ~Scalar(l, p) /\ \A q \in Prefixes(p) : ~Scalar(l, q)
        BY <3>5 DEF Scalar
      <4>2. /\ p \in DOMAIN m[k].tree <=> p \in DOMAIN m[n].tree
            /\ p \in DOMAIN m[n].tree => m[k].tree[p] = m[n].tree[p]
        BY <3>2, <4>1 DEF Merge
      <4>3. p \in DOMAIN m[n].from => p \in DOMAIN m[k].from /\ m[k].from[p] = m[n].from[p]
        BY <3>2, <4>1 DEF Traced
      <4>4. Scalar(m[k].tree, p) <=> Scalar(m[n].tree, p)
        BY <4>2 DEF Scalar
      <4>5. \A i \in 1..k : i \in 1..n \/ i = k
        BY <3>0
      <4>6. \A i \in 1..n : i \in 1..k
        BY <3>0
      <4>7. \A last \in 1..n : Leaf(n, last, p) => Leaf(k, last, p)
        BY <4>2, <4>3, <4>4 DEF Scalar
      <4>8. Silent(n, p) => Silent(k, p)
        <5> HIDE DEF Says, Leaf
        <5> QED
          BY <3>5, <4>2, <4>5
      <4>9. Decided(n, p) => Decided(k, p)
        <5> SUFFICES ASSUME NEW last \in 1..n, Says(last, p), Leaf(n, last, p),
                            \A i \in 1..n : i > last => ~Says(i, p)
                     PROVE  Decided(k, p)
          OBVIOUS
        <5>1. last \in 1..k /\ Leaf(k, last, p) /\ \A i \in 1..k : i > last => ~Says(i, p)
          <6>1. Leaf(k, last, p)
            BY <4>7
          <6> HIDE DEF Says, Leaf
          <6> QED
            BY <3>5, <4>5, <4>6, <6>1
        <5> HIDE DEF Says, Leaf
        <5> QED
          BY <5>1
      <4> HIDE DEF Decided, Silent
      <4> QED
        BY <3>0, <3>3, <4>8, <4>9
    <3> QED
      BY <3>4, <3>5
  <2>3. S = {}
    <3> HIDE DEF S
    <3>1. S \in SUBSET Nat
      BY DEF S
    <3> QED
      BY <2>1, <2>2, <3>1, NoFailure
  <2> HIDE DEF Silent, Decided
  <2> QED
    BY <2>3
<1>3. ASSUME NEW p \in UNION {DOMAIN layers[i][2] : i \in DOMAIN layers}
      PROVE  \E last \in DOMAIN layers :
                /\ Says(last, p) /\ \A i \in DOMAIN layers : i > last => ~Says(i, p)
                /\ Leaf(Len(layers), last, p)
  <2>1. \E i \in 1..Len(layers) : Says(i, p)
    OBVIOUS
  <2>2. Silent(Len(layers), p) \/ Decided(Len(layers), p)
    <3> HIDE DEF Silent, Decided
    <3> QED
      BY <1>2
  <2> HIDE DEF Says, Leaf
  <2> QED
    BY <2>1, <2>2
<1>4. \A last, p : Decides(layers, last, p) <=>
         Says(last, p) /\ \A i \in DOMAIN layers : i > last => ~Says(i, p)
  BY DEF Decides, Speaks
<1>5. \A last, p : Leaf(Len(layers), last, p) =>
         /\ Takes(DeepMerge(layers).tree, layers[last], p)
         /\ Scalar(DeepMerge(layers).tree, p) => DeepMerge(layers).from[p] = layers[last][1]
  BY <1>1 DEF Takes
<1> HIDE DEF Says, Leaf
<1>6. \A p \in Paths(layers) : \E last \in DOMAIN layers :
         Decides(layers, last, p) /\ Leaf(Len(layers), last, p)
  BY <1>3, <1>4 DEF Paths
<1> QED
  BY <1>5, <1>6 DEF LastWins, TracedToLast

LEMMA OverlayIs ==
    ASSUME NEW config, NEW source, NEW layer
    PROVE  /\ Overlay(config, <<source, layer>>).tree = Merge(config.tree, layer)
           /\ Overlay(config, <<source, layer>>).from = Traced(config.from, layer, source)
BY DEF Overlay

LEMMA FourLayers ==
    ASSUME NEW a, NEW b, NEW c, NEW d
    PROVE  DeepMerge(Append(<<a, b, c>>, d)) = Overlay(Overlay(Overlay(Overlay(NoConfig, a), b), c), d)
<1> DEFINE s == Append(<<a, b, c>>, d)
<1>1. s[1] = a /\ s[2] = b /\ s[3] = c /\ s[4] = d
  OBVIOUS
<1>2. Len(s) = 4 /\ Len(s) \in Nat /\ DOMAIN s = 1..Len(s)
  OBVIOUS
<1> HIDE DEF s
<1>3. PICK m : /\ m[0] = NoConfig /\ DeepMerge(s) = m[Len(s)]
               /\ \A n \in 1..Len(s) : m[n] = Overlay(m[n - 1], s[n])
  BY <1>2, DeepMergeIs
<1>4. m[1] = Overlay(m[0], s[1]) /\ m[2] = Overlay(m[1], s[2])
      /\ m[3] = Overlay(m[2], s[3]) /\ m[4] = Overlay(m[3], s[4])
  <2>1. 1 \in 1..4 /\ 2 \in 1..4 /\ 3 \in 1..4 /\ 4 \in 1..4 /\ 1 - 1 = 0 /\ 2 - 1 = 1 /\ 3 - 1 = 2 /\ 4 - 1 = 3
    OBVIOUS
  <2>2. \A n \in 1..4 : m[n] = Overlay(m[n - 1], s[n])
    BY <1>2, <1>3
  <2> QED
    BY <2>1, <2>2
<1>5. DeepMerge(s) = m[4]
  BY <1>2, <1>3
<1>6. m[0] = NoConfig
  BY <1>3
<1> QED
  BY <1>1, <1>4, <1>5, <1>6 DEF s

\* One layer over the other: what Container.build gives to _assemble
LEMMA AssembledIs ==
    ASSUME NEW cls, NEW o
    PROVE  LET one == Overlay(NoConfig, <<"framework defaults", app.framework>>)
               two == Overlay(one, <<"component defaults", cls.defaults>>)
               three == Overlay(two, <<"deployment config", Deployment(app, cls.name)>>)
           IN  Assembled(app, cls, o) = Overlay(three, <<"slice override", o>>)
<1> DEFINE a == <<"framework defaults", app.framework>>
           b == <<"component defaults", cls.defaults>>
           c == <<"deployment config", Deployment(app, cls.name)>>
           d == <<"slice override", o>>
<1>1. Assembled(app, cls, o) = DeepMerge(Append(<<a, b, c>>, d))
  BY DEF Assembled, Layers
<1> HIDE DEF a, b, c, d
<1>2. Assembled(app, cls, o) = Overlay(Overlay(Overlay(Overlay(NoConfig, a), b), c), d)
  BY <1>1, FourLayers
<1> QED
  BY <1>2 DEF a, b, c, d

\* What is traced to the override of a slice is in it.
FromOverride(config, p) == p \in DOMAIN config.from /\ config.from[p] = "slice override"
Gives(o, config, p) == p \in DOMAIN o /\ o[p] = config.tree[p]

LEMMA TracedToOverride ==
    ASSUME NEW cls, NEW o, NEW config, config = Assembled(app, cls, o), NEW p, FromOverride(config, p)
    PROVE  Gives(o, config, p)
<1> DEFINE one == Overlay(NoConfig, <<"framework defaults", app.framework>>)
           two == Overlay(one, <<"component defaults", cls.defaults>>)
           three == Overlay(two, <<"deployment config", Deployment(app, cls.name)>>)
<1>1. Assembled(app, cls, o) = Overlay(three, <<"slice override", o>>)
  BY AssembledIs
<1>2. \A q \in DOMAIN one.from : one.from[q] = "framework defaults"
  <2>1. one.from = Traced(NoConfig.from, app.framework, "framework defaults")
    BY OverlayIs
  <2> HIDE DEF one
  <2> QED
    BY <2>1 DEF Traced, NoConfig, Nothing
<1>3. \A q \in DOMAIN two.from : two.from[q] \in {"framework defaults", "component defaults"}
  <2> HIDE DEF one
  <2>1. two.from = Traced(one.from, cls.defaults, "component defaults")
    BY OverlayIs
  <2> QED
    BY <1>2, <2>1 DEF Traced
<1>4. \A q \in DOMAIN three.from : three.from[q] # "slice override"
  <2> HIDE DEF two
  <2>1. three.from = Traced(two.from, Deployment(app, cls.name), "deployment config")
    BY OverlayIs
  <2> QED
    BY <1>3, <2>1 DEF Traced
<1> HIDE DEF three
<1>5. /\ config.from = Traced(three.from, o, "slice override")
      /\ config.tree = Merge(three.tree, o)
  <2> DEFINE four == Overlay(three, <<"slice override", o>>)
  <2>1. four.from = Traced(three.from, o, "slice override") /\ four.tree = Merge(three.tree, o)
    BY OverlayIs
  <2>2. Assembled(app, cls, o) = four
    BY <1>1
  <2> HIDE DEF four
  <2> QED
    BY <2>1, <2>2
<1>6. Scalar(o, p)
  BY <1>4, <1>5 DEF FromOverride, Traced
<1> QED
  BY <1>5, <1>6 DEF Gives, Scalar, Merge

-----------------------------------------------------------------------------
(* Configurations of slices *)

\* What is assembled for a component and a key, now or before
Made(cls, key, config) == \E o \in Offered(<<cls.name, key>>) : config = Assembled(app, cls, o)

\* A call runs through what the configuration of its slice says.
FrameConfig(f) ==
    /\ f.at = "resolving" => f.method \in DOMAIN f.cls.methods \union {"get"}
    /\ f.at # "resolving" /\ f.method # "any" =>
          LET k == <<f.cls.name, f.key>>
          IN  /\ f.method \in DOMAIN f.cls.methods /\ k \in DOMAIN configs
              /\ f.chain = ActiveLinks(configs[k].tree, PolicyOf(f.cls, f.method))
              /\ f.stubbed = Stubbed(f.cls, configs[k].tree)

CacheInv ==
    /\ \A k \in DOMAIN answer : k \in DOMAIN app.overrides /\ answer[k] \in app.overrides[k]
    /\ \A k \in DOMAIN configs :
          \E cls \in app.classes : \E key : /\ k = <<cls.name, key>> /\ Made(cls, key, configs[k])
                                        /\ Valid(cls, configs[k])
    /\ DOMAIN instances \subseteq DOMAIN configs
    /\ DOMAIN configs # {} => Buildable(app)

ConfigInv == CacheInv /\ \A t \in Tasks : \A f \in Calls(t) : FrameConfig(f)

LEMMA AssembleIs ==
    ASSUME AppInv, phase # "refused", CacheInv, NEW cls \in app.classes, NEW key
    PROVE  Made(cls, key, Assemble(cls, key))
<1> DEFINE k == <<cls.name, key>>
<1>1. CASE k \in DOMAIN configs
  <2>1. PICK d \in app.classes, x \in {k[2]} : k = <<d.name, x>> /\ Made(d, x, configs[k])
    BY <1>1 DEF CacheInv
  <2>2. d = cls /\ x = key
    BY <2>1, ClassIs
  <2> QED
    BY <1>1, <2>1, <2>2 DEF Assemble, CacheKey
<1>2. CASE k \notin DOMAIN configs
  <2>1. Assemble(cls, key) = Assembled(app, cls, Override(cls.name, key))
    BY <1>2 DEF Assemble, CacheKey
  <2>2. Override(cls.name, key) \in Offered(k)
    BY DEF Override, Offered, CacheInv
  <2> QED
    BY <2>1, <2>2 DEF Made
<1> QED
  BY <1>1, <1>2

\* Nothing that is cached is ever replaced.
LEMMA CacheIs ==
    ASSUME AppInv, phase # "refused", NEW ks, Cache(ks),
           \A i \in ks : \E cls \in app.classes : \E key : i = <<cls.name, key>>
    PROVE  /\ DOMAIN configs' = ks \union DOMAIN configs
           /\ \A k \in DOMAIN configs : configs'[k] = configs[k]
           /\ \A cls \in app.classes : \A key :
                 <<cls.name, key>> \in ks => configs'[<<cls.name, key>>] = Assemble(cls, key)
<1> DEFINE ConfigOf(k) == CHOOSE i \in ks : CacheKey(Class(i[1]), i[2]) = k
           fresh == [k \in ks |-> Assemble(Class(ConfigOf(k)[1]), ConfigOf(k)[2])]
<1>1. \A i \in ks : CacheKey(Class(i[1]), i[2]) = i
  BY ClassIs DEF CacheKey
<1>2. {CacheKey(Class(i[1]), i[2]) : i \in ks} = ks
  BY <1>1
<1>3. \A k \in ks : ConfigOf(k) = k
  BY <1>1
<1>4. configs' = Over(fresh, configs)
  BY <1>2 DEF Cache
<1>5. ASSUME NEW k \in ks PROVE fresh[k] = Assemble(Class(k[1]), k[2])
  <2>1. ConfigOf(k) = k
    BY <1>3
  <2> HIDE DEF ConfigOf
  <2> QED
    BY <2>1
<1> HIDE DEF ConfigOf
<1>6. DOMAIN fresh = ks
  OBVIOUS
<1> HIDE DEF fresh
<1>7. configs' = [k \in ks \union DOMAIN configs |-> IF k \in ks THEN fresh[k] ELSE configs[k]]
  BY <1>4, <1>6 DEF Over
<1>8. ASSUME NEW cls \in app.classes, NEW key, <<cls.name, key>> \in ks
      PROVE  fresh[<<cls.name, key>>] = Assemble(cls, key)
  BY <1>5, <1>8, ClassIs
<1>9. ASSUME NEW k \in ks, k \in DOMAIN configs PROVE fresh[k] = configs[k]
  <2>1. PICK cls \in app.classes, key \in {k[2]} : k = <<cls.name, key>>
    OBVIOUS
  <2>2. Assemble(cls, key) = configs[k]
    BY <1>9, <2>1 DEF Assemble, CacheKey
  <2> QED
    BY <1>8, <2>1, <2>2
<1> QED
  BY <1>7, <1>8, <1>9

\* So the cache stays what it is, if what is cached holds.
LEMMA CacheKept ==
    ASSUME AppInv, phase # "refused", CacheInv, app' = app, answer' = answer, NEW ks, Cache(ks),
           \A i \in ks : \E cls \in app.classes : \E key :
              i = <<cls.name, key>> /\ Valid(cls, Assemble(cls, key)),
           DOMAIN instances' \subseteq DOMAIN instances \union ks
    PROVE  CacheInv'
<1>0. \A i \in ks : \E cls \in app.classes : \E key : i = <<cls.name, key>>
  OBVIOUS
<1>1. /\ DOMAIN configs' = ks \union DOMAIN configs
      /\ \A k \in DOMAIN configs : configs'[k] = configs[k]
      /\ \A cls \in app.classes : \A key :
            <<cls.name, key>> \in ks => configs'[<<cls.name, key>>] = Assemble(cls, key)
  BY <1>0, CacheIs
<1>3. ASSUME NEW k \in DOMAIN configs'
      PROVE  \E cls \in app.classes : \E key : /\ k = <<cls.name, key>> /\ Made(cls, key, configs'[k])
                                           /\ Valid(cls, configs'[k])
  <2>1. CASE k \in DOMAIN configs
    BY <1>1, <2>1 DEF CacheInv
  <2>2. CASE k \in ks
    <3>1. PICK cls \in app.classes, key \in {k[2]} : k = <<cls.name, key>> /\ Valid(cls, Assemble(cls, key))
      BY <2>2
    <3>2. configs'[k] = Assemble(cls, key) /\ Made(cls, key, Assemble(cls, key))
      BY <1>1, <2>2, <3>1, AssembleIs
    <3> QED
      BY <3>1, <3>2
  <2> QED
    BY <1>1, <2>1, <2>2
<1>4. ASSUME NEW cls, NEW key, NEW config, Made(cls, key, config)
      PROVE  \E o \in Offered(<<cls.name, key>>)' : config = Assembled(app', cls, o)
  BY <1>4 DEF Made, Offered
<1>5. ASSUME NEW k \in DOMAIN configs'
      PROVE  \E cls \in app'.classes : \E key : /\ k = <<cls.name, key>> /\ Made(cls, key, configs[k])'
                                                /\ Valid(cls, configs'[k])
  <2>1. PICK cls \in app.classes : \E key : /\ k = <<cls.name, key>> /\ Made(cls, key, configs'[k])
                                            /\ Valid(cls, configs'[k])
    BY <1>3, <1>5
  <2>2. PICK key : k = <<cls.name, key>> /\ Made(cls, key, configs'[k]) /\ Valid(cls, configs'[k])
    BY <2>1
  <2>3. Made(cls, key, configs[k])'
    BY <1>4, <2>2 DEF Made
  <2> QED
    BY <2>2, <2>3
<1> QED
  BY <1>1, <1>5 DEF CacheInv, AppInv

LEMMA CacheSame ==
    ASSUME CacheInv, app' = app, configs' = configs, DOMAIN instances' \subseteq DOMAIN instances,
           \A k \in DOMAIN answer' : k \in DOMAIN answer /\ answer'[k] \in app.overrides[k]
    PROVE  CacheInv'
BY DEF CacheInv, Made, Offered

\* What is made with an instance are instances of classes.
LEMMA CreatedAre ==
    ASSUME AppInv, phase # "refused", NEW cls \in app.classes, NEW key, NEW values,
           NEW k \in {<<cls.name, key>>} \union Dependees(cls, values)
    PROVE  \E c \in app.classes : \E x : k = <<c.name, x>> /\ (Proper(k) => Valid(c, Assemble(c, x)))
<1>1. \E c \in app.classes : \E x : k = <<c.name, x>>
  <2>1. CASE k = <<cls.name, key>>
    BY <2>1
  <2>2. CASE k \in Dependees(cls, values)
    <3>1. PICK name \in Dependencies(cls) : k = <<name, Captured(cls, values)[name].key>>
      BY <2>2 DEF Dependees
    <3>2. \E c \in app.classes : name = c.name
      BY AppFacts
    <3> QED
      BY <3>1, <3>2
  <2> QED
    BY <2>1, <2>2
<1>2. PICK c \in app.classes, x \in {k[2]} : k = <<c.name, x>>
  BY <1>1
<1>3. k[1] = c.name /\ k[2] = x /\ Class(c.name) = c
  BY <1>2, ClassIs
<1> QED
  BY <1>2, <1>3 DEF Proper

\* A call whose instance is found or made has a configuration in the cache.
LEMMA EnterCache ==
    ASSUME BaseInv, CacheInv, NEW t \in Tasks, Enter(t) \/ Got(t)
    PROVE  LET k == <<Top(t).cls.name, Top(t).key>>
           IN  /\ CacheInv' /\ k \in DOMAIN configs'
               /\ configs'[k] = Assemble(Top(t).cls, Top(t).key)
               /\ \A x \in DOMAIN configs : x \in DOMAIN configs' /\ configs'[x] = configs[x]
<1> DEFINE f == Top(t)
           k == <<f.cls.name, f.key>>
           created == Created(f.cls, f.key, bound[t])
<1>1. /\ stack[t] # <<>> /\ app' = app /\ answer' = answer
      /\ \A x \in created : Proper(x)
      /\ Cache(created) /\ instances' = Instantiated(f.cls, f.key, bound[t])
  BY DEF Enter, Got
<1>2. AppInv /\ phase # "refused" /\ f.cls \in app.classes
  BY <1>1, TopFacts DEF BaseInv, FrameOK
<1>3. \A x \in created : x \in {k} \union Dependees(f.cls, bound[t])
  BY DEF Created
<1>4. ASSUME NEW x \in created
      PROVE  \E c \in app.classes : \E y : x = <<c.name, y>> /\ Valid(c, Assemble(c, y))
  <2>1. PICK c \in app.classes : \E y : x = <<c.name, y>> /\ (Proper(x) => Valid(c, Assemble(c, y)))
    BY <1>2, <1>3, CreatedAre
  <2> QED
    BY <1>1, <2>1
<1>5. DOMAIN instances' = created \union DOMAIN instances
  BY <1>1 DEF Instantiated, Over
<1> HIDE DEF created
<1>6. CacheInv'
  BY <1>1, <1>2, <1>4, <1>5, CacheKept
<1>7. /\ DOMAIN configs' = created \union DOMAIN configs
      /\ \A x \in DOMAIN configs : configs'[x] = configs[x]
      /\ k \in created => configs'[k] = Assemble(f.cls, f.key)
  <2>1. \A i \in created : \E cls \in app.classes : \E key : i = <<cls.name, key>>
    BY <1>4
  <2>2. /\ DOMAIN configs' = created \union DOMAIN configs
        /\ \A x \in DOMAIN configs : configs'[x] = configs[x]
        /\ \A cls \in app.classes : \A key :
              <<cls.name, key>> \in created => configs'[<<cls.name, key>>] = Assemble(cls, key)
    BY <1>1, <1>2, <2>1, CacheIs
  <2> QED
    BY <1>2, <2>2
<1>8. k \in created \/ k \in DOMAIN configs
  BY DEF created, Created, CacheInv
<1>9. k \in DOMAIN configs => configs'[k] = Assemble(f.cls, f.key)
  BY <1>7 DEF Assemble, CacheKey
<1> QED
  BY <1>6, <1>7, <1>8, <1>9

LEMMA MisconfiguredCache ==
    ASSUME BaseInv, CacheInv, NEW t \in Tasks, Misconfigured(t)
    PROVE  CacheInv' /\ \A x \in DOMAIN configs : x \in DOMAIN configs' /\ configs'[x] = configs[x]
<1>1. PICK made \in SUBSET {k \in Dependees(Top(t).cls, bound[t]) : Proper(k)} :
         /\ instances' = WithDependees(made) /\ Cache(made)
  BY DEF Misconfigured
<1>2. stack[t] # <<>> /\ app' = app /\ answer' = answer
  BY DEF Misconfigured
<1>3. AppInv /\ phase # "refused" /\ Top(t).cls \in app.classes
  BY <1>2, TopFacts DEF BaseInv, FrameOK
<1>4. ASSUME NEW x \in made
      PROVE  \E c \in app.classes : \E y : x = <<c.name, y>> /\ Valid(c, Assemble(c, y))
  <2>1. x \in Dependees(Top(t).cls, bound[t]) /\ Proper(x)
    BY <1>1
  <2>2. PICK c \in app.classes : \E y : x = <<c.name, y>> /\ (Proper(x) => Valid(c, Assemble(c, y)))
    BY <1>3, <2>1, CreatedAre
  <2> QED
    BY <2>1, <2>2
<1>5. DOMAIN instances' = made \union DOMAIN instances
  BY <1>1 DEF WithDependees, Over
<1>6. \A i \in made : \E cls \in app.classes : \E key : i = <<cls.name, key>>
  BY <1>4
<1> QED
  BY <1>1, <1>2, <1>3, <1>4, <1>5, <1>6, CacheIs, CacheKept

LEMMA IntrospectCache ==
    ASSUME AppInv, CacheInv, NEW cls \in app.classes, NEW key, Introspect(cls, key)
    PROVE  CacheInv' /\ \A x \in DOMAIN configs : x \in DOMAIN configs' /\ configs'[x] = configs[x]
<1> DEFINE ks == {<<cls.name, key>>}
<1>1. /\ phase # "refused" /\ Cache(ks) /\ app' = app /\ answer' = answer /\ instances' = instances
      /\ Valid(cls, Assemble(cls, key))
  BY DEF Introspect
<1>2. \A i \in ks : \E c \in app.classes : \E x : i = <<c.name, x>> /\ Valid(c, Assemble(c, x))
  BY <1>1
<1>3. \A i \in ks : \E c \in app.classes : \E x : i = <<c.name, x>>
  BY <1>2
<1>4. DOMAIN instances' \subseteq DOMAIN instances \union ks
  BY <1>1
<1> HIDE DEF ks
<1> QED
  BY <1>1, <1>2, <1>3, <1>4, CacheIs, CacheKept

LEMMA StartCache ==
    ASSUME AppInv, CacheInv, Start
    PROVE  CacheInv'
<1> DEFINE ks == {<<cls.name, GlobalScope>> : cls \in Process}
<1>1. CASE \A cls \in Process : Valid(cls, Assemble(cls, GlobalScope))
  <2>1. /\ phase # "refused" /\ Cache(ks) /\ app' = app /\ answer' = answer
        /\ DOMAIN instances' = ks
    BY <1>1 DEF Start
  <2>2. \A i \in ks : \E c \in app.classes : \E x : i = <<c.name, x>> /\ Valid(c, Assemble(c, x))
    BY <1>1 DEF Process
  <2>3. DOMAIN instances' \subseteq DOMAIN instances \union ks
    BY <2>1
  <2> HIDE DEF ks
  <2> QED
    BY <2>1, <2>2, <2>3, CacheKept
<1>2. CASE ~\A cls \in Process : Valid(cls, Assemble(cls, GlobalScope))
  <2>1. app' = app /\ answer' = answer /\ configs' = configs /\ instances' = instances
    BY <1>2 DEF Start
  <2> QED
    BY <2>1, CacheSame DEF CacheInv
<1> QED
  BY <1>1, <1>2

\* A call that goes on as what it was goes on through the same links.
Continues(f, g) ==
    /\ f.cls = g.cls /\ f.method = g.method /\ f.key = g.key
    /\ f.chain = g.chain /\ f.stubbed = g.stubbed /\ (f.at = "resolving" <=> g.at = "resolving")

LEMMA ConfigKept ==
    ASSUME ConfigInv, CacheInv',
           \A k \in DOMAIN configs : k \in DOMAIN configs' /\ configs'[k] = configs[k],
           \A t \in Tasks : \A f \in Calls(t)' : FrameConfig(f)' \/ \E g \in Calls(t) : Continues(f, g)
    PROVE  ConfigInv'
<1>1. ASSUME NEW t \in Tasks, NEW f \in Calls(t)' PROVE FrameConfig(f)'
  <2>1. ASSUME NEW g \in Calls(t), Continues(f, g) PROVE FrameConfig(f)'
    <3>1. FrameConfig(g)
      BY DEF ConfigInv
    <3> QED
      BY <2>1, <3>1 DEF FrameConfig, Continues
  <2> QED
    BY <2>1
<1> QED
  BY <1>1 DEF ConfigInv

LEMMA Unchanging == ASSUME NEW f PROVE Continues(f, f)
BY DEF Continues

\* Four ways to change a stack that leave the configurations alone
LEMMA RunsKept ==
    ASSUME StackInv, NEW t \in Tasks, NEW f,
           \/ Push(t, f) /\ FrameConfig(f)'
           \/ stack[t] # <<>> /\ Update(t, f) /\ (FrameConfig(f)' \/ Continues(f, Top(t)))
           \/ stack[t] # <<>> /\ stack' = [stack EXCEPT ![t] = Front(@)]
    PROVE  \A u \in Tasks : \A h \in Calls(u)' : FrameConfig(h)' \/ \E g \in Calls(u) : Continues(h, g)
<1>1. ASSUME NEW u \in Tasks \ {t}
      PROVE  \A h \in Calls(u)' : FrameConfig(h)' \/ \E g \in Calls(u) : Continues(h, g)
  <2>1. stack'[u] = stack[u]
    BY PushIs, UpdateIs, PopIs
  <2>2. Calls(u)' = Calls(u)
    BY <2>1 DEF Calls
  <2> QED
    BY <2>2, Unchanging
<1>2. CASE Push(t, f) /\ FrameConfig(f)'
  <2>1. Calls(t)' = Calls(t) \union {f}
    BY <1>2, PushIs
  <2> QED
    BY <1>1, <1>2, <2>1, Unchanging
<1>3. CASE stack[t] # <<>> /\ Update(t, f) /\ (FrameConfig(f)' \/ Continues(f, Top(t)))
  <2>1. Calls(t)' \subseteq Calls(t) \union {f} /\ Top(t) \in Calls(t)
    BY <1>3, UpdateIs, TopFacts
  <2> QED
    BY <1>1, <1>3, <2>1, Unchanging
<1>4. CASE stack[t] # <<>> /\ stack' = [stack EXCEPT ![t] = Front(@)]
  <2>1. Calls(t)' \subseteq Calls(t)
    BY <1>4, PopIs
  <2> QED
    BY <1>1, <2>1, Unchanging
<1> QED
  BY <1>2, <1>3, <1>4

LEMMA InitConfig == Init => ConfigInv
<1> SUFFICES ASSUME Init PROVE ConfigInv
  OBVIOUS
<1>1. \A t \in Tasks : Calls(t) = {}
  BY DEF Init, Calls
<1>2. CacheInv
  BY DEF Init, CacheInv, Nothing
<1> QED
  BY <1>1, <1>2 DEF ConfigInv

LEMMA NextConfig == BaseInv /\ ConfigInv /\ [Next]_vars => ConfigInv'
<1> SUFFICES ASSUME BaseInv, ConfigInv, [Next]_vars PROVE ConfigInv'
  OBVIOUS
<1>0. AppInv /\ StackInv /\ CacheInv
  BY DEF BaseInv, ConfigInv
\* What leaves the cache and the calls alone
<1>1. ASSUME app' = app, configs' = configs, answer' = answer, instances' = instances,
             \A t \in Tasks : \A f \in Calls(t)' : FrameConfig(f)' \/ \E g \in Calls(t) : Continues(f, g)
      PROVE  ConfigInv'
  <2>1. CacheInv'
    BY <1>0, <1>1, CacheSame DEF CacheInv
  <2> QED
    BY <1>1, <2>1, ConfigKept
<1>2. ASSUME stack' = stack
      PROVE  \A t \in Tasks : \A f \in Calls(t)' : FrameConfig(f)' \/ \E g \in Calls(t) : Continues(f, g)
  BY <1>2, Unchanging DEF Calls
<1>3. CASE Start
  <2>1. \A t \in Tasks : stack'[t] = <<>>
    BY <1>0, <1>3 DEF Start, StackInv, TaskInv
  <2>2. \A t \in Tasks : Calls(t)' = {}
    BY <2>1 DEF Calls
  <2> QED
    BY <1>0, <1>3, <2>2, StartCache DEF ConfigInv
<1>4. ASSUME NEW k \in DOMAIN answer, NEW tree \in app.overrides[k], Tune(k, tree) PROVE ConfigInv'
  <2>1. app' = app /\ configs' = configs /\ instances' = instances /\ stack' = stack
    BY <1>4 DEF Tune, wiring
  <2>2. \A x \in DOMAIN answer' : x \in DOMAIN answer /\ answer'[x] \in app.overrides[x]
    BY <1>0, <1>4 DEF Tune, CacheInv
  <2>3. CacheInv'
    BY <1>0, <2>1, <2>2, CacheSame
  <2> QED
    BY <1>2, <2>1, <2>3, ConfigKept
<1>5. ASSUME NEW cls \in app.classes, NEW key, Introspect(cls, key) PROVE ConfigInv'
  <2>1. stack' = stack
    BY <1>5 DEF Introspect
  <2> QED
    BY <1>0, <1>2, <1>5, <2>1, IntrospectCache, ConfigKept
<1>6. ASSUME NEW k, Evict(k) PROVE ConfigInv'
  <2>1. /\ app' = app /\ configs' = configs /\ answer' = answer
        /\ DOMAIN instances' = DOMAIN instances \ {k}
    BY <1>6 DEF Evict
  <2>2. CacheInv'
    <3>1. \A x \in DOMAIN answer' : x \in DOMAIN answer /\ answer'[x] \in app.overrides[x]
      BY <1>0, <2>1 DEF CacheInv
    <3> QED
      BY <1>0, <2>1, <3>1, CacheSame
  <2>3. ASSUME NEW t \in Tasks, NEW f \in Calls(t)' PROVE \E g \in Calls(t) : Continues(f, g)
    <3>1. PICK n \in DOMAIN stack'[t] : f = stack'[t][n]
      BY DEF Calls
    <3>2. PICK g : g = stack[t][n]
      OBVIOUS
    <3>3. n \in DOMAIN stack[t]
      BY <1>0, <1>6, EvictIs
    <3>4. PICK deps : stack'[t][n] = [stack[t][n] EXCEPT !.deps = deps]
      BY <1>0, <1>6, <3>3, EvictIs
    <3>5. g \in Calls(t) /\ DOMAIN g = FrameFields
      BY <1>0, <3>2, <3>3 DEF Calls, StackInv, TaskInv, FrameOK
    <3>6. Continues(f, g)
      <4>1. f = [g EXCEPT !.deps = deps]
        BY <3>1, <3>2, <3>4
      <4> QED
        BY <3>5, <4>1 DEF Continues, FrameFields
    <3> QED
      BY <3>5, <3>6
  <2> QED
    BY <2>1, <2>2, <2>3, ConfigKept
<1>7. ASSUME NEW t \in Tasks, NEW cls \in app.classes, NEW method \in DOMAIN cls.methods \union {"get"},
             Resolve(t, cls, method)
      PROVE  ConfigInv'
  <2>1. PICK f : Push(t, f) /\ f.at = "resolving" /\ f.cls = cls /\ f.method = method
    <3> DEFINE values == [axis \in cls.scope |-> ScopeKey(app.axes, bound[t], cls.scope)[axis]]
               todo == {axis \in cls.scope : values[axis] \notin seen[axis] /\ axis \notin warned}
               f == [at |-> "resolving", cls |-> cls, method |-> method, key |-> ConfigKey(cls, bound[t]),
                     todo |-> todo, chain |-> <<>>, stubbed |-> FALSE, next |-> 1, used |-> {},
                     outer |-> endpoint[t], deps |-> Nothing]
    <3>1. Push(t, f)
      BY <1>7 DEF Resolve
    <3>2. f.at = "resolving" /\ f.cls = cls /\ f.method = method
      OBVIOUS
    <3> HIDE DEF f
    <3> QED
      BY <3>1, <3>2
  <2>2. FrameConfig(f)'
    BY <2>1 DEF FrameConfig
  <2>3. app' = app /\ configs' = configs /\ answer' = answer /\ instances' = instances
    BY <1>7 DEF Resolve, wiring
  <2> QED
    BY <1>0, <1>1, <2>1, <2>2, <2>3, RunsKept
<1>8. ASSUME NEW t \in Tasks, NEW f, stack[t] # <<>>, Update(t, f),
             app' = app, configs' = configs, answer' = answer, instances' = instances,
             \A x \in {"cls", "method", "key", "chain", "stubbed"} : f[x] = Top(t)[x],
             f.at = "resolving" <=> Top(t).at = "resolving"
      PROVE  ConfigInv'
  <2>1. Continues(f, Top(t))
    BY <1>8 DEF Continues
  <2> QED
    BY <1>0, <1>1, <1>8, <2>1, RunsKept
<1>9. ASSUME NEW t \in Tasks, NEW axis, Track(t, axis) PROVE ConfigInv'
  <2> DEFINE f == [Top(t) EXCEPT !.todo = @ \ {axis}]
  <2>1. /\ stack[t] # <<>> /\ Update(t, f)
        /\ app' = app /\ configs' = configs /\ answer' = answer /\ instances' = instances
    BY <1>9 DEF Track, wiring
  <2>2. /\ \A x \in {"cls", "method", "key", "chain", "stubbed"} : f[x] = Top(t)[x]
        /\ f.at = Top(t).at
    BY <1>0, <2>1, TopFacts DEF FrameOK, FrameFields
  <2> HIDE DEF f
  <2> QED
    BY <1>8, <2>1, <2>2
<1>10. ASSUME NEW t \in Tasks, Enter(t) PROVE ConfigInv'
  <2>0. PICK top : top = Top(t)
    OBVIOUS
  <2>1. PICK deps, tree :
          /\ tree = Assemble(top.cls, top.key).tree
          /\ Update(t, [top EXCEPT !.at = "chain", !.deps = deps,
                                   !.chain = ActiveLinks(tree, PolicyOf(top.cls, top.method)),
                                   !.stubbed = Stubbed(top.cls, tree)])
    BY <1>10, <2>0 DEF Enter
  <2> DEFINE f == [top EXCEPT !.at = "chain", !.deps = deps,
                              !.chain = ActiveLinks(tree, PolicyOf(top.cls, top.method)),
                              !.stubbed = Stubbed(top.cls, tree)]
             k == <<top.cls.name, top.key>>
  <2>2. stack[t] # <<>> /\ top.at = "resolving" /\ top.method # "get" /\ top \in Calls(t)
        /\ DOMAIN top = FrameFields
    BY <1>0, <1>10, <2>0, TopFacts DEF Enter, FrameOK
  <2>3. /\ f.at = "chain" /\ f.cls = top.cls /\ f.method = top.method /\ f.key = top.key
        /\ f.chain = ActiveLinks(tree, PolicyOf(top.cls, top.method)) /\ f.stubbed = Stubbed(top.cls, tree)
    BY <2>2 DEF FrameFields
  <2>4. Update(t, f)
    BY <2>1
  <2> HIDE DEF f
  <2>5. /\ CacheInv' /\ k \in DOMAIN configs' /\ configs'[k].tree = tree
        /\ \A x \in DOMAIN configs : x \in DOMAIN configs' /\ configs'[x] = configs[x]
    BY <1>0, <1>10, <2>0, <2>1, EnterCache
  <2>6. top.method \in DOMAIN top.cls.methods
    BY <2>2 DEF ConfigInv, FrameConfig
  <2>7. FrameConfig(f)'
    BY <2>3, <2>5, <2>6 DEF FrameConfig
  <2> QED
    BY <1>0, <2>2, <2>4, <2>5, <2>7, RunsKept, ConfigKept
<1>11. ASSUME NEW t \in Tasks, stack[t] # <<>>, stack' = [stack EXCEPT ![t] = Front(@)]
       PROVE  \A u \in Tasks : \A f \in Calls(u)' : FrameConfig(f)' \/ \E g \in Calls(u) : Continues(f, g)
  BY <1>0, <1>11, RunsKept
<1>12. ASSUME NEW t \in Tasks, Got(t) PROVE ConfigInv'
  <2>1. stack[t] # <<>> /\ stack' = [stack EXCEPT ![t] = Front(@)]
    BY <1>12 DEF Got
  <2>2. CacheInv' /\ \A x \in DOMAIN configs : x \in DOMAIN configs' /\ configs'[x] = configs[x]
    BY <1>0, <1>12, EnterCache
  <2> QED
    BY <1>11, <2>1, <2>2, ConfigKept
<1>13. ASSUME NEW t \in Tasks, Misconfigured(t) PROVE ConfigInv'
  <2>1. stack[t] # <<>> /\ stack' = [stack EXCEPT ![t] = Front(@)]
    BY <1>13 DEF Misconfigured
  <2>2. CacheInv' /\ \A x \in DOMAIN configs : x \in DOMAIN configs' /\ configs'[x] = configs[x]
    BY <1>0, <1>13, MisconfiguredCache
  <2> QED
    BY <1>11, <2>1, <2>2, ConfigKept
<1>14. ASSUME NEW t \in Tasks, NEW how, Ends(t, how) PROVE ConfigInv'
  <2>1. /\ stack[t] # <<>> /\ stack' = [stack EXCEPT ![t] = Front(@)]
        /\ app' = app /\ configs' = configs /\ answer' = answer /\ instances' = instances
    BY <1>14 DEF Ends, wiring
  <2> QED
    BY <1>1, <1>11, <2>1
<1>15. ASSUME NEW t \in Tasks, Descend(t) PROVE ConfigInv'
  <2>1. PICK used : Update(t, [Top(t) EXCEPT !.next = @ + 1, !.used = used])
    BY <1>15 DEF Descend
  <2> DEFINE f == [Top(t) EXCEPT !.next = @ + 1, !.used = used]
  <2>2. /\ stack[t] # <<>> /\ Update(t, f)
        /\ app' = app /\ configs' = configs /\ answer' = answer /\ instances' = instances
    BY <1>15, <2>1 DEF Descend
  <2>3. /\ \A x \in {"cls", "method", "key", "chain", "stubbed"} : f[x] = Top(t)[x]
        /\ f.at = Top(t).at
    BY <1>0, <2>2, TopFacts DEF FrameOK, FrameFields
  <2> HIDE DEF f
  <2> QED
    BY <1>8, <2>2, <2>3
<1>16. ASSUME NEW t \in Tasks, Base(t) PROVE ConfigInv'
  <2> DEFINE f == [Top(t) EXCEPT !.at = "base"]
  <2>1. /\ stack[t] # <<>> /\ Update(t, f) /\ Top(t).at # "resolving"
        /\ app' = app /\ configs' = configs /\ answer' = answer /\ instances' = instances
    BY <1>16 DEF Base, wiring
  <2>2. /\ \A x \in {"cls", "method", "key", "chain", "stubbed"} : f[x] = Top(t)[x]
        /\ f.at = "base"
    BY <1>0, <2>1, TopFacts DEF FrameOK, FrameFields
  <2> HIDE DEF f
  <2> QED
    BY <1>8, <2>1, <2>2
<1>17. ASSUME NEW t \in Tasks, Retry(t) PROVE ConfigInv'
  <2>1. PICK n : Update(t, [Top(t) EXCEPT !.at = "chain", !.next = n + 1])
    BY <1>17 DEF Retry
  <2> DEFINE f == [Top(t) EXCEPT !.at = "chain", !.next = n + 1]
  <2>2. /\ stack[t] # <<>> /\ Update(t, f) /\ Top(t).at # "resolving"
        /\ app' = app /\ configs' = configs /\ answer' = answer /\ instances' = instances
    BY <1>17, <2>1 DEF Retry, wiring
  <2>3. /\ \A x \in {"cls", "method", "key", "chain", "stubbed"} : f[x] = Top(t)[x]
        /\ f.at = "chain"
    BY <1>0, <2>2, TopFacts DEF FrameOK, FrameFields
  <2> HIDE DEF f
  <2> QED
    BY <1>8, <2>2, <2>3
<1>18. ASSUME NEW t \in Tasks, NEW name, Depend(t, name) PROVE ConfigInv'
  <2>1. /\ Push(t, Proxied(t, name))
        /\ app' = app /\ configs' = configs /\ answer' = answer /\ instances' = instances
    BY <1>18 DEF Depend, wiring
  <2>2. PICK f : f = Proxied(t, name)
    OBVIOUS
  <2>3. f.at = "base" /\ f.method = "any"
    BY <2>2 DEF Proxied
  <2>4. FrameConfig(f)'
    BY <2>3 DEF FrameConfig
  <2>5. Push(t, f)
    BY <2>1, <2>2
  <2> QED
    BY <1>0, <1>1, <2>1, <2>4, <2>5, RunsKept
<1>19. CASE UNCHANGED vars \/ \E t \in Tasks : Unbind(t) \/ \E values \in app.bindings : Bind(t, values)
  <2>1. app' = app /\ configs' = configs /\ answer' = answer /\ instances' = instances /\ stack' = stack
    BY <1>19 DEF Bind, Unbind, vars, wiring
  <2> QED
    BY <1>1, <1>2, <2>1
<1> QED
  BY <1>3, <1>4, <1>5, <1>6, <1>7, <1>9, <1>10, <1>12, <1>13, <1>14, <1>15, <1>16, <1>17, <1>18, <1>19
     DEF Next, Invoke, Get

LEMMA ConfigsInductive == Spec => [](BaseInv /\ ConfigInv)
BY InitBase, NextBase, InitConfig, NextConfig, PTL DEF Spec

LEMMA InFlightIs ==
    ASSUME BaseInv, ConfigInv, NEW f \in InFlight
    PROVE  f.cls \in app.classes /\ phase = "up" /\ FrameConfig(f) /\ f.at # "resolving"
<1>1. PICK t \in Tasks : f \in Calls(t) /\ f.at # "resolving"
  BY DEF InFlight
<1>2. PICK n \in DOMAIN stack[t] : f = stack[t][n]
  BY <1>1 DEF Calls
<1>3. FrameOK(f) /\ stack[t] # <<>>
  BY <1>2 DEF BaseInv, StackInv, TaskInv
<1> QED
  BY <1>1, <1>3 DEF FrameOK, BaseInv, StackInv, TaskInv, ConfigInv

\* "Layered field by field, each overriding the previous": deep_merge and Container.build,
\* for any sources, defaults and overrides.
THEOREM LayeredFieldByField == Spec => []FieldByField
<1>1. BaseInv /\ ConfigInv => FieldByField
  <2> SUFFICES ASSUME BaseInv, ConfigInv, NEW k \in DOMAIN configs, NEW cls, cls = Class(k[1])
               PROVE  /\ LastWins(Deployment(app, cls.name), Sources(app, cls.name))
                      /\ \E override \in Offered(k) :
                            LET layers == Append(Layers(app, cls), <<"slice override", override>>)
                            IN  LastWins(configs[k].tree, layers) /\ TracedToLast(configs[k], layers)
    BY DEF FieldByField
  <2>1. app.sources \in Seq(Range(app.sources))
    BY SlicesAssumption DEF BaseInv, AppInv
  <2>2. PICK s : s = Sources(app, cls.name)
    OBVIOUS
  <2>3. Len(s) \in Nat /\ DOMAIN s = 1..Len(s)
    <3>1. DOMAIN app.sources = 1..Len(app.sources) /\ Len(app.sources) \in Nat
      BY <2>1
    <3>2. s = [i \in 1..Len(app.sources) |-> <<app.sources[i][1], Section(app.sources[i][2], cls.name)>>]
      BY <2>2, <3>1 DEF Sources
    <3> QED
      BY <3>1, <3>2
  <2>4. LastWins(Deployment(app, cls.name), s)
    BY <2>2, <2>3, LastLayerWins DEF Deployment
  <2>5. PICK c \in app.classes, key \in {k[2]} : k = <<c.name, key>> /\ Made(c, key, configs[k])
    BY DEF ConfigInv, CacheInv
  <2>6. c = cls
    <3>1. Buildable(app)
      BY DEF ConfigInv, CacheInv
    <3> QED
      BY <2>5, <3>1, ClassOf
  <2>7. PICK o \in Offered(k) : configs[k] = Assembled(app, cls, o)
    BY <2>5, <2>6 DEF Made
  <2>8. /\ LastWins(configs[k].tree, Append(Layers(app, cls), <<"slice override", o>>))
        /\ TracedToLast(configs[k], Append(Layers(app, cls), <<"slice override", o>>))
    <3>0. PICK layers : layers = Append(Layers(app, cls), <<"slice override", o>>)
      OBVIOUS
    <3>1. Len(layers) \in Nat /\ DOMAIN layers = 1..Len(layers)
      <4> DEFINE a == <<"framework defaults", app.framework>>
                 b == <<"component defaults", cls.defaults>>
                 d == <<"deployment config", Deployment(app, cls.name)>>
                 e == <<"slice override", o>>
      <4>1. layers = Append(<<a, b, d>>, e)
        BY <3>0 DEF Layers
      <4> HIDE DEF a, b, d, e
      <4> QED
        BY <4>1
    <3>2. configs[k] = DeepMerge(layers)
      BY <2>7, <3>0 DEF Assembled
    <3>3. LastWins(DeepMerge(layers).tree, layers) /\ TracedToLast(DeepMerge(layers), layers)
      BY <3>1, LastLayerWins
    <3> QED
      BY <3>0, <3>2, <3>3
  <2> QED
    BY <2>2, <2>4, <2>7, <2>8
<1> QED
  BY <1>1, ConfigsInductive, PTL

\* A slice override tunes its own slice: the cache of _assemble is keyed by what it asks
\* the resolver for, so no call has a setting from what was answered for another.
THEOREM OverridesStayInTheirSlice == Spec => []SlicesTuneThemselves
<1>1. BaseInv /\ ConfigInv => SlicesTuneThemselves
  <2> SUFFICES ASSUME BaseInv, ConfigInv, NEW f \in InFlight,
                      NEW config, config = Assemble(f.cls, f.key),
                      NEW p \in DOMAIN config.from, config.from[p] = "slice override"
               PROVE  \E override \in Offered(<<f.cls.name, f.key>>) :
                         p \in DOMAIN override /\ override[p] = config.tree[p]
    BY DEF SlicesTuneThemselves
  <2>1. Made(f.cls, f.key, config)
    BY AssembleIs, InFlightIs DEF BaseInv, ConfigInv
  <2>2. PICK o \in Offered(<<f.cls.name, f.key>>) : config = Assembled(app, f.cls, o)
    BY <2>1 DEF Made
  <2>3. FromOverride(config, p)
    BY DEF FromOverride
  <2>4. Gives(o, config, p)
    BY <2>2, <2>3, TracedToOverride
  <2> QED
    BY <2>4 DEF Gives
<1> QED
  BY <1>1, ConfigsInductive, PTL

\* With a policy in the deployment alone, its policy section is the whole policy.
LEMMA SameChain ==
    ASSUME NEW tree, NEW section, NEW policy, NEW cls,
           \A q : Head(q) = "policy" =>
              (q \in DOMAIN tree <=> q \in DOMAIN section) /\ (q \in DOMAIN tree => tree[q] = section[q])
    PROVE  ActiveLinks(tree, policy) = ActiveLinks(section, policy) /\ Stubbed(cls, tree) = Stubbed(cls, section)
<1>1. \A link : Head(<<"policy", link>>) = "policy"
  OBVIOUS
<1>2. \A link : Configured(tree, link) = Configured(section, link)
  BY <1>1 DEF Configured, Scalar
<1>3. ConfigChain(tree) = ConfigChain(section)
  BY <1>1 DEF ConfigChain, Scalar
<1>4. Allowed(tree, policy) = Allowed(section, policy)
  BY <1>2 DEF Allowed
<1> QED
  BY <1>2, <1>3, <1>4 DEF ActiveLinks, Stubbed

LEMMA NothingBelow ==
    ASSUME NEW config, NEW layer, DOMAIN config.tree = {}
    PROVE  LET tree == Overlay(config, layer).tree
           IN  DOMAIN tree = DOMAIN layer[2] /\ \A q \in DOMAIN tree : tree[q] = layer[2][q]
BY DEF Overlay, Merge

LEMMA NothingAbove ==
    ASSUME NEW config, NEW layer, layer[2] = Nothing
    PROVE  LET tree == Overlay(config, layer).tree
           IN  DOMAIN tree = DOMAIN config.tree /\ \A q \in DOMAIN tree : tree[q] = config.tree[q]
BY DEF Overlay, Merge, Nothing, Scalar

LEMMA DeploymentAlone ==
    ASSUME NEW cls, app.framework = Nothing, cls.defaults = Nothing
    PROVE  LET tree == Assembled(app, cls, Nothing).tree
               deployment == Deployment(app, cls.name)
           IN  /\ DOMAIN tree = DOMAIN deployment
               /\ \A q \in DOMAIN tree : tree[q] = deployment[q]
<1> DEFINE one == Overlay(NoConfig, <<"framework defaults", app.framework>>)
           two == Overlay(one, <<"component defaults", cls.defaults>>)
           three == Overlay(two, <<"deployment config", Deployment(app, cls.name)>>)
           four == Overlay(three, <<"slice override", Nothing>>)
<1>0. Assembled(app, cls, Nothing) = four
  BY AssembledIs
<1>1. DOMAIN Nothing = {} /\ DOMAIN NoConfig.tree = {}
  BY DEF NoConfig, Nothing
<1>2. DOMAIN one.tree = {}
  BY <1>1, NothingBelow
<1> HIDE DEF one
<1>3. DOMAIN two.tree = {}
  BY <1>1, <1>2, NothingBelow
<1> HIDE DEF two
<1>4. /\ DOMAIN three.tree = DOMAIN Deployment(app, cls.name)
      /\ \A q \in DOMAIN three.tree : three.tree[q] = Deployment(app, cls.name)[q]
  <2>1. PICK layer : layer = <<"deployment config", Deployment(app, cls.name)>>
    OBVIOUS
  <2>2. three = Overlay(two, layer) /\ layer[2] = Deployment(app, cls.name)
    BY <2>1
  <2> HIDE DEF three
  <2> QED
    BY <1>3, <2>2, NothingBelow
<1> HIDE DEF three
<1>5. DOMAIN four.tree = DOMAIN three.tree /\ \A q \in DOMAIN four.tree : four.tree[q] = three.tree[q]
  BY NothingAbove
<1> HIDE DEF four
<1> QED
  BY <1>0, <1>4, <1>5

\* explain() tells what runs, whatever the resolver has been answering since, and so does
\* "describe" of a component that the resolver leaves alone, and the test harness of one
\* that only the deployment configures; a degradation that is configured is in force.
THEOREM ExplainTellsTheTruth == Spec => []ExplainIsTrue
<1>1. BaseInv /\ ConfigInv => ExplainIsTrue
  <2> SUFFICES ASSUME BaseInv, ConfigInv, NEW f \in InFlight, f.method # "any",
                      NEW tree, tree = Assemble(f.cls, f.key).tree,
                      NEW driven, driven = Drive(f.cls, f.method, Deployment(app, f.cls.name))
               PROVE  /\ Explanation(f.cls, f.method, f.key).chain = f.chain
                      /\ f.key = GlobalScope /\ <<f.cls.name, GlobalScope>> \notin DOMAIN app.overrides
                            => Described(f.cls)[f.method] = f.chain
                      /\ f.cls.defaults = Nothing /\ app.framework = Nothing /\ app.overrides = <<>>
                            => driven.chain = f.chain /\ driven.stubbed = f.stubbed
                      /\ Configured(tree, "degradation") => f.stubbed
    BY DEF ExplainIsTrue
  <2> DEFINE k == <<f.cls.name, f.key>>
  <2>1. f.cls \in app.classes /\ phase = "up" /\ FrameConfig(f) /\ f.at # "resolving"
    BY InFlightIs
  <2>2. /\ f.method \in DOMAIN f.cls.methods /\ k \in DOMAIN configs /\ tree = configs[k].tree
        /\ f.chain = ActiveLinks(tree, PolicyOf(f.cls, f.method)) /\ f.stubbed = Stubbed(f.cls, tree)
    BY <2>1 DEF FrameConfig, Assemble, CacheKey
  <2>3. Explanation(f.cls, f.method, f.key).chain = f.chain
    BY <2>2 DEF Explanation
  <2>4. ASSUME f.key = GlobalScope, <<f.cls.name, GlobalScope>> \notin DOMAIN app.overrides
        PROVE  Described(f.cls)[f.method] = f.chain
    <3>1. Offered(k) = {Nothing}
      BY <2>4 DEF Offered
    <3>2. Made(f.cls, f.key, Assemble(f.cls, f.key))
      BY <2>1, AssembleIs DEF BaseInv, ConfigInv
    <3>3. tree = Assembled(app, f.cls, Nothing).tree
      BY <3>1, <3>2 DEF Made
    <3>4. Override(f.cls.name, GlobalScope) = Nothing
      BY <2>4 DEF Override, ConfigInv, CacheInv
    <3> QED
      BY <2>2, <3>3, <3>4 DEF Described
  <2>5. Valid(f.cls, configs[k])
    <3>1. PICK c \in app.classes, key \in {k[2]} : k = <<c.name, key>> /\ Valid(c, configs[k])
      BY <2>2 DEF ConfigInv, CacheInv
    <3>2. c = f.cls
      BY <2>1, <3>1, ClassIs DEF BaseInv
    <3> QED
      BY <3>1, <3>2
  <2>6. Configured(tree, "degradation") => f.stubbed
    BY <2>2, <2>5 DEF Valid, DegradationFits, Stubbed
  <2>7. ASSUME f.cls.defaults = Nothing, app.framework = Nothing, app.overrides = <<>>
        PROVE  driven.chain = f.chain /\ driven.stubbed = f.stubbed
    <3>1. Offered(k) = {Nothing}
      BY <2>7 DEF Offered
    <3>2. Made(f.cls, f.key, Assemble(f.cls, f.key))
      BY <2>1, AssembleIs DEF BaseInv, ConfigInv
    <3>3. tree = Assembled(app, f.cls, Nothing).tree
      BY <3>1, <3>2 DEF Made
    <3>4. PICK deployment : deployment = Deployment(app, f.cls.name)
      OBVIOUS
    <3>5. DOMAIN tree = DOMAIN deployment /\ \A q \in DOMAIN tree : tree[q] = deployment[q]
      BY <2>7, <3>3, <3>4, DeploymentAlone
    <3>6. PICK section : section = [p \in {p \in DOMAIN deployment : Head(p) = "policy"} |-> deployment[p]]
      OBVIOUS
    <3>7. driven = Harness(f.cls, PolicyOf(f.cls, f.method), section)
      BY <3>4, <3>6 DEF Drive
    <3>8. \A q : Head(q) = "policy" =>
             (q \in DOMAIN tree <=> q \in DOMAIN section) /\ (q \in DOMAIN tree => tree[q] = section[q])
      BY <3>5, <3>6
    <3>9. /\ ActiveLinks(tree, PolicyOf(f.cls, f.method)) = ActiveLinks(section, PolicyOf(f.cls, f.method))
          /\ Stubbed(f.cls, tree) = Stubbed(f.cls, section)
      BY <3>8, SameChain
    <3> QED
      BY <2>2, <3>7, <3>9 DEF Harness
  <2> QED
    BY <2>3, <2>4, <2>6, <2>7
<1> QED
  BY <1>1, ConfigsInductive, PTL

=============================================================================
