-------------------------- MODULE StateStore_proofs --------------------------
(***************************************************************************)
(* Proofs about StateStore, for every bound on the entries and every set   *)
(* of tasks, keys and instances.                                           *)
(***************************************************************************)
EXTENDS StateStore, FiniteSetTheorems, TLAPS

-----------------------------------------------------------------------------
(* Sequences of entries, for any entries s *)

InstsIn(s) == {s[n].inst : n \in DOMAIN s}

Distinct(s) ==
    \A m, n \in DOMAIN s : s[m].key = s[n].key \/ s[m].inst = s[n].inst => m = n

\* What is left of a sequence when one position is taken out.
LEMMA RemoveAtEntries ==
    ASSUME NEW s \in Seq(Entry), NEW n \in DOMAIN s
    PROVE  /\ RemoveAt(s, n) \in Seq(Entry)
           /\ Len(RemoveAt(s, n)) = Len(s) - 1
           /\ \A m \in 1..(Len(s) - 1) :
                 RemoveAt(s, n)[m] = IF m < n THEN s[m] ELSE s[m + 1]
<1>1. n \in 1..Len(s) /\ Len(s) \in Nat
  OBVIOUS
<1> DEFINE front == SubSeq(s, 1, n - 1)
           back == SubSeq(s, n + 1, Len(s))
<1>2. front \in Seq(Entry) /\ Len(front) = n - 1 /\ \A i \in 1..(n - 1) : front[i] = s[i]
  BY <1>1
<1>3. /\ back \in Seq(Entry) /\ Len(back) = Len(s) - n
      /\ \A i \in 1..(Len(s) - n) : back[i] = s[i + n]
  BY <1>1
<1>4. RemoveAt(s, n) = front \o back
  BY DEF RemoveAt
<1> HIDE DEF front, back
<1> QED
  BY <1>1, <1>2, <1>3, <1>4

\* Taking an entry out keeps the others apart and takes its instance out.
LEMMA RemoveAtInsts ==
    ASSUME NEW s \in Seq(Entry), NEW n \in DOMAIN s, Distinct(s)
    PROVE  /\ Distinct(RemoveAt(s, n))
           /\ InstsIn(RemoveAt(s, n)) = InstsIn(s) \ {s[n].inst}
           /\ \A m \in DOMAIN RemoveAt(s, n) :
                 /\ RemoveAt(s, n)[m].key # s[n].key
                 /\ RemoveAt(s, n)[m].inst # s[n].inst
<1> DEFINE t == RemoveAt(s, n)
           at(m) == IF m < n THEN m ELSE m + 1
<1>1. /\ t \in Seq(Entry) /\ Len(t) = Len(s) - 1 /\ Len(s) \in Nat /\ n \in 1..Len(s)
      /\ DOMAIN s = 1..Len(s) /\ DOMAIN t = 1..(Len(s) - 1)
  BY RemoveAtEntries
<1>2. \A m \in DOMAIN t : at(m) \in DOMAIN s /\ at(m) # n /\ t[m] = s[at(m)]
  <2>1. \A m \in 1..(Len(s) - 1) : t[m] = IF m < n THEN s[m] ELSE s[m + 1]
    BY RemoveAtEntries
  <2> HIDE DEF t
  <2> QED
    BY <1>1, <2>1
<1>3. \A m, k \in DOMAIN t : at(m) = at(k) => m = k
  BY <1>1
<1>4. \A k \in DOMAIN s : k # n => \E m \in DOMAIN t : k = at(m)
  <2> SUFFICES ASSUME NEW k \in DOMAIN s, k # n
               PROVE  \E m \in DOMAIN t : k = at(m)
    OBVIOUS
  <2>1. CASE k < n
    BY <1>1, <2>1
  <2>2. CASE k > n
    <3>1. k - 1 \in DOMAIN t /\ k = at(k - 1)
      BY <1>1, <2>2
    <3> QED
      BY <3>1
  <2> QED
    BY <1>1, <2>1, <2>2
<1> HIDE DEF t, at
<1>5. Distinct(t)
  BY <1>2, <1>3 DEF Distinct
<1>6. \A m \in DOMAIN t : t[m].key # s[n].key /\ t[m].inst # s[n].inst
  BY <1>2 DEF Distinct
<1>7. InstsIn(t) = InstsIn(s) \ {s[n].inst}
  BY <1>2, <1>4, <1>6 DEF InstsIn
<1> QED
  BY <1>5, <1>6, <1>7 DEF t

\* Appending an entry with a key and an instance of its own.
LEMMA AppendInsts ==
    ASSUME NEW s \in Seq(Entry), NEW e \in Entry, Distinct(s),
           \A m \in DOMAIN s : s[m].key # e.key /\ s[m].inst # e.inst
    PROVE  /\ Append(s, e) \in Seq(Entry)
           /\ Len(Append(s, e)) = Len(s) + 1
           /\ Append(s, e)[Len(s) + 1] = e
           /\ Distinct(Append(s, e))
           /\ InstsIn(Append(s, e)) = InstsIn(s) \union {e.inst}
<1> DEFINE t == Append(s, e)
<1>1. /\ t \in Seq(Entry) /\ Len(t) = Len(s) + 1 /\ Len(s) \in Nat
      /\ DOMAIN s = 1..Len(s) /\ DOMAIN t = 1..(Len(s) + 1)
      /\ t[Len(s) + 1] = e
      /\ \A m \in DOMAIN s : m \in DOMAIN t /\ t[m] = s[m]
  OBVIOUS
<1> HIDE DEF t
<1>2. \A m \in DOMAIN t : m = Len(s) + 1 \/ m \in DOMAIN s
  BY <1>1
<1>3. Distinct(t)
  BY <1>1, <1>2 DEF Distinct
<1>4. InstsIn(t) = InstsIn(s) \union {e.inst}
  BY <1>1, <1>2 DEF InstsIn
<1> QED
  BY <1>1, <1>3, <1>4 DEF t

\* The LRU touch of a hit.
LEMMA TouchInsts ==
    ASSUME NEW s \in Seq(Entry), NEW n \in DOMAIN s, Distinct(s)
    PROVE  /\ Append(RemoveAt(s, n), s[n]) \in Seq(Entry)
           /\ Len(Append(RemoveAt(s, n), s[n])) = Len(s)
           /\ Distinct(Append(RemoveAt(s, n), s[n]))
           /\ InstsIn(Append(RemoveAt(s, n), s[n])) = InstsIn(s)
<1> DEFINE r == RemoveAt(s, n)
<1>1. /\ RemoveAt(s, n) \in Seq(Entry) /\ Len(RemoveAt(s, n)) = Len(s) - 1
      /\ s[n] \in Entry /\ Len(s) \in Nat
  BY RemoveAtEntries
<1>2. /\ Distinct(RemoveAt(s, n))
      /\ InstsIn(RemoveAt(s, n)) = InstsIn(s) \ {s[n].inst}
      /\ \A m \in DOMAIN RemoveAt(s, n) :
            /\ RemoveAt(s, n)[m].key # s[n].key
            /\ RemoveAt(s, n)[m].inst # s[n].inst
  BY RemoveAtInsts
<1>3. s[n].inst \in InstsIn(s)
  BY DEF InstsIn
<1> HIDE DEF r
<1>4. /\ Append(r, s[n]) \in Seq(Entry)
      /\ Len(Append(r, s[n])) = Len(r) + 1
      /\ Distinct(Append(r, s[n]))
      /\ InstsIn(Append(r, s[n])) = InstsIn(r) \union {s[n].inst}
  BY <1>1, <1>2, AppendInsts DEF r
<1>5. InstsIn(r) \union {s[n].inst} = InstsIn(s)
  BY <1>2, <1>3 DEF r
<1>6. Len(r) + 1 = Len(s)
  BY <1>1 DEF r
<1> QED
  BY <1>4, <1>5, <1>6 DEF r

\* The oldest entry goes, the newest one stays.
LEMMA TailInsts ==
    ASSUME NEW s \in Seq(Entry), Len(s) > 1, Distinct(s)
    PROVE  /\ Tail(s) \in Seq(Entry)
           /\ Len(Tail(s)) = Len(s) - 1
           /\ Tail(s)[Len(s) - 1] = s[Len(s)]
           /\ Distinct(Tail(s))
           /\ InstsIn(Tail(s)) = InstsIn(s) \ {Head(s).inst}
           /\ Head(s).inst \in InstsIn(s)
<1> DEFINE t == Tail(s)
<1>1. /\ t \in Seq(Entry) /\ Len(t) = Len(s) - 1 /\ Len(s) \in Nat
      /\ DOMAIN s = 1..Len(s) /\ DOMAIN t = 1..(Len(s) - 1)
      /\ \A m \in DOMAIN t : m + 1 \in DOMAIN s /\ t[m] = s[m + 1]
      /\ Head(s) = s[1] /\ 1 \in DOMAIN s
  OBVIOUS
<1> HIDE DEF t
<1>2. t[Len(s) - 1] = s[Len(s)]
  BY <1>1
<1>3. Distinct(t)
  BY <1>1 DEF Distinct
<1>4. \A k \in DOMAIN s : k = 1 \/ \E m \in DOMAIN t : t[m] = s[k]
  <2> SUFFICES ASSUME NEW k \in DOMAIN s, k # 1
               PROVE  \E m \in DOMAIN t : t[m] = s[k]
    OBVIOUS
  <2>1. k - 1 \in DOMAIN t /\ t[k - 1] = s[k]
    BY <1>1
  <2> QED
    BY <2>1
<1>5. \A m \in DOMAIN t : t[m].inst # s[1].inst
  BY <1>1 DEF Distinct
<1>6. InstsIn(t) = InstsIn(s) \ {s[1].inst}
  <2>1. \A m \in DOMAIN t : t[m].inst \in InstsIn(s) \ {s[1].inst}
    BY <1>1, <1>5 DEF InstsIn
  <2>2. \A k \in DOMAIN s : s[k].inst # s[1].inst => s[k].inst \in InstsIn(t)
    BY <1>4 DEF InstsIn
  <2> QED
    BY <2>1, <2>2 DEF InstsIn
<1>7. s[1].inst \in InstsIn(s)
  BY <1>1 DEF InstsIn
<1>8. Head(s) = s[1]
  BY <1>1
<1> QED
  BY <1>1, <1>2, <1>3, <1>6, <1>7, <1>8 DEF t

-----------------------------------------------------------------------------
(* The inductive invariant *)

\* What is in the store is live, once, and nobody has deferred its stop.
EntriesInv ==
    /\ Distinct(entries)
    /\ \A i \in Stored : life[i] = "live" /\ i \notin pendingStop

PendingInv == \A i \in pendingStop : life[i] = "live" /\ refs[i] > 0

ClosedInv == status = "closed" => entries = <<>> /\ pendingStop = {}

ClosingInv == \A i \in closing : status = "closed" /\ life[i] = "live"

\* The store overflows by one, for the owner of the lock that is about to trim.
BoundInv ==
    Len(entries) > MaxEntries =>
        /\ Len(entries) = MaxEntries + 1
        /\ lock \in Users /\ phase[lock] = "trimming" /\ victim[lock] = NoInst

\* Where a task is, and what that says of the instance it is about.
PhaseInv(u) ==
    /\ phase[u] \in {"idle", "stopping", "closing"} => held[u] = NoInst
    /\ phase[u] \in {"making", "trimming", "closing"} => lock = u
    /\ phase[u] \in {"idle", "making", "using"} => victim[u] = NoInst

MakingInv(u) ==
    phase[u] = "making" =>
        /\ status = "open" /\ held[u] \in Insts /\ wanted[u] \in Keys
        /\ life[held[u]] = "starting"
        /\ \A n \in DOMAIN entries : entries[n].key # wanted[u]

TrimmingInv(u) ==
    phase[u] = "trimming" =>
        status = "open" /\ entries # <<>> /\ held[u] = entries[Len(entries)].inst

UsingInv(u) ==
    phase[u] = "using" =>
        /\ held[u] \in Insts
        /\ status = "open" =>
              life[held[u]] = "live" /\ held[u] \in Stored \union pendingStop

\* One task stops an instance, and it is the one that has begun to.
VictimInv(u) ==
    victim[u] # NoInst =>
        /\ life[victim[u]] = "stopping"
        /\ \A v \in Users : v # u => victim[v] # victim[u]

UsersInv ==
    \A u \in Users :
        PhaseInv(u) /\ MakingInv(u) /\ TrimmingInv(u) /\ UsingInv(u) /\ VictimInv(u)

StoreInv ==
    TypeOK /\ EntriesInv /\ PendingInv /\ ClosedInv /\ ClosingInv /\ BoundInv

IInv == StoreInv /\ UsersInv /\ PinsAreOwned

-----------------------------------------------------------------------------
(* The tasks that have pinned an instance *)

LEMMA HoldersCount ==
    ASSUME NEW i
    PROVE  /\ IsFiniteSet(Holders(i))
           /\ Cardinality(Holders(i)) \in Nat
           /\ Cardinality(Holders(i)) = 0 <=> Holders(i) = {}
<1>1. Holders(i) \in SUBSET Users
  BY DEF Holders
<1>2. IsFiniteSet(Holders(i))
  BY <1>1, FS_Subset, StoreAssumption
<1> QED
  BY <1>2, FS_CardinalityType, FS_EmptySet

\* A free instance is one that nobody has pinned.
LEMMA FreeIsUnpinned ==
    ASSUME TypeOK, PinsAreOwned, status = "open", NEW i \in Insts, refs[i] = 0
    PROVE  \A u \in Users : ~(phase[u] = "using" /\ held[u] = i)
<1>1. Holders(i) = {}
  BY HoldersCount DEF PinsAreOwned
<1> QED
  BY <1>1 DEF Holders

\* Nobody gets or loses a pin in a step in which these stay as they are.
LEMMA SamePins ==
    ASSUME TypeOK, PinsAreOwned, refs' = refs, status' = status,
           \A u \in Users : \/ phase'[u] = phase[u] /\ held'[u] = held[u]
                            \/ phase[u] # "using" /\ phase'[u] # "using"
    PROVE  PinsAreOwned'
<1>1. \A i \in Insts : Holders(i)' = Holders(i)
  BY DEF Holders
<1> QED
  BY <1>1 DEF PinsAreOwned

LEMMA PinCounts ==
    ASSUME TypeOK, PinsAreOwned, status = "open", status' = status,
           NEW u \in Users, NEW i \in Insts, phase[u] # "using", Pin(u, i)
    PROVE  PinsAreOwned'
<1>1. Holders(i)' = Holders(i) \union {u} /\ u \notin Holders(i)
  BY DEF Holders, Pin, TypeOK
<1>2. Cardinality(Holders(i) \union {u}) = Cardinality(Holders(i)) + 1
  BY <1>1, HoldersCount, FS_AddElement
<1>3. \A j \in Insts \ {i} : Holders(j)' = Holders(j) /\ refs'[j] = refs[j]
  BY DEF Holders, Pin, TypeOK
<1>4. refs'[i] = refs[i] + 1
  BY DEF Pin, TypeOK
<1> QED
  BY <1>1, <1>2, <1>3, <1>4 DEF PinsAreOwned

LEMMA UnpinCounts ==
    ASSUME TypeOK, PinsAreOwned, status' = status,
           NEW u \in Users, NEW i \in Insts, phase[u] = "using", held[u] = i,
           refs' = Unpinned(i), NEW next \in Phases \ {"using"}, Letgo(u, next)
    PROVE  /\ PinsAreOwned'
           /\ status = "open" => refs[i] > 0
           /\ status = "open" /\ refs[i] <= 1 =>
                 \A v \in Users \ {u} : ~(phase[v] = "using" /\ held[v] = i)
<1>1. Holders(i)' = Holders(i) \ {u} /\ u \in Holders(i)
  <2>1. /\ phase'[u] # "using"
        /\ \A v \in Users \ {u} : phase'[v] = phase[v] /\ held'[v] = held[v]
    BY DEF Letgo, TypeOK
  <2>2. \A v \in Users : v \in Holders(i)' <=> v # u /\ v \in Holders(i)
    BY <2>1 DEF Holders
  <2>3. Holders(i)' \subseteq Users /\ Holders(i) \subseteq Users
    BY DEF Holders
  <2>4. u \in Holders(i)
    BY DEF Holders
  <2> QED
    BY <2>2, <2>3, <2>4
<1>2. Cardinality(Holders(i) \ {u}) = Cardinality(Holders(i)) - 1
  BY <1>1, HoldersCount, FS_RemoveElement
<1>3. Cardinality(Holders(i)) \in Nat /\ Cardinality(Holders(i)) # 0
  BY <1>1, HoldersCount
<1>4. \A j \in Insts \ {i} : Holders(j)' = Holders(j) /\ refs'[j] = refs[j]
  BY DEF Holders, Letgo, Unpinned, TypeOK
<1>5. refs'[i] = (IF refs[i] > 1 THEN refs[i] - 1 ELSE 0) /\ refs[i] \in Nat
  BY DEF Unpinned, TypeOK
<1>6. refs[i] = (IF status = "closed" THEN 0 ELSE Cardinality(Holders(i)))
  BY DEF PinsAreOwned
<1>7. refs'[i] = (IF status = "closed" THEN 0 ELSE Cardinality(Holders(i)'))
  <2> QED
    BY <1>1, <1>2, <1>3, <1>5, <1>6
<1>8. PinsAreOwned'
  <2> SUFFICES ASSUME NEW j \in Insts
               PROVE  refs'[j] = (IF status = "closed" THEN 0 ELSE Cardinality(Holders(j)'))
    BY DEF PinsAreOwned
  <2>1. CASE j = i
    BY <1>7, <2>1
  <2>2. CASE j # i
    BY <1>4, <2>2 DEF PinsAreOwned
  <2> QED
    BY <2>1, <2>2
<1>9. status = "open" => refs[i] > 0
  BY <1>3, <1>6
<1>10. ASSUME status = "open", refs[i] <= 1
       PROVE  \A v \in Users \ {u} : ~(phase[v] = "using" /\ held[v] = i)
  <2>1. Cardinality(Holders(i) \ {u}) = 0
    BY <1>2, <1>3, <1>6, <1>10
  <2>2. IsFiniteSet(Holders(i) \ {u})
    BY HoldersCount, FS_RemoveElement
  <2>3. Holders(i) \ {u} = {}
    BY <2>1, <2>2, FS_EmptySet
  <2> QED
    BY <2>3 DEF Holders
<1> QED
  BY <1>8, <1>9, <1>10

-----------------------------------------------------------------------------
(* Every action preserves the invariant *)

\* With the lock free nobody is between two steps of a locked section.
LEMMA NobodyInside ==
    ASSUME IInv, lock = NoUser
    PROVE  /\ \A v \in Users : phase[v] \notin {"making", "trimming", "closing"}
           /\ ~(Len(entries) > MaxEntries)
<1>1. \A v \in Users : phase[v] \notin {"making", "trimming", "closing"}
  BY StoreAssumption DEF IInv, UsersInv, PhaseInv
<1>2. ~(Len(entries) > MaxEntries)
  BY StoreAssumption DEF IInv, StoreInv, BoundInv, TypeOK
<1> QED
  BY <1>1, <1>2

\* Inside the locked section nobody else is.
LEMMA OneInside ==
    ASSUME IInv, NEW u \in Users, lock = u
    PROVE  \A v \in Users \ {u} : phase[v] \notin {"making", "trimming", "closing"}
BY DEF IInv, UsersInv, PhaseInv

LEMMA StoredIsInsts == Stored = InstsIn(entries) /\ Stored' = InstsIn(entries')
BY DEF Stored, InstsIn

LEMMA StoredType ==
    ASSUME entries \in Seq(Entry)
    PROVE  /\ \A n \in DOMAIN entries :
                 /\ entries[n] \in Entry /\ entries[n].key \in Keys
                 /\ entries[n].inst \in Insts /\ entries[n].inst \in Stored
           /\ Stored \subseteq Insts
<1>1. \A n \in DOMAIN entries : entries[n] \in Entry
  OBVIOUS
<1>2. \A e \in Entry : e.key \in Keys /\ e.inst \in Insts
  BY DEF Entry
<1> QED
  BY <1>1, <1>2 DEF Stored

LEMMA HitInv ==
    ASSUME IInv, NEW u \in Users, NEW n \in DOMAIN entries, Hit(u, n)
    PROVE  IInv'
<1>1. PICK i \in Insts : i = entries[n].inst /\ i \in Stored
  BY StoredType DEF IInv, StoreInv, TypeOK
<1>2. /\ phase[u] = "idle" /\ status = "open" /\ Pin(u, i)
      /\ UNCHANGED <<pendingStop, lock, status, closing, life, wanted, victim>>
      /\ lock = NoUser
  BY <1>1 DEF Hit
<1>3. /\ entries' \in Seq(Entry) /\ Len(entries') = Len(entries)
      /\ Distinct(entries') /\ Stored' = Stored
  BY TouchInsts, StoredIsInsts DEF Hit, IInv, StoreInv, TypeOK, EntriesInv
<1>4. TypeOK'
  BY <1>2, <1>3 DEF IInv, StoreInv, TypeOK, Pin, Phases
<1>5. EntriesInv' /\ ClosedInv' /\ ClosingInv'
  BY <1>2, <1>3 DEF IInv, StoreInv, EntriesInv, ClosedInv, ClosingInv
<1>6. PendingInv'
  BY <1>2 DEF IInv, StoreInv, PendingInv, Pin, TypeOK
<1>7. BoundInv'
  BY <1>2, <1>3, NobodyInside DEF BoundInv
<1>8. UsersInv'
  <2> SUFFICES ASSUME NEW v \in Users
               PROVE  (PhaseInv(v) /\ MakingInv(v) /\ TrimmingInv(v)
                         /\ UsingInv(v) /\ VictimInv(v))'
    BY DEF UsersInv
  <2>1. phase[v] \notin {"making", "trimming", "closing"}
    BY <1>2, NobodyInside
  <2>2. /\ phase'[v] = (IF v = u THEN "using" ELSE phase[v])
        /\ held'[v] = (IF v = u THEN i ELSE held[v])
    BY <1>2 DEF Pin, IInv, StoreInv, TypeOK
  <2>3. PhaseInv(v)' /\ MakingInv(v)' /\ TrimmingInv(v)'
    BY <1>2, <2>1, <2>2 DEF IInv, UsersInv, PhaseInv, MakingInv, TrimmingInv
  <2>4. life[i] = "live"
    BY <1>1 DEF IInv, StoreInv, EntriesInv
  <2>5. UsingInv(v)'
    BY <1>1, <1>2, <1>3, <2>2, <2>4 DEF IInv, UsersInv, UsingInv
  <2>6. VictimInv(v)'
    BY <1>2 DEF IInv, UsersInv, VictimInv
  <2> QED
    BY <2>3, <2>5, <2>6
<1>9. PinsAreOwned'
  BY <1>2, PinCounts DEF IInv, StoreInv
<1> QED
  BY <1>4, <1>5, <1>6, <1>7, <1>8, <1>9 DEF IInv, StoreInv

LEMMA MissInv ==
    ASSUME IInv, NEW u \in Users, NEW k \in Keys, NEW i \in Insts, Miss(u, k, i)
    PROVE  IInv'
<1>1. /\ phase[u] = "idle" /\ lock = NoUser /\ status = "open"
      /\ \A n \in DOMAIN entries : entries[n].key # k
      /\ life[i] \in {"none", "stopped"} /\ \A v \in Users : i # held[v] /\ i # victim[v]
      /\ lock' = u
      /\ life' = [life EXCEPT ![i] = "starting"]
      /\ phase' = [phase EXCEPT ![u] = "making"]
      /\ wanted' = [wanted EXCEPT ![u] = k]
      /\ held' = [held EXCEPT ![u] = i]
      /\ UNCHANGED <<entries, refs, pendingStop, status, closing, victim>>
  BY DEF Miss, Fresh, Lock, store
<1>2. TypeOK'
  BY <1>1 DEF IInv, StoreInv, TypeOK, Phases, Lives
<1>3. \A j \in Insts : life[j] \notin {"none", "stopped"} => life'[j] = life[j]
  BY <1>1 DEF IInv, StoreInv, TypeOK
<1>4. EntriesInv' /\ PendingInv' /\ ClosedInv' /\ ClosingInv'
  <2>1. Stored' = Stored /\ Stored \subseteq Insts
    BY <1>1, StoredType DEF Stored, IInv, StoreInv, TypeOK
  <2>2. EntriesInv'
    BY <1>1, <1>3, <2>1 DEF IInv, StoreInv, EntriesInv
  <2> QED
    BY <1>1, <1>3, <2>2 DEF IInv, StoreInv, PendingInv, ClosedInv, ClosingInv, TypeOK
<1>5. BoundInv'
  BY <1>1, NobodyInside DEF BoundInv
<1>6. UsersInv'
  <2> SUFFICES ASSUME NEW v \in Users
               PROVE  (PhaseInv(v) /\ MakingInv(v) /\ TrimmingInv(v)
                         /\ UsingInv(v) /\ VictimInv(v))'
    BY DEF UsersInv
  <2>1. phase[v] \notin {"making", "trimming", "closing"}
    BY <1>1, NobodyInside
  <2>2. /\ phase'[v] = (IF v = u THEN "making" ELSE phase[v])
        /\ held'[v] = (IF v = u THEN i ELSE held[v])
        /\ wanted'[v] = (IF v = u THEN k ELSE wanted[v])
        /\ life'[i] = "starting"
    BY <1>1 DEF IInv, StoreInv, TypeOK
  <2>3. PhaseInv(v)' /\ TrimmingInv(v)'
    BY <1>1, <2>1, <2>2 DEF IInv, UsersInv, PhaseInv, TrimmingInv
  <2>4. MakingInv(v)'
    BY <1>1, <2>1, <2>2 DEF MakingInv
  <2>5. UsingInv(v)'
    BY <1>1, <1>3, <2>2 DEF IInv, UsersInv, UsingInv, Stored
  <2>6. VictimInv(v)'
    BY <1>1, <1>3 DEF IInv, UsersInv, VictimInv, StoreInv, TypeOK
  <2> QED
    BY <2>3, <2>4, <2>5, <2>6
<1>7. PinsAreOwned'
  <2>1. \A v \in Users : \/ phase'[v] = phase[v] /\ held'[v] = held[v]
                         \/ phase[v] # "using" /\ phase'[v] # "using"
    BY <1>1 DEF IInv, StoreInv, TypeOK
  <2> QED
    BY <1>1, <2>1, SamePins DEF IInv, StoreInv
<1> QED
  BY <1>2, <1>4, <1>5, <1>6, <1>7 DEF IInv, StoreInv

\* What it takes out of the store is stopped, or put off while it is pinned.
LEMMA EvictPart ==
    ASSUME IInv, NEW u \in Users, NEW i \in Stored, victim[u] = NoInst,
           EvictInstance(u, i), Distinct(entries'), Stored' = Stored \ {i},
           UNCHANGED <<refs, status, closing, held>>,
           \A v \in Users : phase'[v] = "using" <=> phase[v] = "using"
    PROVE  /\ EntriesInv' /\ PendingInv' /\ ClosingInv' /\ PinsAreOwned'
           /\ pendingStop' \subseteq Insts
           /\ life' \in [Insts -> Lives]
           /\ victim' \in [Users -> Insts \union {NoInst}]
           /\ \A j \in Insts : life[j] = "starting" => life'[j] = "starting"
           /\ \A v \in Users : UsingInv(v)' /\ VictimInv(v)'
           /\ status = "open"
           /\ \A v \in Users \ {u} : victim'[v] = victim[v]
           /\ refs[i] > 0 => victim' = victim
<1>1. /\ i \in Insts /\ life[i] = "live" /\ i \notin pendingStop
      /\ status = "open" /\ closing = {}
  BY StoredType DEF IInv, StoreInv, TypeOK, EntriesInv, ClosedInv, ClosingInv, Stored
<1>2. PinsAreOwned'
  <2>1. \A j \in Insts : Holders(j)' = Holders(j)
    BY DEF Holders
  <2> QED
    BY <2>1 DEF IInv, PinsAreOwned
<1>3. CASE refs[i] > 0
  <2>1. pendingStop' = pendingStop \union {i} /\ life' = life /\ victim' = victim
    BY <1>3 DEF EvictInstance
  <2>2. EntriesInv'
    BY <2>1 DEF IInv, StoreInv, EntriesInv
  <2>3. PendingInv' /\ ClosingInv'
    BY <1>1, <1>3, <2>1 DEF IInv, StoreInv, PendingInv, ClosingInv
  <2>4. \A v \in Users : UsingInv(v)' /\ VictimInv(v)'
    BY <2>1 DEF IInv, UsersInv, UsingInv, VictimInv
  <2> QED
    BY <1>1, <1>2, <2>1, <2>2, <2>3, <2>4 DEF IInv, StoreInv, TypeOK
<1>4. CASE refs[i] = 0
  <2>1. /\ life' = [life EXCEPT ![i] = "stopping"]
        /\ victim' = [victim EXCEPT ![u] = i] /\ pendingStop' = pendingStop
        /\ ~(refs[i] > 0)
    BY <1>4 DEF EvictInstance
  <2>2. \A j \in Insts \ {i} : life'[j] = life[j]
    BY <2>1 DEF IInv, StoreInv, TypeOK
  <2>3. EntriesInv'
    BY <2>1, <2>2, StoredType DEF IInv, StoreInv, EntriesInv, TypeOK
  <2>4. PendingInv' /\ ClosingInv'
    BY <1>1, <2>1, <2>2 DEF IInv, StoreInv, PendingInv, ClosingInv, TypeOK
  <2>5. \A v \in Users : UsingInv(v)'
    <3>1. \A v \in Users : phase[v] = "using" => held[v] # i
      BY <1>1, <1>4, FreeIsUnpinned DEF IInv, StoreInv
    <3> QED
      BY <2>1, <2>2, <3>1 DEF IInv, UsersInv, UsingInv
  <2>6. \A v \in Users : VictimInv(v)'
    <3>1. \A v \in Users : victim[v] # i /\ victim'[v] = (IF v = u THEN i ELSE victim[v])
      BY <1>1, <2>1, StoreAssumption DEF IInv, UsersInv, VictimInv, StoreInv, TypeOK
    <3>2. life'[i] = "stopping"
      BY <1>1, <2>1 DEF IInv, StoreInv, TypeOK
    <3>3. \A v \in Users : victim[v] \in Insts \union {NoInst}
      BY DEF IInv, StoreInv, TypeOK
    <3> QED
      BY <2>2, <3>1, <3>2, <3>3 DEF IInv, UsersInv, VictimInv
  <2>7. \A v \in Users \ {u} : victim'[v] = victim[v]
    BY <2>1 DEF IInv, StoreInv, TypeOK
  <2>8. /\ life' \in [Insts -> Lives] /\ victim' \in [Users -> Insts \union {NoInst}]
        /\ \A j \in Insts : life[j] = "starting" => life'[j] = "starting"
    BY <1>1, <2>1, <2>2 DEF IInv, StoreInv, TypeOK, Lives
  <2> QED
    BY <1>1, <1>2, <2>1, <2>3, <2>4, <2>5, <2>6, <2>7, <2>8 DEF IInv, StoreInv, TypeOK
<1> QED
  BY <1>3, <1>4 DEF EvictInstance

LEMMA EvictInv ==
    ASSUME IInv, NEW u \in Users, NEW n \in DOMAIN entries, Evict(u, n)
    PROVE  IInv'
<1>1. PICK i \in Stored : i = entries[n].inst
  BY StoredType DEF IInv, StoreInv, TypeOK
<1>2. /\ phase[u] = "idle" /\ lock = NoUser /\ EvictInstance(u, i)
      /\ phase' = [phase EXCEPT ![u] = IF refs[i] > 0 THEN "idle" ELSE "stopping"]
      /\ UNCHANGED <<refs, status, closing, lock, wanted, held>>
  BY <1>1 DEF Evict
<1>3. /\ entries' \in Seq(Entry) /\ Len(entries') = Len(entries) - 1
      /\ Distinct(entries') /\ Stored' = Stored \ {i} /\ Len(entries) \in Nat
  BY <1>1, RemoveAtEntries, RemoveAtInsts, StoredIsInsts
     DEF Evict, IInv, StoreInv, TypeOK, EntriesInv
<1>4. /\ victim[u] = NoInst /\ held[u] = NoInst
      /\ \A v \in Users : phase'[v] = "using" <=> phase[v] = "using"
  BY <1>2 DEF IInv, StoreInv, TypeOK, UsersInv, PhaseInv
<1>5. /\ EntriesInv' /\ PendingInv' /\ ClosingInv' /\ PinsAreOwned'
      /\ pendingStop' \subseteq Insts
      /\ life' \in [Insts -> Lives]
      /\ victim' \in [Users -> Insts \union {NoInst}]
      /\ \A v \in Users : UsingInv(v)' /\ VictimInv(v)'
      /\ status = "open"
      /\ \A v \in Users \ {u} : victim'[v] = victim[v]
      /\ refs[i] > 0 => victim' = victim
  BY <1>2, <1>3, <1>4, EvictPart
<1>6. TypeOK' /\ ClosedInv'
  BY <1>2, <1>3, <1>5 DEF IInv, StoreInv, TypeOK, Phases, ClosedInv
<1>7. BoundInv'
  BY <1>2, <1>3, NobodyInside, StoreAssumption DEF BoundInv
<1>8. UsersInv'
  <2> SUFFICES ASSUME NEW v \in Users
               PROVE  (PhaseInv(v) /\ MakingInv(v) /\ TrimmingInv(v))'
    BY <1>5 DEF UsersInv
  <2>1. phase[v] \notin {"making", "trimming", "closing"}
    BY <1>2, NobodyInside
  <2>2. phase'[v] = (IF v = u THEN (IF refs[i] > 0 THEN "idle" ELSE "stopping") ELSE phase[v])
    BY <1>2 DEF IInv, StoreInv, TypeOK
  <2>3. MakingInv(v)' /\ TrimmingInv(v)'
    BY <2>1, <2>2 DEF MakingInv, TrimmingInv
  <2>4. PhaseInv(v)'
    BY <1>2, <1>4, <1>5, <2>1, <2>2 DEF IInv, UsersInv, PhaseInv
  <2> QED
    BY <2>3, <2>4
<1> QED
  BY <1>5, <1>6, <1>7, <1>8 DEF IInv, StoreInv

LEMMA TrimInv ==
    ASSUME IInv, NEW u \in Users, Trim(u)
    PROVE  IInv'
<1>1. /\ phase[u] = "trimming" /\ victim[u] = NoInst /\ Len(entries) > MaxEntries
      /\ UNCHANGED <<refs, status, closing, lock, phase, wanted, held>>
      /\ entries' = Tail(entries) /\ EvictInstance(u, Head(entries).inst)
      /\ Len(entries) = MaxEntries + 1 /\ lock = u
      /\ held[u] = entries[Len(entries)].inst
      /\ Len(entries) > 1
  BY StoreAssumption
     DEF Trim, Busy, Fits, IInv, StoreInv, TypeOK, BoundInv, UsersInv, PhaseInv, TrimmingInv
<1>2. PICK i \in Stored : i = Head(entries).inst
  BY <1>1, TailInsts, StoredIsInsts DEF IInv, StoreInv, TypeOK, EntriesInv
<1>3. /\ entries' \in Seq(Entry) /\ Len(entries') = Len(entries) - 1
      /\ Distinct(entries') /\ Stored' = Stored \ {i} /\ Len(entries) \in Nat
      /\ entries'[Len(entries')] = entries[Len(entries)]
  BY <1>1, <1>2, TailInsts, StoredIsInsts DEF IInv, StoreInv, TypeOK, EntriesInv
<1>4. /\ EntriesInv' /\ PendingInv' /\ ClosingInv' /\ PinsAreOwned'
      /\ pendingStop' \subseteq Insts
      /\ life' \in [Insts -> Lives]
      /\ victim' \in [Users -> Insts \union {NoInst}]
      /\ \A v \in Users : UsingInv(v)' /\ VictimInv(v)'
      /\ status = "open"
      /\ \A v \in Users \ {u} : victim'[v] = victim[v]
  BY <1>1, <1>2, <1>3, EvictPart
<1>5. TypeOK' /\ ClosedInv'
  BY <1>1, <1>3, <1>4 DEF IInv, StoreInv, TypeOK, ClosedInv
<1>6. BoundInv'
  BY <1>1, <1>3, StoreAssumption DEF BoundInv
<1>7. UsersInv'
  <2> SUFFICES ASSUME NEW v \in Users
               PROVE  (PhaseInv(v) /\ MakingInv(v) /\ TrimmingInv(v))'
    BY <1>4 DEF UsersInv
  <2>1. CASE v = u
    <3>1. MakingInv(v)' /\ PhaseInv(v)'
      BY <1>1, <2>1 DEF IInv, UsersInv, MakingInv, PhaseInv
    <3>2. entries' # <<>>
      <4>1. Len(entries') > 0
        BY <1>1, <1>3, StoreAssumption
      <4> QED
        BY <4>1
    <3>3. TrimmingInv(v)'
      BY <1>1, <1>3, <1>4, <2>1, <3>2 DEF TrimmingInv
    <3> QED
      BY <3>1, <3>3
  <2>2. CASE v # u
    <3>1. phase[v] \notin {"making", "trimming", "closing"}
      BY <1>1, <2>2, OneInside
    <3> QED
      BY <1>1, <1>4, <2>2, <3>1 DEF IInv, UsersInv, PhaseInv, MakingInv, TrimmingInv
  <2> QED
    BY <2>1, <2>2
<1> QED
  BY <1>4, <1>5, <1>6, <1>7 DEF IInv, StoreInv

LEMMA PublishInv ==
    ASSUME IInv, NEW u \in Users, Publish(u)
    PROVE  IInv'
<1>1. /\ phase[u] = "making" /\ lock = u /\ status = "open"
      /\ victim[u] = NoInst /\ wanted[u] \in Keys
      /\ life[held[u]] = "starting"
      /\ \A n \in DOMAIN entries : entries[n].key # wanted[u]
  BY DEF Publish, IInv, UsersInv, PhaseInv, MakingInv
<1>2. PICK i \in Insts, k \in Keys : i = held[u] /\ k = wanted[u]
  BY <1>1 DEF Publish, IInv, UsersInv, MakingInv
<1> DEFINE e == [key |-> k, inst |-> i]
<1>3. /\ entries' = Append(entries, e)
      /\ life' = [life EXCEPT ![i] = "live"]
      /\ phase' = [phase EXCEPT ![u] = "trimming"]
      /\ wanted' = [wanted EXCEPT ![u] = NoKey]
      /\ UNCHANGED <<refs, pendingStop, status, closing, lock, held, victim>>
  BY <1>2 DEF Publish
<1>4. i \notin Stored /\ i \notin pendingStop /\ i \notin closing
  BY <1>1, <1>2 DEF IInv, StoreInv, EntriesInv, PendingInv, ClosingInv
<1>5. /\ entries' \in Seq(Entry) /\ Len(entries') = Len(entries) + 1 /\ Len(entries) \in Nat
      /\ entries'[Len(entries) + 1] = e
      /\ Distinct(entries') /\ Stored' = Stored \union {i}
      /\ e.inst = i
  <2>1. e \in Entry
    BY DEF Entry
  <2>2. \A m \in DOMAIN entries : entries[m].key # e.key /\ entries[m].inst # e.inst
    BY <1>1, <1>2, <1>4 DEF Stored
  <2>3. entries \in Seq(Entry) /\ Distinct(entries)
    BY DEF IInv, StoreInv, TypeOK, EntriesInv
  <2>4. e.inst = i
    OBVIOUS
  <2> HIDE DEF e
  <2> QED
    BY <1>3, <2>1, <2>2, <2>3, <2>4, AppendInsts, StoredIsInsts
<1> HIDE DEF e
<1>6. TypeOK'
  BY <1>3, <1>5 DEF IInv, StoreInv, TypeOK, Phases, Lives
<1>7. life'[i] = "live" /\ \A j \in Insts \ {i} : life'[j] = life[j]
  BY <1>3 DEF IInv, StoreInv, TypeOK
<1>8. EntriesInv' /\ PendingInv' /\ ClosedInv' /\ ClosingInv'
  <2>1. EntriesInv'
    BY <1>3, <1>4, <1>5, <1>7, StoredType DEF IInv, StoreInv, EntriesInv, TypeOK
  <2> QED
    BY <1>1, <1>3, <1>7, <2>1 DEF IInv, StoreInv, PendingInv, ClosedInv, ClosingInv, TypeOK
<1>9. BoundInv'
  <2>1. ~(Len(entries) > MaxEntries)
    BY <1>1 DEF IInv, StoreInv, BoundInv
  <2>2. phase'[u] = "trimming"
    BY <1>3 DEF IInv, StoreInv, TypeOK
  <2> QED
    BY <1>1, <1>3, <1>5, <2>1, <2>2, StoreAssumption DEF BoundInv
<1>10. UsersInv'
  <2> SUFFICES ASSUME NEW v \in Users
               PROVE  (PhaseInv(v) /\ MakingInv(v) /\ TrimmingInv(v)
                         /\ UsingInv(v) /\ VictimInv(v))'
    BY DEF UsersInv
  <2>1. /\ phase'[v] = (IF v = u THEN "trimming" ELSE phase[v])
        /\ v # u => wanted'[v] = wanted[v]
    BY <1>3 DEF IInv, StoreInv, TypeOK
  <2>2. v # u => phase[v] \notin {"making", "trimming", "closing"}
    BY <1>1, OneInside
  <2>3. PhaseInv(v)' /\ MakingInv(v)'
    BY <1>1, <1>3, <2>1, <2>2 DEF IInv, UsersInv, PhaseInv, MakingInv
  <2>4. TrimmingInv(v)'
    <3>1. entries' # <<>>
      BY <1>5
    <3> QED
      BY <1>1, <1>2, <1>3, <1>5, <2>1, <2>2, <3>1 DEF TrimmingInv
  <2>5. UsingInv(v)'
    <3>1. phase[v] = "using" => held[v] \in Insts
      BY DEF IInv, UsersInv, UsingInv
    <3> QED
      BY <1>3, <1>5, <1>7, <2>1, <3>1 DEF IInv, UsersInv, UsingInv
  <2>6. VictimInv(v)'
    <3>1. victim[v] # i /\ victim[v] \in Insts \union {NoInst}
      BY <1>1, <1>2, StoreAssumption DEF IInv, StoreInv, TypeOK, UsersInv, VictimInv
    <3> QED
      BY <1>3, <1>7, <3>1 DEF IInv, UsersInv, VictimInv
  <2> QED
    BY <2>3, <2>4, <2>5, <2>6
<1>11. PinsAreOwned'
  <2>1. \A v \in Users : \/ phase'[v] = phase[v] /\ held'[v] = held[v]
                         \/ phase[v] # "using" /\ phase'[v] # "using"
    BY <1>1, <1>3 DEF IInv, StoreInv, TypeOK
  <2> QED
    BY <1>3, <2>1, SamePins DEF IInv, StoreInv
<1> QED
  BY <1>6, <1>8, <1>9, <1>10, <1>11 DEF IInv, StoreInv

LEMMA TrimmedInv ==
    ASSUME IInv, NEW u \in Users, Trimmed(u)
    PROVE  IInv'
<1>1. /\ phase[u] = "trimming" /\ victim[u] = NoInst /\ lock = u /\ status = "open"
      /\ ~(Len(entries) > MaxEntries)
      /\ lock' = NoUser
      /\ UNCHANGED <<entries, pendingStop, status, closing, life, wanted, victim>>
  BY StoreAssumption
     DEF Trimmed, Busy, Fits, IInv, StoreInv, TypeOK, UsersInv, PhaseInv, TrimmingInv
<1>2. PICK i \in Stored : i = held[u]
  <2>1. entries # <<>> /\ held[u] = entries[Len(entries)].inst
    BY <1>1 DEF IInv, UsersInv, TrimmingInv
  <2>2. Len(entries) \in DOMAIN entries
    BY <2>1 DEF IInv, StoreInv, TypeOK
  <2> QED
    BY <2>1, <2>2, StoredType DEF IInv, StoreInv, TypeOK
<1>3. i \in Insts /\ life[i] = "live" /\ Pin(u, i) /\ Stored' = Stored
  BY <1>1, <1>2, StoredType DEF Trimmed, IInv, StoreInv, TypeOK, EntriesInv, Stored
<1>4. TypeOK'
  BY <1>1, <1>3 DEF IInv, StoreInv, TypeOK, Pin, Phases
<1>5. EntriesInv' /\ ClosedInv' /\ ClosingInv'
  BY <1>1, <1>3 DEF IInv, StoreInv, EntriesInv, ClosedInv, ClosingInv
<1>6. PendingInv'
  BY <1>1, <1>3 DEF IInv, StoreInv, PendingInv, Pin, TypeOK
<1>7. BoundInv'
  BY <1>1 DEF BoundInv
<1>8. UsersInv'
  <2> SUFFICES ASSUME NEW v \in Users
               PROVE  (PhaseInv(v) /\ MakingInv(v) /\ TrimmingInv(v)
                         /\ UsingInv(v) /\ VictimInv(v))'
    BY DEF UsersInv
  <2>1. v # u => phase[v] \notin {"making", "trimming", "closing"}
    BY <1>1, OneInside
  <2>2. /\ phase'[v] = (IF v = u THEN "using" ELSE phase[v])
        /\ held'[v] = (IF v = u THEN i ELSE held[v])
    BY <1>3 DEF Pin, IInv, StoreInv, TypeOK
  <2>3. PhaseInv(v)' /\ MakingInv(v)' /\ TrimmingInv(v)'
    BY <1>1, <2>1, <2>2 DEF IInv, UsersInv, PhaseInv, MakingInv, TrimmingInv
  <2>4. UsingInv(v)'
    BY <1>1, <1>3, <2>2 DEF IInv, UsersInv, UsingInv
  <2>5. VictimInv(v)'
    BY <1>1 DEF IInv, UsersInv, VictimInv
  <2> QED
    BY <2>3, <2>4, <2>5
<1>9. PinsAreOwned'
  BY <1>1, <1>3, PinCounts DEF IInv, StoreInv
<1> QED
  BY <1>4, <1>5, <1>6, <1>7, <1>8, <1>9 DEF IInv, StoreInv

LEMMA StartFailsInv ==
    ASSUME IInv, NEW u \in Users, StartFails(u)
    PROVE  IInv'
<1>1. PICK i \in Insts : i = held[u] /\ life[i] = "starting"
  BY DEF StartFails, IInv, UsersInv, MakingInv
<1>2. /\ phase[u] = "making" /\ victim[u] = NoInst /\ lock = u /\ lock' = NoUser
      /\ life' = [life EXCEPT ![i] = "stopped"]
      /\ phase' = [phase EXCEPT ![u] = "idle"]
      /\ wanted' = [wanted EXCEPT ![u] = NoKey]
      /\ held' = [held EXCEPT ![u] = NoInst]
      /\ UNCHANGED <<entries, refs, pendingStop, status, closing, victim>>
  BY <1>1 DEF StartFails, store, IInv, UsersInv, PhaseInv
<1>3. TypeOK'
  BY <1>2 DEF IInv, StoreInv, TypeOK, Phases, Lives
<1>4. \A j \in Insts : life[j] # "starting" => life'[j] = life[j]
  BY <1>1, <1>2 DEF IInv, StoreInv, TypeOK
<1>5. EntriesInv' /\ PendingInv' /\ ClosedInv' /\ ClosingInv'
  <2>1. Stored' = Stored /\ Stored \subseteq Insts
    BY <1>2, StoredType DEF Stored, IInv, StoreInv, TypeOK
  <2>2. EntriesInv'
    BY <1>2, <1>4, <2>1 DEF IInv, StoreInv, EntriesInv
  <2> QED
    BY <1>2, <1>4, <2>2 DEF IInv, StoreInv, PendingInv, ClosedInv, ClosingInv, TypeOK
<1>6. BoundInv'
  <2>1. ~(Len(entries) > MaxEntries)
    BY <1>2 DEF IInv, StoreInv, BoundInv
  <2> QED
    BY <1>2, <2>1 DEF BoundInv
<1>7. UsersInv'
  <2> SUFFICES ASSUME NEW v \in Users
               PROVE  (PhaseInv(v) /\ MakingInv(v) /\ TrimmingInv(v)
                         /\ UsingInv(v) /\ VictimInv(v))'
    BY DEF UsersInv
  <2>1. v # u => phase[v] \notin {"making", "trimming", "closing"}
    BY <1>2, OneInside
  <2>2. /\ phase'[v] = (IF v = u THEN "idle" ELSE phase[v])
        /\ held'[v] = (IF v = u THEN NoInst ELSE held[v])
    BY <1>2 DEF IInv, StoreInv, TypeOK
  <2>3. PhaseInv(v)' /\ MakingInv(v)' /\ TrimmingInv(v)'
    BY <1>2, <2>1, <2>2 DEF IInv, UsersInv, PhaseInv, MakingInv, TrimmingInv
  <2>4. UsingInv(v)'
    BY <1>2, <1>4, <2>2 DEF IInv, UsersInv, UsingInv, Stored
  <2>5. VictimInv(v)'
    BY <1>2, <1>4 DEF IInv, UsersInv, VictimInv, StoreInv, TypeOK
  <2> QED
    BY <2>3, <2>4, <2>5
<1>8. PinsAreOwned'
  <2>1. \A v \in Users : \/ phase'[v] = phase[v] /\ held'[v] = held[v]
                         \/ phase[v] # "using" /\ phase'[v] # "using"
    BY <1>2 DEF IInv, StoreInv, TypeOK
  <2> QED
    BY <1>2, <2>1, SamePins DEF IInv, StoreInv
<1> QED
  BY <1>3, <1>5, <1>6, <1>7, <1>8 DEF IInv, StoreInv

LEMMA ReleasePinInv ==
    ASSUME IInv, NEW u \in Users, ReleasePin(u)
    PROVE  IInv'
<1>1. PICK i \in Insts : i = held[u]
  BY DEF ReleasePin, IInv, UsersInv, UsingInv
<1>2. /\ phase[u] = "using" /\ victim[u] = NoInst
      /\ refs[i] > 1 \/ i \notin pendingStop
      /\ refs' = Unpinned(i) /\ Letgo(u, "idle")
      /\ UNCHANGED <<entries, pendingStop, status, closing, lock, life, wanted, victim>>
  BY <1>1 DEF ReleasePin, IInv, UsersInv, PhaseInv
<1>3. TypeOK'
  <2>1. refs' \in [Insts -> Nat]
    BY <1>2 DEF Unpinned, IInv, StoreInv, TypeOK
  <2> QED
    BY <1>2, <2>1 DEF IInv, StoreInv, TypeOK, Letgo, Phases
<1>4. EntriesInv' /\ ClosedInv' /\ ClosingInv' /\ Stored' = Stored
  BY <1>2 DEF IInv, StoreInv, EntriesInv, ClosedInv, ClosingInv, Stored
<1>5. PendingInv'
  <2>1. \A j \in Insts : refs'[j] > 0 \/ refs[j] = 0 \/ (j = i /\ refs[j] = 1)
    BY <1>2 DEF Unpinned, IInv, StoreInv, TypeOK
  <2> QED
    BY <1>2, <2>1 DEF IInv, StoreInv, PendingInv, TypeOK
<1>6. /\ phase' = [phase EXCEPT ![u] = "idle"]
      /\ held' = [held EXCEPT ![u] = NoInst]
  BY <1>2 DEF Letgo
<1>7. BoundInv'
  BY <1>2, <1>6 DEF IInv, StoreInv, BoundInv, TypeOK
<1>8. UsersInv'
  <2> SUFFICES ASSUME NEW v \in Users
               PROVE  (PhaseInv(v) /\ MakingInv(v) /\ TrimmingInv(v)
                         /\ UsingInv(v) /\ VictimInv(v))'
    BY DEF UsersInv
  <2>1. /\ phase'[v] = (IF v = u THEN "idle" ELSE phase[v])
        /\ held'[v] = (IF v = u THEN NoInst ELSE held[v])
    BY <1>6 DEF IInv, StoreInv, TypeOK
  <2>2. PhaseInv(v)' /\ MakingInv(v)' /\ TrimmingInv(v)'
    BY <1>2, <2>1 DEF IInv, UsersInv, PhaseInv, MakingInv, TrimmingInv
  <2>3. UsingInv(v)' /\ VictimInv(v)'
    BY <1>2, <1>4, <2>1 DEF IInv, UsersInv, UsingInv, VictimInv
  <2> QED
    BY <2>2, <2>3
<1>9. PinsAreOwned'
  BY <1>1, <1>2, UnpinCounts DEF IInv, StoreInv, Phases
<1> QED
  BY <1>3, <1>4, <1>5, <1>7, <1>8, <1>9 DEF IInv, StoreInv

LEMMA ReleaseDeferredInv ==
    ASSUME IInv, NEW u \in Users, ReleaseDeferred(u)
    PROVE  IInv'
<1>1. PICK i \in Insts : i = held[u]
  BY DEF ReleaseDeferred, IInv, UsersInv, UsingInv
<1>2. /\ phase[u] = "using" /\ victim[u] = NoInst
      /\ refs[i] <= 1 /\ i \in pendingStop
      /\ refs' = Unpinned(i) /\ Letgo(u, "stopping")
      /\ pendingStop' = pendingStop \ {i}
      /\ life' = [life EXCEPT ![i] = "stopping"]
      /\ victim' = [victim EXCEPT ![u] = i]
      /\ phase' = [phase EXCEPT ![u] = "stopping"]
      /\ held' = [held EXCEPT ![u] = NoInst]
      /\ UNCHANGED <<entries, status, closing, lock, wanted>>
  BY <1>1 DEF ReleaseDeferred, Letgo, IInv, UsersInv, PhaseInv
<1>3. /\ status = "open" /\ life[i] = "live" /\ i \notin Stored /\ closing = {}
      /\ Stored' = Stored
  BY <1>2 DEF IInv, StoreInv, TypeOK, PendingInv, ClosedInv, ClosingInv, EntriesInv, Stored
<1>4. /\ PinsAreOwned'
      /\ \A v \in Users \ {u} : ~(phase[v] = "using" /\ held[v] = i)
  BY <1>1, <1>2, <1>3, UnpinCounts DEF IInv, StoreInv, Phases
<1>5. TypeOK'
  <2>1. refs' \in [Insts -> Nat]
    BY <1>2 DEF Unpinned, IInv, StoreInv, TypeOK
  <2> QED
    BY <1>2, <2>1 DEF IInv, StoreInv, TypeOK, Phases, Lives
<1>6. \A j \in Insts \ {i} : life'[j] = life[j] /\ refs'[j] = refs[j]
  BY <1>2 DEF Unpinned, IInv, StoreInv, TypeOK
<1>7. EntriesInv'
  BY <1>2, <1>3, <1>6, StoredType DEF IInv, StoreInv, EntriesInv, TypeOK
<1>8. PendingInv' /\ ClosedInv' /\ ClosingInv'
  BY <1>2, <1>3, <1>6 DEF IInv, StoreInv, PendingInv, ClosedInv, ClosingInv, TypeOK
<1>9. BoundInv'
  BY <1>2 DEF IInv, StoreInv, BoundInv, TypeOK
<1>10. UsersInv'
  <2> SUFFICES ASSUME NEW v \in Users
               PROVE  (PhaseInv(v) /\ MakingInv(v) /\ TrimmingInv(v)
                         /\ UsingInv(v) /\ VictimInv(v))'
    BY DEF UsersInv
  <2>1. /\ phase'[v] = (IF v = u THEN "stopping" ELSE phase[v])
        /\ held'[v] = (IF v = u THEN NoInst ELSE held[v])
        /\ victim'[v] = (IF v = u THEN i ELSE victim[v])
        /\ life'[i] = "stopping"
    BY <1>2 DEF IInv, StoreInv, TypeOK
  <2>2. PhaseInv(v)' /\ TrimmingInv(v)'
    BY <1>2, <2>1 DEF IInv, UsersInv, PhaseInv, TrimmingInv
  <2>3. MakingInv(v)'
    BY <1>2, <1>3, <1>6, <2>1 DEF IInv, UsersInv, MakingInv
  <2>4. UsingInv(v)'
    BY <1>2, <1>3, <1>4, <1>6, <2>1 DEF IInv, UsersInv, UsingInv
  <2>5. VictimInv(v)'
    <3>1. \A w \in Users : /\ victim[w] # i /\ victim[w] \in Insts \union {NoInst}
                           /\ victim'[w] = (IF w = u THEN i ELSE victim[w])
      BY <1>2, <1>3, StoreAssumption DEF IInv, StoreInv, TypeOK, UsersInv, VictimInv
    <3> QED
      BY <1>6, <2>1, <3>1 DEF IInv, UsersInv, VictimInv
  <2> QED
    BY <2>2, <2>3, <2>4, <2>5
<1> QED
  BY <1>4, <1>5, <1>7, <1>8, <1>9, <1>10 DEF IInv, StoreInv

LEMMA CloseInv ==
    ASSUME IInv, NEW u \in Users, Close(u)
    PROVE  IInv'
<1>1. /\ phase[u] = "idle" /\ lock = NoUser /\ lock' = u
      /\ status' = "closed" /\ closing' = Stored \union pendingStop
      /\ entries' = <<>> /\ pendingStop' = {}
      /\ refs' = [i \in Insts |-> 0]
      /\ phase' = [phase EXCEPT ![u] = "closing"]
      /\ UNCHANGED <<life, wanted, held, victim>>
  BY DEF Close, Taken, Lock
<1>2. TypeOK'
  <2>1. closing' \subseteq Insts
    BY <1>1, StoredType DEF IInv, StoreInv, TypeOK
  <2> QED
    BY <1>1, <2>1 DEF IInv, StoreInv, TypeOK, Phases
<1>3. EntriesInv'
  BY <1>1 DEF EntriesInv, Distinct, Stored
<1>4. PendingInv' /\ ClosedInv' /\ ClosingInv'
  BY <1>1 DEF IInv, StoreInv, EntriesInv, PendingInv, ClosedInv, ClosingInv
<1>5. BoundInv'
  BY <1>1, StoreAssumption DEF BoundInv
<1>6. UsersInv'
  <2> SUFFICES ASSUME NEW v \in Users
               PROVE  (PhaseInv(v) /\ MakingInv(v) /\ TrimmingInv(v)
                         /\ UsingInv(v) /\ VictimInv(v))'
    BY DEF UsersInv
  <2>1. phase[v] \notin {"making", "trimming", "closing"}
    BY <1>1, NobodyInside
  <2>2. phase'[v] = (IF v = u THEN "closing" ELSE phase[v])
    BY <1>1 DEF IInv, StoreInv, TypeOK
  <2>3. PhaseInv(v)' /\ MakingInv(v)' /\ TrimmingInv(v)'
    BY <1>1, <2>1, <2>2 DEF IInv, UsersInv, PhaseInv, MakingInv, TrimmingInv
  <2>4. UsingInv(v)' /\ VictimInv(v)'
    BY <1>1, <2>2 DEF IInv, UsersInv, UsingInv, VictimInv
  <2> QED
    BY <2>3, <2>4
<1>7. PinsAreOwned'
  BY <1>1 DEF PinsAreOwned
<1> QED
  BY <1>2, <1>3, <1>4, <1>5, <1>6, <1>7 DEF IInv, StoreInv

LEMMA CloseNextInv ==
    ASSUME IInv, NEW u \in Users, NEW i \in closing, CloseNext(u, i)
    PROVE  IInv'
<1>1. /\ phase[u] = "closing" /\ victim[u] = NoInst
      /\ closing' = closing \ {i}
      /\ life' = [life EXCEPT ![i] = "stopping"]
      /\ victim' = [victim EXCEPT ![u] = i]
      /\ UNCHANGED <<entries, refs, pendingStop, status, lock, phase, wanted, held>>
  BY DEF CloseNext, Busy
<1>2. /\ i \in Insts /\ life[i] = "live" /\ status = "closed"
      /\ entries = <<>> /\ pendingStop = {} /\ Stored = {} /\ Stored' = {}
  BY <1>1 DEF IInv, StoreInv, TypeOK, ClosingInv, ClosedInv, Stored
<1>3. TypeOK'
  BY <1>1, <1>2 DEF IInv, StoreInv, TypeOK, Lives
<1>4. \A j \in Insts \ {i} : life'[j] = life[j]
  BY <1>1 DEF IInv, StoreInv, TypeOK
<1>5. EntriesInv' /\ PendingInv' /\ ClosedInv' /\ ClosingInv'
  <2>1. EntriesInv'
    BY <1>1, <1>2 DEF EntriesInv, IInv, StoreInv
  <2>2. ClosingInv'
    BY <1>1, <1>2, <1>4 DEF ClosingInv, IInv, StoreInv, TypeOK
  <2> QED
    BY <1>1, <1>2, <2>1, <2>2 DEF PendingInv, ClosedInv
<1>6. BoundInv'
  BY <1>1, <1>2, StoreAssumption DEF BoundInv
<1>7. UsersInv'
  <2> SUFFICES ASSUME NEW v \in Users
               PROVE  (PhaseInv(v) /\ MakingInv(v) /\ TrimmingInv(v)
                         /\ UsingInv(v) /\ VictimInv(v))'
    BY DEF UsersInv
  <2>1. /\ victim'[v] = (IF v = u THEN i ELSE victim[v])
        /\ life'[i] = "stopping"
    BY <1>1, <1>2 DEF IInv, StoreInv, TypeOK
  <2>2. PhaseInv(v)' /\ MakingInv(v)' /\ TrimmingInv(v)'
    BY <1>1, <1>2, <2>1 DEF IInv, UsersInv, PhaseInv, MakingInv, TrimmingInv
  <2>3. UsingInv(v)'
    BY <1>1, <1>2 DEF IInv, UsersInv, UsingInv
  <2>4. VictimInv(v)'
    <3>1. \A w \in Users : /\ victim[w] # i /\ victim[w] \in Insts \union {NoInst}
                           /\ victim'[w] = (IF w = u THEN i ELSE victim[w])
      BY <1>1, <1>2, StoreAssumption DEF IInv, StoreInv, TypeOK, UsersInv, VictimInv
    <3> QED
      BY <1>4, <2>1, <3>1 DEF IInv, UsersInv, VictimInv
  <2> QED
    BY <2>2, <2>3, <2>4
<1>8. PinsAreOwned'
  BY <1>1, SamePins DEF IInv, StoreInv
<1> QED
  BY <1>3, <1>5, <1>6, <1>7, <1>8 DEF IInv, StoreInv

LEMMA CloseDoneInv ==
    ASSUME IInv, NEW u \in Users, CloseDone(u)
    PROVE  IInv'
<1>1. /\ phase[u] = "closing" /\ victim[u] = NoInst /\ lock = u /\ held[u] = NoInst
      /\ phase' = [phase EXCEPT ![u] = "idle"] /\ lock' = NoUser
      /\ UNCHANGED <<entries, refs, pendingStop, status, closing, life, wanted, held, victim>>
      /\ Stored' = Stored
  BY DEF CloseDone, Busy, store, Stored, IInv, UsersInv, PhaseInv
<1>2. TypeOK'
  BY <1>1 DEF IInv, StoreInv, TypeOK, Phases
<1>3. EntriesInv' /\ PendingInv' /\ ClosedInv' /\ ClosingInv'
  BY <1>1 DEF IInv, StoreInv, EntriesInv, PendingInv, ClosedInv, ClosingInv
<1>4. BoundInv'
  BY <1>1 DEF IInv, StoreInv, BoundInv
<1>5. UsersInv'
  <2> SUFFICES ASSUME NEW v \in Users
               PROVE  (PhaseInv(v) /\ MakingInv(v) /\ TrimmingInv(v)
                         /\ UsingInv(v) /\ VictimInv(v))'
    BY DEF UsersInv
  <2>1. v # u => phase[v] \notin {"making", "trimming", "closing"}
    BY <1>1, OneInside
  <2>2. phase'[v] = (IF v = u THEN "idle" ELSE phase[v])
    BY <1>1 DEF IInv, StoreInv, TypeOK
  <2>3. PhaseInv(v)' /\ MakingInv(v)' /\ TrimmingInv(v)'
    BY <1>1, <2>1, <2>2 DEF IInv, UsersInv, PhaseInv, MakingInv, TrimmingInv
  <2>4. UsingInv(v)' /\ VictimInv(v)'
    BY <1>1, <2>2 DEF IInv, UsersInv, UsingInv, VictimInv
  <2> QED
    BY <2>3, <2>4
<1>6. PinsAreOwned'
  <2>1. \A v \in Users : \/ phase'[v] = phase[v] /\ held'[v] = held[v]
                         \/ phase[v] # "using" /\ phase'[v] # "using"
    BY <1>1 DEF IInv, StoreInv, TypeOK
  <2> QED
    BY <1>1, <2>1, SamePins DEF IInv, StoreInv
<1> QED
  BY <1>2, <1>3, <1>4, <1>5, <1>6 DEF IInv, StoreInv

\* The end of a stop() is the end of its victim, and of nothing else.
LEMMA StoppedPart ==
    ASSUME IInv, NEW u \in Users, Busy(u), Stopped(u)
    PROVE  /\ victim[u] \in Insts /\ life[victim[u]] = "stopping"
           /\ phase[u] \in {"trimming", "stopping", "closing"}
           /\ life' \in [Insts -> Lives] /\ victim' \in [Users -> Insts \union {NoInst}]
           /\ life'[victim[u]] = "stopped"
           /\ \A j \in Insts : j # victim[u] => life'[j] = life[j]
           /\ \A v \in Users : /\ VictimInv(v)'
                               /\ victim'[v] = (IF v = u THEN NoInst ELSE victim[v])
<1>1. PICK i \in Insts : i = victim[u] /\ life[i] = "stopping"
  BY DEF Busy, IInv, StoreInv, TypeOK, UsersInv, VictimInv
<1>2. life' = [life EXCEPT ![i] = "stopped"] /\ victim' = [victim EXCEPT ![u] = NoInst]
  BY <1>1 DEF Stopped
<1>3. /\ life' \in [Insts -> Lives] /\ victim' \in [Users -> Insts \union {NoInst}]
      /\ life'[i] = "stopped"
      /\ \A j \in Insts \ {i} : life'[j] = life[j]
      /\ \A v \in Users : victim'[v] = (IF v = u THEN NoInst ELSE victim[v])
  BY <1>2 DEF IInv, StoreInv, TypeOK, Lives
<1>4. phase[u] \in {"trimming", "stopping", "closing"}
  BY DEF Busy, IInv, StoreInv, TypeOK, Phases, UsersInv, PhaseInv
<1>5. \A v \in Users \ {u} : victim[v] # i
  BY <1>1 DEF Busy, IInv, UsersInv, VictimInv
<1>6. \A v \in Users : VictimInv(v)'
  <2>1. \A v \in Users : victim[v] \in Insts \union {NoInst}
    BY DEF IInv, StoreInv, TypeOK
  <2> QED
    BY <1>3, <1>5, <2>1 DEF IInv, UsersInv, VictimInv
<1> QED
  BY <1>1, <1>3, <1>4, <1>6

LEMMA StopEndsInv ==
    ASSUME IInv, NEW u \in Users, StopEnds(u)
    PROVE  IInv'
<1>1. /\ Busy(u) /\ Stopped(u) /\ victim[u] # NoInst
      /\ phase' = [phase EXCEPT ![u] = IF @ = "stopping" THEN "idle" ELSE @]
      /\ UNCHANGED <<entries, refs, pendingStop, status, closing, lock, wanted, held>>
      /\ Stored' = Stored /\ Stored \subseteq Insts
  BY StoredType DEF StopEnds, Busy, store, Stored, IInv, StoreInv, TypeOK
<1>2. /\ phase[u] \in {"trimming", "stopping", "closing"}
      /\ life' \in [Insts -> Lives] /\ victim' \in [Users -> Insts \union {NoInst}]
      /\ \A j \in Insts : life[j] # "stopping" => life'[j] = life[j]
      /\ \A v \in Users : VictimInv(v)' /\ victim'[v] = (IF v = u THEN NoInst ELSE victim[v])
  BY <1>1, StoppedPart
<1>3. TypeOK'
  BY <1>1, <1>2 DEF IInv, StoreInv, TypeOK, Phases
<1>4. EntriesInv' /\ PendingInv' /\ ClosedInv' /\ ClosingInv'
  <2>1. EntriesInv'
    BY <1>1, <1>2 DEF IInv, StoreInv, EntriesInv
  <2> QED
    BY <1>1, <1>2, <2>1 DEF IInv, StoreInv, TypeOK, PendingInv, ClosedInv, ClosingInv
<1>5. BoundInv'
  BY <1>1, <1>2 DEF IInv, StoreInv, TypeOK, BoundInv
<1>6. UsersInv'
  <2> SUFFICES ASSUME NEW v \in Users
               PROVE  (PhaseInv(v) /\ MakingInv(v) /\ TrimmingInv(v) /\ UsingInv(v))'
    BY <1>2 DEF UsersInv
  <2>1. phase'[v] = (IF v = u /\ phase[u] = "stopping" THEN "idle" ELSE phase[v])
    BY <1>1 DEF IInv, StoreInv, TypeOK
  <2>2. PhaseInv(v)' /\ TrimmingInv(v)'
    BY <1>1, <1>2, <2>1 DEF IInv, UsersInv, PhaseInv, TrimmingInv
  <2>3. MakingInv(v)'
    BY <1>1, <1>2, <2>1 DEF IInv, UsersInv, MakingInv
  <2>4. UsingInv(v)'
    BY <1>1, <1>2, <2>1 DEF IInv, UsersInv, UsingInv
  <2> QED
    BY <2>2, <2>3, <2>4
<1>7. PinsAreOwned'
  <2>1. \A v \in Users : \/ phase'[v] = phase[v] /\ held'[v] = held[v]
                         \/ phase[v] # "using" /\ phase'[v] # "using"
    BY <1>1, <1>2 DEF IInv, StoreInv, TypeOK
  <2> QED
    BY <1>1, <2>1, SamePins DEF IInv, StoreInv
<1> QED
  BY <1>3, <1>4, <1>5, <1>6, <1>7 DEF IInv, StoreInv

LEMMA StopFailsInv ==
    ASSUME IInv, NEW u \in Users, StopFails(u)
    PROVE  IInv'
<1>1. /\ Busy(u) /\ Stopped(u) /\ victim[u] # NoInst
      /\ closing' \subseteq closing
      /\ lock' = (IF lock = u THEN NoUser ELSE lock)
      /\ phase' = [phase EXCEPT ![u] = "idle"]
      /\ held' = [held EXCEPT ![u] = NoInst]
      /\ UNCHANGED <<entries, refs, pendingStop, status, wanted>>
      /\ Stored' = Stored /\ Stored \subseteq Insts
  BY StoredType DEF StopFails, Letgo, Busy, Stored, IInv, StoreInv, TypeOK
<1>2. /\ phase[u] \in {"trimming", "stopping", "closing"}
      /\ life' \in [Insts -> Lives] /\ victim' \in [Users -> Insts \union {NoInst}]
      /\ \A j \in Insts : life[j] # "stopping" => life'[j] = life[j]
      /\ \A v \in Users : VictimInv(v)' /\ victim'[v] = (IF v = u THEN NoInst ELSE victim[v])
  BY <1>1, StoppedPart
<1>3. TypeOK'
  BY <1>1, <1>2 DEF IInv, StoreInv, TypeOK, Phases
<1>4. EntriesInv' /\ PendingInv' /\ ClosedInv' /\ ClosingInv'
  <2>1. EntriesInv'
    BY <1>1, <1>2 DEF IInv, StoreInv, EntriesInv
  <2> QED
    BY <1>1, <1>2, <2>1 DEF IInv, StoreInv, TypeOK, PendingInv, ClosedInv, ClosingInv
<1>5. BoundInv'
  BY <1>1, <1>2 DEF IInv, StoreInv, TypeOK, BoundInv
<1>6. UsersInv'
  <2> SUFFICES ASSUME NEW v \in Users
               PROVE  (PhaseInv(v) /\ MakingInv(v) /\ TrimmingInv(v) /\ UsingInv(v))'
    BY <1>2 DEF UsersInv
  <2>1. /\ phase'[v] = (IF v = u THEN "idle" ELSE phase[v])
        /\ held'[v] = (IF v = u THEN NoInst ELSE held[v])
    BY <1>1 DEF IInv, StoreInv, TypeOK
  <2>2. PhaseInv(v)' /\ TrimmingInv(v)'
    BY <1>1, <1>2, <2>1 DEF IInv, UsersInv, PhaseInv, TrimmingInv
  <2>3. MakingInv(v)'
    BY <1>1, <1>2, <2>1 DEF IInv, UsersInv, MakingInv
  <2>4. UsingInv(v)'
    BY <1>1, <1>2, <2>1 DEF IInv, UsersInv, UsingInv
  <2> QED
    BY <2>2, <2>3, <2>4
<1>7. PinsAreOwned'
  <2>1. \A v \in Users : \/ phase'[v] = phase[v] /\ held'[v] = held[v]
                         \/ phase[v] # "using" /\ phase'[v] # "using"
    BY <1>1, <1>2 DEF IInv, StoreInv, TypeOK
  <2> QED
    BY <1>1, <2>1, SamePins DEF IInv, StoreInv
<1> QED
  BY <1>3, <1>4, <1>5, <1>6, <1>7 DEF IInv, StoreInv

LEMMA InitInv == Init => IInv
<1> SUFFICES ASSUME Init PROVE IInv
  OBVIOUS
<1>1. TypeOK
  BY DEF Init, TypeOK, Lives, Phases
<1>2. EntriesInv /\ PendingInv /\ ClosedInv /\ ClosingInv /\ BoundInv
  BY StoreAssumption
     DEF Init, EntriesInv, Distinct, Stored, PendingInv, ClosedInv, ClosingInv, BoundInv
<1>3. UsersInv
  BY DEF Init, UsersInv, PhaseInv, MakingInv, TrimmingInv, UsingInv, VictimInv
<1>4. PinsAreOwned
  <2>1. \A i \in Insts : Holders(i) = {}
    BY DEF Init, Holders
  <2> QED
    BY <2>1, FS_EmptySet DEF Init, PinsAreOwned
<1> QED
  BY <1>1, <1>2, <1>3, <1>4 DEF IInv, StoreInv

LEMMA StutterInv == IInv /\ UNCHANGED vars => IInv'
<1> SUFFICES ASSUME IInv, UNCHANGED vars PROVE IInv'
  OBVIOUS
<1>1. /\ UNCHANGED <<entries, refs, pendingStop, status, closing>>
      /\ UNCHANGED <<lock, life, phase, wanted, held, victim>> /\ Stored' = Stored
  BY DEF vars, store, tasks, Stored
<1>2. StoreInv'
  BY <1>1 DEF IInv, StoreInv, TypeOK, EntriesInv, PendingInv, ClosedInv, ClosingInv, BoundInv
<1>3. UsersInv'
  BY <1>1 DEF IInv, UsersInv, PhaseInv, MakingInv, TrimmingInv, UsingInv, VictimInv
<1>4. PinsAreOwned'
  BY <1>1, SamePins DEF IInv, StoreInv
<1> QED
  BY <1>2, <1>3, <1>4 DEF IInv

\* The disjuncts of the next-state relation, to split on.
LEMMA Steps ==
    ASSUME Next
    PROVE  \/ \E u \in Users : \/ Refuse(u) \/ StartFails(u) \/ StopFails(u)
                               \/ Publish(u) \/ Trim(u) \/ Trimmed(u)
                               \/ ReleasePin(u) \/ ReleaseDeferred(u)
                               \/ Close(u) \/ CloseDone(u) \/ StopEnds(u)
           \/ \E u \in Users, n \in DOMAIN entries : Hit(u, n) \/ Evict(u, n)
           \/ \E u \in Users, k \in Keys, i \in Insts : Miss(u, k, i)
           \/ \E u \in Users, i \in closing : CloseNext(u, i)
BY DEF Next, Proceed, Release

LEMMA NextInv == IInv /\ [Next]_vars => IInv'
<1> SUFFICES ASSUME IInv, [Next]_vars PROVE IInv'
  OBVIOUS
<1>1. CASE UNCHANGED vars
  BY <1>1, StutterInv
<1>2. CASE Next
  <2>1. ASSUME NEW u \in Users, Refuse(u) PROVE IInv'
    BY <2>1, StutterInv DEF Refuse
  <2>2. ASSUME NEW u \in Users, \/ StartFails(u) \/ StopFails(u)
                                \/ Publish(u) \/ Trim(u) \/ Trimmed(u)
        PROVE  IInv'
    BY <2>2, StartFailsInv, StopFailsInv, PublishInv, TrimInv, TrimmedInv
  <2>3. ASSUME NEW u \in Users, \/ ReleasePin(u) \/ ReleaseDeferred(u)
                                \/ Close(u) \/ CloseDone(u) \/ StopEnds(u)
        PROVE  IInv'
    BY <2>3, ReleasePinInv, ReleaseDeferredInv, CloseInv, CloseDoneInv, StopEndsInv
  <2>4. ASSUME NEW u \in Users, NEW n \in DOMAIN entries, Hit(u, n) \/ Evict(u, n)
        PROVE  IInv'
    BY <2>4, HitInv, EvictInv
  <2>5. ASSUME NEW u \in Users, NEW k \in Keys, NEW i \in Insts, Miss(u, k, i)
        PROVE  IInv'
    BY <2>5, MissInv
  <2>6. ASSUME NEW u \in Users, NEW i \in closing, CloseNext(u, i)
        PROVE  IInv'
    BY <2>6, CloseNextInv
  <2> QED
    BY <1>2, <2>1, <2>2, <2>3, <2>4, <2>5, <2>6, Steps
<1> QED
  BY <1>1, <1>2

LEMMA Inductive == Spec => []IInv
BY InitInv, NextInv, PTL DEF Spec

-----------------------------------------------------------------------------
(* The theorems *)

\* Type correctness of the store.
THEOREM TypeCorrect == Spec => []TypeOK
<1>1. IInv => TypeOK
  BY DEF IInv, StoreInv
<1> QED
  BY <1>1, Inductive, PTL

\* No eviction, by the LRU or by request, stops an instance under a call that
\* has pinned it (_evict_instance and release), while the store is open.
THEOREM CallsRunOnLive == Spec => []PinnedRuns
<1>1. IInv => PinnedRuns
  BY DEF IInv, UsersInv, UsingInv, PinnedRuns
<1> QED
  BY <1>1, Inductive, PTL

\* The counts of _refs are the numbers of calls between acquire and release.
THEOREM PinsCorrect == Spec => []PinsAreOwned
<1>1. IInv => PinsAreOwned
  BY DEF IInv
<1> QED
  BY <1>1, Inductive, PTL

\* get_or_create never has two instances of one key in the store.
THEOREM OnePerKey == Spec => []OneInstancePerKey
<1>1. IInv => OneInstancePerKey
  BY DEF IInv, StoreInv, EntriesInv, Distinct, OneInstancePerKey
<1> QED
  BY <1>1, Inductive, PTL

\* The store holds max_entries instances, and one more only while a task that
\* owns its lock is about to trim it.
THEOREM BoundKept == Spec => []Bounded
<1>1. IInv => Bounded
  <2> SUFFICES ASSUME IInv PROVE Bounded
    OBVIOUS
  <2>1. Len(entries) \in Nat /\ MaxEntries \in Nat /\ NoUser \notin Users
    BY StoreAssumption DEF IInv, StoreInv, TypeOK
  <2>2. CASE Len(entries) > MaxEntries
    BY <2>1, <2>2 DEF IInv, StoreInv, BoundInv, Bounded
  <2>3. CASE ~(Len(entries) > MaxEntries)
    BY <2>1, <2>3 DEF Bounded
  <2> QED
    BY <2>2, <2>3
<1> QED
  BY <1>1, Inductive, PTL

\* A stop() begins on a live instance only, so never twice on one.
THEOREM StopsOnLive == Spec => StopsOnce
<1> DEFINE A == \A i \in Insts : life'[i] = "stopping" => life[i] \in {"live", "stopping"}
<1>1. IInv /\ [Next]_vars => [A]_vars
  <2> SUFFICES ASSUME IInv, Next PROVE A
    OBVIOUS
  <2>0. life \in [Insts -> Lives] /\ entries \in Seq(Entry)
    BY DEF IInv, StoreInv, TypeOK
  <2>1. ASSUME NEW i \in Stored PROVE life[i] = "live"
    BY DEF IInv, StoreInv, EntriesInv
  <2>2. ASSUME NEW u \in Users,
               Refuse(u) \/ Trimmed(u) \/ ReleasePin(u) \/ Close(u) \/ CloseDone(u)
        PROVE  A
    BY <2>2 DEF Refuse, vars, Trimmed, ReleasePin, Close, CloseDone
  <2>3. ASSUME NEW u \in Users, StartFails(u) \/ Publish(u) PROVE A
    BY <2>0, <2>3 DEF StartFails, Publish
  <2>4. ASSUME NEW u \in Users, StopEnds(u) \/ StopFails(u) PROVE A
    BY <2>0, <2>4 DEF StopEnds, StopFails, Stopped
  <2>5. ASSUME NEW u \in Users, NEW i \in Stored, EvictInstance(u, i) PROVE A
    BY <2>0, <2>1, <2>5 DEF EvictInstance
  <2>6. ASSUME NEW u \in Users, Trim(u) PROVE A
    <3>1. Len(entries) > 1
      BY <2>0, <2>6, StoreAssumption DEF Trim, Fits
    <3>2. Head(entries).inst \in Stored
      BY <2>0, <3>1, TailInsts, StoredIsInsts DEF IInv, StoreInv, EntriesInv
    <3> QED
      BY <2>5, <2>6, <3>2 DEF Trim
  <2>7. ASSUME NEW u \in Users, ReleaseDeferred(u) PROVE A
    BY <2>0, <2>7 DEF ReleaseDeferred, IInv, StoreInv, PendingInv
  <2>8. ASSUME NEW u \in Users, NEW n \in DOMAIN entries, Hit(u, n) \/ Evict(u, n) PROVE A
    <3>1. CASE Hit(u, n)
      BY <3>1 DEF Hit
    <3>2. CASE Evict(u, n)
      BY <2>0, <2>5, <3>2, StoredType DEF Evict
    <3> QED
      BY <2>8, <3>1, <3>2
  <2>9. ASSUME NEW u \in Users, NEW k \in Keys, NEW i \in Insts, Miss(u, k, i) PROVE A
    BY <2>0, <2>9 DEF Miss
  <2>10. ASSUME NEW u \in Users, NEW i \in closing, CloseNext(u, i) PROVE A
    BY <2>0, <2>10 DEF CloseNext, IInv, StoreInv, ClosingInv
  <2> HIDE DEF A
  <2> QED
    BY <2>2, <2>3, <2>4, <2>6, <2>7, <2>8, <2>9, <2>10, Steps
<1> QED
  BY <1>1, Inductive, PTL DEF Spec, StopsOnce

-----------------------------------------------------------------------------
(* The store implements InstanceLeases *)

LeaseMap == [i \in Insts |-> Holders(i)]

LEMMA PinLeases ==
    ASSUME TypeOK, NEW u \in Users, NEW i \in Insts, phase[u] # "using", Pin(u, i)
    PROVE  /\ LeaseMap' = [LeaseMap EXCEPT ![i] = @ \union {u}]
           /\ \A j \in Insts : u \notin LeaseMap[j]
<1>1. Holders(i)' = Holders(i) \union {u} /\ \A j \in Insts : u \notin Holders(j)
  BY DEF Holders, Pin, TypeOK
<1>2. \A j \in Insts \ {i} : Holders(j)' = Holders(j)
  BY DEF Holders, Pin, TypeOK
<1> QED
  BY <1>1, <1>2 DEF LeaseMap

LEMMA UnpinLeases ==
    ASSUME TypeOK, NEW u \in Users, NEW i \in Insts, phase[u] = "using", held[u] = i,
           NEW next \in Phases \ {"using"}, Letgo(u, next)
    PROVE  /\ LeaseMap' = [LeaseMap EXCEPT ![i] = @ \ {u}]
           /\ u \in LeaseMap[i]
<1>1. \A j \in Insts : Holders(j)' = (IF j = i THEN Holders(j) \ {u} ELSE Holders(j))
  <2>1. /\ phase'[u] # "using"
        /\ \A v \in Users \ {u} : phase'[v] = phase[v] /\ held'[v] = held[v]
    BY DEF Letgo, TypeOK
  <2> QED
    BY <2>1 DEF Holders
<1>2. u \in Holders(i)
  BY DEF Holders
<1> QED
  BY <1>1, <1>2 DEF LeaseMap

LEMMA SameLeases ==
    ASSUME \A u \in Users : \/ phase'[u] = phase[u] /\ held'[u] = held[u]
                            \/ phase[u] # "using" /\ phase'[u] # "using"
    PROVE  LeaseMap' = LeaseMap
<1>1. \A i \in Insts : Holders(i)' = Holders(i)
  BY DEF Holders
<1> QED
  BY <1>1 DEF LeaseMap

\* Which of the leases' actions each action of the store is.
LeaseStep == Leases!Next \/ UNCHANGED Leases!vars

LEMMA HitLeases ==
    ASSUME IInv, NEW u \in Users, NEW n \in DOMAIN entries, Hit(u, n)
    PROVE  LeaseStep
<1>1. PICK i \in Insts : i = entries[n].inst /\ i \in Stored
  BY StoredType DEF IInv, StoreInv, TypeOK
<1>2. Stored' = Stored
  BY TouchInsts, StoredIsInsts DEF Hit, IInv, StoreInv, TypeOK, EntriesInv
<1>3. /\ LeaseMap' = [LeaseMap EXCEPT ![i] = @ \union {u}]
      /\ \A j \in Insts : u \notin LeaseMap[j]
  BY <1>1, PinLeases DEF Hit, IInv, StoreInv
<1>4. Leases!Lease(u, i)
  BY <1>1, <1>2, <1>3 DEF Leases!Lease, LeaseMap, Hit
<1> QED
  BY <1>4 DEF LeaseStep, Leases!Next

LEMMA RetireLeases ==
    ASSUME IInv, NEW u \in Users, NEW i \in Stored, EvictInstance(u, i),
           Stored' = Stored \ {i}, status' = status, LeaseMap' = LeaseMap
    PROVE  LeaseStep
<1>1. i \in Insts /\ status = "open"
  BY StoredType DEF IInv, StoreInv, TypeOK, ClosedInv, Stored
<1>2. refs[i] = 0 <=> LeaseMap[i] = {}
  BY <1>1, HoldersCount DEF IInv, PinsAreOwned, LeaseMap
<1>3. refs[i] \in Nat
  BY <1>1 DEF IInv, StoreInv, TypeOK
<1>4. IF LeaseMap[i] = {} THEN life' = [life EXCEPT ![i] = "stopping"] ELSE life' = life
  BY <1>2, <1>3 DEF EvictInstance
<1>5. Leases!Retire(i)
  BY <1>1, <1>4 DEF Leases!Retire, Leases!Free, Leases!Become, LeaseMap
<1> QED
  BY <1>1, <1>5 DEF LeaseStep, Leases!Next

LEMMA EvictLeases ==
    ASSUME IInv, NEW u \in Users, NEW n \in DOMAIN entries, Evict(u, n)
    PROVE  LeaseStep
<1>1. PICK i \in Stored : i = entries[n].inst
  BY StoredType DEF IInv, StoreInv, TypeOK
<1>2. Stored' = Stored \ {i}
  BY <1>1, RemoveAtInsts, StoredIsInsts DEF Evict, IInv, StoreInv, TypeOK, EntriesInv
<1>3. \A v \in Users : \/ phase'[v] = phase[v] /\ held'[v] = held[v]
                       \/ phase[v] # "using" /\ phase'[v] # "using"
  BY DEF Evict, IInv, StoreInv, TypeOK
<1> QED
  BY <1>1, <1>2, <1>3, SameLeases, RetireLeases DEF Evict

LEMMA TrimLeases ==
    ASSUME IInv, NEW u \in Users, Trim(u)
    PROVE  LeaseStep
<1>1. Len(entries) > 1 /\ entries \in Seq(Entry) /\ Distinct(entries)
  BY StoreAssumption DEF Trim, Fits, IInv, StoreInv, TypeOK, EntriesInv
<1>2. PICK i \in Stored : i = Head(entries).inst
  BY <1>1, TailInsts, StoredIsInsts
<1>3. Stored' = Stored \ {i}
  BY <1>1, <1>2, TailInsts, StoredIsInsts DEF Trim
<1>4. LeaseMap' = LeaseMap
  BY SameLeases DEF Trim
<1> QED
  BY <1>2, <1>3, <1>4, RetireLeases DEF Trim

LEMMA MissLeases ==
    ASSUME IInv, NEW u \in Users, NEW k \in Keys, NEW i \in Insts, Miss(u, k, i)
    PROVE  LeaseStep
<1>1. \A v \in Users : \/ phase'[v] = phase[v] /\ held'[v] = held[v]
                       \/ phase[v] # "using" /\ phase'[v] # "using"
  BY DEF Miss, IInv, StoreInv, TypeOK
<1>2. Stored' = Stored
  BY DEF Miss, store, Stored
<1>3. LeaseMap[i] = {}
  BY DEF Miss, Fresh, LeaseMap, Holders
<1>4. Leases!Create(i)
  BY <1>1, <1>2, <1>3, SameLeases
     DEF Leases!Create, Leases!Become, LeaseMap, Miss, Fresh, store
<1> QED
  BY <1>4 DEF LeaseStep, Leases!Next

LEMMA PublishLeases ==
    ASSUME IInv, NEW u \in Users, Publish(u)
    PROVE  LeaseStep
<1>1. PICK i \in Insts : i = held[u] /\ life[i] = "starting" /\ status = "open"
  BY DEF Publish, IInv, UsersInv, MakingInv
<1>2. /\ life' = [life EXCEPT ![i] = "live"] /\ status' = status
      /\ entries' = Append(entries, [key |-> wanted[u], inst |-> i])
      /\ \A v \in Users : \/ phase'[v] = phase[v] /\ held'[v] = held[v]
                          \/ phase[v] # "using" /\ phase'[v] # "using"
  BY <1>1 DEF Publish, IInv, StoreInv, TypeOK
<1>3. Stored' = Stored \union {i}
  <2>1. [key |-> wanted[u], inst |-> i] \in Entry
    BY DEF Publish, Entry, IInv, UsersInv, MakingInv
  <2>2. /\ entries \in Seq(Entry) /\ Distinct(entries)
        /\ \A m \in DOMAIN entries : entries[m].key # wanted[u] /\ entries[m].inst # i
    <3>1. entries \in Seq(Entry) /\ Distinct(entries)
      BY DEF IInv, StoreInv, TypeOK, EntriesInv
    <3>2. \A m \in DOMAIN entries : entries[m].key # wanted[u]
      BY DEF Publish, IInv, UsersInv, MakingInv
    <3>3. \A m \in DOMAIN entries : life[entries[m].inst] = "live"
      BY DEF IInv, StoreInv, EntriesInv, Stored
    <3>4. \A m \in DOMAIN entries : entries[m].inst # i
      BY <1>1, <3>3
    <3> QED
      BY <3>1, <3>2, <3>4
  <2> DEFINE e == [key |-> wanted[u], inst |-> i]
  <2>3. e.key = wanted[u] /\ e.inst = i /\ e \in Entry /\ entries' = Append(entries, e)
    BY <1>2, <2>1
  <2> HIDE DEF e
  <2> QED
    BY <2>2, <2>3, AppendInsts, StoredIsInsts
<1>4. Leases!Start(i)
  BY <1>1, <1>2, <1>3, SameLeases DEF Leases!Start, Leases!Become, LeaseMap
<1> QED
  BY <1>4 DEF LeaseStep, Leases!Next

LEMMA TrimmedLeases ==
    ASSUME IInv, NEW u \in Users, Trimmed(u)
    PROVE  LeaseStep
<1>1. entries # <<>> /\ held[u] = entries[Len(entries)].inst /\ status = "open"
  BY DEF Trimmed, IInv, UsersInv, TrimmingInv
<1>2. Len(entries) \in DOMAIN entries
  BY <1>1 DEF IInv, StoreInv, TypeOK
<1>3. PICK i \in Insts : i = held[u] /\ i \in Stored
  BY <1>1, <1>2, StoredType DEF IInv, StoreInv, TypeOK
<1>4. Stored' = Stored /\ life' = life /\ status' = status
  BY DEF Trimmed, Stored
<1>5. /\ LeaseMap' = [LeaseMap EXCEPT ![i] = @ \union {u}]
      /\ \A j \in Insts : u \notin LeaseMap[j]
  BY <1>3, PinLeases DEF Trimmed, IInv, StoreInv
<1>6. Leases!Lease(u, i)
  BY <1>1, <1>3, <1>4, <1>5 DEF Leases!Lease, LeaseMap
<1> QED
  BY <1>6 DEF LeaseStep, Leases!Next

LEMMA StartFailsLeases ==
    ASSUME IInv, NEW u \in Users, StartFails(u)
    PROVE  LeaseStep
<1>1. PICK i \in Insts : i = held[u] /\ life[i] = "starting"
  BY DEF StartFails, IInv, UsersInv, MakingInv
<1>2. \A v \in Users : \/ phase'[v] = phase[v] /\ held'[v] = held[v]
                       \/ phase[v] # "using" /\ phase'[v] # "using"
  BY DEF StartFails, IInv, StoreInv, TypeOK
<1>3. Stored' = Stored
  BY DEF StartFails, store, Stored
<1>4. Leases!Abandon(i)
  BY <1>1, <1>2, <1>3, SameLeases
     DEF Leases!Abandon, Leases!Become, LeaseMap, StartFails, store
<1> QED
  BY <1>4 DEF LeaseStep, Leases!Next

LEMMA ReleaseLeases ==
    ASSUME IInv, NEW u \in Users, ReleasePin(u) \/ ReleaseDeferred(u)
    PROVE  LeaseStep
<1>1. PICK i \in Insts : i = held[u]
  BY DEF ReleasePin, ReleaseDeferred, IInv, UsersInv, UsingInv
<1>2. /\ phase[u] = "using" /\ entries' = entries /\ status' = status /\ Stored' = Stored
      /\ refs' = Unpinned(i)
      /\ Letgo(u, "idle") \/ Letgo(u, "stopping")
  BY <1>1 DEF ReleasePin, ReleaseDeferred, Stored
<1>3. /\ LeaseMap' = [LeaseMap EXCEPT ![i] = @ \ {u}]
      /\ u \in LeaseMap[i]
  BY <1>1, <1>2, UnpinLeases DEF IInv, StoreInv, Phases
<1>4. LeaseMap[i] = Holders(i) /\ IsFiniteSet(Holders(i))
  BY HoldersCount DEF LeaseMap
<1>5. Holders(i) = {u} <=> Cardinality(Holders(i)) = 1
  BY <1>3, <1>4, FS_Singleton
<1>6. Cardinality(Holders(i)) \in Nat /\ Cardinality(Holders(i)) # 0
  BY <1>3, <1>4, HoldersCount
<1>7. CASE ReleaseDeferred(u)
  <2>1. i \in pendingStop /\ refs[i] <= 1 /\ life' = [life EXCEPT ![i] = "stopping"]
    BY <1>1, <1>7 DEF ReleaseDeferred
  <2>2. status = "open" /\ i \notin Stored
    BY <2>1 DEF IInv, StoreInv, TypeOK, ClosedInv, EntriesInv
  <2>3. Holders(i) = {u}
    BY <1>5, <1>6, <2>1, <2>2 DEF IInv, PinsAreOwned
  <2>4. Leases!End(u, i)
    BY <1>2, <1>3, <1>4, <2>1, <2>2, <2>3
       DEF Leases!End, Leases!Last, Leases!Become, LeaseMap
  <2> QED
    BY <2>4 DEF LeaseStep, Leases!Next
<1>8. CASE ReleasePin(u)
  <2>1. life' = life /\ (refs[i] > 1 \/ i \notin pendingStop)
    BY <1>1, <1>8 DEF ReleasePin
  <2>2. status = "open" => i \in Stored \/ i \in pendingStop
    BY <1>1, <1>2 DEF IInv, UsersInv, UsingInv
  <2>3. ~(status = "open" /\ i \notin Stored /\ Holders(i) = {u})
    BY <1>5, <2>1, <2>2 DEF IInv, PinsAreOwned
  <2>4. Leases!End(u, i)
    BY <1>2, <1>3, <1>4, <2>1, <2>3 DEF Leases!End, Leases!Last, LeaseMap
  <2> QED
    BY <2>4 DEF LeaseStep, Leases!Next
<1> QED
  BY <1>7, <1>8

LEMMA CloseLeases ==
    ASSUME IInv, NEW u \in Users, Close(u)
    PROVE  LeaseStep
<1>1. \A v \in Users : \/ phase'[v] = phase[v] /\ held'[v] = held[v]
                       \/ phase[v] # "using" /\ phase'[v] # "using"
  BY DEF Close, IInv, StoreInv, TypeOK
<1>2. Stored' = {} /\ status = "open" /\ status' = "closed" /\ life' = life
  BY DEF Close, Stored
<1>3. Leases!Close
  BY <1>1, <1>2, SameLeases DEF Leases!Close, LeaseMap
<1> QED
  BY <1>3 DEF LeaseStep, Leases!Next

LEMMA CloseNextLeases ==
    ASSUME IInv, NEW u \in Users, NEW i \in closing, CloseNext(u, i)
    PROVE  LeaseStep
<1>1. i \in Insts /\ life[i] = "live" /\ status = "closed"
  BY DEF IInv, StoreInv, TypeOK, ClosingInv
<1>2. Stored' = Stored /\ LeaseMap' = LeaseMap /\ status' = status
  BY SameLeases DEF CloseNext, Stored
<1>3. Leases!StopAfterClose(i)
  BY <1>1, <1>2 DEF Leases!StopAfterClose, Leases!Become, LeaseMap, CloseNext
<1> QED
  BY <1>1, <1>3 DEF LeaseStep, Leases!Next

LEMMA StoppedLeases ==
    ASSUME IInv, NEW u \in Users, StopEnds(u) \/ StopFails(u)
    PROVE  LeaseStep
<1>1. /\ Busy(u) /\ Stopped(u) /\ Stored' = Stored /\ status' = status
  BY DEF StopEnds, StopFails, Stored, store
<1>2. PICK i \in Insts : i = victim[u] /\ life[i] = "stopping"
  BY <1>1, StoppedPart
<1>3. phase[u] \in {"trimming", "stopping", "closing"}
  BY <1>1, StoppedPart
<1>4. \A v \in Users : \/ phase'[v] = phase[v] /\ held'[v] = held[v]
                       \/ phase[v] # "using" /\ phase'[v] # "using"
  BY <1>3 DEF StopEnds, StopFails, Letgo, IInv, StoreInv, TypeOK
<1>5. Leases!StopEnds(i)
  BY <1>1, <1>2, <1>4, SameLeases DEF Leases!StopEnds, Leases!Become, LeaseMap, Stopped
<1> QED
  BY <1>5 DEF LeaseStep, Leases!Next

LEMMA StutterLeases ==
    ASSUME IInv, UNCHANGED vars \/ \E u \in Users : CloseDone(u)
    PROVE  LeaseStep
<1>1. life' = life /\ status' = status /\ Stored' = Stored
  BY DEF vars, store, CloseDone, Stored
<1>2. \A v \in Users : \/ phase'[v] = phase[v] /\ held'[v] = held[v]
                       \/ phase[v] # "using" /\ phase'[v] # "using"
  BY DEF vars, tasks, CloseDone, IInv, StoreInv, TypeOK
<1> QED
  BY <1>1, <1>2, SameLeases DEF LeaseStep, Leases!vars, LeaseMap

LEMMA StepLeases == IInv /\ [Next]_vars => LeaseStep
<1> SUFFICES ASSUME IInv, [Next]_vars PROVE LeaseStep
  OBVIOUS
<1>1. CASE UNCHANGED vars
  BY <1>1, StutterLeases
<1>2. CASE Next
  <2>1. ASSUME NEW u \in Users, Refuse(u) \/ CloseDone(u) \/ StartFails(u) \/ StopFails(u)
                                \/ StopEnds(u)
        PROVE  LeaseStep
    BY <2>1, StutterLeases, StartFailsLeases, StoppedLeases DEF Refuse
  <2>2. ASSUME NEW u \in Users, Publish(u) \/ Trim(u) \/ Trimmed(u) \/ ReleasePin(u)
                                \/ ReleaseDeferred(u) \/ Close(u)
        PROVE  LeaseStep
    BY <2>2, PublishLeases, TrimLeases, TrimmedLeases, ReleaseLeases, CloseLeases
  <2>3. ASSUME NEW u \in Users, NEW n \in DOMAIN entries, Hit(u, n) \/ Evict(u, n)
        PROVE  LeaseStep
    BY <2>3, HitLeases, EvictLeases
  <2>4. ASSUME NEW u \in Users, NEW k \in Keys, NEW i \in Insts, Miss(u, k, i)
        PROVE  LeaseStep
    BY <2>4, MissLeases
  <2>5. ASSUME NEW u \in Users, NEW i \in closing, CloseNext(u, i)
        PROVE  LeaseStep
    BY <2>5, CloseNextLeases
  <2> QED
    BY <1>2, <2>1, <2>2, <2>3, <2>4, <2>5, Steps
<1> QED
  BY <1>1, <1>2

\* Every behaviour of the store, failures and cancellations included, is one of
\* the leases it promises to the calls that go through it.
THEOREM ImplementsLeases == Spec => LeasesSpec
<1>1. Init => Leases!Init
  <2>1. Init => Stored = {} /\ \A i \in Insts : Holders(i) = {}
    BY DEF Init, Stored, Holders
  <2> QED
    BY <2>1 DEF Init, Leases!Init
<1>2. IInv /\ [Next]_vars => [Leases!Next]_(Leases!vars)
  BY StepLeases DEF LeaseStep
<1> QED
  BY <1>1, <1>2, Inductive, PTL DEF Spec, LeasesSpec, Leases!Spec

-----------------------------------------------------------------------------
(* What the leases guarantee to the calls, from InstanceLeases alone: the   *)
(* store has it because it implements them.                                 *)

LeasesType ==
    /\ life \in [Insts -> Lives]
    /\ LeaseMap \in [Insts -> SUBSET Users]
    /\ Stored \subseteq Insts
    /\ status \in {"open", "closed"}

\* While the store is open the live instances are those that are published or
\* leased, and no others are.
LeasedOrStored(i) ==
    /\ i \in Stored => status = "open" /\ life[i] = "live"
    /\ status = "open" =>
          /\ LeaseMap[i] # {} => life[i] = "live"
          /\ life[i] = "live" => i \in Stored \/ LeaseMap[i] # {}

LeasesInv == LeasesType /\ \A i \in Insts : LeasedOrStored(i)


LEMMA InitLeases == Leases!Init => LeasesInv
BY DEF Leases!Init, LeaseMap, LeasesInv, LeasesType, Lives, LeasedOrStored

\* One step per action: the type of what it changes, then the invariant of the
\* instance it is about; the others stay as they were.
LEMMA NextLeases == LeasesInv /\ [Leases!Next]_(Leases!vars) => LeasesInv'
<1> SUFFICES ASSUME LeasesInv, [Leases!Next]_(Leases!vars) PROVE LeasesInv'
  OBVIOUS
<1> USE DEF LeasesInv, LeasesType, LeaseMap, Leases!Become
<1>1. ASSUME NEW i \in Insts, Leases!Create(i) PROVE LeasesInv'
  <2>1. LeasesType'
    BY <1>1 DEF Leases!Create, Lives
  <2>2. \A j \in Insts : LeasedOrStored(j)'
    <3>1. life'[i] = "starting" /\ \A j \in Insts \ {i} : life'[j] = life[j]
      BY <1>1 DEF Leases!Create
    <3>2. i \notin Stored
      BY <1>1 DEF Leases!Create, LeasedOrStored
    <3> QED
      BY <1>1, <3>1, <3>2 DEF Leases!Create, LeasedOrStored
  <2> QED
    BY <2>1, <2>2
<1>2. ASSUME NEW i \in Insts, Leases!Start(i) PROVE LeasesInv'
  <2>1. LeasesType'
    BY <1>2 DEF Leases!Start, Lives
  <2>2. \A j \in Insts : LeasedOrStored(j)'
    <3>1. life'[i] = "live" /\ \A j \in Insts \ {i} : life'[j] = life[j]
      BY <1>2 DEF Leases!Start
    <3>2. status = "open" => LeaseMap[i] = {}
      BY <1>2 DEF Leases!Start, LeasedOrStored
    <3> QED
      BY <1>2, <3>1, <3>2 DEF Leases!Start, LeasedOrStored
  <2> QED
    BY <2>1, <2>2
<1>3. ASSUME NEW i \in Insts, Leases!Abandon(i) PROVE LeasesInv'
  <2>1. LeasesType'
    BY <1>3 DEF Leases!Abandon, Lives
  <2>2. \A j \in Insts : LeasedOrStored(j)'
    BY <1>3 DEF Leases!Abandon, LeasedOrStored
  <2> QED
    BY <2>1, <2>2
<1>4. ASSUME NEW i \in Insts, NEW u \in Users, Leases!Lease(u, i) PROVE LeasesInv'
  <2>1. LeasesType'
    BY <1>4 DEF Leases!Lease
  <2>2. \A j \in Insts : LeasedOrStored(j)'
    BY <1>4 DEF Leases!Lease, LeasedOrStored
  <2> QED
    BY <2>1, <2>2
<1>5. ASSUME NEW i \in Insts, NEW u \in Users, Leases!End(u, i) PROVE LeasesInv'
  <2>1. LeasesType'
    BY <1>5 DEF Leases!End, Lives
  <2>2. \A j \in Insts : LeasedOrStored(j)'
    <3>1. CASE Leases!Last(u, i)
      BY <1>5, <3>1 DEF Leases!End, Leases!Last, LeasedOrStored
    <3>2. CASE ~Leases!Last(u, i)
      BY <1>5, <3>2 DEF Leases!End, Leases!Last, LeasedOrStored
    <3> QED
      BY <3>1, <3>2
  <2> QED
    BY <2>1, <2>2
<1>6. ASSUME NEW i \in Insts, Leases!Retire(i) PROVE LeasesInv'
  <2>1. LeasesType'
    BY <1>6 DEF Leases!Retire, Lives
  <2>2. \A j \in Insts : LeasedOrStored(j)'
    BY <1>6 DEF Leases!Retire, Leases!Free, LeasedOrStored
  <2> QED
    BY <2>1, <2>2
<1>7. ASSUME Leases!Close PROVE LeasesInv'
  BY <1>7 DEF Leases!Close, LeasedOrStored
<1>8. ASSUME NEW i \in Insts, Leases!StopAfterClose(i) PROVE LeasesInv'
  BY <1>8 DEF Leases!StopAfterClose, LeasedOrStored, Lives
<1>9. ASSUME NEW i \in Insts, Leases!StopEnds(i) PROVE LeasesInv'
  BY <1>9 DEF Leases!StopEnds, LeasedOrStored, Lives
<1>10. CASE UNCHANGED Leases!vars
  BY <1>10 DEF Leases!vars, LeasedOrStored
<1> QED
  BY <1>1, <1>2, <1>3, <1>4, <1>5, <1>6, <1>7, <1>8, <1>9, <1>10 DEF Leases!Next

LEMMA LeasesInductive == LeasesSpec => []LeasesInv
BY InitLeases, NextLeases, PTL DEF LeasesSpec, Leases!Spec

\* A leased instance runs: no retirement stops it before the last lease ends.
THEOREM LeasesAreLive == Spec => []Leases!LeasedIsLive
<1>1. LeasesInv => Leases!LeasedIsLive
  BY DEF LeasesInv, LeasedOrStored, LeaseMap, Leases!LeasedIsLive
<1> QED
  BY <1>1, LeasesInductive, ImplementsLeases, PTL

\* No instance goes on running that nobody uses and nobody can get.
THEOREM NothingIsLost == Spec => []Leases!RetiredIsLeased
<1>1. LeasesInv => Leases!RetiredIsLeased
  BY DEF LeasesInv, LeasedOrStored, LeaseMap, Leases!RetiredIsLeased
<1> QED
  BY <1>1, LeasesInductive, ImplementsLeases, PTL

-----------------------------------------------------------------------------
(* Nothing leaks, as long as no stop() fails *)

\* A live instance is where someone will find it to stop it.
LeakInv ==
    \A i \in Insts : life[i] = "live" =>
        \/ i \in Stored
        \/ i \in pendingStop
        \/ i \in closing /\ \E u \in Users : phase[u] = "closing"

LEMMA EvictLeaks ==
    ASSUME IInv, LeakInv, NEW u \in Users, NEW i \in Stored, EvictInstance(u, i),
           Stored' = Stored \ {i}, closing' = closing
    PROVE  LeakInv'
<1>1. closing = {} /\ i \in Insts
  BY StoredType DEF IInv, StoreInv, TypeOK, ClosedInv, ClosingInv, Stored
<1>2. CASE refs[i] > 0
  <2>1. pendingStop' = pendingStop \union {i} /\ life' = life
    BY <1>2 DEF EvictInstance, IInv, StoreInv, TypeOK
  <2> QED
    BY <1>1, <2>1 DEF LeakInv
<1>3. CASE refs[i] = 0
  <2>1. pendingStop' = pendingStop /\ life' = [life EXCEPT ![i] = "stopping"]
    BY <1>3 DEF EvictInstance, IInv, StoreInv, TypeOK
  <2>2. life'[i] = "stopping" /\ \A j \in Insts \ {i} : life'[j] = life[j]
    BY <1>1, <2>1 DEF IInv, StoreInv, TypeOK
  <2> QED
    BY <1>1, <2>1, <2>2 DEF LeakInv
<1> QED
  BY <1>2, <1>3 DEF EvictInstance

LEMMA NextLeaks ==
    ASSUME StopMayFail = FALSE, IInv, LeakInv, [Next]_vars
    PROVE  LeakInv'
<1>1. life \in [Insts -> Lives] /\ phase \in [Users -> Phases] /\ entries \in Seq(Entry)
  BY DEF IInv, StoreInv, TypeOK
<1>2. ASSUME UNCHANGED vars \/ \E u \in Users : Refuse(u)
      PROVE  LeakInv'
  BY <1>2 DEF Refuse, vars, store, tasks, LeakInv, Stored
<1>3. ASSUME NEW u \in Users, StartFails(u) PROVE LeakInv'
  <2>1. \A i \in Insts : life'[i] = "live" => life[i] = "live"
    BY <1>1, <1>3 DEF StartFails
  <2>2. \A v \in Users : phase[v] = "closing" => phase'[v] = "closing"
    BY <1>1, <1>3 DEF StartFails
  <2> QED
    BY <1>3, <2>1, <2>2 DEF StartFails, store, LeakInv, Stored
<1>4. ASSUME NEW u \in Users, StopEnds(u) PROVE LeakInv'
  <2>1. \A i \in Insts : life'[i] = "live" => life[i] = "live"
    BY <1>1, <1>4 DEF StopEnds, Stopped
  <2>2. \A v \in Users : phase[v] = "closing" => phase'[v] = "closing"
    BY <1>1, <1>4 DEF StopEnds
  <2> QED
    BY <1>4, <2>1, <2>2 DEF StopEnds, store, LeakInv, Stored
<1>5. ASSUME NEW u \in Users, Publish(u) PROVE LeakInv'
  <2>1. PICK i \in Insts : i = held[u] /\ status = "open"
    BY <1>5 DEF Publish, IInv, UsersInv, MakingInv
  <2>2. /\ closing = {} /\ pendingStop' = pendingStop
        /\ \A j \in Insts \ {i} : life'[j] = life[j]
    BY <1>1, <1>5, <2>1 DEF Publish, IInv, StoreInv, ClosingInv
  <2>3. Stored' = Stored \union {i}
    <3> DEFINE e == [key |-> wanted[u], inst |-> i]
    <3>1. /\ entries' = Append(entries, e) /\ e \in Entry /\ e.inst = i
      BY <1>5, <2>1 DEF Publish, Entry, IInv, UsersInv, MakingInv
    <3>2. \A m \in DOMAIN entries : m \in DOMAIN entries' /\ entries'[m] = entries[m]
      BY <1>1, <3>1
    <3>3. Len(entries) + 1 \in DOMAIN entries' /\ entries'[Len(entries) + 1] = e
      BY <1>1, <3>1
    <3>4. \A m \in DOMAIN entries' : m \in DOMAIN entries \/ m = Len(entries) + 1
      BY <1>1, <3>1
    <3> HIDE DEF e
    <3> QED
      BY <3>1, <3>2, <3>3, <3>4 DEF Stored
  <2> QED
    BY <2>2, <2>3 DEF LeakInv
<1>6. ASSUME NEW u \in Users, Trim(u) PROVE LeakInv'
  <2>1. Len(entries) > 1 /\ Distinct(entries)
    BY <1>1, <1>6, StoreAssumption DEF Trim, Fits, IInv, StoreInv, EntriesInv
  <2>2. PICK i \in Stored : i = Head(entries).inst
    BY <1>1, <2>1, TailInsts, StoredIsInsts
  <2>3. Stored' = Stored \ {i}
    BY <1>1, <1>6, <2>1, <2>2, TailInsts, StoredIsInsts DEF Trim
  <2> QED
    BY <1>6, <2>2, <2>3, EvictLeaks DEF Trim
<1>7. ASSUME NEW u \in Users, Trimmed(u) \/ ReleasePin(u) PROVE LeakInv'
  <2>1. Stored' = Stored /\ UNCHANGED <<pendingStop, closing, life>>
    BY <1>7 DEF Trimmed, ReleasePin, Stored
  <2>2. \A v \in Users : phase[v] = "closing" => phase'[v] = "closing"
    BY <1>1, <1>7 DEF Trimmed, ReleasePin, Pin, Letgo
  <2> QED
    BY <2>1, <2>2 DEF LeakInv
<1>8. ASSUME NEW u \in Users, ReleaseDeferred(u) PROVE LeakInv'
  <2>1. PICK i \in Insts : i = held[u] /\ i \in pendingStop
    BY <1>8 DEF ReleaseDeferred, IInv, StoreInv, TypeOK
  <2>2. /\ pendingStop' = pendingStop \ {i} /\ closing' = closing /\ Stored' = Stored
        /\ life'[i] = "stopping" /\ \A j \in Insts \ {i} : life'[j] = life[j]
    BY <1>1, <1>8, <2>1 DEF ReleaseDeferred, Stored
  <2>3. closing = {}
    BY <2>1 DEF IInv, StoreInv, ClosedInv, ClosingInv
  <2> QED
    BY <2>2, <2>3 DEF LeakInv
<1>9. ASSUME NEW u \in Users, Close(u) PROVE LeakInv'
  <2>1. phase'[u] = "closing" /\ closing' = Stored \union pendingStop /\ life' = life
    BY <1>1, <1>9 DEF Close, Taken
  <2>2. closing = {}
    BY <1>9 DEF Close, IInv, StoreInv, ClosingInv
  <2> QED
    BY <2>1, <2>2 DEF LeakInv
<1>10. ASSUME NEW u \in Users, NEW i \in closing, CloseNext(u, i) PROVE LeakInv'
  <2>1. /\ closing' = closing \ {i} /\ pendingStop' = pendingStop /\ Stored' = Stored
        /\ phase' = phase
        /\ life' = [life EXCEPT ![i] = "stopping"]
    BY <1>10 DEF CloseNext, Stored
  <2>2. \A j \in Insts : life'[j] = "live" => j # i /\ life[j] = "live"
    BY <1>1, <2>1
  <2> QED
    BY <2>1, <2>2 DEF LeakInv
<1>11. ASSUME NEW u \in Users, CloseDone(u) PROVE LeakInv'
  BY <1>11 DEF CloseDone, store, LeakInv, Stored
<1>12. ASSUME NEW u \in Users, NEW n \in DOMAIN entries, Hit(u, n) PROVE LeakInv'
  <2>1. Stored' = Stored /\ UNCHANGED <<pendingStop, closing, life>>
    BY <1>1, <1>12, TouchInsts, StoredIsInsts DEF Hit, IInv, StoreInv, EntriesInv
  <2>2. \A v \in Users : phase[v] = "closing" => phase'[v] = "closing"
    BY <1>1, <1>12 DEF Hit, Pin
  <2> QED
    BY <2>1, <2>2 DEF LeakInv
<1>13. ASSUME NEW u \in Users, NEW n \in DOMAIN entries, Evict(u, n) PROVE LeakInv'
  <2>1. PICK i \in Stored : i = entries[n].inst
    BY <1>1, StoredType
  <2>2. Stored' = Stored \ {i}
    BY <1>1, <1>13, <2>1, RemoveAtInsts, StoredIsInsts DEF Evict, IInv, StoreInv, EntriesInv
  <2> QED
    BY <1>13, <2>1, <2>2, EvictLeaks DEF Evict
<1>14. ASSUME NEW u \in Users, NEW k \in Keys, NEW i \in Insts, Miss(u, k, i) PROVE LeakInv'
  <2>1. \A j \in Insts : life'[j] = "live" => life[j] = "live"
    BY <1>1, <1>14 DEF Miss
  <2>2. \A v \in Users : phase[v] = "closing" => phase'[v] = "closing"
    BY <1>1, <1>14 DEF Miss
  <2> QED
    BY <1>14, <2>1, <2>2 DEF Miss, store, LeakInv, Stored
<1> QED
  BY <1>2, <1>3, <1>4, <1>5, <1>6, <1>7, <1>8, <1>9, <1>10, <1>11, <1>12, <1>13, <1>14,
     Steps DEF StopFails

\* An instance that is live is stored, or pinned with its stop deferred, or
\* about to be stopped by close(), if no stop() raises or is cancelled.
THEOREM NoLeak ==
    ASSUME StopMayFail = FALSE
    PROVE  Spec => []NothingLeaks
<1>1. Init => LeakInv
  BY DEF Init, LeakInv
<1>2. IInv /\ LeakInv /\ [Next]_vars => LeakInv'
  BY NextLeaks
<1>3. IInv /\ LeakInv => NothingLeaks
  BY DEF IInv, StoreInv, PendingInv, LeakInv, NothingLeaks
<1> QED
  BY <1>1, <1>2, <1>3, Inductive, PTL DEF Spec

\* What close() leaves behind when it returns, under the same proviso.
THEOREM CloseStopsAll ==
    ASSUME StopMayFail = FALSE
    PROVE  Spec => []ClosedIsEmpty
<1>1. IInv /\ NothingLeaks => ClosedIsEmpty
  <2> SUFFICES ASSUME IInv, NothingLeaks, status = "closed" PROVE ClosedIsEmpty
    BY DEF ClosedIsEmpty
  <2>1. entries = <<>> /\ pendingStop = {} /\ Stored = {}
    BY DEF IInv, StoreInv, ClosedInv, Stored
  <2>2. lock = NoUser => \A u \in Users : phase[u] # "closing"
    BY NobodyInside
  <2> QED
    BY <2>1, <2>2 DEF NothingLeaks, ClosedIsEmpty
<1> QED
  BY <1>1, Inductive, NoLeak, PTL

=============================================================================
