----------------------------- MODULE StateStore -----------------------------
(***************************************************************************)
(* InMemoryStateStore (core/pipeline/state.py): the LRU store of the       *)
(* scoped instances, with the pins that Container.invoke puts on them.     *)
(*                                                                         *)
(* One lock is held across the creation of an instance, across the stops   *)
(* of the instances it displaces and across close(); release() and the     *)
(* second half of evict() run without it.  An await inside these (start(), *)
(* stop()) is a pair of actions, everything between two awaits is one.     *)
(***************************************************************************)
EXTENDS SequencesExt

CONSTANTS
    Users,        \* tasks that use the store
    Keys,         \* scope keys
    Insts,        \* identities, id(instance), of the objects ever created
    NoKey,        \* no key
    NoInst,       \* no instance
    NoUser,       \* nobody
    MaxEntries,   \* max_entries
    StartMayFail, \* TRUE iff factory() or start() may raise or be cancelled
    StopMayFail   \* TRUE iff stop() may raise or be cancelled

ASSUME StoreAssumption ==
    /\ MaxEntries \in Nat \ {0}
    /\ IsFiniteSet(Users)
    /\ NoKey \notin Keys
    /\ NoInst \notin Insts
    /\ NoUser \notin Users
    /\ StartMayFail \in BOOLEAN
    /\ StopMayFail \in BOOLEAN

VARIABLES
    entries,     \* _entries: key and instance, the least recently used first
    refs,        \* _refs: the pins of each instance
    pendingStop, \* _pending_stop
    lock,        \* the owner of _lock
    status,      \* _closed: "open" or "closed"
    closing,     \* the instances close() has taken and not stopped yet
    life,        \* what has become of each instance
    phase,       \* where each task is
    wanted,      \* the key each task makes an instance for
    held,        \* the instance each task has got, or is making
    victim       \* the instance whose stop() each task awaits

store == <<entries, refs, pendingStop, status, closing>>
tasks == <<phase, wanted, held, victim>>
vars == <<store, lock, life, tasks>>

Lives == {"none", "starting", "live", "stopping", "stopped"}

\* "making", "trimming" and "closing" own the lock; "stopping" is a stop()
\* outside it, of release() or evict().
Phases == {"idle", "making", "trimming", "using", "stopping", "closing"}

Entry == [key : Keys, inst : Insts]

Init ==
    /\ entries = <<>>
    /\ refs = [i \in Insts |-> 0]
    /\ pendingStop = {}
    /\ lock = NoUser
    /\ status = "open"
    /\ closing = {}
    /\ life = [i \in Insts |-> "none"]
    /\ phase = [u \in Users |-> "idle"]
    /\ wanted = [u \in Users |-> NoKey]
    /\ held = [u \in Users |-> NoInst]
    /\ victim = [u \in Users |-> NoInst]

-----------------------------------------------------------------------------

Stored == {entries[n].inst : n \in DOMAIN entries}

\* An identity the interpreter may give to a new object: nothing refers to an
\* object that has it.
Fresh(i) ==
    /\ life[i] \in {"none", "stopped"}
    /\ \A u \in Users : i # held[u] /\ i # victim[u]

\* Mutant: acquire forgets to count.
PinNothing(u, i) ==
    /\ refs' = refs
    /\ held' = [held EXCEPT ![u] = i]
    /\ phase' = [phase EXCEPT ![u] = "using"]

\* acquire: the caller pins in the step in which get_or_create returns.
Pin(u, i) ==
    /\ refs' = [refs EXCEPT ![i] = @ + 1]
    /\ held' = [held EXCEPT ![u] = i]
    /\ phase' = [phase EXCEPT ![u] = "using"]

\* Mutant: no return after the stop has been deferred.
EvictAndStop(u, i) ==
    /\ pendingStop' = (IF refs[i] > 0 THEN pendingStop \union {i} ELSE pendingStop)
    /\ life' = [life EXCEPT ![i] = "stopping"]
    /\ victim' = [victim EXCEPT ![u] = i]

\* Mutant: nobody is told to stop a pinned instance.
EvictAndForget(u, i) ==
    \/ /\ refs[i] > 0
       /\ UNCHANGED <<pendingStop, life, victim>>
    \/ /\ refs[i] = 0
       /\ life' = [life EXCEPT ![i] = "stopping"]
       /\ victim' = [victim EXCEPT ![u] = i]
       /\ UNCHANGED pendingStop

\* _evict_instance: stop a free instance, defer the stop of a pinned one.
EvictInstance(u, i) ==
    \/ /\ refs[i] > 0
       /\ pendingStop' = pendingStop \union {i}
       /\ UNCHANGED <<life, victim>>
    \/ /\ refs[i] = 0
       /\ life' = [life EXCEPT ![i] = "stopping"]
       /\ victim' = [victim EXCEPT ![u] = i]
       /\ UNCHANGED pendingStop

Busy(u) == victim[u] # NoInst

\* Mutant: the lock is not held over the awaits that follow.
NoLock(u) == UNCHANGED lock

Lock(u) == lock' = u

-----------------------------------------------------------------------------
(* get_or_create, with the acquire of its caller *)

\* On a closed store get_or_create raises; close and evict do nothing.
Refuse(u) ==
    /\ phase[u] = "idle" /\ lock = NoUser /\ status = "closed"
    /\ UNCHANGED vars

Hit(u, n) ==
    /\ phase[u] = "idle" /\ lock = NoUser /\ status = "open"
    /\ n \in DOMAIN entries
    /\ entries' = Append(RemoveAt(entries, n), entries[n])
    /\ Pin(u, entries[n].inst)
    /\ UNCHANGED <<pendingStop, lock, status, closing, life, wanted, victim>>

\* The factory makes the object, and its start() is awaited under the lock.
Miss(u, k, i) ==
    /\ phase[u] = "idle" /\ lock = NoUser /\ status = "open"
    /\ \A n \in DOMAIN entries : entries[n].key # k
    /\ Fresh(i)
    /\ Lock(u)
    /\ life' = [life EXCEPT ![i] = "starting"]
    /\ phase' = [phase EXCEPT ![u] = "making"]
    /\ wanted' = [wanted EXCEPT ![u] = k]
    /\ held' = [held EXCEPT ![u] = i]
    /\ UNCHANGED <<store, victim>>

\* Started: publish it; the loop that trims the store follows.
Publish(u) ==
    /\ phase[u] = "making"
    /\ entries' = Append(entries, [key |-> wanted[u], inst |-> held[u]])
    /\ life' = [life EXCEPT ![held[u]] = "live"]
    /\ phase' = [phase EXCEPT ![u] = "trimming"]
    /\ wanted' = [wanted EXCEPT ![u] = NoKey]
    /\ UNCHANGED <<refs, pendingStop, status, closing, lock, held, victim>>

\* An instance that fails to start is dropped: it is never stopped.
StartFails(u) ==
    /\ StartMayFail
    /\ phase[u] = "making"
    /\ life' = [life EXCEPT ![held[u]] = "stopped"]
    /\ phase' = [phase EXCEPT ![u] = "idle"]
    /\ wanted' = [wanted EXCEPT ![u] = NoKey]
    /\ held' = [held EXCEPT ![u] = NoInst]
    /\ lock' = NoUser
    /\ UNCHANGED <<store, victim>>

Fits == Len(entries) <= MaxEntries

Trim(u) ==
    /\ phase[u] = "trimming" /\ ~Busy(u)
    /\ ~Fits
    /\ entries' = Tail(entries)
    /\ EvictInstance(u, Head(entries).inst)
    /\ UNCHANGED <<refs, status, closing, lock, phase, wanted, held>>

Trimmed(u) ==
    /\ phase[u] = "trimming" /\ ~Busy(u)
    /\ Fits
    /\ lock' = NoUser
    /\ Pin(u, held[u])
    /\ UNCHANGED <<entries, pendingStop, status, closing, life, wanted, victim>>

-----------------------------------------------------------------------------
(* release, evict, close *)

Letgo(u, next) ==
    /\ phase' = [phase EXCEPT ![u] = next]
    /\ held' = [held EXCEPT ![u] = NoInst]

\* Mutant: the count of pins is read and not written.
UnpinnedForgets(i) == refs

\* After close() has cleared _refs there is no pin to take away.
Unpinned(i) == [refs EXCEPT ![i] = IF @ > 1 THEN @ - 1 ELSE 0]

\* release, when other pins remain or the instance is still in the store
ReleasePin(u) ==
    /\ phase[u] = "using"
    /\ refs[held[u]] > 1 \/ held[u] \notin pendingStop
    /\ refs' = Unpinned(held[u])
    /\ Letgo(u, "idle")
    /\ UNCHANGED <<entries, pendingStop, status, closing, lock, life, wanted, victim>>

\* release of the last pin, and the stop that was deferred until now
ReleaseDeferred(u) ==
    /\ phase[u] = "using" /\ refs[held[u]] <= 1
    /\ held[u] \in pendingStop
    /\ refs' = Unpinned(held[u])
    /\ pendingStop' = pendingStop \ {held[u]}
    /\ life' = [life EXCEPT ![held[u]] = "stopping"]
    /\ victim' = [victim EXCEPT ![u] = held[u]]
    /\ Letgo(u, "stopping")
    /\ UNCHANGED <<entries, status, closing, lock, wanted>>

\* evict: no await lies between the pop under the lock and the look at the pins.
Evict(u, n) ==
    /\ phase[u] = "idle" /\ lock = NoUser
    /\ n \in DOMAIN entries
    /\ entries' = RemoveAt(entries, n)
    /\ EvictInstance(u, entries[n].inst)
    /\ phase' = [phase EXCEPT ![u] = IF refs[entries[n].inst] > 0 THEN "idle" ELSE "stopping"]
    /\ UNCHANGED <<refs, status, closing, lock, wanted, held>>

Taken == Stored \union pendingStop

Close(u) ==
    /\ phase[u] = "idle" /\ lock = NoUser /\ status = "open"
    /\ status' = "closed"
    /\ closing' = Taken
    /\ entries' = <<>>
    /\ pendingStop' = {}
    /\ refs' = [i \in Insts |-> 0]
    /\ Lock(u)
    /\ phase' = [phase EXCEPT ![u] = "closing"]
    /\ UNCHANGED <<life, wanted, held, victim>>

\* close() stops what it took one by one, pinned or not.
CloseNext(u, i) ==
    /\ phase[u] = "closing" /\ ~Busy(u)
    /\ i \in closing
    /\ closing' = closing \ {i}
    /\ life' = [life EXCEPT ![i] = "stopping"]
    /\ victim' = [victim EXCEPT ![u] = i]
    /\ UNCHANGED <<entries, refs, pendingStop, status, lock, phase, wanted, held>>

CloseDone(u) ==
    /\ phase[u] = "closing" /\ ~Busy(u) /\ closing = {}
    /\ phase' = [phase EXCEPT ![u] = "idle"]
    /\ lock' = NoUser
    /\ UNCHANGED <<store, life, wanted, held, victim>>

-----------------------------------------------------------------------------
(* The end of a stop() *)

Stopped(u) ==
    /\ life' = [life EXCEPT ![victim[u]] = "stopped"]
    /\ victim' = [victim EXCEPT ![u] = NoInst]

StopEnds(u) ==
    /\ Busy(u)
    /\ Stopped(u)
    /\ phase' = [phase EXCEPT ![u] = IF @ = "stopping" THEN "idle" ELSE @]
    /\ UNCHANGED <<store, lock, wanted, held>>

\* stop() raises or is cancelled: so does the operation that awaits it, and
\* what it had left to do (the pin of the caller, the other instances that
\* close() had taken) is dropped.
StopFails(u) ==
    /\ StopMayFail
    /\ Busy(u)
    /\ Stopped(u)
    /\ closing' = (IF phase[u] = "closing" THEN {} ELSE closing)
    /\ lock' = (IF lock = u THEN NoUser ELSE lock)
    /\ Letgo(u, "idle")
    /\ UNCHANGED <<entries, refs, pendingStop, status, wanted>>

-----------------------------------------------------------------------------

Proceed(u) ==
    \/ Publish(u)
    \/ Trim(u) \/ Trimmed(u)
    \/ StopEnds(u)
    \/ \E i \in closing : CloseNext(u, i)
    \/ CloseDone(u)

Release(u) == ReleasePin(u) \/ ReleaseDeferred(u)

Next ==
    \E u \in Users :
        \/ Refuse(u)
        \/ \E n \in DOMAIN entries : Hit(u, n) \/ Evict(u, n)
        \/ \E k \in Keys, i \in Insts : Miss(u, k, i)
        \/ Proceed(u) \/ Release(u) \/ Close(u)
        \/ StartFails(u) \/ StopFails(u)

Spec == Init /\ [][Next]_vars

\* start() and stop() return, and a call ends: init_timeout, the drain timeout
\* and the timeout link see to that.
Fairness ==
    \A u \in Users : WF_vars(Proceed(u)) /\ WF_vars(Release(u))

LiveSpec == Spec /\ Fairness

-----------------------------------------------------------------------------
(* Properties *)

TypeOK ==
    /\ entries \in Seq(Entry)
    /\ refs \in [Insts -> Nat]
    /\ pendingStop \subseteq Insts
    /\ lock \in Users \union {NoUser}
    /\ status \in {"open", "closed"}
    /\ closing \subseteq Insts
    /\ life \in [Insts -> Lives]
    /\ phase \in [Users -> Phases]
    /\ wanted \in [Users -> Keys \union {NoKey}]
    /\ held \in [Users -> Insts \union {NoInst}]
    /\ victim \in [Users -> Insts \union {NoInst}]

Holders(i) == {u \in Users : phase[u] = "using" /\ held[u] = i}

\* "A call parked on a slice never runs on a stopped object": until the store is
\* closed, the instance a call has pinned is live, whoever evicts it meanwhile.
PinnedRuns ==
    \A u \in Users : phase[u] = "using" /\ status = "open" => life[held[u]] = "live"

\* The counts, which are kept by id(), are those of the calls that run: no pin
\* is lost, and none outlives its object to fall to the next one with its id.
PinsAreOwned ==
    \A i \in Insts : refs[i] = (IF status = "closed" THEN 0 ELSE Cardinality(Holders(i)))

\* An instance that has started and is not in the store any more is on its way
\* to be stopped: a call that pins it will do it, or close() will, unless one of the
\* stops in close() fails and the rest of them is dropped.
NothingLeaks ==
    \A i \in Insts : life[i] = "live" =>
        \/ i \in Stored
        \/ i \in pendingStop /\ refs[i] > 0
        \/ i \in closing /\ \E u \in Users : phase[u] = "closing"
        \/ StopMayFail /\ status = "closed"

\* "Creating it exactly once": at most one instance per key is in the store,
\* and an instance under one key only.
OneInstancePerKey ==
    \A m, n \in DOMAIN entries :
        entries[m].key = entries[n].key \/ entries[m].inst = entries[n].inst => m = n

\* Bounded cardinality: the store overflows only while its lock is held, by one.
Bounded ==
    Len(entries) <= IF lock = NoUser THEN MaxEntries ELSE MaxEntries + 1

\* The state that close() leaves: nothing in the store, nothing pending, and
\* when it has returned nothing that was ever published still running.
ClosedIsEmpty ==
    status = "closed" =>
        /\ entries = <<>> /\ pendingStop = {}
        /\ lock = NoUser => \A i \in Insts : life[i] # "live"

\* stop() begins on an instance that is live, hence at most once per instance.
StopsOnce ==
    [][\A i \in Insts : life'[i] = "stopping" => life[i] \in {"live", "stopping"}]_vars

\* A deferred stop does happen once the calls that pin the instance are over, also when
\* other stops and starts fail, unless close() comes first.
DeferredStopHappens ==
    \A i \in Insts : (i \in pendingStop) ~> (life[i] = "stopped" \/ status = "closed")

-----------------------------------------------------------------------------
(* The store implements the leases it promises: the pin counts stand for    *)
(* the calls that run, the deferred stops for the instances that are out of *)
(* the store and leased.                                                    *)

Leases == INSTANCE InstanceLeases WITH
    leases    <- [i \in Insts |-> Holders(i)],
    published <- Stored

LeasesSpec == Leases!Spec

=============================================================================
