------------------------------- MODULE Cache -------------------------------
(***************************************************************************)
(* The cache link (core/pipeline/builtin/cache.py): LRU and TTL with       *)
(* single-flight.  It takes no lock: what it does between two awaits is    *)
(* atomic, and its only awaits are the real call of a leader and the wait  *)
(* of a follower.  Each of these is a phase of a caller; the lookup that   *)
(* precedes them, and what follows them, are single actions.               *)
(***************************************************************************)
EXTENDS SequencesExt, Integers

CONSTANTS
    Callers,     \* concurrent calls through the link
    Operations,  \* operation and arguments of a call, normalised
    Scopes,      \* ctx.scope_key: the slices that share the link
    NoCaller,    \* nobody
    MaxEntries,  \* settings.max_entries
    TTL,         \* settings.ttl, in ticks
    CacheErrors, \* settings.cache_errors
    Cancellable, \* the callers that may be cancelled
    Budgeted,    \* the callers that have a deadline
    Budget       \* their budget, in ticks

\* The constraints of CacheSettings.
ASSUME CacheAssumption ==
    /\ MaxEntries \in Nat \ {0}
    /\ TTL \in Nat \ {0}
    /\ Budget \in Nat \ {0}
    /\ CacheErrors \in BOOLEAN
    /\ Cancellable \subseteq Callers
    /\ Budgeted \subseteq Callers
    /\ NoCaller \notin Callers

VARIABLES
    stored,    \* _store: entries, the least recently used first
    inflight,  \* _inflight: the leader of each key, or NoCaller
    phase,     \* where each caller is
    request,   \* what each caller asks for
    got,       \* what each caller has been given
    left,      \* what is left of the deadline of a caller; -1: it has passed
    since      \* history: time since a real call for each key left a result, up to TTL

link == <<stored, inflight>>
vars == <<link, phase, request, got, left, since>>

Requests == [op : Operations, scope : Scopes]
Keys == Operations \X Scopes

\* A result: of a real call made for the slice "of".
Kinds == {"value", "error"}
Results == [kind : Kinds, of : Scopes]

\* The request, or the result, of a caller that has none.
Nothing == [kind |-> "none"]

\* "waiting": a follower on inflight.done.wait(); "woken": it has been woken by
\* a leader without a result, and goes round its loop again.
Phases == {"idle", "leading", "waiting", "woken", "served"}

Init ==
    /\ stored = <<>>
    /\ inflight = [k \in Keys |-> NoCaller]
    /\ phase = [c \in Callers |-> "idle"]
    /\ request = [c \in Callers |-> Nothing]
    /\ got = [c \in Callers |-> Nothing]
    /\ left = [c \in Callers |-> Budget]
    /\ since = [k \in Keys |-> TTL]

-----------------------------------------------------------------------------
(* The store *)

\* Mutant: the key leaves out the scope.
KeyWithoutScope(r) == <<r.op, CHOOSE s \in Scopes : TRUE>>

\* _key
KeyOf(r) == <<r.op, r.scope>>

\* Mutant: entries do not expire.
FreshForEver(n, k) == stored[n].key = k

\* _get: an entry is served until its expires_at.
FreshAt(n, k) == stored[n].key = k /\ stored[n].age < TTL

\* The store without what it has for a key: one entry, if any.
Others(s, k) ==
    IF \E n \in DOMAIN s : s[n].key = k THEN RemoveAt(s, CHOOSE n \in DOMAIN s : s[n].key = k) ELSE s

\* _put: the new entry last, the oldest ones out.
Put(s, k, result) ==
    LET longer == Append(Others(s, k), [key |-> k, result |-> result, age |-> 0])
    IN  IF Len(longer) > MaxEntries THEN Tail(longer) ELSE longer

-----------------------------------------------------------------------------
(* call: the loop, from a lookup to the next await or return *)

\* A hit moves the entry to the end of the LRU, and leaves its expiry alone.
Hit(c, k) ==
    \E n \in DOMAIN stored :
        /\ FreshAt(n, k)
        /\ stored' = Append(RemoveAt(stored, n), stored[n])
        /\ phase' = [phase EXCEPT ![c] = "served"]
        /\ got' = [got EXCEPT ![c] = stored[n].result]
        /\ UNCHANGED inflight

Miss(k) ==
    /\ \A n \in DOMAIN stored : ~FreshAt(n, k)
    /\ stored' = Others(stored, k)

Follow(c, k) ==
    /\ Miss(k)
    /\ inflight[k] # NoCaller
    /\ phase' = [phase EXCEPT ![c] = "waiting"]
    /\ UNCHANGED <<inflight, got>>

\* Mutant: whoever misses leads.
LeadAnyway(c, k) ==
    /\ Miss(k)
    /\ inflight' = [inflight EXCEPT ![k] = c]
    /\ phase' = [phase EXCEPT ![c] = "leading"]
    /\ UNCHANGED got

\* No await since the miss: the caller becomes the leader.
Lead(c, k) ==
    /\ Miss(k)
    /\ inflight[k] = NoCaller
    /\ inflight' = [inflight EXCEPT ![k] = c]
    /\ phase' = [phase EXCEPT ![c] = "leading"]
    /\ UNCHANGED got

Lookup(c, k) == Hit(c, k) \/ Follow(c, k) \/ Lead(c, k)

Call(c, r) ==
    /\ phase[c] = "idle"
    /\ request' = [request EXCEPT ![c] = r]
    /\ Lookup(c, KeyOf(r))
    /\ left' = [left EXCEPT ![c] = Budget]
    /\ UNCHANGED since

Retry(c) ==
    /\ phase[c] = "woken"
    /\ Lookup(c, KeyOf(request[c]))
    /\ UNCHANGED <<request, left, since>>

-----------------------------------------------------------------------------
(* _lead: the real call ends.  inflight.done.set() wakes every follower of  *)
(* the key; what they read then was fixed before it.                        *)

Followers(k) == {d \in Callers : phase[d] = "waiting" /\ KeyOf(request[d]) = k}

Land(c, result) ==
    LET k == KeyOf(request[c])
    IN  /\ inflight' = [inflight EXCEPT ![k] = NoCaller]
        /\ phase' = [d \in Callers |->
                        IF d = c \/ d \in Followers(k) THEN "served" ELSE phase[d]]
        /\ got' = [d \in Callers |->
                        IF d = c \/ d \in Followers(k) THEN result ELSE got[d]]
        /\ UNCHANGED <<request, left>>

Kept(kind) == kind = "value" \/ CacheErrors

\* The timeout link raises in place of a value that comes too late.
Complete(c, kind) ==
    LET k == KeyOf(request[c])
        result == [kind |-> kind, of |-> request[c].scope]
    IN  /\ phase[c] = "leading"
        /\ kind = "value" => left[c] >= 0
        /\ IF Kept(kind)
              THEN stored' = Put(stored, k, result) /\ since' = [since EXCEPT ![k] = 0]
              ELSE UNCHANGED <<stored, since>>
        /\ Land(c, result)

Rest(c) ==
    /\ phase' = [phase EXCEPT ![c] = "idle"]
    /\ request' = [request EXCEPT ![c] = Nothing]

\* Mutant: a cancelled leader leaves its flight behind.
CancelLeaderNoFinally(c) ==
    /\ c \in Cancellable
    /\ phase[c] = "leading"
    /\ Rest(c)
    /\ UNCHANGED <<link, got, left, since>>

\* A cancelled leader has no result: its followers look again.
CancelLeader(c) ==
    LET k == KeyOf(request[c])
    IN  /\ c \in Cancellable
        /\ phase[c] = "leading"
        /\ inflight' = [inflight EXCEPT ![k] = NoCaller]
        /\ phase' = [d \in Callers |->
                        IF d = c THEN "idle"
                        ELSE IF d \in Followers(k) THEN "woken" ELSE phase[d]]
        /\ request' = [request EXCEPT ![c] = Nothing]
        /\ UNCHANGED <<stored, got, left, since>>

CancelFollower(c) ==
    /\ c \in Cancellable
    /\ phase[c] \in {"waiting", "woken"}
    /\ Rest(c)
    /\ UNCHANGED <<link, got, left, since>>

\* The caller takes what it was given: a value, or an error that is raised.
Leave(c) ==
    /\ phase[c] = "served"
    /\ Rest(c)
    /\ got' = [got EXCEPT ![c] = Nothing]
    /\ UNCHANGED <<link, left, since>>

-----------------------------------------------------------------------------

Pending(c) == phase[c] \in {"leading", "waiting", "woken"}

\* The timeout link inside the real call of a leader raises when its deadline
\* comes: time does not pass it.  The wait of a follower has no such bound.
Tick ==
    /\ \/ \E n \in DOMAIN stored : stored[n].age < TTL
       \/ \E c \in Budgeted : Pending(c) /\ left[c] >= 0
    /\ \A c \in Budgeted : phase[c] = "leading" => left[c] > 0
    /\ stored' = [n \in DOMAIN stored |->
                    [stored[n] EXCEPT !.age = IF @ < TTL THEN @ + 1 ELSE @]]
    /\ left' = [c \in Callers |->
                    IF c \in Budgeted /\ Pending(c) /\ left[c] >= 0 THEN left[c] - 1 ELSE left[c]]
    /\ since' = [k \in Keys |-> IF since[k] < TTL THEN since[k] + 1 ELSE TTL]
    /\ UNCHANGED <<inflight, phase, request, got>>

Next ==
    \/ \E c \in Callers :
          \/ \E r \in Requests : Call(c, r)
          \/ Retry(c)
          \/ \E kind \in Kinds : Complete(c, kind)
          \/ CancelLeader(c) \/ CancelFollower(c) \/ Leave(c)
    \/ Tick

Spec == Init /\ [][Next]_vars

\* A woken task runs, and a real call ends (the timeout link inside it).
Fairness ==
    \A c \in Callers :
        /\ WF_vars(Retry(c))
        /\ WF_vars(\E kind \in Kinds : Complete(c, kind))

LiveSpec == Spec /\ Fairness

-----------------------------------------------------------------------------
(* Properties *)

\* "Concurrent misses on one key make a single real call": counted by the calls
\* themselves, whatever happened to the leaders and to _inflight before.
SingleFlight ==
    \A c, d \in Callers :
        (phase[c] = "leading" /\ phase[d] = "leading"
           /\ KeyOf(request[c]) = KeyOf(request[d])) => c = d

\* "Even a shared store cannot leak between slices": what a caller is given, hit
\* or coalesced, was computed for its own slice.
NoLeakBetweenSlices ==
    \A c \in Callers : phase[c] = "served" => got[c].of = request[c].scope

\* A result is not served from the store TTL or longer after its real call has
\* ended, however often it has been hit since.
NeverServesExpired ==
    [][\A c \in Callers :
         phase[c] \in {"idle", "woken"} /\ phase'[c] = "served"
           => since[KeyOf(request'[c])] < TTL]_vars

\* No follower is left waiting: its leader lands, or is cancelled, and then one of
\* the followers leads in its place.  (Were leaders cancelled for ever, a follower
\* might find another one before it each time it looks.)
FollowersAreServed ==
    <>[][\A d \in Callers : ~CancelLeader(d)]_vars =>
        \A c \in Callers :
            (phase[c] \in {"waiting", "woken"}) ~> (phase[c] \notin {"waiting", "woken"})

\* "An overall deadline for the whole call" (Container.invoke): no call is under
\* way when its deadline has passed.
BudgetRespected ==
    \A c \in Budgeted : Pending(c) => left[c] >= 0

=============================================================================
