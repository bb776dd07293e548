----------------------------- MODULE Cache_proofs -----------------------------
(***************************************************************************)
(* One flight per key, isolation of slices and freshness, for every bound, *)
(* and every set of callers, operations and slices.                        *)
(***************************************************************************)
EXTENDS Cache, TLAPS

Entry == [key : Keys, result : Results, age : 0..TTL]

TypeOK ==
    /\ stored \in Seq(Entry)
    /\ inflight \in [Keys -> Callers \union {NoCaller}]
    /\ phase \in [Callers -> Phases]
    /\ request \in [Callers -> Requests \union {Nothing}]
    /\ got \in [Callers -> Results \union {Nothing}]
    /\ since \in [Keys -> 0..TTL]

\* Whoever is not idle has asked for something.
AsksInv == \A c \in Callers : phase[c] # "idle" => request[c] \in Requests

\* The flight of a key is that of the caller that leads it.
LeadersInv == \A c \in Callers : phase[c] = "leading" => inflight[KeyOf(request[c])] = c

\* An entry is of the slice in its key, and no younger than the last result for the key.
GoodEntry(entry, ages) ==
    entry.result.of = entry.key[2] /\ ages[entry.key] <= entry.age

StoredInv == \A n \in DOMAIN stored : GoodEntry(stored[n], since)

IInv == TypeOK /\ AsksInv /\ LeadersInv /\ StoredInv /\ NoLeakBetweenSlices

\* What Call and Retry have in common
LookupStep(c, r) ==
    /\ phase[c] \in {"idle", "woken"}
    /\ request' = [request EXCEPT ![c] = r]
    /\ Lookup(c, KeyOf(r))
    /\ UNCHANGED since

-----------------------------------------------------------------------------
(* The store *)

LEMMA KeyOfType == \A r \in Requests : KeyOf(r) \in Keys /\ KeyOf(r)[2] = r.scope /\ r.scope \in Scopes
  BY DEF KeyOf, Keys, Requests

\* Nothing new comes into a store from which an entry is taken.
LEMMA RemoveAtEntries ==
  ASSUME NEW s \in Seq(Entry), NEW n \in DOMAIN s
  PROVE  /\ RemoveAt(s, n) \in Seq(Entry)
         /\ \A m \in DOMAIN RemoveAt(s, n) : \E j \in DOMAIN s : RemoveAt(s, n)[m] = s[j]
  <1>1. n \in 1..Len(s) /\ Len(s) \in Nat
    OBVIOUS
  <1> DEFINE front == SubSeq(s, 1, n - 1)
             back == SubSeq(s, n + 1, Len(s))
  <1>2. front \in Seq(Entry) /\ Len(front) = n - 1 /\ \A i \in 1..(n - 1) : front[i] = s[i]
    BY <1>1
  <1>3. /\ back \in Seq(Entry) /\ Len(back) = Len(s) - n
        /\ \A i \in 1..(Len(s) - n) : back[i] = s[i + n]
    BY <1>1
  <1>4. RemoveAt(s, n) = front \o back
    BY DEF RemoveAt
  <1> HIDE DEF front, back
  <1>5. /\ RemoveAt(s, n) \in Seq(Entry) /\ Len(RemoveAt(s, n)) = Len(s) - 1
        /\ \A m \in 1..(Len(s) - 1) : RemoveAt(s, n)[m] = IF m < n THEN s[m] ELSE s[m + 1]
    BY <1>1, <1>2, <1>3, <1>4
  <1>6. ASSUME NEW m \in DOMAIN RemoveAt(s, n) PROVE \E j \in DOMAIN s : RemoveAt(s, n)[m] = s[j]
    <2>1. m \in 1..(Len(s) - 1)
      BY <1>1, <1>5, <1>6
    <2>2. CASE m < n
      <3>1. m \in DOMAIN s /\ RemoveAt(s, n)[m] = s[m]
        BY <1>1, <1>5, <2>1, <2>2
      <3> QED
        BY <3>1
    <2>3. CASE ~(m < n)
      <3>1. m + 1 \in DOMAIN s /\ RemoveAt(s, n)[m] = s[m + 1]
        BY <1>1, <1>5, <2>1, <2>3
      <3> QED
        BY <3>1
    <2> QED
      BY <2>2, <2>3
  <1> QED
    BY <1>5, <1>6

LEMMA OthersEntries ==
  ASSUME NEW s \in Seq(Entry), NEW k
  PROVE  /\ Others(s, k) \in Seq(Entry)
         /\ \A m \in DOMAIN Others(s, k) : \E j \in DOMAIN s : Others(s, k)[m] = s[j]
  BY RemoveAtEntries DEF Others

LEMMA AppendEntries ==
  ASSUME NEW s \in Seq(Entry), NEW e \in Entry
  PROVE  /\ Append(s, e) \in Seq(Entry)
         /\ \A m \in DOMAIN Append(s, e) : Append(s, e)[m] = e \/ \E j \in DOMAIN s : Append(s, e)[m] = s[j]
  <1>1. /\ Append(s, e) \in Seq(Entry) /\ Len(Append(s, e)) = Len(s) + 1 /\ Len(s) \in Nat
        /\ Append(s, e)[Len(s) + 1] = e
        /\ \A m \in 1..Len(s) : Append(s, e)[m] = s[m]
        /\ DOMAIN Append(s, e) = 1..(Len(s) + 1) /\ DOMAIN s = 1..Len(s)
    OBVIOUS
  <1> QED
    BY <1>1

LEMMA PutEntries ==
  ASSUME NEW s \in Seq(Entry), NEW k \in Keys, NEW result \in Results, CacheAssumption
  PROVE  /\ Put(s, k, result) \in Seq(Entry)
         /\ \A m \in DOMAIN Put(s, k, result) :
               \/ Put(s, k, result)[m] = [key |-> k, result |-> result, age |-> 0]
               \/ \E j \in DOMAIN s : Put(s, k, result)[m] = s[j]
  <1> DEFINE e == [key |-> k, result |-> result, age |-> 0]
             longer == Append(Others(s, k), e)
  <1>1. e \in Entry
    BY CacheAssumption DEF Entry
  <1>2. /\ longer \in Seq(Entry)
        /\ \A m \in DOMAIN longer : longer[m] = e \/ \E j \in DOMAIN s : longer[m] = s[j]
    <2>1. /\ Others(s, k) \in Seq(Entry)
          /\ \A m \in DOMAIN Others(s, k) : \E j \in DOMAIN s : Others(s, k)[m] = s[j]
      BY OthersEntries
    <2>2. /\ longer \in Seq(Entry)
          /\ \A m \in DOMAIN longer : longer[m] = e \/ \E j \in DOMAIN Others(s, k) : longer[m] = Others(s, k)[j]
      BY <1>1, <2>1, AppendEntries
    <2> QED
      BY <2>1, <2>2
  <1>3. longer # <<>>
    <2>1. Others(s, k) \in Seq(Entry)
      BY OthersEntries
    <2> QED
      BY <2>1
  <1> HIDE DEF longer
  <1>4. /\ Tail(longer) \in Seq(Entry)
        /\ \A m \in DOMAIN Tail(longer) : m + 1 \in DOMAIN longer /\ Tail(longer)[m] = longer[m + 1]
    BY <1>2, <1>3
  <1>5. Put(s, k, result) = IF Len(longer) > MaxEntries THEN Tail(longer) ELSE longer
    BY DEF Put, longer
  <1>6. CASE Len(longer) > MaxEntries
    BY <1>2, <1>4, <1>5, <1>6
  <1>7. CASE ~(Len(longer) > MaxEntries)
    BY <1>2, <1>5, <1>7
  <1> QED
    BY <1>6, <1>7

-----------------------------------------------------------------------------
(* The invariant *)

\* The store after a step: of its own entries, no older than they were.
LEMMA StoreKept ==
  ASSUME NEW s \in Seq(Entry), StoredInv,
         \A m \in DOMAIN s : \E j \in DOMAIN stored : s[m] = stored[j]
  PROVE  \A m \in DOMAIN s : GoodEntry(s[m], since)
  BY DEF StoredInv

LEMMA Start == ASSUME Init, CacheAssumption PROVE IInv
  <1>1. TypeOK
    BY DEF Init, TypeOK, Phases
  <1> QED
    BY <1>1 DEF Init, IInv, AsksInv, LeadersInv, StoredInv, NoLeakBetweenSlices

LEMMA LookupKeeps ==
  ASSUME CacheAssumption, IInv, NEW c \in Callers, NEW r \in Requests, LookupStep(c, r)
  PROVE  IInv'
  <1> DEFINE k == KeyOf(r)
  <1>k. k \in Keys /\ k[2] = r.scope /\ r.scope \in Scopes
    BY KeyOfType
  <1> HIDE DEF k
  <1>0. /\ TypeOK /\ AsksInv /\ LeadersInv /\ StoredInv /\ NoLeakBetweenSlices
        /\ request' = [request EXCEPT ![c] = r] /\ since' = since
        /\ phase[c] \in {"idle", "woken"}
        /\ Hit(c, k) \/ Follow(c, k) \/ Lead(c, k)
    BY DEF IInv, LookupStep, Lookup, k
  <1>1. /\ request' \in [Callers -> Requests \union {Nothing}]
        /\ request'[c] = r /\ \A d \in Callers \ {c} : request'[d] = request[d]
    BY <1>0 DEF TypeOK
  <1>2. CASE Hit(c, k)
    <2>1. PICK n \in DOMAIN stored :
            /\ FreshAt(n, k)
            /\ stored' = Append(RemoveAt(stored, n), stored[n])
            /\ phase' = [phase EXCEPT ![c] = "served"]
            /\ got' = [got EXCEPT ![c] = stored[n].result]
            /\ inflight' = inflight
      BY <1>2 DEF Hit
    <2>2. stored \in Seq(Entry) /\ stored[n] \in Entry
      BY <1>0, <2>1 DEF TypeOK
    <2>3. /\ stored' \in Seq(Entry)
          /\ \A m \in DOMAIN stored' : \E j \in DOMAIN stored : stored'[m] = stored[j]
      <3>1. /\ RemoveAt(stored, n) \in Seq(Entry)
            /\ \A m \in DOMAIN RemoveAt(stored, n) : \E j \in DOMAIN stored : RemoveAt(stored, n)[m] = stored[j]
        BY <2>1, <2>2, RemoveAtEntries
      <3>2. \A m \in DOMAIN stored' : stored'[m] = stored[n] \/ \E j \in DOMAIN RemoveAt(stored, n) : stored'[m] = RemoveAt(stored, n)[j]
        BY <2>1, <2>2, <3>1, AppendEntries
      <3>3. stored' \in Seq(Entry)
        BY <2>1, <2>2, <3>1, AppendEntries
      <3> QED
        BY <2>1, <3>1, <3>2, <3>3
    <2>4. StoredInv'
      BY <1>0, <2>3, StoreKept DEF StoredInv
    <2>5. stored[n].result \in Results /\ stored[n].result.of = r.scope
      BY <1>0, <1>k, <2>1, <2>2 DEF StoredInv, GoodEntry, FreshAt, Entry
    <2>6. TypeOK'
      BY <1>0, <1>1, <2>1, <2>3, <2>5 DEF TypeOK, Phases
    <2>7. AsksInv' /\ LeadersInv'
      BY <1>0, <1>1, <2>1 DEF AsksInv, LeadersInv, TypeOK
    <2>8. NoLeakBetweenSlices'
      BY <1>0, <1>1, <2>1, <2>5 DEF NoLeakBetweenSlices, TypeOK
    <2> QED
      BY <2>4, <2>6, <2>7, <2>8 DEF IInv
  <1>3. ASSUME Miss(k) PROVE stored' \in Seq(Entry) /\ StoredInv'
    <2>1. /\ stored' \in Seq(Entry)
          /\ \A m \in DOMAIN stored' : \E j \in DOMAIN stored : stored'[m] = stored[j]
      BY <1>0, <1>3, OthersEntries DEF Miss, TypeOK
    <2> QED
      BY <1>0, <2>1, StoreKept DEF StoredInv
  <1>4. CASE Follow(c, k)
    <2>1. /\ Miss(k) /\ phase' = [phase EXCEPT ![c] = "waiting"]
          /\ inflight' = inflight /\ got' = got
      BY <1>4 DEF Follow
    <2>2. TypeOK'
      BY <1>0, <1>1, <1>3, <2>1 DEF TypeOK, Phases
    <2>3. AsksInv' /\ LeadersInv' /\ NoLeakBetweenSlices'
      BY <1>0, <1>1, <2>1 DEF AsksInv, LeadersInv, NoLeakBetweenSlices, TypeOK
    <2> QED
      BY <1>3, <2>1, <2>2, <2>3 DEF IInv
  <1>5. CASE Lead(c, k)
    <2>1. /\ Miss(k) /\ inflight[k] = NoCaller /\ got' = got
          /\ phase' = [phase EXCEPT ![c] = "leading"]
          /\ inflight' = [inflight EXCEPT ![k] = c]
      BY <1>5 DEF Lead
    <2>2. TypeOK'
      BY <1>0, <1>1, <1>3, <2>1 DEF TypeOK, Phases
    <2>3. AsksInv' /\ NoLeakBetweenSlices'
      BY <1>0, <1>1, <2>1 DEF AsksInv, NoLeakBetweenSlices, TypeOK
    <2>4. LeadersInv'
      <3>1. inflight'[k] = c
        BY <1>0, <1>k, <2>1 DEF TypeOK
      <3>2. ASSUME NEW d \in Callers \ {c}, phase'[d] = "leading"
            PROVE  inflight'[KeyOf(request[d])] = d
        <4>1. inflight[KeyOf(request[d])] = d
          BY <1>0, <2>1, <3>2 DEF LeadersInv, TypeOK
        <4>2. KeyOf(request[d]) # k
          BY <2>1, <4>1, CacheAssumption DEF CacheAssumption
        <4>3. KeyOf(request[d]) \in Keys
          BY <1>0, <2>1, <3>2, KeyOfType DEF AsksInv, TypeOK
        <4> QED
          BY <1>0, <2>1, <4>1, <4>2, <4>3 DEF TypeOK
      <3> QED
        BY <1>1, <3>1, <3>2 DEF LeadersInv, k
    <2> QED
      BY <1>3, <2>1, <2>2, <2>3, <2>4 DEF IInv
  <1> QED
    BY <1>0, <1>2, <1>4, <1>5

LEMMA CompleteKeeps ==
  ASSUME CacheAssumption, IInv, NEW c \in Callers, NEW kind \in Kinds, Complete(c, kind)
  PROVE  IInv'
  <1> DEFINE k == KeyOf(request[c])
             result == [kind |-> kind, of |-> request[c].scope]
  <1>0. /\ TypeOK /\ AsksInv /\ LeadersInv /\ StoredInv /\ NoLeakBetweenSlices
        /\ phase[c] = "leading" /\ request[c] \in Requests
    BY DEF IInv, Complete, AsksInv
  <1>k. k \in Keys /\ k[2] = request[c].scope /\ result \in Results /\ result.of = k[2]
    BY <1>0, KeyOfType DEF Results
  <1>1. /\ IF Kept(kind)
              THEN stored' = Put(stored, k, result) /\ since' = [since EXCEPT ![k] = 0]
              ELSE stored' = stored /\ since' = since
        /\ inflight' = [inflight EXCEPT ![k] = NoCaller]
        /\ phase' = [d \in Callers |-> IF d = c \/ d \in Followers(k) THEN "served" ELSE phase[d]]
        /\ got' = [d \in Callers |-> IF d = c \/ d \in Followers(k) THEN result ELSE got[d]]
        /\ request' = request
    BY DEF Complete, Land
  <1>2. \A d \in Followers(k) : d \in Callers /\ phase[d] = "waiting" /\ KeyOf(request[d]) = k
    BY DEF Followers
  <1> HIDE DEF k, result
  <1>3. stored' \in Seq(Entry) /\ since' \in [Keys -> 0..TTL] /\ StoredInv'
    <2>1. CASE Kept(kind)
      <3>1. /\ stored' \in Seq(Entry)
            /\ \A m \in DOMAIN stored' :
                 \/ stored'[m] = [key |-> k, result |-> result, age |-> 0]
                 \/ \E j \in DOMAIN stored : stored'[m] = stored[j]
        BY <1>0, <1>1, <1>k, <2>1, PutEntries DEF TypeOK
      <3>2. since' \in [Keys -> 0..TTL] /\ since'[k] = 0 /\ \A q \in Keys : q # k => since'[q] = since[q]
        BY <1>0, <1>1, <1>k, <2>1, CacheAssumption DEF TypeOK, CacheAssumption
      <3>3. ASSUME NEW m \in DOMAIN stored' PROVE GoodEntry(stored'[m], since')
        <4>1. CASE stored'[m] = [key |-> k, result |-> result, age |-> 0]
          BY <1>k, <3>2, <4>1 DEF GoodEntry
        <4>2. CASE \E j \in DOMAIN stored : stored'[m] = stored[j]
          <5>1. PICK j \in DOMAIN stored : stored'[m] = stored[j]
            BY <4>2
          <5>2. GoodEntry(stored[j], since) /\ stored[j] \in Entry
            BY <1>0 DEF StoredInv, TypeOK
          <5> QED
            BY <3>2, <5>1, <5>2 DEF GoodEntry, Entry
        <4> QED
          BY <3>1, <4>1, <4>2
      <3> QED
        BY <3>1, <3>2, <3>3 DEF StoredInv
    <2>2. CASE ~Kept(kind)
      BY <1>0, <1>1, <2>2 DEF TypeOK, StoredInv
    <2> QED
      BY <2>1, <2>2
  <1>4. TypeOK'
    BY <1>0, <1>1, <1>3, <1>k DEF TypeOK, Phases
  <1>5. AsksInv'
    BY <1>0, <1>1, <1>2 DEF AsksInv, TypeOK
  <1>6. LeadersInv'
    <2>1. ASSUME NEW d \in Callers, phase'[d] = "leading" PROVE inflight'[KeyOf(request'[d])] = d
      <3>1. d # c /\ phase[d] = "leading" /\ request'[d] = request[d]
        BY <1>1, <2>1
      <3>2. inflight[KeyOf(request[d])] = d /\ inflight[k] = c /\ KeyOf(request[d]) \in Keys
        BY <1>0, <3>1, KeyOfType DEF LeadersInv, AsksInv, k
      <3> QED
        BY <1>0, <1>1, <3>1, <3>2 DEF TypeOK
    <2> QED
      BY <2>1 DEF LeadersInv
  <1>7. NoLeakBetweenSlices'
    <2>1. ASSUME NEW d \in Callers, phase'[d] = "served" PROVE got'[d].of = request'[d].scope
      <3>1. CASE d = c
        BY <1>1, <1>k, <3>1
      <3>2. CASE d \in Followers(k)
        <4>1. request[d] \in Requests
          BY <1>0, <1>2, <3>2 DEF AsksInv
        <4>2. request[d].scope = k[2]
          BY <1>2, <3>2, <4>1, KeyOfType
        <4> QED
          BY <1>1, <1>k, <3>2, <4>2
      <3>3. CASE d # c /\ d \notin Followers(k)
        BY <1>0, <1>1, <2>1, <3>3 DEF NoLeakBetweenSlices
      <3> QED
        BY <3>1, <3>2, <3>3
    <2> QED
      BY <2>1 DEF NoLeakBetweenSlices
  <1> QED
    BY <1>3, <1>4, <1>5, <1>6, <1>7 DEF IInv

LEMMA CancelLeaderKeeps ==
  ASSUME CacheAssumption, IInv, NEW c \in Callers, CancelLeader(c)
  PROVE  IInv'
  <1> DEFINE k == KeyOf(request[c])
  <1>0. /\ TypeOK /\ AsksInv /\ LeadersInv /\ StoredInv /\ NoLeakBetweenSlices
        /\ phase[c] = "leading" /\ request[c] \in Requests
    BY DEF IInv, CancelLeader, AsksInv
  <1>1. /\ inflight' = [inflight EXCEPT ![k] = NoCaller]
        /\ phase' = [d \in Callers |-> IF d = c THEN "idle" ELSE IF d \in Followers(k) THEN "woken" ELSE phase[d]]
        /\ request' = [request EXCEPT ![c] = Nothing]
        /\ stored' = stored /\ got' = got /\ since' = since
    BY DEF CancelLeader
  <1>2. \A d \in Followers(k) : phase[d] = "waiting"
    BY DEF Followers
  <1>k. k \in Keys
    BY <1>0, KeyOfType
  <1> HIDE DEF k
  <1>3. TypeOK'
    BY <1>0, <1>1 DEF TypeOK, Phases
  <1>4. AsksInv' /\ NoLeakBetweenSlices' /\ StoredInv'
    BY <1>0, <1>1, <1>2 DEF AsksInv, NoLeakBetweenSlices, StoredInv, TypeOK
  <1>5. LeadersInv'
    <2>1. ASSUME NEW d \in Callers, phase'[d] = "leading" PROVE inflight'[KeyOf(request'[d])] = d
      <3>1. d # c /\ phase[d] = "leading" /\ request'[d] = request[d]
        BY <1>0, <1>1, <2>1 DEF TypeOK
      <3>2. inflight[KeyOf(request[d])] = d /\ inflight[k] = c /\ KeyOf(request[d]) \in Keys
        BY <1>0, <3>1, KeyOfType DEF LeadersInv, AsksInv, k
      <3> QED
        BY <1>0, <1>1, <3>1, <3>2 DEF TypeOK
    <2> QED
      BY <2>1 DEF LeadersInv
  <1> QED
    BY <1>3, <1>4, <1>5 DEF IInv

LEMMA TickKeeps ==
  ASSUME CacheAssumption, IInv, Tick
  PROVE  IInv'
  <1>0. /\ TypeOK /\ AsksInv /\ LeadersInv /\ StoredInv /\ NoLeakBetweenSlices
        /\ inflight' = inflight /\ phase' = phase /\ request' = request /\ got' = got
        /\ stored' = [n \in DOMAIN stored |-> [stored[n] EXCEPT !.age = IF @ < TTL THEN @ + 1 ELSE @]]
        /\ since' = [k \in Keys |-> IF since[k] < TTL THEN since[k] + 1 ELSE TTL]
    BY DEF IInv, Tick
  <1>1. since' \in [Keys -> 0..TTL]
    BY <1>0, CacheAssumption DEF CacheAssumption, TypeOK
  <1>2. ASSUME NEW n \in DOMAIN stored
        PROVE  stored'[n] \in Entry /\ GoodEntry(stored'[n], since')
    <2>1. stored[n] \in Entry /\ GoodEntry(stored[n], since)
      BY <1>0 DEF TypeOK, StoredInv
    <2>2. /\ stored'[n].key = stored[n].key /\ stored'[n].result = stored[n].result
          /\ stored'[n].age = IF stored[n].age < TTL THEN stored[n].age + 1 ELSE stored[n].age
          /\ stored'[n] = [key |-> stored'[n].key, result |-> stored'[n].result, age |-> stored'[n].age]
      BY <1>0, <2>1 DEF Entry
    <2>3. stored'[n].age \in 0..TTL /\ stored[n].key \in Keys /\ stored[n].age \in 0..TTL
      BY <2>1, <2>2, CacheAssumption DEF Entry, CacheAssumption
    <2>4. since'[stored[n].key] <= stored'[n].age
      BY <1>0, <2>1, <2>2, <2>3, CacheAssumption DEF GoodEntry, CacheAssumption, TypeOK
    <2> QED
      BY <2>1, <2>2, <2>3, <2>4 DEF Entry, GoodEntry
  <1>3. stored' \in Seq(Entry) /\ DOMAIN stored' = DOMAIN stored
    <2> DEFINE f == [n \in 1..Len(stored) |-> [stored[n] EXCEPT !.age = IF @ < TTL THEN @ + 1 ELSE @]]
    <2>0. Len(stored) \in Nat /\ DOMAIN stored = 1..Len(stored)
      BY <1>0 DEF TypeOK
    <2>f. stored' = f
      BY <1>0, <2>0
    <2>1. \A n \in 1..Len(stored) : f[n] \in Entry
      <3> HIDE DEF f
      <3> QED
        BY <1>2, <2>0, <2>f
    <2> HIDE DEF f
    <2>2. DOMAIN f = 1..Len(stored) /\ f = [n \in 1..Len(stored) |-> f[n]]
      BY DEF f
    <2>3. f \in [1..Len(stored) -> Entry]
      BY <2>1, <2>2
    <2>4. f \in Seq(Entry)
      BY <2>0, <2>3
    <2> QED
      BY <2>0, <2>f, <2>2, <2>4
  <1> QED
    BY <1>0, <1>1, <1>2, <1>3
    DEF IInv, TypeOK, AsksInv, LeadersInv, StoredInv, NoLeakBetweenSlices

LEMMA Keeps == ASSUME CacheAssumption, IInv, [Next]_vars PROVE IInv'
  <1>1. ASSUME NEW c \in Callers, NEW r \in Requests, Call(c, r) PROVE IInv'
    BY <1>1, LookupKeeps DEF Call, LookupStep
  <1>2. ASSUME NEW c \in Callers, Retry(c) PROVE IInv'
    <2>1. request[c] \in Requests /\ request' = [request EXCEPT ![c] = request[c]]
      BY <1>2 DEF IInv, AsksInv, Retry, TypeOK
    <2>2. LookupStep(c, request[c])
      BY <1>2, <2>1 DEF Retry, LookupStep
    <2> QED
      BY <2>1, <2>2, LookupKeeps
  <1>3. ASSUME NEW c \in Callers, CancelFollower(c) \/ Leave(c) PROVE IInv'
    <2>1. /\ TypeOK /\ AsksInv /\ LeadersInv /\ StoredInv /\ NoLeakBetweenSlices
          /\ phase[c] # "leading"
          /\ phase' = [phase EXCEPT ![c] = "idle"] /\ request' = [request EXCEPT ![c] = Nothing]
          /\ stored' = stored /\ inflight' = inflight /\ since' = since
          /\ got' = got \/ got' = [got EXCEPT ![c] = Nothing]
      BY <1>3 DEF CancelFollower, Leave, Rest, link, IInv
    <2>2. TypeOK'
      BY <2>1 DEF TypeOK, Phases
    <2>3. AsksInv' /\ LeadersInv' /\ StoredInv'
      BY <2>1 DEF AsksInv, LeadersInv, StoredInv, TypeOK
    <2>4. NoLeakBetweenSlices'
      BY <2>1 DEF NoLeakBetweenSlices, TypeOK
    <2> QED
      BY <2>2, <2>3, <2>4 DEF IInv
  <1>4. CASE UNCHANGED vars
    BY <1>4 DEF vars, link, IInv, TypeOK, AsksInv, LeadersInv, StoredInv, NoLeakBetweenSlices
  <1>5. ASSUME NEW c \in Callers, NEW kind \in Kinds, Complete(c, kind) PROVE IInv'
    BY <1>5, CompleteKeeps
  <1>6. ASSUME NEW c \in Callers, CancelLeader(c) PROVE IInv'
    BY <1>6, CancelLeaderKeeps
  <1>7. CASE Tick
    BY <1>7, TickKeeps
  <1> QED
    BY <1>1, <1>2, <1>3, <1>4, <1>5, <1>6, <1>7 DEF Next

LEMMA Invariant == Spec => []IInv
  <1>1. Init => IInv
    BY Start, CacheAssumption
  <1>2. IInv /\ [Next]_vars => IInv'
    BY Keeps, CacheAssumption
  <1> QED
    BY <1>1, <1>2, PTL DEF Spec

-----------------------------------------------------------------------------
(* What a caller may rely on *)

\* Misses on one key make a single real call, whoever is cancelled meanwhile: the
\* calls under way are the flights (CacheLink.call, _lead).
THEOREM OneFlightPerKey == Spec => []SingleFlight
  <1>1. IInv => SingleFlight
    BY DEF IInv, LeadersInv, SingleFlight
  <1> QED
    BY <1>1, Invariant, PTL

\* What a caller is given, from the store or from the flight of another one, was
\* computed for its own slice (_key).
THEOREM SlicesApart == Spec => []NoLeakBetweenSlices
  <1>1. IInv => NoLeakBetweenSlices
    BY DEF IInv
  <1> QED
    BY <1>1, Invariant, PTL

\* No lookup serves a result TTL or more after the real call that made it (_get).
THEOREM ServesFresh == Spec => NeverServesExpired
  <1>1. ASSUME IInv, NEW c \in Callers, NEW r \in Requests, LookupStep(c, r), phase'[c] = "served"
        PROVE  since[KeyOf(request'[c])] < TTL
    <2>1. TypeOK /\ StoredInv /\ request'[c] = r
      BY <1>1 DEF IInv, LookupStep, TypeOK
    <2>2. Hit(c, KeyOf(r))
      BY <1>1, <2>1 DEF LookupStep, Lookup, Follow, Lead, TypeOK
    <2>3. PICK n \in DOMAIN stored : stored[n].key = KeyOf(r) /\ stored[n].age < TTL
      BY <2>2 DEF Hit, FreshAt
    <2>4. stored[n] \in Entry /\ since[KeyOf(r)] <= stored[n].age /\ KeyOf(r) \in Keys
      BY <2>1, <2>3, KeyOfType DEF StoredInv, GoodEntry, TypeOK
    <2> QED
      BY <2>1, <2>3, <2>4, CacheAssumption DEF Entry, CacheAssumption, TypeOK
  <1>2. ASSUME IInv, [Next]_vars, NEW c \in Callers, phase[c] \in {"idle", "woken"}, phase'[c] = "served"
        PROVE  \E r \in Requests : LookupStep(c, r)
    <2>0. TypeOK /\ AsksInv
      BY <1>2 DEF IInv
    <2>1. ASSUME NEW d \in Callers, NEW r \in Requests, Call(d, r) PROVE \E q \in Requests : LookupStep(c, q)
      <3>1. phase' = phase \/ \E p \in Phases : phase' = [phase EXCEPT ![d] = p]
        BY <2>1 DEF Call, Lookup, Hit, Follow, Lead, Phases
      <3>2. c = d
        BY <1>2, <2>0, <3>1 DEF TypeOK
      <3> QED
        BY <2>1, <3>2 DEF Call, LookupStep
    <2>2. ASSUME NEW d \in Callers, Retry(d) PROVE \E q \in Requests : LookupStep(c, q)
      <3>1. phase' = phase \/ \E p \in Phases : phase' = [phase EXCEPT ![d] = p]
        BY <2>2 DEF Retry, Lookup, Hit, Follow, Lead, Phases
      <3>2. c = d
        BY <1>2, <2>0, <3>1 DEF TypeOK
      <3>3. request[c] \in Requests /\ request' = [request EXCEPT ![c] = request[c]]
        BY <2>0, <2>2, <3>2 DEF AsksInv, Retry, TypeOK
      <3> QED
        BY <2>2, <3>2, <3>3 DEF Retry, LookupStep
    <2>3. ASSUME NEW d \in Callers, NEW kind \in Kinds, Complete(d, kind) PROVE FALSE
      <3>1. /\ phase[d] = "leading"
            /\ phase' = [x \in Callers |-> IF x = d \/ x \in Followers(KeyOf(request[d])) THEN "served" ELSE phase[x]]
        BY <2>3 DEF Complete, Land
      <3>2. \A x \in Followers(KeyOf(request[d])) : phase[x] = "waiting"
        BY DEF Followers
      <3> QED
        BY <1>2, <3>1, <3>2
    <2>4. ASSUME NEW d \in Callers, CancelLeader(d) PROVE FALSE
      BY <1>2, <2>4 DEF CancelLeader
    <2>5. ASSUME NEW d \in Callers, CancelFollower(d) \/ Leave(d) PROVE FALSE
      BY <1>2, <2>0, <2>5 DEF CancelFollower, Leave, Rest, TypeOK
    <2>6. CASE Tick \/ UNCHANGED vars
      BY <1>2, <2>6 DEF Tick, vars
    <2> QED
      BY <1>2, <2>1, <2>2, <2>3, <2>4, <2>5, <2>6 DEF Next
  <1>3. IInv /\ [Next]_vars =>
          \A c \in Callers : phase[c] \in {"idle", "woken"} /\ phase'[c] = "served"
                               => since[KeyOf(request'[c])] < TTL
    BY <1>1, <1>2
  <1> QED
    BY <1>3, Invariant, PTL DEF Spec, NeverServesExpired
=============================================================================
