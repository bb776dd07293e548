--------------------------- MODULE Pipeline_proofs ---------------------------
(***************************************************************************)
(* Slots, deadlines, attempts and masked errors of calls through a chain,  *)
(* for every chain, all limits, budgets and slices, and any callers.       *)
(***************************************************************************)
EXTENDS Pipeline, FiniteSetTheorems, TLAPS

Slots(s) == IF s = "outer" THEN OuterLimit ELSE InnerLimit
Holders(s) == {k \in Callers : s \in holds[k]}

\* A call is where its link is.
PlaceInv(k) ==
    /\ at[k] \in {"idle", "done"} => limit[k] = Never
    /\ at[k] = "idle" => pos[k] = 0
    /\ at[k] = "down" => pos[k] \in 1..(Len(chain) + 1)
    /\ at[k] = "wait" => In(k, "concurrency")
    /\ at[k] = "backoff" => In(k, "retry") /\ attempt[k] < Attempts
    /\ at[k] = "base" => pos[k] = Len(chain) + 1
    /\ at[k] = "up" => pos[k] \in 0..Len(chain)
    /\ at[k] \in {"down", "wait", "backoff"} => out[k] = "none"

\* A call that may come to its base call again
Blamed(k) ==
    \/ at[k] \in {"down", "wait", "backoff"}
    \/ at[k] = "up" /\ pos[k] > 0 /\ (out[k] = "scope" \/ Retryable(out[k]))

\* No base call without an attempt, and no second one without a reason
TriesInv(k) ==
    /\ tries[k] <= attempt[k]
    /\ at[k] = "idle" => tries[k] = 0
    /\ at[k] \in {"down", "wait"} => tries[k] < attempt[k]
    /\ tries[k] > 0 /\ Blamed(k) => last[k] \in {RetryOn, "cut"}

\* If permanent errors are not retried, one goes up as it is.
ErrorInv(k) ==
    RetryOn = "transient" /\ last[k] = "permanent" => at[k] = "up" /\ out[k] = "permanent"

\* Whoever may wait is woken in time: by its scope, or as its pause is short enough.
TimeInv(k) ==
    /\ Active(k) => /\ limit[k] # Never /\ left[k] # Never => limit[k] <= left[k]
                    /\ \A i \in DOMAIN chain : chain[i] = "timeout" /\ i < pos[k] => limit[k] # Never
                    /\ Has("timeout") => left[k] # -1
    /\ at[k] = "backoff" /\ left[k] # Never => wake[k] < left[k]

\* In the concurrency link, or further down
Below(k) ==
    \E i \in DOMAIN chain : /\ chain[i] = "concurrency"
                            /\ i < pos[k] \/ (i = pos[k] /\ at[k] \in {"wait", "up"})

HoldsInv(k) ==
    /\ holds[k] # {} => Active(k) /\ Below(k)
    /\ holds[k] \subseteq {SliceOf[k], "outer"}
    /\ at[k] = "wait" => IF want[k] = "outer" THEN SliceOf[k] \in holds[k]
                         ELSE want[k] = SliceOf[k] /\ "outer" \notin holds[k]

\* Only who waits for a slot, once, is in its queue.
Queued(s) ==
    /\ \A i \in DOMAIN queue[s] :
          at[queue[s][i]] = "wait" /\ want[queue[s][i]] = s /\ s \notin holds[queue[s][i]]
    /\ \A i, j \in DOMAIN queue[s] : queue[s][i] = queue[s][j] => i = j

Counted(s) == value[s] + Cardinality(Holders(s)) = Slots(s)

CallInv(k) == PlaceInv(k) /\ TriesInv(k) /\ ErrorInv(k) /\ TimeInv(k)
CallsInv == \A k \in Callers : CallInv(k)
SlotsInv == (\A k \in Callers : HoldsInv(k)) /\ \A s \in Semaphores : Queued(s) /\ Counted(s)

\* TypeOK without the bound of the free slots, which is in Counted
Types ==
    /\ chain \in {w.chain : w \in Workloads}
    /\ at \in [Callers -> {"idle", "down", "wait", "backoff", "base", "up", "done"}]
    /\ pos \in [Callers -> 0..(Len(chain) + 1)]
    /\ out \in [Callers -> Outcomes]
    /\ left \in [Callers -> Int \union {Never}] /\ limit \in [Callers -> Nat \union {Never}]
    /\ wake \in [Callers -> 0..MaxDelay] /\ attempt \in [Callers -> 1..Attempts]
    /\ want \in [Callers -> Semaphores] /\ holds \in [Callers -> SUBSET Semaphores]
    /\ value \in [Semaphores -> Nat]
    /\ queue \in [Semaphores -> Seq(Callers)]
    /\ parent \in [Callers -> Callers \union {NoCaller}]
    /\ last \in [Callers -> {"none", "ok", "transient", "permanent", "cut"}]
    /\ tries \in [Callers -> 0..Attempts]

IInv == Types /\ CallsInv /\ SlotsInv

-----------------------------------------------------------------------------
(* The chain, and what a step leaves alone *)

LEMMA ChainFacts ==
  ASSUME Types
  PROVE  /\ chain \in Seq(Links) /\ Len(chain) \in Nat /\ DOMAIN chain = 1..Len(chain)
         /\ \A i, j \in DOMAIN chain : chain[i] = chain[j] => i = j
         /\ \A i \in DOMAIN chain : chain[i] = "degradation" => i = 1
  BY ChainsAssumption DEF Types

LEMMA CallTypes ==
  ASSUME Types, NEW k \in Callers
  PROVE  /\ at[k] \in {"idle", "down", "wait", "backoff", "base", "up", "done"}
         /\ pos[k] \in 0..(Len(chain) + 1) /\ pos[k] \in Nat /\ out[k] \in Outcomes
         /\ left[k] \in Int \union {Never} /\ limit[k] \in Nat \union {Never}
         /\ wake[k] \in 0..MaxDelay /\ wake[k] \in Nat
         /\ attempt[k] \in 1..Attempts /\ attempt[k] \in Nat /\ tries[k] \in Nat /\ Attempts \in Nat
         /\ last[k] \in {"none", "ok", "transient", "permanent", "cut"}
         /\ Never \notin Int
  <1>1. Attempts \in Nat /\ MaxDelay \in Nat /\ Len(chain) \in Nat /\ Never \notin Int
    BY ChainFacts, SettingsAssumption
  <1>2. /\ pos[k] \in 0..(Len(chain) + 1) /\ wake[k] \in 0..MaxDelay
        /\ attempt[k] \in 1..Attempts /\ tries[k] \in 0..Attempts
    BY DEF Types
  <1>3. pos[k] \in Nat /\ wake[k] \in Nat /\ attempt[k] \in Nat /\ tries[k] \in Nat
    BY <1>1, <1>2
  <1> QED
    BY <1>1, <1>2, <1>3 DEF Types

\* Call k goes on: it is at a, link p is next, and o is on its way.
Goes(k, a, p, o) ==
    /\ chain' = chain
    /\ at'[k] = a /\ pos'[k] = p /\ out'[k] = o
    /\ \A j \in Callers \ {k} : at'[j] = at[j] /\ pos'[j] = pos[j] /\ out'[j] = out[j]

\* It does so in no time.
Steady == left' = left /\ limit' = limit /\ wake' = wake /\ attempt' = attempt /\ last' = last /\ tries' = tries

LEMMA GoesUp ==
  ASSUME Types, NEW k \in Callers, NEW i, NEW o, Up(k, i, o), chain' = chain
  PROVE  Goes(k, "up", i, o)
  BY DEF Types, Up, Goes

LEMMA GoesDown ==
  ASSUME Types, NEW k \in Callers, Down(k), chain' = chain
  PROVE  Goes(k, "down", pos[k] + 1, "none")
  BY DEF Types, Down, Goes

LEMMA OthersKeep ==
  ASSUME NEW k \in Callers, NEW a, NEW p, NEW o, Goes(k, a, p, o), CallsInv, CallInv(k)',
         \A j \in Callers \ {k} : /\ left'[j] = left[j] /\ limit'[j] = limit[j] /\ wake'[j] = wake[j]
                                  /\ attempt'[j] = attempt[j] /\ last'[j] = last[j] /\ tries'[j] = tries[j]
  PROVE  CallsInv'
  <1>1. ASSUME NEW j \in Callers, j # k PROVE CallInv(j)'
    <2>0. /\ chain' = chain /\ at'[j] = at[j] /\ pos'[j] = pos[j] /\ out'[j] = out[j]
          /\ left'[j] = left[j] /\ limit'[j] = limit[j] /\ wake'[j] = wake[j]
          /\ attempt'[j] = attempt[j] /\ last'[j] = last[j] /\ tries'[j] = tries[j]
          /\ CallInv(j)
      BY <1>1 DEF Goes, CallsInv
    <2>1. PlaceInv(j)'
      BY <2>0 DEF CallInv, PlaceInv, In
    <2>2. TriesInv(j)'
      BY <2>0 DEF CallInv, TriesInv, Blamed, Retryable, Class
    <2>3. ErrorInv(j)'
      BY <2>0 DEF CallInv, ErrorInv
    <2>4. TimeInv(j)'
      BY <2>0 DEF CallInv, TimeInv, Active, Has
    <2> QED
      BY <2>1, <2>2, <2>3, <2>4 DEF CallInv
  <1> QED
    BY <1>1 DEF CallsInv

\* Upwards, with an outcome that is true to the last base call
LEMMA UpKeeps ==
  ASSUME Types, CallsInv, NEW k \in Callers, NEW p \in 0..Len(chain), NEW o,
         Active(k), p <= pos[k], Goes(k, "up", p, o), Steady,
         tries[k] > 0 /\ p > 0 /\ (o = "scope" \/ Retryable(o)) => last[k] \in {RetryOn, "cut"},
         RetryOn = "transient" /\ last[k] = "permanent" => o = "permanent"
  PROVE  CallsInv'
  <1>0. /\ chain' = chain /\ at'[k] = "up" /\ pos'[k] = p /\ out'[k] = o /\ Steady /\ CallInv(k)
        /\ Len(chain) \in Nat /\ DOMAIN chain = 1..Len(chain)
    BY ChainFacts DEF Goes, CallsInv
  <1>1. PlaceInv(k)'
    BY <1>0 DEF PlaceInv, In
  <1>2. TriesInv(k)'
    BY <1>0 DEF CallInv, TriesInv, Blamed, Retryable, Class, Steady
  <1>3. ErrorInv(k)'
    BY <1>0 DEF ErrorInv, Steady
  <1>4. TimeInv(k)'
    BY <1>0, CallTypes DEF CallInv, TimeInv, Active, Has, Steady
  <1>5. CallInv(k)'
    BY <1>1, <1>2, <1>3, <1>4 DEF CallInv
  <1> QED
    BY <1>5, OthersKeep DEF Steady

\* Downwards through a link that starts no timer
LEMMA DownKeeps ==
  ASSUME Types, CallsInv, NEW k \in Callers, at[k] \in {"down", "wait"},
         pos[k] \in DOMAIN chain, chain[pos[k]] # "timeout", Goes(k, "down", pos[k] + 1, "none"), Steady
  PROVE  CallsInv'
  <1>0. /\ chain' = chain /\ at'[k] = "down" /\ pos'[k] = pos[k] + 1 /\ out'[k] = "none" /\ Steady /\ CallInv(k)
        /\ Len(chain) \in Nat /\ DOMAIN chain = 1..Len(chain)
    BY ChainFacts DEF Goes, CallsInv
  <1>1. PlaceInv(k)'
    BY <1>0 DEF PlaceInv, In
  <1>2. TriesInv(k)'
    BY <1>0 DEF CallInv, TriesInv, Blamed, Steady
  <1>3. ErrorInv(k)'
    BY <1>0 DEF CallInv, ErrorInv, Steady
  <1>4. TimeInv(k)'
    BY <1>0, CallTypes DEF CallInv, TimeInv, Active, Has, Steady
  <1>5. CallInv(k)'
    BY <1>1, <1>2, <1>3, <1>4 DEF CallInv
  <1> QED
    BY <1>5, OthersKeep DEF Steady

-----------------------------------------------------------------------------
(* The steps of a call *)

LEMMA CallKeeps == ASSUME Types, CallsInv, NEW k \in Callers, NEW b \in Budgets, Call(k, b) PROVE CallsInv'
  <1>0. CallInv(k) /\ Len(chain) \in Nat /\ DOMAIN chain = 1..Len(chain)
    BY ChainFacts DEF CallsInv
  <1>1. at[k] = "idle" /\ left' = [left EXCEPT ![k] = b] /\ limit' = limit /\ wake' = wake
        /\ attempt' = attempt /\ last' = last /\ tries' = tries /\ chain' = chain
    BY DEF Call, hvars
  <1>2. Goes(k, "down", 1, "none")
    BY <1>0, <1>1, GoesDown DEF Call, CallInv, PlaceInv
  <1>3. left'[k] = b /\ b \in Nat \union {Never} /\ b # -1
    BY <1>1, SettingsAssumption DEF Types
  <1>4. limit[k] = Never /\ tries[k] = 0
    BY <1>0, <1>1 DEF CallInv, PlaceInv, TriesInv
  <1>5. at'[k] = "down" /\ pos'[k] = 1 /\ out'[k] = "none"
    BY <1>2 DEF Goes
  <1>6. PlaceInv(k)'
    BY <1>0, <1>1, <1>5 DEF PlaceInv, In
  <1>7. TriesInv(k)'
    BY <1>1, <1>4, <1>5, CallTypes DEF TriesInv, Blamed
  <1>8. ErrorInv(k)'
    BY <1>0, <1>1 DEF CallInv, ErrorInv
  <1>9. TimeInv(k)'
    BY <1>0, <1>1, <1>3, <1>4, <1>5 DEF TimeInv, Active, Has
  <1>10. CallInv(k)'
    BY <1>6, <1>7, <1>8, <1>9 DEF CallInv
  <1> QED
    BY <1>1, <1>2, <1>10, OthersKeep DEF Types

LEMMA EnterBaseKeeps == ASSUME Types, CallsInv, NEW k \in Callers, EnterBase(k) PROVE CallsInv'
  <1>0. CallInv(k) /\ Len(chain) \in Nat /\ DOMAIN chain = 1..Len(chain)
    BY ChainFacts DEF CallsInv
  <1>1. /\ at[k] = "down" /\ pos[k] = Len(chain) + 1 /\ at' = [at EXCEPT ![k] = "base"]
        /\ tries' = [tries EXCEPT ![k] = @ + 1] /\ pos' = pos /\ out' = out /\ chain' = chain
        /\ left' = left /\ limit' = limit /\ wake' = wake /\ attempt' = attempt /\ last' = last
    BY DEF EnterBase
  <1>2. Goes(k, "base", pos[k], out[k]) /\ tries'[k] = tries[k] + 1
    BY <1>1 DEF Goes, Types
  <1>3. PlaceInv(k)'
    BY <1>0, <1>1, <1>2 DEF Goes, PlaceInv, In
  <1>4. TriesInv(k)'
    BY <1>0, <1>1, <1>2, CallTypes DEF Goes, CallInv, TriesInv, Blamed
  <1>5. ErrorInv(k)'
    BY <1>0, <1>1 DEF CallInv, ErrorInv
  <1>6. TimeInv(k)'
    BY <1>0, <1>1, <1>2 DEF Goes, CallInv, TimeInv, Active, Has
  <1>7. CallInv(k)'
    BY <1>3, <1>4, <1>5, <1>6 DEF CallInv
  <1> QED
    BY <1>1, <1>2, <1>7, OthersKeep DEF Types

\* The base call ends, by itself or cut short.
LEMMA BaseKeeps == ASSUME Types, CallsInv, NEW k \in Callers, BaseEnds(k) \/ BaseCut(k) PROVE CallsInv'
  <1>0. CallInv(k) /\ Len(chain) \in Nat /\ DOMAIN chain = 1..Len(chain)
    BY ChainFacts DEF CallsInv
  <1>1. /\ at[k] = "base" /\ chain' = chain /\ left' = left /\ limit' = limit /\ wake' = wake
        /\ attempt' = attempt /\ tries' = tries
    BY DEF BaseEnds, BaseCut
  <1>2. PICK o, l : /\ Up(k, Len(chain), o) /\ last' = [last EXCEPT ![k] = l]
                    /\ l = "cut" \/ (l = o /\ o \in {"ok", "transient", "permanent"})
    BY DEF BaseEnds, BaseCut
  <1>3. Goes(k, "up", Len(chain), o) /\ last'[k] = l
    BY <1>1, <1>2, GoesUp DEF Types
  <1>4. PlaceInv(k)'
    BY <1>0, <1>3 DEF Goes, PlaceInv, In
  <1>5. TriesInv(k)'
    BY <1>0, <1>1, <1>2, <1>3, SettingsAssumption DEF Goes, CallInv, TriesInv, Blamed, Retryable, Class
  <1>6. ErrorInv(k)'
    BY <1>2, <1>3 DEF Goes, ErrorInv
  <1>7. TimeInv(k)'
    BY <1>0, <1>1, <1>3 DEF Goes, CallInv, PlaceInv, TimeInv, Active, Has
  <1>8. CallInv(k)'
    BY <1>4, <1>5, <1>6, <1>7 DEF CallInv
  <1> QED
    BY <1>1, <1>2, <1>3, <1>8, OthersKeep DEF Types

LEMMA DoneKeeps == ASSUME Types, CallsInv, NEW k \in Callers, Done(k) PROVE CallsInv'
  <1>0. Len(chain) \in Nat /\ DOMAIN chain = 1..Len(chain)
    BY ChainFacts
  <1>1. /\ chain' = chain /\ pos' = pos
        /\ at' = [at EXCEPT ![k] = "done"] /\ out' = [out EXCEPT ![k] = "none"]
        /\ left' = [left EXCEPT ![k] = Never] /\ limit' = [limit EXCEPT ![k] = Never]
        /\ wake' = [wake EXCEPT ![k] = 0] /\ attempt' = [attempt EXCEPT ![k] = 1]
        /\ last' = [last EXCEPT ![k] = "none"] /\ tries' = [tries EXCEPT ![k] = 0]
    BY DEF Done
  <1>2. Goes(k, "done", pos[k], "none")
    BY <1>1 DEF Goes, Types
  <1>3. at'[k] = "done" /\ limit'[k] = Never /\ attempt'[k] = 1 /\ last'[k] = "none" /\ tries'[k] = 0
    BY <1>1 DEF Types
  <1>4. CallInv(k)'
    BY <1>3 DEF CallInv, PlaceInv, TriesInv, ErrorInv, TimeInv, Blamed, Active
  <1> QED
    BY <1>1, <1>2, <1>4, OthersKeep DEF Types

\* Where an outcome turns up that is not an error of the base call
LEMMA InterruptUp ==
  ASSUME Types, CallsInv, NEW k \in Callers, NEW p \in 0..Len(chain), NEW o,
         at[k] \in {"down", "wait", "backoff"}, p <= pos[k], Up(k, p, o), chain' = chain, Steady
  PROVE  CallsInv'
  <1>1. Active(k) /\ Goes(k, "up", p, o) /\ CallInv(k)
    BY GoesUp DEF Active, CallsInv
  <1>2. /\ tries[k] > 0 => last[k] \in {RetryOn, "cut"}
        /\ ~(RetryOn = "transient" /\ last[k] = "permanent")
    BY <1>1 DEF CallInv, TriesInv, ErrorInv, Blamed
  <1> QED
    BY <1>1, <1>2, UpKeeps

\* What is cancelled, or out of time, while it waits, pauses or runs
LEMMA InterruptKeeps ==
  ASSUME Types, CallsInv, NEW k \in Callers, NEW o, Awaits(k), Interrupt(k, o), chain' = chain, Steady
  PROVE  CallsInv'
  <1>0. CallInv(k) /\ Len(chain) \in Nat /\ DOMAIN chain = 1..Len(chain) /\ pos[k] \in Nat
    BY ChainFacts, CallTypes DEF CallsInv
  <1>1. CASE at[k] = "wait" /\ Up(k, pos[k], o)
    <2>1. pos[k] \in 0..Len(chain) /\ pos[k] <= pos[k]
      BY <1>0, <1>1 DEF CallInv, PlaceInv, In
    <2> QED
      BY <1>1, <2>1, InterruptUp
  <1>2. CASE at[k] = "backoff" /\ Up(k, pos[k] - 1, o)
    <2>1. pos[k] - 1 \in 0..Len(chain) /\ pos[k] - 1 <= pos[k]
      BY <1>0, <1>2 DEF CallInv, PlaceInv, In
    <2> QED
      BY <1>2, <2>1, InterruptUp
  <1>3. CASE at[k] = "base" /\ out' = [out EXCEPT ![k] = o] /\ UNCHANGED <<at, pos>>
    <2>1. Goes(k, "base", pos[k], o)
      BY <1>3 DEF Goes, Types
    <2>2. PlaceInv(k)'
      BY <1>0, <1>3 DEF CallInv, PlaceInv, In
    <2>3. TriesInv(k)' /\ ErrorInv(k)'
      BY <1>0, <1>3 DEF Steady, CallInv, TriesInv, ErrorInv, Blamed
    <2>4. TimeInv(k)'
      BY <1>0, <1>3 DEF Steady, CallInv, TimeInv, Active, Has
    <2>5. CallInv(k)'
      BY <2>2, <2>3, <2>4 DEF CallInv
    <2> QED
      BY <2>1, <2>5, OthersKeep DEF Steady
  <1> QED
    BY <1>1, <1>2, <1>3 DEF Interrupt

LEMMA CancelKeeps ==
  ASSUME Types, CallsInv, NEW k \in Callers, TimeoutFires(k) \/ Cancel(k) \/ CancelNested(k)
  PROVE  CallsInv'
  <1>1. Awaits(k) /\ chain' = chain /\ Steady /\ (Interrupt(k, "scope") \/ Interrupt(k, "cancelled"))
    BY DEF TimeoutFires, Cancel, CancelNested, Steady, hvars
  <1> QED
    BY <1>1, InterruptKeeps

\* A call at link p: where it may go from there
LEMMA AtLink ==
  ASSUME Types, CallsInv, NEW k \in Callers, NEW link, In(k, link)
  PROVE  /\ CallInv(k) /\ Len(chain) \in Nat /\ DOMAIN chain = 1..Len(chain)
         /\ pos[k] \in DOMAIN chain /\ chain[pos[k]] = link
         /\ pos[k] \in 0..Len(chain) /\ pos[k] - 1 \in 0..Len(chain) /\ pos[k] - 1 < pos[k]
         /\ \A i \in DOMAIN chain : chain[i] = link => i = pos[k]
  BY ChainFacts DEF CallsInv, In

LEMMA AcquireKeeps ==
  ASSUME Types, CallsInv, NEW k \in Callers, at[k] \in {"down", "wait"}, In(k, "concurrency"),
         NEW s, Acquire(k, s), chain' = chain, Steady
  PROVE  CallsInv'
  <1>0. /\ CallInv(k) /\ Len(chain) \in Nat /\ DOMAIN chain = 1..Len(chain)
        /\ pos[k] \in DOMAIN chain /\ pos[k] \in 0..Len(chain)
    BY AtLink
  <1>1. CASE Up(k, pos[k], "deadline")
    BY <1>0, <1>1, InterruptUp
  <1>2. CASE at' = [at EXCEPT ![k] = "wait"] /\ UNCHANGED <<pos, out>>
    <2>1. Goes(k, "wait", pos[k], out[k])
      BY <1>2 DEF Goes, Types
    <2>2. out[k] = "none" /\ at'[k] = "wait" /\ pos' = pos /\ out' = out
      BY <1>0, <1>2, <2>1 DEF Goes, CallInv, PlaceInv
    <2>3. PlaceInv(k)'
      BY <2>2 DEF PlaceInv, In
    <2>4. TriesInv(k)' /\ ErrorInv(k)'
      BY <1>0, <2>2 DEF Steady, CallInv, TriesInv, ErrorInv, Blamed
    <2>5. TimeInv(k)'
      BY <1>0, <2>2 DEF Steady, CallInv, TimeInv, Active, Has
    <2>6. CallInv(k)'
      BY <2>3, <2>4, <2>5 DEF CallInv
    <2> QED
      BY <2>1, <2>6, OthersKeep DEF Steady
  <1> QED
    BY <1>1, <1>2 DEF Acquire

\* An outcome passes a link that leaves it as it is.
LEMMA PassKeeps ==
  ASSUME Types, CallsInv, NEW k \in Callers, at[k] = "up", NEW link, In(k, link),
         Up(k, pos[k] - 1, out[k]), chain' = chain, Steady
  PROVE  CallsInv'
  <1>1. Goes(k, "up", pos[k] - 1, out[k]) /\ Active(k)
    BY GoesUp DEF Active
  <1>2. /\ CallInv(k) /\ pos[k] \in Nat /\ Len(chain) \in Nat /\ pos[k] \in 1..Len(chain)
        /\ pos[k] - 1 \in 0..Len(chain) /\ pos[k] - 1 <= pos[k]
    BY AtLink, CallTypes
  <1>3. /\ tries[k] > 0 /\ (out[k] = "scope" \/ Retryable(out[k])) => last[k] \in {RetryOn, "cut"}
        /\ RetryOn = "transient" /\ last[k] = "permanent" => out[k] = "permanent"
    BY <1>2 DEF CallInv, TriesInv, ErrorInv, Blamed
  <1> QED
    BY <1>1, <1>2, <1>3, UpKeeps

LEMMA ConcurrencyKeeps ==
  ASSUME Types, CallsInv, NEW k \in Callers,
         EnterConcurrency(k) \/ Acquired(k) \/ WaitExpires(k) \/ LeaveConcurrency(k)
  PROVE  CallsInv'
  <1>1. chain' = chain /\ Steady
    BY DEF EnterConcurrency, Acquired, WaitExpires, LeaveConcurrency, Steady, hvars
  <1>2. at[k] = "wait" => In(k, "concurrency")
    BY DEF CallsInv, CallInv, PlaceInv
  <1>3. CASE EnterConcurrency(k)
    BY <1>1, <1>3, AcquireKeeps DEF EnterConcurrency
  <1>4. CASE Acquired(k)
    <2>1. at[k] = "wait"
      BY <1>4 DEF Acquired, Granted
    <2>2. CASE Acquire(k, Levels(k)[2])
      BY <1>1, <1>2, <2>1, <2>2, AcquireKeeps
    <2>3. CASE Down(k)
      <3>1. Goes(k, "down", pos[k] + 1, "none")
        BY <1>1, <2>3, GoesDown
      <3>2. pos[k] \in DOMAIN chain /\ chain[pos[k]] # "timeout"
        BY <1>2, <2>1 DEF In
      <3> QED
        BY <1>1, <2>1, <3>1, <3>2, DownKeeps
    <2> QED
      BY <1>4, <2>2, <2>3 DEF Acquired
  <1>5. CASE WaitExpires(k)
    <2>1. at[k] = "wait" /\ Up(k, pos[k], "deadline")
      BY <1>5 DEF WaitExpires
    <2>2. pos[k] \in 0..Len(chain) /\ pos[k] <= pos[k]
      BY <1>2, <2>1, AtLink
    <2> QED
      BY <1>1, <2>1, <2>2, InterruptUp
  <1>6. CASE LeaveConcurrency(k)
    BY <1>1, <1>6, PassKeeps DEF LeaveConcurrency
  <1> QED
    BY <1>3, <1>4, <1>5, <1>6

LEMMA EnterTimeoutKeeps == ASSUME Types, CallsInv, NEW k \in Callers, EnterTimeout(k) PROVE CallsInv'
  <1>0. /\ at[k] = "down" /\ In(k, "timeout") /\ chain' = chain
        /\ left' = left /\ wake' = wake /\ attempt' = attempt /\ last' = last /\ tries' = tries
    BY DEF EnterTimeout, hvars
  <1>1. /\ CallInv(k) /\ Len(chain) \in Nat /\ DOMAIN chain = 1..Len(chain)
        /\ pos[k] \in DOMAIN chain /\ pos[k] - 1 \in 0..Len(chain) /\ pos[k] - 1 <= pos[k]
    BY <1>0, AtLink
  <1>2. CASE Expired(k)
    BY <1>0, <1>1, <1>2, InterruptUp DEF EnterTimeout, Steady
  <1>3. CASE ~Expired(k)
    <2>1. Down(k) /\ limit' = [limit EXCEPT ![k] = ScopeLimit(k)]
      BY <1>3 DEF EnterTimeout
    <2>2. Goes(k, "down", pos[k] + 1, "none")
      BY <1>0, <2>1, GoesDown
    <2>3. limit'[k] # Never /\ (left[k] # Never => limit'[k] <= left[k]) /\ limit'[k] = ScopeLimit(k)
      <3>1. limit'[k] = ScopeLimit(k)
        BY <2>1 DEF Types
      <3>2. Timeout \in Int /\ Never \notin Int /\ left[k] \in Int \union {Never}
        BY CallTypes, SettingsAssumption
      <3> QED
        BY <3>1, <3>2 DEF ScopeLimit, WithinBudget
    <2>4. at'[k] = "down" /\ pos'[k] = pos[k] + 1 /\ out'[k] = "none"
      BY <2>2 DEF Goes
    <2>5. PlaceInv(k)'
      BY <1>0, <1>1, <2>4 DEF PlaceInv, In
    <2>6. TriesInv(k)' /\ ErrorInv(k)'
      BY <1>0, <1>1, <2>4 DEF CallInv, TriesInv, ErrorInv, Blamed
    <2>7. TimeInv(k)'
      BY <1>0, <1>1, <2>3, <2>4 DEF CallInv, TimeInv, Active, Has
    <2>8. CallInv(k)'
      BY <2>5, <2>6, <2>7 DEF CallInv
    <2> QED
      BY <1>0, <2>1, <2>2, <2>8, OthersKeep DEF Types
  <1> QED
    BY <1>2, <1>3

LEMMA LeaveTimeoutKeeps == ASSUME Types, CallsInv, NEW k \in Callers, LeaveTimeout(k) PROVE CallsInv'
  <1>0. /\ at[k] = "up" /\ In(k, "timeout") /\ chain' = chain /\ limit' = [limit EXCEPT ![k] = Never]
        /\ left' = left /\ wake' = wake /\ attempt' = attempt /\ last' = last /\ tries' = tries
    BY DEF LeaveTimeout, hvars
  <1>1. /\ CallInv(k) /\ Len(chain) \in Nat /\ DOMAIN chain = 1..Len(chain)
        /\ pos[k] \in DOMAIN chain /\ pos[k] - 1 \in 0..Len(chain) /\ pos[k] - 1 < pos[k] /\ pos[k] > 0
        /\ \A i \in DOMAIN chain : chain[i] = "timeout" => i = pos[k]
    BY <1>0, AtLink
  <1> DEFINE o == IF out[k] = "scope" THEN "attempt timeout" ELSE out[k]
  <1>2. Goes(k, "up", pos[k] - 1, o) /\ limit'[k] = Never
    BY <1>0, GoesUp DEF LeaveTimeout, Types
  <1>3. at'[k] = "up" /\ pos'[k] = pos[k] - 1 /\ out'[k] = o
    BY <1>2 DEF Goes
  <1>4. PlaceInv(k)'
    BY <1>0, <1>1, <1>3 DEF PlaceInv, In
  <1>5. TriesInv(k)'
    BY <1>0, <1>1, <1>3 DEF CallInv, TriesInv, Blamed, Retryable, Class
  <1>6. ErrorInv(k)'
    BY <1>0, <1>1, <1>3 DEF CallInv, ErrorInv
  <1>7. TimeInv(k)'
    <2>1. \A i \in DOMAIN chain : chain[i] = "timeout" => ~(i < pos'[k])
      <3>1. pos[k] \in Nat /\ ~(pos[k] < pos[k] - 1)
        BY CallTypes
      <3> QED
        BY <1>1, <1>3, <3>1
    <2>2. Has("timeout") => left[k] # -1
      BY <1>0, <1>1 DEF CallInv, TimeInv, Active
    <2>3. at'[k] = "up" /\ limit'[k] = Never /\ left' = left /\ chain' = chain
      BY <1>0, <1>2, <1>3
    <2> QED
      BY <2>1, <2>2, <2>3 DEF TimeInv, Active, Has
  <1>8. CallInv(k)'
    BY <1>4, <1>5, <1>6, <1>7 DEF CallInv
  <1> QED
    BY <1>0, <1>2, <1>8, OthersKeep DEF Types

LEMMA EnterRetryKeeps ==
  ASSUME Types, CallsInv, NEW k \in Callers, EnterRetry(k) \/ EnterDegradation(k) PROVE CallsInv'
  <1>0. /\ at[k] = "down" /\ (In(k, "retry") \/ In(k, "degradation")) /\ chain' = chain /\ Steady
        /\ Up(k, pos[k] - 1, "deadline") \/ Down(k)
    BY DEF EnterRetry, EnterDegradation, Steady, hvars
  <1>1. /\ pos[k] \in DOMAIN chain /\ chain[pos[k]] # "timeout"
        /\ pos[k] - 1 \in 0..Len(chain) /\ pos[k] - 1 <= pos[k]
    BY <1>0, AtLink
  <1>2. CASE Up(k, pos[k] - 1, "deadline")
    BY <1>0, <1>1, <1>2, InterruptUp
  <1>3. CASE Down(k)
    BY <1>0, <1>1, <1>3, GoesDown, DownKeeps
  <1> QED
    BY <1>0, <1>2, <1>3

LEMMA LeaveRetryKeeps == ASSUME Types, CallsInv, NEW k \in Callers, LeaveRetry(k) PROVE CallsInv'
  <1>0. /\ at[k] = "up" /\ In(k, "retry") /\ chain' = chain
        /\ left' = left /\ limit' = limit /\ attempt' = attempt /\ last' = last /\ tries' = tries
    BY DEF LeaveRetry, hvars
  <1>1. /\ CallInv(k) /\ Len(chain) \in Nat /\ DOMAIN chain = 1..Len(chain) /\ Active(k)
        /\ pos[k] \in DOMAIN chain /\ pos[k] - 1 \in 0..Len(chain) /\ pos[k] - 1 <= pos[k] /\ pos[k] > 0
    BY <1>0, AtLink DEF Active
  <1>2. Retryable(out[k]) => /\ tries[k] > 0 => last[k] \in {RetryOn, "cut"}
                             /\ ~(RetryOn = "transient" /\ last[k] = "permanent")
    BY <1>0, <1>1 DEF CallInv, TriesInv, ErrorInv, Blamed, Retryable, Class
  <1>3. CASE ~Retryable(out[k]) /\ Up(k, pos[k] - 1, out[k]) /\ UNCHANGED wake
    BY <1>0, <1>3, PassKeeps DEF Steady
  <1>4. ASSUME Retryable(out[k]), wake' = wake, NEW o, Up(k, pos[k] - 1, o) PROVE CallsInv'
    BY <1>0, <1>1, <1>2, <1>4, GoesUp, UpKeeps DEF Steady
  <1>5. ASSUME Retryable(out[k]), ~Spent(k), NEW d \in Delays(attempt[k] + 1), PauseFits(k, d),
               at' = [at EXCEPT ![k] = "backoff"], out' = [out EXCEPT ![k] = "none"],
               wake' = [wake EXCEPT ![k] = d], pos' = pos
        PROVE  CallsInv'
    <2>1. Goes(k, "backoff", pos[k], "none") /\ wake'[k] = d
      BY <1>0, <1>5 DEF Goes, Types
    <2>2. at'[k] = "backoff" /\ pos'[k] = pos[k] /\ out'[k] = "none" /\ attempt[k] < Attempts
      BY <1>5, <2>1, CallTypes DEF Goes, Spent
    <2>3. PlaceInv(k)'
      BY <1>0, <2>2 DEF PlaceInv, In
    <2>4. TriesInv(k)' /\ ErrorInv(k)'
      BY <1>0, <1>1, <1>2, <1>5, <2>2 DEF CallInv, TriesInv, ErrorInv, Blamed
    <2>5. TimeInv(k)'
      BY <1>0, <1>1, <1>5, <2>1, <2>2 DEF CallInv, TimeInv, Active, Has, PauseFits
    <2>6. CallInv(k)'
      BY <2>3, <2>4, <2>5 DEF CallInv
    <2> QED
      BY <1>0, <1>5, <2>1, <2>6, OthersKeep DEF Types
  <1> QED
    BY <1>3, <1>4, <1>5 DEF LeaveRetry

LEMMA BackoffOverKeeps == ASSUME Types, CallsInv, NEW k \in Callers, BackoffOver(k) PROVE CallsInv'
  <1>0. /\ at[k] = "backoff" /\ chain' = chain /\ attempt' = [attempt EXCEPT ![k] = @ + 1]
        /\ left' = left /\ limit' = limit /\ wake' = wake /\ last' = last /\ tries' = tries
        /\ Up(k, pos[k] - 1, "deadline") \/ Down(k)
    BY DEF BackoffOver, hvars
  <1>1. In(k, "retry") /\ attempt[k] < Attempts
    BY <1>0 DEF CallsInv, CallInv, PlaceInv
  <1>2. /\ CallInv(k) /\ Len(chain) \in Nat /\ DOMAIN chain = 1..Len(chain)
        /\ pos[k] \in DOMAIN chain /\ chain[pos[k]] = "retry" /\ pos[k] - 1 \in 0..Len(chain) /\ pos[k] - 1 < pos[k]
    BY <1>1, AtLink
  <1>3. attempt'[k] = attempt[k] + 1
    BY <1>0 DEF Types
  <1>4. /\ tries[k] <= attempt[k] /\ (tries[k] > 0 => last[k] \in {RetryOn, "cut"})
        /\ ~(RetryOn = "transient" /\ last[k] = "permanent")
    BY <1>0, <1>2 DEF CallInv, TriesInv, ErrorInv, Blamed
  <1>5. PICK a, p, o : /\ Goes(k, a, p, o)
                       /\ \/ a = "up" /\ p = pos[k] - 1 /\ o = "deadline"
                          \/ a = "down" /\ p = pos[k] + 1 /\ o = "none"
    BY <1>0, GoesUp, GoesDown
  <1>6. at'[k] = a /\ pos'[k] = p /\ out'[k] = o
    BY <1>5 DEF Goes
  <1>7. PlaceInv(k)'
    BY <1>0, <1>2, <1>5, <1>6 DEF PlaceInv, In
  <1>8. TriesInv(k)'
    BY <1>0, <1>3, <1>4, <1>5, <1>6, CallTypes DEF TriesInv, Blamed
  <1>9. ErrorInv(k)'
    BY <1>0, <1>4 DEF ErrorInv
  <1>10. TimeInv(k)'
    BY <1>0, <1>2, <1>5, <1>6 DEF CallInv, TimeInv, Active, Has
  <1>11. CallInv(k)'
    BY <1>7, <1>8, <1>9, <1>10 DEF CallInv
  <1> QED
    BY <1>0, <1>5, <1>11, OthersKeep DEF Types

\* The degradation link is the outermost one.
LEMMA LeaveDegradationKeeps == ASSUME Types, CallsInv, NEW k \in Callers, LeaveDegradation(k) PROVE CallsInv'
  <1>0. /\ at[k] = "up" /\ In(k, "degradation") /\ chain' = chain /\ Steady
    BY DEF LeaveDegradation, Steady, hvars
  <1>1. CallInv(k) /\ pos[k] - 1 \in 0..Len(chain) /\ pos[k] - 1 <= pos[k] /\ ~(pos[k] - 1 > 0) /\ Active(k)
    BY <1>0, AtLink, ChainFacts DEF In, Active
  <1>2. PICK o \in (IF Unavailable(out[k]) THEN {"stub", "stub error"} ELSE {out[k]}) : Up(k, pos[k] - 1, o)
    BY DEF LeaveDegradation
  <1>3. RetryOn = "transient" /\ last[k] = "permanent" => o = "permanent"
    BY <1>0, <1>1, <1>2 DEF CallInv, ErrorInv, Unavailable, Class
  <1>4. Goes(k, "up", pos[k] - 1, o)
    BY <1>0, <1>1, <1>2, GoesUp
  <1> QED
    BY <1>0, <1>1, <1>3, <1>4, UpKeeps

LEMMA TickKeeps == ASSUME Types, CallsInv, Tick PROVE CallsInv'
  <1>0. /\ chain' = chain /\ at' = at /\ pos' = pos /\ out' = out /\ attempt' = attempt
        /\ last' = last /\ tries' = tries
    BY DEF Tick, hvars
  <1>1. ASSUME NEW k \in Callers PROVE CallInv(k)'
    <2>0. CallInv(k) /\ ~Runnable(k) /\ at[k] \notin {"down", "up"}
      BY DEF CallsInv, Tick, Quiet
    <2>1. /\ left'[k] = (IF Active(k) THEN Less(left[k]) ELSE left[k])
          /\ limit'[k] = Less(limit[k])
          /\ wake'[k] = (IF at[k] = "backoff" THEN wake[k] - 1 ELSE wake[k])
      BY DEF Tick
    <2>2. /\ left[k] \in Int \union {Never} /\ limit[k] \in Nat \union {Never} /\ wake[k] \in Nat
          /\ Never \notin Int
      BY CallTypes
    <2>3. PlaceInv(k)'
      BY <1>0, <2>0, <2>1 DEF CallInv, PlaceInv, In, Less
    <2>4. TriesInv(k)' /\ ErrorInv(k)'
      BY <1>0, <2>0 DEF CallInv, TriesInv, ErrorInv, Blamed, Retryable, Class
    <2>5. TimeInv(k)'
      <3>1. CASE Active(k)
        <4>1. at[k] \in {"wait", "backoff", "base"}
          BY <2>0, <3>1, CallTypes DEF Active
        <4>2. limit[k] # 0
          BY <2>0, <4>1 DEF CallInv, PlaceInv, Runnable, Due, Awaits
        <4>3. Has("timeout") => left[k] # 0
          <5>1. ASSUME Has("timeout"), left[k] = 0 PROVE FALSE
            <6>1. at[k] # "wait"
              BY <2>0, <5>1 DEF Runnable, Due
            <6>2. at[k] # "backoff"
              BY <2>0, <2>2, <5>1 DEF CallInv, TimeInv
            <6>3. CASE at[k] = "base"
              <7>1. PICK i \in DOMAIN chain : chain[i] = "timeout"
                BY <5>1, ChainFacts DEF Has, Range
              <7>2. i < pos[k]
                BY <2>0, <6>3, ChainFacts DEF CallInv, PlaceInv
              <7>3. limit[k] # Never
                BY <2>0, <3>1, <7>1, <7>2 DEF CallInv, TimeInv
              <7> QED
                BY <2>0, <2>2, <3>1, <4>2, <5>1, <7>3 DEF CallInv, TimeInv
            <6> QED
              BY <4>1, <6>1, <6>2, <6>3
          <5> QED
            BY <5>1
        <4>4. at[k] = "backoff" => wake[k] > 0
          BY <2>0, <2>2 DEF Runnable, Due
        <4>5. /\ limit[k] # Never /\ left[k] # Never => limit[k] <= left[k]
              /\ \A i \in DOMAIN chain : chain[i] = "timeout" /\ i < pos[k] => limit[k] # Never
              /\ Has("timeout") => left[k] # -1
              /\ at[k] = "backoff" /\ left[k] # Never => wake[k] < left[k]
          BY <2>0, <3>1 DEF CallInv, TimeInv
        <4>6. /\ left[k] = Never => left'[k] = Never
              /\ left[k] # Never => left'[k] \in Int /\ left'[k] = (IF left[k] = -1 THEN -1 ELSE left[k] - 1)
              /\ limit[k] = Never => limit'[k] = Never
              /\ limit[k] # Never => limit'[k] \in Int /\ limit'[k] = limit[k] - 1
          BY <2>1, <2>2, <3>1 DEF Less
        <4>7. /\ limit'[k] # Never /\ left'[k] # Never => limit'[k] <= left'[k]
              /\ Has("timeout") => left'[k] # -1
              /\ at[k] = "backoff" /\ left'[k] # Never => wake'[k] < left'[k]
          BY <2>1, <2>2, <4>2, <4>3, <4>4, <4>5, <4>6
        <4> QED
          BY <1>0, <2>2, <4>5, <4>6, <4>7 DEF TimeInv, Active, Has
      <3>2. CASE ~Active(k)
        BY <1>0, <3>2 DEF TimeInv, Active
      <3> QED
        BY <3>1, <3>2
    <2> QED
      BY <2>3, <2>4, <2>5 DEF CallInv
  <1> QED
    BY <1>1 DEF CallsInv


LEMMA CallsKept == ASSUME Types, CallsInv, [Next]_vars PROVE CallsInv'
  <1>1. ASSUME NEW k \in Callers, Proceed(k) PROVE CallsInv'
    BY <1>1, EnterBaseKeeps, BaseKeeps, DoneKeeps, ConcurrencyKeeps, EnterTimeoutKeeps, LeaveTimeoutKeeps,
       CancelKeeps, EnterRetryKeeps, LeaveRetryKeeps, BackoffOverKeeps, LeaveDegradationKeeps DEF Proceed
  <1>2. ASSUME NEW k \in Callers, BaseEnds(k) \/ Cancel(k) \/ \E b \in Budgets : Call(k, b) PROVE CallsInv'
    BY <1>2, BaseKeeps, CancelKeeps, CallKeeps
  <1>3. CASE UNCHANGED vars
    BY <1>3 DEF vars, hvars, svars, CallsInv, CallInv, PlaceInv, TriesInv, ErrorInv, TimeInv, Blamed,
                Retryable, Class, Active, In, Has
  <1> QED
    BY <1>1, <1>2, <1>3, TickKeeps DEF Next

-----------------------------------------------------------------------------
(* Queues *)

LEMMA RemoveAtIs ==
  ASSUME NEW s \in Seq(Callers), NEW n \in DOMAIN s
  PROVE  /\ RemoveAt(s, n) \in Seq(Callers) /\ DOMAIN RemoveAt(s, n) = 1..(Len(s) - 1)
         /\ DOMAIN s = 1..Len(s) /\ Len(s) \in Nat
         /\ \A m \in 1..(Len(s) - 1) : RemoveAt(s, n)[m] = IF m < n THEN s[m] ELSE s[m + 1]
  <1>1. n \in 1..Len(s) /\ Len(s) \in Nat /\ DOMAIN s = 1..Len(s)
    OBVIOUS
  <1> DEFINE front == SubSeq(s, 1, n - 1)
             back == SubSeq(s, n + 1, Len(s))
  <1>2. front \in Seq(Callers) /\ Len(front) = n - 1 /\ \A i \in 1..(n - 1) : front[i] = s[i]
    BY <1>1
  <1>3. /\ back \in Seq(Callers) /\ Len(back) = Len(s) - n
        /\ \A i \in 1..(Len(s) - n) : back[i] = s[i + n]
    BY <1>1
  <1>4. RemoveAt(s, n) = front \o back
    BY DEF RemoveAt
  <1> HIDE DEF front, back
  <1>5. /\ RemoveAt(s, n) \in Seq(Callers) /\ Len(RemoveAt(s, n)) = Len(s) - 1
        /\ \A m \in 1..(Len(s) - 1) : RemoveAt(s, n)[m] = IF m < n THEN s[m] ELSE s[m + 1]
    <2>1. /\ front \o back \in Seq(Callers) /\ Len(front \o back) = Len(front) + Len(back)
          /\ \A m \in 1..(Len(front) + Len(back)) :
                (front \o back)[m] = IF m <= Len(front) THEN front[m] ELSE back[m - Len(front)]
      BY <1>2, <1>3
    <2>2. ASSUME NEW m \in 1..(Len(s) - 1)
          PROVE  (front \o back)[m] = IF m < n THEN s[m] ELSE s[m + 1]
      <3>1. CASE m < n
        BY <1>1, <1>2, <1>3, <2>1, <3>1
      <3>2. CASE ~(m < n)
        <4>1. /\ m - (n - 1) \in 1..(Len(s) - n) /\ m - (n - 1) + n = m + 1
              /\ m \in 1..((n - 1) + (Len(s) - n)) /\ ~(m <= n - 1)
          BY <1>1, <3>2
        <4>2. (front \o back)[m] = back[m - (n - 1)]
          BY <1>2, <1>3, <2>1, <4>1
        <4> QED
          BY <1>3, <3>2, <4>1, <4>2
      <3> QED
        BY <3>1, <3>2
    <2>3. Len(front) + Len(back) = Len(s) - 1
      BY <1>1, <1>2, <1>3
    <2> QED
      BY <1>4, <2>1, <2>2, <2>3
  <1> QED
    BY <1>1, <1>5

\* No caller is in it twice.
Distinct(s) == \A i, j \in DOMAIN s : s[i] = s[j] => i = j

\* What is left of a queue is still in order, without the one that left.
LEMMA WithoutIs ==
  ASSUME NEW s \in Seq(Callers), NEW k
  PROVE  /\ Without(s, k) \in Seq(Callers)
         /\ \A m \in DOMAIN Without(s, k) : \E j \in DOMAIN s : Without(s, k)[m] = s[j]
         /\ Distinct(s) => /\ Distinct(Without(s, k))
                           /\ \A m \in DOMAIN Without(s, k) : Without(s, k)[m] # k
  <1>1. CASE ~\E n \in DOMAIN s : s[n] = k
    <2>1. Without(s, k) = s
      BY <1>1 DEF Without
    <2> QED
      BY <1>1, <2>1
  <1>2. CASE \E n \in DOMAIN s : s[n] = k
    <2> DEFINE n == CHOOSE n \in DOMAIN s : s[n] = k
               r == RemoveAt(s, n)
               at0(m) == IF m < n THEN m ELSE m + 1
    <2>1. n \in DOMAIN s /\ s[n] = k /\ Without(s, k) = r
      BY <1>2 DEF Without
    <2> HIDE DEF n
    <2>2. /\ r \in Seq(Callers) /\ DOMAIN r = 1..(Len(s) - 1) /\ DOMAIN s = 1..Len(s) /\ Len(s) \in Nat
          /\ \A m \in 1..(Len(s) - 1) : r[m] = IF m < n THEN s[m] ELSE s[m + 1]
      BY <2>1, RemoveAtIs
    <2> HIDE DEF r
    <2>3. ASSUME NEW m \in DOMAIN r PROVE at0(m) \in DOMAIN s /\ at0(m) # n /\ r[m] = s[at0(m)]
      BY <2>1, <2>2
    <2>4. ASSUME NEW m \in DOMAIN r, NEW l \in DOMAIN r, at0(m) = at0(l) PROVE m = l
      BY <2>1, <2>2, <2>4
    <2> HIDE DEF at0
    <2>5. \A m \in DOMAIN r : \E j \in DOMAIN s : r[m] = s[j]
      BY <2>3
    <2>6. ASSUME Distinct(s) PROVE Distinct(r) /\ \A m \in DOMAIN r : r[m] # k
      BY <2>1, <2>3, <2>4, <2>6 DEF Distinct
    <2> QED
      BY <2>1, <2>2, <2>5, <2>6
  <1> QED
    BY <1>1, <1>2

LEMMA AppendIs ==
  ASSUME NEW s \in Seq(Callers), NEW k \in Callers
  PROVE  /\ Append(s, k) \in Seq(Callers)
         /\ \A m \in DOMAIN Append(s, k) : Append(s, k)[m] = k \/ \E j \in DOMAIN s : Append(s, k)[m] = s[j]
         /\ Distinct(s) /\ (\A j \in DOMAIN s : s[j] # k) => Distinct(Append(s, k))
  <1>1. /\ Append(s, k) \in Seq(Callers) /\ Len(s) \in Nat
        /\ Append(s, k)[Len(s) + 1] = k
        /\ \A m \in 1..Len(s) : Append(s, k)[m] = s[m]
        /\ DOMAIN Append(s, k) = 1..(Len(s) + 1) /\ DOMAIN s = 1..Len(s)
    OBVIOUS
  <1>2. \A m \in DOMAIN Append(s, k) : m \in DOMAIN s \/ m = Len(s) + 1
    BY <1>1
  <1>3. \A m \in DOMAIN s : Append(s, k)[m] = s[m]
    BY <1>1
  <1> QED
    BY <1>1, <1>2, <1>3 DEF Distinct

LEMMA TailIs ==
  ASSUME NEW s \in Seq(Callers), s # <<>>
  PROVE  /\ Tail(s) \in Seq(Callers) /\ 1 \in DOMAIN s /\ Head(s) = s[1] /\ Head(s) \in Callers
         /\ \A m \in DOMAIN Tail(s) : \E j \in DOMAIN s : Tail(s)[m] = s[j] /\ j # 1
         /\ Distinct(s) => Distinct(Tail(s))
  <1>1. /\ Tail(s) \in Seq(Callers) /\ Len(s) \in Nat \ {0} /\ Head(s) = s[1]
        /\ DOMAIN Tail(s) = 1..(Len(s) - 1) /\ DOMAIN s = 1..Len(s)
        /\ \A m \in 1..(Len(s) - 1) : Tail(s)[m] = s[m + 1]
    OBVIOUS
  <1>2. \A m \in DOMAIN Tail(s) : m + 1 \in DOMAIN s /\ m + 1 # 1 /\ Tail(s)[m] = s[m + 1]
    BY <1>1
  <1>3. \A m, l \in DOMAIN Tail(s) : m + 1 = l + 1 => m = l
    BY <1>1
  <1>4. 1 \in DOMAIN s /\ s[1] \in Callers
    BY <1>1
  <1> QED
    BY <1>1, <1>2, <1>3, <1>4 DEF Distinct

-----------------------------------------------------------------------------
(* Types *)

PlaceTypes ==
    /\ chain \in {w.chain : w \in Workloads}
    /\ at \in [Callers -> {"idle", "down", "wait", "backoff", "base", "up", "done"}]
    /\ pos \in [Callers -> 0..(Len(chain) + 1)]
    /\ out \in [Callers -> Outcomes]

TimerTypes ==
    /\ left \in [Callers -> Int \union {Never}] /\ limit \in [Callers -> Nat \union {Never}]
    /\ wake \in [Callers -> 0..MaxDelay] /\ attempt \in [Callers -> 1..Attempts]
    /\ parent \in [Callers -> Callers \union {NoCaller}]
    /\ last \in [Callers -> {"none", "ok", "transient", "permanent", "cut"}]
    /\ tries \in [Callers -> 0..Attempts]

SlotTypes ==
    /\ want \in [Callers -> Semaphores] /\ holds \in [Callers -> SUBSET Semaphores]
    /\ value \in [Semaphores -> Nat]
    /\ queue \in [Semaphores -> Seq(Callers)]

LEMMA TypeParts == Types <=> PlaceTypes /\ TimerTypes /\ SlotTypes
  BY DEF Types, PlaceTypes, TimerTypes, SlotTypes

LEMMA UpPlace ==
  ASSUME Types, NEW k \in Callers, NEW p \in 0..Len(chain), NEW o \in Outcomes, Up(k, p, o), chain' = chain
  PROVE  PlaceTypes'
  <1>1. p \in 0..(Len(chain) + 1)
    BY ChainFacts
  <1> QED
    BY <1>1 DEF Types, PlaceTypes, Up

LEMMA DownPlace ==
  ASSUME Types, NEW k \in Callers, pos[k] \in 0..Len(chain), Down(k), chain' = chain
  PROVE  PlaceTypes'
  <1>1. pos[k] + 1 \in 0..(Len(chain) + 1) /\ "none" \in Outcomes
    BY ChainFacts DEF Outcomes
  <1> QED
    BY <1>1 DEF Types, PlaceTypes, Down

LEMMA AcquireTypes ==
  ASSUME Types, NEW k \in Callers, pos[k] \in 0..Len(chain), NEW s \in Semaphores, Acquire(k, s), chain' = chain
  PROVE  PlaceTypes' /\ SlotTypes'
  <1>1. CASE Up(k, pos[k], "deadline") /\ UNCHANGED svars
    <2>1. PlaceTypes'
      BY <1>1, UpPlace DEF Outcomes
    <2> QED
      BY <1>1, <2>1, TypeParts DEF SlotTypes, svars
  <1>2. CASE /\ at' = [at EXCEPT ![k] = "wait"] /\ UNCHANGED <<pos, out>>
             /\ want' = [want EXCEPT ![k] = s]
             /\ \/ /\ value[s] > 0 /\ value' = [value EXCEPT ![s] = @ - 1]
                   /\ holds' = [holds EXCEPT ![k] = @ \union {s}] /\ queue' = queue
                \/ /\ queue' = [queue EXCEPT ![s] = Append(@, k)]
                   /\ value' = value /\ holds' = holds
    <2>1. PlaceTypes'
      BY <1>2 DEF Types, PlaceTypes
    <2>2. want' \in [Callers -> Semaphores] /\ holds' \in [Callers -> SUBSET Semaphores]
      <3>1. want \in [Callers -> Semaphores] /\ holds \in [Callers -> SUBSET Semaphores]
            /\ holds[k] \union {s} \in SUBSET Semaphores
        BY DEF Types
      <3> QED
        BY <1>2, <3>1
    <2>3. value' \in [Semaphores -> Nat]
      <3>1. value \in [Semaphores -> Nat] /\ (value[s] > 0 => value[s] - 1 \in Nat)
        BY DEF Types
      <3> QED
        BY <1>2, <3>1
    <2>4. queue' \in [Semaphores -> Seq(Callers)]
      <3>1. queue[s] \in Seq(Callers)
        BY DEF Types
      <3>2. Append(queue[s], k) \in Seq(Callers)
        BY <3>1, AppendIs
      <3> QED
        BY <1>2, <3>2 DEF Types
    <2> QED
      BY <2>1, <2>2, <2>3, <2>4 DEF SlotTypes
  <1> QED
    BY <1>1, <1>2 DEF Acquire

LEMMA DequeueTypes == ASSUME Types, NEW k \in Callers, Dequeue(k) PROVE SlotTypes'
  <1>1. want[k] \in Semaphores /\ queue[want[k]] \in Seq(Callers)
    BY DEF Types
  <1>2. Without(queue[want[k]], k) \in Seq(Callers)
    BY <1>1, WithoutIs
  <1>3. queue' \in [Semaphores -> Seq(Callers)]
    BY <1>1, <1>2 DEF Types, Dequeue
  <1> QED
    BY <1>3 DEF Types, SlotTypes, Dequeue

LEMMA InterruptTypes ==
  ASSUME Types, CallsInv, NEW k \in Callers, NEW o \in Outcomes, Interrupt(k, o), chain' = chain
  PROVE  PlaceTypes' /\ SlotTypes'
  <1>0. CallInv(k) /\ Len(chain) \in Nat /\ DOMAIN chain = 1..Len(chain)
    BY ChainFacts DEF CallsInv
  <1>1. CASE at[k] = "wait" /\ Dequeue(k) /\ Up(k, pos[k], o)
    <2>1. pos[k] \in 0..Len(chain)
      BY <1>0, <1>1 DEF CallInv, PlaceInv, In
    <2> QED
      BY <1>1, <2>1, UpPlace, DequeueTypes
  <1>2. CASE at[k] = "backoff" /\ Up(k, pos[k] - 1, o) /\ UNCHANGED svars
    <2>1. pos[k] - 1 \in 0..Len(chain)
      BY <1>0, <1>2 DEF CallInv, PlaceInv, In
    <2>2. SlotTypes'
      BY <1>2, TypeParts DEF SlotTypes, svars
    <2> QED
      BY <1>2, <2>1, <2>2, UpPlace
  <1>3. CASE at[k] = "base" /\ out' = [out EXCEPT ![k] = o] /\ UNCHANGED <<at, pos, svars>>
    BY <1>3 DEF Types, PlaceTypes, SlotTypes, svars
  <1> QED
    BY <1>1, <1>2, <1>3 DEF Interrupt

\* A released slot: no semaphore gets a queue or a value that it may not have.
LEMMA LeaveTypes == ASSUME Types, NEW k \in Callers, LeaveConcurrency(k) PROVE SlotTypes'
  <1> DEFINE heirs == {s \in Freed(k) : queue[s] # <<>>}
  <1>1. /\ value' = [s \in Semaphores |-> IF s \in Freed(k) \ heirs THEN value[s] + 1 ELSE value[s]]
        /\ queue' = [s \in Semaphores |-> IF s \in heirs THEN Tail(queue[s]) ELSE queue[s]]
        /\ holds' = [j \in Callers |-> (holds[j] \ (IF j = k THEN Freed(k) ELSE {}))
                                         \union {s \in heirs : Head(queue[s]) = j}]
        /\ want' = want
    BY DEF LeaveConcurrency
  <1>2. heirs \subseteq Semaphores /\ Freed(k) \subseteq Semaphores
    BY DEF Freed, Types
  <1>3. ASSUME NEW s \in heirs PROVE Tail(queue[s]) \in Seq(Callers)
    <2>1. queue[s] \in Seq(Callers) /\ queue[s] # <<>>
      BY <1>2, <1>3 DEF Types
    <2> QED
      BY <2>1, TailIs
  <1> HIDE DEF heirs
  <1>4. value' \in [Semaphores -> Nat]
    BY <1>1 DEF Types
  <1>5. queue' \in [Semaphores -> Seq(Callers)]
    BY <1>1, <1>3 DEF Types
  <1>6. holds' \in [Callers -> SUBSET Semaphores]
    BY <1>1, <1>2 DEF Types
  <1> QED
    BY <1>1, <1>4, <1>5, <1>6 DEF Types, SlotTypes

LEMMA TypesKept == ASSUME Types, CallsInv, [Next]_vars PROVE Types'
  <1> SUFFICES PlaceTypes' /\ TimerTypes' /\ SlotTypes'
    BY DEF Types, PlaceTypes, TimerTypes, SlotTypes
  <1>a. /\ PlaceTypes /\ TimerTypes /\ SlotTypes /\ Len(chain) \in Nat /\ DOMAIN chain = 1..Len(chain)
        /\ "none" \in Outcomes /\ "deadline" \in Outcomes /\ "scope" \in Outcomes /\ "cancelled" \in Outcomes
        /\ "exhausted" \in Outcomes /\ "stub" \in Outcomes /\ "stub error" \in Outcomes
        /\ "attempt timeout" \in Outcomes
        /\ {"ok", "transient", "permanent"} \subseteq Outcomes
        /\ \A j \in Callers : out[j] \in Outcomes
    BY TypeParts, ChainFacts DEF Outcomes, Types
  <1>b. UNCHANGED svars => SlotTypes'
    BY <1>a DEF SlotTypes, svars
  <1>c. UNCHANGED <<left, limit, wake, attempt, parent, last, tries>> => TimerTypes'
    BY <1>a DEF TimerTypes
  <1>1. ASSUME NEW k \in Callers, NEW b \in Budgets, Call(k, b) PROVE PlaceTypes' /\ TimerTypes' /\ SlotTypes'
    <2>1. /\ at[k] = "idle" /\ left' = [left EXCEPT ![k] = b] /\ UNCHANGED <<chain, limit, wake, attempt, svars, hvars>>
          /\ Down(k) /\ \E p \in Callers \union {NoCaller} : parent' = [parent EXCEPT ![k] = p]
      BY <1>1 DEF Call
    <2>2. pos[k] \in 0..Len(chain)
      <3>1. pos[k] = 0
        BY <2>1 DEF CallsInv, CallInv, PlaceInv
      <3> QED
        BY <3>1, ChainFacts
    <2>3. b \in Int \union {Never}
      BY SettingsAssumption
    <2>4. TimerTypes'
      BY <1>a, <2>1, <2>3 DEF TimerTypes, hvars
    <2> QED
      BY <1>b, <2>1, <2>2, <2>4, DownPlace
  <1>2. ASSUME NEW k \in Callers, EnterBase(k) PROVE PlaceTypes' /\ TimerTypes' /\ SlotTypes'
    <2>1. /\ at[k] = "down" /\ at' = [at EXCEPT ![k] = "base"] /\ tries' = [tries EXCEPT ![k] = @ + 1]
          /\ UNCHANGED <<chain, pos, out, left, limit, wake, attempt, svars, parent, last>>
      BY <1>2 DEF EnterBase
    <2>2. tries[k] < attempt[k]
      BY <2>1 DEF CallsInv, CallInv, TriesInv
    <2>3. tries[k] + 1 \in 0..Attempts
      <3>1. tries[k] \in 0..Attempts /\ attempt[k] \in 1..Attempts /\ Attempts \in Nat
        BY SettingsAssumption DEF Types
      <3> QED
        BY <2>2, <3>1
    <2>4. PlaceTypes'
      BY <1>a, <2>1 DEF PlaceTypes
    <2>5. TimerTypes'
      BY <1>a, <2>1, <2>3 DEF TimerTypes
    <2> QED
      BY <1>b, <2>1, <2>4, <2>5
  <1>3. ASSUME NEW k \in Callers, BaseEnds(k) \/ BaseCut(k) PROVE PlaceTypes' /\ TimerTypes' /\ SlotTypes'
    <2>1. UNCHANGED <<chain, left, limit, wake, attempt, svars, parent, tries>>
      BY <1>3 DEF BaseEnds, BaseCut
    <2>2. PICK o, l : /\ Up(k, Len(chain), o) /\ last' = [last EXCEPT ![k] = l]
                      /\ o \in Outcomes /\ l \in {"none", "ok", "transient", "permanent", "cut"}
      BY <1>3, <1>a DEF BaseEnds, BaseCut
    <2>3. Len(chain) \in 0..Len(chain)
      BY ChainFacts
    <2>4. TimerTypes'
      BY <1>a, <2>1, <2>2 DEF TimerTypes
    <2> QED
      BY <1>b, <2>1, <2>2, <2>3, <2>4, UpPlace
  <1>4. ASSUME NEW k \in Callers, Done(k) PROVE PlaceTypes' /\ TimerTypes' /\ SlotTypes'
    <2>1. 0 \in 0..MaxDelay /\ 1 \in 1..Attempts /\ 0 \in 0..Attempts /\ "outer" \in Semaphores
      BY SettingsAssumption DEF Semaphores
    <2>2. PlaceTypes'
      BY <1>4, <1>a DEF Done, PlaceTypes
    <2>3. TimerTypes'
      BY <1>4, <1>a, <2>1 DEF Done, TimerTypes
    <2>4. SlotTypes'
      BY <1>4, <1>a, <2>1 DEF Done, SlotTypes
    <2> QED
      BY <2>2, <2>3, <2>4
  <1>5. ASSUME NEW k \in Callers, EnterConcurrency(k) \/ Acquired(k) PROVE PlaceTypes' /\ TimerTypes' /\ SlotTypes'
    <2>1. UNCHANGED <<chain, left, limit, wake, attempt, parent, hvars>>
      BY <1>5 DEF EnterConcurrency, Acquired
    <2>2. In(k, "concurrency")
      BY <1>5 DEF EnterConcurrency, Acquired, Granted, CallsInv, CallInv, PlaceInv
    <2>3. pos[k] \in 0..Len(chain)
      BY <2>2, AtLink
    <2>4. Levels(k)[1] \in Semaphores /\ Levels(k)[2] \in Semaphores
      BY CallersAssumption DEF Levels, Semaphores
    <2>5. PlaceTypes' /\ SlotTypes'
      <3>1. CASE Acquire(k, Levels(k)[1])
        BY <2>1, <2>3, <2>4, <3>1, AcquireTypes
      <3>2. CASE Acquire(k, Levels(k)[2])
        BY <2>1, <2>3, <2>4, <3>2, AcquireTypes
      <3>3. CASE Down(k) /\ UNCHANGED svars
        BY <1>b, <2>1, <2>3, <3>3, DownPlace
      <3> QED
        BY <1>5, <3>1, <3>2, <3>3 DEF EnterConcurrency, Acquired
    <2> QED
      BY <1>c, <2>1, <2>5 DEF hvars
  <1>6. ASSUME NEW k \in Callers, WaitExpires(k) \/ TimeoutFires(k) \/ Cancel(k) \/ CancelNested(k) PROVE PlaceTypes' /\ TimerTypes' /\ SlotTypes'
    <2>1. UNCHANGED <<chain, left, limit, wake, attempt, parent, hvars>>
      BY <1>6 DEF WaitExpires, TimeoutFires, Cancel, CancelNested
    <2>2. \E o \in Outcomes : Interrupt(k, o)
      BY <1>6, <1>a DEF WaitExpires, TimeoutFires, Cancel, CancelNested, Interrupt
    <2> QED
      BY <1>c, <2>1, <2>2, InterruptTypes DEF hvars
  <1>7. ASSUME NEW k \in Callers, LeaveConcurrency(k) PROVE PlaceTypes' /\ TimerTypes' /\ SlotTypes'
    <2>1. /\ In(k, "concurrency") /\ Up(k, pos[k] - 1, out[k])
          /\ UNCHANGED <<chain, left, limit, wake, attempt, parent, hvars>>
      BY <1>7 DEF LeaveConcurrency
    <2>2. pos[k] - 1 \in 0..Len(chain)
      BY <2>1, AtLink
    <2>3. PlaceTypes'
      BY <1>a, <2>1, <2>2, UpPlace
    <2> QED
      BY <1>7, <1>c, <2>1, <2>3, LeaveTypes DEF hvars
  <1>8. ASSUME NEW k \in Callers, EnterTimeout(k) PROVE PlaceTypes' /\ TimerTypes' /\ SlotTypes'
    <2>1. /\ In(k, "timeout") /\ UNCHANGED <<chain, left, wake, attempt, svars, parent, hvars>>
          /\ \/ Up(k, pos[k] - 1, "deadline") /\ limit' = limit
             \/ Down(k) /\ ~Expired(k) /\ limit' = [limit EXCEPT ![k] = ScopeLimit(k)]
      BY <1>8 DEF EnterTimeout
    <2>2. pos[k] \in 0..Len(chain) /\ pos[k] - 1 \in 0..Len(chain)
      BY <2>1, AtLink
    <2>3. ~Expired(k) => ScopeLimit(k) \in Nat
      BY CallTypes, SettingsAssumption DEF ScopeLimit, WithinBudget, Expired
    <2>4. PlaceTypes'
      BY <1>a, <2>1, <2>2, UpPlace, DownPlace
    <2>5. TimerTypes'
      BY <1>a, <2>1, <2>3 DEF TimerTypes, hvars
    <2> QED
      BY <1>b, <2>1, <2>4, <2>5
  <1>9. ASSUME NEW k \in Callers, LeaveTimeout(k) PROVE PlaceTypes' /\ TimerTypes' /\ SlotTypes'
    <2>1. /\ In(k, "timeout") /\ UNCHANGED <<chain, left, wake, attempt, svars, parent, hvars>>
          /\ limit' = [limit EXCEPT ![k] = Never]
          /\ \E o \in Outcomes : Up(k, pos[k] - 1, o)
      BY <1>9, <1>a DEF LeaveTimeout
    <2>2. pos[k] - 1 \in 0..Len(chain)
      BY <2>1, AtLink
    <2>3. TimerTypes'
      BY <1>a, <2>1 DEF TimerTypes, hvars
    <2> QED
      BY <1>b, <2>1, <2>2, <2>3, UpPlace
  <1>10. ASSUME NEW k \in Callers, EnterRetry(k) \/ EnterDegradation(k) \/ LeaveDegradation(k) PROVE PlaceTypes' /\ TimerTypes' /\ SlotTypes'
    <2>1. /\ In(k, "retry") \/ In(k, "degradation")
          /\ UNCHANGED <<chain, left, limit, wake, attempt, svars, parent, hvars>>
          /\ Down(k) \/ \E o \in Outcomes : Up(k, pos[k] - 1, o)
      BY <1>10, <1>a DEF EnterRetry, EnterDegradation, LeaveDegradation
    <2>2. pos[k] \in 0..Len(chain) /\ pos[k] - 1 \in 0..Len(chain)
      BY <2>1, AtLink
    <2>3. PlaceTypes'
      BY <2>1, <2>2, UpPlace, DownPlace
    <2> QED
      BY <1>b, <1>c, <2>1, <2>3 DEF hvars
  <1>11. ASSUME NEW k \in Callers, LeaveRetry(k) PROVE PlaceTypes' /\ TimerTypes' /\ SlotTypes'
    <2>1. /\ In(k, "retry") /\ UNCHANGED <<chain, left, limit, attempt, svars, parent, hvars>>
          /\ \/ wake' = wake /\ \E o \in Outcomes : Up(k, pos[k] - 1, o)
             \/ /\ at' = [at EXCEPT ![k] = "backoff"] /\ out' = [out EXCEPT ![k] = "none"] /\ pos' = pos
                /\ \E d \in 0..MaxDelay : wake' = [wake EXCEPT ![k] = d]
      BY <1>11, <1>a DEF LeaveRetry, Delays
    <2>2. pos[k] - 1 \in 0..Len(chain)
      BY <2>1, AtLink
    <2>3. PlaceTypes'
      <3>1. CASE \E o \in Outcomes : Up(k, pos[k] - 1, o)
        BY <2>1, <2>2, <3>1, UpPlace
      <3>2. CASE at' = [at EXCEPT ![k] = "backoff"] /\ out' = [out EXCEPT ![k] = "none"] /\ pos' = pos
        BY <1>a, <2>1, <3>2 DEF PlaceTypes
      <3> QED
        BY <2>1, <3>1, <3>2
    <2>4. TimerTypes'
      BY <1>a, <2>1 DEF TimerTypes, hvars
    <2> QED
      BY <1>b, <2>1, <2>3, <2>4
  <1>12. ASSUME NEW k \in Callers, BackoffOver(k) PROVE PlaceTypes' /\ TimerTypes' /\ SlotTypes'
    <2>1. /\ at[k] = "backoff" /\ UNCHANGED <<chain, left, limit, wake, svars, parent, hvars>>
          /\ attempt' = [attempt EXCEPT ![k] = @ + 1]
          /\ Down(k) \/ \E o \in Outcomes : Up(k, pos[k] - 1, o)
      BY <1>12, <1>a DEF BackoffOver
    <2>2. In(k, "retry") /\ attempt[k] < Attempts
      BY <2>1 DEF CallsInv, CallInv, PlaceInv
    <2>3. pos[k] \in 0..Len(chain) /\ pos[k] - 1 \in 0..Len(chain)
      BY <2>2, AtLink
    <2>4. attempt[k] + 1 \in 1..Attempts
      BY <2>2, CallTypes
    <2>5. PlaceTypes'
      BY <2>1, <2>3, UpPlace, DownPlace
    <2>6. TimerTypes'
      BY <1>a, <2>1, <2>4 DEF TimerTypes, hvars
    <2> QED
      BY <1>b, <2>1, <2>5, <2>6
  <1>13. CASE Tick
    <2>1. UNCHANGED <<chain, at, pos, out, attempt, svars, parent, hvars>>
      BY <1>13 DEF Tick
    <2>2. ASSUME NEW k \in Callers
          PROVE  /\ Less(left[k]) \in Int \union {Never} /\ Less(limit[k]) \in Nat \union {Never}
                 /\ at[k] = "backoff" => wake[k] - 1 \in 0..MaxDelay
      <3>1. ~Runnable(k) /\ at[k] \notin {"down", "up"} /\ CallInv(k)
        BY <1>13 DEF Tick, Quiet, CallsInv
      <3>2. /\ left[k] \in Int \union {Never} /\ limit[k] \in Nat \union {Never}
            /\ wake[k] \in 0..MaxDelay /\ MaxDelay \in Nat /\ Never \notin Int
        BY CallTypes, SettingsAssumption
      <3>3. limit[k] # 0
        BY <3>1, <3>2, CallTypes DEF CallInv, PlaceInv, Runnable, Due, Awaits
      <3>4. at[k] = "backoff" => wake[k] # 0
        BY <3>1 DEF Runnable, Due
      <3>5. Less(left[k]) \in Int \union {Never} /\ Less(limit[k]) \in Nat \union {Never}
        BY <3>2, <3>3 DEF Less
      <3> QED
        BY <3>2, <3>4, <3>5
    <2>3. /\ left' = [k \in Callers |-> IF Active(k) THEN Less(left[k]) ELSE left[k]]
          /\ limit' = [k \in Callers |-> Less(limit[k])]
          /\ wake' = [k \in Callers |-> IF at[k] = "backoff" THEN wake[k] - 1 ELSE wake[k]]
      BY <1>13 DEF Tick
    <2>4. TimerTypes'
      BY <1>a, <2>1, <2>2, <2>3 DEF TimerTypes, hvars
    <2>5. PlaceTypes'
      BY <1>a, <2>1 DEF PlaceTypes
    <2> QED
      BY <1>b, <2>1, <2>4, <2>5
  <1>14. CASE UNCHANGED vars
    BY <1>14, <1>a, <1>b, <1>c DEF vars, svars, hvars, PlaceTypes
  <1> QED
    BY <1>1, <1>2, <1>3, <1>4, <1>5, <1>6, <1>7, <1>8, <1>9, <1>10, <1>11, <1>12, <1>13, <1>14 DEF Next, Proceed

-----------------------------------------------------------------------------
(* Slots *)

\* A call that holds a slot stays in the link or below it, until it leaves it.
LEMMA StaysBelow ==
  ASSUME Types, NEW k \in Callers, Below(k), chain' = chain,
         \/ at'[k] = "up" /\ pos'[k] = pos[k]
         \/ at'[k] = "up" /\ pos'[k] = pos[k] - 1 /\ ~(In(k, "concurrency") /\ at[k] \in {"wait", "up"})
         \/ pos'[k] = pos[k] + 1
         \/ pos'[k] = pos[k] /\ ~In(k, "concurrency")
         \/ at'[k] = "wait" /\ pos'[k] = pos[k]
  PROVE  Below(k)'
  <1>1. PICK i \in DOMAIN chain : /\ chain[i] = "concurrency"
                                  /\ i < pos[k] \/ (i = pos[k] /\ at[k] \in {"wait", "up"})
    BY DEF Below
  <1>2. i \in Nat /\ pos[k] \in Nat
    BY ChainFacts, CallTypes
  <1>3. i < pos'[k] \/ (i = pos'[k] /\ at'[k] \in {"wait", "up"})
    BY <1>1, <1>2 DEF In
  <1> QED
    BY <1>1, <1>3 DEF Below

\* Who does not wait for a slot any more is in no queue.
LEMMA NotQueued ==
  ASSUME Types, SlotsInv, NEW k \in Callers, NEW s \in Semaphores,
         at[k] # "wait" \/ want[k] # s \/ s \in holds[k]
  PROVE  \A i \in DOMAIN queue[s] : queue[s][i] # k
  BY DEF SlotsInv, Queued

LEMMA CountSame ==
  ASSUME SlotsInv, NEW s \in Semaphores, value'[s] = value[s], Holders(s)' = Holders(s)
  PROVE  Counted(s)'
  BY DEF SlotsInv, Counted, Slots

LEMMA HoldersFinite == ASSUME NEW s PROVE IsFiniteSet(Holders(s)) /\ Cardinality(Holders(s)) \in Nat
  BY CallersAssumption, FS_Subset, FS_CardinalityType DEF Holders

\* Call k goes on, and no slot changes hands.
LEMMA SlotsSteady ==
  ASSUME Types, SlotsInv, NEW k \in Callers, NEW a, NEW p, NEW o, Goes(k, a, p, o),
         UNCHANGED <<holds, value, queue>>, \A j \in Callers \ {k} : want'[j] = want[j],
         at[k] # "wait" \/ want[k] \in holds[k], HoldsInv(k)'
  PROVE  SlotsInv'
  <1>1. ASSUME NEW j \in Callers, j # k PROVE HoldsInv(j)'
    <2>1. HoldsInv(j) /\ chain' = chain /\ at'[j] = at[j] /\ pos'[j] = pos[j] /\ holds' = holds /\ want'[j] = want[j]
      BY <1>1 DEF SlotsInv, Goes
    <2> QED
      BY <2>1 DEF HoldsInv, Below, Active
  <1>2. ASSUME NEW s \in Semaphores PROVE Queued(s)'
    <2>1. Queued(s) /\ queue[s] \in Seq(Callers)
      BY DEF SlotsInv, Types
    <2>2. ASSUME NEW i \in DOMAIN queue[s]
          PROVE  at'[queue[s][i]] = "wait" /\ want'[queue[s][i]] = s /\ s \notin holds[queue[s][i]]
      <3>1. queue[s][i] \in Callers \ {k}
        BY <2>1 DEF Queued
      <3> QED
        BY <2>1, <3>1 DEF Queued, Goes
    <2> QED
      BY <2>1, <2>2 DEF Queued
  <1>3. ASSUME NEW s \in Semaphores PROVE Counted(s)'
    BY <1>3, CountSame DEF Holders
  <1> QED
    BY <1>1, <1>2, <1>3 DEF SlotsInv

LEMMA AcquireSlots ==
  ASSUME Types, CallsInv, SlotsInv, NEW k \in Callers, In(k, "concurrency"), NEW s, chain' = chain, Acquire(k, s),
         \/ at[k] = "down" /\ s = SliceOf[k]
         \/ at[k] = "wait" /\ want[k] = SliceOf[k] /\ SliceOf[k] \in holds[k] /\ s = "outer"
  PROVE  SlotsInv'
  <1>0. /\ SliceOf[k] \in Slices /\ SliceOf[k] # "outer" /\ SliceOf[k] \in Semaphores /\ "outer" \in Semaphores
        /\ s \in Semaphores /\ HoldsInv(k) /\ holds[k] \subseteq {SliceOf[k], "outer"}
    BY CallersAssumption DEF Semaphores, SlotsInv, HoldsInv
  <1>1. at[k] = "down" => holds[k] = {}
    <2>1. \A i \in DOMAIN chain : chain[i] = "concurrency" => i = pos[k]
      BY AtLink
    <2>2. at[k] = "down" => ~Below(k)
      BY <2>1, CallTypes DEF Below
    <2> QED
      BY <1>0, <2>2 DEF HoldsInv
  <1>2. s \notin holds[k]
    BY <1>0, <1>1 DEF HoldsInv
  <1>3. CASE Up(k, pos[k], "deadline") /\ UNCHANGED svars
    <2>1. Goes(k, "up", pos[k], "deadline")
      BY <1>3, GoesUp
    <2>2. at'[k] = "up" /\ pos'[k] = pos[k]
      BY <2>1 DEF Goes
    <2>3. HoldsInv(k)'
      BY <1>0, <1>3, <2>2, StaysBelow DEF HoldsInv, Active, svars
    <2> QED
      BY <1>0, <1>3, <2>1, <2>3, SlotsSteady DEF svars
  <1>4. ASSUME at' = [at EXCEPT ![k] = "wait"], UNCHANGED <<pos, out>>, want' = [want EXCEPT ![k] = s]
        PROVE  /\ Goes(k, "wait", pos[k], out[k]) /\ at'[k] = "wait" /\ pos'[k] = pos[k] /\ want'[k] = s
               /\ Below(k)' /\ Active(k)'
               /\ \A j \in Callers \ {k} : want'[j] = want[j]
    <2>1. Goes(k, "wait", pos[k], out[k]) /\ want'[k] = s /\ \A j \in Callers \ {k} : want'[j] = want[j]
      BY <1>4 DEF Types, Goes
    <2>2. at'[k] = "wait" /\ pos'[k] = pos[k]
      BY <2>1 DEF Goes
    <2>3. Below(k)'
      BY <2>2 DEF Below, In
    <2> QED
      BY <2>1, <2>2, <2>3 DEF Active
  <1>5. CASE /\ at' = [at EXCEPT ![k] = "wait"] /\ UNCHANGED <<pos, out>> /\ want' = [want EXCEPT ![k] = s]
             /\ value[s] > 0 /\ value' = [value EXCEPT ![s] = @ - 1]
             /\ holds' = [holds EXCEPT ![k] = @ \union {s}] /\ queue' = queue
    <2>1. holds'[k] = holds[k] \union {s} /\ \A j \in Callers \ {k} : holds'[j] = holds[j]
      BY <1>5 DEF Types
    <2>2. HoldsInv(k)'
      BY <1>0, <1>1, <1>4, <1>5, <2>1 DEF HoldsInv
    <2>3. ASSUME NEW j \in Callers, j # k PROVE HoldsInv(j)'
      <3>1. HoldsInv(j) /\ chain' = chain /\ at'[j] = at[j] /\ pos'[j] = pos[j] /\ holds'[j] = holds[j] /\ want'[j] = want[j]
        BY <1>4, <1>5, <2>1, <2>3 DEF SlotsInv, Goes
      <3> QED
        BY <3>1 DEF HoldsInv, Below, Active
    <2>4. ASSUME NEW r \in Semaphores PROVE Queued(r)'
      <3>1. Queued(r) /\ queue[r] \in Seq(Callers) /\ \A i \in DOMAIN queue[r] : queue[r][i] # k
        BY <1>0, NotQueued DEF SlotsInv, Types
      <3>2. ASSUME NEW i \in DOMAIN queue[r]
            PROVE  at'[queue[r][i]] = "wait" /\ want'[queue[r][i]] = r /\ r \notin holds'[queue[r][i]]
        <4>1. queue[r][i] \in Callers \ {k}
          BY <3>1
        <4> QED
          BY <1>4, <1>5, <2>1, <3>1, <4>1 DEF Queued, Goes
      <3> QED
        BY <1>5, <3>1, <3>2 DEF Queued
    <2>5. ASSUME NEW r \in Semaphores, r # s PROVE Counted(r)'
      <3>1. value'[r] = value[r]
        BY <1>5, <2>5 DEF Types
      <3>2. Holders(r)' = Holders(r)
        BY <2>1, <2>5 DEF Holders
      <3> QED
        BY <3>1, <3>2, CountSame
    <2>6. Counted(s)'
      <3>1. Holders(s)' = Holders(s) \union {k} /\ k \notin Holders(s)
        BY <1>2, <2>1 DEF Holders
      <3>2. Cardinality(Holders(s)') = Cardinality(Holders(s)) + 1
        BY <3>1, HoldersFinite, FS_AddElement
      <3>3. value[s] \in Nat /\ value'[s] = value[s] - 1
        BY <1>0, <1>5 DEF Types
      <3>4. value[s] + Cardinality(Holders(s)) = Slots(s)
        BY <1>0 DEF SlotsInv, Counted
      <3> QED
        BY <3>2, <3>3, <3>4, HoldersFinite DEF Counted, Slots
    <2> QED
      BY <2>2, <2>3, <2>4, <2>5, <2>6 DEF SlotsInv
  <1>6. CASE /\ at' = [at EXCEPT ![k] = "wait"] /\ UNCHANGED <<pos, out>> /\ want' = [want EXCEPT ![k] = s]
             /\ queue' = [queue EXCEPT ![s] = Append(@, k)] /\ value' = value /\ holds' = holds
    <2>1. HoldsInv(k)'
      BY <1>0, <1>1, <1>4, <1>6 DEF HoldsInv
    <2>2. ASSUME NEW j \in Callers, j # k PROVE HoldsInv(j)'
      <3>1. HoldsInv(j) /\ chain' = chain /\ at'[j] = at[j] /\ pos'[j] = pos[j] /\ holds' = holds /\ want'[j] = want[j]
        BY <1>4, <1>6, <2>2 DEF SlotsInv, Goes
      <3> QED
        BY <3>1 DEF HoldsInv, Below, Active
    <2>3. ASSUME NEW r \in Semaphores PROVE Queued(r)'
      <3>1. Queued(r) /\ queue[r] \in Seq(Callers) /\ \A i \in DOMAIN queue[r] : queue[r][i] # k
        BY <1>0, <1>2, NotQueued DEF SlotsInv, Types
      <3>2. ASSUME NEW i \in DOMAIN queue[r]
            PROVE  at'[queue[r][i]] = "wait" /\ want'[queue[r][i]] = r /\ r \notin holds'[queue[r][i]]
        <4>1. queue[r][i] \in Callers \ {k}
          BY <3>1
        <4> QED
          BY <1>4, <1>6, <3>1, <4>1 DEF Queued, Goes
      <3>3. CASE r = s
        <4>1. queue'[s] = Append(queue[s], k)
          BY <1>0, <1>6 DEF Types
        <4>2. /\ \A m \in DOMAIN queue'[s] : queue'[s][m] = k \/ \E j \in DOMAIN queue[s] : queue'[s][m] = queue[s][j]
              /\ Distinct(queue'[s])
          BY <3>1, <3>3, <4>1, AppendIs DEF Queued, Distinct
        <4>3. at'[k] = "wait" /\ want'[k] = s /\ s \notin holds'[k]
          BY <1>2, <1>4, <1>6
        <4> QED
          BY <3>2, <3>3, <4>2, <4>3 DEF Queued, Distinct
      <3>4. CASE r # s
        <4>1. queue'[r] = queue[r]
          BY <1>6, <3>4 DEF Types
        <4> QED
          BY <3>1, <3>2, <4>1 DEF Queued
      <3> QED
        BY <3>3, <3>4
    <2>4. ASSUME NEW r \in Semaphores PROVE Counted(r)'
      BY <1>6, CountSame DEF Holders
    <2> QED
      BY <2>1, <2>2, <2>3, <2>4 DEF SlotsInv
  <1> QED
    BY <1>3, <1>5, <1>6 DEF Acquire

\* A waiter gives up, in its queue or with the slot that it has just been given.
LEMMA DequeueSlots ==
  ASSUME Types, SlotsInv, NEW k \in Callers, NEW o, at[k] = "wait", Dequeue(k), Up(k, pos[k], o), chain' = chain
  PROVE  SlotsInv'
  <1>0. /\ want[k] \in Semaphores /\ queue' = [queue EXCEPT ![want[k]] = Without(@, k)]
        /\ want' = want /\ holds' = holds /\ value' = value
    BY DEF Dequeue, Types
  <1>1. Goes(k, "up", pos[k], o)
    BY GoesUp
  <1>2. at'[k] = "up" /\ pos'[k] = pos[k]
    BY <1>1 DEF Goes
  <1>3. HoldsInv(k)'
    BY <1>0, <1>2, StaysBelow DEF SlotsInv, HoldsInv, Active
  <1>4. ASSUME NEW j \in Callers, j # k PROVE HoldsInv(j)'
    <2>1. HoldsInv(j) /\ chain' = chain /\ at'[j] = at[j] /\ pos'[j] = pos[j] /\ holds' = holds /\ want' = want
      BY <1>0, <1>1, <1>4 DEF SlotsInv, Goes
    <2> QED
      BY <2>1 DEF HoldsInv, Below, Active
  <1>5. ASSUME NEW s \in Semaphores PROVE Queued(s)'
    <2>1. Queued(s) /\ queue[s] \in Seq(Callers)
      BY DEF SlotsInv, Types
    <2>2. ASSUME NEW i \in DOMAIN queue[s], queue[s][i] # k
          PROVE  at'[queue[s][i]] = "wait" /\ want'[queue[s][i]] = s /\ s \notin holds'[queue[s][i]]
      <3>1. queue[s][i] \in Callers \ {k}
        BY <2>1, <2>2
      <3> QED
        BY <1>0, <1>1, <2>1, <3>1 DEF Queued, Goes
    <2>3. CASE s = want[k]
      <3>1. queue'[s] = Without(queue[s], k)
        BY <1>0, <2>3 DEF Types
      <3>2. /\ \A m \in DOMAIN queue'[s] : queue'[s][m] # k /\ \E j \in DOMAIN queue[s] : queue'[s][m] = queue[s][j]
            /\ Distinct(queue'[s])
        BY <2>1, <3>1, WithoutIs DEF Queued, Distinct
      <3> QED
        BY <2>2, <3>2 DEF Queued, Distinct
    <2>4. CASE s # want[k]
      <3>1. queue'[s] = queue[s] /\ \A i \in DOMAIN queue[s] : queue[s][i] # k
        BY <1>0, <2>4, NotQueued DEF Types
      <3> QED
        BY <2>1, <2>2, <3>1 DEF Queued
    <2> QED
      BY <2>3, <2>4
  <1>6. ASSUME NEW s \in Semaphores PROVE Counted(s)'
    BY <1>0, CountSame DEF Holders
  <1> QED
    BY <1>3, <1>4, <1>5, <1>6 DEF SlotsInv

LEMMA InterruptSlots ==
  ASSUME Types, CallsInv, SlotsInv, NEW k \in Callers, NEW o, Interrupt(k, o), chain' = chain
  PROVE  SlotsInv'
  <1>0. HoldsInv(k) /\ CallInv(k)
    BY DEF SlotsInv, CallsInv
  <1>1. CASE at[k] = "wait" /\ Dequeue(k) /\ Up(k, pos[k], o)
    BY <1>1, DequeueSlots
  <1>2. CASE at[k] = "backoff" /\ Up(k, pos[k] - 1, o) /\ UNCHANGED svars
    <2>1. Goes(k, "up", pos[k] - 1, o)
      BY <1>2, GoesUp
    <2>2. at'[k] = "up" /\ pos'[k] = pos[k] - 1
      BY <2>1 DEF Goes
    <2>3. HoldsInv(k)'
      BY <1>0, <1>2, <2>2, StaysBelow DEF HoldsInv, Active, svars
    <2> QED
      BY <1>2, <2>1, <2>3, SlotsSteady DEF svars
  <1>3. CASE at[k] = "base" /\ out' = [out EXCEPT ![k] = o] /\ UNCHANGED <<at, pos, svars>>
    <2>1. Goes(k, "base", pos[k], o)
      BY <1>3 DEF Goes, Types
    <2>2. HoldsInv(k)'
      BY <1>0, <1>3 DEF HoldsInv, Below, Active, svars
    <2> QED
      BY <1>3, <2>1, <2>2, SlotsSteady DEF svars
  <1> QED
    BY <1>1, <1>2, <1>3 DEF Interrupt

\* The steps that leave the semaphores alone and move the call by one link
LEMMA PassSlots ==
  ASSUME Types, SlotsInv, NEW k \in Callers, NEW a, NEW p, NEW o, Goes(k, a, p, o), UNCHANGED svars,
         a \in {"down", "up", "backoff", "base"}, Active(k), at[k] # "wait" \/ want[k] \in holds[k],
         \/ p = pos[k] + 1
         \/ a = "up" /\ p = pos[k] - 1 /\ ~(In(k, "concurrency") /\ at[k] \in {"wait", "up"})
         \/ p = pos[k] /\ ~In(k, "concurrency")
  PROVE  SlotsInv'
  <1>1. HoldsInv(k) /\ chain' = chain /\ at'[k] = a /\ pos'[k] = p
    BY DEF SlotsInv, Goes
  <1>2. HoldsInv(k)'
    BY <1>1, StaysBelow DEF HoldsInv, Active, svars
  <1> QED
    BY <1>2, SlotsSteady DEF svars

LEMMA AcquiredSlots == ASSUME Types, CallsInv, SlotsInv, NEW k \in Callers, Acquired(k) PROVE SlotsInv'
  <1>1. /\ at[k] = "wait" /\ want[k] \in holds[k] /\ chain' = chain
        /\ IF want[k] = SliceOf[k] THEN Acquire(k, "outer") ELSE Down(k) /\ UNCHANGED svars
    BY DEF Acquired, Granted, Levels
  <1>2. In(k, "concurrency")
    BY <1>1 DEF CallsInv, CallInv, PlaceInv
  <1>3. CASE want[k] = SliceOf[k]
    BY <1>1, <1>2, <1>3, AcquireSlots
  <1>4. CASE want[k] # SliceOf[k]
    <2>1. Goes(k, "down", pos[k] + 1, "none") /\ Active(k)
      BY <1>1, <1>4, GoesDown DEF Active
    <2> QED
      BY <1>1, <1>4, <2>1, PassSlots
  <1> QED
    BY <1>3, <1>4

\* Each slot of the call goes to the first waiter, or is free.
LEMMA LeaveSlots == ASSUME Types, CallsInv, SlotsInv, NEW k \in Callers, LeaveConcurrency(k) PROVE SlotsInv'
  <1> DEFINE heirs == {s \in holds[k] : queue[s] # <<>>}
             Heir(s) == Head(queue[s])
  <1>0. /\ at[k] = "up" /\ In(k, "concurrency") /\ chain' = chain /\ want' = want
        /\ value' = [s \in Semaphores |-> IF s \in holds[k] \ heirs THEN value[s] + 1 ELSE value[s]]
        /\ queue' = [s \in Semaphores |-> IF s \in heirs THEN Tail(queue[s]) ELSE queue[s]]
        /\ holds' = [j \in Callers |-> (holds[j] \ (IF j = k THEN holds[k] ELSE {}))
                                         \union {s \in heirs : Heir(s) = j}]
        /\ Up(k, pos[k] - 1, out[k])
    BY DEF LeaveConcurrency, Freed
  <1>1. Goes(k, "up", pos[k] - 1, out[k])
    BY <1>0, GoesUp
  <1>2. holds[k] \subseteq Semaphores /\ heirs \subseteq holds[k]
    BY DEF Types
  <1>3. ASSUME NEW s \in heirs
        PROVE  /\ 1 \in DOMAIN queue[s] /\ Heir(s) = queue[s][1]
               /\ Heir(s) \in Callers /\ Heir(s) # k /\ at[Heir(s)] = "wait" /\ want[Heir(s)] = s
               /\ s \notin holds[Heir(s)]
               /\ queue'[s] = Tail(queue[s])
               /\ \A m \in DOMAIN Tail(queue[s]) : \E j \in DOMAIN queue[s] : Tail(queue[s])[m] = queue[s][j] /\ j # 1
               /\ Distinct(Tail(queue[s]))
    <2>1. s \in Semaphores /\ queue[s] \in Seq(Callers) /\ queue[s] # <<>> /\ Queued(s)
      BY <1>2, <1>3 DEF Types, SlotsInv
    <2>2. /\ 1 \in DOMAIN queue[s] /\ Heir(s) = queue[s][1] /\ Heir(s) \in Callers
          /\ \A m \in DOMAIN Tail(queue[s]) : \E j \in DOMAIN queue[s] : Tail(queue[s])[m] = queue[s][j] /\ j # 1
          /\ Distinct(Tail(queue[s]))
      BY <2>1, TailIs DEF Queued, Distinct
    <2>3. at[Heir(s)] = "wait" /\ want[Heir(s)] = s /\ s \notin holds[Heir(s)]
      BY <2>1, <2>2 DEF Queued
    <2> QED
      BY <1>0, <1>3, <2>1, <2>2, <2>3
  <1> HIDE DEF heirs, Heir
  <1>4. holds'[k] = {} /\ at'[k] = "up"
    BY <1>0, <1>1, <1>3 DEF Goes
  <1>5. HoldsInv(k)'
    BY <1>4 DEF HoldsInv
  <1>6. ASSUME NEW j \in Callers, j # k
        PROVE  /\ HoldsInv(j) /\ at'[j] = at[j] /\ pos'[j] = pos[j] /\ want'[j] = want[j]
               /\ holds'[j] = holds[j] \union {s \in heirs : Heir(s) = j}
    BY <1>0, <1>1, <1>6 DEF SlotsInv, Goes
  <1>7. ASSUME NEW j \in Callers, j # k PROVE HoldsInv(j)'
    <2>1. CASE ~\E s \in heirs : Heir(s) = j
      <3>1. holds'[j] = holds[j]
        BY <1>6, <1>7, <2>1
      <3> QED
        BY <1>0, <1>6, <1>7, <3>1 DEF HoldsInv, Below, Active
    <2>2. CASE \E s \in heirs : Heir(s) = j
      <3>1. PICK s \in heirs : Heir(s) = j
        BY <2>2
      <3>2. at[j] = "wait" /\ want[j] = s /\ holds'[j] = holds[j] \union {s}
        BY <1>3, <1>6, <1>7, <3>1
      <3>3. In(j, "concurrency")
        BY <3>2 DEF CallsInv, CallInv, PlaceInv
      <3>4. Below(j)' /\ Active(j)'
        BY <1>0, <1>6, <1>7, <3>2, <3>3 DEF Below, Active, In
      <3> QED
        BY <1>6, <1>7, <3>2, <3>4 DEF HoldsInv
    <2> QED
      BY <2>1, <2>2
  <1>8. ASSUME NEW s \in Semaphores PROVE Queued(s)'
    <2>1. Queued(s) /\ queue[s] \in Seq(Callers) /\ \A i \in DOMAIN queue[s] : queue[s][i] # k
      BY <1>0, NotQueued DEF SlotsInv, Types
    <2>2. ASSUME NEW i \in DOMAIN queue[s]
          PROVE  /\ at'[queue[s][i]] = "wait" /\ want'[queue[s][i]] = s
                 /\ s \notin heirs \/ i # 1 => s \notin holds'[queue[s][i]]
      <3>1. queue[s][i] \in Callers \ {k} /\ at[queue[s][i]] = "wait" /\ want[queue[s][i]] = s /\ s \notin holds[queue[s][i]]
        BY <2>1 DEF Queued
      <3>2. s \in heirs /\ i # 1 => Heir(s) # queue[s][i]
        BY <1>3, <2>1 DEF Queued
      <3> QED
        BY <1>6, <3>1, <3>2
    <2>3. CASE s \in heirs
      <3>1. Distinct(queue'[s])
        BY <1>3, <2>3
      <3>2. ASSUME NEW m \in DOMAIN queue'[s]
            PROVE  at'[queue'[s][m]] = "wait" /\ want'[queue'[s][m]] = s /\ s \notin holds'[queue'[s][m]]
        <4>1. PICK i \in DOMAIN queue[s] : queue'[s][m] = queue[s][i] /\ i # 1
          <5>1. queue'[s] = Tail(queue[s])
            BY <1>3, <2>3
          <5>2. m \in DOMAIN Tail(queue[s])
            BY <3>2, <5>1
          <5>3. \E i \in DOMAIN queue[s] : Tail(queue[s])[m] = queue[s][i] /\ i # 1
            BY <1>3, <2>3, <5>2
          <5> QED
            BY <5>1, <5>3
        <4> QED
          BY <2>2, <4>1
      <3> QED
        BY <3>1, <3>2 DEF Queued, Distinct
    <2>4. CASE s \notin heirs
      <3>1. queue'[s] = queue[s]
        BY <1>0, <2>4
      <3> QED
        BY <2>1, <2>2, <2>4, <3>1 DEF Queued
    <2> QED
      BY <2>3, <2>4
  <1>9. ASSUME NEW s \in Semaphores PROVE Counted(s)'
    <2>0. /\ value[s] \in Nat /\ value[s] + Cardinality(Holders(s)) = Slots(s)
          /\ IsFiniteSet(Holders(s)) /\ Cardinality(Holders(s)) \in Nat
      BY HoldersFinite DEF Types, SlotsInv, Counted
    <2>1. CASE s \notin holds[k]
      <3>1. value'[s] = value[s] /\ s \notin heirs
        BY <1>0, <1>2, <2>1
      <3>2. Holders(s)' = Holders(s)
        BY <1>4, <1>6, <2>1, <3>1 DEF Holders
      <3> QED
        BY <3>1, <3>2, CountSame
    <2>2. CASE s \in holds[k] /\ s \notin heirs
      <3>1. value'[s] = value[s] + 1
        BY <1>0, <2>2
      <3>2. Holders(s)' = Holders(s) \ {k} /\ k \in Holders(s)
        BY <1>4, <1>6, <2>2 DEF Holders
      <3>3. Cardinality(Holders(s)') = Cardinality(Holders(s)) - 1
        BY <2>0, <3>2, FS_RemoveElement
      <3> QED
        BY <2>0, <3>1, <3>3 DEF Counted, Slots
    <2>3. CASE s \in holds[k] /\ s \in heirs
      <3>1. value'[s] = value[s]
        BY <1>0, <2>3
      <3>2. /\ Holders(s)' = (Holders(s) \ {k}) \union {Heir(s)} /\ k \in Holders(s)
            /\ Heir(s) \notin Holders(s) \ {k}
        BY <1>3, <1>4, <1>6, <2>3 DEF Holders
      <3>3. Cardinality(Holders(s) \ {k}) = Cardinality(Holders(s)) - 1 /\ IsFiniteSet(Holders(s) \ {k})
        BY <2>0, <3>2, FS_RemoveElement
      <3>4. Cardinality(Holders(s)') = Cardinality(Holders(s) \ {k}) + 1
        BY <3>2, <3>3, FS_AddElement
      <3> QED
        BY <2>0, <3>1, <3>3, <3>4 DEF Counted, Slots
    <2> QED
      BY <2>1, <2>2, <2>3
  <1> QED
    BY <1>5, <1>7, <1>8, <1>9 DEF SlotsInv

LEMMA DoneSlots == ASSUME Types, CallsInv, SlotsInv, NEW k \in Callers, Done(k) PROVE SlotsInv'
  <1>1. /\ at[k] = "up" /\ pos[k] = 0 /\ chain' = chain /\ UNCHANGED <<pos, holds, value, queue>>
        /\ at' = [at EXCEPT ![k] = "done"] /\ out' = [out EXCEPT ![k] = "none"]
        /\ want' = [want EXCEPT ![k] = "outer"]
    BY DEF Done
  <1>2. Goes(k, "done", pos[k], "none") /\ \A j \in Callers \ {k} : want'[j] = want[j]
    BY <1>1 DEF Goes, Types
  <1>3. holds[k] = {}
    <2>1. ~Below(k)
      BY <1>1, ChainFacts DEF Below
    <2> QED
      BY <2>1 DEF SlotsInv, HoldsInv
  <1>4. HoldsInv(k)'
    BY <1>1, <1>2, <1>3 DEF HoldsInv, Goes
  <1> QED
    BY <1>1, <1>2, <1>4, SlotsSteady

LEMMA SlotsKept == ASSUME Types, CallsInv, SlotsInv, [Next]_vars PROVE SlotsInv'
  <1>1. ASSUME NEW k \in Callers, NEW b \in Budgets, Call(k, b) PROVE SlotsInv'
    <2>1. at[k] = "idle" /\ Down(k) /\ chain' = chain /\ UNCHANGED svars
      BY <1>1 DEF Call
    <2>2. Goes(k, "down", pos[k] + 1, "none")
      BY <2>1, GoesDown
    <2>3. HoldsInv(k)'
      BY <2>1, <2>2 DEF SlotsInv, HoldsInv, Active, Goes, svars
    <2> QED
      BY <2>1, <2>2, <2>3, SlotsSteady DEF svars
  <1>2. ASSUME NEW k \in Callers,
               EnterBase(k) \/ BaseEnds(k) \/ BaseCut(k) \/ EnterTimeout(k) \/ LeaveTimeout(k)
                 \/ EnterRetry(k) \/ LeaveRetry(k) \/ BackoffOver(k) \/ EnterDegradation(k) \/ LeaveDegradation(k)
        PROVE  SlotsInv'
    <2>1. UNCHANGED svars /\ chain' = chain
      BY <1>2 DEF EnterBase, BaseEnds, BaseCut, EnterTimeout, LeaveTimeout, EnterRetry, LeaveRetry,
                  BackoffOver, EnterDegradation, LeaveDegradation, hvars
    <2>2. /\ at[k] \in {"down", "base", "up", "backoff"}
          /\ at[k] = "base" => pos[k] = Len(chain) + 1
          /\ at[k] = "backoff" => In(k, "retry")
      BY <1>2 DEF EnterBase, BaseEnds, BaseCut, EnterTimeout, LeaveTimeout, EnterRetry, LeaveRetry,
                  BackoffOver, EnterDegradation, LeaveDegradation, CallsInv, CallInv, PlaceInv
    <2>3. CASE EnterBase(k)
      <3>1. Goes(k, "base", pos[k], out[k]) /\ ~In(k, "concurrency")
        BY <2>3, ChainFacts DEF EnterBase, Goes, Types, In
      <3> QED
        BY <2>1, <2>2, <3>1, PassSlots DEF Active
    <2>4. CASE BaseEnds(k) \/ BaseCut(k)
      <3>1. PICK o : Up(k, Len(chain), o)
        BY <2>4 DEF BaseEnds, BaseCut
      <3>2. at[k] = "base" /\ Len(chain) = pos[k] - 1
        BY <2>2, <2>4, ChainFacts DEF BaseEnds, BaseCut
      <3>3. Goes(k, "up", pos[k] - 1, o)
        BY <2>1, <3>1, <3>2, GoesUp
      <3> QED
        BY <2>1, <3>2, <3>3, PassSlots DEF Active
    <2>5. CASE /\ EnterTimeout(k) \/ LeaveTimeout(k) \/ EnterRetry(k) \/ LeaveRetry(k)
                    \/ BackoffOver(k) \/ EnterDegradation(k) \/ LeaveDegradation(k)
      <3>1. ~In(k, "concurrency")
        BY <2>2, <2>5 DEF EnterTimeout, LeaveTimeout, EnterRetry, LeaveRetry, BackoffOver,
                          EnterDegradation, LeaveDegradation, In
      <3>2. \/ Down(k) \/ \E o : Up(k, pos[k] - 1, o)
            \/ at' = [at EXCEPT ![k] = "backoff"] /\ out' = [out EXCEPT ![k] = "none"] /\ pos' = pos
        BY <2>5 DEF EnterTimeout, LeaveTimeout, EnterRetry, LeaveRetry, BackoffOver,
                    EnterDegradation, LeaveDegradation
      <3>3. \/ Goes(k, "down", pos[k] + 1, "none") \/ (\E o : Goes(k, "up", pos[k] - 1, o))
            \/ Goes(k, "backoff", pos[k], "none")
        <4>1. CASE Down(k)
          BY <2>1, <4>1, GoesDown
        <4>2. CASE \E o : Up(k, pos[k] - 1, o)
          BY <2>1, <4>2, GoesUp
        <4>3. CASE at' = [at EXCEPT ![k] = "backoff"] /\ out' = [out EXCEPT ![k] = "none"] /\ pos' = pos
          BY <2>1, <4>3 DEF Goes, Types
        <4> QED
          BY <3>2, <4>1, <4>2, <4>3
      <3> QED
        BY <2>1, <2>2, <3>1, <3>3, PassSlots DEF Active
    <2> QED
      BY <1>2, <2>3, <2>4, <2>5
  <1>3. ASSUME NEW k \in Callers, EnterConcurrency(k) PROVE SlotsInv'
    BY <1>3, AcquireSlots DEF EnterConcurrency, Levels
  <1>4. ASSUME NEW k \in Callers, WaitExpires(k) \/ TimeoutFires(k) \/ Cancel(k) \/ CancelNested(k)
        PROVE  SlotsInv'
    <2>1. chain' = chain /\ \E o : Interrupt(k, o)
      BY <1>4 DEF WaitExpires, TimeoutFires, Cancel, CancelNested, Interrupt
    <2> QED
      BY <2>1, InterruptSlots
  <1>5. CASE UNCHANGED <<chain, at, pos, svars>>
    <2>1. \A k \in Callers : HoldsInv(k)'
      BY <1>5 DEF SlotsInv, HoldsInv, Below, Active, svars
    <2>2. \A s \in Semaphores : Queued(s)' /\ Counted(s)'
      BY <1>5 DEF SlotsInv, Queued, Counted, Slots, Holders, svars
    <2> QED
      BY <2>1, <2>2 DEF SlotsInv
  <1>6. CASE Tick \/ UNCHANGED vars
    BY <1>5, <1>6 DEF Tick, vars, svars
  <1> QED
    BY <1>1, <1>2, <1>3, <1>4, <1>6, AcquiredSlots, LeaveSlots, DoneSlots DEF Next, Proceed

-----------------------------------------------------------------------------
(* The invariant *)

LEMMA Initially == Init => IInv
  <1> SUFFICES ASSUME Init PROVE IInv
    OBVIOUS
  <1>1. PICK w \in Workloads : /\ chain = w.chain
                               /\ at = [k \in Callers |-> IF k \in w.callers THEN "idle" ELSE "done"]
    BY DEF Init
  <1>2. Types
    <2>1. Len(chain) \in Nat /\ 0 \in 0..(Len(chain) + 1)
      BY <1>1, ChainsAssumption
    <2>2. 0 \in 0..MaxDelay /\ 1 \in 1..Attempts /\ 0 \in 0..Attempts /\ InnerLimit \in Nat /\ OuterLimit \in Nat
      BY SettingsAssumption
    <2>3. PlaceTypes
      BY <1>1, <2>1 DEF Init, PlaceTypes, Outcomes
    <2>4. TimerTypes
      BY <2>2 DEF Init, TimerTypes
    <2>5. SlotTypes
      BY <2>2 DEF Init, SlotTypes, Semaphores
    <2> QED
      BY <2>3, <2>4, <2>5, TypeParts
  <1>3. ASSUME NEW k \in Callers PROVE CallInv(k) /\ HoldsInv(k)
    <2>1. /\ at[k] \in {"idle", "done"} /\ pos[k] = 0 /\ limit[k] = Never /\ attempt[k] = 1 /\ tries[k] = 0
          /\ last[k] = "none" /\ holds[k] = {}
      BY <1>1 DEF Init
    <2>2. ~Active(k)
      BY <2>1 DEF Active
    <2> QED
      BY <2>1, <2>2 DEF CallInv, PlaceInv, TriesInv, ErrorInv, TimeInv, Blamed, HoldsInv
  <1>4. ASSUME NEW s \in Semaphores PROVE Queued(s) /\ Counted(s)
    <2>1. queue[s] = <<>> /\ value[s] = Slots(s) /\ Holders(s) = {} /\ Slots(s) \in Nat
      BY SettingsAssumption DEF Init, Slots, Holders
    <2> QED
      BY <2>1, FS_EmptySet DEF Queued, Counted
  <1> QED
    BY <1>2, <1>3, <1>4 DEF IInv, CallsInv, SlotsInv

LEMMA Inductive == Spec => []IInv
  <1>1. IInv /\ [Next]_vars => IInv'
    BY TypesKept, CallsKept, SlotsKept DEF IInv
  <1> QED
    BY Initially, <1>1, PTL DEF Spec

-----------------------------------------------------------------------------
(* Theorems *)

\* Every variable keeps its type: no more slots are free than there are, no timer
\* is below zero, and no call has more attempts than configured.
THEOREM TypeCorrect == Spec => []TypeOK
  <1>1. IInv => TypeOK
    <2> SUFFICES ASSUME IInv PROVE TypeOK
      OBVIOUS
    <2>1. ASSUME NEW s \in Semaphores PROVE value[s] \in 0..(InnerLimit + OuterLimit)
      <3>1. value[s] \in Nat /\ value[s] + Cardinality(Holders(s)) = Slots(s)
        BY DEF IInv, Types, SlotsInv, Counted
      <3> QED
        BY <3>1, HoldersFinite, SettingsAssumption DEF Slots
    <2> QED
      BY <2>1 DEF IInv, Types, TypeOK
  <1> QED
    BY <1>1, Inductive, PTL

\* No slot of a semaphore is lost or doubled, however a call ends or its wait for
\* a slot does.
THEOREM SlotsAdd == Spec => []SlotsAccounted
  <1>1. IInv => SlotsAccounted
    <2> SUFFICES ASSUME IInv, NEW s \in Semaphores
                 PROVE  value[s] + Cardinality({k \in Callers : Active(k) /\ s \in holds[k]})
                          = IF s = "outer" THEN OuterLimit ELSE InnerLimit
      BY DEF SlotsAccounted
    <2>1. {k \in Callers : Active(k) /\ s \in holds[k]} = Holders(s)
      BY DEF IInv, SlotsInv, HoldsInv, Holders
    <2> QED
      BY <2>1 DEF IInv, SlotsInv, Counted, Slots
  <1> QED
    BY <1>1, Inductive, PTL

\* With a timeout link anywhere in the chain, no call outlives its deadline.
THEOREM DeadlinesKept == Spec => []DeadlineKept
  <1>1. IInv => DeadlineKept
    BY DEF IInv, CallsInv, CallInv, TimeInv, DeadlineKept
  <1> QED
    BY <1>1, Inductive, PTL

\* A base call is only repeated after a failure that may be retried or the end of
\* its time, within the attempts.
THEOREM RetriesHaveReasons == Spec => RetriesJustified
  <1> DEFINE J == \A k \in Callers :
                    tries'[k] > tries[k] /\ tries[k] > 0 => /\ last[k] \in {RetryOn, "cut"}
                                                            /\ tries[k] < Attempts
  <1>1. IInv /\ [Next]_vars => J
    <2> SUFFICES ASSUME IInv, [Next]_vars, NEW k \in Callers, tries'[k] > tries[k], tries[k] > 0
                 PROVE  last[k] \in {RetryOn, "cut"} /\ tries[k] < Attempts
      OBVIOUS
    <2>1. tries[k] \in Nat /\ attempt[k] \in 1..Attempts /\ Attempts \in Nat /\ TriesInv(k)
      BY CallTypes DEF IInv, CallsInv, CallInv
    <2>2. EnterBase(k)
      <3>1. tries' # tries
        BY <2>1
      <3>2. PICK j \in Callers : EnterBase(j) \/ Done(j)
        BY <3>1 DEF Next, vars, hvars, Proceed, Call, BaseEnds, BaseCut, EnterConcurrency, Acquired,
                    WaitExpires, LeaveConcurrency, EnterTimeout, LeaveTimeout, TimeoutFires, Cancel,
                    CancelNested, EnterRetry, LeaveRetry, BackoffOver, EnterDegradation,
                    LeaveDegradation, Tick
      <3>3. ~Done(j)
        <4>1. Done(j) => tries'[k] = 0 \/ tries'[k] = tries[k]
          BY DEF Done, IInv, Types
        <4> QED
          BY <2>1, <4>1
      <3>4. j = k
        BY <2>1, <3>2, <3>3 DEF EnterBase, IInv, Types
      <3> QED
        BY <3>2, <3>3, <3>4
    <2>3. at[k] = "down"
      BY <2>2 DEF EnterBase
    <2> QED
      BY <2>1, <2>3 DEF TriesInv, Blamed
  <1>2. RetriesJustified <=> [][J]_vars
    BY PTL DEF RetriesJustified
  <1> QED
    BY <1>1, <1>2, Inductive, PTL DEF Spec

\* If permanent errors are not retried, no stub stands for one.
THEOREM ErrorsSurface == ASSUME RetryOn = "transient" PROVE Spec => []RealErrorsSurface
  <1>1. IInv => RealErrorsSurface
    BY DEF IInv, CallsInv, CallInv, ErrorInv, RealErrorsSurface
  <1> QED
    BY <1>1, Inductive, PTL

=============================================================================
