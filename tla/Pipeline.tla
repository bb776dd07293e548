------------------------------ MODULE Pipeline ------------------------------
(***************************************************************************)
(* Calls through a chain of links: concurrency, retry and timeout in any   *)
(* order, and degradation around them (core/pipeline/chain.py and          *)
(* core/pipeline/builtin/).  The cache and the breaker are modules of      *)
(* their own; here a breaker is a base call that fails at once.            *)
(*                                                                         *)
(* A call goes down the chain, link by link, and its outcome comes up.     *)
(* Between two awaits it takes several steps, and nothing else does; the   *)
(* lookup of a link, which hardly waits, is not taken for an await.        *)
(* Times are what is left of them, in ticks; a timer that is due fires     *)
(* before the next tick.  A base call may call the component again, as     *)
(* its bound invoker allows: a nested call, with a deadline of its own.    *)
(***************************************************************************)
EXTENDS Integers, Sequences, FiniteSets, SequencesExt

CONSTANTS
    Callers,
    Slices,      \* the instance slices that share an endpoint
    SliceOf,     \* the slice of each caller
    Workloads,   \* the chains considered, outermost link first, and who calls
    InnerLimit,  \* calls per slice
    OuterLimit,  \* calls per endpoint
    Attempts,    \* RetrySettings.attempts
    BaseDelay,   \* RetrySettings.base_delay
    MaxDelay,    \* RetrySettings.max_delay
    RetryOn,     \* RetrySettings.retry_on
    Timeout,     \* TimeoutSettings.seconds
    Budgets,     \* the budgets of the calls
    Never        \* no budget, or no limit

NoCaller == "no caller"
Links == {"degradation", "concurrency", "retry", "timeout"}

ASSUME CallersAssumption ==
    /\ IsFiniteSet(Callers) /\ NoCaller \notin Callers
    /\ SliceOf \in [Callers -> Slices] /\ "outer" \notin Slices

ASSUME SettingsAssumption ==
    /\ InnerLimit \in Nat \ {0} /\ OuterLimit \in Nat \ {0} /\ Attempts \in Nat \ {0}
    /\ BaseDelay \in Nat /\ MaxDelay \in Nat \ {0} /\ BaseDelay <= MaxDelay
    /\ RetryOn \in {"transient", "permanent"}
    /\ Timeout \in Nat \ {0} /\ Never \notin Int /\ Budgets \subseteq Nat \union {Never}

\* A link occurs once, and degradation outside the others.
ASSUME ChainsAssumption ==
    \A w \in Workloads : LET c == w.chain IN
        /\ w.callers \subseteq Callers /\ c \in Seq(Links)
        /\ \A i, j \in DOMAIN c : c[i] = c[j] => i = j
        /\ \A i \in DOMAIN c : c[i] = "degradation" => i = 1

VARIABLES
    chain,    \* the chain, fixed
    at,       \* "idle", "down", "wait", "backoff", "base", "up" or "done"
    pos,      \* the link that is entered, waited in or left
    out,      \* the outcome on its way up; of a base call, why it is cancelled
    left,     \* until the deadline, or Never
    limit,    \* until the timeout scope cancels, or Never
    wake,     \* until the backoff is over
    attempt,  \* the attempt of the retry link
    want,     \* the semaphore that is waited for
    holds,    \* the semaphores that are held
    value,    \* the free slots of each semaphore
    queue,    \* its waiters
    parent,   \* the call whose base call made this one
    last,     \* history: how the last base call of a call ended
    tries     \* history: the number of its base calls

vars == <<chain, at, pos, out, left, limit, wake, attempt, want, holds, value,
          queue, parent, last, tries>>
svars == <<want, holds, value, queue>>
hvars == <<last, tries>>

Semaphores == Slices \union {"outer"}
Outcomes == {"none", "ok", "transient", "permanent", "deadline", "attempt timeout",
             "exhausted", "stub", "stub error", "scope", "cancelled"}

Init ==
    /\ \E w \in Workloads :
          /\ chain = w.chain
          /\ at = [k \in Callers |-> IF k \in w.callers THEN "idle" ELSE "done"]
    /\ pos = [k \in Callers |-> 0]
    /\ out = [k \in Callers |-> "none"]
    /\ left = [k \in Callers |-> Never] /\ limit = [k \in Callers |-> Never]
    /\ wake = [k \in Callers |-> 0] /\ attempt = [k \in Callers |-> 1]
    /\ want = [k \in Callers |-> "outer"] /\ holds = [k \in Callers |-> {}]
    /\ value = [s \in Semaphores |-> IF s = "outer" THEN OuterLimit ELSE InnerLimit]
    /\ queue = [s \in Semaphores |-> <<>>]
    /\ parent = [k \in Callers |-> NoCaller]
    /\ last = [k \in Callers |-> "none"] /\ tries = [k \in Callers |-> 0]

Active(k) == at[k] \notin {"idle", "done"}
Quiet == \A k \in Callers : at[k] \notin {"down", "up"}
Has(link) == link \in Range(chain)
In(k, link) == pos[k] \in DOMAIN chain /\ chain[pos[k]] = link

\* classify(): what is not an Exception has no class.
Class(o) ==
    CASE o \in {"transient", "deadline", "attempt timeout", "exhausted"} -> "transient"
      [] o \in {"permanent", "stub error"}                               -> "permanent"
      [] OTHER                                                           -> "none"

Expired(k) == left[k] # Never /\ left[k] <= 0

\* The smaller one of a time and what is left of the budget
WithinBudget(k, t) == IF left[k] # Never /\ left[k] < t THEN left[k] ELSE t

\* An outcome goes up, to be seen by link i next.
Up(k, i, o) ==
    /\ at' = [at EXCEPT ![k] = "up"]
    /\ pos' = [pos EXCEPT ![k] = i]
    /\ out' = [out EXCEPT ![k] = o]

Down(k) ==
    /\ at' = [at EXCEPT ![k] = "down"]
    /\ pos' = [pos EXCEPT ![k] = @ + 1]
    /\ out' = [out EXCEPT ![k] = "none"]

-----------------------------------------------------------------------------
(* A call, and its base call *)

Nested(k) == {c \in Callers : parent[c] = k /\ Active(c)}

\* invoke(), from outside or from a base call of the slice
Call(k, b) ==
    /\ Quiet /\ at[k] = "idle"
    /\ left' = [left EXCEPT ![k] = b]
    /\ \E p \in {NoCaller} \union
               {q \in Callers : /\ at[q] = "base" /\ out[q] = "none"
                                /\ SliceOf[q] = SliceOf[k] /\ Nested(q) = {}} :
          parent' = [parent EXCEPT ![k] = p]
    /\ Down(k)
    /\ UNCHANGED <<chain, limit, wake, attempt, svars, hvars>>

EnterBase(k) ==
    /\ at[k] = "down" /\ pos[k] = Len(chain) + 1
    /\ at' = [at EXCEPT ![k] = "base"]
    /\ tries' = [tries EXCEPT ![k] = @ + 1]
    /\ UNCHANGED <<chain, pos, out, left, limit, wake, attempt, svars, parent, last>>

BaseEnds(k) ==
    /\ Quiet /\ at[k] = "base" /\ out[k] = "none" /\ Nested(k) = {}
    /\ \E o \in {"ok", "transient", "permanent"} :
          Up(k, Len(chain), o) /\ last' = [last EXCEPT ![k] = o]
    /\ UNCHANGED <<chain, left, limit, wake, attempt, svars, parent, tries>>

\* A base call that is cancelled ends when its nested call has.
BaseCut(k) ==
    /\ Quiet /\ at[k] = "base" /\ out[k] # "none" /\ Nested(k) = {}
    /\ Up(k, Len(chain), out[k]) /\ last' = [last EXCEPT ![k] = "cut"]
    /\ UNCHANGED <<chain, left, limit, wake, attempt, svars, parent, tries>>

\* The caller has its outcome or its error, and nothing of the call is left but
\* what it may still hold.
Done(k) ==
    /\ at[k] = "up" /\ pos[k] = 0
    /\ at' = [at EXCEPT ![k] = "done"]
    /\ out' = [out EXCEPT ![k] = "none"] /\ left' = [left EXCEPT ![k] = Never]
    /\ limit' = [limit EXCEPT ![k] = Never] /\ wake' = [wake EXCEPT ![k] = 0]
    /\ attempt' = [attempt EXCEPT ![k] = 1] /\ want' = [want EXCEPT ![k] = "outer"]
    /\ parent' = [parent EXCEPT ![k] = NoCaller]
    /\ last' = [last EXCEPT ![k] = "none"] /\ tries' = [tries EXCEPT ![k] = 0]
    /\ UNCHANGED <<chain, pos, holds, value, queue>>

-----------------------------------------------------------------------------
(* Concurrency *)

Levels(k) == <<SliceOf[k], "outer">>

\* _acquire() up to its await: a free slot, or a place in the queue
Acquire(k, s) ==
    IF Expired(k)
      THEN Up(k, pos[k], "deadline") /\ UNCHANGED svars
      ELSE /\ at' = [at EXCEPT ![k] = "wait"]
           /\ want' = [want EXCEPT ![k] = s]
           /\ IF value[s] > 0
                THEN /\ value' = [value EXCEPT ![s] = @ - 1]
                     /\ holds' = [holds EXCEPT ![k] = @ \union {s}]
                     /\ UNCHANGED queue
                ELSE /\ queue' = [queue EXCEPT ![s] = Append(@, k)]
                     /\ UNCHANGED <<value, holds>>
           /\ UNCHANGED <<pos, out>>

EnterConcurrency(k) ==
    /\ at[k] = "down" /\ In(k, "concurrency")
    /\ Acquire(k, Levels(k)[1])
    /\ UNCHANGED <<chain, left, limit, wake, attempt, parent, hvars>>

Granted(k) == at[k] = "wait" /\ want[k] \in holds[k]

Acquired(k) ==
    /\ Quiet /\ Granted(k)
    /\ IF want[k] = Levels(k)[1]
         THEN Acquire(k, Levels(k)[2])
         ELSE Down(k) /\ UNCHANGED svars
    /\ UNCHANGED <<chain, left, limit, wake, attempt, parent, hvars>>

Without(waiters, k) ==
    IF \E n \in DOMAIN waiters : waiters[n] = k
      THEN RemoveAt(waiters, CHOOSE n \in DOMAIN waiters : waiters[n] = k)
      ELSE waiters

\* A waiter is cancelled: it leaves the queue.
Dequeue(k) ==
    /\ queue' = [queue EXCEPT ![want[k]] = Without(@, k)]
    /\ UNCHANGED <<want, holds, value>>

\* The wait is over with the budget, though the slot may have come meanwhile.
WaitExpires(k) ==
    /\ Quiet /\ at[k] = "wait" /\ left[k] = 0
    /\ Dequeue(k)
    /\ Up(k, pos[k], "deadline")
    /\ UNCHANGED <<chain, left, limit, wake, attempt, parent, hvars>>

\* Mutant: the inner slot is kept when the outer one was not had.
FreedIfBoth(k) == IF "outer" \in holds[k] THEN holds[k] ELSE {}

\* The finally clauses
Freed(k) == holds[k]

\* A slot that is released goes to the first waiter.
LeaveConcurrency(k) ==
    /\ at[k] = "up" /\ In(k, "concurrency")
    /\ LET heirs == {s \in Freed(k) : queue[s] # <<>>}
       IN  /\ value' = [s \in Semaphores |->
                           IF s \in Freed(k) \ heirs THEN value[s] + 1 ELSE value[s]]
           /\ queue' = [s \in Semaphores |->
                           IF s \in heirs THEN Tail(queue[s]) ELSE queue[s]]
           /\ holds' = [j \in Callers |->
                           (holds[j] \ (IF j = k THEN Freed(k) ELSE {}))
                             \union {s \in heirs : Head(queue[s]) = j}]
    /\ Up(k, pos[k] - 1, out[k])
    /\ UNCHANGED <<chain, left, limit, wake, attempt, want, parent, hvars>>

-----------------------------------------------------------------------------
(* Timeout *)

ScopeLimit(k) == WithinBudget(k, Timeout)

EnterTimeout(k) ==
    /\ at[k] = "down" /\ In(k, "timeout")
    /\ IF Expired(k)
         THEN Up(k, pos[k] - 1, "deadline") /\ UNCHANGED limit
         ELSE Down(k) /\ limit' = [limit EXCEPT ![k] = ScopeLimit(k)]
    /\ UNCHANGED <<chain, left, wake, attempt, svars, parent, hvars>>

LeaveTimeout(k) ==
    /\ at[k] = "up" /\ In(k, "timeout")
    /\ limit' = [limit EXCEPT ![k] = Never]
    /\ Up(k, pos[k] - 1, IF out[k] = "scope" THEN "attempt timeout" ELSE out[k])
    /\ UNCHANGED <<chain, left, wake, attempt, svars, parent, hvars>>

\* Where a cancellation can reach a call, and what it does there
Awaits(k) == at[k] \in {"wait", "backoff", "base"} /\ out[k] = "none"

Interrupt(k, o) ==
    \/ at[k] = "wait" /\ Dequeue(k) /\ Up(k, pos[k], o)
    \/ at[k] = "backoff" /\ Up(k, pos[k] - 1, o) /\ UNCHANGED svars
    \/ at[k] = "base" /\ out' = [out EXCEPT ![k] = o] /\ UNCHANGED <<at, pos, svars>>

TimeoutFires(k) ==
    /\ Quiet /\ Awaits(k) /\ limit[k] = 0
    /\ Interrupt(k, "scope")
    /\ UNCHANGED <<chain, left, limit, wake, attempt, parent, hvars>>

\* The caller is cancelled.
Cancel(k) ==
    /\ Quiet /\ Awaits(k) /\ parent[k] = NoCaller
    /\ Interrupt(k, "cancelled")
    /\ UNCHANGED <<chain, left, limit, wake, attempt, parent, hvars>>

\* The base call that it is nested in is.
CancelNested(k) ==
    /\ Quiet /\ Awaits(k) /\ parent[k] \in Callers /\ out[parent[k]] # "none"
    /\ Interrupt(k, "cancelled")
    /\ UNCHANGED <<chain, left, limit, wake, attempt, parent, hvars>>

-----------------------------------------------------------------------------
(* Retry *)

EnterRetry(k) ==
    /\ at[k] = "down" /\ In(k, "retry")
    /\ IF Expired(k) THEN Up(k, pos[k] - 1, "deadline") ELSE Down(k)
    /\ UNCHANGED <<chain, left, limit, wake, attempt, svars, parent, hvars>>

\* _delay_before: full jitter below the exponential backoff, which is capped.
Delays(n) == {d \in 0..MaxDelay : d <= BaseDelay * 2 ^ (n - 2)}

\* Mutant: the budget is not looked at before a pause.
AnyPause(k, d) == TRUE

PauseFits(k, d) == left[k] # Never => d < left[k]

\* Mutant: whatever is raised is retried.
RetryableAny(o) == Class(o) # "none"

Retryable(o) == Class(o) = RetryOn

Spent(k) == attempt[k] = Attempts

LeaveRetry(k) ==
    /\ at[k] = "up" /\ In(k, "retry")
    /\ \/ ~Retryable(out[k]) /\ Up(k, pos[k] - 1, out[k]) /\ UNCHANGED wake
       \/ /\ Retryable(out[k]) /\ Spent(k)
          /\ Up(k, pos[k] - 1, "exhausted") /\ UNCHANGED wake
       \/ /\ Retryable(out[k]) /\ ~Spent(k)
          /\ \E d \in Delays(attempt[k] + 1) :
                IF PauseFits(k, d)
                  THEN /\ at' = [at EXCEPT ![k] = "backoff"]
                       /\ out' = [out EXCEPT ![k] = "none"]
                       /\ wake' = [wake EXCEPT ![k] = d]
                       /\ UNCHANGED pos
                  ELSE Up(k, pos[k] - 1, "deadline") /\ UNCHANGED wake
    /\ UNCHANGED <<chain, left, limit, attempt, svars, parent, hvars>>

BackoffOver(k) ==
    /\ Quiet /\ at[k] = "backoff" /\ wake[k] = 0
    /\ attempt' = [attempt EXCEPT ![k] = @ + 1]
    /\ IF Expired(k) THEN Up(k, pos[k] - 1, "deadline") ELSE Down(k)
    /\ UNCHANGED <<chain, left, limit, wake, svars, parent, hvars>>

-----------------------------------------------------------------------------
(* Degradation *)

EnterDegradation(k) ==
    /\ at[k] = "down" /\ In(k, "degradation")
    /\ Down(k)
    /\ UNCHANGED <<chain, left, limit, wake, attempt, svars, parent, hvars>>

\* Mutant: any failure is replaced.
UnavailableAny(o) == Class(o) # "none"

\* degrade_on is left at its default.
Unavailable(o) == Class(o) = "transient"

LeaveDegradation(k) ==
    /\ at[k] = "up" /\ In(k, "degradation")
    /\ \E o \in (IF Unavailable(out[k]) THEN {"stub", "stub error"} ELSE {out[k]}) :
          Up(k, pos[k] - 1, o)
    /\ UNCHANGED <<chain, left, limit, wake, attempt, svars, parent, hvars>>

-----------------------------------------------------------------------------
(* Time *)

Due(k) ==
    \/ at[k] = "wait" /\ left[k] = 0
    \/ at[k] = "backoff" /\ wake[k] = 0
    \/ Awaits(k) /\ limit[k] = 0

Runnable(k) ==
    \/ Granted(k) \/ Due(k)
    \/ at[k] = "base" /\ out[k] # "none"

Less(t) == IF t \in {Never, -1} THEN t ELSE t - 1

Tick ==
    /\ Quiet /\ \A k \in Callers : ~Runnable(k)
    /\ \E k \in Callers : Active(k)
    /\ left' = [k \in Callers |-> IF Active(k) THEN Less(left[k]) ELSE left[k]]
    /\ limit' = [k \in Callers |-> Less(limit[k])]
    /\ wake' = [k \in Callers |-> IF at[k] = "backoff" THEN wake[k] - 1 ELSE wake[k]]
    /\ UNCHANGED <<chain, at, pos, out, attempt, svars, parent, hvars>>

-----------------------------------------------------------------------------

\* The steps that a call takes by itself
Proceed(k) ==
    \/ EnterBase(k) \/ BaseCut(k) \/ Done(k)
    \/ EnterConcurrency(k) \/ Acquired(k) \/ WaitExpires(k) \/ LeaveConcurrency(k)
    \/ EnterTimeout(k) \/ LeaveTimeout(k) \/ TimeoutFires(k) \/ CancelNested(k)
    \/ EnterRetry(k) \/ LeaveRetry(k) \/ BackoffOver(k)
    \/ EnterDegradation(k) \/ LeaveDegradation(k)

Next ==
    \/ \E k \in Callers :
          \/ \E b \in Budgets : Call(k, b)
          \/ Proceed(k) \/ BaseEnds(k) \/ Cancel(k)
    \/ Tick

Spec == Init /\ [][Next]_vars

\* The event loop runs what can run, and time passes.
LiveSpec == Spec /\ WF_vars(Tick) /\ \A k \in Callers : WF_vars(Proceed(k))

-----------------------------------------------------------------------------
(* Properties *)

TypeOK ==
    /\ chain \in {w.chain : w \in Workloads}
    /\ at \in [Callers -> {"idle", "down", "wait", "backoff", "base", "up", "done"}]
    /\ pos \in [Callers -> 0..(Len(chain) + 1)]
    /\ out \in [Callers -> Outcomes]
    /\ left \in [Callers -> Int \union {Never}] /\ limit \in [Callers -> Nat \union {Never}]
    /\ wake \in [Callers -> 0..MaxDelay] /\ attempt \in [Callers -> 1..Attempts]
    /\ want \in [Callers -> Semaphores] /\ holds \in [Callers -> SUBSET Semaphores]
    /\ value \in [Semaphores -> 0..(InnerLimit + OuterLimit)]
    /\ queue \in [Semaphores -> Seq(Callers)]
    /\ parent \in [Callers -> Callers \union {NoCaller}]
    /\ last \in [Callers -> {"none", "ok", "transient", "permanent", "cut"}]
    /\ tries \in [Callers -> 0..Attempts]

\* No slot is lost or doubled, however a call ends or a wait for it does: the
\* free ones and those of the calls under way are the limit.
SlotsAccounted ==
    \A s \in Semaphores :
        value[s] + Cardinality({k \in Callers : Active(k) /\ s \in holds[k]})
            = IF s = "outer" THEN OuterLimit ELSE InnerLimit

\* "An overall deadline for the whole call": with a timeout link anywhere in the
\* chain no call is under way after its deadline, be it waiting, pausing or running.
DeadlineKept ==
    Has("timeout") => \A k \in Callers : Active(k) => left[k] # -1

\* A base call is repeated after a failure of the class that is retried or the end
\* of its time, and not more often than configured.
RetriesJustified ==
    [][\A k \in Callers :
         tries'[k] > tries[k] /\ tries[k] > 0 =>
            /\ last[k] \in {RetryOn, "cut"}
            /\ tries[k] < Attempts]_vars

\* "A permanent error is a real error and is re-raised": no stub stands for one.
RealErrorsSurface ==
    \A k \in Callers : out[k] = "stub" => last[k] # "permanent"

\* With a timeout link every call ends, though base calls hang and call their own
\* component on its last slot.
HangsAreCut ==
    Has("timeout") => \A k \in Callers : Active(k) ~> at[k] = "done"

=============================================================================
