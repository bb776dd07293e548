----------------------------- MODULE TaskRunner -----------------------------
(***************************************************************************)
(* Background tasks of the MCP server: TaskRunner and InMemoryTaskStore    *)
(* (mcp/tasks.py) with the job and its progress sink (mcp/server.py,       *)
(* _start_task).                                                           *)
(*                                                                         *)
(* A job runs in a task of the server's nursery.  It ends with a payload,  *)
(* is cancelled through its own scope, or unwinds when the nursery is      *)
(* cancelled at shutdown; the terminal write is a later step.  Each method *)
(* of the store is one critical section of its lock.                       *)
(***************************************************************************)
EXTENDS Naturals, FiniteSets

CONSTANTS
    Tasks,       \* task ids
    TTL,         \* ttl_ms, in ticks
    NoRecord     \* the store does not know the id

Terminal == {"completed", "failed", "cancelled"}
Payloads == {"none", "ok", "error"}
Record == [status : Terminal \union {"working"}, result : Payloads]

ASSUME RunnerAssumption == TTL \in Nat /\ IsFiniteSet(Tasks) /\ NoRecord \notin Record

VARIABLES
    faulty,   \* "yes" iff update() of a custom store may raise; fixed
    records,  \* _records
    age,      \* clock.now() - last_updated_at of each record; it stops at TTL + 1
    scopes,   \* _scopes: "none", "open" or "cancelled"
    job,      \* where the task of each job is
    payload,  \* what the job has returned: "none", "ok" or "error"
    asked,    \* history: the tasks that were cancelled while they were live
    stray,    \* history: the tasks that were reported on after their terminal write
    down      \* "yes" once the nursery is cancelled

rvars == <<faulty, records, age, scopes, job, payload, asked, stray, down>>

\* "ended": the job is over and its terminal write is due; "failing": an
\* exception reached the runner; "gone": the task of the job has ended.
Places == {"none", "spawned", "running", "ended", "failing", "gone"}

Live(t) == job[t] \in {"spawned", "running", "ended", "failing"}

RunnerInit ==
    /\ faulty \in {"no", "yes"}
    /\ records = [t \in Tasks |-> NoRecord]
    /\ age = [t \in Tasks |-> 0]
    /\ scopes = [t \in Tasks |-> "none"]
    /\ job = [t \in Tasks |-> "none"]
    /\ payload = [t \in Tasks |-> "none"]
    /\ asked = {} /\ stray = {}
    /\ down = "no"

-----------------------------------------------------------------------------
(* The store *)

\* Mutant: retention ends one tick early.
ExpiredEarly(t) == records[t].status \in Terminal /\ age[t] >= TTL

\* _expired: the retention of a record begins when it has settled.
Expired(t) == records[t].status \in Terminal /\ age[t] > TTL

\* update: a no-op on an unknown id, the end of an expired record; a result that
\* is not given is kept.
Update(t, status, result) ==
    IF records[t] = NoRecord THEN UNCHANGED <<records, age>>
    ELSE IF Expired(t)
         THEN records' = [records EXCEPT ![t] = NoRecord] /\ UNCHANGED age
         ELSE /\ records' = [records EXCEPT ![t] =
                    [status |-> status,
                     result |-> IF result = "none" THEN @.result ELSE result]]
              /\ age' = [age EXCEPT ![t] = 0]

\* get, by whoever polls: an expired record is dropped on access.
Get(t) ==
    /\ records[t] # NoRecord /\ Expired(t)
    /\ records' = [records EXCEPT ![t] = NoRecord]
    /\ UNCHANGED <<faulty, age, scopes, job, payload, asked, stray, down>>

Tick ==
    /\ \E t \in Tasks : records[t] # NoRecord /\ age[t] <= TTL
    /\ age' = [t \in Tasks |->
                 IF records[t] # NoRecord /\ age[t] <= TTL THEN age[t] + 1 ELSE age[t]]
    /\ UNCHANGED <<faulty, records, scopes, job, payload, asked, stray, down>>

-----------------------------------------------------------------------------
(* The runner *)

\* Mutant: the scope is registered by the task of the job, when it runs.
StartWithoutScope(t) ==
    /\ down = "no" /\ job[t] = "none"
    /\ records' = [records EXCEPT ![t] = [status |-> "working", result |-> "none"]]
    /\ age' = [age EXCEPT ![t] = 0]
    /\ job' = [job EXCEPT ![t] = "spawned"]
    /\ UNCHANGED <<faulty, scopes, payload, asked, stray, down>>

\* start: the record is written and the scope registered before the job is
\* spawned; nobody else knows the id meanwhile.
Start(t) ==
    /\ down = "no" /\ job[t] = "none"
    /\ records' = [records EXCEPT ![t] = [status |-> "working", result |-> "none"]]
    /\ age' = [age EXCEPT ![t] = 0]
    /\ scopes' = [scopes EXCEPT ![t] = "open"]
    /\ job' = [job EXCEPT ![t] = "spawned"]
    /\ UNCHANGED <<faulty, payload, asked, stray, down>>

\* cancel: through task_cancel, which answers "unknown task" when the store has
\* no record; on a task that has ended it does nothing.
Cancel(t) ==
    /\ records[t] # NoRecord /\ Live(t)
    /\ asked' = asked \union {t}
    /\ scopes' = [scopes EXCEPT ![t] = IF @ = "open" THEN "cancelled" ELSE @]
    /\ UNCHANGED <<faulty, records, age, job, payload, down, stray>>

\* The task of the job ends, and pops its scope.
Ends(t) ==
    /\ job' = [job EXCEPT ![t] = "gone"]
    /\ scopes' = [scopes EXCEPT ![t] = "none"]

Move(t, place) == job' = [job EXCEPT ![t] = place]

\* The loop runs the task that was spawned.
Run(t) ==
    /\ job[t] = "spawned"
    /\ Move(t, "running")
    /\ UNCHANGED <<faulty, records, age, scopes, payload, asked, stray, down>>

\* report_progress in the job: to_status
Progress(t) ==
    /\ job[t] = "running"
    /\ Update(t, "working", "none")
    /\ UNCHANGED <<faulty, scopes, job, payload, asked, stray, down>>

\* ... and in a subtask that inherits the progress sink and outlives the job: nothing
\* keeps it from a record that is settled.
LateProgress(t) ==
    /\ job[t] \in {"ended", "failing", "gone"}
    /\ Update(t, "working", "none")
    /\ stray' = IF job[t] = "ended" THEN stray ELSE stray \union {t}
    /\ UNCHANGED <<faulty, scopes, job, payload, asked, down>>

\* The job returns its payload; a job that reaches no further checkpoint does so
\* with its scope, or the nursery, cancelled.
Finish(t, result) ==
    /\ job[t] = "running"
    /\ payload' = [payload EXCEPT ![t] = result]
    /\ Move(t, "ended")
    /\ UNCHANGED <<faulty, records, age, scopes, asked, stray, down>>

\* The scope swallows the cancellation it caused: result stays None.
Unwind(t) ==
    /\ job[t] = "running" /\ scopes[t] = "cancelled" /\ down = "no"
    /\ Move(t, "ended")
    /\ UNCHANGED <<faulty, records, age, scopes, payload, asked, stray, down>>

\* The cancellation of the nursery passes through the scope, and through the
\* handlers of Exception: nothing is written.
ShutdownUnwind(t) ==
    /\ job[t] = "running" /\ down = "yes"
    /\ Ends(t)
    /\ UNCHANGED <<faulty, records, age, payload, asked, stray, down>>

\* A defect of the job: it is expected to return its failures.
Raise(t) ==
    /\ job[t] = "running"
    /\ Move(t, "failing")
    /\ UNCHANGED <<faulty, records, age, scopes, payload, asked, stray, down>>

\* Mutant: the task of a cancelled job is left as it is.
OutcomeStillWorking(t) ==
    CASE payload[t] = "none"  -> "working"
      [] payload[t] = "ok"    -> "completed"
      [] payload[t] = "error" -> "failed"

Outcome(t) ==
    CASE payload[t] = "none"  -> "cancelled"
      [] payload[t] = "ok"    -> "completed"
      [] payload[t] = "error" -> "failed"

\* Mutant: a cancel that races the completion discards the result.
WriteUnshielded(t) ==
    /\ job[t] = "ended"
    /\ IF scopes[t] = "cancelled"
         THEN Update(t, "cancelled", "none")
         ELSE Update(t, Outcome(t), payload[t])
    /\ Ends(t)
    /\ UNCHANGED <<faulty, payload, asked, stray, down>>

\* The terminal write, shielded, and the end of the task.
Write(t) ==
    /\ job[t] = "ended"
    /\ Update(t, Outcome(t), payload[t])
    /\ Ends(t)
    /\ UNCHANGED <<faulty, payload, asked, stray, down>>

\* The write raises, its effect made or not.
WriteFails(t) ==
    /\ faulty = "yes"
    /\ job[t] = "ended"
    /\ \/ Update(t, Outcome(t), payload[t])
       \/ UNCHANGED <<records, age>>
    /\ Move(t, "failing")
    /\ UNCHANGED <<faulty, scopes, payload, asked, stray, down>>

\* The last-resort guard
LastResort(t) ==
    /\ job[t] = "failing"
    /\ Update(t, "failed", "none")
    /\ Ends(t)
    /\ UNCHANGED <<faulty, payload, asked, stray, down>>

\* ... whose own write raises: the exception reaches the nursery, which cancels
\* every other job.
LastResortFails(t) ==
    /\ faulty = "yes"
    /\ job[t] = "failing"
    /\ Ends(t)
    /\ down' = "yes"
    /\ UNCHANGED <<faulty, records, age, payload, asked, stray>>

\* task_runner is left: the nursery is cancelled.
Shutdown ==
    /\ down = "no"
    /\ down' = "yes"
    /\ UNCHANGED <<faulty, records, age, scopes, job, payload, asked, stray>>

-----------------------------------------------------------------------------

\* What the jobs and the store do by themselves
RunnerStep ==
    \/ \E t \in Tasks :
          \/ Run(t) \/ Progress(t) \/ LateProgress(t)
          \/ Finish(t, "ok") \/ Finish(t, "error")
          \/ Unwind(t) \/ ShutdownUnwind(t) \/ Raise(t)
          \/ Write(t) \/ WriteFails(t) \/ LastResort(t) \/ LastResortFails(t)
    \/ Tick
    \/ Shutdown

RunnerSpec ==
    RunnerInit /\ [][RunnerStep \/ \E t \in Tasks : Start(t) \/ Cancel(t) \/ Get(t)]_rvars

\* The loop runs what is ready.  A job may run for ever, but not once its scope
\* or the nursery is cancelled: it meets a checkpoint, or ends without one.
RunnerFairness ==
    \A t \in Tasks :
        /\ WF_rvars(Run(t))
        /\ WF_rvars(Unwind(t) \/ ShutdownUnwind(t))
        /\ WF_rvars(Write(t) \/ WriteFails(t))
        /\ WF_rvars(LastResort(t) \/ LastResortFails(t))

-----------------------------------------------------------------------------
(* Properties *)

RunnerTypeOK ==
    /\ faulty \in {"no", "yes"}
    /\ records \in [Tasks -> Record \union {NoRecord}]
    /\ age \in [Tasks -> 0..(TTL + 1)]
    /\ scopes \in [Tasks -> {"none", "open", "cancelled"}]
    /\ job \in [Tasks -> Places]
    /\ payload \in [Tasks -> Payloads]
    /\ asked \subseteq Tasks /\ stray \subseteq Tasks
    /\ down \in {"no", "yes"}

\* The record of a job that has not settled
Unsettled(t) == records[t] = [status |-> "working", result |-> "none"]

\* "A running task never expires": the record of a job is in the store, and reads
\* working, until its terminal write, however long it takes and whoever polls.  After
\* it the record reads working only if the server went down before the write, or if a
\* subtask has reported since.
WorkingIsTrue ==
    \A t \in Tasks :
        /\ job[t] \in {"spawned", "running", "ended"} => Unsettled(t)
        /\ job[t] = "gone" /\ records[t] # NoRecord /\ records[t].status = "working"
              => down = "yes" \/ t \in stray

\* "Each running task keeps a CancelScope", and only a running one: no cancel is
\* lost to a missing scope, and no scope outlives its job.
ScopePerLiveJob ==
    \A t \in Tasks : scopes[t] # "none" <=> Live(t)

\* "Nor discard a result the job already produced": once the task of a job that
\* returned a payload has ended, its record, while it is kept, holds it, if the
\* store works.
ResultKept ==
    faulty = "no" => \A t \in Tasks :
        (job[t] = "gone" /\ payload[t] # "none" /\ records[t] # NoRecord)
            => records[t].result = payload[t]

\* "result is set only once terminal", and a terminal status fits it, if the store
\* works: a late report alone puts "working" next to a result.
StatusFitsResult ==
    faulty = "no" => \A t \in Tasks : records[t] # NoRecord =>
        /\ records[t].status = "completed" => records[t].result = "ok"
        /\ records[t].status = "failed" => records[t].result # "ok"
        /\ records[t].status = "cancelled" => records[t].result = "none"
        /\ records[t].status = "working" => records[t].result = "none" \/ t \in stray

\* The record of a job is true, settled or not: what a poller relies on.
RecordsAreTrue == WorkingIsTrue /\ ResultKept /\ StatusFitsResult

\* What may become of a terminal record, of which the code says that it "never changes
\* again": it stays; it is dropped, once it has expired; a late report sets it back to
\* working, and leaves its result alone; or the last-resort write follows a terminal
\* write that took effect and raised.  No cancel, job or poller does anything else.
TerminalIsFinal ==
    [][\A t \in Tasks :
         (records[t] # NoRecord /\ records[t].status \in Terminal)
           => \/ records'[t] = records[t]
              \/ records'[t] = NoRecord /\ age[t] > TTL
              \/ records'[t] = [records[t] EXCEPT !.status = "working"] /\ t \in stray'
              \/ records'[t] = [records[t] EXCEPT !.status = "failed"] /\ faulty = "yes"]_rvars

\* A cancel of a live task is honoured, even one issued before the job began
\* executing: the job ends.
CancelHonoured ==
    \A t \in Tasks : (t \in asked) ~> (job[t] = "gone")

=============================================================================
