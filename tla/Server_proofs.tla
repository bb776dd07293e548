---------------------------- MODULE Server_proofs ----------------------------
(***************************************************************************)
(* The records of background tasks are true and final, and destructive     *)
(* tools run by consent, for every set of tasks, servers and clients.      *)
(***************************************************************************)
EXTENDS Server, FiniteSetTheorems, TLAPS

\* A step of the runner, or of whoever uses it
RunnerNext == RunnerStep \/ \E t \in Tasks : Start(t) \/ Cancel(t) \/ Get(t)

\* A record as the terminal write leaves it, or as a late report has set it back
Left(t, status) ==
    /\ records[t].status \in {status, "working"}
    /\ records[t].status = "working" => t \in stray
    /\ records[t].result = payload[t]

\* What is left of a job that has ended, if the store works
Settled(t) ==
    CASE payload[t] = "none"  -> records[t].status \in {"working", "cancelled", "failed"}
                                   /\ records[t].result = "none"
      [] payload[t] = "ok"    -> Left(t, "completed")
      [] payload[t] = "error" -> Left(t, "failed")

\* What any store keeps to: a cancelled task has no result, and a working one has one,
\* or no job, only by a late report or as the server goes down.
Fits(t) ==
    records[t] # NoRecord =>
        /\ records[t].status = "cancelled" => records[t].result = "none"
        /\ records[t].status = "working" /\ records[t].result # "none" => t \in stray
        /\ records[t].status = "working" /\ job[t] = "gone" => down = "yes" \/ t \in stray

\* Until its terminal write a job has a record that is not settled; then the record is
\* true.
TaskInv(t) ==
    /\ job[t] = "none" => records[t] = NoRecord
    /\ job[t] \in {"none", "spawned", "running"} => payload[t] = "none"
    /\ job[t] \in {"spawned", "running", "ended"} => Unsettled(t)
    /\ faulty = "no" =>
          /\ job[t] = "failing" => payload[t] = "none" /\ Unsettled(t)
          /\ job[t] = "gone" /\ records[t] # NoRecord => Settled(t)
    /\ Fits(t)

TasksInv == \A t \in Tasks : TaskInv(t)

RunnerInv == RunnerTypeOK /\ ScopePerLiveJob /\ TasksInv

-----------------------------------------------------------------------------
(* The store *)

\* What update() does to the record of its task, and to no other one
LEMMA UpdateEffect ==
  ASSUME RunnerTypeOK, NEW t \in Tasks, NEW status \in Terminal \union {"working"},
         NEW result \in Payloads, Update(t, status, result)
  PROVE  /\ records' \in [Tasks -> Record \union {NoRecord}]
         /\ age' \in [Tasks -> 0..(TTL + 1)]
         /\ \A u \in Tasks \ {t} : records'[u] = records[u]
         /\ \/ records'[t] = NoRecord /\ (records[t] = NoRecord \/ Expired(t))
            \/ /\ records[t] # NoRecord /\ ~Expired(t)
               /\ records'[t] = [status |-> status,
                                 result |-> IF result = "none" THEN records[t].result ELSE result]
  <1> USE RunnerAssumption DEF RunnerTypeOK, Record
  <1>1. CASE records[t] = NoRecord
    BY <1>1 DEF Update
  <1>2. CASE records[t] # NoRecord /\ Expired(t)
    BY <1>2 DEF Update
  <1>3. CASE records[t] # NoRecord /\ ~Expired(t)
    BY <1>3 DEF Update
  <1> QED
    BY <1>1, <1>2, <1>3

\* A record that is not settled takes what it is given.
LEMMA UnsettledUpdate ==
  ASSUME RunnerTypeOK, NEW t \in Tasks, NEW status \in Terminal \union {"working"},
         NEW result \in Payloads, Update(t, status, result), Unsettled(t)
  PROVE  records'[t] = [status |-> status, result |-> result]
  <1>1. records[t].status = "working" /\ records[t].result = "none"
    BY DEF Unsettled
  <1>2. records[t] # NoRecord
    BY RunnerAssumption DEF Unsettled, Record, Payloads
  <1>3. ~Expired(t)
    BY <1>1 DEF Expired, Terminal
  <1>4. records'[t] = [status |-> status, result |-> IF result = "none" THEN records[t].result ELSE result]
    BY <1>2, <1>3, UpdateEffect
  <1> QED
    BY <1>1, <1>4

LEMMA OutcomeType ==
  ASSUME RunnerTypeOK, NEW t \in Tasks
  PROVE  Outcome(t) \in Terminal /\ payload[t] \in Payloads
  BY DEF RunnerTypeOK, Payloads, Terminal, Outcome

-----------------------------------------------------------------------------
(* The runner *)

LEMMA InitRunnerInv == RunnerInit => RunnerInv
  BY RunnerAssumption
     DEF RunnerInit, RunnerInv, RunnerTypeOK, ScopePerLiveJob, TasksInv, TaskInv, Fits, Live,
         Places, Payloads

LEMMA NextRunnerTypeOK == RunnerTypeOK /\ [RunnerNext]_rvars => RunnerTypeOK'
  <1> SUFFICES ASSUME RunnerTypeOK, [RunnerNext]_rvars PROVE RunnerTypeOK'
    OBVIOUS
  <1> USE RunnerAssumption DEF RunnerTypeOK, Places, Payloads
  <1>1. ASSUME NEW t \in Tasks, Start(t) \/ Cancel(t) \/ Get(t) PROVE RunnerTypeOK'
    BY <1>1 DEF Start, Cancel, Get, Record
  <1>2. ASSUME NEW t \in Tasks, Run(t) \/ Unwind(t) \/ ShutdownUnwind(t) \/ Raise(t)
        PROVE  RunnerTypeOK'
    BY <1>2 DEF Run, Unwind, ShutdownUnwind, Raise, Move, Ends
  <1>3. ASSUME NEW t \in Tasks, NEW r \in {"ok", "error"}, Finish(t, r) PROVE RunnerTypeOK'
    BY <1>3 DEF Finish, Move
  <1>4. ASSUME NEW t \in Tasks, Progress(t) \/ LateProgress(t) PROVE RunnerTypeOK'
    BY <1>4, UpdateEffect DEF Progress, LateProgress
  <1>5. ASSUME NEW t \in Tasks, Write(t) PROVE RunnerTypeOK'
    BY <1>5, UpdateEffect, OutcomeType DEF Write, Ends
  <1>6. ASSUME NEW t \in Tasks, WriteFails(t) PROVE RunnerTypeOK'
    BY <1>6, UpdateEffect, OutcomeType DEF WriteFails, Move
  <1>7. ASSUME NEW t \in Tasks, LastResort(t) PROVE RunnerTypeOK'
    BY <1>7, UpdateEffect DEF LastResort, Ends, Terminal
  <1>8. ASSUME NEW t \in Tasks, LastResortFails(t) PROVE RunnerTypeOK'
    BY <1>8 DEF LastResortFails, Ends
  <1>9. CASE Tick
    BY <1>9 DEF Tick
  <1>10. CASE Shutdown \/ UNCHANGED rvars
    BY <1>10 DEF Shutdown, rvars
  <1> QED
    BY <1>1, <1>2, <1>3, <1>4, <1>5, <1>6, <1>7, <1>8, <1>9, <1>10 DEF RunnerNext, RunnerStep

\* The scope comes with the job and goes with it.
LEMMA NextScopePerLiveJob ==
  RunnerTypeOK /\ ScopePerLiveJob /\ [RunnerNext]_rvars => ScopePerLiveJob'
  <1> SUFFICES ASSUME RunnerTypeOK, ScopePerLiveJob, [RunnerNext]_rvars PROVE ScopePerLiveJob'
    OBVIOUS
  <1> USE DEF RunnerTypeOK, ScopePerLiveJob, Live
  <1>1. ASSUME NEW t \in Tasks, Start(t) \/ Cancel(t) \/ Get(t) PROVE ScopePerLiveJob'
    BY <1>1 DEF Start, Cancel, Get
  <1>2. ASSUME NEW t \in Tasks,
               Run(t) \/ Unwind(t) \/ Raise(t) \/ Finish(t, "ok") \/ Finish(t, "error") \/ WriteFails(t)
        PROVE  ScopePerLiveJob'
    BY <1>2 DEF Run, Unwind, Raise, Finish, WriteFails, Move
  <1>3. ASSUME NEW t \in Tasks, ShutdownUnwind(t) \/ Write(t) \/ LastResort(t) \/ LastResortFails(t)
        PROVE  ScopePerLiveJob'
    BY <1>3 DEF ShutdownUnwind, Write, LastResort, LastResortFails, Ends
  <1>4. ASSUME NEW t \in Tasks, Progress(t) \/ LateProgress(t) PROVE ScopePerLiveJob'
    BY <1>4 DEF Progress, LateProgress
  <1>5. CASE Tick \/ Shutdown \/ UNCHANGED rvars
    BY <1>5 DEF Tick, Shutdown, rvars
  <1> QED
    BY <1>1, <1>2, <1>3, <1>4, <1>5 DEF RunnerNext, RunnerStep

\* A step of one task leaves the others alone.
LEMMA Others ==
  ASSUME RunnerTypeOK, TasksInv, NEW t \in Tasks, NEW u \in Tasks \ {t}, UNCHANGED faulty,
         stray \subseteq stray', down = "yes" => down' = "yes",
         job'[u] = job[u], payload'[u] = payload[u], records'[u] = records[u]
  PROVE  TaskInv(u)'
  <1>1. TaskInv(u)
    BY DEF TasksInv
  <1>2. Fits(u)'
    BY <1>1 DEF TaskInv, Fits
  <1>3. Settled(u) => Settled(u)'
    <2>1. Left(u, "completed") => Left(u, "completed")'
      BY DEF Left
    <2>2. Left(u, "failed") => Left(u, "failed")'
      BY DEF Left
    <2>3. payload[u] \in Payloads
      BY DEF RunnerTypeOK
    <2> QED
      BY <2>1, <2>2, <2>3 DEF Settled, Payloads
  <1> QED
    BY <1>1, <1>2, <1>3 DEF TaskInv, Unsettled

\* A record that is not settled fits as long as its job has not gone.
LEMMA UnsettledFits ==
  ASSUME NEW t \in Tasks, Unsettled(t)', job'[t] # "gone"
  PROVE  Fits(t)'
  BY DEF Unsettled, Fits

LEMMA NextTasksInv == RunnerTypeOK /\ TasksInv /\ [RunnerNext]_rvars => TasksInv'
  <1> SUFFICES ASSUME RunnerTypeOK, TasksInv, [RunnerNext]_rvars PROVE TasksInv'
    OBVIOUS
  <1> USE RunnerAssumption
  <1>a. ASSUME NEW t \in Tasks, TaskInv(t)', UNCHANGED faulty,
               stray \subseteq stray', down = "yes" => down' = "yes",
               \A u \in Tasks \ {t} : job'[u] = job[u] /\ payload'[u] = payload[u]
                                         /\ records'[u] = records[u]
        PROVE  TasksInv'
    BY <1>a, Others DEF TasksInv
  <1>b. \A t \in Tasks : TaskInv(t) /\ job[t] \in Places /\ payload[t] \in Payloads
                          /\ records[t] \in Record \union {NoRecord}
    BY DEF TasksInv, RunnerTypeOK
  <1>1. ASSUME NEW t \in Tasks, Start(t) PROVE TasksInv'
    <2>1. /\ Unsettled(t)' /\ job'[t] = "spawned"
          /\ UNCHANGED <<faulty, payload, stray, down>> /\ payload[t] = "none"
      BY <1>1, <1>b DEF Start, TaskInv, Unsettled, RunnerTypeOK
    <2>2. TaskInv(t)'
      BY <2>1, UnsettledFits DEF TaskInv
    <2> QED
      BY <1>1, <1>a, <2>1, <2>2 DEF Start, RunnerTypeOK
  <1>2. ASSUME NEW t \in Tasks, Cancel(t) PROVE TasksInv'
    BY <1>2 DEF Cancel, TasksInv, TaskInv, Unsettled, Settled, Left, Fits
  <1>3. ASSUME NEW t \in Tasks, Get(t) PROVE TasksInv'
    <2>1. /\ records'[t] = NoRecord /\ job' = job /\ UNCHANGED <<faulty, payload, stray, down>>
          /\ ~Unsettled(t)
      BY <1>3, <1>b DEF Get, Unsettled, RunnerTypeOK, Expired, Terminal
    <2>2. TaskInv(t)'
      BY <1>b, <2>1 DEF TaskInv, Fits
    <2> QED
      BY <1>3, <1>a, <2>1, <2>2 DEF Get, RunnerTypeOK
  <1>4. ASSUME NEW t \in Tasks, Run(t) \/ Unwind(t) \/ Raise(t) PROVE TasksInv'
    <2>1. /\ job[t] \in {"spawned", "running"} /\ job'[t] \in {"running", "ended", "failing"}
          /\ UNCHANGED <<faulty, records, payload, stray, down>>
      BY <1>4 DEF Run, Unwind, Raise, Move, RunnerTypeOK
    <2>2. Unsettled(t)' /\ payload[t] = "none"
      BY <1>b, <2>1 DEF TaskInv, Unsettled
    <2>3. TaskInv(t)'
      BY <2>1, <2>2, UnsettledFits DEF TaskInv
    <2> QED
      BY <1>4, <1>a, <2>1, <2>3 DEF Run, Unwind, Raise, Move, RunnerTypeOK
  <1>5. ASSUME NEW t \in Tasks, NEW r \in {"ok", "error"}, Finish(t, r) PROVE TasksInv'
    <2>1. /\ job[t] = "running" /\ job'[t] = "ended"
          /\ UNCHANGED <<faulty, records, stray, down>>
      BY <1>5 DEF Finish, Move, RunnerTypeOK
    <2>2. Unsettled(t)'
      BY <1>b, <2>1 DEF TaskInv, Unsettled
    <2>3. TaskInv(t)'
      BY <2>1, <2>2, UnsettledFits DEF TaskInv
    <2> QED
      BY <1>5, <1>a, <2>1, <2>3 DEF Finish, Move, RunnerTypeOK
  <1>6. ASSUME NEW t \in Tasks, ShutdownUnwind(t) PROVE TasksInv'
    <2>1. /\ job[t] = "running" /\ job'[t] = "gone" /\ down' = "yes"
          /\ UNCHANGED <<faulty, records, payload, stray, down>>
      BY <1>6 DEF ShutdownUnwind, Ends, RunnerTypeOK
    <2>2. payload'[t] = "none" /\ records'[t].status = "working" /\ records'[t].result = "none"
      BY <1>b, <2>1 DEF TaskInv, Unsettled
    <2>3. Settled(t)' /\ Fits(t)'
      BY <2>1, <2>2 DEF Settled, Fits
    <2>4. TaskInv(t)'
      BY <2>1, <2>3 DEF TaskInv
    <2> QED
      BY <1>6, <1>a, <2>1, <2>4 DEF ShutdownUnwind, Ends, RunnerTypeOK
  <1>7. ASSUME NEW t \in Tasks, Progress(t) PROVE TasksInv'
    <2>1. job[t] = "running" /\ job' = job /\ UNCHANGED <<faulty, payload, stray, down>>
      BY <1>7 DEF Progress
    <2>2. Unsettled(t)'
      BY <1>7, <1>b, <2>1, UnsettledUpdate DEF Progress, TaskInv, Unsettled, Payloads
    <2>3. TaskInv(t)'
      BY <1>b, <2>1, <2>2, UnsettledFits DEF TaskInv
    <2>4. \A u \in Tasks \ {t} : records'[u] = records[u]
      BY <1>7, UpdateEffect DEF Progress, Payloads
    <2> QED
      BY <1>a, <2>1, <2>3, <2>4
  <1>8. ASSUME NEW t \in Tasks, LateProgress(t) PROVE TasksInv'
    <2>1. /\ job[t] \in {"ended", "failing", "gone"} /\ job' = job
          /\ UNCHANGED <<faulty, payload, down>>
          /\ stray \subseteq stray' /\ (job[t] # "ended" => t \in stray')
      BY <1>8 DEF LateProgress
    <2>2. \A u \in Tasks \ {t} : records'[u] = records[u]
      BY <1>8, UpdateEffect DEF LateProgress, Payloads
    <2>3. \/ records'[t] = NoRecord
          \/ records[t] # NoRecord /\ records'[t] = [status |-> "working", result |-> records[t].result]
      BY <1>8, UpdateEffect DEF LateProgress, Payloads
    <2>4. Unsettled(t) => Unsettled(t)'
      BY <1>8, UnsettledUpdate DEF LateProgress, Unsettled, Payloads
    <2>5. Fits(t)'
      <3>1. CASE job[t] = "ended"
        BY <1>b, <2>1, <2>4, <3>1, UnsettledFits DEF TaskInv
      <3>2. CASE job[t] # "ended"
        BY <2>1, <2>3, <3>2 DEF Fits
      <3> QED
        BY <3>1, <3>2
    <2>6. ASSUME faulty = "no", job[t] = "gone", records'[t] # NoRecord PROVE Settled(t)'
      <3>1. Settled(t) /\ records'[t].status = "working" /\ records'[t].result = records[t].result
        BY <1>b, <2>3, <2>6 DEF TaskInv
      <3>2. t \in stray' /\ payload' = payload
        BY <2>1, <2>6
      <3>3. CASE payload[t] = "none"
        BY <3>1, <3>2, <3>3 DEF Settled
      <3>4. CASE payload[t] = "ok"
        BY <3>1, <3>2, <3>4 DEF Settled, Left
      <3>5. CASE payload[t] = "error"
        BY <3>1, <3>2, <3>5 DEF Settled, Left
      <3> QED
        BY <1>b, <3>3, <3>4, <3>5 DEF Payloads
    <2>7. TaskInv(t)'
      BY <1>b, <2>1, <2>4, <2>5, <2>6 DEF TaskInv
    <2> QED
      BY <1>a, <2>1, <2>2, <2>7
  <1>9. ASSUME NEW t \in Tasks, Write(t) PROVE TasksInv'
    <2>1. /\ job[t] = "ended" /\ job'[t] = "gone" /\ UNCHANGED <<faulty, payload, stray, down>>
          /\ \A u \in Tasks \ {t} : job'[u] = job[u]
      BY <1>9 DEF Write, Ends, RunnerTypeOK
    <2>2. records'[t] = [status |-> Outcome(t), result |-> payload[t]]
      BY <1>9, <1>b, <2>1, UnsettledUpdate, OutcomeType DEF Write, TaskInv
    <2>3. records'[t].status = Outcome(t) /\ records'[t].result = payload[t]
      BY <2>2
    <2>4. Settled(t)' /\ Fits(t)'
      <3>1. CASE payload[t] = "none"
        BY <2>1, <2>3, <3>1 DEF Settled, Outcome, Fits
      <3>2. CASE payload[t] = "ok"
        BY <2>1, <2>3, <3>2 DEF Settled, Left, Outcome, Fits
      <3>3. CASE payload[t] = "error"
        BY <2>1, <2>3, <3>3 DEF Settled, Left, Outcome, Fits
      <3> QED
        BY <1>b, <3>1, <3>2, <3>3 DEF Payloads
    <2>5. TaskInv(t)'
      BY <2>1, <2>4 DEF TaskInv
    <2>6. \A u \in Tasks \ {t} : records'[u] = records[u]
      BY <1>9, UpdateEffect, OutcomeType DEF Write
    <2> QED
      BY <1>a, <2>1, <2>5, <2>6
  <1>10. ASSUME NEW t \in Tasks, WriteFails(t) PROVE TasksInv'
    <2>1. /\ faulty = "yes" /\ UNCHANGED <<faulty, payload, stray, down>> /\ job[t] = "ended"
          /\ job' = [job EXCEPT ![t] = "failing"]
      BY <1>10 DEF WriteFails, Move
    <2>2. Fits(t)'
      <3>1. CASE UNCHANGED records
        BY <1>b, <2>1, <3>1, UnsettledFits DEF TaskInv, Unsettled, RunnerTypeOK
      <3>2. CASE Update(t, Outcome(t), payload[t])
        <4>1. records'[t] = [status |-> Outcome(t), result |-> payload[t]]
          BY <1>b, <2>1, <3>2, UnsettledUpdate, OutcomeType DEF TaskInv
        <4>2. records'[t].status = Outcome(t) /\ records'[t].result = payload[t]
          BY <4>1
        <4> QED
          BY <1>b, <4>2 DEF Fits, Outcome, Payloads
      <3> QED
        BY <1>10, <3>1, <3>2 DEF WriteFails
    <2>3. TaskInv(t)'
      BY <2>1, <2>2 DEF TaskInv, RunnerTypeOK
    <2>4. \A u \in Tasks \ {t} : records'[u] = records[u]
      BY <1>10, UpdateEffect, OutcomeType DEF WriteFails
    <2> QED
      BY <1>a, <2>1, <2>3, <2>4 DEF RunnerTypeOK
  <1>11. ASSUME NEW t \in Tasks, LastResort(t) PROVE TasksInv'
    <2>1. /\ UNCHANGED <<faulty, payload, stray, down>> /\ job[t] = "failing"
          /\ job' = [job EXCEPT ![t] = "gone"]
      BY <1>11 DEF LastResort, Ends
    <2>2. records'[t] = NoRecord \/ records'[t].status = "failed"
      <3>1. records'[t] = NoRecord \/ \E r : records'[t] = [status |-> "failed", result |-> r]
        BY <1>11, UpdateEffect DEF LastResort, Payloads, Terminal
      <3>2. ASSUME NEW r, records'[t] = [status |-> "failed", result |-> r]
            PROVE  records'[t].status = "failed"
        BY <3>2
      <3> QED
        BY <3>1, <3>2
    <2>3. faulty = "no" => payload[t] = "none" /\ records'[t] = [status |-> "failed", result |-> "none"]
      BY <1>11, <1>b, <2>1, UnsettledUpdate DEF LastResort, TaskInv, Payloads, Terminal
    <2>4. TaskInv(t)'
      <3>1. ASSUME faulty = "no" PROVE Settled(t)'
        <4>1. payload'[t] = "none" /\ records'[t].status = "failed" /\ records'[t].result = "none"
          BY <2>1, <2>3, <3>1
        <4> QED
          BY <4>1 DEF Settled
      <3>2. Fits(t)'
        BY <2>2 DEF Fits
      <3> QED
        BY <2>1, <3>1, <3>2 DEF TaskInv, RunnerTypeOK
    <2>5. \A u \in Tasks \ {t} : records'[u] = records[u]
      BY <1>11, UpdateEffect DEF LastResort, Payloads, Terminal
    <2> QED
      BY <1>a, <2>1, <2>4, <2>5 DEF RunnerTypeOK
  <1>12. ASSUME NEW t \in Tasks, LastResortFails(t) PROVE TasksInv'
    <2>1. /\ faulty = "yes" /\ down' = "yes" /\ UNCHANGED <<faulty, records, payload, stray>>
          /\ job[t] = "failing" /\ job' = [job EXCEPT ![t] = "gone"]
      BY <1>12 DEF LastResortFails, Ends
    <2>2. TaskInv(t)'
      BY <1>b, <2>1 DEF TaskInv, Fits, RunnerTypeOK
    <2> QED
      BY <1>a, <2>1, <2>2 DEF RunnerTypeOK
  <1>13. CASE Tick \/ UNCHANGED rvars
    BY <1>13 DEF Tick, rvars, TasksInv, TaskInv, Unsettled, Settled, Left, Fits
  <1>14. CASE Shutdown
    <2>1. UNCHANGED <<faulty, records, job, payload, stray>> /\ down' = "yes"
      BY <1>14 DEF Shutdown
    <2>2. ASSUME NEW t \in Tasks PROVE TaskInv(t)'
      BY <1>b, <2>1 DEF TaskInv, Unsettled, Settled, Left, Fits
    <2> QED
      BY <2>2 DEF TasksInv
  <1> QED
    BY <1>1, <1>2, <1>3, <1>4, <1>5, <1>6, <1>7, <1>8, <1>9, <1>10, <1>11, <1>12, <1>13, <1>14
       DEF RunnerNext, RunnerStep

LEMMA RunnerInductive == RunnerSpec => []RunnerInv
  <1>1. RunnerInv /\ [RunnerNext]_rvars => RunnerInv'
    BY NextRunnerTypeOK, NextScopePerLiveJob, NextTasksInv DEF RunnerInv
  <1> QED
    BY InitRunnerInv, <1>1, PTL DEF RunnerSpec, RunnerNext


-----------------------------------------------------------------------------
(* The server *)

\* Every step of the server is one of the runner, or leaves it alone.
LEMMA ServerSteps == [Next]_vars => [RunnerNext]_rvars
  <1> SUFFICES ASSUME [Next]_vars PROVE [RunnerNext]_rvars
    OBVIOUS
  <1>0. ASSUME NEW r \in Requests, Answer(r) PROVE UNCHANGED rvars
    BY <1>0 DEF Answer
  <1>1. ASSUME NEW r \in Requests, NEW called, NEW said, Execute(r, called, said)
        PROVE  [RunnerNext]_rvars
    BY <1>0, <1>1 DEF Execute, RunnerNext
  <1>2. ASSUME NEW r \in Requests, NEW called \in served, NEW client \in Clients, NEW said \in Said,
               CallTool(r, called, client, said)
        PROVE  [RunnerNext]_rvars
    BY <1>0, <1>1, <1>2 DEF CallTool
  <1>3. ASSUME NEW r \in Requests, NEW said \in Said, UserAnswers(r, said)
        PROVE  [RunnerNext]_rvars
    BY <1>0, <1>1, <1>3 DEF UserAnswers
  <1>4. ASSUME NEW r \in Requests, InvokeEnds(r) \/ RequestCancelled(r) PROVE UNCHANGED rvars
    BY <1>0, <1>4 DEF InvokeEnds, RequestCancelled
  <1>5. ASSUME NEW t \in Tasks, Poll(t) \/ CancelTask(t) PROVE [RunnerNext]_rvars
    BY <1>5 DEF Poll, CancelTask, RunnerNext
  <1>6. CASE RunnerStep
    BY <1>6 DEF RunnerNext
  <1>7. CASE UNCHANGED vars
    BY <1>7 DEF vars
  <1> QED
    BY <1>2, <1>3, <1>4, <1>5, <1>6, <1>7 DEF Next

\* The server uses its task runner as RunnerSpec allows.
THEOREM ServerImplementsRunner == Spec => RunnerSpec
  <1>1. Init => RunnerInit
    BY DEF Init
  <1> QED
    BY <1>1, ServerSteps, PTL DEF Spec, RunnerSpec, RunnerNext

LEMMA ServerRunnerInv == Spec => []RunnerInv
  BY ServerImplementsRunner, RunnerInductive, PTL

\* "A running task never expires": whoever polls, and however late, its record is there
\* and reads working until the terminal write; after it a record reads working only
\* because the server went down or a subtask has reported late.
THEOREM WorkingTrue == RunnerSpec => []WorkingIsTrue
  <1>1. RunnerInv => WorkingIsTrue
    BY DEF RunnerInv, TasksInv, TaskInv, Fits, WorkingIsTrue
  <1> QED
    BY <1>1, RunnerInductive, PTL

\* A scope for each running task, and for no other one
THEOREM ScopesMatchJobs == RunnerSpec => []ScopePerLiveJob
  BY RunnerInductive, PTL DEF RunnerInv

\* The record of every task is true: it reads working as long as the job runs, and
\* afterwards, if the store works, it holds the payload of the job and a status that fits
\* it, or "working" again by a late report.
THEOREM RecordsTrue == Spec => []RecordsAreTrue
  <1>1. RunnerInv => ResultKept /\ StatusFitsResult
    <2> SUFFICES ASSUME RunnerInv, faulty = "no", NEW t \in Tasks, records[t] # NoRecord
                 PROVE  /\ job[t] = "gone" /\ payload[t] # "none" => records[t].result = payload[t]
                        /\ records[t].status = "completed" => records[t].result = "ok"
                        /\ records[t].status = "failed" => records[t].result # "ok"
                        /\ records[t].status = "cancelled" => records[t].result = "none"
                        /\ records[t].status = "working" => records[t].result = "none" \/ t \in stray
      BY DEF ResultKept, StatusFitsResult
    <2>1. TaskInv(t) /\ job[t] \in Places /\ payload[t] \in Payloads
      BY DEF RunnerInv, TasksInv, RunnerTypeOK
    <2>2. CASE job[t] # "gone"
      <3>1. Unsettled(t)
        BY <2>1, <2>2 DEF TaskInv, Places
      <3> QED
        BY <2>2, <3>1 DEF Unsettled
    <2>3. CASE job[t] = "gone"
      <3>1. Settled(t)
        BY <2>1, <2>3 DEF TaskInv
      <3>2. CASE payload[t] = "none"
        BY <3>1, <3>2 DEF Settled
      <3>3. CASE payload[t] = "ok"
        BY <3>1, <3>3 DEF Settled, Left
      <3>4. CASE payload[t] = "error"
        BY <3>1, <3>4 DEF Settled, Left
      <3> QED
        BY <2>1, <3>2, <3>3, <3>4 DEF Payloads
    <2> QED
      BY <2>2, <2>3
  <1>2. RunnerInv => WorkingIsTrue
    BY DEF RunnerInv, TasksInv, TaskInv, Fits, WorkingIsTrue
  <1> QED
    BY <1>1, <1>2, ServerRunnerInv, PTL DEF RecordsAreTrue

\* Whatever jobs, pollers and cancels do, a terminal record changes in three ways only: it
\* is dropped when it has expired, a late report sets it to working, or the last-resort
\* write follows a terminal write that took effect and raised.
THEOREM TerminalStays == Spec => TerminalIsFinal
  <1> DEFINE Final == \A t \in Tasks :
         (records[t] # NoRecord /\ records[t].status \in Terminal)
           => \/ records'[t] = records[t]
              \/ records'[t] = NoRecord /\ age[t] > TTL
              \/ records'[t] = [records[t] EXCEPT !.status = "working"] /\ t \in stray'
              \/ records'[t] = [records[t] EXCEPT !.status = "failed"] /\ faulty = "yes"
  <1>1. RunnerInv /\ RunnerNext => Final
    <2> DEFINE Allowed(t) ==
              \/ records'[t] = records[t]
              \/ records'[t] = NoRecord /\ age[t] > TTL
              \/ records'[t] = [records[t] EXCEPT !.status = "working"] /\ t \in stray'
              \/ records'[t] = [records[t] EXCEPT !.status = "failed"] /\ faulty = "yes"
    <2> SUFFICES ASSUME RunnerInv, RunnerNext, NEW t \in Tasks,
                        records[t] # NoRecord, records[t].status \in Terminal
                 PROVE  Allowed(t)
      OBVIOUS
    <2>a. RunnerTypeOK /\ TaskInv(t) /\ job[t] \in Places /\ records[t] \in Record
      BY DEF RunnerInv, RunnerTypeOK, TasksInv
    <2>1. ~Unsettled(t)
      BY DEF Unsettled, Terminal
    <2>2. job[t] \in {"failing", "gone"} /\ (job[t] = "failing" => faulty = "yes")
      BY <2>1, <2>a DEF TaskInv, Places, RunnerTypeOK
    <2>3. ASSUME NEW u \in Tasks, Start(u) \/ Cancel(u) PROVE Allowed(t)
      BY <2>2, <2>3, <2>a DEF Start, Cancel, RunnerTypeOK
    <2>4. ASSUME NEW u \in Tasks, Get(u) PROVE Allowed(t)
      BY <2>4, <2>a DEF Get, Expired, RunnerTypeOK
    <2>5. ASSUME NEW u \in Tasks \ {t}, NEW s \in Terminal \union {"working"}, NEW r \in Payloads,
                 Update(u, s, r)
          PROVE  Allowed(t)
      BY <2>5, <2>a, UpdateEffect
    <2>6. ASSUME NEW s \in {"working", "failed"}, Update(t, s, "none")
          PROVE  \/ records'[t] = NoRecord /\ age[t] > TTL
                 \/ records'[t] = [records[t] EXCEPT !.status = s]
      <3>1. \/ records'[t] = NoRecord /\ Expired(t)
            \/ records'[t] = [status |-> s, result |-> records[t].result]
        BY <2>6, <2>a, UpdateEffect DEF Payloads, Terminal
      <3>2. [records[t] EXCEPT !.status = s] = [status |-> s, result |-> records[t].result]
        BY <2>a DEF Record
      <3> QED
        BY <3>1, <3>2 DEF Expired
    <2>7. ASSUME NEW u \in Tasks, Progress(u) PROVE Allowed(t)
      BY <2>2, <2>5, <2>7 DEF Progress, Payloads
    <2>8. ASSUME NEW u \in Tasks, LateProgress(u) PROVE Allowed(t)
      <3>1. CASE u = t
        <4>1. Update(t, "working", "none") /\ t \in stray'
          BY <2>2, <2>8, <3>1 DEF LateProgress
        <4> QED
          BY <2>6, <4>1
      <3>2. CASE u # t
        BY <2>5, <2>8, <3>2 DEF LateProgress, Payloads
      <3> QED
        BY <3>1, <3>2
    <2>9. ASSUME NEW u \in Tasks, Write(u) PROVE Allowed(t)
      BY <2>2, <2>5, <2>9, <2>a, OutcomeType DEF Write
    <2>10. ASSUME NEW u \in Tasks, WriteFails(u) PROVE Allowed(t)
      BY <2>2, <2>5, <2>10, <2>a, OutcomeType DEF WriteFails
    <2>11. ASSUME NEW u \in Tasks, LastResort(u) PROVE Allowed(t)
      <3>1. CASE u = t
        <4>1. Update(t, "failed", "none") /\ faulty = "yes"
          BY <2>2, <2>11, <3>1 DEF LastResort
        <4> QED
          BY <2>6, <4>1
      <3>2. CASE u # t
        BY <2>5, <2>11, <3>2 DEF LastResort, Payloads, Terminal
      <3> QED
        BY <3>1, <3>2
    <2>12. ASSUME NEW u \in Tasks,
                  \/ Run(u) \/ Finish(u, "ok") \/ Finish(u, "error") \/ Unwind(u)
                  \/ ShutdownUnwind(u) \/ Raise(u) \/ LastResortFails(u)
           PROVE  Allowed(t)
      BY <2>12 DEF Run, Finish, Unwind, ShutdownUnwind, Raise, LastResortFails
    <2>13. CASE Tick \/ Shutdown
      BY <2>13 DEF Tick, Shutdown
    <2> HIDE DEF Allowed
    <2> QED
      BY <2>3, <2>4, <2>7, <2>8, <2>9, <2>10, <2>11, <2>12, <2>13 DEF RunnerNext, RunnerStep
  <1>2. RunnerInv /\ [RunnerNext]_rvars => [Final]_rvars
    BY <1>1
  <1>3. Spec => [][RunnerNext]_rvars
    BY ServerImplementsRunner, PTL DEF RunnerSpec, RunnerNext
  <1> QED
    BY <1>2, <1>3, ServerRunnerInv, PTL DEF TerminalIsFinal

\* What the task tools and the tasks extension tell of a task differs only as documented:
\* a failed call is "failed" on one and "completed" on the other; and a result on which a
\* late report came is withheld by tasks/get.
THEOREM SurfacesDifferAsTold == Spec => []SurfacesAgree
  <1>1. RunnerInv /\ StatusFitsResult => SurfacesAgree
    <2> SUFFICES ASSUME RunnerInv, StatusFitsResult, NEW t \in Tasks, NEW native,
                        native = DetailedTask(t)
                 PROVE  /\ native.result # "none" => TaskResult(t) = native.result
                        /\ TaskResult(t) \in {"ok", "error"} =>
                              \/ native.result = TaskResult(t)
                              \/ native.status = "working" /\ t \in stray
                        /\ TaskResult(t) = "not ready" => native.status = "working"
                        /\ native.status # TaskStatus(t) =>
                              /\ native.status = "completed" /\ TaskStatus(t) = "failed"
                              /\ TaskResult(t) = "error" \/ faulty = "yes"
      BY DEF SurfacesAgree
    <2>1. CASE ~Found(t)
      BY <2>1 DEF DetailedTask, Detailed, TaskResult, TaskStatus
    <2>2. CASE Found(t)
      <3> DEFINE status == records[t].status
                 result == records[t].result
      <3>1. /\ status \in Terminal \union {"working"} /\ result \in Payloads
            /\ status = "cancelled" => result = "none"
            /\ status = "working" /\ result # "none" => t \in stray
        BY <2>2 DEF Found, RunnerInv, RunnerTypeOK, TasksInv, TaskInv, Fits, Record
      <3>2. faulty = "no" => (status = "failed" => result # "ok")
        BY <2>2 DEF Found, StatusFitsResult
      <3>3. faulty \in {"no", "yes"}
        BY DEF RunnerInv, RunnerTypeOK
      <3>4. /\ TaskStatus(t) = status
            /\ TaskResult(t) = IF result # "none" THEN result
                               ELSE IF status \in Terminal THEN status ELSE "not ready"
        BY <2>2 DEF TaskStatus, TaskResult
      <3>5. /\ native.status = IF result # "none" /\ status \in {"completed", "failed"}
                                 THEN "completed" ELSE status
            /\ native.result = IF result # "none" /\ status \in {"completed", "failed"}
                                 THEN result ELSE "none"
        BY <2>2 DEF DetailedTask, Detailed
      <3> HIDE DEF status, result
      <3> QED
        BY <3>1, <3>2, <3>3, <3>4, <3>5 DEF Terminal, Payloads
    <2> QED
      BY <2>1, <2>2
  <1>2. RecordsAreTrue => StatusFitsResult
    BY DEF RecordsAreTrue
  <1> QED
    BY <1>1, <1>2, ServerRunnerInv, RecordsTrue, PTL

\* No destructive tool is run without an accept, on whatever way to it.
THEOREM ConsentComesFirst == Spec => []ConsentFirst
  <1>1. Init => ConsentFirst
    BY DEF Init, ConsentFirst
  <1>2. ConsentFirst /\ [Next]_vars => ConsentFirst'
    <2> SUFFICES ASSUME ConsentFirst, [Next]_vars PROVE ConsentFirst'
      OBVIOUS
    <2> USE DEF ConsentFirst
    <2>1. ASSUME NEW r \in Requests, Answer(r) PROVE ConsentFirst'
      BY <2>1 DEF Answer
    <2>2. ASSUME NEW r \in Requests, NEW called, NEW said, Execute(r, called, said),
                 ~NeedsConfirmation(called) \/ Accepted(said)
          PROVE  ConsentFirst'
      BY <2>1, <2>2 DEF Execute, Wait, NeedsConfirmation, Accepted
    <2>3. ASSUME NEW r \in Requests, NEW called \in served, NEW client \in Clients, NEW said \in Said,
                 CallTool(r, called, client, said)
          PROVE  ConsentFirst'
      BY <2>1, <2>2, <2>3 DEF CallTool, Wait
    <2>4. ASSUME NEW r \in Requests, NEW said \in Said, UserAnswers(r, said) PROVE ConsentFirst'
      BY <2>1, <2>2, <2>4 DEF UserAnswers
    <2>5. ASSUME NEW r \in Requests, InvokeEnds(r) \/ RequestCancelled(r) PROVE ConsentFirst'
      BY <2>1, <2>5 DEF InvokeEnds, RequestCancelled
    <2>6. ASSUME UNCHANGED <<setup, ran>> PROVE ConsentFirst'
      BY <2>6
    <2>7. ASSUME NEW t \in Tasks, Poll(t) \/ CancelTask(t) PROVE ConsentFirst'
      BY <2>6, <2>7 DEF Poll, CancelTask
    <2>8. CASE UNCHANGED vars
      BY <2>6, <2>8 DEF vars
    <2> QED
      BY <2>3, <2>4, <2>5, <2>6, <2>7, <2>8 DEF Next
  <1> QED
    BY <1>1, <1>2, PTL DEF Spec

-----------------------------------------------------------------------------
(* What is served *)

\* What build_server serves has passed the checks of collect_tools and _served_tools.
ServedInv ==
    /\ setup \in Setups /\ served \subseteq setup.tools
    /\ served # {} => /\ Collectable(setup.tools, setup.entrypoints)
                      /\ Servable(served, setup.options)

\* Tools that are collected have names of their own.
LEMMA NamesApart ==
  ASSUME NEW tools, IsFiniteSet(tools), Cardinality(Names(tools)) = Cardinality(tools),
         NEW a \in tools, NEW b \in tools, ToolName(a) = ToolName(b)
  PROVE  a = b
  <1> DEFINE f == [t \in tools |-> ToolName(t)]
  <1>1. f \in Surjection(tools, Names(tools))
    BY DEF Names, Surjection
  <1>2. f \in Injection(tools, Names(tools))
    BY <1>1, FS_Surjection
  <1> QED
    BY <1>2 DEF Injection, IsInjective

\* _namespaced_defs gives each model of each tool a key of its own.
LEMMA KeysApart ==
  ASSUME NEW tools, IsFiniteSet(tools), Cardinality(Names(tools)) = Cardinality(tools),
         NEW background \in SUBSET tools,
         NEW d \in ResultDefs(background), NEW e \in ResultDefs(background), d[1] = e[1]
  PROVE  d = e
  <1>1. PICK a \in background : \E m \in DOMAIN a.models : d = <<DefKey(a, background, m), a.models[m]>>
    BY DEF ResultDefs
  <1>2. PICK b \in background : \E n \in DOMAIN b.models : e = <<DefKey(b, background, n), b.models[n]>>
    BY DEF ResultDefs
  <1>3. PICK m \in DOMAIN a.models : d = <<DefKey(a, background, m), a.models[m]>>
    BY <1>1
  <1>4. PICK n \in DOMAIN b.models : e = <<DefKey(b, background, n), b.models[n]>>
    BY <1>2
  <1>5. DefKey(a, background, m) = DefKey(b, background, n)
    BY <1>3, <1>4
  <1>6. CASE Cardinality(background) = 1
    <2>1. IsFiniteSet(background)
      BY FS_Subset
    <2>2. a = b
      BY <1>6, <2>1, FS_Singleton
    <2>3. m = n
      BY <1>5, <1>6 DEF DefKey
    <2> QED
      BY <1>3, <1>4, <2>2, <2>3
  <1>7. CASE Cardinality(background) # 1
    <2>1. ToolName(a) = ToolName(b) /\ m = n
      BY <1>5, <1>7 DEF DefKey
    <2>2. a = b
      BY <2>1, NamesApart
    <2> QED
      BY <1>3, <1>4, <2>1, <2>2
  <1> QED
    BY <1>6, <1>7

\* The tools served, and so their names and answers, never change.
LEMMA SetupFixed == [Next]_vars => UNCHANGED <<setup, served>>
  <1> SUFFICES ASSUME [Next]_vars PROVE UNCHANGED <<setup, served>>
    OBVIOUS
  <1>1. ASSUME NEW r \in Requests, NEW called, NEW said, Execute(r, called, said)
        PROVE  UNCHANGED <<setup, served>>
    BY <1>1 DEF Execute, Answer, Wait
  <1>2. ASSUME NEW r \in Requests, NEW called, NEW client, NEW said, CallTool(r, called, client, said)
        PROVE  UNCHANGED <<setup, served>>
    BY <1>1, <1>2 DEF CallTool, Answer, Wait
  <1>3. ASSUME NEW r \in Requests, NEW said, UserAnswers(r, said) \/ InvokeEnds(r) \/ RequestCancelled(r)
        PROVE  UNCHANGED <<setup, served>>
    BY <1>1, <1>3 DEF UserAnswers, InvokeEnds, RequestCancelled, Answer
  <1> QED
    BY <1>2, <1>3 DEF Next, Poll, CancelTask, vars

\* What one call of a tool that returns v owes a client
Conforms(b, client, v) ==
    LET answer == CallAnswer(b, client, v)
    IN  /\ \/ answer \in Advertised(b, client)
           \/ /\ answer = NativeTask /\ Native(client)
              /\ DetailedResult(b, v) \in Advertised(b, client)
        /\ answer = TaskId => \/ AsTaskResult(b, v) \in TaskResultSchema(Background(served))
                              \/ Ambiguous(Background(served), b, v)

\* A handle is no result.
LEMMA ShapesApart ==
  /\ NativeTask # TaskId
  /\ \A b, v : Result(b, v) # TaskId
  BY DEF NativeTask, TaskId, Result, Content

\* Whatever tools, filters and options an app has: every tool that a client is told of
\* can be called; what it gets, from the call or through a task handle, conforms to the
\* schema it was shown, but for task_result on a value that two background tools may
\* return; and that schema does not mix up the models of two tools.
THEOREM AdvertisementsHold == Spec => []AdvertisedIsReal
  <1>1. Init => ServedInv
    BY DEF Init, ServedInv, ServingFails, Selected
  <1>2. ServedInv /\ [Next]_vars => ServedInv'
    BY SetupFixed DEF ServedInv
  <1>3. ServedInv => AdvertisedIsReal
    <2> SUFFICES ASSUME ServedInv, NEW client \in Clients
                 PROVE  /\ Listed(served, client) \subseteq Callable(served, setup.options)
                        /\ \A b \in served : \A v \in b.answers : Conforms(b, client, v)
                        /\ \A d, e \in ResultDefs(Background(served)) : d[1] = e[1] => d = e
      BY DEF AdvertisedIsReal, Conforms
    <2>1. Listed(served, client) \subseteq Callable(served, setup.options)
      <3>1. Background(served) # {} => setup.options.runner
        BY DEF ServedInv, Servable, Background
      <3> QED
        BY <3>1 DEF Listed, Callable
    <2>2. ASSUME NEW b \in served, NEW v \in b.answers PROVE Conforms(b, client, v)
      <3>1. Result(b, v) \in Contract(b)
        BY DEF Result, Contract
      <3>2. CASE "background" \notin b.flags
        BY <3>1, <3>2, ShapesApart DEF Conforms, CallAnswer, Advertised
      <3>3. CASE "background" \in b.flags /\ Native(client)
        BY <3>1, <3>3, ShapesApart DEF Conforms, CallAnswer, Advertised, DetailedResult
      <3>4. CASE "background" \in b.flags /\ ~Native(client)
        <4>1. b \in Background(served)
          BY <3>4 DEF Background
        <4>2. AsTaskResult(b, v) = Content("wrapped", v)
          BY DEF AsTaskResult, Result
        <4>3. ~Ambiguous(Background(served), b, v)
                => Content("wrapped", v) \in TaskResultSchema(Background(served))
          BY <4>1 DEF TaskResultSchema
        <4> QED
          BY <3>4, <4>2, <4>3 DEF Conforms, CallAnswer, Advertised
      <3> QED
        BY <3>2, <3>3, <3>4
    <2>3. ASSUME NEW d \in ResultDefs(Background(served)), NEW e \in ResultDefs(Background(served)), d[1] = e[1]
          PROVE  d = e
      <3>1. served # {}
        BY <2>3 DEF ResultDefs, Background
      <3>2. IsFiniteSet(setup.tools) /\ Cardinality(Names(setup.tools)) = Cardinality(setup.tools)
        BY <3>1, ServerAssumption DEF ServedInv, Collectable
      <3>3. Background(served) \in SUBSET setup.tools
        BY DEF ServedInv, Background
      <3> QED
        BY <2>3, <3>2, <3>3, KeysApart
    <2> QED
      BY <2>1, <2>2, <2>3
  <1> QED
    BY <1>1, <1>2, <1>3, PTL DEF Spec

=============================================================================
