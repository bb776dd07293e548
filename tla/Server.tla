------------------------------- MODULE Server -------------------------------
(***************************************************************************)
(* The tool calls of an MCP server (mcp/server.py): on_call_tool, the      *)
(* confirmation of destructive tools, the task tools and the tasks         *)
(* extension (mcp/tasks_extension.py), over the tools that ToolServing     *)
(* says are served and the background tasks of TaskRunner.                 *)
(*                                                                         *)
(* A call is answered in the step that takes it, unless it has to wait:    *)
(* for the user, or for invoke().  A request that has been answered is     *)
(* idle again, and may be used for another call.                           *)
(***************************************************************************)
EXTENDS TaskRunner, ToolServing

CONSTANTS
    Requests,   \* calls under way at once
    Setups,     \* the servers considered: [tools, entrypoints, options, faulty]
    Clients     \* [modern, tasks, elicits, channel : BOOLEAN]

ASSUME ServerAssumption ==
    /\ \A s \in Setups : /\ IsFiniteSet(s.tools) /\ \A t \in s.tools : IsTool(t)
                         /\ s.options.confirm_destructive \in BOOLEAN
                         /\ s.faulty \in {"no", "yes"}
    /\ \A c \in Clients : {c.modern, c.tasks, c.elicits, c.channel} \subseteq BOOLEAN

VARIABLES
    setup,    \* the app, its options and its task store, fixed
    served,   \* the bindings of build_server; {} if it raises
    place,    \* where each request is: "idle", "asking" or "invoking"
    tool,     \* the tool it calls
    ran       \* history: what the user had said when a destructive tool was last run

vars == <<rvars, setup, served, place, tool, ran>>

Said == {"none", "accept", "decline", "cancel"}
NoTool == [flags |-> {}]

Init ==
    /\ RunnerInit
    /\ setup \in Setups /\ faulty = setup.faulty
    /\ served = IF ServingFails(setup.tools, setup.entrypoints, setup.options) THEN {}
                ELSE Selected(setup.tools, setup.options)
    /\ place = [r \in Requests |-> "idle"]
    /\ tool = [r \in Requests |-> NoTool]
    /\ ran = "never"

-----------------------------------------------------------------------------
(* tools/call *)

\* The call ends: with an answer, or cancelled with none.
End(r) ==
    /\ place' = [place EXCEPT ![r] = "idle"]
    /\ tool' = [tool EXCEPT ![r] = NoTool]

Answer(r) == End(r) /\ UNCHANGED <<rvars, setup, served, ran>>

Wait(r, where, called) ==
    /\ place' = [place EXCEPT ![r] = where]
    /\ tool' = [tool EXCEPT ![r] = called]
    /\ UNCHANGED <<setup, served>>

\* A binder raises, or the tool is run: a task is submitted, whose handle is the
\* answer, or invoke() begins.
Execute(r, called, said) ==
    \/ Answer(r)
    \/ /\ "background" \in called.flags
       /\ \E t \in Tasks : Start(t)
       /\ End(r)
       /\ ran' = IF "destructive" \in called.flags THEN said ELSE ran
       /\ UNCHANGED <<setup, served>>
    \/ /\ "background" \notin called.flags
       /\ Wait(r, "invoking", called)
       /\ ran' = IF "destructive" \in called.flags THEN said ELSE ran
       /\ UNCHANGED rvars

\* Mutant: a submit is not an execution.
InlineOnly(called) ==
    setup.options.confirm_destructive /\ called.flags \intersect {"destructive", "background"} = {"destructive"}

NeedsConfirmation(called) == setup.options.confirm_destructive /\ "destructive" \in called.flags

\* Only an explicit accept runs the tool.
Accepted(said) == said = "accept"

\* Whether a client can be asked on this call
Askable(client) == client.elicits /\ (client.modern \/ client.channel)

\* on_call_tool up to its first await.  A modern client is answered with the
\* question, and sends what its user said along with the retry; any other one is
\* asked on the back channel.
CallTool(r, called, client, said) ==
    /\ place[r] = "idle"
    /\ \/ Answer(r)  \* the arguments are not valid
       \/ /\ \/ ~NeedsConfirmation(called)
             \/ Askable(client) /\ client.modern /\ Accepted(said)
          /\ Execute(r, called, said)
       \/ /\ NeedsConfirmation(called)
          /\ ~Askable(client) \/ (client.modern /\ ~Accepted(said))
          /\ Answer(r)
       \/ /\ NeedsConfirmation(called) /\ Askable(client) /\ ~client.modern
          /\ Wait(r, "asking", called)
          /\ UNCHANGED <<rvars, ran>>

\* The answer to elicitation/create
UserAnswers(r, said) ==
    /\ place[r] = "asking" /\ said # "none"
    /\ IF Accepted(said) THEN Execute(r, tool[r], said) ELSE Answer(r)

\* invoke() returns, or raises what becomes a tool error; or the request is
\* cancelled.
InvokeEnds(r) == place[r] = "invoking" /\ Answer(r)

RequestCancelled(r) == place[r] \in {"asking", "invoking"} /\ Answer(r)

-----------------------------------------------------------------------------
(* Task handles *)

\* What store.get() gives
Found(t) == records[t] # NoRecord /\ ~Expired(t)

\* task_status
TaskStatus(t) == IF Found(t) THEN records[t].status ELSE "unknown"

\* task_result
TaskResult(t) ==
    IF ~Found(t) THEN "unknown"
    ELSE IF records[t].result # "none" THEN records[t].result
    ELSE IF records[t].status \in Terminal THEN records[t].status
    ELSE "not ready"

Detailed(status, result) == [status |-> status, result |-> result]

\* Mutant: the result of a failed call is not handed out.
DetailedFailed(t) ==
    IF ~Found(t) THEN Detailed("unknown", "none")
    ELSE IF records[t].status = "completed" THEN Detailed("completed", records[t].result)
    ELSE Detailed(records[t].status, "none")

\* tasks/get: a tool error is still a completed call.
DetailedTask(t) ==
    IF ~Found(t) THEN Detailed("unknown", "none")
    ELSE IF records[t].result # "none" /\ records[t].status \in {"completed", "failed"}
         THEN Detailed("completed", records[t].result)
    ELSE Detailed(records[t].status, "none")

\* A client asks about a task, in one of the two ways: an expired record is dropped.
Poll(t) ==
    /\ Get(t)
    /\ UNCHANGED <<setup, served, place, tool, ran>>

\* task_cancel and tasks/cancel
CancelTask(t) ==
    /\ Found(t) /\ Cancel(t)
    /\ UNCHANGED <<setup, served, place, tool, ran>>

-----------------------------------------------------------------------------

Next ==
    \/ \E r \in Requests :
          \/ \E called \in served, client \in Clients, said \in Said :
                CallTool(r, called, client, said)
          \/ \E said \in Said : UserAnswers(r, said)
          \/ InvokeEnds(r) \/ RequestCancelled(r)
    \/ \E t \in Tasks : Poll(t) \/ CancelTask(t)
    \/ RunnerStep /\ UNCHANGED <<setup, served, place, tool, ran>>

Spec == Init /\ [][Next]_vars
LiveSpec == Spec /\ RunnerFairness

-----------------------------------------------------------------------------
(* Properties *)

TypeOK ==
    /\ RunnerTypeOK
    /\ setup \in Setups /\ served \subseteq setup.tools
    /\ place \in [Requests -> {"idle", "asking", "invoking"}]
    /\ tool \in [Requests -> served \union {NoTool}]
    /\ ran \in Said \union {"never"}

\* "Only an explicit accept runs it", inline or in the background, whatever the
\* client can do: it fails closed.
ConsentFirst == setup.options.confirm_destructive => ran \in {"never", "accept"}

\* "The advertised behaviour must be real": every listed name can be called; whatever a
\* tool returns, what a client gets conforms to the schema that it was shown for it, from
\* the call, from tasks/get or from task_result, unless the return type of another
\* background tool admits the value as well: then the "oneOf" of task_result refuses it.
\* And that schema has one model under each of the keys that its tools refer to.
AdvertisedIsReal ==
    \A client \in Clients :
        /\ Listed(served, client) \subseteq Callable(served, setup.options)
        /\ \A b \in served : \A v \in b.answers :
              LET answer == CallAnswer(b, client, v)
              IN  /\ \/ answer \in Advertised(b, client)
                     \/ /\ answer = NativeTask /\ Native(client)
                        /\ DetailedResult(b, v) \in Advertised(b, client)
                  /\ answer = TaskId => \/ AsTaskResult(b, v) \in TaskResultSchema(Background(served))
                                        \/ Ambiguous(Background(served), b, v)
        /\ \A d, e \in ResultDefs(Background(served)) : d[1] = e[1] => d = e

\* What the plain tools and the tasks extension may tell differently of a task: a call
\* that failed is "failed" for task_status and "completed", with the tool error as its
\* result, for tasks/get, and so is one whose terminal write raised; and a result on which
\* a late report came is given by task_result alone, while tasks/get says "working".  No
\* result is lost, made up or swapped on either, and "not ready" is said of no task that
\* the extension calls settled.
SurfacesAgree ==
    \A t \in Tasks :
        LET native == DetailedTask(t)
        IN  /\ native.result # "none" => TaskResult(t) = native.result
            /\ TaskResult(t) \in {"ok", "error"} =>
                  \/ native.result = TaskResult(t)
                  \/ native.status = "working" /\ t \in stray
            /\ TaskResult(t) = "not ready" => native.status = "working"
            /\ native.status # TaskStatus(t) =>
                  /\ native.status = "completed" /\ TaskStatus(t) = "failed"
                  /\ TaskResult(t) = "error" \/ faulty = "yes"

\* "Never the retry-implying not_ready, which would make a poller loop forever": of a job
\* that has ended a poller is, from some time on, always told the end, although the
\* terminal write fails once, unless the server goes down, or a late report comes on a
\* task that has no result.
PollersAreTold ==
    \A t \in Tasks :
        [](job[t] = "ended" =>
             <>[](\/ down = "yes"
                  \/ TaskResult(t) # "not ready"
                  \/ t \in stray /\ records[t].result = "none"))

=============================================================================
