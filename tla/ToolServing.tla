----------------------------- MODULE ToolServing -----------------------------
(***************************************************************************)
(* What a server serves (mcp/server.py): the tools found on the registered *)
(* components, the filters, the checks made before anything starts, and    *)
(* the list of tools each client sees, with the shape of their answers.    *)
(*                                                                         *)
(* A glob is the set of the names it matches.                              *)
(***************************************************************************)
EXTENDS FiniteSets

CONSTANTS
    NoFilter    \* the option is not given

\* A tool has a component, a method, tags, flags, the name it asks for or NoFilter, the
\* values that the schema of its return type admits, and the models that this schema
\* defines, by their names.
Flags == {"invocable", "background", "destructive", "object", "icons"}

IsTool(tool) ==
    /\ DOMAIN tool = {"component", "method", "name", "tags", "flags", "answers", "models"}
    /\ tool.flags \subseteq Flags

\* A name is the sequence of its parts: "__" joins the two of a derived one.
TaskTools == {<<"task_status">>, <<"task_result">>, <<"task_cancel">>}

-----------------------------------------------------------------------------
(* collect_tools *)

ToolName(tool) ==
    IF tool.name = NoFilter THEN <<tool.component, tool.method>> ELSE tool.name

Names(tools) == {ToolName(tool) : tool \in tools}

\* A tool is a method that goes through a chain, of an entry point, and no two
\* have the same name.
Collectable(tools, entrypoints) ==
    /\ \A tool \in tools : tool.component \in entrypoints /\ "invocable" \in tool.flags
    /\ Cardinality(Names(tools)) = Cardinality(tools)

\* A tag nobody declares or a pattern that matches nothing is an error; both are
\* looked for among all tools.
FiltersMatch(tools, options) ==
    /\ options.tags # NoFilter => options.tags \subseteq UNION {tool.tags : tool \in tools}
    /\ \A filter \in {options.include, options.exclude} \ {NoFilter} :
          \A pattern \in filter : pattern \intersect Names(tools) # {}

\* Tags, then include, then exclude
Selected(tools, options) ==
    {tool \in tools :
        /\ options.tags # NoFilter => tool.tags \intersect options.tags # {}
        /\ options.include # NoFilter => ToolName(tool) \in UNION options.include
        /\ options.exclude # NoFilter => ToolName(tool) \notin UNION options.exclude}

Filtered(options) ==
    \/ options.tags # NoFilter
    \/ options.include # NoFilter
    \/ options.exclude # NoFilter

-----------------------------------------------------------------------------
(* _served_tools *)

Background(tools) == {tool \in tools : "background" \in tool.flags}

Servable(tools, options) ==
    /\ Names(tools) \intersect TaskTools = {}
    /\ options.runner \/ Background(tools) = {}
    /\ options.icons
    /\ \A tool \in tools : "icons" \in tool.flags

\* The server cannot be built
ServingFails(tools, entrypoints, options) ==
    \/ ~Collectable(tools, entrypoints)
    \/ Filtered(options) /\ ~FiltersMatch(tools, options)
    \/ Filtered(options) /\ Selected(tools, options) = {}
    \/ ~Servable(Selected(tools, options), options)

-----------------------------------------------------------------------------
(* What a client is told, and what it gets.  A schema is the set of the contents   *)
(* it admits.                                                                  *)

\* A structured content: "raw" is the object that a tool returns, "wrapped" an object
\* with its value under "result", "task id" the answer to a submit and "task" a native
\* task.
Content(shape, value) == [shape |-> shape, value |-> value]

TaskId == Content("task id", "id")
NativeTask == Content("task", "id")

\* supports_native_tasks
Native(client) == client.modern /\ client.tasks

\* _output_contract: an object schema is advertised as it is; of any other one the
\* values are wrapped.
Wraps(tool) == "object" \notin tool.flags

Contract(tool) ==
    {Content(IF Wraps(tool) THEN "wrapped" ELSE "raw", v) : v \in tool.answers}

\* _describe_tool: the schema that a client sees
Advertised(tool, client) ==
    IF "background" \in tool.flags /\ ~Native(client) THEN {TaskId} ELSE Contract(tool)

\* on_list_tools
Listed(tools, client) ==
    Names(tools) \union
    (IF Background(tools) # {} /\ ~Native(client) THEN TaskTools ELSE {})

\* _namespaced_defs: where the schema of task_result keeps a model of a tool, and the
\* rewritten references to it point
DefKey(tool, background, model) ==
    IF Cardinality(background) = 1 THEN <<model>> ELSE <<ToolName(tool), model>>

\* The definitions that _task_result_output_schema gathers from the background tools
ResultDefs(background) ==
    UNION {{<<DefKey(tool, background, model), tool.models[model]>> : model \in DOMAIN tool.models} :
             tool \in background}

\* Another background tool whose return type admits the value as well
Ambiguous(background, tool, v) == \E other \in background \ {tool} : v \in other.answers

\* _task_result_output_schema: "oneOf" the return types, under "result"
TaskResultSchema(background) ==
    UNION {{Content("wrapped", v) : v \in {v \in tool.answers : ~Ambiguous(background, tool, v)}} :
             tool \in background}

\* What on_call_tool finds under a name
Callable(tools, options) ==
    Names(tools) \union (IF options.runner THEN TaskTools ELSE {})

\* _success_result: the answer to an inline call that returns v, or what the record of
\* a task keeps
Result(tool, v) == Content(IF Wraps(tool) THEN "wrapped" ELSE "raw", v)

\* on_call_tool: what the call itself is answered with
CallAnswer(tool, client, v) ==
    IF "background" \notin tool.flags THEN Result(tool, v)
    ELSE IF Native(client) THEN NativeTask ELSE TaskId

\* Mutant: the result is wrapped once more.
AsTaskResultAlways(tool, v) ==
    Content(IF Wraps(tool) THEN "wrapped twice" ELSE "wrapped", v)

\* _as_task_result: what task_result answers, from what the record keeps
AsTaskResult(tool, v) == IF Wraps(tool) THEN Result(tool, v) ELSE Content("wrapped", v)

\* detailed_task: what tasks/get holds of a task that has returned v
DetailedResult(tool, v) == Result(tool, v)

=============================================================================
