------------------------------ MODULE ServerMC ------------------------------
(***************************************************************************)
(* One call at a time, from clients of four kinds, over two tasks: of      *)
(* destructive tools, or, with a store whose writes raise, of plain ones   *)
(* that may both return "none".                                            *)
(* Next to them, every filter over a few inline tools, and apps that       *)
(* cannot be served.                                                       *)
(***************************************************************************)
EXTENDS Server

NoOptions == [tags |-> NoFilter, include |-> NoFilter, exclude |-> NoFilter,
              runner |-> TRUE, icons |-> TRUE, confirm_destructive |-> TRUE]

Tool(c, m, name, tags, flags) ==
    [component |-> c, method |-> m, name |-> name, tags |-> tags,
     flags |-> flags \union {"invocable", "icons"},
     answers |-> {"none", m}, models |-> [x \in {"Item"} |-> <<c, m>>]]

Setup(tools, options, broken) ==
    [tools |-> tools, entrypoints |-> {"db", "mail"}, options |-> options, faulty |-> broken]

Erase == Tool("db", "erase", NoFilter, {}, {"background", "destructive"})
Drop == Tool("db", "drop", NoFilter, {}, {"destructive", "object"})
Sync == Tool("mail", "sync", NoFilter, {}, {"background", "object"})
Count == Tool("mail", "count", NoFilter, {}, {"background"})

Find == Tool("db", "find", <<"find">>, {"public"}, {"object"})
Send == Tool("mail", "send", NoFilter, {"public", "write"}, {})
Ping == Tool("mail", "ping", NoFilter, {}, {})
Other == Tool("mail", "look", <<"find">>, {}, {})

Globs == {NoFilter, {{<<"find">>}}, {{<<"mail", "send">>, <<"mail", "ping">>}}, {{<<"fnid">>}}}
Tags == {NoFilter, {"public"}, {"write"}, {"private"}}

SomeSetups ==
    {Setup({Erase, Drop}, NoOptions, "no"), Setup({Sync, Count}, NoOptions, "yes")}
    \union
    {Setup({Find, Send, Ping},
           [NoOptions EXCEPT !.tags = t, !.include = i, !.exclude = e], "no") :
        t \in Tags, i \in Globs, e \in Globs}
    \union
    {Setup({Find, Other}, NoOptions, "no"),                          \* one name for two
     Setup({Tool("db", "x", <<"task_result">>, {}, {})}, NoOptions, "no"),
     Setup({Sync}, [NoOptions EXCEPT !.runner = FALSE], "no"),
     Setup({Ping, [Find EXCEPT !.component = "infra"]}, NoOptions, "no"),
     Setup({Ping, [Find EXCEPT !.flags = {"icons"}]}, NoOptions, "no"),
     Setup({Ping, [Find EXCEPT !.flags = {"invocable"}]}, NoOptions, "no"),
     Setup({}, NoOptions, "no")}

Client(modern, tasks, elicits, channel) ==
    [modern |-> modern, tasks |-> tasks, elicits |-> elicits, channel |-> channel]

\* With and without native tasks; that can and cannot be asked
SomeClients ==
    {Client(TRUE, TRUE, TRUE, FALSE), Client(TRUE, FALSE, FALSE, TRUE),
     Client(FALSE, TRUE, TRUE, TRUE), Client(FALSE, FALSE, TRUE, FALSE)}
=============================================================================
