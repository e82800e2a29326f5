------------------------------- MODULE MCProxy -------------------------------
(* Instances of Proxy for TLC. *)
EXTENDS Proxy

Tools(names, form) == [i \in DOMAIN names |-> [name |-> names[i], flat |-> form]]

Main == <<"Task", "Edit", "Grep", "Read", "Bash">>
Sub  == <<"Glob", "Edit", "Read">>

\* Requests that differ in where they go: chat or not, readable or not, with
\* every header, from here or elsewhere, from a main agent (one without tools
\* counts as that) or a subagent.
ToRoute ==
    {q \in [chat : BOOLEAN, json : BOOLEAN, local : BOOLEAN, hint : Hint, repo : BOOLEAN,
            file : BOOLEAN, tools : {<<>>, Tools(Sub, TRUE)}, choice : {NoName}] :
        /\ (q.chat /\ q.json) \/ (q.tools = <<>> /\ q.hint = "")
        /\ q.file => q.chat /\ q.json /\ q.hint = "" /\ q.tools = <<>>}

\* Requests that differ in what is pruned: tools in either form or unknown to
\* the pruner, and a choice among them.
ToPrune ==
    {q \in [chat : {TRUE}, json : {TRUE}, local : {TRUE}, hint : {"repo_task"}, repo : {TRUE},
            file : {TRUE}, tools : {Tools(<<"mcp", "Edit">>, TRUE), Tools(<<"mcp">>, TRUE)} \union
                    {Tools(n, form) : n \in {Main, Sub}, form \in BOOLEAN},
            choice : {NoName, "mcp", "Edit", "Read"}] :
        q.choice = NoName \/ \E i \in DOMAIN q.tools : q.tools[i].name = q.choice}

Requests == ToRoute \union ToPrune

\* Each switch thrown from the default, and each route of the split.
SomeSettings ==
    {[subagent |-> h, fallback |-> TRUE, pruner |-> TRUE] : h \in Hint} \union
    {[subagent |-> "", fallback |-> FALSE, pruner |-> TRUE],
     [subagent |-> "", fallback |-> TRUE, pruner |-> FALSE]}
=============================================================================
