-------------------------------- MODULE Proxy --------------------------------
(***************************************************************************)
(* The proxy: one request through src/ccr/router.py and src/ccr/main.py,   *)
(* while the prompt hook, another process, rewrites the state file.        *)
(*                                                                         *)
(* The router and the proxy read that file up to four times for a request, *)
(* and the hook can write between any two.  Then the proxy asks the        *)
(* gateway for a pack, counts the repository's tokens, prunes the tools,   *)
(* relays the model's stream and feeds the answer back.                    *)
(*                                                                         *)
(* What was read is named by the turn of the state file it came from; turn *)
(* 0 is the request itself.  Requests share nothing but the file, so one   *)
(* is followed.                                                            *)
(*                                                                         *)
(* grounds and broken are auxiliary: what decided the route, with the turn *)
(* of the file if it was read for that; and that the stream broke off.     *)
(* Only the properties read them.                                          *)
(***************************************************************************)
EXTENDS SkillPruner

CONSTANTS
    Request,      \* what a client may send
    Settings,     \* how the proxy may be configured
    MaxTurns,     \* bound on prompts
    MaxTools,     \* skill_pruner_max_tools
    Events        \* events of the model's answer

Hint == {"", "fallback", "passthrough", "repo_task"}

ASSUME ConstantsAssumption ==
    /\ Settings \subseteq [subagent : Hint, fallback : BOOLEAN, pruner : BOOLEAN]
    /\ MaxTurns \in Nat /\ MaxTools \in Nat /\ Events \in Nat
    /\ \A q \in Request : q.hint \in Hint /\ q.tools \in Seq(Tool)

VARIABLES
    settings,     \* subagent_route, fallback_enabled with a key, skill_pruner_enabled
    state,        \* the state file; turn 0 is an absent or unreadable one
    turn,         \* prompts so far
    client,       \* the request
    pc, route, task, repo, active,
    grounds,      \* auxiliary: what decided the route, as of which turn
    pack,         \* what the gateway's answer gave: text, files
    shown,        \* whether the model was given the pack
    body,         \* tools (by position) and tool choice sent to the model
    relayed,      \* half-events the client was sent
    heard,        \* events the proxy took the text of
    broken,       \* auxiliary: whether the stream broke off
    learned       \* whether the gateway recorded feedback

request == <<client, settings>>
decided == <<route, grounds>>
routing == <<decided, task, repo, active>>
answer  == <<relayed, heard, broken, learned>>
vars    == <<settings, state, turn, client, pc, routing, pack, shown, body, answer>>

\* The state file's record: a repository or none, a hint, a stripped prompt or none.
State == [turn : 0..MaxTurns, repo : BOOLEAN, hint : Hint, stripped : BOOLEAN]

NoState == [turn |-> 0, repo |-> FALSE, hint |-> "", stripped |-> FALSE]

NoPack == [text |-> FALSE, files |-> FALSE]

\* No repository.
NoRepo == MaxTurns + 1

Init ==
    /\ settings \in Settings
    /\ state = NoState /\ turn = 0
    /\ client \in Request
    /\ pc = "idle" /\ route = "" /\ task = 0 /\ repo = NoRepo /\ active = 0
    /\ grounds = [by |-> "request", turn |-> 0]
    /\ pack = NoPack /\ shown = FALSE
    /\ body = [tools |-> {}, choice |-> NoName]
    /\ relayed = 0 /\ heard = {} /\ broken = FALSE /\ learned = FALSE

-----------------------------------------------------------------------------
(* The prompt hook *)

NewTurn(r, h, s) ==
    /\ turn < MaxTurns
    /\ turn' = turn + 1
    /\ state' = [turn |-> turn + 1, repo |-> r, hint |-> h, stripped |-> s]
    /\ UNCHANGED <<request, pc, routing, pack, shown, body, answer>>

-----------------------------------------------------------------------------
(* router.py *)

\* The names of its tools in either form.
ToolNames(q) == {q.tools[i].name : i \in DOMAIN q.tools}

\* Tools, but not those of a main agent; a body that is no JSON has none.
IsSubagent(q) ==
    q.json /\ ToolNames(q) # {} /\ ToolNames(q) \intersect {"Task", "Agent"} = {}

\* Headers count from localhost only.
HeaderHint == IF client.local THEN client.hint ELSE ""
HeaderRepo == client.local /\ client.repo
HeaderFile == client.local /\ client.file

Go(next) == pc' = next
Routed(r, by, t) ==
    /\ route' = r /\ grounds' = [by |-> by, turn |-> t]
    /\ Go("dispatch")
    /\ UNCHANGED <<task, repo, active>>

Receive ==
    /\ pc = "idle"
    /\ Go("classify")
    /\ UNCHANGED <<request, state, turn, routing, pack, shown, body, answer>>

\* classify up to the first read of the file.
Classify ==
    /\ pc = "classify"
    /\ \/ ~client.chat /\ Routed("passthrough", "request", 0)
       \/ client.chat /\ settings.subagent # "" /\ IsSubagent(client)
          /\ Routed(settings.subagent, "request", 0)
       \/ client.chat /\ ~(settings.subagent # "" /\ IsSubagent(client))
          /\ \/ HeaderHint # "" /\ Routed(HeaderHint, "request", 0)
             \/ HeaderHint = "" /\ Go("hint") /\ UNCHANGED routing
    /\ UNCHANGED <<request, state, turn, pack, shown, body, answer>>

\* get_route_hint reads the file.
ReadHint ==
    /\ pc = "hint"
    /\ \/ state.hint # "" /\ Routed(state.hint, "hint", state.turn)
       \/ state.hint = "" /\ Go("default") /\ UNCHANGED routing
    /\ UNCHANGED <<request, state, turn, pack, shown, body, answer>>

\* A repository, of the header or else of the file, decides.
DefaultRoute ==
    /\ pc = "default"
    /\ Routed(IF HeaderRepo \/ state.repo THEN "repo_task" ELSE "fallback",
              "repo", IF HeaderRepo THEN 0 ELSE state.turn)
    /\ UNCHANGED <<request, state, turn, pack, shown, body, answer>>

-----------------------------------------------------------------------------
(* main.py: proxy *)

\* Where a request goes that is not enriched.
Upstream ==
    IF route = "fallback" /\ settings.fallback THEN "anthropic" ELSE "vllm"

Forward ==
    /\ pc = "dispatch" /\ (route # "repo_task" \/ ~client.json)
    /\ Go(Upstream)
    /\ UNCHANGED <<request, state, turn, routing, pack, shown, body, answer>>

\* The upstream's answer or error is the client's.
Forwarded ==
    /\ pc \in {"anthropic", "vllm"}
    /\ Go("done")
    /\ UNCHANGED <<request, state, turn, routing, pack, shown, body, answer>>

\* extract_task_text: the hook's prompt is the main agent's only.
TaskOf(s) == IF s.stripped /\ ~IsSubagent(client) THEN s.turn ELSE 0

\* Mutant: the headers are forgotten.
RepoOfFile == IF state.repo THEN state.turn ELSE NoRepo

\* get_repo_context, which reads the file once more if the headers name none.
RepoNow == IF HeaderRepo THEN 0 ELSE IF state.repo THEN state.turn ELSE NoRepo

\* The active file of that reading, unless a header names it: the header's file
\* may meet the state file's repository.
ActiveNow == IF HeaderRepo \/ HeaderFile THEN 0 ELSE state.turn

ReadTask ==
    /\ pc = "dispatch" /\ route = "repo_task" /\ client.json
    /\ task' = TaskOf(state)
    /\ Go("repo")
    /\ UNCHANGED <<request, state, turn, decided, repo, active, pack, shown, body, answer>>

ReadRepo ==
    /\ pc = "repo"
    /\ repo' = RepoNow /\ active' = ActiveNow
    /\ Go("enrich")
    /\ UNCHANGED <<request, state, turn, decided, task, pack, shown, body, answer>>

-----------------------------------------------------------------------------
(* main.py: _enrich *)

\* The gateway answers; without a repository it refuses.  A pack may have no
\* file in it.
PackArrives(files) ==
    /\ pc = "enrich" /\ repo # NoRepo
    /\ pack' = [text |-> TRUE, files |-> files]
    /\ Go("count")
    /\ UNCHANGED <<request, state, turn, routing, shown, body, answer>>

\* Refused, failed, or no answer in ten seconds.
NoPackArrives ==
    /\ pc = "enrich"
    /\ Go("body")
    /\ UNCHANGED <<request, state, turn, routing, pack, shown, body, answer>>

BaselineCounted ==
    /\ pc = "count"
    /\ Go("body")
    /\ UNCHANGED <<request, state, turn, routing, pack, shown, body, answer>>

\* A directory vanished under the count: the preamble is dropped, the files
\* are not.
BaselineFails ==
    /\ pc = "count"
    /\ pack' = [pack EXCEPT !.text = FALSE]
    /\ Go("body")
    /\ UNCHANGED <<request, state, turn, routing, shown, body, answer>>

\* Mutant: a choice stays whatever was pruned.
ChoiceLeft(pruned) == client.choice

\* A choice that names no tool of the pruned list is cleared.
ChoiceAfter(pruned) ==
    IF client.choice \in TopNames(client.tools, pruned) THEN client.choice ELSE NoName

\* _apply_pruner, on the body with or without the preamble.
MakeBody(categories) ==
    /\ pc = "body"
    /\ body' = IF client.tools = <<>> \/ ~settings.pruner
               THEN [tools |-> DOMAIN client.tools, choice |-> client.choice]
               ELSE LET pruned == PruneTools(client.tools, categories, MaxTools)
                    IN [tools |-> pruned, choice |-> ChoiceAfter(pruned)]
    /\ shown' = pack.text
    /\ Go("stream")
    /\ UNCHANGED <<request, state, turn, routing, pack, answer>>

-----------------------------------------------------------------------------
(* main.py: _stream_vllm *)

\* Mutant: an event is heard when it begins.
Begun(from, to) == {e \in 1..Events : from < 2 * e /\ 2 * e - 1 <= to}

\* Event e is the half-events 2e-1 and 2e.
Whole(from, to) == {e \in 1..Events : from <= 2 * e - 2 /\ 2 * e <= to}

\* A chunk ends anywhere; an event cut by its end is relayed, and not heard.
RelayChunk(to) ==
    /\ pc = "stream" /\ relayed < to
    /\ relayed' = to
    /\ heard' = heard \union Whole(relayed, to)
    /\ UNCHANGED <<request, state, turn, pc, routing, pack, shown, body, broken, learned>>

\* Mutant: the feedback is in a finally clause.
AfterBreakFeedback == IF repo # NoRepo /\ pack.files /\ heard # {} THEN "feedback" ELSE "done"

\* The exception leaves the generator: no feedback.
AfterBreak == "done"

\* Upstream is not there, fails or is silent for two minutes, or the client
\* hangs up.
StreamBreaks ==
    /\ pc = "stream"
    /\ broken' = TRUE
    /\ Go(AfterBreak)
    /\ UNCHANGED <<request, state, turn, routing, pack, shown, body, relayed, heard, learned>>

\* Repository, files and text are needed.
FeedbackDue == repo # NoRepo /\ pack.files /\ heard # {}

\* The body ends.  Neither the status nor [DONE] is asked for: a refusal, or an
\* answer that stops short without an error of the connection, is whole, too.
StreamEnds ==
    /\ pc = "stream"
    /\ Go(IF FeedbackDue THEN "feedback" ELSE "done")
    /\ UNCHANGED <<request, state, turn, routing, pack, shown, body, answer>>

\* The feedback is recorded; the client waits for it.
FeedbackRecorded ==
    /\ pc = "feedback" /\ ~learned
    /\ learned' = TRUE
    /\ UNCHANGED <<request, state, turn, pc, routing, pack, shown, body, relayed, heard, broken>>

\* Mutant: the proxy waits until the feedback is recorded.
FeedbackEndsRecorded ==
    /\ pc = "feedback" /\ learned
    /\ Go("done")
    /\ UNCHANGED <<request, state, turn, routing, pack, shown, body, answer>>

\* Its answer, refusal, or three seconds without one; or the client hangs up.
FeedbackEnds ==
    /\ pc = "feedback"
    /\ Go("done")
    /\ UNCHANGED <<request, state, turn, routing, pack, shown, body, answer>>

-----------------------------------------------------------------------------

Next ==
    \/ \E r, s \in BOOLEAN, h \in Hint : NewTurn(r, h, s)
    \/ Receive \/ Classify \/ ReadHint \/ DefaultRoute
    \/ Forward \/ Forwarded \/ ReadTask \/ ReadRepo
    \/ \E files \in BOOLEAN : PackArrives(files)
    \/ NoPackArrives \/ BaselineCounted \/ BaselineFails
    \/ \E c \in TaskCategories : MakeBody(c)
    \/ \E to \in 1..2 * Events : RelayChunk(to)
    \/ StreamBreaks \/ StreamEnds \/ FeedbackRecorded \/ FeedbackEnds

Spec == Init /\ [][Next]_vars

\* The proxy's own code runs on, and every wait on another program ends, if not
\* with an answer then with its time-out.  Nothing is assumed of the gateway
\* and the model.
Fairness ==
    /\ WF_vars(Receive) /\ WF_vars(Classify) /\ WF_vars(ReadHint)
    /\ WF_vars(DefaultRoute) /\ WF_vars(Forward) /\ WF_vars(Forwarded)
    /\ WF_vars(ReadTask) /\ WF_vars(ReadRepo) /\ WF_vars(NoPackArrives)
    /\ WF_vars(BaselineCounted) /\ WF_vars(\E c \in TaskCategories : MakeBody(c))
    /\ WF_vars(StreamBreaks) /\ WF_vars(FeedbackEnds)

FairSpec == Spec /\ Fairness

-----------------------------------------------------------------------------
(* Properties *)

\* Types, and: only events that were relayed whole are heard, and only tools the
\* client offered are sent.
TypeOK ==
    /\ state \in State /\ turn \in 0..MaxTurns /\ state.turn = turn
    /\ pc \in {"idle", "classify", "hint", "default", "dispatch", "anthropic", "vllm",
               "repo", "enrich", "count", "body", "stream", "feedback", "done"}
    /\ route \in Hint
    /\ task \in 0..turn /\ repo \in 0..turn \union {NoRepo} /\ active \in 0..turn
    /\ grounds \in [by : {"request", "hint", "repo"}, turn : 0..turn]
    /\ pack \in [text : BOOLEAN, files : BOOLEAN] /\ shown \in BOOLEAN
    /\ body.tools \subseteq DOMAIN client.tools
    /\ relayed \in 0..2 * Events
    /\ \A e \in heard : e \in 1..Events /\ 2 * e <= relayed
    /\ broken \in BOOLEAN /\ learned \in BOOLEAN

\* Hint, repository, task and repository again are looked up one after the other,
\* and a prompt may replace the file between any two.  Whenever it does, a
\* request takes nothing that is older than what it was routed by, and its active
\* file, unless it brought one, is of the reading its repository is of; and one
\* that was routed to be enriched because there was a repository has one, unless
\* a prompt came since it was looked at.
RouteAndRepoAgree ==
    pc = "enrich" =>
        /\ task # 0 => grounds.turn <= task
        /\ repo \notin {0, NoRepo} => grounds.turn <= repo /\ task <= repo
        /\ active # 0 /\ repo # NoRepo => active = repo
        /\ grounds.by = "repo" /\ repo = NoRepo => grounds.turn < state.turn

ToolsSent == pc \in {"stream", "feedback"}

\* The model is never left without tools when the client offered some, and
\* Read and Bash are among them whenever they are offered in the form the
\* pruner reads and the cap has room for both.
ToolsUsable ==
    ToolsSent =>
        /\ client.tools # <<>> => body.tools # {}
        /\ MaxTools >= Cardinality(AlwaysKeep) =>
               AlwaysKeep \intersect TopNames(client.tools, DOMAIN client.tools)
                   \subseteq TopNames(client.tools, body.tools)

\* A tool choice is only sent together with the tool it names.
ChoiceNamesTool ==
    ToolsSent /\ body.choice # NoName =>
        \E i \in body.tools : client.tools[i].name = body.choice

\* An answer that broke off, for whatever reason and wherever in an event,
\* teaches the gateway nothing.
BrokenTeachesNothing == learned => ~broken

\* Whatever the gateway, the model and the hook do, the client gets an answer
\* or an error.
EveryRequestEnds == <>(pc = "done")
=============================================================================
