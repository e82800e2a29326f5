----------------------------- MODULE ProxyProofs -----------------------------
(***************************************************************************)
(* Proofs about Proxy, for any requests and settings and any number of     *)
(* prompts, tools and events.                                              *)
(*                                                                         *)
(* What is known of the state file at one read must last until the next:   *)
(* unless a prompt has come since, the reason for enriching a request      *)
(* still stands when its repository is looked up.  And feedback must be    *)
(* known to come after a stream that did not break, although it is         *)
(* recorded in another step than the one that decides on it.               *)
(*                                                                         *)
(* Of the tools the cap cuts off, none is one that is always kept: before  *)
(* it in the order of the cap is at most the other such tool.              *)
(***************************************************************************)
EXTENDS Proxy, SequenceTheorems, FiniteSetTheorems, WellFoundedInduction, TLAPS

\* A stream that broke is the last of its request, and before it nothing was
\* recorded.
StreamInv ==
    /\ broken => pc = "done"
    /\ learned => pc \in {"feedback", "done"} /\ ~broken

-----------------------------------------------------------------------------

\* _stream_vllm: feedback is recorded only after a stream that did not break,
\* wherever chunks are cut.
THEOREM OnlyWholeAnswersTeach == Spec => []BrokenTeachesNothing
<1>1. Init => StreamInv
  BY DEF Init, StreamInv
<1>2. StreamInv /\ [Next]_vars => StreamInv'
  <2> SUFFICES ASSUME StreamInv, [Next]_vars
               PROVE  StreamInv'
    OBVIOUS
  <2> USE DEF StreamInv
  <2>1. ASSUME NEW r \in BOOLEAN, NEW s \in BOOLEAN, NEW h \in Hint, NewTurn(r, h, s)
        PROVE  StreamInv'
    BY <2>1 DEF NewTurn, answer
  <2>2. CASE Receive \/ Classify \/ ReadHint \/ DefaultRoute
    <3>1. pc \in {"idle", "classify", "hint", "default"} /\ UNCHANGED answer
      BY <2>2 DEF Receive, Classify, ReadHint, DefaultRoute
    <3>2. pc' \in {"classify", "hint", "default", "dispatch"}
      <4>1. CASE Receive
        BY <4>1 DEF Receive, Go
      <4>2. CASE Classify
        BY <4>2 DEF Classify, Routed, Go
      <4>3. CASE ReadHint
        BY <4>3 DEF ReadHint, Routed, Go
      <4>4. CASE DefaultRoute
        BY <4>4 DEF DefaultRoute, Routed, Go
      <4>5. QED
        BY <2>2, <4>1, <4>2, <4>3, <4>4
    <3>3. QED
      BY <3>1, <3>2 DEF answer
  <2>3. CASE Forward \/ Forwarded \/ ReadTask \/ ReadRepo
    BY <2>3 DEF Forward, Forwarded, Upstream, ReadTask, ReadRepo, Go, answer
  <2>4. CASE NoPackArrives \/ BaselineCounted \/ BaselineFails
    BY <2>4 DEF NoPackArrives, BaselineCounted, BaselineFails, Go, answer
  <2>5. CASE \E files \in BOOLEAN : PackArrives(files)
    BY <2>5 DEF PackArrives, Go, answer
  <2>6. CASE \E c \in TaskCategories : MakeBody(c)
    BY <2>6 DEF MakeBody, Go, answer
  <2>7. CASE \E to \in 1..2 * Events : RelayChunk(to)
    BY <2>7 DEF RelayChunk
  <2>8. CASE StreamBreaks \/ StreamEnds
    BY <2>8 DEF StreamBreaks, StreamEnds, AfterBreak, Go, answer
  <2>9. CASE FeedbackRecorded \/ FeedbackEnds
    BY <2>9 DEF FeedbackRecorded, FeedbackEnds, Go, answer
  <2>10. CASE UNCHANGED vars
    BY <2>10 DEF vars, answer
  <2>11. QED
    BY <2>1, <2>2, <2>3, <2>4, <2>5, <2>6, <2>7, <2>8, <2>9, <2>10 DEF Next
<1>3. StreamInv => BrokenTeachesNothing
  BY DEF StreamInv, BrokenTeachesNothing
<1>4. QED
  BY <1>1, <1>2, <1>3, PTL DEF Spec

-----------------------------------------------------------------------------
(* Types *)

Inputs == settings \in Settings /\ client \in Request

LEMMA InputsStay == Inputs /\ [Next]_vars => Inputs'
BY DEF Inputs, Next, vars, request, NewTurn, Receive, Classify, ReadHint, DefaultRoute,
   Forward, Forwarded, ReadTask, ReadRepo, PackArrives, NoPackArrives, BaselineCounted,
   BaselineFails, MakeBody, RelayChunk, StreamBreaks, StreamEnds, FeedbackRecorded,
   FeedbackEnds

\* Every hint there is names a route.
LEMMA HintsAreHints ==
    ASSUME Inputs, TypeOK
    PROVE  settings.subagent \in Hint /\ HeaderHint \in Hint /\ state.hint \in Hint
BY ConstantsAssumption DEF Inputs, TypeOK, HeaderHint, Hint, State

\* What is read of the state file has the turn of the file.
LEMMA ReadsAreOfTurns ==
    ASSUME TypeOK
    PROVE  /\ TaskOf(state) \in 0..turn /\ RepoNow \in 0..turn \union {NoRepo}
           /\ ActiveNow \in 0..turn
BY DEF TypeOK, TaskOf, RepoNow, ActiveNow

Grounds == [by : {"request", "hint", "repo"}, turn : 0..turn]

\* Tools that are passed on are tools of the request.
LEMMA PrunedOffered ==
    ASSUME NEW tools, NEW categories, NEW max
    PROVE  PruneTools(tools, categories, max) \subseteq DOMAIN tools
BY DEF PruneTools, Capped

PCs == {"idle", "classify", "hint", "default", "dispatch", "anthropic", "vllm",
        "repo", "enrich", "count", "body", "stream", "feedback", "done"}

LEMMA TypeStep == Inputs /\ TypeOK /\ [Next]_vars => TypeOK'
<1> SUFFICES ASSUME Inputs, TypeOK, [Next]_vars PROVE TypeOK'
  OBVIOUS
<1>0. MaxTurns \in Nat /\ Events \in Nat
  BY ConstantsAssumption
<1>1. ASSUME NEW r \in BOOLEAN, NEW s \in BOOLEAN, NEW h \in Hint, NewTurn(r, h, s)
      PROVE  TypeOK'
  <2>1. turn' = turn + 1 /\ turn' \in 0..MaxTurns /\ 0..turn \subseteq 0..turn'
    BY <1>0, <1>1 DEF NewTurn, TypeOK
  <2>2. state' \in State /\ state'.turn = turn'
    BY <1>1, <2>1 DEF NewTurn, State
  <2>3. UNCHANGED <<client, pc, route, grounds, task, repo, active, pack, shown, body, relayed,
                    heard, broken, learned>>
    BY <1>1 DEF NewTurn, request, routing, decided, answer
  <2>4. NoRepo' = NoRepo
    BY DEF NoRepo
  <2>5. grounds' \in Grounds'
    BY <2>1, <2>3 DEF TypeOK, Grounds
  <2>6. QED
    BY <2>1, <2>2, <2>3, <2>4, <2>5 DEF TypeOK, Grounds
<1>2. ASSUME UNCHANGED <<client, state, turn, pack, shown, body, answer>>,
             pc' \in PCs, route' \in Hint, grounds' \in Grounds,
             task' \in 0..turn, repo' \in 0..turn \union {NoRepo}, active' \in 0..turn
      PROVE  TypeOK'
  BY <1>2 DEF TypeOK, answer, NoRepo, PCs, Grounds
<1>3. CASE Receive \/ Classify \/ ReadHint \/ DefaultRoute
  <2>1. UNCHANGED <<client, state, turn, pack, shown, body, answer, task, repo, active>>
    BY <1>3 DEF Receive, Classify, ReadHint, DefaultRoute, Routed, request, routing
  <2>2. pc' \in PCs /\ route' \in Hint /\ grounds' \in Grounds
    <3>1. grounds \in Grounds /\ 0 \in 0..turn /\ state.turn \in 0..turn
      BY <1>0 DEF TypeOK, Grounds
    <3>2. \A by \in {"request", "hint", "repo"}, t \in 0..turn : [by |-> by, turn |-> t] \in Grounds
      BY DEF Grounds
    <3>3. CASE Receive
      BY <3>1, <3>3 DEF Receive, Go, routing, decided, TypeOK, PCs
    <3>4. CASE Classify
      BY <3>1, <3>2, <3>4, HintsAreHints DEF Classify, Routed, Go, routing, decided, TypeOK, PCs, Hint
    <3>5. CASE ReadHint
      BY <3>1, <3>2, <3>5, HintsAreHints DEF ReadHint, Routed, Go, routing, decided, TypeOK, PCs
    <3>6. CASE DefaultRoute
      BY <3>1, <3>2, <3>6 DEF DefaultRoute, Routed, Go, Hint, PCs
    <3>7. QED
      BY <1>3, <3>3, <3>4, <3>5, <3>6
  <2>3. task' \in 0..turn /\ repo' \in 0..turn \union {NoRepo} /\ active' \in 0..turn
    BY <2>1 DEF TypeOK
  <2>4. QED
    BY <1>2, <2>1, <2>2, <2>3
<1>4. CASE Forward \/ Forwarded \/ ReadTask \/ ReadRepo
  <2>1. UNCHANGED <<client, state, turn, pack, shown, body, answer, route, grounds>>
    BY <1>4 DEF Forward, Forwarded, ReadTask, ReadRepo, request, routing, decided
  <2>2. pc' \in PCs
    BY <1>4 DEF Forward, Upstream, Forwarded, ReadTask, ReadRepo, Go, PCs
  <2>3. task' \in 0..turn /\ repo' \in 0..turn \union {NoRepo} /\ active' \in 0..turn
    BY <1>4, ReadsAreOfTurns DEF Forward, Forwarded, ReadTask, ReadRepo, routing, TypeOK
  <2>4. QED
    BY <1>2, <2>1, <2>2, <2>3 DEF TypeOK, Grounds
<1>5. CASE NoPackArrives \/ BaselineCounted \/ StreamEnds \/ FeedbackEnds
  <2>1. UNCHANGED <<client, state, turn, pack, shown, body, answer, routing>>
    BY <1>5 DEF NoPackArrives, BaselineCounted, StreamEnds, FeedbackEnds, request
  <2>2. pc' \in PCs
    BY <1>5 DEF NoPackArrives, BaselineCounted, StreamEnds, FeedbackEnds, Go, PCs
  <2>3. QED
    BY <1>2, <2>1, <2>2 DEF TypeOK, Grounds, routing, decided
<1>6. CASE BaselineFails \/ FeedbackRecorded \/ StreamBreaks
           \/ (\E files \in BOOLEAN : PackArrives(files))
  <2>1. UNCHANGED <<client, state, turn, shown, body, relayed, heard, routing>>
    BY <1>6 DEF BaselineFails, FeedbackRecorded, StreamBreaks, PackArrives, request, answer
  <2>2. pc' \in PCs
    BY <1>6 DEF BaselineFails, FeedbackRecorded, StreamBreaks, AfterBreak, PackArrives, Go, PCs, TypeOK
  <2>3. pack' \in [text : BOOLEAN, files : BOOLEAN] /\ learned' \in BOOLEAN /\ broken' \in BOOLEAN
    <3>1. CASE BaselineFails
      BY <3>1 DEF BaselineFails, TypeOK, answer
    <3>2. CASE FeedbackRecorded
      BY <3>2 DEF FeedbackRecorded, TypeOK
    <3>3. CASE \E files \in BOOLEAN : PackArrives(files)
      BY <3>3 DEF PackArrives, TypeOK, answer
    <3>4. CASE StreamBreaks
      BY <3>4 DEF StreamBreaks, TypeOK
    <3>5. QED
      BY <1>6, <3>1, <3>2, <3>3, <3>4
  <2>4. QED
    BY <2>1, <2>2, <2>3 DEF TypeOK, PCs, NoRepo, routing, decided
<1>7. ASSUME NEW c \in TaskCategories, MakeBody(c)
      PROVE  TypeOK'
  <2>1. UNCHANGED <<client, state, turn, relayed, heard, broken, learned, route, grounds, task,
                    repo, active, pack>>
    BY <1>7 DEF MakeBody, request, routing, decided, answer
  <2>2. body'.tools \subseteq DOMAIN client.tools
    BY <1>7, PrunedOffered DEF MakeBody
  <2>3. shown' \in BOOLEAN /\ pc' = "stream"
    BY <1>7 DEF MakeBody, Go, TypeOK
  <2>4. QED
    BY <2>1, <2>2, <2>3 DEF TypeOK, NoRepo
<1>8. ASSUME NEW to \in 1..2 * Events, RelayChunk(to)
      PROVE  TypeOK'
  <2>1. UNCHANGED <<client, state, turn, shown, body, broken, learned, route, grounds, task,
                    repo, active, pack, pc>>
    BY <1>8 DEF RelayChunk, request, routing, decided
  <2>2. relayed' = to /\ relayed < to /\ heard' = heard \union Whole(relayed, to)
    BY <1>8 DEF RelayChunk
  <2>3. relayed' \in 0..2 * Events
    BY <1>0, <2>2
  <2>4. \A e \in heard' : e \in 1..Events /\ 2 * e <= relayed'
    <3> SUFFICES ASSUME NEW e \in heard' PROVE e \in 1..Events /\ 2 * e <= relayed'
      OBVIOUS
    <3>1. CASE e \in heard
      <4>1. e \in 1..Events /\ 2 * e <= relayed /\ relayed \in Nat
        BY <1>0, <3>1 DEF TypeOK
      <4>2. QED
        BY <1>0, <2>2, <2>3, <4>1
    <3>2. CASE e \in Whole(relayed, to)
      BY <2>2, <3>2 DEF Whole
    <3>3. QED
      BY <2>2, <3>1, <3>2
  <2>5. QED
    BY <2>1, <2>3, <2>4 DEF TypeOK, NoRepo
<1>9. CASE UNCHANGED vars
  BY <1>9 DEF vars, request, routing, decided, answer, TypeOK, NoRepo
<1>10. QED
  BY <1>1, <1>3, <1>4, <1>5, <1>6, <1>7, <1>8, <1>9 DEF Next

LEMMA InputsInvariant == Spec => []Inputs
<1>1. Init => Inputs
  BY DEF Init, Inputs
<1>2. QED
  BY <1>1, InputsStay, PTL DEF Spec

\* Every variable keeps its type: the proxy takes the text of events only that
\* it has relayed whole, sends tools only that the client offered, and task and
\* repository are of a turn that was.
THEOREM TypeCorrect == Spec => []TypeOK
<1>1. Init => TypeOK
  <2> SUFFICES ASSUME Init PROVE TypeOK
    OBVIOUS
  <2>1. MaxTurns \in Nat /\ Events \in Nat
    BY ConstantsAssumption
  <2>2. state \in State /\ turn \in 0..MaxTurns /\ state.turn = turn
    <3>1. NoState \in State /\ NoState.turn = 0
      BY <2>1 DEF State, NoState, Hint
    <3>2. state = NoState /\ turn = 0
      BY DEF Init
    <3>3. QED
      BY <2>1, <3>1, <3>2
  <2>3. /\ task \in 0..turn /\ repo \in 0..turn \union {NoRepo} /\ active \in 0..turn
        /\ relayed \in 0..2 * Events
        /\ grounds \in Grounds
    <3>1. /\ turn = 0 /\ task = 0 /\ repo = NoRepo /\ active = 0 /\ relayed = 0
          /\ grounds = [by |-> "request", turn |-> 0]
      BY DEF Init
    <3>2. QED
      BY <2>1, <3>1 DEF Grounds
  <2>4. pack \in [text : BOOLEAN, files : BOOLEAN] /\ route \in Hint
    BY DEF Init, NoPack, Hint
  <2>5. body.tools \subseteq DOMAIN client.tools /\ heard = {}
    BY DEF Init
  <2>6. QED
    BY <2>2, <2>3, <2>4, <2>5 DEF Init, TypeOK, Grounds
<1>2. QED
  BY <1>1, TypeStep, InputsInvariant, PTL DEF Spec

-----------------------------------------------------------------------------
(* Route, task and repository *)

\* A request routed to be enriched because there was a repository has one, unless
\* a prompt came since.
StillThere == HeaderRepo \/ state.repo \/ grounds.turn < state.turn

\* What is taken from the file on the way to the gateway comes in the order of
\* turns, and its reasons last.
RoutingInv ==
    /\ pc \in {"repo", "enrich"} => route = "repo_task"
    /\ pc \in {"dispatch", "repo"} /\ grounds.by = "repo" /\ route = "repo_task" => StillThere
    /\ pc \in {"repo", "enrich"} /\ task # 0 => grounds.turn <= task
    /\ RouteAndRepoAgree

LEMMA RoutedOn ==
    ASSUME NEW r, NEW by, NEW t, Routed(r, by, t)
    PROVE  pc' = "dispatch" /\ grounds'.by = by
BY DEF Routed, Go

\* A route is decided for a reason.
LEMMA RoutedForReason ==
    ASSUME pc' = "dispatch", grounds'.by = "repo" /\ route' = "repo_task" => StillThere'
    PROVE  RoutingInv'
BY DEF RoutingInv, RouteAndRepoAgree

\* classify, extract_task_text, get_repo_context: however prompts fall between the
\* reads of the file, each read is no older than the one before, and the reason for
\* which a request is enriched holds unless a prompt took it away.
THEOREM RoutingAgrees == Spec => []RouteAndRepoAgree
<1>1. Init => RoutingInv
  BY DEF Init, RoutingInv, RouteAndRepoAgree
<1>2. TypeOK /\ RoutingInv /\ [Next]_vars => RoutingInv'
  <2> SUFFICES ASSUME TypeOK, RoutingInv, [Next]_vars
               PROVE  RoutingInv'
    OBVIOUS
  <2>1. /\ turn \in Nat /\ state.turn = turn /\ grounds.turn \in 0..turn
        /\ task \in 0..turn /\ MaxTurns \in Nat
    BY ConstantsAssumption DEF TypeOK
  <2>2. ASSUME NEW r \in BOOLEAN, NEW s \in BOOLEAN, NEW h \in Hint, NewTurn(r, h, s)
        PROVE  RoutingInv'
    <3>1. UNCHANGED <<pc, route, grounds, task, repo, active>>
      BY <2>2 DEF NewTurn, routing, decided
    <3>2. state'.turn = turn + 1
      BY <2>2 DEF NewTurn
    <3>3. grounds.turn < state'.turn
      BY <2>1, <3>2
    <3>4. StillThere'
      BY <3>1, <3>3 DEF StillThere
    <3>5. RouteAndRepoAgree'
      BY <3>1, <3>3 DEF RoutingInv, RouteAndRepoAgree, NoRepo
    <3>6. QED
      BY <3>1, <3>4, <3>5 DEF RoutingInv
  <2>3. CASE Receive
    BY <2>3 DEF Receive, Go, RoutingInv, RouteAndRepoAgree
  <2>4. CASE Classify
    <3>1. pc' = "hint" \/ (pc' = "dispatch" /\ grounds'.by = "request")
      BY <2>4, RoutedOn DEF Classify, Go
    <3>2. QED
      BY <3>1, RoutedForReason DEF RoutingInv, RouteAndRepoAgree
  <2>5. CASE ReadHint
    <3>1. pc' = "default" \/ (pc' = "dispatch" /\ grounds'.by = "hint")
      BY <2>5, RoutedOn DEF ReadHint, Go
    <3>2. QED
      BY <3>1, RoutedForReason DEF RoutingInv, RouteAndRepoAgree
  <2>6. CASE DefaultRoute
    <3>1. pc' = "dispatch" /\ (route' = "repo_task" => HeaderRepo \/ state.repo)
      BY <2>6 DEF DefaultRoute, Routed, Go
    <3>2. UNCHANGED <<client, state>>
      BY <2>6 DEF DefaultRoute, request
    <3>3. route' = "repo_task" => StillThere'
      BY <3>1, <3>2 DEF StillThere, HeaderRepo
    <3>4. QED
      BY <3>1, <3>3, RoutedForReason
  <2>7. CASE ReadTask
    <3>1. /\ pc = "dispatch" /\ route = "repo_task" /\ pc' = "repo"
          /\ UNCHANGED <<client, state, route, grounds>>
          /\ task' = TaskOf(state)
      BY <2>7 DEF ReadTask, Go, decided, request
    <3>2. task' # 0 => grounds.turn <= task'
      BY <2>1, <3>1 DEF TaskOf
    <3>3. grounds.by = "repo" => StillThere'
      BY <3>1 DEF RoutingInv, StillThere, HeaderRepo
    <3>4. QED
      BY <3>1, <3>2, <3>3 DEF RoutingInv, RouteAndRepoAgree
  <2>8. CASE ReadRepo
    <3>1. /\ pc = "repo" /\ pc' = "enrich" /\ route = "repo_task"
          /\ UNCHANGED <<client, state, route, grounds, task>>
          /\ repo' = RepoNow /\ active' = ActiveNow
      BY <2>8 DEF ReadRepo, Go, decided, request, RoutingInv
    <3>2. NoRepo' = NoRepo /\ NoRepo = MaxTurns + 1 /\ turn # NoRepo /\ 0 # NoRepo
      BY <2>1 DEF NoRepo, TypeOK
    <3>3. repo' \notin {0, NoRepo} => repo' = turn /\ grounds.turn <= turn /\ task <= turn
      BY <2>1, <3>1 DEF RepoNow
    <3>4. active' # 0 /\ repo' # NoRepo => active' = repo'
      BY <3>1 DEF RepoNow, ActiveNow
    <3>5. repo' = NoRepo => ~HeaderRepo /\ ~state.repo
      BY <2>1, <3>1, <3>2 DEF RepoNow
    <3>6. grounds.by = "repo" => StillThere
      BY <3>1 DEF RoutingInv
    <3>7. RouteAndRepoAgree'
      BY <3>1, <3>2, <3>3, <3>4, <3>5, <3>6 DEF RoutingInv, RouteAndRepoAgree, StillThere
    <3>8. QED
      BY <3>1, <3>7 DEF RoutingInv
  <2>9. CASE Forward \/ Forwarded \/ NoPackArrives \/ BaselineCounted \/ BaselineFails
             \/ StreamBreaks \/ StreamEnds \/ FeedbackRecorded \/ FeedbackEnds
             \/ (\E files \in BOOLEAN : PackArrives(files))
             \/ (\E c \in TaskCategories : MakeBody(c))
             \/ (\E to \in 1..2 * Events : RelayChunk(to))
    <3>1. pc' \notin {"dispatch", "repo", "enrich"}
      BY <2>9 DEF Forward, Upstream, Forwarded, NoPackArrives, BaselineCounted,
         BaselineFails, StreamBreaks, AfterBreak, StreamEnds, FeedbackRecorded,
         FeedbackEnds, PackArrives, MakeBody, RelayChunk, Go
    <3>2. QED
      BY <3>1 DEF RoutingInv, RouteAndRepoAgree
  <2>10. CASE UNCHANGED vars
    <3>1. UNCHANGED <<pc, route, grounds, task, repo, active, state, client>>
      BY <2>10 DEF vars, request, routing, decided
    <3>2. QED
      BY <3>1 DEF RoutingInv, RouteAndRepoAgree, StillThere, HeaderRepo, NoRepo
  <2>11. QED
    BY <2>2, <2>3, <2>4, <2>5, <2>6, <2>7, <2>8, <2>9, <2>10 DEF Next
<1>3. RoutingInv => RouteAndRepoAgree
  BY DEF RoutingInv
<1>4. QED
  BY <1>1, <1>2, <1>3, TypeCorrect, PTL DEF Spec

-----------------------------------------------------------------------------
(* Tools *)

\* A set of positions that is not empty has a first.
LEMMA First ==
    ASSUME NEW n \in Nat, NEW I \in SUBSET (1..n), I # {}
    PROVE  \E i \in I : \A j \in I : ~(j < i)
<1>1. I \subseteq Nat
  OBVIOUS
<1>2. PICK i \in I : \A j \in I : <<j, i>> \notin OpToRel(<, Nat)
  BY <1>1, NatLessThanWellFounded, WFMin
<1>3. QED
  BY <1>1, <1>2 DEF OpToRel

\* Whatever the cap, unless it is none, the tool that comes first stays.
LEMMA CapLeaves ==
    ASSUME NEW tools, NEW n \in Nat, NEW I \in SUBSET (1..n), I # {},
           NEW max \in Nat, max # 0
    PROVE  Capped(tools, I, max) # {}
<1> DEFINE K == {i \in I : Kept(tools[i])}
<1>1. \E i \in I : \A j \in I : ~Before(tools, j, i)
  <2>1. CASE K = {}
    BY <2>1, First DEF Before
  <2>2. CASE K # {}
    <3>1. K \in SUBSET (1..n)
      OBVIOUS
    <3>2. PICK i \in K : \A j \in K : ~(j < i)
      BY <2>2, <3>1, First
    <3>3. QED
      BY <3>2 DEF Before
  <2>3. QED
    BY <2>1, <2>2
<1>2. PICK i \in I : \A j \in I : ~Before(tools, j, i)
  BY <1>1
<1>3. {j \in I : Before(tools, j, i)} = {}
  BY <1>2
<1>4. Cardinality({j \in I : Before(tools, j, i)}) = 0
  BY <1>3, FS_EmptySet
<1>5. QED
  BY <1>4 DEF Capped

LEMMA TwoKept == Cardinality(AlwaysKeep) = 2
<1>1. IsFiniteSet({"Read"}) /\ Cardinality({"Read"}) = 1
  BY FS_Singleton
<1>2. Cardinality({"Read"} \union {"Bash"}) = Cardinality({"Read"}) + 1
  BY <1>1, FS_AddElement
<1>3. AlwaysKeep = {"Read"} \union {"Bash"}
  BY DEF AlwaysKeep
<1>4. QED
  BY <1>1, <1>2, <1>3

NamesDiffer(tools) == \A i, j \in DOMAIN tools : tools[i].name = tools[j].name => i = j

\* A cap that has room for AlwaysKeep cuts off none of it.
LEMMA CapKeeps ==
    ASSUME NEW tools, NEW n \in Nat, DOMAIN tools = 1..n, NamesDiffer(tools),
           NEW I \in SUBSET (1..n), NEW max \in Nat, max >= 2,
           NEW i \in I, Kept(tools[i])
    PROVE  i \in Capped(tools, I, max)
<1> DEFINE B == {j \in I : Before(tools, j, i)}
<1>1. \A j \in B : j \in 1..n /\ j # i /\ Kept(tools[j])
  BY DEF Before
<1>2. \A j \in 1..n : Kept(tools[j]) => tools[j].name \in {"Read", "Bash"}
  BY DEF Kept, TopName, AlwaysKeep, NoName
<1>3. \A j, k \in B : j = k
  <2> TAKE j, k \in B
  <2>1. /\ tools[j].name \in {"Read", "Bash"} /\ tools[k].name \in {"Read", "Bash"}
        /\ tools[i].name \in {"Read", "Bash"}
    BY <1>1, <1>2
  <2>2. tools[j].name # tools[i].name /\ tools[k].name # tools[i].name
    BY <1>1 DEF NamesDiffer
  <2>3. tools[j].name = tools[k].name
    BY <2>1, <2>2
  <2>4. QED
    BY <1>1, <2>3 DEF NamesDiffer
<1>4. Cardinality(B) \in {0, 1}
  <2>1. CASE B = {}
    BY <2>1, FS_EmptySet
  <2>2. CASE B # {}
    <3>1. PICK j \in B : TRUE
      BY <2>2
    <3>2. B = {j}
      BY <1>3, <3>1
    <3> HIDE DEF B
    <3>3. QED
      BY <3>2, FS_Singleton
  <2>3. QED
    BY <2>1, <2>2
<1>5. Cardinality(B) < max
  <2> HIDE DEF B
  <2>1. QED
    BY <1>4
<1>6. QED
  BY <1>5 DEF Capped

\* prune_tools leaves something if there was something, and AlwaysKeep if the cap
\* has room.
LEMMA PruneKeeps ==
    ASSUME NEW tools, NEW n \in Nat, DOMAIN tools = 1..n, NEW categories,
           NEW max \in Nat
    PROVE  /\ n # 0 /\ max # 0 => PruneTools(tools, categories, max) # {}
           /\ NamesDiffer(tools) /\ max >= 2 =>
                  \A i \in DOMAIN tools :
                      Kept(tools[i]) => i \in PruneTools(tools, categories, max)
<1> DEFINE I == {i \in DOMAIN tools : TopName(tools[i]) \in Allowed(categories)}
<1>1. I \in SUBSET (1..n)
  OBVIOUS
<1>2. PruneTools(tools, categories, max) =
          IF I = {} THEN DOMAIN tools ELSE Capped(tools, I, max)
  BY DEF PruneTools
<1>3. \A i \in DOMAIN tools : Kept(tools[i]) => i \in I
  BY DEF Kept, Allowed
<1> HIDE DEF I
<1>4. n # 0 => 1 \in 1..n
  OBVIOUS
<1>5. ASSUME n # 0, max # 0
      PROVE  PruneTools(tools, categories, max) # {}
  BY <1>1, <1>2, <1>4, <1>5, CapLeaves
<1>6. ASSUME NamesDiffer(tools), max >= 2, NEW i \in DOMAIN tools, Kept(tools[i])
      PROVE  i \in PruneTools(tools, categories, max)
  <2>1. i \in I /\ I # {}
    BY <1>3, <1>6
  <2>2. i \in Capped(tools, I, max)
    BY <1>1, <1>6, <2>1, CapKeeps
  <2>3. QED
    BY <1>2, <2>1, <2>2
<1>7. QED
  BY <1>5, <1>6

\* What happens to the tools at all: MakeBody, and until then none were sent.
LEMMA ToolsStep ==
    ASSUME [Next]_vars, ToolsSent'
    PROVE  \/ ToolsSent /\ UNCHANGED <<client, body>>
           \/ \E c \in TaskCategories : MakeBody(c)
<1>1. CASE \E c \in TaskCategories : MakeBody(c)
  BY <1>1
<1>2. CASE \E r \in BOOLEAN, s \in BOOLEAN, h \in Hint : NewTurn(r, h, s)
  BY <1>2 DEF NewTurn, request, ToolsSent
<1>3. CASE Receive \/ Classify \/ ReadHint \/ DefaultRoute
  <2>1. CASE Receive
    BY <2>1 DEF Receive, Go, ToolsSent
  <2>2. CASE Classify
    BY <2>2 DEF Classify, Routed, Go, ToolsSent
  <2>3. CASE ReadHint
    BY <2>3 DEF ReadHint, Routed, Go, ToolsSent
  <2>4. CASE DefaultRoute
    BY <2>4 DEF DefaultRoute, Routed, Go, ToolsSent
  <2>5. QED
    BY <1>3, <2>1, <2>2, <2>3, <2>4
<1>4. CASE Forward \/ Forwarded \/ ReadTask \/ ReadRepo \/ NoPackArrives \/ BaselineCounted
           \/ BaselineFails \/ (\E files \in BOOLEAN : PackArrives(files))
  BY <1>4 DEF Forward, Upstream, Forwarded, ReadTask, ReadRepo, NoPackArrives,
     BaselineCounted, BaselineFails, PackArrives, Go, ToolsSent
<1>5. CASE StreamBreaks \/ StreamEnds \/ FeedbackRecorded \/ FeedbackEnds
           \/ (\E to \in 1..2 * Events : RelayChunk(to))
  BY <1>5 DEF StreamBreaks, AfterBreak, StreamEnds, FeedbackRecorded, FeedbackEnds,
     RelayChunk, Go, ToolsSent, request
<1>6. CASE UNCHANGED vars
  BY <1>6 DEF vars, request, ToolsSent
<1>7. QED
  BY <1>1, <1>2, <1>3, <1>4, <1>5, <1>6 DEF Next

ToolNamesDiffer == \A q \in Request : NamesDiffer(q.tools)

\* _apply_pruner: for requests that name no tool twice, and a cap that is not
\* zero, the model is left with tools, Read and Bash among them if the cap has
\* room for both, whatever the task's keywords.
THEOREM ToolsReachModel ==
    ASSUME ToolNamesDiffer, MaxTools # 0
    PROVE  Spec => []ToolsUsable
<1>1. Init => ToolsUsable
  BY DEF Init, ToolsUsable, ToolsSent
<1>2. Inputs /\ ToolsUsable /\ [Next]_vars => ToolsUsable'
  <2> SUFFICES ASSUME Inputs, ToolsUsable, [Next]_vars, ToolsSent'
               PROVE  ToolsUsable'
    BY DEF ToolsUsable
  <2>1. CASE ToolsSent /\ UNCHANGED <<client, body>>
    BY <2>1 DEF ToolsUsable
  <2>2. ASSUME NEW c \in TaskCategories, MakeBody(c)
        PROVE  ToolsUsable'
    <3> DEFINE tools == client.tools
               n     == Len(client.tools)
               kept  == PruneTools(tools, c, MaxTools)
    <3>1. client' = client
      BY <2>2 DEF MakeBody, request
    <3>2. /\ tools \in Seq(Tool) /\ n \in Nat /\ DOMAIN tools = 1..n
          /\ NamesDiffer(tools) /\ MaxTools \in Nat
      BY ConstantsAssumption DEF Inputs, ToolNamesDiffer
    <3>3. body'.tools \in {DOMAIN tools, kept} /\ (tools = <<>> => body'.tools = DOMAIN tools)
      BY <2>2 DEF MakeBody
    <3>4. /\ n # 0 => kept # {}
          /\ MaxTools >= 2 => \A i \in DOMAIN tools : Kept(tools[i]) => i \in kept
      <4> HIDE DEF tools, n
      <4>1. QED
        BY <3>2, PruneKeeps
    <3>5. tools # <<>> => n # 0 /\ DOMAIN tools # {}
      <4>1. tools # <<>> => n # 0
        BY <3>2, EmptySeq
      <4> HIDE DEF tools, n
      <4>2. n # 0 => 1 \in 1..n
        BY <3>2
      <4>3. QED
        BY <3>2, <4>1, <4>2
    <3> HIDE DEF kept, tools
    <3>6. tools # <<>> => body'.tools # {}
      BY <3>3, <3>4, <3>5
    <3>7. MaxTools >= 2 => \A i \in DOMAIN tools : Kept(tools[i]) => i \in body'.tools
      BY <3>3, <3>4
    <3>8. MaxTools >= 2 =>
              AlwaysKeep \intersect TopNames(tools, DOMAIN tools) \subseteq TopNames(tools, body'.tools)
      BY <3>7 DEF TopNames, Kept
    <3>9. QED
      BY <3>1, <3>6, <3>8, TwoKept DEF ToolsUsable, tools
  <2>3. QED
    BY <2>1, <2>2, ToolsStep
<1>3. QED
  BY <1>1, <1>2, InputsInvariant, PTL DEF Spec

ChoiceOffered ==
    \A q \in Request : q.choice = NoName \/ \E i \in DOMAIN q.tools : q.tools[i].name = q.choice

\* _apply_pruner: if the client's tool choice names one of its tools, the choice
\* that is sent names a tool that is sent, pruned or not, in either form.
THEOREM ChoiceReachesTool ==
    ASSUME ChoiceOffered
    PROVE  Spec => []ChoiceNamesTool
<1>1. Init => ChoiceNamesTool
  BY DEF Init, ChoiceNamesTool, ToolsSent
<1>2. Inputs /\ ChoiceNamesTool /\ [Next]_vars => ChoiceNamesTool'
  <2> SUFFICES ASSUME Inputs, ChoiceNamesTool, [Next]_vars, ToolsSent', body'.choice # NoName
               PROVE  \E i \in body'.tools : client'.tools[i].name = body'.choice
    BY DEF ChoiceNamesTool
  <2>1. CASE ToolsSent /\ UNCHANGED <<client, body>>
    BY <2>1 DEF ChoiceNamesTool
  <2>2. ASSUME NEW c \in TaskCategories, MakeBody(c)
        PROVE  \E i \in body'.tools : client'.tools[i].name = body'.choice
    <3> DEFINE kept == PruneTools(client.tools, c, MaxTools)
    <3>1. client' = client
      BY <2>2 DEF MakeBody, request
    <3>2. CASE client.tools = <<>> \/ ~settings.pruner
      <4>1. body' = [tools |-> DOMAIN client.tools, choice |-> client.choice]
        BY <2>2, <3>2 DEF MakeBody
      <4>2. QED
        BY <3>1, <4>1 DEF Inputs, ChoiceOffered
    <3>3. CASE ~(client.tools = <<>> \/ ~settings.pruner)
      <4>1. body' = [tools |-> kept, choice |-> ChoiceAfter(kept)]
        BY <2>2, <3>3 DEF MakeBody
      <4> HIDE DEF kept
      <4>2. client.choice \in TopNames(client.tools, kept) /\ body'.choice = client.choice
        BY <4>1 DEF ChoiceAfter
      <4>3. PICK i \in kept : TopName(client.tools[i]) = client.choice
        BY <4>2 DEF TopNames
      <4>4. client.tools[i].name = client.choice
        BY <4>2, <4>3 DEF TopName
      <4>5. QED
        BY <3>1, <4>1, <4>2, <4>4
    <3>4. QED
      BY <3>2, <3>3
  <2>3. QED
    BY <2>1, <2>2, ToolsStep
<1>3. QED
  BY <1>1, <1>2, InputsInvariant, PTL DEF Spec
=============================================================================
