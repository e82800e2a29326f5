---------------------------- MODULE SessionDedup ----------------------------
(***************************************************************************)
(* Session deduplication: src/rlm/session.py, as the slice loop of         *)
(* context_pack.assemble drives it for POST /context, with the collection  *)
(* loop and DELETE /session of src/rlm/main.py.                            *)
(*                                                                         *)
(* assemble runs on the event loop without awaiting, so requests, resets   *)
(* and collections exclude each other; the developer (saves, deletions),   *)
(* the tool-read hook and time do not wait for it.  The loop is therefore  *)
(* cut between the exists() check, the stat of already_seen and the read   *)
(* of the slice.  Whether the answer reaches CCR the gateway never learns. *)
(*                                                                         *)
(* CCR is a stateless proxy: it puts a pack in front of the messages of    *)
(* one upstream call and the client never sees it.  What an agent's window *)
(* keeps from turn to turn is what its own tool calls read.                *)
(*                                                                         *)
(* Time is counted in ticks, Hour of them to an hour (the length of a      *)
(* session bucket and of SESSION_TTL_SECONDS).  A version of a file is its *)
(* mtime, taken from a counter of saves; 0 means absent.                   *)
(***************************************************************************)
EXTENDS Naturals, Functions

CONSTANTS
    Path,        \* repository paths a client may name
    Mount,       \* what workspace.mount resolves each of them to
    Agent, Main, \* context windows; Main is agent_key ""
    File, NoFile,
    Readers,     \* agents that read files with tools
    Hour,        \* ticks in an hour
    MaxTime,     \* bound on ticks
    MaxSaves     \* bound on saves

ASSUME ConstantsAssumption ==
    /\ Path # {}
    /\ Mount \in [Path -> Path] /\ \A p \in Path : Mount[Mount[p]] = Mount[p]
    /\ Main \in Agent
    /\ NoFile \notin File
    /\ Readers \subseteq Agent
    /\ Hour \in Nat \ {0}
    /\ MaxTime \in Nat /\ MaxSaves \in Nat

VARIABLES
    now, saves, mtime,
    sessions,     \* _sessions: session id -> file -> [mtime, ts]
    registered,   \* keys of _session_repos
    toolReads,    \* tool-reads.json
    window,       \* per agent, the files its own tools read as they are now
    pack,         \* per agent, the loop of assemble for its request
    built         \* history: recorded slices built or tried in this hour,
                  \* since a reset and since their file last changed; version
                  \* 0 where the request failed at it

files  == <<saves, mtime>>
tools  == <<toolReads, window>>
tables == <<sessions, registered>>
vars   == <<now, files, tools, tables, pack, built>>

\* _session_id: the hash stands for these three, and _session_repos recovers
\* the repository.
Sid == [repo : Path, agent : Agent, hour : 0..(MaxTime \div Hour)]

\* Mutant: all agents share the session of their repository.
SessionIdWithoutAgent(repo, a) ==
    [repo |-> repo, agent |-> Main, hour |-> now \div Hour]

SessionId(repo, a) == [repo |-> repo, agent |-> a, hour |-> now \div Hour]

NoPack == [pc |-> "idle", repo |-> CHOOSE p \in Path : TRUE, active |-> NoFile,
           todo |-> [f \in File |-> 0], cur |-> NoFile, sid |-> CHOOSE s \in Sid : TRUE,
           stat |-> 0, slices |-> {}, deduped |-> {}]

Init ==
    /\ now = 0 /\ saves = 0 /\ mtime \in [File -> {0}]
    /\ sessions = <<>>
    /\ registered = {}
    /\ toolReads = {}
    /\ window = [a \in Agent |-> {}]
    /\ pack = [a \in Agent |-> NoPack]
    /\ built = {}

live == DOMAIN sessions

-----------------------------------------------------------------------------
(* Developer, clock and tool-read hook *)

Tick ==
    /\ now < MaxTime
    /\ now' = now + 1
    /\ built' = {b \in built : b.sid.hour = now' \div Hour}
    /\ UNCHANGED <<files, tables, tools, pack>>

SaveFile(f) ==
    /\ saves < MaxSaves
    /\ saves' = saves + 1
    /\ mtime' = [mtime EXCEPT ![f] = saves + 1]
    /\ window' = [a \in Agent |-> window[a] \ {f}]
    /\ built' = {b \in built : b.file # f}
    /\ UNCHANGED <<now, tables, toolReads, pack>>

DeleteFile(f) ==
    /\ mtime[f] # 0
    /\ mtime' = [mtime EXCEPT ![f] = 0]
    /\ window' = [a \in Agent |-> window[a] \ {f}]
    /\ built' = {b \in built : b.file # f}
    /\ UNCHANGED <<now, saves, tables, toolReads, pack>>

\* The PostToolUse hook notes the file, not who read it.
ToolRead(a, f) ==
    /\ mtime[f] # 0
    /\ toolReads' = toolReads \union {f}
    /\ window' = [window EXCEPT ![a] = @ \union {f}]
    /\ UNCHANGED <<now, files, tables, pack, built>>

\* The prompt hook empties the note at the start of a turn.
NewTurn ==
    /\ toolReads # {}
    /\ toolReads' = {}
    /\ UNCHANGED <<now, files, tables, window, pack, built>>

-----------------------------------------------------------------------------
(* POST /context: the slice loop of assemble *)

NoneAssembling == \A a \in Agent : pack[a].pc = "idle"

\* How often the list W names each file: a ranking names it once, the fallback
\* (imports, then imported_by) perhaps twice, the active file never twice.
BeginRequest(a, p, W, active) ==
    /\ NoneAssembling
    /\ active \in File => W[active] < 2
    /\ pack' = [pack EXCEPT ![a] = [NoPack EXCEPT
           !.pc = "loop", !.repo = Mount[p], !.todo = W, !.active = active]]
    /\ UNCHANGED <<now, files, tables, tools, built>>

\* exists() fails: next file.
SkipAbsent(a, f) ==
    /\ pack[a].pc = "loop" /\ pack[a].todo[f] > 0
    /\ mtime[f] = 0
    /\ pack' = [pack EXCEPT ![a].todo[f] = @ - 1]
    /\ UNCHANGED <<now, files, tables, tools, built>>

\* The active file is read without asking the session.
TakeActive(a, f) ==
    /\ pack[a].pc = "loop" /\ pack[a].todo[f] > 0
    /\ mtime[f] # 0 /\ f = pack[a].active
    /\ pack' = [pack EXCEPT ![a].pc = "read", ![a].todo[f] = @ - 1,
                            ![a].cur = f, ![a].stat = 0]
    /\ UNCHANGED <<now, files, tables, tools, built>>

ToolSeen(a, f) == a = Main /\ f \in toolReads

\* already_seen, first source: the tool reads, for the main agent only.
DedupByTool(a, f) ==
    /\ pack[a].pc = "loop" /\ pack[a].todo[f] > 0
    /\ mtime[f] # 0 /\ f # pack[a].active
    /\ ToolSeen(a, f)
    /\ pack' = [pack EXCEPT ![a].todo[f] = @ - 1,
                            ![a].deduped = @ \union {<<f, "tool">>}]
    /\ UNCHANGED <<now, files, tables, tools, built>>

\* already_seen, second source: on to the session.
AskSession(a, f) ==
    /\ pack[a].pc = "loop" /\ pack[a].todo[f] > 0
    /\ mtime[f] # 0 /\ f # pack[a].active
    /\ ~ToolSeen(a, f)
    /\ pack' = [pack EXCEPT ![a].pc = "check", ![a].todo[f] = @ - 1, ![a].cur = f]
    /\ UNCHANGED <<now, files, tables, tools, built>>

\* _gc on the table ss: sessions with entries, all of them expired.
Expired(ss) ==
    {s \in DOMAIN ss : /\ DOMAIN ss[s] # {}
                       /\ \A f \in DOMAIN ss[s] : now - ss[s][f].ts > Hour}

\* d[k] = v
Put(d, k, v) == [x \in DOMAIN d \union {k} |-> IF x = k THEN v ELSE d[x]]

\* Mutant: sessions[sid] = {} in place of setdefault.
OpenedAnew(sid) == Put(sessions, sid, <<>>)

\* sessions.setdefault(sid, {})
Opened(sid) == IF sid \in live THEN sessions ELSE Put(sessions, sid, <<>>)

Recorded(a) ==
    LET seen == Opened(SessionId(pack[a].repo, a))[SessionId(pack[a].repo, a)] IN
    pack[a].cur \in DOMAIN seen /\ seen[pack[a].cur].mtime = mtime[pack[a].cur]

\* stat fails: the file is neither recorded nor held back.
CheckGone(a) ==
    LET sid == SessionId(pack[a].repo, a) IN
    /\ pack[a].pc = "check"
    /\ mtime[pack[a].cur] = 0
    /\ registered' = registered \union {sid}
    /\ sessions' = Opened(sid)
    /\ pack' = [pack EXCEPT ![a].pc = "read", ![a].stat = 0]
    /\ UNCHANGED <<now, files, tools, built>>

\* Recorded with the present mtime: already seen.
DedupBySession(a) ==
    LET sid == SessionId(pack[a].repo, a) IN
    /\ pack[a].pc = "check"
    /\ mtime[pack[a].cur] # 0 /\ Recorded(a)
    /\ registered' = registered \union {sid}
    /\ pack' = [pack EXCEPT ![a].pc = "loop",
                            ![a].deduped = @ \union {<<pack[a].cur, "session">>}]
    /\ UNCHANGED <<now, files, sessions, tools, built>>

\* Mutant: a file gone by the stat is recorded too.
RecordAbsent(a) ==
    LET sid == SessionId(pack[a].repo, a)
        new == Put(Opened(sid)[sid], pack[a].cur,
                   [mtime |-> mtime[pack[a].cur], ts |-> now])
        ss  == Put(sessions, sid, new)
    IN
    /\ pack[a].pc = "check" /\ ~Recorded(a)
    /\ sessions' = Restrict(ss, DOMAIN ss \ Expired(ss))
    /\ registered' = (registered \union {sid}) \ Expired(ss)
    /\ pack' = [pack EXCEPT ![a].pc = "read", ![a].sid = sid]
    /\ UNCHANGED <<now, files, tools, built>>

\* New or changed: recorded before it is read, then _gc.
RecordNew(a) ==
    LET sid == SessionId(pack[a].repo, a)
        f   == pack[a].cur
        new == Put(Opened(sid)[sid], f, [mtime |-> mtime[f], ts |-> now])
        ss  == Put(sessions, sid, new)
    IN
    /\ pack[a].pc = "check"
    /\ mtime[f] # 0 /\ ~Recorded(a)
    /\ sessions' = Restrict(ss, DOMAIN ss \ Expired(ss))
    /\ registered' = (registered \union {sid}) \ Expired(ss)
    /\ pack' = [pack EXCEPT ![a].pc = "read", ![a].sid = sid, ![a].stat = mtime[f]]
    /\ UNCHANGED <<now, files, tools, built>>

\* The slice of the file under way, read at version v.
SliceOf(a, v) == [file |-> pack[a].cur, sid |-> pack[a].sid,
                  stat |-> pack[a].stat, version |-> v]

\* _extract_symbol_slice reads the file.
ReadSlice(a) ==
    /\ pack[a].pc = "read"
    /\ mtime[pack[a].cur] # 0
    /\ pack' = [pack EXCEPT ![a].pc = "loop",
           ![a].slices = @ \union {SliceOf(a, mtime[pack[a].cur])}]
    /\ UNCHANGED <<now, files, tables, tools, built>>

\* The pack of a is done with; those of S that were recorded enter the history.
Ended(a, S) ==
    /\ pack' = [pack EXCEPT ![a] = NoPack]
    /\ built' = built \union {s \in S : s.stat # 0}

\* The file is gone, cannot be read or holds text the tokenizer refuses: the
\* exception fails the whole request, and the record made before stays.
ReadFails(a) ==
    /\ pack[a].pc = "read"
    /\ Ended(a, pack[a].slices \union {SliceOf(a, 0)})
    /\ UNCHANGED <<now, files, tables, tools>>

\* The loop ends (files done or budget spent) and the answer is sent.
Reply(a) ==
    /\ pack[a].pc = "loop"
    /\ Ended(a, pack[a].slices)
    /\ UNCHANGED <<now, files, tables, tools>>

-----------------------------------------------------------------------------
(* Event loop between requests *)

\* Mutant: expired sessions leave _sessions only.
GcLoopForgetsRegistry ==
    /\ NoneAssembling
    /\ sessions' = Restrict(sessions, live \ Expired(sessions))
    /\ UNCHANGED <<now, files, registered, tools, pack, built>>

\* Mutant: expired sessions leave _session_repos only.
GcLoopForgetsSessions ==
    /\ NoneAssembling
    /\ registered' = registered \ Expired(sessions)
    /\ UNCHANGED <<now, files, sessions, tools, pack, built>>

\* _session_gc_loop
GcLoop ==
    /\ NoneAssembling
    /\ sessions' = Restrict(sessions, live \ Expired(sessions))
    /\ registered' = registered \ Expired(sessions)
    /\ UNCHANGED <<now, files, tools, pack, built>>

\* _sids_for_repo
SidsForRepo(p) == {s \in registered \intersect live : s.repo = p}

\* DELETE /session?repo_path=p: invalidate takes the path as the client wrote
\* it; the client means the repository it names.
Reset(p) ==
    /\ NoneAssembling
    /\ sessions' = [s \in live |-> IF s \in SidsForRepo(p) THEN <<>>
                                                           ELSE sessions[s]]
    /\ built' = {b \in built : b.sid.repo # Mount[p]}
    /\ UNCHANGED <<now, files, registered, tools, pack>>

\* DELETE /session: clear_all
ResetAll ==
    /\ NoneAssembling
    /\ sessions' = <<>> /\ registered' = {} /\ built' = {}
    /\ UNCHANGED <<now, files, tools, pack>>

\* The process ends at any point and starts again with no sessions.
Restart ==
    /\ sessions' = <<>> /\ registered' = {} /\ built' = {}
    /\ pack' = [a \in Agent |-> NoPack]
    /\ UNCHANGED <<now, files, tools>>

SliceLoop(a) ==
    \/ \E f \in File : \/ SkipAbsent(a, f) \/ TakeActive(a, f)
                       \/ DedupByTool(a, f) \/ AskSession(a, f)
    \/ CheckGone(a) \/ DedupBySession(a) \/ RecordNew(a)
    \/ ReadSlice(a) \/ ReadFails(a) \/ Reply(a)

Next ==
    \/ Tick
    \/ \E f \in File : SaveFile(f) \/ DeleteFile(f)
    \/ \E a \in Readers, f \in File : ToolRead(a, f)
    \/ NewTurn
    \/ \E a \in Agent, p \in Path, W \in [File -> 0..2], f \in File \union {NoFile} :
           BeginRequest(a, p, W, f)
    \/ \E a \in Agent : SliceLoop(a)
    \/ GcLoop
    \/ \E p \in Path : Reset(p)
    \/ ResetAll
    \/ Restart

Spec == Init /\ [][Next]_vars

\* The collection loop wakes every five minutes for as long as the process
\* runs and the event loop gives it its turn between requests, however many
\* there are; a request that has begun comes to its end.
FairSpec == Spec /\ SF_vars(GcLoop) /\ \A a \in Agent : WF_vars(SliceLoop(a))

-----------------------------------------------------------------------------
(* Properties *)

Slice == [file : File, sid : Sid, stat : 0..saves, version : 0..saves]

\* Types; no recorded mtime is newer than the last save, no stamp is ahead of
\* the clock, and an entry is stamped in the hour its session id names.
TypeOK ==
    /\ now \in 0..MaxTime /\ saves \in 0..MaxSaves
    /\ mtime \in [File -> 0..saves]
    /\ \A s \in live : /\ s \in Sid /\ DOMAIN sessions[s] \subseteq File
                       /\ \A f \in DOMAIN sessions[s] :
                              /\ sessions[s][f] \in [mtime : 1..saves, ts : 0..now]
                              /\ sessions[s][f].ts \div Hour = s.hour
    /\ registered \subseteq Sid
    /\ toolReads \subseteq File
    /\ window \in [Agent -> SUBSET File]
    /\ pack \in [Agent ->
           [pc : {"idle", "loop", "check", "read"}, repo : Path,
            active : File \union {NoFile}, todo : [File -> 0..2],
            cur : File \union {NoFile}, sid : Sid, stat : 0..saves,
            slices : SUBSET Slice, deduped : SUBSET (File \X {"tool", "session"})]]
    /\ built \subseteq Slice

\* The two tables hold the same sessions: invalidate and stats reach a session
\* only through _session_repos, and a key left there alone would never go.
RegistryMatchesSessions == registered = live

\* In this step the session answers that agent a has seen f.
AnswersSeen(a, f) ==
    <<f, "session">> \in pack'[a].deduped /\ <<f, "session">> \notin pack[a].deduped

\* The recorded slices of f that requests of agent a, the one under way among
\* them, built or failed at since the last reset and restart, for the
\* repository of its request and in the present hour.
Carried(a, f) ==
    {b \in built \union {s \in pack[a].slices : s.stat # 0} :
        /\ b.sid = [repo |-> pack[a].repo, agent |-> a, hour |-> now \div Hour]
        /\ b.file = f}

\* A file is held back only if a request of the same agent, for the same
\* repository, in the same hour and since the last reset and restart read its
\* present version into a pack, or failed while reading it: never on another
\* agent's account, never for an older text.  After the failure no pack has
\* the file, and the hour's next requests hold it back all the same.
DedupedWasTried ==
    [][\A a \in Agent, f \in File : AnswersSeen(a, f) =>
           \E b \in Carried(a, f) :
               \/ b.version = mtime[f]
               \/ b.version = 0 /\ b.stat = mtime[f]]_vars

\* A file recorded for an agent and unchanged since is not read for a pack again
\* within the hour: collection never forgets a session still in use.
UnchangedBuiltOncePerHour ==
    [][\A a \in Agent :
           pack[a].pc = "check" /\ pack'[a].pc = "read" /\ pack'[a].stat # 0 =>
               \A b \in Carried(a, pack[a].cur) :
                   b.stat # mtime[pack[a].cur]]_vars

\* Sessions whose entries have all expired do not stay: again and again there
\* is none left, however many requests keep the event loop busy.
ExpiredSessionsCollected == []<>(Expired(sessions) = {})

-----------------------------------------------------------------------------
(* What the source says and the code does not do *)

\* "Return True if this file is already in Claude's context and hasn't
\* changed": a file the session holds back is in the agent's window in its
\* present version, or in the pack being built.
DedupedIsInContext ==
    [][\A a \in Agent, f \in File : AnswersSeen(a, f) =>
           \/ f \in window[a]
           \/ \E s \in pack[a].slices : s.file = f /\ s.version = mtime[f]]_vars
=============================================================================
