---------------------------- MODULE CodexBridge ----------------------------
(***************************************************************************)
(* The bridge to the local Codex app-server (src/codex/).  Client calls    *)
(* (start_session, send_message, stop_session) run concurrently and share  *)
(* one BridgeState behind a tokio mutex; every await of a reply, and every *)
(* gap between two acquisitions of that mutex, is a point where the others *)
(* move.  Each server process the bridge spawns (a generation) has a       *)
(* reader task, which applies what the server prints, and a monitor task,  *)
(* which cleans up when the process is gone.                               *)
(*                                                                         *)
(* One action is one critical section of the state mutex, together with    *)
(* the code up to the next await.  A server's output is consumed in the    *)
(* step that produces it: what a dead server left in its pipe is still     *)
(* read, because the reader of a dead generation keeps going until its     *)
(* end-of-file step.                                                       *)
(*                                                                         *)
(* A session and its thread are 1-1 (the server's thread ids are unique),  *)
(* so both are named by the thread's number.  Data no control depends on   *)
(* (turn_status, response, events, error, timestamps) is left out.         *)
(***************************************************************************)
EXTENDS Naturals, FiniteSets

CONSTANTS
    Clients,        \* concurrent MCP tool calls
    MaxSessions,    \* CTM_CODEX_MAX_SESSIONS
    MaxGen,         \* bound: server processes that can be spawned
    MaxThreads,     \* bound: threads the servers create
    MaxTurns,       \* bound: turns of one thread
    MaxCalls,       \* bound: client calls begun
    PipeFills,      \* whether a write to the server's stdin may block
    Nobody          \* not a client

ASSUME BridgeAssumption ==
    /\ IsFiniteSet(Clients)
    /\ MaxSessions \in Nat \ {0}
    /\ MaxGen \in Nat
    /\ MaxThreads \in Nat
    /\ MaxTurns \in Nat
    /\ MaxCalls \in Nat
    /\ PipeFills \in BOOLEAN
    /\ Nobody \notin Clients /\ (Clients \cup {Nobody}) \cap (1 .. MaxGen) = {}

VARIABLES
    \* BridgeState, and the task that keeps its mutex across a blocked write
    stdin, killTx, nextId, pending, status, active, holder,
    \* the app-servers, their readers and their monitors
    server, reading, asked, made, home, turns, running,
    \* the client calls
    op, pc, req, answer, calls,
    \* history: sessions whose id a caller was given, sessions that left Stopped, turns that
    \* were over already when they were made active, and the servers spawned by the time
    \* close() last started the request ids again
    known, revived, overtaken, outdated

handles  == <<stdin, killTx>>
sessions == <<status, active, revived>>
codex    == <<server, reading>>
history  == <<overtaken, outdated>>
world    == <<made, home, turns, running, history>>
client   == <<op, pc, req, answer>>
vars == <<stdin, killTx, nextId, pending, status, active, holder, server, reading, asked,
          made, home, turns, running, op, pc, req, answer, calls, known, revived,
          overtaken, outdated>>

Gens    == 1 .. MaxGen
Threads == 1 .. MaxThreads

Statuses == {"starting", "running", "idle", "stopped", "failed"}
Ops      == {"none", "start", "send", "stop"}
Kinds    == {"none", "initialize", "thread/start", "turn/start", "turn/steer", "turn/interrupt"}
PCs      == {"idle", "ensure", "request", "write", "wait", "expired", "close",
             "set_idle", "fail", "stop"}

\* A JSON-RPC request: the generation it was written to, its id and method, and the
\* thread and (expected) turn among its parameters.
Requests == [gen : Nat, id : Nat, kind : Kinds, thread : Nat, turn : Nat]
NoReq    == [gen |-> 0, id |-> 0, kind |-> "none", thread |-> 0, turn |-> 0]
Ask(kind, t, n) == [NoReq EXCEPT !.kind = kind, !.thread = t, !.turn = n]

\* What the receiving end of a request's oneshot channel holds.
Answers  == [tag : {"none", "ok", "err"}, of : Requests, val : Nat]
NoAnswer == [tag |-> "none", of |-> NoReq, val |-> 0]
ErrAnswer == [NoAnswer EXCEPT !.tag = "err"]
OkAnswer(r, v) == [tag |-> "ok", of |-> r, val |-> v]

Init ==
    /\ stdin = 0 /\ killTx = 0 /\ nextId = 1 /\ pending = {} /\ holder = Nobody
    /\ status = [t \in Threads |-> "none"]
    /\ active = [t \in Threads |-> 0]
    /\ server = [g \in Gens |-> "none"]
    /\ reading = [g \in Gens |-> FALSE]
    /\ asked = {} /\ made = 0
    /\ home = [t \in Threads |-> 0]
    /\ turns = [t \in Threads |-> 0]
    /\ running = [t \in Threads |-> FALSE]
    /\ op = [c \in Clients |-> "none"]
    /\ pc = [c \in Clients |-> "idle"]
    /\ req = [c \in Clients |-> NoReq]
    /\ answer = [c \in Clients |-> NoAnswer]
    /\ calls = 0 /\ known = {} /\ revived = {} /\ overtaken = {} /\ outdated = {}

-----------------------------------------------------------------------------
\* Helpers

LockFree == holder = Nobody

Waiting(c) == pc[c] = "wait" /\ answer[c].tag = "none"

\* The sessions the limit counts: every one that is not Stopped, the Failed ones too.
Counted == {t \in Threads : status[t] \notin {"none", "stopped"}}

EndCall(c) ==
    /\ op' = [op EXCEPT ![c] = "none"]
    /\ pc' = [pc EXCEPT ![c] = "idle"]
    /\ req' = [req EXCEPT ![c] = NoReq]
    /\ answer' = [answer EXCEPT ![c] = NoAnswer]

Goto(c, l) == pc' = [pc EXCEPT ![c] = l]

\* Where a call goes on when its request returns Err: close() for a failed
\* initialize, mark_session_failed for a turn, the end of the call for thread/start
\* (which the caller takes from "fail", too), and on with the stop for an interrupt,
\* whose result is ignored.
AfterError(kind) ==
    CASE kind = "initialize"     -> "close"
      [] kind = "turn/interrupt" -> "stop"
      [] OTHER                   -> "fail"

\* close() and the monitor take the server's stdin and kill sender away together.
DropStdinOnly == stdin' = 0 /\ UNCHANGED killTx
DropHandles == stdin' = 0 /\ killTx' = 0

\* Dropping or draining the senders in `gone` wakes their receivers with an error.
RejectingNobody(gone) == answer
Rejecting(gone) ==
    [c \in Clients |-> IF Waiting(c) /\ [id |-> req[c].id, owner |-> c] \in gone
                       THEN ErrAnswer ELSE answer[c]]

RejectPending ==
    /\ pending' = {}
    /\ answer' = Rejecting(pending)

\* mark_sessions_failed: every session of the bridge but the stopped ones.
MarkNoSessions == UNCHANGED sessions
MarkSessionsFailedKeepingTurns ==
    /\ status' = [t \in Threads |-> IF t \in Counted THEN "failed" ELSE status[t]]
    /\ UNCHANGED <<active, revived>>
MarkSessionsFailed ==
    /\ status' = [t \in Threads |-> IF t \in Counted THEN "failed" ELSE status[t]]
    /\ active' = [t \in Threads |-> IF t \in Counted THEN 0 ELSE active[t]]
    /\ UNCHANGED revived

\* Setting a session's status from a call that had awaited: nothing looks at what the
\* status is by then.
Overwrite(t, s, n) ==
    /\ status' = [status EXCEPT ![t] = s]
    /\ active' = [active EXCEPT ![t] = n]
    /\ revived' = IF status[t] = "stopped" /\ s # "stopped" THEN revived \cup {t} ELSE revived

-----------------------------------------------------------------------------
\* The client calls

NoSessionStartLock == TRUE
SessionStartFree == \A c \in Clients : op[c] # "start"

UnderLimit == Cardinality(Counted) < MaxSessions

\* start_session up to the limit check, under session_start_lock (kept to the end of
\* the call).  A start over the limit returns its error and changes nothing.
StartSession(c) ==
    /\ pc[c] = "idle" /\ calls < MaxCalls
    /\ LockFree /\ SessionStartFree /\ UnderLimit
    /\ calls' = calls + 1
    /\ op' = [op EXCEPT ![c] = "start"]
    /\ Goto(c, "ensure")
    /\ UNCHANGED <<handles, nextId, pending, sessions, holder, codex, asked, world, req,
                   answer, known>>

\* ensure_server: a server whose stdin the bridge still holds is taken as running.
\* start_lock is only ever taken inside session_start_lock, which excludes other starts.
ServerPresent(c) ==
    /\ pc[c] = "ensure" /\ LockFree /\ stdin # 0
    /\ req' = [req EXCEPT ![c] = Ask("thread/start", 0, 0)]
    /\ Goto(c, "request")
    /\ UNCHANGED <<handles, nextId, pending, sessions, holder, codex, asked, world, op,
                   answer, calls, known>>

SpawnServer(c) ==
    /\ pc[c] = "ensure" /\ LockFree /\ stdin = 0
    /\ \E g \in Gens :
         /\ server[g] = "none" /\ \A h \in 1 .. (g - 1) : server[h] # "none"
         /\ server' = [server EXCEPT ![g] = "alive"]
         /\ reading' = [reading EXCEPT ![g] = TRUE]
         /\ stdin' = g /\ killTx' = g
    /\ req' = [req EXCEPT ![c] = Ask("initialize", 0, 0)]
    /\ Goto(c, "request")
    /\ UNCHANGED <<nextId, pending, sessions, holder, asked, world, op, answer, calls, known>>

SpawnFails(c) ==
    /\ pc[c] = "ensure" /\ LockFree /\ stdin = 0
    /\ EndCall(c)
    /\ UNCHANGED <<handles, nextId, pending, sessions, holder, codex, asked, world, calls,
                   known>>

\* send_message up to its first release of the mutex: the session is set Running, and
\* an active turn decides between turn/steer and turn/start.
SendMessage(c, t) ==
    /\ pc[c] = "idle" /\ calls < MaxCalls /\ LockFree
    /\ t \in known /\ status[t] \notin {"none", "stopped"}
    /\ calls' = calls + 1
    /\ op' = [op EXCEPT ![c] = "send"]
    /\ status' = [status EXCEPT ![t] = "running"]
    /\ req' = [req EXCEPT ![c] = IF active[t] # 0 THEN Ask("turn/steer", t, active[t])
                                 ELSE Ask("turn/start", t, 0)]
    /\ Goto(c, "request")
    /\ UNCHANGED <<handles, nextId, pending, active, revived, holder, codex, asked, world,
                   answer, known>>

\* stop_session up to its first release of the mutex: only a turn that is active by
\* then is interrupted.
StopSession(c, t) ==
    /\ pc[c] = "idle" /\ calls < MaxCalls /\ LockFree
    /\ t \in known /\ status[t] # "none"
    /\ calls' = calls + 1
    /\ op' = [op EXCEPT ![c] = "stop"]
    /\ req' = [req EXCEPT ![c] = Ask("turn/interrupt", t, active[t])]
    /\ Goto(c, IF active[t] # 0 THEN "request" ELSE "stop")
    /\ UNCHANGED <<handles, nextId, pending, sessions, holder, codex, asked, world, answer,
                   known>>

\* request(): the id is taken and the sender registered under the mutex, and the line is
\* written under it too.
IssueWithSameId(c, r) ==
    /\ req' = [req EXCEPT ![c] = r]
    /\ UNCHANGED <<nextId, handles, sessions, codex, world, op, answer, calls, known>>

Issue(c, r) ==
    /\ nextId' = nextId + 1
    /\ req' = [req EXCEPT ![c] = r]
    /\ UNCHANGED <<handles, sessions, codex, world, op, answer, calls, known>>

Register(c) == pending' = pending \cup {[id |-> nextId, owner |-> c]}

Numbered(c) == [req[c] EXCEPT !.id = nextId, !.gen = stdin]

\* No server: the error returns early and the registered sender stays behind.
RequestNoServer(c) ==
    /\ pc[c] = "request" /\ LockFree /\ stdin = 0
    /\ Issue(c, Numbered(c)) /\ Register(c)
    /\ Goto(c, AfterError(req[c].kind))
    /\ UNCHANGED <<holder, asked>>

RequestWritten(c) ==
    /\ pc[c] = "request" /\ LockFree /\ stdin # 0 /\ server[stdin] = "alive"
    /\ Issue(c, Numbered(c)) /\ Register(c)
    /\ asked' = asked \cup {Numbered(c)}
    /\ Goto(c, "wait")
    /\ UNCHANGED holder

RequestWriteFails(c) ==
    /\ pc[c] = "request" /\ LockFree /\ stdin # 0 /\ server[stdin] # "alive"
    /\ Issue(c, Numbered(c))
    /\ Goto(c, AfterError(req[c].kind))
    /\ UNCHANGED <<pending, holder, asked>>

\* The pipe is full: write_all waits for the server to read, with the mutex held.  A
\* prompt (32000 bytes before JSON escapes) can fill the pipe; what is written behind an
\* unread prompt finds it full.
Prompts == {"turn/start", "turn/steer"}
PipeMayBeFull(kind) ==
    PipeFills /\ (kind \in Prompts \/ \E r \in asked : r.gen = stdin /\ r.kind \in Prompts)

RequestBlocks(c) ==
    /\ PipeMayBeFull(req[c].kind)
    /\ pc[c] = "request" /\ LockFree /\ stdin # 0 /\ server[stdin] = "alive"
    /\ Issue(c, Numbered(c)) /\ Register(c)
    /\ holder' = c
    /\ Goto(c, "write")
    /\ UNCHANGED asked

WriteCompletes(c) ==
    /\ pc[c] = "write" /\ server[stdin] = "alive"
    /\ asked' = asked \cup {req[c]}
    /\ holder' = Nobody
    /\ Goto(c, "wait")
    /\ UNCHANGED <<handles, nextId, pending, sessions, codex, world, op, req, answer, calls,
                   known>>

WriteBreaks(c) ==
    /\ pc[c] = "write" /\ server[stdin] # "alive"
    /\ pending' = {p \in pending : p.id # req[c].id}
    /\ holder' = Nobody
    /\ Goto(c, AfterError(req[c].kind))
    /\ UNCHANGED <<handles, nextId, sessions, codex, asked, world, op, req, answer, calls,
                   known>>

\* thread_id() found no session: close() dropped it after the call had looked it up.
SessionGone(c) ==
    /\ pc[c] = "request" /\ LockFree
    /\ req[c].kind \in {"turn/start", "turn/steer"} /\ status[req[c].thread] = "none"
    /\ Goto(c, "fail")
    /\ UNCHANGED <<handles, nextId, pending, sessions, holder, codex, asked, world, op, req,
                   answer, calls, known>>

\* timeout() elapses; only then does the call ask for the mutex to drop its sender.
RequestNeverTimesOut(c) == FALSE /\ UNCHANGED vars

RequestTimesOut(c) ==
    /\ Waiting(c)
    /\ Goto(c, "expired")
    /\ UNCHANGED <<handles, nextId, pending, sessions, holder, codex, asked, world, op, req,
                   answer, calls, known>>

RemoveExpired(c) ==
    /\ pc[c] = "expired" /\ LockFree
    /\ pending' = {p \in pending : p.id # req[c].id}
    /\ answer' = Rejecting({p \in pending : p.id = req[c].id})
    /\ Goto(c, AfterError(req[c].kind))
    /\ UNCHANGED <<handles, nextId, sessions, holder, codex, asked, world, op, req, calls, known>>

Answered(c, kind) ==
    /\ pc[c] = "wait" /\ answer[c].tag = "ok" /\ req[c].kind = kind
    /\ kind \in {"thread/start", "turn/start"} => answer[c].of.kind = kind

\* The request returned Err, or a result without the thread or turn it had to carry.
RequestFails(c) ==
    /\ pc[c] = "wait"
    /\ \/ answer[c].tag = "err"
       \/ /\ answer[c].tag = "ok" /\ req[c].kind \in {"thread/start", "turn/start"}
          /\ answer[c].of.kind # req[c].kind
    /\ answer' = [answer EXCEPT ![c] = NoAnswer]
    /\ Goto(c, AfterError(req[c].kind))
    /\ UNCHANGED <<handles, nextId, pending, sessions, holder, codex, asked, world, op, req,
                   calls, known>>

\* The initialize request succeeded: notify("initialized"), which fails without a stdin
\* or on a broken pipe; the error ends the call and leaves the server as it is.
Initialized(c) ==
    /\ Answered(c, "initialize") /\ LockFree
    /\ IF stdin # 0 /\ server[stdin] = "alive"
       THEN /\ req' = [req EXCEPT ![c] = Ask("thread/start", 0, 0)]
            /\ answer' = [answer EXCEPT ![c] = NoAnswer]
            /\ Goto(c, "request")
            /\ UNCHANGED op
       ELSE EndCall(c)
    /\ UNCHANGED <<handles, nextId, pending, sessions, holder, codex, asked, world, calls,
                   known>>

\* close(), after a failed initialize: the whole state is replaced by a new one, the
\* old pending requests are rejected and the server is killed.
Close(c) ==
    /\ pc[c] = "close" /\ LockFree
    /\ DropHandles
    /\ nextId' = 1
    /\ pending' = {}
    /\ status' = [t \in Threads |-> "none"]
    /\ active' = [t \in Threads |-> 0]
    /\ answer' = Rejecting(pending)
    /\ op' = [op EXCEPT ![c] = "none"]
    /\ pc' = [pc EXCEPT ![c] = "idle"]
    /\ req' = [req EXCEPT ![c] = NoReq]
    /\ outdated' = {g \in Gens : server[g] # "none"}
    /\ UNCHANGED <<revived, holder, codex, asked, made, home, turns, running, overtaken, calls,
                   known>>

\* thread/start succeeded: the session is inserted, and the call goes on with the
\* prompt, if there is one.
InsertSession(c) ==
    /\ Answered(c, "thread/start") /\ LockFree
    /\ LET t == answer[c].val IN
         /\ Overwrite(t, "starting", 0)
         /\ \/ /\ req' = [req EXCEPT ![c] = Ask("turn/start", t, 0)]
               /\ Goto(c, "request")
            \/ /\ req' = [req EXCEPT ![c] = Ask("none", t, 0)]
               /\ Goto(c, "set_idle")
    /\ answer' = [answer EXCEPT ![c] = NoAnswer]
    /\ UNCHANGED <<handles, nextId, pending, holder, codex, asked, world, op, calls, known>>

\* A start hands the session's id to its caller only when it succeeds.
Reveal(c, t) == known' = IF op[c] = "start" THEN known \cup {t} ELSE known

SetIdle(c) ==
    /\ pc[c] = "set_idle" /\ LockFree
    /\ IF status[req[c].thread] # "none"
       THEN /\ Overwrite(req[c].thread, "idle", active[req[c].thread])
            /\ Reveal(c, req[c].thread)
       ELSE UNCHANGED <<sessions, known>>
    /\ EndCall(c)
    /\ UNCHANGED <<handles, nextId, pending, holder, codex, asked, world, calls>>

\* Turn n of thread t runs in its server, and the server's reader is there to see it end.
LiveTurn(t, n) == home[t] # 0 /\ reading[home[t]] /\ running[t] /\ turns[t] = n

\* start_turn after its request: the turn becomes the session's active one, whatever
\* happened to the session or the turn since the reply was handled.
TurnStarted(c) ==
    /\ Answered(c, "turn/start") /\ LockFree
    /\ LET t == req[c].thread
           n == answer[c].val
       IN IF status[t] # "none"
          THEN /\ Overwrite(t, "running", n) /\ Reveal(c, t)
               /\ overtaken' = IF answer[c].of.thread = t /\ LiveTurn(t, n) THEN overtaken
                               ELSE overtaken \cup {<<t, n>>}
          ELSE UNCHANGED <<sessions, known, overtaken>>
    /\ EndCall(c)
    /\ UNCHANGED <<handles, nextId, pending, holder, codex, asked, made, home, turns, running,
                   outdated, calls>>

\* send_message after a successful turn/steer: only turn_id is written.
Steered(c) ==
    /\ Answered(c, "turn/steer") /\ LockFree
    /\ EndCall(c)
    /\ UNCHANGED <<handles, nextId, pending, sessions, holder, codex, asked, world, calls,
                   known>>

\* mark_session_failed, and the error goes to the caller.  A failed thread/start has no
\* session yet.
MarkSessionFailed(c) ==
    /\ pc[c] = "fail" /\ LockFree
    /\ IF req[c].thread # 0 /\ status[req[c].thread] # "none"
       THEN Overwrite(req[c].thread, "failed", 0)
       ELSE UNCHANGED sessions
    /\ EndCall(c)
    /\ UNCHANGED <<handles, nextId, pending, holder, codex, asked, world, calls, known>>

Interrupted(c) ==
    /\ Answered(c, "turn/interrupt")
    /\ answer' = [answer EXCEPT ![c] = NoAnswer]
    /\ Goto(c, "stop")
    /\ UNCHANGED <<handles, nextId, pending, sessions, holder, codex, asked, world, op, req,
                   calls, known>>

FinishStop(c) ==
    /\ pc[c] = "stop" /\ LockFree
    /\ IF status[req[c].thread] # "none"
       THEN Overwrite(req[c].thread, "stopped", 0)
       ELSE UNCHANGED sessions
    /\ EndCall(c)
    /\ UNCHANGED <<handles, nextId, pending, holder, codex, asked, world, calls, known>>

-----------------------------------------------------------------------------
\* The reader of generation g: responses, notifications, server requests, end of file

\* A response resolves the pending request with its id, whoever registered it, and an
\* unknown id is ignored.
Resolve(r, a) ==
    /\ asked' = asked \ {r}
    /\ pending' = {p \in pending : p.id # r.id}
    /\ answer' = [c \in Clients |->
                    IF Waiting(c) /\ req[c].id = r.id /\ [id |-> r.id, owner |-> c] \in pending
                    THEN a ELSE answer[c]]

Reads(g) == reading[g] /\ LockFree

\* Thread t lives in server g.
Hosts(g, t) == t \in Threads /\ home[t] = g

HandleError(g, r) ==
    /\ Reads(g) /\ r.gen = g
    /\ Resolve(r, ErrAnswer)
    /\ UNCHANGED <<handles, nextId, sessions, holder, codex, world, op, pc, req, calls, known>>

\* initialize and turn/interrupt
HandleDone(g, r) ==
    /\ Reads(g) /\ r.gen = g /\ r.kind \in {"initialize", "turn/interrupt"}
    /\ Resolve(r, OkAnswer(r, 0))
    /\ UNCHANGED <<handles, nextId, sessions, holder, codex, world, op, pc, req, calls, known>>

HandleThreadStarted(g, r) ==
    /\ Reads(g) /\ r.gen = g /\ r.kind = "thread/start" /\ made < MaxThreads
    /\ made' = made + 1
    /\ home' = [home EXCEPT ![made + 1] = g]
    /\ Resolve(r, OkAnswer(r, made + 1))
    /\ UNCHANGED <<handles, nextId, sessions, holder, codex, turns, running, history, op, pc, req,
                   calls, known>>

HandleTurnStarted(g, r) ==
    /\ Reads(g) /\ r.gen = g /\ r.kind = "turn/start"
    /\ Hosts(g, r.thread) /\ ~running[r.thread] /\ turns[r.thread] < MaxTurns
    /\ turns' = [turns EXCEPT ![r.thread] = @ + 1]
    /\ running' = [running EXCEPT ![r.thread] = TRUE]
    /\ Resolve(r, OkAnswer(r, turns[r.thread] + 1))
    /\ UNCHANGED <<handles, nextId, sessions, holder, codex, made, home, history, op, pc, req,
                   calls, known>>

HandleSteered(g, r) ==
    /\ Reads(g) /\ r.gen = g /\ r.kind = "turn/steer"
    /\ Hosts(g, r.thread) /\ running[r.thread] /\ turns[r.thread] = r.turn
    /\ Resolve(r, OkAnswer(r, r.turn))
    /\ UNCHANGED <<handles, nextId, sessions, holder, codex, world, op, pc, req, calls, known>>

AfterTurnAlwaysIdle(s) == "idle"
AfterTurnOwnStatus(s) == "completed"
AfterTurn(s) == IF s = "stopped" THEN "stopped" ELSE "idle"

\* turn/completed
TurnCompleted(g, t) ==
    /\ Reads(g) /\ Hosts(g, t) /\ running[t]
    /\ running' = [running EXCEPT ![t] = FALSE]
    /\ IF status[t] # "none"
       THEN Overwrite(t, AfterTurn(status[t]), 0)
       ELSE UNCHANGED sessions
    /\ UNCHANGED <<handles, nextId, pending, holder, codex, asked, made, home, turns, history,
                   client, calls, known>>

\* thread/closed
ThreadClosed(g, t) ==
    /\ Reads(g) /\ Hosts(g, t)
    /\ home' = [home EXCEPT ![t] = 0]
    /\ running' = [running EXCEPT ![t] = FALSE]
    /\ IF status[t] # "none"
       THEN Overwrite(t, "stopped", 0)
       ELSE UNCHANGED sessions
    /\ UNCHANGED <<handles, nextId, pending, holder, codex, asked, made, turns, history, client,
                   calls, known>>

\* The reply to a server request is written by the reader, to the bridge's current
\* stdin and under the mutex.  Written at once it changes nothing; this is the case in
\* which it blocks.
ReplyBlocks(g) ==
    /\ PipeMayBeFull("none")
    /\ Reads(g) /\ stdin # 0 /\ server[stdin] = "alive"
    /\ holder' = g
    /\ UNCHANGED <<handles, nextId, pending, sessions, codex, asked, world, client, calls, known>>

ReplyDone(g) ==
    /\ holder = g
    /\ holder' = Nobody
    /\ UNCHANGED <<handles, nextId, pending, sessions, codex, asked, world, client, calls, known>>

\* next_line() ends the loop: end of file, or a line that is not UTF-8 while the server
\* lives on.  Every pending request and every session is failed, of any generation.
ReaderEnds(g) ==
    /\ Reads(g)
    /\ reading' = [reading EXCEPT ![g] = FALSE]
    /\ RejectPending
    /\ MarkSessionsFailed
    /\ UNCHANGED <<handles, nextId, holder, server, asked, world, op, pc, req, calls, known>>

-----------------------------------------------------------------------------
\* The process of generation g and its monitor

ServerExits(g) ==
    /\ server[g] = "alive"
    /\ server' = [server EXCEPT ![g] = "dead"]
    /\ UNCHANGED <<handles, nextId, pending, sessions, holder, reading, asked, world, client,
                   calls, known>>

\* kill_rx fires when the kill is sent, and when the bridge drops its sender.
KillServer(g) ==
    /\ killTx # g
    /\ ServerExits(g)

MonitorExit(g) ==
    /\ server[g] = "dead" /\ LockFree
    /\ server' = [server EXCEPT ![g] = "gone"]
    /\ DropHandles
    /\ RejectPending
    /\ MarkSessionsFailed
    /\ UNCHANGED <<nextId, holder, reading, asked, world, op, pc, req, calls, known>>

-----------------------------------------------------------------------------

Begin(c) == StartSession(c) \/ \E t \in Threads : SendMessage(c, t) \/ StopSession(c, t)

\* A call's steps that depend on the bridge alone.
Proceed(c) ==
    \/ ServerPresent(c) \/ SpawnServer(c) \/ SpawnFails(c)
    \/ RequestNoServer(c) \/ RequestWritten(c) \/ RequestWriteFails(c) \/ RequestBlocks(c)
    \/ WriteBreaks(c) \/ SessionGone(c)
    \/ RequestTimesOut(c) \/ RemoveExpired(c) \/ RequestFails(c)
    \/ Initialized(c) \/ Close(c) \/ InsertSession(c) \/ SetIdle(c)
    \/ TurnStarted(c) \/ Steered(c) \/ MarkSessionFailed(c)
    \/ Interrupted(c) \/ FinishStop(c)

Response(g) == \E r \in asked :
    \/ HandleError(g, r) \/ HandleDone(g, r) \/ HandleThreadStarted(g, r)
    \/ HandleTurnStarted(g, r) \/ HandleSteered(g, r)

Notification(g) == \E t \in Threads : TurnCompleted(g, t) \/ ThreadClosed(g, t)

Next ==
    \/ \E c \in Clients : Begin(c) \/ Proceed(c) \/ WriteCompletes(c)
    \/ \E g \in Gens :
         \/ Response(g) \/ Notification(g) \/ ReplyBlocks(g) \/ ReplyDone(g) \/ ReaderEnds(g)
         \/ ServerExits(g) \/ KillServer(g) \/ MonitorExit(g)

Spec == Init /\ [][Next]_vars

\* Fairness.  tokio polls a woken task and its mutex is first-come first-served, so a
\* call's next step is taken if it stays enabled or is enabled again and again (strong
\* fairness for the steps that need the mutex).  The app-server owes the bridge no reply
\* and no read; a kill, a process exit and an end of file are delivered.
Fairness ==
    /\ \A c \in Clients : SF_vars(Proceed(c))
    /\ \A g \in Gens :
         /\ WF_vars(KillServer(g)) /\ SF_vars(MonitorExit(g))
         /\ SF_vars(server[g] # "alive" /\ ReaderEnds(g))
         /\ WF_vars(stdin # 0 /\ server[stdin] # "alive" /\ ReplyDone(g))

FairSpec == Spec /\ Fairness

\* The same with a server that goes on reading its stdin, so that a blocked write ends.
ReadingServerSpec ==
    /\ FairSpec
    /\ \A c \in Clients : WF_vars(WriteCompletes(c))
    /\ \A g \in Gens : WF_vars(ReplyDone(g))

-----------------------------------------------------------------------------
\* Invariants

TypeOK ==
    /\ stdin \in 0 .. MaxGen /\ killTx \in 0 .. MaxGen
    /\ nextId \in Nat \ {0}
    /\ pending \subseteq [id : Nat, owner : Clients]
    /\ status \in [Threads -> Statuses \cup {"none"}]
    /\ active \in [Threads -> Nat]
    /\ holder \in Clients \cup Gens \cup {Nobody}
    /\ server \in [Gens -> {"none", "alive", "dead", "gone"}]
    /\ reading \in [Gens -> BOOLEAN]
    /\ asked \subseteq Requests
    /\ made \in 0 .. MaxThreads
    /\ home \in [Threads -> 0 .. MaxGen]
    /\ turns \in [Threads -> Nat]
    /\ running \in [Threads -> BOOLEAN]
    /\ op \in [Clients -> Ops]
    /\ pc \in [Clients -> PCs]
    /\ req \in [Clients -> Requests]
    /\ answer \in [Clients -> Answers]
    /\ calls \in Nat
    /\ known \subseteq Nat /\ revived \subseteq Nat
    /\ overtaken \subseteq Nat \X Nat /\ outdated \subseteq Gens

\* The session limit: leaving aside sessions that a call in flight brought back from
\* Stopped, no more than MaxSessions sessions count against the limit, whatever starts
\* overlap (bridge.rs 48-65, session_start_lock around check and insert).
SessionLimit == Cardinality(Counted \ revived) <= MaxSessions

\* The session's active turn runs, and the reader of its server will see it end.  The code
\* has one exception: start_turn makes a turn active when its call runs on after the reply,
\* by which time the turn may have been completed or its server's reader be gone
\* (bridge.rs 357-366); `overtaken` holds exactly the turns taken up too late.
TurnAtWork(t) == LiveTurn(t, active[t]) \/ <<t, active[t]>> \in overtaken

\* A session is Starting or Running, which makes read_response wait, only while its
\* active turn is one its server still runs and whose end will be seen, or a call is at
\* work on it, or its turn was over when start_turn took it up: no other error path,
\* notification, server exit or overlap of calls leaves a session running with nobody to
\* finish it.
RunningHasDriver ==
    \A t \in Threads : status[t] \in {"starting", "running"} =>
        \/ active[t] # 0 /\ TurnAtWork(t)
        \/ \E c \in Clients : op[c] \in {"start", "send"} /\ req[c].thread = t

\* A call that waits for a reply has its sender registered: draining the pending map,
\* a late removal or a reply for a reused id never leaves a caller without its sender
\* (it would then sleep until its timeout).
WaiterHasSender ==
    \A c \in Clients : Waiting(c) => [id |-> req[c].id, owner |-> c] \in pending

\* A call gets the reply to its own request, with one exception, which the code has: after
\* close() has started the ids again at 1, the reader of a server spawned before it may
\* still give a reply to whoever now waits under its id (bridge.rs 247, protocol.rs 17).
\* Nothing else mixes replies up: no timeout, drain, failed write, restart of a server
\* that exited, or any two servers neither of which is older than the last close().
OwnAnswer ==
    \A c \in Clients : answer[c].tag = "ok" =>
        \/ answer[c].of = req[c]
        \/ answer[c].of.gen # req[c].gen /\ answer[c].of.gen \in outdated

\* A session has an active turn only while it is Running, and the turn is one its server
\* still runs, or was over when start_turn took it up.  So a message is sent as turn/steer
\* for a turn that is over only in the one case the code has: no completion, failure, stop,
\* close of a thread or exit of a server leaves its turn behind for the next message.
ActiveTurnRuns ==
    \A t \in Threads : active[t] # 0 => status[t] = "running" /\ TurnAtWork(t)

\* "CTM_CODEX_MAX_SESSIONS: concurrent delegated sessions" (README.md 261), without
\* leaving aside the sessions that came back from Stopped.
ConcurrentSessionsBounded == Cardinality(Counted) <= MaxSessions

\* Action property: a stopped session stays stopped, unless a start or a send that was
\* already in flight on it finishes: no notification, server exit, reader end or new
\* message brings it back.
StoppedStays ==
    [][\A t \in Threads : status[t] = "stopped" /\ status'[t] \notin {"none", "stopped"} =>
          \E c \in Clients : op[c] \in {"start", "send"} /\ req[c].thread = t]_vars

-----------------------------------------------------------------------------
\* Liveness

\* Every call returns, whatever the server answers or fails to answer
\* (CTM_CODEX_REQUEST_TIMEOUT_MS) and whenever it exits.
EveryCallReturns == \A c \in Clients : pc[c] # "idle" ~> pc[c] = "idle"

\* A server whose stdin the bridge has let go of does not live on: no replaced or
\* abandoned app-server process is leaked.
LostServersDie == \A g \in Gens : server[g] = "alive" /\ stdin # g ~> server[g] # "alive"
=============================================================================
