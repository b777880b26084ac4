-------------------------- MODULE CodexBridgeProofs --------------------------
(***************************************************************************)
(* Proofs about CodexBridge, for every number of clients, sessions,        *)
(* servers, threads and turns.                                             *)
(*                                                                         *)
(* Of the requests: the types, what a call is doing at each of its steps   *)
(* (LocalInv), that a call waiting for a reply has its sender registered   *)
(* (SenderInv), and that a reply is the reply to the request it is taken   *)
(* for, or one of a server older than the last close() (IdInv).            *)
(*                                                                         *)
(* Of the sessions: the limit on them, the turns and the drivers of        *)
(* running ones, and that stopped ones stay so.  None of these is          *)
(* inductive.  What a call does to a session depends on how it got to its  *)
(* step (LocalInv); what it finds there depends on nobody else knowing a   *)
(* session whose start is still at work (Owned), and on there being one    *)
(* start at a time (OneStart).  That a session forgets its turn when the   *)
(* turn ends (TurnsAtWork) rests on sessions without a status having none. *)
(***************************************************************************)
EXTENDS CodexBridge, FiniteSetTheorems, TLAPS

-----------------------------------------------------------------------------
\* What the helpers return

\* The messages a call or a reader builds are requests and answers.
LEMMA MessageTypes ==
    /\ NoReq \in Requests /\ NoAnswer \in Answers /\ ErrAnswer \in Answers
    /\ \A k \in Kinds, t, n \in Nat : Ask(k, t, n) \in Requests
    /\ \A r \in Requests, v \in Nat : OkAnswer(r, v) \in Answers
    /\ \A r \in Requests : /\ r.gen \in Nat /\ r.id \in Nat /\ r.kind \in Kinds
                           /\ r.thread \in Nat /\ r.turn \in Nat
    /\ \A a \in Answers : a.of \in Requests /\ a.val \in Nat
    /\ \A r \in Requests, i, g \in Nat : [r EXCEPT !.id = i, !.gen = g] \in Requests
<1> NoReq \in Requests
  BY DEF NoReq, Requests, Kinds
<1> QED
  BY DEF NoReq, Requests, NoAnswer, Answers, ErrAnswer, OkAnswer, Ask

\* The error paths lead to program counters.
LEMMA AfterErrorType == \A k \in Kinds : AfterError(k) \in PCs
BY DEF AfterError, PCs

\* The names of the program counters, methods and statuses the actions write.
LEMMA NameTypes ==
    /\ \A l \in {"idle", "ensure", "request", "write", "wait", "expired", "close", "set_idle",
                  "fail", "stop"} : l \in PCs
    /\ \A o \in {"none", "start", "send", "stop"} : o \in Ops
    /\ \A s \in {"starting", "running", "idle", "stopped", "failed"} : s \in Statuses
    /\ \A k \in {"none", "initialize", "thread/start", "turn/start", "turn/steer",
                  "turn/interrupt"} : k \in Kinds
BY DEF PCs, Ops, Statuses, Kinds

\* The fields of a call's request and answer.
LEMMA CallFields ==
    ASSUME TypeOK, NEW c \in Clients
    PROVE  /\ req[c] \in Requests /\ req[c].kind \in Kinds /\ req[c].thread \in Nat
           /\ answer[c] \in Answers /\ answer[c].val \in Nat
<1>1. req[c] \in Requests /\ answer[c] \in Answers
  BY DEF TypeOK
<1> QED
  BY <1>1, MessageTypes

\* Ending a call keeps the call tables typed.
LEMMA EndCallType ==
    ASSUME TypeOK, NEW c \in Clients, EndCall(c)
    PROVE  /\ op' \in [Clients -> Ops] /\ pc' \in [Clients -> PCs]
           /\ req' \in [Clients -> Requests] /\ answer' \in [Clients -> Answers]
BY MessageTypes DEF EndCall, TypeOK, Ops, PCs

\* Waking receivers with an error keeps the answers typed.
LEMMA RejectingType ==
    ASSUME TypeOK, NEW gone
    PROVE  Rejecting(gone) \in [Clients -> Answers]
BY MessageTypes DEF Rejecting, TypeOK

\* Writing a session's status and turn keeps both typed.
LEMMA OverwriteType ==
    ASSUME TypeOK
    PROVE  \A t \in Nat, s \in Statuses : \A n :
               (t \in Threads => n \in Nat) /\ Overwrite(t, s, n) =>
                   /\ status' \in [Threads -> Statuses \cup {"none"}]
                   /\ active' \in [Threads -> Nat] /\ revived' \subseteq Nat
BY DEF Overwrite, TypeOK

\* Failing every session keeps statuses and turns typed.
LEMMA MarkSessionsFailedType ==
    ASSUME TypeOK, MarkSessionsFailed
    PROVE  /\ status' \in [Threads -> Statuses \cup {"none"}]
           /\ active' \in [Threads -> Nat] /\ revived' \subseteq Nat
BY DEF MarkSessionsFailed, TypeOK, Statuses

\* Handling a response keeps what was asked, what is pending and the answers typed.
LEMMA ResolveType ==
    ASSUME TypeOK, NEW r, NEW a \in Answers, Resolve(r, a)
    PROVE  /\ asked' \subseteq Requests
           /\ pending' \subseteq [id : Nat, owner : Clients]
           /\ answer' \in [Clients -> Answers]
BY DEF Resolve, TypeOK

\* Issuing a request advances the ids and keeps the call's request typed.
LEMMA IssueType ==
    ASSUME TypeOK, NEW c \in Clients, NEW r \in Requests, Issue(c, r)
    PROVE  nextId' \in Nat \ {0} /\ req' \in [Clients -> Requests]
BY DEF Issue, TypeOK

LEMMA NumberedType ==
    ASSUME TypeOK, NEW c \in Clients
    PROVE  Numbered(c) \in Requests
<1>1. req[c] \in Requests /\ nextId \in Nat /\ stdin \in Nat
  BY BridgeAssumption DEF TypeOK
<1> QED
  BY <1>1, MessageTypes DEF Numbered

LEMMA RegisterType ==
    ASSUME TypeOK, NEW c \in Clients, Register(c)
    PROVE  pending' \subseteq [id : Nat, owner : Clients]
BY DEF Register, TypeOK

-----------------------------------------------------------------------------
\* Every variable keeps its type: the ids, the session statuses, the program counters
\* and the messages the calls, the readers and the monitors write.
THEOREM TypeCorrect == Spec => []TypeOK
<1> USE BridgeAssumption
<1>1. Init => TypeOK
  <2> SUFFICES ASSUME Init PROVE TypeOK
    OBVIOUS
  <2>1. pc \in [Clients -> PCs] /\ op \in [Clients -> Ops]
    BY NameTypes DEF Init
  <2>2. req \in [Clients -> Requests] /\ answer \in [Clients -> Answers]
    BY MessageTypes DEF Init
  <2> QED
    BY <2>1, <2>2 DEF Init, TypeOK
<1>2. TypeOK /\ [Next]_vars => TypeOK'
  <2> SUFFICES ASSUME TypeOK, [Next]_vars PROVE TypeOK'
    OBVIOUS
  <2> USE DEF handles, sessions, codex, world, history, client
  <2>1. ASSUME NEW c \in Clients, StartSession(c) PROVE TypeOK'
    <3>1. pc' \in [Clients -> PCs]
      BY <2>1, NameTypes DEF StartSession, Goto, TypeOK
    <3>2. op' \in [Clients -> Ops]
      BY <2>1, NameTypes DEF StartSession, TypeOK
    <3> QED
      BY <2>1, <3>1, <3>2 DEF StartSession, TypeOK
  <2>2. ASSUME NEW c \in Clients, ServerPresent(c) PROVE TypeOK'
    <3>1. Ask("thread/start", 0, 0) \in Requests
      BY MessageTypes DEF Kinds
    <3>2. pc' \in [Clients -> PCs]
      BY <2>2, NameTypes DEF ServerPresent, Goto, TypeOK
    <3>3. req' \in [Clients -> Requests]
      BY <2>2, <3>1 DEF ServerPresent, TypeOK
    <3> QED
      BY <2>2, <3>2, <3>3 DEF ServerPresent, TypeOK
  <2>3. ASSUME NEW c \in Clients, SpawnServer(c) PROVE TypeOK'
    <3>1. Ask("initialize", 0, 0) \in Requests
      BY MessageTypes DEF Kinds
    <3>2. pc' \in [Clients -> PCs]
      BY <2>3, NameTypes DEF SpawnServer, Goto, TypeOK
    <3>3. req' \in [Clients -> Requests]
      BY <2>3, <3>1 DEF SpawnServer, TypeOK
    <3>4. /\ server' \in [Gens -> {"none", "alive", "dead", "gone"}]
         /\ reading' \in [Gens -> BOOLEAN] /\ stdin' \in 0 .. MaxGen /\ killTx' \in 0 .. MaxGen
      BY <2>3 DEF SpawnServer, Gens, TypeOK
    <3> QED
      BY <2>3, <3>2, <3>3, <3>4 DEF SpawnServer, TypeOK
  <2>4. ASSUME NEW c \in Clients, SpawnFails(c) PROVE TypeOK'
    <3>1. /\ op' \in [Clients -> Ops] /\ pc' \in [Clients -> PCs]
         /\ req' \in [Clients -> Requests] /\ answer' \in [Clients -> Answers]
      BY <2>4, EndCallType DEF SpawnFails
    <3> QED
      BY <2>4, <3>1 DEF SpawnFails, TypeOK
  <2>5. ASSUME NEW c \in Clients, RequestNoServer(c) PROVE TypeOK'
    <3>1. pc' \in [Clients -> PCs]
      BY <2>5, AfterErrorType, MessageTypes DEF RequestNoServer, Goto, TypeOK
    <3>2. nextId' \in Nat \ {0} /\ req' \in [Clients -> Requests]
      BY <2>5, NumberedType, IssueType DEF RequestNoServer
    <3>3. pending' \subseteq [id : Nat, owner : Clients]
      BY <2>5, RegisterType DEF RequestNoServer
    <3> QED
      BY <2>5, <3>1, <3>2, <3>3 DEF RequestNoServer, Issue, TypeOK
  <2>6. ASSUME NEW c \in Clients, RequestWritten(c) PROVE TypeOK'
    <3>1. pc' \in [Clients -> PCs]
      BY <2>6, NameTypes DEF RequestWritten, Goto, TypeOK
    <3>2. nextId' \in Nat \ {0} /\ req' \in [Clients -> Requests]
      BY <2>6, NumberedType, IssueType DEF RequestWritten
    <3>3. pending' \subseteq [id : Nat, owner : Clients]
      BY <2>6, RegisterType DEF RequestWritten
    <3>4. asked' \subseteq Requests
      BY <2>6, NumberedType DEF RequestWritten, TypeOK
    <3> QED
      BY <2>6, <3>1, <3>2, <3>3, <3>4 DEF RequestWritten, Issue, TypeOK
  <2>7. ASSUME NEW c \in Clients, RequestWriteFails(c) PROVE TypeOK'
    <3>1. pc' \in [Clients -> PCs]
      BY <2>7, AfterErrorType, MessageTypes DEF RequestWriteFails, Goto, TypeOK
    <3>2. nextId' \in Nat \ {0} /\ req' \in [Clients -> Requests]
      BY <2>7, NumberedType, IssueType DEF RequestWriteFails
    <3> QED
      BY <2>7, <3>1, <3>2 DEF RequestWriteFails, Issue, TypeOK
  <2>8. ASSUME NEW c \in Clients, RequestBlocks(c) PROVE TypeOK'
    <3>1. pc' \in [Clients -> PCs]
      BY <2>8, NameTypes DEF RequestBlocks, Goto, TypeOK
    <3>2. nextId' \in Nat \ {0} /\ req' \in [Clients -> Requests]
      BY <2>8, NumberedType, IssueType DEF RequestBlocks
    <3>3. pending' \subseteq [id : Nat, owner : Clients]
      BY <2>8, RegisterType DEF RequestBlocks
    <3> QED
      BY <2>8, <3>1, <3>2, <3>3 DEF RequestBlocks, Issue, TypeOK
  <2>9. ASSUME NEW c \in Clients, WriteCompletes(c) PROVE TypeOK'
    <3>1. pc' \in [Clients -> PCs]
      BY <2>9, NameTypes DEF WriteCompletes, Goto, TypeOK
    <3> QED
      BY <2>9, <3>1 DEF WriteCompletes, TypeOK
  <2>10. ASSUME NEW c \in Clients, WriteBreaks(c) PROVE TypeOK'
    <3>1. pc' \in [Clients -> PCs]
      BY <2>10, AfterErrorType, MessageTypes DEF WriteBreaks, Goto, TypeOK
    <3> QED
      BY <2>10, <3>1 DEF WriteBreaks, TypeOK
  <2>11. ASSUME NEW c \in Clients, SessionGone(c) PROVE TypeOK'
    <3>1. pc' \in [Clients -> PCs]
      BY <2>11, NameTypes DEF SessionGone, Goto, TypeOK
    <3> QED
      BY <2>11, <3>1 DEF SessionGone, TypeOK
  <2>12. ASSUME NEW c \in Clients, RequestTimesOut(c) PROVE TypeOK'
    <3>1. pc' \in [Clients -> PCs]
      BY <2>12, NameTypes DEF RequestTimesOut, Goto, TypeOK
    <3> QED
      BY <2>12, <3>1 DEF RequestTimesOut, TypeOK
  <2>13. ASSUME NEW c \in Clients, RemoveExpired(c) PROVE TypeOK'
    <3>1. pc' \in [Clients -> PCs]
      BY <2>13, AfterErrorType, MessageTypes DEF RemoveExpired, Goto, TypeOK
    <3>2. answer' \in [Clients -> Answers]
      BY <2>13, RejectingType DEF RemoveExpired
    <3> QED
      BY <2>13, <3>1, <3>2 DEF RemoveExpired, TypeOK
  <2>14. ASSUME NEW c \in Clients, RequestFails(c) PROVE TypeOK'
    <3>1. pc' \in [Clients -> PCs]
      BY <2>14, AfterErrorType, MessageTypes DEF RequestFails, Goto, TypeOK
    <3>2. answer' \in [Clients -> Answers]
      BY <2>14, MessageTypes DEF RequestFails, TypeOK
    <3> QED
      BY <2>14, <3>1, <3>2 DEF RequestFails, TypeOK
  <2>15. ASSUME NEW c \in Clients, Initialized(c) PROVE TypeOK'
    <3>1. Ask("thread/start", 0, 0) \in Requests
      BY MessageTypes DEF Kinds
    <3>2. CASE EndCall(c)
      <4>1. /\ op' \in [Clients -> Ops] /\ pc' \in [Clients -> PCs]
         /\ req' \in [Clients -> Requests] /\ answer' \in [Clients -> Answers]
        BY <3>2, EndCallType
      <4> QED
        BY <2>15, <4>1 DEF Initialized, TypeOK
    <3>3. CASE /\ req' = [req EXCEPT ![c] = Ask("thread/start", 0, 0)]
              /\ answer' = [answer EXCEPT ![c] = NoAnswer]
              /\ Goto(c, "request")
              /\ UNCHANGED op
      <4>1. pc' \in [Clients -> PCs]
        BY <3>3, NameTypes DEF Goto, TypeOK
      <4>2. req' \in [Clients -> Requests] /\ answer' \in [Clients -> Answers]
        BY <3>1, <3>3, MessageTypes DEF TypeOK
      <4> QED
        BY <2>15, <3>3, <4>1, <4>2 DEF Initialized, TypeOK
    <3> QED
      BY <2>15, <3>2, <3>3 DEF Initialized
  <2>16. ASSUME NEW c \in Clients, Close(c) PROVE TypeOK'
    <3>1. answer' \in [Clients -> Answers]
      BY <2>16, RejectingType DEF Close
    <3>2. /\ op' \in [Clients -> Ops] /\ pc' \in [Clients -> PCs]
         /\ req' \in [Clients -> Requests]
      BY <2>16, MessageTypes, NameTypes DEF Close, TypeOK
    <3> QED
      BY <2>16, <3>1, <3>2 DEF Close, DropHandles, TypeOK
  <2>17. ASSUME NEW c \in Clients, InsertSession(c) PROVE TypeOK'
    <3> DEFINE t == answer[c].val
    <3>1. t \in Nat
      BY CallFields
    <3>2. Overwrite(t, "starting", 0)
      BY <2>17 DEF InsertSession
    <3>3. /\ status' \in [Threads -> Statuses \cup {"none"}]
         /\ active' \in [Threads -> Nat] /\ revived' \subseteq Nat
      BY <3>1, <3>2, OverwriteType, NameTypes
    <3>4. Ask("turn/start", t, 0) \in Requests /\ Ask("none", t, 0) \in Requests
      BY <3>1, MessageTypes DEF Kinds
    <3>5. req' \in [Clients -> Requests]
      BY <2>17, <3>4 DEF InsertSession, TypeOK
    <3>6. pc' \in [Clients -> PCs]
      BY <2>17, NameTypes DEF InsertSession, Goto, TypeOK
    <3>7. answer' \in [Clients -> Answers]
      BY <2>17, MessageTypes DEF InsertSession, TypeOK
    <3> HIDE DEF t
    <3> QED
      BY <2>17, <3>3, <3>5, <3>6, <3>7 DEF InsertSession, TypeOK
  <2>18. ASSUME NEW c \in Clients, SetIdle(c) PROVE TypeOK'
    <3>1. /\ op' \in [Clients -> Ops] /\ pc' \in [Clients -> PCs]
         /\ req' \in [Clients -> Requests] /\ answer' \in [Clients -> Answers]
      BY <2>18, EndCallType DEF SetIdle
    <3>2. req[c].thread \in Nat /\ (req[c].thread \in Threads => active[req[c].thread] \in Nat)
      BY CallFields DEF TypeOK
    <3>3. /\ status' \in [Threads -> Statuses \cup {"none"}]
         /\ active' \in [Threads -> Nat] /\ revived' \subseteq Nat
      <4>1. CASE Overwrite(req[c].thread, "idle", active[req[c].thread])
        BY <3>2, <4>1, OverwriteType, NameTypes
      <4>2. CASE UNCHANGED sessions
        BY <4>2 DEF TypeOK
      <4> QED
        BY <2>18, <4>1, <4>2 DEF SetIdle
    <3>4. known' \subseteq Nat
      BY <2>18, <3>2 DEF SetIdle, Reveal, TypeOK
    <3> QED
      BY <2>18, <3>1, <3>3, <3>4 DEF SetIdle, TypeOK
  <2>19. ASSUME NEW c \in Clients, TurnStarted(c) PROVE TypeOK'
    <3>1. /\ op' \in [Clients -> Ops] /\ pc' \in [Clients -> PCs]
         /\ req' \in [Clients -> Requests] /\ answer' \in [Clients -> Answers]
      BY <2>19, EndCallType DEF TurnStarted
    <3>2. req[c].thread \in Nat /\ (req[c].thread \in Threads => answer[c].val \in Nat)
      BY CallFields DEF TypeOK
    <3>3. /\ status' \in [Threads -> Statuses \cup {"none"}]
         /\ active' \in [Threads -> Nat] /\ revived' \subseteq Nat
      <4>1. CASE Overwrite(req[c].thread, "running", answer[c].val)
        BY <3>2, <4>1, OverwriteType, NameTypes
      <4>2. CASE UNCHANGED sessions
        BY <4>2 DEF TypeOK
      <4> QED
        BY <2>19, <4>1, <4>2 DEF TurnStarted
    <3>4. known' \subseteq Nat
      BY <2>19, <3>2 DEF TurnStarted, Reveal, TypeOK
    <3>5. overtaken' \subseteq Nat \X Nat
      <4>1. overtaken' \in {overtaken, overtaken \cup {<<req[c].thread, answer[c].val>>}}
        BY <2>19 DEF TurnStarted
      <4>2. answer[c].val \in Nat
        BY CallFields
      <4> QED
        BY <3>2, <4>1, <4>2 DEF TypeOK
    <3> QED
      BY <2>19, <3>1, <3>3, <3>4, <3>5 DEF TurnStarted, TypeOK
  <2>20. ASSUME NEW c \in Clients, Steered(c) PROVE TypeOK'
    <3>1. /\ op' \in [Clients -> Ops] /\ pc' \in [Clients -> PCs]
         /\ req' \in [Clients -> Requests] /\ answer' \in [Clients -> Answers]
      BY <2>20, EndCallType DEF Steered
    <3> QED
      BY <2>20, <3>1 DEF Steered, TypeOK
  <2>21. ASSUME NEW c \in Clients, MarkSessionFailed(c) PROVE TypeOK'
    <3>1. /\ op' \in [Clients -> Ops] /\ pc' \in [Clients -> PCs]
         /\ req' \in [Clients -> Requests] /\ answer' \in [Clients -> Answers]
      BY <2>21, EndCallType DEF MarkSessionFailed
    <3>2. req[c].thread \in Nat /\ (req[c].thread \in Threads => 0 \in Nat)
      BY CallFields DEF TypeOK
    <3>3. /\ status' \in [Threads -> Statuses \cup {"none"}]
         /\ active' \in [Threads -> Nat] /\ revived' \subseteq Nat
      <4>1. CASE Overwrite(req[c].thread, "failed", 0)
        BY <3>2, <4>1, OverwriteType, NameTypes
      <4>2. CASE UNCHANGED sessions
        BY <4>2 DEF TypeOK
      <4> QED
        BY <2>21, <4>1, <4>2 DEF MarkSessionFailed
    <3> QED
      BY <2>21, <3>1, <3>3 DEF MarkSessionFailed, TypeOK
  <2>22. ASSUME NEW c \in Clients, Interrupted(c) PROVE TypeOK'
    <3>1. pc' \in [Clients -> PCs]
      BY <2>22, NameTypes DEF Interrupted, Goto, TypeOK
    <3>2. answer' \in [Clients -> Answers]
      BY <2>22, MessageTypes DEF Interrupted, TypeOK
    <3> QED
      BY <2>22, <3>1, <3>2 DEF Interrupted, TypeOK
  <2>23. ASSUME NEW c \in Clients, FinishStop(c) PROVE TypeOK'
    <3>1. /\ op' \in [Clients -> Ops] /\ pc' \in [Clients -> PCs]
         /\ req' \in [Clients -> Requests] /\ answer' \in [Clients -> Answers]
      BY <2>23, EndCallType DEF FinishStop
    <3>2. req[c].thread \in Nat /\ (req[c].thread \in Threads => 0 \in Nat)
      BY CallFields DEF TypeOK
    <3>3. /\ status' \in [Threads -> Statuses \cup {"none"}]
         /\ active' \in [Threads -> Nat] /\ revived' \subseteq Nat
      <4>1. CASE Overwrite(req[c].thread, "stopped", 0)
        BY <3>2, <4>1, OverwriteType, NameTypes
      <4>2. CASE UNCHANGED sessions
        BY <4>2 DEF TypeOK
      <4> QED
        BY <2>23, <4>1, <4>2 DEF FinishStop
    <3> QED
      BY <2>23, <3>1, <3>3 DEF FinishStop, TypeOK
  <2>24. ASSUME NEW c \in Clients, NEW t \in Threads, SendMessage(c, t) PROVE TypeOK'
    <3>1. Ask("turn/steer", t, active[t]) \in Requests /\ Ask("turn/start", t, 0) \in Requests
      <4>1. t \in Nat /\ active[t] \in Nat
        BY DEF Threads, TypeOK
      <4> QED
        BY <4>1, MessageTypes DEF Kinds
    <3>2. pc' \in [Clients -> PCs]
      BY <2>24, NameTypes DEF SendMessage, Goto, TypeOK
    <3>3. req' \in [Clients -> Requests]
      BY <2>24, <3>1 DEF SendMessage, TypeOK
    <3>4. op' \in [Clients -> Ops] /\ status' \in [Threads -> Statuses \cup {"none"}]
      BY <2>24, NameTypes DEF SendMessage, TypeOK
    <3> QED
      BY <2>24, <3>2, <3>3, <3>4 DEF SendMessage, TypeOK
  <2>25. ASSUME NEW c \in Clients, NEW t \in Threads, StopSession(c, t) PROVE TypeOK'
    <3>1. Ask("turn/interrupt", t, active[t]) \in Requests
      <4>1. t \in Nat /\ active[t] \in Nat
        BY DEF Threads, TypeOK
      <4> QED
        BY <4>1, MessageTypes DEF Kinds
    <3>2. pc' \in [Clients -> PCs]
      BY <2>25, NameTypes DEF StopSession, Goto, TypeOK
    <3>3. req' \in [Clients -> Requests]
      BY <2>25, <3>1 DEF StopSession, TypeOK
    <3>4. op' \in [Clients -> Ops]
      BY <2>25, NameTypes DEF StopSession, TypeOK
    <3> QED
      BY <2>25, <3>2, <3>3, <3>4 DEF StopSession, TypeOK
  <2>26. ASSUME NEW g \in Gens, NEW r \in asked, HandleError(g, r) PROVE TypeOK'
    <3>1. ErrAnswer \in Answers
      BY MessageTypes
    <3>2. /\ asked' \subseteq Requests
         /\ pending' \subseteq [id : Nat, owner : Clients]
         /\ answer' \in [Clients -> Answers]
      BY <2>26, <3>1, ResolveType DEF HandleError
    <3> QED
      BY <2>26, <3>2 DEF HandleError, TypeOK
  <2>27. ASSUME NEW g \in Gens, NEW r \in asked, HandleDone(g, r) PROVE TypeOK'
    <3>1. OkAnswer(r, 0) \in Answers
      BY MessageTypes DEF TypeOK
    <3>2. /\ asked' \subseteq Requests
         /\ pending' \subseteq [id : Nat, owner : Clients]
         /\ answer' \in [Clients -> Answers]
      BY <2>27, <3>1, ResolveType DEF HandleDone
    <3> QED
      BY <2>27, <3>2 DEF HandleDone, TypeOK
  <2>28. ASSUME NEW g \in Gens, NEW r \in asked, HandleThreadStarted(g, r) PROVE TypeOK'
    <3>1. OkAnswer(r, made + 1) \in Answers
      <4>1. made + 1 \in Nat /\ r \in Requests
        BY DEF TypeOK
      <4> QED
        BY <4>1, MessageTypes
    <3>2. /\ asked' \subseteq Requests
         /\ pending' \subseteq [id : Nat, owner : Clients]
         /\ answer' \in [Clients -> Answers]
      BY <2>28, <3>1, ResolveType DEF HandleThreadStarted
    <3>3. made' \in 0 .. MaxThreads
      BY <2>28 DEF HandleThreadStarted, TypeOK
    <3>4. home' \in [Threads -> 0 .. MaxGen]
      <4>1. home' = [home EXCEPT ![made + 1] = g] /\ g \in 0 .. MaxGen
        BY <2>28 DEF HandleThreadStarted, Gens
      <4> QED
        BY <4>1 DEF TypeOK
    <3> QED
      BY <2>28, <3>2, <3>3, <3>4 DEF HandleThreadStarted, TypeOK
  <2>29. ASSUME NEW g \in Gens, NEW r \in asked, HandleTurnStarted(g, r) PROVE TypeOK'
    <3>1. r.thread \in Threads
      BY <2>29 DEF HandleTurnStarted, Hosts
    <3>2. turns[r.thread] + 1 \in Nat
      BY <3>1 DEF TypeOK
    <3>3. OkAnswer(r, turns[r.thread] + 1) \in Answers
      BY <3>2, MessageTypes DEF TypeOK
    <3>4. /\ asked' \subseteq Requests
         /\ pending' \subseteq [id : Nat, owner : Clients]
         /\ answer' \in [Clients -> Answers]
      BY <2>29, <3>3, ResolveType DEF HandleTurnStarted
    <3>5. turns' \in [Threads -> Nat] /\ running' \in [Threads -> BOOLEAN]
      BY <2>29, <3>1, <3>2 DEF HandleTurnStarted, TypeOK
    <3> QED
      BY <2>29, <3>4, <3>5 DEF HandleTurnStarted, TypeOK
  <2>30. ASSUME NEW g \in Gens, NEW r \in asked, HandleSteered(g, r) PROVE TypeOK'
    <3>1. OkAnswer(r, r.turn) \in Answers
      BY MessageTypes DEF TypeOK
    <3>2. /\ asked' \subseteq Requests
         /\ pending' \subseteq [id : Nat, owner : Clients]
         /\ answer' \in [Clients -> Answers]
      BY <2>30, <3>1, ResolveType DEF HandleSteered
    <3> QED
      BY <2>30, <3>2 DEF HandleSteered, TypeOK
  <2>31. ASSUME NEW g \in Gens, NEW t \in Threads, TurnCompleted(g, t) PROVE TypeOK'
    <3>1. AfterTurn(status[t]) \in Statuses /\ t \in Nat
      BY NameTypes DEF AfterTurn, Threads
    <3>2. /\ status' \in [Threads -> Statuses \cup {"none"}]
         /\ active' \in [Threads -> Nat] /\ revived' \subseteq Nat
      <4>1. CASE Overwrite(t, AfterTurn(status[t]), 0)
        BY <3>1, <4>1, OverwriteType
      <4>2. CASE UNCHANGED sessions
        BY <4>2 DEF TypeOK
      <4> QED
        BY <2>31, <4>1, <4>2 DEF TurnCompleted
    <3>3. running' \in [Threads -> BOOLEAN]
      BY <2>31 DEF TurnCompleted, TypeOK
    <3> QED
      BY <2>31, <3>2, <3>3 DEF TurnCompleted, TypeOK
  <2>32. ASSUME NEW g \in Gens, NEW t \in Threads, ThreadClosed(g, t) PROVE TypeOK'
    <3>1. t \in Nat
      BY DEF Threads
    <3>2. /\ status' \in [Threads -> Statuses \cup {"none"}]
         /\ active' \in [Threads -> Nat] /\ revived' \subseteq Nat
      <4>1. CASE Overwrite(t, "stopped", 0)
        BY <3>1, <4>1, OverwriteType, NameTypes
      <4>2. CASE UNCHANGED sessions
        BY <4>2 DEF TypeOK
      <4> QED
        BY <2>32, <4>1, <4>2 DEF ThreadClosed
    <3>3. running' \in [Threads -> BOOLEAN] /\ home' \in [Threads -> 0 .. MaxGen]
      BY <2>32 DEF ThreadClosed, TypeOK
    <3> QED
      BY <2>32, <3>2, <3>3 DEF ThreadClosed, TypeOK
  <2>33. ASSUME NEW g \in Gens, ReplyBlocks(g) PROVE TypeOK'
    BY <2>33 DEF ReplyBlocks, TypeOK
  <2>34. ASSUME NEW g \in Gens, ReplyDone(g) PROVE TypeOK'
    BY <2>34 DEF ReplyDone, TypeOK
  <2>35. ASSUME NEW g \in Gens, ReaderEnds(g) PROVE TypeOK'
    <3>1. /\ status' \in [Threads -> Statuses \cup {"none"}]
         /\ active' \in [Threads -> Nat] /\ revived' \subseteq Nat
      BY <2>35, MarkSessionsFailedType DEF ReaderEnds
    <3>2. answer' \in [Clients -> Answers]
      BY <2>35, RejectingType DEF ReaderEnds, RejectPending
    <3> QED
      BY <2>35, <3>1, <3>2 DEF ReaderEnds, RejectPending, TypeOK
  <2>36. ASSUME NEW g \in Gens, ServerExits(g) PROVE TypeOK'
    BY <2>36 DEF ServerExits, TypeOK
  <2>37. ASSUME NEW g \in Gens, KillServer(g) PROVE TypeOK'
    BY <2>37 DEF KillServer, ServerExits, TypeOK
  <2>38. ASSUME NEW g \in Gens, MonitorExit(g) PROVE TypeOK'
    <3>1. /\ status' \in [Threads -> Statuses \cup {"none"}]
         /\ active' \in [Threads -> Nat] /\ revived' \subseteq Nat
      BY <2>38, MarkSessionsFailedType DEF MonitorExit
    <3>2. answer' \in [Clients -> Answers]
      BY <2>38, RejectingType DEF MonitorExit, RejectPending
    <3> QED
      BY <2>38, <3>1, <3>2 DEF MonitorExit, RejectPending, DropHandles, TypeOK
  <2>39. CASE UNCHANGED vars
    BY <2>39 DEF vars, TypeOK
  <2>40. QED
    BY <2>1, <2>2, <2>3, <2>4, <2>5, <2>6, <2>7, <2>8, <2>9, <2>10, <2>11, <2>12, <2>13,
       <2>14, <2>15, <2>16, <2>17, <2>18, <2>19, <2>20, <2>21, <2>22, <2>23, <2>24, <2>25, <2>26,
       <2>27, <2>28, <2>29, <2>30, <2>31, <2>32, <2>33, <2>34, <2>35, <2>36, <2>37, <2>38, <2>39
    DEF Next, Begin, Proceed, Response, Notification
<1>3. QED
  BY <1>1, <1>2, PTL DEF Spec

-----------------------------------------------------------------------------
\* What a call is doing at each of its steps: the invariant the other proofs share.

\* The steps a call takes by its kind, and the request it is at then.
Asking == {"request", "write", "wait", "expired"}
Starting(c) ==
    /\ op[c] = "start"
    /\ \/ req[c].thread = 0 /\ req[c].kind = "none" /\ pc[c] = "ensure"
       \/ req[c].thread = 0 /\ req[c].kind = "initialize" /\ pc[c] \in Asking \cup {"close"}
       \/ req[c].thread = 0 /\ req[c].kind = "thread/start" /\ pc[c] \in Asking \cup {"fail"}
       \/ req[c].thread # 0 /\ req[c].kind = "turn/start" /\ pc[c] \in Asking \cup {"fail"}
       \/ req[c].thread # 0 /\ req[c].kind = "none" /\ pc[c] = "set_idle"
Shape(c) ==
    \/ op[c] = "none" /\ pc[c] = "idle" /\ req[c] = NoReq
    \/ Starting(c)
    \/ op[c] = "send" /\ req[c].kind \in Prompts /\ pc[c] \in Asking \cup {"fail"}
    \/ op[c] = "stop" /\ req[c].kind = "turn/interrupt" /\ pc[c] \in Asking \cup {"stop"}

\* A call holds a reply only while it waits; a turn has a number, and so has a thread,
\* among those the servers have made.
Reply(c) ==
    /\ pc[c] # "wait" => answer[c].tag = "none"
    /\ answer[c].tag = "ok" /\ answer[c].of.kind = "turn/start" => answer[c].val # 0
    /\ answer[c].tag = "ok" /\ answer[c].of.kind = "thread/start" => answer[c].val \in 1 .. made

LocalInv == \A c \in Clients : Shape(c) /\ Reply(c)

\* Only call c moves; another may find its sender dropped.
Moves(c) == \A d \in Clients \ {c} :
    /\ op'[d] = op[d] /\ pc'[d] = pc[d] /\ req'[d] = req[d]
    /\ answer'[d] = answer[d] \/ (pc[d] = "wait" /\ answer'[d] = ErrAnswer)

LEMMA EndCallMoves ==
    ASSUME TypeOK, NEW c \in Clients, EndCall(c)
    PROVE  Moves(c)
BY DEF EndCall, Moves, TypeOK

\* A call's step is its own.
LEMMA OwnSteps ==
    ASSUME TypeOK, NEW c \in Clients, Begin(c) \/ Proceed(c) \/ WriteCompletes(c)
    PROVE  Moves(c)
<1> USE DEF handles, sessions, codex, world, history, client
<1>1. CASE StartSession(c)
  BY <1>1 DEF StartSession, Goto, Moves, TypeOK
<1>2. CASE ServerPresent(c)
  BY <1>2 DEF ServerPresent, Goto, Moves, TypeOK
<1>3. CASE SpawnServer(c)
  BY <1>3 DEF SpawnServer, Goto, Moves, TypeOK
<1>4. CASE SpawnFails(c)
  BY <1>4, EndCallMoves DEF SpawnFails
<1>5. CASE RequestNoServer(c)
  BY <1>5 DEF RequestNoServer, Issue, Goto, Moves, TypeOK
<1>6. CASE RequestWritten(c)
  BY <1>6 DEF RequestWritten, Issue, Goto, Moves, TypeOK
<1>7. CASE RequestWriteFails(c)
  BY <1>7 DEF RequestWriteFails, Issue, Goto, Moves, TypeOK
<1>8. CASE RequestBlocks(c)
  BY <1>8 DEF RequestBlocks, Issue, Goto, Moves, TypeOK
<1>9. CASE WriteCompletes(c)
  BY <1>9 DEF WriteCompletes, Goto, Moves, TypeOK
<1>10. CASE WriteBreaks(c)
  BY <1>10 DEF WriteBreaks, Goto, Moves, TypeOK
<1>11. CASE SessionGone(c)
  BY <1>11 DEF SessionGone, Goto, Moves, TypeOK
<1>12. CASE RequestTimesOut(c)
  BY <1>12 DEF RequestTimesOut, Goto, Moves, TypeOK
<1>13. CASE RemoveExpired(c)
  BY <1>13 DEF RemoveExpired, Goto, Rejecting, Waiting, Moves, TypeOK
<1>14. CASE RequestFails(c)
  BY <1>14 DEF RequestFails, Goto, Moves, TypeOK
<1>15. CASE Initialized(c)
  BY <1>15 DEF Initialized, Goto, EndCall, Moves, TypeOK
<1>16. CASE Close(c)
  BY <1>16 DEF Close, Rejecting, Waiting, Moves, TypeOK
<1>17. CASE InsertSession(c)
  BY <1>17 DEF InsertSession, Goto, Moves, TypeOK
<1>18. CASE SetIdle(c)
  BY <1>18, EndCallMoves DEF SetIdle
<1>19. CASE TurnStarted(c)
  BY <1>19, EndCallMoves DEF TurnStarted
<1>20. CASE Steered(c)
  BY <1>20, EndCallMoves DEF Steered
<1>21. CASE MarkSessionFailed(c)
  BY <1>21, EndCallMoves DEF MarkSessionFailed
<1>22. CASE Interrupted(c)
  BY <1>22 DEF Interrupted, Goto, Moves, TypeOK
<1>23. CASE FinishStop(c)
  BY <1>23, EndCallMoves DEF FinishStop
<1>24. ASSUME NEW t \in Threads, SendMessage(c, t) PROVE Moves(c)
  BY <1>24 DEF SendMessage, Goto, Moves, TypeOK
<1>25. ASSUME NEW t \in Threads, StopSession(c, t) PROVE Moves(c)
  BY <1>25 DEF StopSession, Goto, Moves, TypeOK
<1> QED
  BY <1>1, <1>2, <1>3, <1>4, <1>5, <1>6, <1>7, <1>8, <1>9, <1>10, <1>11, <1>12, <1>13,
     <1>14, <1>15, <1>16, <1>17, <1>18, <1>19, <1>20, <1>21, <1>22, <1>23, <1>24, <1>25
     DEF Begin, Proceed

LEMMA LocalMoves ==
    ASSUME LocalInv, NEW c \in Clients, Moves(c), made' = made, Shape(c)', Reply(c)'
    PROVE  LocalInv'
<1>1. ASSUME NEW d \in Clients \ {c} PROVE Shape(d)' /\ Reply(d)'
  BY DEF LocalInv, Moves, Shape, Starting, Reply, ErrAnswer, NoAnswer
<1> QED
  BY <1>1 DEF LocalInv

\* Replies and errors reach waiting calls; the others keep what they hold.
LEMMA LocalReplies ==
    ASSUME LocalInv, made \in Nat, made' \in {made, made + 1}, UNCHANGED <<op, pc, req>>,
           NEW a,
           a.tag = "ok" /\ a.of.kind = "turn/start" => a.val # 0,
           a.tag = "ok" /\ a.of.kind = "thread/start" => a.val \in 1 .. made',
           \A c \in Clients : answer'[c] = answer[c] \/ (pc[c] = "wait" /\ answer'[c] = a)
    PROVE  LocalInv'
<1>1. ASSUME NEW c \in Clients PROVE Shape(c)'
  BY DEF LocalInv, Shape, Starting
<1>2. ASSUME NEW c \in Clients PROVE Reply(c)'
  <2>1. CASE answer'[c] = answer[c]
    BY <2>1 DEF LocalInv, Reply
  <2>2. CASE pc[c] = "wait" /\ answer'[c] = a
    BY <2>2 DEF LocalInv, Reply
  <2> QED
    BY <2>1, <2>2
<1> QED
  BY <1>1, <1>2 DEF LocalInv

LEMMA ErrorReplies ==
    ASSUME LocalInv, made \in Nat, made' = made, UNCHANGED <<op, pc, req>>, NEW gone,
           answer' = Rejecting(gone)
    PROVE  LocalInv'
<1>1. \A c \in Clients : answer'[c] = answer[c] \/ (pc[c] = "wait" /\ answer'[c] = ErrAnswer)
  BY DEF Rejecting, Waiting
<1>2. ErrAnswer.tag = "err"
  BY DEF ErrAnswer, NoAnswer
<1> QED
  BY <1>1, <1>2, LocalReplies

\* The fields of the requests the calls make.
LEMMA RequestFields ==
    /\ NoReq.gen = 0 /\ NoReq.id = 0 /\ NoReq.kind = "none" /\ NoReq.thread = 0 /\ NoReq.turn = 0
    /\ \A k, t, n : /\ Ask(k, t, n).gen = 0 /\ Ask(k, t, n).id = 0 /\ Ask(k, t, n).kind = k
                    /\ Ask(k, t, n).thread = t /\ Ask(k, t, n).turn = n
BY DEF NoReq, Ask

LEMMA NumberedFields ==
    ASSUME TypeOK, NEW c \in Clients
    PROVE  /\ Numbered(c).gen = stdin /\ Numbered(c).id = nextId
           /\ Numbered(c).kind = req[c].kind /\ Numbered(c).thread = req[c].thread
           /\ Numbered(c).turn = req[c].turn
<1>1. req[c] \in Requests
  BY CallFields
<1> QED
  BY <1>1 DEF Numbered, Requests

LEMMA EndCallLocal ==
    ASSUME TypeOK, LocalInv, NEW c \in Clients, EndCall(c), made' = made
    PROVE  LocalInv'
<1>1. Moves(c)
  BY EndCallMoves
<1>2. Shape(c)' /\ Reply(c)'
  BY DEF EndCall, Shape, Reply, NoAnswer, TypeOK
<1> QED
  BY <1>1, <1>2, LocalMoves

\* No call moves.
LEMMA NobodyMoves ==
    ASSUME LocalInv, UNCHANGED <<op, pc, req, answer, made>>
    PROVE  LocalInv'
BY DEF LocalInv, Shape, Starting, Reply

LEMMA LocalSteps == TypeOK /\ LocalInv /\ [Next]_vars => LocalInv'
<1> USE DEF handles, sessions, codex, world, history, client
<1> SUFFICES ASSUME TypeOK, LocalInv, [Next]_vars PROVE LocalInv'
  OBVIOUS
<1>0. made \in Nat
  BY DEF TypeOK
<1>1. ASSUME NEW c \in Clients, StartSession(c) PROVE LocalInv'
  <2>1. Moves(c)
    BY <1>1, OwnSteps DEF Begin, Proceed
  <2>2. Shape(c)' /\ Reply(c)'
    BY <1>1, RequestFields DEF StartSession, Answered, Waiting, Goto, AfterError, LocalInv,
       Shape, Starting, Reply, Asking, Prompts, NoAnswer, TypeOK
  <2> QED
    BY <1>1, <2>1, <2>2, LocalMoves DEF StartSession
<1>2. ASSUME NEW c \in Clients, ServerPresent(c) PROVE LocalInv'
  <2>1. Moves(c)
    BY <1>2, OwnSteps DEF Begin, Proceed
  <2>2. Shape(c)' /\ Reply(c)'
    BY <1>2, RequestFields DEF ServerPresent, Answered, Waiting, Goto, AfterError, LocalInv,
       Shape, Starting, Reply, Asking, Prompts, NoAnswer, TypeOK
  <2> QED
    BY <1>2, <2>1, <2>2, LocalMoves DEF ServerPresent
<1>3. ASSUME NEW c \in Clients, SpawnServer(c) PROVE LocalInv'
  <2>1. Moves(c)
    BY <1>3, OwnSteps DEF Begin, Proceed
  <2>2. Shape(c)' /\ Reply(c)'
    BY <1>3, RequestFields DEF SpawnServer, Answered, Waiting, Goto, AfterError, LocalInv,
       Shape, Starting, Reply, Asking, Prompts, NoAnswer, TypeOK
  <2> QED
    BY <1>3, <2>1, <2>2, LocalMoves DEF SpawnServer
<1>4. ASSUME NEW c \in Clients, SpawnFails(c) PROVE LocalInv'
  BY <1>4, EndCallLocal DEF SpawnFails
<1>5. ASSUME NEW c \in Clients, RequestNoServer(c) PROVE LocalInv'
  <2>1. Moves(c)
    BY <1>5, OwnSteps DEF Begin, Proceed
  <2>2. /\ req'[c].kind = req[c].kind /\ req'[c].thread = req[c].thread /\ op'[c] = op[c]
        /\ answer'[c] = answer[c] /\ pc[c] = "request"
    BY <1>5, NumberedFields DEF RequestNoServer, Issue, TypeOK
  <2>3. Shape(c)' /\ Reply(c)'
    BY <1>5, <2>2 DEF RequestNoServer, Issue, Goto, AfterError, LocalInv, Shape, Starting,
       Reply, Asking, Prompts, TypeOK
  <2> QED
    BY <1>5, <2>1, <2>3, LocalMoves DEF RequestNoServer, Issue
<1>6. ASSUME NEW c \in Clients, RequestWritten(c) PROVE LocalInv'
  <2>1. Moves(c)
    BY <1>6, OwnSteps DEF Begin, Proceed
  <2>2. /\ req'[c].kind = req[c].kind /\ req'[c].thread = req[c].thread /\ op'[c] = op[c]
        /\ answer'[c] = answer[c] /\ pc[c] = "request"
    BY <1>6, NumberedFields DEF RequestWritten, Issue, TypeOK
  <2>3. Shape(c)' /\ Reply(c)'
    BY <1>6, <2>2 DEF RequestWritten, Issue, Goto, AfterError, LocalInv, Shape, Starting,
       Reply, Asking, Prompts, TypeOK
  <2> QED
    BY <1>6, <2>1, <2>3, LocalMoves DEF RequestWritten, Issue
<1>7. ASSUME NEW c \in Clients, RequestWriteFails(c) PROVE LocalInv'
  <2>1. Moves(c)
    BY <1>7, OwnSteps DEF Begin, Proceed
  <2>2. /\ req'[c].kind = req[c].kind /\ req'[c].thread = req[c].thread /\ op'[c] = op[c]
        /\ answer'[c] = answer[c] /\ pc[c] = "request"
    BY <1>7, NumberedFields DEF RequestWriteFails, Issue, TypeOK
  <2>3. Shape(c)' /\ Reply(c)'
    BY <1>7, <2>2 DEF RequestWriteFails, Issue, Goto, AfterError, LocalInv, Shape, Starting,
       Reply, Asking, Prompts, TypeOK
  <2> QED
    BY <1>7, <2>1, <2>3, LocalMoves DEF RequestWriteFails, Issue
<1>8. ASSUME NEW c \in Clients, RequestBlocks(c) PROVE LocalInv'
  <2>1. Moves(c)
    BY <1>8, OwnSteps DEF Begin, Proceed
  <2>2. /\ req'[c].kind = req[c].kind /\ req'[c].thread = req[c].thread /\ op'[c] = op[c]
        /\ answer'[c] = answer[c] /\ pc[c] = "request"
    BY <1>8, NumberedFields DEF RequestBlocks, Issue, TypeOK
  <2>3. Shape(c)' /\ Reply(c)'
    BY <1>8, <2>2 DEF RequestBlocks, Issue, Goto, AfterError, LocalInv, Shape, Starting,
       Reply, Asking, Prompts, TypeOK
  <2> QED
    BY <1>8, <2>1, <2>3, LocalMoves DEF RequestBlocks, Issue
<1>9. ASSUME NEW c \in Clients, WriteCompletes(c) PROVE LocalInv'
  <2>1. Moves(c)
    BY <1>9, OwnSteps DEF Begin, Proceed
  <2>2. Shape(c)' /\ Reply(c)'
    BY <1>9, RequestFields DEF WriteCompletes, Answered, Waiting, Goto, AfterError,
       LocalInv, Shape, Starting, Reply, Asking, Prompts, NoAnswer, TypeOK
  <2> QED
    BY <1>9, <2>1, <2>2, LocalMoves DEF WriteCompletes
<1>10. ASSUME NEW c \in Clients, WriteBreaks(c) PROVE LocalInv'
  <2>1. Moves(c)
    BY <1>10, OwnSteps DEF Begin, Proceed
  <2>2. Shape(c)' /\ Reply(c)'
    BY <1>10, RequestFields DEF WriteBreaks, Answered, Waiting, Goto, AfterError, LocalInv,
       Shape, Starting, Reply, Asking, Prompts, NoAnswer, TypeOK
  <2> QED
    BY <1>10, <2>1, <2>2, LocalMoves DEF WriteBreaks
<1>11. ASSUME NEW c \in Clients, SessionGone(c) PROVE LocalInv'
  <2>1. Moves(c)
    BY <1>11, OwnSteps DEF Begin, Proceed
  <2>2. Shape(c)' /\ Reply(c)'
    BY <1>11, RequestFields DEF SessionGone, Answered, Waiting, Goto, AfterError, LocalInv,
       Shape, Starting, Reply, Asking, Prompts, NoAnswer, TypeOK
  <2> QED
    BY <1>11, <2>1, <2>2, LocalMoves DEF SessionGone
<1>12. ASSUME NEW c \in Clients, RequestTimesOut(c) PROVE LocalInv'
  <2>1. Moves(c)
    BY <1>12, OwnSteps DEF Begin, Proceed
  <2>2. Shape(c)' /\ Reply(c)'
    BY <1>12, RequestFields DEF RequestTimesOut, Answered, Waiting, Goto, AfterError,
       LocalInv, Shape, Starting, Reply, Asking, Prompts, NoAnswer, TypeOK
  <2> QED
    BY <1>12, <2>1, <2>2, LocalMoves DEF RequestTimesOut
<1>13. ASSUME NEW c \in Clients, RemoveExpired(c) PROVE LocalInv'
  <2>1. Moves(c)
    BY <1>13, OwnSteps DEF Begin, Proceed
  <2>2. Shape(c)' /\ Reply(c)'
    BY <1>13 DEF RemoveExpired, Goto, AfterError, Rejecting, Waiting, LocalInv, Shape,
       Starting, Reply, Asking, Prompts, TypeOK
  <2> QED
    BY <1>13, <2>1, <2>2, LocalMoves DEF RemoveExpired
<1>14. ASSUME NEW c \in Clients, RequestFails(c) PROVE LocalInv'
  <2>1. Moves(c)
    BY <1>14, OwnSteps DEF Begin, Proceed
  <2>2. Shape(c)' /\ Reply(c)'
    BY <1>14, RequestFields DEF RequestFails, Answered, Waiting, Goto, AfterError, LocalInv,
       Shape, Starting, Reply, Asking, Prompts, NoAnswer, TypeOK
  <2> QED
    BY <1>14, <2>1, <2>2, LocalMoves DEF RequestFails
<1>15. ASSUME NEW c \in Clients, Initialized(c) PROVE LocalInv'
  <2>1. CASE EndCall(c)
    BY <1>15, <2>1, EndCallLocal DEF Initialized
  <2>2. CASE ~EndCall(c)
    <3>1. Moves(c)
      BY <1>15, OwnSteps DEF Proceed
    <3>2. Shape(c)' /\ Reply(c)'
      BY <1>15, <2>2, RequestFields DEF Initialized, Answered, Goto, LocalInv, Shape,
         Starting, Reply, Asking, Prompts, NoAnswer, TypeOK
    <3> QED
      BY <1>15, <3>1, <3>2, LocalMoves DEF Initialized
  <2> QED
    BY <2>1, <2>2
<1>16. ASSUME NEW c \in Clients, Close(c) PROVE LocalInv'
  <2>1. Moves(c)
    BY <1>16, OwnSteps DEF Begin, Proceed
  <2>2. Shape(c)' /\ Reply(c)'
    BY <1>16 DEF Close, Goto, AfterError, Rejecting, Waiting, LocalInv, Shape, Starting,
       Reply, Asking, Prompts, TypeOK
  <2> QED
    BY <1>16, <2>1, <2>2, LocalMoves DEF Close
<1>17. ASSUME NEW c \in Clients, InsertSession(c) PROVE LocalInv'
  <2>1. Moves(c)
    BY <1>17, OwnSteps DEF Begin, Proceed
  <2>2. Shape(c)' /\ Reply(c)'
    BY <1>17, RequestFields DEF InsertSession, Answered, Waiting, Goto, AfterError,
       LocalInv, Shape, Starting, Reply, Asking, Prompts, NoAnswer, TypeOK
  <2> QED
    BY <1>17, <2>1, <2>2, LocalMoves DEF InsertSession
<1>18. ASSUME NEW c \in Clients, SetIdle(c) PROVE LocalInv'
  BY <1>18, EndCallLocal DEF SetIdle
<1>19. ASSUME NEW c \in Clients, TurnStarted(c) PROVE LocalInv'
  BY <1>19, EndCallLocal DEF TurnStarted
<1>20. ASSUME NEW c \in Clients, Steered(c) PROVE LocalInv'
  BY <1>20, EndCallLocal DEF Steered
<1>21. ASSUME NEW c \in Clients, MarkSessionFailed(c) PROVE LocalInv'
  BY <1>21, EndCallLocal DEF MarkSessionFailed
<1>22. ASSUME NEW c \in Clients, Interrupted(c) PROVE LocalInv'
  <2>1. Moves(c)
    BY <1>22, OwnSteps DEF Begin, Proceed
  <2>2. Shape(c)' /\ Reply(c)'
    BY <1>22, RequestFields DEF Interrupted, Answered, Waiting, Goto, AfterError, LocalInv,
       Shape, Starting, Reply, Asking, Prompts, NoAnswer, TypeOK
  <2> QED
    BY <1>22, <2>1, <2>2, LocalMoves DEF Interrupted
<1>23. ASSUME NEW c \in Clients, FinishStop(c) PROVE LocalInv'
  BY <1>23, EndCallLocal DEF FinishStop
<1>24. ASSUME NEW c \in Clients, NEW t \in Threads, SendMessage(c, t) PROVE LocalInv'
  <2>1. Moves(c)
    BY <1>24, OwnSteps DEF Begin, Proceed
  <2>2. Shape(c)' /\ Reply(c)'
    BY <1>24, RequestFields DEF SendMessage, Goto, LocalInv, Shape, Starting, Reply, Asking,
       Prompts, TypeOK
  <2> QED
    BY <1>24, <2>1, <2>2, LocalMoves DEF SendMessage
<1>25. ASSUME NEW c \in Clients, NEW t \in Threads, StopSession(c, t) PROVE LocalInv'
  <2>1. Moves(c)
    BY <1>25, OwnSteps DEF Begin, Proceed
  <2>2. Shape(c)' /\ Reply(c)'
    BY <1>25, RequestFields DEF StopSession, Goto, LocalInv, Shape, Starting, Reply, Asking,
       Prompts, TypeOK
  <2> QED
    BY <1>25, <2>1, <2>2, LocalMoves DEF StopSession
<1>26. ASSUME NEW g \in Gens, NEW r \in asked, HandleError(g, r) PROVE LocalInv'
  <2> DEFINE a == ErrAnswer
  <2>1. /\ a.tag = "ok" /\ a.of.kind = "turn/start" => a.val # 0
        /\ a.tag = "ok" /\ a.of.kind = "thread/start" => a.val \in 1 .. made'
    BY <1>0, <1>26 DEF HandleError, ErrAnswer, NoAnswer
  <2>2. \A c \in Clients : answer'[c] = answer[c] \/ (pc[c] = "wait" /\ answer'[c] = a)
    BY <1>26 DEF HandleError, Resolve, Waiting
  <2> HIDE DEF a
  <2> QED
    BY <1>0, <1>26, <2>1, <2>2, LocalReplies DEF HandleError
<1>27. ASSUME NEW g \in Gens, NEW r \in asked, HandleDone(g, r) PROVE LocalInv'
  <2> DEFINE a == OkAnswer(r, 0)
  <2>1. /\ a.tag = "ok" /\ a.of.kind = "turn/start" => a.val # 0
        /\ a.tag = "ok" /\ a.of.kind = "thread/start" => a.val \in 1 .. made'
    BY <1>0, <1>27 DEF HandleDone, OkAnswer
  <2>2. \A c \in Clients : answer'[c] = answer[c] \/ (pc[c] = "wait" /\ answer'[c] = a)
    BY <1>27 DEF HandleDone, Resolve, Waiting
  <2> HIDE DEF a
  <2> QED
    BY <1>0, <1>27, <2>1, <2>2, LocalReplies DEF HandleDone
<1>28. ASSUME NEW g \in Gens, NEW r \in asked, HandleThreadStarted(g, r) PROVE LocalInv'
  <2> DEFINE a == OkAnswer(r, made + 1)
  <2>1. /\ a.tag = "ok" /\ a.of.kind = "turn/start" => a.val # 0
        /\ a.tag = "ok" /\ a.of.kind = "thread/start" => a.val \in 1 .. made'
    BY <1>0, <1>28 DEF HandleThreadStarted, OkAnswer
  <2>2. \A c \in Clients : answer'[c] = answer[c] \/ (pc[c] = "wait" /\ answer'[c] = a)
    BY <1>28 DEF HandleThreadStarted, Resolve, Waiting
  <2> HIDE DEF a
  <2> QED
    BY <1>0, <1>28, <2>1, <2>2, LocalReplies DEF HandleThreadStarted
<1>29. ASSUME NEW g \in Gens, NEW r \in asked, HandleTurnStarted(g, r) PROVE LocalInv'
  <2> DEFINE a == OkAnswer(r, turns[r.thread] + 1)
  <2>1. /\ a.tag = "ok" /\ a.of.kind = "turn/start" => a.val # 0
        /\ a.tag = "ok" /\ a.of.kind = "thread/start" => a.val \in 1 .. made'
    BY <1>0, <1>29 DEF HandleTurnStarted, OkAnswer, Hosts, TypeOK
  <2>2. \A c \in Clients : answer'[c] = answer[c] \/ (pc[c] = "wait" /\ answer'[c] = a)
    BY <1>29 DEF HandleTurnStarted, Resolve, Waiting
  <2> HIDE DEF a
  <2> QED
    BY <1>0, <1>29, <2>1, <2>2, LocalReplies DEF HandleTurnStarted
<1>30. ASSUME NEW g \in Gens, NEW r \in asked, HandleSteered(g, r) PROVE LocalInv'
  <2> DEFINE a == OkAnswer(r, r.turn)
  <2>1. /\ a.tag = "ok" /\ a.of.kind = "turn/start" => a.val # 0
        /\ a.tag = "ok" /\ a.of.kind = "thread/start" => a.val \in 1 .. made'
    BY <1>0, <1>30 DEF HandleSteered, OkAnswer
  <2>2. \A c \in Clients : answer'[c] = answer[c] \/ (pc[c] = "wait" /\ answer'[c] = a)
    BY <1>30 DEF HandleSteered, Resolve, Waiting
  <2> HIDE DEF a
  <2> QED
    BY <1>0, <1>30, <2>1, <2>2, LocalReplies DEF HandleSteered
<1>31. ASSUME NEW g \in Gens, NEW t \in Threads, TurnCompleted(g, t) PROVE LocalInv'
  BY <1>31, NobodyMoves DEF TurnCompleted
<1>32. ASSUME NEW g \in Gens, NEW t \in Threads, ThreadClosed(g, t) PROVE LocalInv'
  BY <1>32, NobodyMoves DEF ThreadClosed
<1>33. ASSUME NEW g \in Gens, ReplyBlocks(g) PROVE LocalInv'
  BY <1>33, NobodyMoves DEF ReplyBlocks
<1>34. ASSUME NEW g \in Gens, ReplyDone(g) PROVE LocalInv'
  BY <1>34, NobodyMoves DEF ReplyDone
<1>35. ASSUME NEW g \in Gens, ServerExits(g) PROVE LocalInv'
  BY <1>35, NobodyMoves DEF ServerExits
<1>36. ASSUME NEW g \in Gens, KillServer(g) PROVE LocalInv'
  BY <1>36, NobodyMoves DEF KillServer, ServerExits
<1>37. ASSUME NEW g \in Gens, ReaderEnds(g) PROVE LocalInv'
  BY <1>0, <1>37, ErrorReplies DEF ReaderEnds, RejectPending
<1>38. ASSUME NEW g \in Gens, MonitorExit(g) PROVE LocalInv'
  BY <1>0, <1>38, ErrorReplies DEF MonitorExit, RejectPending
<1>39. CASE UNCHANGED vars
  BY <1>39, NobodyMoves DEF vars
<1> QED
  BY <1>1, <1>2, <1>3, <1>4, <1>5, <1>6, <1>7, <1>8, <1>9, <1>10, <1>11, <1>12, <1>13,
     <1>14, <1>15, <1>16, <1>17, <1>18, <1>19, <1>20, <1>21, <1>22, <1>23, <1>24, <1>25,
     <1>26, <1>27, <1>28, <1>29, <1>30, <1>31, <1>32, <1>33, <1>34, <1>35, <1>36, <1>37,
     <1>38, <1>39
     DEF Next, Begin, Proceed, Response, Notification

LEMMA LocalInitially == Init => LocalInv
BY RequestFields DEF Init, LocalInv, Shape, Reply, NoAnswer

LEMMA LocalCorrect == Spec => []LocalInv
BY LocalInitially, LocalSteps, TypeCorrect, PTL DEF Spec

-----------------------------------------------------------------------------
\* The senders.  WaiterHasSender is not inductive: removing the entries of one id must
\* not take another call's sender along (UniqueIds, which needs FreshIds), and a call
\* whose write is blocked is not waiting yet but will be (WriterHasSender).

Sender(c) == [id |-> req[c].id, owner |-> c]

\* The inductive strengthening of WaiterHasSender: ids are fresh and registered once,
\* and a call that is still writing holds the mutex and has its sender registered.
FreshIds == \A p \in pending : p.id < nextId
UniqueIds == \A p, q \in pending : p.id = q.id => p = q
WriterHasSender ==
    \A c \in Clients : pc[c] = "write" => holder = c /\ Sender(c) \in pending
SenderInv == FreshIds /\ UniqueIds /\ WriterHasSender /\ WaiterHasSender

-----------------------------------------------------------------------------
\* The ways a step can touch the senders

\* Only call c moves, and it is neither writing nor waiting afterwards.
Leaves(c) ==
    /\ pc'[c] \notin {"wait", "write"}
    /\ \A d \in Clients \ {c} : pc'[d] = pc[d] /\ req'[d] = req[d] /\ answer'[d] = answer[d]

LEMMA LeavesInv ==
    ASSUME TypeOK, SenderInv, NEW c \in Clients, Leaves(c),
           pending' = pending, holder' = holder, nextId' \in {nextId, nextId + 1}
    PROVE  SenderInv'
<1>1. FreshIds'
  BY DEF SenderInv, FreshIds, TypeOK
<1>2. UniqueIds'
  BY DEF SenderInv, UniqueIds
<1>3. WriterHasSender'
  BY DEF SenderInv, WriterHasSender, Sender, Leaves
<1>4. WaiterHasSender'
  BY DEF SenderInv, WaiterHasSender, Waiting, Leaves
<1> QED
  BY <1>1, <1>2, <1>3, <1>4 DEF SenderInv

\* No call moves, and the mutex changes hands only between readers.
LEMMA NoCallMoves ==
    ASSUME SenderInv, UNCHANGED <<pending, nextId, pc, req, answer>>,
           holder \in Clients => holder' = holder
    PROVE  SenderInv'
<1>1. FreshIds' /\ UniqueIds'
  BY DEF SenderInv, FreshIds, UniqueIds
<1>2. WriterHasSender'
  BY DEF SenderInv, WriterHasSender, Sender
<1>3. WaiterHasSender'
  BY DEF SenderInv, WaiterHasSender, Waiting
<1> QED
  BY <1>1, <1>2, <1>3 DEF SenderInv

\* Nobody writes while the mutex is free.
LEMMA NobodyWrites ==
    ASSUME SenderInv, LockFree
    PROVE  \A c \in Clients : pc[c] # "write"
BY BridgeAssumption DEF SenderInv, WriterHasSender, LockFree

\* Senders are taken away from calls that wait no longer, and nobody is writing.
LEMMA Removal ==
    ASSUME SenderInv, pending' \subseteq pending, FreshIds',
           \A c \in Clients : pc'[c] # "write",
           \A c \in Clients : Waiting(c)' => /\ Waiting(c) /\ req'[c] = req[c]
                                             /\ Sender(c) \in pending'
    PROVE  SenderInv'
<1>1. UniqueIds'
  BY DEF SenderInv, UniqueIds
<1>2. WriterHasSender'
  BY DEF WriterHasSender
<1>3. WaiterHasSender'
  BY DEF WaiterHasSender, Sender
<1> QED
  BY <1>1, <1>2, <1>3 DEF SenderInv

\* A call registers its fresh id and goes on to wait, or to write holding the mutex.
LEMMA Registration ==
    ASSUME TypeOK, SenderInv, NEW c \in Clients, Issue(c, Numbered(c)), Register(c), LockFree,
           \/ pc' = [pc EXCEPT ![c] = "wait"] /\ holder' = holder
           \/ pc' = [pc EXCEPT ![c] = "write"] /\ holder' = c
           \/ \E l \in PCs \ {"wait", "write"} : pc' = [pc EXCEPT ![c] = l] /\ holder' = holder
    PROVE  SenderInv'
<1>1. FreshIds'
  BY DEF SenderInv, FreshIds, Issue, Register, TypeOK
<1>2. UniqueIds'
  BY DEF SenderInv, FreshIds, UniqueIds, Register, TypeOK
<1>3. req' = [req EXCEPT ![c] = Numbered(c)] /\ Numbered(c).id = nextId /\ answer' = answer
  <2>1. req[c] \in Requests
    BY CallFields
  <2> QED
    BY <2>1 DEF Issue, Numbered, Requests
<1>4. Sender(c)' \in pending'
  BY <1>3 DEF Sender, Register, TypeOK
<1>5. \A d \in Clients \ {c} : Sender(d)' = Sender(d) /\ pc'[d] = pc[d] /\ answer'[d] = answer[d]
  BY <1>3 DEF Sender, TypeOK
<1>6. pending \subseteq pending'
  BY DEF Register
<1>7. WriterHasSender'
  BY <1>4, <1>5, <1>6, NobodyWrites DEF WriterHasSender, TypeOK
<1>8. WaiterHasSender'
  BY <1>4, <1>5, <1>6 DEF SenderInv, WaiterHasSender, Waiting, Sender
<1> QED
  BY <1>1, <1>2, <1>7, <1>8 DEF SenderInv
-----------------------------------------------------------------------------
\* The steps

\* No error path leads back to waiting or writing.
LEMMA AfterErrorLeaves == \A k \in Kinds : AfterError(k) \notin {"wait", "write"}
BY DEF AfterError

\* Ending a call leaves it neither waiting nor writing.
LEMMA EndCallLeaves ==
    ASSUME TypeOK, NEW c \in Clients, EndCall(c)
    PROVE  Leaves(c)
BY DEF EndCall, Leaves, TypeOK

LEMMA GotoLeaves ==
    ASSUME TypeOK, NEW c \in Clients
    PROVE  \A l \in PCs \ {"wait", "write"} :
               /\ Goto(c, l)
               /\ \A d \in Clients \ {c} : req'[d] = req[d] /\ answer'[d] = answer[d]
               => Leaves(c)
BY DEF Goto, Leaves, TypeOK

\* A response: only its own id is removed, and the call that waited for it is answered.
LEMMA ResolveInv ==
    ASSUME TypeOK, SenderInv, LockFree, NEW r, NEW a, a.tag # "none", Resolve(r, a),
           UNCHANGED <<nextId, pc, req>>
    PROVE  SenderInv'
<1>1. pending' \subseteq pending /\ FreshIds'
  BY DEF Resolve, SenderInv, FreshIds
<1>2. \A c \in Clients : pc'[c] # "write"
  BY NobodyWrites
<1>3. ASSUME NEW c \in Clients, Waiting(c)'
      PROVE  Waiting(c) /\ req'[c] = req[c] /\ Sender(c) \in pending'
  <2>1. answer'[c] = IF Waiting(c) /\ req[c].id = r.id /\ [id |-> r.id, owner |-> c] \in pending
                     THEN a ELSE answer[c]
    BY DEF Resolve
  <2>2. Waiting(c) /\ ~(req[c].id = r.id /\ [id |-> r.id, owner |-> c] \in pending)
    BY <1>3, <2>1 DEF Waiting
  <2>3. Sender(c) \in pending /\ Sender(c).id = req[c].id
    BY <2>2 DEF SenderInv, WaiterHasSender, Sender
  <2> QED
    BY <2>2, <2>3 DEF Resolve, Sender
<1> QED
  BY <1>1, <1>2, <1>3, Removal

\* Draining the map: whoever waited gets an error.
LEMMA RejectPendingInv ==
    ASSUME TypeOK, SenderInv, LockFree, RejectPending, UNCHANGED <<nextId, pc, req>>
    PROVE  SenderInv'
<1>1. pending' \subseteq pending /\ FreshIds'
  BY DEF RejectPending, FreshIds
<1>2. \A c \in Clients : pc'[c] # "write"
  BY NobodyWrites
<1>3. ASSUME NEW c \in Clients, Waiting(c)' PROVE FALSE
  <2>1. answer'[c] = IF Waiting(c) /\ Sender(c) \in pending THEN ErrAnswer ELSE answer[c]
    BY DEF RejectPending, Rejecting, Sender
  <2>2. Waiting(c) => Sender(c) \in pending
    BY DEF SenderInv, WaiterHasSender, Sender
  <2> QED
    BY <1>3, <2>1, <2>2 DEF Waiting, ErrAnswer, NoAnswer
<1> QED
  BY <1>1, <1>2, <1>3, Removal

LEMMA SendersCorrect == Spec => []SenderInv
<1> USE BridgeAssumption DEF handles, sessions, codex, world, history, client
<1>1. Init => SenderInv
  BY DEF Init, SenderInv, FreshIds, UniqueIds, WriterHasSender, WaiterHasSender, Waiting
<1>2. TypeOK /\ SenderInv /\ [Next]_vars => SenderInv'
  <2> SUFFICES ASSUME TypeOK, SenderInv, [Next]_vars PROVE SenderInv'
    OBVIOUS
  <2>1. ASSUME NEW c \in Clients, StartSession(c) PROVE SenderInv'
    <3>1. Leaves(c)
      BY <2>1 DEF StartSession, Goto, Leaves, TypeOK
    <3> QED
      BY <2>1, <3>1, LeavesInv DEF StartSession
  <2>2. ASSUME NEW c \in Clients, ServerPresent(c) PROVE SenderInv'
    <3>1. Leaves(c)
      BY <2>2 DEF ServerPresent, Goto, Leaves, TypeOK
    <3> QED
      BY <2>2, <3>1, LeavesInv DEF ServerPresent
  <2>3. ASSUME NEW c \in Clients, SpawnServer(c) PROVE SenderInv'
    <3>1. Leaves(c)
      BY <2>3 DEF SpawnServer, Goto, Leaves, TypeOK
    <3> QED
      BY <2>3, <3>1, LeavesInv DEF SpawnServer
  <2>4. ASSUME NEW c \in Clients, SessionGone(c) PROVE SenderInv'
    <3>1. Leaves(c)
      BY <2>4 DEF SessionGone, Goto, Leaves, TypeOK
    <3> QED
      BY <2>4, <3>1, LeavesInv DEF SessionGone
  <2>5. ASSUME NEW c \in Clients, RequestTimesOut(c) PROVE SenderInv'
    <3>1. Leaves(c)
      BY <2>5 DEF RequestTimesOut, Goto, Leaves, TypeOK
    <3> QED
      BY <2>5, <3>1, LeavesInv DEF RequestTimesOut
  <2>6. ASSUME NEW c \in Clients, InsertSession(c) PROVE SenderInv'
    <3>1. Leaves(c)
      BY <2>6 DEF InsertSession, Goto, Leaves, TypeOK
    <3> QED
      BY <2>6, <3>1, LeavesInv DEF InsertSession
  <2>7. ASSUME NEW c \in Clients, Interrupted(c) PROVE SenderInv'
    <3>1. Leaves(c)
      BY <2>7 DEF Interrupted, Goto, Leaves, TypeOK
    <3> QED
      BY <2>7, <3>1, LeavesInv DEF Interrupted
  <2>8. ASSUME NEW c \in Clients, NEW t \in Threads, SendMessage(c, t) PROVE SenderInv'
    <3>1. Leaves(c)
      BY <2>8 DEF SendMessage, Goto, Leaves, TypeOK
    <3> QED
      BY <2>8, <3>1, LeavesInv DEF SendMessage
  <2>9. ASSUME NEW c \in Clients, NEW t \in Threads, StopSession(c, t) PROVE SenderInv'
    <3>1. Leaves(c)
      BY <2>9 DEF StopSession, Goto, Leaves, TypeOK
    <3> QED
      BY <2>9, <3>1, LeavesInv DEF StopSession
  <2>10. ASSUME NEW c \in Clients, SpawnFails(c) PROVE SenderInv'
    <3>1. Leaves(c)
      BY <2>10, EndCallLeaves DEF SpawnFails
    <3> QED
      BY <2>10, <3>1, LeavesInv DEF SpawnFails
  <2>11. ASSUME NEW c \in Clients, SetIdle(c) PROVE SenderInv'
    <3>1. Leaves(c)
      BY <2>11, EndCallLeaves DEF SetIdle
    <3> QED
      BY <2>11, <3>1, LeavesInv DEF SetIdle
  <2>12. ASSUME NEW c \in Clients, TurnStarted(c) PROVE SenderInv'
    <3>1. Leaves(c)
      BY <2>12, EndCallLeaves DEF TurnStarted
    <3> QED
      BY <2>12, <3>1, LeavesInv DEF TurnStarted
  <2>13. ASSUME NEW c \in Clients, Steered(c) PROVE SenderInv'
    <3>1. Leaves(c)
      BY <2>13, EndCallLeaves DEF Steered
    <3> QED
      BY <2>13, <3>1, LeavesInv DEF Steered
  <2>14. ASSUME NEW c \in Clients, MarkSessionFailed(c) PROVE SenderInv'
    <3>1. Leaves(c)
      BY <2>14, EndCallLeaves DEF MarkSessionFailed
    <3> QED
      BY <2>14, <3>1, LeavesInv DEF MarkSessionFailed
  <2>15. ASSUME NEW c \in Clients, FinishStop(c) PROVE SenderInv'
    <3>1. Leaves(c)
      BY <2>15, EndCallLeaves DEF FinishStop
    <3> QED
      BY <2>15, <3>1, LeavesInv DEF FinishStop
  <2>16. ASSUME NEW c \in Clients, Initialized(c) PROVE SenderInv'
    <3>1. Leaves(c)
      BY <2>16, EndCallLeaves DEF Initialized, Goto, Leaves, TypeOK
    <3> QED
      BY <2>16, <3>1, LeavesInv DEF Initialized
  <2>17. ASSUME NEW c \in Clients, RequestFails(c) PROVE SenderInv'
    <3>1. Leaves(c)
      BY <2>17, CallFields, AfterErrorLeaves DEF RequestFails, Goto, Leaves, TypeOK
    <3> QED
      BY <2>17, <3>1, LeavesInv DEF RequestFails
  <2>18. ASSUME NEW c \in Clients, RequestWriteFails(c) PROVE SenderInv'
    <3>1. Leaves(c)
      BY <2>18, CallFields, AfterErrorLeaves DEF RequestWriteFails, Issue, Goto, Leaves, TypeOK
    <3> QED
      BY <2>18, <3>1, LeavesInv DEF RequestWriteFails, Issue
  <2>19. ASSUME NEW c \in Clients, RequestNoServer(c) PROVE SenderInv'
    <3>1. AfterError(req[c].kind) \in PCs \ {"wait", "write"}
      BY CallFields, AfterErrorType, AfterErrorLeaves
    <3> QED
      BY <2>19, <3>1, Registration DEF RequestNoServer, Goto
  <2>20. ASSUME NEW c \in Clients, RequestWritten(c) PROVE SenderInv'
    BY <2>20, Registration DEF RequestWritten, Goto
  <2>21. ASSUME NEW c \in Clients, RequestBlocks(c) PROVE SenderInv'
    BY <2>21, Registration DEF RequestBlocks, Goto
  <2>22. ASSUME NEW c \in Clients, WriteCompletes(c) PROVE SenderInv'
    <3>1. Sender(c) \in pending
      BY <2>22 DEF WriteCompletes, SenderInv, WriterHasSender
    <3>2. \A d \in Clients \ {c} : pc[d] # "write"
      BY <2>22 DEF WriteCompletes, SenderInv, WriterHasSender
    <3>3. FreshIds' /\ UniqueIds'
      BY <2>22 DEF WriteCompletes, SenderInv, FreshIds, UniqueIds
    <3>4. WriterHasSender'
      BY <2>22, <3>2 DEF WriteCompletes, Goto, WriterHasSender, TypeOK
    <3>5. WaiterHasSender'
      BY <2>22, <3>1 DEF WriteCompletes, Goto, SenderInv, WaiterHasSender, Waiting, Sender, TypeOK
    <3> QED
      BY <3>3, <3>4, <3>5 DEF SenderInv
  <2>23. ASSUME NEW c \in Clients, WriteBreaks(c) PROVE SenderInv'
    <3>1. Sender(c) \in pending
      BY <2>23 DEF WriteBreaks, SenderInv, WriterHasSender
    <3>2. \A d \in Clients \ {c} : pc[d] # "write"
      BY <2>23 DEF WriteBreaks, SenderInv, WriterHasSender
    <3>3. pc' = [pc EXCEPT ![c] = AfterError(req[c].kind)]
         /\ AfterError(req[c].kind) \notin {"wait", "write"}
      BY <2>23, CallFields, AfterErrorLeaves DEF WriteBreaks, Goto
    <3>4. pending' \subseteq pending /\ FreshIds'
      BY <2>23 DEF WriteBreaks, SenderInv, FreshIds
    <3>5. \A d \in Clients : pc'[d] # "write"
      BY <3>2, <3>3 DEF TypeOK
    <3>6. ASSUME NEW d \in Clients, Waiting(d)'
          PROVE  Waiting(d) /\ req'[d] = req[d] /\ Sender(d) \in pending'
      <4>1. d # c /\ Waiting(d) /\ req'[d] = req[d]
        BY <2>23, <3>3, <3>6 DEF WriteBreaks, Waiting, TypeOK
      <4>2. Sender(d) \in pending /\ Sender(d) # Sender(c)
        BY <4>1 DEF SenderInv, WaiterHasSender, Sender
      <4>3. Sender(d).id # req[c].id
        <5>1. Sender(c).id = req[c].id
          BY DEF Sender
        <5> QED
          BY <5>1, <3>1, <4>2 DEF SenderInv, UniqueIds
      <4> QED
        BY <2>23, <4>1, <4>2, <4>3 DEF WriteBreaks
    <3> QED
      BY <3>4, <3>5, <3>6, Removal
  <2>24. ASSUME NEW c \in Clients, RemoveExpired(c) PROVE SenderInv'
    <3>1. pc' = [pc EXCEPT ![c] = AfterError(req[c].kind)]
         /\ AfterError(req[c].kind) \notin {"wait", "write"}
      BY <2>24, CallFields, AfterErrorLeaves DEF RemoveExpired, Goto
    <3>2. pending' \subseteq pending /\ FreshIds'
      BY <2>24 DEF RemoveExpired, SenderInv, FreshIds
    <3>3. \A d \in Clients : pc'[d] # "write"
      BY <2>24, <3>1, NobodyWrites DEF RemoveExpired, TypeOK
    <3>4. ASSUME NEW d \in Clients, Waiting(d)'
          PROVE  Waiting(d) /\ req'[d] = req[d] /\ Sender(d) \in pending'
      <4> DEFINE gone == {p \in pending : p.id = req[c].id}
      <4>1. answer'[d] = IF Waiting(d) /\ Sender(d) \in gone THEN ErrAnswer ELSE answer[d]
        BY <2>24 DEF RemoveExpired, Rejecting, Sender
      <4>2. Waiting(d) /\ Sender(d) \notin gone /\ req'[d] = req[d]
        BY <2>24, <3>1, <3>4, <4>1 DEF RemoveExpired, Waiting, ErrAnswer, NoAnswer, TypeOK
      <4>3. Sender(d) \in pending
        BY <4>2 DEF SenderInv, WaiterHasSender, Sender
      <4> QED
        BY <2>24, <4>2, <4>3 DEF RemoveExpired
    <3> QED
      BY <3>2, <3>3, <3>4, Removal
  <2>25. ASSUME NEW c \in Clients, Close(c) PROVE SenderInv'
    <3>1. pending' \subseteq pending /\ FreshIds'
      BY <2>25 DEF Close, FreshIds
    <3>2. \A d \in Clients : pc'[d] # "write"
      BY <2>25, NobodyWrites DEF Close, TypeOK
    <3>3. ASSUME NEW d \in Clients, Waiting(d)' PROVE FALSE
      <4>1. answer'[d] = IF Waiting(d) /\ Sender(d) \in pending THEN ErrAnswer ELSE answer[d]
        BY <2>25 DEF Close, Rejecting, Sender
      <4>2. Waiting(d) => Sender(d) \in pending
        BY DEF SenderInv, WaiterHasSender, Sender
      <4> QED
        BY <2>25, <3>3, <4>1, <4>2 DEF Close, Waiting, ErrAnswer, NoAnswer, TypeOK
    <3> QED
      BY <3>1, <3>2, <3>3, Removal
  <2>26. ASSUME NEW g \in Gens, NEW r \in asked, HandleError(g, r) PROVE SenderInv'
    <3>1. ErrAnswer.tag # "none"
      BY DEF ErrAnswer, NoAnswer
    <3> QED
      BY <2>26, <3>1, ResolveInv DEF HandleError, Reads
  <2>27. ASSUME NEW g \in Gens, NEW r \in asked, HandleDone(g, r) PROVE SenderInv'
    <3>1. OkAnswer(r, 0).tag # "none"
      BY DEF OkAnswer
    <3> QED
      BY <2>27, <3>1, ResolveInv DEF HandleDone, Reads
  <2>28. ASSUME NEW g \in Gens, NEW r \in asked, HandleThreadStarted(g, r) PROVE SenderInv'
    <3>1. OkAnswer(r, made + 1).tag # "none"
      BY DEF OkAnswer
    <3> QED
      BY <2>28, <3>1, ResolveInv DEF HandleThreadStarted, Reads
  <2>29. ASSUME NEW g \in Gens, NEW r \in asked, HandleTurnStarted(g, r) PROVE SenderInv'
    <3>1. OkAnswer(r, turns[r.thread] + 1).tag # "none"
      BY DEF OkAnswer
    <3> QED
      BY <2>29, <3>1, ResolveInv DEF HandleTurnStarted, Reads
  <2>30. ASSUME NEW g \in Gens, NEW r \in asked, HandleSteered(g, r) PROVE SenderInv'
    <3>1. OkAnswer(r, r.turn).tag # "none"
      BY DEF OkAnswer
    <3> QED
      BY <2>30, <3>1, ResolveInv DEF HandleSteered, Reads
  <2>31. ASSUME NEW g \in Gens, NEW t \in Threads, TurnCompleted(g, t) PROVE SenderInv'
    BY <2>31, NoCallMoves DEF TurnCompleted
  <2>32. ASSUME NEW g \in Gens, NEW t \in Threads, ThreadClosed(g, t) PROVE SenderInv'
    BY <2>32, NoCallMoves DEF ThreadClosed
  <2>33. ASSUME NEW g \in Gens, ReplyBlocks(g) PROVE SenderInv'
    BY <2>33, NoCallMoves DEF ReplyBlocks, Reads, LockFree
  <2>34. ASSUME NEW g \in Gens, ReplyDone(g) PROVE SenderInv'
    <3>1. holder \notin Clients
      BY <2>34 DEF ReplyDone, Gens
    <3> QED
      BY <2>34, <3>1, NoCallMoves DEF ReplyDone
  <2>35. ASSUME NEW g \in Gens, ServerExits(g) PROVE SenderInv'
    BY <2>35, NoCallMoves DEF ServerExits
  <2>36. ASSUME NEW g \in Gens, KillServer(g) PROVE SenderInv'
    BY <2>36, NoCallMoves DEF KillServer, ServerExits
  <2>37. ASSUME NEW g \in Gens, ReaderEnds(g) PROVE SenderInv'
    BY <2>37, RejectPendingInv DEF ReaderEnds, Reads
  <2>38. ASSUME NEW g \in Gens, MonitorExit(g) PROVE SenderInv'
    BY <2>38, RejectPendingInv DEF MonitorExit
  <2>39. CASE UNCHANGED vars
    BY <2>39, NoCallMoves DEF vars
  <2> QED
    BY <2>1, <2>2, <2>3, <2>4, <2>5, <2>6, <2>7, <2>8, <2>9, <2>10, <2>11, <2>12, <2>13,
       <2>14, <2>15, <2>16, <2>17, <2>18, <2>19, <2>20, <2>21, <2>22, <2>23, <2>24, <2>25, <2>26,
       <2>27, <2>28, <2>29, <2>30, <2>31, <2>32, <2>33, <2>34, <2>35, <2>36, <2>37, <2>38, <2>39
       DEF Next, Begin, Proceed, Response, Notification
<1>3. QED
  BY <1>1, <1>2, TypeCorrect, PTL DEF Spec

\* Every waiting call of every reachable state has its sender in the pending map.
THEOREM SendersKept == Spec => []WaiterHasSender
<1>1. SenderInv => WaiterHasSender
  BY DEF SenderInv
<1> QED
  BY <1>1, SendersCorrect, PTL

-----------------------------------------------------------------------------
\* The ids of the requests

\* A request that was written went to a server that was spawned, and has an id below the
\* next, unless close() has started the ids again since.
Issued(r) == /\ r.gen \in Gens /\ server[r.gen] # "none"
             /\ r.gen \notin outdated => r.id < nextId

\* Two requests whose ids were taken from the same count.
Together(r, s) == r.gen = s.gen \/ (r.gen \notin outdated /\ s.gen \notin outdated)

OwnReply(c) == answer[c].tag = "ok" =>
    \/ answer[c].of = req[c]
    \/ answer[c].of.gen # req[c].gen /\ answer[c].of.gen \in outdated

\* A call that waits, or writes and will wait, does so since the ids last started again.
Current(c) == pc[c] = "write" \/ Waiting(c) => req[c].gen # 0 /\ req[c].gen \notin outdated

\* The inductive strengthening of OwnAnswer: among the requests of one server, and of all
\* the servers since the ids last started again, an id names a call and its request, those
\* the servers still have to answer included.
IdInv ==
    /\ stdin # 0 => server[stdin] # "none" /\ stdin \notin outdated
    /\ \A g \in outdated : server[g] # "none"
    /\ \A r \in asked : Issued(r)
    /\ \A c \in Clients : (req[c].gen # 0 => Issued(req[c])) /\ Current(c) /\ OwnReply(c)
    /\ \A c, d \in Clients :
         req[c].gen # 0 /\ req[d].gen # 0
         /\ Together(req[c], req[d]) /\ req[c].id = req[d].id => c = d
    /\ \A c \in Clients, r \in asked :
         req[c].gen # 0 /\ Together(r, req[c]) /\ r.id = req[c].id => r = req[c]

\* The call keeps its request, and what it receives is its own; or it has none that was
\* written.
Keeps(c) ==
    /\ pc'[c] = "write" => pc[c] = "write"
    /\ Waiting(c)' => Waiting(c)
    /\ req'[c] = req[c]
    /\ answer'[c] = answer[c] \/ answer'[c].tag # "ok" \/ OwnReply(c)'
Unwritten(c) == req'[c].gen = 0 /\ answer'[c].tag # "ok" /\ pc'[c] \notin {"write", "wait"}

\* The ids go on, or start again with nobody waiting.
Numbering ==
    \/ outdated' = outdated /\ nextId' = nextId /\ stdin' \in {0, stdin}
    \/ /\ outdated' = {g \in Gens : server[g] # "none"} /\ stdin' = 0
       /\ \A c \in Clients : pc'[c] # "write" /\ ~ Waiting(c)'

LEMMA KeptIds ==
    ASSUME TypeOK, IdInv, asked' \subseteq asked, Numbering,
           \A g \in Gens : server[g] # "none" => server'[g] # "none",
           \A c \in Clients : Keeps(c) \/ Unwritten(c)
    PROVE  IdInv'
<1>0. (stdin # 0 => stdin \in Gens) /\ outdated \subseteq Gens
  BY DEF TypeOK, Gens
<1>1. \A r : Issued(r) => Issued(r)'
  BY DEF Issued, Numbering
<1>2. outdated \subseteq outdated'
  BY <1>0 DEF Numbering, IdInv
<1>3. /\ (stdin # 0 => server[stdin] # "none" /\ stdin \notin outdated)'
      /\ \A g \in outdated' : server'[g] # "none"
      /\ \A r \in asked' : Issued(r)'
  BY <1>0, <1>1 DEF IdInv, Numbering
<1>4. ASSUME NEW c \in Clients
      PROVE  /\ req'[c].gen # 0 => Issued(req[c]) /\ Issued(req[c])' /\ req'[c] = req[c]
             /\ Current(c)' /\ OwnReply(c)'
  <2>1. CASE Keeps(c)
    <3>1. req'[c] = req[c] /\ (req[c].gen # 0 => Issued(req[c]))
      BY <2>1 DEF Keeps, IdInv
    <3>2. Current(c)'
      BY <2>1, <3>1 DEF Keeps, Current, Numbering, IdInv
    <3>3. OwnReply(c)'
      BY <1>2, <2>1, <3>1 DEF Keeps, OwnReply, IdInv
    <3> QED
      BY <1>1, <3>1, <3>2, <3>3
  <2>2. CASE Unwritten(c)
    BY <2>2 DEF Unwritten, Current, Waiting, OwnReply
  <2> QED
    BY <2>1, <2>2
<1>5. \A r, s : Issued(r) /\ Issued(s) /\ Together(r, s)' => Together(r, s)
  BY DEF Issued, Together, Numbering
<1>6. \A c, d \in Clients :
         req'[c].gen # 0 /\ req'[d].gen # 0
         /\ Together(req[c], req[d])' /\ req'[c].id = req'[d].id => c = d
  <2>1. ASSUME NEW c \in Clients, NEW d \in Clients, req'[c].gen # 0, req'[d].gen # 0,
               Together(req[c], req[d])', req'[c].id = req'[d].id
        PROVE  c = d
    <3>1. /\ req'[c] = req[c] /\ Issued(req[c]) /\ req'[d] = req[d] /\ Issued(req[d])
      BY <1>4, <2>1
    <3>2. Together(req[c], req[d])
      BY <1>5, <2>1, <3>1 DEF Together
    <3> QED
      BY <2>1, <3>1, <3>2 DEF IdInv
  <2> QED
    BY <2>1
<1>7. \A c \in Clients, r \in asked' :
         req'[c].gen # 0 /\ Together(r, req[c])' /\ r.id = req'[c].id => r = req'[c]
  BY <1>4, <1>5 DEF IdInv
<1> QED
  BY <1>3, <1>4, <1>6, <1>7 DEF IdInv, Together

LEMMA MovesKeep ==
    ASSUME NEW c \in Clients, Moves(c)
    PROVE  \A d \in Clients \ {c} : Keeps(d)
BY DEF Moves, Keeps, Waiting, ErrAnswer, NoAnswer

\* A step of a call that issues nothing.
LEMMA CallKeepsIds ==
    ASSUME TypeOK, IdInv, NEW c \in Clients, Begin(c) \/ Proceed(c) \/ WriteCompletes(c),
           Keeps(c) \/ Unwritten(c), UNCHANGED <<asked, server, outdated, nextId, stdin>>
    PROVE  IdInv'
<1>1. \A d \in Clients \ {c} : Keeps(d)
  BY OwnSteps, MovesKeep
<1> QED
  BY <1>1, KeptIds DEF Numbering

LEMMA EndCallUnwritten ==
    ASSUME TypeOK, NEW c \in Clients, EndCall(c)
    PROVE  Unwritten(c)
BY RequestFields DEF EndCall, Unwritten, NoAnswer, TypeOK

\* A request takes the next id, which no other request to this server has.
LEMMA IssuedIds ==
    ASSUME TypeOK, LocalInv, IdInv, NEW c \in Clients, Begin(c) \/ Proceed(c),
           pc[c] = "request", Issue(c, Numbered(c)), asked' \in {asked, asked \cup {Numbered(c)}},
           asked' # asked \/ pc'[c] \in {"write", "wait"} => stdin # 0
    PROVE  IdInv'
<1>0. PICK n : n = Numbered(c)
  OBVIOUS
<1>1. /\ stdin' = stdin /\ server' = server /\ nextId' = nextId + 1 /\ nextId \in Nat
      /\ outdated' = outdated
      /\ req'[c] = n /\ answer'[c] = answer[c] /\ answer[c].tag = "none"
  BY <1>0 DEF Issue, LocalInv, Reply, handles, codex, world, history, TypeOK
<1>2. n.gen = stdin /\ n.id = nextId
  BY <1>0, NumberedFields
<1>3. \A d \in Clients \ {c} : Keeps(d)
  BY OwnSteps, MovesKeep
<1>4. stdin # 0 => stdin \in Gens
  BY DEF TypeOK, Gens
<1>5. \A r : /\ Issued(r) /\ r.id \in Nat => Issued(r)'
             /\ Issued(r) /\ r.gen \notin outdated => r.id < nextId
  BY <1>1 DEF Issued
<1>6. stdin # 0 => Issued(n)' /\ n.gen \notin outdated
  BY <1>1, <1>2, <1>4 DEF IdInv, Issued
<1>7. (\A r \in asked : r.id \in Nat) /\ \A d \in Clients : req[d].id \in Nat
  BY CallFields, MessageTypes DEF TypeOK
<1>8. \A r \in asked' : Issued(r)'
  BY <1>0, <1>5, <1>6, <1>7 DEF IdInv
<1>9. ASSUME NEW d \in Clients
      PROVE  (req'[d].gen # 0 => Issued(req[d])') /\ Current(d)' /\ OwnReply(d)'
  <2>1. CASE d = c
    BY <1>1, <1>2, <1>6, <2>1 DEF OwnReply, Current, Waiting
  <2>2. CASE d # c
    <3>1. req'[d] = req[d] /\ (req'[d].gen # 0 => Issued(req[d])')
      BY <1>3, <1>5, <1>7, <2>2 DEF IdInv, Keeps
    <3>2. Current(d)'
      BY <1>1, <1>3, <2>2 DEF IdInv, Keeps, Current
    <3>3. OwnReply(d)'
      BY <1>1, <1>3, <2>2 DEF IdInv, Keeps, OwnReply
    <3> QED
      BY <3>1, <3>2, <3>3
  <2> QED
    BY <2>1, <2>2
<1>10. \A r, s : Together(r, s)' <=> Together(r, s)
  BY <1>1 DEF Together
<1>11. ASSUME NEW r, Issued(r), r.id \in Nat, n.gen # 0, Together(r, n) PROVE n.id # r.id
  BY <1>2, <1>5, <1>6, <1>11 DEF Together
<1>12. ASSUME NEW d \in Clients \ {c}, req'[d].gen # 0
       PROVE  req'[d] = req[d] /\ Issued(req[d]) /\ req[d].id \in Nat
  BY <1>3, <1>7, <1>12 DEF IdInv, Keeps
<1>13. \A d, e \in Clients :
         req'[d].gen # 0 /\ req'[e].gen # 0
         /\ Together(req'[d], req'[e]) /\ req'[d].id = req'[e].id => d = e
  <2>1. ASSUME NEW d \in Clients \ {c}, req'[d].gen # 0, n.gen # 0,
               Together(req'[d], n) \/ Together(n, req'[d])
        PROVE  req'[d].id # n.id
    <3>1. Together(req[d], n) /\ Issued(req[d]) /\ req[d].id \in Nat /\ req'[d] = req[d]
      BY <1>12, <2>1 DEF Together
    <3> QED
      BY <1>11, <2>1, <3>1
  <2>2. ASSUME NEW d \in Clients, NEW e \in Clients, req'[d].gen # 0, req'[e].gen # 0,
               Together(req'[d], req'[e]), req'[d].id = req'[e].id, d # e
        PROVE  FALSE
    <3>1. CASE d = c
      BY <1>1, <2>1, <2>2, <3>1
    <3>2. CASE e = c
      BY <1>1, <2>1, <2>2, <3>2
    <3>3. CASE d # c /\ e # c
      BY <1>12, <2>2, <3>3 DEF IdInv
    <3> QED
      BY <3>1, <3>2, <3>3
  <2> QED
    BY <2>2
<1>14. ASSUME NEW d \in Clients, NEW r \in asked',
              req'[d].gen # 0, Together(r, req'[d]), r.id = req'[d].id
       PROVE  r = req'[d]
  <2>2. CASE r \in asked /\ d = c
    <3>1. req'[d] = n /\ Issued(r) /\ r.id \in Nat
      BY <1>1, <1>7, <2>2 DEF IdInv
    <3> QED
      BY <1>11, <1>14, <3>1
  <2>3. CASE r \in asked /\ d # c
    BY <1>12, <1>14, <2>3 DEF IdInv
  <2>4. CASE r = n /\ d # c
    <3>1. r.gen # 0
      BY <1>8 DEF Issued, Gens
    <3>2. req'[d] = req[d] /\ Issued(req[d]) /\ req[d].id \in Nat /\ Together(req[d], n)
      BY <1>12, <1>14, <2>4 DEF Together
    <3> QED
      BY <1>11, <1>14, <2>4, <3>1, <3>2
  <2>5. CASE r = n /\ d = c
    BY <1>1, <2>5
  <2> QED
    BY <1>0, <2>2, <2>3, <2>4, <2>5
<1>15. /\ (stdin # 0 => server[stdin] # "none" /\ stdin \notin outdated)'
       /\ \A g \in outdated' : server'[g] # "none"
  BY <1>1 DEF IdInv
<1> QED
  BY <1>8, <1>9, <1>10, <1>13, <1>14, <1>15 DEF IdInv

\* A reply goes to whoever waits under its id; from the server that call wrote to, it is
\* the reply to its request.
LEMMA ResolvedIds ==
    ASSUME TypeOK, IdInv, NEW r \in asked, NEW a, Resolve(r, a), a.tag # "none",
           a.tag = "ok" => a.of = r,
           UNCHANGED <<stdin, nextId, server, outdated, pc, req>>
    PROVE  IdInv'
<1>1. ASSUME NEW c \in Clients PROVE Keeps(c)
  <2>1. answer'[c] = answer[c] \/ (answer'[c] = a /\ Waiting(c) /\ req[c].id = r.id)
    BY DEF Resolve
  <2>2. CASE answer'[c] = answer[c]
    BY <2>2 DEF Keeps, Waiting
  <2>3. CASE answer'[c] = a /\ Waiting(c) /\ req[c].id = r.id
    <3>1. req[c].gen # 0 /\ req[c].gen \notin outdated
      BY <2>3 DEF IdInv, Current
    <3>2. r.gen \notin outdated => r = req[c]
      BY <2>3, <3>1 DEF IdInv, Together
    <3>3. OwnReply(c)'
      BY <2>3, <3>1, <3>2 DEF OwnReply
    <3> QED
      BY <2>3, <3>3 DEF Keeps, Waiting
  <2> QED
    BY <2>1, <2>2, <2>3
<1>2. asked' \subseteq asked
  BY DEF Resolve
<1> QED
  BY <1>1, <1>2, KeptIds DEF Numbering

LEMMA IdSteps == TypeOK /\ LocalInv /\ SenderInv /\ IdInv /\ [Next]_vars => IdInv'
<1> USE DEF handles, sessions, codex, world, history, client
<1> SUFFICES ASSUME TypeOK, LocalInv, SenderInv, IdInv, [Next]_vars PROVE IdInv'
  OBVIOUS
<1>1. ASSUME NEW c \in Clients, StartSession(c) PROVE IdInv'
  <2>1. Keeps(c)
    BY <1>1 DEF StartSession, Goto, Keeps, Waiting, TypeOK
  <2> QED
    BY <1>1, <2>1, CallKeepsIds DEF StartSession, Begin
<1>2. ASSUME NEW c \in Clients, ServerPresent(c) PROVE IdInv'
  <2>1. Unwritten(c)
    BY <1>2, RequestFields DEF ServerPresent, Goto, Unwritten, LocalInv, Reply, TypeOK
  <2> QED
    BY <1>2, <2>1, CallKeepsIds DEF ServerPresent, Proceed
<1>3. ASSUME NEW c \in Clients, SpawnServer(c) PROVE IdInv'
  <2>1. PICK g \in Gens : /\ stdin = 0 /\ server[g] = "none" /\ stdin' = g
                          /\ server' = [server EXCEPT ![g] = "alive"]
    BY <1>3 DEF SpawnServer
  <2>2. \A r : Issued(r) => Issued(r)'
    BY <1>3, <2>1 DEF SpawnServer, Issued, TypeOK
  <2>3. server'[g] # "none" /\ \A r \in asked : Issued(r)'
    BY <2>1, <2>2 DEF IdInv, TypeOK
  <2>4. Unwritten(c) /\ \A d \in Clients \ {c} : Keeps(d)
    <3>1. pc[c] = "ensure" /\ answer[c].tag = "none" /\ answer' = answer
      BY <1>3 DEF SpawnServer, LocalInv, Reply
    <3>2. req'[c].gen = 0 /\ pc'[c] = "request"
      BY <1>3, RequestFields DEF SpawnServer, Goto, TypeOK
    <3> QED
      BY <1>3, <3>1, <3>2, OwnSteps, MovesKeep DEF Proceed, Unwritten
  <2>5. asked' = asked
    BY <1>3 DEF SpawnServer
  <2>6. outdated' = outdated
    BY <1>3 DEF SpawnServer
  <2>7. ASSUME NEW d \in Clients
        PROVE  /\ req'[d].gen # 0 => Issued(req[d])' /\ req'[d] = req[d]
               /\ Current(d)' /\ OwnReply(d)'
    <3>1. CASE d = c
      BY <2>4, <3>1 DEF Unwritten, Current, Waiting, OwnReply
    <3>2. CASE d # c
      BY <2>2, <2>4, <2>6, <3>2 DEF IdInv, Keeps, Current, OwnReply
    <3> QED
      BY <3>1, <3>2
  <2>8. \A d, e \in Clients :
           req'[d].gen # 0 /\ req'[e].gen # 0
           /\ Together(req[d], req[e])' /\ req'[d].id = req'[e].id => d = e
    <3>1. ASSUME NEW d \in Clients, NEW e \in Clients, req'[d].gen # 0, req'[e].gen # 0,
                 Together(req[d], req[e])', req'[d].id = req'[e].id
          PROVE  d = e
      <4>1. req'[d] = req[d] /\ req'[e] = req[e]
        BY <2>7, <3>1
      <4> QED
        BY <2>6, <3>1, <4>1 DEF IdInv, Together
    <3> QED
      BY <3>1
  <2>9. \A d \in Clients, r \in asked :
           req'[d].gen # 0 /\ Together(r, req[d])' /\ r.id = req'[d].id => r = req'[d]
    BY <2>6, <2>7 DEF IdInv, Together
  <2>10. g \notin outdated /\ \A h \in outdated : server'[h] # "none"
    BY <2>1 DEF IdInv, TypeOK
  <2> QED
    BY <2>1, <2>3, <2>5, <2>6, <2>7, <2>8, <2>9, <2>10 DEF IdInv, Together
<1>4. ASSUME NEW c \in Clients, SpawnFails(c) PROVE IdInv'
  BY <1>4, EndCallUnwritten, CallKeepsIds DEF SpawnFails, Proceed
<1>5. ASSUME NEW c \in Clients, RequestNoServer(c) PROVE IdInv'
  <2>1. pc'[c] \notin {"write", "wait"}
    BY <1>5, CallFields, AfterErrorLeaves DEF RequestNoServer, Goto, TypeOK
  <2> QED
    BY <1>5, <2>1, IssuedIds DEF RequestNoServer, Proceed
<1>6. ASSUME NEW c \in Clients, RequestWritten(c) PROVE IdInv'
  BY <1>6, IssuedIds DEF RequestWritten, Proceed
<1>7. ASSUME NEW c \in Clients, RequestWriteFails(c) PROVE IdInv'
  <2>1. pc'[c] # "write"
    BY <1>7, CallFields, AfterErrorLeaves DEF RequestWriteFails, Goto, TypeOK
  <2> QED
    BY <1>7, <2>1, IssuedIds DEF RequestWriteFails, Proceed
<1>8. ASSUME NEW c \in Clients, RequestBlocks(c) PROVE IdInv'
  BY <1>8, IssuedIds DEF RequestBlocks, Proceed
<1>9. ASSUME NEW c \in Clients, WriteCompletes(c) PROVE IdInv'
  <2>1. \A d \in Clients \ {c} : Keeps(d)
    BY <1>9, OwnSteps, MovesKeep
  <2>2. req[c].gen # 0 /\ req[c].gen \notin outdated /\ Issued(req[c])
    BY <1>9 DEF WriteCompletes, IdInv, Current
  <2>3. /\ UNCHANGED <<stdin, nextId, server, outdated, req, answer>>
        /\ asked' = asked \cup {req[c]}
    BY <1>9 DEF WriteCompletes
  <2>4. \A r : Issued(r)' <=> Issued(r)
    BY <2>3 DEF Issued
  <2>5. \A d \in Clients : Current(d)'
    BY <2>1, <2>2, <2>3 DEF IdInv, Current, Keeps
  <2> QED
    BY <2>2, <2>3, <2>4, <2>5 DEF IdInv, OwnReply, Together
<1>10. ASSUME NEW c \in Clients, WriteBreaks(c) PROVE IdInv'
  <2>1. Keeps(c)
    BY <1>10, CallFields, AfterErrorLeaves DEF WriteBreaks, Goto, Keeps, Waiting, TypeOK
  <2> QED
    BY <1>10, <2>1, CallKeepsIds DEF WriteBreaks, Proceed
<1>11. ASSUME NEW c \in Clients, SessionGone(c) PROVE IdInv'
  <2>1. Keeps(c)
    BY <1>11 DEF SessionGone, Goto, Keeps, Waiting, TypeOK
  <2> QED
    BY <1>11, <2>1, CallKeepsIds DEF SessionGone, Proceed
<1>12. ASSUME NEW c \in Clients, RequestTimesOut(c) PROVE IdInv'
  <2>1. Keeps(c)
    BY <1>12 DEF RequestTimesOut, Goto, Keeps, Waiting, TypeOK
  <2> QED
    BY <1>12, <2>1, CallKeepsIds DEF RequestTimesOut, Proceed
<1>13. ASSUME NEW c \in Clients, RemoveExpired(c) PROVE IdInv'
  <2>1. Keeps(c)
    BY <1>13, CallFields, AfterErrorLeaves DEF RemoveExpired, Goto, Keeps, Waiting, Rejecting,
       ErrAnswer, NoAnswer, TypeOK
  <2> QED
    BY <1>13, <2>1, CallKeepsIds DEF RemoveExpired, Proceed
<1>14. ASSUME NEW c \in Clients, RequestFails(c) PROVE IdInv'
  <2>1. Keeps(c)
    BY <1>14, CallFields, AfterErrorLeaves DEF RequestFails, Goto, Keeps, Waiting, NoAnswer, TypeOK
  <2> QED
    BY <1>14, <2>1, CallKeepsIds DEF RequestFails, Proceed
<1>15. ASSUME NEW c \in Clients, Initialized(c) PROVE IdInv'
  <2>1. Unwritten(c)
    BY <1>15, EndCallUnwritten, RequestFields DEF Initialized, Goto, Unwritten, NoAnswer,
       TypeOK
  <2> QED
    BY <1>15, <2>1, CallKeepsIds DEF Initialized, Proceed
<1>16. ASSUME NEW c \in Clients, Close(c) PROVE IdInv'
  <2>1. Unwritten(c) /\ \A d \in Clients \ {c} : Keeps(d)
    BY <1>16, OwnSteps, MovesKeep, RequestFields DEF Close, Unwritten, LocalInv, Reply,
       Rejecting, Waiting, Proceed, TypeOK
  <2>2. ASSUME NEW d \in Clients PROVE pc'[d] # "write" /\ ~ Waiting(d)'
    <3>1. pc[d] # "write" /\ pc'[d] \in {pc[d], "idle"}
      BY <1>16, NobodyWrites DEF Close, TypeOK
    <3>2. answer'[d] = IF Waiting(d) /\ Sender(d) \in pending THEN ErrAnswer ELSE answer[d]
      BY <1>16 DEF Close, Rejecting, Sender
    <3>3. Waiting(d) => Sender(d) \in pending
      BY DEF SenderInv, WaiterHasSender, Sender
    <3> QED
      BY <3>1, <3>2, <3>3 DEF Waiting, ErrAnswer, NoAnswer
  <2>3. Numbering
    BY <1>16, <2>2 DEF Close, DropHandles, Numbering
  <2> QED
    BY <1>16, <2>1, <2>3, KeptIds DEF Close
<1>17. ASSUME NEW c \in Clients, InsertSession(c) PROVE IdInv'
  <2>1. Unwritten(c)
    BY <1>17, RequestFields DEF InsertSession, Goto, Unwritten, NoAnswer, TypeOK
  <2> QED
    BY <1>17, <2>1, CallKeepsIds DEF InsertSession, Proceed
<1>18. ASSUME NEW c \in Clients, SetIdle(c) PROVE IdInv'
  BY <1>18, EndCallUnwritten, CallKeepsIds DEF SetIdle, Proceed
<1>19. ASSUME NEW c \in Clients, TurnStarted(c) PROVE IdInv'
  BY <1>19, EndCallUnwritten, CallKeepsIds DEF TurnStarted, Proceed
<1>20. ASSUME NEW c \in Clients, Steered(c) PROVE IdInv'
  BY <1>20, EndCallUnwritten, CallKeepsIds DEF Steered, Proceed
<1>21. ASSUME NEW c \in Clients, MarkSessionFailed(c) PROVE IdInv'
  BY <1>21, EndCallUnwritten, CallKeepsIds DEF MarkSessionFailed, Proceed
<1>22. ASSUME NEW c \in Clients, Interrupted(c) PROVE IdInv'
  <2>1. Keeps(c)
    BY <1>22 DEF Interrupted, Goto, Keeps, Waiting, NoAnswer, TypeOK
  <2> QED
    BY <1>22, <2>1, CallKeepsIds DEF Interrupted, Proceed
<1>23. ASSUME NEW c \in Clients, FinishStop(c) PROVE IdInv'
  BY <1>23, EndCallUnwritten, CallKeepsIds DEF FinishStop, Proceed
<1>24. ASSUME NEW c \in Clients, NEW t \in Threads, SendMessage(c, t) PROVE IdInv'
  <2>1. Unwritten(c)
    BY <1>24, RequestFields DEF SendMessage, Goto, Unwritten, LocalInv, Reply, TypeOK
  <2> QED
    BY <1>24, <2>1, CallKeepsIds DEF SendMessage, Begin
<1>25. ASSUME NEW c \in Clients, NEW t \in Threads, StopSession(c, t) PROVE IdInv'
  <2>1. Unwritten(c)
    BY <1>25, RequestFields DEF StopSession, Goto, Unwritten, LocalInv, Reply, TypeOK
  <2> QED
    BY <1>25, <2>1, CallKeepsIds DEF StopSession, Begin
<1>26. ASSUME NEW g \in Gens, NEW r \in asked, HandleError(g, r) PROVE IdInv'
  <2>1. ErrAnswer.tag # "none" /\ (ErrAnswer.tag = "ok" => ErrAnswer.of = r)
    BY DEF ErrAnswer, NoAnswer
  <2> QED
    BY <1>26, <2>1, ResolvedIds DEF HandleError
<1>27. ASSUME NEW g \in Gens, NEW r \in asked, HandleDone(g, r) PROVE IdInv'
  <2>1. OkAnswer(r, 0).tag # "none" /\ (OkAnswer(r, 0).tag = "ok" => OkAnswer(r, 0).of = r)
    BY DEF OkAnswer
  <2> QED
    BY <1>27, <2>1, ResolvedIds DEF HandleDone
<1>28. ASSUME NEW g \in Gens, NEW r \in asked, HandleThreadStarted(g, r) PROVE IdInv'
  <2>1. OkAnswer(r, made + 1).tag # "none" /\ (OkAnswer(r, made + 1).tag = "ok" => OkAnswer(r, made + 1).of = r)
    BY DEF OkAnswer
  <2> QED
    BY <1>28, <2>1, ResolvedIds DEF HandleThreadStarted
<1>29. ASSUME NEW g \in Gens, NEW r \in asked, HandleTurnStarted(g, r) PROVE IdInv'
  <2>1. OkAnswer(r, turns[r.thread] + 1).tag # "none" /\ (OkAnswer(r, turns[r.thread] + 1).tag = "ok" => OkAnswer(r, turns[r.thread] + 1).of = r)
    BY DEF OkAnswer
  <2> QED
    BY <1>29, <2>1, ResolvedIds DEF HandleTurnStarted
<1>30. ASSUME NEW g \in Gens, NEW r \in asked, HandleSteered(g, r) PROVE IdInv'
  <2>1. OkAnswer(r, r.turn).tag # "none" /\ (OkAnswer(r, r.turn).tag = "ok" => OkAnswer(r, r.turn).of = r)
    BY DEF OkAnswer
  <2> QED
    BY <1>30, <2>1, ResolvedIds DEF HandleSteered
<1>31. ASSUME NEW g \in Gens, NEW t \in Threads, TurnCompleted(g, t) PROVE IdInv'
  BY <1>31, KeptIds DEF Numbering, Waiting, TurnCompleted, Keeps
<1>32. ASSUME NEW g \in Gens, NEW t \in Threads, ThreadClosed(g, t) PROVE IdInv'
  BY <1>32, KeptIds DEF Numbering, Waiting, ThreadClosed, Keeps
<1>33. ASSUME NEW g \in Gens, ReplyBlocks(g) PROVE IdInv'
  BY <1>33, KeptIds DEF Numbering, Waiting, ReplyBlocks, Keeps
<1>34. ASSUME NEW g \in Gens, ReplyDone(g) PROVE IdInv'
  BY <1>34, KeptIds DEF Numbering, Waiting, ReplyDone, Keeps
<1>35. ASSUME NEW g \in Gens, ServerExits(g) PROVE IdInv'
  BY <1>35, KeptIds DEF Numbering, Waiting, ServerExits, Keeps, TypeOK
<1>36. ASSUME NEW g \in Gens, KillServer(g) PROVE IdInv'
  BY <1>36, KeptIds DEF Numbering, Waiting, KillServer, ServerExits, Keeps, TypeOK
<1>37. ASSUME NEW g \in Gens, ReaderEnds(g) PROVE IdInv'
  <2>1. \A c \in Clients : Keeps(c)
    BY <1>37 DEF ReaderEnds, RejectPending, Rejecting, Keeps, Waiting, ErrAnswer,
       NoAnswer
  <2> QED
    BY <1>37, <2>1, KeptIds DEF Numbering, Waiting, ReaderEnds, DropHandles, RejectPending, TypeOK
<1>38. ASSUME NEW g \in Gens, MonitorExit(g) PROVE IdInv'
  <2>1. \A c \in Clients : Keeps(c)
    BY <1>38 DEF MonitorExit, RejectPending, Rejecting, Keeps, Waiting, ErrAnswer,
       NoAnswer
  <2> QED
    BY <1>38, <2>1, KeptIds DEF Numbering, Waiting, MonitorExit, DropHandles, RejectPending, TypeOK
<1>39. CASE UNCHANGED vars
  BY <1>39, KeptIds DEF Numbering, Waiting, vars, Keeps
<1> QED
  BY <1>1, <1>2, <1>3, <1>4, <1>5, <1>6, <1>7, <1>8, <1>9, <1>10, <1>11, <1>12, <1>13,
     <1>14, <1>15, <1>16, <1>17, <1>18, <1>19, <1>20, <1>21, <1>22, <1>23, <1>24, <1>25,
     <1>26, <1>27, <1>28, <1>29, <1>30, <1>31, <1>32, <1>33, <1>34, <1>35, <1>36, <1>37,
     <1>38, <1>39
     DEF Next, Begin, Proceed, Response, Notification

\* A call gets the reply to its own request, or, once close() has started the ids again
\* at 1, one of a server spawned before that, never one of the server it wrote to.
THEOREM AnswersOwn == Spec => []OwnAnswer
<1>1. ASSUME Init PROVE IdInv
  <2>1. stdin = 0 /\ outdated = {} /\ asked = {} /\ \A c \in Clients : req[c].gen = 0
    BY <1>1, RequestFields DEF Init
  <2>2. \A c \in Clients : pc[c] = "idle" /\ answer[c].tag = "none"
    BY <1>1 DEF Init, NoAnswer
  <2> QED
    BY <2>1, <2>2 DEF IdInv, OwnReply, Current, Waiting
<1>2. IdInv => OwnAnswer
  BY DEF IdInv, OwnReply, OwnAnswer
<1> QED
  BY <1>1, <1>2, IdSteps, TypeCorrect, LocalCorrect, SendersCorrect, PTL DEF Spec

-----------------------------------------------------------------------------
\* The sessions

\* The reply call c waits for has come, and offers it thread t for a new session.
Offered(c, t) ==
    /\ pc[c] = "wait" /\ req[c].kind = "thread/start"
    /\ answer[c].tag = "ok" /\ answer[c].of.kind = "thread/start" /\ answer[c].val = t

\* Sessions are for threads that exist; sends and stops are for sessions whose id a
\* caller was given, which is not yet so while the session's start is at work.
OwnedCall(c) ==
    /\ req[c].thread <= made
    /\ op[c] \in {"send", "stop"} => req[c].thread \in known
    /\ \A t \in Threads :
         /\ op[c] = "start" /\ req[c].thread = t => t \notin known /\ active[t] = 0
         /\ Offered(c, t) => t \notin known /\ status[t] = "none"
Owned ==
    /\ known \subseteq 1 .. made
    /\ \A t \in Threads : status[t] # "none" => t <= made
    /\ \A c \in Clients : OwnedCall(c)

\* session_start_lock.
OneStart == \A c, d \in Clients : op[c] = "start" /\ op[d] = "start" => c = d

\* A session without a turn is Starting or Running only while a call will end that: a
\* start, or a send that asked for a new turn.
Drives(c, t) == op[c] \in {"start", "send"} /\ req[c].thread = t /\ req[c].kind # "turn/steer"
Undriven(t) == status[t] \in {"starting", "running"} /\ active[t] = 0
Driven == \A t \in Threads : Undriven(t) => \E c \in Clients : Drives(c, t)

\* A start that has not inserted its session yet finds room for it.
Limiting == Counted \ revived
Limited == \A c \in Clients : op[c] = "start" /\ req[c].thread = 0 =>
               Cardinality(Limiting) < MaxSessions

\* Only Running sessions have an active turn.
ActiveRuns == \A t \in Threads : active[t] # 0 => status[t] = "running"

SessionInv ==
    /\ Owned /\ OneStart /\ Driven /\ ActiveRuns /\ Limited
    /\ Cardinality(Limiting) <= MaxSessions

-----------------------------------------------------------------------------
\* Steps that begin nothing

\* Call c stays with its session, and nothing new is offered to it; or it ends.
Stays(c) ==
    /\ op'[c] = op[c] /\ req'[c].thread = req[c].thread
    /\ req'[c].kind = req[c].kind \/ req'[c].kind # "turn/steer"
    /\ \A t \in Threads : Offered(c, t)' => Offered(c, t)
Ends(c) == op'[c] = "none" /\ req'[c] = NoReq /\ pc'[c] = "idle"

\* No session and no turn appears, and no session comes to count.
Settle ==
    \A t \in Threads :
        /\ status[t] = "none" => status'[t] = "none"
        /\ active'[t] # 0 => active[t] # 0 /\ status'[t] = status[t]
        /\ Undriven(t)' => Undriven(t)
        /\ t \in Limiting' => t \in Limiting

LEMMA OwnedSettles ==
    ASSUME TypeOK, Owned, Settle, known' = known, made' = made,
           \A c \in Clients : Stays(c) \/ Ends(c)
    PROVE  Owned'
<1>1. ASSUME NEW c \in Clients PROVE OwnedCall(c)'
  <2>1. CASE Stays(c)
    BY <2>1 DEF Owned, OwnedCall, Stays, Settle, TypeOK
  <2>2. CASE Ends(c)
    <3>1. 0 <= made /\ \A t \in Threads : t # 0
      BY DEF TypeOK, Threads
    <3> QED
      BY <2>2, <3>1, RequestFields DEF Ends, OwnedCall, Offered
  <2> QED
    BY <1>1, <2>1, <2>2
<1>2. (known \subseteq 1 .. made)' /\ \A t \in Threads : status'[t] # "none" => t <= made'
  BY DEF Owned, Settle
<1> QED
  BY <1>1, <1>2 DEF Owned

\* What does not grow stays within the limit.
LEMMA FewerCount ==
    ASSUME Limiting' \subseteq Limiting
    PROVE  /\ Cardinality(Limiting) \in Nat /\ Cardinality(Limiting') \in Nat
           /\ Cardinality(Limiting') <= Cardinality(Limiting)
<1>1. IsFiniteSet(Threads)
  BY BridgeAssumption, FS_Interval DEF Threads
<1>2. IsFiniteSet(Limiting)
  BY <1>1, FS_Subset DEF Limiting, Counted
<1> QED
  BY <1>2, FS_Subset, FS_CardinalityType

LEMMA SessionsSettle ==
    ASSUME TypeOK, SessionInv, Settle, Owned',
           \A c \in Clients :
               \/ Stays(c)
               \/ Ends(c) /\ \A t \in Threads : Drives(c, t) => ~ Undriven(t)'
    PROVE  SessionInv'
<1>0. \A t \in Threads : t # 0
  BY DEF Threads
<1>1. OneStart'
  BY DEF SessionInv, OneStart, Stays, Ends
<1>2. ActiveRuns'
  BY DEF SessionInv, ActiveRuns, Settle
<1>3. Driven'
  <2>1. ASSUME NEW t \in Threads, Undriven(t)' PROVE \E c \in Clients : Drives(c, t)'
    <3>1. PICK c \in Clients : Drives(c, t)
      BY <2>1 DEF SessionInv, Driven, Settle
    <3>2. Stays(c)
      BY <2>1, <3>1
    <3> QED
      BY <3>1, <3>2 DEF Stays, Drives
  <2> QED
    BY <2>1 DEF Driven
<1>4. Limiting' \subseteq Limiting
  BY DEF Settle, Limiting, Counted
<1>5. Cardinality(Limiting') <= MaxSessions
  BY <1>4, FewerCount, BridgeAssumption DEF SessionInv
<1>6. ASSUME NEW c \in Clients, op'[c] = "start", req'[c].thread = 0
      PROVE  Cardinality(Limiting') < MaxSessions
  <2>1. op[c] = "start" /\ req[c].thread = 0
    BY <1>6 DEF Stays, Ends
  <2> QED
    BY <2>1, <1>4, FewerCount, BridgeAssumption DEF SessionInv, Limited
<1>7. Limited'
  BY <1>6 DEF Limited
<1> QED
  BY <1>1, <1>2, <1>3, <1>5, <1>7 DEF SessionInv

LEMMA SettledInv ==
    ASSUME TypeOK, SessionInv, Settle, known' = known, made' = made,
           \A c \in Clients :
               \/ Stays(c)
               \/ Ends(c) /\ \A t \in Threads : Drives(c, t) => ~ Undriven(t)'
    PROVE  SessionInv'
<1>1. Owned'
  BY OwnedSettles DEF SessionInv
<1> QED
  BY <1>1, SessionsSettle

\* What the critical sections do to the sessions.
LEMMA KeptSettle == ASSUME UNCHANGED sessions PROVE Settle
BY DEF sessions, Settle, Undriven, Limiting, Counted

LEMMA FailedSettle == ASSUME TypeOK, MarkSessionsFailed PROVE Settle
BY DEF MarkSessionsFailed, Settle, Undriven, Limiting, Counted, TypeOK

LEMMA OverwriteSettles ==
    ASSUME TypeOK, NEW t \in Threads, NEW s \in {"idle", "failed", "stopped"},
           status[t] # "none", Overwrite(t, s, 0)
    PROVE  Settle /\ ~ Undriven(t)'
<1>1. /\ status' = [status EXCEPT ![t] = s] /\ active' = [active EXCEPT ![t] = 0]
      /\ revived \subseteq revived' /\ (status[t] = "stopped" /\ s # "stopped" => t \in revived')
  BY DEF Overwrite
<1>2. /\ status'[t] = s /\ active'[t] = 0
      /\ \A u \in Threads \ {t} : status'[u] = status[u] /\ active'[u] = active[u]
  BY <1>1 DEF TypeOK
<1>3. ~ Undriven(t)'
  BY <1>2 DEF Undriven
<1>4. \A u \in Threads : u \in Limiting' => u \in Limiting
  BY <1>1, <1>2 DEF Limiting, Counted
<1> QED
  BY <1>2, <1>3, <1>4 DEF Settle, Undriven

LEMMA MovesStay ==
    ASSUME NEW c \in Clients, Moves(c)
    PROVE  \A d \in Clients \ {c} : Stays(d)
BY DEF Moves, Stays, Offered, ErrAnswer, NoAnswer

LEMMA EndCallEnds == ASSUME TypeOK, NEW c \in Clients, EndCall(c) PROVE Ends(c)
BY DEF EndCall, Ends, TypeOK

LEMMA StayingInv ==
    ASSUME TypeOK, SessionInv, NEW c \in Clients, Begin(c) \/ Proceed(c) \/ WriteCompletes(c),
           Stays(c), UNCHANGED <<sessions, known, made>>
    PROVE  SessionInv'
<1>1. Settle
  BY KeptSettle
<1> QED
  BY <1>1, OwnSteps, MovesStay, SettledInv

LEMMA EndingInv ==
    ASSUME TypeOK, SessionInv, NEW c \in Clients, Proceed(c), EndCall(c), Settle,
           UNCHANGED <<known, made>>, \A t \in Threads : Drives(c, t) => ~ Undriven(t)'
    PROVE  SessionInv'
BY OwnSteps, MovesStay, EndCallEnds, SettledInv

\* The thread a call is about is one that exists, once there is one.
LEMMA ThreadInRange ==
    ASSUME TypeOK, SessionInv, NEW c \in Clients, req[c].thread # 0
    PROVE  req[c].thread \in Threads
<1>1. req[c].thread \in Nat /\ req[c].thread <= made
  BY CallFields DEF SessionInv, Owned, OwnedCall
<1>2. made \in Nat /\ made <= MaxThreads
  BY BridgeAssumption DEF TypeOK
<1> QED
  BY <1>1, <1>2, BridgeAssumption DEF Threads

LEMMA KnownThread ==
    ASSUME TypeOK, SessionInv, NEW c \in Clients, op[c] \in {"send", "stop"}
    PROVE  req[c].thread \in Threads
<1>1. req[c].thread \in 1 .. made
  BY DEF SessionInv, Owned, OwnedCall
<1> QED
  BY <1>1, BridgeAssumption DEF Threads, TypeOK

\* A start that ends may give its session to its caller.
LEMMA RevealOwned ==
    ASSUME TypeOK, LocalInv, SessionInv, NEW c \in Clients, NEW t \in Threads,
           op[c] = "start", req[c].thread = t, Moves(c), EndCall(c), made' = made,
           known' \in {known, known \cup {t}},
           \A u \in Threads : /\ status[u] = "none" => status'[u] = "none"
                              /\ u # t /\ active'[u] # 0 => active[u] # 0
    PROVE  Owned'
<1>1. t \in 1 .. made
  BY DEF SessionInv, Owned, OwnedCall, Threads, TypeOK
<1>2. OwnedCall(c)'
  <2>1. Ends(c) /\ 0 <= made /\ 0 \notin Threads
    BY EndCallEnds DEF TypeOK, Threads
  <2> QED
    BY <2>1, RequestFields DEF Ends, OwnedCall, Offered
<1>3. ASSUME NEW d \in Clients \ {c} PROVE OwnedCall(d)'
  <2>1. op[d] # "start"
    BY DEF SessionInv, OneStart
  <2>2. op'[d] = op[d] /\ req'[d] = req[d]
    BY DEF Moves
  <2>3. req[d].kind # "thread/start"
    BY <2>1, RequestFields DEF LocalInv, Shape, Starting, Prompts
  <2> QED
    BY <2>1, <2>2, <2>3 DEF SessionInv, Owned, OwnedCall, Offered
<1>4. known' \subseteq 1 .. made /\ \A u \in Threads : status'[u] # "none" => u <= made'
  BY <1>1 DEF SessionInv, Owned
<1> QED
  BY <1>2, <1>3, <1>4 DEF Owned

\* One more session at most.
LEMMA OneMore ==
    ASSUME NEW t \in Threads, Limiting' \subseteq Limiting \cup {t},
           Cardinality(Limiting) < MaxSessions
    PROVE  Cardinality(Limiting') <= MaxSessions
<1>1. IsFiniteSet(Limiting)
  <2>1. IsFiniteSet(Threads)
    BY BridgeAssumption, FS_Interval DEF Threads
  <2> QED
    BY <2>1, FS_Subset DEF Limiting, Counted
<1>2. /\ IsFiniteSet(Limiting \cup {t})
      /\ Cardinality(Limiting \cup {t}) =
           IF t \in Limiting THEN Cardinality(Limiting) ELSE Cardinality(Limiting) + 1
  BY <1>1, FS_AddElement
<1>3. Cardinality(Limiting') <= Cardinality(Limiting \cup {t})
  BY <1>2, FS_Subset
<1>4. /\ Cardinality(Limiting) \in Nat /\ Cardinality(Limiting \cup {t}) \in Nat
      /\ Cardinality(Limiting') \in Nat
  BY <1>1, <1>2, FS_Subset, FS_CardinalityType
<1> QED
  BY <1>2, <1>3, <1>4, BridgeAssumption

-----------------------------------------------------------------------------
\* The steps

LEMMA SessionSteps == TypeOK /\ LocalInv /\ SessionInv /\ [Next]_vars => SessionInv'
<1> USE DEF handles, sessions, codex, world, history, client
<1> SUFFICES ASSUME TypeOK, LocalInv, SessionInv, [Next]_vars PROVE SessionInv'
  OBVIOUS
<1>1. ASSUME NEW c \in Clients, ServerPresent(c) PROVE SessionInv'
  <2>1. Stays(c)
    BY <1>1, RequestFields DEF ServerPresent, Waiting, Goto, AfterError, Stays, Offered,
       LocalInv, Shape, Starting, Reply, Asking, Prompts, NoAnswer, TypeOK
  <2> QED
    BY <1>1, <2>1, StayingInv DEF ServerPresent, Proceed
<1>2. ASSUME NEW c \in Clients, SpawnServer(c) PROVE SessionInv'
  <2>1. Stays(c)
    BY <1>2, RequestFields DEF SpawnServer, Waiting, Goto, AfterError, Stays, Offered,
       LocalInv, Shape, Starting, Reply, Asking, Prompts, NoAnswer, TypeOK
  <2> QED
    BY <1>2, <2>1, StayingInv DEF SpawnServer, Proceed
<1>3. ASSUME NEW c \in Clients, RequestNoServer(c) PROVE SessionInv'
  <2>1. /\ req'[c].kind = req[c].kind /\ req'[c].thread = req[c].thread
        /\ op'[c] = op[c] /\ answer'[c] = answer[c] /\ pc[c] = "request"
    BY <1>3, NumberedFields DEF RequestNoServer, Issue, TypeOK
  <2>2. Stays(c)
    BY <2>1 DEF Stays, Offered, LocalInv, Reply
  <2> QED
    BY <1>3, <2>2, StayingInv DEF RequestNoServer, Issue, Proceed
<1>4. ASSUME NEW c \in Clients, RequestWritten(c) PROVE SessionInv'
  <2>1. /\ req'[c].kind = req[c].kind /\ req'[c].thread = req[c].thread
        /\ op'[c] = op[c] /\ answer'[c] = answer[c] /\ pc[c] = "request"
    BY <1>4, NumberedFields DEF RequestWritten, Issue, TypeOK
  <2>2. Stays(c)
    BY <2>1 DEF Stays, Offered, LocalInv, Reply
  <2> QED
    BY <1>4, <2>2, StayingInv DEF RequestWritten, Issue, Proceed
<1>5. ASSUME NEW c \in Clients, RequestWriteFails(c) PROVE SessionInv'
  <2>1. /\ req'[c].kind = req[c].kind /\ req'[c].thread = req[c].thread
        /\ op'[c] = op[c] /\ answer'[c] = answer[c] /\ pc[c] = "request"
    BY <1>5, NumberedFields DEF RequestWriteFails, Issue, TypeOK
  <2>2. Stays(c)
    BY <2>1 DEF Stays, Offered, LocalInv, Reply
  <2> QED
    BY <1>5, <2>2, StayingInv DEF RequestWriteFails, Issue, Proceed
<1>6. ASSUME NEW c \in Clients, RequestBlocks(c) PROVE SessionInv'
  <2>1. /\ req'[c].kind = req[c].kind /\ req'[c].thread = req[c].thread
        /\ op'[c] = op[c] /\ answer'[c] = answer[c] /\ pc[c] = "request"
    BY <1>6, NumberedFields DEF RequestBlocks, Issue, TypeOK
  <2>2. Stays(c)
    BY <2>1 DEF Stays, Offered, LocalInv, Reply
  <2> QED
    BY <1>6, <2>2, StayingInv DEF RequestBlocks, Issue, Proceed
<1>7. ASSUME NEW c \in Clients, WriteCompletes(c) PROVE SessionInv'
  <2>1. Stays(c)
    BY <1>7, RequestFields DEF WriteCompletes, Waiting, Goto, AfterError, Stays, Offered,
       LocalInv, Shape, Starting, Reply, Asking, Prompts, NoAnswer, TypeOK
  <2> QED
    BY <1>7, <2>1, StayingInv DEF WriteCompletes, Proceed
<1>8. ASSUME NEW c \in Clients, WriteBreaks(c) PROVE SessionInv'
  <2>1. Stays(c)
    BY <1>8, RequestFields DEF WriteBreaks, Waiting, Goto, AfterError, Stays, Offered,
       LocalInv, Shape, Starting, Reply, Asking, Prompts, NoAnswer, TypeOK
  <2> QED
    BY <1>8, <2>1, StayingInv DEF WriteBreaks, Proceed
<1>9. ASSUME NEW c \in Clients, SessionGone(c) PROVE SessionInv'
  <2>1. Stays(c)
    BY <1>9, RequestFields DEF SessionGone, Waiting, Goto, AfterError, Stays, Offered,
       LocalInv, Shape, Starting, Reply, Asking, Prompts, NoAnswer, TypeOK
  <2> QED
    BY <1>9, <2>1, StayingInv DEF SessionGone, Proceed
<1>10. ASSUME NEW c \in Clients, RequestTimesOut(c) PROVE SessionInv'
  <2>1. Stays(c)
    BY <1>10, RequestFields DEF RequestTimesOut, Waiting, Goto, AfterError, Stays, Offered,
       LocalInv, Shape, Starting, Reply, Asking, Prompts, NoAnswer, TypeOK
  <2> QED
    BY <1>10, <2>1, StayingInv DEF RequestTimesOut, Proceed
<1>11. ASSUME NEW c \in Clients, RemoveExpired(c) PROVE SessionInv'
  <2>1. Stays(c)
    BY <1>11, RequestFields DEF RemoveExpired, Waiting, Goto, AfterError, Stays, Offered,
       LocalInv, Shape, Starting, Reply, Asking, Prompts, NoAnswer, TypeOK
  <2> QED
    BY <1>11, <2>1, StayingInv DEF RemoveExpired, Proceed
<1>12. ASSUME NEW c \in Clients, RequestFails(c) PROVE SessionInv'
  <2>1. Stays(c)
    BY <1>12, RequestFields DEF RequestFails, Waiting, Goto, AfterError, Stays, Offered,
       LocalInv, Shape, Starting, Reply, Asking, Prompts, NoAnswer, TypeOK
  <2> QED
    BY <1>12, <2>1, StayingInv DEF RequestFails, Proceed
<1>13. ASSUME NEW c \in Clients, Interrupted(c) PROVE SessionInv'
  <2>1. Stays(c)
    BY <1>13, RequestFields DEF Interrupted, Waiting, Goto, AfterError, Stays, Offered,
       LocalInv, Shape, Starting, Reply, Asking, Prompts, NoAnswer, TypeOK
  <2> QED
    BY <1>13, <2>1, StayingInv DEF Interrupted, Proceed
<1>14. ASSUME NEW c \in Clients, SpawnFails(c) PROVE SessionInv'
  <2>1. \A t \in Threads : ~ Drives(c, t)
    BY <1>14 DEF SpawnFails, Answered, Drives, Threads, LocalInv, Shape, Starting, Asking,
       Prompts
  <2> QED
    BY <1>14, <2>1, EndingInv, KeptSettle DEF SpawnFails, Proceed
<1>15. ASSUME NEW c \in Clients, Steered(c) PROVE SessionInv'
  <2>1. \A t \in Threads : ~ Drives(c, t)
    BY <1>15 DEF Steered, Answered, Drives, Threads, LocalInv, Shape, Starting, Asking,
       Prompts
  <2> QED
    BY <1>15, <2>1, EndingInv, KeptSettle DEF Steered, Proceed
<1>16. ASSUME NEW c \in Clients, Initialized(c) PROVE SessionInv'
  <2>1. CASE EndCall(c)
    <3>1. \A t \in Threads : ~ Drives(c, t)
      BY <1>16 DEF Initialized, Answered, Drives, Threads, LocalInv, Shape, Starting,
         Asking, Prompts
    <3> QED
      BY <1>16, <2>1, <3>1, EndingInv, KeptSettle DEF Initialized, Proceed
  <2>2. CASE ~ EndCall(c)
    <3>1. Stays(c)
      BY <1>16, <2>2, RequestFields DEF Initialized, Answered, Goto, Stays, Offered,
         LocalInv, Shape, Starting, Asking, Prompts, TypeOK
    <3> QED
      BY <1>16, <3>1, StayingInv DEF Initialized, Proceed
  <2> QED
    BY <2>1, <2>2
<1>17. ASSUME NEW c \in Clients, Close(c) PROVE SessionInv'
  <2>1. Settle /\ Ends(c)
    BY <1>17 DEF Close, Settle, Undriven, Limiting, Counted, Ends, TypeOK
  <2>2. \A t \in Threads : ~ Drives(c, t)
    BY <1>17 DEF Close, Drives, Threads, LocalInv, Shape, Starting, Asking, Prompts
  <2>3. \A d \in Clients \ {c} : Stays(d)
    BY <1>17, OwnSteps, MovesStay DEF Proceed
  <2> QED
    BY <1>17, <2>1, <2>2, <2>3, SettledInv DEF Close
<1>18. ASSUME NEW c \in Clients, MarkSessionFailed(c) PROVE SessionInv'
  <2>1. Settle /\ \A t \in Threads : Drives(c, t) => ~ Undriven(t)'
    <3>1. CASE req[c].thread \in Threads /\ status[req[c].thread] # "none"
      <4>1. Overwrite(req[c].thread, "failed", 0)
        BY <1>18, <3>1 DEF MarkSessionFailed, Threads
      <4> QED
        BY <3>1, <4>1, OverwriteSettles DEF Drives
    <3>2. CASE ~ (req[c].thread \in Threads /\ status[req[c].thread] # "none")
      <4>1. UNCHANGED sessions
        BY <1>18, <3>2, ThreadInRange DEF MarkSessionFailed
      <4> QED
        BY <3>2, <4>1, KeptSettle DEF Drives, Undriven
    <3> QED
      BY <3>1, <3>2
  <2> QED
    BY <1>18, <2>1, EndingInv DEF MarkSessionFailed, Proceed
<1>19. ASSUME NEW c \in Clients, FinishStop(c) PROVE SessionInv'
  <2>1. op[c] = "stop"
    BY <1>19 DEF FinishStop, LocalInv, Shape, Starting, Asking, Prompts
  <2>2. Settle
    <3>1. req[c].thread \in Threads
      BY <2>1, KnownThread
    <3> QED
      BY <1>19, <3>1, KeptSettle, OverwriteSettles DEF FinishStop
  <2> QED
    BY <1>19, <2>1, <2>2, EndingInv DEF FinishStop, Proceed, Drives
<1>20. ASSUME NEW c \in Clients, SetIdle(c) PROVE SessionInv'
  <2> DEFINE t == req[c].thread
  <2>1. op[c] = "start" /\ t # 0 /\ t \in Threads /\ active[t] = 0
    <3>1. op[c] = "start" /\ t # 0
      BY <1>20 DEF SetIdle, LocalInv, Shape, Starting, Asking, Prompts
    <3> QED
      BY <3>1, ThreadInRange DEF SessionInv, Owned, OwnedCall
  <2>2. Settle /\ \A u \in Threads : Drives(c, u) => ~ Undriven(u)'
    <3>1. CASE status[t] # "none"
      <4>1. Overwrite(t, "idle", 0)
        BY <1>20, <2>1, <3>1 DEF SetIdle
      <4> QED
        BY <2>1, <3>1, <4>1, OverwriteSettles DEF Drives
    <3>2. CASE status[t] = "none"
      <4>1. UNCHANGED sessions
        BY <1>20, <3>2 DEF SetIdle
      <4> QED
        BY <3>2, <4>1, KeptSettle DEF Drives, Undriven, sessions
    <3> QED
      BY <3>1, <3>2
  <2>3. EndCall(c) /\ made' = made /\ Moves(c) /\ known' \in {known, known \cup {t}}
    BY <1>20, OwnSteps DEF SetIdle, Proceed, Reveal
  <2> HIDE DEF t
  <2>4. Owned'
    BY <2>1, <2>2, <2>3, RevealOwned DEF t, Settle
  <2> QED
    BY <2>2, <2>3, <2>4, EndCallEnds, MovesStay, SessionsSettle
<1>21. ASSUME NEW g \in Gens, NEW r \in asked, HandleError(g, r) PROVE SessionInv'
  <2>1. \A c \in Clients : answer'[c] = answer[c] \/ answer'[c] = ErrAnswer
    BY <1>21 DEF HandleError, Resolve
  <2>2. ErrAnswer.tag = "ok" => ErrAnswer.of.kind # "thread/start"
    BY <1>21 DEF HandleError, ErrAnswer, NoAnswer
  <2>3. \A c \in Clients : Stays(c)
    BY <1>21, <2>1, <2>2 DEF HandleError, Stays, Offered
  <2> QED
    BY <1>21, <2>3, KeptSettle, SettledInv DEF HandleError
<1>22. ASSUME NEW g \in Gens, NEW r \in asked, HandleDone(g, r) PROVE SessionInv'
  <2>1. \A c \in Clients : answer'[c] = answer[c] \/ answer'[c] = OkAnswer(r, 0)
    BY <1>22 DEF HandleDone, Resolve
  <2>2. OkAnswer(r, 0).tag = "ok" => OkAnswer(r, 0).of.kind # "thread/start"
    BY <1>22 DEF HandleDone, OkAnswer
  <2>3. \A c \in Clients : Stays(c)
    BY <1>22, <2>1, <2>2 DEF HandleDone, Stays, Offered
  <2> QED
    BY <1>22, <2>3, KeptSettle, SettledInv DEF HandleDone
<1>23. ASSUME NEW g \in Gens, NEW r \in asked, HandleTurnStarted(g, r) PROVE SessionInv'
  <2>1. \A c \in Clients : answer'[c] = answer[c] \/ answer'[c] = OkAnswer(r, turns[r.thread] + 1)
    BY <1>23 DEF HandleTurnStarted, Resolve
  <2>2. OkAnswer(r, turns[r.thread] + 1).tag = "ok" =>
            OkAnswer(r, turns[r.thread] + 1).of.kind # "thread/start"
    BY <1>23 DEF HandleTurnStarted, OkAnswer
  <2>3. \A c \in Clients : Stays(c)
    BY <1>23, <2>1, <2>2 DEF HandleTurnStarted, Stays, Offered
  <2> QED
    BY <1>23, <2>3, KeptSettle, SettledInv DEF HandleTurnStarted
<1>24. ASSUME NEW g \in Gens, NEW r \in asked, HandleSteered(g, r) PROVE SessionInv'
  <2>1. \A c \in Clients : answer'[c] = answer[c] \/ answer'[c] = OkAnswer(r, r.turn)
    BY <1>24 DEF HandleSteered, Resolve
  <2>2. OkAnswer(r, r.turn).tag = "ok" => OkAnswer(r, r.turn).of.kind # "thread/start"
    BY <1>24 DEF HandleSteered, OkAnswer
  <2>3. \A c \in Clients : Stays(c)
    BY <1>24, <2>1, <2>2 DEF HandleSteered, Stays, Offered
  <2> QED
    BY <1>24, <2>3, KeptSettle, SettledInv DEF HandleSteered
<1>25. ASSUME NEW g \in Gens, NEW t \in Threads, TurnCompleted(g, t) PROVE SessionInv'
  <2>1. AfterTurn(status[t]) \in {"idle", "failed", "stopped"}
    BY DEF AfterTurn
  <2>2. Settle
    BY <1>25, <2>1, KeptSettle, OverwriteSettles DEF TurnCompleted
  <2>3. \A c \in Clients : Stays(c)
    BY <1>25 DEF TurnCompleted, Stays, Offered
  <2> QED
    BY <1>25, <2>2, <2>3, SettledInv DEF TurnCompleted
<1>26. ASSUME NEW g \in Gens, NEW t \in Threads, ThreadClosed(g, t) PROVE SessionInv'
  <2>1. "stopped" \in {"idle", "failed", "stopped"}
    BY DEF AfterTurn
  <2>2. Settle
    BY <1>26, <2>1, KeptSettle, OverwriteSettles DEF ThreadClosed
  <2>3. \A c \in Clients : Stays(c)
    BY <1>26 DEF ThreadClosed, Stays, Offered
  <2> QED
    BY <1>26, <2>2, <2>3, SettledInv DEF ThreadClosed
<1>27. ASSUME NEW g \in Gens, ReplyBlocks(g) PROVE SessionInv'
  <2>1. \A c \in Clients : Stays(c)
    BY <1>27 DEF ReplyBlocks, Stays, Offered
  <2> QED
    BY <1>27, <2>1, KeptSettle, SettledInv DEF ReplyBlocks
<1>28. ASSUME NEW g \in Gens, ReplyDone(g) PROVE SessionInv'
  <2>1. \A c \in Clients : Stays(c)
    BY <1>28 DEF ReplyDone, Stays, Offered
  <2> QED
    BY <1>28, <2>1, KeptSettle, SettledInv DEF ReplyDone
<1>29. ASSUME NEW g \in Gens, ServerExits(g) PROVE SessionInv'
  <2>1. \A c \in Clients : Stays(c)
    BY <1>29 DEF ServerExits, Stays, Offered
  <2> QED
    BY <1>29, <2>1, KeptSettle, SettledInv DEF ServerExits
<1>30. ASSUME NEW g \in Gens, KillServer(g) PROVE SessionInv'
  <2>1. \A c \in Clients : Stays(c)
    BY <1>30 DEF KillServer, ServerExits, Stays, Offered
  <2> QED
    BY <1>30, <2>1, KeptSettle, SettledInv DEF KillServer, ServerExits
<1>31. ASSUME NEW g \in Gens, ReaderEnds(g) PROVE SessionInv'
  <2>1. \A c \in Clients : Stays(c)
    BY <1>31 DEF ReaderEnds, RejectPending, Rejecting, Stays, Offered, ErrAnswer, NoAnswer
  <2> QED
    BY <1>31, <2>1, FailedSettle, SettledInv DEF ReaderEnds
<1>32. ASSUME NEW g \in Gens, MonitorExit(g) PROVE SessionInv'
  <2>1. \A c \in Clients : Stays(c)
    BY <1>32 DEF MonitorExit, RejectPending, Rejecting, Stays, Offered, ErrAnswer, NoAnswer
  <2> QED
    BY <1>32, <2>1, FailedSettle, SettledInv DEF MonitorExit
<1>33. ASSUME NEW c \in Clients, StartSession(c) PROVE SessionInv'
  <2>1. pc[c] = "idle" /\ op[c] = "none" /\ req[c] = NoReq
    BY <1>33 DEF StartSession, LocalInv, Shape, Starting, Asking
  <2>2. /\ op'[c] = "start" /\ req' = req /\ pc'[c] = "ensure"
        /\ UNCHANGED <<status, active, revived, known, made>>
    BY <1>33 DEF StartSession, Goto, TypeOK
  <2>3. \A d \in Clients \ {c} : Stays(d) /\ op[d] # "start" /\ op'[d] # "start"
    BY <1>33, OwnSteps, MovesStay DEF StartSession, SessionStartFree, Begin, Stays
  <2>4. Owned'
    <3>1. OwnedCall(c)'
      BY <2>1, <2>2, RequestFields DEF OwnedCall, Offered, Threads, TypeOK
    <3>2. \A d \in Clients \ {c} : OwnedCall(d)'
      BY <2>2, <2>3 DEF SessionInv, Owned, OwnedCall, Stays
    <3> QED
      BY <2>2, <3>1, <3>2 DEF SessionInv, Owned
  <2>5. OneStart' /\ ActiveRuns'
    BY <2>2, <2>3 DEF SessionInv, OneStart, ActiveRuns
  <2>6. Driven'
    <3>1. ASSUME NEW t \in Threads, Undriven(t)' PROVE \E d \in Clients : Drives(d, t)'
      <4>1. PICK d \in Clients : Drives(d, t)
        BY <2>2, <3>1 DEF SessionInv, Driven, Undriven
      <4>2. d # c
        BY <2>1, <4>1 DEF Drives
      <4> QED
        BY <2>3, <4>1, <4>2 DEF Stays, Drives
    <3> QED
      BY <3>1 DEF Driven
  <2>7. Limiting' = Limiting /\ Cardinality(Limiting) < MaxSessions
    <3>1. IsFiniteSet(Counted)
      <4>1. IsFiniteSet(Threads)
        BY BridgeAssumption, FS_Interval DEF Threads
      <4> QED
        BY <4>1, FS_Subset DEF Counted
    <3>2. /\ Cardinality(Limiting) \in Nat /\ Cardinality(Counted) \in Nat
          /\ Cardinality(Limiting) <= Cardinality(Counted)
      BY <3>1, FS_Subset, FS_CardinalityType DEF Limiting
    <3>3. Cardinality(Counted) < MaxSessions
      BY <1>33 DEF StartSession, UnderLimit
    <3> QED
      BY <2>2, <3>2, <3>3, BridgeAssumption DEF Limiting, Counted
  <2>8. Limited' /\ Cardinality(Limiting') <= MaxSessions
    BY <2>7 DEF SessionInv, Limited
  <2> QED
    BY <2>4, <2>5, <2>6, <2>8 DEF SessionInv
<1>34. ASSUME NEW c \in Clients, NEW t \in Threads, SendMessage(c, t) PROVE SessionInv'
  <2>1. pc[c] = "idle" /\ op[c] = "none" /\ t \in known /\ status[t] \notin {"none", "stopped"}
    BY <1>34 DEF SendMessage, LocalInv, Shape, Starting, Asking
  <2>2. /\ op'[c] = "send" /\ pc'[c] = "request" /\ req'[c].thread = t
        /\ req'[c].kind = IF active[t] # 0 THEN "turn/steer" ELSE "turn/start"
    BY <1>34, RequestFields DEF SendMessage, Goto, TypeOK
  <2>3. \A d \in Clients \ {c} : Stays(d)
    BY <1>34, OwnSteps, MovesStay DEF Begin
  <2>4. /\ status'[t] = "running" /\ \A u \in Threads \ {t} : status'[u] = status[u]
        /\ UNCHANGED <<active, revived, known, made>>
    BY <1>34 DEF SendMessage, TypeOK
  <2>5. Owned'
    <3>1. OwnedCall(c)'
      BY <2>1, <2>2, <2>4 DEF SessionInv, Owned, OwnedCall, Offered, TypeOK
    <3>2. \A u \in Threads : status[u] = "none" <=> status'[u] = "none"
      BY <2>1, <2>4
    <3>3. ASSUME NEW d \in Clients \ {c} PROVE OwnedCall(d)'
      <4>1. OwnedCall(d) /\ Stays(d)
        BY <2>3 DEF SessionInv, Owned
      <4> QED
        BY <2>4, <3>2, <4>1 DEF OwnedCall, Stays
    <3>4. (known \subseteq 1 .. made)' /\ \A u \in Threads : status'[u] # "none" => u <= made'
      BY <2>4, <3>2 DEF SessionInv, Owned
    <3> QED
      BY <3>1, <3>3, <3>4 DEF Owned
  <2>6. OneStart' /\ ActiveRuns'
    BY <2>2, <2>3, <2>4 DEF SessionInv, OneStart, ActiveRuns, Stays
  <2>7. Driven'
    <3>1. ASSUME NEW u \in Threads, Undriven(u)' PROVE \E d \in Clients : Drives(d, u)'
      <4>1. CASE u = t
        BY <2>2, <2>4, <3>1, <4>1 DEF Undriven, Drives
      <4>2. CASE u # t
        <5>1. PICK d \in Clients : Drives(d, u)
          BY <2>4, <3>1, <4>2 DEF SessionInv, Driven, Undriven
        <5>2. d # c
          BY <2>1, <5>1 DEF Drives
        <5> QED
          BY <2>3, <5>1, <5>2 DEF Stays, Drives
      <4> QED
        BY <4>1, <4>2
    <3> QED
      BY <3>1 DEF Driven
  <2>8. Limiting' = Limiting
    BY <2>1, <2>4 DEF Limiting, Counted
  <2>9. Limited' /\ Cardinality(Limiting') <= MaxSessions
    BY <2>2, <2>3, <2>8 DEF SessionInv, Limited, Stays
  <2> QED
    BY <2>5, <2>6, <2>7, <2>9 DEF SessionInv
<1>35. ASSUME NEW c \in Clients, NEW t \in Threads, StopSession(c, t) PROVE SessionInv'
  <2>1. pc[c] = "idle" /\ op[c] = "none" /\ t \in known
    BY <1>35 DEF StopSession, LocalInv, Shape, Starting, Asking
  <2>2. op'[c] = "stop" /\ req'[c].thread = t /\ req'[c].kind = "turn/interrupt"
    BY <1>35, RequestFields DEF StopSession, Goto, TypeOK
  <2>3. \A d \in Clients \ {c} : Stays(d)
    BY <1>35, OwnSteps, MovesStay DEF Begin
  <2>4. UNCHANGED <<status, active, revived, known, made>>
    BY <1>35 DEF StopSession
  <2>5. Owned'
    <3>1. OwnedCall(c)'
      BY <2>1, <2>2, <2>4 DEF SessionInv, Owned, OwnedCall, Offered, TypeOK
    <3>2. \A d \in Clients \ {c} : OwnedCall(d)'
      BY <2>3, <2>4 DEF SessionInv, Owned, OwnedCall, Stays
    <3> QED
      BY <2>4, <3>1, <3>2 DEF SessionInv, Owned
  <2>6. OneStart' /\ ActiveRuns'
    BY <2>2, <2>3, <2>4 DEF SessionInv, OneStart, ActiveRuns, Stays
  <2>7. Driven'
    <3>1. ASSUME NEW u \in Threads, Undriven(u)' PROVE \E d \in Clients : Drives(d, u)'
      <4>1. PICK d \in Clients : Drives(d, u)
        BY <2>4, <3>1 DEF SessionInv, Driven, Undriven
      <4>2. d # c
        BY <2>1, <4>1 DEF Drives
      <4> QED
        BY <2>3, <4>1, <4>2 DEF Stays, Drives
    <3> QED
      BY <3>1 DEF Driven
  <2>8. Limiting' = Limiting
    BY <2>4 DEF Limiting, Counted
  <2>9. Limited' /\ Cardinality(Limiting') <= MaxSessions
    BY <2>2, <2>3, <2>8 DEF SessionInv, Limited, Stays
  <2> QED
    BY <2>5, <2>6, <2>7, <2>9 DEF SessionInv
<1>36. ASSUME NEW c \in Clients, TurnStarted(c) PROVE SessionInv'
  <2> DEFINE t == req[c].thread
  <2>1. op[c] \in {"start", "send"} /\ (op[c] = "start" => t # 0) /\ answer[c].val # 0
    BY <1>36 DEF TurnStarted, Answered, LocalInv, Shape, Starting, Reply, Asking, Prompts
  <2>2. t \in Threads
    BY <2>1, ThreadInRange, KnownThread
  <2>3. EndCall(c) /\ Ends(c) /\ made' = made /\ Moves(c)
    BY <1>36, OwnSteps, EndCallEnds DEF TurnStarted, Proceed
  <2>4. \A d \in Clients \ {c} : Stays(d)
    BY <2>3, MovesStay
  <2>5. CASE status[t] = "none"
    <3>1. UNCHANGED <<sessions, known>>
      BY <1>36, <2>5 DEF TurnStarted
    <3>2. \A u \in Threads : Drives(c, u) => ~ Undriven(u)'
      BY <2>5, <3>1 DEF Drives, Undriven, sessions
    <3> QED
      BY <1>36, <2>3, <3>1, <3>2, EndingInv, KeptSettle DEF Proceed
  <2>6. CASE status[t] # "none"
    <3>1. Overwrite(t, "running", answer[c].val) /\ Reveal(c, t)
      BY <1>36, <2>6 DEF TurnStarted
    <3> HIDE DEF t
    <3>2. /\ status'[t] = "running" /\ active'[t] # 0
          /\ \A u \in Threads \ {t} : status'[u] = status[u] /\ active'[u] = active[u]
          /\ revived \subseteq revived' /\ (status[t] = "stopped" => t \in revived')
      BY <2>1, <2>2, <3>1 DEF Overwrite, TypeOK
    <3>3. Owned'
      <4>1. CASE op[c] = "start"
        BY <2>2, <2>3, <2>6, <3>1, <3>2, <4>1, RevealOwned DEF t, Reveal
      <4>2. CASE op[c] = "send"
        <5>1. known' = known /\ t \in known
          BY <3>1, <4>2 DEF Reveal, SessionInv, Owned, OwnedCall, t
        <5>2. OwnedCall(c)'
          BY <2>3, RequestFields DEF Ends, OwnedCall, Offered, Threads, TypeOK
        <5>3. \A d \in Clients \ {c} : OwnedCall(d)'
          BY <2>3, <2>4, <2>6, <3>2, <5>1 DEF SessionInv, Owned, OwnedCall, Stays
        <5> QED
          BY <2>3, <2>6, <3>2, <5>1, <5>2, <5>3 DEF SessionInv, Owned
      <4> QED
        BY <2>1, <4>1, <4>2
    <3>4. OneStart' /\ ActiveRuns'
      BY <2>3, <2>4, <3>2 DEF SessionInv, OneStart, ActiveRuns, Stays, Ends
    <3>5. Driven'
      <4>1. ASSUME NEW u \in Threads, Undriven(u)' PROVE \E d \in Clients : Drives(d, u)'
        <5>1. u # t
          BY <3>2, <4>1 DEF Undriven
        <5>2. PICK d \in Clients : Drives(d, u)
          BY <3>2, <4>1, <5>1 DEF SessionInv, Driven, Undriven
        <5>3. d # c
          BY <5>1, <5>2 DEF Drives, t
        <5> QED
          BY <2>4, <5>2, <5>3 DEF Stays, Drives
      <4> QED
        BY <4>1 DEF Driven
    <3>6. Limiting' \subseteq Limiting
      BY <2>6, <3>2 DEF Limiting, Counted
    <3>7. Cardinality(Limiting') <= MaxSessions
      BY <3>6, FewerCount, BridgeAssumption DEF SessionInv
    <3>8. ASSUME NEW d \in Clients, op'[d] = "start", req'[d].thread = 0
          PROVE  Cardinality(Limiting') < MaxSessions
      <4>1. op[d] = "start" /\ req[d].thread = 0
        BY <2>3, <2>4, <3>8 DEF Stays, Ends
      <4> QED
        BY <4>1, <3>6, FewerCount, BridgeAssumption DEF SessionInv, Limited
    <3>9. Limited'
      BY <3>8 DEF Limited
    <3> QED
      BY <3>3, <3>4, <3>5, <3>7, <3>9 DEF SessionInv
  <2> QED
    BY <2>5, <2>6
<1>37. ASSUME NEW c \in Clients, InsertSession(c) PROVE SessionInv'
  <2> DEFINE t == answer[c].val
  <2>1. op[c] = "start" /\ req[c].thread = 0 /\ Offered(c, t) /\ t \in 1 .. made
    BY <1>37 DEF InsertSession, Answered, Offered, LocalInv, Shape, Starting, Reply, Asking,
       Prompts
  <2>2. t \in Threads /\ t # 0
    BY <2>1, BridgeAssumption DEF Threads, TypeOK
  <2>3. Overwrite(t, "starting", 0)
    BY <1>37 DEF InsertSession
  <2>4. /\ op' = op /\ req'[c].thread = t /\ req'[c].kind \in {"turn/start", "none"}
        /\ UNCHANGED <<known, made>>
    BY <1>37, RequestFields DEF InsertSession, TypeOK
  <2>5. \A d \in Clients \ {c} : Stays(d)
    BY <1>37, OwnSteps, MovesStay DEF Proceed
  <2> HIDE DEF t
  <2>6. t \notin known /\ status[t] = "none"
    BY <2>1, <2>2 DEF SessionInv, Owned, OwnedCall
  <2>7. /\ status'[t] = "starting" /\ active'[t] = 0 /\ revived \subseteq revived'
        /\ \A u \in Threads \ {t} : status'[u] = status[u] /\ active'[u] = active[u]
    BY <2>2, <2>3 DEF Overwrite, TypeOK
  <2>8. Owned'
    <3>1. OwnedCall(c)'
      BY <2>1, <2>2, <2>4, <2>6, <2>7 DEF OwnedCall, Offered
    <3>2. ASSUME NEW d \in Clients \ {c} PROVE OwnedCall(d)'
      <4>1. op[d] # "start"
        BY <2>1 DEF SessionInv, OneStart
      <4>2. \A u \in Threads : ~ Offered(d, u)
        BY <4>1 DEF Offered, LocalInv, Shape, Starting, Prompts
      <4> QED
        BY <2>4, <2>5, <4>1, <4>2 DEF SessionInv, Owned, OwnedCall, Stays
    <3> QED
      BY <2>1, <2>4, <2>7, <3>1, <3>2 DEF SessionInv, Owned
  <2>9. OneStart' /\ ActiveRuns'
    BY <2>4, <2>7 DEF SessionInv, OneStart, ActiveRuns
  <2>10. Driven'
    <3>1. ASSUME NEW u \in Threads, Undriven(u)' PROVE \E d \in Clients : Drives(d, u)'
      <4>1. CASE u = t
        BY <2>1, <2>4, <4>1 DEF Drives
      <4>2. CASE u # t
        <5>1. PICK d \in Clients : Drives(d, u)
          BY <2>7, <3>1, <4>2 DEF SessionInv, Driven, Undriven
        <5>2. d # c
          BY <2>1, <5>1 DEF Drives, Threads
        <5> QED
          BY <2>5, <5>1, <5>2 DEF Stays, Drives
      <4> QED
        BY <4>1, <4>2
    <3> QED
      BY <3>1 DEF Driven
  <2>11. Cardinality(Limiting') <= MaxSessions
    <3>1. Limiting' \subseteq Limiting \cup {t}
      BY <2>7 DEF Limiting, Counted
    <3>2. Cardinality(Limiting) < MaxSessions
      BY <2>1 DEF SessionInv, Limited
    <3> QED
      BY <2>2, <3>1, <3>2, OneMore
  <2>12. Limited'
    BY <2>1, <2>2, <2>4 DEF SessionInv, OneStart, Limited
  <2> QED
    BY <2>8, <2>9, <2>10, <2>11, <2>12 DEF SessionInv
<1>38. ASSUME NEW g \in Gens, NEW r \in asked, HandleThreadStarted(g, r) PROVE SessionInv'
  <2> DEFINE t == made + 1
  <2>1. /\ t \in Threads /\ made' = t /\ made \in Nat
        /\ UNCHANGED <<status, active, revived, known, op, pc, req>>
    BY <1>38, BridgeAssumption DEF HandleThreadStarted, Threads, TypeOK
  <2>2. \A c \in Clients : answer'[c] = answer[c] \/ answer'[c].val = t
    BY <1>38 DEF HandleThreadStarted, Resolve, OkAnswer
  <2>3. t \notin known /\ status[t] = "none"
    BY <2>1 DEF SessionInv, Owned
  <2> HIDE DEF t
  <2>4. Owned'
    <3>1. ASSUME NEW c \in Clients PROVE OwnedCall(c)'
      <4>1. req[c].thread <= made'
        BY <2>1, CallFields DEF SessionInv, Owned, OwnedCall, t
      <4>2. \A u \in Threads : Offered(c, u)' => Offered(c, u) \/ u = t
        BY <2>1, <2>2 DEF Offered
      <4> QED
        BY <2>1, <2>3, <4>1, <4>2 DEF SessionInv, Owned, OwnedCall
    <3>2. (known \subseteq 1 .. made)' /\ \A u \in Threads : status'[u] # "none" => u <= made'
      BY <2>1 DEF SessionInv, Owned, t, Threads
    <3> QED
      BY <3>1, <3>2 DEF Owned
  <2> QED
    BY <2>1, <2>4 DEF SessionInv, OneStart, Driven, Undriven, Drives, ActiveRuns, Limited,
       Limiting, Counted
<1>39. CASE UNCHANGED vars
  <2>1. \A c \in Clients : Stays(c)
    BY <1>39 DEF vars, Stays, Offered
  <2> QED
    BY <1>39, <2>1, KeptSettle, SettledInv DEF vars
<1> QED
  BY <1>1, <1>2, <1>3, <1>4, <1>5, <1>6, <1>7, <1>8, <1>9, <1>10, <1>11, <1>12, <1>13,
     <1>14, <1>15, <1>16, <1>17, <1>18, <1>19, <1>20, <1>21, <1>22, <1>23, <1>24, <1>25,
     <1>26, <1>27, <1>28, <1>29, <1>30, <1>31, <1>32, <1>33, <1>34, <1>35, <1>36, <1>37,
     <1>38, <1>39
     DEF Next, Begin, Proceed, Response, Notification

LEMMA SessionInitially == Init => SessionInv
<1> SUFFICES ASSUME Init PROVE SessionInv
  OBVIOUS
<1>1. Owned
  BY RequestFields, BridgeAssumption DEF Init, Owned, OwnedCall, Offered
<1>2. OneStart /\ Driven /\ ActiveRuns /\ Limited
  BY DEF Init, OneStart, Driven, Undriven, ActiveRuns, Limited
<1>3. Limiting = {}
  BY DEF Init, Limiting, Counted
<1>4. Cardinality(Limiting) <= MaxSessions
  BY <1>3, FS_EmptySet, BridgeAssumption
<1> QED
  BY <1>1, <1>2, <1>4 DEF SessionInv

LEMMA SessionsCorrect == Spec => []SessionInv
BY SessionInitially, SessionSteps, TypeCorrect, LocalCorrect, PTL DEF Spec

-----------------------------------------------------------------------------
\* The theorems

\* The limit on sessions: the check of start_session and the insertion after two
\* requests hold together, whatever else ends, fails or stops sessions in between.
THEOREM SessionsLimited == Spec => []SessionLimit
<1>1. SessionInv => SessionLimit
  BY DEF SessionInv, Limiting, SessionLimit
<1> QED
  BY <1>1, SessionsCorrect, PTL

\* Every active turn runs, or was taken up too late.
TurnsAtWork == \A t \in Threads : active[t] # 0 => TurnAtWork(t)

\* Turns that stay active go on running, and what was taken up too late stays so.
LEMMA KeptTurns ==
    ASSUME TurnsAtWork, overtaken \subseteq overtaken',
           \A t \in Threads : active'[t] # 0 =>
               /\ active'[t] = active[t]
               /\ LiveTurn(t, active[t]) => LiveTurn(t, active[t])'
    PROVE  TurnsAtWork'
BY DEF TurnsAtWork, TurnAtWork, LiveTurn

\* A step that ends no turn, and no reader, and makes no turn active.
LEMMA UntouchedTurns ==
    ASSUME TypeOK, TurnsAtWork, UNCHANGED <<home, turns, running, overtaken>>,
           \A g \in Gens : reading[g] => reading'[g],
           \A t \in Threads : active'[t] \in {active[t], 0}
    PROVE  TurnsAtWork'
<1>1. \A t \in Threads : home[t] # 0 => home[t] \in Gens
  BY BridgeAssumption DEF TypeOK, Gens
<1>2. \A t \in Threads : active'[t] = active[t] /\ LiveTurn(t, active[t]) =>
                              LiveTurn(t, active[t])'
  BY <1>1 DEF LiveTurn
<1> QED
  BY <1>2, KeptTurns

LEMMA OverwrittenTurns ==
    ASSUME TypeOK, NEW u, NEW s, Overwrite(u, s, 0)
    PROVE  \A t \in Threads : active'[t] \in {active[t], 0}
BY DEF Overwrite, TypeOK

LEMMA TurnSteps == TypeOK /\ SessionInv /\ TurnsAtWork /\ [Next]_vars => TurnsAtWork'
<1> USE DEF handles, sessions, codex, world, history, client
<1> SUFFICES ASSUME TypeOK, SessionInv, TurnsAtWork, [Next]_vars PROVE TurnsAtWork'
  OBVIOUS
<1>1. ASSUME NEW c \in Clients,
             StartSession(c) \/ ServerPresent(c) \/ SpawnServer(c) \/ SpawnFails(c)
      PROVE TurnsAtWork'
  BY <1>1, UntouchedTurns DEF StartSession, ServerPresent, SpawnServer, SpawnFails, TypeOK
<1>2. ASSUME NEW c \in Clients,
             RequestNoServer(c) \/ RequestWritten(c) \/ RequestWriteFails(c) \/ RequestBlocks(c)
      PROVE TurnsAtWork'
  BY <1>2, UntouchedTurns DEF RequestNoServer, RequestWritten, RequestWriteFails,
     RequestBlocks, Issue
<1>3. ASSUME NEW c \in Clients,
             \/ WriteCompletes(c) \/ WriteBreaks(c) \/ SessionGone(c) \/ RequestTimesOut(c)
             \/ RemoveExpired(c) \/ RequestFails(c) \/ Initialized(c) \/ Steered(c)
             \/ Interrupted(c)
      PROVE TurnsAtWork'
  BY <1>3, UntouchedTurns DEF WriteCompletes, WriteBreaks, SessionGone, RequestTimesOut,
     RemoveExpired, RequestFails, Initialized, Steered, Interrupted
<1>4. ASSUME NEW c \in Clients, NEW t \in Threads, SendMessage(c, t) \/ StopSession(c, t)
      PROVE TurnsAtWork'
  BY <1>4, UntouchedTurns DEF SendMessage, StopSession
<1>5. ASSUME NEW c \in Clients, Close(c) PROVE TurnsAtWork'
  BY <1>5, UntouchedTurns DEF Close
<1>6. ASSUME NEW c \in Clients, InsertSession(c) \/ MarkSessionFailed(c) \/ FinishStop(c)
      PROVE TurnsAtWork'
  <2>1. \A t \in Threads : active'[t] \in {active[t], 0}
    BY <1>6, OverwrittenTurns DEF InsertSession, MarkSessionFailed, FinishStop
  <2> QED
    BY <1>6, <2>1, UntouchedTurns DEF InsertSession, MarkSessionFailed, FinishStop
<1>7. ASSUME NEW c \in Clients, SetIdle(c) PROVE TurnsAtWork'
  <2>1. active' = active
    BY <1>7 DEF SetIdle, Overwrite, TypeOK
  <2> QED
    BY <1>7, <2>1, UntouchedTurns DEF SetIdle
<1>8. ASSUME NEW c \in Clients, TurnStarted(c) PROVE TurnsAtWork'
  <2> DEFINE t == req[c].thread
             n == answer[c].val
  <2>1. UNCHANGED <<home, reading, turns, running>>
    BY <1>8 DEF TurnStarted
  <2>2. CASE status[t] = "none"
    BY <1>8, <2>1, <2>2, UntouchedTurns DEF TurnStarted
  <2>3. CASE status[t] # "none"
    <3>1. /\ active' = [active EXCEPT ![t] = n] /\ overtaken \subseteq overtaken'
          /\ LiveTurn(t, n) \/ <<t, n>> \in overtaken'
      BY <1>8, <2>3 DEF TurnStarted, Overwrite
    <3> HIDE DEF t, n
    <3>2. ASSUME NEW u \in Threads, active'[u] # 0 PROVE TurnAtWork(u)'
      <4>1. CASE u = t
        <5>1. active'[u] = n
          BY <3>1, <4>1 DEF TypeOK
        <5> QED
          BY <2>1, <3>1, <4>1, <5>1 DEF TurnAtWork, LiveTurn
      <4>2. CASE u # t
        <5>1. active'[u] = active[u]
          BY <3>1, <4>2 DEF TypeOK
        <5> QED
          BY <2>1, <3>1, <3>2, <5>1 DEF TurnsAtWork, TurnAtWork, LiveTurn
      <4> QED
        BY <4>1, <4>2
    <3> QED
      BY <3>2 DEF TurnsAtWork
  <2> QED
    BY <2>2, <2>3
<1>9. ASSUME NEW g \in Gens, NEW r \in asked,
             HandleError(g, r) \/ HandleDone(g, r) \/ HandleSteered(g, r)
      PROVE TurnsAtWork'
  BY <1>9, UntouchedTurns DEF HandleError, HandleDone, HandleSteered
<1>10. ASSUME NEW g \in Gens, NEW r \in asked, HandleThreadStarted(g, r) PROVE TurnsAtWork'
  <2>1. /\ UNCHANGED <<status, active, reading, turns, running, overtaken>>
        /\ home' = [home EXCEPT ![made + 1] = g]
    BY <1>10 DEF HandleThreadStarted
  <2>2. \A t \in Threads : active[t] # 0 => t # made + 1
    BY DEF SessionInv, Owned, ActiveRuns, TypeOK
  <2> QED
    BY <2>1, <2>2, KeptTurns DEF LiveTurn, TypeOK
<1>11. ASSUME NEW g \in Gens, NEW r \in asked, HandleTurnStarted(g, r) PROVE TurnsAtWork'
  <2>1. /\ UNCHANGED <<active, home, reading, overtaken>> /\ ~ running[r.thread]
        /\ turns' = [turns EXCEPT ![r.thread] = @ + 1]
        /\ running' = [running EXCEPT ![r.thread] = TRUE]
    BY <1>11 DEF HandleTurnStarted
  <2>2. \A t \in Threads : LiveTurn(t, active[t]) => t # r.thread
    BY <2>1 DEF LiveTurn
  <2> QED
    BY <2>1, <2>2, KeptTurns DEF LiveTurn, TypeOK
<1>12. ASSUME NEW g \in Gens, NEW t \in Threads, TurnCompleted(g, t) \/ ThreadClosed(g, t)
       PROVE TurnsAtWork'
  <2>1. /\ UNCHANGED <<reading, turns, overtaken>>
        /\ home' \in {home, [home EXCEPT ![t] = 0]}
        /\ running' = [running EXCEPT ![t] = FALSE]
    BY <1>12 DEF TurnCompleted, ThreadClosed
  <2>2. active'[t] = 0 /\ \A u \in Threads \ {t} : active'[u] = active[u]
    <3>1. CASE status[t] = "none"
      BY <1>12, <3>1 DEF TurnCompleted, ThreadClosed, SessionInv, ActiveRuns
    <3>2. CASE status[t] # "none"
      BY <1>12, <3>2 DEF TurnCompleted, ThreadClosed, Overwrite, TypeOK
    <3> QED
      BY <3>1, <3>2
  <2> QED
    BY <2>1, <2>2, KeptTurns DEF LiveTurn, TypeOK
<1>13. ASSUME NEW g \in Gens, ReaderEnds(g) \/ MonitorExit(g) PROVE TurnsAtWork'
  <2>1. \A t \in Threads : active'[t] = 0
    BY <1>13 DEF ReaderEnds, MonitorExit, MarkSessionsFailed, Counted, SessionInv, ActiveRuns,
       TypeOK
  <2> QED
    BY <2>1 DEF TurnsAtWork
<1>14. ASSUME NEW g \in Gens,
              ReplyBlocks(g) \/ ReplyDone(g) \/ ServerExits(g) \/ KillServer(g)
       PROVE TurnsAtWork'
  BY <1>14, UntouchedTurns DEF ReplyBlocks, ReplyDone, ServerExits, KillServer
<1>15. CASE UNCHANGED vars
  BY <1>15, UntouchedTurns DEF vars
<1> QED
  BY <1>1, <1>2, <1>3, <1>4, <1>5, <1>6, <1>7, <1>8, <1>9, <1>10, <1>11, <1>12, <1>13,
     <1>14, <1>15 DEF Next, Begin, Proceed, Response, Notification

LEMMA TurnsCorrect == Spec => []TurnsAtWork
<1>1. Init => TurnsAtWork
  BY DEF Init, TurnsAtWork
<1> QED
  BY <1>1, TurnSteps, TypeCorrect, SessionsCorrect, PTL DEF Spec

\* Only a Running session has an active turn, and its server still runs that turn, but for
\* one that was over when start_turn took it up.
THEOREM TurnsRun == Spec => []ActiveTurnRuns
<1>1. SessionInv /\ TurnsAtWork => ActiveTurnRuns
  BY DEF SessionInv, ActiveRuns, TurnsAtWork, ActiveTurnRuns
<1> QED
  BY <1>1, SessionsCorrect, TurnsCorrect, PTL

\* A session that keeps read_response waiting has a turn its server still runs, a call at
\* work on it, or a turn that was over when start_turn took it up.
THEOREM RunningDriven == Spec => []RunningHasDriver
<1>1. SessionInv /\ TurnsAtWork => RunningHasDriver
  BY DEF SessionInv, TurnsAtWork, Driven, Undriven, Drives, RunningHasDriver
<1> QED
  BY <1>1, SessionsCorrect, TurnsCorrect, PTL

\* A step takes a session out of Stopped only in a call that was at work on it.
LEMMA StoppedSteps ==
    ASSUME TypeOK, LocalInv, SessionInv, [Next]_vars, NEW t \in Threads,
           status[t] = "stopped", status'[t] \notin {"none", "stopped"}
    PROVE  \E c \in Clients : op[c] \in {"start", "send"} /\ req[c].thread = t
<1> USE DEF handles, sessions, codex, world, history, client
<1>1. \A u \in Threads, s \in Statuses \cup {"none"} : \A n :
          Overwrite(u, s, n) => u = t /\ s # "stopped"
  BY DEF Overwrite, TypeOK
<1>2. ~ MarkSessionsFailed
  BY DEF MarkSessionsFailed, Counted
<1>3. status' # status
  OBVIOUS
<1>4. ASSUME NEW c \in Clients,
             StartSession(c) \/ ServerPresent(c) \/ SpawnServer(c) \/ SpawnFails(c)
      PROVE FALSE
  BY <1>3, <1>4 DEF StartSession, ServerPresent, SpawnServer, SpawnFails
<1>5. ASSUME NEW c \in Clients,
             RequestNoServer(c) \/ RequestWritten(c) \/ RequestWriteFails(c) \/ RequestBlocks(c)
      PROVE FALSE
  BY <1>3, <1>5 DEF RequestNoServer, RequestWritten, RequestWriteFails, RequestBlocks, Issue
<1>6. ASSUME NEW c \in Clients,
             \/ WriteCompletes(c) \/ WriteBreaks(c) \/ SessionGone(c) \/ RequestTimesOut(c)
             \/ RemoveExpired(c) \/ RequestFails(c) \/ Initialized(c) \/ Steered(c)
             \/ Interrupted(c)
      PROVE FALSE
  BY <1>3, <1>6 DEF WriteCompletes, WriteBreaks, SessionGone, RequestTimesOut, RemoveExpired,
     RequestFails, Initialized, Steered, Interrupted
<1>7. ASSUME NEW c \in Clients, Close(c) PROVE FALSE
  BY <1>7 DEF Close
<1>8. ASSUME NEW c \in Clients, NEW u \in Threads, SendMessage(c, u) \/ StopSession(c, u)
      PROVE FALSE
  BY <1>8 DEF SendMessage, StopSession, TypeOK
<1>9. ASSUME NEW c \in Clients, InsertSession(c) PROVE FALSE
  <2> DEFINE u == answer[c].val
  <2>1. Offered(c, u) /\ u \in 1 .. made /\ Overwrite(u, "starting", 0)
    BY <1>9 DEF InsertSession, Answered, Offered, LocalInv, Reply
  <2> HIDE DEF u
  <2>2. u \in Threads
    BY <2>1, BridgeAssumption DEF Threads, TypeOK
  <2>3. u = t
    BY <1>1, <2>1, <2>2, NameTypes
  <2> QED
    BY <2>1, <2>3 DEF SessionInv, Owned, OwnedCall
<1>10. ASSUME NEW c \in Clients, SetIdle(c) PROVE op[c] = "start" /\ req[c].thread = t
  <2>1. op[c] = "start" /\ req[c].thread # 0
    BY <1>10 DEF SetIdle, LocalInv, Shape, Starting, Asking
  <2> QED
    BY <1>1, <1>3, <1>10, <2>1, ThreadInRange, NameTypes DEF SetIdle
<1>11. ASSUME NEW c \in Clients, TurnStarted(c)
       PROVE  op[c] \in {"start", "send"} /\ req[c].thread = t
  <2>1. op[c] \in {"start", "send"} /\ (op[c] = "start" => req[c].thread # 0)
    BY <1>11 DEF TurnStarted, Answered, LocalInv, Shape, Starting, Asking
  <2> QED
    BY <1>1, <1>3, <1>11, <2>1, ThreadInRange, KnownThread, NameTypes DEF TurnStarted
<1>12. ASSUME NEW c \in Clients, MarkSessionFailed(c)
       PROVE  op[c] \in {"start", "send"} /\ req[c].thread = t
  <2>1. op[c] \in {"start", "send"}
    BY <1>12 DEF MarkSessionFailed, LocalInv, Shape, Starting, Asking
  <2> QED
    BY <1>1, <1>3, <1>12, <2>1, ThreadInRange, NameTypes DEF MarkSessionFailed
<1>13. ASSUME NEW c \in Clients, FinishStop(c) PROVE FALSE
  <2>1. op[c] = "stop"
    BY <1>13 DEF FinishStop, LocalInv, Shape, Starting, Asking
  <2> QED
    BY <1>1, <1>3, <1>13, <2>1, KnownThread, NameTypes DEF FinishStop
<1>14. ASSUME NEW g \in Gens, Response(g) PROVE FALSE
  BY <1>3, <1>14 DEF Response, HandleError, HandleDone, HandleThreadStarted, HandleTurnStarted,
     HandleSteered
<1>15. ASSUME NEW g \in Gens, NEW u \in Threads, TurnCompleted(g, u) PROVE FALSE
  <2>1. Overwrite(u, AfterTurn(status[u]), 0) /\ AfterTurn(status[u]) \in Statuses
    BY <1>3, <1>15, NameTypes DEF TurnCompleted, AfterTurn
  <2>2. u = t /\ AfterTurn(status[u]) # "stopped"
    BY <1>1, <2>1
  <2> QED
    BY <2>2 DEF AfterTurn
<1>16. ASSUME NEW g \in Gens, NEW u \in Threads, ThreadClosed(g, u) PROVE FALSE
  BY <1>1, <1>3, <1>16, NameTypes DEF ThreadClosed
<1>17. ASSUME NEW g \in Gens,
             \/ ReplyBlocks(g) \/ ReplyDone(g) \/ ReaderEnds(g)
             \/ ServerExits(g) \/ KillServer(g) \/ MonitorExit(g)
       PROVE FALSE
  BY <1>2, <1>3, <1>17 DEF ReplyBlocks, ReplyDone, ReaderEnds, ServerExits, KillServer,
     MonitorExit
<1>18. ~ UNCHANGED vars
  BY <1>3 DEF vars
<1> QED
  BY <1>4, <1>5, <1>6, <1>7, <1>8, <1>9, <1>10, <1>11, <1>12, <1>13, <1>14, <1>15, <1>16,
     <1>17, <1>18 DEF Next, Begin, Proceed, Notification

\* Stopped is left only by a start or a send that was in flight when the session was
\* stopped.
THEOREM StoppedStay == Spec => StoppedStays
<1> DEFINE Stay == \A t \in Threads :
                      status[t] = "stopped" /\ status'[t] \notin {"none", "stopped"} =>
                          \E c \in Clients : op[c] \in {"start", "send"} /\ req[c].thread = t
<1>1. TypeOK /\ LocalInv /\ SessionInv /\ [Next]_vars => [Stay]_vars
  BY StoppedSteps
<1> QED
  BY <1>1, TypeCorrect, LocalCorrect, SessionsCorrect, PTL DEF Spec, StoppedStays
=============================================================================
