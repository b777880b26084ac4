---------------------------- MODULE McpSessions ----------------------------
(***************************************************************************)
(* TtlSessionManager (src/server/session.rs): last-used times around the   *)
(* session table of rmcp.  Every call first expires stale sessions; so     *)
(* does a cleanup task.  The times and the table each have a lock, and no  *)
(* call holds both: an action is one access to one of them.                *)
(*                                                                         *)
(* A time is how long ago it was set, and grows with Tick.  A call reads   *)
(* the clock before it waits for the lock; what it waits only makes it     *)
(* expire less, and is left out.  What rmcp does for a session beyond its  *)
(* table is left out, and so is restore_session, which needs a store of    *)
(* sessions this server does not have.                                     *)
(***************************************************************************)
EXTENDS Naturals

CONSTANTS
    Sessions,           \* the ids that create_session may give; each is given once
    Calls,              \* calls of rmcp under way
    Cleanup,            \* the cleanup task
    Ttl,
    Nil                \* no time, no session

ASSUME SessionsAssumption ==
    /\ Ttl \in Nat /\ Nil \notin Nat /\ Nil \notin Sessions /\ Cleanup \notin Calls

VARIABLES
    inner,              \* rmcp's table of sessions
    lastUsed,           \* how long ago each was used
    made,               \* the ids given so far
    \* a task: its step, what it was called for, its session, the expired ones it has to close
    pc, call, id, todo,
    orphans             \* history: sessions a call had in hand when its client went away

tasks == <<pc, call, id, todo>>
sessionVars  == <<inner, lastUsed, made, tasks, orphans>>

Tasks == Calls \cup {Cleanup}
Times == 0 .. Ttl + 1

SessionsInit ==
    /\ inner = {} /\ made = {} /\ orphans = {}
    /\ lastUsed = [s \in Sessions |-> Nil]
    /\ pc = [t \in Tasks |-> "idle"] /\ call = [t \in Tasks |-> "none"]
    /\ id = [t \in Tasks |-> Nil] /\ todo = [t \in Tasks |-> {}]

-----------------------------------------------------------------------------

Goto(t, l) == pc' = [pc EXCEPT ![t] = l] /\ UNCHANGED <<call, todo>>

\* The task is through.
Done(t) ==
    /\ pc' = [pc EXCEPT ![t] = "idle"] /\ call' = [call EXCEPT ![t] = "none"]
    /\ id' = [id EXCEPT ![t] = Nil] /\ todo' = [todo EXCEPT ![t] = {}]

\* create_session, has_session, close_session, and the calls that begin with touch_active
Begin(t, kind, s) ==
    /\ pc[t] = "idle"
    /\ pc' = [pc EXCEPT ![t] = IF kind = "close" THEN "forget" ELSE "expire"]
    /\ call' = [call EXCEPT ![t] = kind]
    /\ id' = [id EXCEPT ![t] = s]
    /\ UNCHANGED <<inner, lastUsed, made, todo, orphans>>

BeginCreate(t)    == t \in Calls /\ Begin(t, "create", Nil)
BeginHas(t, s)    == t \in Calls /\ s \in made /\ Begin(t, "has", s)
BeginUse(t, s)    == t \in Calls /\ s \in made /\ Begin(t, "use", s)
BeginClose(t, s)  == t \in Calls /\ s \in made /\ Begin(t, "close", s)
BeginCleanup      == Begin(Cleanup, "cleanup", Nil)

-----------------------------------------------------------------------------
\* expire_stale: the stale times go first, the sessions one by one after them.

Stale == {s \in Sessions : lastUsed[s] # Nil /\ lastUsed[s] > Ttl}

\* For mutation: the stale times stay.
ExpireKeeping(t) ==
    /\ pc[t] = "expire"
    /\ todo' = [todo EXCEPT ![t] = Stale]
    /\ pc' = [pc EXCEPT ![t] = "expiring"]
    /\ UNCHANGED <<inner, lastUsed, made, call, id, orphans>>

Expire(t) ==
    /\ pc[t] = "expire"
    /\ lastUsed' = [s \in Sessions |-> IF s \in Stale THEN Nil ELSE lastUsed[s]]
    /\ todo' = [todo EXCEPT ![t] = Stale]
    /\ pc' = [pc EXCEPT ![t] = "expiring"]
    /\ UNCHANGED <<inner, made, call, id, orphans>>

\* For mutation: the sessions stay in the table.
SkipExpired(t, s) ==
    /\ pc[t] = "expiring" /\ s \in todo[t]
    /\ todo' = [todo EXCEPT ![t] = @ \ {s}]
    /\ UNCHANGED <<inner, lastUsed, made, pc, call, id, orphans>>

CloseExpired(t, s) ==
    /\ pc[t] = "expiring" /\ s \in todo[t]
    /\ inner' = inner \ {s}
    /\ todo' = [todo EXCEPT ![t] = @ \ {s}]
    /\ UNCHANGED <<lastUsed, made, pc, call, id, orphans>>

Expired(t) == pc[t] = "expiring" /\ todo[t] = {}

CleanupDone ==
    /\ Expired(Cleanup)
    /\ Done(Cleanup) /\ UNCHANGED <<inner, lastUsed, made, orphans>>

-----------------------------------------------------------------------------
\* What comes after it

Create(t, s) ==
    /\ call[t] = "create" /\ Expired(t) /\ s \in Sessions \ made
    /\ inner' = inner \cup {s} /\ made' = made \cup {s}
    /\ id' = [id EXCEPT ![t] = s]
    /\ Goto(t, "touch") /\ UNCHANGED <<lastUsed, orphans>>

\* For mutation: the error is not returned, and the call goes on without an id.
FailureIgnored(t) ==
    /\ call[t] = "create" /\ Expired(t)
    /\ Goto(t, "touch") /\ UNCHANGED <<inner, lastUsed, made, id, orphans>>

CreateFails(t) ==
    /\ call[t] = "create" /\ Expired(t)
    /\ Done(t) /\ UNCHANGED <<inner, lastUsed, made, orphans>>

\* touch_active touches a session only when there is one; has_session drops the time of one
\* that is gone.
Look(t) ==
    /\ call[t] \in {"has", "use"} /\ Expired(t)
    /\ \/ id[t] \in inner /\ Goto(t, "touch") /\ UNCHANGED id
       \/ id[t] \notin inner /\ call[t] = "has" /\ Goto(t, "forget") /\ UNCHANGED id
       \/ id[t] \notin inner /\ call[t] = "use" /\ Done(t)
    /\ UNCHANGED <<inner, lastUsed, made, orphans>>

\* For mutation: the session is not given a time.
TouchNothing(t) ==
    /\ pc[t] = "touch"
    /\ Done(t) /\ UNCHANGED <<inner, lastUsed, made, orphans>>

Touch(t) ==
    /\ pc[t] = "touch"
    /\ lastUsed' = [lastUsed EXCEPT ![id[t]] = 0]
    /\ Done(t) /\ UNCHANGED <<inner, made, orphans>>

Forget(t) ==
    /\ pc[t] = "forget"
    /\ lastUsed' = [lastUsed EXCEPT ![id[t]] = Nil]
    /\ IF call[t] = "close" THEN Goto(t, "drop") /\ UNCHANGED id ELSE Done(t)
    /\ UNCHANGED <<inner, made, orphans>>

Drop(t) ==
    /\ pc[t] = "drop"
    /\ inner' = inner \ {id[t]}
    /\ Done(t) /\ UNCHANGED <<lastUsed, made, orphans>>

-----------------------------------------------------------------------------

\* What a task must still do something about, or the session is in the table without a time.
InHand(t) ==
    todo[t] \cup IF pc[t] = "drop" \/ (pc[t] = "touch" /\ call[t] = "create") THEN {id[t]} ELSE {}

\* The client goes away and the call is dropped at an await, with what it had in hand.
Cancel(t) ==
    /\ t \in Calls /\ pc[t] # "idle"
    /\ orphans' = orphans \cup InHand(t)
    /\ Done(t) /\ UNCHANGED <<inner, lastUsed, made>>

Older(age) == IF age = Nil \/ age = Ttl + 1 THEN age ELSE age + 1

Tick ==
    /\ lastUsed' = [s \in Sessions |-> Older(lastUsed[s])]
    /\ UNCHANGED <<inner, made, tasks, orphans>>

Step(t) ==
    \/ Expire(t) \/ \E s \in Sessions : CloseExpired(t, s)
    \/ \E s \in Sessions : Create(t, s)
    \/ CreateFails(t) \/ Look(t) \/ Touch(t) \/ Forget(t) \/ Drop(t)

SessionsNext ==
    \/ \E t \in Calls : \/ BeginCreate(t)
                        \/ \E s \in Sessions : BeginHas(t, s) \/ BeginUse(t, s) \/ BeginClose(t, s)
                        \/ Step(t) \/ Cancel(t)
    \/ BeginCleanup \/ Step(Cleanup) \/ CleanupDone
    \/ Tick

\* Time goes on, the cleanup comes round, and a task that can go on does, unless cancelled.
SessionsSpec ==
    /\ SessionsInit /\ [][SessionsNext]_sessionVars
    /\ WF_sessionVars(Tick)
    /\ WF_sessionVars(BeginCleanup \/ Step(Cleanup) \/ CleanupDone)
    /\ \A t \in Calls : WF_sessionVars(Step(t))

-----------------------------------------------------------------------------
\* Properties

Kinds == {"none", "cleanup", "create", "has", "use", "close"}
SessionsTypeOK ==
    /\ inner \subseteq made /\ made \subseteq Sessions /\ orphans \subseteq made
    /\ lastUsed \in [Sessions -> Times \cup {Nil}]
    /\ \A s \in Sessions : lastUsed[s] # Nil => s \in made
    /\ pc \in [Tasks -> {"idle", "expire", "expiring", "touch", "forget", "drop"}]
    /\ call \in [Tasks -> Kinds]
    /\ id \in [Tasks -> made \cup {Nil}]
    /\ \A t \in Tasks : pc[t] \in {"touch", "forget", "drop"} => id[t] # Nil
    /\ todo \in [Tasks -> SUBSET made]

\* No session is forgotten: one that is in the table has a last-used time, or a task that is
\* about to set it or to close the session, however calls, expiries and closings overlap;
\* only a call that is cut short leaves one without.
SessionsKeepTimes ==
    \A s \in inner \ orphans : lastUsed[s] # Nil \/ \E t \in Tasks : s \in InHand(t)

Fresh(s) == lastUsed[s] # Nil /\ lastUsed[s] <= Ttl

\* "keeps sessions alive for 30 minutes of inactivity" (README.md 227), and no longer: a
\* session does not stay in the table unused.
IdleSessionsClose == \A s \in Sessions : []<>(s \notin inner \/ Fresh(s) \/ s \in orphans)

\* The last-used time of a session that is gone goes too, even when a call that had found
\* the session sets it afterwards.
LostTimesGo == \A s \in Sessions : [](s \in made \ inner => <>(lastUsed[s] = Nil))
=============================================================================
