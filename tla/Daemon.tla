------------------------------- MODULE Daemon -------------------------------
(***************************************************************************)
(* The drun daemon serving several requests at a time: the map of open     *)
(* sessions, the session each connection is at, one mutex per session, the *)
(* idle check and the idle reaper.  A request runs in the steps between    *)
(* which another one can come: a use of the map of sessions, a use of the  *)
(* map of current sessions, taking or releasing a session's mutex.         *)
(*                                                                         *)
(* What a call does to a session is Session.tla's; here it is one change   *)
(* more (`changes`).  Time is the number of ticks since an event, up to    *)
(* the first one at which every limit is exceeded.                         *)
(***************************************************************************)
EXTENDS Naturals, FiniteSets

CONSTANTS
  Requests,         \* requests being served at a time
  Connections,      \* MCP connections
  Ids,              \* session ids; one is never drawn twice
  None,             \* no session id, no timeout or limit, the holder of a free mutex
  Kinds,            \* the kinds of request served
  SessionLimits,    \* the values max_sessions may have, at startup or by an edit
  IdleTimeout,      \* session_idle_timeout_secs when the daemon started
  IdleTimeouts,     \* the values an edit of the config may give it later
  SnapshotOnClose,  \* Config::snapshot_on_close
  WritesMayFail,    \* whether writing the snapshot of a close may fail
  MaxRequests       \* bound: requests and edits of max_sessions of one behaviour

ASSUME NamesAssumption == None \notin Ids \cup Requests \cup Nat

\* The limits there are: they are u64, so one of them is the longest.
Limits == IdleTimeouts \ {None}

ASSUME LimitsAssumption ==
  /\ SessionLimits \subseteq Nat \cup {None} /\ MaxRequests \in Nat
  /\ IdleTimeouts \subseteq Nat \cup {None} /\ IdleTimeout \in IdleTimeouts
  /\ Limits /= {} => \E longest \in Limits : \A t \in Limits : t <= longest

ASSUME FlagsAssumption == SnapshotOnClose \in BOOLEAN /\ WritesMayFail \in BOOLEAN

VARIABLES
  sessions,  \* ids of the open sessions
  used,      \* ids of the sessions ever opened
  current,   \* current_sessions: the session each connection is at
  holder,    \* the request that holds a session's mutex
  idle,      \* ticks since last_activity was set
  timeout,   \* session_idle_timeout_secs as the config file has it now
  limit,     \* max_sessions as the config file has it now
  over,      \* history: the sessions open when max_sessions was last edited, if more than it allowed
  lowered,   \* history: whether an edit ever lowered max_sessions
  changes,   \* changes made to each session
  saved,     \* changes that are in the snapshot its close wrote
  live,      \* live_output: the request whose command a session is shown to run
  evicted,   \* the sessions the reaper removed
  served,    \* requests begun and edits of max_sessions so far
  req        \* where each request is

vars == <<sessions, used, current, holder, idle, timeout, limit, over, lowered,
          changes, saved, live, evicted, served, req>>

\* The largest number of ticks that is told apart.
Long == IF Limits = {} THEN 0
        ELSE CHOOSE n \in {t + 1 : t \in Limits} : \A t \in Limits : t < n

Exceeds(ticks, allowed) == allowed /= None /\ ticks > allowed

\* with_session_mut for tools that only read and for those that change the
\* session, and with_session(_mut) of the web UI.
InSession == {"read", "write", "web"}
Creating == {"create", "webcreate", "fork", "webfork"}
AllKinds == InSession \cup Creating \cup {"switch", "merge", "close", "list", "tree", "status"}

Idle == [kind |-> "none", at |-> "done", conn |-> None, id |-> None, from |-> None,
         rest |-> {}]
Request == [kind : AllKinds \cup {"none"},
            at : {"done", "lookup", "try", "work", "running", "find", "wait",
                  "insert", "report", "set", "remove", "clear", "save", "visit", "status"},
            conn : Connections \cup {None}, id : Ids \cup {None},
            from : Ids \cup {None}, rest : SUBSET Ids]

TypeOK ==
  /\ sessions \subseteq used /\ used \subseteq Ids
  /\ current \in [Connections -> Ids \cup {None}]
  /\ holder \in [Ids -> Requests \cup {None}]
  /\ idle \in [Ids -> 0 .. Long]
  /\ timeout \in IdleTimeouts /\ limit \in SessionLimits
  /\ over \in Nat /\ lowered \in BOOLEAN
  /\ changes \in [Ids -> Nat]
  /\ saved \in [Ids -> Nat \cup {None}]
  /\ live \in [Ids -> Requests \cup {None}]
  /\ evicted \subseteq used \ sessions
  /\ served \in 0 .. MaxRequests
  /\ req \in [Requests -> Request]

\* Whether so many sessions are allowed, as the config has it now.
WithinLimit(open) == limit /= None => Cardinality(open) <= limit

\* Some sessions are open already and each connection is at one of them.
Init ==
  /\ sessions \in SUBSET Ids /\ IsFiniteSet(sessions)
  /\ limit \in SessionLimits /\ WithinLimit(sessions)
  /\ used = sessions
  /\ current \in [Connections -> sessions \cup {None}]
  /\ holder = [id \in Ids |-> None]
  /\ idle = [id \in Ids |-> 0]
  /\ timeout = IdleTimeout
  /\ over = 0 /\ lowered = FALSE
  /\ changes = [id \in Ids |-> 0]
  /\ saved = [id \in Ids |-> None]
  /\ live = [id \in Ids |-> None]
  /\ evicted = {}
  /\ served = 0
  /\ req = [r \in Requests |-> Idle]

-----------------------------------------------------------------------------
(***************************************************************************)
(* Steps that the handlers share.                                          *)
(***************************************************************************)
registry == <<sessions, used, current, evicted>>
config == <<timeout, limit, over, lowered>>
clocks == <<idle, config>>
history == <<changes, saved, live>>

Goto(r, place) == req' = [req EXCEPT ![r].at = place]
Done(r) == req' = [req EXCEPT ![r] = Idle]

Free(id) == holder[id] = None
Take(r, id) == holder' = [holder EXCEPT ![id] = r]

\* The guards a request holds are dropped when its handler returns.
Release(r) == holder' = [id \in Ids |-> IF holder[id] = r THEN None ELSE holder[id]]

\* The handler returns, with an answer or an error.
Return(r) == Done(r) /\ Release(r)

\* A request of connection c arrives; `id` is the session it is to run in.
Begin(r, kind, c, id, from, place, rest) ==
  /\ kind \in Kinds
  /\ req[r] = Idle
  /\ served < MaxRequests
  /\ served' = served + 1
  /\ req' = [req EXCEPT ![r] = [kind |-> kind, at |-> place, conn |-> c, id |-> id,
                                from |-> from, rest |-> rest]]
  /\ UNCHANGED <<registry, holder, clocks, history>>

\* resolve_session: a request whose session is not in the map fails.
Resolve(r, id, next) ==
  /\ \/ id \in sessions /\ Goto(r, next) /\ UNCHANGED holder
     \/ id \notin sessions /\ Return(r)
  /\ UNCHANGED <<registry, clocks, history, served>>

\* The session is read for the answer: lock waits, the guard is dropped at once.
Report(r) ==
  /\ req[r].at = "report"
  /\ Free(req[r].id)
  /\ IF req[r].kind \in {"create", "fork"} THEN Goto(r, "set") /\ UNCHANGED holder
                                            ELSE Return(r)
  /\ UNCHANGED <<registry, clocks, history, served>>

SetCurrent(r) ==
  /\ req[r].at = "set"
  /\ current' = [current EXCEPT ![req[r].conn] = req[r].id]
  /\ IF req[r].kind = "switch" THEN Goto(r, "report") ELSE Done(r)
  /\ UNCHANGED <<sessions, used, evicted, holder, clocks, history, served>>

-----------------------------------------------------------------------------
(***************************************************************************)
(* Calls in one session.                                                   *)
(***************************************************************************)

\* The id is resolved before an await (session_fetch) or a wait for a thread
\* (session_bash), and looked up after it.
BeginCall(r) ==
  \/ \E c \in Connections, kind \in {"read", "write"} :
       current[c] /= None /\ Begin(r, kind, c, current[c], None, "lookup", {})
  \/ \E id \in used : Begin(r, "web", None, id, None, "lookup", {})

Lookup(r) ==
  /\ req[r].at = "lookup"
  /\ Resolve(r, req[r].id, IF req[r].kind = "switch" THEN "set" ELSE "try")

\* check_idle compares with the timeout the config file has now; the web UI
\* neither checks nor refreshes last_activity.
TooIdle(r) ==
  req[r].kind \in {"read", "write", "merge"} /\ Exceeds(idle[req[r].id], timeout)

\* Mutant: a merge waits for its target.
BusyButMerge(r) ==
  /\ req[r].at = "try" /\ req[r].kind /= "merge"
  /\ ~Free(req[r].id)
  /\ Return(r)
  /\ UNCHANGED <<registry, clocks, history, served>>

\* try_lock: session_busy instead of waiting.
Busy(r) ==
  /\ req[r].at = "try"
  /\ ~Free(req[r].id)
  /\ Return(r)
  /\ UNCHANGED <<registry, clocks, history, served>>

RejectIdle(r) ==
  /\ req[r].at = "try"
  /\ Free(req[r].id)
  /\ TooIdle(r)
  /\ Return(r)
  /\ UNCHANGED <<registry, clocks, history, served>>

Enter(r) ==
  /\ req[r].at = "try"
  /\ Free(req[r].id)
  /\ ~TooIdle(r)
  /\ Take(r, req[r].id)
  /\ IF req[r].kind = "webfork"
       THEN Goto(r, "insert") /\ UNCHANGED idle
       ELSE /\ Goto(r, "work")
            /\ idle' = IF req[r].kind = "web" THEN idle ELSE [idle EXCEPT ![req[r].id] = 0]
  /\ UNCHANGED <<registry, config, history, served>>

\* The call ends; one that writes has changed the session, or it has failed.
Work(r) ==
  /\ req[r].at = "work"
  /\ \E n \in IF req[r].kind = "read" THEN {0} ELSE {0, 1} :
       changes' = [changes EXCEPT ![req[r].id] = @ + n]
  /\ Return(r)
  /\ UNCHANGED <<registry, clocks, saved, live, served>>

\* LiveOutputRegistry: a session's entry is made, taken away by its guard, looked up.
Start(id, command) == live' = [live EXCEPT ![id] = command]
Finish(id) == live' = [live EXCEPT ![id] = None]
IsRunning(id) == live[id] /= None

\* session_bash and session_package_install are listed as running once they have
\* the session, until they give it back.
StartCommand(r) ==
  /\ req[r].at = "work"
  /\ req[r].kind = "write"
  /\ Start(req[r].id, r)
  /\ Goto(r, "running")
  /\ UNCHANGED <<registry, holder, clocks, changes, saved, served>>

\* Mutant: the entry goes when the command succeeds.
EndCommandWell(r) ==
  /\ req[r].at = "running"
  /\ \/ /\ changes' = [changes EXCEPT ![req[r].id] = @ + 1]
        /\ Finish(req[r].id)
     \/ UNCHANGED <<changes, live>>
  /\ Return(r)
  /\ UNCHANGED <<registry, clocks, saved, served>>

\* The guard of the entry is dropped however the call ends, then the session's.
EndCommand(r) ==
  /\ req[r].at = "running"
  /\ \E n \in {0, 1} : changes' = [changes EXCEPT ![req[r].id] = @ + n]
  /\ Finish(req[r].id)
  /\ Return(r)
  /\ UNCHANGED <<registry, clocks, saved, served>>

-----------------------------------------------------------------------------
(***************************************************************************)
(* Calls that make a session or move a connection to one.                  *)
(***************************************************************************)
BeginCreate(r) ==
  \/ \E c \in Connections : Begin(r, "create", c, None, None, "insert", {})
  \/ Begin(r, "webcreate", None, None, None, "insert", {})

\* The web UI's fork holds its source until it has answered.
BeginFork(r) ==
  \/ \E c \in Connections :
       current[c] /= None /\ Begin(r, "fork", c, None, current[c], "find", {})
  \/ \E id \in used : Begin(r, "webfork", None, id, None, "lookup", {})

BeginSwitch(r) ==
  \E c \in Connections, id \in used : Begin(r, "switch", c, id, None, "lookup", {})

\* Mutant: the limit is not checked where the session is inserted.
InsertUnchecked(r) ==
  /\ req[r].at = "insert"
  /\ \E id \in Ids \ used :
       /\ sessions' = sessions \cup {id}
       /\ used' = used \cup {id}
       /\ req' = [req EXCEPT ![r].at = "report", ![r].id = id]
  /\ UNCHANGED <<current, evicted, holder, clocks, history, served>>

\* insert_session: limit, fresh id and insertion under the map's mutex; the limit is
\* the one the config file has then.
Insert(r) ==
  /\ req[r].at = "insert"
  /\ limit /= None => Cardinality(sessions) < limit
  /\ \E id \in Ids \ used :
       /\ sessions' = sessions \cup {id}
       /\ used' = used \cup {id}
       /\ req' = [req EXCEPT ![r].at = "report", ![r].id = id]
  /\ UNCHANGED <<current, evicted, holder, clocks, history, served>>

\* session_limit_reached, or the session could not be made before the insertion.
NotMade(r) ==
  /\ req[r].at = "insert"
  /\ Return(r)
  /\ UNCHANGED <<registry, clocks, history, served>>

-----------------------------------------------------------------------------
(***************************************************************************)
(* session_merge: the source's mutex is held while the target is tried.    *)
(***************************************************************************)
BeginMerge(r) ==
  \E c \in Connections : \E from \in used \ {current[c]} :
    current[c] /= None /\ Begin(r, "merge", c, current[c], from, "find", {})

FindSource(r) == req[r].at = "find" /\ Resolve(r, req[r].from, "wait")

\* A fork copies the source and drops the guard; either may find that the source
\* has no such checkpoint and fail.
LockSource(r) ==
  /\ req[r].at = "wait"
  /\ Free(req[r].from)
  /\ \/ req[r].kind = "merge" /\ Take(r, req[r].from) /\ Goto(r, "lookup")
     \/ req[r].kind = "fork" /\ UNCHANGED holder /\ Goto(r, "insert")
     \/ Return(r)
  /\ UNCHANGED <<registry, clocks, history, served>>

-----------------------------------------------------------------------------
(***************************************************************************)
(* close_session: out of the map, then out of current_sessions, then the   *)
(* snapshot, once the call in the session has ended.                       *)
(***************************************************************************)
BeginClose(r) ==
  \/ \E c \in Connections :
       current[c] /= None /\ Begin(r, "close", c, current[c], None, "remove", {})
  \/ \E id \in used : Begin(r, "close", None, id, None, "remove", {})

Remove(r) ==
  /\ req[r].at = "remove"
  /\ sessions' = sessions \ {req[r].id}
  /\ IF req[r].id \in sessions THEN Goto(r, "clear") ELSE Done(r)
  /\ UNCHANGED <<used, current, evicted, holder, clocks, history, served>>

Clear(r) ==
  /\ req[r].at = "clear"
  /\ current' = [c \in Connections |-> IF current[c] = req[r].id THEN None ELSE current[c]]
  /\ IF SnapshotOnClose THEN Goto(r, "save") ELSE Done(r)
  /\ UNCHANGED <<sessions, used, evicted, holder, clocks, history, served>>

\* Mutant: a session that is busy is not saved.
SaveIfFree(r) ==
  /\ req[r].at = "save"
  /\ saved' = [saved EXCEPT ![req[r].id] = IF Free(req[r].id) THEN changes[req[r].id] ELSE @]
  /\ Done(r)
  /\ UNCHANGED <<registry, holder, clocks, changes, live, served>>
Save(r) ==
  /\ req[r].at = "save"
  /\ Free(req[r].id)
  /\ saved' = [saved EXCEPT ![req[r].id] = changes[req[r].id]]
  /\ Done(r)
  /\ UNCHANGED <<registry, holder, clocks, changes, live, served>>

SaveFails(r) ==
  /\ WritesMayFail
  /\ req[r].at = "save"
  /\ Done(r)
  /\ UNCHANGED <<registry, holder, clocks, history, served>>

-----------------------------------------------------------------------------
(***************************************************************************)
(* session_list waits for each mutex in turn and holds none; session_tree  *)
(* takes those that are free and holds them until it has answered.         *)
(***************************************************************************)
BeginSurvey(r) ==
  \E kind \in {"list", "tree"}, c \in Connections, id \in sessions :
    Begin(r, kind, c, id, None, "visit", sessions \ {id})

Visit(r) ==
  /\ req[r].at = "visit"
  /\ req[r].id /= None
  /\ req[r].kind = "list" => Free(req[r].id)
  /\ IF req[r].kind = "tree" /\ Free(req[r].id) THEN Take(r, req[r].id) ELSE UNCHANGED holder
  /\ \E next \in IF req[r].rest = {} THEN {None} ELSE req[r].rest :
       req' = [req EXCEPT ![r].id = next, ![r].rest = @ \ {next}]
  /\ UNCHANGED <<registry, clocks, history, served>>

SurveyDone(r) ==
  /\ req[r].at = "visit"
  /\ req[r].id = None
  /\ Return(r)
  /\ UNCHANGED <<registry, clocks, history, served>>

-----------------------------------------------------------------------------
(***************************************************************************)
(* The status page copies the map of sessions, then reads the config.      *)
(***************************************************************************)
BeginStatus(r) == Begin(r, "status", None, None, None, "status", sessions)

\* The limits in force, beside the number of sessions in the copy.
DaemonStatus(open) ==
  [session_count |-> Cardinality(open), max_sessions |-> limit,
   session_idle_timeout_secs |-> timeout]

Status(r) ==
  /\ req[r].at = "status"
  /\ Return(r)
  /\ UNCHANGED <<registry, clocks, history, served>>

-----------------------------------------------------------------------------
Arrive(r) ==
  \/ BeginCall(r) \/ BeginCreate(r) \/ BeginFork(r) \/ BeginSwitch(r)
  \/ BeginMerge(r) \/ BeginClose(r) \/ BeginSurvey(r) \/ BeginStatus(r)

Step(r) ==
  \/ Lookup(r) \/ Busy(r) \/ RejectIdle(r) \/ Enter(r) \/ Work(r)
  \/ StartCommand(r) \/ EndCommand(r)
  \/ FindSource(r) \/ LockSource(r)
  \/ Insert(r) \/ NotMade(r) \/ Report(r) \/ SetCurrent(r)
  \/ Remove(r) \/ Clear(r) \/ Save(r) \/ SaveFails(r)
  \/ Visit(r) \/ SurveyDone(r) \/ Status(r)

\* evict_idle_sessions, with the timeout the daemon started with: it takes no
\* mutex it would have to wait for and leaves current_sessions alone.
AbandonedBusy(id) == Exceeds(idle[id], IdleTimeout)  \* mutant: no try_lock
Abandoned(id) == Free(id) /\ Exceeds(idle[id], IdleTimeout)

EvictNone ==  \* mutant: the sessions stay in the map
  /\ \E id \in sessions : Abandoned(id)
  /\ evicted' = evicted \cup {id \in sessions : Abandoned(id)}
  /\ UNCHANGED <<sessions, used, current, holder, clocks, history, served, req>>
Evict ==
  /\ \E id \in sessions : Abandoned(id)
  /\ evicted' = evicted \cup {id \in sessions : Abandoned(id)}
  /\ sessions' = {id \in sessions : ~Abandoned(id)}
  /\ UNCHANGED <<used, current, holder, clocks, history, served, req>>

\* The config file is edited, one setting at a time, and re-read by every call.
EditTimeout ==
  /\ timeout' \in IdleTimeouts \ {timeout}
  /\ UNCHANGED <<limit, over, lowered, served>>

Lower(old, new) == new /= None /\ (old = None \/ new < old)

\* Sessions that are open stay open under a lower limit.
EditLimit ==
  /\ served < MaxRequests
  /\ served' = served + 1
  /\ limit' \in SessionLimits \ {limit}
  /\ over' = IF limit' /= None /\ Cardinality(sessions) > limit' THEN Cardinality(sessions) ELSE 0
  /\ lowered' = (lowered \/ Lower(limit, limit'))
  /\ UNCHANGED timeout

EditConfig ==
  /\ EditTimeout \/ EditLimit
  /\ UNCHANGED <<registry, holder, idle, history, req>>

Tick ==
  /\ idle' = [id \in Ids |-> IF id \in used /\ idle[id] < Long THEN idle[id] + 1 ELSE idle[id]]
  /\ UNCHANGED <<registry, holder, config, history, served, req>>

-----------------------------------------------------------------------------
(***************************************************************************)
(* What is answered without the mutex of any session.                      *)
(***************************************************************************)

\* The live output of a session: asked for while a command holds it.  A session that
\* is not in the map is answered with not found.
LiveOutput(entry) == [running |-> entry /= None, command |-> entry]
LiveAnswer(id) == IF id \in sessions THEN LiveOutput(live[id]) ELSE LiveOutput(None)

\* The node of a session in what session_tree answers: one whose mutex it could not
\* take is shown as running, whatever holds it.
TreeNode(r, id) == [running |-> holder[id] /= r \/ IsRunning(id)]

-----------------------------------------------------------------------------
Next ==
  \/ \E r \in Requests : Arrive(r) \/ Step(r)
  \/ Evict \/ EditConfig \/ Tick

Spec == Init /\ [][Next]_vars

\* A request that can go on goes on: commands and fetches have timeouts, a
\* thread is never stopped, and a mutex is given to a waiting thread.
Fairness == \A r \in Requests : WF_vars(Step(r))
FairSpec == Spec /\ Fairness

-----------------------------------------------------------------------------
(***************************************************************************)
(* Properties.                                                             *)
(***************************************************************************)

\* max_sessions holds although the request that makes a session checked nothing
\* before it began, and several of them may be in flight while the config is edited:
\* there are never more sessions than it allows now, or than were open when it was
\* last edited.  The status page, which counts before it reads the limit, never shows
\* more sessions than the limit beside them unless the limit was lowered once.
SessionLimit ==
  /\ TypeOK
  /\ WithinLimit(sessions) \/ Cardinality(sessions) <= over
  /\ \A r \in Requests : req[r].at = "status" /\ ~lowered =>
       LET shown == DaemonStatus(req[r].rest) IN
       shown.max_sessions /= None => shown.session_count <= shown.max_sessions

\* No call of a connection runs in a session the reaper evicted, however the
\* config is edited below its value at startup: none runs when it is evicted, and
\* one that found the session in the map before still fails its idle check after.
EvictedNeverEntered ==
  (None \notin IdleTimeouts /\ \A t \in IdleTimeouts : t <= IdleTimeout) =>
    \A r \in Requests :
      req[r].at \in {"work", "running"} /\ req[r].kind /= "web" => req[r].id \notin evicted

\* Every request is answered: waiting for a mutex, holding one while trying
\* another, crossing merges, forks, closes and surveys never wait in a circle.
EveryRequestAnswered == \A r \in Requests : req[r].at /= "done" ~> req[r].at = "done"

\* README.md: with snapshot_on_close a close writes a snapshot: unless the write
\* fails, no session is closed without one, whatever else closes or uses it then.
Closed == {id \in used \ (sessions \cup evicted) : \A r \in Requests : req[r].id /= id}
ClosedHasSnapshot ==
  SnapshotOnClose /\ ~WritesMayFail => \A id \in Closed : saved[id] /= None

\* The page of a session shows it as running exactly while a command of it runs, and
\* then that command, whatever calls of other clients, closes and evictions come and
\* go meanwhile, and however the command ended before.  session_tree never shows a
\* session as not running while a command runs in it; it may show one as running in
\* which none does, for it shows all it could not lock as running.
LiveIsRunning ==
  /\ \A id \in sessions :
       LiveAnswer(id).running <=> \E r \in Requests : req[r].at = "running" /\ req[r].id = id
  /\ \A id \in Ids :
       IsRunning(id) =>
         /\ holder[id] = live[id]
         /\ req[live[id]].at = "running" /\ req[live[id]].id = id
  /\ \A r \in Requests : req[r].kind = "tree" =>
       \A id \in Ids : ~TreeNode(r, id).running =>
         \A q \in Requests : req[q].at = "running" => req[q].id /= id
=============================================================================
