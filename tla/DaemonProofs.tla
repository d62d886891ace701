----------------------------- MODULE DaemonProofs -----------------------------
(***************************************************************************)
(* Theorems about the daemon (Daemon) and what it runs: the commands of its *)
(* sessions (Executor) and the directories they run in (Workspace).  The three *)
(* are proved one after the other; none is used for another.  Of Daemon: for *)
(* any number of requests in flight, any connections, sessions and limits. *)
(* Most steps of a request only move it and take or give back a mutex      *)
(* (QuietStep); the others change the registry, the clocks or the list of  *)
(* running commands, one at a time.                                        *)
(***************************************************************************)
EXTENDS Daemon, Executor, Workspace, TLAPS, FiniteSetTheorems, WellFoundedInduction

InCommand == {"work", "running"}
Closing == {"clear", "save"}
\* The steps at which a request has the session it is for, and those at which a
\* fork or a merge has the one it starts from.
AtSession == {"lookup", "try", "report", "set", "remove"} \cup InCommand \cup Closing
AtSource == {"find", "wait"}

\* The parts of the inductive invariant that are about one request.
Located(r) ==
  /\ req[r].at \in AtSession => req[r].id \in Ids
  /\ req[r].at \in AtSource => req[r].from \in Ids /\ req[r].kind \in {"fork", "merge"}
  /\ req[r].at \in AtSource /\ req[r].kind = "merge" => req[r].id \in Ids
  /\ req[r].at = "lookup" =>
       req[r].kind \in {"read", "write", "web", "switch", "webfork", "merge"}
  /\ req[r].at = "try" => req[r].kind \in {"read", "write", "web", "webfork", "merge"}

HoldsSession(r) == req[r].at \in InCommand => holder[req[r].id] = r
Listed(r) == req[r].at = "running" => live[req[r].id] = r

\* No edit makes the timeout longer than the reaper's.
Shortening == None \notin IdleTimeouts /\ \A t \in IdleTimeouts : t <= IdleTimeout
NotEvicted(r) ==
  Shortening /\ req[r].at \in InCommand /\ req[r].kind /= "web" => req[r].id \notin evicted

\* A status page that is being made has copied no more sessions than the limit.
Shown(r) ==
  req[r].at = "status" /\ ~lowered => IsFiniteSet(req[r].rest) /\ WithinLimit(req[r].rest)

ReqInv(r) == Located(r) /\ HoldsSession(r) /\ Listed(r) /\ NotEvicted(r) /\ Shown(r)

\* And those that are about one session.
ListedTruly(id) ==
  live[id] /= None => req[live[id]].at = "running" /\ req[live[id]].id = id
StaysIdle(id) == Shortening /\ id \in evicted => idle[id] > IdleTimeout
WillBeSaved(id) ==
  SnapshotOnClose /\ ~WritesMayFail /\ id \in used \ (sessions \cup evicted) =>
    saved[id] /= None \/ \E r \in Requests : req[r].at \in Closing /\ req[r].id = id

SessionInv(id) == ListedTruly(id) /\ StaysIdle(id) /\ WillBeSaved(id)

\* What is counted against max_sessions: the map, and the copies of status pages.
Counted ==
  /\ IsFiniteSet(sessions)
  /\ WithinLimit(sessions) \/ Cardinality(sessions) <= over
  /\ ~lowered => WithinLimit(sessions)

IInv ==
  /\ TypeOK
  /\ Counted
  /\ \A r \in Requests : ReqInv(r)
  /\ \A id \in Ids : SessionInv(id)

-----------------------------------------------------------------------------
\* There is a number of ticks at which every limit is exceeded.
LEMMA LongFacts ==
  /\ Long \in Nat
  /\ \A t \in Limits : t < Long
<1>1. Limits \subseteq Nat
  BY LimitsAssumption DEF Limits
<1>2. CASE Limits = {}
  BY <1>2 DEF Long
<1>3. CASE Limits /= {}
  <2>1. PICK longest \in Limits : \A t \in Limits : t <= longest
    BY <1>3, LimitsAssumption
  <2>2. longest + 1 \in {t + 1 : t \in Limits} /\ \A t \in Limits : t < longest + 1
    BY <1>1, <2>1
  <2>3. Long = CHOOSE n \in {t + 1 : t \in Limits} : \A t \in Limits : t < n
    BY <1>3 DEF Long
  <2>4. Long \in {t + 1 : t \in Limits} /\ \A t \in Limits : t < Long
    BY <2>2, <2>3
  <2> QED BY <1>1, <2>4
<1> QED BY <1>2, <1>3

Places == {"done", "lookup", "try", "work", "running", "find", "wait",
           "insert", "report", "set", "remove", "clear", "save", "visit", "status"}

\* What Goto, Done and Begin make of the requests.
OthersStay(r) == \A q \in Requests \ {r} : req'[q] = req[q]

\* A request that goes on keeps its kind, connection and ids; no other request moves.
LEMMA GotoFacts ==
  ASSUME req \in [Requests -> Request], NEW r \in Requests, NEW place \in Places,
         Goto(r, place)
  PROVE  /\ req' \in [Requests -> Request] /\ OthersStay(r)
         /\ req'[r].at = place
         /\ req'[r].kind = req[r].kind /\ req'[r].conn = req[r].conn
         /\ req'[r].id = req[r].id /\ req'[r].from = req[r].from
         /\ req'[r].rest = req[r].rest
<1> DEFINE moved == [req[r] EXCEPT !.at = place]
<1>1. req[r] \in Request
  OBVIOUS
<1>2. /\ moved \in Request /\ moved.at = place
      /\ moved.kind = req[r].kind /\ moved.conn = req[r].conn
      /\ moved.id = req[r].id /\ moved.from = req[r].from /\ moved.rest = req[r].rest
  BY <1>1 DEF Request, Places
<1>3. req' = [req EXCEPT ![r] = moved]
  BY DEF Goto
<1> HIDE DEF moved
<1> QED BY <1>2, <1>3 DEF OthersStay

\* A request that ends is idle; no other request moves.
LEMMA DoneFacts ==
  ASSUME req \in [Requests -> Request], NEW r \in Requests, Done(r)
  PROVE  /\ req' \in [Requests -> Request] /\ OthersStay(r)
         /\ req'[r] = Idle /\ req'[r].at = "done"
<1>1. Idle \in Request /\ Idle.at = "done"
  BY DEF Idle, Request
<1>2. req' = [req EXCEPT ![r] = Idle]
  BY DEF Done
<1> QED BY <1>1, <1>2 DEF OthersStay

\* A mutex changes hands only from nobody or from the request that steps.
Handed(r) ==
  /\ holder' \in [Ids -> Requests \cup {None}]
  /\ \A id \in Ids : holder'[id] = holder[id] \/ holder[id] \in {None, r}

\* Releasing, keeping and taking a free mutex take none from another request.
LEMMA HandedFacts ==
  ASSUME holder \in [Ids -> Requests \cup {None}], NEW r \in Requests
  PROVE  /\ Release(r) => Handed(r)
         /\ UNCHANGED holder => Handed(r)
         /\ \A id \in Ids : Free(id) /\ Take(r, id) => Handed(r) /\ holder'[id] = r
  BY DEF Release, Handed, Free, Take

\* Nothing a request does takes the session of another one from it.
LEMMA OthersKeepReqInv ==
  ASSUME IInv, NEW r \in Requests, OthersStay(r), Handed(r), UNCHANGED <<evicted, config>>,
         NEW q \in Requests \ {r}, req[q].at = "running" => live'[req[q].id] = q
  PROVE  ReqInv(q)'
<1>1. ReqInv(q) /\ req'[q] = req[q] /\ q /= None
  BY NamesAssumption DEF IInv, OthersStay
<1>2. req[q].at \in InCommand => holder'[req[q].id] = q
  BY <1>1 DEF ReqInv, Located, HoldsSession, Handed, AtSession
<1> QED BY <1>1, <1>2 DEF ReqInv, Located, HoldsSession, Listed, NotEvicted, Shown, WithinLimit, config

\* What fits fits when sessions are closed.
LEMMA FewerCounted ==
  ASSUME IInv, UNCHANGED config, IsFiniteSet(sessions'),
         Cardinality(sessions') <= Cardinality(sessions)
  PROVE  Counted'
<1>1. /\ Cardinality(sessions') \in Nat /\ Cardinality(sessions) \in Nat
      /\ limit \in Nat \cup {None} /\ over \in Nat
  BY FS_CardinalityType, LimitsAssumption DEF IInv, Counted, TypeOK
<1>2. /\ limit' = limit /\ over' = over /\ lowered' = lowered
  BY DEF config
<1>3. WithinLimit(sessions) => WithinLimit(sessions)'
  BY <1>1, <1>2 DEF WithinLimit
<1>4. Cardinality(sessions) <= over => Cardinality(sessions') <= over'
  BY <1>1, <1>2
<1> QED BY <1>2, <1>3, <1>4 DEF IInv, Counted

\* A request that moves without a command, a closing or a session made or lost.
LEMMA QuietStep ==
  ASSUME IInv, NEW r \in Requests,
         req' \in [Requests -> Request], OthersStay(r), Handed(r),
         req[r].at \notin {"running"} \cup Closing,
         ReqInv(r)',
         current' \in [Connections -> Ids \cup {None}],
         changes' \in [Ids -> Nat], served' \in 0 .. MaxRequests,
         UNCHANGED <<sessions, used, evicted, idle, config, saved, live>>
  PROVE  IInv'
<1>1. TypeOK' /\ Counted'
  BY DEF IInv, TypeOK, Handed, Counted, WithinLimit, config
<1>2. ASSUME NEW q \in Requests \ {r} PROVE ReqInv(q)'
  BY OthersKeepReqInv DEF IInv, ReqInv, Listed
<1>3. ASSUME NEW id \in Ids PROVE SessionInv(id)'
  <2>1. SessionInv(id)
    BY DEF IInv
  <2>2. ListedTruly(id)'
    BY <2>1 DEF SessionInv, ListedTruly, OthersStay, IInv, TypeOK
  <2>3. WillBeSaved(id)'
    <3>1. ASSUME NEW q \in Requests, req[q].at \in Closing, req[q].id = id
          PROVE  req'[q].at \in Closing /\ req'[q].id = id
      BY <3>1 DEF OthersStay
    <3> QED BY <2>1, <3>1 DEF SessionInv, WillBeSaved
  <2> QED BY <2>1, <2>2, <2>3 DEF SessionInv, StaysIdle
<1> QED BY <1>1, <1>2, <1>3 DEF IInv

\* Two kinds of quiet steps: the handler returns, or goes on to another place.
LEMMA ReturnKeepsIInv ==
  ASSUME IInv, NEW r \in Requests, req[r].at \notin {"running"} \cup Closing,
         Done(r), Handed(r), changes' \in [Ids -> Nat],
         current' \in [Connections -> Ids \cup {None}],
         UNCHANGED <<sessions, used, evicted, idle, config, saved, live, served>>
  PROVE  IInv'
<1>1. req' \in [Requests -> Request] /\ OthersStay(r) /\ req'[r].at = "done"
  BY DoneFacts DEF IInv, TypeOK
<1>2. ReqInv(r)'
  BY <1>1 DEF ReqInv, Located, HoldsSession, Listed, NotEvicted, Shown, AtSession, AtSource,
              InCommand, Closing
<1> QED BY <1>1, <1>2, QuietStep DEF IInv, TypeOK

\* A request that goes from a place outside a command and a close to another such place,
\* for which it knows the ids, leaves the invariant true.
LEMMA MoveKeepsIInv ==
  ASSUME IInv, NEW r \in Requests, req[r].at \notin {"running"} \cup Closing,
         NEW place \in Places \ (InCommand \cup Closing \cup {"status"}), Goto(r, place), Handed(r),
         Located(r)',
         current' \in [Connections -> Ids \cup {None}],
         UNCHANGED <<sessions, used, evicted, clocks, history, served>>
  PROVE  IInv'
<1>1. /\ req' \in [Requests -> Request] /\ OthersStay(r)
      /\ req'[r].at = place
  BY GotoFacts DEF IInv, TypeOK
<1>2. ReqInv(r)'
  BY <1>1 DEF ReqInv, HoldsSession, Listed, NotEvicted, Shown, InCommand
<1> QED BY <1>1, <1>2, QuietStep DEF IInv, TypeOK, clocks, config, history

-----------------------------------------------------------------------------
\* What a request is for when it arrives.
Meant(kind, id, from, place) ==
  /\ kind \in AllKinds
  /\ place \in {"lookup", "insert", "find", "remove", "visit", "status"}
  /\ id \in Ids \cup {None} /\ from \in Ids \cup {None}
  /\ place \in {"lookup", "remove"} => id \in Ids
  /\ place = "find" => from \in Ids /\ kind \in {"fork", "merge"}
  /\ place = "find" /\ kind = "merge" => id \in Ids
  /\ place = "lookup" => kind \in {"read", "write", "web", "switch", "webfork"}

\* A request that arrives with the ids its kind needs leaves the invariant true.
LEMMA BeginKeepsIInv ==
  ASSUME IInv, NEW r \in Requests, NEW kind, NEW c \in Connections \cup {None},
         NEW id, NEW from, NEW place, NEW rest \in SUBSET Ids,
         Meant(kind, id, from, place), place = "status" => rest = sessions,
         Begin(r, kind, c, id, from, place, rest)
  PROVE  IInv'
<1> DEFINE new == [kind |-> kind, at |-> place, conn |-> c, id |-> id,
                   from |-> from, rest |-> rest]
<1>1. /\ req' = [req EXCEPT ![r] = new] /\ req[r] = Idle
      /\ served < MaxRequests /\ served' = served + 1
      /\ UNCHANGED <<registry, holder, clocks, history>>
  BY DEF Begin
<1>2. /\ new \in Request
      /\ new.kind = kind /\ new.at = place /\ new.id = id /\ new.from = from
      /\ new.rest = rest
  BY DEF Request, Meant
<1> HIDE DEF new
<1>3. req' \in [Requests -> Request] /\ OthersStay(r) /\ req'[r] = new
  BY <1>1, <1>2 DEF IInv, TypeOK, OthersStay
<1>4. req[r].at \notin {"running"} \cup Closing
  <2>1. Idle.at = "done"
    BY DEF Idle
  <2> QED BY <1>1, <2>1 DEF Closing
<1>5. ReqInv(r)'
  <2>1. Located(r)' /\ HoldsSession(r)' /\ Listed(r)' /\ NotEvicted(r)'
    BY <1>2, <1>3 DEF Located, HoldsSession, Listed, NotEvicted, AtSession,
       AtSource, InCommand, Closing, Meant
  <2>2. Shown(r)'
    BY <1>1, <1>2, <1>3 DEF Shown, IInv, Counted, WithinLimit, clocks, config
  <2> QED BY <2>1, <2>2 DEF ReqInv
<1>6. served' \in 0 .. MaxRequests
  <2>1. served \in 0 .. MaxRequests
    BY DEF IInv, TypeOK
  <2> QED BY <1>1, <2>1, LimitsAssumption
<1>7. Handed(r)
  BY <1>1, HandedFacts DEF IInv, TypeOK
<1> QED
  BY <1>1, <1>3, <1>4, <1>5, <1>6, <1>7, QuietStep
  DEF IInv, TypeOK, registry, clocks, config, history

\* The arrival of a request keeps the invariant: what it asks for need not be open.
LEMMA ArriveKeepsIInv ==
  ASSUME IInv, NEW r \in Requests, Arrive(r)
  PROVE  IInv'
<1>1. /\ used \subseteq Ids /\ sessions \subseteq Ids
      /\ \A c \in Connections : current[c] \in Ids \cup {None}
  BY DEF IInv, TypeOK
<1>2. CASE BeginCall(r)
  <2>1. CASE \E c \in Connections, kind \in {"read", "write"} :
               current[c] /= None /\ Begin(r, kind, c, current[c], None, "lookup", {})
    <3>1. PICK c \in Connections, kind \in {"read", "write"}, id \in Ids :
            Begin(r, kind, c, id, None, "lookup", {})
      BY <1>1, <2>1 DEF Begin
    <3>2. Meant(kind, id, None, "lookup")
      BY DEF Meant, AllKinds, InSession
    <3> QED BY <3>1, <3>2, BeginKeepsIInv
  <2>2. CASE \E id \in used : Begin(r, "web", None, id, None, "lookup", {})
    <3>1. PICK id \in used : Begin(r, "web", None, id, None, "lookup", {})
      BY <2>2
    <3>2. Meant("web", id, None, "lookup")
      BY <1>1 DEF Meant, AllKinds, InSession
    <3> QED BY <1>1, <3>1, <3>2, BeginKeepsIInv
  <2> QED BY <1>2, <2>1, <2>2 DEF BeginCall
<1>3. CASE BeginCreate(r)
  <2>1. PICK c \in Connections \cup {None}, kind \in {"create", "webcreate"} :
          Begin(r, kind, c, None, None, "insert", {})
    BY <1>3 DEF BeginCreate
  <2>2. Meant(kind, None, None, "insert")
    BY DEF Meant, AllKinds, Creating
  <2> QED BY <2>1, <2>2, BeginKeepsIInv
<1>4. CASE BeginFork(r)
  <2>1. CASE \E c \in Connections :
               current[c] /= None /\ Begin(r, "fork", c, None, current[c], "find", {})
    <3>1. PICK c \in Connections, from \in Ids : Begin(r, "fork", c, None, from, "find", {})
      BY <1>1, <2>1 DEF Begin
    <3>2. Meant("fork", None, from, "find")
      BY DEF Meant, AllKinds, Creating
    <3> QED BY <3>1, <3>2, BeginKeepsIInv
  <2>2. CASE \E id \in used : Begin(r, "webfork", None, id, None, "lookup", {})
    <3>1. PICK id \in used : Begin(r, "webfork", None, id, None, "lookup", {})
      BY <2>2
    <3>2. Meant("webfork", id, None, "lookup")
      BY <1>1 DEF Meant, AllKinds, Creating
    <3> QED BY <1>1, <3>1, <3>2, BeginKeepsIInv
  <2> QED BY <1>4, <2>1, <2>2 DEF BeginFork
<1>5. CASE BeginSwitch(r)
  <2>1. PICK c \in Connections, id \in used : Begin(r, "switch", c, id, None, "lookup", {})
    BY <1>5 DEF BeginSwitch
  <2>2. Meant("switch", id, None, "lookup")
    BY <1>1 DEF Meant, AllKinds
  <2> QED BY <1>1, <2>1, <2>2, BeginKeepsIInv
<1>6. CASE BeginMerge(r)
  <2>1. PICK c \in Connections, id \in Ids, from \in Ids :
          Begin(r, "merge", c, id, from, "find", {})
    BY <1>1, <1>6 DEF BeginMerge, Begin
  <2>2. Meant("merge", id, from, "find")
    BY DEF Meant, AllKinds
  <2> QED BY <2>1, <2>2, BeginKeepsIInv
<1>7. CASE BeginClose(r)
  <2>1. PICK c \in Connections \cup {None}, id \in Ids :
          Begin(r, "close", c, id, None, "remove", {})
    BY <1>1, <1>7 DEF BeginClose
  <2>2. Meant("close", id, None, "remove")
    BY DEF Meant, AllKinds
  <2> QED BY <2>1, <2>2, BeginKeepsIInv
<1>8. CASE BeginSurvey(r)
  <2>1. PICK kind \in {"list", "tree"}, c \in Connections, id \in sessions :
          Begin(r, kind, c, id, None, "visit", sessions \ {id})
    BY <1>8 DEF BeginSurvey
  <2>2. Meant(kind, id, None, "visit")
    BY <1>1 DEF Meant, AllKinds
  <2> QED BY <1>1, <2>1, <2>2, BeginKeepsIInv
<1>9. CASE BeginStatus(r)
  <2>1. Begin(r, "status", None, None, None, "status", sessions)
    BY <1>9 DEF BeginStatus
  <2>2. Meant("status", None, None, "status")
    BY DEF Meant, AllKinds
  <2> QED BY <1>1, <2>1, <2>2, BeginKeepsIInv
<1> QED BY <1>2, <1>3, <1>4, <1>5, <1>6, <1>7, <1>8, <1>9 DEF Arrive

-----------------------------------------------------------------------------
\* The steps that only move a request keep the invariant.
LEMMA ResolveKeepsIInv ==
  ASSUME IInv, NEW r \in Requests, NEW id, NEW next \in {"try", "set", "wait"},
         Resolve(r, id, next), req[r].at \notin {"running"} \cup Closing,
         next \in {"try", "set"} => req[r].id \in Ids,
         next = "try" => req[r].kind \in {"read", "write", "web", "webfork", "merge"},
         next = "wait" => /\ req[r].from \in Ids
                          /\ req[r].kind \in {"fork", "merge"}
                          /\ req[r].kind = "merge" => req[r].id \in Ids
  PROVE  IInv'
<1>1. /\ TypeOK /\ next \in Places \ (InCommand \cup Closing \cup {"status"})
      /\ UNCHANGED <<registry, clocks, history, served>>
  BY DEF IInv, Places, InCommand, Closing, Resolve
<1>2. CASE Goto(r, next) /\ UNCHANGED holder
  <2>1. /\ req'[r].at = next /\ req'[r].kind = req[r].kind
        /\ req'[r].id = req[r].id /\ req'[r].from = req[r].from
    BY <1>1, <1>2, GotoFacts DEF TypeOK
  <2>2. Located(r)'
    BY <2>1 DEF Located, AtSession, AtSource, InCommand, Closing
  <2>3. Handed(r)
    BY <1>1, <1>2, HandedFacts DEF TypeOK
  <2> QED BY <1>1, <1>2, <2>2, <2>3, MoveKeepsIInv DEF TypeOK, registry
<1>3. CASE Return(r)
  BY <1>1, <1>3, HandedFacts, ReturnKeepsIInv DEF Return, TypeOK, registry, clocks, config, history
<1> QED BY <1>2, <1>3 DEF Resolve

\* Resolving a session in the map, by with_session or as a source, keeps the invariant.
LEMMA LookupKeepsIInv ==
  ASSUME IInv, NEW r \in Requests, Lookup(r) \/ FindSource(r)
  PROVE  IInv'
<1>1. Located(r)
  BY DEF IInv, ReqInv
<1>2. CASE Lookup(r)
  <2>1. /\ req[r].at = "lookup" /\ req[r].id \in Ids
        /\ req[r].kind \in {"read", "write", "web", "switch", "webfork", "merge"}
    BY <1>1, <1>2 DEF Lookup, Located, AtSession
  <2>2. PICK next \in {"try", "set"} :
          next = (IF req[r].kind = "switch" THEN "set" ELSE "try")
    OBVIOUS
  <2>3. PICK id \in Ids : id = req[r].id
    BY <2>1
  <2>4. Resolve(r, id, next)
    BY <1>2, <2>2, <2>3 DEF Lookup, Resolve
  <2> QED BY <2>1, <2>2, <2>4, ResolveKeepsIInv DEF Closing
<1>3. CASE FindSource(r)
  <2>1. /\ req[r].at = "find" /\ req[r].from \in Ids /\ req[r].kind \in {"fork", "merge"}
        /\ req[r].kind = "merge" => req[r].id \in Ids
    BY <1>1, <1>3 DEF FindSource, Located, AtSource
  <2>2. PICK id \in Ids : id = req[r].from
    BY <2>1
  <2>3. Resolve(r, id, "wait")
    BY <1>3, <2>2 DEF FindSource, Resolve
  <2> QED BY <2>1, <2>3, ResolveKeepsIInv DEF Closing
<1> QED BY <1>2, <1>3

\* Every end of a request that holds or wants one mutex keeps the invariant: busy, idle,
\* refused, surveyed, worked.
LEMMA LeavingKeepsIInv ==
  ASSUME IInv, NEW r \in Requests,
         Busy(r) \/ RejectIdle(r) \/ NotMade(r) \/ SurveyDone(r) \/ Status(r) \/ Work(r)
  PROVE  IInv'
<1>1. /\ req[r].at \in {"try", "insert", "visit", "status", "work"}
      /\ Done(r) /\ Release(r)
      /\ UNCHANGED <<registry, clocks, saved, live, served>>
  BY DEF Busy, RejectIdle, NotMade, SurveyDone, Status, Work, Return, history
<1>2. changes' \in [Ids -> Nat]
  <2>1. changes \in [Ids -> Nat]
    BY DEF IInv, TypeOK
  <2>2. CASE Work(r)
    <3>1. PICK n \in {0, 1} : changes' = [changes EXCEPT ![req[r].id] = @ + n]
      BY <2>2 DEF Work
    <3>2. \A id \in Ids : changes[id] \in Nat /\ changes[id] + n \in Nat
      BY <2>1
    <3> QED BY <2>1, <3>1, <3>2
  <2>3. CASE UNCHANGED changes
    BY <2>1, <2>3
  <2> QED BY <2>2, <2>3 DEF Busy, RejectIdle, NotMade, SurveyDone, Status, history
<1>3. Handed(r)
  BY <1>1, HandedFacts DEF IInv, TypeOK
<1>4. req[r].at \notin {"running"} \cup Closing
  BY <1>1 DEF Closing
<1> QED BY <1>1, <1>2, <1>3, <1>4, ReturnKeepsIInv DEF IInv, TypeOK, registry, clocks, config

\* Taking the mutex of a fork's or merge's source, or giving up there, keeps the invariant.
LEMMA LockSourceKeepsIInv ==
  ASSUME IInv, NEW r \in Requests, LockSource(r)
  PROVE  IInv'
<1>1. /\ TypeOK /\ req[r].at = "wait" /\ req[r].from \in Ids
      /\ req[r].kind = "merge" => req[r].id \in Ids
      /\ Free(req[r].from)
      /\ UNCHANGED <<registry, clocks, history, served>>
  BY DEF IInv, ReqInv, Located, AtSource, LockSource
<1>2. ASSUME NEW place \in {"lookup", "insert"}, Goto(r, place), Handed(r),
             place = "lookup" => req[r].kind = "merge"
      PROVE  IInv'
  <2>1. /\ req'[r].at = place /\ req'[r].kind = req[r].kind /\ req'[r].id = req[r].id
    BY <1>1, <1>2, GotoFacts DEF TypeOK, Places
  <2>2. Located(r)'
    BY <1>1, <1>2, <2>1 DEF Located, AtSession, AtSource, InCommand, Closing
  <2>3. place \in Places \ (InCommand \cup Closing \cup {"status"}) /\ req[r].at \notin {"running"} \cup Closing
    BY <1>1 DEF Places, InCommand, Closing
  <2> QED BY <1>1, <1>2, <2>2, <2>3, MoveKeepsIInv DEF TypeOK, registry
<1>3. CASE req[r].kind = "merge" /\ Take(r, req[r].from) /\ Goto(r, "lookup")
  BY <1>1, <1>2, <1>3, HandedFacts DEF TypeOK
<1>4. CASE UNCHANGED holder /\ Goto(r, "insert")
  BY <1>1, <1>2, <1>4, HandedFacts DEF TypeOK
<1>5. CASE Return(r)
  BY <1>1, <1>5, HandedFacts, ReturnKeepsIInv
  DEF Return, TypeOK, registry, clocks, config, history, Closing
<1> QED BY <1>3, <1>4, <1>5 DEF LockSource

\* Answering and making a session the connection's current one keep the invariant.
LEMMA AnswerKeepsIInv ==
  ASSUME IInv, NEW r \in Requests, Report(r) \/ SetCurrent(r)
  PROVE  IInv'
<1>1. /\ TypeOK /\ req[r].id \in Ids
      /\ req[r].at \in {"report", "set"} /\ req[r].at \notin {"running"} \cup Closing
      /\ UNCHANGED <<sessions, used, evicted, clocks, history, served>>
  BY DEF IInv, ReqInv, Located, AtSession, Report, SetCurrent, Closing, registry
<1>2. current' \in [Connections -> Ids \cup {None}]
  <2>1. CASE Report(r)
    BY <1>1, <2>1 DEF Report, registry, TypeOK
  <2>2. CASE SetCurrent(r)
    BY <1>1, <2>2 DEF SetCurrent, TypeOK
  <2> QED BY <2>1, <2>2
<1>3. ASSUME NEW place \in {"report", "set"}, Goto(r, place), UNCHANGED holder
      PROVE  IInv'
  <2>1. req'[r].at = place /\ req'[r].id = req[r].id
    BY <1>1, <1>3, GotoFacts DEF TypeOK, Places
  <2>2. Located(r)'
    BY <1>1, <2>1 DEF Located, AtSession, AtSource, InCommand, Closing
  <2>3. place \in Places \ (InCommand \cup Closing \cup {"status"}) /\ Handed(r)
    BY <1>1, <1>3, HandedFacts DEF Places, InCommand, Closing, TypeOK
  <2> QED BY <1>1, <1>2, <1>3, <2>2, <2>3, MoveKeepsIInv
<1>4. CASE Done(r) /\ Handed(r)
  BY <1>1, <1>2, <1>4, ReturnKeepsIInv DEF TypeOK, clocks, config, history
<1>5. CASE Report(r)
  BY <1>1, <1>3, <1>4, <1>5, HandedFacts DEF Report, Return, TypeOK
<1>6. CASE SetCurrent(r)
  BY <1>1, <1>3, <1>4, <1>6, HandedFacts DEF SetCurrent, TypeOK
<1> QED BY <1>5, <1>6

\* A listing that goes from one session to the next keeps the invariant.
LEMMA VisitKeepsIInv ==
  ASSUME IInv, NEW r \in Requests, Visit(r)
  PROVE  IInv'
<1>1. /\ TypeOK /\ req[r].at = "visit" /\ req[r].id \in Ids /\ req[r] \in Request
      /\ req[r].at \notin {"running"} \cup Closing
      /\ UNCHANGED <<registry, clocks, history, served>>
  BY DEF IInv, TypeOK, Visit, Request, Closing
<1>2. Handed(r)
  BY <1>1, HandedFacts DEF Visit, TypeOK
<1>3. PICK next \in Ids \cup {None} :
        req' = [req EXCEPT ![r].id = next, ![r].rest = @ \ {next}]
  BY <1>1 DEF Visit, Request
<1> DEFINE new == [req[r] EXCEPT !.id = next, !.rest = @ \ {next}]
<1>4. new \in Request /\ new.at = "visit" /\ req' = [req EXCEPT ![r] = new]
  BY <1>1, <1>3 DEF Request
<1> HIDE DEF new
<1>5. req' \in [Requests -> Request] /\ OthersStay(r) /\ req'[r].at = "visit"
  BY <1>1, <1>4 DEF TypeOK, OthersStay
<1>6. ReqInv(r)'
  BY <1>5 DEF ReqInv, Located, HoldsSession, Listed, NotEvicted, Shown, AtSession, AtSource,
              InCommand, Closing
<1> QED BY <1>1, <1>2, <1>5, <1>6, QuietStep DEF TypeOK, registry, clocks, config, history

-----------------------------------------------------------------------------
\* The steps that change the registry, the clocks or the running commands.

\* A call enters only a session that no reaper has taken: one that was idle long
\* enough to be evicted is too idle to be entered.
LEMMA EnterKeepsIInv ==
  ASSUME IInv, NEW r \in Requests, Enter(r)
  PROVE  IInv'
<1> DEFINE id == req[r].id
           kind == req[r].kind
<1>1. /\ TypeOK /\ req[r].at = "try" /\ id \in Ids
      /\ kind \in {"read", "write", "web", "webfork", "merge"}
      /\ Free(id) /\ ~TooIdle(r) /\ Take(r, id)
      /\ UNCHANGED <<registry, config, history, served>>
  BY DEF IInv, ReqInv, Located, AtSession, Enter
<1>2. Handed(r) /\ holder'[id] = r
  BY <1>1, HandedFacts DEF TypeOK
<1>3. /\ req' \in [Requests -> Request] /\ OthersStay(r)
      /\ req'[r].at = IF kind = "webfork" THEN "insert" ELSE "work"
      /\ req'[r].id = id /\ req'[r].kind = kind
  <2>1. PICK place \in {"insert", "work"} :
          /\ place = (IF kind = "webfork" THEN "insert" ELSE "work")
          /\ Goto(r, place)
    BY DEF Enter
  <2> QED BY <1>1, <2>1, GotoFacts DEF TypeOK, Places
<1>4. /\ idle' \in [Ids -> 0 .. Long]
      /\ \A j \in Ids \ {id} : idle'[j] = idle[j]
      /\ kind \in {"web", "webfork"} => idle' = idle
  <2>1. idle' \in {idle, [idle EXCEPT ![id] = 0]}
    BY DEF Enter
  <2> QED BY <1>1, <2>1, LongFacts DEF TypeOK, Enter
<1>5. Shortening /\ kind \notin {"web", "webfork"} => id \notin evicted
  <2> SUFFICES ASSUME Shortening, kind \in {"read", "write", "merge"}, id \in evicted
               PROVE  FALSE
    BY <1>1
  <2>1. idle[id] > IdleTimeout
    BY <1>1 DEF IInv, SessionInv, StaysIdle
  <2>2. /\ timeout \in Nat /\ IdleTimeout \in Nat /\ timeout <= IdleTimeout /\ timeout /= None
        /\ idle[id] \in Nat
    BY <1>1, LimitsAssumption, LongFacts DEF TypeOK, Shortening
  <2>3. Exceeds(idle[id], timeout)
    BY <2>1, <2>2 DEF Exceeds
  <2> QED BY <1>1, <2>3 DEF TooIdle
<1>6. ReqInv(r)'
  <2>1. Located(r)' /\ HoldsSession(r)' /\ Listed(r)'
    BY <1>1, <1>2, <1>3
    DEF Located, HoldsSession, Listed, AtSession, AtSource, InCommand, Closing
  <2>2. NotEvicted(r)'
    BY <1>1, <1>3, <1>5 DEF NotEvicted, registry, InCommand
  <2>3. Shown(r)'
    BY <1>3 DEF Shown
  <2> QED BY <2>1, <2>2, <2>3 DEF ReqInv
<1>7. ASSUME NEW q \in Requests \ {r} PROVE ReqInv(q)'
  BY <1>1, <1>2, <1>3, OthersKeepReqInv DEF IInv, ReqInv, Listed, registry, history
<1>8. ASSUME NEW j \in Ids PROVE SessionInv(j)'
  <2>1. SessionInv(j)
    BY DEF IInv
  <2>2. ListedTruly(j)'
    BY <1>1, <1>3, <2>1 DEF SessionInv, ListedTruly, OthersStay, history, TypeOK
  <2>3. StaysIdle(j)'
    BY <1>1, <1>4, <1>5, <2>1 DEF SessionInv, StaysIdle, registry
  <2>4. WillBeSaved(j)'
    <3>1. ASSUME NEW q \in Requests, req[q].at \in Closing
          PROVE  req'[q] = req[q]
      BY <1>1, <1>3, <3>1 DEF OthersStay, Closing
    <3> QED BY <1>1, <2>1, <3>1 DEF SessionInv, WillBeSaved, registry, history
  <2> QED BY <2>2, <2>3, <2>4 DEF SessionInv
<1>9. TypeOK' /\ Counted'
  BY <1>1, <1>2, <1>3, <1>4 DEF IInv, TypeOK, Handed, Counted, WithinLimit, registry, config, history
<1> QED BY <1>6, <1>7, <1>8, <1>9 DEF IInv

\* A command is listed while it holds its session, and only then.
LEMMA CommandKeepsIInv ==
  ASSUME IInv, NEW r \in Requests, StartCommand(r) \/ EndCommand(r)
  PROVE  IInv'
<1> DEFINE id == req[r].id
<1>1. /\ TypeOK /\ req[r].at \in InCommand /\ id \in Ids /\ holder[id] = r
      /\ UNCHANGED <<registry, clocks, saved, served>>
  BY DEF IInv, ReqInv, Located, HoldsSession, AtSession, InCommand, StartCommand, EndCommand
<1>2. ASSUME NEW q \in Requests \ {r}, req[q].at = "running" PROVE req[q].id /= id
  BY <1>1, <1>2 DEF IInv, ReqInv, HoldsSession, InCommand
<1>3. /\ changes' \in [Ids -> Nat]
      /\ live' \in [Ids -> Requests \cup {None}]
      /\ \A j \in Ids \ {id} : live'[j] = live[j]
  <2>1. live' \in {[live EXCEPT ![id] = r], [live EXCEPT ![id] = None]}
    BY DEF StartCommand, EndCommand, Start, Finish
  <2>2. CASE StartCommand(r)
    BY <1>1, <2>1, <2>2 DEF StartCommand, TypeOK
  <2>3. CASE EndCommand(r)
    <3>1. PICK n \in {0, 1} : changes' = [changes EXCEPT ![id] = @ + n]
      BY <2>3 DEF EndCommand
    <3>2. \A j \in Ids : changes[j] \in Nat /\ changes[j] + n \in Nat
      BY <1>1 DEF TypeOK
    <3>3. changes' \in [Ids -> Nat]
      BY <1>1, <3>1, <3>2 DEF TypeOK
    <3> QED BY <1>1, <2>1, <3>3 DEF TypeOK
  <2> QED BY <2>2, <2>3
<1>4. /\ req' \in [Requests -> Request] /\ OthersStay(r) /\ Handed(r)
      /\ StartCommand(r) => /\ req'[r].at = "running" /\ req'[r].id = id
                            /\ req'[r].kind = req[r].kind
                            /\ holder'[id] = r /\ live'[id] = r /\ req[r].at = "work"
      /\ EndCommand(r) => req'[r].at = "done" /\ live'[id] = None
  <2>1. CASE StartCommand(r)
    <3>1. Goto(r, "running") /\ holder' = holder /\ live' = [live EXCEPT ![id] = r]
      BY <2>1 DEF StartCommand, Start
    <3> QED BY <1>1, <2>1, <3>1, GotoFacts, HandedFacts
            DEF TypeOK, Places, EndCommand, StartCommand
  <2>2. CASE EndCommand(r)
    <3>1. Done(r) /\ Release(r) /\ live' = [live EXCEPT ![id] = None]
      BY <2>2 DEF EndCommand, Return, Finish
    <3> QED BY <1>1, <2>2, <3>1, DoneFacts, HandedFacts DEF TypeOK, EndCommand, StartCommand
  <2> QED BY <2>1, <2>2
<1>5. ReqInv(r)'
  <2>1. NotEvicted(r)
    BY DEF IInv, ReqInv
  <2>2. CASE StartCommand(r)
    BY <1>1, <1>4, <2>1, <2>2 DEF ReqInv, Located, HoldsSession, Listed, NotEvicted, Shown, AtSource,
                                  InCommand, registry
  <2>3. CASE EndCommand(r)
    BY <1>4, <2>3 DEF ReqInv, Located, HoldsSession, Listed, NotEvicted, Shown, AtSession, AtSource,
                      InCommand, Closing
  <2> QED BY <2>2, <2>3
<1>6. ASSUME NEW q \in Requests \ {r} PROVE ReqInv(q)'
  <2>1. req[q].at = "running" => live'[req[q].id] = q
    BY <1>2, <1>3 DEF IInv, ReqInv, Listed, Located, AtSession, InCommand
  <2> QED BY <1>1, <1>4, <2>1, OthersKeepReqInv DEF registry, clocks
<1>7. ASSUME NEW j \in Ids PROVE SessionInv(j)'
  <2>1. SessionInv(j)
    BY DEF IInv
  <2>2. ListedTruly(j)'
    <3>1. CASE j = id
      BY <1>4, <3>1, NamesAssumption DEF ListedTruly
    <3>2. CASE j /= id
      BY <1>1, <1>3, <1>4, <2>1, <3>2 DEF SessionInv, ListedTruly, OthersStay, TypeOK
    <3> QED BY <3>1, <3>2
  <2>3. WillBeSaved(j)'
    <3>1. ASSUME NEW q \in Requests, req[q].at \in Closing
          PROVE  req'[q] = req[q]
      BY <1>1, <1>4, <3>1 DEF OthersStay, Closing, InCommand
    <3> QED BY <1>1, <2>1, <3>1 DEF SessionInv, WillBeSaved, registry
  <2> QED BY <1>1, <2>1, <2>2, <2>3 DEF SessionInv, StaysIdle, registry, clocks, config
<1>8. TypeOK' /\ Counted'
  BY <1>1, <1>3, <1>4 DEF IInv, TypeOK, Handed, Counted, WithinLimit, registry, clocks, config
<1> QED BY <1>5, <1>6, <1>7, <1>8 DEF IInv

\* A session enters the map below the limit, under an id no reaper and no close
\* has seen.
LEMMA InsertKeepsIInv ==
  ASSUME IInv, NEW r \in Requests, Insert(r)
  PROVE  IInv'
<1>1. PICK id \in Ids \ used :
        /\ sessions' = sessions \cup {id} /\ used' = used \cup {id}
        /\ req' = [req EXCEPT ![r].at = "report", ![r].id = id]
  BY DEF Insert
<1>2. /\ TypeOK /\ req[r].at = "insert" /\ req[r] \in Request
      /\ limit /= None => Cardinality(sessions) < limit
      /\ UNCHANGED <<current, evicted, holder, clocks, history, served>>
  BY DEF IInv, TypeOK, Insert
<1> DEFINE new == [req[r] EXCEPT !.at = "report", !.id = id]
<1>3. new \in Request /\ new.at = "report" /\ new.id = id /\ req' = [req EXCEPT ![r] = new]
  BY <1>1, <1>2 DEF Request
<1> HIDE DEF new
<1>4. /\ req' \in [Requests -> Request] /\ OthersStay(r)
      /\ req'[r].at = "report" /\ req'[r].id = id
  BY <1>2, <1>3 DEF TypeOK, OthersStay
<1>5. Counted'
  <2>1. /\ IsFiniteSet(sessions) /\ id \notin sessions
        /\ Cardinality(sessions) \in Nat /\ limit \in Nat \cup {None}
    BY <1>2, FS_CardinalityType, LimitsAssumption DEF IInv, Counted, TypeOK
  <2>2. /\ IsFiniteSet(sessions \cup {id})
        /\ Cardinality(sessions \cup {id}) = Cardinality(sessions) + 1
    BY <2>1, FS_AddElement
  <2>3. limit /= None => Cardinality(sessions \cup {id}) <= limit
    BY <1>2, <2>1, <2>2
  <2> QED BY <1>1, <1>2, <2>2, <2>3 DEF Counted, WithinLimit, clocks, config
<1>6. ReqInv(r)'
  BY <1>4 DEF ReqInv, Located, HoldsSession, Listed, NotEvicted, Shown, AtSession, AtSource,
              InCommand, Closing
<1>7. ASSUME NEW q \in Requests \ {r} PROVE ReqInv(q)'
  BY <1>2, <1>4, HandedFacts, OthersKeepReqInv DEF IInv, ReqInv, Listed, TypeOK, clocks, history
<1>8. ASSUME NEW j \in Ids PROVE SessionInv(j)'
  <2>1. SessionInv(j)
    BY DEF IInv
  <2>2. ListedTruly(j)'
    BY <1>2, <1>4, <2>1 DEF SessionInv, ListedTruly, OthersStay, TypeOK, history
  <2>3. WillBeSaved(j)'
    <3>1. ASSUME NEW q \in Requests, req[q].at \in Closing
          PROVE  req'[q] = req[q]
      BY <1>2, <1>4, <3>1 DEF OthersStay, Closing
    <3> QED BY <1>1, <1>2, <2>1, <3>1 DEF SessionInv, WillBeSaved, history
  <2> QED BY <1>2, <2>1, <2>2, <2>3 DEF SessionInv, StaysIdle, clocks, config
<1>9. TypeOK'
  BY <1>1, <1>2, <1>4 DEF TypeOK, clocks, config, history
<1> QED BY <1>5, <1>6, <1>7, <1>8, <1>9 DEF IInv

\* What the steps of a close have in common: the request goes on to the next one or
\* is done, and whoever else closes the session is not disturbed.
CloseStep(r) ==
  /\ req[r].at \in {"remove", "clear", "save"} /\ req[r].id \in Ids
  /\ \/ \E place \in Closing : Goto(r, place)
     \/ Done(r)
  /\ UNCHANGED <<used, evicted, holder, clocks, changes, live, served>>

\* A step of a close leaves the locks of all requests, the live output and the idleness of
\* what was evicted as the invariant wants them.
LEMMA CloseStepFacts ==
  ASSUME IInv, NEW r \in Requests, CloseStep(r)
  PROVE  /\ req' \in [Requests -> Request] /\ OthersStay(r)
         /\ \A q \in Requests : ReqInv(q)'
         /\ \A id \in Ids : ListedTruly(id)' /\ StaysIdle(id)'
<1>1. TypeOK /\ req[r].at \notin InCommand
  BY DEF IInv, CloseStep, InCommand
<1>2. /\ req' \in [Requests -> Request] /\ OthersStay(r)
      /\ \/ req'[r].at \in Closing /\ req'[r].id = req[r].id
         \/ req'[r].at = "done"
  <2>1. CASE Done(r)
    BY <1>1, <2>1, DoneFacts DEF TypeOK
  <2>2. CASE \E place \in Closing : Goto(r, place)
    <3>1. PICK place \in Closing : Goto(r, place)
      BY <2>2
    <3>2. place \in Places
      BY DEF Closing, Places
    <3> QED BY <1>1, <3>1, <3>2, GotoFacts DEF TypeOK
  <2> QED BY <2>1, <2>2 DEF CloseStep
<1>3. ReqInv(r)'
  BY <1>2 DEF CloseStep, ReqInv, Located, HoldsSession, Listed, NotEvicted, Shown, AtSession,
              AtSource, InCommand, Closing
<1>4. ASSUME NEW q \in Requests \ {r} PROVE ReqInv(q)'
  BY <1>1, <1>2, HandedFacts, OthersKeepReqInv DEF CloseStep, IInv, ReqInv, Listed, TypeOK, clocks
<1>5. ASSUME NEW id \in Ids PROVE ListedTruly(id)' /\ StaysIdle(id)'
  <2>1. SessionInv(id)
    BY DEF IInv
  <2> QED BY <1>1, <1>2, <2>1 DEF CloseStep, SessionInv, ListedTruly, StaysIdle, OthersStay,
                                  TypeOK, InCommand, clocks, config
<1> QED BY <1>2, <1>3, <1>4, <1>5

\* Between the removal of a session and its snapshot somebody is about to write it.
LEMMA CloseKeepsIInv ==
  ASSUME IInv, NEW r \in Requests, Remove(r) \/ Clear(r) \/ Save(r) \/ SaveFails(r)
  PROVE  IInv'
<1>1. TypeOK /\ CloseStep(r)
  <2>1. TypeOK /\ (req[r].at \in {"remove", "clear", "save"} => req[r].id \in Ids)
    BY DEF IInv, ReqInv, Located, AtSession, Closing
  <2> QED BY <2>1 DEF CloseStep, Remove, Clear, Save, SaveFails, registry, history, Closing
<1>a. PICK id \in Ids : id = req[r].id
  BY <1>1 DEF CloseStep
<1>2. /\ req' \in [Requests -> Request] /\ OthersStay(r)
      /\ \A q \in Requests : ReqInv(q)'
      /\ \A j \in Ids : ListedTruly(j)' /\ StaysIdle(j)'
  BY <1>1, CloseStepFacts
<1>3. SUFFICES TypeOK' /\ Counted' /\ \A j \in Ids : WillBeSaved(j)'
  BY <1>2 DEF IInv, SessionInv
<1>4. /\ id = req[r].id
      /\ UNCHANGED <<used, evicted, holder, clocks, changes, live, served>>
  BY <1>1, <1>a DEF CloseStep
<1>5. ASSUME NEW j \in Ids, WillBeSaved(j), UNCHANGED <<used, evicted>>,
             sessions \ {id} \subseteq sessions', sessions' \subseteq sessions,
             saved'[j] = saved[j], j /= id
      PROVE  WillBeSaved(j)'
  BY <1>2, <1>5, <1>4 DEF WillBeSaved, OthersStay
<1>6. \A j \in Ids : WillBeSaved(j)
  BY DEF IInv, SessionInv
<1>7. CASE Remove(r)
  <2>1. /\ sessions' = sessions \ {id} /\ UNCHANGED <<current, saved>>
        /\ req[r].at = "remove"
        /\ IF id \in sessions THEN Goto(r, "clear") ELSE Done(r)
    BY <1>4, <1>7 DEF Remove, history
  <2>2. Counted'
    <3>1. /\ IsFiniteSet(sessions) /\ IsFiniteSet(sessions')
          /\ Cardinality(sessions') <= Cardinality(sessions)
      BY <2>1, FS_Subset DEF IInv, Counted
    <3>2. UNCHANGED config
      BY <1>4 DEF clocks
    <3> QED BY <3>1, <3>2, FewerCounted
  <2>3. WillBeSaved(id)'
    <3>1. CASE id \in sessions
      <4>1. req'[r].at \in Closing /\ req'[r].id = id
        BY <1>1, <1>4, <2>1, <3>1, GotoFacts DEF TypeOK, Places, Closing
      <4> QED BY <4>1 DEF WillBeSaved
    <3>2. CASE id \notin sessions
      <4>1. ASSUME NEW q \in Requests, req[q].at \in Closing PROVE req'[q] = req[q]
        BY <1>2, <2>1, <4>1 DEF OthersStay, Closing
      <4> QED BY <1>4, <1>6, <2>1, <3>2, <4>1 DEF WillBeSaved
    <3> QED BY <3>1, <3>2
  <2> QED BY <1>1, <1>2, <1>4, <1>5, <1>6, <2>1, <2>2, <2>3 DEF TypeOK, clocks, config
<1>8. CASE Clear(r)
  <2>1. /\ UNCHANGED <<sessions, saved>>
        /\ current' = [c \in Connections |-> IF current[c] = id THEN None ELSE current[c]]
        /\ IF SnapshotOnClose THEN Goto(r, "save") ELSE Done(r)
    BY <1>4, <1>8 DEF Clear, history
  <2>2. WillBeSaved(id)'
    <3>1. CASE SnapshotOnClose
      <4>1. req'[r].at \in Closing /\ req'[r].id = id
        BY <1>1, <1>4, <2>1, <3>1, GotoFacts DEF TypeOK, Places, Closing
      <4> QED BY <4>1 DEF WillBeSaved
    <3>2. CASE ~SnapshotOnClose
      BY <3>2 DEF WillBeSaved
    <3> QED BY <3>1, <3>2
  <2>3. TypeOK' /\ Counted'
    BY <1>1, <1>2, <1>4, <2>1 DEF IInv, TypeOK, Counted, WithinLimit, clocks, config
  <2> QED BY <1>4, <1>5, <1>6, <2>1, <2>2, <2>3
<1>9. CASE Save(r)
  <2>1. /\ UNCHANGED <<sessions, current>>
        /\ saved' = [saved EXCEPT ![id] = changes[id]]
    BY <1>4, <1>9 DEF Save, registry
  <2>2. changes[id] \in Nat /\ changes[id] /= None
    BY <1>1, <1>4, NamesAssumption DEF TypeOK
  <2>3. WillBeSaved(id)'
    BY <1>1, <1>4, <2>1, <2>2 DEF WillBeSaved, TypeOK
  <2>4. TypeOK' /\ Counted'
    BY <1>1, <1>2, <1>4, <2>1, <2>2 DEF IInv, TypeOK, Counted, WithinLimit, clocks, config
  <2>5. \A j \in Ids \ {id} : saved'[j] = saved[j]
    BY <1>1, <2>1 DEF TypeOK
  <2> QED BY <1>4, <1>5, <1>6, <2>1, <2>3, <2>4, <2>5
<1>10. CASE SaveFails(r)
  <2>1. WritesMayFail /\ UNCHANGED <<registry, saved>>
    BY <1>10 DEF SaveFails, history
  <2> QED BY <1>1, <1>2, <1>4, <2>1 DEF IInv, TypeOK, Counted, WithinLimit, WillBeSaved, registry, clocks, config
<1> QED BY <1>7, <1>8, <1>9, <1>10

\* The reaper takes no session a call is in.
LEMMA EvictKeepsIInv ==
  ASSUME IInv, Evict
  PROVE  IInv'
<1>1. /\ TypeOK
      /\ evicted' = evicted \cup {id \in sessions : Abandoned(id)}
      /\ sessions' = {id \in sessions : ~Abandoned(id)}
      /\ UNCHANGED <<used, current, holder, clocks, history, served, req>>
  BY DEF IInv, Evict
<1>2. Counted'
  <2>1. /\ IsFiniteSet(sessions') /\ Cardinality(sessions') <= Cardinality(sessions)
    BY <1>1, FS_Subset DEF IInv, Counted
  <2> QED BY <1>1, <2>1, FewerCounted DEF clocks
<1>3. ASSUME NEW r \in Requests PROVE ReqInv(r)'
  <2>1. ReqInv(r) /\ r /= None
    BY NamesAssumption DEF IInv
  <2>2. req[r].at \in InCommand => ~Abandoned(req[r].id)
    BY <2>1 DEF ReqInv, HoldsSession, Abandoned, Free
  <2>3. NotEvicted(r)'
    BY <1>1, <2>1, <2>2 DEF ReqInv, NotEvicted
  <2> QED BY <1>1, <2>1, <2>3 DEF ReqInv, Located, HoldsSession, Listed, Shown, WithinLimit, clocks, config, history
<1>4. ASSUME NEW id \in Ids PROVE SessionInv(id)'
  <2>1. SessionInv(id)
    BY DEF IInv
  <2>2. StaysIdle(id)'
    BY <1>1, <2>1 DEF SessionInv, StaysIdle, Abandoned, Exceeds, clocks, config
  <2>3. WillBeSaved(id)'
    BY <1>1, <2>1 DEF SessionInv, WillBeSaved, history
  <2> QED BY <1>1, <2>1, <2>2, <2>3 DEF SessionInv, ListedTruly, history
<1>5. TypeOK'
  BY <1>1 DEF TypeOK, clocks, config, history
<1> QED BY <1>2, <1>3, <1>4, <1>5 DEF IInv

\* An edit of max_sessions counts the sessions that are open; a page that fits what the
\* limit was fits a higher one.
LEMMA EditKeepsCounted ==
  ASSUME IInv, EditLimit, UNCHANGED <<sessions, req>>
  PROVE  Counted' /\ \A r \in Requests : Shown(r)'
<1>1. /\ Cardinality(sessions) \in Nat /\ IsFiniteSet(sessions)
      /\ limit \in Nat \cup {None} /\ limit' \in Nat \cup {None}
  BY FS_CardinalityType, LimitsAssumption DEF IInv, Counted, TypeOK, EditLimit
<1>2. /\ over' = IF limit' /= None /\ Cardinality(sessions) > limit'
                   THEN Cardinality(sessions) ELSE 0
      /\ lowered' = (lowered \/ Lower(limit, limit'))
  BY DEF EditLimit
<1>3. ASSUME NEW n \in Nat, ~Lower(limit, limit'), limit /= None => n <= limit, limit' /= None
      PROVE  n <= limit'
  BY <1>1, <1>3 DEF Lower
<1>4. Counted'
  <2>1. ~lowered' => WithinLimit(sessions)'
    BY <1>1, <1>2, <1>3 DEF IInv, Counted, WithinLimit
  <2>2. WithinLimit(sessions)' \/ Cardinality(sessions') <= over'
    BY <1>1, <1>2 DEF WithinLimit
  <2> QED BY <1>1, <2>1, <2>2 DEF Counted
<1>5. ASSUME NEW r \in Requests PROVE Shown(r)'
  <2> SUFFICES ASSUME req[r].at = "status", ~lowered'
               PROVE  IsFiniteSet(req[r].rest) /\ (limit' /= None => Cardinality(req[r].rest) <= limit')
    BY DEF Shown, WithinLimit
  <2>1. IsFiniteSet(req[r].rest) /\ (limit /= None => Cardinality(req[r].rest) <= limit)
    BY <1>2 DEF IInv, ReqInv, Shown, WithinLimit
  <2>2. Cardinality(req[r].rest) \in Nat
    BY <2>1, FS_CardinalityType
  <2> QED BY <1>2, <1>3, <2>1, <2>2
<1> QED BY <1>4, <1>5

\* Time passes and the config is edited without a step of any request.
LEMMA ClockKeepsIInv ==
  ASSUME IInv, EditConfig \/ Tick \/ UNCHANGED vars
  PROVE  IInv'
<1>1. /\ TypeOK
      /\ UNCHANGED <<registry, holder, history, req>>
  BY DEF IInv, EditConfig, Tick, vars, registry, history
<1>a. EditLimit \/ UNCHANGED <<limit, over, lowered, served>>
  BY DEF EditConfig, EditTimeout, Tick, vars, config
<1>b. /\ timeout' \in IdleTimeouts /\ limit' \in SessionLimits
      /\ over' \in Nat /\ lowered' \in BOOLEAN /\ served' \in 0 .. MaxRequests
  <2>1. timeout' \in IdleTimeouts
    BY <1>1 DEF TypeOK, EditConfig, EditTimeout, EditLimit, Tick, vars, config
  <2>2. CASE EditLimit
    <3>1. Cardinality(sessions) \in Nat
      BY FS_CardinalityType DEF IInv, Counted
    <3>2. served' = served + 1 /\ served < MaxRequests /\ served \in 0 .. MaxRequests
      BY <1>1, <2>2 DEF EditLimit, TypeOK
    <3>3. served' \in 0 .. MaxRequests
      BY <3>2, LimitsAssumption
    <3>4. over' \in {0, Cardinality(sessions)} /\ limit' \in SessionLimits
          /\ lowered' = (lowered \/ Lower(limit, limit'))
      BY <2>2 DEF EditLimit
    <3> QED BY <2>1, <3>1, <3>3, <3>4
  <2>3. CASE UNCHANGED <<limit, over, lowered, served>>
    BY <1>1, <2>1, <2>3 DEF TypeOK
  <2> QED BY <1>a, <2>2, <2>3
<1>c. Counted' /\ \A r \in Requests : Shown(r)'
  <2>1. CASE EditLimit
    BY <1>1, <2>1, EditKeepsCounted DEF registry
  <2>2. CASE UNCHANGED <<limit, over, lowered, served>>
    BY <1>1, <2>2 DEF IInv, ReqInv, Counted, Shown, WithinLimit, registry
  <2> QED BY <1>a, <2>1, <2>2
<1>2. /\ idle' \in [Ids -> 0 .. Long]
      /\ \A id \in Ids : idle'[id] >= idle[id]
  <2>1. Long \in Nat /\ idle \in [Ids -> 0 .. Long]
    BY <1>1, LongFacts DEF TypeOK
  <2>2. CASE Tick
    <3>1. idle' = [id \in Ids |-> IF id \in used /\ idle[id] < Long THEN idle[id] + 1 ELSE idle[id]]
      BY <2>2 DEF Tick
    <3> QED BY <2>1, <3>1
  <2>3. CASE idle' = idle
    BY <2>1, <2>3
  <2> QED BY <2>2, <2>3 DEF EditConfig, vars
<1>3. ASSUME NEW r \in Requests PROVE ReqInv(r)'
  BY <1>1, <1>c DEF IInv, ReqInv, Located, HoldsSession, Listed, NotEvicted, registry, history
<1>4. ASSUME NEW id \in Ids PROVE SessionInv(id)'
  <2>1. SessionInv(id)
    BY DEF IInv
  <2>2. StaysIdle(id)'
    <3> SUFFICES ASSUME Shortening, id \in evicted PROVE idle'[id] > IdleTimeout
      BY <1>1 DEF StaysIdle, registry
    <3>1. idle[id] > IdleTimeout /\ idle[id] \in Nat /\ idle'[id] \in Nat /\ IdleTimeout \in Nat
      BY <1>1, <1>2, <2>1, LongFacts, LimitsAssumption
      DEF SessionInv, StaysIdle, TypeOK, Shortening
    <3> QED BY <1>2, <3>1
  <2> QED BY <1>1, <2>1, <2>2 DEF SessionInv, ListedTruly, WillBeSaved, registry, history
<1>5. TypeOK'
  BY <1>1, <1>b, <1>2 DEF TypeOK, registry, history
<1> QED BY <1>3, <1>4, <1>5, <1>c DEF IInv

-----------------------------------------------------------------------------
\* The inductive invariant: where each request is, what it holds and what is known
\* of the session it is in.
THEOREM Invariance == Spec => []IInv
<1>1. Init => IInv
  <2> SUFFICES ASSUME Init PROVE IInv
    OBVIOUS
  <2>1. Idle \in Request /\ Idle.at = "done" /\ \A r \in Requests : req[r] = Idle
    BY DEF Init, Idle, Request
  <2>2. TypeOK
    <3>1. /\ 0 \in 0 .. Long /\ 0 \in 0 .. MaxRequests /\ IdleTimeout \in IdleTimeouts
          /\ sessions \in SUBSET Ids /\ current \in [Connections -> Ids \cup {None}]
      BY LongFacts, LimitsAssumption DEF Init
    <3>2. req \in [Requests -> Request]
      BY <2>1 DEF Init
    <3> QED BY <3>1, <3>2 DEF Init, TypeOK
  <2>a. Counted
    BY DEF Init, Counted
  <2>3. \A r \in Requests : ReqInv(r)
    BY <2>1 DEF ReqInv, Located, HoldsSession, Listed, NotEvicted, Shown, AtSession, AtSource,
                InCommand, Closing
  <2>4. \A id \in Ids : SessionInv(id)
    BY DEF Init, SessionInv, ListedTruly, StaysIdle, WillBeSaved
  <2> QED BY <2>2, <2>a, <2>3, <2>4 DEF IInv
<1>2. IInv /\ [Next]_vars => IInv'
  <2> SUFFICES ASSUME IInv, [Next]_vars PROVE IInv'
    OBVIOUS
  <2>1. ASSUME NEW r \in Requests, Arrive(r) PROVE IInv'
    BY <2>1, ArriveKeepsIInv
  <2>2. ASSUME NEW r \in Requests, Step(r) PROVE IInv'
    BY <2>2, LookupKeepsIInv, LeavingKeepsIInv, LockSourceKeepsIInv, AnswerKeepsIInv,
       VisitKeepsIInv, EnterKeepsIInv, CommandKeepsIInv, InsertKeepsIInv, CloseKeepsIInv
    DEF Step
  <2> QED BY <2>1, <2>2, EvictKeepsIInv, ClockKeepsIInv DEF Next
<1> QED BY <1>1, <1>2, PTL DEF Spec

\* max_sessions is held to at every moment, however many requests make sessions and
\* whatever edits of it come in between: no session is opened beyond it.
THEOREM SessionLimitCorrect == Spec => []SessionLimit
<1>1. IInv => SessionLimit
  <2> SUFFICES ASSUME IInv, NEW r \in Requests, req[r].at = "status", ~lowered
               PROVE  WithinLimit(req[r].rest)
    BY DEF IInv, Counted, WithinLimit, SessionLimit, DaemonStatus
  <2> QED BY DEF IInv, ReqInv, Shown
<1> QED BY <1>1, Invariance, PTL

\* No call runs in a session the reaper evicted.
THEOREM EvictedNeverEnteredCorrect == Spec => []EvictedNeverEntered
<1>1. IInv => EvictedNeverEntered
  BY DEF IInv, ReqInv, NotEvicted, Shortening, InCommand, EvictedNeverEntered
<1> QED BY <1>1, Invariance, PTL

\* No session is closed without a snapshot unless writing one failed.
THEOREM ClosedHasSnapshotCorrect == Spec => []ClosedHasSnapshot
<1>1. IInv => ClosedHasSnapshot
  BY DEF IInv, TypeOK, SessionInv, WillBeSaved, Closed, ClosedHasSnapshot
<1> QED BY <1>1, Invariance, PTL

\* A session is shown as running exactly while a command of it runs.
THEOREM LiveIsRunningCorrect == Spec => []LiveIsRunning
<1>1. IInv => LiveIsRunning
  <2> SUFFICES ASSUME IInv PROVE LiveIsRunning
    OBVIOUS
  <2>1. ASSUME NEW id \in Ids, live[id] /= None
        PROVE  /\ live[id] \in Requests /\ holder[id] = live[id]
               /\ req[live[id]].at = "running" /\ req[live[id]].id = id
    BY <2>1 DEF IInv, TypeOK, SessionInv, ListedTruly, ReqInv, HoldsSession, InCommand
  <2>2. ASSUME NEW r \in Requests, req[r].at = "running"
        PROVE  live[req[r].id] = r /\ r /= None
    BY <2>2, NamesAssumption DEF IInv, ReqInv, Listed
  <2>3. \A id \in sessions : id \in Ids /\ LiveAnswer(id).running = (live[id] /= None)
    BY DEF IInv, TypeOK, LiveAnswer, LiveOutput
  <2>4. ASSUME NEW id \in sessions
        PROVE  LiveAnswer(id).running <=> \E r \in Requests : req[r].at = "running" /\ req[r].id = id
    <3>1. CASE live[id] /= None
      BY <2>1, <2>3, <3>1
    <3>2. CASE live[id] = None
      BY <2>2, <2>3, <3>2
    <3> QED BY <3>1, <3>2
  <2>5. ASSUME NEW r \in Requests, NEW id \in Ids, ~TreeNode(r, id).running,
               NEW q \in Requests, req[q].at = "running"
        PROVE  req[q].id /= id
    <3>1. live[id] = None
      BY <2>5 DEF TreeNode, IsRunning
    <3> QED BY <2>2, <2>5, <3>1
  <2> QED BY <2>1, <2>4, <2>5 DEF LiveIsRunning, IsRunning
<1> QED BY <1>1, Invariance, PTL

-----------------------------------------------------------------------------
(***************************************************************************)
(* Theorems about Executor: for any number of calls, whatever the          *)
(* processes of any of them do.  CallInv is what is true of one call       *)
(* between any two steps; every action concerns one call, except the       *)
(* daemon's exit, and leaves the others as they were (Bystander).          *)
(***************************************************************************)

\* Where a call has its ChildGuard, and where its last sweep is over.
Guarded == {"reading", "cancelling", "joining", "waiting", "sweeping", "judging"}
Swept == {"judging"} \cup Ended

CallInv(c) ==
  /\ main[c] = "ready" => alive[c] = {}
  /\ main[c] \in Guarded => c \in registered
  /\ main[c] \in {"sweeping"} \cup Swept => "child" \notin alive[c]
  /\ main[c] \in Swept => Grouped(c) = {}
  /\ timer[c] = "flagged" => timedOut[c]
  /\ c \in stopped => timedOut[c] /\ main[c] /= "ok"

ExecutorIInv ==
  /\ ExecutorTypeOK
  /\ daemon = "up" => killed = {}
  /\ \A c \in Calls : CallInv(c)

-----------------------------------------------------------------------------
\* What killing or ending some processes of one call leaves, and that it leaves
\* the types in order.
ProcessTypes ==
  /\ alive \in [Calls -> SUBSET Processes]
  /\ holds \in [Calls -> [Processes -> SUBSET Pipes]]
  /\ \A c \in Calls, p \in Processes : p \notin alive[c] => holds[c][p] = {}
  /\ detached \subseteq {c \in Calls : "descendant" \in alive[c]}

\* Processes that die release their pipes and leave the group; those of other calls stay.
LEMMA DiesFacts ==
  ASSUME ProcessTypes, NEW c \in Calls, NEW dead, Dies(c, dead)
  PROVE  /\ ProcessTypes'
         /\ alive'[c] = alive[c] \ dead
         /\ \A d \in Calls \ {c} : /\ alive'[d] = alive[d]
                                   /\ d \in detached' <=> d \in detached
         /\ Grouped(c)' = Grouped(c) \ dead
<1>1. /\ alive' \in [Calls -> SUBSET Processes]
      /\ alive'[c] = alive[c] \ dead
      /\ \A d \in Calls \ {c} : alive'[d] = alive[d]
  BY DEF ProcessTypes, Dies
<1>2. /\ holds' \in [Calls -> [Processes -> SUBSET Pipes]]
      /\ \A d \in Calls \ {c} : holds'[d] = holds[d]
      /\ \A p \in Processes : holds'[c][p] = IF p \in dead THEN {} ELSE holds[c][p]
  BY DEF ProcessTypes, Dies
<1>3. /\ \A d \in Calls \ {c} : d \in detached' <=> d \in detached
      /\ c \in detached' <=> c \in detached /\ "descendant" \notin dead
      /\ detached' \subseteq detached
  BY DEF Dies
<1>4. \A d \in Calls, p \in Processes : p \notin alive'[d] => holds'[d][p] = {}
  BY <1>1, <1>2 DEF ProcessTypes
<1>5. detached' \subseteq {d \in Calls : "descendant" \in alive'[d]}
  BY <1>1, <1>3 DEF ProcessTypes
<1>6. Grouped(c)' = Grouped(c) \ dead
  BY <1>1, <1>3 DEF Grouped, ProcessTypes
<1> QED BY <1>1, <1>2, <1>3, <1>4, <1>5, <1>6 DEF ProcessTypes

\* A sweep leaves nothing of the group, and nothing else when the child is gone.
LEMMA SweepFacts ==
  ASSUME ProcessTypes, NEW c \in Calls, KillProcessTree(c)
  PROVE  /\ ProcessTypes'
         /\ alive'[c] \subseteq alive[c]
         /\ \A d \in Calls \ {c} : /\ alive'[d] = alive[d]
                                   /\ d \in detached' <=> d \in detached
         /\ Grouped(c)' = {}
         /\ "child" \notin alive[c] /\ Grouped(c) = {} => alive'[c] = alive[c]
<1>1. PICK found \in IF "child" \in alive[c] THEN {{}, alive[c]} ELSE {{}} :
        Dies(c, Grouped(c) \cup found)
  BY DEF KillProcessTree
<1>2. /\ ProcessTypes'
      /\ alive'[c] = alive[c] \ (Grouped(c) \cup found)
      /\ \A d \in Calls \ {c} : /\ alive'[d] = alive[d]
                                /\ d \in detached' <=> d \in detached
      /\ Grouped(c)' = Grouped(c) \ (Grouped(c) \cup found)
  BY <1>1, DiesFacts
<1>3. "child" \notin alive[c] => found = {}
  BY <1>1
<1> QED BY <1>2, <1>3

\* What a step leaves of a call it does not concern.
Untouched(d) ==
  /\ main'[d] = main[d] /\ timer'[d] = timer[d] /\ timedOut'[d] = timedOut[d]
  /\ alive'[d] = alive[d]
  /\ d \in detached' <=> d \in detached
  /\ d \in registered => d \in registered'
  /\ d \in stopped' <=> d \in stopped

\* What leaves a call untouched leaves CallInv of it true.
LEMMA Bystander ==
  ASSUME NEW d \in Calls, CallInv(d), Untouched(d)
  PROVE  CallInv(d)'
<1>1. Grouped(d)' = Grouped(d)
  BY DEF Grouped, Untouched
<1> QED BY <1>1 DEF CallInv, Untouched

\* A step of call c that leaves the types in order and CallInv of c true leaves
\* the invariant true, if it is no step of the shutdown.
LEMMA OneCall ==
  ASSUME ExecutorIInv, NEW c \in Calls,
         main' \in [Calls -> {"ready", "spawned"} \cup Guarded \cup Ended],
         timer' \in [Calls -> {"none", "armed", "expired", "flagged", "swept", "gone"}],
         timedOut' \in [Calls -> BOOLEAN],
         ProcessTypes', registered' \subseteq Calls, stopped' \subseteq Calls,
         UNCHANGED shutdown,
         \A d \in Calls \ {c} : Untouched(d), CallInv(c)'
  PROVE  ExecutorIInv'
<1>1. \A d \in Calls : CallInv(d)'
  BY Bystander DEF ExecutorIInv
<1>2. ExecutorTypeOK'
  BY DEF ExecutorIInv, ExecutorTypeOK, ProcessTypes, shutdown, Guarded, Ended
<1> QED BY <1>1, <1>2 DEF ExecutorIInv, shutdown

-----------------------------------------------------------------------------
\* What the processes of a call do by themselves keeps the invariant.
LEMMA ProcessesKeepIInv ==
  ASSUME ExecutorIInv, NEW c \in Calls, Fork(c) \/ Redirect(c) \/ Detach(c) \/ Exit(c)
  PROVE  ExecutorIInv'
<1>1. /\ ProcessTypes /\ CallInv(c)
      /\ main \in [Calls -> {"ready", "spawned"} \cup Guarded \cup Ended]
  BY DEF ExecutorIInv, ExecutorTypeOK, ProcessTypes, Guarded, Ended
<1>2. UNCHANGED threads
  BY DEF Fork, Redirect, Detach, Exit
<1>3. SUFFICES /\ ProcessTypes'
               /\ \A d \in Calls \ {c} : /\ alive'[d] = alive[d]
                                         /\ d \in detached' <=> d \in detached
               /\ CallInv(c)'
  BY <1>1, <1>2, OneCall DEF ExecutorIInv, ExecutorTypeOK, threads, shutdown, Untouched
<1>4. CASE Fork(c)
  <2>1. /\ alive' = [alive EXCEPT ![c] = @ \cup {"descendant"}]
        /\ holds' = [holds EXCEPT ![c]["descendant"] = holds[c]["child"]]
        /\ detached' = detached /\ "child" \in alive[c]
    BY <1>4 DEF Fork
  <2>2. ProcessTypes'
    BY <1>1, <2>1 DEF ProcessTypes, Processes
  <2> QED BY <1>1, <1>2, <2>1, <2>2 DEF CallInv, ProcessTypes, threads, Swept
<1>5. CASE Redirect(c)
  <2>1. PICK p \in alive[c] : \E pipe \in holds[c][p] :
          holds' = [holds EXCEPT ![c][p] = @ \ {pipe}]
    BY <1>5 DEF Redirect
  <2>2. alive' = alive /\ detached' = detached
    BY <1>5 DEF Redirect
  <2>3. ProcessTypes'
    BY <1>1, <2>1, <2>2 DEF ProcessTypes
  <2> QED BY <1>1, <1>2, <2>2, <2>3 DEF CallInv, threads, Grouped
<1>6. CASE Detach(c)
  <2>1. /\ alive' = alive /\ holds' = holds /\ detached' = detached \cup {c}
        /\ "descendant" \in alive[c]
    BY <1>6 DEF Detach
  <2>2. ProcessTypes'
    BY <1>1, <2>1 DEF ProcessTypes
  <2> QED BY <1>1, <1>2, <2>1, <2>2 DEF CallInv, threads, Grouped
<1>7. CASE Exit(c)
  <2>1. PICK p \in alive[c] : Dies(c, {p})
    BY <1>7 DEF Exit
  <2> QED BY <1>1, <1>2, <2>1, DiesFacts DEF CallInv, threads
<1> QED BY <1>4, <1>5, <1>6, <1>7

\* The thread of the call keeps it: what a guard must tell it is that the child is
\* gone before the sweep, and that the flag is read after the sweep.
LEMMA MainKeepsIInv ==
  ASSUME ExecutorIInv, NEW c \in Calls, Spawn(c) \/ Main(c)
  PROVE  ExecutorIInv'
<1>1. /\ ProcessTypes /\ CallInv(c) /\ ExecutorTypeOK
      /\ main \in [Calls -> {"ready", "spawned"} \cup Guarded \cup Ended]
  BY DEF ExecutorIInv, ExecutorTypeOK, ProcessTypes, Guarded, Ended
<1>2. CASE Spawn(c)
  <2>1. /\ main' = [main EXCEPT ![c] = "spawned"] /\ main[c] = "ready"
        /\ alive' = [alive EXCEPT ![c] = {"child"}]
        /\ holds' = [holds EXCEPT ![c]["child"] = Pipes]
        /\ UNCHANGED <<timer, timedOut, detached, registered, shutdown, stopped>>
    BY <1>2 DEF Spawn, At
  <2>2. alive[c] = {} /\ c \notin detached
    BY <1>1, <2>1 DEF CallInv, ProcessTypes
  <2>3. ProcessTypes'
    BY <1>1, <2>1, <2>2 DEF ProcessTypes, Processes
  <2>4. CallInv(c)'
    BY <1>1, <2>1 DEF CallInv, Guarded, Swept, Ended
  <2> QED BY <1>1, <2>1, <2>3, <2>4, OneCall DEF ExecutorTypeOK, Untouched, shutdown
<1>3. CASE Register(c)
  <2>1. /\ main' = [main EXCEPT ![c] = "reading"]
        /\ registered' = registered \cup {c}
        /\ timer' = [timer EXCEPT ![c] = "armed"]
        /\ UNCHANGED <<timedOut, process, shutdown, stopped>>
    BY <1>3 DEF Register, At
  <2>2. ProcessTypes' /\ CallInv(c)'
    BY <1>1, <2>1 DEF ProcessTypes, process, CallInv, ExecutorTypeOK, Guarded, Swept, Ended
  <2> QED BY <1>1, <2>1, <2>2, OneCall DEF ExecutorTypeOK, Untouched, process, Guarded
<1>4. CASE ReadToEnd(c) \/ ReadFails(c) \/ JoinStderr(c)
  <2>1. PICK to \in {"cancelling", "waiting"} : main' = [main EXCEPT ![c] = to]
    BY <1>4 DEF ReadToEnd, ReadFails, JoinStderr, At
  <2>2. /\ main[c] \in Guarded
        /\ UNCHANGED <<timer, timedOut, process, registered, shutdown, stopped>>
    BY <1>4 DEF ReadToEnd, ReadFails, JoinStderr, At, Guarded
  <2>3. ProcessTypes' /\ CallInv(c)'
    BY <1>1, <2>1, <2>2 DEF ProcessTypes, process, CallInv, Guarded, Swept, Ended
  <2> QED BY <1>1, <2>1, <2>2, <2>3, OneCall DEF ExecutorTypeOK, Untouched, process, Guarded
<1>5. CASE Cancel(c)
  <2>1. /\ main' = [main EXCEPT ![c] = "joining"] /\ main[c] = "cancelling"
        /\ timer' = [timer EXCEPT ![c] = IF @ = "armed" THEN "gone" ELSE @]
        /\ UNCHANGED <<timedOut, process, registered, shutdown, stopped>>
    BY <1>5 DEF Cancel, At
  <2>2. ProcessTypes' /\ CallInv(c)'
    BY <1>1, <2>1 DEF ProcessTypes, process, CallInv, ExecutorTypeOK, Guarded, Swept, Ended
  <2> QED BY <1>1, <2>1, <2>2, OneCall DEF ExecutorTypeOK, Untouched, process, Guarded
<1>6. CASE Wait(c)
  <2>1. /\ main' = [main EXCEPT ![c] = "sweeping"] /\ main[c] = "waiting"
        /\ "child" \notin alive[c]
        /\ UNCHANGED <<timer, timedOut, process, registered, shutdown, stopped>>
    BY <1>6 DEF Wait, At
  <2>2. ProcessTypes' /\ CallInv(c)'
    BY <1>1, <2>1 DEF ProcessTypes, process, CallInv, Guarded, Swept, Ended
  <2> QED BY <1>1, <2>1, <2>2, OneCall DEF ExecutorTypeOK, Untouched, process, Guarded
<1>7. CASE Sweep(c)
  <2>1. /\ main' = [main EXCEPT ![c] = "judging"] /\ main[c] = "sweeping"
        /\ KillProcessTree(c)
        /\ UNCHANGED <<timer, timedOut, registered, shutdown, stopped>>
    BY <1>7 DEF Sweep, At
  <2>2. /\ ProcessTypes' /\ alive'[c] \subseteq alive[c] /\ Grouped(c)' = {}
        /\ \A d \in Calls \ {c} : /\ alive'[d] = alive[d]
                                  /\ d \in detached' <=> d \in detached
    BY <1>1, <2>1, SweepFacts
  <2>3. CallInv(c)'
    BY <1>1, <2>1, <2>2 DEF CallInv, Guarded, Swept, Ended
  <2> QED BY <1>1, <2>1, <2>2, <2>3, OneCall DEF ExecutorTypeOK, Untouched, Guarded
<1>8. CASE Judge(c)
  <2>1. /\ main' = [main EXCEPT ![c] = IF timedOut[c] THEN "timeout error" ELSE "ok"]
        /\ main[c] = "judging"
        /\ registered' = registered \ {c}
        /\ UNCHANGED <<timer, timedOut, process, shutdown, stopped>>
    BY <1>8 DEF Judge, At
  <2>2. ProcessTypes' /\ CallInv(c)'
    BY <1>1, <2>1 DEF ProcessTypes, process, CallInv, Grouped, Guarded, Swept, Ended
  <2> QED BY <1>1, <2>1, <2>2, OneCall DEF ExecutorTypeOK, Untouched, process, Ended
<1> QED BY <1>2, <1>3, <1>4, <1>5, <1>6, <1>7, <1>8 DEF Main

\* The timer thread keeps it: its flag is up before its kill, and a kill that comes
\* after the last sweep finds nothing.
LEMMA TimerKeepsIInv ==
  ASSUME ExecutorIInv, NEW c \in Calls, Timer(c)
  PROVE  ExecutorIInv'
<1>1. /\ ProcessTypes /\ CallInv(c) /\ ExecutorTypeOK
      /\ main \in [Calls -> {"ready", "spawned"} \cup Guarded \cup Ended]
  BY DEF ExecutorIInv, ExecutorTypeOK, ProcessTypes, Guarded, Ended
<1>2. CASE Expire(c)
  <2>1. /\ timer' = [timer EXCEPT ![c] = "expired"]
        /\ UNCHANGED <<main, timedOut, process, registered, shutdown, stopped>>
    BY <1>2 DEF Expire, TimerAt
  <2>2. ProcessTypes' /\ CallInv(c)'
    BY <1>1, <2>1 DEF ProcessTypes, process, CallInv, Grouped, ExecutorTypeOK
  <2> QED BY <1>1, <2>1, <2>2, OneCall DEF ExecutorTypeOK, Untouched, process
<1>3. CASE Flag(c)
  <2>1. /\ timer' = [timer EXCEPT ![c] = "flagged"]
        /\ timedOut' = [timedOut EXCEPT ![c] = TRUE]
        /\ UNCHANGED <<main, process, registered, shutdown, stopped>>
    BY <1>3 DEF Flag, TimerAt
  <2>2. ProcessTypes' /\ CallInv(c)'
    BY <1>1, <2>1 DEF ProcessTypes, process, CallInv, Grouped, ExecutorTypeOK
  <2> QED BY <1>1, <2>1, <2>2, OneCall DEF ExecutorTypeOK, Untouched, process
<1>4. CASE KillGroup(c)
  <2>1. /\ timer' = [timer EXCEPT ![c] = "swept"] /\ timer[c] = "flagged"
        /\ KillProcessTree(c)
        /\ stopped' = IF alive'[c] = alive[c] THEN stopped ELSE stopped \cup {c}
        /\ UNCHANGED <<main, timedOut, registered, shutdown>>
    BY <1>4 DEF KillGroup, TimerAt
  <2>2. /\ ProcessTypes' /\ alive'[c] \subseteq alive[c] /\ Grouped(c)' = {}
        /\ \A d \in Calls \ {c} : /\ alive'[d] = alive[d]
                                  /\ d \in detached' <=> d \in detached
        /\ "child" \notin alive[c] /\ Grouped(c) = {} => alive'[c] = alive[c]
    BY <1>1, <2>1, SweepFacts
  <2>3. c \in stopped' => main[c] /= "ok"
    BY <1>1, <2>1, <2>2 DEF CallInv, Swept, Ended
  <2>4. CallInv(c)'
    BY <1>1, <2>1, <2>2, <2>3 DEF CallInv, ExecutorTypeOK
  <2> QED BY <1>1, <2>1, <2>2, <2>4, OneCall DEF ExecutorTypeOK, Untouched
<1>5. CASE KillChild(c)
  <2>1. /\ timer' = [timer EXCEPT ![c] = "gone"]
        /\ Dies(c, {"child"})
        /\ UNCHANGED <<main, timedOut, registered, shutdown, stopped>>
    BY <1>5 DEF KillChild, TimerAt
  <2>2. /\ ProcessTypes' /\ alive'[c] = alive[c] \ {"child"}
        /\ Grouped(c)' = Grouped(c) \ {"child"}
        /\ \A d \in Calls \ {c} : /\ alive'[d] = alive[d]
                                  /\ d \in detached' <=> d \in detached
    BY <1>1, <2>1, DiesFacts
  <2>3. CallInv(c)'
    BY <1>1, <2>1, <2>2 DEF CallInv, ExecutorTypeOK
  <2> QED BY <1>1, <2>1, <2>2, <2>3, OneCall DEF ExecutorTypeOK, Untouched
<1> QED BY <1>2, <1>3, <1>4, <1>5 DEF Timer

\* The shutdown keeps it, whether or not the children die with the daemon.
LEMMA ShutdownKeepsIInv ==
  ASSUME ExecutorIInv, Signal \/ ExitDaemon \/ \E c \in Calls : KillDoomed(c)
  PROVE  ExecutorIInv'
<1>1. ProcessTypes /\ ExecutorTypeOK /\ \A c \in Calls : CallInv(c)
  BY DEF ExecutorIInv, ExecutorTypeOK, ProcessTypes
<1>2. CASE Signal
  BY <1>1, <1>2 DEF Signal, ExecutorIInv, ExecutorTypeOK, CallInv, Grouped, process
<1>3. ASSUME NEW c \in Calls, KillDoomed(c) PROVE ExecutorIInv'
  <2>1. /\ KillProcessTree(c) /\ daemon = "killing"
        /\ c \in doomed /\ killed' = killed \cup {c}
        /\ UNCHANGED <<main, timer, timedOut, registered, daemon, doomed, stopped>>
    BY <1>3 DEF KillDoomed
  <2>2. /\ ProcessTypes' /\ alive'[c] \subseteq alive[c] /\ Grouped(c)' = {}
        /\ \A d \in Calls \ {c} : /\ alive'[d] = alive[d]
                                  /\ d \in detached' <=> d \in detached
    BY <1>1, <2>1, SweepFacts
  <2>3. ExecutorTypeOK'
    BY <1>1, <2>1, <2>2 DEF ExecutorTypeOK, ProcessTypes
  <2>4. CallInv(c)'
    BY <1>1, <2>1, <2>2 DEF CallInv
  <2>5. \A d \in Calls \ {c} : CallInv(d)'
    BY <1>1, <2>1, <2>2, Bystander DEF Untouched
  <2> QED BY <2>1, <2>3, <2>4, <2>5 DEF ExecutorIInv
<1>4. CASE ExitDaemon
  <2>1. PICK dying \in {{}, {"child"}} :
          /\ alive' = [c \in Calls |-> alive[c] \ dying]
          /\ holds' = [c \in Calls |-> [p \in Processes |->
                         IF p \in dying THEN {} ELSE holds[c][p]]]
    BY <1>4 DEF ExitDaemon
  <2>2. /\ daemon' = "down"
        /\ UNCHANGED <<main, timer, timedOut, detached, registered, doomed, killed, stopped>>
    BY <1>4 DEF ExitDaemon
  <2>3. ProcessTypes'
    BY <1>1, <2>1, <2>2 DEF ProcessTypes
  <2>4. ExecutorTypeOK'
    BY <1>1, <2>2, <2>3 DEF ExecutorTypeOK, ProcessTypes
  <2>5. \A c \in Calls : CallInv(c)'
    BY <1>1, <2>1, <2>2 DEF CallInv, Grouped
  <2> QED BY <2>2, <2>4, <2>5 DEF ExecutorIInv
<1> QED BY <1>2, <1>3, <1>4

-----------------------------------------------------------------------------
\* The inductive invariant: what holds of every call between any two steps of
\* its thread, its timer, its processes and the shutdown.
THEOREM ExecutorInvariance == ExecutorSpec => []ExecutorIInv
<1>1. ExecutorInit => ExecutorIInv
  BY DEF ExecutorInit, ExecutorIInv, ExecutorTypeOK, CallInv, Guarded, Swept, Ended, Processes, Pipes
<1>2. ExecutorIInv /\ [ExecutorNext]_executorVars => ExecutorIInv'
  <2> SUFFICES ASSUME ExecutorIInv, [ExecutorNext]_executorVars PROVE ExecutorIInv'
    OBVIOUS
  <2>1. CASE UNCHANGED executorVars
    BY <2>1 DEF executorVars, process, shutdown, ExecutorIInv, ExecutorTypeOK, CallInv, Grouped
  <2> QED
    BY <2>1, ProcessesKeepIInv, MainKeepsIInv, TimerKeepsIInv, ShutdownKeepsIInv DEF ExecutorNext
<1> QED BY <1>1, <1>2, PTL DEF ExecutorSpec

\* No call that the timer killed anything of is answered as one that ended.
THEOREM StoppedIsReportedCorrect == ExecutorSpec => []StoppedIsReported
<1>1. ExecutorIInv => StoppedIsReported
  BY DEF ExecutorIInv, ExecutorTypeOK, CallInv, StoppedIsReported
<1> QED BY <1>1, ExecutorInvariance, PTL

\* A call is answered when nothing of its process group lives.
THEOREM GroupGoneCorrect == ExecutorSpec => []GroupGone
<1>1. ExecutorIInv => GroupGone
  BY DEF ExecutorIInv, CallInv, Swept, GroupGone
<1> QED BY <1>1, ExecutorInvariance, PTL

\* A shutdown finds every group that may live: with ExecutorTypeOK, the registration
\* outlives the group.
THEOREM ReachableCorrect == ExecutorSpec => []ReachableAtShutdown
<1>1. ExecutorIInv => ReachableAtShutdown
  BY DEF ExecutorIInv, ExecutorTypeOK, CallInv, Guarded, Swept, Ended, ReachableAtShutdown
<1> QED BY <1>1, ExecutorInvariance, PTL

-----------------------------------------------------------------------------
(***************************************************************************)
(* Theorems about Workspace: for every set of paths and contents, paths    *)
(* nested one level deep and every command, also one that makes links.     *)
(* SyncFacts says what sync_to makes of one path; what is proved of the    *)
(* directory follows path by path.                                         *)
(***************************************************************************)

\* A file collect_changes does not read has the content it is taken to have.
Trusted == \A k \in Keys : IsFile(disk, k) /\ Unchanged(k) => disk[k].blob = synced[k]

\* `synced` has the paths of the directory's files whatever the clock, and their
\* contents if a changed file never keeps its modification time.
InStep ==
  \A k \in Keys :
    /\ synced[k] /= Absent <=> IsFile(disk, k)
    /\ ~SameTick /\ IsFile(disk, k) => disk[k].blob = synced[k]

Tracked == phase = "idle" /\ settled => InStep

WorkspaceIInv == WorkspaceTypeOK /\ Tracked /\ (~SameTick => Trusted)

-----------------------------------------------------------------------------
\* Where no link is, sync_to writes a path, or removes it, or leaves it as it is but
\* for a directory that is made where nothing is.
SyncedAt(k, removed, written) ==
  \/ /\ k \in written
     /\ IsFile(disk', k) /\ disk'[k].blob = head[k] /\ synced'[k] = head[k]
  \/ /\ k \in removed \ written
     /\ disk'[k] \in {Absent, Dir} /\ synced'[k] = Absent
  \/ /\ k \notin removed \cup written
     /\ synced'[k] = synced[k]
     /\ disk'[k] = disk[k] \/ (disk'[k] = Dir /\ ~IsFile(disk, k))

\* A directory is a function on the paths, and a path past a link holds nothing.
LEMMA DirectoryFacts ==
  ASSUME NEW d \in Directory
  PROVE  /\ d = [k \in Keys |-> d[k]] /\ \A k \in Keys : d[k] \in File \cup {Dir, Link, Absent}
         /\ \A k \in Behind(d) : ~IsFile(d, k)
         /\ \A p \in Inside : p[1] \in Keys /\ p[2] \in Keys
<1>1. \A k \in Past(d) : d[k] = Absent
  BY WorkspaceNames DEF Directory, Placed, Past
<1>2. \A k \in Behind(d) : ~IsFile(d, k)
  BY <1>1, WorkspaceNames DEF Behind, IsFile
<1> QED BY <1>2, InsideAssumption DEF Directory

\* A file of the directory, as a record.
LEMMA FileFacts ==
  ASSUME NEW b \in Blobs, NEW t \in BOOLEAN, NEW s \in BOOLEAN
  PROVE  LET f == [blob |-> b, touched |-> t, shared |-> s] IN
         f \in File /\ f.blob = b /\ f.touched = t /\ f /= Absent
  BY WorkspaceNames DEF File

\* What removals leave: a directory, with what they removed gone, what is past a link
\* perhaps, and nothing else changed.
LEMMA RemovedFacts ==
  ASSUME disk \in Directory, NEW removed \in SUBSET Keys,
         \A k \in removed : disk[k] \notin {Absent, Dir} \/ k \in Past(disk),
         NEW d \in Removed(removed)
  PROVE  /\ d \in Directory
         /\ \A k \in Keys : d[k] = Absent \/ (k \notin removed /\ d[k] = disk[k])
         /\ removed \cap Past(disk) = {} =>
              \A k \in Keys : d[k] = IF k \in removed THEN Absent ELSE disk[k]
<1> DEFINE e == [k \in Keys |-> IF k \in removed THEN Absent ELSE disk[k]]
<1>1. d \in IF removed \cap Past(disk) = {} THEN {e}
            ELSE {f \in Directory : \A k \in Keys : f[k] = e[k] \/ (f[k] = Absent /\ e[k] /= Dir)}
  BY DEF Removed
<1>2. \A k \in Keys : e[k] = IF k \in removed THEN Absent ELSE disk[k]
  OBVIOUS
<1>3. CASE removed \cap Past(disk) = {}
  <2>1. d = e
    BY <1>1, <1>3
  <2>2. \A k \in Keys : disk[k] \in File \cup {Dir, Link, Absent}
    BY DirectoryFacts
  <2>3. Placed(d)
    <3> SUFFICES ASSUME NEW p \in Inside, d[p[2]] /= Absent PROVE d[p[1]] = Dir
      BY DEF Placed
    <3>1. p[1] \in Keys /\ p[2] \in Keys
      BY InsideAssumption
    <3>2. disk[p[2]] /= Absent
      BY <1>2, <2>1, <3>1
    <3>3. disk[p[1]] = Dir
      BY <3>2 DEF Directory, Placed
    <3>4. p[1] \notin removed
      BY <1>3, <3>3
    <3> QED BY <1>2, <2>1, <3>1, <3>3, <3>4
  <2>4. d \in [Keys -> File \cup {Dir, Link, Absent}]
    BY <2>1, <2>2
  <2> HIDE DEF e
  <2> QED BY <1>2, <2>1, <2>3, <2>4 DEF Directory
<1>4. CASE removed \cap Past(disk) /= {}
  <2> HIDE DEF e
  <2> QED BY <1>1, <1>2, <1>4
<1> QED BY <1>3, <1>4

\* A directory with the new contents where no link is, and else as before.
NewWhereNoLink(d, written, e) ==
  /\ e \in Directory
  /\ \A k \in Keys :
       \/ /\ k \in written \ Behind(d)
          /\ IsFile(e, k) /\ e[k].blob = head[k]
       \/ /\ k \notin written \ Behind(d)
          /\ e[k] = d[k] \/ (e[k] = Dir /\ d[k] = Absent)

\* What writes leave, before any that landed elsewhere: a directory with the new
\* contents where no link is.
LEMMA WrittenFacts ==
  ASSUME head \in FileMap, NEW d \in Directory, NEW written \in SUBSET Present(head),
         NEW torn \in SUBSET Keys, CanWrite(d, written \cup torn),
         NEW e, e = Written(d, written, written \cup torn)
  PROVE  NewWhereNoLink(d, written, e)
<1> DEFINE new(k) == [blob |-> head[k], touched |-> FALSE, shared |-> k \in Shared(d)]
<1>1. \A k \in written : k \in Keys /\ new(k) \in File /\ new(k).blob = head[k] /\ new(k) /= Absent
  <2> SUFFICES ASSUME NEW k \in written
               PROVE  k \in Keys /\ new(k) \in File /\ new(k).blob = head[k] /\ new(k) /= Absent
    OBVIOUS
  <2>1. k \in Keys /\ head[k] \in Blobs
    BY DEF FileMap, Present
  <2>2. PICK s \in BOOLEAN : s = (k \in Shared(d))
    <3>1. CASE k \in Shared(d)
      <4>1. TRUE = (k \in Shared(d)) /\ TRUE \in BOOLEAN
        BY <3>1, Zenon
      <4> QED BY <4>1, Zenon
    <3>2. CASE k \notin Shared(d)
      <4>1. FALSE = (k \in Shared(d)) /\ FALSE \in BOOLEAN
        BY <3>2
      <4> QED BY <4>1, Zenon
    <3> QED BY <3>1, <3>2
  <2> QED BY <2>1, <2>2, FileFacts
<1>2. \A k \in Keys : e[k] = IF k \in written \ Behind(d) THEN new(k)
                             ELSE IF d[k] = Absent /\ \E p \in Inside : p[1] = k /\ p[2] \in written \cup torn
                             THEN Dir ELSE d[k]
  BY DEF Written
<1> HIDE DEF new
<1>3. /\ \A k \in Keys : d[k] \in File \cup {Dir, Link, Absent}
      /\ \A p \in Inside : p[1] \in Keys /\ p[2] \in Keys
  BY DirectoryFacts
<1>4. e \in [Keys -> File \cup {Dir, Link, Absent}]
  <2>1. \A k \in Keys : e[k] \in File \cup {Dir, Link, Absent}
    BY <1>1, <1>2, <1>3
  <2>2. e = [k \in Keys |-> e[k]]
    BY DEF Written
  <2> QED BY <2>1, <2>2
<1>5. Placed(e)
  <2> SUFFICES ASSUME NEW p \in Inside, e[p[2]] /= Absent PROVE e[p[1]] = Dir
    BY DEF Placed
  <2>1. CASE p[2] \in written \ Behind(d)
    <3>1. d[p[1]] /= Link
      BY <1>3, <2>1 DEF Behind, Past
    <3>2. ~IsFile(d, p[1]) /\ p[1] \notin written
      BY <2>1 DEF CanWrite, Blocked, Clash
    <3>3. d[p[1]] \in {Dir, Absent}
      BY <1>3, <3>1, <3>2 DEF IsFile
    <3> QED BY <1>2, <1>3, <2>1, <3>2, <3>3
  <2>2. CASE p[2] \notin written \ Behind(d)
    <3>1. d[p[2]] /= Absent
      BY <1>2, <1>3, <2>2, InsideAssumption
    <3>2. d[p[1]] = Dir
      BY <3>1 DEF Directory, Placed
    <3>3. p[1] \notin written
      BY <3>2 DEF CanWrite, Blocked
    <3>4. Dir /= Absent
      BY WorkspaceNames
    <3> QED BY <1>2, <1>3, <3>2, <3>3, <3>4
  <2> QED BY <2>1, <2>2
<1>6. \A k \in Keys :
        \/ /\ k \in written \ Behind(d)
           /\ IsFile(e, k) /\ e[k].blob = head[k]
        \/ /\ k \notin written \ Behind(d)
           /\ e[k] = d[k] \/ (e[k] = Dir /\ d[k] = Absent)
  BY <1>1, <1>2 DEF IsFile
<1> QED BY <1>4, <1>5, <1>6 DEF Directory, NewWhereNoLink

\* What else those writes may have changed: files whose modification time tells.
LEMMA OverwrittenFacts ==
  ASSUME NEW e \in Directory, NEW js \in SUBSET Keys, NEW f \in Overwritten(e, js)
  PROVE  /\ f \in Directory
         /\ \A k \in Keys : f[k] = e[k] \/ (k \in js /\ IsFile(f, k) /\ (f[k].touched \/ SameTick))
<1>1. PICK w \in Stray(e, js) : f = Struck(e, w)
  <2>1. f \in {Struck(e, w) : w \in Stray(e, js)}
    BY DEF Overwritten
  <2> QED BY <2>1, Zenon
<1> DEFINE hit == w.hit
           bytes == w.bytes
           stamp == w.kept
<1>w. /\ hit \in SUBSET {j \in js : e[j] \notin {Dir, Link}} /\ bytes \in [js -> Blobs]
      /\ stamp \in [js -> {FALSE, SameTick}]
  BY DEF Stray
<1>2. Placed(f)
  BY DEF Overwritten
<1> DEFINE new(k) == [blob |-> bytes[k], touched |-> ~stamp[k], shared |-> k \in Shared(e)]
<1>3. \A k \in Keys : f[k] = IF k \in hit THEN new(k) ELSE e[k]
  BY <1>1 DEF Struck
<1>4. ASSUME NEW k \in hit PROVE new(k) \in File /\ (new(k).touched \/ SameTick)
  <2>1. bytes[k] \in Blobs /\ stamp[k] \in {FALSE, SameTick}
    BY <1>w
  <2>2. PICK t \in BOOLEAN : t = ~stamp[k]
    BY <2>1, WorkspaceFlags
  <2>3. PICK s \in BOOLEAN : s = (k \in Shared(e))
    <3>1. CASE k \in Shared(e)
      <4>1. TRUE = (k \in Shared(e)) /\ TRUE \in BOOLEAN
        BY <3>1, Zenon
      <4> QED BY <4>1, Zenon
    <3>2. CASE k \notin Shared(e)
      <4>1. FALSE = (k \in Shared(e)) /\ FALSE \in BOOLEAN
        BY <3>2
      <4> QED BY <4>1, Zenon
    <3> QED BY <3>1, <3>2
  <2>4. t \/ SameTick
    <3>1. CASE stamp[k] = FALSE
      BY <2>2, <3>1
    <3>2. CASE stamp[k] = SameTick
      BY <2>2, <3>2
    <3> QED BY <2>1, <3>1, <3>2
  <2>5. new(k) = [blob |-> bytes[k], touched |-> t, shared |-> s]
    BY <2>2, <2>3
  <2> HIDE DEF new
  <2> QED BY <2>1, <2>4, <2>5, FileFacts
<1> HIDE DEF new, hit, bytes, stamp
<1>5. \A k \in Keys : e[k] \in File \cup {Dir, Link, Absent}
  BY DirectoryFacts
<1>6. \A k \in Keys : /\ f[k] \in File \cup {Dir, Link, Absent}
                      /\ f[k] = e[k] \/ (k \in js /\ IsFile(f, k) /\ (f[k].touched \/ SameTick))
  BY <1>3, <1>4, <1>5, <1>w DEF IsFile
<1>7. f \in [Keys -> File \cup {Dir, Link, Absent}]
  <2>1. f = [k \in Keys |-> f[k]]
    BY <1>1 DEF Struck
  <2> QED BY <1>6, <2>1
<1> QED BY <1>2, <1>6, <1>7 DEF Directory

\* The loops of sync_to, also when they stop half way: they keep to the type, a file
\* that is trusted is what it is taken for, and if nothing went astray each path is
\* as SyncedAt says.
LEMMA SyncFacts ==
  ASSUME WorkspaceTypeOK, NEW removed \in SUBSET Keys,
         \A k \in removed : disk[k] \notin {Absent, Dir} \/ k \in Past(disk),
         NEW written \in SUBSET Present(head), NEW torn \in SUBSET Keys,
         Synced(removed, written, torn)
  PROVE  /\ disk' \in Directory /\ synced' \in FileMap /\ settled' \in BOOLEAN
         /\ ~SameTick /\ Trusted => Trusted'
         /\ settled' => settled /\ \A k \in Keys : SyncedAt(k, removed, written)
         /\ /\ settled /\ torn = {} /\ removed \cap Past(disk) = {}
            /\ written \cap (Behind(disk) \cup Shared(disk)) = {}
            => settled'
<1>1. disk \in Directory /\ head \in FileMap /\ synced \in FileMap /\ settled \in BOOLEAN
  BY DEF WorkspaceTypeOK
<1> DEFINE ks == written \cup torn
           astray(d) == Elsewhere(d, ks) \cup torn
<1>2. PICK d \in Removed(removed) :
        /\ CanWrite(d, ks)
        /\ disk' \in Overwritten(Written(d, written, ks), astray(d))
        /\ settled' = (settled /\ astray(d) = {} /\ removed \cap Past(disk) = {})
  BY DEF Synced
<1>3. /\ d \in Directory
      /\ \A k \in Keys : d[k] = Absent \/ (k \notin removed /\ d[k] = disk[k])
      /\ removed \cap Past(disk) = {} =>
           \A k \in Keys : d[k] = IF k \in removed THEN Absent ELSE disk[k]
  BY <1>1, <1>2, RemovedFacts
<1> DEFINE e == Written(d, written, ks)
<1>4. /\ e \in Directory
      /\ \A k \in Keys :
           \/ /\ k \in written \ Behind(d)
              /\ IsFile(e, k) /\ e[k].blob = head[k]
           \/ /\ k \notin written \ Behind(d)
              /\ e[k] = d[k] \/ (e[k] = Dir /\ d[k] = Absent)
  <2>1. CanWrite(d, written \cup torn) /\ e = Written(d, written, written \cup torn)
    BY <1>2
  <2>2. head \in FileMap /\ d \in Directory
    BY <1>1, <1>3
  <2> HIDE DEF e, ks, astray
  <2>3. written \in SUBSET Present(head) /\ torn \in SUBSET Keys
    OBVIOUS
  <2>4. NewWhereNoLink(d, written, e)
    BY <2>1, <2>2, <2>3, WrittenFacts, Zenon
  <2> QED BY <2>4 DEF NewWhereNoLink
<1>5. astray(d) \in SUBSET Keys
  BY DEF Elsewhere
<1>6. /\ disk' \in Directory
      /\ \A k \in Keys : disk'[k] = e[k] \/ (k \in astray(d) /\ IsFile(disk', k)
                                             /\ (disk'[k].touched \/ SameTick))
  <2> HIDE DEF e, astray
  <2>1. disk' \in Overwritten(e, astray(d))
    BY <1>2 DEF e
  <2> QED BY <1>4, <1>5, <2>1, OverwrittenFacts
<1>7. /\ synced' \in FileMap
      /\ \A k \in Keys : synced'[k] = IF k \in written THEN head[k]
                                      ELSE IF k \in removed THEN Absent ELSE synced[k]
  <2>1. synced' = [k \in Keys |-> IF k \in written THEN head[k]
                                  ELSE IF k \in removed THEN Absent ELSE synced[k]]
    BY DEF Synced
  <2> QED BY <1>1, <2>1 DEF FileMap
<1>8. \A k \in Behind(d) : ~IsFile(d, k)
  BY <1>3, DirectoryFacts
<1>9. Absent \notin File /\ Dir \notin File /\ Absent /= Dir
  BY WorkspaceNames
<1> HIDE DEF e, astray, ks
<1>10. ASSUME ~SameTick, Trusted, NEW k \in Keys, IsFile(disk', k), Unchanged(k)'
       PROVE  disk'[k].blob = synced'[k]
  <2>1. disk'[k] = e[k]
    BY <1>6, <1>10 DEF Unchanged
  <2>2. CASE k \in written \ Behind(d)
    BY <1>4, <1>7, <2>1, <2>2
  <2>3. CASE k \notin written \ Behind(d)
    <3>1. disk'[k] = d[k] /\ IsFile(d, k)
      BY <1>4, <1>9, <1>10, <2>1, <2>3 DEF IsFile
    <3>2. k \notin written
      BY <1>8, <2>3, <3>1
    <3>3. d[k] = disk[k] /\ k \notin removed /\ IsFile(disk, k)
      BY <1>3, <1>9, <3>1 DEF IsFile
    <3>4. disk'[k] = disk[k] /\ synced'[k] = synced[k]
      BY <1>7, <3>1, <3>2, <3>3
    <3>5. Unchanged(k)
      BY <1>10, <3>4 DEF Unchanged
    <3> QED BY <1>10, <3>3, <3>4, <3>5 DEF Trusted
  <2> QED BY <2>2, <2>3
<1>11. ASSUME settled' PROVE settled /\ \A k \in Keys : SyncedAt(k, removed, written)
  <2>1. settled /\ astray(d) = {} /\ removed \cap Past(disk) = {}
    BY <1>2, <1>11
  <2>2. ASSUME NEW k \in written, k \in Behind(d) PROVE FALSE
    <3>1. k \in Keys
      BY DEF Present
    <3>2. k \in Elsewhere(d, ks)
      BY <2>2, <3>1 DEF Elsewhere, ks
    <3> QED BY <2>1, <3>2 DEF astray
  <2>3. ASSUME NEW k \in Keys PROVE SyncedAt(k, removed, written)
    <3>1. disk'[k] = e[k]
      BY <1>6, <2>1
    <3>2. d[k] = IF k \in removed THEN Absent ELSE disk[k]
      BY <1>3, <2>1
    <3>3. CASE k \in written
      <4>1. IsFile(e, k) /\ e[k].blob = head[k]
        BY <1>4, <2>2, <3>3
      <4> QED BY <1>7, <3>1, <3>3, <4>1 DEF SyncedAt, IsFile
    <3>4. CASE k \notin written
      <4>1. e[k] = d[k] \/ (e[k] = Dir /\ d[k] = Absent)
        BY <1>4, <3>4
      <4> QED BY <1>7, <1>9, <3>1, <3>2, <3>4, <4>1 DEF SyncedAt, IsFile
    <3> QED BY <3>3, <3>4
  <2> QED BY <2>1, <2>3
<1>12. ASSUME settled, torn = {}, removed \cap Past(disk) = {},
              written \cap (Behind(disk) \cup Shared(disk)) = {}
       PROVE  settled'
  <2>1. \A k \in Keys : d[k] = Absent \/ d[k] = disk[k]
    BY <1>3
  <2>2. Behind(d) \subseteq Behind(disk) /\ Shared(d) \subseteq Shared(disk)
    BY <2>1, InsideAssumption, WorkspaceNames DEF Behind, Past, Shared, IsFile
  <2>3. Elsewhere(d, ks) = {}
    BY <1>12, <2>2 DEF Elsewhere, ks
  <2> QED BY <1>2, <1>12, <2>3 DEF astray
<1>13. settled' \in BOOLEAN
  BY <1>2
<1>14. ~SameTick /\ Trusted => Trusted'
  BY <1>10 DEF Trusted, IsFile
<1> QED BY <1>6, <1>7, <1>11, <1>12, <1>13, <1>14

\* What SyncedAt says of each path keeps `synced` in step with the directory.
LEMMA SyncKeepsInStep ==
  ASSUME WorkspaceTypeOK, NEW removed, NEW written \in SUBSET Present(head),
         \A k \in Keys : SyncedAt(k, removed, written)
  PROVE  InStep => InStep'
<1>1. \A k \in written : head[k] \in Blobs /\ head[k] /= Absent
  BY DEF WorkspaceTypeOK, FileMap, Present
<1>2. Absent \notin File /\ Dir \notin File
  BY WorkspaceNames
<1>3. ASSUME InStep, NEW k \in Keys
      PROVE  /\ synced'[k] /= Absent <=> IsFile(disk', k)
             /\ ~SameTick /\ IsFile(disk', k) => disk'[k].blob = synced'[k]
  BY <1>1, <1>2, <1>3 DEF InStep, SyncedAt, IsFile
<1> QED BY <1>3 DEF InStep, IsFile

\* A settled directory has a file at every path that is to go: nothing of it is past
\* a link, gone, or a directory.
LEMMA SettledStale ==
  ASSUME WorkspaceIInv, phase = "idle", settled
  PROVE  Unremovable = {} /\ Stale \cap Past(disk) = {} /\ \A k \in Stale : IsFile(disk, k)
<1>1. \A k \in Stale : k \in Keys /\ IsFile(disk, k)
  BY DEF WorkspaceIInv, Tracked, InStep, Stale
<1>2. Stale \cap Past(disk) = {}
  BY <1>1, DirectoryFacts DEF WorkspaceIInv, WorkspaceTypeOK, Behind
<1>3. Unremovable = {}
  BY <1>1, WorkspaceNames DEF Unremovable, IsFile
<1> QED BY <1>1, <1>2, <1>3

\* What collect_changes reads is what is there, as to contents when the clock is
\* fine, as to which paths are files in any case.
LEMMA CollectedFacts ==
  ASSUME WorkspaceIInv
  PROVE  /\ Collected \in FileMap
         /\ \A k \in Keys : /\ Collected[k] /= Absent <=> IsFile(disk, k)
                            /\ ~SameTick /\ IsFile(disk, k) => Collected[k] = disk[k].blob
<1>1. ASSUME NEW k \in Keys
      PROVE  /\ Collected[k] \in Blobs \cup {Absent}
             /\ Collected[k] /= Absent <=> IsFile(disk, k)
             /\ ~SameTick /\ IsFile(disk, k) => Collected[k] = disk[k].blob
  <2>1. Collected[k] = IF ~IsFile(disk, k) THEN Absent
                       ELSE IF Unchanged(k) THEN synced[k] ELSE disk[k].blob
    BY DEF Collected
  <2>2. /\ synced[k] \in Blobs \cup {Absent}
        /\ Unchanged(k) => synced[k] /= Absent
        /\ IsFile(disk, k) => disk[k].blob \in Blobs
    BY DEF WorkspaceIInv, WorkspaceTypeOK, FileMap, Unchanged, IsFile, File
  <2>3. ~SameTick /\ IsFile(disk, k) /\ Unchanged(k) => disk[k].blob = synced[k]
    BY DEF WorkspaceIInv, Trusted
  <2> QED BY <2>1, <2>2, <2>3, WorkspaceNames
<1>2. Collected \in FileMap
  BY <1>1 DEF Collected, FileMap
<1> QED BY <1>1, <1>2

-----------------------------------------------------------------------------
\* What each kind of sync has removed and written, in the terms of SyncFacts.
LEMMA SyncKinds ==
  ASSUME WorkspaceIInv, StartBash \/ RemoveFails \/ WriteFails
  PROVE  \E removed \in SUBSET Stale, written \in SUBSET Present(head), torn \in SUBSET Keys :
           /\ \A k \in removed : disk[k] \notin {Absent, Dir} \/ k \in Past(disk)
           /\ Synced(removed, written, torn)
           /\ StartBash => /\ removed = Stale /\ torn = {}
                           /\ \A k \in Present(head) \ written : synced[k] = head[k]
<1>1. \A k \in Stale \ Unremovable : disk[k] \notin {Absent, Dir} \/ k \in Past(disk)
  BY DEF Unremovable
<1>2. CASE StartBash
  <2>1. PICK skipped \in SUBSET MayBeSkipped : Synced(Stale, Present(head) \ skipped, {})
    BY <1>2 DEF StartBash
  <2>2. Unremovable = {}
    BY <1>2 DEF StartBash
  <2>3. \A k \in Present(head) \ (Present(head) \ skipped) : synced[k] = head[k]
    BY DEF MayBeSkipped
  <2> QED BY <1>1, <2>1, <2>2, <2>3
<1>3. CASE RemoveFails
  <2>1. PICK removed \in SUBSET (Stale \ Unremovable) : removed /= Stale /\ Synced(removed, {}, {})
    BY <1>3 DEF RemoveFails
  <2>2. ~StartBash
    BY <1>3 DEF RemoveFails, StartBash, WorkspaceIInv, WorkspaceTypeOK
  <2> QED BY <1>1, <2>1, <2>2
<1>4. CASE WriteFails
  <2>1. \E written \in SUBSET Present(head), k \in Present(head), torn \in SUBSET Keys :
          torn \in SUBSET {k} /\ Synced(Stale, written, torn)
    BY <1>4 DEF WriteFails, Present
  <2>2. Unremovable = {}
    BY <1>4 DEF WriteFails
  <2>3. ~StartBash
    BY <1>4 DEF WriteFails, StartBash, WorkspaceIInv, WorkspaceTypeOK
  <2> QED BY <1>1, <2>1, <2>2, <2>3
<1> QED BY <1>2, <1>3, <1>4

\* A sync keeps the invariant, whether it fails half way or a command starts.
LEMMA SyncKeepsIInv ==
  ASSUME WorkspaceIInv, StartBash \/ RemoveFails \/ WriteFails
  PROVE  WorkspaceIInv'
<1>1. PICK removed \in SUBSET Stale, written \in SUBSET Present(head), torn \in SUBSET Keys :
        /\ \A k \in removed : disk[k] \notin {Absent, Dir} \/ k \in Past(disk)
        /\ Synced(removed, written, torn)
  BY SyncKinds
<1>2. removed \in SUBSET Keys
  BY <1>1 DEF Stale
<1>3. /\ disk' \in Directory /\ synced' \in FileMap /\ settled' \in BOOLEAN
      /\ ~SameTick /\ Trusted => Trusted'
      /\ settled' => settled /\ \A k \in Keys : SyncedAt(k, removed, written)
  BY <1>1, <1>2, SyncFacts DEF WorkspaceIInv
<1>4. phase = "idle" /\ phase' \in {"idle", "running"} /\ UNCHANGED head
  BY DEF StartBash, RemoveFails, WriteFails
<1>5. WorkspaceTypeOK'
  BY <1>3, <1>4 DEF WorkspaceIInv, WorkspaceTypeOK
<1>6. ASSUME settled' PROVE InStep'
  BY <1>1, <1>3, <1>4, <1>6, SyncKeepsInStep DEF WorkspaceIInv, Tracked
<1> QED BY <1>3, <1>5, <1>6 DEF WorkspaceIInv, Tracked

\* The command keeps it: what it writes is newer, and is read.
LEMMA CommandKeepsDirectory ==
  ASSUME WorkspaceIInv, Command
  PROVE  WorkspaceIInv'
<1>1. /\ disk' \in Directory
      /\ \A k \in Keys : IsFile(disk', k) /\ ~disk'[k].touched /\ ~SameTick =>
                           IsFile(disk, k) /\ disk'[k].blob = disk[k].blob /\ ~disk[k].touched
  BY DEF Command, Reachable
<1>2. phase' = "ended" /\ UNCHANGED <<head, synced, settled>>
  BY DEF Command
<1>3. ~SameTick => Trusted'
  BY <1>1, <1>2 DEF WorkspaceIInv, Trusted, Unchanged, IsFile
<1> QED BY <1>1, <1>2, <1>3 DEF WorkspaceIInv, WorkspaceTypeOK, Tracked

\* Reading some of the files, or all, changes only what is recorded of their times.
LEMMA ReadFacts ==
  ASSUME WorkspaceIInv, NEW met \in SUBSET {k \in Keys : IsFile(disk, k)},
         NEW e, e = [k \in Keys |-> IF k \in met THEN [disk[k] EXCEPT !.touched = FALSE]
                                    ELSE disk[k]]
  PROVE  /\ e \in Directory
         /\ \A k \in Keys : /\ IsFile(e, k) <=> IsFile(disk, k)
                            /\ IsFile(disk, k) => e[k].blob = disk[k].blob
                            /\ k \notin met => e[k] = disk[k]
<1>1. disk \in Directory
  BY DEF WorkspaceIInv, WorkspaceTypeOK
<1>2. /\ \A k \in Keys : disk[k] \in File \cup {Dir, Link, Absent}
      /\ \A p \in Inside : p[1] \in Keys /\ p[2] \in Keys
  BY <1>1, DirectoryFacts
<1>3. ASSUME NEW k \in Keys
      PROVE  /\ IsFile(e, k) <=> IsFile(disk, k)
             /\ IsFile(disk, k) => e[k].blob = disk[k].blob
             /\ k \notin met => e[k] = disk[k]
             /\ ~IsFile(disk, k) => e[k] = disk[k]
             /\ e[k] \in File \cup {Dir, Link, Absent}
  BY <1>2 DEF IsFile, File
<1>4. e \in [Keys -> File \cup {Dir, Link, Absent}]
  BY <1>3
<1>5. Placed(e)
  BY <1>1, <1>2, <1>3, WorkspaceNames DEF Directory, Placed, IsFile
<1> QED BY <1>3, <1>4, <1>5 DEF Directory

\* The end of a command keeps the invariant, whether or not its files become a
\* checkpoint, and also when they cannot be read.
LEMMA CollectKeepsIInv ==
  ASSUME WorkspaceIInv, BashRecorded \/ BashRefused \/ CollectFails
  PROVE  WorkspaceIInv'
<1> DEFINE files == {k \in Keys : IsFile(disk, k)}
<1>1. PICK met \in SUBSET files :
        /\ disk' = [k \in Keys |-> IF k \in met THEN [disk[k] EXCEPT !.touched = FALSE]
                                   ELSE disk[k]]
        /\ \A k \in Keys : synced'[k] = IF k \in met THEN Collected[k]
                                        ELSE IF settled' THEN Absent ELSE synced[k]
        /\ synced' = [k \in Keys |-> synced'[k]]
        /\ settled' => met = files
        /\ settled' \in BOOLEAN /\ phase' = "idle" /\ head' \in {head, Collected}
  <2>1. CASE CollectFails
    BY <2>1 DEF CollectFails
  <2>2. CASE BashRecorded \/ BashRefused
    <3>1. /\ synced' = Collected /\ settled' = TRUE /\ phase' = "idle" /\ head' \in {head, Collected}
          /\ disk' = [k \in Keys |-> IF IsFile(disk, k) THEN [disk[k] EXCEPT !.touched = FALSE]
                                                        ELSE disk[k]]
      BY <2>2 DEF BashRecorded, BashRefused, Collect
    <3>2. \A k \in Keys : IsFile(disk, k) <=> k \in files
      OBVIOUS
    <3>3. disk' = [k \in Keys |-> IF k \in files THEN [disk[k] EXCEPT !.touched = FALSE]
                                  ELSE disk[k]]
      BY <3>1, <3>2
    <3>4. \A k \in Keys : k \notin files => Collected[k] = Absent
      BY <3>2 DEF Collected
    <3>5. Collected = [k \in Keys |-> Collected[k]]
      BY DEF Collected
    <3> HIDE DEF files
    <3> QED BY <3>1, <3>3, <3>4, <3>5
  <2> QED BY <2>1, <2>2
<1>2. /\ Collected \in FileMap
      /\ \A k \in Keys : /\ Collected[k] /= Absent <=> IsFile(disk, k)
                         /\ ~SameTick /\ IsFile(disk, k) => Collected[k] = disk[k].blob
  BY CollectedFacts
<1>3. /\ disk' \in Directory
      /\ \A k \in Keys : /\ IsFile(disk', k) <=> IsFile(disk, k)
                         /\ IsFile(disk, k) => disk'[k].blob = disk[k].blob
                         /\ k \notin met => disk'[k] = disk[k]
  BY <1>1, ReadFacts
<1>4. WorkspaceTypeOK'
  <2>1. \A k \in Keys : synced'[k] \in Blobs \cup {Absent}
    BY <1>1, <1>2 DEF FileMap, WorkspaceIInv, WorkspaceTypeOK
  <2>2. synced' \in FileMap
    BY <1>1, <2>1 DEF FileMap
  <2> QED BY <1>1, <1>2, <1>3, <2>2 DEF WorkspaceIInv, WorkspaceTypeOK
<1>5. Tracked'
  BY <1>1, <1>2, <1>3 DEF Tracked, InStep, IsFile
<1>6. ASSUME ~SameTick, NEW k \in Keys, IsFile(disk', k), Unchanged(k)'
      PROVE  disk'[k].blob = synced'[k]
  <2>1. CASE k \in met
    BY <1>1, <1>2, <1>3, <1>6, <2>1
  <2>2. CASE k \notin met
    <3>1. disk'[k] = disk[k] /\ IsFile(disk, k) /\ ~settled'
      BY <1>1, <1>3, <1>6, <2>2
    <3>2. synced'[k] = synced[k]
      BY <1>1, <2>2, <3>1
    <3>3. Unchanged(k)
      BY <1>6, <3>1, <3>2 DEF Unchanged
    <3> QED BY <1>6, <3>1, <3>2, <3>3 DEF WorkspaceIInv, Trusted
  <2> QED BY <2>1, <2>2
<1>7. ~SameTick => Trusted'
  BY <1>6 DEF Trusted, IsFile
<1> QED BY <1>4, <1>5, <1>7 DEF WorkspaceIInv

\* The inductive invariant of the directory and of what is remembered of it.
THEOREM WorkspaceInvariance == WorkspaceSpec => []WorkspaceIInv
<1>1. WorkspaceInit => WorkspaceIInv
  BY WorkspaceNames, InsideAssumption
  DEF WorkspaceInit, WorkspaceIInv, WorkspaceTypeOK, Tracked, InStep, Trusted, Directory, Placed,
      IsFile, FileMap
<1>2. WorkspaceIInv /\ [WorkspaceNext]_workspaceVars => WorkspaceIInv'
  <2> SUFFICES ASSUME WorkspaceIInv, [WorkspaceNext]_workspaceVars PROVE WorkspaceIInv'
    OBVIOUS
  <2>1. CASE BashTimesOut
    BY <2>1 DEF BashTimesOut, WorkspaceIInv, WorkspaceTypeOK, Tracked, InStep, Trusted, Unchanged
  <2>2. CASE OtherCall
    BY <2>2 DEF OtherCall, WorkspaceIInv, WorkspaceTypeOK, Tracked, InStep, Trusted, Unchanged
  <2>3. CASE UNCHANGED workspaceVars
    BY <2>3 DEF workspaceVars, WorkspaceIInv, WorkspaceTypeOK, Tracked, InStep, Trusted, Unchanged
  <2> QED
    BY <2>1, <2>2, <2>3, SyncKeepsIInv, CommandKeepsDirectory, CollectKeepsIInv
    DEF WorkspaceNext
<1> QED BY <1>1, <1>2, PTL DEF WorkspaceSpec

\* Between commands `synced` is what the directory holds, unless a changed file can
\* keep its modification time: sync_to trusts the time collect_changes recorded.
THEOREM TracksDiskCorrect ==
  ASSUME ~SameTick
  PROVE  WorkspaceSpec => []TracksDisk
<1>1. WorkspaceIInv => TracksDisk
  <2> SUFFICES ASSUME WorkspaceIInv, phase = "idle", settled
               PROVE  FilesOn(disk) = synced
    BY DEF WorkspaceIInv, TracksDisk
  <2>1. \A k \in Keys : FilesOn(disk)[k] = synced[k]
    BY DEF WorkspaceIInv, Tracked, InStep, FilesOn
  <2> QED BY <2>1 DEF FilesOn, WorkspaceIInv, WorkspaceTypeOK, FileMap
<1> QED BY <1>1, WorkspaceInvariance, PTL

\* No link is on the way to a file of the checkpoint, and none has another name.
Unlinked == Present(head) \cap (Behind(disk) \cup Shared(disk)) = {}

\* Which paths are files after the sync of a settled directory, whatever the clock.
LEMMA StartMirrors ==
  ASSUME WorkspaceIInv, settled, StartBash, Unlinked, NEW k \in Keys
  PROVE  /\ IsFile(disk', k) <=> head[k] /= Absent
         /\ ~SameTick /\ IsFile(disk', k) => disk'[k].blob = head[k]
<1>1. PICK removed \in SUBSET Stale, written \in SUBSET Present(head), torn \in SUBSET Keys :
        /\ \A j \in removed : disk[j] \notin {Absent, Dir} \/ j \in Past(disk)
        /\ Synced(removed, written, torn)
        /\ StartBash => /\ removed = Stale /\ torn = {}
                        /\ \A j \in Present(head) \ written : synced[j] = head[j]
  BY SyncKinds
<1>2. removed = Stale /\ torn = {} /\ \A j \in Present(head) \ written : synced[j] = head[j]
  BY <1>1
<1>3. phase = "idle"
  BY DEF StartBash
<1>4. Stale \cap Past(disk) = {}
  BY <1>3, SettledStale
<1>5. written \cap (Behind(disk) \cup Shared(disk)) = {}
  BY DEF Unlinked
<1>6. removed \in SUBSET Keys /\ WorkspaceTypeOK
  BY <1>1 DEF Stale, WorkspaceIInv
<1>7. /\ settled' => \A j \in Keys : SyncedAt(j, removed, written)
      /\ settled'
  BY <1>1, <1>2, <1>4, <1>5, <1>6, SyncFacts
<1>8. InStep'
  BY <1>3, <1>6, <1>7, SyncKeepsInStep DEF WorkspaceIInv, Tracked
<1>9. synced'[k] = head[k]
  BY <1>2, <1>7 DEF SyncedAt, Stale, Present
<1> QED BY <1>8, <1>9 DEF InStep, IsFile

\* A command starts on exactly the files of the current checkpoint, unless an
\* earlier command made a link where one of them is.
THEOREM MirrorsHeadCorrect ==
  ASSUME ~SameTick
  PROVE  WorkspaceSpec => MirrorsHead
<1>1. ASSUME WorkspaceIInv, settled, StartBash, Unlinked PROVE FilesOn(disk') = head
  <2>1. \A k \in Keys : FilesOn(disk')[k] = head[k]
    BY <1>1, StartMirrors DEF FilesOn
  <2> QED BY <1>1, <2>1 DEF FilesOn, WorkspaceIInv, WorkspaceTypeOK, FileMap
<1>2. WorkspaceIInv /\ [WorkspaceNext]_workspaceVars =>
        [StartBash /\ settled /\ Unlinked => FilesOn(disk') = head]_workspaceVars
  BY <1>1
<1> QED BY <1>2, WorkspaceInvariance, PTL DEF WorkspaceSpec, MirrorsHead, Unlinked

\* With a clock so coarse that a changed file may keep its time, a command still
\* starts with the right paths, and a removal in a settled directory meets a file.
THEOREM PathsMirrorHead ==
  WorkspaceSpec => [][ /\ StartBash /\ settled /\ Unlinked =>
                            Present(FilesOn(disk')) = Present(head)
                       /\ phase = "idle" /\ settled => Unremovable = {} ]_workspaceVars
<1>1. ASSUME WorkspaceIInv, settled, StartBash, Unlinked
      PROVE  Present(FilesOn(disk')) = Present(head)
  <2>1. \A k \in Keys : FilesOn(disk')[k] /= Absent <=> head[k] /= Absent
    <3> SUFFICES ASSUME NEW k \in Keys
                 PROVE  FilesOn(disk')[k] /= Absent <=> IsFile(disk', k)
      BY <1>1, StartMirrors
    <3>1. IsFile(disk', k) => disk'[k].blob /= Absent
      BY WorkspaceNames DEF IsFile, File
    <3> QED BY <3>1 DEF FilesOn
  <2> QED BY <2>1 DEF Present
<1>2. WorkspaceIInv /\ phase = "idle" /\ settled => Unremovable = {}
  BY SettledStale
<1>3. WorkspaceIInv /\ [WorkspaceNext]_workspaceVars =>
        [ /\ StartBash /\ settled /\ Unlinked => Present(FilesOn(disk')) = Present(head)
          /\ phase = "idle" /\ settled => Unremovable = {} ]_workspaceVars
  BY <1>1, <1>2
<1> QED BY <1>3, WorkspaceInvariance, PTL DEF WorkspaceSpec

\* A checkpoint made by a command holds exactly the files the command left.
THEOREM RecordsDiskCorrect ==
  ASSUME ~SameTick
  PROVE  WorkspaceSpec => RecordsDisk
<1>1. ASSUME WorkspaceIInv, BashRecorded PROVE head' = FilesOn(disk)
  <2>1. \A k \in Keys : Collected[k] = FilesOn(disk)[k]
    BY <1>1, CollectedFacts DEF FilesOn
  <2>2. Collected = FilesOn(disk)
    BY <2>1 DEF FilesOn, Collected
  <2> QED BY <1>1, <2>2 DEF BashRecorded
<1>2. WorkspaceIInv /\ [WorkspaceNext]_workspaceVars => [BashRecorded => head' = FilesOn(disk)]_workspaceVars
  BY <1>1
<1> QED BY <1>2, WorkspaceInvariance, PTL DEF WorkspaceSpec, RecordsDisk
=============================================================================
