----------------------- MODULE NativeRecording_proofs -----------------------
(***************************************************************************)
(* Proofs about NativeRecording, for any rooms, agents and handlers, any   *)
(* interleaving (Serial is not assumed) and any bounds: type correctness,  *)
(* one row of the recordings table per recording, and that S3 is asked to  *)
(* complete an upload only when its worker is gone.                        *)
(*                                                                         *)
(* OneRowPerRecording is not inductive.  That a second stop does not save  *)
(* the recording again rests on the row: a recording is named by one room  *)
(* at most, is never named again once it is saved, and a start that is     *)
(* about to commit holds a recording nobody else knows.  That a saved      *)
(* recording keeps its audio rests on the workers: one that runs has a     *)
(* handle and has not written its object yet.                              *)
(***************************************************************************)
EXTENDS NativeRecording, TLAPS

StartSteps == {"peek", "lock", "pick", "join", "spawn", "commit"}
WithAgent == {"join", "spawn", "commit"}
WithRec == {"commit", "signal", "wait", "collide", "recover", "release", "update"}
WithUrl == {"release", "update", "upstream", "status"}

\* What a handler holds at each of its steps.
ReqOK(i) ==
    /\ req[i].rec <= nrec
    /\ req[i].op = "start" => req[i].at \in StartSteps
    /\ req[i].at \in WithAgent => req[i].agent # None
    /\ req[i].at \in WithRec => req[i].rec # 0
    /\ req[i].url => req[i].at \in WithUrl

Holds == \A i \in Handlers : ~Idle(i) => ReqOK(i)

\* Nothing is known of a recording that was not started.
Fresh ==
    /\ \A r \in Recs : r > nrec => worker[r] = "none" /\ s3[r] = "none" /\ saved[r] = 0
    /\ \A rm \in Rooms : row[rm].rec <= nrec

\* A worker that runs has a handle and its upload is not complete.
RunningOK == \A r \in Recs : worker[r] = "running" => r \in active /\ s3[r] # "object"

\* A recording is named by one room, and by none once it is saved.
NamedOnce ==
    /\ \A a \in Rooms, b \in Rooms : row[a].rec # 0 /\ row[a].rec = row[b].rec => a = b
    /\ \A r \in Recs, rm \in Rooms : saved[r] # 0 => row[rm].rec # r

Committing(i) == ~Idle(i) /\ req[i].at = "commit"

\* A start that is about to commit holds a recording nobody else knows.
CommitOK ==
    \A i \in Handlers : Committing(i) =>
        /\ saved[req[i].rec] = 0
        /\ \A rm \in Rooms : row[rm].rec # req[i].rec
        /\ \A k \in Handlers : k # i /\ Committing(k) => req[k].rec # req[i].rec

\* A handler that has a URL has it from an object in S3.
UrlOK ==
    \A i \in Handlers : ~Idle(i) /\ req[i].url => req[i].rec \in Recs /\ s3[req[i].rec] = "object"

IInv ==
    /\ TypeOK
    /\ Holds /\ Fresh /\ RunningOK /\ NamedOnce /\ CommitOK /\ UrlOK
    /\ RecoverOnlyGone /\ OneRowPerRecording

\* Init establishes the invariant.
LEMMA InitIInv == Init => IInv
  BY ConstantsAssumption
  DEF Init, IInv, TypeOK, Recs, Row, Holds, Idle, Fresh, RunningOK, NamedOnce, CommitOK,
      Committing, UrlOK, RecoverOnlyGone, Stopping, OneRowPerRecording
-----------------------------------------------------------------------------
(* Steps that only move a handler on. *)

\* What holds of the handler that took the step.
Moved(i) ==
    ~Idle(i)' =>
        /\ ReqOK(i)'
        /\ req'[i].at # "commit"
        /\ req'[i].url => ~Idle(i) /\ req[i].url /\ req'[i].rec = req[i].rec
        /\ req'[i].at = "recover" => worker[req'[i].rec] # "running"

\* A step that leaves recordings alone and moves one handler to a step it may
\* be at preserves the invariant.
LEMMA HandlerFrame ==
  ASSUME IInv, TypeOK', NEW i \in Handlers, Moved(i),
         \A rm \in Rooms : row'[rm].rec = row[rm].rec,
         UNCHANGED <<saved, active, worker, s3, nrec>>,
         \A k \in Handlers : k # i => req'[k] = req[k]
  PROVE  IInv'
<1>1. Holds'
  BY DEF IInv, Holds, Idle, ReqOK, Moved
<1>2. Fresh' /\ RunningOK' /\ NamedOnce' /\ OneRowPerRecording'
  BY DEF IInv, Fresh, RunningOK, NamedOnce, OneRowPerRecording
<1>3. CommitOK'
  BY DEF IInv, CommitOK, Committing, Idle, Moved
<1>4. UrlOK'
  BY DEF IInv, UrlOK, Idle, Moved
<1>5. RecoverOnlyGone'
  BY DEF IInv, RecoverOnlyGone, Stopping, Idle, Moved
<1> QED BY <1>1, <1>2, <1>3, <1>4, <1>5 DEF IInv

\* A change of status keeps the row and what it names.
LEMMA EndedRow ==
  ASSUME TypeOK, NEW rm \in Rooms
  PROVE  LET new == [row EXCEPT ![rm].status = "ended"]
         IN  new \in [Rooms -> Row] /\ \A x \in Rooms : new[x].rec = row[x].rec
  BY DEF TypeOK, Row

\* A row that is given a recording and an agent is a row.
LEMMA NamedRow ==
  ASSUME NEW w \in Row, NEW r \in Recs, NEW a \in Agents
  PROVE  [w EXCEPT !.rec = r, !.agent = a] \in Row
<1> DEFINE new == [w EXCEPT !.rec = r, !.agent = a]
<1>0. w \in [status : {"active", "ended"}, rec : 0..MaxReq, agent : Agents \cup {None}]
  BY DEF Row
<1>1. /\ new.rec = r /\ new.agent = a
      /\ new \in [status : {"active", "ended"}, rec : 0..MaxReq, agent : Agents \cup {None}]
  <2>1. r \in 0..MaxReq /\ a \in Agents \cup {None}
    BY ConstantsAssumption DEF Recs
  <2>2. new \in [status : {"active", "ended"}, rec : 0..MaxReq, agent : Agents \cup {None}]
    BY <1>0, <2>1
  <2>3. new.rec = r /\ new.agent = a
    BY <1>0
  <2> QED BY <2>2, <2>3
<1>2. r # 0 /\ a # None
  BY ConstantsAssumption DEF Recs
<1> HIDE DEF new
<1>3. new \in Row
  BY <1>1, <1>2 DEF Row
<1> QED BY <1>3 DEF new

\* A row that is cleared is a row.
LEMMA ClearedRow ==
  ASSUME NEW w \in Row
  PROVE  Cleared(w) \in Row /\ Cleared(w).rec = 0
<1>1. w \in [status : {"active", "ended"}, rec : 0..MaxReq, agent : Agents \cup {None}]
  BY DEF Row
<1>2. 0 \in 0..MaxReq /\ None \in Agents \cup {None}
  BY ConstantsAssumption
<1>3. Cleared(w) \in [status : {"active", "ended"}, rec : 0..MaxReq, agent : Agents \cup {None}]
  BY <1>1, <1>2 DEF Cleared
<1>4. Cleared(w).rec = 0 /\ Cleared(w).agent = None
  BY <1>1 DEF Cleared
<1> QED BY <1>3, <1>4 DEF Row

\* A request that begins holds what its row names.
LEMMA LoadMoves ==
  ASSUME IInv, NEW i \in Handlers, NEW op \in Ops, NEW rm \in Rooms, NEW step \in Steps,
         Load(i, op, rm, step), nrec' = nrec,
         step \notin WithAgent, step # "recover",
         step \in WithRec => row[rm].rec # 0,
         op = "start" => step \in StartSteps
  PROVE  /\ Moved(i)
         /\ req' \in [Handlers -> Request \cup {None}]
         /\ \A k \in Handlers : k # i => req'[k] = req[k]
<1> DEFINE q == [op |-> op, room |-> rm, at |-> step, rec |-> row[rm].rec,
                 agent |-> row[rm].agent, url |-> FALSE]
<1>1. req' = [req EXCEPT ![i] = q]
  BY DEF Load
<1>2. row[rm] \in Row /\ row[rm].rec <= nrec
  BY DEF IInv, TypeOK, Fresh
<1>3. q \in Request
  BY <1>2 DEF Row, Request
<1>4. req'[i] = q
  BY <1>1 DEF IInv, TypeOK
<1>5. ReqOK(i)'
  BY <1>2, <1>4 DEF ReqOK, WithAgent, WithRec
<1>6. Moved(i)
  BY <1>4, <1>5 DEF Moved, WithAgent, WithRec
<1> QED BY <1>1, <1>3, <1>6 DEF IInv, TypeOK

\* A handler that goes on keeps what it holds.
LEMMA GotoMoves ==
  ASSUME IInv, NEW i \in Handlers, NEW step \in Steps, Goto(i, step), ~Idle(i),
         nrec' = nrec, step # "commit",
         req[i].op = "start" => step \in StartSteps,
         step \in WithAgent => req[i].agent # None,
         step \in WithRec => req[i].rec # 0,
         req[i].url => step \in WithUrl,
         step = "recover" => worker[req[i].rec] # "running"
  PROVE  /\ Moved(i)
         /\ req' \in [Handlers -> Request \cup {None}]
         /\ \A k \in Handlers : k # i => req'[k] = req[k]
<1>1. req[i] \in Request /\ ReqOK(i)
  BY DEF IInv, TypeOK, Holds, Idle
<1>2. req' = [req EXCEPT ![i] = [req[i] EXCEPT !.at = step]]
  BY DEF Goto
<1>3. [req[i] EXCEPT !.at = step] \in Request
  BY <1>1 DEF Request
<1>4. /\ req'[i].at = step
      /\ req'[i].op = req[i].op /\ req'[i].rec = req[i].rec
      /\ req'[i].agent = req[i].agent /\ req'[i].url = req[i].url
  BY <1>1, <1>2 DEF IInv, TypeOK, Request
<1>5. Moved(i)
  BY <1>1, <1>4 DEF Moved, ReqOK
<1> QED BY <1>2, <1>3, <1>5 DEF IInv, TypeOK

LEMMA FinishMoves ==
  ASSUME IInv, NEW i \in Handlers, Finish(i)
  PROVE  /\ Moved(i)
         /\ req' \in [Handlers -> Request \cup {None}]
         /\ \A k \in Handlers : k # i => req'[k] = req[k]
  BY DEF IInv, TypeOK, Finish, Moved, Idle

\* The steps that only move a handler on.
LEMMA BeginIInv ==
  ASSUME IInv, NEW i \in Slots, NEW rm \in Rooms,
         StartBegin(i, rm) \/ StopBegin(i, rm) \/ EndBegin(i, rm)
  PROVE  IInv'
<1>1. /\ UNCHANGED <<dbVars, upstream, busy, workerVars, fails, crashes>>
      /\ reqs' \in 0..MaxReq
      /\ \E op \in Ops, step \in Steps :
            /\ Load(i, op, rm, step)
            /\ step \notin WithAgent /\ step # "recover"
            /\ step \in WithRec => row[rm].rec # 0
            /\ op = "start" => step \in StartSteps
  BY ConstantsAssumption
  DEF StartBegin, StopBegin, EndBegin, Begin, IInv, TypeOK, Ops, Steps, WithAgent,
      WithRec, StartSteps
<1>2. i \in Handlers
  BY DEF Handlers
<1>3. nrec' = nrec
  BY <1>1 DEF workerVars
<1>4. /\ Moved(i)
      /\ req' \in [Handlers -> Request \cup {None}]
      /\ \A k \in Handlers : k # i => req'[k] = req[k]
  BY <1>1, <1>2, <1>3, LoadMoves
<1>5. TypeOK'
  BY <1>1, <1>4 DEF IInv, TypeOK, dbVars, workerVars
<1> QED BY <1>1, <1>2, <1>4, <1>5, HandlerFrame DEF dbVars, workerVars

LEMMA DropIInv ==
  ASSUME IInv, (\E rm \in Rooms : DropBegin(rm)) \/ DropPeek
  PROVE  IInv'
<1> DEFINE i == Reconciler
<1>1. i \in Handlers
  BY DEF Handlers
<1>2. UNCHANGED <<dbVars, upstream, busy, workerVars, counters>> /\ fails' \in 0..MaxFail
  BY ConstantsAssumption DEF DropBegin, DropPeek, IInv, TypeOK, Fail
<1>3. /\ Moved(i)
      /\ req' \in [Handlers -> Request \cup {None}]
      /\ \A k \in Handlers : k # i => req'[k] = req[k]
  <2>1. CASE \E rm \in Rooms : DropBegin(rm)
    BY <1>1, <1>2, <2>1, LoadMoves
    DEF DropBegin, workerVars, Ops, Steps, WithAgent, WithRec, StartSteps
  <2>2. CASE DropPeek
    <3>1. ~Idle(i) /\ req[i].op = "drop" /\ ReqOK(i) /\ req[i].at = "peek"
      BY <2>2, <1>1 DEF DropPeek, At, Idle, IInv, Holds
    <3>2. ~req[i].url
      BY <3>1 DEF ReqOK, WithUrl
    <3>3. Finish(i) \/ (Goto(i, "signal") /\ req[i].rec # 0) \/ Goto(i, "status")
      BY <2>2 DEF DropPeek
    <3> QED BY <1>1, <1>2, <3>1, <3>2, <3>3, FinishMoves, GotoMoves
            DEF workerVars, Steps, WithAgent, WithRec, WithUrl
  <2> QED BY <2>1, <2>2
<1>4. TypeOK'
  BY <1>2, <1>3 DEF IInv, TypeOK, dbVars, workerVars, counters
<1> QED BY <1>1, <1>2, <1>3, <1>4, HandlerFrame DEF dbVars, workerVars

\* The steps of a start before its worker runs.
LEMMA StartIInv ==
  ASSUME IInv, NEW i \in Handlers,
         StartPeek(i) \/ StartLock(i) \/ StartPick(i) \/ StartJoin(i)
  PROVE  IInv'
<1> DEFINE rm == req[i].room
<1>1. /\ ~Idle(i) /\ req[i] \in Request /\ ReqOK(i) /\ rm \in Rooms
      /\ req[i].op = "start" /\ ~req[i].url
  BY DEF StartPeek, StartLock, StartPick, StartJoin, At, Idle, IInv, TypeOK, Holds,
         Request, ReqOK, WithUrl
<1>2. /\ UNCHANGED <<saved, upstream, workerVars, counters>>
      /\ row' \in {row, [row EXCEPT ![rm].status = "ended"]}
      /\ lock' \in {lock, [lock EXCEPT ![rm] = i], [lock EXCEPT ![rm] = None]}
      /\ fails' \in 0..MaxFail
      /\ busy' \subseteq Agents
  <2>1. UNCHANGED <<saved, upstream, workerVars, counters>>
    BY DEF StartPeek, StartLock, StartPick, StartJoin
  <2>2. row' \in {row, [row EXCEPT ![rm].status = "ended"]}
    BY DEF StartPeek, StartLock, StartPick, StartJoin
  <2>3. lock' \in {lock, [lock EXCEPT ![rm] = i], [lock EXCEPT ![rm] = None]}
    BY DEF StartPeek, StartLock, StartPick, StartJoin, GiveUp, Unlock
  <2>4. fails' \in 0..MaxFail
    <3>1. fails' = fails \/ Fail
      BY DEF StartPeek, StartLock, StartPick, StartJoin
    <3> QED BY <3>1, ConstantsAssumption DEF Fail, IInv, TypeOK
  <2>5. busy' \subseteq Agents
    BY DEF StartPeek, StartLock, StartPick, StartJoin, GiveUp, Release, Available, IInv,
           TypeOK
  <2> QED BY <2>1, <2>2, <2>3, <2>4, <2>5
<1>3. row' \in [Rooms -> Row] /\ \A x \in Rooms : row'[x].rec = row[x].rec
  <2>1. row \in [Rooms -> Row]
    BY DEF IInv, TypeOK
  <2>2. CASE row' = row
    BY <2>1, <2>2
  <2>3. CASE row' = [row EXCEPT ![rm].status = "ended"]
    <3>1. row[rm] \in Row
      BY <1>1, <2>1
    <3> DEFINE w == [row[rm] EXCEPT !.status = "ended"]
    <3>2. w \in Row /\ w.rec = row[rm].rec
      BY <3>1 DEF Row
    <3>3. row' = [row EXCEPT ![rm] = w]
      BY <2>1, <2>3
    <3> HIDE DEF w
    <3>4. row' \in [Rooms -> Row]
      BY <2>1, <3>2, <3>3
    <3>5. \A x \in Rooms : row'[x].rec = row[x].rec
      BY <2>1, <3>2, <3>3
    <3> QED BY <3>4, <3>5
  <2> QED BY <1>2, <2>2, <2>3
<1>4. lock' \in [Rooms -> Handlers \cup {None}]
  BY <1>1, <1>2 DEF IInv, TypeOK
<1>5. /\ Moved(i)
      /\ req' \in [Handlers -> Request \cup {None}]
      /\ \A k \in Handlers : k # i => req'[k] = req[k]
  <2>1. CASE Finish(i)
    BY <2>1, FinishMoves
  <2>2. CASE \/ Goto(i, "lock") \/ Goto(i, "pick")
             \/ Goto(i, "spawn") /\ req[i].agent # None
    BY <1>1, <1>2, <2>2, GotoMoves
    DEF workerVars, Steps, StartSteps, WithAgent, WithRec, WithUrl
  <2>3. CASE \E a \in Agents : req' = [req EXCEPT ![i].agent = a, ![i].at = "join"]
    <3>1. PICK a \in Agents : req' = [req EXCEPT ![i].agent = a, ![i].at = "join"]
      BY <2>3
    <3>2. /\ req'[i] = [req[i] EXCEPT !.agent = a, !.at = "join"]
          /\ req' = [req EXCEPT ![i] = [req[i] EXCEPT !.agent = a, !.at = "join"]]
      BY <3>1 DEF IInv, TypeOK
    <3>3. [req[i] EXCEPT !.agent = a, !.at = "join"] \in Request
      BY <1>1 DEF Request, Steps
    <3>4. ReqOK(i)'
      BY <1>1, <1>2, <3>2, ConstantsAssumption
      DEF ReqOK, Request, StartSteps, WithAgent, WithRec, workerVars
    <3> QED BY <1>1, <3>2, <3>3, <3>4 DEF Moved, IInv, TypeOK, Request
  <2>4. CASE StartPeek(i)
    BY <2>1, <2>2, <2>4 DEF StartPeek
  <2>5. CASE StartLock(i)
    BY <2>1, <2>2, <2>5 DEF StartLock
  <2>6. CASE StartPick(i)
    BY <2>1, <2>3, <2>6 DEF StartPick, Available
  <2>7. CASE StartJoin(i)
    BY <1>1, <2>1, <2>2, <2>7 DEF StartJoin, GiveUp, At, ReqOK, WithAgent
  <2> QED BY <2>4, <2>5, <2>6, <2>7
<1>6. TypeOK'
  BY <1>2, <1>3, <1>4, <1>5 DEF IInv, TypeOK, workerVars, counters
<1> QED BY <1>2, <1>3, <1>5, <1>6, HandlerFrame DEF workerVars

\* What is known of a handler that stops a recording.
LEMMA StopFacts ==
  ASSUME IInv, NEW i \in Handlers, NEW step \in WithRec \ {"commit"}, Stopping(i, step)
  PROVE  /\ ~Idle(i) /\ req[i] \in Request /\ ReqOK(i)
         /\ req[i].op \in {"stop", "end", "drop"} /\ req[i].at = step
         /\ req[i].room \in Rooms
         /\ req[i].rec \in Recs /\ req[i].rec # 0
         /\ req[i].rec <= nrec /\ ~(req[i].rec > nrec)
  BY ConstantsAssumption
  DEF Stopping, Idle, IInv, TypeOK, Holds, Request, Ops, Recs, WithRec, ReqOK

\* What follows a stop keeps the handlers typed and in order.
LEMMA AfterStopMoves ==
  ASSUME IInv, NEW i \in Handlers, NEW step \in WithRec \ {"commit"}, Stopping(i, step),
         AfterStop(i), nrec' = nrec
  PROVE  /\ Moved(i)
         /\ req' \in [Handlers -> Request \cup {None}]
         /\ \A k \in Handlers : k # i => req'[k] = req[k]
<1>1. /\ ~Idle(i) /\ req[i] \in Request
      /\ req[i].op \in {"stop", "end", "drop"}
  BY StopFacts
<1>2. Finish(i) \/ Goto(i, "upstream") \/ Goto(i, "status")
  BY <1>1 DEF AfterStop
<1> QED BY <1>1, <1>2, FinishMoves, GotoMoves
        DEF Steps, WithAgent, WithRec, WithUrl

LEMMA StopMoveIInv ==
  ASSUME IInv, NEW i \in Handlers,
         StopSignal(i) \/ StopRelease(i) \/ EndUpstream(i) \/ SetEnded(i)
  PROVE  IInv'
<1>1. /\ ~Idle(i) /\ req[i] \in Request /\ ReqOK(i)
      /\ req[i].op # "start" /\ req[i].room \in Rooms
  BY DEF StopSignal, StopRelease, EndUpstream, SetEnded, Stopping, At, Idle, IInv, TypeOK,
         Holds, Request
<1>2. /\ UNCHANGED <<saved, lock, workerVars, counters>>
      /\ row' \in {row, [row EXCEPT ![req[i].room].status = "ended"]}
      /\ upstream' \in {upstream, [upstream EXCEPT ![req[i].room] = "ended"]}
      /\ busy' \subseteq busy
      /\ fails' = fails \/ Fail
  BY DEF StopSignal, StopRelease, EndUpstream, SetEnded, dbVars, Release
<1>3. row' \in [Rooms -> Row] /\ \A x \in Rooms : row'[x].rec = row[x].rec
  <2> DEFINE new == [row EXCEPT ![req[i].room].status = "ended"]
  <2>1. new \in [Rooms -> Row] /\ \A x \in Rooms : new[x].rec = row[x].rec
    BY <1>1, EndedRow DEF IInv
  <2>2. row \in [Rooms -> Row]
    BY DEF IInv, TypeOK
  <2>3. row' = row \/ row' = new
    BY <1>2
  <2> HIDE DEF new
  <2> QED BY <2>1, <2>2, <2>3
<1>4. upstream' \in [Rooms -> {"live", "ended"}]
  BY <1>1, <1>2 DEF IInv, TypeOK
<1>5. fails' \in 0..MaxFail
  BY <1>2, ConstantsAssumption DEF Fail, IInv, TypeOK
<1>6. /\ Moved(i)
      /\ req' \in [Handlers -> Request \cup {None}]
      /\ \A k \in Handlers : k # i => req'[k] = req[k]
  <2>1. CASE StopSignal(i)
    <3>1. req[i].rec \in Recs /\ req[i].rec # 0 /\ ~req[i].url
      BY <2>1, <1>1, StopFacts DEF StopSignal, WithRec, WithUrl, ReqOK, Stopping
    <3>2. req[i].rec \notin active => worker[req[i].rec] # "running"
      BY <3>1 DEF IInv, RunningOK
    <3>3. \/ Goto(i, "recover") /\ worker[req[i].rec] # "running"
          \/ Goto(i, "wait") \/ Goto(i, "collide")
      BY <2>1, <3>2 DEF StopSignal
    <3> QED BY <1>1, <1>2, <3>1, <3>3, GotoMoves DEF workerVars, Steps, WithAgent
  <2>2. CASE StopRelease(i)
    <3>1. Goto(i, "update") /\ req[i].rec # 0
      BY <2>2, <1>1 DEF StopRelease, Stopping, ReqOK, WithRec
    <3> QED BY <1>1, <1>2, <3>1, GotoMoves DEF workerVars, Steps, WithAgent, WithUrl
  <2>3. CASE EndUpstream(i)
    <3>1. Finish(i) \/ Goto(i, "status")
      BY <2>3 DEF EndUpstream
    <3> QED BY <1>1, <1>2, <3>1, FinishMoves, GotoMoves
            DEF workerVars, Steps, WithAgent, WithRec, WithUrl
  <2>4. CASE SetEnded(i)
    BY <2>4, FinishMoves DEF SetEnded
  <2> QED BY <2>1, <2>2, <2>3, <2>4
<1>7. TypeOK'
  BY <1>2, <1>3, <1>4, <1>5, <1>6 DEF IInv, TypeOK, workerVars, counters
<1> QED BY <1>2, <1>3, <1>6, <1>7, HandlerFrame DEF workerVars

-----------------------------------------------------------------------------
(* Steps that start, commit, save or lose a recording. *)

LEMMA SpawnIInv ==
  ASSUME IInv, NEW i \in Handlers, StartSpawn(i)
  PROVE  IInv'
<1> DEFINE r == nrec + 1
<1>1. /\ ~Idle(i) /\ req[i] \in Request /\ ReqOK(i)
      /\ req[i].op = "start" /\ req[i].at = "spawn" /\ ~req[i].url
      /\ req[i].room \in Rooms /\ req[i].agent \in Agents
  BY DEF StartSpawn, At, Idle, IInv, TypeOK, Holds, Request, ReqOK, WithUrl, WithAgent
<1>2. UNCHANGED <<row, saved, upstream, orphans, s3, counters>>
  BY DEF StartSpawn
<1>3. CASE Fail /\ GiveUp(i) /\ UNCHANGED <<active, worker, agentOf, nrec>>
  <2>1. /\ Moved(i)
        /\ req' \in [Handlers -> Request \cup {None}]
        /\ \A k \in Handlers : k # i => req'[k] = req[k]
    BY <1>3, FinishMoves DEF GiveUp
  <2>2. fails' \in 0..MaxFail
    BY <1>3, ConstantsAssumption DEF Fail, IInv, TypeOK
  <2>3. TypeOK'
    BY <1>1, <1>2, <1>3, <2>1, <2>2 DEF GiveUp, Release, Unlock, IInv, TypeOK, counters
  <2> QED BY <1>2, <1>3, <2>1, <2>3, HandlerFrame
<1>4. CASE /\ nrec < MaxReq
           /\ nrec' = r
           /\ worker' = [worker EXCEPT ![r] = "running"]
           /\ agentOf' = [agentOf EXCEPT ![r] = req[i].agent]
           /\ active' = active \cup {r}
           /\ req' = [req EXCEPT ![i].rec = r, ![i].at = "commit"]
           /\ UNCHANGED <<lock, busy, fails>>
  <2>1. r \in Recs /\ r \in Nat /\ nrec' \in 0..MaxReq /\ nrec \in Nat /\ nrec < r /\ r # 0
    BY <1>4, ConstantsAssumption DEF IInv, TypeOK, Recs
  <2> HIDE DEF r
  <2>2. /\ req' = [req EXCEPT ![i] = [req[i] EXCEPT !.rec = r, !.at = "commit"]]
        /\ [req[i] EXCEPT !.rec = r, !.at = "commit"] \in Request
    BY <1>1, <1>4, <2>1 DEF Request, Steps, Recs
  <2>3. TypeOK'
    BY <1>1, <1>2, <1>4, <2>1, <2>2 DEF IInv, TypeOK, counters
  <2>4. /\ req'[i].rec = r /\ req'[i].at = "commit" /\ req'[i].op = "start"
        /\ req'[i].agent = req[i].agent /\ req'[i].url = req[i].url
        /\ \A k \in Handlers : k # i => req'[k] = req[k]
    BY <1>1, <2>2 DEF IInv, TypeOK, Request
  <2>5. \A k \in Handlers : req[k] # None => req[k].rec \in Nat /\ req[k].rec <= nrec
    BY ConstantsAssumption DEF IInv, TypeOK, Holds, Idle, ReqOK, Request
  <2>6. \A x \in Rooms : row[x].rec \in Nat /\ row[x].rec <= nrec
    BY ConstantsAssumption DEF IInv, TypeOK, Fresh, Row
  <2>7. Holds'
    <3>1. ReqOK(i)'
      BY <1>1, <1>4, <2>1, <2>4, ConstantsAssumption
      DEF ReqOK, StartSteps, WithAgent, WithRec
    <3>2. \A k \in Handlers : k # i /\ req[k] # None => ReqOK(k)'
      <4>1. \A k \in Handlers : req[k] # None => req[k].rec <= nrec'
        BY <1>4, <2>1, <2>5
      <4> QED BY <2>4, <4>1 DEF IInv, Holds, Idle, ReqOK
    <3> QED BY <2>4, <3>1, <3>2 DEF Holds, Idle
  <2>8. Fresh'
    <3>1. \A y \in Recs : y > nrec' => y > nrec /\ y # r
      BY <1>4, <2>1 DEF Recs
    <3>2. \A x \in Rooms : row'[x].rec <= nrec'
      BY <1>2, <1>4, <2>1, <2>6
    <3> QED BY <1>2, <1>4, <3>1, <3>2 DEF Fresh, IInv, TypeOK
  <2>9. worker[r] = "none" /\ s3[r] = "none" /\ saved[r] = 0
    BY <2>1 DEF IInv, Fresh
  <2>10. RunningOK' /\ NamedOnce' /\ OneRowPerRecording'
    BY <1>2, <1>4, <2>1, <2>9 DEF IInv, TypeOK, RunningOK, NamedOnce, OneRowPerRecording
  <2>11. CommitOK'
    BY <1>2, <2>1, <2>4, <2>5, <2>6, <2>9 DEF IInv, CommitOK, Committing, Idle
  <2>12. UrlOK'
    BY <1>1, <1>2, <2>4 DEF IInv, UrlOK, Idle
  <2>13. RecoverOnlyGone'
    BY <1>4, <2>1, <2>4, <2>5 DEF IInv, TypeOK, RecoverOnlyGone, Stopping
  <2> QED BY <2>3, <2>7, <2>8, <2>10, <2>11, <2>12, <2>13 DEF IInv
<1> QED BY <1>3, <1>4 DEF StartSpawn

LEMMA CommitIInv ==
  ASSUME IInv, NEW i \in Handlers, StartCommit(i)
  PROVE  IInv'
<1> DEFINE rm == req[i].room
           r == req[i].rec
<1>1. /\ ~Idle(i) /\ req[i] \in Request /\ Committing(i) /\ ReqOK(i)
      /\ rm \in Rooms /\ r \in Recs /\ r # 0 /\ r <= nrec /\ req[i].agent \in Agents
  BY ConstantsAssumption
  DEF StartCommit, At, Committing, Idle, IInv, TypeOK, Holds, Request, ReqOK, WithAgent,
      WithRec, Recs
<1>2. /\ UNCHANGED <<saved, upstream, busy, active, worker, agentOf, s3, nrec, counters>>
      /\ lock' = [lock EXCEPT ![rm] = None]
      /\ Finish(i)
  BY DEF StartCommit, Unlock
<1>3. CASE Fail /\ orphans' = orphans \cup {r} /\ UNCHANGED row
  <2>1. /\ Moved(i)
        /\ req' \in [Handlers -> Request \cup {None}]
        /\ \A k \in Handlers : k # i => req'[k] = req[k]
    BY <1>2, FinishMoves
  <2>2. fails' \in 0..MaxFail
    BY <1>3, ConstantsAssumption DEF Fail, IInv, TypeOK
  <2>3. TypeOK'
    BY <1>1, <1>2, <1>3, <2>1, <2>2 DEF IInv, TypeOK, counters
  <2> QED BY <1>2, <1>3, <2>1, <2>3, HandlerFrame
<1>4. CASE /\ row' = [row EXCEPT ![rm].rec = r, ![rm].agent = req[i].agent]
           /\ UNCHANGED <<orphans, fails>>
  <2>1. /\ row'[rm].rec = r
        /\ \A x \in Rooms : x # rm => row'[x] = row[x]
        /\ row' \in [Rooms -> Row]
    <3>1. row[rm] \in Row
      BY <1>1 DEF IInv, TypeOK
    <3> DEFINE new == [row[rm] EXCEPT !.rec = r, !.agent = req[i].agent]
    <3>2. new \in Row /\ new.rec = r
      <4>1. new \in Row
        BY <1>1, <3>1, NamedRow
      <4>2. row[rm] \in [status : {"active", "ended"}, rec : 0..MaxReq, agent : Agents \cup {None}]
        BY <3>1 DEF Row
      <4> QED BY <4>1, <4>2
    <3>3. row' = [row EXCEPT ![rm] = new]
      BY <1>4
    <3> HIDE DEF new
    <3> QED BY <1>1, <3>2, <3>3 DEF IInv, TypeOK
  <2>2. /\ req'[i] = None
        /\ req' \in [Handlers -> Request \cup {None}]
        /\ \A k \in Handlers : k # i => req'[k] = req[k]
    BY <1>2 DEF Finish, IInv, TypeOK
  <2>3. TypeOK'
    BY <1>1, <1>2, <1>4, <2>1, <2>2 DEF IInv, TypeOK, counters
  <2>4. /\ saved[r] = 0
        /\ \A x \in Rooms : row[x].rec # r
        /\ \A k \in Handlers : k # i /\ Committing(k) => req[k].rec # r
    BY <1>1 DEF IInv, CommitOK
  <2>5. Holds' /\ UrlOK' /\ RecoverOnlyGone'
    BY <1>2, <2>2
    DEF IInv, Holds, ReqOK, UrlOK, RecoverOnlyGone, Stopping, Idle
  <2>6. Fresh'
    BY <1>1, <1>2, <2>1 DEF IInv, Fresh
  <2>7. RunningOK' /\ OneRowPerRecording'
    BY <1>2 DEF IInv, RunningOK, OneRowPerRecording
  <2>8. NamedOnce'
    <3>1. \A a \in Rooms, b \in Rooms :
              row'[a].rec # 0 /\ row'[a].rec = row'[b].rec => a = b
      BY <2>1, <2>4 DEF IInv, NamedOnce
    <3>2. \A y \in Recs, x \in Rooms : saved'[y] # 0 => row'[x].rec # y
      BY <1>2, <2>1, <2>4 DEF IInv, NamedOnce
    <3> QED BY <3>1, <3>2 DEF NamedOnce
  <2>9. CommitOK'
    BY <1>2, <2>1, <2>2, <2>4 DEF IInv, CommitOK, Committing, Idle
  <2> QED BY <2>3, <2>5, <2>6, <2>7, <2>8, <2>9 DEF IInv
<1> QED BY <1>3, <1>4 DEF StartCommit

-----------------------------------------------------------------------------
(* Workers and S3. *)

\* Workers end, objects stay, and what is not started stays untouched.
WorkersEnd ==
    \A r \in Recs :
        /\ worker'[r] \in {worker[r], "gone"}
        /\ worker'[r] = "running" => r \in active' /\ s3'[r] # "object"
        /\ s3[r] = "object" => s3'[r] = "object"
        /\ r > nrec => worker'[r] = "none" /\ s3'[r] = "none"

\* A handler goes on with the URL of an object, or recovers what a worker that
\* is gone has left.
Proceeds(k) ==
    ~Idle(k)' =>
        /\ ReqOK(k)'
        /\ Committing(k)' => Committing(k) /\ req'[k].rec = req[k].rec
        /\ req'[k].url => req'[k].rec \in Recs /\ s3'[req'[k].rec] = "object"
        /\ Stopping(k, "recover")' => worker'[req'[k].rec] # "running"

LEMMA WorkerFrame ==
  ASSUME IInv, TypeOK', UNCHANGED <<row, saved, nrec>>, WorkersEnd,
         \A k \in Handlers : Proceeds(k)
  PROVE  IInv'
<1>1. Holds' /\ UrlOK'
  BY DEF Holds, UrlOK, Proceeds
<1>2. Fresh' /\ RunningOK' /\ NamedOnce'
  BY DEF IInv, Fresh, RunningOK, NamedOnce, WorkersEnd
<1>3. OneRowPerRecording'
  BY DEF IInv, OneRowPerRecording, WorkersEnd
<1>4. CommitOK'
  <2>1. \A k \in Handlers : Committing(k)' => Committing(k) /\ req'[k].rec = req[k].rec
    BY DEF Proceeds, Committing
  <2> QED BY <2>1 DEF IInv, CommitOK
<1>5. RecoverOnlyGone'
  BY DEF RecoverOnlyGone, Proceeds, Stopping, Idle
<1> QED BY <1>1, <1>2, <1>3, <1>4, <1>5 DEF IInv

\* The handlers that do not take the step proceed.
LEMMA OthersProceed ==
  ASSUME IInv, WorkersEnd, nrec' = nrec, NEW k \in Handlers, req'[k] = req[k]
  PROVE  Proceeds(k)
<1>1. ~Idle(k) => ReqOK(k) /\ req[k] \in Request
  BY DEF IInv, TypeOK, Holds, Idle
<1>2. ~Idle(k)' => ReqOK(k)'
  BY <1>1 DEF Idle, ReqOK
<1>3. Committing(k)' => Committing(k)
  BY DEF Committing, Idle
<1>4. ~Idle(k)' /\ req'[k].url => req'[k].rec \in Recs /\ s3'[req'[k].rec] = "object"
  BY DEF IInv, UrlOK, Idle, WorkersEnd
<1>5. Stopping(k, "recover")' => worker'[req'[k].rec] # "running"
  <2>1. Stopping(k, "recover") => req[k].rec \in Recs
    BY StopFacts DEF WithRec
  <2> QED BY <2>1 DEF IInv, RecoverOnlyGone, Stopping, WorkersEnd
<1> QED BY <1>2, <1>3, <1>4, <1>5 DEF Proceeds

LEMMA WorkerStepIInv ==
  ASSUME IInv, NEW r \in Recs, Checkpoint(r) \/ SelfFinalize(r) \/ WorkerCrash(r)
  PROVE  IInv'
<1>1. /\ worker[r] = "running"
      /\ UNCHANGED <<dbVars, upstream, busy, active, agentOf, orphans, nrec, req, counters>>
      /\ worker' = worker \/ worker' = [worker EXCEPT ![r] = "gone"]
      /\ \E o \in {"none", "parts", "object"} : s3' = [s3 EXCEPT ![r] = o]
      /\ worker' = worker => s3' = [s3 EXCEPT ![r] = "parts"]
      /\ fails' = fails \/ Fail
  BY DEF Checkpoint, SelfFinalize, WorkerCrash, EndsBadly, IInv, TypeOK
<1>2. fails' \in 0..MaxFail
  BY <1>1, ConstantsAssumption DEF Fail, IInv, TypeOK
<1>3. TypeOK'
  BY <1>1, <1>2 DEF IInv, TypeOK, dbVars, counters
<1>4. s3[r] # "object" /\ r \in active /\ ~(r > nrec)
  BY <1>1 DEF IInv, RunningOK, Fresh
<1>5. WorkersEnd
  <2> SUFFICES ASSUME NEW x \in Recs
      PROVE  /\ worker'[x] \in {worker[x], "gone"}
             /\ worker'[x] = "running" => x \in active' /\ s3'[x] # "object"
             /\ s3[x] = "object" => s3'[x] = "object"
             /\ x > nrec => worker'[x] = "none" /\ s3'[x] = "none"
    BY DEF WorkersEnd
  <2>1. CASE x = r
    BY <1>1, <1>4, <2>1 DEF IInv, TypeOK
  <2>2. CASE x # r
    BY <1>1, <2>2 DEF IInv, TypeOK, RunningOK, Fresh
  <2> QED BY <2>1, <2>2
<1>6. \A k \in Handlers : Proceeds(k)
  BY <1>1, <1>5, OthersProceed
<1> QED BY <1>1, <1>3, <1>5, <1>6, WorkerFrame DEF dbVars

LEMMA AnswerIInv ==
  ASSUME IInv, NEW i \in Handlers, StopAnswer(i)
  PROVE  IInv'
<1> DEFINE r == req[i].rec
<1>1. /\ ~Idle(i) /\ req[i] \in Request /\ ReqOK(i) /\ r \in Recs
      /\ req[i].at = "wait" /\ req[i].op # "start" /\ ~req[i].url
      /\ r # 0 /\ r <= nrec /\ ~(r > nrec)
  BY StopFacts DEF StopAnswer, WithRec, ReqOK, WithUrl, Stopping
<1>2. /\ UNCHANGED <<dbVars, upstream, busy, agentOf, orphans, nrec, counters>>
      /\ active' = active \ {r}
      /\ (worker' = worker /\ worker[r] = "gone") \/ worker' = [worker EXCEPT ![r] = "gone"]
      /\ s3' = s3 \/ /\ worker[r] = "running"
                     /\ \E o \in {"none", "parts", "object"} : s3' = [s3 EXCEPT ![r] = o]
      /\ fails' = fails \/ Fail
      /\ \/ Goto(i, "recover")
         \/ /\ s3' = [s3 EXCEPT ![r] = "object"]
            /\ req' = [req EXCEPT ![i].url = TRUE, ![i].at = "release"]
  <2>1. worker[r] = "running" /\ EndsBadly(r) =>
            \E o \in {"none", "parts", "object"} : s3' = [s3 EXCEPT ![r] = o]
    BY <1>1 DEF EndsBadly, IInv, TypeOK
  <2> QED BY <2>1 DEF StopAnswer, EndsBadly
<1>3. worker[r] = "running" => s3[r] # "object" /\ ~(r > nrec)
  BY <1>1 DEF IInv, RunningOK, Fresh
<1>4. worker'[r] = "gone"
  BY <1>1, <1>2 DEF IInv, TypeOK
<1>5. WorkersEnd
  <2> SUFFICES ASSUME NEW x \in Recs
      PROVE  /\ worker'[x] \in {worker[x], "gone"}
             /\ worker'[x] = "running" => x \in active' /\ s3'[x] # "object"
             /\ s3[x] = "object" => s3'[x] = "object"
             /\ x > nrec => worker'[x] = "none" /\ s3'[x] = "none"
    BY DEF WorkersEnd
  <2>1. CASE x = r
    BY <1>1, <1>2, <1>3, <1>4, <2>1 DEF IInv, TypeOK
  <2>2. CASE x # r
    BY <1>1, <1>2, <2>2 DEF IInv, TypeOK, RunningOK, Fresh
  <2> QED BY <2>1, <2>2
<1>6. /\ Proceeds(i)
      /\ req' \in [Handlers -> Request \cup {None}]
      /\ \A k \in Handlers : k # i => req'[k] = req[k]
  <2> DEFINE q == [req[i] EXCEPT !.at = "recover"]
             u == [req[i] EXCEPT !.url = TRUE, !.at = "release"]
  <2>1. q \in Request /\ u \in Request
    BY <1>1 DEF Request, Steps
  <2>2. /\ q.at = "recover" /\ q.rec = r /\ q.op = req[i].op /\ q.url = req[i].url
        /\ u.at = "release" /\ u.rec = r /\ u.op = req[i].op
    BY <1>1 DEF Request
  <2>3. \/ req' = [req EXCEPT ![i] = q]
        \/ req' = [req EXCEPT ![i] = u] /\ s3' = [s3 EXCEPT ![r] = "object"]
    BY <1>2 DEF Goto
  <2> HIDE DEF q, u
  <2>4. \/ req'[i] = q
        \/ req'[i] = u /\ s3'[r] = "object"
    BY <1>1, <2>3 DEF IInv, TypeOK
  <2>5. /\ req' \in [Handlers -> Request \cup {None}]
        /\ \A k \in Handlers : k # i => req'[k] = req[k]
    BY <2>1, <2>3 DEF IInv, TypeOK
  <2>6. nrec' = nrec
    BY <1>2
  <2>7. CASE req'[i] = q
    <3>1. ReqOK(i)'
      BY <1>1, <2>2, <2>6, <2>7 DEF ReqOK, WithAgent, WithRec
    <3> QED BY <1>1, <1>4, <2>2, <2>5, <2>7, <3>1 DEF Proceeds, Committing, Stopping
  <2>8. CASE req'[i] = u /\ s3'[r] = "object"
    <3>1. ReqOK(i)'
      BY <1>1, <2>2, <2>6, <2>8 DEF ReqOK, WithAgent, WithRec, WithUrl
    <3> QED BY <1>1, <2>2, <2>5, <2>8, <3>1 DEF Proceeds, Committing, Stopping
  <2> QED BY <2>4, <2>5, <2>7, <2>8
<1>7. fails' \in 0..MaxFail
  BY <1>2, ConstantsAssumption DEF Fail, IInv, TypeOK
<1>8. TypeOK'
  BY <1>1, <1>2, <1>6, <1>7 DEF IInv, TypeOK, dbVars, counters
<1>9. \A k \in Handlers : Proceeds(k)
  BY <1>2, <1>5, <1>6, OthersProceed
<1> QED BY <1>2, <1>5, <1>8, <1>9, WorkerFrame DEF dbVars

LEMMA CollideIInv ==
  ASSUME IInv, NEW i \in Handlers, StopCollide(i)
  PROVE  IInv'
<1> DEFINE r == req[i].rec
<1>1. /\ ~Idle(i) /\ req[i] \in Request /\ ReqOK(i) /\ r \in Recs
      /\ Stopping(i, "collide") /\ ~req[i].url /\ ~(r > nrec)
  BY StopFacts DEF StopCollide, WithRec, ReqOK, WithUrl, Stopping
<1>2. /\ UNCHANGED <<dbVars, upstream, busy, agentOf, orphans, nrec, fails, counters>>
      /\ active' = active \ {r}
      /\ \/ /\ worker[r] = "running"
            /\ worker' = [worker EXCEPT ![r] = "gone"]
            /\ \E o \in {"none", "parts", "object"} : s3' = [s3 EXCEPT ![r] = o]
         \/ worker[r] # "running" /\ UNCHANGED <<worker, s3>>
  <2>1. worker[r] = "running" /\ EndsBadly(r) =>
            \E o \in {"none", "parts", "object"} : s3' = [s3 EXCEPT ![r] = o]
    BY <1>1 DEF EndsBadly, IInv, TypeOK
  <2> QED BY <2>1 DEF StopCollide, EndsBadly
<1>3. worker[r] = "running" => s3[r] # "object"
  BY <1>1 DEF IInv, RunningOK
<1>4. worker'[r] # "running"
  BY <1>1, <1>2 DEF IInv, TypeOK
<1>5. WorkersEnd
  <2> SUFFICES ASSUME NEW x \in Recs
      PROVE  /\ worker'[x] \in {worker[x], "gone"}
             /\ worker'[x] = "running" => x \in active' /\ s3'[x] # "object"
             /\ s3[x] = "object" => s3'[x] = "object"
             /\ x > nrec => worker'[x] = "none" /\ s3'[x] = "none"
    BY DEF WorkersEnd
  <2>1. CASE x = r
    BY <1>1, <1>2, <1>3, <1>4, <2>1 DEF IInv, TypeOK
  <2>2. CASE x # r
    BY <1>1, <1>2, <2>2 DEF IInv, TypeOK, RunningOK, Fresh
  <2> QED BY <2>1, <2>2
<1>6. /\ Moved(i)
      /\ req' \in [Handlers -> Request \cup {None}]
      /\ \A k \in Handlers : k # i => req'[k] = req[k]
  BY <1>1, <1>2, AfterStopMoves DEF StopCollide, WithRec
<1>7. Proceeds(i)
  <2>1. ~Idle(i)' => req'[i].at # "recover"
    <3>1. Finish(i) \/ Goto(i, "upstream") \/ Goto(i, "status")
      BY StopFacts DEF StopCollide, AfterStop, WithRec
    <3> QED BY <1>1, <3>1 DEF Finish, Goto, Idle, IInv, TypeOK, Request
  <2> QED BY <1>1, <1>6, <2>1 DEF Moved, Proceeds, Committing, Stopping
<1>8. TypeOK'
  BY <1>1, <1>2, <1>6 DEF IInv, TypeOK, dbVars, counters
<1>9. \A k \in Handlers : Proceeds(k)
  BY <1>2, <1>5, <1>6, <1>7, OthersProceed
<1> QED BY <1>2, <1>5, <1>8, <1>9, WorkerFrame DEF dbVars

LEMMA RecoverIInv ==
  ASSUME IInv, NEW i \in Handlers, StopRecover(i)
  PROVE  IInv'
<1> DEFINE r == req[i].rec
           o == IF Recoverable(r) THEN "object" ELSE s3[r]
           u == [req[i] EXCEPT !.url = Recoverable(r), !.at = "release"]
           f == [req[i] EXCEPT !.at = "release"]
<1>1. /\ ~Idle(i) /\ req[i] \in Request /\ ReqOK(i) /\ r \in Recs
      /\ Stopping(i, "recover") /\ ~req[i].url
      /\ req[i].op # "start" /\ r # 0 /\ r <= nrec
  BY StopFacts DEF StopRecover, WithRec, ReqOK, WithUrl, Stopping
<1>2. /\ UNCHANGED <<dbVars, upstream, busy, active, worker, agentOf, orphans, nrec, counters>>
      /\ fails' = fails \/ Fail
      /\ \/ s3' = [s3 EXCEPT ![r] = o] /\ req' = [req EXCEPT ![i] = u]
         \/ s3' = s3 /\ req' = [req EXCEPT ![i] = f]
  BY DEF StopRecover, Goto
<1>3. worker[r] # "running"
  BY <1>1 DEF IInv, RecoverOnlyGone
<1>4. /\ Recoverable(r) \in BOOLEAN
      /\ Recoverable(r) => o = "object"
      /\ ~Recoverable(r) => o = "none" /\ o = s3[r]
      /\ o \in {"none", "parts", "object"}
  BY <1>1 DEF Recoverable, IInv, TypeOK
<1>5. /\ u \in Request /\ f \in Request
      /\ u.at = "release" /\ u.rec = r /\ u.op = req[i].op /\ u.url = Recoverable(r)
      /\ f.at = "release" /\ f.rec = r /\ f.op = req[i].op /\ f.url = req[i].url
  BY <1>1, <1>4 DEF Request, Steps
<1> HIDE DEF o, u, f
<1>6. WorkersEnd
  <2> SUFFICES ASSUME NEW x \in Recs
      PROVE  /\ worker'[x] \in {worker[x], "gone"}
             /\ worker'[x] = "running" => x \in active' /\ s3'[x] # "object"
             /\ s3[x] = "object" => s3'[x] = "object"
             /\ x > nrec => worker'[x] = "none" /\ s3'[x] = "none"
    BY DEF WorkersEnd
  <2>1. CASE x = r
    <3>1. ~(x > nrec)
      BY <1>1, <2>1 DEF IInv, TypeOK, Recs
    <3>2. s3[x] = "object" => s3'[x] = "object"
      BY <1>1, <1>2, <1>4, <2>1 DEF IInv, TypeOK
    <3> QED BY <1>2, <1>3, <2>1, <3>1, <3>2
  <2>2. CASE x # r
    BY <1>1, <1>2, <2>2 DEF IInv, TypeOK, RunningOK, Fresh
  <2> QED BY <2>1, <2>2
<1>7. /\ req' \in [Handlers -> Request \cup {None}]
      /\ \A k \in Handlers : k # i => req'[k] = req[k]
  BY <1>2, <1>5 DEF IInv, TypeOK
<1>8. Proceeds(i)
  <2>1. CASE s3' = [s3 EXCEPT ![r] = o] /\ req' = [req EXCEPT ![i] = u]
    <3>1. s3'[r] = o /\ req'[i] = u
      BY <1>1, <2>1 DEF IInv, TypeOK
    <3> QED BY <1>1, <1>2, <1>4, <1>5, <3>1
            DEF Proceeds, ReqOK, Committing, Stopping, WithAgent, WithRec, WithUrl
  <2>2. CASE req' = [req EXCEPT ![i] = f]
    <3>1. req'[i] = f
      BY <2>2 DEF IInv, TypeOK
    <3> QED BY <1>1, <1>2, <1>5, <3>1
            DEF Proceeds, ReqOK, Committing, Stopping, WithAgent, WithRec, WithUrl
  <2> QED BY <1>2, <2>1, <2>2
<1>9. fails' \in 0..MaxFail
  BY <1>2, ConstantsAssumption DEF Fail, IInv, TypeOK
<1>10. TypeOK'
  BY <1>1, <1>2, <1>4, <1>7, <1>9 DEF IInv, TypeOK, dbVars, counters
<1>11. \A k \in Handlers : Proceeds(k)
  BY <1>2, <1>6, <1>7, <1>8, OthersProceed
<1> QED BY <1>2, <1>6, <1>10, <1>11, WorkerFrame DEF dbVars

\* The stop that still finds its recording in the row clears and saves it.
LEMMA UpdateIInv ==
  ASSUME IInv, NEW i \in Handlers, StopUpdate(i)
  PROVE  IInv'
<1> DEFINE rm == req[i].room
           r == req[i].rec
<1>1. /\ Stopping(i, "update") /\ ~Idle(i) /\ req[i] \in Request
      /\ rm \in Rooms /\ r \in Recs /\ r # 0
  BY StopFacts DEF StopUpdate, WithRec
<1>2. UNCHANGED <<lock, upstream, busy, workerVars, fails, counters>>
  BY DEF StopUpdate
<1>3. /\ Moved(i)
      /\ req' \in [Handlers -> Request \cup {None}]
      /\ \A k \in Handlers : k # i => req'[k] = req[k]
  BY <1>1, <1>2, AfterStopMoves DEF StopUpdate, WithRec, workerVars
<1>4. CASE UNCHANGED <<row, saved>>
  <2>1. TypeOK'
    BY <1>2, <1>3, <1>4 DEF IInv, TypeOK, workerVars, counters
  <2> QED BY <1>2, <1>3, <1>4, <2>1, HandlerFrame DEF workerVars
<1>5. CASE /\ StillCurrent(i)
           /\ row' = [row EXCEPT ![rm] = Cleared(@)]
           /\ saved' = [saved EXCEPT ![r] = IF req[i].url THEN @ + 1 ELSE @]
  <2>1. row[rm].rec = r
    BY <1>5 DEF StillCurrent
  <2>2. saved[r] = 0
    BY <1>1, <2>1 DEF IInv, NamedOnce
  <2>3. /\ row'[rm].rec = 0
        /\ \A x \in Rooms : x # rm => row'[x] = row[x]
        /\ row' \in [Rooms -> Row]
    <3>1. Cleared(row[rm]) \in Row /\ Cleared(row[rm]).rec = 0
      BY <1>1, ConstantsAssumption, ClearedRow DEF IInv, TypeOK
    <3>2. row' = [row EXCEPT ![rm] = Cleared(row[rm])]
      BY <1>5
    <3> QED BY <1>1, <3>1, <3>2 DEF IInv, TypeOK
  <2>4. /\ saved'[r] \in {0, 1}
        /\ saved'[r] = 1 => req[i].url
        /\ \A x \in Recs : x # r => saved'[x] = saved[x]
        /\ saved' \in [Recs -> Nat]
    <3>1. saved' = [saved EXCEPT ![r] = IF req[i].url THEN 1 ELSE 0]
      BY <1>1, <1>5, <2>2 DEF IInv, TypeOK
    <3> QED BY <1>1, <3>1 DEF IInv, TypeOK
  <2>5. TypeOK'
    BY <1>2, <1>3, <2>3, <2>4 DEF IInv, TypeOK, workerVars, counters
  <2>6. Holds'
    BY <1>2, <1>3 DEF IInv, Holds, ReqOK, Idle, Moved, workerVars
  <2>7. RunningOK'
    BY <1>2 DEF IInv, RunningOK, workerVars
  <2>8. Fresh'
    <3>1. \A x \in Recs : x > nrec => x # r
      BY <1>1, StopFacts DEF WithRec
    <3>2. \A x \in Rooms : row'[x].rec <= nrec
      BY <2>3 DEF IInv, TypeOK, Fresh
    <3> QED BY <1>2, <2>4, <3>1, <3>2 DEF IInv, Fresh, workerVars
  <2>9. NamedOnce'
    <3>1. \A a \in Rooms, b \in Rooms :
              row'[a].rec # 0 /\ row'[a].rec = row'[b].rec => a = b
      BY <2>3 DEF IInv, NamedOnce
    <3>2. \A y \in Recs, x \in Rooms : saved'[y] # 0 => row'[x].rec # y
      <4> SUFFICES ASSUME NEW y \in Recs, NEW x \in Rooms, saved'[y] # 0, row'[x].rec = y
          PROVE  FALSE
        OBVIOUS
      <4>1. y # 0
        BY ConstantsAssumption DEF Recs
      <4>2. x # rm /\ row[x].rec = y
        BY <2>3, <4>1
      <4>3. y # r
        BY <1>1, <2>1, <4>2 DEF IInv, NamedOnce
      <4> QED BY <2>4, <4>2, <4>3 DEF IInv, NamedOnce
    <3> QED BY <3>1, <3>2 DEF NamedOnce
  <2>10. CommitOK'
    <3>1. \A k \in Handlers : Committing(k)' =>
              k # i /\ Committing(k) /\ req'[k].rec = req[k].rec
      BY <1>3 DEF Committing, Idle, Moved
    <3>2. \A k \in Handlers : Committing(k) => req[k].rec # r /\ req[k].rec \in Recs
      BY <1>1, <2>1, ConstantsAssumption
      DEF IInv, CommitOK, Committing, TypeOK, Holds, ReqOK, WithRec, Idle, Request, Recs
    <3>3. \A k \in Handlers, x \in Rooms : Committing(k) => row'[x].rec # req[k].rec
      <4> SUFFICES ASSUME NEW k \in Handlers, NEW x \in Rooms, Committing(k)
          PROVE  row'[x].rec # req[k].rec
        OBVIOUS
      <4>1. req[k].rec # 0
        BY <3>2, ConstantsAssumption DEF Recs
      <4> QED BY <2>3, <4>1 DEF IInv, CommitOK
    <3> QED BY <2>4, <3>1, <3>2, <3>3 DEF IInv, CommitOK
  <2>11. UrlOK' /\ RecoverOnlyGone'
    BY <1>2, <1>3
    DEF IInv, UrlOK, RecoverOnlyGone, Stopping, Idle, Moved, workerVars
  <2>12. OneRowPerRecording'
    BY <1>1, <1>2, <2>4 DEF IInv, OneRowPerRecording, UrlOK, workerVars
  <2> QED BY <2>5, <2>6, <2>7, <2>8, <2>9, <2>10, <2>11, <2>12 DEF IInv
<1> QED BY <1>4, <1>5 DEF StopUpdate

-----------------------------------------------------------------------------
(* The environment, and the theorems. *)

LEMMA RestartIInv ==
  ASSUME IInv, Restart
  PROVE  IInv'
<1>1. /\ UNCHANGED <<row, saved, upstream, agentOf, orphans, s3, nrec, reqs, fails>>
      /\ busy' = {} /\ active' = {}
      /\ worker' = [r \in Recs |-> IF worker[r] = "running" THEN "gone" ELSE worker[r]]
      /\ lock' = [x \in Rooms |-> None]
      /\ req' = [k \in Handlers |-> None]
      /\ crashes < MaxCrash /\ crashes' = crashes + 1
  BY DEF Restart
<1>2. crashes' \in 0..MaxCrash
  BY <1>1, ConstantsAssumption DEF IInv, TypeOK
<1>3. \A r \in Recs : worker'[r] = IF worker[r] = "running" THEN "gone" ELSE worker[r]
  BY <1>1
<1>4. TypeOK'
  BY <1>1, <1>2 DEF IInv, TypeOK
<1>5. WorkersEnd
  BY <1>1, <1>3 DEF WorkersEnd, IInv, TypeOK, Fresh
<1>6. \A k \in Handlers : Proceeds(k)
  BY <1>1 DEF Proceeds, Idle
<1> QED BY <1>1, <1>4, <1>5, <1>6, WorkerFrame

LEMMA UpstreamIInv ==
  ASSUME IInv, NEW rm \in Rooms, UpstreamEnds(rm)
  PROVE  IInv'
<1>1. /\ UNCHANGED <<row, saved, lock, busy, active, worker, agentOf, orphans, s3, nrec, req, fails,
                     reqs, crashes>>
      /\ upstream' = [upstream EXCEPT ![rm] = "ended"]
  BY DEF UpstreamEnds, dbVars, workerVars, counters
<1>2. TypeOK'
  BY <1>1 DEF IInv, TypeOK
<1>3. Holds' /\ UrlOK' /\ RecoverOnlyGone' /\ CommitOK'
  BY <1>1 DEF IInv, Holds, ReqOK, UrlOK, RecoverOnlyGone, Stopping, Idle, CommitOK,
              Committing
<1>4. Fresh' /\ RunningOK' /\ NamedOnce' /\ OneRowPerRecording'
  BY <1>1 DEF IInv, Fresh, RunningOK, NamedOnce, OneRowPerRecording
<1> QED BY <1>2, <1>3, <1>4 DEF IInv

LEMMA StutterIInv ==
  ASSUME IInv, UNCHANGED vars
  PROVE  IInv'
<1>1. UNCHANGED <<row, saved, lock, upstream, busy, active, worker, agentOf, orphans, s3, nrec, req,
                  fails, reqs, crashes>>
  BY DEF vars
<1>2. TypeOK'
  BY <1>1 DEF IInv, TypeOK
<1>3. Holds' /\ UrlOK' /\ RecoverOnlyGone' /\ CommitOK'
  BY <1>1 DEF IInv, Holds, ReqOK, UrlOK, RecoverOnlyGone, Stopping, Idle, CommitOK,
              Committing
<1>4. Fresh' /\ RunningOK' /\ NamedOnce' /\ OneRowPerRecording'
  BY <1>1 DEF IInv, Fresh, RunningOK, NamedOnce, OneRowPerRecording
<1> QED BY <1>2, <1>3, <1>4 DEF IInv

\* Whatever the interleaving of starts, stops, the end route, the reconciler,
\* worker failures and restarts, a step keeps the invariant.
LEMMA NextIInv == IInv /\ [Next]_vars => IInv'
<1> SUFFICES ASSUME IInv, [Next]_vars PROVE IInv'
  OBVIOUS
<1>1. ASSUME NEW i \in Slots, NEW rm \in Rooms,
             StartBegin(i, rm) \/ StopBegin(i, rm) \/ EndBegin(i, rm)
      PROVE  IInv'
  BY <1>1, BeginIInv
<1>2. CASE (\E rm \in Rooms : DropBegin(rm)) \/ DropPeek
  BY <1>2, DropIInv
<1>3. ASSUME NEW i \in Handlers, StartStep(i)
      PROVE  IInv'
  BY <1>3, StartIInv, SpawnIInv, CommitIInv DEF StartStep
<1>4. ASSUME NEW i \in Handlers, StopStep(i)
      PROVE  IInv'
  BY <1>4, StopMoveIInv, AnswerIInv, CollideIInv, RecoverIInv, UpdateIInv DEF StopStep
<1>5. ASSUME NEW r \in Recs, Checkpoint(r) \/ SelfFinalize(r) \/ WorkerCrash(r)
      PROVE  IInv'
  BY <1>5, WorkerStepIInv
<1>6. ASSUME NEW rm \in Rooms, UpstreamEnds(rm)
      PROVE  IInv'
  BY <1>6, UpstreamIInv
<1>7. CASE Restart
  BY <1>7, RestartIInv
<1>8. CASE UNCHANGED vars
  BY <1>8, StutterIInv
<1> QED BY <1>1, <1>2, <1>3, <1>4, <1>5, <1>6, <1>7, <1>8 DEF Next

\* The invariant is inductive.
THEOREM Invariance == Spec => []IInv
  BY InitIInv, NextIInv, PTL DEF Spec

\* Rows, handlers, pool, registry and S3 keep their types; in particular a row
\* names a recording exactly when it names an agent.
THEOREM TypeCorrect == Spec => []TypeOK
<1>1. IInv => TypeOK
  BY DEF IInv
<1> QED BY <1>1, Invariance, PTL

\* However many stops of a recording race, the compare on recording_id lets one
\* of them save it, and what is saved is in S3.
THEOREM SavedOnce == Spec => []OneRowPerRecording
<1>1. IInv => OneRowPerRecording
  BY DEF IInv
<1> QED BY <1>1, Invariance, PTL

\* No upload is completed by the backend while its worker runs.
THEOREM RecoveryAfterWorker == Spec => []RecoverOnlyGone
<1>1. IInv => RecoverOnlyGone
  BY DEF IInv
<1> QED BY <1>1, Invariance, PTL

=============================================================================
