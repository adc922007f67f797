--------------------- MODULE NativeRecording_serial_proofs ---------------------
(***************************************************************************)
(* Proofs about NativeRecording when what concerns one room runs one after *)
(* the other (Serial), for any rooms, agents and bounds: an agent records  *)
(* in one room at a time, the pool loses an agent only to a start that     *)
(* failed after its spawn, and audio that reached S3 is linked.            *)
(*                                                                         *)
(* Then the copy of the row that a handler reads at its beginning stays    *)
(* true until it writes.  An agent has one holder at a time: the start     *)
(* that picked it, the row that names it until the stop of that row gives  *)
(* it back, or for good the recording whose start failed after its spawn;  *)
(* and a worker runs only while its agent has a holder.                    *)
(***************************************************************************)
EXTENDS NativeRecording_proofs

\* One handler works on a room.
OnePerRoom ==
    \A i, k \in Handlers : ~Idle(i) /\ ~Idle(k) /\ req[i].room = req[k].room => i = k

Copying == {"peek", "lock", "signal", "wait", "recover", "release", "update"}
Starting == {"pick", "join", "spawn", "commit"}

\* The copy of the row that a handler has is still true.
CopyOK(i) ==
    LET w == row[req[i].room] IN
    /\ req[i].at \in Copying => req[i].rec = w.rec /\ req[i].agent = w.agent
    /\ req[i].at \in Starting => req[i].op = "start" /\ w.rec = 0
    /\ req[i].at = "lock" => req[i].op = "start"
    /\ req[i].at # "collide"

\* The worker of a stop that gives the agent back is gone, and so is its audio
\* unless it was found.
GoneOK(i) ==
    req[i].at \in {"release", "update"} =>
        /\ worker[req[i].rec] # "running"
        /\ ~S3MayFail => req[i].url \/ s3[req[i].rec] = "none"

Copies == \A i \in Handlers : ~Idle(i) => CopyOK(i) /\ GoneOK(i)

\* Who holds an agent: a start that picked it, and a row whose stop has not
\* given it back.
StartHolds(i) == ~Idle(i) /\ req[i].at \in WithAgent
Released(rm) == \E i \in Handlers : ~Idle(i) /\ req[i].room = rm /\ req[i].at = "update"
RowHolds(rm) == row[rm].rec # 0 /\ ~Released(rm)

\* A worker runs for a holder of its agent.
WorkerHeld ==
    \A r \in Recs : worker[r] = "running" =>
        \/ \E rm \in Rooms : RowHolds(rm) /\ row[rm].rec = r /\ row[rm].agent = agentOf[r]
        \/ \E i \in Handlers : Committing(i) /\ req[i].rec = r /\ req[i].agent = agentOf[r]
        \/ r \in orphans

\* What is dispatched has a holder.
BusyHeld ==
    \A a \in busy :
        \/ \E rm \in Rooms : RowHolds(rm) /\ row[rm].agent = a
        \/ \E i \in Handlers : StartHolds(i) /\ req[i].agent = a
        \/ \E r \in orphans : agentOf[r] = a

\* Until the busy bits are lost, holders are dispatched and no two hold the
\* same agent.
HoldersDiffer ==
    crashes = 0 =>
        /\ \A rm \in Rooms : RowHolds(rm) => row[rm].agent \in busy
        /\ \A i \in Handlers : StartHolds(i) => req[i].agent \in busy
        /\ \A a, b \in Rooms :
              RowHolds(a) /\ RowHolds(b) /\ row[a].agent = row[b].agent => a = b
        /\ \A i, k \in Handlers :
              StartHolds(i) /\ StartHolds(k) /\ req[i].agent = req[k].agent => i = k
        /\ \A rm \in Rooms, i \in Handlers :
              RowHolds(rm) /\ StartHolds(i) => row[rm].agent # req[i].agent

\* Starts that spawned a worker: the agent is the one the worker joined with.
Spawned ==
    /\ \A r \in orphans : r <= nrec
    /\ \A i \in Handlers : Committing(i) => agentOf[req[i].rec] = req[i].agent

\* The agents of starts that failed after their spawn stay dispatched.
OrphansDiffer ==
    crashes = 0 =>
        /\ \A r \in orphans : agentOf[r] \in busy
        /\ \A r, q \in orphans : agentOf[r] = agentOf[q] => r = q
        /\ \A r \in orphans, rm \in Rooms : RowHolds(rm) => row[rm].agent # agentOf[r]
        /\ \A r \in orphans, i \in Handlers : StartHolds(i) => req[i].agent # agentOf[r]

SInv ==
    /\ IInv /\ OnePerRoom /\ Copies /\ WorkerHeld /\ BusyHeld /\ HoldersDiffer
    /\ Spawned /\ OrphansDiffer

-----------------------------------------------------------------------------
(* Frames.                                                                 *)

\* Workers end, and what is not in S3 comes there from a worker only.
WorkersStop ==
    \A r \in Recs :
        /\ worker'[r] = "running" => worker[r] = "running"
        /\ worker[r] # "running" /\ s3[r] = "none" => s3'[r] = "none"

\* The same of the recordings that were started.
KnownStop ==
    \A r \in Recs : r <= nrec =>
        /\ worker'[r] = "running" => worker[r] = "running"
        /\ worker[r] # "running" /\ s3[r] = "none" => s3'[r] = "none"

SameRow(rm) == row'[rm].rec = row[rm].rec /\ row'[rm].agent = row[rm].agent

\* A step after which the same holders hold the same agents.
LEMMA HoldersFrame ==
  ASSUME SInv, busy' = busy, agentOf' = agentOf, crashes' = crashes, WorkersStop,
         orphans' = orphans, nrec' = nrec,
         \A rm \in Rooms : RowHolds(rm)' <=> RowHolds(rm),
         \A rm \in Rooms : RowHolds(rm) => SameRow(rm),
         \A k \in Handlers :
            /\ StartHolds(k)' <=> StartHolds(k)
            /\ StartHolds(k) => req'[k].agent = req[k].agent
            /\ Committing(k)' <=> Committing(k)
            /\ Committing(k) => req'[k].rec = req[k].rec
  PROVE  WorkerHeld' /\ BusyHeld' /\ HoldersDiffer' /\ Spawned' /\ OrphansDiffer'
<1>2. \A k \in Handlers : Committing(k) => StartHolds(k)
  BY DEF Committing, StartHolds, WithAgent
<1>3. WorkerHeld'
  BY <1>2 DEF SInv, WorkerHeld, WorkersStop, SameRow
<1>4. BusyHeld'
  BY DEF SInv, BusyHeld, SameRow
<1>5. HoldersDiffer'
  <2> SUFFICES ASSUME crashes' = 0
               PROVE  /\ \A rm \in Rooms : RowHolds(rm)' => row'[rm].agent \in busy'
                      /\ \A i \in Handlers : StartHolds(i)' => req'[i].agent \in busy'
                      /\ \A a, b \in Rooms :
                            RowHolds(a)' /\ RowHolds(b)' /\ row'[a].agent = row'[b].agent => a = b
                      /\ \A i, k \in Handlers :
                            StartHolds(i)' /\ StartHolds(k)' /\ req'[i].agent = req'[k].agent
                                => i = k
                      /\ \A rm \in Rooms, i \in Handlers :
                            RowHolds(rm)' /\ StartHolds(i)' => row'[rm].agent # req'[i].agent
    BY DEF HoldersDiffer
  <2>1. HoldersDiffer /\ crashes = 0
    BY DEF SInv
  <2> QED BY <2>1 DEF HoldersDiffer, SameRow
<1>6. Spawned'
  BY <1>2 DEF SInv, Spawned
<1>7. OrphansDiffer'
  BY DEF SInv, OrphansDiffer, SameRow
<1> QED BY <1>3, <1>4, <1>5, <1>6, <1>7

\* A step of one handler, on the rooms of the others nothing changes.
LEMMA CopiesFrame ==
  ASSUME SInv, IInv', KnownStop, NEW i \in Handlers,
         \A k \in Handlers : k # i => req'[k] = req[k] /\ (~Idle(k) => SameRow(req[k].room)),
         ~Idle(i)' => /\ CopyOK(i)' /\ GoneOK(i)'
                      /\ \A k \in Handlers : k # i /\ ~Idle(k) => req[k].room # req'[i].room
  PROVE  OnePerRoom' /\ Copies'
<1>1. OnePerRoom'
  BY DEF SInv, OnePerRoom, Idle
<1>2. ASSUME NEW k \in Handlers, k # i, ~Idle(k)'
      PROVE  CopyOK(k)' /\ GoneOK(k)'
  <2>1. req'[k] = req[k] /\ SameRow(req[k].room) /\ ~Idle(k)
    BY <1>2 DEF Idle
  <2>2. CopyOK(k) /\ GoneOK(k) /\ ReqOK(k) /\ req[k] \in Request
    BY <2>1 DEF SInv, Copies, IInv, Holds, TypeOK, Idle
  <2>3. CopyOK(k)'
    BY <2>1, <2>2 DEF CopyOK, SameRow
  <2>4. req[k].at \in {"release", "update"} => req[k].rec \in Recs /\ req[k].rec <= nrec
    BY <2>2, ConstantsAssumption DEF ReqOK, WithRec, Request, Recs
  <2>5. GoneOK(k)'
    BY <2>1, <2>2, <2>4 DEF GoneOK, KnownStop
  <2> QED BY <2>3, <2>5
<1>3. Copies'
  BY <1>2 DEF Copies
<1> QED BY <1>1, <1>3

\* A handler that is neither about to commit nor between giving the agent back
\* and its update moves to such a step.
LEMMA QuietMove ==
  ASSUME SInv, IInv', busy' = busy, agentOf' = agentOf, crashes' = crashes, WorkersStop,
         orphans' = orphans, nrec' = nrec,
         NEW i \in Handlers, \A rm \in Rooms : SameRow(rm),
         \A k \in Handlers : k # i => req'[k] = req[k],
         ~Idle(i) => req[i].at \notin {"update", "commit"},
         StartHolds(i)' <=> StartHolds(i),
         StartHolds(i) => req'[i].agent = req[i].agent,
         ~Idle(i)' => /\ CopyOK(i)' /\ GoneOK(i)' /\ req'[i].at \notin {"update", "commit"}
                      /\ \A k \in Handlers : k # i /\ ~Idle(k) => req[k].room # req'[i].room
  PROVE  SInv'
<1>1. \A rm \in Rooms : RowHolds(rm)' <=> RowHolds(rm)
  <2>1. \A rm \in Rooms : Released(rm)' <=> Released(rm)
    BY DEF Released, Idle
  <2> QED BY <2>1 DEF RowHolds, SameRow
<1>2. \A k \in Handlers :
            /\ StartHolds(k)' <=> StartHolds(k)
            /\ StartHolds(k) => req'[k].agent = req[k].agent
            /\ Committing(k)' <=> Committing(k)
            /\ Committing(k) => req'[k].rec = req[k].rec
  BY DEF StartHolds, Committing, Idle
<1>3. WorkerHeld' /\ BusyHeld' /\ HoldersDiffer' /\ Spawned' /\ OrphansDiffer'
  BY <1>1, <1>2, HoldersFrame
<1>4. \A k \in Handlers : k # i => req'[k] = req[k] /\ (~Idle(k) => SameRow(req[k].room))
  BY DEF SInv, IInv, TypeOK, Request, Idle
<1>5. OnePerRoom' /\ Copies'
  <2>1. KnownStop
    BY DEF KnownStop, WorkersStop
  <2> QED BY <1>4, <2>1, CopiesFrame
<1> QED BY <1>3, <1>5 DEF SInv

\* The handlers wait.
LEMMA WaitFrame ==
  ASSUME SInv, IInv', busy' = busy, agentOf' = agentOf, crashes' = crashes, WorkersStop,
         orphans' = orphans, nrec' = nrec,
         req' = req, row' = row
  PROVE  SInv'
<1>1. /\ \A rm \in Rooms : SameRow(rm) /\ (RowHolds(rm)' <=> RowHolds(rm))
      /\ \A k \in Handlers :
            /\ StartHolds(k)' <=> StartHolds(k)
            /\ StartHolds(k) => req'[k].agent = req[k].agent
            /\ Committing(k)' <=> Committing(k)
            /\ Committing(k) => req'[k].rec = req[k].rec
  BY DEF SameRow, RowHolds, Released, StartHolds, Committing, Idle
<1>2. WorkerHeld' /\ BusyHeld' /\ HoldersDiffer' /\ Spawned' /\ OrphansDiffer'
  BY <1>1, HoldersFrame
<1>3. PICK i \in Handlers : TRUE
  BY DEF Handlers
<1>4. /\ \A k \in Handlers : k # i => req'[k] = req[k] /\ (~Idle(k) => SameRow(req[k].room))
      /\ ~Idle(i)' => \A k \in Handlers : k # i /\ ~Idle(k) => req[k].room # req'[i].room
  BY DEF SInv, OnePerRoom, Idle, SameRow
<1>5. ~Idle(i)' => CopyOK(i)' /\ GoneOK(i)'
  <2> SUFFICES ASSUME ~Idle(i) PROVE CopyOK(i)' /\ GoneOK(i)'
    BY DEF Idle
  <2>1. CopyOK(i) /\ GoneOK(i) /\ ReqOK(i) /\ req[i] \in Request
    BY DEF SInv, Copies, IInv, Holds, TypeOK, Idle
  <2>2. req[i].at \in {"release", "update"} => req[i].rec \in Recs
    BY <2>1, ConstantsAssumption DEF ReqOK, WithRec, Request, Recs
  <2> QED BY <2>1, <2>2 DEF CopyOK, GoneOK, WorkersStop
<1>6. OnePerRoom' /\ Copies'
  <2>1. KnownStop
    BY DEF KnownStop, WorkersStop
  <2> QED BY <1>4, <1>5, <2>1, CopiesFrame
<1> QED BY <1>2, <1>6 DEF SInv

-----------------------------------------------------------------------------
(* The steps that move a handler on.                                       *)

\* What is known of a handler at work.
LEMMA AtWork ==
  ASSUME SInv, NEW i \in Handlers, ~Idle(i)
  PROVE  /\ CopyOK(i) /\ GoneOK(i) /\ ReqOK(i) /\ req[i] \in Request
         /\ req[i].room \in Rooms /\ req[i].at \in Steps /\ req[i].op \in Ops
         /\ req[i].at \in WithRec => req[i].rec \in Recs /\ req[i].rec # 0
         /\ req[i].at \in WithAgent => req[i].agent \in Agents
         /\ \A k \in Handlers : k # i /\ ~Idle(k) => req[k].room # req[i].room
<1>1. CopyOK(i) /\ GoneOK(i) /\ ReqOK(i) /\ req[i] \in Request
  BY DEF SInv, Copies, IInv, Holds, TypeOK, Idle
<1>2. req[i].room \in Rooms /\ req[i].at \in Steps /\ req[i].op \in Ops
  BY <1>1 DEF Request
<1>3. req[i].at \in WithRec => req[i].rec \in Recs /\ req[i].rec # 0
  BY <1>1, ConstantsAssumption DEF ReqOK, Request, Recs
<1>4. req[i].at \in WithAgent => req[i].agent \in Agents
  BY <1>1 DEF ReqOK, Request
<1>5. \A k \in Handlers : k # i /\ ~Idle(k) => req[k].room # req[i].room
  BY DEF SInv, OnePerRoom
<1> QED BY <1>1, <1>2, <1>3, <1>4, <1>5

\* A handler goes on with what it knows.
LEMMA GoesOn ==
  ASSUME SInv, IInv', busy' = busy, agentOf' = agentOf, crashes' = crashes, WorkersStop,
         orphans' = orphans, nrec' = nrec,
         NEW i \in Handlers, \A rm \in Rooms : SameRow(rm),
         \A k \in Handlers : k # i => req'[k] = req[k],
         ~Idle(i), req[i].at \notin {"update", "commit"},
         req'[i].room = req[i].room, req'[i].op = req[i].op, req'[i].rec = req[i].rec,
         req'[i].agent = req[i].agent, req'[i].at \notin {"update", "commit", "collide"},
         req'[i].at \in WithAgent <=> req[i].at \in WithAgent, req'[i] # None,
         req'[i].at \in Copying => req[i].at \in Copying,
         req'[i].at \in Starting => req[i].op = "start" /\ row[req[i].room].rec = 0,
         req'[i].at = "lock" => req[i].op = "start",
         req'[i].at = "release" =>
            /\ worker'[req[i].rec] # "running"
            /\ ~S3MayFail => req'[i].url \/ s3'[req[i].rec] = "none"
  PROVE  SInv'
<1>1. CopyOK(i)'
  <2>1. row'[req[i].room].rec = row[req[i].room].rec
        /\ row'[req[i].room].agent = row[req[i].room].agent
    BY AtWork DEF SameRow
  <2> QED BY <2>1, AtWork DEF CopyOK
<1>2. GoneOK(i)'
  BY DEF GoneOK
<1>3. StartHolds(i)' <=> StartHolds(i)
  BY DEF StartHolds, Idle
<1>4. \A k \in Handlers : k # i /\ ~Idle(k) => req[k].room # req'[i].room
  BY AtWork
<1> QED BY <1>1, <1>2, <1>3, <1>4, QuietMove

\* A handler that held no agent is done.
LEMMA Done ==
  ASSUME SInv, IInv', busy' = busy, agentOf' = agentOf, crashes' = crashes, WorkersStop,
         orphans' = orphans, nrec' = nrec,
         NEW i \in Handlers, \A rm \in Rooms : SameRow(rm),
         \A k \in Handlers : k # i => req'[k] = req[k],
         ~Idle(i), req[i].at \notin WithAgent, req[i].at # "update", req'[i] = None
  PROVE  SInv'
<1>1. ~StartHolds(i) /\ ~StartHolds(i)' /\ Idle(i)' /\ req[i].at # "commit"
  BY DEF StartHolds, Idle, WithAgent
<1> QED BY <1>1, QuietMove

\* What Goto and Finish do to the handlers.
LEMMA GotoIs ==
  ASSUME SInv, NEW i \in Handlers, ~Idle(i), NEW step \in Steps, Goto(i, step)
  PROVE  /\ \A k \in Handlers : k # i => req'[k] = req[k]
         /\ req'[i].at = step /\ req'[i].room = req[i].room /\ req'[i].op = req[i].op
         /\ req'[i].rec = req[i].rec /\ req'[i].agent = req[i].agent
         /\ req'[i].url = req[i].url /\ req'[i] # None
<1>1. req \in [Handlers -> Request \cup {None}] /\ req[i] \in Request
  BY AtWork DEF SInv, IInv, TypeOK
<1>2. req' = [req EXCEPT ![i] = [req[i] EXCEPT !.at = step]]
  BY <1>1 DEF Goto
<1>3. req'[i] \in Request
  BY <1>1, <1>2 DEF Request
<1> QED BY <1>1, <1>2, <1>3, NoneAssumption DEF Request

\* The fields of a request that are written together.
LEMMA RequestWith ==
  ASSUME NEW r \in Request, NEW s \in Steps
  PROVE  /\ \A a \in Agents : [r EXCEPT !.agent = a, !.at = s] \in Request
         /\ \A n \in 0..MaxReq : [r EXCEPT !.rec = n, !.at = s] \in Request
         /\ \A b \in BOOLEAN : [r EXCEPT !.url = b, !.at = s] \in Request
<1>1. ASSUME NEW a \in Agents
      PROVE  [r EXCEPT !.agent = a, !.at = s] \in Request
  <2>1. a \in Agents \cup {None}
    OBVIOUS
  <2> QED BY <2>1, Zenon DEF Request
<1>2. ASSUME NEW n \in 0..MaxReq
      PROVE  [r EXCEPT !.rec = n, !.at = s] \in Request
  BY Zenon DEF Request
<1>3. ASSUME NEW b \in BOOLEAN
      PROVE  [r EXCEPT !.url = b, !.at = s] \in Request
  BY Zenon DEF Request
<1> QED BY <1>1, <1>2, <1>3

\* What an update of one handler's request gives.
LEMMA RequestIs ==
  ASSUME req \in [Handlers -> Request \cup {None}], NEW i \in Handlers,
         NEW q \in Request, req' = [req EXCEPT ![i] = q]
  PROVE  /\ req'[i] = q /\ req'[i] # None
         /\ \A k \in Handlers : k # i => req'[k] = req[k]
  BY NoneAssumption

\* What Finish does to the handlers.
LEMMA FinishIs ==
  ASSUME SInv, NEW i \in Handlers, Finish(i)
  PROVE  req'[i] = None /\ \A k \in Handlers : k # i => req'[k] = req[k]
  BY DEF SInv, IInv, TypeOK, Finish

\* A change of status keeps what the rows name.
LEMMA EndedSame ==
  ASSUME IInv, NEW rm \in Rooms, row' = [row EXCEPT ![rm].status = "ended"]
  PROVE  \A x \in Rooms : SameRow(x)
<1>1. row \in [Rooms -> Row]
  BY DEF IInv, TypeOK
<1>2. row' = [row EXCEPT ![rm] = [row[rm] EXCEPT !.status = "ended"]]
  BY <1>1
<1>3. row[rm] \in Row
  BY <1>1
<1> QED BY <1>1, <1>2, <1>3 DEF SameRow, Row

\* Nothing but handlers and statuses changes.
Calm ==
    /\ busy' = busy /\ agentOf' = agentOf /\ crashes' = crashes
    /\ orphans' = orphans /\ nrec' = nrec /\ worker' = worker /\ s3' = s3

\* A calm step starts no worker.
LEMMA CalmStops ==
  ASSUME Calm
  PROVE  WorkersStop
  BY DEF Calm, WorkersStop

\* A handler that begins has a true copy, and nobody else works on its room.
LEMMA LoadSInv ==
  ASSUME SInv, IInv', Serial, NEW i \in Handlers, NEW op \in Ops, NEW rm \in Rooms,
         NEW step \in {"peek", "signal", "upstream"}, Load(i, op, rm, step),
         Calm, row' = row
  PROVE  SInv'
<1> DEFINE q == [op |-> op, room |-> rm, at |-> step, rec |-> row[rm].rec,
                 agent |-> row[rm].agent, url |-> FALSE]
<1>1. Idle(i) /\ req' = [req EXCEPT ![i] = q]
  BY DEF Load
<1>2. req'[i] = q /\ \A k \in Handlers : k # i => req'[k] = req[k]
  BY <1>1 DEF SInv, IInv, TypeOK
<1>3. \A k \in Handlers : ~Idle(k) => req[k].room # rm
  BY DEF Load
<1>4. req'[i].at = step /\ req'[i].room = rm /\ req'[i].rec = row[rm].rec
      /\ req'[i].agent = row[rm].agent
  BY <1>2
<1> HIDE DEF q
<1>5. CopyOK(i)' /\ GoneOK(i)' /\ req'[i].at \notin {"update", "commit"}
  BY <1>4 DEF CopyOK, GoneOK, Copying, Starting
<1>6. ~StartHolds(i) /\ ~StartHolds(i)'
  BY <1>1, <1>4 DEF StartHolds, WithAgent
<1>7. WorkersStop /\ \A x \in Rooms : SameRow(x)
  BY CalmStops DEF SameRow
<1> QED BY <1>1, <1>2, <1>3, <1>4, <1>5, <1>6, <1>7, QuietMove DEF Calm

LEMMA BeginSInv ==
  ASSUME SInv, IInv', Serial, NEW i \in Slots, NEW rm \in Rooms,
         StartBegin(i, rm) \/ StopBegin(i, rm) \/ EndBegin(i, rm)
  PROVE  SInv'
<1>1. /\ Calm /\ row' = row
      /\ \E op \in Ops, step \in {"peek", "signal", "upstream"} : Load(i, op, rm, step)
  BY DEF StartBegin, StopBegin, EndBegin, Begin, Calm, dbVars, workerVars, Ops
<1>2. i \in Handlers
  BY DEF Handlers
<1> QED BY <1>1, <1>2, LoadSInv

LEMMA DropSInv ==
  ASSUME SInv, IInv', Serial, (\E rm \in Rooms : DropBegin(rm)) \/ DropPeek
  PROVE  SInv'
<1> DEFINE i == Reconciler
<1>1. i \in Handlers
  BY DEF Handlers
<1>2. Calm /\ row' = row
  BY DEF DropBegin, DropPeek, Calm, dbVars, workerVars, counters
<1>3. WorkersStop /\ \A x \in Rooms : SameRow(x)
  BY <1>2, CalmStops DEF SameRow
<1>4. CASE \E rm \in Rooms : DropBegin(rm)
  BY <1>1, <1>2, <1>4, LoadSInv DEF DropBegin, Ops
<1>5. CASE DropPeek
  <2>1. ~Idle(i) /\ req[i].at = "peek" /\ req[i].op = "drop"
    BY <1>5 DEF DropPeek, At, Idle
  <2>2. CASE Finish(i)
    BY <1>1, <1>2, <1>3, <2>1, <2>2, FinishIs, Done DEF Calm, WithAgent
  <2>3. ASSUME NEW step \in {"signal", "status"}, Goto(i, step)
        PROVE  SInv'
    <3>1. step \in Steps
      BY DEF Steps
    <3> QED BY <1>1, <1>2, <1>3, <2>1, <2>3, <3>1, GotoIs, GoesOn
            DEF Calm, WithAgent, Copying, Starting
  <2> QED BY <1>5, <2>2, <2>3 DEF DropPeek
<1> QED BY <1>4, <1>5

\* A start until it looks for an agent.
LEMMA PeekLockSInv ==
  ASSUME SInv, IInv', NEW i \in Handlers, StartPeek(i) \/ StartLock(i)
  PROVE  SInv'
<1>1. /\ ~Idle(i) /\ req[i].op = "start" /\ req[i].at \in {"peek", "lock"}
      /\ Calm
  BY DEF StartPeek, StartLock, At, Idle, Calm, workerVars, counters
<1>2. req[i].room \in Rooms /\ CopyOK(i)
  BY <1>1, AtWork
<1>3. \A x \in Rooms : SameRow(x)
  BY <1>2, EndedSame DEF StartPeek, StartLock, SameRow, SInv
<1>4. WorkersStop
  BY <1>1, CalmStops
<1>5. CASE Finish(i)
  BY <1>1, <1>3, <1>4, <1>5, FinishIs, Done DEF Calm, WithAgent
<1>6. CASE Goto(i, "lock")
  <2>1. "lock" \in Steps
    BY DEF Steps
  <2> QED BY <1>1, <1>3, <1>4, <1>6, <2>1, GotoIs, GoesOn
          DEF Calm, WithAgent, Copying, Starting
<1>7. CASE Goto(i, "pick") /\ req[i].at = "lock" /\ req[i].rec = 0
  <2>1. "pick" \in Steps
    BY DEF Steps
  <2>2. row[req[i].room].rec = 0
    BY <1>2, <1>7 DEF CopyOK, Copying
  <2> QED BY <1>1, <1>3, <1>4, <1>7, <2>1, <2>2, GotoIs, GoesOn
          DEF Calm, WithAgent, Copying, Starting
<1> QED BY <1>5, <1>6, <1>7 DEF StartPeek, StartLock, AlreadyRecording, At

-----------------------------------------------------------------------------
(* The steps by which an agent changes hands.                              *)

\* The rows and the stops of the other handlers are as they were.
LEMMA HoldsAsBefore ==
  ASSUME NEW i \in Handlers, \A rm \in Rooms : SameRow(rm),
         \A k \in Handlers : k # i => req'[k] = req[k],
         ~Idle(i) => req[i].at # "update", ~Idle(i)' => req'[i].at # "update"
  PROVE  \A rm \in Rooms : RowHolds(rm)' <=> RowHolds(rm)
<1>1. \A rm \in Rooms : Released(rm)' <=> Released(rm)
  BY DEF Released, Idle
<1> QED BY <1>1 DEF RowHolds, SameRow

\* A start picks an agent that nobody holds.
LEMMA PickSInv ==
  ASSUME SInv, IInv', NEW i \in Handlers, StartPick(i)
  PROVE  SInv'
<1>1. ~Idle(i) /\ req[i].op = "start" /\ req[i].at = "pick"
  BY DEF StartPick, At, Idle
<1>2. CopyOK(i) /\ req[i].room \in Rooms /\ req[i] \in Request
      /\ \A k \in Handlers : k # i /\ ~Idle(k) => req[k].room # req[i].room
  BY <1>1, AtWork
<1>3. /\ agentOf' = agentOf /\ crashes' = crashes /\ worker' = worker /\ s3' = s3
      /\ orphans' = orphans /\ nrec' = nrec /\ row' = row
  BY DEF StartPick, workerVars, counters
<1>4. WorkersStop /\ KnownStop /\ \A x \in Rooms : SameRow(x)
  BY <1>3 DEF WorkersStop, KnownStop, SameRow
<1>5. CASE Finish(i) /\ busy' = busy
  BY <1>1, <1>3, <1>4, <1>5, FinishIs, Done DEF WithAgent
<1>6. ASSUME NEW a \in Available, busy' = busy \cup {a},
             req' = [req EXCEPT ![i].agent = a, ![i].at = "join"]
      PROVE  SInv'
  <2>1. a \notin busy /\ busy' = busy \cup {a}
    BY <1>6 DEF Available
  <2>2. /\ \A k \in Handlers : k # i => req'[k] = req[k]
        /\ req'[i].at = "join" /\ req'[i].agent = a /\ req'[i].room = req[i].room
        /\ req'[i].op = "start" /\ req'[i] # None
    <3> DEFINE q == [req[i] EXCEPT !.agent = a, !.at = "join"]
    <3>4. req \in [Handlers -> Request \cup {None}]
      BY DEF SInv, IInv, TypeOK
    <3>1. req' = [req EXCEPT ![i] = q]
      BY <1>6, <3>4, Zenon
    <3>2. q \in Request
      <4>1. "join" \in Steps /\ a \in Agents
        BY DEF Steps, Available
      <4> QED BY <1>2, <4>1, RequestWith
    <3>3. q.at = "join" /\ q.agent = a /\ q.room = req[i].room /\ q.op = req[i].op
      BY <1>2 DEF Request
    <3> HIDE DEF q
    <3> QED BY <1>1, <3>1, <3>2, <3>3, <3>4, RequestIs
  <2>3. \A rm \in Rooms : RowHolds(rm)' <=> RowHolds(rm)
    BY <1>1, <1>4, <2>2, HoldsAsBefore
  <2>4. /\ StartHolds(i)' /\ ~StartHolds(i)
        /\ \A k \in Handlers : k # i => (StartHolds(k)' <=> StartHolds(k))
        /\ \A k \in Handlers : /\ Committing(k)' <=> Committing(k)
                               /\ Committing(k) => k # i
    BY <1>1, <2>2 DEF StartHolds, Committing, Idle, WithAgent
  <2>5. WorkerHeld'
    BY <1>3, <2>2, <2>3, <2>4 DEF SInv, WorkerHeld
  <2>6. BusyHeld'
    BY <1>3, <2>1, <2>2, <2>3, <2>4 DEF SInv, BusyHeld
  <2>7. HoldersDiffer'
    <3> SUFFICES ASSUME crashes' = 0
                 PROVE  /\ \A y \in Rooms : RowHolds(y)' => row'[y].agent \in busy'
                        /\ \A x \in Handlers : StartHolds(x)' => req'[x].agent \in busy'
                        /\ \A x, y \in Rooms :
                              RowHolds(x)' /\ RowHolds(y)' /\ row'[x].agent = row'[y].agent => x = y
                        /\ \A x, k \in Handlers :
                              StartHolds(x)' /\ StartHolds(k)' /\ req'[x].agent = req'[k].agent
                                  => x = k
                        /\ \A y \in Rooms, x \in Handlers :
                              RowHolds(y)' /\ StartHolds(x)' => row'[y].agent # req'[x].agent
      BY DEF HoldersDiffer
    <3>1. HoldersDiffer /\ crashes = 0
      BY <1>3 DEF SInv
    <3> QED BY <1>3, <2>1, <2>2, <2>3, <2>4, <3>1 DEF HoldersDiffer
  <2>10. Spawned' /\ OrphansDiffer'
    BY <1>3, <2>1, <2>2, <2>3, <2>4 DEF SInv, Spawned, OrphansDiffer
  <2>8. CopyOK(i)' /\ GoneOK(i)'
    BY <1>1, <1>2, <1>3, <2>2 DEF CopyOK, GoneOK, Copying, Starting
  <2>9. OnePerRoom' /\ Copies'
    BY <1>2, <1>3, <1>4, <2>2, <2>8, CopiesFrame DEF SameRow
  <2> QED BY <2>5, <2>6, <2>7, <2>9, <2>10 DEF SInv
<1> QED BY <1>5, <1>6 DEF StartPick

\* A start that fails gives its agent back.
LEMMA GiveUpSInv ==
  ASSUME SInv, IInv', NEW i \in Handlers, GiveUp(i), ~Idle(i),
         req[i].at \in {"join", "spawn"}, \A rm \in Rooms : SameRow(rm),
         agentOf' = agentOf, crashes' = crashes, worker' = worker, s3' = s3,
         orphans' = orphans, nrec' = nrec
  PROVE  SInv'
<1> DEFINE a == req[i].agent
<1>1. busy' = busy \ {a} /\ req'[i] = None /\ \A k \in Handlers : k # i => req'[k] = req[k]
  BY FinishIs DEF GiveUp, Release
<1>2. \A rm \in Rooms : RowHolds(rm)' <=> RowHolds(rm)
  BY <1>1, HoldsAsBefore DEF Idle
<1>3. /\ StartHolds(i) /\ ~StartHolds(i)'
      /\ \A k \in Handlers : k # i => (StartHolds(k)' <=> StartHolds(k))
      /\ \A k \in Handlers : /\ Committing(k)' <=> Committing(k)
                             /\ Committing(k) => k # i
  BY <1>1 DEF StartHolds, Committing, Idle, WithAgent
<1>4. WorkerHeld'
  BY <1>1, <1>2, <1>3 DEF SInv, WorkerHeld, SameRow
<1>5. BusyHeld'
  BY <1>1, <1>2, <1>3 DEF SInv, BusyHeld, SameRow
<1>6. HoldersDiffer'
  <2> SUFFICES ASSUME crashes' = 0
               PROVE  /\ \A rm \in Rooms : RowHolds(rm)' => row'[rm].agent \in busy'
                      /\ \A x \in Handlers : StartHolds(x)' => req'[x].agent \in busy'
                      /\ \A x, y \in Rooms :
                            RowHolds(x)' /\ RowHolds(y)' /\ row'[x].agent = row'[y].agent => x = y
                      /\ \A x, k \in Handlers :
                            StartHolds(x)' /\ StartHolds(k)' /\ req'[x].agent = req'[k].agent
                                => x = k
                      /\ \A rm \in Rooms, x \in Handlers :
                            RowHolds(rm)' /\ StartHolds(x)' => row'[rm].agent # req'[x].agent
    BY DEF HoldersDiffer
  <2>1. HoldersDiffer /\ crashes = 0
    BY DEF SInv
  <2> QED BY <1>1, <1>2, <1>3, <2>1 DEF HoldersDiffer, SameRow
<1>7. OnePerRoom' /\ Copies'
  <2>1. KnownStop
    BY DEF KnownStop
  <2>2. \A k \in Handlers : k # i => req'[k] = req[k] /\ (~Idle(k) => SameRow(req[k].room))
    BY <1>1, AtWork
  <2> QED BY <1>1, <2>1, <2>2, CopiesFrame DEF Idle
<1>8. Spawned' /\ OrphansDiffer'
  BY <1>1, <1>2, <1>3 DEF SInv, Spawned, OrphansDiffer, SameRow
<1> QED BY <1>4, <1>5, <1>6, <1>7, <1>8 DEF SInv

LEMMA JoinSInv ==
  ASSUME SInv, IInv', NEW i \in Handlers, StartJoin(i)
  PROVE  SInv'
<1>1. /\ ~Idle(i) /\ req[i].op = "start" /\ req[i].at = "join"
      /\ agentOf' = agentOf /\ crashes' = crashes /\ worker' = worker /\ s3' = s3
      /\ orphans' = orphans /\ nrec' = nrec
  BY DEF StartJoin, At, Idle, workerVars, counters
<1>2. req[i].room \in Rooms /\ CopyOK(i)
  BY <1>1, AtWork
<1>3. \A x \in Rooms : SameRow(x)
  BY <1>2, EndedSame DEF StartJoin, SameRow, SInv
<1>4. CASE GiveUp(i)
  BY <1>1, <1>3, <1>4, GiveUpSInv
<1>5. CASE Goto(i, "spawn") /\ busy' = busy
  <2>1. "spawn" \in Steps /\ WorkersStop /\ row[req[i].room].rec = 0
    BY <1>1, <1>2 DEF Steps, WorkersStop, CopyOK, Starting
  <2> QED BY <1>1, <1>3, <1>5, <2>1, GotoIs, GoesOn DEF WithAgent, Copying, Starting
<1> QED BY <1>4, <1>5 DEF StartJoin

\* A new worker runs for the start that spawned it.
LEMMA SpawnSInv ==
  ASSUME SInv, IInv', NEW i \in Handlers, StartSpawn(i)
  PROVE  SInv'
<1> DEFINE r == nrec + 1
<1>1. /\ ~Idle(i) /\ req[i].op = "start" /\ req[i].at = "spawn"
      /\ crashes' = crashes /\ s3' = s3 /\ row' = row /\ orphans' = orphans
  BY DEF StartSpawn, At, Idle, counters
<1>2. /\ req[i].room \in Rooms /\ CopyOK(i) /\ req[i] \in Request
      /\ \A k \in Handlers : k # i /\ ~Idle(k) => req[k].room # req[i].room
  BY <1>1, AtWork
<1>3. \A x \in Rooms : SameRow(x)
  BY <1>1 DEF SameRow
<1>4. CASE GiveUp(i) /\ UNCHANGED <<worker, agentOf, nrec>>
  BY <1>1, <1>3, <1>4, GiveUpSInv
<1>5. CASE /\ nrec < MaxReq
           /\ nrec' = r
           /\ worker' = [worker EXCEPT ![r] = "running"]
           /\ agentOf' = [agentOf EXCEPT ![r] = req[i].agent]
           /\ req' = [req EXCEPT ![i].rec = r, ![i].at = "commit"]
           /\ busy' = busy
  <2>0. r \in Recs /\ r \in 0..MaxReq /\ ~(r <= nrec) /\ nrec \in Nat
    BY <1>5, ConstantsAssumption DEF SInv, IInv, TypeOK, Recs
  <2>1. /\ \A k \in Handlers : k # i => req'[k] = req[k]
        /\ req'[i].at = "commit" /\ req'[i].agent = req[i].agent
        /\ req'[i].room = req[i].room /\ req'[i].rec = r
        /\ req'[i].op = "start" /\ req'[i] # None
    <3> HIDE DEF r
    <3> DEFINE q == [req[i] EXCEPT !.rec = r, !.at = "commit"]
    <3>4. req \in [Handlers -> Request \cup {None}]
      BY DEF SInv, IInv, TypeOK
    <3>1. req' = [req EXCEPT ![i] = q]
      BY <1>5, <3>4, Zenon
    <3>2. q \in Request
      <4>1. "commit" \in Steps /\ r \in 0..MaxReq
        BY <2>0 DEF Steps
      <4> QED BY <1>2, <4>1, RequestWith
    <3>3. /\ q.at = "commit" /\ q.rec = r /\ q.agent = req[i].agent
          /\ q.room = req[i].room /\ q.op = req[i].op
      BY <1>2 DEF Request
    <3> HIDE DEF q
    <3> QED BY <1>1, <3>1, <3>2, <3>3, <3>4, RequestIs
  <2>2. /\ agentOf'[r] = req[i].agent
        /\ \A x \in Recs : x # r => worker'[x] = worker[x] /\ agentOf'[x] = agentOf[x]
    BY <1>5, <2>0 DEF SInv, IInv, TypeOK
  <2> HIDE DEF r
  <2>3. \A rm \in Rooms : RowHolds(rm)' <=> RowHolds(rm)
    BY <1>1, <1>3, <2>1, HoldsAsBefore
  <2>4. /\ Committing(i)'
        /\ \A k \in Handlers : /\ StartHolds(k)' <=> StartHolds(k)
                               /\ req'[k].agent = req[k].agent
        /\ \A k \in Handlers : k # i => (Committing(k)' <=> Committing(k))
        /\ ~Committing(i)
    BY <1>1, <2>1 DEF StartHolds, Committing, Idle, WithAgent
  <2>5. WorkerHeld'
    <3> SUFFICES ASSUME NEW x \in Recs, worker'[x] = "running"
                 PROVE  \/ \E rm \in Rooms : RowHolds(rm)' /\ row'[rm].rec = x
                                                /\ row'[rm].agent = agentOf'[x]
                        \/ \E k \in Handlers : Committing(k)' /\ req'[k].rec = x
                                                /\ req'[k].agent = agentOf'[x]
                        \/ x \in orphans'
      BY DEF WorkerHeld
    <3>1. CASE x = r
      BY <2>1, <2>2, <2>4, <3>1
    <3>2. CASE x # r
      BY <1>1, <2>1, <2>2, <2>3, <2>4, <3>2 DEF SInv, WorkerHeld
    <3> QED BY <3>1, <3>2
  <2>b. busy' = busy /\ row' = row
    BY <1>1, <1>5
  <2>o. /\ orphans' = orphans /\ \A x \in orphans : agentOf'[x] = agentOf[x] /\ x <= nrec'
    <3>1. \A x \in orphans : x \in Recs /\ x <= nrec
      BY DEF SInv, IInv, TypeOK, Spawned
    <3>2. \A x \in Recs : x <= nrec => x # r /\ x <= r
      BY <2>0, ConstantsAssumption DEF Recs
    <3> QED BY <1>1, <1>5, <2>2, <3>1, <3>2
  <2>11. Spawned'
    <3>1. \A k \in Handlers : Committing(k) => req[k].rec \in Recs /\ req[k].rec # r
      BY <2>0, ConstantsAssumption, AtWork DEF Committing, ReqOK, WithRec
    <3> QED BY <2>1, <2>2, <2>4, <2>o, <3>1 DEF SInv, Spawned
  <2>12. OrphansDiffer'
    BY <1>1, <2>b, <2>3, <2>4, <2>o DEF SInv, OrphansDiffer
  <2>6. BusyHeld'
    BY <2>b, <2>2, <2>3, <2>4, <2>o DEF SInv, BusyHeld
  <2>10. HoldersDiffer'
    <3> SUFFICES ASSUME crashes' = 0
                 PROVE  /\ \A y \in Rooms : RowHolds(y)' => row'[y].agent \in busy'
                        /\ \A x \in Handlers : StartHolds(x)' => req'[x].agent \in busy'
                        /\ \A x, y \in Rooms :
                              RowHolds(x)' /\ RowHolds(y)' /\ row'[x].agent = row'[y].agent => x = y
                        /\ \A x, k \in Handlers :
                              StartHolds(x)' /\ StartHolds(k)' /\ req'[x].agent = req'[k].agent
                                  => x = k
                        /\ \A y \in Rooms, x \in Handlers :
                              RowHolds(y)' /\ StartHolds(x)' => row'[y].agent # req'[x].agent
      BY DEF HoldersDiffer
    <3>1. HoldersDiffer /\ crashes = 0
      BY <1>1 DEF SInv
    <3> QED BY <2>b, <2>3, <2>4, <3>1 DEF HoldersDiffer
  <2>7. CopyOK(i)' /\ GoneOK(i)'
    BY <1>1, <1>2, <2>1 DEF CopyOK, GoneOK, Copying, Starting
  <2>8. KnownStop
    BY <1>1, <2>0, <2>2 DEF KnownStop
  <2>9. OnePerRoom' /\ Copies'
    BY <1>1, <1>2, <2>1, <2>7, <2>8, CopiesFrame DEF SameRow
  <2> QED BY <2>5, <2>6, <2>9, <2>10, <2>11, <2>12 DEF SInv
<1> QED BY <1>4, <1>5 DEF StartSpawn

\* A commit that succeeds.
Named(i) ==
    /\ row' = [row EXCEPT ![req[i].room].rec = req[i].rec,
                          ![req[i].room].agent = req[i].agent]
    /\ orphans' = orphans

\* The row takes the agent over from the start.
LEMMA NamedSInv ==
  ASSUME SInv, IInv', NEW i \in Handlers, StartCommit(i), Named(i)
  PROVE  SInv'
<1>0. ~Idle(i)
  BY DEF StartCommit, At, Idle
<1>a. PICK rm \in Rooms : rm = req[i].room
  BY <1>0, AtWork
<1>1. /\ ~Idle(i) /\ req[i].op = "start" /\ req[i].at = "commit"
      /\ Calm
      /\ row' = [row EXCEPT ![rm].rec = req[i].rec, ![rm].agent = req[i].agent]
      /\ Finish(i)
  BY <1>a DEF StartCommit, Named, At, Idle, Calm, counters
<1>2. /\ rm \in Rooms /\ CopyOK(i) /\ req[i].rec # 0
      /\ \A k \in Handlers : k # i /\ ~Idle(k) => req[k].room # rm
  BY <1>1, <1>a, AtWork DEF WithRec
<1>3. /\ row'[rm].rec = req[i].rec /\ row'[rm].agent = req[i].agent
      /\ \A x \in Rooms : x # rm => SameRow(x)
  <2>1. row \in [Rooms -> Row] /\ row[rm] \in Row
    BY <1>2 DEF SInv, IInv, TypeOK
  <2>2. row' = [row EXCEPT ![rm] = [row[rm] EXCEPT !.rec = req[i].rec, !.agent = req[i].agent]]
    BY <1>1, <2>1
  <2> QED BY <1>2, <2>1, <2>2 DEF SameRow, Row
<1>4. req'[i] = None /\ \A k \in Handlers : k # i => req'[k] = req[k]
  BY <1>1, FinishIs
<1>5. /\ RowHolds(rm)' /\ ~RowHolds(rm)
      /\ \A x \in Rooms : x # rm => (RowHolds(x)' <=> RowHolds(x))
  <2>1. row[rm].rec = 0
    BY <1>1, <1>2, <1>a DEF CopyOK, Starting
  <2>2. ~Released(rm)'
    BY <1>2, <1>4 DEF Released, Idle
  <2>3. \A x \in Rooms : Released(x)' <=> Released(x)
    BY <1>1, <1>4 DEF Released, Idle
  <2> QED BY <1>2, <1>3, <2>1, <2>2, <2>3 DEF RowHolds, SameRow
<1>6. /\ StartHolds(i) /\ ~StartHolds(i)'
      /\ \A k \in Handlers : k # i => /\ StartHolds(k)' <=> StartHolds(k)
                                      /\ Committing(k)' <=> Committing(k)
  BY <1>1, <1>4 DEF StartHolds, Committing, Idle, WithAgent
<1>7. WorkerHeld'
  <2> SUFFICES ASSUME NEW x \in Recs, worker'[x] = "running"
               PROVE  \/ \E y \in Rooms : RowHolds(y)' /\ row'[y].rec = x
                                              /\ row'[y].agent = agentOf'[x]
                      \/ \E k \in Handlers : Committing(k)' /\ req'[k].rec = x
                                              /\ req'[k].agent = agentOf'[x]
                      \/ x \in orphans'
    BY DEF WorkerHeld
  <2>1. worker[x] = "running" /\ agentOf'[x] = agentOf[x]
    BY <1>1 DEF Calm
  <2>2. CASE \E y \in Rooms : RowHolds(y) /\ row[y].rec = x /\ row[y].agent = agentOf[x]
    BY <1>3, <1>5, <2>1, <2>2 DEF SameRow
  <2>3. CASE \E k \in Handlers : Committing(k) /\ req[k].rec = x /\ req[k].agent = agentOf[x]
    BY <1>2, <1>3, <1>4, <1>5, <1>6, <2>1, <2>3
  <2>4. CASE x \in orphans
    BY <1>1, <2>4 DEF Calm
  <2> QED BY <2>1, <2>2, <2>3, <2>4 DEF SInv, WorkerHeld
<1>8. BusyHeld'
  <2>1. busy' = busy
    BY <1>1 DEF Calm
  <2>2. ASSUME NEW b \in busy
        PROVE  \/ \E y \in Rooms : RowHolds(y)' /\ row'[y].agent = b
               \/ \E k \in Handlers : StartHolds(k)' /\ req'[k].agent = b
               \/ \E x \in orphans' : agentOf'[x] = b
    <3>1. CASE \E y \in Rooms : RowHolds(y) /\ row[y].agent = b
      BY <1>3, <1>5, <3>1 DEF SameRow
    <3>2. CASE \E k \in Handlers : StartHolds(k) /\ req[k].agent = b
      BY <1>2, <1>3, <1>4, <1>5, <1>6, <3>2
    <3>3. CASE \E x \in orphans : agentOf[x] = b
      BY <1>1, <3>3 DEF Calm
    <3> QED BY <3>1, <3>2, <3>3 DEF SInv, BusyHeld
  <2> QED BY <2>1, <2>2 DEF BusyHeld
<1>9. HoldersDiffer'
  <2> SUFFICES ASSUME crashes' = 0
               PROVE  /\ \A y \in Rooms : RowHolds(y)' => row'[y].agent \in busy'
                      /\ \A x \in Handlers : StartHolds(x)' => req'[x].agent \in busy'
                      /\ \A x, y \in Rooms :
                            RowHolds(x)' /\ RowHolds(y)' /\ row'[x].agent = row'[y].agent => x = y
                      /\ \A x, k \in Handlers :
                            StartHolds(x)' /\ StartHolds(k)' /\ req'[x].agent = req'[k].agent
                                => x = k
                      /\ \A y \in Rooms, x \in Handlers :
                            RowHolds(y)' /\ StartHolds(x)' => row'[y].agent # req'[x].agent
    BY DEF HoldersDiffer
  <2>1. HoldersDiffer /\ crashes = 0 /\ busy' = busy
    BY <1>1 DEF SInv, Calm
  <2> QED BY <1>3, <1>4, <1>5, <1>6, <2>1 DEF HoldersDiffer, SameRow
<1>10. OnePerRoom' /\ Copies'
  <2>1. KnownStop
    BY <1>1 DEF KnownStop, Calm
  <2>2. \A k \in Handlers : k # i => req'[k] = req[k] /\ (~Idle(k) => SameRow(req[k].room))
    BY <1>2, <1>3, <1>4, AtWork
  <2> QED BY <1>4, <2>1, <2>2, CopiesFrame DEF Idle
<1>11. Spawned' /\ OrphansDiffer'
  <2>1. busy' = busy /\ agentOf' = agentOf /\ crashes' = crashes /\ orphans' = orphans
        /\ nrec' = nrec
    BY <1>1 DEF Calm
  <2>2. Spawned'
    BY <1>4, <1>6, <2>1 DEF SInv, Spawned, Committing, Idle
  <2>3. OrphansDiffer'
    <3>1. \A x \in Rooms : RowHolds(x)' =>
              \/ RowHolds(x) /\ row'[x].agent = row[x].agent
              \/ row'[x].agent = req[i].agent
      BY <1>3, <1>5 DEF SameRow
    <3>2. \A k \in Handlers : StartHolds(k)' => StartHolds(k) /\ req'[k] = req[k]
      BY <1>4, <1>6
    <3> QED BY <1>6, <2>1, <3>1, <3>2 DEF SInv, OrphansDiffer
  <2> QED BY <2>2, <2>3
<1> QED BY <1>7, <1>8, <1>9, <1>10, <1>11 DEF SInv

\* A start that fails after its spawn leaves the agent dispatched.
LEMMA OrphanedSInv ==
  ASSUME SInv, IInv', NEW i \in Handlers, StartCommit(i), row' = row,
         orphans' = orphans \cup {req[i].rec}
  PROVE  SInv'
<1> DEFINE r == req[i].rec
<1>1. /\ ~Idle(i) /\ req[i].op = "start" /\ req[i].at = "commit" /\ Finish(i)
      /\ busy' = busy /\ agentOf' = agentOf /\ crashes' = crashes /\ nrec' = nrec
      /\ worker' = worker /\ s3' = s3
  BY DEF StartCommit, At, Idle, counters
<1>2. req'[i] = None /\ \A k \in Handlers : k # i => req'[k] = req[k]
  BY <1>1, FinishIs
<1>3. r <= nrec /\ agentOf[r] = req[i].agent
  BY <1>1, AtWork DEF ReqOK, SInv, Spawned, Committing
<1>4. \A x \in Rooms : SameRow(x) /\ (RowHolds(x)' <=> RowHolds(x))
  BY <1>1, <1>2, HoldsAsBefore DEF SameRow, Idle
<1>5. /\ StartHolds(i) /\ ~StartHolds(i)' /\ ~Committing(i)'
      /\ \A k \in Handlers : k # i => /\ StartHolds(k)' <=> StartHolds(k)
                                      /\ Committing(k)' <=> Committing(k)
  BY <1>1, <1>2 DEF StartHolds, Committing, Idle, WithAgent
<1>6. WorkerHeld'
  BY <1>1, <1>2, <1>4, <1>5 DEF SInv, WorkerHeld
<1>7. BusyHeld'
  BY <1>1, <1>2, <1>3, <1>4, <1>5 DEF SInv, BusyHeld
<1>8. HoldersDiffer'
  BY <1>1, <1>2, <1>4, <1>5 DEF SInv, HoldersDiffer
<1>9. Spawned'
  BY <1>1, <1>2, <1>3, <1>5 DEF SInv, Spawned
<1>10. OrphansDiffer'
  <2> SUFFICES ASSUME crashes' = 0
               PROVE  /\ \A x \in orphans' : agentOf'[x] \in busy'
                      /\ \A x, y \in orphans' : agentOf'[x] = agentOf'[y] => x = y
                      /\ \A x \in orphans', rm \in Rooms :
                            RowHolds(rm)' => row'[rm].agent # agentOf'[x]
                      /\ \A x \in orphans', k \in Handlers :
                            StartHolds(k)' => req'[k].agent # agentOf'[x]
    BY DEF OrphansDiffer
  <2>1. HoldersDiffer /\ OrphansDiffer /\ crashes = 0
    BY <1>1 DEF SInv
  <2> QED BY <1>1, <1>2, <1>3, <1>4, <1>5, <2>1 DEF HoldersDiffer, OrphansDiffer
<1>11. OnePerRoom' /\ Copies'
  <2>1. KnownStop
    BY <1>1 DEF KnownStop
  <2>2. \A k \in Handlers : k # i => req'[k] = req[k] /\ (~Idle(k) => SameRow(req[k].room))
    BY <1>2, <1>4, AtWork
  <2> QED BY <1>2, <2>1, <2>2, CopiesFrame DEF Idle
<1> QED BY <1>6, <1>7, <1>8, <1>9, <1>10, <1>11 DEF SInv

LEMMA CommitSInv ==
  ASSUME SInv, IInv', NEW i \in Handlers, StartCommit(i)
  PROVE  SInv'
  BY NamedSInv, OrphanedSInv DEF StartCommit, Named

-----------------------------------------------------------------------------
(* Stopping.                                                               *)

\* One handler stops a recording, so nobody else reads its worker's stdout.
LEMMA SignalSInv ==
  ASSUME SInv, IInv', NEW i \in Handlers, StopSignal(i)
  PROVE  SInv'
<1> DEFINE r == req[i].rec
<1>1. /\ ~Idle(i) /\ req[i].op # "start" /\ req[i].at = "signal"
      /\ Calm /\ row' = row
  BY DEF StopSignal, Stopping, Idle, Calm, dbVars, workerVars, counters
<1>2. req[i].room \in Rooms /\ CopyOK(i) /\ r # 0
  BY <1>1, AtWork DEF WithRec
<1>3. ~Reading(r)
  <2> SUFFICES ASSUME NEW k \in Handlers, ~Idle(k), req[k].rec = r, req[k].at = "wait"
               PROVE  FALSE
    BY DEF Reading
  <2>1. CopyOK(k) /\ req[k].room \in Rooms
    BY AtWork
  <2>2. row[req[k].room].rec = r /\ row[req[i].room].rec = r
    BY <1>1, <1>2, <2>1 DEF CopyOK, Copying
  <2>3. req[k].room = req[i].room
    BY <1>2, <2>1, <2>2 DEF SInv, IInv, NamedOnce
  <2> QED BY <1>1, <2>3 DEF SInv, OnePerRoom
<1>4. PICK step \in {"recover", "wait"} : Goto(i, step)
  BY <1>3 DEF StopSignal
<1>5. step \in Steps /\ WorkersStop /\ \A x \in Rooms : SameRow(x)
  BY <1>1, CalmStops DEF Steps, SameRow
<1> QED BY <1>1, <1>4, <1>5, GotoIs, GoesOn DEF Calm, WithAgent, Copying, Starting

\* The worker is gone when it answered, or did not.
LEMMA AnswerSInv ==
  ASSUME SInv, IInv', NEW i \in Handlers, StopAnswer(i)
  PROVE  SInv'
<1> DEFINE r == req[i].rec
<1>1. /\ ~Idle(i) /\ req[i].op # "start" /\ req[i].at = "wait"
      /\ busy' = busy /\ agentOf' = agentOf /\ crashes' = crashes /\ row' = row
      /\ orphans' = orphans /\ nrec' = nrec
  BY DEF StopAnswer, Stopping, Idle, dbVars, counters
<1>2. r \in Recs /\ req[i] \in Request
  BY <1>1, AtWork DEF WithRec
<1>3. \/ /\ worker[r] = "running"
         /\ worker' = [worker EXCEPT ![r] = "gone"]
         /\ \E o \in {"none", "parts", "object"} : s3' = [s3 EXCEPT ![r] = o]
      \/ UNCHANGED <<worker, s3>>
  <2>1. EndsBadly(r) => \E o \in {"none", "parts", "object"} : s3' = [s3 EXCEPT ![r] = o]
    BY <1>2 DEF EndsBadly, SInv, IInv, TypeOK
  <2> QED BY <2>1 DEF StopAnswer, EndsBadly
<1>4. WorkersStop
  BY <1>2, <1>3 DEF WorkersStop, SInv, IInv, TypeOK
<1>5. \A x \in Rooms : SameRow(x)
  BY <1>1 DEF SameRow
<1>6. CASE Goto(i, "recover")
  <2>1. "recover" \in Steps
    BY DEF Steps
  <2> QED BY <1>1, <1>4, <1>5, <1>6, <2>1, GotoIs, GoesOn DEF WithAgent, Copying, Starting
<1>7. CASE /\ worker' = [worker EXCEPT ![r] = "gone"]
           /\ req' = [req EXCEPT ![i].url = TRUE, ![i].at = "release"]
  <2>1. worker'[r] # "running"
    BY <1>2, <1>7 DEF SInv, IInv, TypeOK
  <2>2. /\ \A k \in Handlers : k # i => req'[k] = req[k]
        /\ req'[i].at = "release" /\ req'[i].room = req[i].room /\ req'[i].op = req[i].op
        /\ req'[i].rec = req[i].rec /\ req'[i].agent = req[i].agent
        /\ req'[i].url /\ req'[i] # None
    <3> DEFINE q == [req[i] EXCEPT !.url = TRUE, !.at = "release"]
    <3>4. req \in [Handlers -> Request \cup {None}]
      BY DEF SInv, IInv, TypeOK
    <3>1. req' = [req EXCEPT ![i] = q]
      BY <1>7, <3>4, Zenon
    <3>2. q \in Request
      <4>1. "release" \in Steps /\ TRUE \in BOOLEAN
        BY DEF Steps
      <4> QED BY <1>2, <4>1, RequestWith
    <3>3. /\ q.at = "release" /\ q.url /\ q.rec = req[i].rec /\ q.agent = req[i].agent
          /\ q.room = req[i].room /\ q.op = req[i].op
      BY <1>2 DEF Request
    <3> HIDE DEF q
    <3> QED BY <1>1, <3>1, <3>2, <3>3, <3>4, RequestIs
  <2> QED BY <1>1, <1>4, <1>5, <2>1, <2>2, GoesOn DEF WithAgent, Copying, Starting
<1> QED BY <1>6, <1>7 DEF StopAnswer

\* What S3 has of a worker that is gone is found, unless S3 fails.
LEMMA RecoverSInv ==
  ASSUME SInv, IInv', NEW i \in Handlers, StopRecover(i)
  PROVE  SInv'
<1> DEFINE r == req[i].rec
<1>1. /\ ~Idle(i) /\ req[i].op # "start" /\ req[i].at = "recover" /\ Stopping(i, "recover")
      /\ busy' = busy /\ agentOf' = agentOf /\ crashes' = crashes /\ row' = row
      /\ orphans' = orphans /\ nrec' = nrec /\ worker' = worker
  BY DEF StopRecover, Stopping, Idle, dbVars, counters
<1>2. r \in Recs /\ req[i] \in Request
  BY <1>1, AtWork DEF WithRec
<1>3. worker'[r] # "running"
  BY <1>1 DEF SInv, IInv, RecoverOnlyGone
<1>4. \A x \in Rooms : SameRow(x)
  BY <1>1 DEF SameRow
<1>5. CASE S3MayFail /\ Goto(i, "release") /\ s3' = s3
  <2>1. "release" \in Steps /\ WorkersStop
    BY <1>1, <1>5 DEF Steps, WorkersStop
  <2> QED BY <1>1, <1>3, <1>4, <1>5, <2>1, GotoIs, GoesOn DEF WithAgent, Copying, Starting
<1>6. CASE /\ req' = [req EXCEPT ![i].url = Recoverable(r), ![i].at = "release"]
           /\ s3' = [s3 EXCEPT ![r] = IF Recoverable(r) THEN "object" ELSE @]
  <2>1. WorkersStop /\ (Recoverable(r) \/ s3'[r] = "none")
    BY <1>1, <1>2, <1>6 DEF WorkersStop, Recoverable, SInv, IInv, TypeOK
  <2>2. /\ \A k \in Handlers : k # i => req'[k] = req[k]
        /\ req'[i].at = "release" /\ req'[i].room = req[i].room /\ req'[i].op = req[i].op
        /\ req'[i].rec = req[i].rec /\ req'[i].agent = req[i].agent
        /\ req'[i].url = Recoverable(r) /\ req'[i] # None
    <3>0. Recoverable(r) \in BOOLEAN
      BY DEF Recoverable
    <3> DEFINE q == [req[i] EXCEPT !.url = Recoverable(r), !.at = "release"]
    <3>4. req \in [Handlers -> Request \cup {None}]
      BY DEF SInv, IInv, TypeOK
    <3>1. req' = [req EXCEPT ![i] = q]
      BY <1>6, <3>4, Zenon
    <3>2. q \in Request
      <4>1. "release" \in Steps /\ Recoverable(r) \in BOOLEAN
        BY <3>0 DEF Steps
      <4> QED BY <1>2, <4>1, RequestWith
    <3>3. /\ q.at = "release" /\ q.url = Recoverable(r) /\ q.rec = req[i].rec
          /\ q.agent = req[i].agent /\ q.room = req[i].room /\ q.op = req[i].op
      BY <1>2, <3>0 DEF Request
    <3> HIDE DEF q
    <3> QED BY <1>1, <3>1, <3>2, <3>3, <3>4, RequestIs
  <2> QED BY <1>1, <1>3, <1>4, <2>1, <2>2, GoesOn DEF WithAgent, Copying, Starting
<1> QED BY <1>5, <1>6 DEF StopRecover

\* The agent of the copy is the row's: it has no holder from now on, and no
\* worker runs for it.
LEMMA ReleaseSInv ==
  ASSUME SInv, IInv', NEW i \in Handlers, StopRelease(i)
  PROVE  SInv'
<1>1. /\ ~Idle(i) /\ req[i].op # "start" /\ req[i].at = "release"
      /\ agentOf' = agentOf /\ crashes' = crashes /\ row' = row /\ worker' = worker /\ s3' = s3
      /\ orphans' = orphans /\ nrec' = nrec
      /\ Goto(i, "update") /\ busy' = busy \ {req[i].agent}
  BY DEF StopRelease, Stopping, Idle, dbVars, workerVars, counters, Release
<1>2. /\ req[i].room \in Rooms /\ CopyOK(i) /\ GoneOK(i) /\ req[i].rec # 0
      /\ \A k \in Handlers : k # i /\ ~Idle(k) => req[k].room # req[i].room
  BY <1>1, AtWork DEF WithRec
<1>3. PICK rm \in Rooms : rm = req[i].room
  BY <1>2
<1>4. /\ \A k \in Handlers : k # i => req'[k] = req[k]
      /\ req'[i].at = "update" /\ req'[i].room = rm /\ req'[i].op = req[i].op
      /\ req'[i].rec = req[i].rec /\ req'[i].agent = req[i].agent
      /\ req'[i].url = req[i].url /\ req'[i] # None
  <2>1. "update" \in Steps
    BY DEF Steps
  <2> QED BY <1>1, <1>3, <2>1, GotoIs
<1>5. row[rm].rec = req[i].rec /\ row[rm].agent = req[i].agent
  BY <1>1, <1>2, <1>3 DEF CopyOK, Copying
<1>6. /\ ~RowHolds(rm)' /\ RowHolds(rm)
      /\ \A x \in Rooms : x # rm => (RowHolds(x)' <=> RowHolds(x))
  <2>1. Released(rm)' /\ ~Released(rm)
    BY <1>1, <1>2, <1>3, <1>4 DEF Released, Idle
  <2>2. \A x \in Rooms : x # rm => (Released(x)' <=> Released(x))
    BY <1>1, <1>3, <1>4 DEF Released, Idle
  <2> QED BY <1>1, <1>2, <1>5, <2>1, <2>2 DEF RowHolds
<1>7. \A k \in Handlers : /\ StartHolds(k)' <=> StartHolds(k)
                          /\ Committing(k)' <=> Committing(k)
                          /\ req'[k].agent = req[k].agent /\ req'[k].rec = req[k].rec
  BY <1>1, <1>4 DEF StartHolds, Committing, Idle, WithAgent
<1>8. worker[req[i].rec] # "running"
  BY <1>1, <1>2 DEF GoneOK
<1>b. /\ row' = row /\ busy' = busy \ {row[rm].agent}
      /\ worker' = worker /\ agentOf' = agentOf /\ orphans' = orphans
  BY <1>1, <1>5
<1>9. WorkerHeld'
  BY <1>b, <1>5, <1>6, <1>7, <1>8 DEF SInv, WorkerHeld
<1>10. BusyHeld'
  BY <1>b, <1>6, <1>7 DEF SInv, BusyHeld
<1>11. HoldersDiffer'
  <2> SUFFICES ASSUME crashes' = 0
               PROVE  /\ \A y \in Rooms : RowHolds(y)' => row'[y].agent \in busy'
                      /\ \A x \in Handlers : StartHolds(x)' => req'[x].agent \in busy'
                      /\ \A x, y \in Rooms :
                            RowHolds(x)' /\ RowHolds(y)' /\ row'[x].agent = row'[y].agent => x = y
                      /\ \A x, k \in Handlers :
                            StartHolds(x)' /\ StartHolds(k)' /\ req'[x].agent = req'[k].agent
                                => x = k
                      /\ \A y \in Rooms, x \in Handlers :
                            RowHolds(y)' /\ StartHolds(x)' => row'[y].agent # req'[x].agent
    BY DEF HoldersDiffer
  <2>1. HoldersDiffer /\ crashes = 0
    BY <1>1 DEF SInv
  <2> QED BY <1>b, <1>6, <1>7, <2>1 DEF HoldersDiffer
<1>12. CopyOK(i)' /\ GoneOK(i)'
  BY <1>1, <1>2, <1>3, <1>4 DEF CopyOK, GoneOK, Copying, Starting
<1>13. OnePerRoom' /\ Copies'
  <2>1. KnownStop
    BY <1>1 DEF KnownStop
  <2> QED BY <1>1, <1>2, <1>3, <1>4, <1>12, <2>1, CopiesFrame DEF SameRow
<1>14. Spawned' /\ OrphansDiffer'
  BY <1>1, <1>b, <1>6, <1>7 DEF SInv, Spawned, OrphansDiffer
<1> QED BY <1>9, <1>10, <1>11, <1>13, <1>14 DEF SInv

\* What the update of a stop does: the row still names the recording.
LEMMA UpdateIs ==
  ASSUME SInv, NEW i \in Handlers, StopUpdate(i)
  PROVE  /\ ~Idle(i) /\ req[i].op # "start" /\ req[i].at = "update"
         /\ req[i].room \in Rooms /\ req[i].rec \in Recs /\ req[i].rec # 0
         /\ row[req[i].room].rec = req[i].rec
         /\ row'[req[i].room].rec = 0
         /\ \A x \in Rooms : x # req[i].room => row'[x] = row[x]
         /\ saved' = [saved EXCEPT ![req[i].rec] = IF req[i].url THEN @ + 1 ELSE @]
<1>1. ~Idle(i) /\ req[i].op # "start" /\ req[i].at = "update"
  BY DEF StopUpdate, Stopping, Idle
<1>2. CopyOK(i) /\ req[i].room \in Rooms /\ req[i].rec \in Recs /\ req[i].rec # 0
  BY <1>1, AtWork DEF WithRec
<1>3. row[req[i].room].rec = req[i].rec
  BY <1>1, <1>2 DEF CopyOK, Copying
<1>4. /\ row' = [row EXCEPT ![req[i].room] = Cleared(row[req[i].room])]
      /\ saved' = [saved EXCEPT ![req[i].rec] = IF req[i].url THEN @ + 1 ELSE @]
  BY <1>3 DEF StopUpdate, StillCurrent
<1>5. row \in [Rooms -> Row] /\ Cleared(row[req[i].room]).rec = 0
  BY <1>2, ClearedRow DEF SInv, IInv, TypeOK
<1> QED BY <1>1, <1>2, <1>3, <1>4, <1>5

LEMMA UpdateSInv ==
  ASSUME SInv, IInv', NEW i \in Handlers, StopUpdate(i)
  PROVE  SInv'
<1>1. /\ ~Idle(i) /\ req[i].op # "start" /\ req[i].at = "update" /\ Calm
  BY UpdateIs DEF StopUpdate, Calm, workerVars, counters
<1>2. PICK rm \in Rooms : rm = req[i].room
  BY UpdateIs
<1>3. row'[rm].rec = 0 /\ \A x \in Rooms : x # rm => row'[x] = row[x]
  BY <1>2, UpdateIs
<1>4. /\ \A k \in Handlers : k # i /\ ~Idle(k) => req[k].room # rm /\ req[k].room \in Rooms
      /\ req[i].op \in Ops
  BY <1>1, <1>2, AtWork
<1>5. Finish(i) \/ \E step \in {"upstream", "status"} : Goto(i, step)
  BY <1>1, <1>4 DEF StopUpdate, AfterStop, Ops
<1>6. /\ \A k \in Handlers : k # i => req'[k] = req[k]
      /\ req'[i] # None => req'[i].at \in {"upstream", "status"} /\ req'[i].room = rm
  <2>1. {"upstream", "status"} \subseteq Steps
    BY DEF Steps
  <2> QED BY <1>1, <1>2, <1>5, <2>1, GotoIs, FinishIs
<1>7. \A x \in Rooms : RowHolds(x)' <=> RowHolds(x)
  <2>1. \A x \in Rooms : x # rm => (Released(x)' <=> Released(x))
    BY <1>1, <1>2, <1>6 DEF Released, Idle
  <2>2. Released(rm)
    BY <1>1, <1>2 DEF Released
  <2> QED BY <1>3, <2>1, <2>2 DEF RowHolds
<1>8. \A x \in Rooms : RowHolds(x) => SameRow(x)
  <2>1. ~RowHolds(rm)
    BY <1>1, <1>2 DEF RowHolds, Released
  <2> QED BY <1>3, <2>1 DEF SameRow
<1>9. \A k \in Handlers :
            /\ StartHolds(k)' <=> StartHolds(k)
            /\ StartHolds(k) => req'[k].agent = req[k].agent
            /\ Committing(k)' <=> Committing(k)
            /\ Committing(k) => req'[k].rec = req[k].rec
  BY <1>1, <1>6 DEF StartHolds, Committing, Idle, WithAgent
<1>10. WorkerHeld' /\ BusyHeld' /\ HoldersDiffer' /\ Spawned' /\ OrphansDiffer'
  BY <1>1, <1>7, <1>8, <1>9, CalmStops, HoldersFrame DEF Calm
<1>11. ~Idle(i)' => CopyOK(i)' /\ GoneOK(i)'
  BY <1>6 DEF CopyOK, GoneOK, Copying, Starting, Idle
<1>12. OnePerRoom' /\ Copies'
  <2>1. KnownStop
    BY <1>1 DEF KnownStop, Calm
  <2>2. /\ \A k \in Handlers : k # i => req'[k] = req[k] /\ (~Idle(k) => SameRow(req[k].room))
        /\ ~Idle(i)' => \A k \in Handlers : k # i /\ ~Idle(k) => req[k].room # req'[i].room
    BY <1>3, <1>4, <1>6 DEF SameRow, Idle
  <2> QED BY <1>11, <2>1, <2>2, CopiesFrame
<1> QED BY <1>10, <1>12 DEF SInv

\* What ends the room after the stop.
LEMMA EndSInv ==
  ASSUME SInv, IInv', NEW i \in Handlers, EndUpstream(i) \/ SetEnded(i)
  PROVE  SInv'
<1>1. ~Idle(i) /\ req[i].op # "start" /\ req[i].at \in {"upstream", "status"} /\ Calm
  BY DEF EndUpstream, SetEnded, At, Stopping, Idle, Calm, dbVars, workerVars, counters
<1>2. req[i].room \in Rooms
  BY <1>1, AtWork
<1>3. WorkersStop /\ \A x \in Rooms : SameRow(x)
  BY <1>1, <1>2, EndedSame, CalmStops DEF EndUpstream, SetEnded, SameRow, SInv, dbVars
<1>4. CASE Finish(i)
  BY <1>1, <1>3, <1>4, FinishIs, Done DEF Calm, WithAgent
<1>5. CASE Goto(i, "status")
  <2>1. "status" \in Steps
    BY DEF Steps
  <2> QED BY <1>1, <1>3, <1>5, <2>1, GotoIs, GoesOn DEF Calm, WithAgent, Copying, Starting
<1> QED BY <1>4, <1>5 DEF EndUpstream, SetEnded

-----------------------------------------------------------------------------
(* The environment, and the theorems.                                      *)

LEMMA WorkerSInv ==
  ASSUME SInv, IInv', NEW r \in Recs, Checkpoint(r) \/ SelfFinalize(r) \/ WorkerCrash(r)
  PROVE  SInv'
<1>1. /\ busy' = busy /\ agentOf' = agentOf /\ crashes' = crashes /\ req' = req /\ row' = row
      /\ orphans' = orphans /\ nrec' = nrec
      /\ worker[r] = "running"
  BY DEF Checkpoint, SelfFinalize, WorkerCrash, dbVars, counters
<1>2. /\ worker' = worker \/ worker' = [worker EXCEPT ![r] = "gone"]
      /\ \E o : s3' = [s3 EXCEPT ![r] = o]
  BY DEF Checkpoint, SelfFinalize, WorkerCrash, EndsBadly
<1>3. WorkersStop
  BY <1>1, <1>2 DEF WorkersStop, SInv, IInv, TypeOK
<1> QED BY <1>1, <1>3, WaitFrame

\* After a restart nobody works, nothing runs and nothing is dispatched.
LEMMA RestartSInv ==
  ASSUME SInv, IInv', Restart
  PROVE  SInv'
<1>1. \A i \in Handlers : Idle(i)'
  BY DEF Restart, Idle
<1>2. busy' = {} /\ crashes' # 0
  BY ConstantsAssumption DEF Restart, SInv, IInv, TypeOK
<1>3. \A r \in Recs : worker'[r] # "running"
  BY DEF Restart
<1>4. OnePerRoom' /\ Copies'
  BY <1>1 DEF OnePerRoom, Copies
<1>5. WorkerHeld' /\ BusyHeld' /\ HoldersDiffer'
  BY <1>2, <1>3 DEF WorkerHeld, BusyHeld, HoldersDiffer
<1>6. Spawned' /\ OrphansDiffer'
  BY <1>1, <1>2 DEF Restart, SInv, Spawned, OrphansDiffer, Committing
<1> QED BY <1>4, <1>5, <1>6 DEF SInv

LEMMA InitSInv == Init => SInv
<1> SUFFICES ASSUME Init PROVE SInv
  OBVIOUS
<1>1. IInv
  BY InitIInv
<1>2. OnePerRoom /\ Copies
  BY DEF Init, OnePerRoom, Copies, Idle
<1>3. WorkerHeld /\ BusyHeld
  BY DEF Init, WorkerHeld, BusyHeld
<1>4. HoldersDiffer
  <2>1. \A rm \in Rooms : ~RowHolds(rm)
    BY DEF Init, RowHolds
  <2>2. \A i \in Handlers : ~StartHolds(i)
    BY DEF Init, StartHolds, Idle
  <2> QED BY <2>1, <2>2 DEF HoldersDiffer
<1>5. Spawned /\ OrphansDiffer
  BY DEF Init, Spawned, OrphansDiffer, Committing, Idle
<1> QED BY <1>1, <1>2, <1>3, <1>4, <1>5 DEF SInv

LEMMA NextSInv ==
  ASSUME Serial
  PROVE  SInv /\ [Next]_vars => SInv'
<1> SUFFICES ASSUME SInv, [Next]_vars PROVE SInv'
  OBVIOUS
<1>0. IInv'
  BY NextIInv DEF SInv
<1>1. ASSUME NEW i \in Slots, NEW rm \in Rooms,
             StartBegin(i, rm) \/ StopBegin(i, rm) \/ EndBegin(i, rm)
      PROVE  SInv'
  BY <1>0, <1>1, BeginSInv
<1>2. CASE (\E rm \in Rooms : DropBegin(rm)) \/ DropPeek
  BY <1>0, <1>2, DropSInv
<1>3. ASSUME NEW i \in Handlers, StartStep(i)
      PROVE  SInv'
  BY <1>0, <1>3, PeekLockSInv, PickSInv, JoinSInv, SpawnSInv, CommitSInv DEF StartStep
<1>4. ASSUME NEW i \in Handlers, StopStep(i)
      PROVE  SInv'
  <2>1. ~StopCollide(i)
    <3> SUFFICES ASSUME StopCollide(i) PROVE FALSE
      OBVIOUS
    <3>1. ~Idle(i) /\ req[i].at = "collide"
      BY DEF StopCollide, Stopping, Idle
    <3> QED BY <3>1, AtWork DEF CopyOK
  <2> QED BY <1>0, <1>4, <2>1, SignalSInv, AnswerSInv, RecoverSInv, ReleaseSInv, UpdateSInv,
             EndSInv DEF StopStep
<1>5. ASSUME NEW r \in Recs, Checkpoint(r) \/ SelfFinalize(r) \/ WorkerCrash(r)
      PROVE  SInv'
  BY <1>0, <1>5, WorkerSInv
<1>6. CASE (\E rm \in Rooms : UpstreamEnds(rm)) \/ UNCHANGED vars
  <2>1. Calm /\ req' = req /\ row' = row
    BY <1>6 DEF UpstreamEnds, vars, Calm, dbVars, workerVars, counters
  <2> QED BY <1>0, <2>1, CalmStops, WaitFrame DEF Calm
<1>7. CASE Restart
  BY <1>0, <1>7, RestartSInv
<1> QED BY <1>1, <1>2, <1>3, <1>4, <1>5, <1>6, <1>7 DEF Next

\* The invariant of serial handling is inductive.
THEOREM SerialInvariance ==
  ASSUME Serial
  PROVE  Spec => []SInv
<1>1. SInv /\ [Next]_vars => SInv'
  BY NextSInv
<1> QED BY <1>1, InitSInv, PTL DEF Spec

\* Until a restart no agent FID is in two rooms: two workers that run for the
\* same agent have two holders of it.
THEOREM AgentsExclusive ==
  ASSUME Serial
  PROVE  Spec => []AgentExclusive
<1>1. SInv => AgentExclusive
  <2> SUFFICES ASSUME SInv, crashes = 0, NEW r \in Recs, NEW q \in Recs,
                      worker[r] = "running", worker[q] = "running", agentOf[r] = agentOf[q]
               PROVE  r = q
    BY DEF AgentExclusive
  <2>1. \A k \in Handlers : Committing(k) => StartHolds(k)
    BY DEF Committing, StartHolds, WithAgent
  <2> QED BY <2>1 DEF SInv, WorkerHeld, HoldersDiffer, OrphansDiffer
<1> QED BY <1>1, SerialInvariance, PTL

\* While what concerns a room runs one after the other, starts that fail before
\* their worker runs, stops, drops and lost workers give their agents back: when
\* all is quiet an agent that is dispatched is the one of a row, or of a start
\* that failed after its spawn.
THEOREM PoolComplete ==
  ASSUME Serial
  PROVE  Spec => []LeakOnlyAfterSpawn
<1>1. SInv => LeakOnlyAfterSpawn
  BY DEF SInv, BusyHeld, LeakOnlyAfterSpawn, StartHolds
<1> QED BY <1>1, SerialInvariance, PTL

\* A row takes a recording by a start's commit, and gives it up by a stop's
\* update.
LEMMA RowChanges ==
  ASSUME SInv, [Next]_vars, NEW rm \in Rooms, row'[rm].rec # row[rm].rec
  PROVE  \E i \in Handlers : StartCommit(i) \/ StopUpdate(i)
<1> SUFFICES ASSUME \A i \in Handlers : ~StartCommit(i) /\ ~StopUpdate(i)
             PROVE  FALSE
  OBVIOUS
<1>1. CASE row' = row
  BY <1>1
<1>2. CASE \E x \in Rooms : row' = [row EXCEPT ![x].status = "ended"]
  BY <1>2, EndedSame DEF SInv, SameRow
<1>3. ASSUME NEW i \in Handlers, StartStep(i) \/ StopStep(i)
      PROVE  row' = row \/ \E x \in Rooms : row' = [row EXCEPT ![x].status = "ended"]
  <2>1. ~Idle(i)
    BY <1>3 DEF StartStep, StopStep, StartPeek, StartLock, StartPick, StartJoin, StartSpawn,
                StartCommit, StopSignal, StopAnswer, StopCollide, StopRecover, StopRelease,
                StopUpdate, EndUpstream, SetEnded, At, Stopping, Idle
  <2>2. req[i].room \in Rooms
    BY <2>1, AtWork
  <2>3. CASE StartStep(i)
    BY <2>2, <2>3 DEF StartStep, StartPeek, StartLock, StartPick, StartJoin, StartSpawn
  <2>4. CASE StopStep(i)
    BY <2>2, <2>4 DEF StopStep, StopSignal, StopAnswer, StopCollide, StopRecover,
                      StopRelease, EndUpstream, SetEnded, dbVars
  <2> QED BY <1>3, <2>3, <2>4
<1>4. CASE ~\E i \in Handlers : StartStep(i) \/ StopStep(i)
  <2>1. row' = row
    BY <1>4 DEF Next, vars, StartBegin, StopBegin, EndBegin, DropBegin, DropPeek,
                UpstreamEnds, Checkpoint, SelfFinalize, WorkerCrash, Restart, dbVars
  <2> QED BY <1>1, <2>1
<1> QED BY <1>1, <1>2, <1>3, <1>4

\* What a commit does: nothing to the rows, or its row named nothing.
LEMMA CommitIs ==
  ASSUME SInv, NEW i \in Handlers, StartCommit(i)
  PROVE  \/ row' = row
         \/ /\ req[i].room \in Rooms /\ row[req[i].room].rec = 0
            /\ \A x \in Rooms : x # req[i].room => row'[x] = row[x]
<1>1. ~Idle(i) /\ req[i].at = "commit"
  BY DEF StartCommit, At, Idle
<1>2. req[i].room \in Rooms /\ CopyOK(i)
  BY <1>1, AtWork
<1> QED BY <1>1, <1>2 DEF StartCommit, CopyOK, Starting, SInv, IInv, TypeOK

\* A row gives up a recording when it is saved, or when nothing of it is in S3:
\* with probes of S3 that answer, checkpoints and self-finalized objects are
\* linked, whatever crashed before.
THEOREM NoAudioLost ==
  ASSUME Serial, ~S3MayFail
  PROVE  Spec => AudioLinked
<1> DEFINE Linked == \A rm \in Rooms : LET r == row[rm].rec IN
                        r # 0 /\ row'[rm].rec # r => saved'[r] = 1 \/ s3'[r] = "none"
<1>1. SInv /\ [Next]_vars => Linked
  <2> SUFFICES ASSUME SInv, [Next]_vars, NEW rm \in Rooms, row[rm].rec # 0,
                      row'[rm].rec # row[rm].rec
               PROVE  saved'[row[rm].rec] = 1 \/ s3'[row[rm].rec] = "none"
    OBVIOUS
  <2>1. PICK i \in Handlers : StartCommit(i) \/ StopUpdate(i)
    BY RowChanges
  <2>2. ~StartCommit(i)
    BY CommitIs
  <2>3. /\ ~Idle(i) /\ req[i].at = "update" /\ rm = req[i].room
        /\ req[i].rec \in Recs /\ row[rm].rec = req[i].rec
        /\ saved' = [saved EXCEPT ![req[i].rec] = IF req[i].url THEN @ + 1 ELSE @]
    BY <2>1, <2>2, UpdateIs
  <2>4. req[i].url \/ s3[req[i].rec] = "none"
    BY <2>3, AtWork DEF GoneOK
  <2>5. s3' = s3
    BY <2>1, <2>2 DEF StopUpdate, workerVars
  <2>6. saved[req[i].rec] = 0
    BY <2>3 DEF SInv, IInv, NamedOnce, TypeOK
  <2>7. req[i].url => saved'[req[i].rec] = 1
    BY <2>3, <2>6 DEF SInv, IInv, TypeOK
  <2> QED BY <2>3, <2>4, <2>5, <2>7
<1>2. [Next]_vars /\ SInv => [Linked]_vars
  BY <1>1
<1> HIDE DEF Linked
<1>3. Spec => [][Linked]_vars
  BY <1>2, SerialInvariance, PTL DEF Spec
<1> QED BY <1>3 DEF AudioLinked, Linked

=============================================================================
