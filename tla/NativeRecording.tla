--------------------------- MODULE NativeRecording ---------------------------
(***************************************************************************)
(* Recording of Farcaster-native rooms: room_service.py starts and stops a *)
(* recording, farcaster_spaces_service.py keeps the pool of agent FIDs,    *)
(* recording_agent_service.py the registry of worker processes,            *)
(* native_rooms_reconciler.py drops rooms that ended upstream, and the     *)
(* end route of routers/rooms.py ends one.  The worker writes to S3.       *)
(*                                                                         *)
(* The pool and the registry live in the memory of the one backend         *)
(* process, the room row in the database, the audio in S3.  Requests and   *)
(* the reconciler read the row once, await the upstream service, the       *)
(* worker and S3, and write at the end.                                    *)
(***************************************************************************)
EXTENDS Naturals, FiniteSets

CONSTANTS
    Rooms,      \* native rooms
    Agents,     \* recording-agent FIDs of the pool
    Slots,      \* concurrent request handlers
    Reconciler, \* the reconciler's task
    Serial,     \* TRUE: what concerns one room runs one after the other
    S3MayFail,  \* TRUE: a probe of S3 may fail
    MaxReq,     \* bound: number of requests, hence of recordings
    MaxFail,    \* bound: failures of upstream, worker or S3
    MaxCrash,   \* bound: restarts of the backend
    None        \* no request, no agent, no lock holder

ASSUME ConstantsAssumption ==
    /\ Reconciler \notin Slots
    /\ Serial \in BOOLEAN /\ S3MayFail \in BOOLEAN
    /\ MaxReq \in Nat /\ MaxFail \in Nat /\ MaxCrash \in Nat
    /\ None \notin Agents

Handlers == Slots \cup {Reconciler}
Recs == 1..MaxReq

VARIABLES
    row,        \* rooms table: status, recording_id (0: not recording), agent
    saved,      \* saved[r]: rows of the recordings table for recording r
    lock,       \* holder of the row lock (FOR UPDATE), or None
    upstream,   \* the room at Farcaster: "live" or "ended"
    busy,       \* _agent_busy: agents that are dispatched
    active,     \* _active: recordings with a worker handle
    worker,     \* worker process: "none", "running" or "gone"
    agentOf,    \* agent FID the worker joined with
    orphans,    \* history: recordings whose start failed after the spawn
    s3,         \* "none", "parts" (checkpoints only) or "object"
    req,        \* what each handler is doing, or None
    nrec, reqs, fails, crashes  \* counters

vars == <<row, saved, lock, upstream, busy, active, worker, agentOf, orphans,
          s3, req, nrec, reqs, fails, crashes>>
dbVars == <<row, saved, lock>>
workerVars == <<active, worker, agentOf, orphans, s3, nrec>>
counters == <<reqs, crashes>>

\* recording_id and the agent of the metadata are set and cleared together.
Row == {w \in [status : {"active", "ended"}, rec : 0..MaxReq, agent : Agents \cup {None}] :
            w.rec = 0 <=> w.agent = None}
Ops == {"start", "stop", "end", "drop"}
Steps == {"peek", "lock", "pick", "join", "spawn", "commit", "signal", "wait",
          "collide", "recover", "release", "update", "upstream", "status"}
Request == [op : Ops, room : Rooms, at : Steps, rec : 0..MaxReq,
            agent : Agents \cup {None}, url : BOOLEAN]

ASSUME NoneAssumption == None \notin Request

Init ==
    /\ row = [rm \in Rooms |-> [status |-> "active", rec |-> 0, agent |-> None]]
    /\ saved = [r \in Recs |-> 0]
    /\ lock = [rm \in Rooms |-> None]
    /\ upstream = [rm \in Rooms |-> "live"]
    /\ busy = {} /\ active = {}
    /\ worker = [r \in Recs |-> "none"]
    /\ agentOf = [r \in Recs |-> None]
    /\ orphans = {}
    /\ s3 = [r \in Recs |-> "none"]
    /\ req = [i \in Handlers |-> None]
    /\ nrec = 0 /\ reqs = 0 /\ fails = 0 /\ crashes = 0

-----------------------------------------------------------------------------
(* Handlers. *)

Idle(i) == req[i] = None
At(i, op, step) == req[i] # None /\ req[i].op = op /\ req[i].at = step
Stopping(i, step) == req[i] # None /\ req[i].op # "start" /\ req[i].at = step

\* The row is read once; what the request knows of it is this copy.
Load(i, op, rm, step) ==
    /\ Idle(i)
    /\ Serial => ~\E k \in Handlers : ~Idle(k) /\ req[k].room = rm
    /\ req' = [req EXCEPT ![i] =
                [op |-> op, room |-> rm, at |-> step, rec |-> row[rm].rec,
                 agent |-> row[rm].agent, url |-> FALSE]]

Begin(i, op, rm, step) ==
    /\ i \in Slots
    /\ reqs < MaxReq
    /\ reqs' = reqs + 1
    /\ Load(i, op, rm, step)
    /\ UNCHANGED crashes

Goto(i, step) == req' = [req EXCEPT ![i].at = step]
Finish(i) == req' = [req EXCEPT ![i] = None]

\* A row lock that is held delays everybody else's UPDATE.
Unlocked(rm) == lock[rm] = None

Fail == fails < MaxFail /\ fails' = fails + 1

-----------------------------------------------------------------------------
(* _start_native_recording *)

StartBegin(i, rm) ==
    /\ row[rm].status = "active"
    /\ Begin(i, "start", rm, "peek")
    /\ UNCHANGED <<dbVars, upstream, busy, workerVars, fails>>

\* get_room: a room that ended upstream ends here; an error is ignored.
StartPeek(i) ==
    LET rm == req[i].room IN
    /\ At(i, "start", "peek")
    /\ \/ /\ upstream[rm] = "ended"
          /\ Unlocked(rm)
          /\ row' = [row EXCEPT ![rm].status = "ended"]
          /\ Finish(i)
          /\ UNCHANGED fails
       \/ upstream[rm] = "live" /\ Goto(i, "lock") /\ UNCHANGED <<row, fails>>
       \/ Fail /\ Goto(i, "lock") /\ UNCHANGED row
    /\ UNCHANGED <<saved, lock, upstream, busy, workerVars, counters>>

\* The row is locked.  The session already holds the object, so the SELECT
\* leaves its attributes as they were loaded: the check uses the copy.
AlreadyRecording(i) == req[i].rec # 0

StartLock(i) ==
    LET rm == req[i].room IN
    /\ At(i, "start", "lock")
    /\ Unlocked(rm)
    /\ \/ AlreadyRecording(i) /\ Finish(i) /\ UNCHANGED lock
       \/ /\ ~AlreadyRecording(i)
          /\ lock' = [lock EXCEPT ![rm] = i]
          /\ Goto(i, "pick")
    /\ UNCHANGED <<row, saved, upstream, busy, workerVars, fails, counters>>

Unlock(rm) == lock' = [lock EXCEPT ![rm] = None]

BugAvailable == Agents   \* Mutant: the busy bits are not looked at.
Available == Agents \ busy

\* pick_available_recording_agent: no free agent, or a failed mint, ends the
\* request.
StartPick(i) ==
    /\ At(i, "start", "pick")
    /\ \/ \E a \in Available :
            /\ busy' = busy \cup {a}
            /\ req' = [req EXCEPT ![i].agent = a, ![i].at = "join"]
            /\ UNCHANGED <<lock, fails>>
       \/ /\ Available = {}
          /\ Finish(i) /\ Unlock(req[i].room)
          /\ UNCHANGED <<busy, fails>>
       \/ Fail /\ Finish(i) /\ Unlock(req[i].room) /\ UNCHANGED busy
    /\ UNCHANGED <<row, saved, upstream, workerVars, counters>>

\* release_recording_agent
Release(a) == busy' = busy \ {a}

\* A refused or failed call gives the agent back and rolls back.
GiveUp(i) ==
    /\ Release(req[i].agent)
    /\ Unlock(req[i].room)
    /\ Finish(i)

\* join_room_as_listener with the agent's bearer.  A 4xx is taken to mean that
\* the room ended, whatever it was about; the row's update follows a rollback
\* that expired the room object, so it may fail as well.
StartJoin(i) ==
    LET rm == req[i].room IN
    /\ At(i, "start", "join")
    /\ \/ upstream[rm] = "live" /\ Goto(i, "spawn") /\ UNCHANGED <<row, lock, busy, fails>>
       \/ upstream[rm] = "ended" /\ GiveUp(i)
            /\ row' \in {row, [row EXCEPT ![rm].status = "ended"]} /\ UNCHANGED fails
       \/ Fail /\ GiveUp(i) /\ row' \in {row, [row EXCEPT ![rm].status = "ended"]}
    /\ UNCHANGED <<saved, upstream, workerVars, counters>>

\* recording_agent.start_recording: the worker has reported "started".
StartSpawn(i) ==
    LET r == nrec + 1 IN
    /\ At(i, "start", "spawn")
    /\ \/ /\ nrec < MaxReq   \* always: every recording had its request
          /\ nrec' = r
          /\ worker' = [worker EXCEPT ![r] = "running"]
          /\ agentOf' = [agentOf EXCEPT ![r] = req[i].agent]
          /\ active' = active \cup {r}
          /\ req' = [req EXCEPT ![i].rec = r, ![i].at = "commit"]
          /\ UNCHANGED <<lock, busy, fails>>
       \/ Fail /\ GiveUp(i) /\ UNCHANGED <<active, worker, agentOf, nrec>>
    /\ UNCHANGED <<row, saved, upstream, orphans, s3, counters>>

\* The row is updated, Redis told and the transaction committed.  An error in
\* any of the three rolls back and ends the request; nothing releases the agent
\* or stops the worker, and no row names them.
StartCommit(i) ==
    LET rm == req[i].room IN
    /\ At(i, "start", "commit")
    /\ \/ /\ row' = [row EXCEPT ![rm].rec = req[i].rec, ![rm].agent = req[i].agent]
          /\ UNCHANGED <<orphans, fails>>
       \/ /\ Fail
          /\ orphans' = orphans \cup {req[i].rec}
          /\ UNCHANGED row
    /\ Unlock(rm)
    /\ Finish(i)
    /\ UNCHANGED <<saved, upstream, busy, active, worker, agentOf, s3, nrec,
                   counters>>

-----------------------------------------------------------------------------
(* Stopping.  The host, an administrator and the shutdown drain stop a     *)
(* recording ("stop"); the end route ("end") and the reconciler ("drop")   *)
(* stop it on the way to ending the room.                                  *)

StopBegin(i, rm) ==
    /\ row[rm].rec # 0
    /\ Begin(i, "stop", rm, "signal")
    /\ UNCHANGED <<dbVars, upstream, busy, workerVars, fails>>

\* end_native_room: a stop refused by the rate limit does not hold it up.
EndBegin(i, rm) ==
    /\ row[rm].status = "active"
    /\ \/ row[rm].rec # 0 /\ Begin(i, "end", rm, "signal")
       \/ Begin(i, "end", rm, "upstream")
    /\ UNCHANGED <<dbVars, upstream, busy, workerVars, fails>>

\* reconcile_once selects the active rooms, then asks upstream about each.
DropBegin(rm) ==
    /\ row[rm].status = "active"
    /\ Load(Reconciler, "drop", rm, "peek")
    /\ UNCHANGED <<dbVars, upstream, busy, workerVars, fails, counters>>

\* Mutant: a room that records is left alone.
BugRoomGone(i) == upstream[req[i].room] = "ended" /\ req[i].rec = 0
RoomGone(i) == upstream[req[i].room] = "ended"

DropPeek ==
    LET i == Reconciler IN
    /\ At(i, "drop", "peek")
    /\ \/ /\ RoomGone(i)
          /\ Goto(i, IF req[i].rec # 0 THEN "signal" ELSE "status")
          /\ UNCHANGED fails
       \/ ~RoomGone(i) /\ Finish(i) /\ UNCHANGED fails
       \/ Fail /\ Finish(i)
    /\ UNCHANGED <<dbVars, upstream, busy, workerVars, counters>>

\* What follows the stop: nothing, the upstream end, or the status.
AfterStop(i) ==
    CASE req[i].op = "stop" -> Finish(i)
      [] req[i].op = "end" -> Goto(i, "upstream")
      [] req[i].op = "drop" -> Goto(i, "status")

Reading(r) == \E k \in Handlers : ~Idle(k) /\ req[k].rec = r /\ req[k].at = "wait"

\* RecordingAgentService.stop_recording: without a handle it fails at once; a
\* second reader of the worker's stdout fails too.
StopSignal(i) ==
    LET r == req[i].rec IN
    /\ Stopping(i, "signal")
    /\ Goto(i, IF r \notin active THEN "recover"
               ELSE IF Reading(r) THEN "collide" ELSE "wait")
    /\ UNCHANGED <<dbVars, upstream, busy, workerVars, fails, counters>>

\* A worker that ends badly was killed, before or after it had written the
\* object, or aborted its upload because of an error.
EndsBadly(r) ==
    /\ worker' = [worker EXCEPT ![r] = "gone"]
    /\ \E o \in {s3[r], "none", "object"} : s3' = [s3 EXCEPT ![r] = o]

\* The worker finalizes; or it reports an error, is too slow and is killed, or
\* had already exited, and S3 is asked.
StopAnswer(i) ==
    LET r == req[i].rec IN
    /\ Stopping(i, "wait")
    /\ active' = active \ {r}
    /\ \/ /\ worker[r] = "running"
          /\ worker' = [worker EXCEPT ![r] = "gone"]
          /\ s3' = [s3 EXCEPT ![r] = "object"]
          /\ req' = [req EXCEPT ![i].url = TRUE, ![i].at = "release"]
          /\ UNCHANGED fails
       \/ /\ worker[r] = "running"
          /\ Fail
          /\ EndsBadly(r)
          /\ Goto(i, "recover")
       \/ /\ worker[r] = "gone"
          /\ Goto(i, "recover")
          /\ UNCHANGED <<worker, s3, fails>>
    /\ UNCHANGED <<dbVars, upstream, busy, agentOf, orphans, nrec, counters>>

\* Mutant: the handle is dropped and the worker lives on.
BugStopCollide(i) ==
    /\ Stopping(i, "collide")
    /\ active' = active \ {req[i].rec}
    /\ AfterStop(i)
    /\ UNCHANGED <<dbVars, upstream, busy, worker, agentOf, orphans, s3, nrec,
                   fails, counters>>

\* The second reader's error is not a RecordingAgentError: after at most five
\* seconds it kills the worker, drops the handle and leaves the rest undone.
StopCollide(i) ==
    LET r == req[i].rec IN
    /\ Stopping(i, "collide")
    /\ active' = active \ {r}
    /\ \/ worker[r] = "running" /\ EndsBadly(r)
       \/ worker[r] # "running" /\ UNCHANGED <<worker, s3>>
    /\ AfterStop(i)
    /\ UNCHANGED <<dbVars, upstream, busy, agentOf, orphans, nrec, fails, counters>>

\* Mutant: only finished objects are found.
BugRecoverable(r) == s3[r] = "object"
Recoverable(r) == s3[r] # "none"

\* _recover_recording_url_from_s3: an object is linked, an unfinished upload is
\* completed; a failing probe finds nothing.
StopRecover(i) ==
    LET r == req[i].rec IN
    /\ Stopping(i, "recover")
    /\ \/ /\ req' = [req EXCEPT ![i].url = Recoverable(r), ![i].at = "release"]
          /\ s3' = [s3 EXCEPT ![r] = IF Recoverable(r) THEN "object" ELSE @]
          /\ UNCHANGED fails
       \/ S3MayFail /\ Fail /\ Goto(i, "release") /\ UNCHANGED s3
    /\ UNCHANGED <<dbVars, upstream, busy, active, worker, agentOf, orphans, nrec,
                   counters>>

\* Mutant: the agent stays dispatched.
BugStopKeepsAgent(i) ==
    /\ Stopping(i, "release")
    /\ Goto(i, "update")
    /\ UNCHANGED <<dbVars, upstream, busy, workerVars, fails, counters>>

\* The agent of the copy is released, whoever has it now.
StopRelease(i) ==
    /\ Stopping(i, "release")
    /\ Release(req[i].agent)
    /\ Goto(i, "update")
    /\ UNCHANGED <<dbVars, upstream, workerVars, fails, counters>>

BugStillCurrent(i) == TRUE   \* Mutant: the row is matched by the room alone.
StillCurrent(i) == row[req[i].room].rec = req[i].rec

BugCleared(w) == [w EXCEPT !.rec = 0]   \* Mutant: the metadata is not cleaned.
Cleared(w) == [w EXCEPT !.rec = 0, !.agent = None]

\* The row is cleared and the recording saved if the row still names it.
StopUpdate(i) ==
    LET rm == req[i].room  r == req[i].rec IN
    /\ Stopping(i, "update")
    /\ Unlocked(rm)
    /\ \/ /\ StillCurrent(i)
          /\ row' = [row EXCEPT ![rm] = Cleared(@)]
          /\ saved' = [saved EXCEPT ![r] = IF req[i].url THEN @ + 1 ELSE @]
       \/ ~StillCurrent(i) /\ UNCHANGED <<row, saved>>
    /\ AfterStop(i)
    /\ UNCHANGED <<lock, upstream, busy, workerVars, fails, counters>>

\* end_audio_room; a 5xx ends the request and the row stays active.
EndUpstream(i) ==
    /\ At(i, "end", "upstream")
    /\ \/ /\ upstream' = [upstream EXCEPT ![req[i].room] = "ended"]
          /\ Goto(i, "status")
          /\ UNCHANGED fails
       \/ Fail /\ Finish(i) /\ UNCHANGED upstream
    /\ UNCHANGED <<dbVars, busy, workerVars, counters>>

SetEnded(i) ==
    /\ Stopping(i, "status")
    /\ Unlocked(req[i].room)
    /\ row' = [row EXCEPT ![req[i].room].status = "ended"]
    /\ Finish(i)
    /\ UNCHANGED <<saved, lock, upstream, busy, workerVars, fails, counters>>

-----------------------------------------------------------------------------
(* The environment. *)

\* The host ends the space in the Farcaster client.
UpstreamEnds(rm) ==
    /\ upstream[rm] = "live"
    /\ upstream' = [upstream EXCEPT ![rm] = "ended"]
    /\ UNCHANGED <<dbVars, busy, workerVars, req, fails, counters>>

\* The worker uploads its first full part.
Checkpoint(r) ==
    /\ worker[r] = "running" /\ s3[r] = "none"
    /\ s3' = [s3 EXCEPT ![r] = "parts"]
    /\ UNCHANGED <<dbVars, upstream, busy, active, worker, agentOf, orphans, nrec,
                   req, fails, counters>>

\* The worker is disconnected (the space ended, or the network is lost for too
\* long), finalizes by itself and exits.
SelfFinalize(r) ==
    /\ worker[r] = "running"
    /\ worker' = [worker EXCEPT ![r] = "gone"]
    /\ s3' = [s3 EXCEPT ![r] = "object"]
    /\ UNCHANGED <<dbVars, upstream, busy, active, agentOf, orphans, nrec, req,
                   fails, counters>>

WorkerCrash(r) ==
    /\ worker[r] = "running"
    /\ Fail
    /\ EndsBadly(r)
    /\ UNCHANGED <<dbVars, upstream, busy, active, agentOf, orphans, nrec, req,
                   counters>>

\* The backend's container is replaced: memory, requests, locks and workers
\* are gone.
Restart ==
    /\ crashes < MaxCrash
    /\ crashes' = crashes + 1
    /\ busy' = {} /\ active' = {}
    /\ worker' = [r \in Recs |-> IF worker[r] = "running" THEN "gone" ELSE worker[r]]
    /\ lock' = [rm \in Rooms |-> None]
    /\ req' = [i \in Handlers |-> None]
    /\ UNCHANGED <<row, saved, upstream, agentOf, orphans, s3, nrec, reqs, fails>>

StopStep(i) ==
    \/ StopSignal(i) \/ StopAnswer(i) \/ StopCollide(i) \/ StopRecover(i)
    \/ StopRelease(i) \/ StopUpdate(i) \/ EndUpstream(i) \/ SetEnded(i)
StartStep(i) ==
    \/ StartPeek(i) \/ StartLock(i) \/ StartPick(i) \/ StartJoin(i)
    \/ StartSpawn(i) \/ StartCommit(i)

Next ==
    \/ \E i \in Slots, rm \in Rooms :
        StartBegin(i, rm) \/ StopBegin(i, rm) \/ EndBegin(i, rm)
    \/ \E rm \in Rooms : DropBegin(rm)
    \/ DropPeek
    \/ \E i \in Handlers : StartStep(i) \/ StopStep(i)
    \/ \E rm \in Rooms : UpstreamEnds(rm)
    \/ \E r \in Recs : Checkpoint(r) \/ SelfFinalize(r) \/ WorkerCrash(r)
    \/ Restart

Spec == Init /\ [][Next]_vars

\* Handlers that began go on, and the reconciler comes back to every room.
FairSpec ==
    /\ Spec
    /\ \A i \in Handlers : WF_vars(StartStep(i) \/ StopStep(i))
    /\ WF_vars(DropPeek)
    /\ \A rm \in Rooms : SF_vars(DropBegin(rm))

-----------------------------------------------------------------------------
(* Properties. *)

\* Type correctness.
TypeOK ==
    /\ row \in [Rooms -> Row]
    /\ saved \in [Recs -> Nat]
    /\ lock \in [Rooms -> Handlers \cup {None}]
    /\ upstream \in [Rooms -> {"live", "ended"}]
    /\ busy \subseteq Agents /\ active \subseteq Recs
    /\ worker \in [Recs -> {"none", "running", "gone"}]
    /\ agentOf \in [Recs -> Agents \cup {None}]
    /\ orphans \subseteq Recs
    /\ s3 \in [Recs -> {"none", "parts", "object"}]
    /\ req \in [Handlers -> Request \cup {None}]
    /\ nrec \in 0..MaxReq /\ reqs \in 0..MaxReq
    /\ fails \in 0..MaxFail /\ crashes \in 0..MaxCrash

\* However many handlers stop the same recording at once, the recordings table
\* gets at most one row for it, and that row has its audio in S3.
OneRowPerRecording ==
    \A r \in Recs : saved[r] <= 1 /\ (saved[r] = 1 => s3[r] = "object")

\* S3 is asked to complete an unfinished upload only when the worker that makes
\* it is gone, so the completion cannot race the worker's own.
RecoverOnlyGone ==
    \A i \in Handlers : Stopping(i, "recover") => worker[req[i].rec] # "running"

\* An agent FID records in one room at a time, as long as the backend has not
\* restarted: the busy bits are lost then, the rows that name agents are not.
AgentExclusive ==
    crashes = 0 =>
        \A r, q \in Recs :
            worker[r] = "running" /\ worker[q] = "running" /\ agentOf[r] = agentOf[q]
                => r = q

\* The pool loses an agent in one way only: once all requests are over, an agent
\* that is dispatched is the one the row of some room names, or the one of a
\* start that failed after its worker was spawned.
LeakOnlyAfterSpawn ==
    (\A i \in Handlers : Idle(i)) =>
        busy \subseteq {row[rm].agent : rm \in Rooms} \cup {agentOf[r] : r \in orphans}

\* A recording in progress is never replaced by another: two starts do not both
\* flip the room to recording.
StartedOnce ==
    [][\A rm \in Rooms : row[rm].rec # 0 => row'[rm].rec \in {0, row[rm].rec}]_vars

\* A row gives up a recording only when it is saved or nothing of it is in S3:
\* checkpoints of a killed or lost worker and the objects of workers that
\* finalized by themselves are found, across restarts.
AudioLinked ==
    [][\A rm \in Rooms : LET r == row[rm].rec IN
        r # 0 /\ row'[rm].rec # r => saved'[r] = 1 \/ s3'[r] = "none"]_vars

\* A space that ended at Farcaster does not stay live in the database.
UpstreamEndReachesRow ==
    \A rm \in Rooms : upstream[rm] = "ended" ~> row[rm].status = "ended"

=============================================================================
