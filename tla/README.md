# TLA+ verification of Juke

Juke is a Farcaster client with live audio rooms: a FastAPI backend over
Postgres and Redis, a Node recording worker, a mobile app and a web client. The
media server (LiveKit), the Farcaster node (Hypersnap), Farcaster's own
audio-room service and S3 are external. This directory models the parts where
several processes, requests, webhooks, timers and late answers change shared
state without a transaction that spans it: in the backend, in the recording
worker and in the web client's messaging.

Contents: [inventory](#inventory), [plan](#plan), [ScheduledCasts](#scheduledcasts),
[RoomAdmission](#roomadmission), [NativeRecording](#nativerecording),
[WorkerCheckpoint](#workercheckpoint), [MessagesSocket](#messagessocket),
[MessageThread](#messagethread),
[proofs](#proofs), [disagreements with the code's comments](#disagreements),
[not modelled](#not-modelled).

To repeat the results, in this directory: `tlc -config <cfg> MC<Module>` for a
run of PROJECT.json, `tlapm <Module>_proofs.tla` for the proofs. PROJECT.json
lists the runs, the source lines behind every definition, for every property a
mutant of the model that breaks it, and the hazards the properties are for.

## Inventory

| Part | State it keeps | Operations | What is hard | What makes it correct |
|---|---|---|---|---|
| Scheduled casts (`scheduled_cast_publisher.py`, `routers/feed.py`) | table `scheduled_casts`; claims in worker memory | schedule, cancel, claim a batch, publish, record the result | several application workers, leases, timeouts after the node accepted, crashes | what is reported published is on the network, and never early; only the newest claim writes; every job settles |
| Room participants and admission (`room_service.py`, `livekit_admission_service.py`, `routers/webhooks.py`) | Redis rows, hand queue, revocation markers; tables `participants`, `bans`; LiveKit connections; join tokens | join, leave, hand, promote, demote, mute, kick, ban, refresh, `participant_joined`, `participant_left` | four stores and no common transaction; webhooks late and out of order; tokens cannot be revoked | who was removed, banned or demoted stays so |
| Recording of Farcaster-native rooms (`room_service.py`, `recording_agent_service.py`, `storage_service.py`) | `rooms.recording` and metadata, table `recordings`, registry of worker processes, S3 uploads | start, stop, admin stop, drain, recovery from S3 | five ways to stop one recording, restarts, workers that die | one row per recording, no audio lost that reached S3 |
| Agent pool (`farcaster_spaces_service.py`) | busy bits in memory | pick, release | failures between the steps of a start | an agent is in one room at a time and is given back |
| Native rooms reconciler and end route (`native_rooms_reconciler.py`, `routers/rooms.py`) | `rooms.status` | drop rooms that ended upstream, end a room | runs beside starts and stops | a space that ended upstream ends in the database |
| Room lifecycle (`room_service.py`, `routers/webhooks.py`) | `rooms.status`, timers in Redis | create, schedule, start, end, `room_finished` | the automatic end, the end request and the webhook race to send `room.finished` | the developer is told once |
| LiveKit recording by egress | egress id in Redis, table `recordings` | start, stop, `egress_ended`, cleanup | the webhook races the stop | as for native rooms |
| Recording worker (`recording_agent/worker.mjs`) | PCM and encoder buffers, multipart parts | mix, encode, checkpoint, finalize | a checkpoint under way when it has to finalize | the parts in S3 are a prefix of the recording |
| Draft publishing (`routers/drafts.py`) | table `compose_drafts`, a Redis claim | publish | the draft is loaded before the claim; the claim expires | a draft is published once |
| Direct casts relay (`direct_cast_relay.py`, `direct_cast_service.py`) | Redis lock and snapshot, sockets | poll, compare, publish events | several processes poll; a crash after the snapshot is stored | no event is lost |
| User signers (`user_signer_service.py`, `clients/key_gateway.py`) | table of signers, relayer lock, chain | prepare, register, relay | two transactions on chain and crash points between them | one key per user, nonces used once |
| Developer webhooks, push, Farcaster events | Redis deduplication keys | deliver | lost and repeated deliveries | at most once |
| Sessions and authentication | tokens, refresh table | sign in, refresh, sign out | rotation races | a used refresh token is void |
| Voice notes, uploads | files, table `voice_notes` | stage, probe, store, transcribe | a linear pipeline | - |
| Feed, search, previews, leaderboard, spam scores | caches | read | - | - |
| Web client, realtime socket (`messagesEvents.ts`, `authRefresh.ts`, `useMessagingSync.ts`) | a subscription's socket, timers, ticket request; session and JWT; `realtimeConnected` | subscribe, mint a ticket, connect, resume, give up, refresh the session | everything is answered late and may have been overtaken; remounts; sign-out during a refresh | one socket; a live subscription always comes back; what is over stays over; the page keeps its account |
| Web client, message store (`messageStore.ts`, `message-list.ts`) | the window of a conversation, optimistic sends | load, page, poll, jump, frames, send, retry, discard | answers out of order, lost and repeated frames, sends that landed and failed | nothing delivered is downgraded, nothing hangs, the newest message appears |
| Mobile client | stores, LiveKit room | join, reconnect, promote | connection loss | presence follows the server |

How they interact: requests share Postgres and Redis and nothing else (every
application worker is a process of its own); LiveKit tells the backend about
connections by webhooks, which may arrive late and in any order; the backend
tells LiveKit by API calls, which may fail and are then only logged; recording
workers are child processes with a stdin/stdout protocol, and write to S3
themselves; the publisher and the reconciler are loops inside the application
processes. `PROJECT.json` lists all components with what is modelled of them.

## Plan

Done, in this order, the most concurrent and most consequential first:

1. `ScheduledCasts`, complete, with proofs.
2. `RoomAdmission`: participants, moderation, admission; proofs of what holds
   under any concurrency, and of what holds for serial requests.
3. `NativeRecording`: recordings of native rooms with the agent pool, the
   reconciler and the end route; proofs of both kinds.
4. `WorkerCheckpoint`: the worker's multipart checkpointer, its shutdown and the
   recovery, proved to implement `RecordingObject`, which is what
   `NativeRecording` assumes of `s3` (none, then parts, then an object that is
   never replaced).
5. `MessagesSocket`: the web client's realtime connection with the session
   refresh it shares with REST calls, proved to implement `RealtimeLink`.
6. `MessageThread`: the window of an open conversation and optimistic sends;
   proofs.

Every invariant, action property and refinement that a passing run checks is a
theorem as well, some of them under the conditions their run has too (`Serial`,
`Prompt`, see [proofs](#proofs)); what remains model-checked is liveness, and the
three violations.

To do: `RoomLifecycle` (who sends `room.finished`), `DraftPublish` (the claim
against the draft that was loaded before it, `drafts.py:375` and `:387`),
`EgressRecording`, `InboxRelay`, `SignerRelay`; the inbox lists and drafts of
the message store; an abstract specification of the publisher that
`ScheduledCasts` implements, and the proof that it does.

## ScheduledCasts

### Model

`row` is the table; a worker's place in `process_once` is `pc[w]`, and `clk`,
`batch`, `cur`, `body`, `started` and `outcome` are its local variables. One action per
step between two awaits: `BeginPass` (the clock is read), `ClaimDueJobs` (one
transaction with `FOR UPDATE SKIP LOCKED`; any set of due rows may be locked by
others), `BeginAttempt`, `Sign`, `Submit`, the node's `NodeAccept` and
`NodeReject`, `ConnectionLost`, `AttemptTimesOut`, `RecordSuccess`,
`RecordLedger`, `RecordFailure`, `EndPass`; `ScheduleCast` and `CancelCast` are
the routes. The worker uses the clock it read before the transaction, however old
it is. A request outlives the worker that sent it: it stays in `inflight` until
the node takes it, and its answer may be lost. A message is a job, its
timestamp and a body, which is what its hash depends on. Text, embeds and quote
are the row's; the body is what the lookups of mentions, channel and parent author
make of them. `Sign` makes these lookups anew in every attempt, and
`LookupChanges` lets them return something else, so that two attempts on one job
may send two messages. `Crash` forgets
the worker's memory at any step; it stands for the death of the process,
`stop()` and a database error that ends the pass.

Time is a counter. With `Prompt` a tick passes only where no worker can act, so
that database work takes no time and the wait for the node takes at most the
timeout: this is the assumption behind the lease's length in the code's comment.
Without it any step may take any time.

### Runs

| Run | Instance | Shows |
|---|---|---|
| `sched_claims` | 2 workers, 1 job, 2 bodies, 2 attempts, 1 crash, clock to 5, `Prompt` off | `PublishedIsOnNetwork`, `NeverEarly`, `ClaimsDistinct`, `FailsOnlyByResult`, `TerminalIsFinal`, `SupersededWritesNothing` with arbitrary delays |
| `sched_prompt` | 2 workers, 2 jobs, batch 1, queue limit 1, 1 crash, clock to 9, `Prompt` on, fair | `AttemptHoldsLease`, `EveryJobSettles` |

One job is enough for the safety properties of the claim, which relate the
claims on one job. Two attempts give a retry and the ceiling; two bodies let a
retry differ from the attempt before it. Two ticks of lease (one attempt and the
margin) and a clock to 5 let a claim expire and be taken over. `sched_prompt` checks the lease
for batches of one job, where the margin alone keeps the last instant of an
attempt inside it; that it covers a full batch of any size is the theorem
`LeaseOutlastsBatch`. The proofs below remove the bounds for every property here
but `EveryJobSettles`.

`PublishedIsOnNetwork` compares the body the row (or the ledger) reports with the
node's messages, so a success recorded for another attempt's message would
violate it. `FailsOnlyByResult` is what the comment on stale claims asks for
(`scheduled_cast_publisher.py:186`): a takeover never fails a job whose last
attempt may have succeeded.

Fairness: each worker's loop goes on (it restarts after every exception,
`_run_forever`) and the clock advances. Nothing is assumed of the node, of users
or of crashes; the clock of `sched_prompt` runs long enough (9 ticks) for a crash,
an expired lease and all attempts.

## RoomAdmission

### Model

One room. Redis is `rows` (role and raised hand per user), `queue` and `marker`;
the database is `status`, `present` (a participants row without `left_at`) and
`banned`; the media server is `lk`; `tokens[u]` holds the publish grants of the
join tokens the client still has. A request handler in slot `i` is a record with
its operation, its target, its next step and the row it has read, because
`raise_hand`, `promote`, `demote` and `mute` write back the row they read at
the start. Each access to a store is a step of its own, in the code's order. For
a removal: marker, Redis row, media server, database, and for a ban the ban
record last. `participant_joined` takes its decision in one step (its three
reads, of ban, marker and row, are not separated) and applies it in another, to whatever connection the identity has by then; `participant_left`
changes Redis, then the database. Webhooks are a set: any order, any delay.

`ExpireToken` and `ExpireMarker` state the lifetimes as the code fixes them: the
marker's 20 minutes are more than the token's 15, so a marker outlasts every
token issued before it; it is also assumed to outlast the request and the
webhooks under way. `revoked` and `sinceBan` are history variables that no action
reads.

Left out: the role `co_host` with its rows of the permission matrix
(`permission_service.py`): no operation of the room service makes a participant a
co-host (`can_set_cohost` has no caller), so no row has it. Also the copies of role and mute flag in the participants table (no request
decides on them), blocks, the expiry of bans, agents, anonymous listeners and
rate limits.

### Runs

| Run | Instance | Shows |
|---|---|---|
| `room_serial` | host and one user, one request at a time, all operations, 4 requests, 2 connections | `RevocationHolds`, `BanHolds`, `PresentHasRow` |
| `room_races` | two concurrent requests out of join, ban and refresh, 2 connections, 1 failed call, fair | `BannedCannotReconnect`, `BannedIsPutOut` |
| `room_ban` | as `room_races` with 3 requests | violation of `BanHolds`, see below |

Four requests reach join, promote, demote (or kick, or ban) and one more; two
connections are the least with which a late `participant_left` of the first can
follow the second's `participant_joined`. The properties say "unless a call to
the media server failed" because the code logs such a failure and goes on.
`Quiet` means that no request, webhook or decision is under way; `room_serial`
asks what is left when everything has been handled, since stores differ in
between by design.

The serial properties do not hold for concurrent requests on one user:
`room_ban` shows it for the ban, and a hand or mute request that writes its
old row back after a kick gives the user a row again. No document promises
otherwise, so the latter is listed as a hazard and not as a finding.

Fairness: a handler that has begun goes on (an async function with finite
awaits), and webhooks are delivered and handled. New requests and clients are
not assumed to do anything.

## NativeRecording

### Model

`row[rm]` is the room's status with the recording and the agent it names (0 and
`None` if it does not record), `saved[r]` the number of rows the recordings table
has for recording `r`, `lock` the row locks, `busy` the pool's busy bits,
`active` the registry of worker handles, `worker`, `agentOf` and `s3` the worker
processes, their agents and their uploads. `orphans` are the recordings whose
worker was spawned and whose row could not be saved: `StartCommit` fails when the
update, the Redis write or the commit does, and then nothing stops the worker or
gives its agent back. A handler keeps the copy of the row
it loaded: `rec` and `agent` in `req[i]`. Starts are `StartBegin`, `StartPeek`,
`StartLock`, `StartPick`, `StartJoin`, `StartSpawn`, `StartCommit`; the stop that
the host, an administrator and the drain ("stop"), the end route ("end") and the
reconciler ("drop") share is `StopSignal`, `StopAnswer`, `StopCollide`,
`StopRecover`, `StopRelease`, `StopUpdate`, followed by `EndUpstream` and
`SetEnded` where the room is ended as well.

Two details of the libraries matter and are modelled from how the code uses
them. A `SELECT ... FOR UPDATE` through a session that holds the object already
leaves the object's loaded attributes alone unless it asks for
`populate_existing`: `AlreadyRecording` looks at the copy. And a second reader of
a worker's stdout gets a `RuntimeError`, not a `RecordingAgentError`:
`StopCollide` is that path, which ends by killing the worker and dropping its
handle, and skips recovery, release and update.

`Fail` is any failed call: upstream (a refused join is taken for an ended room
also while the room is live), the mint of a bearer, the spawn, the commit after
it, the worker, S3 (when `S3MayFail`). `Restart` replaces the container: busy bits, registry,
requests, locks and worker processes go; rows and S3 stay.

Left out: rate limits, the cap on a recording's duration, discovery events,
the promotion and expiry of scheduled mirrors, the bearer caches; the shutdown
drain is one more stop.

### Runs

| Run | Instance | Shows |
|---|---|---|
| `native_serial` | 2 rooms, 1 agent, requests on a room one after the other, 5 requests, 1 failure, 1 restart | `AgentExclusive` (until a restart), `LeakOnlyAfterSpawn`, `AudioLinked` |
| `native_races` | 1 room, 2 concurrent requests and the reconciler, 3 requests, 1 failure, 1 restart, fair | `OneRowPerRecording`, `RecoverOnlyGone`, `UpstreamEndReachesRow` |
| `native_starts` | 1 room, 2 agents, 2 concurrent requests, no failure | violation of `StartedOnce`, see below |

`LeakOnlyAfterSpawn`: once nothing is under way, a busy agent is named by a row
or belongs to an orphan. The code's docstrings promise more, and do not keep it,
see [disagreements](#disagreements).

One agent and two rooms are the tightest contention for the pool. Three requests
and the reconciler make a start and three stops of its recording. `AudioLinked`
is checked without failing S3 probes: with them the code gives the recording up
by design. After a restart `AgentExclusive` fails even for serial requests (a
surviving row is stopped after its agent was picked again), which the
property's condition says and the hazards record.

Fairness: handlers that have begun go on, the reconciler's peek is answered or
fails, and the reconciler comes back to every active room (`_run_forever`
iterates over all of them; strong fairness because a pass over another room or a
restart takes the choice away again and again).

In the runs of these three modules deadlock is not checked: requests,
connections, failures and the clock are bounded, so every behaviour ends.

## WorkerCheckpoint

### Model

`cp` holds the variables of `createMultipartCheckpointer`'s closure, `size` the
length of the encoder's file in units of which `PartSize` make a part, `phase`
where `main` and `shutdown` are, `uploads` and `object` what S3 has at the
recording's key. A part is a range of the file and a number; an object is the
sequence of ranges it was completed from, so that a range that is missing, twice
or out of order can be told from the recording. The flush (`tick`) and shutdown
(`fin`) are two coroutines over `cp`; each waits for one call, `up[w]`. A call is
served by S3 (`S3Serves`), refused (`S3Refuses`: an upload that is not open,
parts it does not have, out of order or too short), or fails (`CallFails`) before
or after its effect; its answer continues the coroutine: `Created`,
`PartUploaded`, `Persisted`, `FlushFails`, `FinalizeFails`, `PutFails`,
`Aborted`. `Crash` kills the worker at any step, `Recover` is the backend's
`complete_orphaned_multipart_upload` once the worker is gone.

`Prompt` says that a flush under way ends before the encoder has exited. Nothing
in the code sees to it; `worker_overlap` is what happens otherwise.

### Runs

| Run | Instance | Shows |
|---|---|---|
| `worker_upload` | parts of 2, a file of up to 7, 4 failed calls, 1 crash, `Prompt` on, fair | `Insured`, `FinalizedIsComplete`, `ImplementsRecording`, `ShutdownEnds` |
| `worker_overlap` | a file of up to 5, no failure, `Prompt` off | violation of `FinalizedIsComplete`, see below |

Seven units are three full parts and a short one: a flush of one part, a flush of
two, and a rest. Four failures are enough for a failed part, an abort that fails
too, a put whose answer is lost, and one more. `ImplementsRecording` maps
`recorded` to `size` and `held` to the length of the object if its ranges follow
each other from 0, to more than the recording otherwise. `Insured` is the
invariant behind the crash insurance: what recovery would find at this very
moment. It stops when a failure makes the worker abort the upload.

Fairness: S3 answers or the SDK gives up, and the event loop goes on. Neither
the encoder, the timer nor a crash is owed. Deadlock is not checked: the worker
exits.

## MessagesSocket

### Model

`sub[s]` holds the variables of one `subscribeToMessageEvents` closure; `Subs`
are the mounts of the Messages surface one after the other. `mint` is the ticket
request of the newest `connect`, `overtaken` those of earlier ones
(`connectGeneration`), `waits` the close handlers that wait for a refresh.
`gen`, `jwt` and `cookie` are `sessionGen`, the session of the JWT in memory and
the session of the browser's refresh token; `Fid` gives the account of each
sign-in. `refresh` is the refresh in flight: the generation it was started in and
the JWT and cookie it was sent with. REST calls share it (`RestUnauthorized`: on
any 401, with a JWT or without). The server (`Accepted`) wants a token that is
good, and of the account of the JWT if one is sent. A sign-out clears the cookie,
or does not, since its revocation is best-effort; an answer that comes after the
session changed loses its JWT but leaves its cookie in the browser. `settled` is its outcome while its waiters run, before any other task
(promise callbacks run in one go). `gate` is the store's availability, `realtime`
is `realtimeConnected`. A socket is connecting, open, silent (half-open: no
frames, no close event) or closing (its close event is on the way). Delays are
`due` or a `minute`; back-off lengths are left out.

### Run

`web_link`: 2 subscriptions, 2 rejected tickets before giving up (5 in the code),
3 sign-ins or sign-outs, 4 failures, closes or resumes, fair. Two subscriptions
are the least with which a late answer of the first meets the second; 4 faults
reach a refused ticket, an expired session and a resume during its refresh. It
shows `OneSocket`, `RealtimeIsOpen`, `NeverStranded`, `AccountStays` (whichever
refresh answers late and whosever cookie is in the browser, a page that shows one
account turns into another only by a sign-in; of the four sign-ins the first and
the last are of one account, the others of two more), `LinkComesUp` (a mounted subscription comes up or is over) and
`ImplementsLink`: seen as `down`, `up` and `over`, a subscription that is over is
never revived. A subscription that gave up counts as over once its socket is gone.

Fairness: requests are answered or fail, timers fire, a connecting socket opens
or closes, settled refreshes run their callbacks. Failures, users and resumes are
not owed. Deadlock is not checked: without failures and users an open socket
stays open.

## MessageThread

### Model

The conversation is the server's `log`; a message is its position in it. `shown`
are the messages of the window that are server copies, `row[s]` the state of the
viewer's own row while it has none, `win` the rest of `ThreadState`. Page requests
in flight are in `req` with the page they read: it was read at some moment before
it is answered, so that late answers are old answers. One action starts each
store function up to its await (`LoadLatest`, `LoadOlder`, `LoadNewer`,
`PollRecent`, `Jump`, `SendMessage`, `RetrySend`), one applies its answer, and
`RequestFails` and `SendFails` are the `catch` branches, `ReloadFromStart` the one
for a stale cursor. The answer of a jump may omit the newer cursor: the window
then counts as detached without a cursor, and `LoadNewer` reloads the latest page.
A frame of the socket (`FrameArrives`) may come late, again
or never. `Land` is the server's idempotent acceptance of a send, after which the
request may still fail.

### Run

`web_thread`: 1 send, 2 page requests in flight, pages of 1 message, a log of 3
that grows to 4, 1 jump, 2 failures, fair. Pages of one message make every walk
cross several pages; two requests in flight let each answer overtake another; the
jump leaves the live end, so that the window has to come back while the log
grows. It shows `NeverDowngraded`, `NothingStuck` (a loading flag has its
request), `SendSettles` and `CatchesUp`: a window that has loaded and is at the
live end comes to show the newest message, whatever frames are lost and answers
late, unless it leaves the live end or fails to load.

Fairness: requests are answered or fail, and the timer polls (`setInterval` in
`ThreadView`). The timer's is strong because the bound on requests, which is the
model's, may disable it again and again. Nothing is assumed of the viewer: a
detached window stays detached until they scroll, and a thread that failed to
load stays so until they act, which is why `CatchesUp` excludes both. Deadlock is not checked: nothing is
owed to a thread that is not open.

## Proofs

Each theorem is for arbitrary constants: any sets of workers, users, rooms, any
number of concurrent requests, any bounds (the bounds are constants too).

| Module | Theorem | Property |
|---|---|---|
| `ScheduledCasts_proofs` | `TypeCorrect` | `TypeOK` |
| | `PublishedForReal` | `PublishedIsOnNetwork` |
| | `PublishedNotEarly` | `NeverEarly` |
| | `TokensUnique` | `ClaimsDistinct` |
| | `FailedByResult` | `FailsOnlyByResult` |
| | `SettledForGood` | `TerminalIsFinal` |
| | `SupersededSilent` | `SupersededWritesNothing` |
| | `LeaseOutlastsBatch` | `AttemptHoldsLease`, if `Prompt`, the safety margin is positive and there are finitely many jobs |
| `RoomAdmission_proofs` | `TypeCorrect` | `TypeOK` |
| | `BannedAlwaysOut` | `BannedCannotReconnect` |
| `RoomAdmission_serial_proofs` | `RevocationsHold` | `RevocationHolds`, if `Serial` |
| | `BansHold` | `BanHolds`, if `Serial` |
| | `PresentHaveRows` | `PresentHasRow`, if `Serial` |
| `NativeRecording_proofs` | `TypeCorrect` | `TypeOK` |
| | `SavedOnce` | `OneRowPerRecording` |
| | `RecoveryAfterWorker` | `RecoverOnlyGone` |
| `NativeRecording_serial_proofs` | `AgentsExclusive` | `AgentExclusive`, if `Serial` |
| | `PoolComplete` | `LeakOnlyAfterSpawn`, if `Serial` |
| | `NoAudioLost` | `AudioLinked`, if `Serial` and S3 probes answer |
| `WorkerCheckpoint_proofs` | `TypeCorrect` | `TypeOK`, if `Prompt` |
| | `CrashInsured` | `Insured`, if `Prompt` |
| | `FinalizedWhole` | `FinalizedIsComplete`, if `Prompt` |
| | `RecordingImplemented` | `ImplementsRecording` (refinement of `RecordingObject`), if `Prompt` |
| `MessagesSocket_proofs` | `TypeCorrect` | `TypeOK` |
| | `OnlyOneSocket` | `OneSocket` |
| | `RealtimeHasSocket` | `RealtimeIsOpen` |
| | `NobodyStranded` | `NeverStranded` |
| | `AccountKept` | `AccountStays` |
| | `LinkImplemented` | `ImplementsLink` (refinement of `RealtimeLink`) |
| `MessageThread_proofs` | `TypeCorrect` | `TypeOK` |
| | `DeliveredStays` | `NeverDowngraded` |
| | `SpinnersEnd` | `NothingStuck` |

Assumptions: the named ASSUMEs of each module, which TLC evaluates (types of
the constants, a positive attempt limit, timeout and page size, NULL different
from every value, row and request, a thread that begins within its bound);
`2^n \in Nat` is among them because the provers have no theory of
exponentiation. A hypothesis in the table is one of the theorem's own. `Serial`
and `Prompt` are the conditions under which the runs check the same properties,
and without them they do not hold: `room_ban` and `worker_overlap` show it for
two of them, `native_starts` for what `NativeRecording`'s `Serial` rules out. The safety margin is 30 seconds in the code; with a margin of 0 a
worker whose batch times out attempt after attempt would still be in the last one
in the instant its lease runs out.

**ScheduledCasts.** `ClaimsDistinct` is not inductive: a new claim must be known
to be newer than every claim in some worker's memory. `HeldNotNewer` says that a
claim is at most as new as its row; a takeover of an expired lease then has a
later lease than the row (`Due` and a positive lease), any other claim a later
attempt number. `LeaseIffProcessing` and `AttemptsLeft` make these numbers
comparable. `PublishedIsOnNetwork` needs `WorkerMemory` (a worker that is about
to record a success has the message it built on the network), and `NeverEarly`
follows from `MessagesPinned` (what is sent or stored carries the row's time) with
`TimeHasCome`. The three action properties follow from the same invariant;
`FailsOnlyByResult` needs `AttemptsLeft`, by which the branch "retry limit
reached" of `_claim_due_jobs` is never taken.

`AttemptHoldsLease` is about time, and its invariant is a budget (`InTime`): for
every claim a worker has not settled, the end of its present attempt plus one
timeout for each claim still in the batch plus the margin is not later than the
lease. Claiming establishes it, because a prompt worker claims with the clock of
the same tick and a batch has at most `BatchSize` claims; beginning an attempt
moves one timeout from the batch to the attempt; an answer only saves time; and
the clock moves on only while every worker that holds claims is in an attempt that
has time left. A lease that is still running is not due, so no other pass takes
the row (`StillLeased`), and two unsettled claims on one job would have the same
token, which `ClaimsDistinct` excludes (`OneClaimant`).

**RoomAdmission.** `BannedCannotReconnect` needs `BanLasts` (ban records are not
removed, and `sinceBan` marks only banned users) and `OpenCounted` (an open
connection has been counted, so the webhook that reports its end is well-typed).
The decision taken from a pending webhook of a banned user is always a removal,
and the removal applies to the connection of the time; a newer connection has
its own webhook.

The serial properties speak of quiet states only, so their invariant (`SInv`) has
to say in every other state who is still going to put things right. `OutOK`: a
connection a removed user should not have is known to the request before its call
to the media server, to the webhook of the connection, or to the decision that
webhook led to. `MarkOK`: as long as an old token or the webhook of a connection
made with one is left, the marker is there, so that decision is a removal (or a
demotion). `PresentOK`: a present user without a row is one whose join is about to
write it or whose departure is about to be recorded. `ReqOK` says what a request
knows at each step; it uses that the row it read is still the row, which is what
`Serial` gives.

**NativeRecording.** `OneRowPerRecording` rests on numbering: a recording number
is new when the worker is spawned (`Fresh`), is known to its start alone until
the commit (`CommitOK`), and is named by one room from then on and by none once
it is saved (`NamedOnce`); `Holds` says what a handler knows at each step; so a
stop whose recording is saved fails the comparison in `StopUpdate`. `UrlOK` says
that a handler that has a URL has the object in S3. `RecoverOnlyGone` needs
`RunningOK`: a worker that runs has its handle in the registry, so a stop that
finds no handle finds no worker.

For serial handlers the invariant is about ownership (`SInv`). A handler's copy of
the row is true until it writes (`CopyOK`), so the check under the lock is a check
of the row. An agent has one holder: the start that
picked it, the row that names it until the stop of that row has given it back, or
an orphan, for good (`Spawned`, `OrphansDiffer`).
A running worker has a holder of its agent (`WorkerHeld`), so has a busy bit
(`BusyHeld`), and until a restart clears the bits no two holders have the same
agent (`HoldersDiffer`). `AgentExclusive` and `LeakOnlyAfterSpawn` are read off these.
`AudioLinked` needs `GoneOK`: a stop that reaches the release knows that the worker
is gone, and has the URL or there is nothing in S3.

**WorkerCheckpoint.** With `Prompt` one coroutine at most waits for S3 (`Control`)
and one upload at most is ever created (`StoreOK`). The invariant keeps three views
of the file together: what the worker has been told (`Known`), what the calls under
way are about (`CreateOK`, `PartCallOK`, `CompleteOK`, `AbortOK`), and what S3 has.
They differ by the one part whose answer is missing. Each is the beginning of the
file, in parts that follow each other, numbered from one and full but for the last,
so listing what S3 has gives a prefix whatever failed. The lemmas are about such
sequences: adding a part, the plan of `computePartPlan`, the order in which S3 lists
parts, and the object they are completed to. The refinement follows: an object comes
into being once, and is a beginning of the recording.

**MessagesSocket.** Every event of a subscription replaces that subscription's
variables and leaves the others alone, so the proof has two halves. Each event is
shown to be an `Evolves` step: the new variables are well formed (`Shape`: a
ticket is only asked for without a socket, whatever ended has no socket, one that
used up its ticket rejections has given up, an open socket is pinged), something
brings a live subscription back (`Watched`), nothing that is over is revived, and
the store is told of every socket that goes. An `Evolves` step then keeps the
invariant and is a step of `RealtimeLink` or none. Two parts relate several
pieces of state: `Awaited` (who waits for a refresh has one in flight or settled
and not yet handled) and `Mounts` (an earlier mount is cancelled before a later
one exists), without which `OneSocket` could fail across mounts. `AccountStays`
needs `CallOK`: as long as the generation is the one a refresh was started in,
the JWT in memory is the one it was sent with, so the server's comparison of JWT and token is a comparison with what the page shows.

**MessageThread.** `NeverDowngraded` and `NothingStuck` are part of the invariant;
what they need is that a send is in the log at most once (`OnceIn`), that a page read
from the log stays a part of it while the log grows (`PageOK`), that a send that
landed has a position (`RowsOK`), and that an answer removes its own request and no
other. The answers differ in how they combine a page with the window; each is shown
to be a merge that leaves no row beside its server copy (`Settles`) and to end the
spinner it was started with.

Only model-checked: the liveness properties (`EveryJobSettles`, `BannedIsPutOut`,
`UpstreamEndReachesRow`, `ShutdownEnds`, `LinkComesUp`, `SendSettles`, `CatchesUp`),
which need fairness and `ENABLED` and are out of the prover's reach, and the three
violations. The inductive invariants were also checked with TLC on small instances.

## Disagreements

Shown by a run:

- `room_ban`: `ban_participant` writes the ban record after the removal. A join
  that passed its ban check before clears the marker, its connection is admitted,
  then the record is written and nobody looks at the connection again.
- `worker_overlap`: "only the final remainder needs sending" at the end
  (`worker.mjs:856`), but a flush may still be under way: `finalize` does not
  look at `flushing`, uploads the range in flight again and completes both parts,
  and the recording repeats up to 5 MiB of audio. If the flush answers last,
  the parts are out of order, S3 refuses, and the fallback saves the recording.

- `native_starts`: "Lock + reread under the same transaction so two concurrent
  callers can't both flip ``recording = True``" (`room_service.py:1402`). The
  reread does not refresh the object the session has loaded before, for the
  reason given above, so two starts both flip the room to recording; the first
  recording is left without a row.

Met while modelling, without a run of their own (the model has the behaviour; the
properties of the runs above do not claim the contrary):

- The docstring of `cancel_scheduled_cast` says a job is cancelled "if no worker has claimed it yet"; the code also accepts `retrying`,
  a job that was claimed and whose message the node may have stored although
  the attempt timed out. The job ends cancelled and published on the network.
- `scheduled_cast_publisher.py:187` says that a takeover will "Re-sign the same
  message", and its strict lookups are there because a degraded mention "would
  change the message hash and defeat the duplicate-resubmit idempotency". A lookup
  that succeeds with another result (a name that changed hands, a channel whose
  parent URL changed) changes the hash too: if the earlier attempt reached the
  node, the job is on the network twice.
- `room_service.py:1326` says of a native start that "Failures release the reserved
  agent before raising", and `farcaster_spaces_service.py:469` asks to "release in
  a finally-block at the call site". When the update, the Redis write or the commit
  after the spawn fails, the agent is not released and the worker records on with
  no row that names it.
- `authStore.ts:12` says that a stale refresh "would otherwise resurrect a session
  the user just ended". Its JWT is discarded, its cookie is not; nor is the cookie
  gone when the revocation of a sign-out is lost. The next 401 of any request, or
  the next page load, then signs the user in again. If another account has signed in
  meanwhile the server refuses the pair and that account is signed out.
- `messageStore.ts:143` says that without a newer cursor "loadNewer then reattaches
  via loadLatest". When the window holds the newest message already, the latest
  page extends nothing and `hasNewer` stays true until another message comes; the
  same happens when a send's echo was merged into a detached window.
- A thread that holds messages and whose reload failed is in status `error`: the
  timer polls ready threads only (`messageStore.ts:880`) and "Try again" is shown
  for an empty thread only (`ThreadView.tsx:685`). It stays behind until the
  viewer reopens it. No document says otherwise.
- `release_recording_agent`: a double release is said to be benign; the second one frees
  an agent that has been given to another room meanwhile.
- `messagesEvents.ts:22` says that "4429 backs off at least a minute".
  `scheduleReconnect` returns early when a reconnect timer is pending, before it
  sets `rateLimitedUntil`, and a close handler that was waiting for a refresh
  connects at once.
- `messageStore.ts:74` says that a window "is contiguous". When more than a page
  arrives between two polls, or an older page answers after a jump replaced the
  window, messages in between are missing, and no cursor leads to them.
- `worker.mjs:97` says that "a crash loses at most the tail since the last full
  part". A flush that fails aborts the whole upload, and a crash after it loses
  everything.

## Not modelled

The parts marked `not_modelled` in PROJECT.json are the modules left in the plan,
presentation, read-only proxies, or pipelines without shared state. The mobile
client's room session (`useSpace.ts`, `useReconnect.ts`, `livekit.ts`) was read:
its reconnect loop is not tied to the room it was started for, and no document
states what it promises. So was the web client's
`audioMixer.ts`, whose captures are not modelled: a `getUserMedia` that answers
after the teardown leaves its capture running, although the header says that the
teardown releases every indicator of the operating system. `RoomAdmission` and
`NativeRecording` meet only in the rooms table, for rooms of different kinds;
`NativeRecording` and `WorkerCheckpoint` meet in S3, through `RecordingObject`;
`MessagesSocket` and `MessageThread` meet in frames, which the latter takes as
unreliable. Signatures, encodings, rate limits and texts are abstracted
throughout.
