--------------------------- MODULE ScheduledCasts ---------------------------
(***************************************************************************)
(* Scheduled casts: the HTTP routes that create and cancel a job           *)
(* (backend/app/routers/feed.py) and the publisher loop that every         *)
(* application worker runs (backend/app/services/                          *)
(* scheduled_cast_publisher.py).                                           *)
(*                                                                         *)
(* The shared state is the scheduled_casts table.  A worker claims a batch *)
(* of due rows in one transaction (FOR UPDATE SKIP LOCKED), then publishes *)
(* them one after the other to the Farcaster node outside any transaction, *)
(* and writes each result back with a compare-and-set on the claim it      *)
(* holds.  Workers crash, requests to the node are slow or lost, results   *)
(* arrive after the lease has run out, users cancel in between.            *)
(*                                                                         *)
(* Time is a counter of ticks.  A message is identified by its job, its    *)
(* timestamp and its body, which is what its hash depends on.  The text,   *)
(* embeds and quote are the row's; the body stands for what the lookups    *)
(* add at each attempt: FIDs of the names mentioned, the channel's parent  *)
(* URL and the author of the parent cast.                                  *)
(***************************************************************************)
EXTENDS Integers, FiniteSets

CONSTANTS
    Workers,            \* application workers running the publisher loop
    Jobs,               \* identities of scheduled_casts rows, a set of numbers
    Users,              \* users that schedule casts
    Owner,              \* Owner[j] is the fid of job j
    Bodies,             \* what a job's lookups may make of it
    MaxActive,          \* MAX_ACTIVE_SCHEDULED_CASTS_PER_USER
    MaxAttempts,        \* MAX_PUBLISH_ATTEMPTS
    BatchSize,          \* CLAIM_BATCH_SIZE
    AttemptTimeout,     \* PUBLISH_ATTEMPT_TIMEOUT_SECONDS
    LeaseSafety,        \* CLAIM_LEASE_SAFETY_SECONDS
    RetryBase,          \* RETRY_BASE_SECONDS
    RetryMax,           \* RETRY_MAX_SECONDS
    PollInterval,       \* PUBLISH_INTERVAL_SECONDS
    MinScheduleDelay,   \* MIN_SCHEDULE_DELAY
    MaxScheduleHorizon, \* MAX_SCHEDULE_HORIZON
    LastSchedule,       \* bound: no cast is scheduled for later than this
    MaxTime,            \* bound: the clock stops here
    MaxCrashes,         \* bound: number of worker crashes
    Prompt,             \* TRUE: no tick passes while a worker owes a step
    None                \* SQL NULL

ASSUME ConstantsAssumption ==
    /\ Jobs \subseteq Nat
    /\ Owner \in [Jobs -> Users]
    /\ MaxActive \in Nat \ {0}
    /\ MaxAttempts \in Nat \ {0}
    /\ BatchSize \in Nat \ {0}
    /\ AttemptTimeout \in Nat \ {0}
    /\ LeaseSafety \in Nat
    /\ RetryBase \in Nat
    /\ RetryMax \in Nat
    /\ PollInterval \in Nat
    /\ MinScheduleDelay \in Nat
    /\ MaxScheduleHorizon \in Nat
    /\ LastSchedule \in Nat
    /\ MaxTime \in Nat
    /\ MaxCrashes \in Nat
    /\ Prompt \in BOOLEAN
    /\ \A n \in 0..MaxAttempts : 2^n \in Nat  \* arithmetic the provers lack

VARIABLES
    now,        \* the clock the workers and the API share
    row,        \* the scheduled_casts table, one row per job
    signer,     \* signer[u]: user u has an approved Farcaster signer
    lookup,     \* lookup[j]: what the lookups of job j return now
    inflight,   \* requests sent to the node and not yet processed by it
    network,    \* messages the node holds
    ledger,     \* jobs recorded in the cast ledger
    pc,         \* where each worker is in process_once
    clk,        \* idle: when the loop wakes up; claiming: the time it read
    batch,      \* claims the worker has still to publish
    cur,        \* the claim being published
    body,       \* body of the message the attempt has built
    started,    \* when the attempt's timeout began
    outcome,    \* result of the attempt
    crashes     \* number of crashes so far

vars == <<now, row, signer, lookup, inflight, network, ledger, pc, clk, batch,
          cur, body, started, outcome, crashes>>
tableVars == <<row, ledger>>
upstreamVars == <<signer, lookup>>
nodeVars == <<inflight, network>>
workerVars == <<pc, clk, batch, cur, body, started, outcome>>
attemptVars == <<cur, body, started, outcome>>

-----------------------------------------------------------------------------
(* The row and the claim. *)

Statuses == {"absent", "pending", "processing", "retrying", "published",
             "failed", "cancelled"}
Active == {"pending", "processing", "retrying"}
Terminal == {"published", "failed", "cancelled"}

Row == [status : Statuses, attempts : 0..MaxAttempts,
        scheduled_for : Nat, next_attempt_at : Nat, lease : Nat \cup {None},
        published : Bodies \cup {None}]  \* published_hash

NoRow == [status |-> "absent", attempts |-> 0, scheduled_for |-> 0,
          next_attempt_at |-> 0, lease |-> None, published |-> None]

\* What a worker keeps of a row it has claimed: the row's identity, its place
\* in the batch and the compare-and-set token (attempts, lease).
Claim == [job : Jobs, due : Nat, attempts : 1..MaxAttempts, lease : Nat]
Message == [job : Jobs, ts : Nat, body : Bodies]
Request == [claim : Claim, ts : Nat, body : Bodies]

PCs == {"idle", "claiming", "ready", "signing", "submit", "await", "record",
        "ledger"}
Outcomes == {"ok", "transient", "permanent"}
Attempting == {"signing", "submit", "await"}

\* NULL is neither a time, nor a result, nor a claim, nor a message.
ASSUME NoneAssumption ==
    /\ None \notin Nat /\ None \notin Outcomes
    /\ None \notin Claim /\ None \notin Bodies

\* Mutants of the lease: no minimum; no margin beyond the attempts.
BugLeaseZero == 0
BugLeaseNoMargin == BatchSize * AttemptTimeout

\* The lease covers a whole batch of bounded attempts, one after the other.
LeaseSeconds == BatchSize * AttemptTimeout + LeaseSafety

Least(a, b) == IF a < b THEN a ELSE b

\* Exponential backoff of _record_failure.
RetryDelay(attempts) == Least(RetryMax, RetryBase * 2^(attempts - 1))

\* The message timestamp is pinned to the row, so that re-signing the job
\* yields the same hash as long as its lookups return the same.
MessageTimestamp(j) == row[j].scheduled_for

\* The message job j becomes with body b, the one worker w has built, and the
\* one a request carries.
MessageOf(j, b) == [job |-> j, ts |-> MessageTimestamp(j), body |-> b]
Built(w) == MessageOf(cur[w].job, body[w])
Carried(r) == [job |-> r.claim.job, ts |-> r.ts, body |-> r.body]

\* The order in which _claim_due_jobs selects and returns rows.
Before(d1, j1, d2, j2) == d1 < d2 \/ (d1 = d2 /\ j1 < j2)

-----------------------------------------------------------------------------
Init ==
    /\ now = 0
    /\ row = [j \in Jobs |-> NoRow]
    /\ signer = [u \in Users |-> TRUE]
    /\ lookup \in [Jobs -> Bodies]
    /\ inflight = {}
    /\ network = {}
    /\ ledger = {}
    /\ pc = [w \in Workers |-> "idle"]
    /\ clk = [w \in Workers |-> 0]
    /\ batch = [w \in Workers |-> {}]
    /\ cur = [w \in Workers |-> None]
    /\ body = [w \in Workers |-> None]
    /\ started = [w \in Workers |-> 0]
    /\ outcome = [w \in Workers |-> None]
    /\ crashes = 0

-----------------------------------------------------------------------------
(* The API. *)

\* Jobs that count against the user's limit.
ActiveJobs(u) == {j \in Jobs : Owner[j] = u /\ row[j].status \in Active}

\* POST /scheduled-casts.  The user's row is locked from the count to the
\* commit, so the check and the insert are one step for one user's queue.
ScheduleCast(j, at) ==
    /\ row[j].status = "absent"
    /\ at >= now + MinScheduleDelay
    /\ at <= now + MaxScheduleHorizon
    /\ signer[Owner[j]]
    /\ Cardinality(ActiveJobs(Owner[j])) < MaxActive
    /\ row' = [row EXCEPT ![j] = [status |-> "pending", attempts |-> 0,
                                  scheduled_for |-> at,
                                  next_attempt_at |-> at, lease |-> None,
                                  published |-> None]]
    /\ UNCHANGED <<now, upstreamVars, ledger, nodeVars, workerVars, crashes>>

\* DELETE /scheduled-casts/{id}.
CancelCast(j) ==
    /\ row[j].status \in {"pending", "retrying"}
    /\ row' = [row EXCEPT ![j].status = "cancelled", ![j].lease = None]
    /\ UNCHANGED <<now, upstreamVars, ledger, nodeVars, workerVars, crashes>>

\* The user approves or revokes the signer outside this component.
ToggleSigner(u) ==
    /\ signer' = [signer EXCEPT ![u] = ~@]
    /\ UNCHANGED <<now, lookup, tableVars, nodeVars, workerVars, crashes>>

\* A name mentioned is transferred, taken or given up, the channel's URL
\* changes, or the node answers differently about the parent.
LookupChanges(j) ==
    /\ \E b \in Bodies \ {lookup[j]} : lookup' = [lookup EXCEPT ![j] = b]
    /\ UNCHANGED <<now, signer, tableVars, nodeVars, workerVars, crashes>>

-----------------------------------------------------------------------------
(* One pass of the publisher. *)

\* Mutants: claims rows whose time has not come; never takes over a claim.
BugDueAnyTime(j, t) == row[j].status \in {"pending", "retrying"}
BugDueNoTakeover(j, t) ==
    row[j].status \in {"pending", "retrying"} /\ row[j].next_attempt_at <= t

\* The WHERE clause of _claim_due_jobs.
Due(j, t) ==
    \/ row[j].status \in {"pending", "retrying"} /\ row[j].next_attempt_at <= t
    \/ row[j].status = "processing" /\ row[j].lease <= t

DueJobs(t) == {j \in Jobs : Due(j, t)}

\* The loop wakes up and process_once reads the clock.
BeginPass(w) ==
    /\ pc[w] = "idle"
    /\ now >= clk[w]
    /\ pc' = [pc EXCEPT ![w] = "claiming"]
    /\ clk' = [clk EXCEPT ![w] = now]
    /\ UNCHANGED <<now, tableVars, upstreamVars, nodeVars, batch, attemptVars,
                   crashes>>

\* Rows a claim may take: the first BatchSize due rows that no other
\* transaction has locked.
Selection(w, S, locked) ==
    LET free == DueJobs(clk[w]) \ locked
        First(j, k) == Before(row[j].next_attempt_at, j,
                              row[k].next_attempt_at, k)
    IN  /\ S \subseteq free
        /\ Cardinality(S) <= BatchSize
        /\ S # free => Cardinality(S) = BatchSize
        /\ \A j \in S : \A k \in free \ S : First(j, k)

\* Mutant: a claim that ran out on the last attempt is failed too.
BugExhausted(j) == row[j].attempts >= MaxAttempts

\* A row at the attempt ceiling is failed instead of claimed.
Exhausted(j) == row[j].status # "processing" /\ row[j].attempts >= MaxAttempts

\* Mutant: taking over an expired claim costs an attempt too.
BugTakeoverCounts(j) == row[j].attempts + 1

\* An expired claim is an ambiguous earlier request, not a new attempt.
NextAttempts(j) ==
    IF row[j].status = "processing"
    THEN IF row[j].attempts > 1 THEN row[j].attempts ELSE 1
    ELSE row[j].attempts + 1

\* The update of one selected row.
Claimed(j, t) ==
    IF Exhausted(j)
    THEN [row[j] EXCEPT !.status = "failed", !.lease = None]
    ELSE [row[j] EXCEPT !.status = "processing",
                        !.attempts = NextAttempts(j),
                        !.lease = t + LeaseSeconds]

ClaimOf(j, t) == [job |-> j, due |-> row[j].next_attempt_at,
                  attempts |-> NextAttempts(j), lease |-> t + LeaseSeconds]

\* _claim_due_jobs: select, update and commit are one transaction.  Rows in
\* `locked' are held by a concurrent claim or cancellation; a claim that finds
\* nothing free is not a step of interest unless nothing is due.
ClaimDueJobs(w) ==
    /\ pc[w] = "claiming"
    /\ \E locked \in SUBSET DueJobs(clk[w]), S \in SUBSET DueJobs(clk[w]) :
        /\ S = {} => DueJobs(clk[w]) = {}
        /\ Selection(w, S, locked)
        /\ row' = [j \in Jobs |->
                    IF j \in S THEN Claimed(j, clk[w]) ELSE row[j]]
        /\ batch' = [batch EXCEPT ![w] =
                      {ClaimOf(j, clk[w]) : j \in {k \in S : ~Exhausted(k)}}]
    /\ pc' = [pc EXCEPT ![w] = "ready"]
    /\ clk' = [clk EXCEPT ![w] = 0]
    /\ UNCHANGED <<now, upstreamVars, ledger, nodeVars, attemptVars, crashes>>

\* Next claim of the batch, in the order the rows were returned.
BeginAttempt(w) ==
    /\ pc[w] = "ready"
    /\ \E c \in batch[w] :
        /\ \A d \in batch[w] \ {c} : Before(c.due, c.job, d.due, d.job)
        /\ cur' = [cur EXCEPT ![w] = c]
        /\ batch' = [batch EXCEPT ![w] = @ \ {c}]
    /\ started' = [started EXCEPT ![w] = now]
    /\ pc' = [pc EXCEPT ![w] = "signing"]
    /\ UNCHANGED <<now, tableVars, upstreamVars, nodeVars, clk, body, outcome,
                   crashes>>

\* The batch is finished: process_once returns and the loop sleeps.
EndPass(w) ==
    /\ pc[w] = "ready"
    /\ batch[w] = {}
    /\ pc' = [pc EXCEPT ![w] = "idle"]
    /\ clk' = [clk EXCEPT ![w] = now + PollInterval]
    /\ UNCHANGED <<now, tableVars, upstreamVars, nodeVars, batch, attemptVars,
                   crashes>>

\* The attempt of worker w ends with result o.
Finish(w, o) ==
    /\ pc' = [pc EXCEPT ![w] = "record"]
    /\ outcome' = [outcome EXCEPT ![w] = o]

\* Loading the signer and preparing the message: no approved signer and an
\* invalid cast are permanent; a key that cannot be decrypted and a failed
\* lookup of a mention or of the parent are transient.  Otherwise the body is
\* what the lookups return now, whatever an earlier attempt was given.
Sign(w) ==
    /\ pc[w] = "signing"
    /\ \/ /\ signer[Owner[cur[w].job]]
          /\ body' = [body EXCEPT ![w] = lookup[cur[w].job]]
          /\ pc' = [pc EXCEPT ![w] = "submit"]
          /\ UNCHANGED outcome
       \/ /\ ~signer[Owner[cur[w].job]]
          /\ Finish(w, "permanent")
          /\ UNCHANGED body
       \/ /\ signer[Owner[cur[w].job]]
          /\ \E o \in {"transient", "permanent"} : Finish(w, o)
          /\ UNCHANGED body
    /\ UNCHANGED <<now, tableVars, upstreamVars, nodeVars, clk, batch, cur,
                   started, crashes>>

\* The signed message leaves for the node.
Submit(w) ==
    /\ pc[w] = "submit"
    /\ inflight' = inflight \cup {[claim |-> cur[w], body |-> body[w],
                                   ts |-> MessageTimestamp(cur[w].job)]}
    /\ pc' = [pc EXCEPT ![w] = "await"]
    /\ UNCHANGED <<now, tableVars, upstreamVars, network, clk, batch,
                   attemptVars, crashes>>

Waiting(w, r) == pc[w] = "await" /\ cur[w] = r.claim /\ body[w] = r.body

\* The answer to r reaches the worker that still waits for it, or is lost.
Answer(r, o) ==
    \/ \E w \in Workers : Waiting(w, r) /\ Finish(w, o)
    \/ UNCHANGED <<pc, outcome>>

\* The node stores the message, or finds that it already holds it: a duplicate
\* counts as success.
NodeAccept(r) ==
    /\ r \in inflight
    /\ inflight' = inflight \ {r}
    /\ network' = network \cup {Carried(r)}
    /\ Answer(r, "ok")
    /\ UNCHANGED <<now, tableVars, upstreamVars, clk, batch, cur, body, started,
                   crashes>>

\* The node refuses a message it does not hold; the error is transient (5xx,
\* 408, 429, no status) or permanent (validation, unknown signer).
NodeReject(r) ==
    /\ r \in inflight
    /\ Carried(r) \notin network
    /\ inflight' = inflight \ {r}
    /\ \E o \in {"transient", "permanent"} : Answer(r, o)
    /\ UNCHANGED <<now, tableVars, upstreamVars, network, clk, batch, cur,
                   body, started, crashes>>

\* Mutant: a lost connection is taken for success.
BugConnectionLostIsSuccess(w) ==
    /\ pc[w] = "await"
    /\ Finish(w, "ok")
    /\ UNCHANGED <<now, tableVars, upstreamVars, nodeVars, clk, batch, cur,
                   body, started, crashes>>

\* The connection fails while the worker waits; the request may still arrive.
ConnectionLost(w) ==
    /\ pc[w] = "await"
    /\ Finish(w, "transient")
    /\ UNCHANGED <<now, tableVars, upstreamVars, nodeVars, clk, batch, cur,
                   body, started, crashes>>

\* asyncio.timeout around _publish.
AttemptTimesOut(w) ==
    /\ pc[w] \in Attempting
    /\ now >= started[w] + AttemptTimeout
    /\ Finish(w, "transient")
    /\ UNCHANGED <<now, tableVars, upstreamVars, nodeVars, clk, batch, cur,
                   body, started, crashes>>

\* Mutants: the update is by id only; by id, status and attempt number only.
BugMatchById(c) == TRUE
BugMatchWithoutLease(c) ==
    row[c.job].status = "processing" /\ row[c.job].attempts = c.attempts

\* _claim_matches: the row is still the one worker w claimed.
ClaimMatches(c) ==
    /\ row[c.job].status = "processing"
    /\ row[c.job].attempts = c.attempts
    /\ row[c.job].lease = c.lease

\* The attempt's locals go out of scope.
Done(w) ==
    /\ pc' = [pc EXCEPT ![w] = "ready"]
    /\ cur' = [cur EXCEPT ![w] = None]
    /\ body' = [body EXCEPT ![w] = None]
    /\ started' = [started EXCEPT ![w] = 0]
    /\ outcome' = [outcome EXCEPT ![w] = None]

RecordSuccess(w) ==
    LET c == cur[w] IN
    /\ pc[w] = "record"
    /\ outcome[w] = "ok"
    /\ \/ /\ ClaimMatches(c)
          /\ row' = [row EXCEPT ![c.job].status = "published",
                                ![c.job].published = body[w],
                                ![c.job].lease = None]
          /\ pc' = [pc EXCEPT ![w] = "ledger"]
          /\ UNCHANGED attemptVars
       \/ /\ ~ClaimMatches(c)
          /\ UNCHANGED row
          /\ Done(w)
    /\ UNCHANGED <<now, upstreamVars, ledger, nodeVars, clk, batch, crashes>>

\* record_cast, after the commit; a failure to write the ledger is swallowed.
RecordLedger(w) ==
    /\ pc[w] = "ledger"
    /\ ledger' \in {ledger, ledger \cup {Built(w)}}
    /\ Done(w)
    /\ UNCHANGED <<now, row, upstreamVars, nodeVars, clk, batch, crashes>>

ShouldRetry(c, o) == o = "transient" /\ c.attempts < MaxAttempts

\* The row after a failed attempt.
FailedRow(c, o) ==
    IF ShouldRetry(c, o)
    THEN [row[c.job] EXCEPT !.status = "retrying", !.lease = None,
             !.next_attempt_at = now + RetryDelay(c.attempts)]
    ELSE [row[c.job] EXCEPT !.status = "failed", !.lease = None]

RecordFailure(w) ==
    LET c == cur[w] IN
    /\ pc[w] = "record"
    /\ outcome[w] \in {"transient", "permanent"}
    /\ row' = IF ClaimMatches(c)
              THEN [row EXCEPT ![c.job] = FailedRow(c, outcome[w])]
              ELSE row
    /\ Done(w)
    /\ UNCHANGED <<now, upstreamVars, ledger, nodeVars, clk, batch, crashes>>

\* The process dies, the task is cancelled by stop(), or a database error ends
\* the pass: what the worker held in memory is gone, its requests are not.
Crash(w) ==
    /\ pc[w] # "idle"
    /\ crashes < MaxCrashes
    /\ crashes' = crashes + 1
    /\ pc' = [pc EXCEPT ![w] = "idle"]
    /\ batch' = [batch EXCEPT ![w] = {}]
    /\ clk' = [clk EXCEPT ![w] = 0]
    /\ cur' = [cur EXCEPT ![w] = None]
    /\ body' = [body EXCEPT ![w] = None]
    /\ started' = [started EXCEPT ![w] = 0]
    /\ outcome' = [outcome EXCEPT ![w] = None]
    /\ UNCHANGED <<now, tableVars, upstreamVars, nodeVars>>

\* Worker w can act in this tick: it is between two waits, its attempt is over
\* its timeout, or its sleep is over.
Owes(w) ==
    \/ pc[w] \in {"claiming", "ready", "record", "ledger"}
    \/ pc[w] \in Attempting /\ now >= started[w] + AttemptTimeout
    \/ pc[w] = "idle" /\ now >= clk[w]

Tick ==
    /\ now < MaxTime
    /\ Prompt => \A w \in Workers : ~Owes(w)
    /\ now' = now + 1
    /\ UNCHANGED <<tableVars, upstreamVars, nodeVars, workerVars, crashes>>

WorkerStep(w) ==
    \/ BeginPass(w)
    \/ ClaimDueJobs(w)
    \/ BeginAttempt(w)
    \/ EndPass(w)
    \/ Sign(w)
    \/ Submit(w)
    \/ ConnectionLost(w)
    \/ AttemptTimesOut(w)
    \/ RecordSuccess(w)
    \/ RecordLedger(w)
    \/ RecordFailure(w)

Next ==
    \/ \E j \in Jobs, at \in 0..LastSchedule : ScheduleCast(j, at)
    \/ \E j \in Jobs : CancelCast(j)
    \/ \E u \in Users : ToggleSigner(u)
    \/ \E j \in Jobs : LookupChanges(j)
    \/ \E w \in Workers : WorkerStep(w)
    \/ \E w \in Workers : Crash(w)
    \/ \E r \in inflight : NodeAccept(r) \/ NodeReject(r)
    \/ Tick

Spec == Init /\ [][Next]_vars

-----------------------------------------------------------------------------
(* Properties. *)

\* Claims worker w still holds in memory.
Held(w) == batch[w] \cup (IF cur[w] = None THEN {} ELSE {cur[w]})

\* Type correctness of the table, the node and the workers' memory.
TypeOK ==
    /\ now \in Nat
    /\ row \in [Jobs -> Row]
    /\ signer \in [Users -> BOOLEAN]
    /\ lookup \in [Jobs -> Bodies]
    /\ inflight \subseteq Request
    /\ network \subseteq Message
    /\ ledger \subseteq Message
    /\ pc \in [Workers -> PCs]
    /\ clk \in [Workers -> Nat]
    /\ batch \in [Workers -> SUBSET Claim]
    /\ cur \in [Workers -> Claim \cup {None}]
    /\ body \in [Workers -> Bodies \cup {None}]
    /\ started \in [Workers -> Nat]
    /\ outcome \in [Workers -> Outcomes \cup {None}]
    /\ crashes \in Nat

\* The message whose hash a row reports as published, or the ledger credits,
\* really is on the network: a success is recorded only by a claim whose own
\* message (or an earlier copy of it) the node holds.
PublishedIsOnNetwork ==
    /\ \A j \in Jobs : row[j].status = "published" =>
            MessageOf(j, row[j].published) \in network
    /\ ledger \subseteq network

\* A cast never reaches the network before the time its row says, nor with a
\* timestamp that lies in the future.
NeverEarly ==
    \A m \in network : m.ts = row[m.job].scheduled_for /\ m.ts <= now

\* Two workers never hold the same compare-and-set token for a job: a claim
\* that takes over an expired lease gets a later lease, any other claim gets a
\* later attempt number, however old the clock value it was computed from.
ClaimsDistinct ==
    \A v, w \in Workers : v # w =>
        \A c \in Held(v), d \in Held(w) :
            c.job = d.job => <<c.attempts, c.lease>> # <<d.attempts, d.lease>>

\* While time passes only where workers have nothing to do, the lease outlasts
\* the batch: nobody reclaims, fails or cancels a job during an attempt on it.
AttemptHoldsLease ==
    \A w \in Workers : pc[w] \in Attempting => ClaimMatches(cur[w])

\* Published, failed and cancelled are final: no late result, takeover or
\* cancellation changes a settled row.
TerminalIsFinal ==
    [][\A j \in Jobs : row[j].status \in Terminal => row'[j] = row[j]]_vars

\* A job fails only by the result of an attempt on it that still holds the
\* claim: neither the takeover of a claim whose worker died on the last attempt
\* nor a claim of a row that was put back for a retry fails it, so the success
\* such an attempt may have had can still be recorded.
FailsOnlyByResult ==
    [][\A j \in Jobs :
        row[j].status # "failed" /\ row'[j].status = "failed" =>
            \E w \in Workers :
                /\ pc[w] = "record" /\ outcome[w] # "ok"
                /\ cur[w] # None /\ cur[w].job = j /\ ClaimMatches(cur[w])]_vars

Older(c, d) ==
    \/ c.attempts < d.attempts
    \/ c.attempts = d.attempts /\ c.lease < d.lease

\* A worker whose claim has been taken over writes nothing: a result changes
\* the row only if every other claim held on that job is older.
SupersededWritesNothing ==
    [][\A w \in Workers :
        pc[w] = "record" /\ pc'[w] # "record" /\ cur[w] # None
            /\ row'[cur[w].job] # row[cur[w].job]
        => \A v \in Workers \ {w} : \A d \in Held(v) :
                d.job = cur[w].job => Older(d, cur[w])]_vars

\* Every scheduled job is eventually published, failed or cancelled.
EveryJobSettles ==
    \A j \in Jobs : row[j].status = "pending" ~> row[j].status \in Terminal

\* The loop of each worker keeps running and the clock advances.
Fairness ==
    /\ \A w \in Workers : WF_vars(WorkerStep(w))
    /\ WF_vars(Tick)

FairSpec == Spec /\ Fairness

-----------------------------------------------------------------------------
(* The inductive invariant behind the safety properties. *)

\* The table's check constraint ck_scheduled_casts_processing_lease.
LeaseIffProcessing ==
    \A j \in Jobs : (row[j].status = "processing") <=> (row[j].lease # None)

\* A row that waits for a claim has attempts left, so the "retry limit reached"
\* branch of _claim_due_jobs never fires.
AttemptsLeft ==
    \A j \in Jobs :
        /\ row[j].status \in {"pending", "retrying"} =>
                row[j].attempts < MaxAttempts
        /\ row[j].status = "processing" => row[j].attempts >= 1

\* A row leaves "pending" only once its time has come.
TimeHasCome ==
    \A j \in Jobs :
        /\ row[j].status = "pending" =>
                row[j].next_attempt_at = row[j].scheduled_for
        /\ row[j].status \in {"processing", "retrying"} =>
                row[j].scheduled_for <= now

\* A claim is at most as new as its row.
HeldNotNewer ==
    \A w \in Workers : \A c \in Held(w) :
        /\ row[c.job].status # "absent"
        /\ row[c.job].scheduled_for <= now
        /\ c.attempts <= row[c.job].attempts
        /\ row[c.job].status = "processing" /\ c.attempts = row[c.job].attempts
                => c.lease <= row[c.job].lease

\* What is sent or stored is the row's pinned message, and its time has come.
MessagesPinned ==
    /\ \A r \in inflight :
        /\ row[r.claim.job].status # "absent"
        /\ r.ts = row[r.claim.job].scheduled_for
        /\ r.ts <= now
    /\ \A m \in network :
        /\ row[m.job].status # "absent"
        /\ m.ts = row[m.job].scheduled_for
        /\ m.ts <= now

\* What each worker remembers fits where it is.
WorkerMemory ==
    \A w \in Workers :
        /\ pc[w] = "claiming" => clk[w] <= now
        /\ pc[w] \in Attempting \cup {"record", "ledger"} => cur[w] # None
        /\ pc[w] \in {"idle", "claiming"} => batch[w] = {} /\ cur[w] = None
        /\ pc[w] = "ready" => cur[w] = None
        /\ pc[w] = "ledger" => outcome[w] = "ok"
        /\ pc[w] \in {"submit", "await"} => body[w] # None
        /\ pc[w] \in {"record", "ledger"} /\ outcome[w] = "ok" =>
                Built(w) \in network

IInv ==
    /\ TypeOK
    /\ LeaseIffProcessing
    /\ AttemptsLeft
    /\ TimeHasCome
    /\ HeldNotNewer
    /\ MessagesPinned
    /\ WorkerMemory
    /\ ClaimsDistinct
    /\ PublishedIsOnNetwork

=============================================================================
