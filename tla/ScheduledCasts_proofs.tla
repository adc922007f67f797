------------------------ MODULE ScheduledCasts_proofs ------------------------
(***************************************************************************)
(* Machine-checked proofs about ScheduledCasts, for any number of workers, *)
(* jobs and users and any timing constants.                                *)
(***************************************************************************)
EXTENDS ScheduledCasts, FiniteSetTheorems, TLAPS

\* The invariant IInv holds in the initial state: empty table, idle workers.
LEMMA InitIInv == Init => IInv
<1> SUFFICES ASSUME Init PROVE IInv
  OBVIOUS
<1> USE ConstantsAssumption, NoneAssumption DEF Init, NoRow, Held
<1>1. TypeOK
  BY DEF TypeOK, Row, Statuses, PCs
<1>2. LeaseIffProcessing /\ AttemptsLeft /\ TimeHasCome
  BY DEF LeaseIffProcessing, AttemptsLeft, TimeHasCome
<1>3. HeldNotNewer /\ MessagesPinned /\ ClaimsDistinct
  BY DEF HeldNotNewer, MessagesPinned, ClaimsDistinct
<1>4. WorkerMemory
  BY DEF WorkerMemory, Attempting
<1>5. PublishedIsOnNetwork
  BY DEF PublishedIsOnNetwork, MessageOf, MessageTimestamp
<1> QED
  BY <1>1, <1>2, <1>3, <1>4, <1>5 DEF IInv

\* A lease is a positive number of ticks, as __init__ enforces.
LEMMA LeasePositive == LeaseSeconds \in Nat \ {0}
BY ConstantsAssumption, BatchSize * AttemptTimeout \in Nat \ {0} DEF LeaseSeconds

\* The backoff of _record_failure is a number of ticks.
LEMMA DelayType == \A a \in 1..MaxAttempts : RetryDelay(a) \in Nat
BY ConstantsAssumption DEF RetryDelay, Least

\* POST /scheduled-casts inserts a fresh row; nothing refers to it yet.
LEMMA ScheduleCastIInv ==
  ASSUME IInv, NEW j \in Jobs, NEW at \in 0..LastSchedule, ScheduleCast(j, at)
  PROVE  IInv'
<1> USE ConstantsAssumption, NoneAssumption
<1>r. /\ row[j].status = "absent"
      /\ row' = [row EXCEPT ![j] = [status |-> "pending", attempts |-> 0,
                                    scheduled_for |-> at,
                                    next_attempt_at |-> at, lease |-> None,
                                    published |-> None]]
      /\ UNCHANGED <<now, upstreamVars, ledger, nodeVars, workerVars, crashes>>
      /\ at \in Nat
  BY DEF ScheduleCast
<1>o. \A k \in Jobs : k # j => row'[k] = row[k]
  BY <1>r DEF IInv, TypeOK
<1>n. row'[j] = [status |-> "pending", attempts |-> 0, scheduled_for |-> at,
                 next_attempt_at |-> at, lease |-> None,
                 published |-> None]
  BY <1>r DEF IInv, TypeOK
<1>1. TypeOK'
  BY <1>r DEF IInv, TypeOK, upstreamVars, Row, Statuses, nodeVars, workerVars
<1>2. LeaseIffProcessing' /\ AttemptsLeft' /\ TimeHasCome'
  BY <1>r, <1>o, <1>n DEF IInv, LeaseIffProcessing, AttemptsLeft, TimeHasCome
<1>3. HeldNotNewer'
  BY <1>r, <1>o, <1>n DEF IInv, HeldNotNewer, Held, TypeOK, Claim, workerVars
<1>4. MessagesPinned'
  BY <1>r, <1>o, <1>n DEF IInv, MessagesPinned, TypeOK, Request, Claim,
     Message, nodeVars
<1>5. WorkerMemory'
  <2>1. \A w \in Workers : cur[w] # None => cur[w].job # j /\ cur[w].job \in Jobs
    BY <1>r DEF IInv, HeldNotNewer, Held, TypeOK, Claim
  <2>2. \A w \in Workers : cur[w] # None => Built(w)' = Built(w)
    BY <1>r, <1>o, <2>1 DEF Built, MessageOf, MessageTimestamp, workerVars
  <2>3. \A w \in Workers : pc[w] \in {"record", "ledger"} => cur[w] # None
    BY DEF IInv, WorkerMemory
  <2> QED
    BY <1>r, <2>2, <2>3 DEF IInv, WorkerMemory, workerVars, nodeVars
<1>6. ClaimsDistinct'
  BY <1>r DEF IInv, ClaimsDistinct, Held, workerVars
<1>7. PublishedIsOnNetwork'
    BY <1>r, <1>o, <1>n DEF IInv, PublishedIsOnNetwork, MessageOf, MessageTimestamp, nodeVars
<1> QED
  BY <1>1, <1>2, <1>3, <1>4, <1>5, <1>6, <1>7 DEF IInv

\* Frame: as long as the table stays and workers only forget claims, what is
\* said of rows and claims stays true.
LEMMA RowFrame ==
  ASSUME IInv, row' = row, now' \in Nat, now' >= now,
         \A w \in Workers : Held(w)' \subseteq Held(w)
  PROVE  /\ LeaseIffProcessing' /\ AttemptsLeft' /\ TimeHasCome'
         /\ HeldNotNewer' /\ ClaimsDistinct'
<1>1. LeaseIffProcessing' /\ AttemptsLeft'
  BY DEF IInv, LeaseIffProcessing, AttemptsLeft
<1>2. TimeHasCome'
  BY DEF IInv, TimeHasCome, TypeOK, Row
<1>3. HeldNotNewer'
  <2> SUFFICES ASSUME NEW w \in Workers, NEW c \in Held(w)'
               PROVE  /\ row[c.job].status # "absent"
                      /\ row[c.job].scheduled_for <= now'
                      /\ c.attempts <= row[c.job].attempts
                      /\ row[c.job].status = "processing"
                            /\ c.attempts = row[c.job].attempts
                         => c.lease <= row[c.job].lease
    BY DEF HeldNotNewer
  <2>1. c \in Held(w)
    OBVIOUS
  <2>2. c.job \in Jobs
    BY <2>1 DEF IInv, TypeOK, Held, Claim
  <2> QED
    BY <2>1, <2>2 DEF IInv, HeldNotNewer, TypeOK, Row
<1>4. ClaimsDistinct'
  BY DEF IInv, ClaimsDistinct
<1> QED
  BY <1>1, <1>2, <1>3, <1>4

\* Frame: messages stay pinned while nothing new is sent.
LEMMA MessageFrame ==
  ASSUME IInv, row' = row, now' \in Nat, now' >= now,
         inflight' \subseteq inflight, network' = network, ledger' = ledger
  PROVE  MessagesPinned' /\ PublishedIsOnNetwork'
<1>1. MessagesPinned'
  <2>1. \A r \in inflight : r.ts \in Nat
    BY DEF IInv, TypeOK, Request
  <2>2. \A m \in network : m.ts \in Nat
    BY DEF IInv, TypeOK, Message
  <2> QED
    BY <2>1, <2>2 DEF IInv, MessagesPinned, TypeOK
<1>2. PublishedIsOnNetwork'
  BY DEF IInv, PublishedIsOnNetwork, MessageOf, MessageTimestamp
<1> QED
  BY <1>1, <1>2

\* Steps that only touch the clock, a signer or the beginning and end of a pass.
LEMMA QuietIInv ==
  ASSUME IInv,
         \/ \E u \in Users : ToggleSigner(u)
         \/ \E k \in Jobs : LookupChanges(k)
         \/ \E w \in Workers : BeginPass(w) \/ EndPass(w)
         \/ Tick
         \/ UNCHANGED vars
  PROVE  IInv'
<1> USE ConstantsAssumption, NoneAssumption
<1>f. /\ row' = row /\ now' \in Nat /\ now' >= now
      /\ inflight' = inflight /\ network' = network /\ ledger' = ledger
      /\ batch' = batch /\ cur' = cur /\ body' = body /\ outcome' = outcome
  BY DEF IInv, TypeOK, ToggleSigner, LookupChanges, BeginPass, EndPass, Tick,
         vars, tableVars, nodeVars, workerVars, attemptVars
<1>h. \A w \in Workers : Held(w)' = Held(w)
  BY <1>f DEF Held
<1>1. TypeOK'
  <2>1. CASE \/ \E u \in Users : ToggleSigner(u)
             \/ \E k \in Jobs : LookupChanges(k)
    <3>0. signer \in [Users -> BOOLEAN] /\ lookup \in [Jobs -> Bodies]
      BY DEF IInv, TypeOK
    <3>1. signer' \in [Users -> BOOLEAN] /\ lookup' \in [Jobs -> Bodies]
      <4>1. CASE \E u \in Users : ToggleSigner(u)
        BY <3>0, <4>1 DEF ToggleSigner
      <4>2. CASE \E k \in Jobs : LookupChanges(k)
        BY <3>0, <4>2 DEF LookupChanges
      <4> QED
        BY <2>1, <4>1, <4>2
    <3>2. UNCHANGED <<now, tableVars, nodeVars, workerVars, crashes>>
      BY <2>1 DEF ToggleSigner, LookupChanges
    <3> QED
      BY <3>1, <3>2 DEF IInv, TypeOK, tableVars, nodeVars, workerVars
  <2>2. CASE \E w \in Workers : BeginPass(w)
    BY <2>2 DEF IInv, TypeOK, upstreamVars, BeginPass, tableVars, nodeVars, attemptVars, PCs
  <2>3. CASE \E w \in Workers : EndPass(w)
    BY <2>3 DEF IInv, TypeOK, upstreamVars, EndPass, tableVars, nodeVars, attemptVars, PCs
  <2>4. CASE Tick
    BY <2>4 DEF IInv, TypeOK, upstreamVars, Tick, tableVars, nodeVars, workerVars
  <2>5. CASE UNCHANGED vars
    BY <2>5 DEF IInv, TypeOK, vars
  <2> QED
    BY <2>1, <2>2, <2>3, <2>4, <2>5
<1>2. LeaseIffProcessing' /\ AttemptsLeft' /\ TimeHasCome' /\ HeldNotNewer'
      /\ ClaimsDistinct'
  BY <1>f, <1>h, RowFrame
<1>3. MessagesPinned' /\ PublishedIsOnNetwork'
  BY <1>f, MessageFrame
<1>4. WorkerMemory'
  <2>m. \A w \in Workers : Built(w)' = Built(w)
    BY <1>f DEF Built, MessageOf, MessageTimestamp
  <2>1. CASE \/ \E u \in Users : ToggleSigner(u)
             \/ \E k \in Jobs : LookupChanges(k)
    BY <2>1, <2>m, <1>f DEF IInv, WorkerMemory, ToggleSigner, LookupChanges,
                            workerVars
  <2>2. ASSUME NEW w \in Workers, BeginPass(w) PROVE WorkerMemory'
    BY <2>2, <2>m, <1>f DEF IInv, TypeOK, WorkerMemory, BeginPass, Attempting
  <2>3. ASSUME NEW w \in Workers, EndPass(w) PROVE WorkerMemory'
    BY <2>3, <2>m, <1>f DEF IInv, TypeOK, WorkerMemory, EndPass, Attempting
  <2>4. CASE Tick
    BY <2>4, <2>m, <1>f DEF IInv, TypeOK, WorkerMemory, Tick, workerVars
  <2>5. CASE UNCHANGED vars
    BY <2>5, <2>m, <1>f DEF IInv, WorkerMemory, vars
  <2> QED
    BY <2>1, <2>2, <2>3, <2>4, <2>5
<1> QED
  BY <1>1, <1>2, <1>3, <1>4 DEF IInv

\* The steps of an attempt that do not write the table: choosing the claim,
\* signing, sending, failing to hear back, crashing.
LEMMA AttemptIInv ==
  ASSUME IInv, NEW w \in Workers,
         \/ BeginAttempt(w) \/ Sign(w) \/ Submit(w) \/ ConnectionLost(w)
         \/ AttemptTimesOut(w) \/ Crash(w)
  PROVE  IInv'
<1> USE ConstantsAssumption, NoneAssumption
<1>f. row' = row /\ now' = now /\ network' = network /\ ledger' = ledger
  BY DEF BeginAttempt, Sign, Submit, ConnectionLost, AttemptTimesOut, Crash,
         tableVars, nodeVars
<1>t. now' \in Nat /\ now' >= now
  BY <1>f DEF IInv, TypeOK
<1>h. \A v \in Workers : Held(v)' \subseteq Held(v)
  <2>1. CASE BeginAttempt(w)
    BY <2>1 DEF BeginAttempt, Held, IInv, TypeOK
  <2>2. CASE Sign(w) \/ Submit(w) \/ ConnectionLost(w) \/ AttemptTimesOut(w)
    BY <2>2 DEF Sign, Submit, ConnectionLost, AttemptTimesOut, Held, attemptVars
  <2>3. CASE Crash(w)
    BY <2>3 DEF Crash, Held, IInv, TypeOK
  <2> QED
    BY <2>1, <2>2, <2>3
<1>1. TypeOK'
  <2> USE DEF IInv, TypeOK, tableVars, upstreamVars, nodeVars, attemptVars,
              PCs, Outcomes
  <2>1. CASE BeginAttempt(w)
    BY <2>1 DEF BeginAttempt
  <2>2. CASE Sign(w)
    <3>1. cur[w].job \in Jobs
      BY <2>2 DEF Sign, WorkerMemory, Attempting, Claim
    <3>2. pc' \in [Workers -> PCs] /\ outcome' \in [Workers -> Outcomes \cup {None}]
      BY <2>2 DEF Sign, Finish
    <3>3. body' \in [Workers -> Bodies \cup {None}]
      <4>1. lookup[cur[w].job] \in Bodies
        BY <3>1
      <4>2. body' = body \/ body' = [body EXCEPT ![w] = lookup[cur[w].job]]
        BY <2>2 DEF Sign
      <4> QED
        BY <4>1, <4>2
    <3> QED
      BY <2>2, <3>2, <3>3 DEF Sign
  <2>3. CASE Submit(w)
    <3>1. cur[w] \in Claim /\ body[w] \in Bodies
      BY <2>3 DEF Submit, WorkerMemory, Attempting
    <3>2. row[cur[w].job].scheduled_for \in Nat
      BY <3>1 DEF Claim, Row
    <3> QED
      BY <2>3, <3>1, <3>2 DEF Submit, Request, MessageTimestamp
  <2>4. CASE ConnectionLost(w) \/ AttemptTimesOut(w)
    BY <2>4 DEF ConnectionLost, AttemptTimesOut, Finish
  <2>5. CASE Crash(w)
    BY <2>5 DEF Crash
  <2> QED
    BY <2>1, <2>2, <2>3, <2>4, <2>5
<1>2. LeaseIffProcessing' /\ AttemptsLeft' /\ TimeHasCome' /\ HeldNotNewer'
      /\ ClaimsDistinct'
  BY <1>f, <1>t, <1>h, RowFrame
<1>3. MessagesPinned' /\ PublishedIsOnNetwork'
  <2>1. CASE ~Submit(w)
    <3>1. inflight' = inflight
      BY <2>1 DEF BeginAttempt, Sign, ConnectionLost, AttemptTimesOut, Crash,
                  nodeVars
    <3> QED
      BY <3>1, <1>f, <1>t, MessageFrame
  <2>2. CASE Submit(w)
    <3>1. cur[w] \in Held(w) /\ cur[w] \in Claim
      BY <2>2 DEF Submit, IInv, WorkerMemory, Attempting, Held, TypeOK
    <3>2. MessagesPinned'
      BY <2>2, <3>1, <1>f DEF IInv, HeldNotNewer, MessagesPinned, Submit,
                              MessageTimestamp
    <3>3. PublishedIsOnNetwork'
      BY <1>f DEF IInv, PublishedIsOnNetwork, MessageOf, MessageTimestamp
    <3> QED
      BY <3>2, <3>3
  <2> QED
    BY <2>1, <2>2
<1>4. WorkerMemory'
  <2> SUFFICES ASSUME NEW v \in Workers
               PROVE  /\ pc'[v] = "claiming" => clk'[v] <= now'
                      /\ pc'[v] \in Attempting \cup {"record", "ledger"} => cur'[v] # None
                      /\ pc'[v] \in {"idle", "claiming"} => batch'[v] = {} /\ cur'[v] = None
                      /\ pc'[v] = "ready" => cur'[v] = None
                      /\ pc'[v] = "ledger" => outcome'[v] = "ok"
                      /\ pc'[v] \in {"submit", "await"} => body'[v] # None
                      /\ pc'[v] \in {"record", "ledger"} /\ outcome'[v] = "ok" =>
                            Built(v)' \in network'
    BY DEF WorkerMemory
  <2>m. cur'[v] = cur[v] /\ body'[v] = body[v] => Built(v)' = Built(v)
    BY <1>f DEF Built, MessageOf, MessageTimestamp
  <2> USE DEF IInv, TypeOK, WorkerMemory, Attempting
  <2>1. CASE BeginAttempt(w)
    <3>1. \A c \in Claim : c # None
      BY NoneAssumption
    <3> QED
      BY <3>1, <2>1, <2>m, <1>f DEF BeginAttempt
  <2>2. CASE Sign(w)
    <3>0. cur[w].job \in Jobs
      BY <2>2 DEF Sign, Claim
    <3>1. lookup[cur[w].job] # None
      <4>1. lookup[cur[w].job] \in Bodies
        BY <3>0 DEF IInv, TypeOK
      <4>2. None \notin Bodies
        BY NoneAssumption
      <4> QED
        BY <4>1, <4>2 DEF WorkerMemory
    <3>2. v # w => pc'[v] = pc[v] /\ outcome'[v] = outcome[v] /\ body'[v] = body[v]
      BY <2>2 DEF Sign, Finish
    <3>3. UNCHANGED <<clk, batch, cur>>
      BY <2>2 DEF Sign
    <3>4. CASE v # w
      BY <3>2, <3>3, <3>4, <2>m, <1>f
    <3>5. CASE v = w
      BY <2>2, <3>1, <3>3, <3>5 DEF Sign, Finish
    <3> QED
      BY <3>4, <3>5
  <2>3. CASE Submit(w)
    BY <2>3, <2>m, <1>f DEF Submit, attemptVars
  <2>4. CASE ConnectionLost(w) \/ AttemptTimesOut(w)
    BY <2>4, <2>m, <1>f DEF ConnectionLost, AttemptTimesOut, Finish
  <2>5. CASE Crash(w)
    BY <2>5, <2>m, <1>f DEF Crash
  <2> QED
    BY <2>1, <2>2, <2>3, <2>4, <2>5
<1> QED
  BY <1>1, <1>2, <1>3, <1>4 DEF IInv

\* The node's answers: an accepted message is the pinned one, and a worker
\* hears "ok" only about a message the node holds.
LEMMA NodeIInv ==
  ASSUME IInv, NEW r \in inflight, NodeAccept(r) \/ NodeReject(r)
  PROVE  IInv'
<1> USE ConstantsAssumption, NoneAssumption
<1>f. /\ row' = row /\ now' = now /\ ledger' = ledger /\ UNCHANGED upstreamVars
      /\ crashes' = crashes /\ clk' = clk /\ started' = started
      /\ batch' = batch /\ cur' = cur /\ body' = body
      /\ inflight' \subseteq inflight /\ network \subseteq network'
  BY DEF NodeAccept, NodeReject, tableVars
<1>t. now' \in Nat /\ now' >= now
  BY <1>f DEF IInv, TypeOK
<1>r. /\ r \in Request /\ r.claim \in Claim /\ r.claim.job \in Jobs /\ r.ts \in Nat
      /\ r.body \in Bodies /\ Carried(r) \in Message
      /\ Carried(r).job = r.claim.job /\ Carried(r).ts = r.ts
  BY DEF IInv, TypeOK, Request, Claim, Carried, Message
<1>n. network' \subseteq network \cup {Carried(r)}
  BY DEF NodeAccept, NodeReject
<1>o. \/ UNCHANGED <<pc, outcome>>
      \/ \E w \in Workers, o \in Outcomes :
            /\ Waiting(w, r) /\ Finish(w, o)
            /\ o = "ok" => Carried(r) \in network'
  BY DEF NodeAccept, NodeReject, Answer, Outcomes
<1>h. \A v \in Workers : Held(v)' \subseteq Held(v)
  BY <1>f DEF Held
<1>1. TypeOK'
  <2>1. network' \subseteq Message
    BY <1>n, <1>r DEF IInv, TypeOK
  <2>2. pc' \in [Workers -> PCs] /\ outcome' \in [Workers -> Outcomes \cup {None}]
    BY <1>o DEF IInv, TypeOK, Finish, PCs
  <2> QED
    BY <1>f, <2>1, <2>2 DEF IInv, TypeOK, upstreamVars
<1>2. LeaseIffProcessing' /\ AttemptsLeft' /\ TimeHasCome' /\ HeldNotNewer'
      /\ ClaimsDistinct'
  BY <1>f, <1>t, <1>h, RowFrame
<1>3. MessagesPinned'
  BY <1>f, <1>n, <1>r DEF IInv, MessagesPinned
<1>4. PublishedIsOnNetwork'
  BY <1>f DEF IInv, PublishedIsOnNetwork, MessageOf, MessageTimestamp
<1>5. WorkerMemory'
  <2>m. \A v \in Workers : Built(v)' = Built(v)
    BY <1>f DEF Built, MessageOf, MessageTimestamp
  <2>1. CASE UNCHANGED <<pc, outcome>>
    BY <2>1, <2>m, <1>f DEF IInv, WorkerMemory
  <2>2. ASSUME NEW w \in Workers, NEW o \in Outcomes, Waiting(w, r), Finish(w, o),
               o = "ok" => Carried(r) \in network'
        PROVE  WorkerMemory'
    <3>1. Built(w) = Carried(r)
      BY <2>2 DEF Waiting, Built, Carried, MessageOf, MessageTimestamp, IInv,
                  MessagesPinned
    <3> QED
      BY <2>2, <2>m, <1>f, <3>1 DEF IInv, TypeOK, WorkerMemory, Finish,
                                    Waiting, Attempting
  <2> QED
    BY <1>o, <2>1, <2>2
<1> QED
  BY <1>1, <1>2, <1>3, <1>4, <1>5 DEF IInv

\* Frame: a step that gives up the claim on a row, leaving its attempts and its
\* time alone, keeps what is said of rows, claims and messages.
LEMMA SettleFrame ==
  ASSUME IInv, NEW j \in Jobs, NEW new \in Row,
         row' = [row EXCEPT ![j] = new],
         row[j].status # "absent",
         new.status \in {"retrying", "published", "failed", "cancelled"},
         new.lease = None, new.attempts = row[j].attempts,
         new.scheduled_for = row[j].scheduled_for,
         new.status = "retrying" =>
            new.attempts < MaxAttempts /\ new.scheduled_for <= now,
         new.status = "published" => MessageOf(j, new.published) \in network,
         now' = now, UNCHANGED nodeVars, ledger' = ledger,
         \A w \in Workers : Held(w)' \subseteq Held(w)
  PROVE  /\ LeaseIffProcessing' /\ AttemptsLeft' /\ TimeHasCome'
         /\ HeldNotNewer' /\ ClaimsDistinct' /\ MessagesPinned'
         /\ PublishedIsOnNetwork' /\ row' \in [Jobs -> Row]
         /\ \A k \in Jobs : row'[k].scheduled_for = row[k].scheduled_for
<1> USE ConstantsAssumption, NoneAssumption
<1>n. row'[j] = new /\ \A k \in Jobs : k # j => row'[k] = row[k]
  BY DEF IInv, TypeOK
<1>s. \A k \in Jobs : /\ row'[k].scheduled_for = row[k].scheduled_for
                      /\ row'[k].attempts = row[k].attempts
                      /\ row[k].status # "absent" => row'[k].status # "absent"
                      /\ row'[k].status = "processing" => row'[k] = row[k]
  BY <1>n
<1>1. LeaseIffProcessing' /\ AttemptsLeft' /\ TimeHasCome'
  BY <1>n DEF IInv, LeaseIffProcessing, AttemptsLeft, TimeHasCome
<1>2. HeldNotNewer'
  <2> SUFFICES ASSUME NEW w \in Workers, NEW c \in Held(w)'
               PROVE  /\ row'[c.job].status # "absent"
                      /\ row'[c.job].scheduled_for <= now'
                      /\ c.attempts <= row'[c.job].attempts
                      /\ row'[c.job].status = "processing"
                            /\ c.attempts = row'[c.job].attempts
                         => c.lease <= row'[c.job].lease
    BY DEF HeldNotNewer
  <2>1. c \in Held(w)
    OBVIOUS
  <2>2. c.job \in Jobs
    BY <2>1 DEF IInv, TypeOK, Held, Claim
  <2> QED
    BY <2>1, <2>2, <1>s DEF IInv, HeldNotNewer
<1>3. ClaimsDistinct'
  BY DEF IInv, ClaimsDistinct
<1>4. MessagesPinned'
  <2>1. \A r \in inflight : r.claim.job \in Jobs
    BY DEF IInv, TypeOK, Request, Claim
  <2>2. \A m \in network : m.job \in Jobs
    BY DEF IInv, TypeOK, Message
  <2> QED
    BY <1>s, <2>1, <2>2 DEF IInv, MessagesPinned, nodeVars
<1>5. PublishedIsOnNetwork'
  BY <1>n, <1>s DEF IInv, PublishedIsOnNetwork, MessageOf, MessageTimestamp,
                    nodeVars
<1>6. row' \in [Jobs -> Row]
  BY DEF IInv, TypeOK
<1> QED
  BY <1>s, <1>1, <1>2, <1>3, <1>4, <1>5, <1>6

\* DELETE /scheduled-casts/{id} on a row no worker is processing.
LEMMA CancelIInv ==
  ASSUME IInv, NEW j \in Jobs, CancelCast(j)
  PROVE  IInv'
<1> USE ConstantsAssumption, NoneAssumption
<1> DEFINE new == [row[j] EXCEPT !.status = "cancelled", !.lease = None]
<1>1. new \in Row /\ row' = [row EXCEPT ![j] = new]
  <2>1. row \in [Jobs -> Row] /\ row[j] \in Row
    BY DEF IInv, TypeOK
  <2>2. row' = [row EXCEPT ![j].status = "cancelled", ![j].lease = None]
    BY DEF CancelCast
  <2>3. row' = [row EXCEPT ![j] = new]
    BY <2>1, <2>2
  <2>4. new \in Row
    BY <2>1 DEF Row, Statuses
  <2> QED BY <2>3, <2>4
<1>2. /\ new.status = "cancelled" /\ new.lease = None
      /\ new.attempts = row[j].attempts
      /\ new.scheduled_for = row[j].scheduled_for
  BY DEF IInv, TypeOK, Row
<1>3. /\ row[j].status # "absent" /\ now' = now /\ UNCHANGED nodeVars
      /\ ledger' = ledger /\ UNCHANGED workerVars /\ UNCHANGED <<upstreamVars, crashes>>
  BY DEF CancelCast
<1>h. \A w \in Workers : Held(w)' = Held(w)
  BY <1>3 DEF Held, workerVars
<1> HIDE DEF new
<1>4. /\ LeaseIffProcessing' /\ AttemptsLeft' /\ TimeHasCome'
      /\ HeldNotNewer' /\ ClaimsDistinct' /\ MessagesPinned'
      /\ PublishedIsOnNetwork' /\ row' \in [Jobs -> Row]
      /\ \A k \in Jobs : row'[k].scheduled_for = row[k].scheduled_for
  BY <1>1, <1>2, <1>3, <1>h, SettleFrame
<1>5. TypeOK'
  BY <1>3, <1>4 DEF IInv, TypeOK, upstreamVars, nodeVars, workerVars
<1>6. WorkerMemory'
  <2>1. \A w \in Workers : cur[w] # None => Built(w)' = Built(w)
    BY <1>3, <1>4 DEF IInv, TypeOK, Claim, Built, MessageOf, MessageTimestamp, workerVars
  <2>2. \A w \in Workers : pc[w] \in {"record", "ledger"} => cur[w] # None
    BY DEF IInv, WorkerMemory
  <2> QED
    BY <1>3, <2>1, <2>2 DEF IInv, WorkerMemory, workerVars, nodeVars
<1> QED
  BY <1>4, <1>5, <1>6 DEF IInv

\* Leaving an attempt keeps the workers' memory in order.
LEMMA DoneMemory ==
  ASSUME IInv, NEW w \in Workers, Done(w), UNCHANGED <<now, network, clk, batch>>,
         row' \in [Jobs -> Row],
         \A k \in Jobs : row'[k].scheduled_for = row[k].scheduled_for
  PROVE  /\ WorkerMemory'
         /\ \A v \in Workers : Held(v)' \subseteq Held(v)
<1>1. \A v \in Workers : v # w => /\ pc'[v] = pc[v] /\ cur'[v] = cur[v]
                                   /\ body'[v] = body[v]
                                   /\ outcome'[v] = outcome[v]
  BY DEF Done, IInv, TypeOK
<1>2. pc'[w] = "ready" /\ cur'[w] = None
  BY DEF Done, IInv, TypeOK
<1>3. \A v \in Workers : v # w /\ cur[v] # None =>
            Built(v)' = Built(v)
  BY <1>1 DEF IInv, TypeOK, Claim, Built, MessageOf, MessageTimestamp
<1>4. \A v \in Workers : pc[v] \in {"record", "ledger"} => cur[v] # None
  BY DEF IInv, WorkerMemory
<1>5. WorkerMemory'
  BY <1>1, <1>2, <1>3, <1>4 DEF IInv, WorkerMemory, Attempting
<1>6. \A v \in Workers : Held(v)' \subseteq Held(v)
  BY <1>1, <1>2 DEF Held
<1> QED
  BY <1>5, <1>6

\* The best-effort ledger write credits a job whose message the node holds.
LEMMA LedgerIInv ==
  ASSUME IInv, NEW w \in Workers, RecordLedger(w)
  PROVE  IInv'
<1> USE ConstantsAssumption, NoneAssumption
<1>f. /\ row' = row /\ now' = now /\ UNCHANGED <<upstreamVars, inflight, network, clk,
                                                batch, crashes>>
      /\ ledger' \subseteq ledger \cup {Built(w)}
      /\ Done(w)
  BY DEF RecordLedger, nodeVars
<1>t. now' \in Nat /\ now' >= now
  BY <1>f DEF IInv, TypeOK
<1>c. cur[w] \in Claim /\ cur[w].job \in Jobs /\ Built(w) \in network
  BY DEF RecordLedger, IInv, TypeOK, WorkerMemory, Claim
<1>1. WorkerMemory' /\ \A v \in Workers : Held(v)' \subseteq Held(v)
  <2>1. row' \in [Jobs -> Row]
    BY <1>f DEF IInv, TypeOK
  <2> QED
    BY <1>f, <2>1, DoneMemory
<1>2. LeaseIffProcessing' /\ AttemptsLeft' /\ TimeHasCome' /\ HeldNotNewer'
      /\ ClaimsDistinct'
  BY <1>f, <1>t, <1>1, RowFrame
<1>3. TypeOK'
  BY <1>f, <1>c DEF IInv, TypeOK, Done, PCs, upstreamVars
<1>4. MessagesPinned'
  BY <1>f DEF IInv, MessagesPinned
<1>5. PublishedIsOnNetwork'
  BY <1>f, <1>c DEF IInv, PublishedIsOnNetwork, MessageOf, MessageTimestamp
<1> QED
  BY <1>1, <1>2, <1>3, <1>4, <1>5 DEF IInv

\* _record_success publishes the row only under a matching claim.
LEMMA SuccessIInv ==
  ASSUME IInv, NEW w \in Workers, RecordSuccess(w)
  PROVE  IInv'
<1> USE ConstantsAssumption, NoneAssumption
<1> DEFINE j == cur[w].job
           new == [row[j] EXCEPT !.status = "published", !.published = body[w],
                                 !.lease = None]
<1>c. /\ cur[w] \in Claim /\ j \in Jobs /\ cur[w] # None
      /\ MessageOf(j, body[w]) \in network
      /\ row[j].status # "absent" /\ body[w] \in Bodies \cup {None}
  BY DEF RecordSuccess, IInv, TypeOK, WorkerMemory, Claim, Built, HeldNotNewer,
         Held
<1>f. now' = now /\ UNCHANGED <<upstreamVars, ledger, nodeVars, clk, batch, crashes>>
  BY DEF RecordSuccess
<1>1. CASE ~ClaimMatches(cur[w])
  <2>1. row' = row /\ Done(w)
    BY <1>1 DEF RecordSuccess
  <2>2. row' \in [Jobs -> Row] /\ now' \in Nat /\ now' >= now
    BY <2>1, <1>f DEF IInv, TypeOK
  <2>3. WorkerMemory' /\ \A v \in Workers : Held(v)' \subseteq Held(v)
    BY <1>f, <2>1, <2>2, DoneMemory DEF nodeVars
  <2>4. LeaseIffProcessing' /\ AttemptsLeft' /\ TimeHasCome' /\ HeldNotNewer'
        /\ ClaimsDistinct'
    BY <2>1, <2>2, <2>3, RowFrame
  <2>5. MessagesPinned' /\ PublishedIsOnNetwork'
    BY <1>f, <2>1, <2>2, MessageFrame DEF nodeVars
  <2>6. TypeOK'
    BY <1>f, <2>1 DEF IInv, TypeOK, upstreamVars, Done, PCs, nodeVars
  <2> QED
    BY <2>3, <2>4, <2>5, <2>6 DEF IInv
<1>2. CASE ClaimMatches(cur[w])
  <2>a. row[j] \in Row
    BY <1>c DEF IInv, TypeOK
  <2>b. new \in Row
    BY <1>c, <2>a DEF Row, Statuses
  <2>c. /\ row' = [row EXCEPT ![j].status = "published",
                              ![j].published = body[w], ![j].lease = None]
        /\ pc' = [pc EXCEPT ![w] = "ledger"] /\ UNCHANGED attemptVars
    BY <1>2 DEF RecordSuccess
  <2>d. row' = [row EXCEPT ![j] = new]
    BY <1>c, <2>a, <2>c DEF IInv, TypeOK, Row
  <2>1. /\ row' = [row EXCEPT ![j] = new] /\ new \in Row
        /\ pc' = [pc EXCEPT ![w] = "ledger"] /\ UNCHANGED attemptVars
    BY <2>b, <2>c, <2>d
  <2>2. /\ new.status = "published" /\ new.lease = None /\ new.published = body[w]
        /\ new.attempts = row[j].attempts
        /\ new.scheduled_for = row[j].scheduled_for
    BY <1>c DEF IInv, TypeOK, Row
  <2>h. \A v \in Workers : Held(v)' = Held(v)
    BY <1>f, <2>1 DEF Held, attemptVars
  <2>o. pc[w] = "record" /\ outcome[w] = "ok"
    BY DEF RecordSuccess
  <2> HIDE DEF new, j
  <2>3. /\ LeaseIffProcessing' /\ AttemptsLeft' /\ TimeHasCome'
        /\ HeldNotNewer' /\ ClaimsDistinct' /\ MessagesPinned'
        /\ PublishedIsOnNetwork' /\ row' \in [Jobs -> Row]
        /\ \A k \in Jobs : row'[k].scheduled_for = row[k].scheduled_for
    BY <1>c, <1>f, <2>1, <2>2, <2>h, SettleFrame
  <2>4. TypeOK'
    BY <1>f, <2>1, <2>3 DEF IInv, TypeOK, upstreamVars, PCs, nodeVars, attemptVars
  <2>5. WorkerMemory'
    <3>1. \A v \in Workers : cur[v] # None => Built(v)' = Built(v)
      BY <2>1, <2>3 DEF IInv, TypeOK, Claim, Built, MessageOf, MessageTimestamp, attemptVars
    <3>2. \A v \in Workers : pc[v] \in {"record", "ledger"} => cur[v] # None
      BY DEF IInv, WorkerMemory
    <3>3. \A v \in Workers : v # w => pc'[v] = pc[v]
      BY <2>1 DEF IInv, TypeOK
    <3>4. pc'[w] = "ledger"
      BY <2>1 DEF IInv, TypeOK
    <3> QED
      BY <1>f, <2>1, <2>o, <3>1, <3>2, <3>3, <3>4
         DEF IInv, WorkerMemory, Attempting, nodeVars, attemptVars
  <2> QED
    BY <2>3, <2>4, <2>5 DEF IInv
<1> QED
  BY <1>1, <1>2

\* _record_failure retries while attempts are left and writes only under a
\* matching claim.
LEMMA FailureIInv ==
  ASSUME IInv, NEW w \in Workers, RecordFailure(w)
  PROVE  IInv'
<1> USE ConstantsAssumption, NoneAssumption
<1> DEFINE c == cur[w]
           j == cur[w].job
           new == FailedRow(c, outcome[w])
<1>c. /\ c \in Claim /\ j \in Jobs /\ cur[w] # None
      /\ row[j].status # "absent" /\ row[j].scheduled_for <= now
  BY DEF RecordFailure, IInv, TypeOK, WorkerMemory, Claim, HeldNotNewer, Held
<1>f. /\ now' = now /\ UNCHANGED <<upstreamVars, ledger, nodeVars, clk, batch, crashes>>
      /\ Done(w)
  BY DEF RecordFailure
<1>1. CASE ~ClaimMatches(c)
  <2>1. row' = row
    BY <1>1 DEF RecordFailure
  <2>2. row' \in [Jobs -> Row] /\ now' \in Nat /\ now' >= now
    BY <2>1, <1>f DEF IInv, TypeOK
  <2>3. WorkerMemory' /\ \A v \in Workers : Held(v)' \subseteq Held(v)
    BY <1>f, <2>1, <2>2, DoneMemory DEF nodeVars
  <2>4. LeaseIffProcessing' /\ AttemptsLeft' /\ TimeHasCome' /\ HeldNotNewer'
        /\ ClaimsDistinct'
    BY <2>1, <2>2, <2>3, RowFrame
  <2>5. MessagesPinned' /\ PublishedIsOnNetwork'
    BY <1>f, <2>1, <2>2, MessageFrame DEF nodeVars
  <2>6. TypeOK'
    BY <1>f, <2>1 DEF IInv, TypeOK, upstreamVars, Done, PCs, nodeVars
  <2> QED
    BY <2>3, <2>4, <2>5, <2>6 DEF IInv
<1>2. CASE ClaimMatches(c)
  <2>1. row' = [row EXCEPT ![j] = new]
    BY <1>2 DEF RecordFailure
  <2>2. c.attempts = row[j].attempts /\ c.attempts \in 1..MaxAttempts
    BY <1>2, <1>c DEF ClaimMatches, Claim
  <2>3. RetryDelay(c.attempts) \in Nat /\ now + RetryDelay(c.attempts) \in Nat
    BY <2>2, DelayType DEF IInv, TypeOK
  <2>4. /\ new \in Row /\ new.status \in {"retrying", "failed"}
        /\ new.lease = None /\ new.attempts = row[j].attempts
        /\ new.scheduled_for = row[j].scheduled_for
        /\ new.status = "retrying" => new.attempts < MaxAttempts
    <3>1. row[j] \in Row
      BY <1>c DEF IInv, TypeOK
    <3>2. CASE ShouldRetry(c, outcome[w])
      BY <3>1, <3>2, <2>2, <2>3 DEF Row, Statuses, FailedRow, ShouldRetry
    <3>3. CASE ~ShouldRetry(c, outcome[w])
      BY <3>1, <3>3 DEF Row, Statuses, FailedRow
    <3> QED
      BY <3>2, <3>3
  <2>5. row' \in [Jobs -> Row] /\ \A k \in Jobs : row'[k].scheduled_for = row[k].scheduled_for
    BY <1>c, <2>1, <2>4 DEF IInv, TypeOK
  <2>6. WorkerMemory' /\ \A v \in Workers : Held(v)' \subseteq Held(v)
    BY <1>f, <2>5, DoneMemory DEF nodeVars
  <2> HIDE DEF new, j
  <2>7. /\ LeaseIffProcessing' /\ AttemptsLeft' /\ TimeHasCome'
        /\ HeldNotNewer' /\ ClaimsDistinct' /\ MessagesPinned'
        /\ PublishedIsOnNetwork'
    BY <1>c, <1>f, <2>1, <2>4, <2>6, SettleFrame
  <2>8. TypeOK'
    BY <1>f, <2>5 DEF IInv, TypeOK, upstreamVars, Done, PCs, nodeVars
  <2> QED
    BY <2>6, <2>7, <2>8 DEF IInv
<1> QED
  BY <1>1, <1>2

\* A selected row has attempts left, its time has come, and its new token is
\* newer than its old one.
LEMMA ClaimedRow ==
  ASSUME IInv, NEW t \in Nat, t <= now, NEW j \in Jobs, Due(j, t)
  PROVE  /\ ~Exhausted(j)
         /\ NextAttempts(j) \in 1..MaxAttempts
         /\ t + LeaseSeconds \in Nat
         /\ Claimed(j, t) \in Row
         /\ Claimed(j, t).status = "processing"
         /\ Claimed(j, t).attempts = NextAttempts(j)
         /\ Claimed(j, t).lease = t + LeaseSeconds
         /\ Claimed(j, t).scheduled_for = row[j].scheduled_for
         /\ row[j].scheduled_for <= now
         /\ \/ row[j].attempts < NextAttempts(j)
            \/ /\ row[j].status = "processing" /\ row[j].attempts = NextAttempts(j)
               /\ row[j].lease \in Nat /\ row[j].lease < t + LeaseSeconds
         /\ row[j].status \notin {"absent", "published"}
<1> USE ConstantsAssumption, NoneAssumption
<1>r. row[j] \in Row /\ now \in Nat
  BY DEF IInv, TypeOK
<1>l. LeaseSeconds \in Nat /\ LeaseSeconds > 0
  BY LeasePositive
<1> DEFINE L == LeaseSeconds
<1>s. /\ row[j].status \in {"pending", "retrying", "processing"}
      /\ row[j].attempts \in 0..MaxAttempts
      /\ row[j].status # "processing" =>
            row[j].attempts < MaxAttempts /\ row[j].next_attempt_at <= t
      /\ row[j].status = "processing" => row[j].attempts >= 1 /\ row[j].lease <= t
  BY <1>r DEF Due, IInv, AttemptsLeft, Row
<1>e. row[j].status = "processing" => row[j].lease \in Nat
  BY <1>r DEF IInv, LeaseIffProcessing, Row
<1>1. ~Exhausted(j)
  BY <1>s DEF Exhausted
<1>2. NextAttempts(j) \in 1..MaxAttempts
  BY <1>s DEF NextAttempts
<1>3. t + LeaseSeconds \in Nat /\ t < t + LeaseSeconds
  BY <1>l
<1>4. Claimed(j, t) = [row[j] EXCEPT !.status = "processing",
                         !.attempts = NextAttempts(j), !.lease = t + LeaseSeconds]
  BY <1>1 DEF Claimed
<1>5. /\ Claimed(j, t) \in Row /\ Claimed(j, t).status = "processing"
      /\ Claimed(j, t).attempts = NextAttempts(j)
      /\ Claimed(j, t).lease = t + LeaseSeconds
      /\ Claimed(j, t).scheduled_for = row[j].scheduled_for
  <2> DEFINE q == Claimed(j, t)
             r == row[j]
             n == NextAttempts(j)
             l == t + LeaseSeconds
  <2>1. /\ r \in Row /\ n \in 1..MaxAttempts /\ l \in Nat
        /\ q = [r EXCEPT !.status = "processing", !.attempts = n, !.lease = l]
    BY <1>r, <1>2, <1>3, <1>4
  <2>2. /\ q \in Row /\ q.status = "processing" /\ q.attempts = n
        /\ q.lease = l /\ q.scheduled_for = r.scheduled_for
    <3> HIDE DEF q, r, n, l
    <3>1. n \in 0..MaxAttempts
      BY <2>1
    <3>2. q.status = "processing" /\ q.attempts = n /\ q.lease = l
      BY <2>1 DEF Row
    <3>3. q.scheduled_for = r.scheduled_for
      BY <2>1 DEF Row
    <3>4. q \in Row
      BY <2>1, <3>1 DEF Row, Statuses
    <3> QED
      BY <3>2, <3>3, <3>4
  <2> QED
    BY <2>2
<1>6. row[j].scheduled_for <= now
  BY <1>r, <1>s DEF IInv, TimeHasCome, Row
<1>7. \/ row[j].attempts < NextAttempts(j)
      \/ /\ row[j].status = "processing" /\ row[j].attempts = NextAttempts(j)
         /\ row[j].lease \in Nat /\ row[j].lease < t + LeaseSeconds
  BY <1>s, <1>e, <1>3 DEF NextAttempts
<1> QED
  BY <1>1, <1>2, <1>3, <1>5, <1>6, <1>7, <1>s

\* _claim_due_jobs gives every selected row a token newer than any token held.
LEMMA ClaimIInv ==
  ASSUME IInv, NEW w \in Workers, ClaimDueJobs(w)
  PROVE  IInv'
<1> USE ConstantsAssumption, NoneAssumption
<1> DEFINE t == clk[w]
<1>t. t \in Nat /\ t <= now /\ batch[w] = {} /\ cur[w] = None
  BY DEF ClaimDueJobs, IInv, TypeOK, WorkerMemory
<1>p. PICK S \in SUBSET DueJobs(t) :
        /\ row' = [j \in Jobs |-> IF j \in S THEN Claimed(j, t) ELSE row[j]]
        /\ batch' = [batch EXCEPT ![w] =
                      {ClaimOf(j, t) : j \in {k \in S : ~Exhausted(k)}}]
  BY DEF ClaimDueJobs
<1>f. /\ UNCHANGED <<now, upstreamVars, ledger, nodeVars, attemptVars, crashes>>
      /\ pc' = [pc EXCEPT ![w] = "ready"] /\ clk' = [clk EXCEPT ![w] = 0]
  BY DEF ClaimDueJobs
<1> HIDE DEF t
<1>s. \A j \in S :
         /\ j \in Jobs
         /\ ~Exhausted(j)
         /\ NextAttempts(j) \in 1..MaxAttempts
         /\ t + LeaseSeconds \in Nat
         /\ row'[j] \in Row
         /\ row'[j].status = "processing"
         /\ row'[j].attempts = NextAttempts(j)
         /\ row'[j].lease = t + LeaseSeconds
         /\ row'[j].scheduled_for = row[j].scheduled_for
         /\ row[j].scheduled_for <= now
         /\ \/ row[j].attempts < NextAttempts(j)
            \/ /\ row[j].status = "processing" /\ row[j].attempts = NextAttempts(j)
               /\ row[j].lease \in Nat /\ row[j].lease < t + LeaseSeconds
         /\ row[j].status \notin {"absent", "published"}
  <2> SUFFICES ASSUME NEW j \in S PROVE
         /\ j \in Jobs
         /\ ~Exhausted(j)
         /\ NextAttempts(j) \in 1..MaxAttempts
         /\ t + LeaseSeconds \in Nat
         /\ row'[j] \in Row
         /\ row'[j].status = "processing"
         /\ row'[j].attempts = NextAttempts(j)
         /\ row'[j].lease = t + LeaseSeconds
         /\ row'[j].scheduled_for = row[j].scheduled_for
         /\ row[j].scheduled_for <= now
         /\ \/ row[j].attempts < NextAttempts(j)
            \/ /\ row[j].status = "processing" /\ row[j].attempts = NextAttempts(j)
               /\ row[j].lease \in Nat /\ row[j].lease < t + LeaseSeconds
         /\ row[j].status \notin {"absent", "published"}
    OBVIOUS
  <2>1. j \in Jobs /\ Due(j, t)
    BY DEF DueJobs
  <2>2. row'[j] = Claimed(j, t)
    BY <1>p, <2>1
  <2> QED
    BY <1>t, <2>1, <2>2, ClaimedRow
<1>o. \A j \in Jobs : j \notin S => row'[j] = row[j]
  BY <1>p
<1>k. \A j \in Jobs : /\ row'[j].scheduled_for = row[j].scheduled_for
                      /\ row[j].status # "absent" => row'[j].status # "absent"
  BY <1>s, <1>o
<1>h. /\ \A v \in Workers : v # w => Held(v)' = Held(v)
      /\ Held(w)' = {ClaimOf(j, t) : j \in S}
  <2>1. {k \in S : ~Exhausted(k)} = S
    BY <1>s
  <2>2. batch'[w] = {ClaimOf(j, t) : j \in S}
    BY <1>p, <2>1 DEF IInv, TypeOK
  <2>3. \A v \in Workers : v # w => batch'[v] = batch[v]
    BY <1>p DEF IInv, TypeOK
  <2> QED
    BY <2>2, <2>3, <1>f, <1>t DEF Held, attemptVars
<1>c. \A j \in S : /\ ClaimOf(j, t) \in Claim
                   /\ ClaimOf(j, t).job = j
                   /\ ClaimOf(j, t).attempts = NextAttempts(j)
                   /\ ClaimOf(j, t).lease = t + LeaseSeconds
  BY <1>s DEF ClaimOf, Claim, IInv, TypeOK, Row
<1>v. \A v \in Workers : \A c \in Held(v) :
        /\ c \in Claim /\ c.job \in Jobs /\ c.attempts \in Nat /\ c.lease \in Nat
        /\ row[c.job] \in Row /\ row[c.job].attempts \in Nat
  <2> SUFFICES ASSUME NEW v \in Workers, NEW c \in Held(v)
               PROVE  /\ c \in Claim /\ c.job \in Jobs
                      /\ c.attempts \in Nat /\ c.lease \in Nat
                      /\ row[c.job] \in Row /\ row[c.job].attempts \in Nat
    OBVIOUS
  <2>1. c \in Claim
    BY DEF Held, IInv, TypeOK
  <2>2. c.job \in Jobs /\ c.attempts \in Nat /\ c.lease \in Nat
    BY <2>1 DEF Claim
  <2>3. row[c.job] \in Row
    BY <2>2 DEF IInv, TypeOK
  <2>4. row[c.job].attempts \in Nat
    BY <2>3 DEF Row
  <2> QED
    BY <2>1, <2>2, <2>3, <2>4
<1>1. TypeOK'
  <2>1. row' \in [Jobs -> Row]
    BY <1>p, <1>s, <1>o DEF IInv, TypeOK
  <2>2. batch' \in [Workers -> SUBSET Claim]
    BY <1>p, <1>c DEF IInv, TypeOK
  <2> QED
    BY <1>f, <2>1, <2>2 DEF IInv, TypeOK, upstreamVars, PCs, nodeVars, attemptVars
<1>2. LeaseIffProcessing' /\ AttemptsLeft' /\ TimeHasCome'
  <2>1. LeaseIffProcessing'
    BY <1>s, <1>o DEF IInv, LeaseIffProcessing
  <2>2. AttemptsLeft'
    BY <1>s, <1>o DEF IInv, AttemptsLeft
  <2>3. TimeHasCome'
    BY <1>s, <1>o, <1>f DEF IInv, TimeHasCome
  <2> QED
    BY <2>1, <2>2, <2>3
<1>3. HeldNotNewer'
  <2> SUFFICES ASSUME NEW v \in Workers, NEW c \in Held(v)'
               PROVE  /\ row'[c.job].status # "absent"
                      /\ row'[c.job].scheduled_for <= now'
                      /\ c.attempts <= row'[c.job].attempts
                      /\ row'[c.job].status = "processing"
                            /\ c.attempts = row'[c.job].attempts
                         => c.lease <= row'[c.job].lease
    BY DEF HeldNotNewer
  <2>1. CASE v = w
    BY <2>1, <1>h, <1>c, <1>s, <1>k, <1>f
  <2>2. CASE v # w
    <3>1. /\ c \in Held(v)
          /\ row[c.job].status # "absent" /\ row[c.job].scheduled_for <= now
          /\ c.attempts <= row[c.job].attempts
          /\ row[c.job].status = "processing" /\ c.attempts = row[c.job].attempts
                => c.lease <= row[c.job].lease
      BY <2>2, <1>h DEF IInv, HeldNotNewer
    <3>2. CASE c.job \in S
      BY <3>1, <3>2, <1>s, <1>v, <1>k, <1>f
    <3>3. CASE c.job \notin S
      BY <3>1, <3>3, <1>v, <1>o, <1>f
    <3> QED
      BY <3>2, <3>3
  <2> QED
    BY <2>1, <2>2
<1>4. ClaimsDistinct'
  <2>1. ASSUME NEW v \in Workers, v # w, NEW c \in Held(v), NEW j \in S, c.job = j
        PROVE  <<c.attempts, c.lease>> # <<NextAttempts(j), t + LeaseSeconds>>
    <3>1. /\ c.attempts <= row[j].attempts
          /\ row[j].status = "processing" /\ c.attempts = row[j].attempts
                => c.lease <= row[j].lease
      BY <2>1 DEF IInv, HeldNotNewer
    <3> QED
      BY <2>1, <3>1, <1>s, <1>v
  <2>2. \A u, v \in Workers : u # w /\ v # w /\ u # v =>
          \A c \in Held(u)', d \in Held(v)' :
            c.job = d.job => <<c.attempts, c.lease>> # <<d.attempts, d.lease>>
    BY <1>h DEF IInv, ClaimsDistinct
  <2>3. \A v \in Workers : v # w =>
          \A c \in Held(v)', d \in Held(w)' :
            c.job = d.job => <<c.attempts, c.lease>> # <<d.attempts, d.lease>>
    BY <1>h, <1>c, <2>1
  <2> QED
    BY <2>2, <2>3 DEF ClaimsDistinct
<1>5. MessagesPinned'
  <2>1. \A r \in inflight : r.claim.job \in Jobs
    BY DEF IInv, TypeOK, Request, Claim
  <2>2. \A m \in network : m.job \in Jobs
    BY DEF IInv, TypeOK, Message
  <2> QED
    BY <1>k, <1>f, <2>1, <2>2 DEF IInv, MessagesPinned, nodeVars
<1>6. PublishedIsOnNetwork'
  BY <1>s, <1>o, <1>k, <1>f DEF IInv, PublishedIsOnNetwork, MessageOf, MessageTimestamp, nodeVars
<1>7. WorkerMemory'
  <2>1. \A v \in Workers : cur[v] # None => Built(v)' = Built(v)
    BY <1>k, <1>f DEF IInv, TypeOK, Claim, Built, MessageOf, MessageTimestamp, attemptVars
  <2>2. \A v \in Workers : pc[v] \in {"record", "ledger"} => cur[v] # None
    BY DEF IInv, WorkerMemory
  <2>3. \A v \in Workers : v # w => /\ pc'[v] = pc[v] /\ clk'[v] = clk[v]
                                     /\ batch'[v] = batch[v]
    BY <1>f, <1>p DEF IInv, TypeOK
  <2>4. pc'[w] = "ready"
    BY <1>f DEF IInv, TypeOK
  <2> QED
    BY <1>f, <1>t, <2>1, <2>2, <2>3, <2>4
       DEF IInv, WorkerMemory, Attempting, nodeVars, attemptVars
<1> QED
  BY <1>1, <1>2, <1>3, <1>4, <1>5, <1>6, <1>7 DEF IInv

\* Every step of the API, the workers, the node and the clock preserves IInv.
LEMMA NextIInv == IInv /\ [Next]_vars => IInv'
<1> SUFFICES ASSUME IInv, [Next]_vars PROVE IInv'
  OBVIOUS
<1>1. CASE \E j \in Jobs, at \in 0..LastSchedule : ScheduleCast(j, at)
  BY <1>1, ScheduleCastIInv
<1>2. CASE \E j \in Jobs : CancelCast(j)
  BY <1>2, CancelIInv
<1>3. CASE \/ \E u \in Users : ToggleSigner(u)
           \/ \E k \in Jobs : LookupChanges(k)
           \/ \E w \in Workers : BeginPass(w) \/ EndPass(w)
           \/ Tick
           \/ UNCHANGED vars
  BY <1>3, QuietIInv
<1>4. CASE \E w \in Workers : \/ BeginAttempt(w) \/ Sign(w) \/ Submit(w)
                              \/ ConnectionLost(w) \/ AttemptTimesOut(w)
                              \/ Crash(w)
  BY <1>4, AttemptIInv
<1>5. CASE \E w \in Workers : ClaimDueJobs(w)
  BY <1>5, ClaimIInv
<1>6. CASE \E w \in Workers : RecordSuccess(w)
  BY <1>6, SuccessIInv
<1>7. CASE \E w \in Workers : RecordFailure(w)
  BY <1>7, FailureIInv
<1>8. CASE \E w \in Workers : RecordLedger(w)
  BY <1>8, LedgerIInv
<1>9. CASE \E r \in inflight : NodeAccept(r) \/ NodeReject(r)
  BY <1>9, NodeIInv
<1> QED
  BY <1>1, <1>2, <1>3, <1>4, <1>5, <1>6, <1>7, <1>8, <1>9 DEF Next, WorkerStep

\* IInv is an invariant of the publisher.
THEOREM Invariance == Spec => []IInv
<1>1. Init => IInv
  BY InitIInv
<1>2. IInv /\ [Next]_vars => IInv'
  BY NextIInv
<1> QED
  BY <1>1, <1>2, PTL DEF Spec

\* Type correctness, whatever the number of workers and jobs.
THEOREM TypeCorrect == Spec => []TypeOK
<1>1. IInv => TypeOK
  BY DEF IInv
<1> QED
  BY <1>1, Invariance, PTL

\* The message a row reports as published, or the ledger credits, is on the
\* network.
THEOREM PublishedForReal == Spec => []PublishedIsOnNetwork
<1>1. IInv => PublishedIsOnNetwork
  BY DEF IInv
<1> QED
  BY <1>1, Invariance, PTL

\* No message is on the network before the time the user scheduled.
THEOREM PublishedNotEarly == Spec => []NeverEarly
<1>1. IInv => NeverEarly
  BY DEF NeverEarly, IInv, MessagesPinned
<1> QED
  BY <1>1, Invariance, PTL

\* No two workers ever hold the same compare-and-set token of a job.
THEOREM TokensUnique == Spec => []ClaimsDistinct
<1>1. IInv => ClaimsDistinct
  BY DEF IInv
<1> QED
  BY <1>1, Invariance, PTL

\* A settled row never changes: results are written under a matching claim, and
\* a claim matches only a row that is processing.
THEOREM SettledForGood == Spec => TerminalIsFinal
<1>1. ASSUME IInv, Next
      PROVE  \A j \in Jobs : row[j].status \in Terminal => row'[j] = row[j]
  <2> SUFFICES ASSUME NEW j \in Jobs, row[j].status \in Terminal
               PROVE  row'[j] = row[j]
    OBVIOUS
  <2>s. row[j].status \notin {"absent", "pending", "retrying", "processing"}
    BY DEF Terminal
  <2> USE DEF IInv, TypeOK, tableVars
  <2>1. CASE \E k \in Jobs, at \in 0..LastSchedule : ScheduleCast(k, at)
    BY <1>1, <2>1, <2>s DEF ScheduleCast
  <2>2. CASE \E k \in Jobs : CancelCast(k)
    BY <1>1, <2>2, <2>s DEF CancelCast
  <2>3. CASE \E w \in Workers : ClaimDueJobs(w)
    BY <2>3, <2>s DEF ClaimDueJobs, DueJobs, Due
  <2>4. ASSUME NEW w \in Workers, RecordSuccess(w) \/ RecordFailure(w)
        PROVE  row'[j] = row[j]
    <3>1. ClaimMatches(cur[w]) => cur[w].job # j
      BY <2>s DEF ClaimMatches
    <3>2. cur[w].job \in Jobs
      BY <1>1, <2>4 DEF RecordSuccess, RecordFailure, WorkerMemory, Claim
    <3> QED
      BY <1>1, <2>4, <3>1, <3>2 DEF RecordSuccess, RecordFailure
  <2>5. CASE \/ \E u \in Users : ToggleSigner(u)
             \/ \E k \in Jobs : LookupChanges(k)
             \/ \E w \in Workers :
                   \/ BeginPass(w) \/ EndPass(w) \/ BeginAttempt(w) \/ Sign(w)
                   \/ Submit(w) \/ ConnectionLost(w) \/ AttemptTimesOut(w)
                   \/ Crash(w) \/ RecordLedger(w)
             \/ \E r \in inflight : NodeAccept(r) \/ NodeReject(r)
             \/ Tick
    BY <2>5 DEF ToggleSigner, LookupChanges, BeginPass, EndPass, BeginAttempt, Sign, Submit,
       ConnectionLost, AttemptTimesOut, Crash, RecordLedger, NodeAccept,
       NodeReject, Tick
  <2> QED
    BY <1>1, <2>1, <2>2, <2>3, <2>4, <2>5 DEF Next, WorkerStep
<1>2. IInv /\ [Next]_vars =>
        [\A j \in Jobs : row[j].status \in Terminal => row'[j] = row[j]]_vars
  BY <1>1
<1> QED
  BY <1>2, Invariance, PTL DEF Spec, TerminalIsFinal

\* A job fails only by the result of an attempt that holds its claim: a row that
\* waits has attempts left, and an expired claim is taken over, not failed.
THEOREM FailedByResult == Spec => FailsOnlyByResult
<1> DEFINE Cause(j) == \E w \in Workers :
                /\ pc[w] = "record" /\ outcome[w] # "ok"
                /\ cur[w] # None /\ cur[w].job = j /\ ClaimMatches(cur[w])
<1>1. ASSUME IInv, Next, NEW j \in Jobs, row[j].status # "failed",
             row'[j].status = "failed"
      PROVE  Cause(j)
  <2> USE DEF IInv, TypeOK, tableVars
  <2>1. CASE \E k \in Jobs, at \in 0..LastSchedule : ScheduleCast(k, at)
    BY <1>1, <2>1 DEF ScheduleCast
  <2>2. CASE \E k \in Jobs : CancelCast(k)
    BY <1>1, <2>2 DEF CancelCast
  <2>3. CASE \E w \in Workers : ClaimDueJobs(w)
    <3>1. PICK w \in Workers : ClaimDueJobs(w)
      BY <2>3
    <3>2. PICK S \in SUBSET DueJobs(clk[w]) :
            row' = [k \in Jobs |-> IF k \in S THEN Claimed(k, clk[w]) ELSE row[k]]
      BY <3>1 DEF ClaimDueJobs
    <3>3. j \in S /\ Claimed(j, clk[w]).status = "failed"
      BY <1>1, <3>2
    <3>4. row[j].status \in {"pending", "retrying", "processing"}
      BY <3>2, <3>3 DEF DueJobs, Due
    <3>5. ~Exhausted(j)
      BY <1>1, <3>4, ConstantsAssumption DEF Exhausted, AttemptsLeft, Row
    <3>6. Claimed(j, clk[w]).status = "processing"
      BY <1>1, <3>5 DEF Claimed, Row
    <3> QED
      BY <3>3, <3>6
  <2>4. ASSUME NEW w \in Workers, RecordSuccess(w)
        PROVE  Cause(j)
    <3>1. \A c \in Claim : row'[j] =
            [row EXCEPT ![c.job].status = "published", ![c.job].published = body[w],
                        ![c.job].lease = None][j] => row'[j].status # "failed"
      BY <1>1 DEF Claim, Row
    <3>2. cur[w] \in Claim
      BY <1>1, <2>4 DEF RecordSuccess, WorkerMemory
    <3> QED
      BY <1>1, <2>4, <3>1, <3>2 DEF RecordSuccess
  <2>5. ASSUME NEW w \in Workers, RecordFailure(w)
        PROVE  Cause(j)
    <3>1. /\ cur[w] \in Claim /\ cur[w].job \in Jobs
          /\ cur[w] # None /\ pc[w] = "record" /\ outcome[w] # "ok"
      BY <1>1, <2>5, NoneAssumption DEF RecordFailure, WorkerMemory, Claim
    <3>2. ClaimMatches(cur[w]) /\ cur[w].job = j
      BY <1>1, <2>5, <3>1 DEF RecordFailure
    <3> QED
      BY <3>1, <3>2
  <2>6. CASE \/ \E u \in Users : ToggleSigner(u)
             \/ \E k \in Jobs : LookupChanges(k)
             \/ \E w \in Workers :
                   \/ BeginPass(w) \/ EndPass(w) \/ BeginAttempt(w) \/ Sign(w)
                   \/ Submit(w) \/ ConnectionLost(w) \/ AttemptTimesOut(w)
                   \/ Crash(w) \/ RecordLedger(w)
             \/ \E r \in inflight : NodeAccept(r) \/ NodeReject(r)
             \/ Tick
    BY <1>1, <2>6 DEF ToggleSigner, LookupChanges, BeginPass, EndPass, BeginAttempt, Sign,
       Submit, ConnectionLost, AttemptTimesOut, Crash, RecordLedger, NodeAccept,
       NodeReject, Tick
  <2> QED
    BY <1>1, <2>1, <2>2, <2>3, <2>4, <2>5, <2>6 DEF Next, WorkerStep
<1>2. IInv /\ [Next]_vars =>
        [\A j \in Jobs : row[j].status # "failed" /\ row'[j].status = "failed"
            => Cause(j)]_vars
  BY <1>1
<1> QED
  BY <1>2, Invariance, PTL DEF Spec, FailsOnlyByResult

\* A worker whose claim was taken over writes nothing: a matching claim carries
\* the row's own token, and every other held token is older.
THEOREM SupersededSilent == Spec => SupersededWritesNothing
<1> DEFINE Silent == \A w \in Workers :
        pc[w] = "record" /\ pc'[w] # "record" /\ cur[w] # None
            /\ row'[cur[w].job] # row[cur[w].job]
        => \A v \in Workers \ {w} : \A d \in Held(v) :
                d.job = cur[w].job => Older(d, cur[w])
<1>1. ASSUME IInv, Next PROVE Silent
  <2> SUFFICES ASSUME NEW w \in Workers, pc[w] = "record", pc'[w] # "record",
                      cur[w] # None, row'[cur[w].job] # row[cur[w].job],
                      NEW v \in Workers \ {w}, NEW d \in Held(v),
                      d.job = cur[w].job
               PROVE  Older(d, cur[w])
    OBVIOUS
  <2>c. cur[w] \in Claim /\ cur[w].job \in Jobs /\ cur[w] \in Held(w)
    BY <1>1 DEF IInv, TypeOK, Claim, Held
  <2>d. d \in Claim
    BY <1>1 DEF IInv, TypeOK, Held
  <2>1. ClaimMatches(cur[w])
    <3> USE <1>1 DEF IInv, TypeOK, tableVars
    <3>1. ~(\E k \in Jobs, at \in 0..LastSchedule : ScheduleCast(k, at))
      BY DEF ScheduleCast, workerVars
    <3>2. ~(\E k \in Jobs : CancelCast(k))
      BY DEF CancelCast, workerVars
    <3>3. ~(\E x \in Workers : ClaimDueJobs(x))
      BY DEF ClaimDueJobs
    <3>4. ~(\/ \E u \in Users : ToggleSigner(u)
            \/ \E k \in Jobs : LookupChanges(k)
            \/ \E x \in Workers :
                  \/ BeginPass(x) \/ EndPass(x) \/ BeginAttempt(x) \/ Sign(x)
                  \/ Submit(x) \/ ConnectionLost(x) \/ AttemptTimesOut(x)
                  \/ Crash(x) \/ RecordLedger(x)
            \/ \E r \in inflight : NodeAccept(r) \/ NodeReject(r)
            \/ Tick)
      BY DEF ToggleSigner, LookupChanges, BeginPass, EndPass, BeginAttempt, Sign, Submit,
         ConnectionLost, AttemptTimesOut, Crash, RecordLedger, NodeAccept,
         NodeReject, Tick
    <3>5. \E x \in Workers : RecordSuccess(x) \/ RecordFailure(x)
      BY <3>1, <3>2, <3>3, <3>4 DEF Next, WorkerStep
    <3>6. ASSUME NEW x \in Workers, RecordSuccess(x) \/ RecordFailure(x), x # w
          PROVE  pc'[w] = pc[w]
      BY <3>6 DEF RecordSuccess, RecordFailure, Done
    <3>7. RecordSuccess(w) \/ RecordFailure(w)
      BY <3>5, <3>6
    <3> QED
      BY <3>7 DEF RecordSuccess, RecordFailure
  <2>2. /\ d.attempts <= cur[w].attempts
        /\ d.attempts = cur[w].attempts => d.lease <= cur[w].lease
    BY <1>1, <2>1, <2>c DEF ClaimMatches, IInv, HeldNotNewer
  <2>3. <<d.attempts, d.lease>> # <<cur[w].attempts, cur[w].lease>>
    BY <1>1, <2>c DEF IInv, ClaimsDistinct
  <2> QED
    BY <2>2, <2>3, <2>c, <2>d DEF Older, Claim
<1>2. IInv /\ [Next]_vars => [Silent]_vars
  BY <1>1
<1> QED
  BY <1>2, Invariance, PTL DEF Spec, SupersededWritesNothing

-----------------------------------------------------------------------------
(* The lease outlasts the batch while workers are prompt.  What is needed of *)
(* each worker is a budget of time: the lease of every claim it holds is     *)
(* still long enough for the attempts it has to make.                        *)

\* When the attempt of worker w is over at the latest; now, between attempts.
AttemptEnd(w) ==
    IF pc[w] \in Attempting THEN started[w] + AttemptTimeout ELSE now

\* The attempts still to begin, each as long as its timeout, and the margin.
Remaining(w) == Cardinality(batch[w]) * AttemptTimeout + LeaseSafety

\* The claims worker w has not settled: its batch, and the claim it publishes
\* until the result is written.
Unsettled(w) ==
    batch[w] \cup (IF cur[w] = None \/ pc[w] = "ledger" THEN {} ELSE {cur[w]})

\* Worker w has a finite batch and reads the clock when it claims; an attempt
\* is not older than its timeout; each unsettled claim is for a job of its own,
\* is still the row's claim, and its lease covers the rest of the batch.
InTime(w) ==
    /\ IsFiniteSet(batch[w])
    /\ cur[w] \notin batch[w]
    /\ pc[w] = "claiming" => clk[w] = now
    /\ pc[w] \in Attempting => now <= started[w] + AttemptTimeout
    /\ \A c, d \in Unsettled(w) : c.job = d.job => c = d
    /\ \A c \in Unsettled(w) :
        ClaimMatches(c) /\ AttemptEnd(w) + Remaining(w) <= c.lease

\* The inductive invariant for prompt workers.
LInv == IInv /\ \A w \in Workers : InTime(w)

\* The quantities of the budget are numbers, and an attempt ends no earlier
\* than now.
LEMMA BudgetType ==
  ASSUME LInv, NEW w \in Workers
  PROVE  /\ now \in Nat /\ started[w] \in Nat /\ Cardinality(batch[w]) \in Nat
         /\ AttemptEnd(w) \in Nat /\ now <= AttemptEnd(w)
         /\ Cardinality(batch[w]) * AttemptTimeout \in Nat
         /\ Remaining(w) \in Nat /\ Remaining(w) >= LeaseSafety
<1> USE ConstantsAssumption
<1>1. now \in Nat /\ started[w] \in Nat
  BY DEF LInv, IInv, TypeOK
<1>2. Cardinality(batch[w]) \in Nat
  BY FS_CardinalityType DEF LInv, InTime
<1>3. AttemptEnd(w) \in Nat /\ now <= AttemptEnd(w)
  BY <1>1 DEF LInv, InTime, AttemptEnd
<1>4. Cardinality(batch[w]) * AttemptTimeout \in Nat
  BY <1>2
<1>5. Remaining(w) \in Nat /\ Remaining(w) >= LeaseSafety
  BY <1>4 DEF Remaining
<1> QED
  BY <1>1, <1>2, <1>3, <1>4, <1>5

\* An unsettled claim is a claim the worker holds.
LEMMA UnsettledHeld ==
  ASSUME IInv, NEW w \in Workers, NEW c \in Unsettled(w)
  PROVE  /\ c \in Held(w) /\ c \in Claim /\ c.job \in Jobs
         /\ c.lease \in Nat /\ c.attempts \in Nat
<1>1. c \in Held(w) /\ c \in Claim
  BY DEF Unsettled, Held, IInv, TypeOK
<1> QED
  BY <1>1 DEF Claim

\* The row of an unsettled claim is processing under a lease that has not run
\* out, so no pass selects it and no user can cancel it.
LEMMA StillLeased ==
  ASSUME LInv, LeaseSafety > 0, NEW w \in Workers, NEW c \in Unsettled(w)
  PROVE  row[c.job].status = "processing" /\ now < row[c.job].lease
<1>1. ClaimMatches(c) /\ AttemptEnd(w) + Remaining(w) <= c.lease
  BY DEF LInv, InTime
<1>2. c.lease \in Nat
  BY UnsettledHeld DEF LInv
<1>3. AttemptEnd(w) \in Nat /\ now \in Nat /\ Remaining(w) \in Nat
      /\ now <= AttemptEnd(w) /\ Remaining(w) >= LeaseSafety
  BY BudgetType
<1>4. now < c.lease
  BY <1>1, <1>2, <1>3, ConstantsAssumption
<1> QED
  BY <1>1, <1>4 DEF ClaimMatches

\* Two workers never have unsettled claims on one job: both would carry the
\* row's token.
LEMMA OneClaimant ==
  ASSUME LInv, NEW v \in Workers, NEW w \in Workers, v # w,
         NEW c \in Unsettled(v), NEW d \in Unsettled(w)
  PROVE  c.job # d.job
<1>1. ClaimMatches(c) /\ ClaimMatches(d)
  BY DEF LInv, InTime
<1>2. c \in Held(v) /\ d \in Held(w)
  BY UnsettledHeld DEF LInv
<1>3. c.job = d.job => <<c.attempts, c.lease>> # <<d.attempts, d.lease>>
  BY <1>2 DEF LInv, IInv, ClaimsDistinct
<1> QED
  BY <1>1, <1>3 DEF ClaimMatches

\* Frame: a step that takes no time, leaves worker w alone and does not write
\* the rows of its claims keeps w in time.
LEMMA InTimeFrame ==
  ASSUME LInv, NEW w \in Workers, now' = now,
         pc'[w] = pc[w], clk'[w] = clk[w], batch'[w] = batch[w],
         cur'[w] = cur[w], started'[w] = started[w],
         \A c \in Unsettled(w) : row'[c.job] = row[c.job]
  PROVE  InTime(w)'
<1>1. /\ AttemptEnd(w)' = AttemptEnd(w) /\ Remaining(w)' = Remaining(w)
      /\ Unsettled(w)' = Unsettled(w)
  BY DEF AttemptEnd, Remaining, Unsettled
<1>2. \A c \in Unsettled(w) : ClaimMatches(c)' <=> ClaimMatches(c)
  BY DEF ClaimMatches
<1> QED
  BY <1>1, <1>2 DEF LInv, InTime

\* The attempt of w ends, at its timeout at the latest.
LEMMA FinishInTime ==
  ASSUME LInv, NEW w \in Workers, NEW o, pc[w] \in Attempting, Finish(w, o),
         UNCHANGED <<now, row, clk, batch, cur, started>>
  PROVE  InTime(w)'
<1>1. pc'[w] = "record" /\ pc[w] # "ledger"
  BY DEF Finish, LInv, IInv, TypeOK, Attempting
<1>2. AttemptEnd(w)' = now /\ Remaining(w)' = Remaining(w)
  BY <1>1 DEF AttemptEnd, Attempting, Remaining
<1>3. Unsettled(w)' = Unsettled(w)
  BY <1>1 DEF Unsettled
<1>4. \A c \in Unsettled(w) : ClaimMatches(c)' <=> ClaimMatches(c)
  BY DEF ClaimMatches
<1>5. \A c \in Unsettled(w) : AttemptEnd(w)' + Remaining(w)' <= c.lease
  <2> TAKE c \in Unsettled(w)
  <2>1. AttemptEnd(w) + Remaining(w) <= c.lease
    BY DEF LInv, InTime
  <2>2. c.lease \in Nat
    BY UnsettledHeld DEF LInv
  <2> QED
    BY <1>2, <2>1, <2>2, BudgetType
<1> QED
  BY <1>1, <1>3, <1>4, <1>5 DEF LInv, InTime, Attempting

\* A step of worker v that takes no time and writes no row but, at most, the
\* row of its own unsettled claim leaves the other workers in time.
LEMMA OthersInTime ==
  ASSUME LInv, NEW v \in Workers, NEW w \in Workers, v # w, now' = now,
         pc'[w] = pc[w], clk'[w] = clk[w], batch'[w] = batch[w],
         cur'[w] = cur[w], started'[w] = started[w],
         \A j \in Jobs : \/ row'[j] = row[j]
                         \/ \E d \in Unsettled(v) : d.job = j
  PROVE  InTime(w)'
<1>1. \A c \in Unsettled(w) : row'[c.job] = row[c.job]
  BY OneClaimant, UnsettledHeld DEF LInv
<1> QED
  BY <1>1, InTimeFrame

\* The API touches rows nobody has claimed; the node and a lost answer touch
\* none.
LEMMA OutsideInTime ==
  ASSUME LInv, NEW w \in Workers,
         \/ \E j \in Jobs, at \in 0..LastSchedule : ScheduleCast(j, at)
         \/ \E j \in Jobs : CancelCast(j)
         \/ \E u \in Users : ToggleSigner(u)
         \/ \E k \in Jobs : LookupChanges(k)
         \/ UNCHANGED vars
  PROVE  InTime(w)'
<1>1. now' = now /\ pc' = pc /\ clk' = clk /\ batch' = batch /\ cur' = cur
      /\ started' = started
  BY DEF ScheduleCast, CancelCast, ToggleSigner, LookupChanges, vars, workerVars
<1>2. ASSUME NEW c \in Unsettled(w) PROVE row'[c.job] = row[c.job]
  <2>1. row[c.job].status = "processing"
    BY DEF LInv, InTime, ClaimMatches
  <2>2. c.job \in Jobs
    BY UnsettledHeld DEF LInv
  <2> QED
    BY <2>1, <2>2 DEF ScheduleCast, CancelCast, ToggleSigner, LookupChanges, vars, tableVars,
                      LInv, IInv, TypeOK
<1> QED
  BY <1>1, <1>2, InTimeFrame

\* An answer of the node ends the attempt that waits for it.
LEMMA NodeInTime ==
  ASSUME LInv, NEW w \in Workers, NEW r \in inflight,
         NodeAccept(r) \/ NodeReject(r)
  PROVE  InTime(w)'
<1>1. UNCHANGED <<now, row, clk, batch, cur, started>>
  BY DEF NodeAccept, NodeReject, tableVars
<1>2. CASE UNCHANGED pc
  BY <1>1, <1>2, InTimeFrame
<1>3. ASSUME NEW v \in Workers, NEW o, Waiting(v, r), Finish(v, o)
      PROVE  InTime(w)'
  <2>1. pc[v] \in Attempting
    BY <1>3 DEF Waiting, Attempting
  <2>2. CASE v = w
    BY <1>1, <1>3, <2>1, <2>2, FinishInTime
  <2>3. CASE v # w
    <3>1. pc'[w] = pc[w]
      BY <1>3, <2>3 DEF Finish, LInv, IInv, TypeOK
    <3> QED
      BY <1>1, <3>1, InTimeFrame
  <2> QED
    BY <2>2, <2>3
<1> QED
  BY <1>2, <1>3 DEF NodeAccept, NodeReject, Answer

\* The clock moves on only while every worker sleeps or waits in an attempt
\* that has time left.
LEMMA TickInTime ==
  ASSUME LInv, Prompt, Tick, NEW w \in Workers
  PROVE  InTime(w)'
<1>1. /\ ~Owes(w) /\ now' = now + 1 /\ row' = row /\ pc' = pc /\ batch' = batch
      /\ cur' = cur /\ started' = started
  BY DEF Tick, tableVars, workerVars
<1>2. CASE pc[w] \in Attempting
  <2>1. now < started[w] + AttemptTimeout
    BY <1>1, <1>2, BudgetType, ConstantsAssumption DEF Owes
  <2>2. now' <= started'[w] + AttemptTimeout
    BY <1>1, <2>1, BudgetType, ConstantsAssumption
  <2>3. /\ AttemptEnd(w)' = AttemptEnd(w) /\ Remaining(w)' = Remaining(w)
        /\ Unsettled(w)' = Unsettled(w)
    BY <1>1, <1>2 DEF AttemptEnd, Remaining, Unsettled
  <2>4. \A c \in Unsettled(w) : ClaimMatches(c)' <=> ClaimMatches(c)
    BY <1>1 DEF ClaimMatches
  <2> QED
    BY <1>1, <1>2, <2>2, <2>3, <2>4 DEF LInv, InTime, Attempting
<1>3. CASE pc[w] = "idle"
  <2>1. batch[w] = {} /\ cur[w] = None
    BY <1>3 DEF LInv, IInv, WorkerMemory
  <2>2. Unsettled(w)' = {}
    BY <1>1, <2>1 DEF Unsettled
  <2> QED
    BY <1>1, <1>3, <2>1, <2>2, FS_EmptySet DEF InTime, Attempting
<1> QED
  BY <1>1, <1>2, <1>3 DEF Owes, LInv, IInv, TypeOK, PCs, Attempting

\* Without a claim there is nothing to be late for.
LEMMA IdleInTime ==
  ASSUME NEW w \in Workers, batch'[w] = {}, cur'[w] = None,
         pc'[w] \notin Attempting, pc'[w] = "claiming" => clk'[w] = now'
  PROVE  InTime(w)'
<1>1. Unsettled(w)' = {}
  BY DEF Unsettled
<1> QED
  BY <1>1, FS_EmptySet DEF InTime

\* The claims of one transaction fit the batch.
LEMMA BatchBounded ==
  ASSUME IsFiniteSet(Jobs), NEW S \in SUBSET Jobs, Cardinality(S) <= BatchSize,
         NEW t, NEW B, B = {ClaimOf(j, t) : j \in S}
  PROVE  IsFiniteSet(B) /\ Cardinality(B) \in Nat /\ Cardinality(B) <= BatchSize
<1> DEFINE f == [j \in S |-> ClaimOf(j, t)]
<1>1. IsFiniteSet(S)
  BY FS_Subset
<1>2. f \in Surjection(S, B)
  BY DEF Surjection
<1> HIDE DEF f
<1>3. IsFiniteSet(B) /\ Cardinality(B) <= Cardinality(S)
  BY <1>1, <1>2, FS_Surjection
<1>4. Cardinality(B) \in Nat /\ Cardinality(S) \in Nat
  BY <1>1, <1>3, FS_CardinalityType
<1> QED
  BY <1>3, <1>4, ConstantsAssumption

\* A larger number of attempts takes longer.
LEMMA AttemptsMonotone ==
  ASSUME NEW m \in Nat, NEW n \in Nat, m <= n
  PROVE  m * AttemptTimeout <= n * AttemptTimeout
<1> DEFINE d == n - m
<1>1. d \in Nat /\ n = m + d
  OBVIOUS
<1> HIDE DEF d
<1>2. n * AttemptTimeout = m * AttemptTimeout + d * AttemptTimeout
  BY <1>1, ConstantsAssumption
<1>3. d * AttemptTimeout \in Nat /\ m * AttemptTimeout \in Nat
  BY <1>1, ConstantsAssumption
<1> QED
  BY <1>2, <1>3

\* A pass claims with the clock of this very tick: its new leases cover the
\* batch, and it takes no row whose lease is still running.
LEMMA ClaimInTime ==
  ASSUME LInv, LeaseSafety > 0, IsFiniteSet(Jobs), NEW v \in Workers,
         ClaimDueJobs(v), NEW w \in Workers
  PROVE  InTime(w)'
<1> USE ConstantsAssumption
<1> DEFINE t == clk[v]
<1>t. t \in Nat /\ t = now /\ batch[v] = {} /\ cur[v] = None
  BY DEF ClaimDueJobs, LInv, IInv, InTime, TypeOK, WorkerMemory
<1>p. PICK S \in SUBSET DueJobs(t) :
        /\ Cardinality(S) <= BatchSize
        /\ row' = [j \in Jobs |-> IF j \in S THEN Claimed(j, t) ELSE row[j]]
        /\ batch' = [batch EXCEPT ![v] =
                      {ClaimOf(j, t) : j \in {k \in S : ~Exhausted(k)}}]
  BY DEF ClaimDueJobs, Selection
<1>f. /\ UNCHANGED <<now, cur, started>>
      /\ pc' = [pc EXCEPT ![v] = "ready"] /\ clk' = [clk EXCEPT ![v] = 0]
  BY DEF ClaimDueJobs, attemptVars
<1> HIDE DEF t
<1>1. CASE w # v
  <2>1. /\ pc'[w] = pc[w] /\ clk'[w] = clk[w] /\ batch'[w] = batch[w]
        /\ cur'[w] = cur[w] /\ started'[w] = started[w]
    BY <1>1, <1>p, <1>f DEF LInv, IInv, TypeOK
  <2>2. ASSUME NEW c \in Unsettled(w) PROVE row'[c.job] = row[c.job]
    <3>1. c.job \in Jobs
      BY UnsettledHeld DEF LInv
    <3>2. row[c.job].status = "processing" /\ now < row[c.job].lease
      BY StillLeased
    <3>3. row[c.job].lease \in Nat /\ now \in Nat
      BY <3>1, <3>2 DEF LInv, IInv, LeaseIffProcessing, TypeOK, Row
    <3>4. ~Due(c.job, t)
      BY <1>t, <3>2, <3>3 DEF Due
    <3> QED
      BY <1>p, <3>1, <3>4 DEF DueJobs
  <2> QED
    BY <1>f, <2>1, <2>2, InTimeFrame
<1>2. CASE w = v
  <2>s. \A j \in S : /\ j \in Jobs /\ ~Exhausted(j)
                     /\ row'[j].status = "processing"
                     /\ row'[j].attempts = NextAttempts(j)
                     /\ row'[j].lease = t + LeaseSeconds
    <3> SUFFICES ASSUME NEW j \in S
                 PROVE  /\ j \in Jobs /\ ~Exhausted(j)
                        /\ row'[j].status = "processing"
                        /\ row'[j].attempts = NextAttempts(j)
                        /\ row'[j].lease = t + LeaseSeconds
      OBVIOUS
    <3>1. j \in Jobs /\ Due(j, t)
      BY DEF DueJobs
    <3>2. row'[j] = Claimed(j, t)
      BY <1>p, <3>1
    <3>3. t <= now /\ now \in Nat
      BY <1>t
    <3> QED
      BY <1>t, <3>1, <3>2, <3>3, ClaimedRow DEF LInv
  <2>b. batch'[w] = {ClaimOf(j, t) : j \in S}
    <3>1. {k \in S : ~Exhausted(k)} = S
      BY <2>s
    <3> QED
      BY <1>2, <1>p, <3>1 DEF LInv, IInv, TypeOK
  <2>c. \A j \in S : /\ ClaimOf(j, t).job = j
                     /\ ClaimOf(j, t).attempts = NextAttempts(j)
                     /\ ClaimOf(j, t).lease = t + LeaseSeconds
    BY DEF ClaimOf
  <2>1. /\ IsFiniteSet(batch'[w]) /\ Cardinality(batch'[w]) \in Nat
        /\ Cardinality(batch'[w]) <= BatchSize
    <3>1. S \in SUBSET Jobs
      BY <2>s
    <3> QED
      BY <3>1, <2>b, <1>p, BatchBounded
  <2>2. pc'[w] = "ready" /\ cur'[w] = None
    BY <1>2, <1>t, <1>f DEF LInv, IInv, TypeOK
  <2>3. Unsettled(w)' = batch'[w]
    BY <2>2 DEF Unsettled
  <2>4. AttemptEnd(w)' = now
    BY <2>2, <1>f DEF AttemptEnd, Attempting
  <2>5. AttemptEnd(w)' + Remaining(w)' <= t + LeaseSeconds
    <3> DEFINE a == Cardinality(batch'[w]) * AttemptTimeout
               b == BatchSize * AttemptTimeout
    <3>1. a <= b
      BY <2>1, AttemptsMonotone
    <3>2. a \in Nat /\ b \in Nat
      BY <2>1
    <3>3. Remaining(w)' = a + LeaseSafety /\ LeaseSeconds = b + LeaseSafety
      BY DEF Remaining, LeaseSeconds
    <3> HIDE DEF a, b
    <3> QED
      BY <2>4, <1>t, <3>1, <3>2, <3>3
  <2>6. \A c \in Unsettled(w)' :
            ClaimMatches(c)' /\ AttemptEnd(w)' + Remaining(w)' <= c.lease
    BY <2>3, <2>b, <2>c, <2>s, <2>5 DEF ClaimMatches
  <2>7. \A c, d \in Unsettled(w)' : c.job = d.job => c = d
    BY <2>3, <2>b, <2>c
  <2>8. cur'[w] \notin batch'[w]
    BY <2>2, ClaimIInv, NoneAssumption DEF LInv, IInv, TypeOK
  <2> QED
    BY <2>1, <2>2, <2>6, <2>7, <2>8 DEF InTime, Attempting
<1> QED
  BY <1>1, <1>2

\* The next attempt takes its time out of the batch's.
LEMMA BeginInTime ==
  ASSUME LInv, NEW w \in Workers, BeginAttempt(w)
  PROVE  InTime(w)'
<1> USE ConstantsAssumption, NoneAssumption
<1>1. PICK c \in batch[w] : /\ cur' = [cur EXCEPT ![w] = c]
                            /\ batch' = [batch EXCEPT ![w] = @ \ {c}]
  BY DEF BeginAttempt
<1>2. /\ now' = now /\ row' = row /\ pc[w] = "ready" /\ cur[w] = None
      /\ pc'[w] = "signing" /\ started'[w] = now /\ clk' = clk
      /\ cur'[w] = c /\ batch'[w] = batch[w] \ {c} /\ c # None
  BY <1>1 DEF BeginAttempt, tableVars, LInv, IInv, TypeOK, WorkerMemory
<1>3. IsFiniteSet(batch'[w]) /\ Cardinality(batch'[w]) = Cardinality(batch[w]) - 1
  <2>1. IsFiniteSet(batch[w])
    BY DEF LInv, InTime
  <2> QED
    BY <1>1, <1>2, <2>1, FS_RemoveElement
<1>4. Unsettled(w)' = Unsettled(w)
  BY <1>1, <1>2 DEF Unsettled
<1>5. AttemptEnd(w)' + Remaining(w)' = AttemptEnd(w) + Remaining(w)
  <2> DEFINE n == Cardinality(batch[w])
  <2>1. n \in Nat /\ now \in Nat /\ n * AttemptTimeout \in Nat
    BY BudgetType
  <2>2. (n - 1) * AttemptTimeout = n * AttemptTimeout - AttemptTimeout
    <3> HIDE DEF n
    <3> QED
      BY <2>1
  <2>3. AttemptEnd(w) = now /\ AttemptEnd(w)' = now + AttemptTimeout
    BY <1>2 DEF AttemptEnd, Attempting
  <2>4. /\ Remaining(w) = n * AttemptTimeout + LeaseSafety
        /\ Remaining(w)' = (n - 1) * AttemptTimeout + LeaseSafety
    BY <1>3 DEF Remaining
  <2> HIDE DEF n
  <2> QED
    BY <2>1, <2>2, <2>3, <2>4
<1>6. \A d \in Unsettled(w) : ClaimMatches(d)' <=> ClaimMatches(d)
  BY <1>2 DEF ClaimMatches
<1>7. now' <= started'[w] + AttemptTimeout
  BY <1>2, BudgetType
<1> QED
  BY <1>2, <1>3, <1>4, <1>5, <1>6, <1>7 DEF LInv, InTime

\* The steps of worker v that write no row.
LEMMA PassInTime ==
  ASSUME LInv, NEW v \in Workers, NEW w \in Workers,
         \/ BeginPass(v) \/ BeginAttempt(v) \/ EndPass(v) \/ Sign(v)
         \/ Submit(v) \/ ConnectionLost(v) \/ AttemptTimesOut(v) \/ Crash(v)
  PROVE  InTime(w)'
<1> USE ConstantsAssumption, NoneAssumption
<1>1. now' = now /\ row' = row
  BY DEF BeginPass, BeginAttempt, EndPass, Sign, Submit, ConnectionLost,
         AttemptTimesOut, Crash, tableVars
<1>2. CASE v # w
  <2>1. /\ pc'[w] = pc[w] /\ clk'[w] = clk[w] /\ batch'[w] = batch[w]
        /\ cur'[w] = cur[w] /\ started'[w] = started[w]
    BY <1>2 DEF BeginPass, BeginAttempt, EndPass, Sign, Submit, ConnectionLost,
                AttemptTimesOut, Crash, Finish, attemptVars, LInv, IInv, TypeOK
  <2> QED
    BY <1>1, <2>1, InTimeFrame
<1>3. CASE v = w
  <2>1. CASE BeginPass(w)
    <3>1. batch[w] = {} /\ cur[w] = None
      BY <2>1 DEF BeginPass, LInv, IInv, WorkerMemory
    <3>2. /\ batch'[w] = {} /\ cur'[w] = None /\ pc'[w] = "claiming"
          /\ clk'[w] = now'
      BY <2>1, <3>1 DEF BeginPass, attemptVars, LInv, IInv, TypeOK
    <3> QED
      BY <3>2, IdleInTime DEF Attempting
  <2>2. CASE EndPass(w)
    <3>1. cur[w] = None
      BY <2>2 DEF EndPass, LInv, IInv, WorkerMemory
    <3>2. batch'[w] = {} /\ cur'[w] = None /\ pc'[w] = "idle"
      BY <2>2, <3>1 DEF EndPass, attemptVars, LInv, IInv, TypeOK
    <3> QED
      BY <3>2, IdleInTime DEF Attempting
  <2>3. CASE Crash(w)
    <3>1. batch'[w] = {} /\ cur'[w] = None /\ pc'[w] = "idle"
      BY <2>3 DEF Crash, LInv, IInv, TypeOK
    <3> QED
      BY <3>1, IdleInTime DEF Attempting
  <2>4. CASE BeginAttempt(w)
    BY <2>4, BeginInTime
  <2>5. ASSUME pc[w] \in Attempting, pc'[w] \in Attempting,
               UNCHANGED <<clk, batch, cur, started>>
        PROVE  InTime(w)'
    <3>1. /\ AttemptEnd(w)' = AttemptEnd(w) /\ Remaining(w)' = Remaining(w)
          /\ Unsettled(w)' = Unsettled(w)
      BY <1>1, <2>5 DEF AttemptEnd, Remaining, Unsettled, Attempting
    <3>2. \A c \in Unsettled(w) : ClaimMatches(c)' <=> ClaimMatches(c)
      BY <1>1 DEF ClaimMatches
    <3> QED
      BY <1>1, <2>5, <3>1, <3>2 DEF LInv, InTime, Attempting
  <2>6. ASSUME NEW o, pc[w] \in Attempting, Finish(w, o),
               UNCHANGED <<clk, batch, cur, started>>
        PROVE  InTime(w)'
    BY <1>1, <2>6, FinishInTime
  <2>7. CASE Sign(w)
    <3>1. UNCHANGED <<clk, batch, cur, started>> /\ pc[w] \in Attempting
      BY <2>7 DEF Sign, Attempting
    <3>2. CASE \E o \in {"transient", "permanent"} : Finish(w, o)
      BY <3>1, <3>2, <2>6
    <3>3. CASE pc' = [pc EXCEPT ![w] = "submit"]
      <4>1. pc'[w] \in Attempting
        BY <3>3 DEF LInv, IInv, TypeOK, Attempting
      <4> QED
        BY <3>1, <4>1, <2>5
    <3> QED
      BY <2>7, <3>2, <3>3 DEF Sign
  <2>8. CASE Submit(w)
    <3>1. /\ UNCHANGED <<clk, batch, cur, started>> /\ pc[w] \in Attempting
          /\ pc'[w] \in Attempting
      BY <2>8 DEF Submit, Attempting, attemptVars, LInv, IInv, TypeOK
    <3> QED
      BY <3>1, <2>5
  <2>9. CASE ConnectionLost(w) \/ AttemptTimesOut(w)
    <3>1. /\ UNCHANGED <<clk, batch, cur, started>> /\ pc[w] \in Attempting
          /\ Finish(w, "transient")
      BY <2>9 DEF ConnectionLost, AttemptTimesOut, Attempting
    <3> QED
      BY <3>1, <2>6
  <2> QED
    BY <1>3, <2>1, <2>2, <2>3, <2>4, <2>7, <2>8, <2>9
<1> QED
  BY <1>2, <1>3

\* A result is written to the row of the worker's own claim; the rest of its
\* batch, and every other worker, has claims on other rows.
LEMMA RecordInTime ==
  ASSUME LInv, NEW v \in Workers, NEW w \in Workers,
         RecordSuccess(v) \/ RecordFailure(v) \/ RecordLedger(v)
  PROVE  InTime(w)'
<1> USE ConstantsAssumption, NoneAssumption
<1>1. /\ now' = now /\ batch' = batch /\ clk' = clk
      /\ pc[v] \in {"record", "ledger"} /\ cur[v] # None
  BY DEF RecordSuccess, RecordFailure, RecordLedger, LInv, IInv, WorkerMemory
<1>2. \A j \in Jobs : \/ row'[j] = row[j]
                      \/ pc[v] = "record" /\ cur[v].job = j
  BY DEF RecordSuccess, RecordFailure, RecordLedger, LInv, IInv, TypeOK
<1>3. pc[v] = "record" => cur[v] \in Unsettled(v)
  BY <1>1 DEF Unsettled
<1>4. CASE v # w
  <2>1. pc'[w] = pc[w] /\ cur'[w] = cur[w] /\ started'[w] = started[w]
    BY <1>4 DEF RecordSuccess, RecordFailure, RecordLedger, Done, attemptVars,
                LInv, IInv, TypeOK
  <2>2. \A j \in Jobs : \/ row'[j] = row[j]
                        \/ \E d \in Unsettled(v) : d.job = j
    BY <1>2, <1>3
  <2> QED
    BY <1>1, <1>4, <2>1, <2>2, OthersInTime
<1>5. CASE v = w
  <2>1. pc'[w] = "ledger" \/ (pc'[w] = "ready" /\ cur'[w] = None)
    <3>1. Done(w) => pc'[w] = "ready" /\ cur'[w] = None
      BY DEF Done, LInv, IInv, TypeOK
    <3>2. RecordSuccess(w) => pc'[w] = "ledger" \/ Done(w)
      BY DEF RecordSuccess, LInv, IInv, TypeOK
    <3>3. RecordFailure(w) \/ RecordLedger(w) => Done(w)
      BY DEF RecordFailure, RecordLedger
    <3> QED
      BY <1>5, <3>1, <3>2, <3>3
  <2>2. cur'[w] \notin batch'[w]
    <3>1. None \notin batch[w]
      BY DEF LInv, IInv, TypeOK
    <3>2. cur'[w] = cur[w] \/ cur'[w] = None
      BY <1>5 DEF RecordSuccess, RecordFailure, RecordLedger, Done, attemptVars,
                  LInv, IInv, TypeOK
    <3> QED
      BY <1>1, <3>1, <3>2 DEF LInv, InTime
  <2>3. Unsettled(w)' = batch[w] /\ batch[w] \subseteq Unsettled(w)
    BY <1>1, <2>1 DEF Unsettled
  <2>4. AttemptEnd(w)' = AttemptEnd(w) /\ Remaining(w)' = Remaining(w)
    BY <1>1, <1>5, <2>1 DEF AttemptEnd, Remaining, Attempting
  <2>5. ASSUME NEW c \in batch[w] PROVE ClaimMatches(c)'
    <3>1. c \in Unsettled(w) /\ ClaimMatches(c) /\ c.job \in Jobs
      BY <2>3, UnsettledHeld DEF LInv, InTime
    <3>2. pc[w] = "record" => c.job # cur[w].job
      BY <1>3, <1>5, <3>1 DEF LInv, InTime
    <3>3. row'[c.job] = row[c.job]
      BY <1>2, <1>5, <3>1, <3>2
    <3> QED
      BY <3>1, <3>3 DEF ClaimMatches
  <2>6. pc'[w] \notin Attempting /\ pc'[w] # "claiming"
    BY <2>1 DEF Attempting
  <2> QED
    BY <1>1, <2>2, <2>3, <2>4, <2>5, <2>6 DEF LInv, InTime
<1> QED
  BY <1>4, <1>5

\* LInv is an invariant of prompt workers with a positive safety margin.
LEMMA LeaseInvariance ==
  ASSUME Prompt, LeaseSafety > 0, IsFiniteSet(Jobs)
  PROVE  Spec => []LInv
<1>1. Init => LInv
  <2> SUFFICES ASSUME Init, NEW w \in Workers PROVE InTime(w)
    BY InitIInv DEF LInv
  <2>1. batch[w] = {} /\ cur[w] = None /\ pc[w] = "idle"
    BY DEF Init
  <2>2. Unsettled(w) = {}
    BY <2>1 DEF Unsettled
  <2> QED
    BY <2>1, <2>2, FS_EmptySet DEF InTime, Attempting
<1>2. LInv /\ [Next]_vars => LInv'
  <2> SUFFICES ASSUME LInv, [Next]_vars, NEW w \in Workers PROVE InTime(w)'
    BY NextIInv DEF LInv
  <2>1. CASE \/ \E j \in Jobs, at \in 0..LastSchedule : ScheduleCast(j, at)
             \/ \E j \in Jobs : CancelCast(j)
             \/ \E u \in Users : ToggleSigner(u)
             \/ \E k \in Jobs : LookupChanges(k)
             \/ UNCHANGED vars
    BY <2>1, OutsideInTime
  <2>2. CASE \E v \in Workers :
                \/ BeginPass(v) \/ BeginAttempt(v) \/ EndPass(v) \/ Sign(v)
                \/ Submit(v) \/ ConnectionLost(v) \/ AttemptTimesOut(v)
                \/ Crash(v)
    BY <2>2, PassInTime
  <2>3. CASE \E v \in Workers : ClaimDueJobs(v)
    BY <2>3, ClaimInTime
  <2>4. CASE \E v \in Workers :
                RecordSuccess(v) \/ RecordFailure(v) \/ RecordLedger(v)
    BY <2>4, RecordInTime
  <2>5. CASE \E r \in inflight : NodeAccept(r) \/ NodeReject(r)
    BY <2>5, NodeInTime
  <2>6. CASE Tick
    BY <2>6, TickInTime
  <2> QED
    BY <2>1, <2>2, <2>3, <2>4, <2>5, <2>6 DEF Next, WorkerStep
<1> QED
  BY <1>1, <1>2, PTL DEF Spec

\* The lease outlasts the batch, whatever its size, the timeout and the number
\* of workers: as long as workers are prompt and CLAIM_LEASE_SAFETY_SECONDS is
\* positive, nobody reclaims, fails or cancels a job during an attempt on it.
THEOREM LeaseOutlastsBatch ==
  ASSUME Prompt, LeaseSafety > 0, IsFiniteSet(Jobs)
  PROVE  Spec => []AttemptHoldsLease
<1>1. LInv => AttemptHoldsLease
  <2> SUFFICES ASSUME LInv, NEW w \in Workers, pc[w] \in Attempting
               PROVE  ClaimMatches(cur[w])
    BY DEF AttemptHoldsLease
  <2>1. cur[w] \in Unsettled(w)
    BY DEF LInv, IInv, WorkerMemory, Unsettled, Attempting
  <2> QED
    BY <2>1 DEF LInv, InTime
<1> QED
  BY <1>1, LeaseInvariance, PTL

=============================================================================
