------------------------ MODULE MessagesSocket_proofs ------------------------
(***************************************************************************)
(* Proofs about MessagesSocket, for any number of mounts and any bounds:   *)
(* its invariants, and that it implements RealtimeLink.                    *)
(*                                                                         *)
(* Every event changes the variables of one subscription.  What its new    *)
(* variables have to satisfy whatever the others are is collected in Fine; *)
(* Evolves adds what relates them to the session and the store, and each   *)
(* event is shown to be such a change.                                     *)
(***************************************************************************)
EXTENDS MessagesSocket, FiniteSetTheorems, TLAPS

\* Well-formed variables of a subscription: a ticket is only asked for when
\* there is no socket, what ended or was not mounted has none, one whose
\* tickets were rejected too often has given up, and an open socket is pinged.
Shape(u) ==
    /\ u \in Subscription
    /\ u.mint # "none" => u.sock = "none"
    /\ u.life \in {"none", "cancelled"} => u.sock = "none"
    /\ u.life = "none" => u.mint = "none" /\ u.waits = 0 /\ u.rejections = 0
    /\ u.rejections < MaxRejections \/ (u.life # "live" /\ u.sock = "none")
    /\ u.life = "live" /\ u.sock \in {"open", "silent"} => u.ping

\* Something will bring the subscription back.
Watched(u) ==
    u.life = "live" => \/ u.sock # "none" \/ u.timer # "off"
                       \/ u.mint # "none" \/ u.waits > 0

IsOver(u) == u.life = "cancelled" \/ (u.life = "stopped" /\ u.sock = "none")

\* A change from u to v that no other subscription matters for.
Fine(u, v) ==
    /\ Shape(v) /\ Watched(v)
    /\ IsOver(u) => IsOver(v)
    /\ u.life = "cancelled" => v.life = "cancelled"
    /\ u.life = "none" => v.life \in {"none", "live", "stopped"}
    /\ u.life # "none" => v.life # "none"

AwaitsRefresh(u) == u.life = "live" /\ (u.mint = "refresh" \/ u.waits > 0)
RefreshDue == refresh # NoRefresh \/ settled # "no"
HasSocket(u) == u.sock \in {"open", "silent", "closing"}

\* Subscription s changes to v, and the store is told of a socket that went.
Changes(s, v) ==
    /\ sub' = [sub EXCEPT ![s] = v]
    /\ Fine(sub[s], v)
    /\ \/ v.life = sub[s].life \/ sub[s].life # "none"
       \/ \A r \in Subs : r < s => sub[r].life = "cancelled"
    /\ AwaitsRefresh(v) => RefreshDue'
    /\ RefreshDue => RefreshDue'
    /\ realtime' => HasSocket(v) \/ (realtime /\ ~HasSocket(sub[s]))
    /\ realtime' \in BOOLEAN
    /\ strays' = strays

Evolves(s) == \E v : Changes(s, v)

-----------------------------------------------------------------------------
(* The invariant.                                                          *)

\* A refresh in flight belongs to this session or to an earlier one; if to this
\* one, it was sent with the JWT that is in memory.
CallOK ==
    /\ refresh \in Call
    /\ refresh.gen <= gen
    /\ refresh.gen = gen => refresh.bearer = jwt

SessionOK ==
    /\ gen \in Nat \ {0} /\ jwt \in Sessions /\ cookie \in Sessions /\ CallOK
    /\ settled \in {"no", "session", "null", "throw"}
    /\ gate \in {"ok", "token_required", "recheck", "disabled"}
    /\ faults \in 0..MaxFaults

SubsOK ==
    /\ sub \in [Subs -> Subscription] /\ realtime \in BOOLEAN /\ strays = 0
    /\ \A s \in Subs : Shape(sub[s]) /\ Watched(sub[s])

\* Who waits for a refresh has one to wait for.
Awaited == \A s \in Subs : AwaitsRefresh(sub[s]) => RefreshDue

\* Mounts follow each other.
Mounts ==
    \A r, s \in Subs : r < s /\ sub[s].life # "none" => sub[r].life = "cancelled"

Connected == realtime => \E s \in Subs : HasSocket(sub[s])

IInv == SessionOK /\ SubsOK /\ Awaited /\ Mounts /\ Connected

-----------------------------------------------------------------------------
(* The functions of the closure.                                           *)

LEMMA GiveUpShape ==
  ASSUME NEW u, Shape(u)
  PROVE  /\ Shape(GiveUp(u)) /\ GiveUp(u).life = (IF u.life = "live" THEN "stopped" ELSE u.life)
         /\ GiveUp(u).sock = u.sock /\ GiveUp(u).waits = u.waits
  BY DEF Shape, GiveUp, Subscription

LEMMA ScheduleShape ==
  ASSUME NEW u, Shape(u), NEW wait \in {"due", "minute"}
  PROVE  /\ Shape(ScheduleReconnect(u, wait))
         /\ ScheduleReconnect(u, wait).life = u.life
         /\ ScheduleReconnect(u, wait).sock = u.sock
         /\ ScheduleReconnect(u, wait).mint = u.mint
         /\ ScheduleReconnect(u, wait).waits = u.waits
         /\ u.life = "live" => ScheduleReconnect(u, wait).timer # "off"
<1>1. CASE ~Running(u) \/ u.timer # "off"
  BY <1>1 DEF Shape, ScheduleReconnect, Running
<1>2. CASE Running(u) /\ u.timer = "off"
  <2> DEFINE b == u.limited \/ wait = "minute"
             v == [u EXCEPT !.timer = wait, !.limited = b]
  <2>1. u \in Subscription /\ b \in BOOLEAN /\ wait \in {"off", "due", "minute"}
    BY DEF Shape
  <2>2. ScheduleReconnect(u, wait) = v
    BY <1>2, <2>1 DEF ScheduleReconnect, Subscription
  <2> HIDE DEF b
  <2>3. v \in Subscription
    BY <2>1, Zenon DEF Subscription
  <2>4. /\ v.life = u.life /\ v.sock = u.sock /\ v.mint = u.mint /\ v.waits = u.waits
        /\ v.timer = wait /\ v.rejections = u.rejections /\ v.ping = u.ping
    BY <2>1 DEF Subscription
  <2> HIDE DEF v
  <2> QED BY <2>2, <2>3, <2>4 DEF Shape
<1> QED BY <1>1, <1>2

LEMMA DetachShape ==
  ASSUME NEW u, Shape(u)
  PROVE  /\ Shape(DetachSocket(u)) /\ DetachSocket(u).sock = "none"
         /\ DetachSocket(u).life = u.life /\ DetachSocket(u).mint = u.mint
         /\ DetachSocket(u).waits = u.waits /\ DetachSocket(u).timer = u.timer
<1>1. CASE u.sock = "none"
  BY <1>1 DEF DetachSocket
<1>2. CASE u.sock # "none"
  <2> DEFINE v == [u EXCEPT !.sock = "none", !.ping = FALSE]
  <2>1. u \in Subscription /\ DetachSocket(u) = v
    BY <1>2 DEF Shape, DetachSocket
  <2>2. v \in Subscription
    BY <2>1, Zenon DEF Subscription
  <2>3. /\ v.life = u.life /\ v.sock = "none" /\ v.mint = u.mint /\ v.waits = u.waits
        /\ v.timer = u.timer /\ v.rejections = u.rejections
    BY <2>1 DEF Subscription
  <2> HIDE DEF v
  <2> QED BY <2>1, <2>2, <2>3 DEF Shape
<1> QED BY <1>1, <1>2

LEMMA ConnectShape ==
  ASSUME NEW u, Shape(u)
  PROVE  /\ Shape(Connect(u))
         /\ u.life # "live" => Connect(u) = u
         /\ u.life = "live" => /\ Connect(u).life \in {"live", "stopped"}
                               /\ Connect(u).life = "live" => Connect(u).mint = "first"
                               /\ Connect(u).sock = "none"
         /\ Connect(u).waits = u.waits
<1> DEFINE d == DetachSocket(u)
           e == [d EXCEPT !.overtaken = @ \cup ({d.mint} \ {"none"}), !.mint = "none"]
           f == [d EXCEPT !.overtaken = @ \cup ({d.mint} \ {"none"}), !.mint = "first"]
<1>1. /\ Shape(d) /\ d.sock = "none" /\ d.life = u.life /\ d.waits = u.waits
  BY DetachShape
<1>2. /\ Connect(u) = IF u.life # "live" THEN u ELSE IF jwt = 0 THEN GiveUp(e) ELSE f
  BY DEF Connect, Running
<1> HIDE DEF d
<1>3. d.overtaken \cup ({d.mint} \ {"none"}) \in SUBSET MintSteps
  BY <1>1 DEF Shape, Subscription
<1>4. Shape(e) /\ e.sock = "none" /\ e.life = u.life /\ e.waits = u.waits
  BY <1>1, <1>3 DEF Shape, Subscription
<1>5. /\ u.life = "live" => Shape(f)
      /\ f.sock = "none" /\ f.life = u.life /\ f.waits = u.waits /\ f.mint = "first"
  BY <1>1, <1>3 DEF Shape, Subscription, MintSteps
<1>6. /\ Shape(GiveUp(e)) /\ GiveUp(e).sock = "none" /\ GiveUp(e).waits = u.waits
      /\ u.life = "live" => GiveUp(e).life = "stopped"
  BY <1>4, GiveUpShape
<1> HIDE DEF e, f
<1> QED BY <1>2, <1>4, <1>5, <1>6


-----------------------------------------------------------------------------
(* The events of one subscription.                                         *)

LEMMA Introduce ==
  ASSUME NEW s \in Subs, NEW v, Becomes(s, v), Fine(sub[s], v),
         v.life = sub[s].life \/ sub[s].life # "none"
            \/ \A r \in Subs : r < s => sub[r].life = "cancelled",
         AwaitsRefresh(v) => RefreshDue', RefreshDue => RefreshDue',
         realtime' => HasSocket(v) \/ (realtime /\ ~HasSocket(sub[s])),
         realtime' \in BOOLEAN, strays' = strays
  PROVE  Evolves(s)
  BY DEF Evolves, Changes, Becomes

\* What the invariant says of one subscription.
LEMMA Known ==
  ASSUME IInv, NEW s \in Subs
  PROVE  /\ Shape(sub[s]) /\ Watched(sub[s]) /\ (AwaitsRefresh(sub[s]) => RefreshDue)
         /\ realtime \in BOOLEAN /\ SessionOK
  BY DEF IInv, SubsOK, Awaited

LEMMA SubscribeStep ==
  ASSUME IInv, NEW s \in Subs, Subscribe(s)
  PROVE  SessionOK' /\ Evolves(s)
<1> DEFINE u == [sub[s] EXCEPT !.life = "live"]
           v == Connect(u)
<1>1. Shape(sub[s]) /\ sub[s].life = "none" /\ sub[s].sock = "none"
  BY Known DEF Subscribe, Shape
<1>2. Shape(u) /\ u.life = "live" /\ u.waits = 0
  BY <1>1, ConstantsAssumption DEF Shape, Subscription
<1>3. Shape(v) /\ v.sock = "none" /\ v.life = "live" /\ v.mint = "first" /\ v.waits = 0
  <2>1. jwt # 0
    BY DEF Subscribe
  <2>2. v.life = "live"
    BY <1>2, <2>1, DetachShape DEF Connect, Running, Shape, Subscription
  <2> QED BY <1>2, <2>2, ConnectShape
<1> HIDE DEF v
<1>4. Becomes(s, v) /\ \A r \in Subs : r < s => sub[r].life = "cancelled"
  BY DEF Subscribe, v
<1>5. Fine(sub[s], v)
  BY <1>1, <1>3 DEF Fine, Watched, IsOver
<1>6. UNCHANGED <<gen, jwt, cookie, refresh, settled, gate, realtime, strays, faults>>
  BY DEF Subscribe, authVars
<1>7. ~AwaitsRefresh(v) /\ ~HasSocket(sub[s])
  BY <1>1, <1>3 DEF AwaitsRefresh, HasSocket
<1>8. SessionOK' /\ (RefreshDue => RefreshDue')
  BY <1>6, Known DEF SessionOK, CallOK, RefreshDue
<1> QED BY <1>4, <1>5, <1>6, <1>7, <1>8, Known, Introduce

LEMMA UnsubscribeStep ==
  ASSUME IInv, NEW s \in Subs, Unsubscribe(s)
  PROVE  SessionOK' /\ Evolves(s)
<1> DEFINE u == sub[s]
           v == [u EXCEPT !.life = "cancelled", !.sock = "none", !.ping = FALSE,
                          !.timer = "off", !.mint = "none",
                          !.overtaken = @ \cup ({u.mint} \ {"none"})]
<1>1. Shape(u) /\ u.life \in {"live", "stopped"}
  BY Known DEF Unsubscribe
<1>2. u.overtaken \cup ({u.mint} \ {"none"}) \in SUBSET MintSteps
  BY <1>1 DEF Shape, Subscription
<1>3. Fine(u, v) /\ v.life = "cancelled"
  BY <1>1, <1>2 DEF Fine, Shape, Watched, IsOver, Subscription
<1>4. Becomes(s, v) /\ realtime' = FALSE
  BY DEF Unsubscribe
<1>5. UNCHANGED <<gen, jwt, cookie, refresh, settled, gate, strays, faults>>
  BY DEF Unsubscribe, authVars
<1>6. SessionOK' /\ (RefreshDue => RefreshDue')
  BY <1>5, Known DEF SessionOK, CallOK, RefreshDue
<1>7. ~AwaitsRefresh(v)
  BY <1>3 DEF AwaitsRefresh
<1> HIDE DEF v
<1> QED BY <1>1, <1>3, <1>4, <1>5, <1>6, <1>7, Introduce

\* A refresh that is joined is there to wait for.
LEMMA Joined ==
  ASSUME SessionOK, JoinRefresh, settled' = settled, gen' = gen, jwt' = jwt
  PROVE  RefreshDue' /\ CallOK'
<1>1. CASE refresh # NoRefresh
  BY <1>1 DEF SessionOK, CallOK, JoinRefresh, RefreshDue
<1>2. CASE refresh = NoRefresh
  <2>1. refresh' = [gen |-> gen, bearer |-> jwt, token |-> cookie]
    BY <1>2 DEF JoinRefresh
  <2>2. /\ refresh' \in Call /\ refresh'.gen = gen /\ refresh'.bearer = jwt
        /\ gen # 0 /\ gen <= gen
    BY <2>1 DEF SessionOK, Call
  <2>3. refresh' # NoRefresh
    BY <2>2 DEF NoRefresh
  <2> QED BY <2>2, <2>3 DEF CallOK, RefreshDue
<1> QED BY <1>1, <1>2

\* Only one more fault, or none.
LEMMA FaultBound ==
  ASSUME SessionOK, Fault
  PROVE  faults' \in 0..MaxFaults
  BY ConstantsAssumption DEF SessionOK, CallOK, Fault

LEMMA MintAnswerStep ==
  ASSUME IInv, NEW s \in Subs, MintAnswer(s)
  PROVE  SessionOK' /\ Evolves(s)
<1> DEFINE u == sub[s]
           done == [u EXCEPT !.mint = "none"]
<1>1. /\ Shape(u) /\ u.mint \in {"first", "second"} /\ u.sock = "none" /\ u.life # "none"
      /\ ~HasSocket(u)
  BY Known DEF MintAnswer, Shape, HasSocket
<1>2. /\ Shape(done) /\ done.life = u.life /\ done.sock = "none" /\ done.mint = "none"
      /\ done.waits = u.waits
  BY <1>1 DEF Shape, Subscription
<1>3. UNCHANGED <<gen, jwt, cookie, settled>>
  BY DEF MintAnswer
<1>4. ASSUME Becomes(s, done), u.life # "live",
             refresh' = refresh, strays' = strays, realtime' \in BOOLEAN,
             realtime' => realtime
      PROVE  Evolves(s)
  <2>1. Fine(u, done) /\ ~AwaitsRefresh(done)
    BY <1>1, <1>2, <1>4 DEF Fine, Watched, IsOver, AwaitsRefresh
  <2> QED BY <1>1, <1>2, <1>3, <1>4, <2>1, Introduce DEF RefreshDue
<1>5. ASSUME Becomes(s, GiveUp(done)), u.life = "live",
             refresh' = refresh, strays' = strays, realtime' \in BOOLEAN,
             realtime' => realtime
      PROVE  Evolves(s)
  <2> DEFINE v == GiveUp(done)
  <2>1. Shape(v) /\ v.life = "stopped" /\ v.sock = "none"
    BY <1>2, <1>5, GiveUpShape
  <2> HIDE DEF v
  <2>2. Fine(u, v) /\ ~AwaitsRefresh(v)
    BY <1>1, <1>5, <2>1 DEF Fine, Watched, IsOver, AwaitsRefresh
  <2> QED BY <1>1, <1>3, <1>5, <2>2, Introduce DEF RefreshDue, v
<1>6. CASE /\ Becomes(s, IF Running(u) THEN OpenSocket(u) ELSE done)
           /\ strays' = IF Running(u) /\ u.sock # "none" THEN strays + 1 ELSE strays
           /\ UNCHANGED <<refresh, gate, realtime, faults>>
  <2>1. strays' = strays /\ realtime' \in BOOLEAN
    BY <1>1, <1>6, Known
  <2>2. SessionOK'
    BY <1>3, <1>6, Known DEF SessionOK, CallOK
  <2>3. CASE u.life # "live"
    BY <1>4, <1>6, <2>1, <2>2, <2>3 DEF Running
  <2>4. CASE u.life = "live"
    <3> DEFINE v == OpenSocket(u)
    <3>1. /\ Shape(v) /\ v.life = "live" /\ v.sock = "connecting" /\ v.mint = "none"
          /\ v.waits = u.waits
      BY <1>1, <2>4 DEF OpenSocket, Shape, Subscription
    <3>2. Becomes(s, v)
      BY <1>6, <2>4 DEF Running
    <3> HIDE DEF v
    <3>3. Fine(u, v) /\ (AwaitsRefresh(v) => RefreshDue)
      BY <1>1, <2>4, <3>1, Known DEF Fine, Watched, IsOver, AwaitsRefresh
    <3> QED BY <1>1, <1>3, <1>6, <2>1, <2>2, <3>2, <3>3, Introduce DEF RefreshDue
  <2> QED BY <2>3, <2>4
<1>7. CASE /\ Fault
           /\ IF u.mint = "first"
              THEN Becomes(s, [u EXCEPT !.mint = "refresh"]) /\ JoinRefresh /\ UNCHANGED realtime
              ELSE /\ Becomes(s, IF Running(u) THEN GiveUp(done) ELSE done)
                   /\ Reported(Running(u)) /\ UNCHANGED refresh
           /\ UNCHANGED <<gate, strays>>
  <2>1. CASE u.mint = "first"
    <3> DEFINE v == [u EXCEPT !.mint = "refresh"]
    <3>1. Becomes(s, v) /\ JoinRefresh /\ realtime' = realtime
      BY <1>7, <2>1
    <3>2. RefreshDue' /\ CallOK'
      BY <1>3, <3>1, Known, Joined
    <3>3. SessionOK'
      BY <1>3, <1>7, <3>2, Known, FaultBound DEF SessionOK, CallOK
    <3>4. Shape(v) /\ v.life = u.life /\ v.sock = "none" /\ v.mint = "refresh"
      BY <1>1 DEF Shape, Subscription, MintSteps
    <3> HIDE DEF v
    <3>5. Fine(u, v)
      BY <1>1, <3>4 DEF Fine, Watched, IsOver
    <3> QED BY <1>1, <1>7, <3>1, <3>2, <3>3, <3>5, Known, Introduce
  <2>2. CASE u.mint # "first"
    <3>1. /\ Becomes(s, IF Running(u) THEN GiveUp(done) ELSE done)
          /\ realtime' = (realtime /\ ~Running(u)) /\ refresh' = refresh /\ strays' = strays
      BY <1>7, <2>2 DEF Reported
    <3>2. SessionOK'
      BY <1>3, <1>7, <3>1, Known, FaultBound DEF SessionOK, CallOK
    <3>3. CASE u.life = "live"
      BY <1>5, <3>1, <3>2, <3>3 DEF Running
    <3>4. CASE u.life # "live"
      BY <1>4, <3>1, <3>2, <3>4 DEF Running
    <3> QED BY <3>3, <3>4
  <2> QED BY <2>1, <2>2
<1>8. CASE /\ Running(u) /\ Fault
           /\ Becomes(s, GiveUp(done)) /\ Reported(TRUE) /\ GateAfter("disabled")
           /\ UNCHANGED <<refresh, strays>>
  <2>1. realtime' = FALSE
    BY <1>8 DEF Reported
  <2>2. SessionOK'
    BY <1>3, <1>8, Known, FaultBound DEF SessionOK, CallOK, GateAfter
  <2> QED BY <1>5, <1>8, <2>1, <2>2 DEF Running
<1>9. CASE /\ Fault
           /\ \E wait \in {"due", "minute"} : Becomes(s, ScheduleReconnect(done, wait))
           /\ UNCHANGED <<refresh, gate, realtime, strays>>
  <2>1. PICK wait \in {"due", "minute"} : Becomes(s, ScheduleReconnect(done, wait))
    BY <1>9
  <2> DEFINE v == ScheduleReconnect(done, wait)
  <2>2. /\ Shape(v) /\ v.life = u.life /\ v.sock = "none" /\ v.mint = "none"
        /\ v.waits = u.waits /\ (u.life = "live" => v.timer # "off")
    BY <1>2, ScheduleShape
  <2>3. SessionOK'
    BY <1>3, <1>9, Known, FaultBound DEF SessionOK, CallOK
  <2>4. Becomes(s, v)
    BY <2>1
  <2> HIDE DEF v
  <2>5. Fine(u, v) /\ (AwaitsRefresh(v) => RefreshDue)
    BY <1>1, <2>2, Known DEF Fine, Watched, IsOver, AwaitsRefresh
  <2> QED BY <1>1, <1>3, <1>9, <2>3, <2>4, <2>5, Known, Introduce DEF RefreshDue
<1> QED BY <1>6, <1>7, <1>8, <1>9 DEF MintAnswer

\* The three ways a handler ends: giving up, scheduling a reconnect and
\* connecting, from variables w that differ from sub[s] in details.
LEMMA GivesUp ==
  ASSUME IInv, NEW s \in Subs, NEW w, Shape(w), w.life = sub[s].life,
         sub[s].sock = "none" => w.sock = "none", Becomes(s, GiveUp(w)),
         RefreshDue => RefreshDue', realtime' = FALSE, strays' = strays
  PROVE  Evolves(s)
<1> DEFINE u == sub[s]
           v == GiveUp(w)
<1>1. /\ Shape(v) /\ v.life = (IF u.life = "live" THEN "stopped" ELSE u.life)
      /\ v.sock = w.sock
  BY GiveUpShape
<1>2. Shape(u)
  BY Known
<1>3. Becomes(s, v)
  OBVIOUS
<1> HIDE DEF v
<1>4. Fine(u, v) /\ ~AwaitsRefresh(v)
  BY <1>1, <1>2 DEF Fine, Shape, Subscription, Watched, IsOver, AwaitsRefresh
<1> QED BY <1>1, <1>2, <1>3, <1>4, Introduce DEF Shape, Subscription

LEMMA Schedules ==
  ASSUME IInv, NEW s \in Subs, NEW w, Shape(w), w.life = sub[s].life,
         sub[s].sock = "none" => w.sock = "none",
         NEW wait \in {"due", "minute"}, Becomes(s, ScheduleReconnect(w, wait)),
         AwaitsRefresh(w) => RefreshDue', RefreshDue => RefreshDue',
         realtime' => HasSocket(w) \/ (realtime /\ ~HasSocket(sub[s])),
         realtime' \in BOOLEAN, strays' = strays
  PROVE  Evolves(s)
<1> DEFINE u == sub[s]
           v == ScheduleReconnect(w, wait)
<1>1. /\ Shape(v) /\ v.life = u.life /\ v.sock = w.sock /\ v.mint = w.mint
      /\ v.waits = w.waits /\ (u.life = "live" => v.timer # "off")
  BY ScheduleShape
<1>2. Shape(u)
  BY Known
<1>3. Becomes(s, v)
  OBVIOUS
<1> HIDE DEF v
<1>4. /\ Fine(u, v) /\ (AwaitsRefresh(v) => RefreshDue')
      /\ HasSocket(w) => HasSocket(v)
  BY <1>1, <1>2 DEF Fine, Shape, Subscription, Watched, IsOver, AwaitsRefresh, HasSocket
<1> QED BY <1>1, <1>3, <1>4, Introduce

LEMMA Connects ==
  ASSUME IInv, NEW s \in Subs, NEW w, Shape(w), w.life = sub[s].life,
         w.sock = sub[s].sock, Becomes(s, Connect(w)), Reported(ConnectReports(w)),
         AwaitsRefresh(w) => RefreshDue', RefreshDue => RefreshDue', strays' = strays
  PROVE  Evolves(s)
<1> DEFINE u == sub[s]
           v == Connect(w)
<1>1. /\ Shape(v)
      /\ w.life # "live" => v = w
      /\ w.life = "live" => /\ v.life \in {"live", "stopped"}
                            /\ v.life = "live" => v.mint = "first"
                            /\ v.sock = "none"
      /\ v.waits = w.waits
  BY ConnectShape
<1>2. Shape(u) /\ realtime' \in BOOLEAN /\ Becomes(s, v)
  BY Known DEF Reported
<1>3. realtime' = (realtime /\ ~(w.life = "live" /\ (w.sock # "none" \/ jwt = 0)))
  BY DEF Reported, ConnectReports, Running
<1> HIDE DEF v
<1>4. realtime' => HasSocket(v) \/ (realtime /\ ~HasSocket(u))
  BY <1>1, <1>3, Known DEF HasSocket
<1>5. Fine(u, v) /\ (AwaitsRefresh(v) => RefreshDue')
  BY <1>1, <1>2 DEF Fine, Shape, Subscription, Watched, IsOver, AwaitsRefresh
<1>6. v.life = u.life \/ u.life # "none"
  BY <1>1
<1> QED BY <1>2, <1>4, <1>5, <1>6, Introduce

LEMMA MintRefreshedStep ==
  ASSUME IInv, NEW s \in Subs, MintRefreshed(s)
  PROVE  SessionOK' /\ Evolves(s)
<1> DEFINE u == sub[s]
           done == [u EXCEPT !.mint = "none"]
<1>1. /\ Shape(u) /\ u.mint = "refresh" /\ u.sock = "none" /\ u.life # "none"
      /\ ~HasSocket(u) /\ settled # "no"
  BY Known DEF MintRefreshed, Quiet, Shape, HasSocket
<1>2. /\ Shape(done) /\ done.life = u.life /\ done.sock = "none" /\ done.mint = "none"
  BY <1>1 DEF Shape, Subscription
<1>3. UNCHANGED <<gen, jwt, cookie, refresh, settled, gate, strays, faults>>
  BY DEF MintRefreshed, authVars
<1>4. SessionOK' /\ RefreshDue'
  BY <1>1, <1>3, Known DEF SessionOK, CallOK, RefreshDue
<1>5. CASE settled = "session"
  <2> DEFINE v == [u EXCEPT !.mint = "second"]
  <2>1. Becomes(s, v) /\ realtime' = realtime
    BY <1>5 DEF MintRefreshed
  <2>2. Shape(v) /\ v.life = u.life /\ v.sock = "none" /\ v.mint = "second"
    BY <1>1 DEF Shape, Subscription, MintSteps
  <2> HIDE DEF v
  <2>3. Fine(u, v)
    BY <1>1, <2>2 DEF Fine, Watched, IsOver
  <2> QED BY <1>1, <1>3, <1>4, <2>1, <2>3, Known, Introduce
<1>6. CASE settled = "null"
  <2>1. /\ Becomes(s, IF Running(u) THEN GiveUp(done) ELSE done)
        /\ realtime' = (realtime /\ ~Running(u))
    BY <1>6 DEF MintRefreshed, Reported
  <2>2. CASE u.life = "live"
    BY <1>2, <1>3, <1>4, <2>1, <2>2, GivesUp DEF Running
  <2>3. CASE u.life # "live"
    <3>1. Fine(u, done) /\ Becomes(s, done) /\ realtime' = realtime
      BY <1>1, <1>2, <2>1, <2>3, Known DEF Running, Fine, Watched, IsOver
    <3> QED BY <1>1, <1>3, <1>4, <3>1, Known, Introduce
  <2> QED BY <2>2, <2>3
<1>7. CASE settled = "throw"
  <2>1. Becomes(s, ScheduleReconnect(done, "due")) /\ realtime' = realtime
    BY <1>7 DEF MintRefreshed
  <2> QED BY <1>1, <1>2, <1>3, <1>4, <2>1, Known, Schedules
<1> QED BY <1>1, <1>5, <1>6, <1>7, Known DEF SessionOK, CallOK

LEMMA OvertakenAnswerStep ==
  ASSUME IInv, NEW s \in Subs, OvertakenAnswer(s)
  PROVE  SessionOK' /\ Evolves(s)
<1> DEFINE u == sub[s]
<1>1. PICK m \in u.overtaken \ {"refresh"} :
         \/ /\ Becomes(s, LateTicket(u, m))
            /\ strays' = IF LateTicket(u, m).sock # u.sock /\ u.sock # "none"
                         THEN strays + 1 ELSE strays
            /\ UNCHANGED <<refresh, faults>>
         \/ /\ m = "first" /\ Fault
            /\ Becomes(s, [u EXCEPT !.overtaken = (@ \ {m}) \cup {"refresh"}])
            /\ JoinRefresh /\ UNCHANGED strays
  BY DEF OvertakenAnswer
<1>2. UNCHANGED <<gen, jwt, cookie, settled, gate, realtime>>
  BY DEF OvertakenAnswer
<1>3. Shape(u) /\ Watched(u) /\ u.overtaken \subseteq MintSteps
  BY Known DEF Shape, Subscription
<1>4. ASSUME NEW o \in SUBSET MintSteps, Becomes(s, [u EXCEPT !.overtaken = o]),
             RefreshDue => RefreshDue', strays' = strays
      PROVE  Evolves(s)
  <2> DEFINE v == [u EXCEPT !.overtaken = o]
  <2>1. /\ Shape(v) /\ v.life = u.life /\ v.sock = u.sock /\ v.mint = u.mint
        /\ v.waits = u.waits /\ v.timer = u.timer
    BY <1>3 DEF Shape, Subscription
  <2>2. Becomes(s, v)
    BY <1>4
  <2> HIDE DEF v
  <2>3. Fine(u, v) /\ (AwaitsRefresh(v) => RefreshDue) /\ (HasSocket(u) => HasSocket(v))
    BY <1>3, <2>1, Known DEF Fine, Watched, IsOver, AwaitsRefresh, HasSocket, Shape, Subscription
  <2> QED BY <1>2, <1>4, <2>1, <2>2, <2>3, Known, Introduce
<1>5. CASE /\ Becomes(s, LateTicket(u, m))
           /\ strays' = IF LateTicket(u, m).sock # u.sock /\ u.sock # "none"
                        THEN strays + 1 ELSE strays
           /\ UNCHANGED <<refresh, faults>>
  <2>1. /\ LateTicket(u, m) = [u EXCEPT !.overtaken = u.overtaken \ {m}]
        /\ LateTicket(u, m).sock = u.sock
    BY <1>3 DEF LateTicket, Shape, Subscription
  <2>2. u.overtaken \ {m} \in SUBSET MintSteps
    BY <1>3
  <2>3. SessionOK' /\ (RefreshDue => RefreshDue') /\ strays' = strays
    BY <1>2, <1>5, <2>1, Known DEF SessionOK, CallOK, RefreshDue
  <2> QED BY <1>4, <1>5, <2>1, <2>2, <2>3
<1>6. CASE /\ m = "first" /\ Fault
           /\ Becomes(s, [u EXCEPT !.overtaken = (@ \ {m}) \cup {"refresh"}])
           /\ JoinRefresh /\ UNCHANGED strays
  <2>1. (u.overtaken \ {m}) \cup {"refresh"} \in SUBSET MintSteps
    BY <1>3 DEF MintSteps
  <2>2. Becomes(s, [u EXCEPT !.overtaken = (u.overtaken \ {m}) \cup {"refresh"}])
    BY <1>6
  <2>3. RefreshDue' /\ CallOK'
    BY <1>2, <1>6, Known, Joined
  <2>4. SessionOK'
    BY <1>2, <1>6, <2>3, Known, FaultBound DEF SessionOK, CallOK
  <2> QED BY <1>4, <1>6, <2>1, <2>2, <2>3, <2>4
<1> QED BY <1>1, <1>5, <1>6

LEMMA OvertakenRefreshedStep ==
  ASSUME IInv, NEW s \in Subs, OvertakenRefreshed(s)
  PROVE  SessionOK' /\ Evolves(s)
<1> DEFINE u == sub[s]
           o == (u.overtaken \ {"refresh"}) \cup
                (IF settled = "session" THEN {"second"} ELSE {})
           v == [u EXCEPT !.overtaken = o]
<1>1. UNCHANGED <<gen, jwt, cookie, refresh, settled, gate, realtime, strays, faults>> /\ Becomes(s, v)
  BY DEF OvertakenRefreshed, authVars
<1>2. SessionOK' /\ (RefreshDue => RefreshDue')
  BY <1>1, Known DEF SessionOK, CallOK, RefreshDue
<1>3. o \in SUBSET MintSteps
  BY Known DEF Shape, Subscription, MintSteps
<1> HIDE DEF o
<1>4. /\ Shape(v) /\ v.life = u.life /\ v.sock = u.sock /\ v.mint = u.mint
      /\ v.waits = u.waits /\ v.timer = u.timer
  BY <1>3, Known DEF Shape, Subscription
<1> HIDE DEF v
<1>5. Fine(u, v) /\ (AwaitsRefresh(v) => RefreshDue) /\ (HasSocket(u) => HasSocket(v))
  BY <1>4, Known DEF Fine, Watched, IsOver, AwaitsRefresh, HasSocket, Shape, Subscription
<1> QED BY <1>1, <1>2, <1>4, <1>5, Known, Introduce

\* The socket's own events change it from an open or opening state to another.
LEMMA SocketChanges ==
  ASSUME IInv, NEW s \in Subs, NEW v, Shape(v), Becomes(s, v),
         sub[s].sock # "none", v.sock # "none",
         v.life = sub[s].life, v.mint = sub[s].mint, v.waits = sub[s].waits,
         RefreshDue => RefreshDue', strays' = strays, realtime' \in BOOLEAN,
         HasSocket(v) \/ (realtime' => realtime /\ ~HasSocket(sub[s]))
  PROVE  Evolves(s)
<1>1. Fine(sub[s], v) /\ (AwaitsRefresh(v) => RefreshDue)
  BY Known DEF Fine, Watched, IsOver, AwaitsRefresh, Shape, Subscription
<1> QED BY <1>1, Introduce

LEMMA SocketOpensStep ==
  ASSUME IInv, NEW s \in Subs, SocketOpens(s)
  PROVE  SessionOK' /\ Evolves(s)
<1> DEFINE u == sub[s]
           v == [u EXCEPT !.sock = "open", !.ping = TRUE, !.retried = FALSE,
                          !.rejections = 0]
<1>1. /\ UNCHANGED <<gen, jwt, cookie, refresh, settled, gate, strays, faults>>
      /\ Becomes(s, v) /\ realtime' = TRUE /\ u.sock = "connecting"
  BY DEF SocketOpens, authVars
<1>2. SessionOK' /\ (RefreshDue => RefreshDue')
  BY <1>1, Known DEF SessionOK, CallOK, RefreshDue
<1>3. /\ Shape(v) /\ v.sock = "open" /\ v.life = u.life /\ v.mint = u.mint
      /\ v.waits = u.waits
  <2>1. 0 \in 0..MaxRejections /\ 0 < MaxRejections
    BY ConstantsAssumption
  <2>2. Shape(u)
    BY Known
  <2>3. v \in Subscription
    BY <2>1, <2>2 DEF Shape, Subscription
  <2> QED BY <1>1, <2>1, <2>2, <2>3 DEF Shape, Subscription
<1> HIDE DEF v
<1> QED BY <1>1, <1>2, <1>3, SocketChanges DEF HasSocket

LEMMA GoSilentStep ==
  ASSUME IInv, NEW s \in Subs, GoSilent(s)
  PROVE  SessionOK' /\ Evolves(s)
<1> DEFINE u == sub[s]
           v == [u EXCEPT !.sock = "silent"]
<1>1. /\ UNCHANGED <<gen, jwt, cookie, refresh, settled, gate, realtime, strays>> /\ Fault
      /\ Becomes(s, v) /\ u.sock = "open"
  BY DEF GoSilent, authVars
<1>2. SessionOK' /\ (RefreshDue => RefreshDue')
  BY <1>1, Known, FaultBound DEF SessionOK, CallOK, RefreshDue
<1>3. /\ Shape(v) /\ v.sock = "silent" /\ v.life = u.life /\ v.mint = u.mint
      /\ v.waits = u.waits
  BY <1>1, Known DEF Shape, Subscription
<1> HIDE DEF v
<1> QED BY <1>1, <1>2, <1>3, Known, SocketChanges DEF HasSocket

LEMMA FrameArrivesStep ==
  ASSUME IInv, NEW s \in Subs, FrameArrives(s)
  PROVE  SessionOK' /\ Evolves(s)
<1> DEFINE u == sub[s]
           v == [u EXCEPT !.sock = "open"]
<1>1. /\ UNCHANGED <<gen, jwt, cookie, refresh, settled, gate, realtime, strays, faults>>
      /\ Becomes(s, v) /\ u.sock = "silent"
  BY DEF FrameArrives, authVars
<1>2. SessionOK' /\ (RefreshDue => RefreshDue')
  BY <1>1, Known DEF SessionOK, CallOK, RefreshDue
<1>3. /\ Shape(v) /\ v.sock = "open" /\ v.life = u.life /\ v.mint = u.mint
      /\ v.waits = u.waits
  BY <1>1, Known DEF Shape, Subscription
<1> HIDE DEF v
<1> QED BY <1>1, <1>2, <1>3, Known, SocketChanges DEF HasSocket

LEMMA ServerClosesStep ==
  ASSUME IInv, NEW s \in Subs, ServerCloses(s)
  PROVE  SessionOK' /\ Evolves(s)
<1> DEFINE u == sub[s]
           v == [u EXCEPT !.sock = "closing"]
<1>1. /\ UNCHANGED <<gen, jwt, cookie, refresh, settled, gate, realtime, strays>> /\ Fault
      /\ Becomes(s, v) /\ u.sock \in {"connecting", "open", "silent"}
  BY DEF ServerCloses, authVars
<1>2. SessionOK' /\ (RefreshDue => RefreshDue')
  BY <1>1, Known, FaultBound DEF SessionOK, CallOK, RefreshDue
<1>3. /\ Shape(v) /\ v.sock = "closing" /\ v.life = u.life /\ v.mint = u.mint
      /\ v.waits = u.waits
  BY <1>1, Known DEF Shape, Subscription
<1> HIDE DEF v
<1> QED BY <1>1, <1>2, <1>3, Known, SocketChanges DEF HasSocket

LEMMA PingTimerStep ==
  ASSUME IInv, NEW s \in Subs, PingTimer(s)
  PROVE  SessionOK' /\ Evolves(s)
<1> DEFINE w == DetachSocket(sub[s])
<1>1. /\ UNCHANGED <<gen, jwt, cookie, refresh, settled, gate, strays, faults>>
      /\ Becomes(s, ScheduleReconnect(w, "due")) /\ realtime' = FALSE
  BY DEF PingTimer, Reported, authVars
<1>2. SessionOK' /\ (RefreshDue => RefreshDue')
  BY <1>1, Known DEF SessionOK, CallOK, RefreshDue
<1>3. /\ Shape(w) /\ w.sock = "none" /\ w.life = sub[s].life /\ w.mint = sub[s].mint
      /\ w.waits = sub[s].waits
  BY Known, DetachShape
<1> HIDE DEF w
<1>4. AwaitsRefresh(w) => RefreshDue
  BY <1>3, Known DEF AwaitsRefresh
<1> QED BY <1>1, <1>2, <1>3, <1>4, Schedules

LEMMA TimerFiresStep ==
  ASSUME IInv, NEW s \in Subs, TimerFires(s)
  PROVE  SessionOK' /\ Evolves(s)
<1> DEFINE w == [sub[s] EXCEPT !.timer = "off"]
<1>1. /\ UNCHANGED <<gen, jwt, cookie, refresh, settled, gate, strays, faults>>
      /\ Becomes(s, Connect(w)) /\ Reported(ConnectReports(w))
  BY DEF TimerFires, authVars
<1>2. SessionOK' /\ (RefreshDue => RefreshDue')
  BY <1>1, Known DEF SessionOK, CallOK, RefreshDue
<1>3. /\ Shape(w) /\ w.sock = sub[s].sock /\ w.life = sub[s].life
      /\ w.mint = sub[s].mint /\ w.waits = sub[s].waits
  BY Known DEF Shape, Subscription
<1> HIDE DEF w
<1>4. AwaitsRefresh(w) => RefreshDue
  BY <1>3, Known DEF AwaitsRefresh
<1> QED BY <1>1, <1>2, <1>3, <1>4, Connects

LEMMA ResumeStep ==
  ASSUME IInv, NEW s \in Subs, Resume(s)
  PROVE  SessionOK' /\ Evolves(s)
<1> DEFINE w == [sub[s] EXCEPT !.timer = "off"]
<1>1. /\ UNCHANGED <<gen, jwt, cookie, refresh, settled, gate, strays>> /\ Fault
      /\ Becomes(s, Connect(w)) /\ Reported(ConnectReports(sub[s]))
  BY DEF Resume, authVars
<1>2. SessionOK' /\ (RefreshDue => RefreshDue')
  BY <1>1, Known, FaultBound DEF SessionOK, CallOK, RefreshDue
<1>3. /\ Shape(w) /\ w.sock = sub[s].sock /\ w.life = sub[s].life
      /\ w.mint = sub[s].mint /\ w.waits = sub[s].waits
  BY Known DEF Shape, Subscription
<1> HIDE DEF w
<1>4. AwaitsRefresh(w) => RefreshDue
  BY <1>3, Known DEF AwaitsRefresh
<1>5. Reported(ConnectReports(w))
  BY <1>1, <1>3 DEF ConnectReports, Reported, Running
<1> QED BY <1>1, <1>2, <1>3, <1>4, <1>5, Connects

LEMMA CloseRefreshedStep ==
  ASSUME IInv, NEW s \in Subs, CloseRefreshed(s)
  PROVE  SessionOK' /\ Evolves(s)
<1> DEFINE w == [sub[s] EXCEPT !.waits = @ - 1]
<1>1. /\ UNCHANGED <<gen, jwt, cookie, refresh, settled, gate, strays, faults>>
      /\ settled # "no" /\ sub[s].waits > 0 /\ Becomes(s, AfterRefresh(w))
      /\ Reported(settled = "null" \/ (settled = "session" /\ ConnectReports(w)))
  BY DEF CloseRefreshed, Quiet, authVars
<1>2. SessionOK' /\ RefreshDue'
  BY <1>1, Known DEF SessionOK, CallOK, RefreshDue
<1>3. /\ Shape(w) /\ w.sock = sub[s].sock /\ w.life = sub[s].life
  BY <1>1, Known DEF Shape, Subscription
<1> HIDE DEF w
<1>4. CASE settled = "session"
  <2>1. Becomes(s, Connect(w)) /\ Reported(ConnectReports(w))
    BY <1>1, <1>4 DEF AfterRefresh, Reported
  <2> QED BY <1>1, <1>2, <1>3, <2>1, Connects
<1>5. CASE settled = "null"
  <2>1. Becomes(s, GiveUp(w)) /\ realtime' = FALSE
    BY <1>1, <1>5 DEF AfterRefresh, Reported
  <2> QED BY <1>1, <1>2, <1>3, <2>1, GivesUp
<1>6. CASE settled = "throw"
  <2>1. Becomes(s, ScheduleReconnect(w, "due")) /\ realtime' = realtime
    BY <1>1, <1>6, Known DEF AfterRefresh, Reported
  <2>2. realtime' => HasSocket(w) \/ (realtime /\ ~HasSocket(sub[s]))
    BY <1>3, <2>1 DEF HasSocket
  <2> QED BY <1>1, <1>2, <1>3, <2>1, <2>2, Known, Schedules
<1> QED BY <1>1, <1>4, <1>5, <1>6, Known DEF SessionOK, CallOK

LEMMA CloseEventStep ==
  ASSUME IInv, NEW s \in Subs, NEW code \in Codes, CloseEvent(s, code)
  PROVE  SessionOK' /\ Evolves(s)
<1> DEFINE u == [sub[s] EXCEPT !.sock = "none", !.ping = FALSE]
<1>1. /\ UNCHANGED <<gen, jwt, cookie, settled, strays, faults>> /\ GateAfter(code)
      /\ realtime' = FALSE /\ sub[s].sock = "closing"
  BY DEF CloseEvent, Reported
<1>2. /\ Shape(u) /\ u.sock = "none" /\ u.life = sub[s].life /\ u.waits = sub[s].waits
      /\ u.mint = "none" /\ u.life \in {"live", "stopped"}
      /\ u.rejections \in 0..MaxRejections /\ u.rejections < MaxRejections
  BY <1>1, Known DEF Shape, Subscription
<1>3. gate' \in {"ok", "token_required", "recheck", "disabled"}
  BY <1>1, Known DEF GateAfter, SessionOK, CallOK
<1>4. ASSUME refresh' = refresh
      PROVE  /\ SessionOK' /\ (RefreshDue => RefreshDue')
             /\ \A w : AwaitsRefresh(w) /\ w.waits = u.waits /\ w.mint = "none"
                          /\ w.life = u.life => RefreshDue'
  BY <1>1, <1>2, <1>3, <1>4, Known DEF SessionOK, CallOK, RefreshDue, AwaitsRefresh
<1>5. ASSUME refresh' = refresh, Becomes(s, GiveUp(u))
      PROVE  SessionOK' /\ Evolves(s)
  BY <1>1, <1>2, <1>4, <1>5, GivesUp
<1>6. ASSUME refresh' = refresh, NEW w, Shape(w), w.life = u.life, w.sock = "none",
             w.waits = u.waits, w.mint = "none", NEW wait \in {"due", "minute"},
             Becomes(s, ScheduleReconnect(w, wait))
      PROVE  SessionOK' /\ Evolves(s)
  <2>1. AwaitsRefresh(w) => RefreshDue'
    BY <1>4, <1>6
  <2> QED BY <1>1, <1>2, <1>4, <1>6, <2>1, Schedules
<1>7. CASE code = "session_expired"
  <2>1. CASE u.retried
    <3>1. Becomes(s, GiveUp(u)) /\ refresh' = refresh
      BY <1>7, <2>1 DEF CloseEvent
    <3> QED BY <1>5, <3>1
  <2>2. CASE ~u.retried
    <3> DEFINE v == [u EXCEPT !.retried = TRUE, !.waits = @ + 1]
    <3>1. Becomes(s, v) /\ JoinRefresh
      BY <1>7, <2>2 DEF CloseEvent
    <3>2. RefreshDue' /\ CallOK'
      BY <1>1, <3>1, Known, Joined
    <3>3. SessionOK'
      BY <1>1, <1>3, <3>2, Known DEF SessionOK, CallOK
    <3>4. Shape(v) /\ v.life = u.life /\ v.sock = "none" /\ v.waits > 0
      <4> HIDE DEF u
      <4>1. u.waits + 1 \in Nat /\ u.waits + 1 > 0
        BY <1>2 DEF Shape, Subscription
      <4>2. v \in Subscription /\ v.waits > 0
        BY <1>2, <4>1 DEF Shape, Subscription
      <4> QED BY <1>2, <4>2 DEF Shape, Subscription
    <3> HIDE DEF v
    <3>5. Fine(sub[s], v)
      BY <1>2, <3>4 DEF Fine, Watched, IsOver
    <3> QED BY <1>1, <1>2, <3>1, <3>2, <3>3, <3>4, <3>5, Introduce
  <2> QED BY <2>1, <2>2
<1>8. CASE code = "ticket_rejected"
  <2> DEFINE v == [u EXCEPT !.rejections = @ + 1]
  <2>1. /\ Becomes(s, IF v.rejections >= MaxRejections THEN GiveUp(v)
                      ELSE ScheduleReconnect(v, "due"))
        /\ refresh' = refresh
    BY <1>8 DEF CloseEvent, GivesUpMinting
  <2>2. /\ v \in Subscription /\ v.life = u.life /\ v.sock = "none" /\ v.mint = "none"
        /\ v.waits = u.waits
    <3>1. u.rejections + 1 \in 0..MaxRejections
      BY <1>2, ConstantsAssumption
    <3> QED BY <1>2, <3>1 DEF Shape, Subscription
  <2> HIDE DEF v
  <2>3. CASE v.rejections >= MaxRejections
    <3> DEFINE w == GiveUp(v)
    <3>1. Becomes(s, w)
      BY <2>1, <2>3
    <3>2. w \in Subscription /\ w.life = "stopped" /\ w.sock = "none" /\ w.mint = "none"
      BY <1>2, <2>2 DEF GiveUp, Subscription
    <3> HIDE DEF w
    <3>3. Fine(sub[s], w) /\ ~AwaitsRefresh(w)
      BY <1>2, <3>2 DEF Fine, Shape, Watched, IsOver, AwaitsRefresh
    <3> QED BY <1>1, <1>2, <1>4, <2>1, <3>1, <3>3, Introduce
  <2>4. CASE ~(v.rejections >= MaxRejections)
    <3>1. Shape(v)
      BY <1>2, <2>2, <2>4, ConstantsAssumption DEF Shape, Subscription
    <3> QED BY <1>6, <2>1, <2>2, <2>4, <3>1
  <2> QED BY <2>3, <2>4
<1>9. CASE code \in {"token_required", "disabled"}
  <2>1. Becomes(s, GiveUp(u)) /\ refresh' = refresh
    BY <1>9 DEF CloseEvent
  <2> QED BY <1>5, <2>1
<1>10. CASE code \in {"rate_limited", "drop"}
  <2>1. /\ \E wait \in {"due", "minute"} : Becomes(s, ScheduleReconnect(u, wait))
        /\ refresh' = refresh
    BY <1>10 DEF CloseEvent
  <2> QED BY <1>2, <1>6, <2>1
<1> QED BY <1>7, <1>8, <1>9, <1>10 DEF Codes

-----------------------------------------------------------------------------
(* The invariant is inductive.                                             *)

\* An event of one subscription.
Event(s) ==
    \/ Subscribe(s) \/ Unsubscribe(s) \/ Step(s)
    \/ GoSilent(s) \/ FrameArrives(s) \/ ServerCloses(s) \/ Resume(s)

LEMMA EventEvolves ==
  ASSUME IInv, NEW s \in Subs, Event(s)
  PROVE  SessionOK' /\ Evolves(s)
  BY SubscribeStep, UnsubscribeStep, MintAnswerStep, MintRefreshedStep,
     OvertakenAnswerStep, OvertakenRefreshedStep, SocketOpensStep, PingTimerStep,
     CloseEventStep, CloseRefreshedStep, TimerFiresStep, GoSilentStep,
     FrameArrivesStep, ServerClosesStep, ResumeStep
  DEF Event, Step

\* What a subscription's change leaves of the invariant.
LEMMA EvolvesInv ==
  ASSUME IInv, NEW s \in Subs, Evolves(s), SessionOK'
  PROVE  IInv'
<1>1. PICK v : Changes(s, v)
  BY DEF Evolves
<1>2. /\ sub \in [Subs -> Subscription] /\ strays = 0
      /\ \A r \in Subs : Shape(sub[r]) /\ Watched(sub[r])
  BY DEF IInv, SubsOK
<1>3. /\ sub' = [sub EXCEPT ![s] = v] /\ Shape(v) /\ Watched(v) /\ v \in Subscription
      /\ realtime' \in BOOLEAN /\ strays' = 0
  BY <1>1, <1>2 DEF Changes, Fine, Shape
<1>4. sub'[s] = v /\ \A r \in Subs \ {s} : sub'[r] = sub[r]
  BY <1>2, <1>3
<1>5. SubsOK'
  <2>1. sub' \in [Subs -> Subscription]
    BY <1>2, <1>3
  <2>2. \A r \in Subs : Shape(sub'[r]) /\ Watched(sub'[r])
    BY <1>2, <1>3, <1>4
  <2>3. \A r \in Subs : Shape(sub[r])' /\ Watched(sub[r])'
    BY <2>2 DEF Shape, Watched
  <2> QED BY <1>3, <2>1, <2>3 DEF SubsOK
<1>6. Awaited'
  <2> SUFFICES ASSUME NEW r \in Subs, AwaitsRefresh(sub'[r]) PROVE RefreshDue'
    BY DEF Awaited, AwaitsRefresh
  <2>1. CASE r = s
    BY <1>1, <1>4, <2>1 DEF Changes
  <2>2. CASE r # s
    BY <1>1, <1>4, <2>2 DEF Changes, IInv, Awaited
  <2> QED BY <2>1, <2>2
<1>7. Mounts'
  <2> SUFFICES ASSUME NEW r \in Subs, NEW t \in Subs, r < t, sub'[t].life # "none"
               PROVE  sub'[r].life = "cancelled"
    BY DEF Mounts
  <2>1. r # t
    BY ConstantsAssumption
  <2>2. CASE t = s
    <3>1. sub[r].life = "cancelled"
      BY <1>1, <1>4, <2>2 DEF Changes, IInv, Mounts
    <3> QED BY <1>4, <2>1, <2>2, <3>1
  <2>3. CASE t # s
    <3>1. sub[r].life = "cancelled"
      BY <1>4, <2>3 DEF IInv, Mounts
    <3> QED BY <1>1, <1>4, <3>1 DEF Changes, Fine
  <2> QED BY <2>2, <2>3
<1>8. Connected'
  <2> SUFFICES ASSUME realtime' PROVE \E r \in Subs : HasSocket(sub'[r])
    BY DEF Connected, HasSocket
  <2>1. CASE HasSocket(v)
    BY <1>4, <2>1
  <2>2. CASE realtime /\ ~HasSocket(sub[s])
    <3>1. PICK r \in Subs : HasSocket(sub[r])
      BY <2>2 DEF IInv, Connected
    <3>2. r # s
      BY <2>2, <3>1
    <3> QED BY <1>4, <3>1, <3>2
  <2> QED BY <1>1, <2>1, <2>2 DEF Changes
<1> QED BY <1>5, <1>6, <1>7, <1>8 DEF IInv

\* An event of the session alone leaves the subscriptions as they are.
LEMMA SessionEventInv ==
  ASSUME IInv, SessionOK', UNCHANGED <<sub, realtime, strays>>, Awaited'
  PROVE  IInv'
<1>1. SubsOK' /\ Mounts' /\ Connected'
  BY DEF IInv, SubsOK, Mounts, Connected, Shape, Watched, HasSocket
<1> QED BY <1>1 DEF IInv

\* An event that leaves a refresh where there was one.
LEMMA StillAwaited ==
  ASSUME IInv, UNCHANGED sub, RefreshDue => RefreshDue'
  PROVE  Awaited'
  BY DEF IInv, Awaited, AwaitsRefresh

LEMMA RestUnauthorizedInv ==
  ASSUME IInv, RestUnauthorized
  PROVE  IInv'
<1>1. SessionOK /\ Fault /\ JoinRefresh
      /\ UNCHANGED <<gen, jwt, cookie, settled, gate, realtime, sub, strays>>
  BY DEF IInv, RestUnauthorized
<1>2. RefreshDue' /\ CallOK' /\ faults' \in 0..MaxFaults
  BY <1>1, Joined, FaultBound
<1>3. SessionOK'
  BY <1>1, <1>2 DEF SessionOK, CallOK
<1> QED BY <1>1, <1>2, <1>3, StillAwaited, SessionEventInv

LEMMA RefreshSettlesInv ==
  ASSUME IInv, RefreshSettles
  PROVE  IInv'
<1>1. /\ SessionOK /\ UNCHANGED <<gate, realtime, sub, strays>>
      /\ refresh' = NoRefresh /\ refresh # NoRefresh
  BY DEF IInv, RefreshSettles
<1>2. Spent \in Sessions /\ refresh.token \in Sessions /\ 0 \in Sessions
  BY <1>1, ConstantsAssumption DEF SessionOK, CallOK, Call, Sessions, Spent
<1>3. NoRefresh \in Call /\ \A n \in Nat \ {0} : NoRefresh.gen <= n /\ NoRefresh.gen # n
  BY <1>2 DEF NoRefresh, Call
<1>4. settled' # "no" /\ settled' \in {"no", "session", "null", "throw"}
      /\ faults' \in 0..MaxFaults /\ cookie' \in Sessions
  BY <1>1, <1>2, FaultBound DEF RefreshSettles, SessionOK
<1>5. gen' \in Nat \ {0} /\ jwt' \in Sessions
  BY <1>1, <1>2 DEF RefreshSettles, SessionOK, Logout
<1>6. CallOK'
  BY <1>1, <1>3, <1>5 DEF CallOK
<1>7. SessionOK'
  BY <1>1, <1>4, <1>5, <1>6 DEF SessionOK
<1>8. Awaited'
  BY <1>1, <1>4, StillAwaited DEF RefreshDue
<1> QED BY <1>1, <1>7, <1>8, SessionEventInv

LEMMA RefreshHandledInv ==
  ASSUME IInv, RefreshHandled
  PROVE  IInv'
<1>1. SessionOK /\ settled' = "no"
      /\ UNCHANGED <<gen, jwt, cookie, refresh, gate, realtime, sub, strays, faults>>
      /\ \A s \in Subs : sub[s].mint # "refresh" /\ sub[s].waits = 0
  BY DEF IInv, RefreshHandled
<1>2. SessionOK'
  BY <1>1 DEF SessionOK, CallOK
<1>3. Awaited'
  BY <1>1 DEF Awaited, AwaitsRefresh
<1> QED BY <1>1, <1>2, <1>3, SessionEventInv

LEMMA OtherSessionInv ==
  ASSUME IInv, SignOut \/ SignIn \/ Recheck \/ EnableMessages
  PROVE  IInv'
<1>1. SessionOK /\ UNCHANGED <<refresh, settled, realtime, sub, strays>>
  BY DEF IInv, SignOut, SignIn, Recheck, EnableMessages, authVars
<1>2. SessionOK'
  <2>1. CASE SignOut
    BY <1>1, <2>1, FaultBound, ConstantsAssumption
    DEF SignOut, Logout, SessionOK, CallOK, Call, Sessions
  <2>2. CASE SignIn
    BY <1>1, <2>2, ConstantsAssumption DEF SignIn, SessionOK, CallOK, Call, Sessions
  <2>3. CASE Recheck
    BY <1>1, <2>3 DEF Recheck, SessionOK, CallOK, authVars
  <2>4. CASE EnableMessages
    BY <1>1, <2>4, FaultBound DEF EnableMessages, SessionOK, CallOK, authVars
  <2> QED BY <2>1, <2>2, <2>3, <2>4
<1>3. Awaited'
  BY <1>1, StillAwaited DEF RefreshDue
<1> QED BY <1>1, <1>2, <1>3, SessionEventInv

\* The end of a rate limit only lets timers run out.
LEMMA MinuteKeeps ==
  ASSUME IInv, MinutePasses, NEW s \in Subs
  PROVE  /\ Shape(sub'[s]) /\ sub'[s].life = sub[s].life /\ sub'[s].sock = sub[s].sock
         /\ sub'[s].mint = sub[s].mint /\ sub'[s].waits = sub[s].waits
         /\ (sub[s].timer # "off" => sub'[s].timer # "off")
<1>1. Shape(sub[s])
  BY Known
<1>2. sub'[s] = [sub[s] EXCEPT !.limited = FALSE,
                    !.timer = IF @ = "minute" THEN "due" ELSE @]
  BY DEF MinutePasses
<1> QED BY <1>1, <1>2 DEF Shape, Subscription

LEMMA MinutePassesInv ==
  ASSUME IInv, MinutePasses
  PROVE  IInv'
<1>1. UNCHANGED <<gen, jwt, cookie, refresh, settled, gate, realtime, strays, faults>>
  BY DEF MinutePasses, authVars
<1>2. SessionOK' /\ RefreshDue' = RefreshDue
  BY <1>1 DEF IInv, SessionOK, CallOK, RefreshDue
<1>3. SubsOK'
  <2>1. \A s \in Subs : Shape(sub'[s]) /\ Watched(sub'[s])
    <3> TAKE s \in Subs
    <3> QED BY MinuteKeeps, Known DEF Watched
  <2>2. sub' \in [Subs -> Subscription]
    <3>1. \A s \in Subs : sub'[s] \in Subscription
      BY <2>1 DEF Shape
    <3>2. sub' = [s \in Subs |-> sub'[s]]
      BY DEF MinutePasses
    <3> QED BY <3>1, <3>2
  <2> QED BY <1>1, <2>1, <2>2 DEF SubsOK, IInv, Shape, Watched
<1>4. Awaited'
  BY <1>2, MinuteKeeps DEF IInv, Awaited, AwaitsRefresh
<1>5. Mounts' /\ Connected'
  BY <1>1, MinuteKeeps DEF IInv, Mounts, Connected, HasSocket
<1> QED BY <1>2, <1>3, <1>4, <1>5 DEF IInv

LEMMA InitInv == Init => IInv
<1> SUFFICES ASSUME Init PROVE IInv
  OBVIOUS
<1>1. SessionOK
  BY ConstantsAssumption DEF Init, SessionOK, CallOK, Call, NoRefresh, Sessions
<1>2. ASSUME NEW s \in Subs
      PROVE  /\ Shape(sub[s]) /\ sub[s].life = "none"
  BY ConstantsAssumption DEF Init, Shape, Subscription, MintSteps
<1>3. sub \in [Subs -> Subscription]
  BY <1>2 DEF Init, Shape
<1>4. SubsOK
  BY <1>2, <1>3 DEF Init, SubsOK, Watched
<1> QED BY <1>1, <1>2, <1>4 DEF Init, IInv, Awaited, AwaitsRefresh, Mounts, Connected

LEMMA NextInv == IInv /\ [Next]_vars => IInv'
<1> SUFFICES ASSUME IInv, [Next]_vars PROVE IInv'
  OBVIOUS
<1>1. CASE UNCHANGED vars
  <2>1. SessionOK' /\ RefreshDue' = RefreshDue /\ UNCHANGED <<sub, realtime, strays>>
    BY <1>1 DEF vars, authVars, IInv, SessionOK, CallOK, RefreshDue
  <2> QED BY <2>1, StillAwaited, SessionEventInv
<1>2. CASE \E s \in Subs : Event(s)
  BY <1>2, EventEvolves, EvolvesInv
<1> QED BY <1>1, <1>2, RestUnauthorizedInv, RefreshSettlesInv, RefreshHandledInv,
           OtherSessionInv, MinutePassesInv DEF Next, Event

\* Every reachable state satisfies the invariant.
THEOREM Inductive == Spec => []IInv
  BY InitInv, NextInv, PTL DEF Spec

-----------------------------------------------------------------------------
(* What the invariant says.                                                *)

\* The variables keep their types whatever callbacks, refreshes and closes do.
THEOREM TypeCorrect == Spec => []TypeOK
<1>1. IInv => TypeOK
  BY ConstantsAssumption DEF IInv, SessionOK, CallOK, SubsOK, TypeOK
<1> QED BY <1>1, Inductive, PTL

\* While a session lasts the page keeps its account: the server compares the
\* account of a refresh's token with that of its JWT, a refresh of this session
\* was sent with the JWT in memory, and one of an earlier session is dropped.
THEOREM AccountKept == Spec => AccountStays
<1> DEFINE Stays == jwt # 0 /\ jwt' # 0 /\ Fid[jwt'] # Fid[jwt] => gen' # gen
<1>1. IInv /\ [Next]_vars => Stays
  <2> SUFFICES ASSUME IInv, [Next]_vars, jwt # 0, jwt' # 0, jwt' # jwt, gen' = gen
               PROVE  Fid[jwt'] = Fid[jwt]
    OBVIOUS
  <2>1. RefreshSettles
    <3>1. jwt' = jwt \/ SignOut \/ SignIn \/ RefreshSettles
      BY DEF Next, vars, authVars, RestUnauthorized, RefreshHandled, Recheck, EnableMessages,
             MinutePasses, Subscribe, Unsubscribe, Step, MintAnswer, MintRefreshed,
             OvertakenAnswer, OvertakenRefreshed, SocketOpens, PingTimer, CloseEvent,
             CloseRefreshed, TimerFires, GoSilent, FrameArrives, ServerCloses, Resume
    <3>2. ~SignOut /\ ~SignIn
      BY DEF SignOut, SignIn, Logout, IInv, SessionOK
    <3> QED BY <3>1, <3>2
  <2>2. Accepted(refresh) /\ gen = refresh.gen /\ jwt' = refresh.token
    BY <2>1 DEF RefreshSettles, RefreshApplies, Logout
  <2>3. refresh.bearer = jwt
    BY <2>2 DEF IInv, SessionOK, CallOK
  <2> QED BY <2>2, <2>3 DEF Accepted
<1>2. [Next]_vars /\ IInv => [Stays]_vars
  BY <1>1
<1> HIDE DEF Stays
<1>3. Spec => [][Stays]_vars
  BY <1>2, Inductive, PTL DEF Spec
<1> QED BY <1>3 DEF AccountStays, Stays

\* Every live subscription has something that brings it back, and a refresh
\* it waits for has not been dropped (messagesEvents.ts).
THEOREM NobodyStranded == Spec => []NeverStranded
<1>1. ASSUME IInv, NEW s \in Subs, sub[s].life = "live"
      PROVE  /\ \/ sub[s].sock # "none" \/ sub[s].timer # "off"
                \/ sub[s].mint # "none" \/ sub[s].waits > 0
             /\ sub[s].sock \in {"open", "silent"} => sub[s].ping
             /\ sub[s].mint = "refresh" \/ sub[s].waits > 0 => refresh # NoRefresh \/ settled # "no"
  BY <1>1, Known DEF Shape, Watched, AwaitsRefresh, RefreshDue
<1>2. IInv => NeverStranded
  BY <1>1 DEF NeverStranded
<1> QED BY <1>2, Inductive, PTL

\* Polling is only slowed down while a socket of the page is open or closing
\* (realtimeConnected, set by onOpen and cleared by every end of a socket).
THEOREM RealtimeHasSocket == Spec => []RealtimeIsOpen
<1>1. IInv => RealtimeIsOpen
  BY DEF IInv, Connected, HasSocket, RealtimeIsOpen
<1> QED BY <1>1, Inductive, PTL

\* However many mounts follow each other, and whichever tickets come late, at
\* most one websocket of the page is in use and none was left behind.
THEOREM OnlyOneSocket == Spec => []OneSocket
<1>1. ASSUME IInv PROVE OneSocket
  <2> DEFINE S == {s \in Subs : sub[s].sock # "none"}
  <2>1. strays = 0
        /\ \A s \in Subs : sub[s].life \in {"none", "cancelled"} => sub[s].sock = "none"
    BY <1>1 DEF IInv, SubsOK, Shape
  <2>2. ASSUME NEW r \in S, NEW s \in S PROVE r = s
    <3>1. /\ r \in Nat /\ s \in Nat
          /\ sub[r].life \notin {"none", "cancelled"}
          /\ sub[s].life \notin {"none", "cancelled"}
      BY <2>1, ConstantsAssumption
    <3>2. ~(r < s) /\ ~(s < r)
      BY <1>1, <3>1 DEF IInv, Mounts
    <3> QED BY <3>1, <3>2
  <2>3. Cardinality(S) <= 1
    <3>1. CASE S = {}
      BY <3>1, FS_EmptySet
    <3>2. CASE S # {}
      <4>1. PICK s : s \in S
        BY <3>2
      <4>2. S = {s}
        BY <2>2, <4>1
      <4> HIDE DEF S
      <4>3. Cardinality(S) = 1
        BY <4>2, FS_Singleton, Zenon
      <4> QED BY <4>3
    <3> QED BY <3>1, <3>2
  <2> QED BY <2>1, <2>3 DEF OneSocket
<1> QED BY <1>1, Inductive, PTL

-----------------------------------------------------------------------------
(* The subscriptions implement the abstract link.                          *)

\* A change of one subscription is a step of its link or none.
LEMMA EvolvesLink ==
  ASSUME IInv, NEW s \in Subs, Evolves(s)
  PROVE  [Link!Next]_([r \in Subs |-> LinkOf(sub[r])])
<1> DEFINE L == [r \in Subs |-> LinkOf(sub[r])]
           M == [r \in Subs |-> LinkOf(sub'[r])]
<1>1. PICK v : Changes(s, v)
  BY DEF Evolves
<1>2. sub \in [Subs -> Subscription] /\ sub' = [sub EXCEPT ![s] = v]
  BY <1>1 DEF IInv, SubsOK, Changes
<1>3. M = [L EXCEPT ![s] = LinkOf(v)]
  BY <1>2
<1>4. L' = M
  BY DEF LinkOf
<1>5. /\ L[s] = LinkOf(sub[s]) /\ L[s] \in {"over", "up", "down"}
      /\ LinkOf(v) \in {"over", "up", "down"} /\ (L[s] = "over" => LinkOf(v) = "over")
  BY <1>1 DEF Changes, Fine, IsOver, LinkOf
<1> HIDE DEF L, M
<1>6. CASE LinkOf(v) = L[s]
  BY <1>3, <1>4, <1>6 DEF L
<1>7. CASE LinkOf(v) # L[s]
  <2>1. \/ L[s] = "down" /\ LinkOf(v) = "up"
        \/ L[s] = "up" /\ LinkOf(v) = "down"
        \/ L[s] # "over" /\ LinkOf(v) = "over"
    BY <1>5, <1>7
  <2>2. \/ L[s] = "down" /\ L' = [L EXCEPT ![s] = "up"]
        \/ L[s] = "up" /\ L' = [L EXCEPT ![s] = "down"]
        \/ L[s] # "over" /\ L' = [L EXCEPT ![s] = "over"]
    BY <1>3, <1>4, <2>1
  <2> QED BY <2>2 DEF Link!Next, Link!Up, Link!Down, Link!Over, L
<1> QED BY <1>6, <1>7

\* A link that is over stays over, for every number of mounts: neither a
\* timer, a late ticket nor a late refresh revives a subscription that was
\* cancelled or gave up.
THEOREM LinkImplemented == Spec => ImplementsLink
<1>1. Init => Link!Init
  BY DEF Init, Link!Init, LinkOf
<1>2. IInv /\ [Next]_vars => [Link!Next]_([s \in Subs |-> LinkOf(sub[s])])
  <2> SUFFICES ASSUME IInv, [Next]_vars
               PROVE  [Link!Next]_([s \in Subs |-> LinkOf(sub[s])])
    OBVIOUS
  <2>1. CASE \E s \in Subs : Event(s)
    BY <2>1, EventEvolves, EvolvesLink
  <2>2. CASE UNCHANGED sub
    BY <2>2 DEF LinkOf
  <2>3. CASE MinutePasses
    <3>1. \A s \in Subs : sub'[s].life = sub[s].life /\ sub'[s].sock = sub[s].sock
      BY <2>3, MinuteKeeps
    <3> QED BY <3>1 DEF LinkOf
  <2>4. UNCHANGED sub \/ MinutePasses \/ \E s \in Subs : Event(s)
    BY DEF Next, Event, vars, authVars, RestUnauthorized, SignOut, SignIn,
                RefreshSettles, RefreshHandled, Recheck, EnableMessages
  <2> QED BY <2>1, <2>2, <2>3, <2>4
<1> QED BY <1>1, <1>2, Inductive, PTL DEF Spec, ImplementsLink, Link!Spec

=============================================================================
