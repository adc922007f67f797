--------------------------- MODULE MessagesSocket ---------------------------
(***************************************************************************)
(* The web client's messaging socket and the session it depends on:        *)
(*   landing/lib/api/messagesEvents.ts      subscribeToMessageEvents       *)
(*   landing/lib/auth/authRefresh.ts        refreshSession (single flight) *)
(*   landing/lib/stores/authStore.ts        sessionGen, login, logout      *)
(*   backend/app/routers/auth.py            refresh, logout                *)
(*   landing/components/messages/useMessagingSync.ts  useMessagesRealtime  *)
(*                                                                         *)
(* A subscription mints a single-use ticket, opens a websocket with it,    *)
(* and reconnects after every close that is not final.  Its callbacks run  *)
(* one at a time, but the awaits in between (mint, session refresh,        *)
(* reconnect timer, socket events, the page becoming visible) come back in *)
(* any order.  A session refresh resumes everyone who waits for it before  *)
(* any other event is handled: while `settled` is set only they may run.   *)
(*                                                                         *)
(* connectGeneration is modelled by what it decides: mint[s] is the ticket *)
(* request of the newest connect and overtaken[s] those of earlier ones.   *)
(* Backoff delays are left out; the minute after a rate limit is kept.     *)
(*                                                                         *)
(* A session is named by the sessionGen of its sign-in.  `cookie` is the   *)
(* session whose refresh token the browser holds, if the server still      *)
(* honours it: signing out revokes it if the server can be reached, and a  *)
(* late answer to a refresh stores a new one whoever is signed in by then. *)
(***************************************************************************)
EXTENDS Naturals, FiniteSets

CONSTANTS Subs,            \* successive mounts of the Messages surface, 1..n
          MaxRejections,   \* MAX_TICKET_REJECTIONS
          MaxGen,          \* bound on sessionGen for sign-ins and sign-outs
          Fid,             \* Fid[g]: the account that signs in at sessionGen g
          MaxFaults        \* bound on failures, closes and resumes

ASSUME ConstantsAssumption ==
    /\ Subs \subseteq Nat \ {0}
    /\ MaxRejections \in Nat \ {0}
    /\ MaxGen \in Nat \ {0}
    /\ Fid \in [1..MaxGen -> Nat]
    /\ MaxFaults \in Nat

VARIABLES
    gen,       \* authStore.sessionGen
    jwt,       \* the session whose JWT is in memory, 0 for none
    cookie,    \* the session of the browser's refresh token, 0 for none
    refresh,   \* inFlight: its sessionGen, the JWT and the cookie it was sent with
    settled,   \* what the refresh that just settled gave its waiters
    gate,      \* messageStore.availability, as far as it gates the surface
    realtime,  \* messageStore.realtimeConnected
    sub,       \* the variables of each subscription's closure
    strays,    \* websockets neither closed nor current any more
    faults

authVars == <<gen, jwt, cookie, refresh, settled>>
vars == <<authVars, gate, realtime, sub, strays, faults>>

MintSteps == {"first", "refresh", "second"}

Subscription ==
    [life : {"none", "live", "stopped", "cancelled"},
     sock : {"none", "connecting", "open", "silent", "closing"},  \* websocket
     ping : BOOLEAN,                             \* pingTimer
     timer : {"off", "due", "minute"},           \* reconnectTimer and its wait
     limited : BOOLEAN,                          \* Date.now() < rateLimitedUntil
     mint : MintSteps \cup {"none"},             \* the newest ticket request
     overtaken : SUBSET MintSteps,               \* those of earlier connects
     waits : Nat,                                \* close handlers in a refresh
     retried : BOOLEAN,                          \* hasRetriedAuth
     rejections : 0..MaxRejections]              \* ticketRejections

Sessions == 0..MaxGen
Call == [gen : Nat, bearer : Sessions, token : Sessions]
NoRefresh == [gen |-> 0, bearer |-> 0, token |-> 0]

\* The types of the variables; a session refresh in flight has a generation.
TypeOK ==
    /\ gen \in Nat \ {0} /\ jwt \in Sessions /\ cookie \in Sessions
    /\ refresh \in Call
    /\ settled \in {"no", "session", "null", "throw"}
    /\ gate \in {"ok", "token_required", "recheck", "disabled"}
    /\ realtime \in BOOLEAN
    /\ sub \in [Subs -> Subscription]
    /\ strays \in Nat
    /\ faults \in 0..MaxFaults

Init ==
    /\ gen = 1 /\ jwt = 1 /\ cookie = 1 /\ refresh = NoRefresh /\ settled = "no"
    /\ gate = "ok" /\ realtime = FALSE
    /\ sub = [s \in Subs |->
                [life |-> "none", sock |-> "none", ping |-> FALSE,
                 timer |-> "off", limited |-> FALSE, mint |-> "none",
                 overtaken |-> {}, waits |-> 0, retried |-> FALSE,
                 rejections |-> 0]]
    /\ strays = 0 /\ faults = 0

\* A failure, a close or a resume: there are finitely many of them.
Fault == faults < MaxFaults /\ faults' = faults + 1

\* No waiter of a settled refresh is left to run.
Quiet == settled = "no"

-----------------------------------------------------------------------------
(* The functions of the closure, as maps from its variables to the next.   *)

\* Mutant: only unsubscribing ends a subscription.
BugRunning(u) == u.life \in {"live", "stopped"}
\* Neither cancelled nor stopped.
Running(u) == u.life = "live"

\* giveUp: realtime is over and no timer is left.
GiveUp(u) ==
    [u EXCEPT !.life = IF @ = "live" THEN "stopped" ELSE @,
              !.timer = "off", !.ping = FALSE]

\* scheduleReconnect: a pending timer is kept as it is.
ScheduleReconnect(u, wait) ==
    IF ~Running(u) \/ u.timer # "off" THEN u
    ELSE [u EXCEPT !.timer = wait, !.limited = @ \/ wait = "minute"]

\* detachSocket: the current socket is closed and forgotten.
DetachSocket(u) ==
    IF u.sock = "none" THEN u ELSE [u EXCEPT !.sock = "none", !.ping = FALSE]

\* connect, up to its first await; without a JWT the mint gives up at once.
Connect(u) ==
    LET d == DetachSocket(u) IN
    IF ~Running(u) THEN u
    ELSE IF jwt = 0 THEN GiveUp([d EXCEPT !.overtaken = @ \cup ({d.mint} \ {"none"}),
                                          !.mint = "none"])
    ELSE [d EXCEPT !.overtaken = @ \cup ({d.mint} \ {"none"}), !.mint = "first"]

\* Mutant: detachSocket reports no close, its onclose is ignored as superseded.
BugConnectReports(u) == Running(u) /\ jwt = 0
\* Whether connect reports a close (onClose) or the end (onUnavailable).
ConnectReports(u) == Running(u) /\ (u.sock # "none" \/ jwt = 0)

Becomes(s, u) == sub' = [sub EXCEPT ![s] = u]
Reported(told) == realtime' = (realtime /\ ~told)

-----------------------------------------------------------------------------
(* The session.                                                            *)

\* refreshSession: callers share the refresh in flight.
JoinRefresh ==
    refresh' = IF refresh = NoRefresh
               THEN [gen |-> gen, bearer |-> jwt, token |-> cookie] ELSE refresh

\* Another request of the page is answered 401 and refreshes the session,
\* whether or not somebody is signed in.
RestUnauthorized ==
    /\ Quiet /\ Fault /\ JoinRefresh
    /\ UNCHANGED <<gen, jwt, cookie, settled, gate, realtime, sub, strays>>

\* authStore.logout
Logout == jwt' = 0 /\ gen' = gen + 1

\* signOut: the server revokes the token and clears the cookie, if it is reached.
SignOut ==
    /\ Quiet /\ jwt # 0 /\ gen < MaxGen
    /\ Logout
    /\ \/ cookie' = 0 /\ UNCHANGED faults
       \/ Fault /\ UNCHANGED cookie
    /\ UNCHANGED <<refresh, settled, gate, realtime, sub, strays>>

\* authStore.setAuth: the sign-in page is shown instead of the messages.
SignIn ==
    /\ Quiet /\ gen < MaxGen
    /\ \A s \in Subs : sub[s].life \in {"none", "cancelled"}
    /\ gen' = gen + 1 /\ jwt' = gen + 1 /\ cookie' = gen + 1
    /\ UNCHANGED <<refresh, settled, gate, realtime, sub, strays, faults>>

\* Mutant: the account of the JWT is not compared with that of the token.
BugAccepted(c) == c.token # 0
\* The server's check of a refresh: a token, of the account of the JWT if any.
Accepted(c) ==
    /\ c.token # 0
    /\ c.bearer # 0 => Fid[c.bearer] = Fid[c.token]

\* The token of the refresh in flight is consumed, and no other replaces it.
Spent == IF cookie = refresh.token THEN 0 ELSE cookie

RefreshApplies == gen = refresh.gen

\* runRefresh after its fetch: the session is gone, the answer is an error or is
\* lost, before or after the token was consumed, or there is a new JWT and a new
\* cookie.  The JWT is dropped when the session changed meanwhile; the cookie
\* is not.
RefreshSettles ==
    /\ refresh # NoRefresh /\ Quiet
    /\ refresh' = NoRefresh
    /\ \/ /\ settled' = "null" /\ cookie' = Spent /\ UNCHANGED faults
          /\ IF RefreshApplies THEN Logout ELSE UNCHANGED <<gen, jwt>>
       \/ /\ settled' = "throw" /\ Fault /\ cookie' \in {cookie, Spent}
          /\ UNCHANGED <<gen, jwt>>
       \/ /\ Accepted(refresh)
          /\ cookie' = refresh.token
          /\ IF RefreshApplies
             THEN jwt' = refresh.token /\ settled' = "session"
             ELSE settled' = "null" /\ UNCHANGED jwt
          /\ UNCHANGED <<gen, faults>>
    /\ UNCHANGED <<gate, realtime, sub, strays>>

\* Everyone who waited has run.
RefreshHandled ==
    /\ settled # "no"
    /\ \A s \in Subs : /\ sub[s].mint # "refresh" /\ "refresh" \notin sub[s].overtaken
                       /\ sub[s].waits = 0
    /\ settled' = "no"
    /\ UNCHANGED <<gen, jwt, cookie, refresh, gate, realtime, sub, strays, faults>>

-----------------------------------------------------------------------------
(* The subscription: mounting, minting a ticket, the socket's events.      *)

\* useMessagesRealtime's effect: one subscription at a time.
Subscribe(s) ==
    /\ Quiet /\ jwt # 0 /\ gate \in {"ok", "recheck"}
    /\ sub[s].life = "none"
    /\ \A r \in Subs : r < s => sub[r].life = "cancelled"
    /\ Becomes(s, Connect([sub[s] EXCEPT !.life = "live"]))
    /\ UNCHANGED <<authVars, gate, realtime, strays, faults>>

\* The effect's cleanup: unsubscribe, then setRealtimeConnected(false).
Unsubscribe(s) ==
    LET u == sub[s] IN
    /\ Quiet /\ u.life \in {"live", "stopped"}
    /\ Becomes(s, [u EXCEPT !.life = "cancelled", !.sock = "none", !.ping = FALSE,
                            !.timer = "off", !.mint = "none",
                            !.overtaken = @ \cup ({u.mint} \ {"none"})])
    /\ realtime' = FALSE
    /\ UNCHANGED <<authVars, gate, strays, faults>>

\* onUnavailable("disabled") asks GET /status; "token_required" shows the gate.
GateAfter(reason) ==
    CASE reason = "token_required" -> gate' = "token_required"
      [] reason = "disabled" -> gate' = IF gate = "ok" THEN "recheck" ELSE gate
      [] OTHER -> UNCHANGED gate

\* recheckMessagingEnabled
Recheck ==
    /\ Quiet /\ gate = "recheck"
    /\ gate' \in {"ok", "disabled"}
    /\ UNCHANGED <<authVars, realtime, sub, strays, faults>>

\* The user stores a new Direct Cast token.
EnableMessages ==
    /\ Quiet /\ gate = "token_required" /\ Fault
    /\ gate' = "ok"
    /\ UNCHANGED <<authVars, realtime, sub, strays>>

\* The ticket arrived: a websocket is made and becomes the current one.
OpenSocket(u) == [u EXCEPT !.mint = "none", !.sock = "connecting"]

\* requestTicket answers, for the newest connect; one that was stopped
\* meanwhile looks no further.
MintAnswer(s) ==
    LET u == sub[s]
        done == [u EXCEPT !.mint = "none"] IN
    /\ Quiet /\ u.mint \in {"first", "second"}
    /\ \/ \* a ticket
          /\ Becomes(s, IF Running(u) THEN OpenSocket(u) ELSE done)
          /\ strays' = IF Running(u) /\ u.sock # "none" THEN strays + 1 ELSE strays
          /\ UNCHANGED <<refresh, gate, realtime, faults>>
       \/ \* 401: refresh once, then give up
          /\ Fault
          /\ IF u.mint = "first"
             THEN Becomes(s, [u EXCEPT !.mint = "refresh"]) /\ JoinRefresh /\ UNCHANGED realtime
             ELSE /\ Becomes(s, IF Running(u) THEN GiveUp(done) ELSE done)
                  /\ Reported(Running(u)) /\ UNCHANGED refresh
          /\ UNCHANGED <<gate, strays>>
       \/ \* messaging is disabled
          /\ Running(u) /\ Fault
          /\ Becomes(s, GiveUp(done)) /\ Reported(TRUE) /\ GateAfter("disabled")
          /\ UNCHANGED <<refresh, strays>>
       \/ \* 429 or another failure: retry later
          /\ Fault
          /\ \E wait \in {"due", "minute"} :
               Becomes(s, ScheduleReconnect(done, wait))
          /\ UNCHANGED <<refresh, gate, realtime, strays>>
    /\ UNCHANGED <<gen, jwt, cookie, settled>>

\* The mint of the newest connect continues after its refresh.
MintRefreshed(s) ==
    LET u == sub[s]
        done == [u EXCEPT !.mint = "none"] IN
    /\ ~Quiet /\ u.mint = "refresh"
    /\ CASE settled = "session" ->
              Becomes(s, [u EXCEPT !.mint = "second"]) /\ UNCHANGED realtime
         [] settled = "null" ->
              /\ Becomes(s, IF Running(u) THEN GiveUp(done) ELSE done)
              /\ Reported(Running(u))
         [] settled = "throw" ->
              Becomes(s, ScheduleReconnect(done, "due")) /\ UNCHANGED realtime
    /\ UNCHANGED <<authVars, gate, strays, faults>>

\* Mutant: the generation is not compared, so an old ticket makes a socket.
BugLateTicket(u, m) ==
    IF Running(u) THEN [u EXCEPT !.overtaken = @ \ {m}, !.sock = "connecting"]
    ELSE [u EXCEPT !.overtaken = @ \ {m}]
\* A ticket for an earlier connect is discarded.
LateTicket(u, m) == [u EXCEPT !.overtaken = @ \ {m}]

\* requestTicket answers, for an overtaken connect.
OvertakenAnswer(s) ==
    LET u == sub[s] IN
    /\ Quiet
    /\ \E m \in u.overtaken \ {"refresh"} :
         \/ /\ Becomes(s, LateTicket(u, m))
            /\ strays' = IF LateTicket(u, m).sock # u.sock /\ u.sock # "none"
                         THEN strays + 1 ELSE strays
            /\ UNCHANGED <<refresh, faults>>
         \/ /\ m = "first" /\ Fault
            /\ Becomes(s, [u EXCEPT !.overtaken = (@ \ {m}) \cup {"refresh"}])
            /\ JoinRefresh /\ UNCHANGED strays
    /\ UNCHANGED <<gen, jwt, cookie, settled, gate, realtime>>

OvertakenRefreshed(s) ==
    /\ ~Quiet /\ "refresh" \in sub[s].overtaken
    /\ Becomes(s, [sub[s] EXCEPT
            !.overtaken = (@ \ {"refresh"}) \cup
                          (IF settled = "session" THEN {"second"} ELSE {})])
    /\ UNCHANGED <<authVars, gate, realtime, strays, faults>>

\* onopen
SocketOpens(s) ==
    /\ Quiet /\ sub[s].sock = "connecting"
    /\ Becomes(s, [sub[s] EXCEPT !.sock = "open", !.ping = TRUE, !.retried = FALSE,
                                 !.rejections = 0])
    /\ realtime' = TRUE
    /\ UNCHANGED <<authVars, gate, strays, faults>>

\* The connection stops delivering frames without closing, for STALE_SOCKET_MS.
GoSilent(s) ==
    /\ Quiet /\ sub[s].sock = "open" /\ Fault
    /\ Becomes(s, [sub[s] EXCEPT !.sock = "silent"])
    /\ UNCHANGED <<authVars, gate, realtime, strays>>

\* onmessage after a silence; the frame itself goes to the thread.
FrameArrives(s) ==
    /\ Quiet /\ sub[s].sock = "silent"
    /\ Becomes(s, [sub[s] EXCEPT !.sock = "open"])
    /\ UNCHANGED <<authVars, gate, realtime, strays, faults>>

\* The ping timer finds the socket silent: retireStaleSocket.
PingTimer(s) ==
    /\ Quiet /\ sub[s].ping /\ sub[s].sock = "silent"
    /\ Becomes(s, ScheduleReconnect(DetachSocket(sub[s]), "due"))
    /\ Reported(TRUE)
    /\ UNCHANGED <<authVars, gate, strays, faults>>

\* The server closes, or the network does: CLOSING, its event is to come.
ServerCloses(s) ==
    /\ Quiet /\ sub[s].sock \in {"connecting", "open", "silent"} /\ Fault
    /\ Becomes(s, [sub[s] EXCEPT !.sock = "closing"])
    /\ UNCHANGED <<authVars, gate, realtime, strays>>

Codes == {"session_expired", "ticket_rejected", "token_required", "disabled",
          "rate_limited", "drop"}

\* Mutant: one rejection too many is let through.
BugGivesUpMinting(n) == n > MaxRejections
\* ticketRejections >= MAX_TICKET_REJECTIONS
GivesUpMinting(n) == n >= MaxRejections

\* closeAction and the rest of onclose, on the current socket.
CloseEvent(s, code) ==
    LET u == [sub[s] EXCEPT !.sock = "none", !.ping = FALSE] IN
    /\ Quiet /\ sub[s].sock = "closing"
    /\ Reported(TRUE)
    /\ CASE code = "session_expired" ->
              IF u.retried
              THEN Becomes(s, GiveUp(u)) /\ UNCHANGED refresh
              ELSE Becomes(s, [u EXCEPT !.retried = TRUE, !.waits = @ + 1]) /\ JoinRefresh
         [] code = "ticket_rejected" ->
              LET v == [u EXCEPT !.rejections = @ + 1] IN
              /\ Becomes(s, IF GivesUpMinting(v.rejections) THEN GiveUp(v)
                            ELSE ScheduleReconnect(v, "due"))
              /\ UNCHANGED refresh
         [] code \in {"token_required", "disabled"} -> Becomes(s, GiveUp(u)) /\ UNCHANGED refresh
         [] code = "rate_limited" ->
              Becomes(s, ScheduleReconnect(u, "minute")) /\ UNCHANGED refresh
         [] code = "drop" -> Becomes(s, ScheduleReconnect(u, "due")) /\ UNCHANGED refresh
    /\ GateAfter(code)
    /\ UNCHANGED <<gen, jwt, cookie, settled, strays, faults>>

\* Mutant: a refresh that failed for a while is not retried.
BugAfterRefresh(u) == IF settled = "session" THEN Connect(u) ELSE u
\* What the close handler does with the refreshed session.
AfterRefresh(u) ==
    CASE settled = "session" -> Connect(u)
      [] settled = "null" -> GiveUp(u)
      [] settled = "throw" -> ScheduleReconnect(u, "due")

\* The close handler continues after its refresh.
CloseRefreshed(s) ==
    LET u == [sub[s] EXCEPT !.waits = @ - 1] IN
    /\ ~Quiet /\ sub[s].waits > 0
    /\ Becomes(s, AfterRefresh(u))
    /\ Reported(settled = "null" \/ (settled = "session" /\ ConnectReports(u)))
    /\ UNCHANGED <<authVars, gate, strays, faults>>

\* The reconnect timer.
TimerFires(s) ==
    LET u == [sub[s] EXCEPT !.timer = "off"] IN
    /\ Quiet /\ sub[s].timer = "due"
    /\ Becomes(s, Connect(u))
    /\ Reported(ConnectReports(u))
    /\ UNCHANGED <<authVars, gate, strays, faults>>

\* The page becomes visible or the network returns: resume.
Resume(s) ==
    LET u == sub[s] IN
    /\ Quiet /\ Fault
    /\ Running(u) /\ u.mint = "none" /\ ~u.limited /\ u.sock # "open"
    /\ Becomes(s, Connect([u EXCEPT !.timer = "off"]))
    /\ Reported(ConnectReports(u))
    /\ UNCHANGED <<authVars, gate, strays>>

\* RATE_LIMITED_RECONNECT_MS pass.
MinutePasses ==
    /\ Quiet
    /\ \E s \in Subs : sub[s].limited
    /\ sub' = [s \in Subs |-> [sub[s] EXCEPT !.limited = FALSE,
                    !.timer = IF @ = "minute" THEN "due" ELSE @]]
    /\ UNCHANGED <<authVars, gate, realtime, strays, faults>>

Step(s) ==
    \/ MintAnswer(s) \/ MintRefreshed(s)
    \/ OvertakenAnswer(s) \/ OvertakenRefreshed(s)
    \/ SocketOpens(s) \/ PingTimer(s)
    \/ \E code \in Codes : CloseEvent(s, code)
    \/ CloseRefreshed(s) \/ TimerFires(s)

Next ==
    \/ RestUnauthorized \/ SignOut \/ SignIn \/ RefreshSettles \/ RefreshHandled
    \/ Recheck \/ EnableMessages \/ MinutePasses
    \/ \E s \in Subs : \/ Subscribe(s) \/ Unsubscribe(s) \/ Step(s)
                       \/ GoSilent(s) \/ FrameArrives(s) \/ ServerCloses(s) \/ Resume(s)

Spec == Init /\ [][Next]_vars

\* Requests are answered or fail, timers fire, and a connecting socket opens
\* or closes; only failures are not owed.
FairSpec ==
    /\ Spec
    /\ WF_vars(RefreshSettles) /\ WF_vars(RefreshHandled) /\ WF_vars(MinutePasses)
    /\ \A s \in Subs : WF_vars(Step(s))

-----------------------------------------------------------------------------
(* Properties.                                                             *)

\* At most one websocket of the page is open or opening, and none of a
\* subscription that was cancelled (connectGeneration, detachSocket).
OneSocket ==
    /\ strays = 0
    /\ \A s \in Subs : sub[s].life \in {"none", "cancelled"} => sub[s].sock = "none"
    /\ Cardinality({s \in Subs : sub[s].sock # "none"}) <= 1

\* realtimeConnected, which slows polling down, is only set while the socket
\* of the mounted subscription is open or its close event is on the way.
RealtimeIsOpen ==
    realtime => \E s \in Subs : sub[s].sock \in {"open", "silent", "closing"}

\* A subscription that neither gave up nor was cancelled always has something
\* that brings it back: a socket (watched by the ping timer once open), a
\* reconnect timer, a ticket on the way or a refresh to wait for.
NeverStranded ==
    \A s \in Subs : sub[s].life = "live" =>
        /\ \/ sub[s].sock # "none" \/ sub[s].timer # "off"
           \/ sub[s].mint # "none" \/ sub[s].waits > 0
        /\ sub[s].sock \in {"open", "silent"} => sub[s].ping
        /\ sub[s].mint = "refresh" \/ sub[s].waits > 0 => refresh # NoRefresh \/ settled # "no"

\* The page passes from one account's JWT to another's by a sign-in only: a
\* refresh gives back the account it found, although its answer may come after
\* a sign-out and a sign-in, and the browser may hold the token of an account
\* that signed out before.
AccountStays ==
    [][jwt # 0 /\ jwt' # 0 /\ Fid[jwt'] # Fid[jwt] => gen' # gen]_vars

\* The link as the abstract specification sees it.
LinkOf(u) ==
    IF u.life = "cancelled" \/ (u.life = "stopped" /\ u.sock = "none") THEN "over"
    ELSE IF u.sock \in {"open", "silent"} THEN "up"
    ELSE "down"

Link == INSTANCE RealtimeLink WITH link <- [s \in Subs |-> LinkOf(sub[s])]

\* The subscriptions implement the abstract link: none is revived once it is
\* over, neither by a timer, a late ticket or a late refresh.
ImplementsLink == Link!Spec

\* A mounted subscription comes up or is over, again and again, although
\* mints, refreshes and sockets fail.
LinkComesUp ==
    \A s \in Subs : sub[s].life = "live" ~> LinkOf(sub[s]) \in {"up", "over"}

=============================================================================
