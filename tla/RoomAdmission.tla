---------------------------- MODULE RoomAdmission ----------------------------
(***************************************************************************)
(* Who may be in a live room and who may speak: the participant requests   *)
(* of backend/app/services/room_service.py (join, leave, hand, promote,    *)
(* demote, mute, kick, ban, token refresh), the LiveKit webhooks           *)
(* participant_joined and participant_left, and the admission check that   *)
(* re-validates every connection (livekit_admission_service.py).           *)
(*                                                                         *)
(* The truth is spread over four stores that no transaction spans: the     *)
(* Redis participant rows and revocation markers, the participants and     *)
(* bans tables, the media server's connections, and the join tokens in the *)
(* clients' hands, which cannot be revoked.  A request is a sequence of    *)
(* steps with an await between any two; other requests, webhooks and       *)
(* clients run in between.  One room, active at first, which leave_room    *)
(* ends when its last participant leaves.                                  *)
(***************************************************************************)
EXTENDS Naturals, FiniteSets

CONSTANTS
    Users,      \* identities (fids)
    Host,       \* the host's fid
    Slots,      \* concurrent request handlers
    Serial,     \* TRUE: the room's requests run one after the other
    Ops,        \* request kinds the instance exercises
    MaxReq,     \* bound: number of requests
    MaxConn,    \* bound: number of connections
    MaxFail,    \* bound: number of failed calls to the media server
    None        \* no row, no marker, no request

AllOps == {"join", "leave", "hand", "promote", "demote", "mute", "kick", "ban",
           "refresh"}

ASSUME ConstantsAssumption ==
    /\ Host \in Users
    /\ Serial \in BOOLEAN
    /\ Ops \subseteq AllOps
    /\ MaxReq \in Nat /\ MaxConn \in Nat /\ MaxFail \in Nat

VARIABLES
    status,     \* DB: the room row, "active" or "ended"
    rows,       \* Redis: participant row of each user, or None
    queue,      \* Redis: users in the hand queue
    marker,     \* Redis: revocation marker of each user, or None
    present,    \* DB: users with a participants row whose left_at is NULL
    banned,     \* DB: users with an active ban
    tokens,     \* tokens[u]: publish grants of u's unexpired join tokens
    lk,         \* media server: "off", "sub" or "pub" for each user
    revoked,    \* history: "removed" or "listener" while u's last change of
                \* standing was a removal or a demotion, else None
    sinceBan,   \* history: u's connection was opened when u was already banned
    hooks,      \* webhooks the media server still has to deliver
    admitting,  \* admission decisions taken and not yet applied
    leaving,    \* participant_left handlers that still have to write the DB
    req,        \* req[i]: the request handler i is running, or None
    reqs, conns, fails  \* counters for the bounds

vars == <<status, rows, queue, marker, present, banned, tokens, lk, revoked,
          sinceBan, hooks, admitting, leaving, req, reqs, conns, fails>>
redisVars == <<rows, queue, marker, revoked>>
dbVars == <<status, present, banned>>
mediaVars == <<lk, sinceBan, hooks, conns>>
hookVars == <<admitting, leaving>>

\* ROLE_HIERARCHY without co_host, which no operation assigns to a participant.
Roles == {"host", "speaker", "listener"}
Publishing == {"host", "speaker"}
Row == [role : Roles, hand : BOOLEAN]
Actions == {"allow", "remove", "downgrade"}
Hook == [kind : {"joined", "left"}, user : Users, pub : BOOLEAN, n : 1..MaxConn]
Steps == {"lookup", "count", "end", "clear", "db", "row", "unmark", "mark", "remove", "livekit", "queue", "ban"}
Request == [op : AllOps, user : Users, at : Steps, saved : Row \cup {None}]

ASSUME NoneAssumption ==
    None \notin Row /\ None \notin Request /\ None \notin {"removed", "listener"}

CanPublish(role) == role \in Publishing

Init ==
    /\ status = "active"
    /\ rows = [u \in Users |-> IF u = Host THEN [role |-> "host", hand |-> FALSE]
                                           ELSE None]
    /\ queue = {}
    /\ marker = [u \in Users |-> None]
    /\ present = {Host}
    /\ banned = {}
    /\ tokens = [u \in Users |-> {}]
    /\ lk = [u \in Users |-> "off"]
    /\ revoked = [u \in Users |-> None]
    /\ sinceBan = [u \in Users |-> FALSE]
    /\ hooks = {}
    /\ admitting = {}
    /\ leaving = {}
    /\ req = [i \in Slots |-> None]
    /\ reqs = 0 /\ conns = 0 /\ fails = 0

-----------------------------------------------------------------------------
(* Requests. *)

Idle(i) == req[i] = None
At(i, op, step) == req[i] # None /\ req[i].op = op /\ req[i].at = step

Begin(i, op, u, step, saved) ==
    /\ Idle(i)
    /\ op \in Ops
    /\ reqs < MaxReq
    /\ Serial => \A k \in Slots : Idle(k)
    /\ reqs' = reqs + 1
    /\ req' = [req EXCEPT ![i] =
                [op |-> op, user |-> u, at |-> step, saved |-> saved]]

Goto(i, step) == req' = [req EXCEPT ![i].at = step] /\ UNCHANGED reqs
Finish(i) == req' = [req EXCEPT ![i] = None] /\ UNCHANGED reqs

IssueToken(u, role) ==
    tokens' = [tokens EXCEPT ![u] = @ \cup {CanPublish(role)}]

\* join_room: status and ban are checked.
JoinBegin(i, u) ==
    /\ status = "active"
    /\ u \notin banned
    /\ Begin(i, "join", u, "lookup", None)
    /\ UNCHANGED <<redisVars, dbVars, tokens, mediaVars, hookVars, fails>>

\* A row that is there answers the request with a fresh token.
JoinLookup(i) ==
    LET u == req[i].user IN
    /\ At(i, "join", "lookup")
    /\ \/ rows[u] # None /\ IssueToken(u, rows[u].role) /\ Finish(i)
       \/ rows[u] = None /\ Goto(i, "db") /\ UNCHANGED tokens
    /\ UNCHANGED <<redisVars, dbVars, mediaVars, hookVars, fails>>

\* The participants row is created or reopened.
JoinDb(i) ==
    /\ At(i, "join", "db")
    /\ present' = present \cup {req[i].user}
    /\ Goto(i, "row")
    /\ UNCHANGED <<redisVars, status, banned, tokens, mediaVars, hookVars, fails>>

JoinRole(u) == IF u = Host THEN "host" ELSE "listener"

JoinRow(i) ==
    LET u == req[i].user IN
    /\ At(i, "join", "row")
    /\ rows' = [rows EXCEPT ![u] = [role |-> JoinRole(u), hand |-> FALSE]]
    /\ revoked' = [revoked EXCEPT ![u] = None]
    /\ Goto(i, "unmark")
    /\ UNCHANGED <<queue, marker, dbVars, tokens, mediaVars, hookVars, fails>>

\* The fresh grant supersedes an earlier kick or demotion.
JoinGrant(i) ==
    LET u == req[i].user IN
    /\ At(i, "join", "unmark")
    /\ marker' = [marker EXCEPT ![u] = None]
    /\ IssueToken(u, JoinRole(u))
    /\ Finish(i)
    /\ UNCHANGED <<rows, queue, revoked, dbVars, mediaVars, hookVars, fails>>

\* refresh_token: a fresh token for the role in the Redis row.
RefreshToken(i, u) ==
    /\ "refresh" \in Ops
    /\ Idle(i) /\ (Serial => \A k \in Slots : Idle(k))
    /\ rows[u] # None
    /\ IssueToken(u, rows[u].role)
    /\ UNCHANGED <<redisVars, dbVars, mediaVars, hookVars, req, reqs, fails>>

\* leave_room: left_at in the DB, then Redis ...
LeaveBegin(i, u) ==
    /\ Begin(i, "leave", u, "row", None)
    /\ present' = present \ {u}
    /\ UNCHANGED <<redisVars, status, banned, tokens, mediaVars, hookVars, fails>>

RemoveRow(u) ==
    /\ rows' = [rows EXCEPT ![u] = None]
    /\ queue' = queue \ {u}

LeaveRow(i) ==
    /\ At(i, "leave", "row")
    /\ RemoveRow(req[i].user)
    /\ Goto(i, "count")
    /\ UNCHANGED <<marker, revoked, dbVars, tokens, mediaVars, hookVars, fails>>

\* ... and the room that has no rows left is ended and its Redis state cleared.
LeaveCount(i) ==
    /\ At(i, "leave", "count")
    /\ \/ (\A u \in Users : rows[u] = None) /\ Goto(i, "end")
       \/ (\E u \in Users : rows[u] # None) /\ Finish(i)
    /\ UNCHANGED <<redisVars, dbVars, tokens, mediaVars, hookVars, fails>>

LeaveEnd(i) ==
    /\ At(i, "leave", "end")
    /\ status' = "ended"
    /\ Goto(i, "clear")
    /\ UNCHANGED <<redisVars, present, banned, tokens, mediaVars, hookVars, fails>>

ClearRoomState ==
    /\ rows' = [u \in Users |-> None]
    /\ queue' = {}

LeaveClear(i) ==
    /\ At(i, "leave", "clear")
    /\ ClearRoomState
    /\ Finish(i)
    /\ UNCHANGED <<marker, revoked, dbVars, tokens, mediaVars, hookVars, fails>>

\* raise_hand: the row read at the start is written back.
HandBegin(i, u) ==
    /\ rows[u] # None
    /\ rows[u].role = "listener"
    /\ \E raised \in BOOLEAN :
        Begin(i, "hand", u, "row", [rows[u] EXCEPT !.hand = raised])
    /\ UNCHANGED <<redisVars, dbVars, tokens, mediaVars, hookVars, fails>>

HandRow(i) ==
    /\ At(i, "hand", "row")
    /\ rows' = [rows EXCEPT ![req[i].user] = req[i].saved]
    /\ Goto(i, "queue")
    /\ UNCHANGED <<queue, marker, revoked, dbVars, tokens, mediaVars, hookVars, fails>>

HandQueue(i) ==
    /\ At(i, "hand", "queue")
    /\ queue' = IF req[i].saved.hand THEN queue \cup {req[i].user}
                                     ELSE queue \ {req[i].user}
    /\ Finish(i)
    /\ UNCHANGED <<rows, marker, revoked, dbVars, tokens, mediaVars, hookVars, fails>>

\* The actor and the target both have a row; roles per permission_service.
Moderates(actor, u) ==
    /\ rows[actor] # None
    /\ rows[actor].role = "host"
    /\ rows[u] # None

\* A call to the media server that fails is logged and the request goes on.
CallFails == fails < MaxFail /\ fails' = fails + 1 /\ UNCHANGED <<lk, hooks>>

\* update_permissions on u's connection, if there is one.
SetPermission(u, perm) ==
    /\ lk' = [lk EXCEPT ![u] = IF @ = "off" THEN @ ELSE perm]
    /\ UNCHANGED <<hooks, fails>>

LeftHook(u) == [kind |-> "left", user |-> u, pub |-> FALSE, n |-> conns]

\* kick_participant of the media server: u's connection closes and the server
\* reports it.
Disconnect(u) ==
    /\ lk' = [lk EXCEPT ![u] = "off"]
    /\ hooks' = IF lk[u] = "off" THEN hooks ELSE hooks \cup {LeftHook(u)}
    /\ UNCHANGED fails

PromoteBegin(i, actor, u) ==
    /\ Moderates(actor, u)
    /\ rows[u].role = "listener"
    /\ Begin(i, "promote", u, "row", [rows[u] EXCEPT !.role = "speaker"])
    /\ UNCHANGED <<redisVars, dbVars, tokens, mediaVars, hookVars, fails>>

PromoteRow(i) ==
    /\ At(i, "promote", "row")
    /\ revoked' = [revoked EXCEPT ![req[i].user] = None]
    /\ rows' = [rows EXCEPT ![req[i].user] = req[i].saved]
    /\ Goto(i, "unmark")
    /\ UNCHANGED <<queue, marker, dbVars, tokens, mediaVars, hookVars, fails>>

PromoteUnmark(i) ==
    /\ At(i, "promote", "unmark")
    /\ marker' = [marker EXCEPT ![req[i].user] = None]
    /\ Goto(i, "livekit")
    /\ UNCHANGED <<rows, queue, revoked, dbVars, tokens, mediaVars, hookVars, fails>>

PromoteLiveKit(i) ==
    /\ At(i, "promote", "livekit")
    /\ SetPermission(req[i].user, "pub") \/ CallFails
    /\ Goto(i, "queue")
    /\ UNCHANGED <<redisVars, dbVars, tokens, sinceBan, conns, hookVars>>

PromoteQueue(i) ==
    /\ At(i, "promote", "queue")
    /\ queue' = queue \ {req[i].user}
    /\ Finish(i)
    /\ UNCHANGED <<rows, marker, revoked, dbVars, tokens, mediaVars, hookVars, fails>>

DemoteBegin(i, actor, u) ==
    /\ Moderates(actor, u)
    /\ rows[u].role = "speaker"
    /\ Begin(i, "demote", u, "row", [role |-> "listener", hand |-> FALSE])
    /\ UNCHANGED <<redisVars, dbVars, tokens, mediaVars, hookVars, fails>>

DemoteRow(i) ==
    /\ At(i, "demote", "row")
    /\ revoked' = [revoked EXCEPT ![req[i].user] = "listener"]
    /\ rows' = [rows EXCEPT ![req[i].user] = req[i].saved]
    /\ Goto(i, "mark")
    /\ UNCHANGED <<queue, marker, dbVars, tokens, mediaVars, hookVars, fails>>

DemoteMark(i) ==
    /\ At(i, "demote", "mark")
    /\ marker' = [marker EXCEPT ![req[i].user] = "listener"]
    /\ Goto(i, "livekit")
    /\ UNCHANGED <<rows, queue, revoked, dbVars, tokens, mediaVars, hookVars, fails>>

DemoteLiveKit(i) ==
    /\ At(i, "demote", "livekit")
    /\ SetPermission(req[i].user, "sub") \/ CallFails
    /\ Finish(i)
    /\ UNCHANGED <<redisVars, dbVars, tokens, sinceBan, conns, hookVars>>

\* mute_participant: after the media server muted the track (a failure ends
\* the request with nothing written), the row read at the start is written back.
MuteBegin(i, actor, u) ==
    /\ Moderates(actor, u)
    /\ Begin(i, "mute", u, "row", rows[u])
    /\ UNCHANGED <<redisVars, dbVars, tokens, mediaVars, hookVars, fails>>

MuteRow(i) ==
    /\ At(i, "mute", "row")
    /\ rows' = [rows EXCEPT ![req[i].user] = req[i].saved]
    /\ Finish(i)
    /\ UNCHANGED <<queue, marker, revoked, dbVars, tokens, mediaVars, hookVars, fails>>

\* kick_participant and ban_participant share _remove_participant_from_room.
RemoveBegin(i, op, actor, u) ==
    /\ op \in {"kick", "ban"}
    /\ Moderates(actor, u)
    /\ Begin(i, op, u, "mark", None)
    /\ UNCHANGED <<redisVars, dbVars, tokens, mediaVars, hookVars, fails>>

\* admin_kick_participant: only the target's row is required.
AdminKickBegin(i, u) ==
    /\ rows[u] # None
    /\ Begin(i, "kick", u, "mark", None)
    /\ UNCHANGED <<redisVars, dbVars, tokens, mediaVars, hookVars, fails>>

Removing(i, step) == At(i, "kick", step) \/ At(i, "ban", step)

\* Mutant: removal leaves no marker.
BugRemoveWithoutMark(i) ==
    /\ Removing(i, "mark")
    /\ Goto(i, "remove")
    /\ UNCHANGED <<redisVars, dbVars, tokens, mediaVars, hookVars, fails>>

\* Mutant: the marker is written with a value no reader knows.
BugRemoveMarksKicked(i) ==
    /\ Removing(i, "mark")
    /\ marker' = [marker EXCEPT ![req[i].user] = "kicked"]
    /\ Goto(i, "remove")
    /\ UNCHANGED <<rows, queue, revoked, dbVars, tokens, mediaVars, hookVars, fails>>

RemoveMark(i) ==
    /\ Removing(i, "mark")
    /\ marker' = [marker EXCEPT ![req[i].user] = "removed"]
    /\ Goto(i, "remove")
    /\ UNCHANGED <<rows, queue, revoked, dbVars, tokens, mediaVars, hookVars, fails>>

RemoveRedis(i) ==
    /\ Removing(i, "remove")
    /\ RemoveRow(req[i].user)
    /\ revoked' = [revoked EXCEPT ![req[i].user] = "removed"]
    /\ Goto(i, "livekit")
    /\ UNCHANGED <<marker, dbVars, tokens, mediaVars, hookVars, fails>>

RemoveLiveKit(i) ==
    /\ Removing(i, "livekit")
    /\ Disconnect(req[i].user) \/ CallFails
    /\ Goto(i, "db")
    /\ UNCHANGED <<redisVars, dbVars, tokens, sinceBan, conns, hookVars>>

\* Mutant: the removal does not set left_at.
BugRemoveWithoutDb(i) ==
    /\ Removing(i, "db")
    /\ IF req[i].op = "ban" THEN Goto(i, "ban") ELSE Finish(i)
    /\ UNCHANGED <<redisVars, dbVars, tokens, mediaVars, hookVars, fails>>

RemoveDb(i) ==
    /\ Removing(i, "db")
    /\ present' = present \ {req[i].user}
    /\ IF req[i].op = "ban" THEN Goto(i, "ban") ELSE Finish(i)
    /\ UNCHANGED <<redisVars, status, banned, tokens, mediaVars, hookVars, fails>>

\* The ban record is written last.
BanCommit(i) ==
    /\ At(i, "ban", "ban")
    /\ banned' = banned \cup {req[i].user}
    /\ Finish(i)
    /\ UNCHANGED <<redisVars, status, present, tokens, mediaVars, hookVars, fails>>

-----------------------------------------------------------------------------
(* Clients and the media server. *)

\* A client connects with a join token; a second connection of the same
\* identity replaces the first.
Connect(u, pub) ==
    /\ pub \in tokens[u]
    /\ conns < MaxConn
    /\ conns' = conns + 1
    /\ lk' = [lk EXCEPT ![u] = IF pub THEN "pub" ELSE "sub"]
    /\ sinceBan' = [sinceBan EXCEPT ![u] = u \in banned]
    /\ hooks' = hooks
         \cup {[kind |-> "joined", user |-> u, pub |-> pub, n |-> conns + 1]}
         \cup (IF lk[u] = "off" THEN {} ELSE {LeftHook(u)})
    /\ UNCHANGED <<redisVars, dbVars, tokens, hookVars, req, reqs, fails>>

\* A client loses its connection or closes it.
Drop(u) ==
    /\ lk[u] # "off"
    /\ Disconnect(u)
    /\ UNCHANGED <<redisVars, dbVars, tokens, sinceBan, conns, hookVars, req,
                   reqs>>

JoinedPending(u) == \E h \in hooks : h.kind = "joined" /\ h.user = u

\* Tokens expire.  A revocation marker outlives every token issued before it
\* and, by its TTL of 20 minutes, the requests and webhooks under way.
ExpireToken(u) ==
    /\ tokens[u] # {}
    /\ tokens' = [tokens EXCEPT ![u] = {}]
    /\ UNCHANGED <<redisVars, dbVars, mediaVars, hookVars, req, reqs, fails>>

ExpireMarker(u) ==
    /\ marker[u] # None
    /\ tokens[u] = {}
    /\ ~JoinedPending(u)
    /\ ~\E i \in Slots : ~Idle(i) /\ req[i].user = u
    /\ marker' = [marker EXCEPT ![u] = None]
    /\ UNCHANGED <<rows, queue, revoked, dbVars, tokens, mediaVars, hookVars, req, reqs,
                   fails>>

-----------------------------------------------------------------------------
(* Webhooks.  They are delivered in any order. *)

\* Mutants: no ban lookup; the marker is ignored.
BugDecideWithoutBan(u, pub) ==
    CASE rows[u] # None -> IF pub /\ ~CanPublish(rows[u].role)
                           THEN "downgrade" ELSE "allow"
      [] rows[u] = None /\ marker[u] = "removed" -> "remove"
      [] rows[u] = None /\ marker[u] = "listener" /\ pub -> "downgrade"
      [] OTHER -> "allow"
BugDecideWithoutMarker(u, pub) ==
    CASE u \in banned -> "remove"
      [] u \notin banned /\ rows[u] # None ->
            IF pub /\ ~CanPublish(rows[u].role) THEN "downgrade" ELSE "allow"
      [] OTHER -> "allow"

\* decide_admission: ban, then the Redis role, then the marker.
DecideAdmission(u, pub) ==
    CASE u \in banned -> "remove"
      [] u \notin banned /\ rows[u] # None ->
            IF pub /\ ~CanPublish(rows[u].role) THEN "downgrade" ELSE "allow"
      [] u \notin banned /\ rows[u] = None /\ marker[u] = "removed" -> "remove"
      [] u \notin banned /\ rows[u] = None /\ marker[u] = "listener" /\ pub ->
            "downgrade"
      [] OTHER -> "allow"

\* participant_joined: the decision is taken ...
JoinedHook(h) ==
    /\ h \in hooks
    /\ h.kind = "joined"
    /\ hooks' = hooks \ {h}
    /\ LET a == DecideAdmission(h.user, h.pub) IN
        admitting' = IF a = "allow" THEN admitting
                     ELSE admitting \cup {[user |-> h.user, action |-> a]}
    /\ UNCHANGED <<redisVars, dbVars, tokens, lk, sinceBan, conns, leaving, req,
                   reqs, fails>>

\* ... and applied to whatever connection the identity has by then.
Enforce(a) ==
    /\ a \in admitting
    /\ admitting' = admitting \ {a}
    /\ \/ a.action = "remove" /\ Disconnect(a.user)
       \/ a.action = "downgrade" /\ SetPermission(a.user, "sub")
       \/ CallFails
    /\ UNCHANGED <<redisVars, dbVars, tokens, sinceBan, conns, leaving, req,
                   reqs>>

\* participant_left: Redis first ...
LeftRedis(h) ==
    /\ h \in hooks
    /\ h.kind = "left"
    /\ hooks' = hooks \ {h}
    /\ RemoveRow(h.user)
    /\ leaving' = leaving \cup {h}
    /\ UNCHANGED <<marker, revoked, dbVars, tokens, lk, sinceBan, conns, admitting, req,
                   reqs, fails>>

\* ... then left_at in the DB.
LeftDb(h) ==
    /\ h \in leaving
    /\ leaving' = leaving \ {h}
    /\ present' = present \ {h.user}
    /\ UNCHANGED <<redisVars, status, banned, tokens, mediaVars, admitting, req, reqs,
                   fails>>

RequestStep(i) ==
    \/ JoinLookup(i) \/ JoinDb(i) \/ JoinRow(i) \/ JoinGrant(i)
    \/ LeaveRow(i) \/ LeaveCount(i) \/ LeaveEnd(i) \/ LeaveClear(i)
    \/ HandRow(i) \/ HandQueue(i)
    \/ PromoteRow(i) \/ PromoteUnmark(i) \/ PromoteLiveKit(i) \/ PromoteQueue(i)
    \/ DemoteRow(i) \/ DemoteMark(i) \/ DemoteLiveKit(i)
    \/ MuteRow(i)
    \/ RemoveMark(i) \/ RemoveRedis(i) \/ RemoveLiveKit(i) \/ RemoveDb(i)
    \/ BanCommit(i)

RequestBegins(i) ==
    \E u \in Users :
        \/ JoinBegin(i, u)
        \/ RefreshToken(i, u)
        \/ LeaveBegin(i, u)
        \/ HandBegin(i, u)
        \/ AdminKickBegin(i, u)
        \/ \E actor \in Users :
            \/ PromoteBegin(i, actor, u)
            \/ DemoteBegin(i, actor, u)
            \/ MuteBegin(i, actor, u)
            \/ \E op \in {"kick", "ban"} : RemoveBegin(i, op, actor, u)

WebhookStep ==
    \/ \E h \in hooks : JoinedHook(h) \/ LeftRedis(h)
    \/ \E a \in admitting : Enforce(a)
    \/ \E h \in leaving : LeftDb(h)

ClientStep ==
    \E u \in Users :
        \/ \E pub \in BOOLEAN : Connect(u, pub)
        \/ Drop(u)
        \/ ExpireToken(u)
        \/ ExpireMarker(u)

Next ==
    \/ \E i \in Slots : RequestBegins(i)
    \/ \E i \in Slots : RequestStep(i)
    \/ WebhookStep
    \/ ClientStep

Spec == Init /\ [][Next]_vars

\* Handlers that have begun finish, and webhooks are delivered and handled.
FairSpec == Spec /\ WF_vars(WebhookStep)
                 /\ \A i \in Slots : WF_vars(RequestStep(i))

-----------------------------------------------------------------------------
(* Properties. *)

\* Type correctness of the four stores and the handlers.
TypeOK ==
    /\ status \in {"active", "ended"}
    /\ revoked \in [Users -> {None, "removed", "listener"}]
    /\ rows \in [Users -> Row \cup {None}]
    /\ queue \subseteq Users
    /\ marker \in [Users -> {None, "removed", "listener"}]
    /\ present \subseteq Users
    /\ banned \subseteq Users
    /\ tokens \in [Users -> SUBSET BOOLEAN]
    /\ lk \in [Users -> {"off", "sub", "pub"}]
    /\ sinceBan \in [Users -> BOOLEAN]
    /\ hooks \subseteq Hook
    /\ admitting \subseteq [user : Users, action : Actions \ {"allow"}]
    /\ leaving \subseteq Hook
    /\ req \in [Slots -> Request \cup {None}]
    /\ reqs \in 0..MaxReq /\ conns \in 0..MaxConn /\ fails \in 0..MaxFail

\* No request, webhook or admission decision is under way.
Quiet ==
    /\ \A i \in Slots : Idle(i)
    /\ hooks = {} /\ admitting = {} /\ leaving = {}

RemovePending(u) == \E a \in admitting : a.user = u /\ a.action = "remove"

\* Whatever runs concurrently, a connection opened by a user who was already
\* banned is on its way out: its participant_joined webhook or the removal it
\* leads to is pending, unless a call to the media server failed.
BannedCannotReconnect ==
    \A u \in Users : lk[u] # "off" /\ sinceBan[u] /\ fails = 0 =>
        JoinedPending(u) \/ RemovePending(u)

\* With requests one at a time, once everything has been handled, a removed
\* user is disconnected and a demoted user cannot publish, whatever stale
\* tokens they reconnected with and in whatever order webhooks arrived.
RevocationHolds ==
    Quiet /\ fails = 0 =>
        \A u \in Users :
            /\ revoked[u] = "removed" => lk[u] = "off"
            /\ revoked[u] = "listener" => lk[u] # "pub"

\* A ban is complete: when everything has been handled, no banned user is
\* connected.
BanHolds ==
    Quiet /\ fails = 0 => \A u \in banned : lk[u] = "off"

\* With requests one at a time, a user the participants table shows as present
\* has a live Redis row once everything has been handled.
PresentHasRow ==
    Quiet => \A u \in present : rows[u] # None

\* A user who connects in spite of a ban is eventually disconnected, whatever
\* runs concurrently, unless a call to the media server failed.
BannedIsPutOut ==
    \A u \in Users : sinceBan[u] /\ lk[u] # "off" ~> lk[u] = "off" \/ fails > 0

=============================================================================
