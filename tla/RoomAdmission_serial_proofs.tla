---------------------- MODULE RoomAdmission_serial_proofs ----------------------
(***************************************************************************)
(* Proofs about RoomAdmission when a room's requests run one after the     *)
(* other (Serial), for any users and bounds; webhooks and clients still    *)
(* run in between: removals, demotions and bans hold once everything has   *)
(* been handled, and who the database shows as present has a row.          *)
(*                                                                         *)
(* Each is a statement about quiet states.  What carries it there is, for  *)
(* every user, who is still going to put things right: the request that    *)
(* has not called the media server yet, the webhook of a connection that   *)
(* came with an old token, or the decision that webhook led to; and that   *)
(* the marker stays as long as such a webhook can still come.              *)
(***************************************************************************)
EXTENDS RoomAdmission_proofs

\* Requests run one after the other.
OneRequest == \A i, k \in Slots : ~Idle(i) /\ ~Idle(k) => i = k

Doing(i, u, ops, steps) ==
    ~Idle(i) /\ req[i].user = u /\ req[i].op \in ops /\ req[i].at \in steps
UnderWay(u, ops, steps) == \E i \in Slots : Doing(i, u, ops, steps)

Removals == {"kick", "ban"}
WriteBacks == {"hand", "promote", "demote", "mute"}

\* What a request knows at each of its steps.
ReqOK(i) ==
    LET u == req[i].user  op == req[i].op  at == req[i].at IN
    /\ op = "join" => u \notin banned /\ (at = "unmark" => revoked[u] = None)
    /\ op = "leave" /\ at = "row" => u \notin present
    /\ op = "leave" /\ at \in {"end", "clear"} => \A w \in Users : rows[w] = None
    /\ op \in WriteBacks /\ at = "row" => req[i].saved \in Row /\ revoked[u] # "removed"
    /\ op \in {"hand", "demote"} /\ at = "row" => req[i].saved.role = "listener"
    /\ op = "mute" /\ at = "row" /\ revoked[u] = "listener" => req[i].saved.role = "listener"
    /\ op = "promote" /\ at # "row" => revoked[u] = None
    /\ op = "demote" /\ at # "row" => revoked[u] = "listener"
    /\ op = "demote" /\ at \notin {"row", "mark"} => marker[u] # None
    /\ op \in Removals /\ at = "remove" => marker[u] = "removed"
    /\ op \in Removals /\ at \notin {"mark", "remove"} => revoked[u] = "removed"

PubPending(u) == \E h \in hooks : h.kind = "joined" /\ h.user = u /\ h.pub
Deciding(u) == \E a \in admitting : a.user = u

\* Who was removed has no row, who was demoted is a listener, and a ban is a
\* removal.
RowOK(u) ==
    /\ revoked[u] = "removed" => rows[u] = None
    /\ revoked[u] = "listener" /\ rows[u] # None => rows[u].role = "listener"
    /\ u \in banned => revoked[u] = "removed"

\* The marker is there as long as an old token can be used.
MarkOK(u) ==
    /\ revoked[u] = "removed" => marker[u] = "removed" \/ (tokens[u] = {} /\ ~JoinedPending(u))
    /\ revoked[u] = "listener" =>
          \/ marker[u] # None
          \/ TRUE \notin tokens[u] /\ ~PubPending(u)
          \/ UnderWay(u, {"demote"}, {"mark"})

\* What is still going to put an old connection out, or mute it.
OutOK(u) ==
    fails = 0 =>
        /\ revoked[u] = "removed" /\ lk[u] # "off" =>
              JoinedPending(u) \/ RemovePending(u) \/ UnderWay(u, Removals, {"livekit"})
        /\ revoked[u] = "listener" /\ lk[u] = "pub" =>
              PubPending(u) \/ Deciding(u) \/ UnderWay(u, {"demote"}, {"mark", "livekit"})

\* What is still going to give a present user a row, or to mark them as gone.
PresentOK(u) ==
    u \in present =>
        \/ rows[u] # None
        \/ \E h \in leaving : h.user = u
        \/ UnderWay(u, {"join"}, {"row"})
        \/ UnderWay(u, Removals, {"livekit", "db"})

Standing(u) == RowOK(u) /\ MarkOK(u) /\ OutOK(u) /\ PresentOK(u)

SInv ==
    /\ IInv /\ OneRequest
    /\ \A i \in Slots : ~Idle(i) => ReqOK(i)
    /\ \A u \in Users : Standing(u)

-----------------------------------------------------------------------------
(* Frames.                                                                 *)

\* The requests that put things right go on.
Carry(w) ==
    /\ UnderWay(w, {"demote"}, {"mark"}) => UnderWay(w, {"demote"}, {"mark"})'
    /\ UnderWay(w, {"demote"}, {"mark", "livekit"}) => UnderWay(w, {"demote"}, {"mark", "livekit"})'
    /\ UnderWay(w, Removals, {"livekit"}) => UnderWay(w, Removals, {"livekit"})'
    /\ UnderWay(w, Removals, {"livekit", "db"}) => UnderWay(w, Removals, {"livekit", "db"})'
    /\ UnderWay(w, {"join"}, {"row"}) => UnderWay(w, {"join"}, {"row"})'

\* What the webhooks will do about w.
SameHooks(w) ==
    /\ JoinedPending(w)' <=> JoinedPending(w)
    /\ PubPending(w)' <=> PubPending(w)
    /\ RemovePending(w)' <=> RemovePending(w)
    /\ Deciding(w)' <=> Deciding(w)
    /\ (\E h \in leaving : h.user = w) => (\E h \in leaving' : h.user = w)

SameStores(w) ==
    /\ rows'[w] = rows[w] /\ revoked'[w] = revoked[w] /\ marker'[w] = marker[w]
    /\ tokens'[w] = tokens[w] /\ lk'[w] = lk[w]
    /\ w \in banned' <=> w \in banned
    /\ w \in present' => w \in present

\* A user that a step is not about stands as before.
LEMMA StandingFrame ==
  ASSUME NEW w \in Users, Standing(w), SameStores(w), SameHooks(w), Carry(w),
         fails' = 0 => fails = 0
  PROVE  Standing(w)'
<1>1. RowOK(w)'
  BY DEF Standing, RowOK, SameStores
<1>2. MarkOK(w)'
  BY DEF Standing, MarkOK, SameStores, SameHooks, Carry
<1>3. OutOK(w)'
  BY DEF Standing, OutOK, SameStores, SameHooks, Carry
<1>4. PresentOK(w)'
  BY DEF Standing, PresentOK, SameStores, SameHooks, Carry
<1> QED BY <1>1, <1>2, <1>3, <1>4 DEF Standing

\* What is known at a step of a request.
LEMMA AtStep ==
  ASSUME SInv, NEW i \in Slots, ~Idle(i)
  PROVE  /\ ReqOK(i) /\ req[i] \in Request /\ req[i].user \in Users
         /\ Standing(req[i].user) /\ \A k \in Slots : k # i => Idle(k)
<1>1. ReqOK(i) /\ req[i] \in Request
  BY DEF SInv, IInv, TypeOK, Idle
<1>2. req[i].user \in Users
  BY <1>1 DEF Request
<1> QED BY <1>1, <1>2 DEF SInv, OneRequest

\* A step of the only request: what remains to show is about its user.
LEMMA RequestFrame ==
  ASSUME SInv, IInv', NEW i \in Slots, NEW u \in Users,
         \A k \in Slots : k # i => Idle(k) /\ req'[k] = req[k],
         ~Idle(i) => req[i].user = u,
         ~Idle(i)' => ReqOK(i)',
         \A w \in Users : w # u => SameStores(w) /\ SameHooks(w),
         fails' = 0 => fails = 0,
         Standing(u)'
  PROVE  SInv'
<1>1. OneRequest'
  BY DEF OneRequest, Idle
<1>2. \A k \in Slots : ~Idle(k)' => ReqOK(k)'
  BY DEF Idle
<1>3. ASSUME NEW w \in Users, w # u PROVE Standing(w)'
  <2>1. ASSUME NEW ops, NEW steps PROVE ~UnderWay(w, ops, steps)
    BY <1>3 DEF UnderWay, Doing
  <2>2. Carry(w)
    BY <2>1 DEF Carry
  <2> QED BY <1>3, <2>2, StandingFrame DEF SInv
<1> QED BY <1>1, <1>2, <1>3 DEF SInv

\* The request of u puts nothing right at this step.
LEMMA CarryNothing ==
  ASSUME NEW i \in Slots, NEW u \in Users, \A k \in Slots : k # i => Idle(k),
         ~Idle(i) => \/ req[i].op \in {"leave", "hand", "promote", "mute", "refresh"}
                     \/ req[i].op = "join" /\ req[i].at # "row"
                     \/ req[i].op = "demote" /\ req[i].at \notin {"mark", "livekit"}
                     \/ req[i].op \in Removals /\ req[i].at \notin {"livekit", "db"}
  PROVE  Carry(u)
<1>1. /\ ~UnderWay(u, {"demote"}, {"mark"})
      /\ ~UnderWay(u, {"demote"}, {"mark", "livekit"})
      /\ ~UnderWay(u, Removals, {"livekit"})
      /\ ~UnderWay(u, Removals, {"livekit", "db"})
      /\ ~UnderWay(u, {"join"}, {"row"})
  BY DEF UnderWay, Doing, Removals
<1> QED BY <1>1 DEF Carry

\* Nobody's row, standing or connection changes.
Calm ==
    /\ rows' = rows /\ revoked' = revoked /\ marker' = marker /\ tokens' = tokens
    /\ lk' = lk /\ banned' = banned /\ present' \subseteq present
    /\ hooks' = hooks /\ admitting' = admitting /\ leaving' = leaving /\ fails' = fails

\* A step that only moves a request on leaves the stores and the webhooks.
LEMMA CalmSame ==
  ASSUME Calm
  PROVE  (\A w : SameStores(w) /\ SameHooks(w)) /\ (fails' = 0 => fails = 0)
<1>1. \A w : SameStores(w)
  BY DEF Calm, SameStores
<1>2. \A w : SameHooks(w)
  BY DEF Calm, SameHooks, JoinedPending, PubPending, RemovePending, Deciding
<1> QED BY <1>1, <1>2 DEF Calm

\* A request that only moves on from a step at which it puts nothing right.
LEMMA CalmStep ==
  ASSUME SInv, IInv', NEW i \in Slots, NEW u \in Users, Calm,
         \A k \in Slots : k # i => Idle(k) /\ req'[k] = req[k],
         ~Idle(i) => req[i].user = u,
         ~Idle(i)' => ReqOK(i)',
         ~Idle(i) => \/ req[i].op \in {"leave", "hand", "promote", "mute", "refresh"}
                     \/ req[i].op = "join" /\ req[i].at # "row"
                     \/ req[i].op = "demote" /\ req[i].at \notin {"mark", "livekit"}
                     \/ req[i].op \in Removals /\ req[i].at \notin {"livekit", "db"}
  PROVE  SInv'
<1>1. Carry(u)
  BY CarryNothing
<1>2. Standing(u)'
  BY <1>1, CalmSame, StandingFrame DEF SInv
<1> QED BY <1>2, CalmSame, RequestFrame

\* What Begin, Goto and Finish do to the handlers.
LEMMA BeginIs ==
  ASSUME SInv, Serial, NEW i \in Slots, NEW op \in AllOps, NEW u \in Users,
         NEW step \in Steps, NEW saved \in Row \cup {None},
         Begin(i, op, u, step, saved)
  PROVE  /\ Idle(i) /\ \A k \in Slots : k # i => Idle(k) /\ req'[k] = req[k]
         /\ req'[i].op = op /\ req'[i].user = u /\ req'[i].at = step /\ req'[i].saved = saved
         /\ ~Idle(i)'
<1> DEFINE q == [op |-> op, user |-> u, at |-> step, saved |-> saved]
<1>1. req' = [req EXCEPT ![i] = q] /\ \A k \in Slots : Idle(k)
  BY DEF Begin
<1>2. q \in Request
  BY DEF Request
<1>3. req'[i] = q /\ \A k \in Slots : k # i => req'[k] = req[k]
  BY <1>1 DEF SInv, IInv, TypeOK
<1> QED BY <1>1, <1>2, <1>3, NoneAssumption DEF Idle

\* What Goto does to the one request under way.
LEMMA GotoIs ==
  ASSUME SInv, NEW i \in Slots, ~Idle(i), NEW step \in Steps, Goto(i, step)
  PROVE  /\ \A k \in Slots : k # i => Idle(k) /\ req'[k] = req[k]
         /\ req'[i].op = req[i].op /\ req'[i].user = req[i].user /\ req'[i].at = step
         /\ req'[i].saved = req[i].saved /\ ~Idle(i)'
<1>1. req \in [Slots -> Request \cup {None}] /\ req[i] \in Request
  BY AtStep DEF SInv, IInv, TypeOK
<1>2. req' = [req EXCEPT ![i] = [req[i] EXCEPT !.at = step]]
  BY <1>1 DEF Goto
<1>3. req'[i] \in Request
  BY <1>1, <1>2 DEF Request
<1>4. /\ \A k \in Slots : k # i => req'[k] = req[k]
      /\ req'[i].op = req[i].op /\ req'[i].user = req[i].user /\ req'[i].at = step
      /\ req'[i].saved = req[i].saved
  BY <1>1, <1>2 DEF Request
<1> QED BY <1>3, <1>4, AtStep, NoneAssumption DEF Idle

\* After Finish no request is under way.
LEMMA FinishIs ==
  ASSUME SInv, NEW i \in Slots, ~Idle(i), Finish(i)
  PROVE  Idle(i)' /\ \A k \in Slots : k # i => Idle(k) /\ req'[k] = req[k]
<1>1. req'[i] = None /\ \A k \in Slots : k # i => req'[k] = req[k]
  BY DEF Finish, SInv, IInv, TypeOK
<1> QED BY <1>1, AtStep DEF Idle

-----------------------------------------------------------------------------
(* Requests begin, and move on without touching anyone's standing.         *)

LEMMA BeginsSInv ==
  ASSUME SInv, IInv', Serial, NEW i \in Slots, NEW u \in Users, NEW actor \in Users,
         \/ JoinBegin(i, u) \/ LeaveBegin(i, u) \/ HandBegin(i, u) \/ AdminKickBegin(i, u)
         \/ PromoteBegin(i, actor, u) \/ DemoteBegin(i, actor, u) \/ MuteBegin(i, actor, u)
         \/ \E op \in Removals : RemoveBegin(i, op, actor, u)
  PROVE  SInv'
<1>1. Calm
  BY DEF JoinBegin, LeaveBegin, HandBegin, AdminKickBegin, PromoteBegin, DemoteBegin,
         MuteBegin, RemoveBegin, Calm, redisVars, dbVars, mediaVars, hookVars
<1>2. rows[u] # None => rows[u] \in Row /\ revoked[u] # "removed"
  BY DEF SInv, Standing, RowOK, IInv, TypeOK
<1>3. PICK op \in AllOps, step \in Steps, saved \in Row \cup {None} :
        /\ Begin(i, op, u, step, saved)
        /\ op = "join" => u \notin banned /\ step = "lookup"
        /\ op = "leave" => step = "row" /\ u \notin present'
        /\ op \in WriteBacks =>
              /\ step = "row" /\ saved \in Row /\ revoked[u] # "removed"
              /\ op \in {"hand", "demote"} => saved.role = "listener"
              /\ op = "mute" /\ revoked[u] = "listener" => saved.role = "listener"
        /\ op \in Removals => step = "mark"
  <2>1. CASE JoinBegin(i, u) \/ LeaveBegin(i, u) \/ AdminKickBegin(i, u)
             \/ \E op \in Removals : RemoveBegin(i, op, actor, u)
    BY <2>1 DEF JoinBegin, LeaveBegin, AdminKickBegin, RemoveBegin, AllOps, Steps, Removals,
                WriteBacks
  <2>2. CASE HandBegin(i, u)
    <3>1. PICK raised \in BOOLEAN :
              Begin(i, "hand", u, "row", [rows[u] EXCEPT !.hand = raised])
      BY <2>2 DEF HandBegin
    <3>2. [rows[u] EXCEPT !.hand = raised] \in Row
          /\ [rows[u] EXCEPT !.hand = raised].role = "listener" /\ revoked[u] # "removed"
      BY <1>2, <2>2 DEF HandBegin, Row
    <3> QED BY <3>1, <3>2 DEF AllOps, Steps, Removals, WriteBacks
  <2>3. CASE PromoteBegin(i, actor, u)
    <3>1. [rows[u] EXCEPT !.role = "speaker"] \in Row /\ revoked[u] # "removed"
      BY <1>2, <2>3 DEF PromoteBegin, Moderates, Row, Roles
    <3> QED BY <2>3, <3>1 DEF PromoteBegin, AllOps, Steps, Removals, WriteBacks
  <2>4. CASE DemoteBegin(i, actor, u)
    <3>1. [role |-> "listener", hand |-> FALSE] \in Row /\ revoked[u] # "removed"
      BY <1>2, <2>4 DEF DemoteBegin, Moderates, Row, Roles
    <3> QED BY <2>4, <3>1 DEF DemoteBegin, AllOps, Steps, Removals, WriteBacks
  <2>5. CASE MuteBegin(i, actor, u)
    <3>1. /\ rows[u] \in Row /\ revoked[u] # "removed"
          /\ revoked[u] = "listener" => rows[u].role = "listener"
      BY <1>2, <2>5 DEF MuteBegin, Moderates, SInv, Standing, RowOK
    <3> QED BY <2>5, <3>1 DEF MuteBegin, AllOps, Steps, Removals, WriteBacks
  <2> QED BY <2>1, <2>2, <2>3, <2>4, <2>5
<1>4. /\ Idle(i) /\ \A k \in Slots : k # i => Idle(k) /\ req'[k] = req[k]
      /\ req'[i].op = op /\ req'[i].user = u /\ req'[i].at = step /\ req'[i].saved = saved
  BY <1>3, BeginIs
<1>5. ReqOK(i)'
  BY <1>1, <1>3, <1>4 DEF ReqOK, Calm, WriteBacks, Removals
<1> QED BY <1>1, <1>4, <1>5, CalmStep

\* The steps that read, write the hand queue or the room's status.
LEMMA CalmStepsSInv ==
  ASSUME SInv, IInv', NEW i \in Slots,
         \/ JoinLookup(i) /\ rows[req[i].user] = None
         \/ LeaveCount(i) \/ LeaveEnd(i) \/ LeaveClear(i) \/ HandQueue(i) \/ PromoteQueue(i)
  PROVE  SInv'
<1>1. ~Idle(i)
  BY DEF JoinLookup, LeaveCount, LeaveEnd, LeaveClear, HandQueue, PromoteQueue, At, Idle
<1>2. ReqOK(i) /\ req[i].user \in Users
  BY <1>1, AtStep
<1>3. Calm
  <2>1. LeaveClear(i) => rows' = rows
    <3> SUFFICES ASSUME LeaveClear(i) PROVE rows' = rows
      OBVIOUS
    <3>1. \A w \in Users : rows[w] = None
      BY <1>2 DEF LeaveClear, At, ReqOK
    <3>2. rows = [w \in Users |-> None]
      BY <3>1 DEF SInv, IInv, TypeOK
    <3> QED BY <3>2 DEF LeaveClear, ClearRoomState
  <2> QED BY <2>1 DEF JoinLookup, LeaveCount, LeaveEnd, LeaveClear, HandQueue, PromoteQueue,
                      Calm, redisVars, dbVars, mediaVars, hookVars
<1>4. CASE Finish(i)
  BY <1>1, <1>2, <1>3, <1>4, FinishIs, CalmStep
  DEF JoinLookup, LeaveCount, LeaveEnd, LeaveClear, HandQueue, PromoteQueue, At
<1>5. ASSUME NEW step \in Steps, Goto(i, step),
             \/ req[i].op = "join" /\ req[i].at = "lookup" /\ step = "db"
             \/ /\ req[i].op = "leave" /\ step \in {"end", "clear"}
                /\ \A w \in Users : rows[w] = None
      PROVE  SInv'
  <2>1. /\ \A k \in Slots : k # i => Idle(k) /\ req'[k] = req[k]
        /\ req'[i].op = req[i].op /\ req'[i].user = req[i].user /\ req'[i].at = step
    BY <1>1, <1>5, GotoIs
  <2>2. ReqOK(i)'
    BY <1>2, <1>3, <1>5, <2>1 DEF ReqOK, Calm, WriteBacks, Removals
  <2> QED BY <1>1, <1>2, <1>3, <1>5, <2>1, <2>2, CalmStep
<1>6. JoinLookup(i) /\ rows[req[i].user] = None => Finish(i) \/ Goto(i, "db")
  BY DEF JoinLookup
<1> QED BY <1>2, <1>4, <1>5, <1>6
        DEF JoinLookup, LeaveCount, LeaveEnd, LeaveClear, HandQueue, PromoteQueue, At, ReqOK,
            Steps

-----------------------------------------------------------------------------
(* The steps that change one user's standing.                              *)

\* A report that somebody left is no report that somebody joined.
LEMMA HooksKept ==
  ASSUME hooks' = hooks \/ \E u : hooks' = hooks \cup {LeftHook(u)},
         admitting' = admitting, leaving' = leaving
  PROVE  \A w : SameHooks(w)
<1>1. \A h : h.kind = "joined" => (h \in hooks' <=> h \in hooks)
  BY DEF LeftHook
<1> QED BY <1>1 DEF SameHooks, JoinedPending, PubPending, RemovePending, Deciding

\* A fresh token carries no more than the role in the row.
LEMMA TokenSInv ==
  ASSUME SInv, IInv', NEW i \in Slots, NEW u \in Users, rows[u] # None,
         IssueToken(u, rows[u].role),
         \A k \in Slots : k # i => Idle(k) /\ req'[k] = req[k],
         ~Idle(i) => req[i].user = u /\ req[i].op = "join" /\ req[i].at = "lookup",
         Idle(i)',
         UNCHANGED <<redisVars, dbVars, mediaVars, hookVars, fails>>
  PROVE  SInv'
<1>1. /\ rows' = rows /\ revoked' = revoked /\ marker' = marker /\ lk' = lk
      /\ banned' = banned /\ present' = present /\ hooks' = hooks
      /\ admitting' = admitting /\ leaving' = leaving /\ fails' = fails
  BY DEF redisVars, dbVars, mediaVars, hookVars
<1>2. \A w \in Users : w # u => tokens'[w] = tokens[w]
  BY DEF IssueToken, SInv, IInv, TypeOK
<1>3. revoked[u] # "removed" /\ (revoked[u] = "listener" => rows[u].role = "listener")
  BY DEF SInv, Standing, RowOK
<1>4. revoked[u] = "listener" => (TRUE \in tokens'[u] => TRUE \in tokens[u])
  BY <1>3 DEF IssueToken, CanPublish, Publishing, SInv, IInv, TypeOK
<1>5. \A w : SameHooks(w)
  BY <1>1, HooksKept
<1>6. \A w \in Users : w # u => SameStores(w)
  BY <1>1, <1>2 DEF SameStores
<1>7. Carry(u)
  BY CarryNothing
<1>8. Standing(u)'
  <2>0. Standing(u) /\ SameHooks(u)
    BY <1>5 DEF SInv
  <2>1. RowOK(u)'
    BY <1>1, <2>0 DEF Standing, RowOK
  <2>2. MarkOK(u)'
    BY <1>1, <1>3, <1>4, <1>7, <2>0 DEF Standing, MarkOK, SameHooks, Carry
  <2>3. OutOK(u)'
    BY <1>1, <1>7, <2>0 DEF Standing, OutOK, SameHooks, Carry
  <2>4. PresentOK(u)'
    BY <1>1, <1>7, <2>0 DEF Standing, PresentOK, SameHooks, Carry
  <2> QED BY <2>1, <2>2, <2>3, <2>4 DEF Standing
<1> QED BY <1>1, <1>5, <1>6, <1>8, RequestFrame

LEMMA RefreshSInv ==
  ASSUME SInv, IInv', Serial, NEW i \in Slots, NEW u \in Users,
         \/ RefreshToken(i, u)
         \/ JoinLookup(i) /\ req[i].user = u /\ rows[u] # None
  PROVE  SInv'
<1>1. CASE RefreshToken(i, u)
  <2>1. req' = req /\ \A k \in Slots : Idle(k)
    BY <1>1 DEF RefreshToken
  <2>2. Idle(i)' /\ \A k \in Slots : k # i => Idle(k) /\ req'[k] = req[k]
    BY <2>1 DEF Idle
  <2> QED BY <1>1, <2>1, <2>2, TokenSInv DEF RefreshToken
<1>2. CASE JoinLookup(i) /\ req[i].user = u /\ rows[u] # None
  <2>1. ~Idle(i) /\ req[i].op = "join" /\ req[i].at = "lookup" /\ Finish(i)
        /\ IssueToken(u, rows[u].role)
    BY <1>2 DEF JoinLookup, At, Idle
  <2>2. Idle(i)' /\ \A k \in Slots : k # i => Idle(k) /\ req'[k] = req[k]
    BY <2>1, FinishIs
  <2> QED BY <1>2, <2>1, <2>2, TokenSInv DEF JoinLookup
<1> QED BY <1>1, <1>2

\* A join gives a row, and a fresh standing.
LEMMA JoinSInv ==
  ASSUME SInv, IInv', NEW i \in Slots, JoinDb(i) \/ JoinRow(i) \/ JoinGrant(i)
  PROVE  SInv'
<1>1. ~Idle(i) /\ req[i].op = "join"
  BY DEF JoinDb, JoinRow, JoinGrant, At, Idle
<1>2. PICK u \in Users : u = req[i].user
  BY <1>1, AtStep
<1>3. ReqOK(i) /\ Standing(u)
  BY <1>1, <1>2, AtStep
<1>4. /\ lk' = lk /\ banned' = banned /\ hooks' = hooks
      /\ admitting' = admitting /\ leaving' = leaving /\ fails' = fails
  BY DEF JoinDb, JoinRow, JoinGrant, redisVars, dbVars, mediaVars, hookVars
<1>5. \A w : SameHooks(w)
  BY <1>4, HooksKept
<1>6. \A w \in Users : w # u => SameStores(w)
  BY <1>2, <1>4
  DEF SameStores, JoinDb, JoinRow, JoinGrant, IssueToken, redisVars, dbVars, SInv, IInv, TypeOK
<1>7. /\ \A k \in Slots : k # i => Idle(k) /\ req'[k] = req[k]
      /\ ~Idle(i)' => req'[i].op = "join" /\ req'[i].user = u
      /\ JoinDb(i) => req'[i].at = "row" /\ ~Idle(i)'
      /\ JoinRow(i) => req'[i].at = "unmark" /\ ~Idle(i)'
      /\ JoinGrant(i) => Idle(i)'
  <2>1. {"row", "unmark"} \subseteq Steps
    BY DEF Steps
  <2> QED BY <1>1, <1>2, <2>1, GotoIs, FinishIs DEF JoinDb, JoinRow, JoinGrant
<1>8. CASE JoinDb(i)
  <2>1. /\ rows' = rows /\ revoked' = revoked /\ marker' = marker /\ tokens' = tokens
        /\ req[i].at = "db"
    BY <1>8 DEF JoinDb, At, redisVars
  <2>2. Carry(u)
    BY <1>1, <1>7, <2>1, CarryNothing
  <2>3. RowOK(u)' /\ MarkOK(u)' /\ OutOK(u)'
    BY <1>3, <1>4, <1>5, <2>1, <2>2 DEF Standing, RowOK, MarkOK, OutOK, SameHooks, Carry
  <2>4. PresentOK(u)'
    <3>1. UnderWay(u, {"join"}, {"row"})'
      BY <1>7, <1>8 DEF UnderWay, Doing
    <3> QED BY <3>1 DEF PresentOK
  <2>5. ReqOK(i)'
    BY <1>1, <1>2, <1>3, <1>4, <1>7, <1>8 DEF ReqOK, WriteBacks, Removals
  <2> QED BY <1>1, <1>2, <1>4, <1>5, <1>6, <1>7, <2>3, <2>4, <2>5, RequestFrame DEF Standing
<1>9. CASE JoinRow(i)
  <2>1. rows'[u] # None /\ revoked'[u] = None
    <3>1. [role |-> JoinRole(u), hand |-> FALSE] \in Row
      BY DEF JoinRole, Row, Roles
    <3>2. rows' = [rows EXCEPT ![u] = [role |-> JoinRole(u), hand |-> FALSE]]
          /\ revoked' = [revoked EXCEPT ![u] = None]
      BY <1>2, <1>9 DEF JoinRow
    <3>3. rows'[u] = [role |-> JoinRole(u), hand |-> FALSE] /\ revoked'[u] = None
      BY <1>2, <3>2 DEF SInv, IInv, TypeOK
    <3> QED BY <3>1, <3>3, NoneAssumption
  <2>2. u \notin banned'
    BY <1>1, <1>2, <1>3, <1>4 DEF ReqOK
  <2>3. Standing(u)'
    BY <2>1, <2>2, NoneAssumption DEF Standing, RowOK, MarkOK, OutOK, PresentOK
  <2>4. ReqOK(i)'
    BY <1>7, <1>9, <2>1, <2>2 DEF ReqOK, WriteBacks, Removals
  <2> QED BY <1>1, <1>2, <1>4, <1>5, <1>6, <1>7, <2>3, <2>4, RequestFrame
<1>10. CASE JoinGrant(i)
  <2>1. rows' = rows /\ revoked' = revoked /\ present' = present /\ revoked[u] = None
        /\ req[i].at = "unmark"
    BY <1>1, <1>2, <1>3, <1>10 DEF JoinGrant, At, ReqOK, dbVars
  <2>2. Carry(u)
    BY <1>1, <1>7, <2>1, CarryNothing
  <2>3. Standing(u)'
    BY <1>3, <1>4, <1>5, <2>1, <2>2, NoneAssumption
    DEF Standing, RowOK, MarkOK, OutOK, PresentOK, SameHooks, Carry
  <2> QED BY <1>1, <1>2, <1>4, <1>5, <1>6, <1>7, <1>10, <2>3, RequestFrame
<1> QED BY <1>8, <1>9, <1>10

\* A leave and a write-back of the row that was read.
LEMMA RowsSInv ==
  ASSUME SInv, IInv', NEW i \in Slots, LeaveRow(i) \/ HandRow(i) \/ MuteRow(i)
  PROVE  SInv'
<1>1. ~Idle(i) /\ req[i].at = "row" /\ req[i].op \in {"leave", "hand", "mute"}
  BY DEF LeaveRow, HandRow, MuteRow, At, Idle
<1>2. PICK u \in Users : u = req[i].user
  BY <1>1, AtStep
<1>3. ReqOK(i) /\ Standing(u)
  BY <1>1, <1>2, AtStep
<1>4. /\ lk' = lk /\ banned' = banned /\ hooks' = hooks /\ revoked' = revoked
      /\ marker' = marker /\ tokens' = tokens /\ present' = present
      /\ admitting' = admitting /\ leaving' = leaving /\ fails' = fails
  BY DEF LeaveRow, HandRow, MuteRow, dbVars, mediaVars, hookVars
<1>5. \A w : SameHooks(w)
  BY <1>4, HooksKept
<1>6. \A w \in Users : w # u => SameStores(w)
  BY <1>2, <1>4 DEF SameStores, LeaveRow, HandRow, MuteRow, RemoveRow, SInv, IInv, TypeOK
<1>7. /\ \A k \in Slots : k # i => Idle(k) /\ req'[k] = req[k]
      /\ ~Idle(i)' => /\ req'[i].op \in {"leave", "hand"} /\ req'[i].user = u
                      /\ req'[i].at \in {"count", "queue"}
  <2>1. {"count", "queue"} \subseteq Steps
    BY DEF Steps
  <2> QED BY <1>1, <1>2, <2>1, GotoIs, FinishIs DEF LeaveRow, HandRow, MuteRow, At
<1>8. ~Idle(i)' => ReqOK(i)'
  BY <1>7 DEF ReqOK, WriteBacks, Removals
<1>9. Carry(u)
  BY <1>1, <1>7, CarryNothing
<1>10. /\ LeaveRow(i) => rows'[u] = None /\ u \notin present
       /\ ~LeaveRow(i) => /\ rows'[u] = req[i].saved /\ rows'[u] # None
                          /\ revoked[u] # "removed"
                          /\ revoked[u] = "listener" => rows'[u].role = "listener"
  <2>1. LeaveRow(i) => rows'[u] = None /\ u \notin present
    BY <1>2, <1>3 DEF LeaveRow, At, RemoveRow, ReqOK, SInv, IInv, TypeOK
  <2>2. ~LeaveRow(i) => rows'[u] = req[i].saved /\ req[i].op \in {"hand", "mute"}
    BY <1>2 DEF HandRow, MuteRow, At, SInv, IInv, TypeOK
  <2>3. req[i].op \in {"hand", "mute"} => /\ req[i].saved \in Row /\ revoked[u] # "removed"
                                          /\ revoked[u] = "listener" => req[i].saved.role = "listener"
    BY <1>1, <1>2, <1>3 DEF ReqOK, WriteBacks
  <2> QED BY <2>1, <2>2, <2>3, NoneAssumption
<1>11. RowOK(u)'
  BY <1>3, <1>4, <1>10 DEF Standing, RowOK
<1>12. MarkOK(u)' /\ OutOK(u)'
  BY <1>3, <1>4, <1>5, <1>9 DEF Standing, MarkOK, OutOK, SameHooks, Carry
<1>13. PresentOK(u)'
  BY <1>4, <1>10 DEF PresentOK
<1>14. Standing(u)'
  BY <1>11, <1>12, <1>13 DEF Standing
<1> QED BY <1>1, <1>2, <1>4, <1>5, <1>6, <1>7, <1>8, <1>14, RequestFrame

\* A promotion gives a fresh standing.
LEMMA PromoteSInv ==
  ASSUME SInv, IInv', NEW i \in Slots, PromoteRow(i) \/ PromoteUnmark(i) \/ PromoteLiveKit(i)
  PROVE  SInv'
<1>1. ~Idle(i) /\ req[i].op = "promote"
  BY DEF PromoteRow, PromoteUnmark, PromoteLiveKit, At, Idle
<1>2. PICK u \in Users : u = req[i].user
  BY <1>1, AtStep
<1>3. ReqOK(i) /\ Standing(u)
  BY <1>1, <1>2, AtStep
<1>4. /\ banned' = banned /\ tokens' = tokens /\ present' = present
      /\ admitting' = admitting /\ leaving' = leaving /\ hooks' = hooks
  BY DEF PromoteRow, PromoteUnmark, PromoteLiveKit, SetPermission, CallFails, dbVars,
         mediaVars, hookVars
<1>5. \A w : SameHooks(w)
  BY <1>4, HooksKept
<1>6. \A w \in Users : w # u => SameStores(w)
  BY <1>2, <1>4
  DEF SameStores, PromoteRow, PromoteUnmark, PromoteLiveKit, SetPermission, CallFails,
      redisVars, mediaVars, SInv, IInv, TypeOK
<1>7. /\ \A k \in Slots : k # i => Idle(k) /\ req'[k] = req[k]
      /\ req'[i].op = "promote" /\ req'[i].user = u /\ req'[i].at # "row"
  <2>1. {"unmark", "livekit", "queue"} \subseteq Steps
    BY DEF Steps
  <2> QED BY <1>1, <1>2, <2>1, GotoIs DEF PromoteRow, PromoteUnmark, PromoteLiveKit
<1>8. revoked'[u] = None /\ u \notin banned
  <2>1. CASE PromoteRow(i)
    BY <1>2, <1>3, <2>1
    DEF PromoteRow, At, ReqOK, WriteBacks, Standing, RowOK, SInv, IInv, TypeOK
  <2>2. CASE ~PromoteRow(i)
    <3>1. req[i].at # "row" /\ revoked' = revoked
      BY <2>2 DEF PromoteUnmark, PromoteLiveKit, At, redisVars
    <3> QED BY <1>1, <1>2, <1>3, <3>1, NoneAssumption DEF ReqOK, Standing, RowOK
  <2> QED BY <2>1, <2>2
<1>9. ReqOK(i)'
  BY <1>7, <1>8 DEF ReqOK, WriteBacks, Removals
<1>10. PresentOK(u)'
  <2>1. rows'[u] = rows[u] \/ rows'[u] # None
    BY <1>1, <1>2, <1>3, NoneAssumption
    DEF PromoteRow, PromoteUnmark, PromoteLiveKit, At, ReqOK, WriteBacks, redisVars,
        SInv, IInv, TypeOK
  <2>2. Carry(u)
    BY <1>1, <1>7, CarryNothing
  <2> QED BY <1>3, <1>4, <1>5, <2>1, <2>2 DEF Standing, PresentOK, SameHooks, Carry
<1>11. RowOK(u)' /\ MarkOK(u)' /\ OutOK(u)'
  BY <1>4, <1>8, NoneAssumption DEF RowOK, MarkOK, OutOK
<1>12. fails' = 0 => fails = 0
  BY ConstantsAssumption
  DEF PromoteRow, PromoteUnmark, PromoteLiveKit, SetPermission, CallFails, SInv, IInv, TypeOK
<1>13. Standing(u)'
  BY <1>10, <1>11 DEF Standing
<1> QED BY <1>1, <1>2, <1>4, <1>5, <1>6, <1>7, <1>9, <1>12, <1>13, RequestFrame

\* A demotion leaves a marker before it mutes the connection.
LEMMA DemoteSInv ==
  ASSUME SInv, IInv', NEW i \in Slots, DemoteRow(i) \/ DemoteMark(i) \/ DemoteLiveKit(i)
  PROVE  SInv'
<1>1. ~Idle(i) /\ req[i].op = "demote"
  BY DEF DemoteRow, DemoteMark, DemoteLiveKit, At, Idle
<1>2. PICK u \in Users : u = req[i].user
  BY <1>1, AtStep
<1>3. ReqOK(i) /\ Standing(u)
  BY <1>1, <1>2, AtStep
<1>4. /\ banned' = banned /\ tokens' = tokens /\ present' = present
      /\ admitting' = admitting /\ leaving' = leaving /\ hooks' = hooks
  BY DEF DemoteRow, DemoteMark, DemoteLiveKit, SetPermission, CallFails, dbVars,
         mediaVars, hookVars
<1>5. \A w : SameHooks(w)
  BY <1>4, HooksKept
<1>6. \A w \in Users : w # u => SameStores(w)
  BY <1>2, <1>4
  DEF SameStores, DemoteRow, DemoteMark, DemoteLiveKit, SetPermission, CallFails,
      redisVars, mediaVars, SInv, IInv, TypeOK
<1>7. /\ \A k \in Slots : k # i => Idle(k) /\ req'[k] = req[k]
      /\ DemoteRow(i) => ~Idle(i)' /\ req'[i].at = "mark"
      /\ DemoteMark(i) => ~Idle(i)' /\ req'[i].at = "livekit"
      /\ DemoteLiveKit(i) => Idle(i)'
      /\ ~Idle(i)' => req'[i].op = "demote" /\ req'[i].user = u
  <2>1. {"mark", "livekit"} \subseteq Steps
    BY DEF Steps
  <2> QED BY <1>1, <1>2, <2>1, GotoIs, FinishIs DEF DemoteRow, DemoteMark, DemoteLiveKit
<1>8. revoked'[u] = "listener" /\ u \notin banned
  <2>1. CASE DemoteRow(i)
    BY <1>2, <1>3, <2>1
    DEF DemoteRow, At, ReqOK, WriteBacks, Standing, RowOK, SInv, IInv, TypeOK
  <2>2. CASE ~DemoteRow(i)
    <3>1. req[i].at # "row" /\ revoked' = revoked
      BY <2>2 DEF DemoteMark, DemoteLiveKit, At, redisVars
    <3> QED BY <1>1, <1>2, <1>3, <3>1, NoneAssumption DEF ReqOK, Standing, RowOK
  <2> QED BY <2>1, <2>2
<1>9. /\ DemoteMark(i) => marker'[u] = "listener"
      /\ DemoteLiveKit(i) => marker'[u] # None
  <2>1. DemoteMark(i) => marker'[u] = "listener"
    BY <1>2 DEF DemoteMark, SInv, IInv, TypeOK
  <2>2. DemoteLiveKit(i) => marker'[u] # None
    BY <1>1, <1>2, <1>3 DEF DemoteLiveKit, At, ReqOK, redisVars
  <2> QED BY <2>1, <2>2
<1>10. ~Idle(i)' => ReqOK(i)'
  BY <1>7, <1>8, <1>9, NoneAssumption DEF ReqOK, WriteBacks, Removals
<1>11. RowOK(u)'
  <2>1. CASE DemoteRow(i)
    <3>1. rows'[u].role = "listener"
      BY <1>1, <1>2, <1>3, <2>1 DEF DemoteRow, At, ReqOK, SInv, IInv, TypeOK
    <3> QED BY <1>4, <1>8, <3>1 DEF RowOK
  <2>2. CASE ~DemoteRow(i)
    <3>1. rows' = rows /\ revoked' = revoked
      BY <2>2 DEF DemoteMark, DemoteLiveKit, redisVars
    <3> QED BY <1>3, <1>4, <3>1 DEF Standing, RowOK
  <2> QED BY <2>1, <2>2
<1>12. MarkOK(u)'
  <2>1. DemoteRow(i) => UnderWay(u, {"demote"}, {"mark"})'
    BY <1>7 DEF UnderWay, Doing
  <2> QED BY <1>8, <1>9, <2>1, NoneAssumption DEF MarkOK
<1>13. OutOK(u)'
  <2>1. DemoteRow(i) \/ DemoteMark(i) => UnderWay(u, {"demote"}, {"mark", "livekit"})'
    BY <1>7 DEF UnderWay, Doing
  <2>2. DemoteLiveKit(i) => fails' # 0 \/ lk'[u] # "pub"
    BY <1>2, ConstantsAssumption DEF DemoteLiveKit, SetPermission, CallFails, SInv, IInv, TypeOK
  <2> QED BY <1>8, <2>1, <2>2 DEF OutOK
<1>14. PresentOK(u)'
  <2>1. rows'[u] = rows[u] \/ rows'[u] # None
    BY <1>1, <1>2, <1>3, NoneAssumption
    DEF DemoteRow, DemoteMark, DemoteLiveKit, At, ReqOK, WriteBacks, redisVars,
        SInv, IInv, TypeOK
  <2>2. ~UnderWay(u, {"join"}, {"row"}) /\ ~UnderWay(u, Removals, {"livekit", "db"})
    BY <1>1, <1>7 DEF UnderWay, Doing, Removals
  <2> QED BY <1>3, <1>4, <1>5, <2>1, <2>2 DEF Standing, PresentOK, SameHooks
<1>15. fails' = 0 => fails = 0
  BY ConstantsAssumption
  DEF DemoteRow, DemoteMark, DemoteLiveKit, SetPermission, CallFails, SInv, IInv, TypeOK
<1>16. Standing(u)'
  BY <1>11, <1>12, <1>13, <1>14 DEF Standing
<1> QED BY <1>1, <1>2, <1>5, <1>6, <1>7, <1>10, <1>15, <1>16, RequestFrame

\* A removal leaves a marker before it takes the row, and closes the connection.
LEMMA RemoveSInv ==
  ASSUME SInv, IInv', NEW i \in Slots,
         RemoveMark(i) \/ RemoveRedis(i) \/ RemoveLiveKit(i) \/ RemoveDb(i) \/ BanCommit(i)
  PROVE  SInv'
<1>1. ~Idle(i) /\ req[i].op \in Removals
  BY DEF RemoveMark, RemoveRedis, RemoveLiveKit, RemoveDb, BanCommit, Removing, At, Idle,
         Removals
<1>2. PICK u \in Users : u = req[i].user
  BY <1>1, AtStep
<1>3. ReqOK(i) /\ Standing(u)
  BY <1>1, <1>2, AtStep
<1>4. /\ tokens' = tokens /\ admitting' = admitting /\ leaving' = leaving
      /\ hooks' = hooks \/ \E x : hooks' = hooks \cup {LeftHook(x)}
      /\ present' \subseteq present
      /\ banned' = banned \/ BanCommit(i)
  BY DEF RemoveMark, RemoveRedis, RemoveLiveKit, RemoveDb, BanCommit, Disconnect, CallFails,
         redisVars, dbVars, mediaVars, hookVars
<1>5. \A w : SameHooks(w)
  BY <1>4, HooksKept
<1>6. \A w \in Users : w # u => SameStores(w)
  BY <1>2, <1>4
  DEF SameStores, RemoveMark, RemoveRedis, RemoveLiveKit, RemoveDb, BanCommit, RemoveRow,
      Disconnect, CallFails, redisVars, dbVars, mediaVars, SInv, IInv, TypeOK
<1>7. /\ \A k \in Slots : k # i => Idle(k) /\ req'[k] = req[k]
      /\ ~Idle(i)' => req'[i].op \in Removals /\ req'[i].user = u
      /\ RemoveMark(i) => ~Idle(i)' /\ req'[i].at = "remove"
      /\ RemoveRedis(i) => ~Idle(i)' /\ req'[i].at = "livekit"
      /\ RemoveLiveKit(i) => ~Idle(i)' /\ req'[i].at = "db"
      /\ RemoveDb(i) /\ ~Idle(i)' => req'[i].at = "ban"
      /\ BanCommit(i) => Idle(i)'
  <2>1. {"remove", "livekit", "db", "ban"} \subseteq Steps
    BY DEF Steps
  <2> QED BY <1>1, <1>2, <2>1, GotoIs, FinishIs
          DEF RemoveMark, RemoveRedis, RemoveLiveKit, RemoveDb, BanCommit
<1>8. fails' = 0 => fails = 0
  BY ConstantsAssumption
  DEF RemoveMark, RemoveRedis, RemoveLiveKit, RemoveDb, BanCommit, Disconnect, CallFails,
      SInv, IInv, TypeOK
<1>9. CASE RemoveMark(i)
  <2>1. /\ rows' = rows /\ revoked' = revoked /\ lk' = lk /\ banned' = banned
        /\ fails' = fails /\ req[i].at = "mark"
    BY <1>9 DEF RemoveMark, Removing, At, dbVars, mediaVars
  <2>2. marker'[u] = "removed"
    BY <1>2, <1>9 DEF RemoveMark, SInv, IInv, TypeOK
  <2>3. Carry(u)
    BY <1>1, <1>7, <2>1, CarryNothing
  <2>4. RowOK(u)' /\ MarkOK(u)'
    BY <1>3, <2>1, <2>2, NoneAssumption DEF Standing, RowOK, MarkOK
  <2>5. OutOK(u)' /\ PresentOK(u)'
    BY <1>3, <1>4, <1>5, <2>1, <2>3 DEF Standing, OutOK, PresentOK, SameHooks, Carry
  <2>6. ReqOK(i)'
    BY <1>7, <1>9, <2>2 DEF ReqOK, WriteBacks, Removals
  <2> QED BY <1>1, <1>2, <1>5, <1>6, <1>7, <1>8, <2>4, <2>5, <2>6, RequestFrame DEF Standing
<1>10. CASE RemoveRedis(i)
  <2>1. marker' = marker /\ marker[u] = "removed"
    BY <1>1, <1>2, <1>3, <1>10 DEF RemoveRedis, Removing, At, ReqOK
  <2>2. rows'[u] = None /\ revoked'[u] = "removed"
    BY <1>2, <1>10 DEF RemoveRedis, RemoveRow, SInv, IInv, TypeOK
  <2>3. UnderWay(u, Removals, {"livekit"})' /\ UnderWay(u, Removals, {"livekit", "db"})'
    BY <1>7, <1>10 DEF UnderWay, Doing
  <2>4. Standing(u)'
    BY <2>1, <2>2, <2>3 DEF Standing, RowOK, MarkOK, OutOK, PresentOK
  <2>5. ReqOK(i)'
    BY <1>7, <1>10, <2>2 DEF ReqOK, WriteBacks, Removals
  <2> QED BY <1>1, <1>2, <1>5, <1>6, <1>7, <1>8, <2>4, <2>5, RequestFrame
<1>11. CASE RemoveLiveKit(i)
  <2>1. /\ rows' = rows /\ revoked' = revoked /\ marker' = marker /\ banned' = banned
        /\ revoked[u] = "removed"
    BY <1>1, <1>2, <1>3, <1>11 DEF RemoveLiveKit, Removing, At, ReqOK, redisVars, dbVars
  <2>2. lk'[u] = "off" \/ fails' # 0
    BY <1>2, <1>11, ConstantsAssumption
    DEF RemoveLiveKit, Disconnect, CallFails, SInv, IInv, TypeOK
  <2>3. UnderWay(u, Removals, {"livekit", "db"})'
    BY <1>7, <1>11 DEF UnderWay, Doing
  <2>4. RowOK(u)' /\ MarkOK(u)'
    BY <1>3, <1>4, <1>5, <2>1, NoneAssumption DEF Standing, RowOK, MarkOK, SameHooks
  <2>5. OutOK(u)' /\ PresentOK(u)'
    BY <2>1, <2>2, <2>3 DEF OutOK, PresentOK
  <2>6. ReqOK(i)'
    BY <1>7, <1>11, <2>1 DEF ReqOK, WriteBacks, Removals
  <2> QED BY <1>1, <1>2, <1>5, <1>6, <1>7, <1>8, <2>4, <2>5, <2>6, RequestFrame DEF Standing
<1>12. CASE RemoveDb(i) \/ BanCommit(i)
  <2>1. /\ rows' = rows /\ revoked' = revoked /\ marker' = marker /\ lk' = lk
        /\ fails' = fails /\ revoked[u] = "removed" /\ req[i].at \in {"db", "ban"}
    BY <1>1, <1>2, <1>3, <1>12
    DEF RemoveDb, BanCommit, Removing, At, ReqOK, redisVars, mediaVars, Removals
  <2>2. ~UnderWay(u, Removals, {"livekit"})
    BY <1>1, <1>7, <2>1 DEF UnderWay, Doing
  <2>3. RowOK(u)' /\ MarkOK(u)'
    BY <1>3, <1>4, <1>5, <2>1 DEF Standing, RowOK, MarkOK, SameHooks
  <2>4. OutOK(u)'
    BY <1>3, <1>5, <2>1, <2>2 DEF Standing, OutOK, SameHooks
  <2>5. PresentOK(u)'
    <3>1. CASE RemoveDb(i)
      BY <1>2, <3>1 DEF RemoveDb, PresentOK
    <3>2. CASE BanCommit(i)
      <4>1. ~UnderWay(u, Removals, {"livekit", "db"}) /\ ~UnderWay(u, {"join"}, {"row"})
        BY <1>1, <1>7, <3>2 DEF UnderWay, Doing, BanCommit, At, Removals
      <4>2. present' = present
        BY <3>2 DEF BanCommit
      <4> QED BY <1>3, <1>5, <2>1, <4>1, <4>2 DEF Standing, PresentOK, SameHooks
    <3> QED BY <1>12, <3>1, <3>2
  <2>6. ~Idle(i)' => ReqOK(i)'
    BY <1>7, <1>12, <2>1 DEF ReqOK, WriteBacks, Removals
  <2> QED BY <1>1, <1>2, <1>5, <1>6, <1>7, <1>8, <2>3, <2>4, <2>5, <2>6, RequestFrame
          DEF Standing
<1> QED BY <1>9, <1>10, <1>11, <1>12

-----------------------------------------------------------------------------
(* Clients and webhooks, which run between the steps of the requests.      *)

\* Frame: a client or a webhook of user u concerns nobody else.
LEMMA EnvFrame ==
  ASSUME SInv, IInv', NEW u \in Users,
         req' = req, revoked' = revoked, banned' = banned, present' \subseteq present,
         \A w \in Users : rows'[w] \in {rows[w], None},
         marker' = marker \/ ~\E i \in Slots : ~Idle(i) /\ req[i].user = u,
         \A w \in Users : w # u => SameStores(w) /\ SameHooks(w),
         fails' = 0 => fails = 0,
         (\A w, ops, steps : UnderWay(w, ops, steps)' <=> UnderWay(w, ops, steps))
            => Standing(u)'
  PROVE  SInv'
<1>1. \A w, ops, steps : UnderWay(w, ops, steps)' <=> UnderWay(w, ops, steps)
  BY DEF UnderWay, Doing, Idle
<1>2. OneRequest'
  BY DEF SInv, OneRequest, Idle
<1>3. ASSUME NEW i \in Slots, ~Idle(i)' PROVE ReqOK(i)'
  <2>1. ~Idle(i)
    BY <1>3 DEF Idle
  <2>2. ReqOK(i) /\ req[i].user \in Users
    BY <2>1, AtStep
  <2>3. marker'[req[i].user] = marker[req[i].user]
    BY <2>1, <2>2 DEF SameStores
  <2> QED BY <2>2, <2>3 DEF ReqOK
<1>4. ASSUME NEW w \in Users, w # u PROVE Standing(w)'
  <2>1. Carry(w)
    BY <1>1 DEF Carry
  <2> QED BY <1>4, <2>1, StandingFrame DEF SInv
<1> QED BY <1>1, <1>2, <1>3, <1>4 DEF SInv

LEMMA ConnectSInv ==
  ASSUME SInv, IInv', NEW u \in Users, NEW pub \in BOOLEAN, Connect(u, pub)
  PROVE  SInv'
<1> DEFINE j == [kind |-> "joined", user |-> u, pub |-> pub, n |-> conns + 1]
<1>1. /\ rows' = rows /\ revoked' = revoked /\ marker' = marker /\ tokens' = tokens
      /\ banned' = banned /\ present' = present /\ admitting' = admitting
      /\ leaving' = leaving /\ req' = req /\ fails' = fails
      /\ pub \in tokens[u] /\ lk' = [lk EXCEPT ![u] = IF pub THEN "pub" ELSE "sub"]
  BY DEF Connect, redisVars, dbVars, hookVars
<1>2. j.kind = "joined" /\ j.user = u /\ j.pub = pub
  OBVIOUS
<1>3. /\ j \in hooks'
      /\ \A h : h.kind = "joined" => (h \in hooks' <=> h \in hooks \/ h = j)
  BY DEF Connect, LeftHook
<1> HIDE DEF j
<1>4. \A w \in Users : w # u => SameStores(w) /\ SameHooks(w)
  <2>1. \A w \in Users : w # u => SameStores(w)
    BY <1>1 DEF SameStores, SInv, IInv, TypeOK
  <2>2. \A w \in Users : w # u => SameHooks(w)
    BY <1>1, <1>2, <1>3 DEF SameHooks, JoinedPending, PubPending, RemovePending, Deciding
  <2> QED BY <2>1, <2>2
<1>5. /\ JoinedPending(u)' /\ (pub => PubPending(u)')
      /\ ~pub => (PubPending(u)' <=> PubPending(u))
  BY <1>2, <1>3 DEF JoinedPending, PubPending
<1>6. lk'[u] = "pub" => pub
  BY <1>1 DEF SInv, IInv, TypeOK
<1>7. (\A w, ops, steps : UnderWay(w, ops, steps)' <=> UnderWay(w, ops, steps)) => Standing(u)'
  <2> SUFFICES ASSUME \A w, ops, steps : UnderWay(w, ops, steps)' <=> UnderWay(w, ops, steps)
               PROVE  Standing(u)'
    OBVIOUS
  <2>0. Standing(u)
    BY DEF SInv
  <2>1. RowOK(u)'
    BY <1>1, <2>0 DEF Standing, RowOK
  <2>2. PresentOK(u)'
    BY <1>1, <2>0 DEF Standing, PresentOK
  <2>3. OutOK(u)'
    BY <1>5, <1>6 DEF OutOK
  <2>4. MarkOK(u)'
    <3>1. revoked[u] = "listener" /\ marker[u] = None /\ ~UnderWay(u, {"demote"}, {"mark"})
            => TRUE \notin tokens[u] /\ ~PubPending(u)
      BY <2>0 DEF Standing, MarkOK
    <3>2. TRUE \notin tokens[u] => ~pub
      BY <1>1
    <3> QED BY <1>1, <1>5, <2>0, <3>1, <3>2 DEF Standing, MarkOK
  <2> QED BY <2>1, <2>2, <2>3, <2>4 DEF Standing
<1>8. \A w \in Users : rows'[w] \in {rows[w], None}
  BY <1>1
<1> QED BY <1>1, <1>4, <1>7, <1>8, EnvFrame

LEMMA ClientSInv ==
  ASSUME SInv, IInv', NEW u \in Users, Drop(u) \/ ExpireToken(u) \/ ExpireMarker(u)
  PROVE  SInv'
<1>1. /\ rows' = rows /\ revoked' = revoked /\ banned' = banned /\ present' = present
      /\ admitting' = admitting /\ leaving' = leaving /\ req' = req /\ fails' = fails
      /\ hooks' = hooks \/ \E x : hooks' = hooks \cup {LeftHook(x)}
  BY DEF Drop, ExpireToken, ExpireMarker, Disconnect, redisVars, dbVars, mediaVars, hookVars
<1>2. \A w : SameHooks(w)
  BY <1>1, HooksKept
<1>3. \A w \in Users : w # u => SameStores(w)
  BY <1>1 DEF SameStores, Drop, ExpireToken, ExpireMarker, Disconnect, redisVars, mediaVars,
              SInv, IInv, TypeOK
<1>4. marker' = marker \/ ~\E i \in Slots : ~Idle(i) /\ req[i].user = u
  BY DEF Drop, ExpireToken, ExpireMarker, redisVars
<1>5. /\ lk'[u] = lk[u] \/ lk'[u] = "off"
      /\ tokens'[u] = tokens[u] \/ tokens'[u] = {}
      /\ marker'[u] = marker[u] \/ (tokens'[u] = {} /\ ~JoinedPending(u))
  BY DEF Drop, ExpireToken, ExpireMarker, Disconnect, redisVars, mediaVars, SInv, IInv, TypeOK
<1>6. ~JoinedPending(u) => ~PubPending(u)
  BY DEF JoinedPending, PubPending
<1>7. (\A w, ops, steps : UnderWay(w, ops, steps)' <=> UnderWay(w, ops, steps)) => Standing(u)'
  <2> SUFFICES ASSUME \A w, ops, steps : UnderWay(w, ops, steps)' <=> UnderWay(w, ops, steps)
               PROVE  Standing(u)'
    OBVIOUS
  <2>0. Standing(u) /\ SameHooks(u)
    BY <1>2 DEF SInv
  <2>1. RowOK(u)' /\ PresentOK(u)'
    BY <1>1, <2>0 DEF Standing, RowOK, PresentOK
  <2>2. OutOK(u)'
    BY <1>1, <1>5, <2>0 DEF Standing, OutOK, SameHooks
  <2>3. MarkOK(u)'
    BY <1>1, <1>5, <1>6, <2>0 DEF Standing, MarkOK, SameHooks
  <2> QED BY <2>1, <2>2, <2>3 DEF Standing
<1>8. \A w \in Users : rows'[w] \in {rows[w], None}
  BY <1>1
<1> QED BY <1>1, <1>2, <1>3, <1>4, <1>7, <1>8, EnvFrame

\* The decision about a connection that came with an old token puts it out, or
\* mutes it.
LEMMA JoinedSInv ==
  ASSUME SInv, IInv', NEW h \in hooks, JoinedHook(h)
  PROVE  SInv'
<1>0. h.user \in Users /\ h.kind = "joined"
  BY DEF SInv, IInv, TypeOK, Hook, JoinedHook
<1>a. PICK u \in Users : u = h.user
  BY <1>0
<1> DEFINE a == DecideAdmission(u, h.pub)
           d == [user |-> u, action |-> a]
<1>1. /\ rows' = rows /\ revoked' = revoked /\ marker' = marker /\ tokens' = tokens
      /\ lk' = lk /\ banned' = banned /\ present' = present /\ leaving' = leaving
      /\ req' = req /\ fails' = fails /\ hooks' = hooks \ {h}
      /\ admitting' = IF a = "allow" THEN admitting ELSE admitting \cup {d}
  BY <1>a DEF JoinedHook, redisVars, dbVars
<1>2. d.user = u /\ d.action = a
  OBVIOUS
<1>3. Standing(u)
  BY DEF SInv
<1>4. revoked[u] = "removed" => a = "remove"
  <2>1. revoked[u] = "removed" => rows[u] = None /\ marker[u] = "removed"
    BY <1>0, <1>3, <1>a DEF Standing, RowOK, MarkOK, JoinedPending
  <2> QED BY <2>1 DEF DecideAdmission
<1>5. revoked[u] = "listener" /\ h.pub /\ a = "allow" => UnderWay(u, {"demote"}, {"mark"})
  <2> SUFFICES ASSUME revoked[u] = "listener", h.pub, ~UnderWay(u, {"demote"}, {"mark"})
               PROVE  a # "allow"
    OBVIOUS
  <2>1. /\ u \notin banned /\ (rows[u] # None => rows[u].role = "listener")
        /\ marker[u] \in {"removed", "listener"}
    BY <1>0, <1>3, <1>a DEF Standing, RowOK, MarkOK, PubPending, SInv, IInv, TypeOK
  <2>2. rows[u] # None => a = "downgrade"
    BY <2>1 DEF DecideAdmission, CanPublish, Publishing
  <2>3. rows[u] = None => a \in {"remove", "downgrade"}
    BY <2>1 DEF DecideAdmission
  <2> QED BY <2>2, <2>3
<1> HIDE DEF a, d
<1>6. \A w \in Users : w # u => SameStores(w) /\ SameHooks(w)
  <2>1. \A w \in Users : SameStores(w)
    BY <1>1 DEF SameStores
  <2>2. \A w \in Users : w # u => SameHooks(w)
    BY <1>1, <1>2, <1>a DEF SameHooks, JoinedPending, PubPending, RemovePending, Deciding
  <2> QED BY <2>1, <2>2
<1>7. /\ JoinedPending(u)' => JoinedPending(u)
      /\ PubPending(u)' => PubPending(u)
      /\ Deciding(u) => Deciding(u)'
      /\ a # "allow" => Deciding(u)'
      /\ a = "remove" => RemovePending(u)'
      /\ PubPending(u) /\ ~h.pub => PubPending(u)'
  <2>1. (JoinedPending(u)' => JoinedPending(u)) /\ (PubPending(u)' => PubPending(u))
    BY <1>1 DEF JoinedPending, PubPending
  <2>2. (Deciding(u) => Deciding(u)') /\ (a # "allow" => Deciding(u)')
        /\ (a = "remove" => RemovePending(u)')
    BY <1>1, <1>2 DEF Deciding, RemovePending
  <2>3. PubPending(u) /\ ~h.pub => PubPending(u)'
    BY <1>1 DEF PubPending
  <2> QED BY <2>1, <2>2, <2>3
<1>8. (\A w, ops, steps : UnderWay(w, ops, steps)' <=> UnderWay(w, ops, steps)) => Standing(u)'
  <2> SUFFICES ASSUME \A w, ops, steps : UnderWay(w, ops, steps)' <=> UnderWay(w, ops, steps)
               PROVE  Standing(u)'
    OBVIOUS
  <2>1. RowOK(u)' /\ PresentOK(u)'
    BY <1>1, <1>3 DEF Standing, RowOK, PresentOK
  <2>2. MarkOK(u)'
    BY <1>1, <1>3, <1>7 DEF Standing, MarkOK
  <2>3. OutOK(u)'
    <3>1. UnderWay(u, {"demote"}, {"mark"}) => UnderWay(u, {"demote"}, {"mark", "livekit"})
      BY DEF UnderWay, Doing
    <3> QED BY <1>1, <1>3, <1>4, <1>5, <1>7, <3>1 DEF Standing, OutOK
  <2> QED BY <2>1, <2>2, <2>3 DEF Standing
<1>9. \A w \in Users : rows'[w] \in {rows[w], None}
  BY <1>1
<1> QED BY <1>1, <1>6, <1>8, <1>9, EnvFrame

LEMMA EnforceSInv ==
  ASSUME SInv, IInv', NEW a \in admitting, Enforce(a)
  PROVE  SInv'
<1>1. a.user \in Users
  BY DEF SInv, IInv, TypeOK
<1>2. PICK u \in Users : u = a.user
  BY <1>1
<1>3. /\ rows' = rows /\ revoked' = revoked /\ marker' = marker /\ tokens' = tokens
      /\ banned' = banned /\ present' = present /\ leaving' = leaving
      /\ req' = req /\ admitting' = admitting \ {a}
      /\ hooks' = hooks \/ \E x : hooks' = hooks \cup {LeftHook(x)}
  BY DEF Enforce, Disconnect, SetPermission, CallFails, redisVars, dbVars
<1>4. \A g : g.kind = "joined" => (g \in hooks' <=> g \in hooks)
  BY <1>3 DEF LeftHook
<1>5. \A w : (JoinedPending(w)' <=> JoinedPending(w)) /\ (PubPending(w)' <=> PubPending(w))
  BY <1>4 DEF JoinedPending, PubPending
<1>6. \A w \in Users : w # u => SameStores(w) /\ SameHooks(w)
  <2>1. \A w \in Users : w # u => SameStores(w)
    BY <1>2, <1>3
    DEF SameStores, Enforce, Disconnect, SetPermission, CallFails, SInv, IInv, TypeOK
  <2>2. \A w \in Users : w # u => SameHooks(w)
    BY <1>2, <1>3, <1>5 DEF SameHooks, RemovePending, Deciding
  <2> QED BY <2>1, <2>2
<1>7. \/ lk'[u] = "off" /\ fails' = fails
      \/ /\ lk'[u] # "pub" /\ (lk'[u] # "off" => lk[u] # "off") /\ fails' = fails
         /\ RemovePending(u) => RemovePending(u)'
      \/ fails' # 0
  <2>1. a.action = "downgrade" => (RemovePending(u) => RemovePending(u)')
    BY <1>3 DEF RemovePending
  <2>2. CallFails => fails' # 0
    BY ConstantsAssumption DEF CallFails, SInv, IInv, TypeOK
  <2> QED BY <1>2, <2>1, <2>2 DEF Enforce, Disconnect, SetPermission, SInv, IInv, TypeOK
<1>8. (\A w, ops, steps : UnderWay(w, ops, steps)' <=> UnderWay(w, ops, steps)) => Standing(u)'
  <2> SUFFICES ASSUME \A w, ops, steps : UnderWay(w, ops, steps)' <=> UnderWay(w, ops, steps)
               PROVE  Standing(u)'
    OBVIOUS
  <2>0. Standing(u)
    BY DEF SInv
  <2>1. RowOK(u)' /\ MarkOK(u)' /\ PresentOK(u)'
    BY <1>3, <1>5, <2>0 DEF Standing, RowOK, MarkOK, PresentOK
  <2>2. OutOK(u)'
    BY <1>3, <1>5, <1>7, <2>0 DEF Standing, OutOK
  <2> QED BY <2>1, <2>2 DEF Standing
<1>9. fails' = 0 => fails = 0
  BY <1>7, ConstantsAssumption DEF SInv, IInv, TypeOK
<1>10. \A w \in Users : rows'[w] \in {rows[w], None}
  BY <1>3
<1> QED BY <1>3, <1>6, <1>8, <1>9, <1>10, EnvFrame

LEMMA LeftSInv ==
  ASSUME SInv, IInv', \/ \E h \in hooks : LeftRedis(h)
                      \/ \E h \in leaving : LeftDb(h)
  PROVE  SInv'
<1>1. PICK h \in Hook : LeftRedis(h) \/ LeftDb(h)
  BY DEF SInv, IInv, TypeOK
<1>2. PICK u \in Users : u = h.user
  BY DEF Hook
<1>3. /\ revoked' = revoked /\ marker' = marker /\ tokens' = tokens
      /\ lk' = lk /\ banned' = banned /\ admitting' = admitting /\ present' \subseteq present
      /\ req' = req /\ fails' = fails
      /\ \A w \in Users : rows'[w] \in {rows[w], None} /\ (w # u => rows'[w] = rows[w])
      /\ \A g : g.kind = "joined" => (g \in hooks' <=> g \in hooks)
      /\ \A g : g.user # u => (g \in leaving' <=> g \in leaving)
      /\ \/ h \in leaving'
         \/ u \notin present'
  <2>1. CASE LeftRedis(h)
    BY <1>2, <2>1 DEF LeftRedis, RemoveRow, dbVars, SInv, IInv, TypeOK
  <2>2. CASE LeftDb(h)
    BY <1>2, <2>2 DEF LeftDb, redisVars, mediaVars
  <2> QED BY <1>1, <2>1, <2>2
<1>4. \A w : (JoinedPending(w)' <=> JoinedPending(w)) /\ (PubPending(w)' <=> PubPending(w))
             /\ (RemovePending(w)' <=> RemovePending(w)) /\ (Deciding(w)' <=> Deciding(w))
  BY <1>3 DEF JoinedPending, PubPending, RemovePending, Deciding
<1>5. \A w \in Users : w # u => SameStores(w) /\ SameHooks(w)
  <2>1. \A w \in Users : w # u => SameStores(w)
    BY <1>3 DEF SameStores
  <2>2. \A w \in Users : w # u => SameHooks(w)
    BY <1>3, <1>4 DEF SameHooks
  <2> QED BY <2>1, <2>2
<1>6. (\A w, ops, steps : UnderWay(w, ops, steps)' <=> UnderWay(w, ops, steps)) => Standing(u)'
  <2> SUFFICES ASSUME \A w, ops, steps : UnderWay(w, ops, steps)' <=> UnderWay(w, ops, steps)
               PROVE  Standing(u)'
    OBVIOUS
  <2>0. Standing(u)
    BY DEF SInv
  <2>1. RowOK(u)'
    <3>1. rows'[u] = rows[u] \/ rows'[u] = None
      BY <1>3
    <3> QED BY <1>3, <2>0, <3>1 DEF Standing, RowOK
  <2>2. MarkOK(u)' /\ OutOK(u)'
    BY <1>3, <1>4, <2>0 DEF Standing, MarkOK, OutOK
  <2>3. PresentOK(u)'
    BY <1>2, <1>3 DEF PresentOK
  <2> QED BY <2>1, <2>2, <2>3 DEF Standing
<1> QED BY <1>3, <1>5, <1>6, EnvFrame

-----------------------------------------------------------------------------
(* The invariant, and what follows from it.                                *)

LEMMA InitSInv == Init => SInv
<1> SUFFICES ASSUME Init PROVE SInv
  OBVIOUS
<1>1. IInv
  BY InitIInv
<1>2. OneRequest /\ \A i \in Slots : ~Idle(i) => ReqOK(i)
  BY DEF Init, OneRequest, Idle
<1>3. \A u \in Users : Standing(u)
  <2>1. [role |-> "host", hand |-> FALSE] # None
    <3>1. [role |-> "host", hand |-> FALSE] \in Row
      BY DEF Row, Roles
    <3> QED BY <3>1, NoneAssumption
  <2> QED BY <2>1, NoneAssumption DEF Init, Standing, RowOK, MarkOK, OutOK, PresentOK
<1> QED BY <1>1, <1>2, <1>3 DEF SInv

LEMMA NextSInv ==
  ASSUME Serial
  PROVE  SInv /\ [Next]_vars => SInv'
<1> SUFFICES ASSUME SInv, [Next]_vars PROVE SInv'
  OBVIOUS
<1>0. IInv'
  BY NextIInv DEF SInv
<1>1. ASSUME NEW i \in Slots, RequestBegins(i) PROVE SInv'
  <2>1. Host \in Users
    BY ConstantsAssumption
  <2> QED BY <1>0, <1>1, <2>1, BeginsSInv, RefreshSInv DEF RequestBegins, Removals
<1>2. ASSUME NEW i \in Slots, RequestStep(i) PROVE SInv'
  <2>1. CASE JoinLookup(i)
    <3>1. req[i].user \in Users
      BY <2>1, AtStep DEF JoinLookup, At, Idle
    <3> QED BY <1>0, <2>1, <3>1, CalmStepsSInv, RefreshSInv
  <2> QED BY <1>0, <1>2, <2>1, CalmStepsSInv, JoinSInv, RowsSInv, PromoteSInv, DemoteSInv,
             RemoveSInv DEF RequestStep
<1>3. CASE WebhookStep
  BY <1>0, <1>3, JoinedSInv, EnforceSInv, LeftSInv DEF WebhookStep
<1>4. CASE ClientStep
  BY <1>0, <1>4, ConnectSInv, ClientSInv DEF ClientStep
<1>5. CASE UNCHANGED vars
  <2>1. Calm /\ req' = req
    BY <1>5 DEF vars, Calm
  <2>2. \A w, ops, steps : UnderWay(w, ops, steps)' <=> UnderWay(w, ops, steps)
    BY <2>1 DEF UnderWay, Doing, Idle
  <2>3. \A w \in Users : Standing(w)'
    <3> SUFFICES ASSUME NEW w \in Users PROVE Standing(w)'
      OBVIOUS
    <3>1. Carry(w)
      BY <2>2 DEF Carry
    <3> QED BY <2>1, <3>1, CalmSame, StandingFrame DEF SInv
  <2>4. \A w \in Users : w # Host => SameStores(w) /\ SameHooks(w)
    BY <2>1, CalmSame
  <2> QED BY <1>0, <2>1, <2>3, <2>4, EnvFrame, ConstantsAssumption DEF Calm
<1> QED BY <1>1, <1>2, <1>3, <1>4, <1>5 DEF Next

\* The invariant of serial requests is inductive.
THEOREM SerialInvariance ==
  ASSUME Serial
  PROVE  Spec => []SInv
<1>1. SInv /\ [Next]_vars => SInv'
  BY NextSInv
<1> QED BY <1>1, InitSInv, PTL DEF Spec

\* When all is quiet nobody is left to put anything right, so it is right.
LEMMA QuietStands ==
  ASSUME SInv, Quiet, NEW u \in Users
  PROVE  /\ fails = 0 /\ revoked[u] = "removed" => lk[u] = "off"
         /\ fails = 0 /\ revoked[u] = "listener" => lk[u] # "pub"
         /\ u \in present => rows[u] # None
<1>1. \A ops, steps : ~UnderWay(u, ops, steps)
  BY DEF Quiet, UnderWay, Doing
<1>2. ~JoinedPending(u) /\ ~PubPending(u) /\ ~RemovePending(u) /\ ~Deciding(u)
  BY DEF Quiet, JoinedPending, PubPending, RemovePending, Deciding
<1> QED BY <1>1, <1>2 DEF SInv, Standing, OutOK, PresentOK, Quiet

\* Kicks and demotions hold: whatever tokens the user still had, however often
\* they came back and in whatever order webhooks were handled, a removed user
\* is out and a demoted one cannot publish, unless a call failed.
THEOREM RevocationsHold ==
  ASSUME Serial
  PROVE  Spec => []RevocationHolds
<1>1. SInv => RevocationHolds
  BY QuietStands DEF RevocationHolds
<1> QED BY <1>1, SerialInvariance, PTL

\* A ban is complete, although its record is written last.
THEOREM BansHold ==
  ASSUME Serial
  PROVE  Spec => []BanHolds
<1>1. SInv => BanHolds
  <2> SUFFICES ASSUME SInv, Quiet, fails = 0, NEW u \in banned PROVE lk[u] = "off"
    BY DEF BanHolds
  <2>1. u \in Users
    BY DEF SInv, IInv, TypeOK
  <2>2. revoked[u] = "removed"
    BY <2>1 DEF SInv, Standing, RowOK
  <2> QED BY <2>1, <2>2, QuietStands
<1> QED BY <1>1, SerialInvariance, PTL

\* The participants table and Redis agree on who is there: a user whose left_at
\* is NULL has a row.
THEOREM PresentHaveRows ==
  ASSUME Serial
  PROVE  Spec => []PresentHasRow
<1>1. SInv => PresentHasRow
  <2> SUFFICES ASSUME SInv, Quiet, NEW u \in present PROVE rows[u] # None
    BY DEF PresentHasRow
  <2>1. u \in Users
    BY DEF SInv, IInv, TypeOK
  <2> QED BY <2>1, QuietStands
<1> QED BY <1>1, SerialInvariance, PTL

=============================================================================
