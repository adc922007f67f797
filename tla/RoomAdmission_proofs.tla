------------------------ MODULE RoomAdmission_proofs ------------------------
(***************************************************************************)
(* Proofs about RoomAdmission, for any set of users, any number of         *)
(* concurrent requests and any bounds: type correctness, and that a        *)
(* connection opened after the ban was written is always on its way out.   *)
(*                                                                         *)
(* BannedCannotReconnect is not inductive: that the webhook of such a      *)
(* connection is answered with "remove" needs the user still to be banned  *)
(* when the webhook is handled, and the numbering of the reports of closed *)
(* connections needs a connection to have been counted.                    *)
(***************************************************************************)
EXTENDS RoomAdmission, TLAPS

\* A connection opened under a ban is one of a user who is banned now.
BanLasts == \A u \in Users : sinceBan[u] => u \in banned

\* A connection that is open has been counted.
OpenCounted == \A u \in Users : lk[u] # "off" => conns > 0

IInv == TypeOK /\ BanLasts /\ OpenCounted /\ BannedCannotReconnect

\* Init establishes the invariant.
LEMMA InitIInv == Init => IInv
  BY ConstantsAssumption
  DEF Init, IInv, TypeOK, Row, Roles, BanLasts, OpenCounted, BannedCannotReconnect

-----------------------------------------------------------------------------
(* Requests. *)

\* What Begin, Goto and Finish do to the handlers keeps them typed.
LEMMA BeginType ==
  ASSUME TypeOK, NEW i \in Slots, NEW op \in AllOps, NEW u \in Users,
         NEW step \in Steps, NEW saved \in Row \cup {None},
         Begin(i, op, u, step, saved)
  PROVE  /\ req' \in [Slots -> Request \cup {None}]
         /\ reqs' \in 0..MaxReq
  BY ConstantsAssumption DEF TypeOK, Begin, Request

LEMMA GotoType ==
  ASSUME TypeOK, NEW i \in Slots, NEW step \in Steps, req[i] # None, Goto(i, step)
  PROVE  /\ req' \in [Slots -> Request \cup {None}]
         /\ reqs' \in 0..MaxReq
  BY DEF TypeOK, Goto, Request

LEMMA FinishType ==
  ASSUME TypeOK, NEW i \in Slots, Finish(i)
  PROVE  /\ req' \in [Slots -> Request \cup {None}]
         /\ reqs' \in 0..MaxReq
  BY DEF TypeOK, Finish

\* An issued token carries a Boolean grant.
LEMMA TokenType ==
  ASSUME tokens \in [Users -> SUBSET BOOLEAN], NEW u \in Users, NEW role,
         IssueToken(u, role)
  PROVE  tokens' \in [Users -> SUBSET BOOLEAN]
<1> DEFINE g == CanPublish(role)
<1>1. g \in BOOLEAN
  BY DEF CanPublish
<1> HIDE DEF g
<1>2. tokens[u] \cup {g} \in SUBSET BOOLEAN
  BY <1>1
<1>3. tokens' = [tokens EXCEPT ![u] = tokens[u] \cup {g}]
  BY DEF IssueToken, g
<1> QED BY <1>2, <1>3

\* The type of everything a request can change, other than the connections.
Stores ==
    /\ status \in {"active", "ended"}
    /\ revoked \in [Users -> {None, "removed", "listener"}]
    /\ rows \in [Users -> Row \cup {None}]
    /\ queue \subseteq Users
    /\ marker \in [Users -> {None, "removed", "listener"}]
    /\ present \subseteq Users
    /\ banned \subseteq Users
    /\ tokens \in [Users -> SUBSET BOOLEAN]
    /\ req \in [Slots -> Request \cup {None}]
    /\ reqs \in 0..MaxReq

\* A step that leaves the media server and the webhooks alone and lifts no ban
\* preserves the invariant when it keeps the stores typed.
LEMMA StoresFrame ==
  ASSUME IInv, Stores', banned \subseteq banned',
         UNCHANGED <<mediaVars, hookVars, fails>>
  PROVE  IInv'
<1>1. TypeOK'
  BY DEF IInv, TypeOK, Stores, mediaVars, hookVars, Hook
<1>2. BanLasts' /\ OpenCounted'
  BY DEF IInv, BanLasts, OpenCounted, mediaVars
<1>3. BannedCannotReconnect'
  BY DEF IInv, BannedCannotReconnect, JoinedPending, RemovePending, mediaVars,
         hookVars
<1> QED BY <1>1, <1>2, <1>3 DEF IInv

\* A step that only changes permissions of open connections, closes
\* connections and reports them, or loses the call, preserves the invariant.
LEMMA MediaFrame ==
  ASSUME IInv, Stores', banned' = banned, NEW u \in Users,
         \/ \E perm \in {"sub", "pub"} : SetPermission(u, perm)
         \/ Disconnect(u)
         \/ CallFails,
         UNCHANGED <<sinceBan, conns, hookVars>>
  PROVE  IInv'
<1>1. CASE \E perm \in {"sub", "pub"} : SetPermission(u, perm)
  <2>1. TypeOK'
    BY <1>1 DEF IInv, TypeOK, Stores, hookVars, SetPermission, Hook
  <2>2. BanLasts' /\ OpenCounted'
    BY <1>1 DEF IInv, TypeOK, BanLasts, OpenCounted, SetPermission
  <2>3. BannedCannotReconnect'
    BY <1>1 DEF IInv, TypeOK, BannedCannotReconnect, JoinedPending,
                RemovePending, SetPermission, hookVars
  <2> QED BY <2>1, <2>2, <2>3 DEF IInv
<1>2. CASE Disconnect(u)
  <2>1. lk[u] # "off" => LeftHook(u) \in Hook
    BY ConstantsAssumption DEF IInv, TypeOK, OpenCounted, LeftHook, Hook
  <2>2. TypeOK'
    BY <1>2, <2>1 DEF IInv, TypeOK, Stores, hookVars, Disconnect, Hook
  <2>3. BanLasts' /\ OpenCounted'
    BY <1>2 DEF IInv, TypeOK, BanLasts, OpenCounted, Disconnect
  <2>4. BannedCannotReconnect'
    BY <1>2 DEF IInv, TypeOK, BannedCannotReconnect, JoinedPending,
                RemovePending, Disconnect, hookVars
  <2> QED BY <2>2, <2>3, <2>4 DEF IInv
<1>3. CASE CallFails
  <2>1. TypeOK' /\ fails' # 0
    BY <1>3, ConstantsAssumption
    DEF IInv, TypeOK, Stores, hookVars, CallFails, Hook
  <2>2. BanLasts' /\ OpenCounted'
    BY <1>3 DEF IInv, BanLasts, OpenCounted, CallFails
  <2> QED BY <2>1, <2>2 DEF IInv, BannedCannotReconnect
<1> QED BY <1>1, <1>2, <1>3
-----------------------------------------------------------------------------
(* One lemma for the steps of each request. *)

\* The handlers' frames, expanded in the proofs below.
USE DEF redisVars, dbVars

LEMMA JoinIInv ==
  ASSUME IInv, NEW i \in Slots,
         \/ \E u \in Users : JoinBegin(i, u) \/ RefreshToken(i, u)
         \/ JoinLookup(i) \/ JoinDb(i) \/ JoinRow(i) \/ JoinGrant(i)
  PROVE  IInv'
<1>0. TypeOK
  BY DEF IInv
<1>1. ASSUME NEW u \in Users, JoinBegin(i, u) PROVE IInv'
  <2>1. req' \in [Slots -> Request \cup {None}] /\ reqs' \in 0..MaxReq
    BY <1>0, <1>1, BeginType DEF JoinBegin, AllOps, Steps
  <2>2. Stores'
    BY <1>0, <1>1, <2>1 DEF TypeOK, JoinBegin, Stores
  <2> QED BY <1>1, <2>2, StoresFrame DEF JoinBegin
<1>2. ASSUME NEW u \in Users, RefreshToken(i, u) PROVE IInv'
  <2>1. Stores'
    BY <1>0, <1>2, TokenType DEF TypeOK, RefreshToken, Stores
  <2> QED BY <1>2, <2>1, StoresFrame DEF RefreshToken
<1>3. CASE JoinLookup(i)
  <2>1. req[i] # None /\ req[i].user \in Users
    BY <1>0, <1>3 DEF TypeOK, Request, JoinLookup, At
  <2>2. req' \in [Slots -> Request \cup {None}] /\ reqs' \in 0..MaxReq
    BY <1>0, <1>3, <2>1, GotoType, FinishType DEF JoinLookup, Steps
  <2>3. Stores'
    BY <1>0, <1>3, <2>1, <2>2, TokenType DEF TypeOK, JoinLookup, Stores
  <2> QED BY <1>3, <2>3, StoresFrame DEF JoinLookup
<1>4. CASE JoinDb(i)
  <2>1. req[i] # None /\ req[i].user \in Users
    BY <1>0, <1>4 DEF TypeOK, Request, JoinDb, At
  <2>2. req' \in [Slots -> Request \cup {None}] /\ reqs' \in 0..MaxReq
    BY <1>0, <1>4, <2>1, GotoType DEF JoinDb, Steps
  <2>3. Stores'
    BY <1>0, <1>4, <2>1, <2>2 DEF TypeOK, JoinDb, Stores
  <2> QED BY <1>4, <2>3, StoresFrame DEF JoinDb
<1>5. CASE JoinRow(i)
  <2>1. req[i] # None /\ req[i].user \in Users
    BY <1>0, <1>5 DEF TypeOK, Request, JoinRow, At
  <2>2. req' \in [Slots -> Request \cup {None}] /\ reqs' \in 0..MaxReq
    BY <1>0, <1>5, <2>1, GotoType DEF JoinRow, Steps
  <2>3. [role |-> JoinRole(req[i].user), hand |-> FALSE] \in Row
    BY DEF JoinRole, Row, Roles
  <2>4. Stores'
    BY <1>0, <1>5, <2>1, <2>2, <2>3 DEF TypeOK, JoinRow, Stores
  <2> QED BY <1>5, <2>4, StoresFrame DEF JoinRow
<1>6. CASE JoinGrant(i)
  <2>1. req[i] # None /\ req[i].user \in Users
    BY <1>0, <1>6 DEF TypeOK, Request, JoinGrant, At
  <2>2. req' \in [Slots -> Request \cup {None}] /\ reqs' \in 0..MaxReq
    BY <1>0, <1>6, FinishType DEF JoinGrant
  <2>3. Stores'
    BY <1>0, <1>6, <2>1, <2>2, TokenType DEF TypeOK, JoinGrant, Stores
  <2> QED BY <1>6, <2>3, StoresFrame DEF JoinGrant
<1> QED BY <1>1, <1>2, <1>3, <1>4, <1>5, <1>6

LEMMA LeaveIInv ==
  ASSUME IInv, NEW i \in Slots,
         \/ \E u \in Users : LeaveBegin(i, u)
         \/ LeaveRow(i) \/ LeaveCount(i) \/ LeaveEnd(i) \/ LeaveClear(i)
  PROVE  IInv'
<1>0. TypeOK
  BY DEF IInv
<1>1. ASSUME NEW u \in Users, LeaveBegin(i, u) PROVE IInv'
  <2>1. req' \in [Slots -> Request \cup {None}] /\ reqs' \in 0..MaxReq
    BY <1>0, <1>1, BeginType DEF LeaveBegin, AllOps, Steps
  <2>2. Stores'
    BY <1>0, <1>1, <2>1 DEF TypeOK, LeaveBegin, Stores
  <2> QED BY <1>1, <2>2, StoresFrame DEF LeaveBegin
<1>2. CASE LeaveRow(i) \/ LeaveCount(i) \/ LeaveEnd(i) \/ LeaveClear(i)
  <2>1. req[i] # None /\ req[i].user \in Users
    BY <1>0, <1>2
    DEF TypeOK, Request, LeaveRow, LeaveCount, LeaveEnd, LeaveClear, At
  <2>2. req' \in [Slots -> Request \cup {None}] /\ reqs' \in 0..MaxReq
    BY <1>0, <1>2, <2>1, GotoType, FinishType
    DEF LeaveRow, LeaveCount, LeaveEnd, LeaveClear, Steps
  <2>3. Stores'
    BY <1>0, <1>2, <2>1, <2>2
    DEF TypeOK, LeaveRow, LeaveCount, LeaveEnd, LeaveClear, RemoveRow,
        ClearRoomState, Stores
  <2> QED BY <1>2, <2>3, StoresFrame
          DEF LeaveRow, LeaveCount, LeaveEnd, LeaveClear
<1> QED BY <1>1, <1>2

LEMMA HandIInv ==
  ASSUME IInv, NEW i \in Slots,
         \/ \E u \in Users : HandBegin(i, u)
         \/ HandRow(i) \/ HandQueue(i)
  PROVE  IInv'
<1>0. TypeOK
  BY DEF IInv
<1>1. ASSUME NEW u \in Users, HandBegin(i, u) PROVE IInv'
  <2>1. PICK raised \in BOOLEAN :
            Begin(i, "hand", u, "row", [rows[u] EXCEPT !.hand = raised])
    BY <1>1 DEF HandBegin
  <2>2. [rows[u] EXCEPT !.hand = raised] \in Row
    BY <1>0, <1>1 DEF HandBegin, TypeOK, Row
  <2>3. req' \in [Slots -> Request \cup {None}] /\ reqs' \in 0..MaxReq
    BY <1>0, <2>1, <2>2, BeginType DEF AllOps, Steps
  <2>4. Stores'
    BY <1>0, <1>1, <2>3 DEF TypeOK, HandBegin, Stores
  <2> QED BY <1>1, <2>4, StoresFrame DEF HandBegin
<1>2. CASE HandRow(i) \/ HandQueue(i)
  <2>1. req[i] # None /\ req[i].user \in Users /\ req[i].saved \in Row \cup {None}
    BY <1>0, <1>2 DEF TypeOK, Request, HandRow, HandQueue, At
  <2>2. req' \in [Slots -> Request \cup {None}] /\ reqs' \in 0..MaxReq
    BY <1>0, <1>2, <2>1, GotoType, FinishType DEF HandRow, HandQueue, Steps
  <2>3. Stores'
    BY <1>0, <1>2, <2>1, <2>2 DEF TypeOK, HandRow, HandQueue, Stores
  <2> QED BY <1>2, <2>3, StoresFrame DEF HandRow, HandQueue
<1> QED BY <1>1, <1>2

LEMMA PromoteIInv ==
  ASSUME IInv, NEW i \in Slots,
         \/ \E actor \in Users, u \in Users : PromoteBegin(i, actor, u)
         \/ PromoteRow(i) \/ PromoteUnmark(i) \/ PromoteLiveKit(i)
         \/ PromoteQueue(i)
  PROVE  IInv'
<1>0. TypeOK
  BY DEF IInv
<1>1. ASSUME NEW actor \in Users, NEW u \in Users, PromoteBegin(i, actor, u)
      PROVE  IInv'
  <2>1. [rows[u] EXCEPT !.role = "speaker"] \in Row
    BY <1>0, <1>1 DEF PromoteBegin, Moderates, TypeOK, Row, Roles
  <2>2. req' \in [Slots -> Request \cup {None}] /\ reqs' \in 0..MaxReq
    BY <1>0, <1>1, <2>1, BeginType DEF PromoteBegin, AllOps, Steps
  <2>3. Stores'
    BY <1>0, <1>1, <2>2 DEF TypeOK, PromoteBegin, Stores
  <2> QED BY <1>1, <2>3, StoresFrame DEF PromoteBegin
<1>2. CASE PromoteRow(i) \/ PromoteUnmark(i) \/ PromoteQueue(i)
  <2>1. req[i] # None /\ req[i].user \in Users /\ req[i].saved \in Row \cup {None}
    BY <1>0, <1>2
    DEF TypeOK, Request, PromoteRow, PromoteUnmark, PromoteQueue, At
  <2>2. req' \in [Slots -> Request \cup {None}] /\ reqs' \in 0..MaxReq
    BY <1>0, <1>2, <2>1, GotoType, FinishType
    DEF PromoteRow, PromoteUnmark, PromoteQueue, Steps
  <2>3. Stores'
    BY <1>0, <1>2, <2>1, <2>2
    DEF TypeOK, PromoteRow, PromoteUnmark, PromoteQueue, Stores
  <2> QED BY <1>2, <2>3, StoresFrame DEF PromoteRow, PromoteUnmark, PromoteQueue
<1>3. CASE PromoteLiveKit(i)
  <2>1. req[i] # None /\ req[i].user \in Users
    BY <1>0, <1>3 DEF TypeOK, Request, PromoteLiveKit, At
  <2>2. req' \in [Slots -> Request \cup {None}] /\ reqs' \in 0..MaxReq
    BY <1>0, <1>3, <2>1, GotoType DEF PromoteLiveKit, Steps
  <2>3. Stores'
    BY <1>0, <1>3, <2>2 DEF TypeOK, PromoteLiveKit, Stores
  <2> QED BY <1>3, <2>1, <2>3, MediaFrame DEF PromoteLiveKit
<1> QED BY <1>1, <1>2, <1>3

LEMMA DemoteIInv ==
  ASSUME IInv, NEW i \in Slots,
         \/ \E actor \in Users, u \in Users : DemoteBegin(i, actor, u)
         \/ DemoteRow(i) \/ DemoteMark(i) \/ DemoteLiveKit(i)
  PROVE  IInv'
<1>0. TypeOK
  BY DEF IInv
<1>1. ASSUME NEW actor \in Users, NEW u \in Users, DemoteBegin(i, actor, u)
      PROVE  IInv'
  <2>1. [role |-> "listener", hand |-> FALSE] \in Row
    BY DEF Row, Roles
  <2>2. req' \in [Slots -> Request \cup {None}] /\ reqs' \in 0..MaxReq
    BY <1>0, <1>1, <2>1, BeginType DEF DemoteBegin, AllOps, Steps
  <2>3. Stores'
    BY <1>0, <1>1, <2>2 DEF TypeOK, DemoteBegin, Stores
  <2> QED BY <1>1, <2>3, StoresFrame DEF DemoteBegin
<1>2. CASE DemoteRow(i) \/ DemoteMark(i)
  <2>1. req[i] # None /\ req[i].user \in Users /\ req[i].saved \in Row \cup {None}
    BY <1>0, <1>2 DEF TypeOK, Request, DemoteRow, DemoteMark, At
  <2>2. req' \in [Slots -> Request \cup {None}] /\ reqs' \in 0..MaxReq
    BY <1>0, <1>2, <2>1, GotoType DEF DemoteRow, DemoteMark, Steps
  <2>3. Stores'
    BY <1>0, <1>2, <2>1, <2>2 DEF TypeOK, DemoteRow, DemoteMark, Stores
  <2> QED BY <1>2, <2>3, StoresFrame DEF DemoteRow, DemoteMark
<1>3. CASE DemoteLiveKit(i)
  <2>1. req[i] # None /\ req[i].user \in Users
    BY <1>0, <1>3 DEF TypeOK, Request, DemoteLiveKit, At
  <2>2. req' \in [Slots -> Request \cup {None}] /\ reqs' \in 0..MaxReq
    BY <1>0, <1>3, FinishType DEF DemoteLiveKit
  <2>3. Stores'
    BY <1>0, <1>3, <2>2 DEF TypeOK, DemoteLiveKit, Stores
  <2> QED BY <1>3, <2>1, <2>3, MediaFrame DEF DemoteLiveKit
<1> QED BY <1>1, <1>2, <1>3

LEMMA MuteIInv ==
  ASSUME IInv, NEW i \in Slots,
         \/ \E actor \in Users, u \in Users : MuteBegin(i, actor, u)
         \/ MuteRow(i)
  PROVE  IInv'
<1>0. TypeOK
  BY DEF IInv
<1>1. ASSUME NEW actor \in Users, NEW u \in Users, MuteBegin(i, actor, u)
      PROVE  IInv'
  <2>1. req' \in [Slots -> Request \cup {None}] /\ reqs' \in 0..MaxReq
    BY <1>0, <1>1, BeginType DEF MuteBegin, TypeOK, AllOps, Steps
  <2>2. Stores'
    BY <1>0, <1>1, <2>1 DEF TypeOK, MuteBegin, Stores
  <2> QED BY <1>1, <2>2, StoresFrame DEF MuteBegin
<1>2. CASE MuteRow(i)
  <2>1. req[i] # None /\ req[i].user \in Users /\ req[i].saved \in Row \cup {None}
    BY <1>0, <1>2 DEF TypeOK, Request, MuteRow, At
  <2>2. req' \in [Slots -> Request \cup {None}] /\ reqs' \in 0..MaxReq
    BY <1>0, <1>2, FinishType DEF MuteRow
  <2>3. Stores'
    BY <1>0, <1>2, <2>1, <2>2 DEF TypeOK, MuteRow, Stores
  <2> QED BY <1>2, <2>3, StoresFrame DEF MuteRow
<1> QED BY <1>1, <1>2

\* Kick and ban.
LEMMA RemoveIInv ==
  ASSUME IInv, NEW i \in Slots,
         \/ \E op \in {"kick", "ban"}, actor \in Users, u \in Users :
                RemoveBegin(i, op, actor, u)
         \/ \E u \in Users : AdminKickBegin(i, u)
         \/ RemoveMark(i) \/ RemoveRedis(i) \/ RemoveLiveKit(i) \/ RemoveDb(i)
         \/ BanCommit(i)
  PROVE  IInv'
<1>0. TypeOK
  BY DEF IInv
<1>1. ASSUME NEW op \in {"kick", "ban"}, NEW actor \in Users, NEW u \in Users,
             RemoveBegin(i, op, actor, u)
      PROVE  IInv'
  <2>1. req' \in [Slots -> Request \cup {None}] /\ reqs' \in 0..MaxReq
    BY <1>0, <1>1, BeginType DEF RemoveBegin, AllOps, Steps
  <2>2. Stores'
    BY <1>0, <1>1, <2>1 DEF TypeOK, RemoveBegin, Stores
  <2> QED BY <1>1, <2>2, StoresFrame DEF RemoveBegin
<1>2. ASSUME NEW u \in Users, AdminKickBegin(i, u) PROVE IInv'
  <2>1. req' \in [Slots -> Request \cup {None}] /\ reqs' \in 0..MaxReq
    BY <1>0, <1>2, BeginType DEF AdminKickBegin, AllOps, Steps
  <2>2. Stores'
    BY <1>0, <1>2, <2>1 DEF TypeOK, AdminKickBegin, Stores
  <2> QED BY <1>2, <2>2, StoresFrame DEF AdminKickBegin
<1>3. CASE RemoveMark(i) \/ RemoveRedis(i) \/ RemoveDb(i) \/ BanCommit(i)
  <2>1. req[i] # None /\ req[i].user \in Users
    BY <1>0, <1>3
    DEF TypeOK, Request, RemoveMark, RemoveRedis, RemoveDb, BanCommit, Removing,
        At
  <2>2. req' \in [Slots -> Request \cup {None}] /\ reqs' \in 0..MaxReq
    BY <1>0, <1>3, <2>1, GotoType, FinishType
    DEF RemoveMark, RemoveRedis, RemoveDb, BanCommit, Steps
  <2>3. Stores'
    BY <1>0, <1>3, <2>1, <2>2
    DEF TypeOK, RemoveMark, RemoveRedis, RemoveDb, BanCommit, RemoveRow, Stores
  <2> QED BY <1>3, <2>3, StoresFrame
          DEF RemoveMark, RemoveRedis, RemoveDb, BanCommit
<1>4. CASE RemoveLiveKit(i)
  <2>1. req[i] # None /\ req[i].user \in Users
    BY <1>0, <1>4 DEF TypeOK, Request, RemoveLiveKit, Removing, At
  <2>2. req' \in [Slots -> Request \cup {None}] /\ reqs' \in 0..MaxReq
    BY <1>0, <1>4, <2>1, GotoType DEF RemoveLiveKit, Steps
  <2>3. Stores'
    BY <1>0, <1>4, <2>2 DEF TypeOK, RemoveLiveKit, Stores
  <2> QED BY <1>4, <2>1, <2>3, MediaFrame DEF RemoveLiveKit
<1> QED BY <1>1, <1>2, <1>3, <1>4

-----------------------------------------------------------------------------
(* Clients and webhooks. *)

LEMMA ClientIInv ==
  ASSUME IInv, ClientStep
  PROVE  IInv'
<1>0. TypeOK
  BY DEF IInv
<1>1. ASSUME NEW u \in Users, NEW pub \in BOOLEAN, Connect(u, pub) PROVE IInv'
  <2> DEFINE joined == [kind |-> "joined", user |-> u, pub |-> pub, n |-> conns + 1]
  <2>1. joined \in Hook /\ (lk[u] # "off" => LeftHook(u) \in Hook)
    BY <1>1, ConstantsAssumption
    DEF IInv, TypeOK, OpenCounted, Connect, LeftHook, Hook
  <2>2. hooks' \subseteq Hook /\ joined \in hooks' /\ hooks \subseteq hooks'
    BY <1>0, <1>1, <2>1 DEF TypeOK, Connect
  <2>3. TypeOK'
    <3>1. sinceBan' \in [Users -> BOOLEAN]
      <4> DEFINE b == u \in banned
      <4>1. b \in BOOLEAN
        OBVIOUS
      <4> HIDE DEF b
      <4>2. sinceBan' = [sinceBan EXCEPT ![u] = b]
        BY <1>1 DEF Connect, b
      <4> QED BY <1>0, <4>1, <4>2 DEF TypeOK
    <3> QED BY <1>0, <1>1, <2>2, <3>1, ConstantsAssumption
            DEF TypeOK, Connect, hookVars, Hook
  <2>4. BanLasts' /\ OpenCounted'
    BY <1>1, ConstantsAssumption
    DEF IInv, TypeOK, BanLasts, OpenCounted, Connect
  <2>5. BannedCannotReconnect'
    <3>1. JoinedPending(u)'
      BY <2>2 DEF JoinedPending
    <3>2. \A w \in Users \ {u} : lk'[w] = lk[w] /\ sinceBan'[w] = sinceBan[w]
      BY <1>0, <1>1 DEF TypeOK, Connect
    <3>3. \A w \in Users : (JoinedPending(w) => JoinedPending(w)')
                        /\ (RemovePending(w) <=> RemovePending(w)')
      BY <1>1, <2>2 DEF JoinedPending, RemovePending, Connect, hookVars
    <3>4. fails' = fails
      BY <1>1 DEF Connect
    <3> QED BY <3>1, <3>2, <3>3, <3>4 DEF IInv, BannedCannotReconnect
  <2> QED BY <2>3, <2>4, <2>5 DEF IInv
<1>2. ASSUME NEW u \in Users, Drop(u) PROVE IInv'
  <2>1. Stores' /\ banned' = banned
    BY <1>0, <1>2 DEF TypeOK, Drop, Stores
  <2> QED BY <1>2, <2>1, MediaFrame DEF Drop
<1>3. ASSUME NEW u \in Users, ExpireToken(u) \/ ExpireMarker(u) PROVE IInv'
  <2>1. Stores' /\ banned' = banned
    BY <1>0, <1>3 DEF TypeOK, ExpireToken, ExpireMarker, Stores
  <2> QED BY <1>3, <2>1, StoresFrame DEF ExpireToken, ExpireMarker
<1> QED BY <1>1, <1>2, <1>3 DEF ClientStep

\* A banned user's admission is always refused.
LEMMA BannedRefused ==
  ASSUME NEW u \in banned, NEW pub
  PROVE  DecideAdmission(u, pub) = "remove"
  BY DEF DecideAdmission

LEMMA DecideType ==
  ASSUME NEW u, NEW pub
  PROVE  DecideAdmission(u, pub) \in Actions
  BY DEF DecideAdmission, Actions

LEMMA WebhookIInv ==
  ASSUME IInv, WebhookStep
  PROVE  IInv'
<1>0. TypeOK
  BY DEF IInv
<1>1. ASSUME NEW h \in hooks, JoinedHook(h) PROVE IInv'
  <2> DEFINE a == DecideAdmission(h.user, h.pub)
  <2>0. h.user \in Users /\ a \in Actions
    BY <1>0, DecideType DEF TypeOK, Hook
  <2>1. /\ admitting' = IF a = "allow" THEN admitting
                        ELSE admitting \cup {[user |-> h.user, action |-> a]}
        /\ hooks' = hooks \ {h}
        /\ UNCHANGED <<redisVars, dbVars, tokens, lk, sinceBan, conns, leaving,
                       req, reqs, fails>>
    BY <1>1 DEF JoinedHook
  <2>2. h.user \in banned => a = "remove"
    BY BannedRefused
  <2> HIDE DEF a
  <2>3. TypeOK'
    BY <1>0, <2>0, <2>1 DEF TypeOK, Hook, Actions
  <2>4. BanLasts' /\ OpenCounted'
    BY <2>1 DEF IInv, BanLasts, OpenCounted
  <2>5. ASSUME NEW w \in Users, lk'[w] # "off", sinceBan'[w], fails' = 0
        PROVE  JoinedPending(w)' \/ RemovePending(w)'
    <3>1. w \in banned /\ (JoinedPending(w) \/ RemovePending(w))
      BY <2>1, <2>5 DEF IInv, BanLasts, BannedCannotReconnect
    <3>2. CASE w = h.user
      <4>1. a = "remove" /\ [user |-> h.user, action |-> a] \in admitting'
        BY <2>1, <2>2, <3>1, <3>2
      <4> QED BY <3>2, <4>1 DEF RemovePending
    <3>3. CASE w # h.user
      BY <2>1, <3>1, <3>3 DEF RemovePending, JoinedPending
    <3> QED BY <3>2, <3>3
  <2> QED BY <2>3, <2>4, <2>5 DEF IInv, BannedCannotReconnect
<1>2. ASSUME NEW a \in admitting, Enforce(a) PROVE IInv'
  <2>1. a.user \in Users /\ admitting' = admitting \ {a} /\ leaving' = leaving
    BY <1>0, <1>2 DEF TypeOK, Enforce
  <2>2. CASE a.action = "remove" /\ Disconnect(a.user)
    <3>1. lk[a.user] # "off" => LeftHook(a.user) \in Hook
      BY <2>1, ConstantsAssumption DEF IInv, TypeOK, OpenCounted, LeftHook, Hook
    <3>2. TypeOK'
      BY <1>0, <1>2, <2>1, <2>2, <3>1 DEF TypeOK, Enforce, Disconnect, Hook
    <3>3. BanLasts' /\ OpenCounted'
      BY <1>2, <2>1, <2>2
      DEF IInv, TypeOK, Enforce, BanLasts, OpenCounted, Disconnect
    <3>4. BannedCannotReconnect'
      BY <1>2, <2>1, <2>2
      DEF IInv, TypeOK, BannedCannotReconnect, JoinedPending, RemovePending,
          Enforce, Disconnect
    <3> QED BY <3>2, <3>3, <3>4 DEF IInv
  <2>3. CASE a.action = "downgrade" /\ SetPermission(a.user, "sub")
    <3>1. TypeOK'
      BY <1>0, <1>2, <2>1, <2>3 DEF TypeOK, Enforce, SetPermission, Hook
    <3>2. BanLasts' /\ OpenCounted'
      BY <1>2, <2>1, <2>3
      DEF IInv, TypeOK, Enforce, BanLasts, OpenCounted, SetPermission
    <3>3. BannedCannotReconnect'
      BY <1>2, <2>1, <2>3
      DEF IInv, TypeOK, BannedCannotReconnect, JoinedPending, RemovePending,
          Enforce, SetPermission
    <3> QED BY <3>1, <3>2, <3>3 DEF IInv
  <2>4. CASE CallFails
    <3>1. TypeOK' /\ fails' # 0
      BY <1>0, <1>2, <2>1, <2>4, ConstantsAssumption
      DEF TypeOK, Enforce, CallFails, Hook
    <3>2. BanLasts' /\ OpenCounted'
      BY <1>2, <2>4 DEF IInv, Enforce, BanLasts, OpenCounted, CallFails
    <3> QED BY <3>1, <3>2 DEF IInv, BannedCannotReconnect
  <2> QED BY <1>2, <2>2, <2>3, <2>4 DEF Enforce
<1>3. ASSUME NEW h \in hooks, LeftRedis(h) PROVE IInv'
  <2>1. h.user \in Users /\ h.kind = "left"
    BY <1>0, <1>3 DEF TypeOK, Hook, LeftRedis
  <2>2. TypeOK'
    BY <1>0, <1>3, <2>1 DEF TypeOK, LeftRedis, RemoveRow, Hook
  <2>3. BanLasts' /\ OpenCounted'
    BY <1>3 DEF IInv, BanLasts, OpenCounted, LeftRedis
  <2>4. BannedCannotReconnect'
    BY <1>3, <2>1
    DEF IInv, BannedCannotReconnect, JoinedPending, RemovePending, LeftRedis
  <2> QED BY <2>2, <2>3, <2>4 DEF IInv
<1>4. ASSUME NEW h \in leaving, LeftDb(h) PROVE IInv'
  <2>1. TypeOK'
    BY <1>0, <1>4 DEF TypeOK, LeftDb, mediaVars, Hook
  <2>2. BanLasts' /\ OpenCounted'
    BY <1>4 DEF IInv, BanLasts, OpenCounted, LeftDb, mediaVars
  <2>3. BannedCannotReconnect'
    BY <1>4
    DEF IInv, BannedCannotReconnect, JoinedPending, RemovePending, LeftDb,
        mediaVars
  <2> QED BY <2>1, <2>2, <2>3 DEF IInv
<1> QED BY <1>1, <1>2, <1>3, <1>4 DEF WebhookStep

-----------------------------------------------------------------------------
(* The invariant, and what follows from it. *)

\* Every step, and stuttering, preserves the invariant.
LEMMA NextIInv == IInv /\ [Next]_vars => IInv'
<1> SUFFICES ASSUME IInv, [Next]_vars PROVE IInv'
  OBVIOUS
<1>1. ASSUME NEW i \in Slots, RequestBegins(i) PROVE IInv'
  BY <1>1, JoinIInv, LeaveIInv, HandIInv, PromoteIInv, DemoteIInv, MuteIInv,
     RemoveIInv
  DEF RequestBegins
<1>2. ASSUME NEW i \in Slots, RequestStep(i) PROVE IInv'
  BY <1>2, JoinIInv, LeaveIInv, HandIInv, PromoteIInv, DemoteIInv, MuteIInv,
     RemoveIInv
  DEF RequestStep
<1>3. CASE UNCHANGED vars
  <2>1. Stores' /\ banned' = banned
    BY <1>3 DEF IInv, TypeOK, Stores, vars
  <2> QED BY <1>3, <2>1, StoresFrame DEF vars, mediaVars, hookVars
<1> QED BY <1>1, <1>2, <1>3, WebhookIInv, ClientIInv DEF Next

\* The strengthened invariant holds in every reachable state.
THEOREM Invariance == Spec => []IInv
  BY InitIInv, NextIInv, PTL DEF Spec

\* The stores, the handlers and the webhooks stay in their types.
THEOREM TypeCorrect == Spec => []TypeOK
<1>1. IInv => TypeOK
  BY DEF IInv
<1> QED BY <1>1, Invariance, PTL

\* For any users and any number of concurrent requests and connections: a
\* connection opened by a user whose ban was already written has its webhook or
\* its removal pending, until a call to the media server fails.
THEOREM BannedAlwaysOut == Spec => []BannedCannotReconnect
<1>1. IInv => BannedCannotReconnect
  BY DEF IInv
<1> QED BY <1>1, Invariance, PTL
=============================================================================
