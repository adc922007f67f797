------------------------ MODULE MessageThread_proofs ------------------------
(***************************************************************************)
(* Proofs about MessageThread, for any number of sends, requests in flight *)
(* and messages, and any page size.                                        *)
(*                                                                         *)
(* The answers of the store's requests differ in how they combine a page   *)
(* with the window; what they have in common is stated once: a page read   *)
(* from the log stays part of it, merging never leaves a row beside its    *)
(* server copy, and a request that ends takes its own spinner with it.     *)
(***************************************************************************)
EXTENDS MessageThread, FiniteSetTheorems, TLAPS

\* Positions of the log that hold a message of the others, or of the viewer.
PeerPositions(l) == {i \in 1..Len(l) : l[i] = Peer}
SendPositions(l) == {i \in 1..Len(l) : l[i] \in Sends}

\* message_id is the idempotency key: a send is in the log once.
OnceIn(l) == \A i, j \in SendPositions(l) : l[i] = l[j] => i = j

LogOK ==
    /\ log \in Seq(Sends \cup {Peer})
    /\ Cardinality(PeerPositions(log)) <= MaxLog
    /\ OnceIn(log)

\* A page read from the log, and its cursors.
PageOK(page) ==
    page.items \subseteq 1..End /\ page.older \in 0..(End + 1) /\ page.newer \in 0..End

WinOK ==
    /\ win \in Window /\ win.older \in 0..(End + 1) /\ win.newer \in 0..End
    /\ shown \subseteq 1..End

RowsOK ==
    /\ row \in [Sends -> {"none", "sending", "failed"}]
    /\ pending \subseteq Sends
    /\ sending \in [Sends -> {"none", "out", "landed"}]
    /\ \A s \in Sends : sending[s] = "landed" => PosOf(s) # 0

ReqOK ==
    /\ req \subseteq Request /\ IsFiniteSet(req) /\ Cardinality(req) <= MaxRequests
    /\ \A r \in req : PageOK(r.page)

Bounded == jumps \in 0..MaxJumps /\ faults \in 0..MaxFaults

IInv ==
    LogOK /\ WinOK /\ RowsOK /\ ReqOK /\ Bounded /\ NeverDowngraded /\ NothingStuck

-----------------------------------------------------------------------------
(* The log.                                                                *)

\* PosOf of an arbitrary log.
PosIn(l, s) == Max({i \in 1..Len(l) : l[i] = s} \cup {0})

\* PosOf is PosIn of the log, before a step and after it.
LEMMA PosOfLog == \A s : PosOf(s) = PosIn(log, s) /\ PosOf(s)' = PosIn(log', s)
  BY DEF PosOf, PosIn, End

\* The position of a send that is in a log once, and of one that is not.
LEMMA Position ==
  ASSUME NEW l \in Seq(Sends \cup {Peer}), OnceIn(l), NEW s \in Sends
  PROVE  /\ \A i \in 1..Len(l) : l[i] = s => PosIn(l, s) = i
         /\ (\A i \in 1..Len(l) : l[i] # s) => PosIn(l, s) = 0
         /\ PosIn(l, s) \in 0..Len(l)
<1>1. ASSUME NEW i \in 1..Len(l), l[i] = s
      PROVE  PosIn(l, s) = i
  <2>1. {j \in 1..Len(l) : l[j] = s} \cup {0} = {i, 0}
    BY <1>1 DEF OnceIn, SendPositions
  <2>2. i \in Nat /\ i > 0
    OBVIOUS
  <2> QED BY <2>1, <2>2 DEF PosIn, Max
<1>2. ASSUME \A i \in 1..Len(l) : l[i] # s
      PROVE  PosIn(l, s) = 0
  <2>1. {j \in 1..Len(l) : l[j] = s} \cup {0} = {0}
    BY <1>2
  <2> QED BY <2>1 DEF PosIn, Max
<1> QED BY <1>1, <1>2

\* An appended message takes the next position and moves no other.
LEMMA Appended ==
  ASSUME LogOK, NEW x \in Sends \cup {Peer}, log' = Append(log, x),
         x = Peer \/ PosOf(x) = 0
  PROVE  /\ log' \in Seq(Sends \cup {Peer}) /\ OnceIn(log') /\ End' = End + 1
         /\ \A s \in Sends : PosOf(s)' = IF s = x THEN End + 1 ELSE PosOf(s)
<1>1. /\ log' \in Seq(Sends \cup {Peer}) /\ Len(log') = Len(log) + 1
      /\ \A i \in 1..Len(log) : log'[i] = log[i]
      /\ log'[Len(log) + 1] = x /\ Len(log) \in Nat
  BY DEF LogOK
<1>2. \A i \in 1..Len(log) : x \in Sends => log[i] # x
  <2> SUFFICES ASSUME NEW i \in 1..Len(log), x \in Sends, log[i] = x PROVE FALSE
    OBVIOUS
  <2>1. PosOf(x) = i
    BY Position, PosOfLog DEF LogOK
  <2> QED BY <2>1, ConstantsAssumption
<1>3. OnceIn(log')
  <2> SUFFICES ASSUME NEW i \in SendPositions(log'), NEW j \in SendPositions(log'),
                      log'[i] = log'[j]
               PROVE  i = j
    BY DEF OnceIn
  <2>1. i \in 1..(Len(log) + 1) /\ j \in 1..(Len(log) + 1) /\ log'[i] \in Sends
    BY <1>1 DEF SendPositions
  <2>2. CASE i = Len(log) + 1 \/ j = Len(log) + 1
    BY <1>1, <1>2, <2>1, <2>2
  <2>3. CASE i \in 1..Len(log) /\ j \in 1..Len(log)
    BY <1>1, <2>1, <2>3 DEF LogOK, OnceIn, SendPositions
  <2> QED BY <1>1, <2>1, <2>2, <2>3
<1>4. ASSUME NEW s \in Sends
      PROVE  PosIn(log', s) = IF s = x THEN Len(log) + 1 ELSE PosIn(log, s)
  <2>1. CASE s = x
    <3>1. Len(log) + 1 \in 1..Len(log')
      BY <1>1
    <3>2. log'[Len(log) + 1] = s
      BY <1>1, <2>1
    <3> QED BY <1>1, <1>3, <2>1, <3>1, <3>2, Position
  <2>2. CASE s # x /\ \E i \in 1..Len(log) : log[i] = s
    <3>1. PICK i \in 1..Len(log) : log[i] = s
      BY <2>2
    <3>2. i \in 1..Len(log') /\ log'[i] = s
      BY <1>1, <3>1
    <3>3. PosIn(log', s) = i
      BY <1>1, <1>3, <3>2, Position
    <3>4. PosIn(log, s) = i
      BY <3>1, Position DEF LogOK
    <3> QED BY <2>2, <3>3, <3>4
  <2>3. CASE s # x /\ \A i \in 1..Len(log) : log[i] # s
    <3>1. \A i \in 1..Len(log') : log'[i] # s
      BY <1>1, <2>3
    <3>2. PosIn(log', s) = 0
      BY <1>1, <1>3, <3>1, Position
    <3>3. PosIn(log, s) = 0
      BY <2>3, Position DEF LogOK
    <3> QED BY <2>3, <3>2, <3>3
  <2> QED BY <2>1, <2>2, <2>3
<1> QED BY <1>1, <1>3, <1>4, PosOfLog DEF End

\* Each send is in the log once, so the log is as long as its bounds allow.
LEMMA LogBound ==
  ASSUME LogOK
  PROVE  Len(log) <= MaxLog + Cardinality(Sends)
<1> DEFINE P == PeerPositions(log)
           Q == SendPositions(log)
           f == [i \in Q |-> log[i]]
<1>1. Len(log) \in Nat /\ 1..Len(log) = P \cup Q
  <2>1. Len(log) \in Nat /\ \A i \in 1..Len(log) : log[i] \in Sends \cup {Peer}
    BY DEF LogOK
  <2> QED BY <2>1 DEF PeerPositions, SendPositions
<1>2. IsFiniteSet(1..Len(log)) /\ Cardinality(1..Len(log)) = Len(log)
  <2>1. 1 \in Int /\ Len(log) \in Int
    BY <1>1
  <2>2. /\ IsFiniteSet(1..Len(log))
        /\ Cardinality(1..Len(log)) = IF 1 > Len(log) THEN 0 ELSE Len(log) - 1 + 1
    BY <2>1, FS_Interval, Zenon
  <2> QED BY <1>1, <2>2
<1>3. IsFiniteSet(P) /\ IsFiniteSet(Q)
  <2>1. P \in SUBSET (1..Len(log)) /\ Q \in SUBSET (1..Len(log))
    BY <1>1
  <2> QED BY <1>2, <2>1, FS_Subset
<1>4. f \in Injection(Q, Sends)
  <2>1. f \in [Q -> Sends]
    BY DEF SendPositions
  <2>2. \A a, b \in DOMAIN f : f[a] = f[b] => a = b
    BY DEF LogOK, OnceIn
  <2> QED BY <2>1, <2>2 DEF Injection, IsInjective
<1>5. Cardinality(Q) <= Cardinality(Sends)
  BY <1>4, FS_Injection, ConstantsAssumption
<1>6. /\ Cardinality(P \cup Q) = Cardinality(P) + Cardinality(Q) - Cardinality(P \cap Q)
      /\ IsFiniteSet(P \cap Q)
  BY <1>3, FS_Union, FS_Intersection
<1>7. /\ Cardinality(P) \in Nat /\ Cardinality(Q) \in Nat
      /\ Cardinality(P \cap Q) \in Nat /\ Cardinality(Sends) \in Nat
  BY <1>3, <1>6, FS_CardinalityType, ConstantsAssumption
<1>8. Cardinality(P) <= MaxLog
  BY DEF LogOK
<1> HIDE DEF P, Q
<1>9. Len(log) = Cardinality(P) + Cardinality(Q) - Cardinality(P \cap Q)
  BY <1>1, <1>2, <1>6
<1> QED BY <1>1, <1>5, <1>7, <1>8, <1>9, ConstantsAssumption

-----------------------------------------------------------------------------
(* Pages and requests.                                                     *)

\* What the invariant says of the log and its positions.
LEMMA Positions ==
  ASSUME IInv
  PROVE  End \in Nat /\ \A s \in Sends : PosOf(s) \in 0..End
  BY Position, PosOfLog DEF IInv, LogOK, End

\* A stretch of the log is a page.
LEMMA SpanOK ==
  ASSUME IInv, NEW a \in 1..(End + 1), NEW b \in 0..End
  PROVE  Span(a, b) \in Page /\ PageOK(Span(a, b))
  BY Positions DEF Span, Page, PageOK

\* Every page is a part of the log.
LEMMA ReadingOK ==
  ASSUME IInv, NEW kind \in Kinds, NEW arg \in Nat,
         kind = "older" => arg \in 1..(End + 1),
         kind \in {"newer", "jump", "hit"} => arg \in 1..End
  PROVE  Reading(kind, arg) \in Request /\ PageOK(Reading(kind, arg).page)
<1> DEFINE half == PageSize \div 2
<1>1. End \in Nat /\ PageSize \in Nat /\ PageSize > 0 /\ half \in Nat
  BY Positions, ConstantsAssumption
<1> HIDE DEF half
<1>2. ASSUME NEW b \in 1..(End + 1)
      PROVE  Before(b) \in Page /\ PageOK(Before(b))
  <2>1. Max({1, b - PageSize}) \in 1..(End + 1)
    BY <1>1 DEF Max
  <2>2. b - 1 \in 0..End
    BY <1>1
  <2> QED BY <2>1, <2>2, SpanOK DEF Before
<1>3. ASSUME NEW a \in 1..End
      PROVE  After(a) \in Page /\ PageOK(After(a))
  <2>1. Min({End, a + PageSize}) \in 0..End
    BY <1>1 DEF Min
  <2>2. a + 1 \in 1..(End + 1)
    BY <1>1
  <2> QED BY <2>1, <2>2, SpanOK DEF After
<1>4. ASSUME NEW i \in 1..End
      PROVE  Around(i) \in Page /\ PageOK(Around(i))
  <2>1. Min({End, i + half}) \in 0..End
    BY <1>1 DEF Min
  <2>2. Max({1, i - half}) \in 1..(End + 1)
    BY <1>1 DEF Max
  <2> QED BY <2>1, <2>2, SpanOK DEF Around, half
<1>5. PageFor(kind, arg) \in Page /\ PageOK(PageFor(kind, arg))
  <2>1. End + 1 \in 1..(End + 1)
    BY <1>1
  <2> QED BY <1>2, <1>3, <1>4, <2>1 DEF PageFor, Kinds
<1> QED BY <1>5 DEF Reading, Request

\* A request that is made or answered while the log stays as it is.
LEMMA AskOK ==
  ASSUME IInv, UNCHANGED log, NEW kind, NEW arg,
         Reading(kind, arg) \in Request, PageOK(Reading(kind, arg).page),
         Ask(kind, arg)
  PROVE  ReqOK' /\ InFlight(kind)' /\ \A k : InFlight(k) => InFlight(k)'
<1> DEFINE q == Reading(kind, arg)
<1>1. req' = req \cup {q} /\ Cardinality(req) < MaxRequests /\ IsFiniteSet(req)
      /\ q.kind = kind
  BY DEF Ask, IInv, ReqOK, Reading
<1> HIDE DEF q
<1>2. IsFiniteSet(req') /\ Cardinality(req') <= MaxRequests
  <2>1. /\ IsFiniteSet(req \cup {q}) /\ Cardinality(req) \in Nat
        /\ Cardinality(req \cup {q}) \in {Cardinality(req), Cardinality(req) + 1}
    BY <1>1, FS_AddElement, FS_CardinalityType
  <2> QED BY <1>1, <2>1, ConstantsAssumption
<1>3. \A r \in req' : PageOK(r.page)'
  BY <1>1 DEF IInv, ReqOK, PageOK, End, q
<1> QED BY <1>1, <1>2, <1>3 DEF ReqOK, IInv, InFlight, q

\* A request that is answered takes no other request with it.
LEMMA DoneOK ==
  ASSUME IInv, UNCHANGED log, NEW r \in req, Done(r)
  PROVE  ReqOK' /\ \A k : k # r.kind /\ InFlight(k) => InFlight(k)'
<1>1. req' = req \ {r}
  BY DEF Done
<1>2. IsFiniteSet(req') /\ Cardinality(req') <= MaxRequests
  <2>1. /\ IsFiniteSet(req \ {r}) /\ Cardinality(req) \in Nat
        /\ Cardinality(req \ {r}) = Cardinality(req) - 1 /\ Cardinality(req) <= MaxRequests
    BY FS_RemoveElement, FS_CardinalityType DEF IInv, ReqOK
  <2> QED BY <1>1, <2>1, ConstantsAssumption
<1>3. \A q \in req' : PageOK(q.page)'
  BY <1>1 DEF IInv, ReqOK, PageOK, End
<1> QED BY <1>1, <1>2, <1>3 DEF ReqOK, IInv, InFlight

\* The same of a request that ends by starting another one.
LEMMA DoneThenAskOK ==
  ASSUME IInv, UNCHANGED log, NEW r \in req, NEW kind \in {"latest", "poll"},
         DoneThenAsk(r, kind, 0)
  PROVE  /\ ReqOK' /\ InFlight(kind)'
         /\ \A k : k # r.kind /\ InFlight(k) => InFlight(k)'
<1> DEFINE q == Reading(kind, 0)
           rest == req \ {r}
<1>1. req' = rest \cup {q} /\ q.kind = kind
  BY DEF DoneThenAsk, Reading
<1>2. q \in Request /\ PageOK(q.page)
  BY ReadingOK DEF Kinds
<1> HIDE DEF q
<1>3. IsFiniteSet(req') /\ Cardinality(req') <= MaxRequests
  <2>1. /\ IsFiniteSet(rest) /\ Cardinality(req) \in Nat
        /\ Cardinality(rest) = Cardinality(req) - 1 /\ Cardinality(req) <= MaxRequests
    BY FS_RemoveElement, FS_CardinalityType DEF IInv, ReqOK
  <2> HIDE DEF rest
  <2>2. /\ IsFiniteSet(rest \cup {q})
        /\ Cardinality(rest \cup {q}) \in {Cardinality(rest), Cardinality(rest) + 1}
    BY <2>1, FS_AddElement
  <2> QED BY <1>1, <2>1, <2>2, ConstantsAssumption
<1>4. \A p \in req' : PageOK(p.page)'
  BY <1>1, <1>2 DEF IInv, ReqOK, PageOK, End
<1> QED BY <1>1, <1>2, <1>3, <1>4 DEF ReqOK, IInv, InFlight

-----------------------------------------------------------------------------
(* The window.                                                             *)

\* What every change of shown and row does: no row beside its server copy,
\* and no new row.
Settles ==
    /\ shown' \subseteq 1..End
    /\ row' \in [Sends -> {"none", "sending", "failed"}]
    /\ \A s \in Sends : PosOf(s) \in shown' => row'[s] = "none"
    /\ \A s \in Sends : row'[s] = "sending" => row[s] = "sending"

\* mergeMessages drops the optimistic row of every message it brings.
LEMMA MergeSettles ==
  ASSUME IInv, NEW items \in SUBSET (1..End), Merge(items)
  PROVE  Settles /\ \A s \in Sends : PosOf(s) \in items => row'[s] = "none"
  BY DEF Merge, Merged, Settles, IInv, WinOK, RowsOK, NeverDowngraded

\* applyWindowPage ends the skeleton and starts no spinner.
LEMMA ApplyOK ==
  ASSUME IInv, UNCHANGED log, NEW page \in Page, PageOK(page), NEW hasNewer \in BOOLEAN,
         ApplyWindowPage(page, hasNewer)
  PROVE  /\ Settles /\ WinOK' /\ win'.status = "ready"
         /\ win'.loadingOlder => win.loadingOlder
         /\ win'.loadingNewer => win.loadingNewer
<1>1. page.items \in SUBSET (1..End) /\ End' = End /\ win \in Window
  BY DEF PageOK, End, IInv, WinOK
<1>2. CASE shown # {} /\ Overlaps(page.items)
  <2> DEFINE extendsOlder == Min(page.items) < Min(shown)
             extendsNewer == Max(page.items) > Max(shown) /\ win.hasNewer
  <2>1. /\ Merge(page.items)
        /\ win' = [win EXCEPT
                !.older = IF extendsOlder THEN page.older ELSE @,
                !.hasOlder = IF extendsOlder THEN page.older # 0 ELSE @,
                !.newer = IF extendsNewer THEN page.newer ELSE @,
                !.hasNewer = IF extendsNewer THEN hasNewer ELSE @,
                !.badge = Counted(extendsNewer /\ ~hasNewer),
                !.status = "ready"]
    BY <1>2 DEF ApplyWindowPage
  <2> HIDE DEF extendsOlder, extendsNewer
  <2>2. Settles
    BY <1>1, <2>1, MergeSettles
  <2>3. Counted(extendsNewer /\ ~hasNewer) \in BOOLEAN
    BY <1>1 DEF Counted, Window
  <2> DEFINE o == IF extendsOlder THEN page.older ELSE win.older
             ho == IF extendsOlder THEN page.older # 0 ELSE win.hasOlder
             n == IF extendsNewer THEN page.newer ELSE win.newer
             hn == IF extendsNewer THEN hasNewer ELSE win.hasNewer
             b == Counted(extendsNewer /\ ~hasNewer)
  <2>5. o \in 0..(End + 1) /\ n \in 0..End /\ o \in Nat /\ n \in Nat
    BY <1>1 DEF IInv, WinOK, Window, PageOK, Page
  <2>6. ho \in BOOLEAN /\ hn \in BOOLEAN
    BY <1>1 DEF Window
  <2>7. win' = [win EXCEPT !.older = o, !.hasOlder = ho, !.newer = n, !.hasNewer = hn,
                           !.badge = b, !.status = "ready"]
    BY <1>1, <2>1 DEF Window
  <2>8. b \in BOOLEAN
    BY <2>3
  <2> HIDE DEF o, ho, n, hn, b
  <2>9. /\ win'.status = "ready" /\ win'.older = o /\ win'.newer = n
        /\ win'.loadingOlder = win.loadingOlder /\ win'.loadingNewer = win.loadingNewer
    BY <1>1, <2>7 DEF Window
  <2>10. win' \in Window
    BY <1>1, <2>5, <2>6, <2>7, <2>8 DEF Window, Statuses
  <2>4. /\ win' \in Window /\ win'.older \in 0..(End + 1) /\ win'.newer \in 0..End
        /\ win'.status = "ready" /\ win'.loadingOlder = win.loadingOlder
        /\ win'.loadingNewer = win.loadingNewer
    BY <2>5, <2>9, <2>10
  <2> QED BY <1>1, <2>2, <2>4 DEF WinOK, Settles
<1>3. CASE ~(shown # {} /\ Overlaps(page.items))
  <2>1. /\ shown' = page.items
        /\ row' = Merged(IF hasNewer THEN [s \in Sends |-> "none"] ELSE row, page.items)
        /\ win' = [status |-> "ready", older |-> page.older,
                    hasOlder |-> page.older # 0, newer |-> page.newer,
                    hasNewer |-> hasNewer, loadingOlder |-> FALSE,
                    loadingNewer |-> FALSE, badge |-> FALSE]
    BY <1>3 DEF ApplyWindowPage
  <2>2. Settles
    BY <1>1, <2>1 DEF Settles, Merged, IInv, RowsOK
  <2>3. win' \in Window
    BY <2>1 DEF Window, Page, Statuses
  <2> QED BY <1>1, <2>1, <2>2, <2>3 DEF WinOK, PageOK, Settles
<1> QED BY <1>2, <1>3

\* What is left to show of a step that leaves log and sends alone.
LEMMA StepOK ==
  ASSUME IInv, UNCHANGED <<log, pending, sending>>, Settles, WinOK', ReqOK', Bounded',
         win'.status = "loading" => InFlight("latest")',
         win'.loadingOlder => InFlight("older")',
         win'.loadingNewer => InFlight("newer")'
  PROVE  IInv'
<1>1. LogOK' /\ End' = End /\ \A s \in Sends : PosOf(s)' = PosOf(s)
  BY PosOfLog DEF IInv, LogOK, End
<1>2. RowsOK' /\ NeverDowngraded'
  BY <1>1 DEF IInv, RowsOK, Settles, NeverDowngraded
<1>3. NothingStuck'
  BY DEF IInv, NothingStuck, Settles, RowsOK
<1> QED BY <1>1, <1>2, <1>3 DEF IInv

\* Leaving the window alone settles it too.
LEMMA KeptSettles ==
  ASSUME IInv, UNCHANGED <<shown, row>>
  PROVE  Settles
  BY DEF IInv, Settles, WinOK, RowsOK, NeverDowngraded

-----------------------------------------------------------------------------
(* The functions of the store.                                             *)

\* What the invariant says of the window, for the steps that change it.
LEMMA Known ==
  ASSUME IInv
  PROVE  /\ win \in Window /\ win.older \in 0..(End + 1) /\ win.newer \in 0..End
         /\ End \in Nat /\ Bounded
         /\ win.status = "loading" => InFlight("latest")
         /\ win.loadingOlder => InFlight("older")
         /\ win.loadingNewer => InFlight("newer")
  BY Positions DEF IInv, WinOK, NothingStuck

LEMMA LoadLatestInv ==
  ASSUME IInv, LoadLatest
  PROVE  IInv'
<1>1. /\ UNCHANGED <<log, jumps, faults, shown, row, pending, sending>>
      /\ Ask("latest", 0)
      /\ win' = [win EXCEPT !.status = StatusOfLatest(IsEmpty, win.hasNewer)]
  BY DEF LoadLatest, netVars
<1>2. ReqOK' /\ InFlight("latest")' /\ \A k : InFlight(k) => InFlight(k)'
  BY <1>1, ReadingOK, AskOK DEF Kinds
<1>3. StatusOfLatest(IsEmpty, win.hasNewer) \in Statuses
  BY DEF StatusOfLatest, Statuses
<1>4. WinOK' /\ win'.loadingOlder = win.loadingOlder /\ win'.loadingNewer = win.loadingNewer
  BY <1>1, <1>3, Known DEF WinOK, Window, End, IInv
<1> QED BY <1>1, <1>2, <1>4, Known, KeptSettles, StepOK DEF Bounded

LEMMA PollRecentInv ==
  ASSUME IInv, PollRecent
  PROVE  IInv'
<1>1. UNCHANGED <<log, jumps, faults, win, shown, row, pending, sending>> /\ Ask("poll", 0)
  BY DEF PollRecent, netVars, winVars
<1>2. ReqOK' /\ \A k : InFlight(k) => InFlight(k)'
  BY <1>1, ReadingOK, AskOK DEF Kinds
<1>3. WinOK' /\ Bounded'
  BY <1>1 DEF WinOK, Bounded, End, IInv
<1> QED BY <1>1, <1>2, <1>3, Known, KeptSettles, StepOK

LEMMA LoadOlderInv ==
  ASSUME IInv, LoadOlder
  PROVE  IInv'
<1>1. UNCHANGED <<log, jumps, faults, shown, row, pending, sending>> /\ Bounded'
  BY Known DEF LoadOlder, netVars, Bounded
<1>2. CASE win.older = 0
  <2>1. win' = [win EXCEPT !.hasOlder = FALSE] /\ req' = req
    BY <1>2 DEF LoadOlder
  <2>2. /\ WinOK' /\ win'.loadingOlder = win.loadingOlder
        /\ win'.loadingNewer = win.loadingNewer /\ win'.status = win.status
    BY <1>1, <2>1, Known DEF WinOK, Window, End, IInv
  <2>3. ReqOK' /\ \A k : InFlight(k)' = InFlight(k)
    BY <1>1, <2>1 DEF ReqOK, PageOK, End, InFlight, IInv
  <2> QED BY <1>1, <2>2, <2>3, Known, KeptSettles, StepOK
<1>3. CASE win.older # 0
  <2>1. win' = [win EXCEPT !.loadingOlder = TRUE] /\ Ask("older", win.older)
    BY <1>3 DEF LoadOlder
  <2>2. /\ WinOK' /\ win'.loadingNewer = win.loadingNewer /\ win'.status = win.status
    BY <1>1, <2>1, Known DEF WinOK, Window, End, IInv
  <2>3. win.older \in 1..(End + 1) /\ win.older \in Nat
    BY <1>3, Known
  <2>4. ReqOK' /\ InFlight("older")' /\ \A k : InFlight(k) => InFlight(k)'
    BY <1>1, <2>1, <2>3, ReadingOK, AskOK DEF Kinds
  <2> QED BY <1>1, <2>2, <2>4, Known, KeptSettles, StepOK
<1> QED BY <1>2, <1>3

LEMMA LoadNewerInv ==
  ASSUME IInv, LoadNewer
  PROVE  IInv'
<1>1. UNCHANGED <<log, jumps, faults, shown, row, pending, sending>> /\ Bounded'
  BY Known DEF LoadNewer, netVars, Bounded
<1>2. CASE win.newer = 0
  <2>1. win' = [win EXCEPT !.status = "loading"] /\ Ask("latest", 0)
    BY <1>2 DEF LoadNewer
  <2>2. /\ WinOK' /\ win'.loadingOlder = win.loadingOlder
        /\ win'.loadingNewer = win.loadingNewer
    BY <1>1, <2>1, Known DEF WinOK, Window, Statuses, End, IInv
  <2>3. ReqOK' /\ InFlight("latest")' /\ \A k : InFlight(k) => InFlight(k)'
    BY <1>1, <2>1, ReadingOK, AskOK DEF Kinds
  <2> QED BY <1>1, <2>2, <2>3, Known, KeptSettles, StepOK
<1>3. CASE win.newer # 0
  <2>1. win' = [win EXCEPT !.loadingNewer = TRUE] /\ Ask("newer", win.newer)
    BY <1>3 DEF LoadNewer
  <2>2. /\ WinOK' /\ win'.loadingOlder = win.loadingOlder /\ win'.status = win.status
    BY <1>1, <2>1, Known DEF WinOK, Window, End, IInv
  <2>3. win.newer \in 1..End /\ win.newer \in Nat
    BY <1>3, Known
  <2>4. ReqOK' /\ InFlight("newer")' /\ \A k : InFlight(k) => InFlight(k)'
    BY <1>1, <2>1, <2>3, ReadingOK, AskOK DEF Kinds
  <2> QED BY <1>1, <2>2, <2>4, Known, KeptSettles, StepOK
<1> QED BY <1>2, <1>3

LEMMA JumpInv ==
  ASSUME IInv, NEW i \in 1..End, Jump(i)
  PROVE  IInv'
<1>1. PICK kind \in {"jump", "hit"} : Ask(kind, i)
  BY DEF Jump
<1>2. /\ UNCHANGED <<log, faults, win, shown, row, pending, sending>>
      /\ jumps < MaxJumps /\ jumps' = jumps + 1
  BY DEF Jump, winVars
<1>3. ReqOK' /\ \A k : InFlight(k) => InFlight(k)'
  BY <1>1, <1>2, Known, ReadingOK, AskOK DEF Kinds
<1>4. WinOK' /\ Bounded'
  BY <1>2, Known, ConstantsAssumption DEF WinOK, Bounded, End, IInv
<1> QED BY <1>2, <1>3, <1>4, Known, KeptSettles, StepOK

LEMMA LatestAnswerInv ==
  ASSUME IInv, NEW r \in req, LatestAnswer(r)
  PROVE  IInv'
<1> DEFINE page == [r.page EXCEPT !.newer = 0]
<1>1. /\ UNCHANGED <<log, jumps, faults, pending, sending>> /\ r.kind = "latest" /\ Done(r)
      /\ ApplyWindowPage(page, FALSE) /\ Bounded'
  BY Known DEF LatestAnswer, netVars, Bounded
<1>2. page \in Page /\ PageOK(page)
  BY Known DEF IInv, ReqOK, PageOK, Request, Page
<1> HIDE DEF page
<1>3. /\ Settles /\ WinOK' /\ win'.status = "ready"
      /\ win'.loadingOlder => win.loadingOlder
      /\ win'.loadingNewer => win.loadingNewer
  BY <1>1, <1>2, ApplyOK
<1>4. ReqOK' /\ (InFlight("older") => InFlight("older")')
      /\ (InFlight("newer") => InFlight("newer")')
  BY <1>1, DoneOK
<1> QED BY <1>1, <1>3, <1>4, Known, StepOK

LEMMA OlderAnswerInv ==
  ASSUME IInv, NEW r \in req, OlderAnswer(r)
  PROVE  IInv'
<1>1. /\ UNCHANGED <<log, jumps, faults, pending, sending>> /\ r.kind = "older" /\ Done(r)
      /\ Merge(r.page.items) /\ Bounded'
      /\ win' = [win EXCEPT !.older = r.page.older,
                            !.hasOlder = r.page.older # 0 /\ r.page.items # {},
                            !.loadingOlder = FALSE]
  BY Known DEF OlderAnswer, netVars, Bounded
<1>2. r.page \in Page /\ PageOK(r.page) /\ r.page.items \in SUBSET (1..End)
  BY DEF IInv, ReqOK, PageOK, Request
<1>3. Settles
  BY <1>1, <1>2, MergeSettles
<1>4. /\ WinOK' /\ win'.loadingOlder = FALSE /\ win'.loadingNewer = win.loadingNewer
      /\ win'.status = win.status
  BY <1>1, <1>2, <1>3, Known DEF WinOK, Window, Page, PageOK, End, Settles
<1>5. ReqOK' /\ (InFlight("latest") => InFlight("latest")')
      /\ (InFlight("newer") => InFlight("newer")')
  BY <1>1, DoneOK
<1> QED BY <1>1, <1>3, <1>4, <1>5, Known, StepOK

LEMMA NewerAnswerInv ==
  ASSUME IInv, NEW r \in req, NewerAnswer(r)
  PROVE  IInv'
<1> DEFINE hasNewer == HasNewerAfter(r.page)
<1>1. /\ UNCHANGED <<log, jumps, faults, pending, sending>> /\ r.kind = "newer"
      /\ Merge(r.page.items) /\ Bounded'
      /\ win' = [win EXCEPT !.newer = IF hasNewer THEN r.page.newer ELSE 0,
                            !.hasNewer = hasNewer, !.badge = Counted(~hasNewer),
                            !.loadingNewer = FALSE]
      /\ Done(r) \/ DoneThenAsk(r, "poll", 0)
  BY Known DEF NewerAnswer, netVars, Bounded
<1>2. r.page \in Page /\ PageOK(r.page) /\ r.page.items \in SUBSET (1..End)
  BY DEF IInv, ReqOK, PageOK, Request
<1>3. Settles
  BY <1>1, <1>2, MergeSettles
<1>4. hasNewer \in BOOLEAN /\ Counted(~hasNewer) \in BOOLEAN
  BY Known DEF HasNewerAfter, Counted, Window
<1>5. /\ WinOK' /\ win'.loadingNewer = FALSE /\ win'.loadingOlder = win.loadingOlder
      /\ win'.status = win.status
  <2> DEFINE newer == IF hasNewer THEN r.page.newer ELSE 0
             badge == Counted(~hasNewer)
  <2>1. newer \in 0..End /\ newer \in Nat
    BY <1>2, Known DEF PageOK
  <2>2. win' = [win EXCEPT !.newer = newer, !.hasNewer = hasNewer, !.badge = badge,
                           !.loadingNewer = FALSE]
    BY <1>1
  <2> HIDE DEF hasNewer, newer, badge
  <2>3. /\ win' \in Window /\ win'.newer = newer /\ win'.older = win.older
        /\ win'.loadingNewer = FALSE /\ win'.loadingOlder = win.loadingOlder
        /\ win'.status = win.status
    BY <1>4, <2>1, <2>2, Known DEF Window, badge
  <2> QED BY <1>1, <1>3, <2>1, <2>3, Known DEF WinOK, End, Settles
<1>6. ReqOK' /\ (InFlight("latest") => InFlight("latest")')
      /\ (InFlight("older") => InFlight("older")')
  BY <1>1, DoneOK, DoneThenAskOK
<1> QED BY <1>1, <1>3, <1>5, <1>6, Known, StepOK

LEMMA PollAnswerInv ==
  ASSUME IInv, NEW r \in req, PollAnswer(r)
  PROVE  IInv'
<1>1. /\ UNCHANGED <<log, jumps, faults, pending, sending>> /\ r.kind = "poll" /\ Done(r)
      /\ Bounded'
      /\ \/ /\ \E b \in BOOLEAN : win' = [win EXCEPT !.badge = b]
            /\ UNCHANGED <<shown, row>>
         \/ Merge(r.page.items) /\ win' = win
  BY Known DEF PollAnswer, netVars, Bounded
<1>2. r.page.items \in SUBSET (1..End)
  BY DEF IInv, ReqOK, PageOK
<1>3. Settles
  BY <1>1, <1>2, MergeSettles, KeptSettles
<1>4. /\ WinOK' /\ win'.loadingNewer = win.loadingNewer
      /\ win'.loadingOlder = win.loadingOlder /\ win'.status = win.status
  BY <1>1, <1>3, Known DEF WinOK, Window, End, Settles
<1>5. ReqOK' /\ \A k : k # "poll" /\ InFlight(k) => InFlight(k)'
  BY <1>1, DoneOK
<1> QED BY <1>1, <1>3, <1>4, <1>5, Known, StepOK

LEMMA JumpAnswerInv ==
  ASSUME IInv, NEW r \in req, JumpAnswer(r)
  PROVE  IInv'
<1> DEFINE cut == [r.page EXCEPT !.newer = 0]
<1>1. /\ UNCHANGED <<log, jumps, faults, pending, sending>> /\ r.kind \in {"jump", "hit"}
      /\ Done(r) /\ Bounded'
      /\ \/ UNCHANGED <<win, shown, row>>
         \/ ApplyWindowPage(cut, TRUE)
         \/ ApplyWindowPage(r.page, r.page.newer # 0)
  BY Known DEF JumpAnswer, netVars, winVars, Bounded
<1>2. r.page \in Page /\ PageOK(r.page)
  BY DEF IInv, ReqOK, Request
<1>3. cut \in Page /\ PageOK(cut)
  BY <1>2, Positions DEF Page, PageOK
<1>4. ReqOK' /\ \A k : k \notin {"jump", "hit"} /\ InFlight(k) => InFlight(k)'
  BY <1>1, DoneOK
<1>5. /\ Settles /\ WinOK' /\ (win'.status = "loading" => win.status = "loading")
      /\ win'.loadingOlder => win.loadingOlder
      /\ win'.loadingNewer => win.loadingNewer
  <2>1. CASE UNCHANGED <<win, shown, row>>
    BY <1>1, <2>1, KeptSettles DEF WinOK, End, IInv
  <2> HIDE DEF cut
  <2>2. CASE ApplyWindowPage(cut, TRUE)
    BY <1>1, <1>3, <2>2, ApplyOK
  <2>3. CASE ApplyWindowPage(r.page, r.page.newer # 0)
    BY <1>1, <1>2, <2>3, ApplyOK
  <2> QED BY <1>1, <2>1, <2>2, <2>3
<1> QED BY <1>1, <1>4, <1>5, Known, StepOK

LEMMA RequestFailsInv ==
  ASSUME IInv, NEW r \in req, RequestFails(r)
  PROVE  IInv'
<1>1. UNCHANGED <<log, jumps, pending, sending>> /\ Bounded'
  BY Known, ConstantsAssumption DEF RequestFails, Bounded
<1>2. CASE r.kind = "latest" /\ win' = [win EXCEPT !.status = "error"] /\ Done(r)
           /\ UNCHANGED <<shown, row>>
  <2>1. /\ WinOK' /\ win'.loadingNewer = win.loadingNewer
        /\ win'.loadingOlder = win.loadingOlder /\ win'.status = "error"
    BY <1>1, <1>2, Known DEF WinOK, Window, Statuses, End, IInv
  <2>2. ReqOK' /\ \A k : k # "latest" /\ InFlight(k) => InFlight(k)'
    BY <1>1, <1>2, DoneOK
  <2> QED BY <1>1, <1>2, <2>1, <2>2, Known, KeptSettles, StepOK
<1>3. CASE r.kind = "older" /\ win' = [win EXCEPT !.loadingOlder = FALSE] /\ Done(r)
           /\ UNCHANGED <<shown, row>>
  <2>1. /\ WinOK' /\ win'.loadingNewer = win.loadingNewer
        /\ win'.loadingOlder = FALSE /\ win'.status = win.status
    BY <1>1, <1>3, Known DEF WinOK, Window, End, IInv
  <2>2. ReqOK' /\ \A k : k # "older" /\ InFlight(k) => InFlight(k)'
    BY <1>1, <1>3, DoneOK
  <2> QED BY <1>1, <1>3, <2>1, <2>2, Known, KeptSettles, StepOK
<1>4. CASE r.kind = "newer" /\ win' = [win EXCEPT !.loadingNewer = FALSE] /\ Done(r)
           /\ UNCHANGED <<shown, row>>
  <2>1. /\ WinOK' /\ win'.loadingNewer = FALSE
        /\ win'.loadingOlder = win.loadingOlder /\ win'.status = win.status
    BY <1>1, <1>4, Known DEF WinOK, Window, End, IInv
  <2>2. ReqOK' /\ \A k : k # "newer" /\ InFlight(k) => InFlight(k)'
    BY <1>1, <1>4, DoneOK
  <2> QED BY <1>1, <1>4, <2>1, <2>2, Known, KeptSettles, StepOK
<1>5. CASE r.kind \in {"older", "newer"} /\ ReloadFromStart(r)
  <2> DEFINE st == StatusOfLatest(\A s \in Sends : row[s] = "none", FALSE)
  <2>1. /\ shown' = {} /\ row' = row /\ DoneThenAsk(r, "latest", 0)
        /\ win' = [emptyThread EXCEPT !.status = st]
    BY <1>5 DEF ReloadFromStart
  <2>2. st \in Statuses
    BY DEF StatusOfLatest, Statuses
  <2> HIDE DEF st
  <2>3. /\ WinOK' /\ win'.loadingNewer = FALSE /\ win'.loadingOlder = FALSE
    <3>1. /\ win' \in Window /\ win'.older = 0 /\ win'.newer = 0
          /\ win'.loadingNewer = FALSE /\ win'.loadingOlder = FALSE
      BY <2>1, <2>2 DEF Window, emptyThread
    <3> QED BY <1>1, <2>1, <3>1, Known DEF WinOK, End
  <2>4. ReqOK' /\ InFlight("latest")'
    BY <1>1, <2>1, DoneThenAskOK
  <2>5. Settles
    BY <2>1 DEF Settles, IInv, RowsOK
  <2> QED BY <1>1, <2>3, <2>4, <2>5, StepOK
<1>6. CASE r.kind \in {"poll", "jump", "hit"} /\ Done(r) /\ UNCHANGED winVars
  <2>1. WinOK' /\ UNCHANGED <<win, shown, row>>
    BY <1>1, <1>6 DEF WinOK, winVars, End, IInv
  <2>2. ReqOK' /\ \A k : k \in {"latest", "older", "newer"} /\ InFlight(k) => InFlight(k)'
    BY <1>1, <1>6, DoneOK
  <2> QED BY <1>1, <2>1, <2>2, Known, KeptSettles, StepOK
<1> QED BY <1>2, <1>3, <1>4, <1>5, <1>6 DEF RequestFails

LEMMA FrameArrivesInv ==
  ASSUME IInv, NEW i \in 1..End, FrameArrives(i)
  PROVE  IInv'
<1>1. /\ UNCHANGED <<log, jumps, faults, pending, sending, req>> /\ Bounded'
      /\ \/ /\ \E b \in BOOLEAN : win' = [win EXCEPT !.badge = b]
            /\ UNCHANGED <<shown, row>>
         \/ Merge({i}) /\ win' = win
         \/ UNCHANGED <<win, shown, row>>
  BY Known DEF FrameArrives, netVars, winVars, Bounded
<1>2. {i} \in SUBSET (1..End)
  OBVIOUS
<1>3. Settles
  BY <1>1, <1>2, MergeSettles, KeptSettles
<1>4. /\ WinOK' /\ win'.loadingNewer = win.loadingNewer
      /\ win'.loadingOlder = win.loadingOlder /\ win'.status = win.status
  BY <1>1, <1>3, Known DEF WinOK, Window, End, Settles
<1>5. ReqOK' /\ \A k : InFlight(k)' = InFlight(k)
  BY <1>1 DEF ReqOK, PageOK, End, InFlight, IInv
<1> QED BY <1>1, <1>3, <1>4, <1>5, Known, StepOK

-----------------------------------------------------------------------------
(* Messages and sends.                                                     *)

\* The log grows by one message: pages and window stay part of it.
LEMMA GrowsInv ==
  ASSUME IInv, NEW x \in Sends \cup {Peer}, log' = Append(log, x),
         x = Peer \/ PosOf(x) = 0, Cardinality(PeerPositions(log')) <= MaxLog,
         UNCHANGED <<win, shown, row, pending, req, jumps, faults>>,
         sending' \in [Sends -> {"none", "out", "landed"}],
         \A s \in Sends : sending'[s] = "landed" => sending[s] = "landed" \/ s = x,
         \A s \in Sends : sending[s] # "none" => sending'[s] # "none"
  PROVE  IInv'
<1>1. /\ log' \in Seq(Sends \cup {Peer}) /\ OnceIn(log') /\ End' = End + 1
      /\ \A s \in Sends : PosOf(s)' = IF s = x THEN End + 1 ELSE PosOf(s)
  BY Appended DEF IInv
<1>2. End \in Nat /\ LogOK'
  BY <1>1, Positions DEF LogOK
<1>3. WinOK' /\ ReqOK' /\ Bounded'
  <2>1. 1..End \subseteq 1..(End + 1) /\ 0..End \subseteq 0..(End + 1)
        /\ 0..(End + 1) \subseteq 0..(End + 1 + 1)
    BY <1>2
  <2>2. \A r \in req : PageOK(r.page)'
    BY <1>1, <2>1 DEF IInv, ReqOK, PageOK
  <2> QED BY <1>1, <2>1, <2>2 DEF IInv, WinOK, ReqOK, Bounded
<1>4. RowsOK'
  BY <1>1, <1>2 DEF IInv, RowsOK
<1>5. NeverDowngraded'
  <2>1. End + 1 \notin shown
    BY <1>2 DEF IInv, WinOK
  <2> QED BY <1>1, <2>1 DEF IInv, NeverDowngraded
<1>6. NothingStuck'
  BY DEF IInv, NothingStuck, InFlight
<1> QED BY <1>2, <1>3, <1>4, <1>5, <1>6 DEF IInv

LEMMA PeerSendsInv ==
  ASSUME IInv, PeerSends
  PROVE  IInv'
<1>1. /\ log' = Append(log, Peer) /\ Cardinality(PeerPositions(log)) < MaxLog
      /\ UNCHANGED <<win, shown, row, pending, sending, req, jumps, faults>>
  BY DEF PeerSends, winVars, PeerPositions, End
<1>2. PeerPositions(log') = PeerPositions(log) \cup {Len(log) + 1}
  BY <1>1 DEF PeerPositions, IInv, LogOK
<1>3. IsFiniteSet(PeerPositions(log))
  <2>1. IsFiniteSet(1..Len(log)) /\ PeerPositions(log) \in SUBSET (1..Len(log))
    BY FS_Interval DEF PeerPositions, IInv, LogOK
  <2> QED BY <2>1, FS_Subset
<1>4. Cardinality(PeerPositions(log')) <= MaxLog
  <2>1. /\ Cardinality(PeerPositions(log)) \in Nat
        /\ Cardinality(PeerPositions(log')) \in
             {Cardinality(PeerPositions(log)), Cardinality(PeerPositions(log)) + 1}
    BY <1>2, <1>3, FS_AddElement, FS_CardinalityType
  <2> QED BY <1>1, <2>1, ConstantsAssumption
<1> QED BY <1>1, <1>4, GrowsInv DEF IInv, RowsOK

\* What is left to show of a step of the sends that keeps log, window and
\* requests as they are.
LEMMA SendStepOK ==
  ASSUME IInv, UNCHANGED <<log, win, shown, req, jumps>>, Bounded',
         pending' \subseteq Sends,
         row' \in [Sends -> {"none", "sending", "failed"}],
         sending' \in [Sends -> {"none", "out", "landed"}],
         \A s \in Sends : sending'[s] = "landed" => PosOf(s) # 0,
         \A s \in Sends : row'[s] = "sending" => sending'[s] # "none",
         \A s \in Sends : PosOf(s) \in shown => row'[s] = "none"
  PROVE  IInv'
<1>1. LogOK' /\ End' = End /\ \A s \in Sends : PosOf(s)' = PosOf(s)
  BY PosOfLog DEF IInv, LogOK, End
<1>2. RowsOK' /\ NeverDowngraded' /\ WinOK'
  BY <1>1 DEF IInv, RowsOK, WinOK, NeverDowngraded
<1>3. ReqOK'
  BY <1>1 DEF IInv, ReqOK, PageOK
<1>4. NothingStuck'
  BY DEF IInv, NothingStuck, InFlight
<1> QED BY <1>1, <1>2, <1>3, <1>4 DEF IInv

LEMMA LandInv ==
  ASSUME IInv, NEW s \in Sends, Land(s)
  PROVE  IInv'
<1>1. /\ UNCHANGED <<win, shown, row, pending, req, jumps, faults>>
      /\ sending' = [sending EXCEPT ![s] = "landed"]
  BY DEF Land, winVars
<1>2. /\ sending' \in [Sends -> {"none", "out", "landed"}]
      /\ \A q \in Sends : sending'[q] = "landed" => sending[q] = "landed" \/ q = s
      /\ \A q \in Sends : sending[q] # "none" => sending'[q] # "none"
  BY <1>1 DEF IInv, RowsOK
<1>3. CASE PosOf(s) # 0
  <2>1. UNCHANGED log
    BY <1>3 DEF Land
  <2> QED BY <1>1, <1>2, <1>3, <2>1, SendStepOK
           DEF IInv, RowsOK, Bounded, NothingStuck, NeverDowngraded
<1>4. CASE PosOf(s) = 0
  <2>1. log' = Append(log, s)
    BY <1>4 DEF Land
  <2>2. PeerPositions(log') = PeerPositions(log)
    <3>1. s # Peer
      BY ConstantsAssumption
    <3> QED BY <2>1, <3>1 DEF PeerPositions, IInv, LogOK
  <2> QED BY <1>1, <1>2, <1>4, <2>1, <2>2, GrowsInv DEF IInv, LogOK
<1> QED BY <1>3, <1>4

LEMMA SendMessageInv ==
  ASSUME IInv, NEW s \in Sends, SendMessage(s)
  PROVE  IInv'
<1>1. /\ UNCHANGED <<log, jumps, faults, win, shown, req>> /\ PosOf(s) = 0
      /\ row' = [row EXCEPT ![s] = "sending"] /\ pending' = pending \cup {s}
      /\ sending' = [sending EXCEPT ![s] = "out"]
  BY DEF SendMessage, netVars
<1>2. 0 \notin shown
  BY DEF IInv, WinOK
<1> QED BY <1>1, <1>2, SendStepOK
     DEF IInv, RowsOK, Bounded, NothingStuck, NeverDowngraded

LEMMA SendEchoInv ==
  ASSUME IInv, NEW s \in Sends, SendEcho(s)
  PROVE  IInv'
<1>1. /\ UNCHANGED <<log, jumps, faults, win, req>> /\ sending[s] = "landed"
      /\ sending' = [sending EXCEPT ![s] = "none"] /\ pending' = pending \ {s}
      /\ Merge({PosOf(s)})
  BY DEF SendEcho, netVars
<1>2. {PosOf(s)} \in SUBSET (1..End)
  BY <1>1, Positions DEF IInv, RowsOK
<1>3. Settles /\ row'[s] = "none"
  BY <1>1, <1>2, MergeSettles
<1>4. LogOK' /\ End' = End /\ \A q \in Sends : PosOf(q)' = PosOf(q)
  BY <1>1, PosOfLog DEF IInv, LogOK, End
<1>5. RowsOK' /\ NeverDowngraded' /\ WinOK'
  BY <1>1, <1>3, <1>4 DEF IInv, RowsOK, WinOK, NeverDowngraded, Settles
<1>6. ReqOK' /\ Bounded'
  BY <1>1, <1>4 DEF IInv, ReqOK, PageOK, Bounded
<1>7. NothingStuck'
  BY <1>1, <1>3 DEF IInv, NothingStuck, InFlight, Settles, RowsOK
<1> QED BY <1>4, <1>5, <1>6, <1>7 DEF IInv

LEMMA SendFailsInv ==
  ASSUME IInv, NEW s \in Sends, SendFails(s)
  PROVE  IInv'
<1>1. /\ UNCHANGED <<log, jumps, win, shown, pending, req>>
      /\ faults < MaxFaults /\ faults' = faults + 1
      /\ sending' = [sending EXCEPT ![s] = "none"]
      /\ row' = [row EXCEPT ![s] = IF row[s] = "sending" THEN "failed" ELSE row[s]]
  BY DEF SendFails, FailedRow
<1>2. Bounded'
  BY <1>1, ConstantsAssumption DEF IInv, Bounded
<1> QED BY <1>1, <1>2, SendStepOK DEF IInv, RowsOK, NothingStuck, NeverDowngraded

LEMMA RetrySendInv ==
  ASSUME IInv, NEW s \in Sends, RetrySend(s)
  PROVE  IInv'
<1>1. /\ UNCHANGED <<log, jumps, faults, win, shown, pending, req>> /\ row[s] = "failed"
      /\ row' = [row EXCEPT ![s] = "sending"]
      /\ sending' = [sending EXCEPT ![s] = "out"]
  BY DEF RetrySend, netVars
<1> QED BY <1>1, SendStepOK DEF IInv, RowsOK, Bounded, NothingStuck, NeverDowngraded

LEMMA DiscardFailedInv ==
  ASSUME IInv, NEW s \in Sends, DiscardFailed(s)
  PROVE  IInv'
<1>1. /\ UNCHANGED <<log, jumps, faults, win, shown, sending, req>>
      /\ row' = [row EXCEPT ![s] = "none"] /\ pending' = pending \ {s}
  BY DEF DiscardFailed, netVars
<1> QED BY <1>1, SendStepOK DEF IInv, RowsOK, Bounded, NothingStuck, NeverDowngraded

-----------------------------------------------------------------------------
(* The invariant and what it says.                                         *)

LEMMA InitInv == Init => IInv
<1> SUFFICES ASSUME Init PROVE IInv
  OBVIOUS
<1>1. /\ log = [i \in 1..Start |-> Peer] /\ Start \in Nat /\ Start <= MaxLog
  BY ConstantsAssumption DEF Init
<1>2. log \in Seq(Sends \cup {Peer}) /\ Len(log) = Start
  BY <1>1
<1>3. PeerPositions(log) = 1..Start /\ SendPositions(log) = {}
  BY <1>1, <1>2, ConstantsAssumption DEF PeerPositions, SendPositions
<1>4. LogOK
  <2>1. Cardinality(1..Start) = IF 1 > Start THEN 0 ELSE Start - 1 + 1
    BY <1>1, FS_Interval
  <2> QED BY <1>1, <1>2, <1>3, <2>1, ConstantsAssumption DEF LogOK, OnceIn
<1>5. WinOK
  BY <1>2, <1>1 DEF Init, WinOK, Window, Statuses, emptyThread, End
<1>6. RowsOK /\ Bounded
  BY ConstantsAssumption DEF Init, RowsOK, Bounded
<1>7. ReqOK
  BY FS_EmptySet, ConstantsAssumption DEF Init, ReqOK
<1>8. NeverDowngraded /\ NothingStuck
  BY DEF Init, NeverDowngraded, NothingStuck, emptyThread
<1> QED BY <1>4, <1>5, <1>6, <1>7, <1>8 DEF IInv

LEMMA StutterInv ==
  ASSUME IInv, UNCHANGED vars
  PROVE  IInv'
<1>1. UNCHANGED <<log, jumps, faults, win, shown, row, pending, sending, req>>
  BY DEF vars, netVars, winVars
<1> QED BY <1>1, SendStepOK DEF IInv, RowsOK, Bounded, NothingStuck, NeverDowngraded

LEMMA NextInv == IInv /\ [Next]_vars => IInv'
  BY StutterInv, PeerSendsInv, FrameArrivesInv, JumpInv, SendMessageInv, LandInv,
     SendEchoInv, SendFailsInv, RetrySendInv, DiscardFailedInv, LoadLatestInv,
     PollRecentInv, LoadOlderInv, LoadNewerInv, LatestAnswerInv, OlderAnswerInv,
     NewerAnswerInv, PollAnswerInv, JumpAnswerInv, RequestFailsInv
  DEF Next, Answer, Open, ScrollToLatest

\* Every reachable state satisfies the invariant.
THEOREM Inductive == Spec => []IInv
  BY InitInv, NextInv, PTL DEF Spec

\* The store's variables keep their types, what is shown is part of the log,
\* and neither the log nor the requests in flight outgrow their bounds.
THEOREM TypeCorrect == Spec => []TypeOK
<1>1. IInv => TypeOK
  BY LogBound DEF IInv, LogOK, WinOK, RowsOK, ReqOK, Bounded, TypeOK, End
<1> QED BY <1>1, Inductive, PTL

\* Whichever of echo, frame, page and failure comes last, a delivered message
\* never shows as sending or failed (mergeMessages, performSend).
THEOREM DeliveredStays == Spec => []NeverDowngraded
<1>1. IInv => NeverDowngraded
  BY DEF IInv
<1> QED BY <1>1, Inductive, PTL

\* However pages, polls, jumps and failures interleave, every spinner of the
\* thread has a request in flight that ends it.
THEOREM SpinnersEnd == Spec => []NothingStuck
<1>1. IInv => NothingStuck
  BY DEF IInv
<1> QED BY <1>1, Inductive, PTL

=============================================================================
