---------------------------- MODULE MessageThread ----------------------------
(***************************************************************************)
(* The window of an open conversation in the web client:                   *)
(*   landing/lib/stores/messageStore.ts     loading, paging, polling, sends *)
(*   landing/lib/messages/message-list.ts   merging                        *)
(*   landing/components/messages/ThreadView.tsx   who calls them           *)
(*                                                                         *)
(* The conversation is the log the server keeps; a message is its position *)
(* in the log, in the order of sent_at.  The window holds server copies    *)
(* (`shown`) and the rows of the viewer's own sends that have none yet     *)
(* (`row`).  The store's functions run one at a time up to their awaits;   *)
(* their requests are served and answered in any order, or fail.           *)
(*                                                                         *)
(* Older and newer cursors are the position they continue from, 0 for null.*)
(* Text, reactions, deletions, error texts and the conversation's row in   *)
(* the inbox (last message, unread count) are left out.                    *)
(***************************************************************************)
EXTENDS Integers, Sequences, FiniteSets, FiniteSetsExt

CONSTANTS Sends,       \* the messages the viewer sends
          MaxRequests, \* page requests that can be in flight together
          Start,       \* messages in the log at first
          MaxLog,      \* bound on the log
          PageSize,    \* messages of a page
          MaxJumps,    \* bound on jumps and search hits
          MaxFaults,   \* bound on requests that fail
          Peer         \* the sender of the messages of others

ASSUME ConstantsAssumption ==
    /\ MaxLog \in Nat /\ Start \in 0..MaxLog /\ PageSize \in Nat \ {0}
    /\ MaxJumps \in Nat /\ MaxFaults \in Nat
    /\ Peer \notin Sends
    /\ IsFiniteSet(Sends) /\ MaxRequests \in Nat

VARIABLES
    log,       \* the conversation at the server: who sent each message
    win,       \* ThreadState: status, cursors and flags
    shown,     \* ThreadState.messages without a send_state
    row,       \* the send_state of the viewer's rows
    pending,   \* pendingSends
    sending,   \* the request of each send: none, out, or landed
    req,       \* page requests in flight, with the pages they read
    jumps, faults

netVars == <<log, jumps, faults>>
winVars == <<win, shown, row>>
vars == <<netVars, winVars, pending, sending, req>>

Statuses == {"idle", "loading", "ready", "error"}

Window == [status : Statuses, older : Nat, hasOlder : BOOLEAN,
           newer : Nat, hasNewer : BOOLEAN,
           loadingOlder : BOOLEAN, loadingNewer : BOOLEAN,
           badge : BOOLEAN]                  \* newerWhileDetached > 0

\* emptyThread
emptyThread ==
    [status |-> "idle", older |-> 0, hasOlder |-> TRUE, newer |-> 0,
     hasNewer |-> FALSE, loadingOlder |-> FALSE, loadingNewer |-> FALSE,
     badge |-> FALSE]

Page == [items : SUBSET Nat, older : Nat, newer : Nat]

Kinds == {"latest", "older", "newer", "poll", "jump", "hit"}
Request == [kind : Kinds, arg : Nat, page : Page]

\* The types of the variables.
TypeOK ==
    /\ log \in Seq(Sends \cup {Peer}) /\ Len(log) <= MaxLog + Cardinality(Sends)
    /\ win \in Window
    /\ shown \subseteq 1..Len(log)
    /\ row \in [Sends -> {"none", "sending", "failed"}]
    /\ pending \subseteq Sends
    /\ sending \in [Sends -> {"none", "out", "landed"}]
    /\ req \subseteq Request /\ Cardinality(req) <= MaxRequests
    /\ jumps \in 0..MaxJumps /\ faults \in 0..MaxFaults

Init ==
    /\ log = [i \in 1..Start |-> Peer]
    /\ win = emptyThread /\ shown = {} /\ row = [s \in Sends |-> "none"]
    /\ pending = {} /\ sending = [s \in Sends |-> "none"]
    /\ req = {}
    /\ jumps = 0 /\ faults = 0

-----------------------------------------------------------------------------
(* The server (external): the log and the pages it answers with.           *)

End == Len(log)

\* The position of a send in the log, 0 if it did not arrive.
PosOf(s) == Max({i \in 1..End : log[i] = s} \cup {0})

Span(a, b) ==
    [items |-> a..b, older |-> IF a > 1 THEN a ELSE 0,
     newer |-> IF b < End THEN b ELSE 0]

Before(b) == Span(Max({1, b - PageSize}), b - 1)
After(a) == Span(a + 1, Min({End, a + PageSize}))
Around(i) == Span(Max({1, i - PageSize \div 2}), Min({End, i + PageSize \div 2}))

\* The page a request reads, at any time before it is answered; a request
\* that reads later stands for one that was made later.
PageFor(kind, arg) ==
    CASE kind = "older" -> Before(arg)
      [] kind = "newer" -> After(arg)
      [] kind \in {"jump", "hit"} -> Around(arg)
      [] OTHER -> Before(End + 1)

\* A message of someone else.
PeerSends ==
    /\ Cardinality({i \in 1..End : log[i] = Peer}) < MaxLog
    /\ log' = Append(log, Peer)
    /\ UNCHANGED <<winVars, pending, sending, req, jumps, faults>>

\* A send arrives; message_id is the idempotency key, so it arrives once.
Land(s) ==
    /\ sending[s] = "out"
    /\ sending' = [sending EXCEPT ![s] = "landed"]
    /\ IF PosOf(s) # 0 THEN UNCHANGED log
       ELSE log' = Append(log, s)
    /\ UNCHANGED <<winVars, pending, req, jumps, faults>>

-----------------------------------------------------------------------------
(* Merging.                                                                *)

\* mergeMessages: a server copy replaces the row of the same message.
Merged(rows, items) ==
    [s \in Sends |-> IF PosOf(s) \in items THEN "none" ELSE rows[s]]

Merge(items) == shown' = shown \cup items /\ row' = Merged(row, items)

\* pagesOverlap: a row counts as loaded once its message is in the page.
Overlaps(items) ==
    \/ shown \cap items # {}
    \/ \E s \in Sends : row[s] # "none" /\ PosOf(s) \in items

\* newerWhileDetached of a window that reaches the live end or not.
Counted(reachesLiveEnd) == ~reachesLiveEnd /\ win.badge

\* applyWindowPage: an overlapping page extends the window, another replaces
\* it, and the rows stay only at the live end.
ApplyWindowPage(page, hasNewer) ==
    IF shown # {} /\ Overlaps(page.items)
    THEN LET extendsOlder == Min(page.items) < Min(shown)
             extendsNewer == Max(page.items) > Max(shown) /\ win.hasNewer IN
         /\ Merge(page.items)
         /\ win' = [win EXCEPT
                !.older = IF extendsOlder THEN page.older ELSE @,
                !.hasOlder = IF extendsOlder THEN page.older # 0 ELSE @,
                !.newer = IF extendsNewer THEN page.newer ELSE @,
                !.hasNewer = IF extendsNewer THEN hasNewer ELSE @,
                !.badge = Counted(extendsNewer /\ ~hasNewer),
                !.status = "ready"]
    ELSE /\ shown' = page.items
         /\ row' = Merged(IF hasNewer THEN [s \in Sends |-> "none"] ELSE row, page.items)
         /\ win' = [status |-> "ready", older |-> page.older,
                    hasOlder |-> page.older # 0, newer |-> page.newer,
                    hasNewer |-> hasNewer, loadingOlder |-> FALSE,
                    loadingNewer |-> FALSE, badge |-> FALSE]

-----------------------------------------------------------------------------
(* The requests of the store's functions, up to their await.               *)

\* The requests left when r is answered, and a new one.
Reading(kind, arg) == [kind |-> kind, arg |-> arg, page |-> PageFor(kind, arg)]
Ask(kind, arg) == Cardinality(req) < MaxRequests /\ req' = req \cup {Reading(kind, arg)}
Done(r) == req' = req \ {r}
DoneThenAsk(r, kind, arg) == req' = (req \ {r}) \cup {Reading(kind, arg)}

\* loadLatest, from a window w that holds messages or not.
StatusOfLatest(isEmpty, hasNewer) == IF isEmpty \/ hasNewer THEN "loading" ELSE "ready"

IsEmpty == shown = {} /\ \A s \in Sends : row[s] = "none"

LoadLatest ==
    /\ win.status # "loading"
    /\ Ask("latest", 0)
    /\ win' = [win EXCEPT !.status = StatusOfLatest(IsEmpty, win.hasNewer)]
    /\ UNCHANGED <<netVars, shown, row, pending, sending>>

\* Mutant: it only polls once a frame announced something.
BugPollRecent ==
    /\ win.status = "ready" /\ win.badge
    /\ Ask("poll", 0)
    /\ UNCHANGED <<netVars, winVars, pending, sending>>
\* pollRecent, called by a timer and when the socket comes back.
PollRecent ==
    /\ win.status = "ready"
    /\ Ask("poll", 0)
    /\ UNCHANGED <<netVars, winVars, pending, sending>>

\* ThreadView mounts: it loads a thread that is unusable or detached and
\* does not hold the linked message, else it polls.
Open ==
    \/ LoadLatest /\ (win.status \in {"idle", "error"} \/ win.hasNewer)
    \/ PollRecent

\* The button that scrolls to the latest message.
ScrollToLatest == win.hasNewer /\ ~IsEmpty /\ LoadLatest

LoadOlder ==
    /\ win.status = "ready" /\ win.hasOlder /\ ~win.loadingOlder
    /\ IF win.older = 0
       THEN win' = [win EXCEPT !.hasOlder = FALSE] /\ UNCHANGED req
       ELSE win' = [win EXCEPT !.loadingOlder = TRUE] /\ Ask("older", win.older)
    /\ UNCHANGED <<netVars, shown, row, pending, sending>>

LoadNewer ==
    /\ win.status = "ready" /\ win.hasNewer /\ ~win.loadingNewer
    /\ IF win.newer = 0
       THEN win' = [win EXCEPT !.status = "loading"] /\ Ask("latest", 0)
       ELSE win' = [win EXCEPT !.loadingNewer = TRUE] /\ Ask("newer", win.newer)
    /\ UNCHANGED <<netVars, shown, row, pending, sending>>

\* jumpToMessage, or a search whose hit is opened later; a loaded message
\* needs neither.
Jump(i) ==
    /\ jumps < MaxJumps /\ i \notin shown
    /\ \E kind \in {"jump", "hit"} : Ask(kind, i)
    /\ jumps' = jumps + 1
    /\ UNCHANGED <<log, faults, winVars, pending, sending>>

-----------------------------------------------------------------------------
(* The answers.                                                            *)

\* loadLatest: the newest page is the live end by definition.
LatestAnswer(r) ==
    /\ r.kind = "latest" /\ Done(r)
    /\ ApplyWindowPage([r.page EXCEPT !.newer = 0], FALSE)
    /\ UNCHANGED <<netVars, pending, sending>>

OlderAnswer(r) ==
    /\ r.kind = "older" /\ Done(r)
    /\ LET page == r.page IN
       /\ Merge(page.items)
       /\ win' = [win EXCEPT !.older = page.older,
                             !.hasOlder = page.older # 0 /\ page.items # {},
                             !.loadingOlder = FALSE]
    /\ UNCHANGED <<netVars, pending, sending>>

\* Whether the window is still detached after a newer page.
HasNewerAfter(page) == page.newer # 0 /\ page.items # {}

\* loadNewer: at the live end a poll picks up what the walk raced past.
NewerAnswer(r) ==
    /\ r.kind = "newer"
    /\ LET page == r.page
           hasNewer == HasNewerAfter(page) IN
       /\ Merge(page.items)
       /\ win' = [win EXCEPT !.newer = IF hasNewer THEN page.newer ELSE 0,
                             !.hasNewer = hasNewer,
                             !.badge = Counted(~hasNewer),
                             !.loadingNewer = FALSE]
       /\ IF hasNewer \/ win.status # "ready" THEN Done(r) ELSE DoneThenAsk(r, "poll", 0)
    /\ UNCHANGED <<netVars, pending, sending>>

\* The newest row of the window: an own row may sort after the server copies.
NewestIsShown == shown # {} /\ \A s \in Sends : row[s] = "none"

\* pollRecent: a detached window only counts what is newer than its end.
PollAnswer(r) ==
    /\ r.kind = "poll" /\ Done(r)
    /\ LET items == r.page.items
           fresh == \E i \in items : i > Max(shown \cup {0}) IN
       IF win.hasNewer
       THEN /\ \/ win' = [win EXCEPT !.badge = fresh]
               \/ ~NewestIsShown /\ win' = [win EXCEPT !.badge = FALSE]
            /\ UNCHANGED <<shown, row>>
       ELSE Merge(items) /\ UNCHANGED win
    /\ UNCHANGED <<netVars, pending, sending>>

\* jumpToMessage, and seedFromSearchHit once the hit is opened.  A server may
\* omit the newer cursor: a jump then assumes newer messages and has no cursor
\* to them, a hit is dropped.
JumpAnswer(r) ==
    /\ r.kind \in {"jump", "hit"} /\ Done(r)
    /\ \/ r.kind = "hit" /\ UNCHANGED winVars
       \/ r.kind = "jump" /\ ApplyWindowPage([r.page EXCEPT !.newer = 0], TRUE)
       \/ /\ r.kind = "hit" => r.arg \notin shown
          /\ ApplyWindowPage(r.page, r.page.newer # 0)
    /\ UNCHANGED <<netVars, pending, sending>>

\* Mutant: the flags of the dropped window are kept.
BugReloadFromStart(r) ==
    /\ shown' = {} /\ UNCHANGED row
    /\ DoneThenAsk(r, "latest", 0)
    /\ win' = [win EXCEPT !.older = 0, !.newer = 0, !.hasNewer = FALSE, !.badge = FALSE,
           !.status = StatusOfLatest(\A s \in Sends : row[s] = "none", FALSE)]
\* reloadThreadFromStart: the rows survive a cursor that went stale.
ReloadFromStart(r) ==
    /\ shown' = {} /\ UNCHANGED row
    /\ DoneThenAsk(r, "latest", 0)
    /\ win' = [emptyThread EXCEPT
           !.status = StatusOfLatest(\A s \in Sends : row[s] = "none", FALSE)]

\* A request fails; for a cursor it may be refused as stale.
RequestFails(r) ==
    /\ faults < MaxFaults /\ faults' = faults + 1
    /\ \/ /\ r.kind = "latest"
          /\ win' = [win EXCEPT !.status = "error"] /\ Done(r)
          /\ UNCHANGED <<shown, row>>
       \/ /\ r.kind = "older"
          /\ win' = [win EXCEPT !.loadingOlder = FALSE] /\ Done(r)
          /\ UNCHANGED <<shown, row>>
       \/ /\ r.kind = "newer"
          /\ win' = [win EXCEPT !.loadingNewer = FALSE] /\ Done(r)
          /\ UNCHANGED <<shown, row>>
       \/ r.kind \in {"older", "newer"} /\ ReloadFromStart(r)
       \/ r.kind \in {"poll", "jump", "hit"} /\ Done(r) /\ UNCHANGED winVars
    /\ UNCHANGED <<log, jumps, pending, sending>>

\* ingestEvent: the frame of a message comes soon, late, again or never.
FrameArrives(i) ==
    /\ i > Start
    /\ IF win.status = "idle" THEN UNCHANGED winVars
       ELSE IF win.hasNewer
       THEN win' = [win EXCEPT !.badge = TRUE] /\ UNCHANGED <<shown, row>>
       ELSE Merge({i}) /\ UNCHANGED win
    /\ UNCHANGED <<netVars, pending, sending, req>>

-----------------------------------------------------------------------------
(* Sending.                                                                *)

\* sendMessage: the row shows at once, in whatever window is loaded.
SendMessage(s) ==
    /\ win.status # "idle"           \* the composer is part of the open thread
    /\ row[s] = "none" /\ sending[s] = "none" /\ s \notin pending /\ PosOf(s) = 0
    /\ row' = [row EXCEPT ![s] = "sending"] /\ pending' = pending \cup {s}
    /\ sending' = [sending EXCEPT ![s] = "out"]
    /\ UNCHANGED <<netVars, win, shown, req>>

\* Mutant: any answer is taken for the echo of a message that landed.
BugSendEcho(s) ==
    /\ sending[s] # "none"
    /\ sending' = [sending EXCEPT ![s] = "none"] /\ pending' = pending \ {s}
    /\ Merge({PosOf(s)})
    /\ UNCHANGED <<netVars, win, req>>
\* performSend: the echo replaces the row.
SendEcho(s) ==
    /\ sending[s] = "landed"
    /\ sending' = [sending EXCEPT ![s] = "none"] /\ pending' = pending \ {s}
    /\ Merge({PosOf(s)})
    /\ UNCHANGED <<netVars, win, req>>

\* Mutant: a late failure downgrades a message that was confirmed meanwhile.
BugFailedRow(s) == "failed"
\* Mutant: the failure leaves the row as it is.
BugUnfailedRow(s) == row[s]
\* The row after a failed send: a confirmed message is never downgraded.
FailedRow(s) == IF row[s] = "sending" THEN "failed" ELSE row[s]

\* performSend fails, although the message may have landed.
SendFails(s) ==
    /\ sending[s] # "none" /\ faults < MaxFaults /\ faults' = faults + 1
    /\ sending' = [sending EXCEPT ![s] = "none"]
    /\ row' = [row EXCEPT ![s] = FailedRow(s)]
    /\ UNCHANGED <<log, jumps, win, shown, pending, req>>

\* retrySend, offered on a failed row.
RetrySend(s) ==
    /\ row[s] = "failed" /\ s \in pending
    /\ row' = [row EXCEPT ![s] = "sending"]
    /\ sending' = [sending EXCEPT ![s] = "out"]
    /\ UNCHANGED <<netVars, win, shown, pending, req>>

\* discardFailed
DiscardFailed(s) ==
    /\ row[s] = "failed"
    /\ row' = [row EXCEPT ![s] = "none"] /\ pending' = pending \ {s}
    /\ UNCHANGED <<netVars, win, shown, sending, req>>

-----------------------------------------------------------------------------
Answer(r) ==
    \/ LatestAnswer(r) \/ OlderAnswer(r) \/ NewerAnswer(r) \/ PollAnswer(r)
    \/ JumpAnswer(r)

Next ==
    \/ PeerSends \/ \E i \in 1..End : FrameArrives(i) \/ Jump(i)
    \/ \E s \in Sends : \/ SendMessage(s) \/ Land(s) \/ SendEcho(s) \/ SendFails(s)
                        \/ RetrySend(s) \/ DiscardFailed(s)
    \/ Open \/ ScrollToLatest \/ LoadOlder \/ LoadNewer
    \/ \E r \in req : Answer(r) \/ RequestFails(r)

Spec == Init /\ [][Next]_vars

\* Requests are answered or fail, and the timer keeps polling the thread.
\* What the viewer does (opening, scrolling, jumping, retrying) may never
\* happen.  The timer's fairness is strong since the bound on requests, which
\* may disable it for a while, is the model's.
FairSpec ==
    /\ Spec
    /\ \A s \in Sends : WF_vars(Land(s)) /\ WF_vars(SendEcho(s))
    /\ \A kind \in Kinds : WF_vars(\E r \in req : r.kind = kind /\ Answer(r))
    /\ SF_vars(PollRecent)

-----------------------------------------------------------------------------
(* Properties.                                                             *)

\* A message that shows as delivered never shows as sending or failed again,
\* whichever of echo, frame, page and failure comes last.
NeverDowngraded == \A s \in Sends : PosOf(s) \in shown => row[s] = "none"

InFlight(kind) == \E r \in req : r.kind = kind

\* Every spinner has a request behind it that will end it: the skeleton, the
\* loaders at both ends and the clock of a row that is being sent.
NothingStuck ==
    /\ win.status = "loading" => InFlight("latest")
    /\ win.loadingOlder => InFlight("older")
    /\ win.loadingNewer => InFlight("newer")
    /\ \A s \in Sends : row[s] = "sending" => sending[s] # "none"

\* Every send leaves the sending state.
SendSettles == \A s \in Sends : row[s] = "sending" ~> row[s] # "sending"

\* A window that loaded and reaches the live end.
AtLiveEnd == win.status = "ready" /\ ~win.hasNewer

\* Polling alone keeps an open thread current: a window at the live end that
\* missed a message comes to show the newest one, unless it leaves the live end
\* or fails to load, although frames are lost and the answers of older polls and
\* pages come late.
CatchesUp == []<>(AtLiveEnd => End \in shown)

=============================================================================
