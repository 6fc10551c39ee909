-------------------------- MODULE ExtensionApproval --------------------------
(***************************************************************************)
(* The approval queue of the browser extension's service worker            *)
(* (apps/extension/src/background.ts).                                      *)
(*                                                                         *)
(* A page asks for a signature, a connection or a network switch over a     *)
(* provider port.  The worker admits the request, opens a confirmation      *)
(* window and parks the request in the map `pending` until one of many      *)
(* events settles it: the user's decision, the five minute timer, the       *)
(* window being closed, the port going away, the wallet being locked or its *)
(* selection changed, the browser refusing the window, the worker dying.    *)
(*                                                                         *)
(* JavaScript runs one segment, from one await to the next, without         *)
(* interruption, so every action below is one such segment.  What the       *)
(* request does once it is approved is the subject of ExtensionSigning;     *)
(* here it takes some time ("executing") and ends in one answer.            *)
(***************************************************************************)
EXTENDS Naturals, FiniteSets

CONSTANTS
    Requests,               \* provider requests, each used once
    Ids, IdOf,              \* the request ids, and the one each request carries
    Ports, PortOf,          \* provider ports, and the one a request came over
    Origins, OriginOf,      \* page origins, and the one behind each port
    MaxPending,             \* MAX_PENDING_TOTAL
    MaxPendingPerOrigin,    \* MAX_PENDING_PER_ORIGIN
    MaxRevision,            \* bound: context changes per life of the worker
    NoRequest               \* an empty slot of a map

ASSUME ConstantsAssumption ==
    /\ IdOf \in [Requests -> Ids]
    /\ PortOf \in [Requests -> Ports]
    /\ OriginOf \in [Ports -> Origins]
    /\ MaxPending \in Nat /\ MaxPendingPerOrigin \in Nat /\ MaxRevision \in Nat
    /\ NoRequest \notin Requests /\ NoRequest \notin Nat
    /\ IsFiniteSet(Requests) /\ IsFiniteSet(Ids)

VARIABLES
    revision,    \* contextRevision
    pending,     \* pending: id -> the item awaiting a decision
    processing,  \* processing: id -> the item being executed
    stage,       \* how far the handler of each request has come
    captured,    \* the revision signingContext() read before its await
    timer,       \* requests whose five minute timer is armed
    expired,     \* requests whose expiresAt has passed
    popup,       \* the confirmation window of each request
    port,        \* provider ports: not opened yet, connected, disconnected
    answers,     \* what the page was told about each request
    badgeQueued, \* badgeUpdate: an update waits for its turn
    badgeWriting,\* the number being written by the update under way
    badgeShown   \* the number the toolbar shows

badge == <<badgeQueued, badgeWriting, badgeShown>>
workerVars == <<revision, pending, processing, stage, captured, timer>>
vars == <<workerVars, expired, popup, port, answers, badge>>

Stages == {"idle", "handling", "context", "opened", "executing", "settled", "lost"}
Popups == {"none", "locating", "creating", "shown", "open", "closed", "stray"}
Answers == {"declined", "failed", "settled"}
Slots == Requests \cup {NoRequest}

TypeOK ==
    /\ revision \in 0..MaxRevision
    /\ pending \in [Ids -> Slots]
    /\ processing \in [Ids -> Slots]
    /\ stage \in [Requests -> Stages]
    /\ captured \in [Requests -> 0..MaxRevision]
    /\ timer \subseteq Requests
    /\ expired \subseteq Requests
    /\ popup \in [Requests -> Popups]
    /\ port \in [Ports -> {"fresh", "up", "down"}]
    /\ answers \in [Requests -> SUBSET Answers]
    /\ badgeQueued \in BOOLEAN
    /\ badgeWriting \in Nat \cup {NoRequest}
    /\ badgeShown \in Nat

-----------------------------------------------------------------------------
Occupied(map) == {i \in Ids : map[i] # NoRequest}
IsPending(r) == pending[IdOf[r]] = r
PendingItems == {r \in Requests : IsPending(r)}
Live(r) == port[PortOf[r]] = "up"
Origin(r) == OriginOf[PortOf[r]]
PendingOfOrigin(o) == {r \in PendingItems : Origin(r) = o}
\* Mutant: the requests being processed are subtracted from those that wait.
OutstandingLess == Cardinality(Occupied(pending)) - Cardinality(Occupied(processing))

Outstanding == Cardinality(Occupied(pending)) + Cardinality(Occupied(processing))

\* Mutant: removePending forgets to delete the item.
WithoutNothing(S) == pending

Without(S) == [i \in Ids |-> IF pending[i] \in S THEN NoRequest ELSE pending[i]]

\* postMessage throws on a disconnected port: the page hears nothing.
Tell(S, answer) ==
    answers' = [r \in Requests |->
                  answers[r] \cup (IF r \in S /\ Live(r) THEN {answer} ELSE {})]

\* Mutant: no update is queued while one is being written.
SyncIdleBadge ==
    /\ badgeQueued' = (badgeQueued \/ badgeWriting = NoRequest)
    /\ UNCHANGED <<badgeWriting, badgeShown>>

\* syncRequestBadge() appends an update to the serialised chain. An update reads
\* the count when it starts, so the updates that wait are all alike.
SyncBadge == badgeQueued' = TRUE /\ UNCHANGED <<badgeWriting, badgeShown>>

\* removePending() and the answer of rejectPending(), for the items of S. The
\* exception of a dead port skips the line that closes the window.
RejectItems(S) ==
    /\ pending' = Without(S)
    /\ timer' = timer \ S
    /\ Tell(S, "declined")
    /\ popup' = [r \in Requests |->
                   IF r \in S /\ Live(r) /\ popup[r] = "open" THEN "closed" ELSE popup[r]]
    /\ IF S # {} THEN SyncBadge ELSE UNCHANGED badge

ItemsAt(id) == {pending[id]} \ {NoRequest}

Init ==
    /\ revision = 0
    /\ pending = [i \in Ids |-> NoRequest]
    /\ processing = [i \in Ids |-> NoRequest]
    /\ stage = [r \in Requests |-> "idle"]
    /\ captured = [r \in Requests |-> 0]
    /\ timer = {}
    /\ expired = {}
    /\ popup = [r \in Requests |-> "none"]
    /\ port = [p \in Ports |-> "fresh"]
    /\ answers = [r \in Requests |-> {}]
    /\ badgeQueued = TRUE
    /\ badgeWriting = NoRequest
    /\ badgeShown = 0

-----------------------------------------------------------------------------
(* Pages and their ports.                                                   *)

Connect(p) ==
    /\ port[p] = "fresh"
    /\ port' = [port EXCEPT ![p] = "up"]
    /\ UNCHANGED <<workerVars, expired, popup, answers, badge>>

\* A page's request arrives; handleProviderRequest awaits settings().
Arrive(r) ==
    /\ stage[r] = "idle" /\ Live(r)
    /\ stage' = [stage EXCEPT ![r] = "handling"]
    /\ UNCHANGED <<revision, pending, processing, captured, timer>>
    /\ UNCHANGED <<expired, popup, port, answers, badge>>

\* The port's onDisconnect listener drops the port's pending items.
Disconnect(p) ==
    LET gone == {r \in PendingItems : PortOf[r] = p} IN
    /\ port[p] = "up"
    /\ port' = [port EXCEPT ![p] = "down"]
    /\ pending' = Without(gone)
    /\ timer' = timer \ gone
    /\ popup' = [r \in Requests |->
                   IF r \in gone /\ popup[r] = "open" THEN "closed" ELSE popup[r]]
    /\ IF gone # {} THEN SyncBadge ELSE UNCHANGED badge
    /\ UNCHANGED <<revision, processing, stage, captured, expired, answers>>

-----------------------------------------------------------------------------
(* openApproval(): admission, context, window.                              *)

\* Mutant: the error of openApproval is not reported to the page.
FailsSilently(r) ==
    /\ stage' = [stage EXCEPT ![r] = "settled"]
    /\ UNCHANGED answers

Fails(r) ==
    /\ stage' = [stage EXCEPT ![r] = "settled"]
    /\ Tell({r}, "failed")

\* ApprovalRequestGuard.assertAllowed against the map as it is now.
Allowed(r) ==
    /\ pending[IdOf[r]] = NoRequest
    /\ Cardinality(Occupied(pending)) < MaxPending
    /\ Cardinality(PendingOfOrigin(Origin(r))) < MaxPendingPerOrigin

\* The admitted request awaits signingContext(), which has read the revision.
Admit(r) ==
    /\ stage[r] = "handling"
    /\ Allowed(r)
    /\ stage' = [stage EXCEPT ![r] = "context"]
    /\ captured' = [captured EXCEPT ![r] = revision]
    /\ UNCHANGED <<revision, pending, processing, timer>>
    /\ UNCHANGED <<expired, popup, port, answers, badge>>

\* The request is refused: by the limits, or by the sliding rate limit of ten
\* confirmations a minute, which may refuse any request.
Refuse(r) ==
    /\ stage[r] = "handling"
    /\ Fails(r)
    /\ UNCHANGED <<revision, pending, processing, captured, timer>>
    /\ UNCHANGED <<expired, popup, port, badge>>

\* signingContext() resolves: the item enters the map without a second look at
\* the guard or at the port.
Open(r) ==
    /\ stage[r] = "context"
    /\ captured[r] = revision
    /\ stage' = [stage EXCEPT ![r] = "opened"]
    /\ pending' = [pending EXCEPT ![IdOf[r]] = r]
    /\ timer' = timer \cup {r}
    /\ popup' = [popup EXCEPT ![r] = "locating"]
    /\ SyncBadge
    /\ UNCHANGED <<revision, processing, captured, expired, port, answers>>

OpenStale(r) ==
    /\ stage[r] = "context"
    /\ captured[r] # revision
    /\ Fails(r)
    /\ UNCHANGED <<revision, pending, processing, captured, timer>>
    /\ UNCHANGED <<expired, popup, port, badge>>

\* windows.get resolves: return, or ask the browser for the popup.
Locate(r) ==
    /\ popup[r] = "locating"
    /\ popup' = [popup EXCEPT ![r] = IF IsPending(r) THEN "creating" ELSE "none"]
    /\ UNCHANGED <<workerVars, expired, port, answers, badge>>

\* The browser shows the popup before the promise of windows.create resolves.
Show(r) ==
    /\ popup[r] = "creating"
    /\ popup' = [popup EXCEPT ![r] = "shown"]
    /\ UNCHANGED <<workerVars, expired, port, answers, badge>>

\* Mutant: the item is not looked up again after windows.create.
CreatedUnchecked(r) ==
    /\ popup[r] = "shown"
    /\ popup' = [popup EXCEPT ![r] = "open"]
    /\ UNCHANGED <<workerVars, expired, port, answers, badge>>

\* windows.create resolves: record the window, or remove it if the item is gone.
Created(r) ==
    /\ popup[r] = "shown"
    /\ popup' = [popup EXCEPT ![r] = IF IsPending(r) THEN "open" ELSE "closed"]
    /\ UNCHANGED <<workerVars, expired, port, answers, badge>>

\* windows.create rejects: drop whatever the map holds under the id, and let the
\* message handler report the error.
CreateFails(r) ==
    LET dropped == ItemsAt(IdOf[r]) IN
    /\ popup[r] = "creating"
    /\ popup' = [popup EXCEPT ![r] = "none"]
    /\ pending' = Without(dropped)
    /\ timer' = timer \ dropped
    /\ stage' = [stage EXCEPT ![r] = "settled"]
    /\ Tell({r}, "failed")
    /\ IF dropped # {} THEN SyncBadge ELSE UNCHANGED badge
    /\ UNCHANGED <<revision, processing, captured, expired, port>>

-----------------------------------------------------------------------------
(* Everything that ends a pending item without executing it.                *)

\* Five minutes have passed since the request was handed to openApproval.
Expire(r) ==
    /\ stage[r] \notin {"idle", "handling", "settled", "lost"} /\ r \notin expired
    /\ expired' = expired \cup {r}
    /\ UNCHANGED <<workerVars, popup, port, answers, badge>>

\* The timer, armed after expiresAt was computed, rejects by id.
TimerFires(r) ==
    LET hit == ItemsAt(IdOf[r]) IN
    /\ r \in timer /\ r \in expired
    /\ pending' = Without(hit)
    /\ timer' = timer \ (hit \cup {r})
    /\ Tell(hit, "declined")
    /\ popup' = [q \in Requests |->
                   IF q \in hit /\ Live(q) /\ popup[q] = "open" THEN "closed" ELSE popup[q]]
    /\ IF hit # {} THEN SyncBadge ELSE UNCHANGED badge
    /\ UNCHANGED <<revision, processing, stage, captured, expired, port>>

\* GET_PENDING_REQUESTS rejects every expired item; the exception of a dead port
\* ends the loop at that item. GET_PENDING rejects one item.
SweepExpired ==
    LET late == PendingItems \cap expired
        dead == {r \in late : ~Live(r)} IN
    \E S \in SUBSET late :
        /\ S # {}
        /\ S = late \/ Cardinality(S) = 1 \/ Cardinality(S \cap dead) = 1
        /\ RejectItems(S)
        /\ UNCHANGED <<revision, processing, stage, captured, expired, port>>

\* windows.onRemoved: the user closes the confirmation window.
UserCloses(r) ==
    LET hit == {q \in {r} : IsPending(q)} IN
    /\ popup[r] = "open"
    /\ pending' = Without(hit)
    /\ timer' = timer \ hit
    /\ Tell(hit, "declined")
    /\ popup' = [popup EXCEPT ![r] = "closed"]
    /\ IF hit # {} THEN SyncBadge ELSE UNCHANGED badge
    /\ UNCHANGED <<revision, processing, stage, captured, expired, port>>

\* lockVault, updateSettings, REVOKE_PERMISSION, CLEAR_PERMISSIONS, ...: the
\* revision moves and cancelPendingApprovals() rejects every pending item.
ChangeContext ==
    /\ revision < MaxRevision
    /\ revision' = revision + 1
    /\ RejectItems(PendingItems)
    /\ UNCHANGED <<processing, stage, captured, expired, port>>

-----------------------------------------------------------------------------
(* RESOLVE_PENDING: the decision of the user, in a window that shows.       *)

\* Mutant: the decision is taken without finding the item in the map.
DecidableByWindow(r) == popup[r] \in {"shown", "open"}

Decidable(r) == IsPending(r) /\ popup[r] \in {"shown", "open"}

ClosePopup(r) == IF popup[r] = "open" THEN [popup EXCEPT ![r] = "closed"] ELSE popup

Approve(r) ==
    /\ Decidable(r)
    /\ processing' = [processing EXCEPT ![IdOf[r]] = r]
    /\ pending' = Without({r})
    /\ timer' = timer \ {r}
    /\ stage' = [stage EXCEPT ![r] = "executing"]
    /\ SyncBadge
    /\ UNCHANGED <<revision, captured, expired, popup, port, answers>>

Decline(r) ==
    /\ Decidable(r)
    /\ pending' = Without({r})
    /\ timer' = timer \ {r}
    /\ stage' = [stage EXCEPT ![r] = "settled"]
    /\ Tell({r}, "declined")
    /\ popup' = ClosePopup(r)
    /\ SyncBadge
    /\ UNCHANGED <<revision, processing, captured, expired, port>>

\* The execution ends, with a result or an error, and the finally block runs.
Settle(r) ==
    /\ stage[r] = "executing"
    /\ processing' = [processing EXCEPT ![IdOf[r]] = NoRequest]
    /\ stage' = [stage EXCEPT ![r] = "settled"]
    /\ Tell({r}, "settled")
    /\ popup' = ClosePopup(r)
    /\ SyncBadge
    /\ UNCHANGED <<revision, pending, captured, timer, expired, port>>

-----------------------------------------------------------------------------
(* The badge chain, and the death of the worker.                            *)

BadgeStarts ==
    /\ badgeQueued /\ badgeWriting = NoRequest
    /\ badgeQueued' = FALSE
    /\ badgeWriting' = Outstanding
    /\ UNCHANGED <<workerVars, expired, popup, port, answers, badgeShown>>

BadgeWritten ==
    /\ badgeWriting # NoRequest
    /\ badgeShown' = badgeWriting
    /\ badgeWriting' = NoRequest
    /\ UNCHANGED <<workerVars, expired, popup, port, answers, badgeQueued>>

\* Chrome stops the worker: its memory, timers and ports are gone, its windows
\* stay. The next worker starts from nothing and resets the badge.
Restart ==
    /\ \E r \in Requests : stage[r] \notin {"idle", "settled", "lost"}
    /\ revision' = 0
    /\ pending' = [i \in Ids |-> NoRequest]
    /\ processing' = [i \in Ids |-> NoRequest]
    /\ stage' = [r \in Requests |->
                   IF stage[r] \in {"idle", "settled"} THEN stage[r] ELSE "lost"]
    /\ captured' = [r \in Requests |-> 0]
    /\ timer' = {}
    /\ popup' = [r \in Requests |->
                   IF popup[r] \in {"creating", "shown", "open"} THEN "stray"
                   ELSE IF popup[r] = "locating" THEN "none" ELSE popup[r]]
    /\ port' = [p \in Ports |-> IF port[p] = "up" THEN "down" ELSE port[p]]
    /\ badgeQueued' = TRUE
    /\ badgeWriting' = NoRequest
    /\ UNCHANGED <<expired, answers, badgeShown>>

-----------------------------------------------------------------------------
Browser(r) == Locate(r) \/ Show(r) \/ Created(r) \/ CreateFails(r)
Handler(r) == Admit(r) \/ Refuse(r) \/ Open(r) \/ OpenStale(r) \/ Settle(r)
Clock(r) == Expire(r) \/ TimerFires(r)
User(r) == Approve(r) \/ Decline(r) \/ UserCloses(r)

Next ==
    \/ \E p \in Ports : Connect(p) \/ Disconnect(p)
    \/ \E r \in Requests : Arrive(r) \/ Handler(r) \/ Browser(r) \/ Clock(r) \/ User(r)
    \/ SweepExpired
    \/ ChangeContext
    \/ BadgeStarts \/ BadgeWritten
    \/ Restart

Spec == Init /\ [][Next]_vars

\* Promises settle, timers fire and the badge chain advances while the worker
\* lives; the user, the pages and the context need never act.
Fairness ==
    /\ \A r \in Requests :
         /\ WF_vars(Handler(r)) /\ WF_vars(Locate(r))
         /\ WF_vars(Show(r) \/ CreateFails(r)) /\ WF_vars(Created(r))
         /\ WF_vars(Expire(r)) /\ WF_vars(TimerFires(r))
    /\ WF_vars(BadgeStarts) /\ WF_vars(BadgeWritten)

FairSpec == Spec /\ Fairness

-----------------------------------------------------------------------------
(* Properties.                                                              *)

\* A request the worker executes was never also reported as rejected or failed:
\* the page that was told "no" (by a timeout, a closed window, a lock, a popup
\* that failed) can rely on nothing having been signed, in every order of
\* decision, timer, window and context events (background.ts 547-606, 1589).
NeverDeclinedAndExecuted ==
    \A r \in Requests :
        stage[r] = "executing" \/ "settled" \in answers[r] =>
            answers[r] \cap {"declined", "failed"} = {}

\* One id is never both awaiting a decision and being executed, so a second
\* window cannot approve a request again (background.ts 1589-1595).
NeverPendingAndProcessing ==
    \A i \in Ids : pending[i] = NoRequest \/ pending[i] # processing[i]

\* The popup of a request that is over does not stay behind, however the
\* decision, the timer, the lock and the two awaits of openApproval interleave
\* (background.ts 570-589, 605, 1621). A port that went away while the window
\* opened is excepted: the failing postMessage skips the removal.
NoOrphanPopup ==
    \A r \in Requests :
        /\ popup[r] = "open" /\ Live(r)
        => IsPending(r) \/ processing[IdOf[r]] = r

\* When the serialised badge chain is idle the toolbar shows the number of
\* requests awaiting confirmation or being processed (background.ts 111-121,
\* README.md 21): no change of either map forgets to queue an update. It is said of
\* writes the browser carries out: background.ts 120 swallows one that fails, and
\* the toolbar then keeps the old number until the next update.
BadgeAgreesWhenIdle ==
    ~badgeQueued /\ badgeWriting = NoRequest => badgeShown = Outstanding

DecisionOn(r) ==
    IF stage[r] = "idle" THEN "new"
    ELSE IF stage[r] \in {"handling", "context"} \/ IsPending(r) THEN "open"
    ELSE IF stage[r] = "executing" THEN "taken" ELSE "over"

ReplyTo(r) ==
    IF "settled" \in answers[r] THEN "outcome"
    ELSE IF answers[r] = {} THEN "nothing" ELSE "no"

Queue == INSTANCE Decision WITH
    decision <- [r \in Requests |-> DecisionOn(r)],
    reply <- [r \in Requests |-> ReplyTo(r)]

\* Two maps, three chains of promises and a dozen events implement one decision per
\* request: no request is decided twice, executed without a decision or answered
\* against it, and none is answered late, after it was dropped in silence
\* (background.ts 547-606, 965-980, 1589-1622).
DecidedOnce == Queue!Spec

\* A page that keeps its port is told how its request ended, also when the user
\* never reacts (background.ts 561, 965-980, 1589-1622).
EveryRequestAnswered ==
    \A r \in Requests :
        stage[r] = "handling" ~> (answers[r] # {} \/ ~Live(r))

\* "Completed, rejected, expired, disconnected and failed-to-open requests
\* clear automatically" (README.md 21): no item awaits the user's decision for
\* a port that is already disconnected.
PendingHasLivePort == \A r \in PendingItems : Live(r)

\* "approval guard rejects duplicates and bounds pending requests per origin"
\* (test/provider-security.test.ts 35).
PerOriginBound ==
    \A o \in Origins : Cardinality(PendingOfOrigin(o)) <= MaxPendingPerOrigin
==============================================================================
