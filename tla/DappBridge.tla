------------------------------ MODULE DappBridge ------------------------------
(***************************************************************************)
(* DApp pages in tabs of the desktop application, the shell between them   *)
(* and the main window, and the window's dialogs.  A page asks through the *)
(* session of its tab; the shell keeps the request; the window finds it by *)
(* polling, asks the user, claims it, has the backend sign, and resolves   *)
(* it; the page polls for the result.  A lock pauses all of this, and a    *)
(* disconnection ends it for one site or one wallet.                       *)
(*                                                                         *)
(* Commands of the shell (src-tauri/src/lib.rs) run in parallel.  One that *)
(* holds several mutexes takes them in one order (sessions, requests,      *)
(* connect_requests) and is a step of its own; only the flag `paused` is   *)
(* read without a mutex, and a claim is therefore two steps.               *)
(***************************************************************************)
EXTENDS Integers, Sequences, FiniteSets

CONSTANTS
    Tabs, Origins, Wallets,
    Families,           \* "solana", "evm"
    Signs, Connects,    \* requests to sign and to connect
    Links,              \* those of them that come by deep link
    Named,              \* the site and account a tab is opened for, or a link names
    InitGranted,        \* the stored permissions at the start
    Approvals,          \* approvals the window can have under way
    MaxOpens,           \* bound on openings of tabs
    MaxEvents,          \* bound on locks, navigations, closings and disconnections
    None

ASSUME BridgeAssumption ==
    /\ Signs \intersect Connects = {} /\ Links \subseteq Signs \union Connects
    /\ {MaxOpens, MaxEvents} \subseteq Nat
    /\ Named \in [Tabs \union Links -> [origin : Origins, wallet : Wallets, family : Families]]
    /\ Families \subseteq {"solana", "evm"}
    /\ InitGranted \subseteq [origin : Origins, wallet : Wallets, family : Families]
    /\ None \notin Tabs \union Signs \union Connects \union Approvals
    /\ "pause" \notin Tabs /\ None \notin {"pause", "approved", "rejected"}

VARIABLES
    (* the shell *)
    paused, sessions, requests,
    claiming,       \* the claim that holds the mutexes of sessions and requests, or None
    gate,           \* webview_visibility: the tab that is being opened, "pause", or None
    webview,        \* the page of each tab, by the number of its opening; 0 if closed
    clock,          \* openings so far, which are what separates two readings of the clock
    granted,        \* the stored permissions
    (* the pages *)
    event,          \* what each request asks for
    page,           \* how far the page is with it
    delivered,      \* the result the page was given
    (* the window *)
    lockedRef,      \* applicationLockedRef
    locked,         \* applicationLocked
    locking,        \* what a lock still has to do
    queue,          \* dapp_pause_connections, dapp_resume_connections in their order
    presented, dialog,
    busy,           \* dappSignBusy
    resolving,      \* dappConnectResolutionInFlightRef
    flow,           \* how far each approval is
    (* the backend *)
    keys,           \* it holds unlocked wallets
    signed,         \* how often it signed each request
    (* for the properties *)
    closed,         \* a pause has returned and no resumption has ended since
    cut,            \* requests whose connection was disconnected while they were open
    refused,        \* permissions whose disconnection was refused
    events          \* locks, navigations, closings and disconnections so far

shell   == <<paused, sessions, requests, claiming, gate, webview, clock, granted>>
pages   == <<event, page, delivered>>
security == <<lockedRef, locked, locking, queue>>
dialogs == <<presented, dialog, busy, resolving, flow>>
window  == <<security, dialogs>>
backend == <<keys, signed>>
ghosts  == <<closed, cut, refused, events>>
vars    == <<shell, pages, window, backend, ghosts>>

--------------------------------------------------------------------------------
Ids      == Signs \union Connects
Kinds    == {"sign", "connect"}
Of(kind) == IF kind = "sign" THEN Signs ELSE Connects
KindOf(r) == IF r \in Signs THEN "sign" ELSE "connect"

\* The account a session or a request is about, and the permission it stands for.
Identity == [origin : Origins, wallet : Wallets, family : Families]
Session(p, at) == [origin |-> p.origin, wallet |-> p.wallet, family |-> p.family, opened |-> at]
IdentityOf(e) == [origin |-> e.origin, wallet |-> e.wallet, family |-> e.family]

Kept(r) == requests[r] # None
Waiting(kind) == {r \in Of(kind) : Kept(r) /\ requests[r].result = None /\ ~requests[r].claimed}

\* The mutexes of the shell are free.
Free == claiming = None

NoRequest == [kind \in Kinds |-> None]
\* The user, or a page, interferes.
Interfere == events < MaxEvents /\ events' = events + 1

Idle == [of |-> None, at |-> "none", existed |-> FALSE]

Init ==
    /\ paused = TRUE /\ claiming = None /\ gate = None
    /\ sessions = [t \in Tabs |-> None]
    /\ requests = [r \in Ids |-> None]
    /\ webview = [t \in Tabs |-> 0] /\ clock = 0
    /\ granted = InitGranted
    /\ event = [r \in Ids |-> None]
    /\ page = [r \in Ids |-> "idle"]
    /\ delivered = [r \in Ids |-> "none"]
    /\ lockedRef = TRUE /\ locked = TRUE /\ locking = "none" /\ queue = <<>>
    /\ presented = NoRequest /\ dialog = NoRequest
    /\ busy = FALSE /\ resolving = None
    /\ flow = [a \in Approvals |-> Idle]
    /\ keys = FALSE /\ signed = [r \in Ids |-> 0]
    /\ closed = TRUE /\ cut = {} /\ refused = {}
    /\ events = 0

--------------------------------------------------------------------------------
(* Tabs. *)

\* dapp_open_tab registers the session before the page can load.
Open(t) ==
    /\ gate = None /\ ~paused /\ Free /\ clock < MaxOpens
    /\ gate' = t
    /\ clock' = clock + 1
    /\ webview' = [webview EXCEPT ![t] = 0]
    /\ sessions' = [sessions EXCEPT ![t] = Session(Named[t], clock')]
    /\ UNCHANGED <<paused, requests, claiming, granted, pages, window, backend, ghosts>>

\* add_child, unless a pause came first: the page loads, and may ask from now on.
Load(t) ==
    /\ gate = t /\ webview[t] = 0 /\ ~paused
    /\ webview' = [webview EXCEPT ![t] = clock]
    /\ UNCHANGED <<paused, sessions, requests, claiming, gate, clock, granted, pages,
                   window, backend, ghosts>>

\* The page is shown, or it is taken down with its session.
Opened(t) ==
    /\ gate = t /\ gate' = None
    /\ \/ webview[t] # 0 /\ UNCHANGED <<sessions, webview>>
       \/ /\ Free
          /\ sessions' = [sessions EXCEPT ![t] = None]
          /\ webview' = [webview EXCEPT ![t] = 0]
    /\ UNCHANGED <<paused, requests, claiming, clock, granted, pages, window, backend, ghosts>>

\* on_navigation, on_page_load: the session follows its page.
Navigate(t, o) ==
    /\ webview[t] # 0 /\ sessions[t] # None /\ sessions[t].origin # o /\ Free
    /\ Interfere
    /\ sessions' = [sessions EXCEPT ![t].origin = o]
    /\ UNCHANGED <<paused, requests, claiming, gate, webview, clock, granted, pages, window,
                   backend, closed, cut, refused>>

Close(t) ==
    /\ gate = None /\ webview[t] # 0 /\ Free
    /\ Interfere
    /\ webview' = [webview EXCEPT ![t] = 0]
    /\ sessions' = [sessions EXCEPT ![t] = None]
    /\ UNCHANGED <<paused, requests, claiming, gate, clock, granted, pages, window,
                   backend, closed, cut, refused>>

--------------------------------------------------------------------------------
(* Requests of pages and links. *)

\* A request is a dated copy of its session; it has no tab if it came by a link, which
\* names site and account itself.
Ask(r, tab, opening, p) ==
    /\ page[r] = "idle"
    /\ event' = [event EXCEPT ![r] = [tab |-> tab, opening |-> opening, created |-> clock,
                                      origin |-> p.origin, wallet |-> p.wallet, family |-> p.family]]
    /\ page' = [page EXCEPT ![r] = "submitting"]
    /\ UNCHANGED <<shell, delivered, window, backend, ghosts>>

Submit(r, t) ==
    /\ r \notin Links /\ webview[t] # 0 /\ sessions[t] # None /\ Free
    /\ Ask(r, t, webview[t], sessions[t])

Link(r) == r \in Links /\ Ask(r, None, 0, Named[r])

\* It is kept, paused or not. (The event that wakes the window is left out: the window
\* only polls upon it, which it also does by timer.)
Enqueue(r) ==
    /\ page[r] = "submitting" /\ Free
    /\ requests' = [requests EXCEPT ![r] = [claimed |-> FALSE, result |-> None]]
    /\ page' = [page EXCEPT ![r] = "waiting"]
    /\ UNCHANGED <<paused, sessions, claiming, gate, webview, clock, granted, event,
                   delivered, window, backend, ghosts>>

\* DAPP_REQUEST_TTL_MS passes. What is older is pruned, or removed or refused by whoever
\* comes upon it, as if it were gone.
Expire(r) ==
    /\ Kept(r) /\ Free
    /\ requests' = [requests EXCEPT ![r] = None]
    /\ UNCHANGED <<paused, sessions, claiming, gate, webview, clock, granted, pages, window, backend, ghosts>>

\* The page that asked takes its result.
Poll(r) ==
    /\ page[r] = "waiting" /\ r \notin Links /\ webview[event[r].tab] = event[r].opening /\ Free
    /\ Kept(r) => requests[r].result # None
    /\ requests' = [requests EXCEPT ![r] = None]
    /\ delivered' = [delivered EXCEPT ![r] =
                       IF Kept(r) THEN requests[r].result ELSE "expired"]
    /\ page' = [page EXCEPT ![r] = "done"]
    /\ UNCHANGED <<paused, sessions, claiming, gate, webview, clock, granted, event,
                   window, backend, ghosts>>

--------------------------------------------------------------------------------
(* The window polls for requests and shows them. *)

\* dapp_pending_sign_request and dapp_pending_connect_request answer with the oldest,
\* which is shown unless it was before. (An answer that a lock or a resolution overtakes
\* shows nothing, or a dialog like one that was overtaken after it was shown.)
Show(kind) ==
    /\ ~lockedRef /\ ~paused /\ Free
    /\ \E r \in Waiting(kind) :
          /\ \A q \in Waiting(kind) : event[r].created <= event[q].created
          /\ presented[kind] # r
          /\ presented' = [presented EXCEPT ![kind] = r]
          /\ dialog' = [dialog EXCEPT ![kind] = r]
    /\ UNCHANGED <<shell, pages, security, busy, resolving, flow, backend, ghosts>>

--------------------------------------------------------------------------------
(* Resolving a request: resolve_dapp_sign_request, resolve_dapp_connect_request. *)

CanResolve(r, result) ==
    /\ ~paused /\ Kept(r) /\ requests[r].result = None
    /\ r \in Signs /\ result = "approved" => requests[r].claimed

\* A page polls for the result; a link's callback opens with it.
Resolve(r, result) ==
    /\ Free
    /\ requests' = IF CanResolve(r, result) THEN [requests EXCEPT ![r].result = result]
                   ELSE requests
    /\ delivered' = IF CanResolve(r, result) /\ r \in Links
                    THEN [delivered EXCEPT ![r] = result] ELSE delivered
    /\ UNCHANGED <<paused, sessions, claiming, gate, webview, clock, event, page>>

\* The user declines, by a button or by a click beside the dialog, which is possible while
\* an approval is under way; the dialog stays if that fails.
Decline(r) ==
    LET kind == KindOf(r) IN
    /\ dialog[kind] = r /\ (kind = "connect" => resolving = None)
    /\ Resolve(r, "rejected")
    /\ dialog' = IF CanResolve(r, "rejected") THEN [dialog EXCEPT ![kind] = None] ELSE dialog
    /\ busy' = FALSE
    /\ UNCHANGED <<granted, security, presented, resolving, flow, backend, ghosts>>

--------------------------------------------------------------------------------
(* The user approves a signature: approveDappSignRequest. *)

\* A new approval takes a free place.
Begin(next) == \E a \in Approvals : flow[a] = Idle /\ flow' = [flow EXCEPT ![a] = next]

Goto(a, next) == flow' = [flow EXCEPT ![a].at = next]

SignEnds(a) ==
    /\ flow' = [flow EXCEPT ![a] = Idle]
    /\ dialog' = [dialog EXCEPT !["sign"] = None]
    /\ busy' = FALSE

ApproveSign(r) ==
    /\ dialog["sign"] = r /\ ~lockedRef /\ ~busy
    /\ Begin([of |-> r, at |-> "claim", existed |-> FALSE])
    /\ busy' = TRUE
    /\ UNCHANGED <<shell, pages, security, presented, dialog, resolving, backend, ghosts>>

\* claim_dapp_sign_request takes the mutexes and looks at the flag.
ClaimBegins(a) ==
    /\ flow[a].at = "claim" /\ Free
    /\ IF paused THEN SignEnds(a) /\ UNCHANGED claiming
       ELSE claiming' = a /\ Goto(a, "claiming") /\ UNCHANGED <<dialog, busy>>
    /\ UNCHANGED <<paused, sessions, requests, gate, webview, clock, granted, pages,
                   security, presented, resolving, backend, ghosts>>

SessionAgrees(e) ==
    e.tab # None =>
        /\ sessions[e.tab] # None
        /\ IdentityOf(sessions[e.tab]) = IdentityOf(e)
        /\ sessions[e.tab].opened <= e.created

\* Mutant: a request that is being processed can be claimed again.
ClaimableAgain(r) ==
    /\ Kept(r) /\ requests[r].result = None
    /\ SessionAgrees(event[r])

Claimable(r) ==
    /\ Kept(r) /\ requests[r].result = None /\ ~requests[r].claimed
    /\ SessionAgrees(event[r])

ClaimEnds(a) ==
    LET r == flow[a].of IN
    /\ claiming = a /\ claiming' = None
    /\ IF Claimable(r)
       THEN /\ requests' = [requests EXCEPT ![r].claimed = TRUE]
            /\ Goto(a, "claimed") /\ UNCHANGED <<dialog, busy>>
       ELSE SignEnds(a) /\ UNCHANGED requests
    /\ UNCHANGED <<paused, sessions, gate, webview, clock, granted, pages, security,
                   presented, resolving, backend, ghosts>>

\* The window goes on unless it was locked meanwhile.
Continue(a, from, to) ==
    /\ flow[a].at = from
    /\ Goto(a, IF lockedRef THEN "reject" ELSE to)
    /\ UNCHANGED <<shell, pages, security, presented, dialog, busy, resolving, backend,
                   ghosts>>

\* The backend signs, if it has the key, and its answer arrives or is lost; or it refuses.
Sign(a) ==
    /\ flow[a].at = "sign"
    /\ \/ /\ keys
          /\ signed' = [signed EXCEPT ![flow[a].of] = @ + 1]
          /\ Goto(a, "signed") \/ Goto(a, "reject")
       \/ Goto(a, "reject") /\ UNCHANGED signed
    /\ UNCHANGED <<shell, pages, security, presented, dialog, busy, resolving, keys,
                   ghosts>>

\* The result is handed to the shell; if it cannot be, the request is rejected.
Answer(a) ==
    /\ flow[a].at = "answer"
    /\ Resolve(flow[a].of, "approved")
    /\ IF CanResolve(flow[a].of, "approved") THEN SignEnds(a)
       ELSE Goto(a, "reject") /\ UNCHANGED <<dialog, busy>>
    /\ UNCHANGED <<granted, security, presented, resolving, backend, ghosts>>

\* "A claimed request is never retried": whether this succeeds is not looked at.
Reject(a) ==
    /\ flow[a].at = "reject"
    /\ Resolve(flow[a].of, "rejected")
    /\ SignEnds(a)
    /\ UNCHANGED <<granted, security, presented, resolving, backend, ghosts>>

--------------------------------------------------------------------------------
(* The user, or a stored permission, approves a connection:
   approveDappConnectRequest and persistPermissionBeforeApproval. *)

ConnectEnds(a, dialogs_) ==
    /\ flow' = [flow EXCEPT ![a] = Idle]
    /\ dialog' = dialogs_
    /\ resolving' = IF resolving = flow[a].of THEN None ELSE resolving
    /\ busy' = FALSE

ApproveConnect(r) ==
    /\ dialog["connect"] = r /\ resolving = None /\ ~busy
    /\ Begin([of |-> r, at |-> "grant", existed |-> IdentityOf(event[r]) \in granted])
    /\ resolving' = r /\ busy' = TRUE
    /\ UNCHANGED <<shell, pages, security, presented, dialog, backend, ghosts>>

\* The store may fail.
Grant(a) ==
    /\ flow[a].at = "grant"
    /\ \/ /\ granted' = granted \union {IdentityOf(event[flow[a].of])}
          /\ Goto(a, IF lockedRef THEN "refuse" ELSE "approve")
          /\ UNCHANGED <<dialog, busy, resolving>>
       \/ ConnectEnds(a, dialog) /\ UNCHANGED granted
    /\ UNCHANGED <<paused, sessions, requests, claiming, gate, webview, clock, pages,
                   security, presented, backend, ghosts>>

\* A failure takes back a permission that was not there before.
Undoing(a) ==
    IF flow[a].existed THEN ConnectEnds(a, dialog)
    ELSE Goto(a, "undo") /\ UNCHANGED <<dialog, busy, resolving>>

Confirm(a) ==
    LET result == IF flow[a].at = "refuse" THEN "rejected" ELSE "approved" IN
    /\ flow[a].at \in {"refuse", "approve"}
    /\ Resolve(flow[a].of, result)
    /\ IF CanResolve(flow[a].of, result)
       THEN Goto(a, "confirmed") /\ UNCHANGED <<dialog, busy, resolving>> ELSE Undoing(a)
    /\ UNCHANGED <<granted, security, presented, backend, ghosts>>

Confirmed(a) ==
    /\ flow[a].at = "confirmed"
    /\ IF lockedRef THEN Undoing(a) ELSE ConnectEnds(a, [dialog EXCEPT !["connect"] = None])
    /\ UNCHANGED <<shell, pages, security, presented, backend, ghosts>>

Undo(a) ==
    /\ flow[a].at = "undo"
    /\ granted' = granted \ {IdentityOf(event[flow[a].of])}
    /\ ConnectEnds(a, dialog)
    /\ UNCHANGED <<paused, sessions, requests, claiming, gate, webview, clock, pages,
                   security, presented, backend, ghosts>>

--------------------------------------------------------------------------------
(* Locking and unlocking. *)

\* Mutant: the pause does not wait for its turn.
LockAhead ==
    /\ ~locked /\ locking = "none"
    /\ Interfere
    /\ lockedRef' = TRUE /\ locked' = TRUE /\ locking' = "store"
    /\ queue' = <<"pause">> \o queue
    /\ dialog' = NoRequest /\ presented' = NoRequest /\ resolving' = None
    /\ UNCHANGED <<shell, pages, busy, flow, backend, closed, cut, refused>>

\* lockApplication, and the effect of applicationLocked.
Lock ==
    /\ ~locked /\ locking = "none"
    /\ Interfere
    /\ lockedRef' = TRUE /\ locked' = TRUE /\ locking' = "store"
    /\ queue' = Append(queue, "pause")
    /\ dialog' = NoRequest /\ presented' = NoRequest /\ resolving' = None
    /\ UNCHANGED <<shell, pages, busy, flow, backend, closed, cut, refused>>

\* lock_wallet_security_state: pause_dapp_connections without the gate, then the backend.
LockStores ==
    /\ locking = "store" /\ locking' = "barrier"
    /\ paused' = TRUE
    /\ UNCHANGED <<sessions, requests, claiming, gate, webview, clock, granted, pages,
                   lockedRef, locked, queue, dialogs, backend, ghosts>>

\* Mutant: the lock does not wait for the sessions.
LockPassesAtOnce ==
    /\ locking = "barrier" /\ locking' = "backend"
    /\ closed' = paused
    /\ UNCHANGED <<shell, pages, lockedRef, locked, queue, dialogs, backend, cut, refused, events>>

LockPasses ==
    /\ locking = "barrier" /\ locking' = "backend"
    /\ Free
    /\ closed' = paused
    /\ UNCHANGED <<shell, pages, lockedRef, locked, queue, dialogs, backend, cut, refused, events>>

LockEnds ==
    /\ locking = "backend" /\ locking' = "none"
    /\ keys' = FALSE
    /\ UNCHANGED <<shell, pages, lockedRef, locked, queue, dialogs, signed, ghosts>>

\* The password was right: wallets are unlocked, the resumption is awaited.
Unlock ==
    /\ locked /\ lockedRef /\ locking = "none"
    /\ lockedRef' = FALSE /\ keys' = TRUE
    /\ queue' = Append(queue, "unlock")
    /\ UNCHANGED <<shell, pages, locked, locking, dialogs, signed, ghosts>>

\* dapp_pause_connections, at the head of the window's queue.
Pause ==
    /\ queue # <<>> /\ Head(queue) = "pause" /\ gate = None
    /\ gate' = "pause" /\ paused' = TRUE
    /\ UNCHANGED <<sessions, requests, claiming, webview, clock, granted, pages, window, backend, ghosts>>

PauseEnds ==
    /\ gate = "pause" /\ gate' = None /\ Free
    /\ queue' = Tail(queue)
    /\ closed' = paused
    /\ UNCHANGED <<paused, sessions, requests, claiming, webview, clock, granted, pages,
                   lockedRef, locked, locking, dialogs, backend, cut, refused, events>>

\* dapp_resume_connections. After an unlock the window shows what waited.
Resume ==
    /\ queue # <<>> /\ Head(queue) # "pause" /\ gate = None
    /\ IF Head(queue) = "unlock"
       THEN /\ locked' = FALSE /\ queue' = Append(Tail(queue), "resume")
            /\ presented' = NoRequest
       ELSE queue' = Tail(queue) /\ UNCHANGED <<locked, presented>>
    /\ paused' = FALSE /\ closed' = FALSE
    /\ UNCHANGED <<sessions, requests, claiming, gate, webview, clock, granted, pages,
                   lockedRef, locking, dialog, busy, resolving, flow, backend, cut,
                   refused, events>>

\* A tab cannot be shown: the bridge stays paused, and an unlock is taken back.
ResumeFails ==
    /\ queue # <<>> /\ Head(queue) # "pause" /\ gate = None
    /\ lockedRef' = (lockedRef \/ Head(queue) = "unlock")
    /\ queue' = Tail(queue)
    /\ UNCHANGED <<shell, pages, locked, locking, dialogs, backend, ghosts>>

--------------------------------------------------------------------------------
(* Disconnecting, from the settings of the window. *)

UserDisconnects == ~locked /\ Free /\ Interfere

Matching(p) == {t \in Tabs : sessions[t] # None /\ IdentityOf(sessions[t]) = p}

\* Mutant: requests of the connection stay.
RemoveSessions(tabs, removed) ==
    /\ sessions' = [t \in Tabs |-> IF t \in tabs THEN None ELSE sessions[t]]
    /\ cut' = cut \union {r \in removed : Kept(r) /\ requests[r].result = None}
    /\ UNCHANGED requests

\* Sessions go, and requests with them.
Remove(tabs, removed) ==
    /\ sessions' = [t \in Tabs |-> IF t \in tabs THEN None ELSE sessions[t]]
    /\ requests' = [r \in Ids |-> IF r \in removed THEN None ELSE requests[r]]
    /\ cut' = cut \union {r \in removed : Kept(r) /\ requests[r].result = None}

\* dapp_disconnect_connection. The window passes the Solana address of the wallet,
\* which the store compares with the identity it has; nothing else is matched.
DisconnectConnection(p) ==
    LET tabs == Matching(p) IN
    /\ p \in granted /\ UserDisconnects
    /\ IF p.family = "evm"
       THEN refused' = refused \union {p} /\ UNCHANGED <<sessions, requests, granted, cut>>
       ELSE /\ granted' = granted \ {p}
            /\ Remove(tabs, {r \in Ids : /\ Kept(r)
                                         /\ \/ IdentityOf(event[r]) = p
                                            \/ r \in Signs /\ event[r].tab \in tabs})
            /\ UNCHANGED refused
    /\ UNCHANGED <<paused, claiming, gate, webview, clock, pages, window, backend, closed>>

\* dapp_disconnect_wallet, before a wallet is deleted. Requests to connect stay.
DisconnectWallet(w) ==
    LET tabs == {t \in Tabs : sessions[t] # None /\ sessions[t].wallet = w
                                                /\ sessions[t].family = "solana"} IN
    /\ UserDisconnects
    /\ IF \E p \in granted : p.wallet = w /\ p.family = "evm"
       THEN /\ refused' = refused \union {p \in granted : p.wallet = w}
            /\ UNCHANGED <<sessions, requests, granted, cut>>
       ELSE /\ granted' = {p \in granted : p.wallet # w}
            /\ Remove(tabs, {r \in Signs : /\ Kept(r)
                                           /\ \/ event[r].tab \in tabs
                                              \/ event[r].wallet = w /\ event[r].family = "solana"})
            /\ UNCHANGED refused
    /\ UNCHANGED <<paused, claiming, gate, webview, clock, pages, window, backend, closed>>

--------------------------------------------------------------------------------
Tab(t) ==
    \/ Open(t) \/ Load(t) \/ Opened(t) \/ Close(t)
    \/ \E o \in Origins : Navigate(t, o)

Page(r) ==
    \/ \E t \in Tabs : Submit(r, t)
    \/ Link(r) \/ Enqueue(r) \/ Expire(r) \/ Poll(r)

Dialog(kind) ==
    \/ Show(kind)
    \/ \E r \in Of(kind) : Decline(r)

Signing(a) ==
    \/ ClaimBegins(a) \/ ClaimEnds(a) \/ Continue(a, "claimed", "sign")
    \/ Sign(a) \/ Continue(a, "signed", "answer") \/ Answer(a) \/ Reject(a)

Connecting(a) == Grant(a) \/ Confirm(a) \/ Confirmed(a) \/ Undo(a)

Security ==
    \/ Lock \/ LockStores \/ LockPasses \/ LockEnds \/ Unlock
    \/ Pause \/ PauseEnds \/ Resume \/ ResumeFails

Disconnecting ==
    \/ \E p \in Identity : DisconnectConnection(p)
    \/ \E w \in Wallets : DisconnectWallet(w)

Next ==
    \/ \E t \in Tabs : Tab(t)
    \/ \E r \in Ids : Page(r)
    \/ \E kind \in Kinds : Dialog(kind)
    \/ \E r \in Signs : ApproveSign(r)
    \/ \E r \in Connects : ApproveConnect(r)
    \/ \E a \in Approvals : Signing(a) \/ Connecting(a)
    \/ Security \/ Disconnecting

Spec == Init /\ [][Next]_vars

--------------------------------------------------------------------------------
(* Properties. *)

\* Once a pause has returned no request is claimed any more: the claim looks at the
\* flag under the mutex of the sessions, and the pause waits for that mutex
\* (lib.rs 6204-6214, 6373-6384). The backend is locked only after it.
PauseStopsClaims ==
    [][\A r \in Signs : Kept(r) /\ ~requests[r].claimed /\ requests'[r] # None
                          /\ requests'[r].claimed => ~closed]_vars

\* "A claimed request is never retried: a broadcast may already have happened"
\* (page.tsx 11817): however often it is shown and approved, across locks and
\* unlocks, a request is signed at most once.
SignedOnce == \A r \in Signs : signed[r] <= 1

\* A request that was open when its site was disconnected is never answered as
\* approved, whatever the window was doing with it (lib.rs 6502-6544).
DisconnectStands == \A r \in cut : delivered[r] # "approved"

\* When a lock has run its course, nobody unlocks and nothing is left to run, the
\* bridge is paused, although an earlier resumption may have overtaken the lock
\* (page.tsx 5088-5092; lib.rs 6355-6384).
PausedAtRest ==
    locked /\ lockedRef /\ locking = "none" /\ queue = <<>> /\ gate # "pause" => paused

\* "revocable connected-app permissions" (README.md 67): what the settings list can
\* be disconnected there.
DisconnectionsWork == refused = {}
================================================================================
