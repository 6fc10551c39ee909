----------------------------- MODULE DesktopLock -----------------------------
(***************************************************************************)
(* How the desktop application locks its wallets                            *)
(* (apps/desktop/src-tauri/src/lib.rs).                                     *)
(*                                                                         *)
(* The Tauri shell proxies every request of the user interface to a backend *)
(* process that holds the unlocked sessions.  Locking must outrun requests  *)
(* already under way: the shell raises lock_pending, moves security_epoch,  *)
(* takes the request gate for writing (the proxied requests hold it for     *)
(* reading), has the backend clear its sessions, and, when the backend does *)
(* not acknowledge, kills it.  Commands run on several threads, so every    *)
(* access to one of the shared atomics, to the gate or to the backend is an *)
(* action.                                                                  *)
(***************************************************************************)
EXTENDS Naturals, FiniteSets

CONSTANTS
    Requests, Kind,   \* commands of the interface: "unlock", "biometric", "use"
    Wallets,          \* saved wallets
    MaxEpoch,         \* bound: locks the interface asks for
    None

Kinds == {"unlock", "biometric", "use"}

ASSUME DesktopAssumption ==
    /\ Kind \in [Requests -> Kinds]
    /\ MaxEpoch \in Nat
    /\ None \notin Requests

VARIABLES
    epoch,        \* security_epoch
    lockPending,  \* lock_pending
    lock,         \* the step of the lock command
    gate,         \* request_gate: whether the lock command holds it for writing
    child,        \* whether the shell owns the backend process ("none": external)
    backend,      \* whether a backend process is running
    session,      \* backend: the request that unlocked each wallet's session
    step,         \* how far each command is
    asked,        \* biometric_wallet_unlock_all: the epoch it started in
    seen,         \* guarded_proxy_api_request: the epoch it loaded
    unlocking,    \* unlock_all_wallets: the wallets it has still to insert
    acknowledged  \* history: the epoch of the last lock that was acknowledged

shell == <<epoch, lockPending, lock, gate>>
process == <<child, backend, session>>
commands == <<step, asked, seen, unlocking>>
vars == <<shell, process, commands, acknowledged>>

Steps == {"idle", "prompt", "confirmed", "loaded", "queued", "inside",
          "sent", "inserting", "key", "over"}
LockSteps == {"idle", "bump", "waiting", "first try", "second try", "killing",
              "releasing", "released"}

TypeOK ==
    /\ epoch \in Nat
    /\ lockPending \in BOOLEAN
    /\ lock \in LockSteps
    /\ gate \in {"free", "taken"}
    /\ child \in {"owned", "none"}
    /\ backend \in {"up", "down"}
    /\ session \in [Wallets -> Requests \cup {None}]
    /\ step \in [Requests -> Steps]
    /\ asked \in [Requests -> Nat]
    /\ seen \in [Requests -> Nat]
    /\ unlocking \in [Requests -> SUBSET Wallets]
    /\ acknowledged \in Nat

-----------------------------------------------------------------------------
\* Requests the backend is working on, and those that hold the gate.
InBackend(r) == step[r] \in {"sent", "inserting", "key"}
Reading(r) == step[r] = "inside" \/ InBackend(r)

\* tokio's RwLock is fair: readers queue behind a writer that waits.
GateOpen == lock # "waiting" /\ gate = "free"
NoReader == \A r \in Requests : ~Reading(r)

NoSession == [w \in Wallets |-> None]

Init ==
    /\ epoch = 0
    /\ lockPending = FALSE
    /\ lock = "idle"
    /\ gate = "free"
    /\ child \in {"owned", "none"}
    /\ backend = "up"
    /\ session = NoSession
    /\ step = [r \in Requests |-> "idle"]
    /\ asked = [r \in Requests |-> 0]
    /\ seen = [r \in Requests |-> 0]
    /\ unlocking = [r \in Requests |-> {}]
    /\ acknowledged = 0

-----------------------------------------------------------------------------
(* biometric_wallet_unlock_all, until it calls the guarded proxy.           *)

Goto(r, next) == step' = [step EXCEPT ![r] = next]

AsksTouch(r) ==
    /\ Kind[r] = "biometric" /\ step[r] = "idle"
    /\ asked' = [asked EXCEPT ![r] = epoch]
    /\ Goto(r, "prompt")
    /\ UNCHANGED <<shell, process, seen, unlocking, acknowledged>>

\* Touch ID refuses, a lock came meanwhile, or the command goes on.
Touched(r) ==
    /\ step[r] = "prompt"
    /\ \/ epoch = asked[r] /\ Goto(r, "confirmed")
       \/ Goto(r, "over")
    /\ UNCHANGED <<shell, process, asked, seen, unlocking, acknowledged>>

-----------------------------------------------------------------------------
(* guarded_proxy_api_request.                                               *)

LoadEpoch(r) ==
    /\ step[r] = IF Kind[r] = "biometric" THEN "confirmed" ELSE "idle"
    /\ seen' = [seen EXCEPT ![r] = epoch]
    /\ Goto(r, "loaded")
    /\ UNCHANGED <<shell, process, asked, unlocking, acknowledged>>

CheckPending(r) ==
    /\ step[r] = "loaded"
    /\ Goto(r, IF lockPending THEN "over" ELSE "queued")
    /\ UNCHANGED <<shell, process, asked, seen, unlocking, acknowledged>>

EnterGate(r) ==
    /\ step[r] = "queued" /\ GateOpen
    /\ Goto(r, "inside")
    /\ UNCHANGED <<shell, process, asked, seen, unlocking, acknowledged>>

\* Mutant: only lock_pending is looked at again under the gate.
RecheckPending(r) ==
    /\ step[r] = "inside"
    /\ Goto(r, IF lockPending THEN "over" ELSE "sent")
    /\ UNCHANGED <<shell, process, asked, seen, unlocking, acknowledged>>

\* The second look, under the gate, at both atomics.
Recheck(r) ==
    /\ step[r] = "inside"
    /\ Goto(r, IF lockPending \/ epoch # seen[r] THEN "over" ELSE "sent")
    /\ UNCHANGED <<shell, process, asked, seen, unlocking, acknowledged>>

-----------------------------------------------------------------------------
(* The backend at work on a request; the answer releases the gate.          *)

\* unlock_all_wallets_inner derives every key before it inserts a session.
Derive(r) ==
    /\ step[r] = "sent" /\ Kind[r] # "use" /\ backend = "up"
    /\ Goto(r, "inserting")
    /\ unlocking' = [unlocking EXCEPT ![r] = Wallets]
    /\ UNCHANGED <<shell, process, asked, seen, acknowledged>>

Insert(r, w) ==
    /\ step[r] = "inserting" /\ backend = "up"
    /\ w \in unlocking[r]
    /\ session' = [session EXCEPT ![w] = r]
    /\ unlocking' = [unlocking EXCEPT ![r] = @ \ {w}]
    /\ UNCHANGED <<shell, child, backend, step, asked, seen, acknowledged>>

\* A request that signs takes the key out of the session of its wallet.
TakeKey(r, w) ==
    /\ step[r] = "sent" /\ Kind[r] = "use" /\ backend = "up"
    /\ session[w] # None
    /\ Goto(r, "key")
    /\ UNCHANGED <<shell, process, asked, seen, unlocking, acknowledged>>

\* A result, a wrong password, a locked wallet, or no backend to answer.
Answer(r) ==
    /\ \/ step[r] \in {"sent", "key"}
       \/ step[r] = "inserting" /\ unlocking[r] = {}
    /\ Goto(r, "over")
    /\ UNCHANGED <<shell, process, asked, seen, unlocking, acknowledged>>

\* A session outlives its idle or maximal time and is purged.
Purge(w) ==
    /\ session[w] # None
    /\ session' = [session EXCEPT ![w] = None]
    /\ UNCHANGED <<shell, child, backend, commands, acknowledged>>

\* The process ends, with the sessions and the requests it worked on.
BackendEnds ==
    /\ backend' = "down"
    /\ session' = NoSession
    /\ step' = [r \in Requests |-> IF InBackend(r) THEN "over" ELSE step[r]]
    /\ unlocking' = [r \in Requests |-> {}]
    /\ UNCHANGED <<asked, seen>>

Crash ==
    /\ backend = "up"
    /\ BackendEnds
    /\ UNCHANGED <<shell, child, acknowledged>>

-----------------------------------------------------------------------------
(* lock_wallet_security_state_inner.                                        *)

LockBegins ==
    /\ epoch < MaxEpoch
    /\ lock = "idle" /\ ~lockPending
    /\ lockPending' = TRUE
    /\ lock' = "bump"
    /\ UNCHANGED <<epoch, gate, process, commands, acknowledged>>

LockBumpsEpoch ==
    /\ lock = "bump"
    /\ epoch' = epoch + 1
    /\ lock' = "waiting"
    /\ UNCHANGED <<lockPending, gate, process, commands, acknowledged>>

LockTakesGate ==
    /\ lock = "waiting" /\ NoReader
    /\ lock' = "first try"
    /\ gate' = "taken"
    /\ UNCHANGED <<epoch, lockPending, process, commands, acknowledged>>

\* Mutant: after three seconds the lock goes on without the gate.
LockSkipsGate ==
    /\ lock = "waiting" /\ ~NoReader
    /\ lock' = "first try"
    /\ UNCHANGED <<epoch, lockPending, gate, process, commands, acknowledged>>

\* Mutant: the lock waits for the gate without a timeout.
LockWaitsOn == FALSE

\* A request has held the gate for three seconds.
LockGivesUpGate ==
    /\ lock = "waiting" /\ ~NoReader
    /\ lock' = "killing"
    /\ UNCHANGED <<epoch, lockPending, gate, process, commands, acknowledged>>

\* POST wallet/session/lock-all answers "locked".
LockAllAnswers ==
    /\ lock \in {"first try", "second try"} /\ backend = "up"
    /\ session' = NoSession
    /\ lock' = "releasing"
    /\ acknowledged' = epoch
    /\ UNCHANGED <<epoch, lockPending, gate, child, backend, commands>>

\* It answers something else, or not within three seconds, whether the backend
\* cleared the sessions or not; there are two attempts.
LockAllFails ==
    /\ \/ lock = "first try" /\ lock' = "second try"
       \/ lock = "second try" /\ lock' = "killing"
    /\ session' \in {session, NoSession}
    /\ UNCHANGED <<epoch, lockPending, gate, child, backend, commands, acknowledged>>

\* "Terminate only the child this application owns."
Kill ==
    /\ lock = "killing" /\ child = "owned"
    /\ BackendEnds
    /\ child' = "none"
    /\ lock' = "releasing"
    /\ acknowledged' = epoch
    /\ UNCHANGED <<epoch, lockPending, gate>>

\* No child to kill, or kill() or wait() fails: the command returns an error.
KillFails ==
    /\ lock = "killing"
    /\ lock' = "releasing"
    /\ UNCHANGED <<epoch, lockPending, gate, process, commands, acknowledged>>

\* The locals are dropped in reverse order: the gate, then PendingLock.
LockReleasesGate ==
    /\ lock = "releasing"
    /\ lock' = "released"
    /\ gate' = "free"
    /\ UNCHANGED <<epoch, lockPending, process, commands, acknowledged>>

LockReturns ==
    /\ lock = "released"
    /\ lockPending' = FALSE
    /\ lock' = "idle"
    /\ UNCHANGED <<epoch, gate, process, commands, acknowledged>>

-----------------------------------------------------------------------------
Command(r) ==
    \/ AsksTouch(r) \/ Touched(r)
    \/ LoadEpoch(r) \/ CheckPending(r) \/ EnterGate(r) \/ Recheck(r)
    \/ Derive(r) \/ Answer(r)
    \/ \E w \in Wallets : Insert(r, w) \/ TakeKey(r, w)

Locking ==
    \/ LockBumpsEpoch \/ LockTakesGate \/ LockGivesUpGate \/ LockAllAnswers
    \/ LockAllFails \/ Kill \/ KillFails \/ LockReleasesGate \/ LockReturns

Next ==
    \/ \E r \in Requests : Command(r)
    \/ LockBegins \/ Locking
    \/ Crash
    \/ \E w \in Wallets : Purge(w)

Spec == Init /\ [][Next]_vars

\* The shell's own waits are all bounded by timeouts, and a reader whom the gate
\* admits runs; the backend and the user owe nothing.
FairSpec ==
    /\ Spec
    /\ WF_vars(Locking)
    /\ \A r \in Requests : WF_vars(EnterGate(r))

-----------------------------------------------------------------------------
(* Properties.                                                              *)

\* Once a lock is acknowledged, a session in the backend belongs to a request
\* that reached the proxy in a later epoch: no unlock that was under way, waited
\* for the gate or was still deriving keys survives the lock (lib.rs 1278-1335,
\* 1374-1384).
LockedMeansLocked ==
    \A w \in Wallets : session[w] # None => seen[session[w]] >= acknowledged

\* Nor does a request of an earlier epoch hold key material in the backend or get
\* on with an unlock after the acknowledgement: the lock waits for it, or takes
\* the backend down with it (lib.rs 1294-1297, 1322-1335).
NoWorkOutlivesLock ==
    \A r \in Requests : InBackend(r) => seen[r] >= acknowledged

\* A lock ends in an acknowledgement or an error, also when a request never
\* leaves the gate and the backend never answers (lib.rs 1296-1335).
LockEnds == lockPending ~> ~lockPending

\* Commands that wait at the gate all get through it, although a request ahead of
\* them hangs and a lock queues for writing in between, which holds back every
\* reader behind it: the lock gives its place up and drops what it holds, whether
\* it acknowledges or fails (lib.rs 1294-1297, 1325-1336, 1378).
NoneStaysQueued ==
    (\E r \in Requests : step[r] = "queued") ~> (\A r \in Requests : step[r] # "queued")

\* "lock rejects inflight and future requests until backend acknowledges" (the
\* test at lib.rs 8829), "Unlock cancelled by wallet lock" (lib.rs 1130), for the
\* unlock by Touch ID: it is in flight since it loaded the epoch at 1117.
TouchUnlockIsCancelled ==
    \A w \in Wallets :
        session[w] # None /\ Kind[session[w]] = "biometric" =>
            asked[session[w]] >= acknowledged
==============================================================================
