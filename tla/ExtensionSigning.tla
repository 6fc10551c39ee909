--------------------------- MODULE ExtensionSigning ---------------------------
(***************************************************************************)
(* What the extension's service worker does with a request the user         *)
(* approved, and what locking, switching and revoking meanwhile do to it    *)
(* (apps/extension/src/background.ts).                                      *)
(*                                                                         *)
(* An approval carries the context it was reviewed under: the selected      *)
(* account and network, and contextRevision.  The execution is a chain of   *)
(* awaits, on storage and on the network; the code asserts the context      *)
(* again between them.  One action is one segment between two awaits.  An   *)
(* assertion re-reads the stored selection and succeeds only if the         *)
(* revision did not move during that read, so it is the comparison with one *)
(* state.  Assertions with no use between them are one: a context that      *)
(* stopped holding never holds again.                                       *)
(***************************************************************************)
EXTENDS Naturals, Sequences

CONSTANTS
    Requests, Kind,       \* requests; "connect", "sign", "send" or "switch"
    Origins, OriginOf,    \* sites, and the one behind each request
    Accounts, Chains,     \* what can be selected
    TargetOf,             \* the network a "switch" asks for
    InitSelection,        \* the stored selection: [account, chain]
    InitGranted,          \* the stored permissions: [accounts, chains] per site
    MaxRevision,          \* bound: locks, selections and revocations stop there
    None

Kinds == {"connect", "sign", "send", "switch"}
Selections == [account : Accounts, chain : Chains]
Permissions == [accounts : SUBSET Accounts, chains : SUBSET Chains]

ASSUME SigningAssumption ==
    /\ Kind \in [Requests -> Kinds]
    /\ OriginOf \in [Requests -> Origins]
    /\ TargetOf \in [Requests -> Chains]
    /\ InitSelection \in Selections
    /\ InitGranted \in [Origins -> Permissions]
    /\ MaxRevision \in Nat
    /\ None \notin Requests \cup Origins \cup Accounts \cup Chains
    /\ Requests \cap Origins = {}

VARIABLES
    selection,   \* storage: the part of walletSettings a context is made of
    granted,     \* storage: originPermissions
    revision,    \* contextRevision
    unlocked,    \* unlockedVault # null
    step,        \* the await each request is at
    context,     \* item.context
    view,        \* GET_PENDING of each request
    prepared,    \* what the user was shown: item.evmTransaction and the view
    local,       \* account and chain read by the running execution
    written,     \* the settings an approved network switch writes
    queue,       \* permissionMutation: jobs of requests and of revocations
    select,      \* the UI's updateSettings, one at a time
    revoke,      \* REVOKE_PERMISSION per site
    unlock,      \* an unlock under way, the revision it began at
    answer,      \* what the page was told
    signature,   \* history: what was signed for each request
    sent,        \* history: the requests whose transaction was broadcast
    disturbed,   \* history: executions overtaken by a lock, switch or revocation
    grantedBy,   \* history: the request that wrote a site's permission last
    revokedFirst, \* history: sites whose revocation began before the approval
    waitedFor    \* history: those of them whose revocation was not written by then

storage == <<selection, granted>>
session == <<revision, unlocked>>
items == <<step, context, view, prepared, local, written>>
users == <<select, revoke, unlock>>
history == <<signature, sent, disturbed, grantedBy, revokedFirst, waitedFor>>
vars == <<storage, session, items, queue, users, answer, history>>

Steps == {"idle", "pending", "cancelled", "approved", "account", "network",
          "permission", "permitted", "switch", "switchRead", "switchWrite",
          "switched", "queued", "granting", "grantWrite", "granted", "key",
          "chain", "ready", "checked", "signed", "finish", "over"}
Contexts == [account : Accounts, chain : Chains, revision : Nat]
Partial == [account : Accounts \cup {None}, chain : Chains \cup {None}]

TypeOK ==
    /\ selection \in Selections
    /\ granted \in [Origins -> Permissions]
    /\ revision \in Nat
    /\ unlocked \in BOOLEAN
    /\ step \in [Requests -> Steps]
    /\ context \in [Requests -> Contexts \cup {None}]
    /\ view \in [Requests -> {"none", "chain", "account", "check", "shown"}]
    /\ prepared \in [Requests -> Partial]
    /\ local \in [Requests -> Partial]
    /\ written \in [Requests -> Contexts \cup {None}]
    /\ queue \in Seq(Requests \cup Origins)
    /\ select \in [step : {"idle", "read", "write"}, next : Selections]
    /\ revoke \in [Origins -> {"none", "queued", "write", "done"}]
    /\ unlock \in [running : BOOLEAN, revision : Nat, overtaken : BOOLEAN]
    /\ answer \in [Requests -> {"none", "declined", "result", "error", "maybe sent"}]
    /\ signature \in [Requests -> Partial]
    /\ sent \subseteq Requests
    /\ disturbed \subseteq Requests
    /\ grantedBy \in [Origins -> Requests \cup {None}]
    /\ revokedFirst \in [Requests -> SUBSET Origins]
    /\ waitedFor \in [Requests -> SUBSET Origins]

-----------------------------------------------------------------------------
Unread == [account |-> None, chain |-> None]

Running(r) == step[r] \notin {"idle", "pending", "cancelled", "over"}

\* signingContext() and assertSigningContext().
Current == [account |-> selection.account, chain |-> selection.chain,
            revision |-> revision]
\* Mutant: only the selection is compared.
SelectionHolds(r) ==
    unlocked /\ context[r] = [Current EXCEPT !.revision = context[r].revision]

\* Mutant: only the revision is compared.
ContextRevisionHolds(r) == unlocked /\ context[r].revision = revision

ContextHolds(r) == unlocked /\ context[r] = Current

\* Mutant: the revision is not compared.
StillUnlocked(r) == unlocked

\* assertContextRevision(): no read of storage.
RevisionHolds(r) == unlocked /\ context[r].revision = revision

\* hasOriginPermission(), for the one family of accounts modelled.
Permits(o, account, chain) ==
    account \in granted[o].accounts /\ chain \in granted[o].chains

\* contextRevision++ and cancelPendingApprovals(), in one segment; by is the
\* execution that causes it, if any.
ChangeContext(by) ==
    /\ revision' = revision + 1
    /\ disturbed' = disturbed \cup {r \in Requests : Running(r) /\ r # by}

UserMayChange == revision < MaxRevision

Cancelled == [r \in Requests |-> IF step[r] = "pending" THEN "cancelled" ELSE step[r]]

CancelPending ==
    /\ step' = Cancelled
    /\ answer' = [r \in Requests |->
                    IF step[r] = "pending" THEN "declined" ELSE answer[r]]

Goto(r, next) == step' = [step EXCEPT ![r] = next] /\ UNCHANGED answer

Answer(r, reply) ==
    /\ step' = [step EXCEPT ![r] = "over"]
    /\ answer' = [answer EXCEPT ![r] = reply]

Init ==
    /\ selection = InitSelection
    /\ granted = InitGranted
    /\ revision = 0
    /\ unlocked = FALSE
    /\ step = [r \in Requests |-> "idle"]
    /\ context = [r \in Requests |-> None]
    /\ view = [r \in Requests |-> "none"]
    /\ prepared = [r \in Requests |-> Unread]
    /\ local = [r \in Requests |-> Unread]
    /\ written = [r \in Requests |-> None]
    /\ queue = <<>>
    /\ select = [step |-> "idle", next |-> InitSelection]
    /\ revoke = [o \in Origins |-> "none"]
    /\ unlock = [running |-> FALSE, revision |-> 0, overtaken |-> FALSE]
    /\ answer = [r \in Requests |-> "none"]
    /\ signature = [r \in Requests |-> Unread]
    /\ sent = {}
    /\ disturbed = {}
    /\ grantedBy = [o \in Origins |-> None]
    /\ revokedFirst = [r \in Requests |-> {}]
    /\ waitedFor = [r \in Requests |-> {}]

-----------------------------------------------------------------------------
(* Until the decision: openApproval and the view of GET_PENDING.            *)

Open(r) ==
    /\ step[r] = "idle"
    /\ context' = [context EXCEPT ![r] = Current]
    /\ Goto(r, "pending")
    /\ UNCHANGED <<storage, session, view, prepared, local, written, queue, users, history>>

View(r, from, to) ==
    /\ view[r] = from
    /\ view' = [view EXCEPT ![r] = to]
    /\ UNCHANGED <<storage, session, step, context, local, written, queue, users,
                   answer, history>>

ViewBegins(r) ==
    /\ step[r] = "pending" /\ context[r] = Current
    /\ View(r, "none", "chain")
    /\ UNCHANGED prepared

\* approvalView reads the network and the account in separate awaits, shows them
\* and prepares the transaction for them.
ViewReadsChain(r) ==
    /\ View(r, "chain", "account")
    /\ prepared' = [prepared EXCEPT ![r].chain = selection.chain]

ViewReadsAccount(r) ==
    /\ unlocked
    /\ View(r, "account", "check")
    /\ prepared' = [prepared EXCEPT ![r].account = selection.account]

\* Locked: the view asks for the password, and is loaded again after it.
ViewLocked(r) ==
    /\ ~unlocked
    /\ View(r, "account", "none")
    /\ prepared' = [prepared EXCEPT ![r] = Unread]

ViewEnds(r) ==
    /\ step[r] = "pending" /\ context[r] = Current
    /\ View(r, "check", "shown")
    /\ UNCHANGED prepared

\* RESOLVE_PENDING takes the item out of the map before it looks at the lock.
Approve(r) ==
    /\ step[r] = "pending" /\ view[r] = "shown"
    /\ IF unlocked THEN Goto(r, "approved") ELSE Answer(r, "error")
    /\ revokedFirst' = [revokedFirst EXCEPT ![r] = {o \in Origins : revoke[o] # "none"}]
    /\ waitedFor' = [waitedFor EXCEPT
                       ![r] = {o \in Origins : revoke[o] \in {"queued", "write"}}]
    /\ UNCHANGED <<storage, session, context, view, prepared, local, written, queue,
                   users, signature, sent, disturbed, grantedBy>>

-----------------------------------------------------------------------------
(* The execution: executeProviderRequest and what it calls.                 *)

\* A segment of r's execution that only moves it on, or ends it in an error.
Segment(r, from) ==
    /\ step[r] = from
    /\ UNCHANGED <<storage, session, view, prepared, users>>

Asserted(r, next) == IF ContextHolds(r) THEN Goto(r, next) ELSE Answer(r, "error")

Fail(r) == Answer(r, "error")

\* The item may have expired; otherwise its context is compared, twice.
Verify(r) ==
    /\ Segment(r, "approved")
    /\ Asserted(r, "account") \/ Fail(r)
    /\ UNCHANGED <<context, local, written, queue, history>>

ReadAccount(r) ==
    /\ Segment(r, "account")
    /\ IF ~unlocked
       THEN Fail(r) /\ UNCHANGED <<local, queue>>
       ELSE /\ local' = [local EXCEPT ![r].account = selection.account]
            /\ IF Kind[r] = "connect"
               THEN Goto(r, "queued") /\ queue' = Append(queue, r)
               ELSE Goto(r, "network") /\ UNCHANGED queue
    /\ UNCHANGED <<context, written, history>>

ReadNetwork(r) ==
    /\ Segment(r, "network")
    /\ local' = [local EXCEPT ![r].chain = selection.chain]
    /\ Goto(r, "permission")
    /\ UNCHANGED <<context, written, queue, history>>

CheckPermission(r) ==
    /\ Segment(r, "permission")
    /\ IF Permits(OriginOf[r], local[r].account, local[r].chain)
       THEN Goto(r, "permitted") ELSE Fail(r)
    /\ UNCHANGED <<context, local, written, queue, history>>

Permitted(r) ==
    /\ Segment(r, "permitted")
    /\ Asserted(r, IF Kind[r] = "switch" THEN "switch" ELSE "key")
    /\ UNCHANGED <<context, local, written, queue, history>>

-----------------------------------------------------------------------------
(* An approved network switch: updateSettings with the approval.            *)

SwitchReads(r) ==
    /\ Segment(r, "switch")
    /\ written' = [written EXCEPT ![r] = [Current EXCEPT !.chain = TargetOf[r]]]
    /\ Goto(r, "switchRead")
    /\ UNCHANGED <<context, local, queue, history>>

\* The continuation: assert, move the revision, cancel the others, write.
SwitchBegins(r) ==
    /\ step[r] = "switchRead" /\ RevisionHolds(r)
    /\ ChangeContext(r)
    /\ step' = [Cancelled EXCEPT ![r] = "switchWrite"]
    /\ answer' = [q \in Requests |-> IF step[q] = "pending" THEN "declined" ELSE answer[q]]
    /\ written' = [written EXCEPT ![r].revision = revision']
    /\ UNCHANGED <<storage, unlocked, view, prepared, users, context, local, queue>>
    /\ UNCHANGED <<signature, sent, grantedBy, revokedFirst, waitedFor>>

SwitchRefused(r) ==
    /\ Segment(r, "switchRead")
    /\ ~RevisionHolds(r)
    /\ Fail(r)
    /\ UNCHANGED <<context, local, written, queue, history>>

SwitchLands(r) ==
    /\ step[r] = "switchWrite"
    /\ selection' = [account |-> written[r].account, chain |-> written[r].chain]
    /\ Goto(r, "switched")
    /\ UNCHANGED <<granted, session, view, prepared, users, context, local, written,
                   queue, history>>

\* Mutant: the site is not granted the network it was switched to.
SwitchEndsUngranted(r) ==
    /\ Segment(r, "switched")
    /\ IF unlocked /\ written[r].revision = revision
       THEN context' = [context EXCEPT ![r] = written[r]] /\ Goto(r, "finish")
       ELSE Fail(r) /\ UNCHANGED context
    /\ UNCHANGED <<local, written, queue, history>>

\* The approval takes over the new context, or the switch is reported as failed.
SwitchEnds(r) ==
    /\ Segment(r, "switched")
    /\ IF unlocked /\ written[r].revision = revision
       THEN /\ context' = [context EXCEPT ![r] = written[r]]
            /\ Goto(r, "queued")
            /\ queue' = Append(queue, r)
       ELSE Fail(r) /\ UNCHANGED <<context, queue>>
    /\ UNCHANGED <<local, written, history>>

-----------------------------------------------------------------------------
(* grantPermission, a job of the serialised permission chain.               *)

AtHead(job) == queue # <<>> /\ Head(queue) = job

\* Mutant: the grant does not read the network.
GrantReadsNothing(r) ==
    /\ Segment(r, "queued") /\ AtHead(r)
    /\ Goto(r, "granting")
    /\ UNCHANGED <<context, local, written, queue, history>>

GrantReads(r) ==
    /\ Segment(r, "queued") /\ AtHead(r)
    /\ local' = [local EXCEPT ![r].chain = selection.chain]
    /\ Goto(r, "granting")
    /\ UNCHANGED <<context, written, queue, history>>

\* Mutant: the job writes without asserting the context.
GrantWritesUnchecked(r) ==
    /\ Segment(r, "granting")
    /\ Goto(r, "grantWrite")
    /\ UNCHANGED <<context, local, written, queue, history>>

\* Assert, and hand the write to the browser in the same segment.
GrantWrites(r) ==
    /\ Segment(r, "granting")
    /\ Asserted(r, "grantWrite")
    /\ queue' = IF ContextHolds(r) THEN queue ELSE Tail(queue)
    /\ UNCHANGED <<context, local, written, history>>

GrantLands(r) ==
    LET o == OriginOf[r] IN
    /\ step[r] = "grantWrite"
    /\ granted' = [granted EXCEPT
                     ![o].accounts = @ \cup {local[r].account},
                     ![o].chains = @ \cup {local[r].chain}]
    /\ grantedBy' = [grantedBy EXCEPT ![o] = r]
    /\ Goto(r, "granted")
    /\ UNCHANGED <<selection, session, context, view, prepared, local, written, queue,
                   users, signature, sent, disturbed, revokedFirst, waitedFor>>

GrantEnds(r) ==
    /\ Segment(r, "granted")
    /\ Asserted(r, "finish")
    /\ queue' = Tail(queue)
    /\ UNCHANGED <<context, local, written, history>>

-----------------------------------------------------------------------------
(* executeEvm: the key, the network, the signature, the broadcast.          *)

\* activeAccount(family, true) reads the selection and decrypts the session;
\* it refuses if the session or the revision moved, as the next assertion does.
ReadKey(r) ==
    /\ Segment(r, "key")
    /\ IF unlocked
       THEN local' = [local EXCEPT ![r].account = selection.account] /\ Goto(r, "chain")
       ELSE Fail(r) /\ UNCHANGED local
    /\ UNCHANGED <<context, written, queue, history>>

ReadChain(r) ==
    /\ Segment(r, "chain")
    /\ local' = [local EXCEPT ![r].chain = selection.chain]
    /\ Goto(r, "ready")
    /\ UNCHANGED <<context, written, queue, history>>

\* A message is signed in the segment of the assertion.
SignMessage(r) ==
    /\ Segment(r, "ready") /\ Kind[r] = "sign"
    /\ Asserted(r, "finish")
    /\ signature' = IF ContextHolds(r) THEN [signature EXCEPT ![r] = local[r]] ELSE signature
    /\ UNCHANGED <<context, local, written, queue, sent, disturbed, grantedBy,
                   revokedFirst, waitedFor>>

\* signPrepared asks the network: the signer and the chain must be the reviewed
\* ones; the nonce, the simulation and the gas estimate may refuse as well.
AskNetwork(r) ==
    /\ Segment(r, "ready") /\ Kind[r] = "send"
    /\ \/ prepared[r] = local[r] /\ Goto(r, "checked")
       \/ Fail(r)
    /\ UNCHANGED <<context, local, written, queue, history>>

SignTransaction(r) ==
    /\ Segment(r, "checked")
    /\ Asserted(r, "signed")
    /\ signature' = IF ContextHolds(r) THEN [signature EXCEPT ![r] = local[r]] ELSE signature
    /\ UNCHANGED <<context, local, written, queue, sent, disturbed, grantedBy,
                   revokedFirst, waitedFor>>

\* sendPrepared asserts after signing and before it broadcasts.
Broadcast(r) ==
    /\ Segment(r, "signed")
    /\ Asserted(r, "finish")
    /\ sent' = IF ContextHolds(r) THEN sent \cup {r} ELSE sent
    /\ UNCHANGED <<context, local, written, queue, signature, disturbed, grantedBy,
                   revokedFirst, waitedFor>>

\* Mutant: the result is handed out without a last assertion.
FinishUnchecked(r) ==
    /\ Segment(r, "finish")
    /\ Answer(r, "result")
    /\ UNCHANGED <<context, local, written, queue, history>>

\* RESOLVE_PENDING asserts once more before it hands out the result.
Finish(r) ==
    /\ Segment(r, "finish")
    /\ Answer(r, IF ContextHolds(r) THEN "result"
                 ELSE IF Kind[r] = "send" THEN "maybe sent" ELSE "error")
    /\ UNCHANGED <<context, local, written, queue, history>>

-----------------------------------------------------------------------------
(* The wallet's own UI, the lock alarm and the idle deadline.               *)

Lock ==
    /\ UserMayChange
    /\ ChangeContext(None)
    /\ unlocked' = FALSE
    /\ CancelPending
    /\ unlock' = [unlock EXCEPT !.overtaken = unlock.running]
    /\ UNCHANGED <<storage, context, view, prepared, local, written, queue, select,
                   revoke, signature, sent, grantedBy, revokedFirst, waitedFor>>

UnlockBegins ==
    /\ ~unlock.running
    /\ unlock' = [running |-> TRUE, revision |-> revision, overtaken |-> FALSE]
    /\ UNCHANGED <<storage, session, items, queue, select, revoke, answer, history>>

\* Mutant: the unlock does not look at the revision it began at.
UnlockEndsAnyway ==
    /\ unlock.running
    /\ unlocked' = TRUE
    /\ unlock' = [unlock EXCEPT !.running = FALSE]
    /\ UNCHANGED <<storage, revision, items, queue, select, revoke, answer, history>>

UnlockEnds ==
    /\ unlock.running
    /\ unlocked' = (unlocked \/ unlock.revision = revision)
    /\ unlock' = [unlock EXCEPT !.running = FALSE]
    /\ UNCHANGED <<storage, revision, items, queue, select, revoke, answer, history>>

\* The serial UI actions call updateSettings with a patch of account or network.
SelectReads(next) ==
    /\ select.step = "idle"
    /\ next # selection
    /\ next.account = selection.account \/ next.chain = selection.chain
    /\ select' = [step |-> "read", next |-> next]
    /\ UNCHANGED <<storage, session, items, queue, revoke, unlock, answer, history>>

SelectBegins ==
    /\ select.step = "read"
    /\ UserMayChange
    /\ ChangeContext(None)
    /\ CancelPending
    /\ select' = [select EXCEPT !.step = "write"]
    /\ UNCHANGED <<storage, unlocked, context, view, prepared, local, written, queue,
                   revoke, unlock, signature, sent, grantedBy, revokedFirst, waitedFor>>

SelectLands ==
    /\ select.step = "write"
    /\ selection' = select.next
    /\ select' = [select EXCEPT !.step = "idle"]
    /\ UNCHANGED <<granted, session, items, queue, revoke, unlock, answer, history>>

RevokeBegins(o) ==
    /\ revoke[o] = "none"
    /\ UserMayChange
    /\ ChangeContext(None)
    /\ CancelPending
    /\ revoke' = [revoke EXCEPT ![o] = "queued"]
    /\ queue' = Append(queue, o)
    /\ UNCHANGED <<storage, unlocked, context, view, prepared, local, written, select,
                   unlock, signature, sent, grantedBy, revokedFirst, waitedFor>>

\* The job reads the store; an unknown site is an error, otherwise it writes.
RevokeReads(o) ==
    /\ revoke[o] = "queued" /\ AtHead(o)
    /\ IF granted[o].accounts = {}
       THEN revoke' = [revoke EXCEPT ![o] = "done"] /\ queue' = Tail(queue)
       ELSE revoke' = [revoke EXCEPT ![o] = "write"] /\ UNCHANGED queue
    /\ UNCHANGED <<storage, session, items, select, unlock, answer, history>>

\* Mutant: the job that wrote does not let the next one begin.
RevokeLandsBlocks(o) ==
    /\ revoke[o] = "write"
    /\ granted' = [granted EXCEPT ![o] = [accounts |-> {}, chains |-> {}]]
    /\ revoke' = [revoke EXCEPT ![o] = "done"]
    /\ UNCHANGED <<selection, session, items, queue, select, unlock, answer, history>>

RevokeLands(o) ==
    /\ revoke[o] = "write"
    /\ granted' = [granted EXCEPT ![o] = [accounts |-> {}, chains |-> {}]]
    /\ revoke' = [revoke EXCEPT ![o] = "done"]
    /\ queue' = Tail(queue)
    /\ UNCHANGED <<selection, session, items, select, unlock, answer, history>>

-----------------------------------------------------------------------------
Viewing(r) ==
    ViewBegins(r) \/ ViewReadsChain(r) \/ ViewReadsAccount(r) \/ ViewLocked(r) \/ ViewEnds(r)
Executing(r) ==
    \/ Verify(r) \/ ReadAccount(r) \/ ReadNetwork(r) \/ CheckPermission(r) \/ Permitted(r)
    \/ SwitchReads(r) \/ SwitchBegins(r) \/ SwitchRefused(r) \/ SwitchLands(r) \/ SwitchEnds(r)
    \/ GrantReads(r) \/ GrantWrites(r) \/ GrantLands(r) \/ GrantEnds(r)
    \/ ReadKey(r) \/ ReadChain(r) \/ SignMessage(r) \/ AskNetwork(r) \/ SignTransaction(r)
    \/ Broadcast(r) \/ Finish(r)
Revoking(o) == RevokeReads(o) \/ RevokeLands(o)

Next ==
    \/ \E r \in Requests : Open(r) \/ Viewing(r) \/ Approve(r) \/ Executing(r)
    \/ Lock \/ UnlockBegins \/ UnlockEnds
    \/ (\E next \in Selections : SelectReads(next)) \/ SelectBegins \/ SelectLands
    \/ \E o \in Origins : RevokeBegins(o) \/ Revoking(o)

Spec == Init /\ [][Next]_vars

\* Storage, the network and the promise chains answer; users need not act.
FairSpec ==
    /\ Spec
    /\ \A r \in Requests : WF_vars(Executing(r))
    /\ \A o \in Origins : WF_vars(Revoking(o))
    /\ WF_vars(SelectLands)

-----------------------------------------------------------------------------
(* Properties.                                                              *)

\* What is signed, and the account and network it is signed for, are what the
\* confirmation window showed, whatever is selected while the execution runs
\* ("Pending signing requests retain their approved account/network context
\* through execution", README.md 141; background.ts 638-677).
SignsWhatWasShown ==
    \A r \in Requests : signature[r] # Unread => signature[r] = prepared[r]

\* "Locking, switching accounts or revoking permissions cancels stale work"
\* (README.md 141): no signature, broadcast or result for an execution that one
\* of them overtook.
StaleWorkIsCancelled ==
    [][\A r \in disturbed :
         /\ signature'[r] = signature[r]
         /\ r \in sent' => r \in sent
         /\ answer'[r] = "result" => answer[r] = "result"]_vars

\* A signature is made only while the store grants the site that account and
\* network, although the permission was read several awaits earlier
\* (background.ts 621-623, 656-661). Excepted is an approval the user gave while
\* a revocation waited for its turn to write: the revision had moved before, so
\* nothing stops the execution when that write lands.
SignsUnderPermission ==
    [][\A r \in Requests :
         signature'[r] # signature[r] =>
             \/ Permits(OriginOf[r], signature'[r].account, signature'[r].chain)
             \/ OriginOf[r] \in waitedFor[r]]_vars

\* "Permission writes are serialized so revocation cannot be undone by an older
\* connection approval" (README.md 141): what a revoked site holds was granted
\* by an approval given after the revocation began.
RevocationStands ==
    \A o \in Origins :
        revoke[o] = "done" /\ granted[o].accounts # {} =>
            \E r \in Requests : grantedBy[o] = r /\ o \in revokedFirst[r]

\* A site told that it is connected, or that the network was switched, holds the
\* permission at that moment (background.ts 610-613, 628-632, 1602-1613).
ResultMeansGranted ==
    [][\A r \in Requests :
         answer'[r] = "result" /\ answer[r] # "result" /\ Kind[r] \in {"connect", "switch"} =>
             Permits(OriginOf[r], local[r].account, local[r].chain)]_vars

\* "Delayed unlocks cannot override a lock" (README.md 141): an unlock that a
\* lock overtook does not leave the wallet unlocked.
LockOverridesUnlock == [][unlock.overtaken /\ ~unlocked => ~unlocked']_<<unlocked>>

\* Every approved request ends and every revocation is written, however many
\* jobs before it in the permission chain fail (background.ts 340-345).
ExecutionEnds ==
    /\ \A r \in Requests : Running(r) ~> step[r] = "over"
    /\ \A o \in Origins : revoke[o] = "queued" ~> revoke[o] = "done"
==============================================================================
