# FnzSafe in TLA+

Models, model-checked properties and machine-checked proofs of the parts of FnzSafe where
an interleaving, a crash or a lost answer could cost a user their wallet or a wrong signature.
Paths are relative to the repository; `background.ts` is
`apps/extension/src/background.ts`, `lib.rs` is `apps/desktop/src-tauri/src/lib.rs`, `main.rs` and
`wallet_store.rs` are those of `crates/desktop-api/src`, `page.tsx` is the desktop's
`apps/desktop/src/app/[locale]/page.tsx`.

    tlc -workers 2 -config ApprovalQueue.cfg MCExtensionApproval    # model-check one run
    tlapm ExtensionApprovalProofs.tla                               # check one proof module

## 1. Inventory

FnzSafe is a wallet in three shapes: a Chrome extension, a desktop application (a Tauri shell that
owns a local HTTP backend) and a mobile application, over shared Rust crates.

| component | state it keeps | operations | what is hard | what makes it correct |
|---|---|---|---|---|
| **Extension: approval queue** (`background.ts`, `provider-security.ts`) | maps `pending`, `processing`; timers; popups; badge chain; provider ports | request, approve, decline, expire, close window, disconnect, lock or switch | every await lets the other events in; a popup is created by the browser while its item may vanish; the worker dies | a request is decided once and answered; popups and badge follow the maps |
| **Extension: execution** (`background.ts`, `evm-transfers.ts`, `permissions.ts`, `ui/approval.tsx`) | `contextRevision`, `unlockedVault`, `walletSettings`, `originPermissions`, the permission chain | review, sign, send, switch network, grant, revoke, select, lock, unlock | the selection is read before an await and used after it; a revocation races an older grant; a slow unlock races a lock | what is signed is what was shown; stale work stops; a revocation stands |
| **Extension: custody** (`background.ts`, `device-vault.ts`) | password vault (chrome.storage), device vault (IndexedDB), session, `deviceMode` | open, create, rename, import, protect, unlock, status | two stores without a common transaction; read-modify-write over awaits; the worker dies between two writes | no wallet is lost; signing only under a password |
| Extension: Passkey broker, secret clipboard, Safe workspace, activity | one ceremony; one timer; proposals; a list | begin/cancel; copy/clear; merge; append | two windows; timer against a new copy; read-modify-write | one owner at a time; no foreign clipboard wiped; no signature lost |
| Extension: pages, content scripts, UI, decoders, vault cryptography | request ids, React state | relay, display, derive | little | (pure, or views) |
| **Desktop shell: lock protocol** (`lib.rs`) | `security_epoch`, `lock_pending`, `request_gate`, the child process | proxy a request, lock, unlock by Touch ID | several threads; a request that hangs; an answer that is lost; a backend that dies | after an acknowledged lock nothing of before it is unlocked or at work |
| **Desktop API: automated trades** (`automated_trade.rs`) | replay map: intent, state, expiry | sell | retries and equivalent intents in parallel; eviction; dropped handlers; clocks read before the mutex | no second sale while an intent is valid |
| **Desktop API: stored wallets and their passwords** (`main.rs`, `wallet_store.rs`) | one row per wallet with its ciphertext; the limiter of password attempts; sessions | verify, export, unlock all, create, import, rename, delete, change, adopt, migrate | handlers derive keys for a second between reading a row and writing it; clients hang up while the task goes on | a change of password stands; a failed one changes nothing; attempts are serial |
| **Desktop API: program deployment** (`main.rs`, `wallet_store.rs`, `program_deploy.rs`) | journal row and one attempt per signed transaction | create buffer, write, deploy, read back, recover | death between journal, send and confirmation; lagging nodes; lost transactions; forks | nothing is signed twice while it may land; the journal is true; the deployment ends |
| Desktop API: wallet sessions (`wallet_session.rs`) | sessions with times, idle policy | insert, take, touch, purge | the clock is read before the mutex | an expired session stays expired |
| Desktop API: send previews, program close and build, Squads | preview tokens; jobs | preview/spend, run | a token spent twice | spent once |
| **Desktop shell and window: DApp bridge** (`lib.rs`, `app_store.rs`, `page.tsx`) | sessions of tabs, requests, the `paused` flag, permissions; dialogs and lock flags of the window | open, ask, poll, claim, sign, resolve, connect, pause, resume, disconnect | shell commands in parallel with a window that awaits; a lock, a second approval or a disconnection during each await | a request is signed once; a disconnection and a pause stand |
| Desktop shell: browser profiles, application and research stores, secure input | SQLite | save | little | (transactions) |
| Desktop UI (other views), AI runtime | React state; confirmations | view, confirm | confirmations of a proxy | nothing shown after a lock |
| Core, chain services, mobile | key files, limiter, sessions | encrypt, build, sign | mostly pure | (partly planned) |

`PROJECT.json` lists every component with its status, and every hazard with the line where it bites
and the properties that would catch it.

**How they interact.** The approval queue hands an approved item to the execution, which re-asserts
the item's context between awaits; a lock, a selection or a revocation moves `contextRevision`, which
both of them and the custody operations compare. The desktop shell proxies every request of its UI to
the backend under `request_gate`; the backend keeps the sessions, the stored wallets, the journal of
deployments and, for automated trades, the replay map. A page in a tab reaches the backend only through
the DApp bridge: the shell keeps its request, the window polls for it, claims it and has the backend
sign; a lock pauses the bridge before it begins with the gate.

## 2. Modules

| module | models | checked by | proved in |
|---|---|---|---|
| `ExtensionApproval` | the approval queue | `MCExtensionApproval` | `ExtensionApprovalProofs` |
| `Decision` | what the queue promises: the abstract specification that `ExtensionApproval` implements | `MCExtensionApproval` | `ExtensionApprovalProofs` |
| `ExtensionSigning` | what an approved request does, and what stops it | `MCExtensionSigning` | `ExtensionSigningProofs` |
| `ExtensionVault` | the two stored vaults, the session, their operations | `MCExtensionVault` | `ExtensionVaultProofs` |
| `DesktopLock` | shell, gate and backend sessions during a lock | `MCDesktopLock` | `DesktopLockProofs` |
| `AutomatedTrade` | the replay guard | `MCAutomatedTrade` | `AutomatedTradeProofs` |
| `DeployJournal` | the journal of a program deployment, its handler and the cluster | `MCDeployJournal` | `DeployJournalProofs` |
| `WalletPasswords` | stored wallets, the limiter and sessions under parallel handlers | `MCWalletPasswords` | `WalletPasswordsProofs` |
| `DappBridge` | tabs, the shell's bridge, the window's dialogs and its lock | `MCDappBridge` | `DappBridgeProofs` |

**The grain.** The service worker is single-threaded: one action is one JavaScript segment, from one
await to the next. The desktop programs are multi-threaded: one action is one access to a shared
atomic, to the gate, to the backend, or one critical section. Every definition that stands for code
is mapped to its lines in `PROJECT.json`.

**`ExtensionApproval`.** `pending` and `processing` are the two maps, by request id. `stage` is how far
`handleProviderRequest` and `openApproval` of a request have come: `handling` (guard not asked yet),
`context` (awaiting `signingContext()`, whose revision is `captured`), `opened`, `executing`, `settled`;
`lost` with a dead worker. `popup` is the window, from `windows.get` (`locating`) to `windows.create`
(`creating`; `shown` before the promise resolves; `open` once its id is recorded) to `closed`; `stray`
is a window a dead worker left. `answers` is a history of what the page was told. `Restart` is the
death of the worker and the start of the next one.

**`ExtensionSigning`.** `context` is `item.context`, `view` the stages of GET_PENDING, `prepared` what the
window shows, `local` what the running execution has read. `step` walks the awaits of
`executeProviderRequest`, `executeEvm`, `signPrepared`, `sendPrepared`, `updateSettings` and
`grantPermission`. `queue` is the promise chain of `mutatePermissions`. An assertion of the context
reads storage once and succeeds only if the revision did not move meanwhile, so it compares with one
state; assertions with no use in between are one.

**`ExtensionVault`.** A vault is the set of edits made to it. The thread `serial` runs the operations of
`SERIAL_UI_ACTIONS` one after the other, each unlocking window is a thread, `status` stands for STATUS
and for startup. `at` is the await; `payload` what will be written; `generation` the revision compared
before a write and before the session is adopted. `Crash` empties the memory and keeps the stores.

**`DesktopLock`.** `step` follows a command through `guarded_proxy_api_request`: load the epoch, look at
`lock_pending`, enter the gate, look at both again, send. `lock` follows
`lock_wallet_security_state_inner`. `session` says which request unlocked a wallet. `acknowledged` is the
epoch of the last lock that was acknowledged, by lock-all or by killing the child.

**`AutomatedTrade`.** `trade`, `until` and `result` are the fields of the replay map. A handler reads the
clock (`Validate`), takes the mutex to begin (four outcomes), sells, takes the mutex to store.

**`Decision`.** Per request a decision (`new`, `open`, `taken`, `over`) and what the page has heard. The
mapping in `ExtensionApproval` reads the decision off `stage` and the map `pending` (a request that waits
for the guard or for its context is already open) and the reply off `answers`. A rejection of several
items, one of them with a dead port, is one `TurnDown`; the death of the worker is `Die`.

**`DeployJournal`.** `journal` and `attempt` are the two tables, written by the transactions of
`wallet_store.rs` (`Progress`, `Move`, `Begin`); the guard `Follows` is its table of transitions. `step`
walks `deploy_program` from the load of the journal over recovery of the deploy, create and write attempts
to sending. A transaction is a number, `kind` what it is for, `fate` what became of it: `signed`, `sent`,
`landed` (confirmed) or `failing`, `ok` or `failed` (finalized), `dead` (expired). A buffer is named by the
transaction that creates it. `Stop` is any failure or the death of the process; `Fork` takes a landed
transaction back; a reading of the cluster may lag.

**`WalletPasswords`.** `Path` lists, for each operation, the accesses to store, limiter and sessions that
its handler makes in turn, and `Task` those it makes inside `run_keystore_task`, under a permit and
beyond the life of the handler (`HangUp`). A ciphertext is the password it opens with and the call that
made it, so that two of one password differ. `read` is what a call derives from.

**`DappBridge`.** A command that holds the mutexes of the shell is one step; a claim is two, since it
reads `paused` under the mutexes and other commands write it without. `flow` is how far each approval of
the window is, from the click over claim, backend and resolution. `lockedRef`, `locked`, `locking` and
`queue` are the window's lock flags, the rest of `lockApplication`, and its chain of pauses and
resumptions. `closed`, `cut`, `refused` are histories the properties need.

## 3. Runs and what they show

| run | instance | properties | states |
|---|---|---|---|
| `ApprovalQueue` | 2 requests, 2 ports of one site, 1 context change, with fairness | `TypeOK`, `NeverDeclinedAndExecuted`, `NoOrphanPopup`, `BadgeAgreesWhenIdle`, `DecidedOnce` (refinement of `Decision`), `EveryRequestAnswered` | 0.5 M |
| `SigningSendConnect` | a transaction and a connection of one site, 2 accounts, 2 networks, 2 context changes | `RevocationStands`, `StaleWorkIsCancelled`, `SignsUnderPermission`, `ResultMeansGranted` | 3.5 M |
| `SigningSignSwitch` | a message and a network switch of one site, 2 accounts, 2 networks, 1 context change, with fairness | `SignsWhatWasShown`, `ExecutionEnds` | 0.3 M |
| `VaultCustody` | 2 wallets, a vault of the old format or none, 1 unlocking window, 1 crash, 1 lock, with fairness | `WalletsDurable`, `SigningIsProtected`, `LockStands`, `CleanupCompletes` | 1.2 M |
| `DesktopLock` | an unlock by password, one by Touch ID, a signing request, 2 wallets, 2 locks | `LockedMeansLocked`, `NoWorkOutlivesLock`, `LockEnds`, `NoneStaysQueued` | 1.1 M |
| `TradeReplay` | 5 calls, one a renewal and one an equivalent of the first; 3 trades, a map of 2 records, 5 clock values | `TradesRecordedOnce`, `InFlightIsExecuting`, `SaleIsRecorded`, `NoSecondSaleInWindow` | 1.6 M |
| `DeployJournal` | a binary of 3 chunks, 9 transactions, 4 faults, forks, with fairness | `TypeOK`, `OneLivePerPurpose`, `EvidenceIsTrue`, `JournalLoads`, `ProgressIsReal`, `DeploysWholeBuffer`, `DeployEnds` | 0.08 M |
| `WalletPasswords` | a password change, another request (not an export or a verification) and a verification; 2 wallets, 2 passwords, 2 permits, 1 client that hangs up | `NoRewriteLost`, `FailedRewritesNothing`, `PasswordChangeStands`, `UnlockAllOrNothing`, `AttemptsAreSerial` | 2.2 M |
| `DappBridge` | a tab opened twice with a request to sign, a link that asks to connect, 2 approvals at a time, 1 lock, navigation, closing or disconnection | `SignedOnce`, `DisconnectStands`, `PausedAtRest`, `PauseStopsClaims` | 4.0 M |
| `VaultMigration` | an old vault, 2 unlocking windows | `WalletsDurable` is violated | – |
| `WalletRename` | a password change, a renaming and a verification | `OldPasswordIsDead` is violated | – |
| `DappRevoke` | as `DappBridge`, for an EVM account | `DisconnectionsWork` is violated | – |

What a run shows beyond its names: `DecidedOnce` says that whatever windows, timers, ports, locks and
the death of the worker do, each request goes through one decision and the page never hears the contrary
of it; `DeployEnds` that recovery never gets stuck in its own journal; `PasswordChangeStands` that
whoever was told their password is changed is not let in with the old one, with the overlaps named in
the property as the only exceptions; `PauseStopsClaims` that a flag read without a mutex is enough
because of the order in which a pause and a claim take the others; `NoneStaysQueued` that a request that hangs
and a lock that queues behind it do not keep the commands behind both from the backend; `SaleIsRecorded` that
a full map never gives up the record of a valid sale that is under way. `SignsUnderPermission` has one exception, approvals
given while a revocation waited for its turn to write (`waitedFor`): the revision moved before such an
approval, so the code lets the signature go on when the write lands. A revocation that was written before the approval is no exception.

**Bounds, and why they are enough.** Two requests are what a race over the maps, the badge or the
permission chain needs: every action touches one item, or all of them alike. `MaxRevision` caps the
locks, selections and revocations: one makes a context stale, a second one checks that a context that
was stale once does not become current again. It counts every move of the revision but
stops only the user's. Two wallets are what a lost update needs. `MaxEpoch = 2`
lets a lock overtake an unlock that itself began after a lock. A map of two records meets both ends of its
limit: a finished record that is evicted, and two in flight that refuse a third trade; five clock values
give an intent that expires, one that outlives it and the grace in between. `MaxCrashes = 1`: a second
death of the worker meets the state of the first one, because only the two stores survive.
Three chunks tell a first, a middle and a last write apart; four faults let a recovery fail during a
recovery; nine transactions are the five of a smooth deployment and one more per fault. Three calls are
a writer, what it races with and one that looks at the result. The bridge needs a tab that is opened a
second time (a session of one number and a request of another) and two approvals, for a second click
while the first is with the backend; two interfering events instead of one show nothing
else. The two approvals are interchangeable, and TLC counts states up to their names. Deadlock is off where requests are used once or calls are bounded: the model stops when they are
used up.

**Fairness.** `ApprovalQueue`: promises settle, the five-minute timer fires, the badge chain advances;
pages and users need do nothing. `SigningSignSwitch`: storage and the network answer, so a running
execution goes on; no user acts. `VaultCustody`: an open window polls STATUS every fifteen seconds;
storage and IndexedDB may fail, but not for ever (strong fairness of the read and of the removal).
`DesktopLock`: the lock command itself, whose waits all carry timeouts, and a command whose turn it is at
the gate, which is the promise of tokio's queue; nothing is assumed of the backend, of the requests that hold
the gate or of the user. `DeployJournal`: a handler that runs goes
on, the cluster takes what it was sent and roots it, signatures never sent expire, and the user asks
again after a failure: nothing else restarts a deployment.

**Findings.** Three statements of the documentation, the tests or the comments are not what the code
does; each has a run that ends in a counterexample, and `PROJECT.json` quotes them.

1. `VaultMigration`: of two windows that unlock a vault of the old format, the slower one writes back
   what it read before a wallet was created in between (`background.ts` 293-300). The reported wallet
   is in neither store. Everything else that writes a vault compares the revision first, and
   `VaultCustody` shows that no wallet is lost while a single window unlocks.
2. `WalletRename`: a renaming that read a wallet before a password change writes the old ciphertext back
   after it (`main.rs` 8087-8089, `wallet_store.rs` 1727-1748), and the old password opens that wallet
   again. The comment at `wallet_store.rs` 1759 promises the opposite.
3. `DappRevoke`: the settings disconnect every permission by the Solana address of its wallet
   (`page.tsx` 5236), but an EVM permission is stored under the EVM address, so the store refuses.

Four more are stated as properties that no run keeps: `PerOriginBound` and `PendingHasLivePort` of
`ExtensionApproval` (the limit per site and the port are checked before an await and the item is entered
after it), `TouchUnlockIsCancelled` of `DesktopLock` (an unlock confirmed by Touch ID loads the epoch a
second time, so a whole lock between `lib.rs` 1129 and 1374 goes unnoticed by the shell), and
`EvidenceKept` of `DeployJournal` (a request for another binary deletes the record of a transaction that
may still land). TLC violates each on a small instance: four requests of one port; the instance of
`ApprovalQueue`; that of `DesktopLock`; two binaries.

Seen while modelling the bridge, and left as they are in the model: a click beside the dialog declines a
request while the backend signs it, so the page is told it was rejected although it is broadcast; a
connection the page was told of is rolled back when a lock follows at once; a resumption that fails after
an unlock leaves the backend unlocked behind a locked screen; the deletion of a wallet leaves its
requests to connect. Seen in the replay guard: a sale that outlasts its intent finishes the record of a later
intent with the same request_id, whose retry then gets the result of the other sale; `SaleIsRecorded` names it as
its exception, and without the exception TLC violates it on the instance of `TradeReplay`.

## 4. Proofs

TLC checks instances; these hold for every value of the constants under the named assumptions of
the modules (`ConstantsAssumption`, `DesktopAssumption`, `TradeAssumption`, `DeployAssumption`,
`PasswordsAssumption`, `BridgeAssumption`, `VaultAssumption`, `SigningAssumption`), which only fix types and keep
null values apart. A theorem with a hypothesis of its own names it where it is described. Every invariant and
every action property of a passing run is proved.

- **`ExtensionApprovalProofs`**: `TypeCorrect`, `NeverBoth`, `TakenOnce`, `BadgeIsRight`, for any requests,
  ports, ids and limits, also when requests share an id; `QueueImplementsDecision` and `NoPopupStaysBehind` under
  the hypothesis `DistinctIds`: no two requests with one id, which the content script's counter provides.
  `NeverDeclinedAndExecuted` is not inductive: a declined request must not become decidable again. The inductive
  invariant `QueueInv` adds that an item in `pending` is at stage `opened`, that one in `processing` is
  `executing`, and that a request before its entry in the map has heard nothing.
  `QueueImplementsDecision`, that the queue refines `Decision`, needs `DropInv` beyond it: a request that is over
  without an answer has a closed port, and a window on its way belongs to an opened request. One lemma per
  abstract action says what must happen to each request; one step per concrete action then names the abstract
  one. (With a shared id it is false: the later item replaces the earlier one in silence, and when the earlier
  one's window then fails to open its page is told after the fact.) `NoPopupStaysBehind` adds that a window
  belongs to a request that arrived (`PopupInv`); with a shared id the replaced item leaves its window.
  `BadgeIsRight` says of each update under way that what it will show is right unless another update waits
  (`BadgeFollows`).
- **`ExtensionSigningProofs`**: `TypeCorrect`, `NoStaleWork`, `RevocationsAreFinal`, `ResultsAreGranted`,
  `TransactionsAreAsShown`, `UnlocksAreOverridden`, for any requests, sites, accounts, networks, locks, selections
  and revocations; `SignaturesAreAsShown` and `SignaturesArePermitted` under a hypothesis on the store, below.
  Every step is a request's own or spares it (`OwnOrUnmoved`), `Moves` says where an own step takes it, and one
  lemma each says what a step may do to the shared state (`QueueStep`, `RevokeStep`, `GrantStep`,
  `RevisionStep`, `SelectionStep`). The basis of the rest is `StaleInv`: the revision that a request's work counts
  on, its context's or that of its own switch while it is written, is at most the present one, and less once
  something disturbed it. `RevokeInv` orders grants after revocations through the permission chain; by `GrantInv`
  a revocation that waits is ahead in that chain of every grant whose work is valid, so that none falls between
  a grant and its result.
  What is signed is compared with what was shown for a transaction (`signPrepared`), which is why
  `TransactionsAreAsShown` holds however the store orders its calls. A message is compared with nothing but its
  context: `SignaturesAreAsShown` follows from `Steady`, that the context of the present revision is the
  selection and no write is on its way that could replace it. For that the model is too free, since its writes
  land at any time and its reads see what has landed: a selection in the wallet and an approved network switch,
  both on their way, could take a selection away and bring it back within one revision (TLC shows it from
  `MaxRevision = 2` on, which the runs do not reach). The hypothesis `OpensInOrder` excludes it: a request is not
  opened with settings read before a write that was begun earlier. A browser that serves the calls of
  `chrome.storage` in the order they are made guarantees it, and `signingContext()` compares the revision after
  its read; the interface does not promise that order, so it is a hypothesis and not part of the model.
  `SignaturesArePermitted` needs it for the same reason: a permission was checked for what was selected then. It rests
  on `ValidWaits` besides: a revocation still to be written while a request's work is valid waited when the
  user approved.
  `UnlocksAreOverridden` states `LockOverridesUnlock`, which no run checks: `LockStands` of
  `ExtensionVault` asks the same of every operation of the custody.
- **`ExtensionVaultProofs`**: `TypeCorrect`, `SessionsAreProtected`, `NoWalletIsLost`, `LocksStand`, for any
  wallets, unlocking windows, locks and deaths of the worker. The operations of `SERIAL_UI_ACTIONS` run one at
  a time, and only they create a vault or edit one; the other threads unlock, migrate and remove a copy that a
  password vault already covers. `Phases` says what a thread holds at each await. `ProtectInv` says what an
  operation that is alone may still believe of the stores after the others had their turn (`SerialKnows`), and
  that a thread which saw a password vault, or no device vault, sees no less later. `KeptInv` is the argument for
  the wallets: `Kept`, the vault that counts (the password vault once there is one, else the device vault),
  only grows, because whatever is about to be written already contains it (`SerialIsCurrent`, `MigrationIsCurrent`).
  `NoWalletIsLost` has the hypothesis `OneWindow`: while there may be a vault of the old format, at most one
  window unlocks. It is needed: with two, the migration that was read first is written last, which is the
  finding `VaultMigration`. `LocksStand` is an action property; it rests on `OvertakenIsStale`, that whatever a
  lock overtook compares with a revision that is over.
- **`DesktopLockProofs`**: `TypeCorrect`, `LockClearsSessions`, `LockStopsWork`. `LockInv` adds that the
  holder of the gate is alone (no request is between entering the gate and its answer) and that no
  acknowledgement is ahead of the epoch. A request inside the gate has compared its epoch with the
  current one, and the epoch only moves while `lock_pending` is up.
- **`AutomatedTradeProofs`**: `TypeCorrect`, `TradesUnique`, `NoStuckRecord`, `SoldOnceInWindow`,
  `SalesAreRecorded`. `TradeInv`
  says that a record belongs to the execution that entered it and that an execution whose intent is
  still valid has its record unless it was evicted; clocks lag behind the present, so a `retain()` with
  an older reading never drops more than one with a newer one. For the same reason no `begin()` of another call
  moves the record of a valid sale (`BeginLeavesSale`), and only a sale of the same request_id can finish it:
  `SalesAreRecorded` excepts that case, which the code allows, since `store_result` goes by the id alone
  (`automated_trade.rs` 187-200).

- **`DappBridgeProofs`**: `TypeCorrect`, `NoClaimAfterPause`, `SignedAtMostOnce`, `DisconnectionStands`,
  `LockLeavesPaused`. `NoClaimAfterPause` is an action property: a claim that saw the bridge open
  finishes before the pause that is under way can pass the mutexes (`PauseInv`). `SignedAtMostOnce` counts: the
  approvals beyond their claim and the signatures of a request are together at most one, because a claim
  takes the request's `pending` for good. `DisconnectionStands` rests on what a cut leaves behind: no
  request of the connection is kept, and none that was open is answered as approved (`CutInv`). `LockLeavesPaused` follows the queue of pauses and
  resumptions: after the pause of a lock no resumption is behind it unless somebody unlocks.
- **`DeployJournalProofs`**: `TypeCorrect`, `JournalAlwaysLoads`, `OnlyWholeBuffers`, `ProgressHolds`, for any
  binaries; `EvidenceHolds` and `NothingSignedTwice` under the hypothesis `OneBinary`: the program is always asked for
  with the same binary. Without it they are false: a request for another binary replaces the journal and
  deletes its records, and a third request, for the first binary again, finds no trace of a transaction that
  may still land (the hazard at `wallet_store.rs` 871; TLC shows it with two binaries). The invariant says at
  each step of the handler which attempts it has already proved absent or rooted (`HandlerOK`), that every
  transaction of the journal's buffer is the one recorded for its purpose or dead, and that what is complete is
  finalized on the cluster, which a fork cannot take back.
- **`WalletPasswordsProofs`**: `OneAttemptAtATime`, `FailedCallsRewriteNothing`, `RewritesAreNotLost`,
  `UnlocksAllOrNothing`, `ChangedPasswordsStand`, for any calls, wallets, passwords, permits and hang-ups. A first
  group of lemmas says where in its path each access is, one lemma per action says what it does to its
  call, and `InvNext` sums that up: a step leaves the store alone, or it is the one write of a call that has written nothing
  before. On that the invariants rest: `Fresh`, nothing in the store or in anybody's hands is marked by a call
  that has not written; `ReadsGone`, what a rewrite has read is nowhere in the store any more (compare and
  swap, and nothing comes back, since ciphertexts carry their maker); `Checked` and `Opened`, passwords were
  tried before they are relied on. `ChangedPasswordsStand` needs most: `Outdated` (unless excused, neither
  the store nor any call that began after the change holds the old ciphertext under the old password), and
  for it `Unborn` (a wallet being created is nobody else's) and `Imports` (an import that finds the wallet
  has read it, so it was checked against the new password). The exceptions are those of the property: a
  request for the old password, a renaming or an import that overlapped the change.

Four attempts changed a model. `DeployJournal.Send` could revive an expired signature. `WalletPasswords.Find` and
`Lock` used the row a request names before it was set in the same step, so a request could name no row
at all. The exceptions of `PasswordChangeStands` held for requests that had not even come; now they must
have begun. The type of a vault in `ExtensionVault` was a test of membership that said nothing of what threads hold;
it is now a set, and `VaultAssumption` asks for at least one wallet, without which no fresh one can be chosen.

Only model-checked: liveness, the properties `EveryRequestAnswered`, `ExecutionEnds`, `CleanupCompletes`,
`LockEnds`, `NoneStaysQueued` and `DeployEnds` under fairness (temporal properties under fairness, like ENABLED, are beyond the
prover). What a recursive definition computes would be too; no module has one. What the three violating runs
check is false, so there is nothing to prove.

## 5. Abstractions

- Payloads, keys, signatures, HTML and wording are left out; an account, a network, a site, a wallet
  is a model value. Decryption gives back what was encrypted, or fails.
- Request ids are distinct in the instances (the theorems that need it say so). One view per request.
- `ExtensionSigning` has one family of accounts and no device mode; the Solana executor, which has the
  same assertions, and the wallet's own transfers are left out. The nonce, simulation and gas answers
  are a refusal that may happen. Its store is freer than the browser's: a write lands at any time after it
  is begun, and a read does not wait for it.
- The rate limiter of ten confirmations a minute is a refusal that may happen at any time.
- A write of the badge succeeds; one the browser refuses is swallowed (`background.ts` 120), and
  `BadgeAgreesWhenIdle` does not speak of it.
- `STATUS` stands for every caller of `encryptedVault()` that does not go on to write.
- `tokio::sync::RwLock`, `chrome.windows`, the backend process as a crashing thing and the system clock
  are external: modelled from how the code uses them. The gate is write-preferring, as tokio documents.
- `DesktopLock` leaves out `pause_dapp_connections`, with which a lock command begins; `DappBridge` has
  it, and has the gate's part of a lock as one step (`LockEnds`).
- `DeployJournal`: one handler at a time (`PROGRAM_DEPLOY_LOCK`); a second process, the optimistic
  revision of the rows, records of journal version 0 and their promotion, and a recovery buffer given by
  the user are left out. Fees, budgets and simulation are a `Stop` that may happen. Where `MaxTx` is
  used up the handler cannot sign; the instance has enough for every fault.
- `WalletPasswords`: an imported file counts as a new ciphertext; a comparison that fails and the guard
  it drops are one step; a row is named when a call makes its first access; broken rows and sessions
  that cannot be inserted are left out; a created wallet is a key pair no other call knows.
- `DappBridge`: readings of the clock differ by the openings of tabs between them; a request older than
  its time limit is like one that was removed; an answer to a poll is shown at once, and a poll that a
  lock overtakes shows nothing; the limits of 64 requests and of twelve hours, EVM RPC, the event that
  wakes the window and the other places that set its lock flags (loading the list of wallets) are left
  out. A session has one network per family.
- The proxy's HTTP client timeout (`lib.rs` 1415-1436), after which a handler works on without the gate, is not
  modelled: `NoWorkOutlivesLock` is about requests the shell has not given up.
- The wall clock of `AutomatedTrade` does not go backwards.

## 6. Not modelled

Pure functions over bytes (key derivation, encryption, decoders, transaction builders, parsers), the chain
services, Squads instruction builders, React views, generated bindings, the AI runtime's tools and the
build scripts have no state whose interleavings a model checker could settle. The stores of research and of
application data are one SQLite transaction per call. `PROJECT.json` names, per component, what of it is
left out.

## 7. Plan

Done: the modules above, their runs, the refinement of `Decision` with its proof, and the proofs of every
safety property the runs check. Next, the most important first:

1. An abstract specification of the permissions of a site (granted, revoked, never back by itself) that
   `ExtensionSigning` implements, and of a wallet's password that `WalletPasswords` implements.
2. `WalletSession` (idle and absolute limits, the clock read before the mutex), the Passkey broker, the
   secret clipboard, proposals of the Safe workspace, send and program-close previews.
