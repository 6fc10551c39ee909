---------------------------- MODULE ExtensionVault ----------------------------
(***************************************************************************)
(* Where the extension keeps its wallets, and who may rewrite them          *)
(* (apps/extension/src/background.ts, device-vault.ts).                     *)
(*                                                                         *)
(* A first open creates a wallet bound to the browser, in IndexedDB.        *)
(* Protecting it moves it into a vault under a password, in                 *)
(* chrome.storage.local; from then on the presence of the password vault    *)
(* marks the device vault as garbage that every reader helps to collect.    *)
(* The operations that create, import or rename wallets read a vault, work  *)
(* on it for a while and write all of it back.  They are serialised behind  *)
(* one promise chain; unlocking, the status query of every open window and  *)
(* locking are not, and the worker may die at any await.                    *)
(*                                                                         *)
(* A vault is the set of the edits made to it: the wallets created or       *)
(* imported, and their renamings.                                           *)
(***************************************************************************)
EXTENDS Naturals, FiniteSets

CONSTANTS
    Edits,         \* wallets and renamings that can be made
    Unlockers,     \* windows that ask for the password
    Legacy,        \* whether a vault found at first is of the old format
    MaxRevision,   \* bound: locks, other context changes and failing cleanups
    MaxCrashes,    \* bound: deaths of the worker
    None

\* uiMutation runs the operations of "serial" one at a time; startup and STATUS
\* run encryptedVault() alone.
Threads == Unlockers \cup {"serial", "status"}

ASSUME VaultAssumption ==
    /\ Legacy \in BOOLEAN
    /\ MaxRevision \in Nat /\ MaxCrashes \in Nat
    /\ Edits # {}
    /\ \A vault \in SUBSET Edits : vault # None
    /\ Unlockers \cap {"serial", "status"} = {}

VARIABLES
    passwordVault,  \* chrome.storage.local: VAULT_KEY
    oldFormat,      \* whether unlocking that vault migrates it
    deviceVault,    \* IndexedDB: the vault bound to this browser
    unlockedVault,  \* the session in memory
    deviceMode,     \* deviceMode
    revision,       \* contextRevision
    kind,           \* the operation each thread runs
    at,             \* the await it is at
    generation,     \* the revision it compares with
    keyed,          \* the threads that have a password to work with
    migrating,      \* the threads that found a vault of the old format
    found,          \* what encryptedVault() returned
    payload,        \* what the thread is going to write and to open
    crashes,        \* deaths of the worker so far
    overtaken,      \* history: threads whose operation a lock overtook
    reported        \* history: edits whose operation returned success

storage == <<passwordVault, oldFormat, deviceVault>>
session == <<unlockedVault, deviceMode>>
locals == <<generation, keyed, migrating, found, payload>>
vars == <<storage, session, revision, kind, at, locals, crashes, overtaken, reported>>

Editing == {"create", "rename", "import"}
Opening == {"open", "initialize", "protect"}
KindsOf(t) == IF t = "serial" THEN Editing \cup Opening
              ELSE IF t = "status" THEN {"status"} ELSE {"unlock"}
Kinds == Editing \cup Opening \cup {"status", "unlock", "none"}
Steps == {"idle", "look", "remove", "verify", "read", "migrate", "check", "write",
          "adopt", "select"}
Vaults == {None} \cup SUBSET Edits

TypeOK ==
    /\ passwordVault \in Vaults
    /\ oldFormat \in BOOLEAN
    /\ deviceVault \in Vaults
    /\ unlockedVault \in Vaults
    /\ deviceMode \in BOOLEAN
    /\ revision \in Nat
    /\ kind \in [Threads -> Kinds]
    /\ at \in [Threads -> Steps]
    /\ \A t \in Threads :
         /\ at[t] = "idle" <=> kind[t] = "none"
         /\ kind[t] \in KindsOf(t) \cup {"none"}
    /\ generation \in [Threads -> Nat]
    /\ keyed \subseteq Threads
    /\ migrating \subseteq Threads
    /\ found \in [Threads -> Vaults]
    /\ payload \in [Threads -> Vaults]
    /\ crashes \in Nat
    /\ overtaken \subseteq Threads
    /\ reported \subseteq Edits

-----------------------------------------------------------------------------
Content(vault) == IF vault = None THEN {} ELSE vault
Stored == Content(passwordVault) \cup Content(deviceVault)
Used == Stored \cup Content(unlockedVault) \cup reported
        \cup UNION {Content(payload[t]) : t \in Threads}

\* A wallet nobody has seen; which one does not matter.
Fresh == IF Used = Edits THEN {} ELSE {CHOOSE e \in Edits : e \notin Used}

\* Mutant: the revision is not compared.
CurrentSession(t) == kind[t] \in Editing \cup {"protect"} => unlockedVault # None

\* generation !== contextRevision || !unlockedVault; the operations that begin
\* without a session compare the revision only.
Current(t) ==
    /\ generation[t] = revision
    /\ kind[t] \in Editing \cup {"protect"} => unlockedVault # None

Goto(t, next) == at' = [at EXCEPT ![t] = next] /\ UNCHANGED kind

\* Mutant: the thread is left with its operation.
EndsIdle(t) ==
    /\ at' = [at EXCEPT ![t] = "idle"]
    /\ UNCHANGED <<kind, locals>>

Ends(t) ==
    /\ at' = [at EXCEPT ![t] = "idle"]
    /\ kind' = [kind EXCEPT ![t] = "none"]
    /\ found' = [found EXCEPT ![t] = None]
    /\ payload' = [payload EXCEPT ![t] = None]
    /\ generation' = [generation EXCEPT ![t] = 0]
    /\ keyed' = keyed \ {t}
    /\ migrating' = migrating \ {t}

\* lockVault(). deviceMode stays as it is.
LockVault ==
    /\ unlockedVault' = None
    /\ revision' = revision + 1
    /\ overtaken' = {t \in Threads : at[t] # "idle"}
    /\ UNCHANGED deviceMode

Init ==
    /\ \/ passwordVault = None /\ oldFormat = FALSE /\ reported = {}
       \/ LET e == CHOOSE e \in Edits : TRUE
          IN  passwordVault = {e} /\ oldFormat = Legacy /\ reported = {e}
    /\ deviceVault = None
    /\ unlockedVault = None
    /\ deviceMode = FALSE
    /\ revision = 0
    /\ kind = [t \in Threads |-> "none"]
    /\ at = [t \in Threads |-> "idle"]
    /\ generation = [t \in Threads |-> 0]
    /\ keyed = {}
    /\ migrating = {}
    /\ found = [t \in Threads |-> None]
    /\ payload = [t \in Threads |-> None]
    /\ crashes = 0
    /\ overtaken = {}

-----------------------------------------------------------------------------
(* encryptedVault(), which every operation calls before anything else.      *)

\* Without a session there is nothing to edit or to protect. In device mode the
\* operations that take the password from the session have none.
Begin(t, k) ==
    /\ at[t] = "idle" /\ k \in KindsOf(t)
    /\ k \in Editing \cup {"protect"} => unlockedVault # None
    /\ k = "protect" => deviceMode
    /\ kind' = [kind EXCEPT ![t] = k]
    /\ at' = [at EXCEPT ![t] = "look"]
    /\ generation' = [generation EXCEPT ![t] = revision]
    /\ keyed' = IF k \in {"create", "rename"} /\ deviceMode THEN keyed \ {t} ELSE keyed \cup {t}
    /\ overtaken' = overtaken \ {t}
    /\ UNCHANGED <<storage, session, revision, migrating, found, payload, crashes, reported>>

\* Mutant: encryptedVault() does not resume the protection.
LookOnly(t) ==
    /\ at[t] = "look"
    /\ found' = [found EXCEPT ![t] = passwordVault]
    /\ migrating' = IF oldFormat THEN migrating \cup {t} ELSE migrating \ {t}
    /\ Goto(t, "read")
    /\ UNCHANGED <<storage, session, revision, generation, keyed, payload, crashes,
                   overtaken, reported>>

Look(t) ==
    /\ at[t] = "look"
    /\ found' = [found EXCEPT ![t] = passwordVault]
    /\ migrating' = IF oldFormat THEN migrating \cup {t} ELSE migrating \ {t}
    /\ Goto(t, IF passwordVault = None THEN "read" ELSE "remove")
    /\ UNCHANGED <<storage, session, revision, generation, keyed, payload, crashes,
                   overtaken, reported>>

\* finishDeviceProtection() removes the device vault,
Remove(t) ==
    /\ at[t] = "remove"
    /\ deviceVault' = None
    /\ Goto(t, "verify")
    /\ UNCHANGED <<passwordVault, oldFormat, session, revision, locals, crashes,
                   overtaken, reported>>

\* and looks again whether it is gone.
Verify(t) ==
    /\ at[t] = "verify" /\ deviceVault = None
    /\ Goto(t, IF payload[t] = None THEN "read" ELSE "adopt")
    /\ UNCHANGED <<storage, session, revision, locals, crashes, overtaken, reported>>

\* Mutant: the failure is ignored.
CleanupIgnored(t) ==
    /\ at[t] \in {"remove", "verify"}
    /\ Goto(t, IF payload[t] = None THEN "read" ELSE "adopt")
    /\ UNCHANGED <<storage, session, revision, locals, crashes, overtaken, reported>>

\* IndexedDB fails, or the vault is still there: lock, and give up.
CleanupFails(t) ==
    /\ at[t] \in {"remove", "verify"} /\ revision < MaxRevision
    /\ LockVault
    /\ Ends(t)
    /\ UNCHANGED <<storage, crashes, reported>>

-----------------------------------------------------------------------------
(* What the operations do with the answer.                                  *)

\* STATUS, an open with a password vault in place, or an error: a wrong password,
\* no wallet or one too many, a bad import, a write that fails.
GivesUp(t) ==
    /\ at[t] \notin {"idle", "remove", "verify"}
    /\ Ends(t)
    /\ UNCHANGED <<storage, session, revision, crashes, overtaken, reported>>

Prepares(t, k, vault, next) ==
    /\ at[t] = "read" /\ kind[t] = k
    /\ payload' = [payload EXCEPT ![t] = vault]
    /\ Goto(t, next)
    /\ UNCHANGED <<passwordVault, oldFormat, session, revision, keyed, migrating, found,
                   crashes, overtaken, reported>>

\* Mutant: the wallet is put, not added.
EnsurePuts(t) ==
    /\ found[t] = None
    /\ \E e \in Fresh : deviceVault' = {e} /\ Prepares(t, "open", {e}, "adopt")
    /\ UNCHANGED generation

\* ensureDeviceWallet() adds a wallet if there is none, in one transaction.
Ensure(t) ==
    /\ found[t] = None
    /\ \E vault \in IF deviceVault = None THEN {{e} : e \in Fresh} ELSE {deviceVault} :
         deviceVault' = vault /\ Prepares(t, "open", vault, "adopt")
    /\ UNCHANGED generation

\* CREATE_VAULT, when there is no vault of either kind.
Initialize(t) ==
    /\ found[t] = None /\ deviceVault = None
    /\ \E e \in Fresh : Prepares(t, "initialize", {e}, "check")
    /\ UNCHANGED <<deviceVault, generation>>

\* PROTECT_DEFAULT_WALLET takes its generation here.
Protect(t) ==
    /\ found[t] = None /\ deviceVault # None
    /\ Prepares(t, "protect", deviceVault, "check")
    /\ generation' = [generation EXCEPT ![t] = revision]
    /\ UNCHANGED deviceVault

\* The vault an edit starts from; IMPORT_ACCOUNTS takes its generation here.
Base(t) ==
    IF kind[t] # "import" /\ deviceMode THEN deviceVault
    ELSE IF t \in keyed THEN found[t] ELSE None

Edit(t) ==
    /\ Base(t) # None
    /\ \E k \in Editing, e \in Fresh : Prepares(t, k, Base(t) \cup {e}, "check")
    /\ generation' = [generation EXCEPT ![t] = IF kind[t] = "import" THEN revision ELSE @]
    /\ UNCHANGED deviceVault

Decrypt(t) ==
    /\ found[t] # None
    /\ Prepares(t, "unlock", found[t], IF t \in migrating THEN "migrate" ELSE "adopt")
    /\ UNCHANGED <<deviceVault, generation>>

-----------------------------------------------------------------------------
(* Writing, and opening the session.                                        *)

\* unlockVault writes the migrated payload back without looking at the revision.
Migrate(t) ==
    /\ at[t] = "migrate"
    /\ passwordVault' = payload[t]
    /\ oldFormat' = FALSE
    /\ Goto(t, "adopt")
    /\ UNCHANGED <<deviceVault, session, revision, locals, crashes, overtaken, reported>>

\* The check and the call that writes are one segment; the write lands later.
Check(t) ==
    /\ at[t] = "check" /\ Current(t)
    /\ Goto(t, "write")
    /\ UNCHANGED <<storage, session, revision, locals, crashes, overtaken, reported>>

Write(t) ==
    /\ at[t] = "write"
    /\ IF t \in keyed
       THEN passwordVault' = payload[t] /\ oldFormat' = FALSE /\ UNCHANGED deviceVault
       ELSE deviceVault' = payload[t] /\ UNCHANGED <<passwordVault, oldFormat>>
    /\ Goto(t, IF kind[t] = "protect" THEN "remove" ELSE "adopt")
    /\ UNCHANGED <<session, revision, locals, crashes, overtaken, reported>>

\* The last comparison, and the session changes hands. A protected wallet moves
\* the revision; created and imported accounts are then selected.
Adopt(t) ==
    /\ at[t] = "adopt" /\ Current(t)
    /\ unlockedVault' = payload[t]
    /\ deviceMode' = IF kind[t] = "open" THEN TRUE
                     ELSE IF kind[t] \in {"unlock", "protect"} THEN FALSE ELSE deviceMode
    /\ revision' = IF kind[t] = "protect" THEN revision + 1 ELSE revision
    /\ IF kind[t] \in {"create", "import"}
       THEN Goto(t, "select") /\ UNCHANGED <<locals, reported>>
       ELSE Ends(t) /\ reported' = reported \cup payload[t]
    /\ UNCHANGED <<storage, crashes, overtaken>>

\* updateSettings({activeAccountId}), and success.
Select(t) ==
    /\ at[t] = "select"
    /\ revision' = revision + 1
    /\ reported' = reported \cup payload[t]
    /\ Ends(t)
    /\ UNCHANGED <<storage, session, crashes, overtaken>>

-----------------------------------------------------------------------------
\* LOCK, the idle deadline, the alarm, onSuspend.
Lock ==
    /\ revision < MaxRevision
    /\ LockVault
    /\ UNCHANGED <<storage, kind, at, locals, crashes, reported>>

\* A revocation, or a network switch that a site asked for and the user approved.
ContextChanges ==
    /\ revision < MaxRevision
    /\ revision' = revision + 1
    /\ UNCHANGED <<storage, session, kind, at, locals, crashes, overtaken, reported>>

\* The worker dies; the next one starts with encryptedVault().
Crash ==
    /\ crashes < MaxCrashes
    /\ crashes' = crashes + 1
    /\ unlockedVault' = None
    /\ deviceMode' = FALSE
    /\ revision' = 0
    /\ kind' = [t \in Threads |-> IF t = "status" THEN "status" ELSE "none"]
    /\ at' = [t \in Threads |-> IF t = "status" THEN "look" ELSE "idle"]
    /\ generation' = [t \in Threads |-> 0]
    /\ keyed' = {} /\ migrating' = {}
    /\ found' = [t \in Threads |-> None]
    /\ payload' = [t \in Threads |-> None]
    /\ overtaken' = {}
    /\ UNCHANGED <<storage, reported>>

-----------------------------------------------------------------------------
Operation(t) ==
    \/ \E k \in Kinds : Begin(t, k)
    \/ Look(t) \/ Remove(t) \/ Verify(t) \/ CleanupFails(t) \/ GivesUp(t)
    \/ Ensure(t) \/ Initialize(t) \/ Protect(t) \/ Edit(t) \/ Decrypt(t)
    \/ Migrate(t) \/ Check(t) \/ Write(t) \/ Adopt(t) \/ Select(t)

Next == (\E t \in Threads : Operation(t)) \/ Lock \/ ContextChanges \/ Crash

Spec == Init /\ [][Next]_vars

\* An open window asks for STATUS every fifteen seconds; neither storage nor
\* IndexedDB fails for ever.
FairSpec ==
    /\ Spec
    /\ WF_vars(Begin("status", "status"))
    /\ SF_vars(Look("status")) /\ SF_vars(Remove("status"))
    /\ WF_vars(Verify("status")) /\ WF_vars(at["status"] = "read" /\ GivesUp("status"))

-----------------------------------------------------------------------------
(* Properties.                                                              *)

\* "A crash must never destroy the only copy" (background.ts 1256), "Existing
\* wallets are retained during an in-place update" (README.md 143): every wallet
\* the user was told of or sees in the session is in one of the two stored
\* vaults, wherever the worker dies and whatever locks or unlocks meanwhile.
WalletsDurable == Content(unlockedVault) \cup reported \subseteq Stored

\* "Protection completes only after the old device vault is removed"
\* (README.md 135): a session that can sign exists only under a password, with
\* no copy of the wallets outside it.
SigningIsProtected ==
    unlockedVault # None /\ ~deviceMode => passwordVault # None /\ deviceVault = None

\* No operation opens a locked wallet that was locked after it had begun, however
\* many awaits it still had to go (background.ts 301, 1242, 1260, 1363).
LockStands ==
    [][unlockedVault = None /\ unlockedVault' # None =>
         \E t \in Threads \ overtaken : at[t] = "adopt" /\ at'[t] # "adopt"]_vars

\* "An interrupted cleanup is retried on worker startup, open and unlock"
\* (README.md 135) until the device vault is gone.
CleanupCompletes == passwordVault # None /\ deviceVault # None ~> deviceVault = None
===============================================================================
