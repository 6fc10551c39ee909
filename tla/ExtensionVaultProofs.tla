------------------------- MODULE ExtensionVaultProofs -------------------------
(***************************************************************************)
(* Theorems about ExtensionVault, for any wallets, windows, locks and       *)
(* deaths of the worker: a session that can sign is under a password and    *)
(* has no unprotected copy, a lock stands, and no wallet is lost, provided  *)
(* that at most one window migrates a vault of the old format.              *)
(***************************************************************************)
EXTENDS ExtensionVault, TLAPS

Serial == "serial"

-----------------------------------------------------------------------------
(* Types.                                                                   *)

\* How far a thread has come, and what it then has: what was found is known after
\* the look, what is to be written from the read on; a cleanup is that of a vault
\* that was found or of one that was just protected.
PhaseOf(t) ==
    /\ at[t] \in {"idle", "look"} => found[t] = None
    /\ at[t] \in {"idle", "look", "read"} => payload[t] = None
    /\ at[t] \in {"migrate", "check", "write", "adopt", "select"} => payload[t] # None
    /\ at[t] \in {"remove", "verify"} => IF payload[t] = None THEN found[t] # None
                                         ELSE kind[t] = "protect"
    /\ at[t] = "migrate" => kind[t] = "unlock"
    /\ at[t] \in {"check", "write"} => kind[t] \in Editing \cup {"initialize", "protect"}
    /\ at[t] = "adopt" => kind[t] # "status"
    /\ at[t] = "select" => kind[t] \in {"create", "import"}

Phases == \A t \in Threads : PhaseOf(t)

LEMMA FreshEdits == TypeOK => Fresh \subseteq Edits
<1> SUFFICES ASSUME TypeOK PROVE Fresh \subseteq Edits
  OBVIOUS
<1>1. Used \subseteq Edits
  BY DEF TypeOK, Used, Stored, Content, Vaults
<1>2. CASE Used = Edits BY <1>2 DEF Fresh
<1>3. CASE Used # Edits
  <2>1. \E e \in Edits : e \notin Used
    BY <1>1, <1>3
  <2> QED BY <2>1, <1>3 DEF Fresh
<1> QED BY <1>2, <1>3

LEMMA TypeInit == Init => TypeOK
<1> SUFFICES ASSUME Init PROVE TypeOK
  OBVIOUS
<1> USE VaultAssumption DEF Vaults
<1>1. passwordVault \in Vaults /\ oldFormat \in BOOLEAN /\ reported \subseteq Edits
  BY DEF Init
<1>2. /\ kind \in [Threads -> Kinds] /\ at \in [Threads -> Steps]
      /\ \A t \in Threads : at[t] = "idle" /\ kind[t] = "none"
  BY DEF Init, Kinds, Steps
<1>3. generation \in [Threads -> Nat] /\ found \in [Threads -> Vaults]
      /\ payload \in [Threads -> Vaults]
  BY DEF Init
<1> QED BY <1>1, <1>2, <1>3 DEF Init, TypeOK

\* Kinds and steps of a thread that moves on, or ends.
LEMMA GotoType ==
  ASSUME TypeOK, NEW t \in Threads, NEW next \in Steps \ {"idle"}, at[t] # "idle", Goto(t, next)
  PROVE  /\ kind' \in [Threads -> Kinds] /\ at' \in [Threads -> Steps]
         /\ \A u \in Threads :
              /\ at'[u] = "idle" <=> kind'[u] = "none"
              /\ kind'[u] \in KindsOf(u) \cup {"none"}
BY DEF TypeOK, Goto

LEMMA EndsType ==
  ASSUME TypeOK, NEW t \in Threads, Ends(t)
  PROVE  /\ kind' \in [Threads -> Kinds] /\ at' \in [Threads -> Steps]
         /\ \A u \in Threads :
              /\ at'[u] = "idle" <=> kind'[u] = "none"
              /\ kind'[u] \in KindsOf(u) \cup {"none"}
         /\ found' \in [Threads -> Vaults] /\ payload' \in [Threads -> Vaults]
         /\ generation' \in [Threads -> Nat]
         /\ keyed' \subseteq Threads /\ migrating' \subseteq Threads
<1>1. /\ kind' \in [Threads -> Kinds] /\ at' \in [Threads -> Steps]
      /\ \A u \in Threads :
           /\ at'[u] = "idle" <=> kind'[u] = "none"
           /\ kind'[u] \in KindsOf(u) \cup {"none"}
  BY DEF TypeOK, Ends, Kinds, Steps
<1>2. /\ found' \in [Threads -> Vaults] /\ payload' \in [Threads -> Vaults]
      /\ generation' \in [Threads -> Nat]
      /\ keyed' \subseteq Threads /\ migrating' \subseteq Threads
  BY DEF TypeOK, Ends, Vaults
<1> QED BY <1>1, <1>2

LEMMA PreparesType ==
  ASSUME TypeOK, NEW t \in Threads, NEW k, NEW vault \in Vaults, NEW next \in {"migrate", "check", "adopt"},
         Prepares(t, k, vault, next), deviceVault' \in Vaults, generation' \in [Threads -> Nat]
  PROVE  TypeOK'
<1>1. /\ kind' \in [Threads -> Kinds] /\ at' \in [Threads -> Steps]
      /\ \A u \in Threads :
           /\ at'[u] = "idle" <=> kind'[u] = "none"
           /\ kind'[u] \in KindsOf(u) \cup {"none"}
  BY GotoType DEF Prepares, Steps
<1> QED BY <1>1 DEF Prepares, TypeOK, session

LEMMA OperationType ==
  ASSUME TypeOK, Phases, NEW t \in Threads, Operation(t) PROVE TypeOK'
<1> USE VaultAssumption
<1>a. Fresh \subseteq Edits /\ None \in Vaults /\ \A v \in SUBSET Edits : v \in Vaults /\ v # None
  BY FreshEdits DEF Vaults
<1> DEFINE Typed == /\ kind' \in [Threads -> Kinds] /\ at' \in [Threads -> Steps]
                    /\ \A u \in Threads :
                         /\ at'[u] = "idle" <=> kind'[u] = "none"
                         /\ kind'[u] \in KindsOf(u) \cup {"none"}
<1>1. ASSUME NEW k \in Kinds, Begin(t, k) PROVE TypeOK'
  <2>1. Typed
    BY <1>1 DEF Begin, TypeOK, KindsOf, Editing, Opening, Steps
  <2> QED BY <1>1, <2>1 DEF Begin, TypeOK, storage, session
<1>2. CASE Look(t)
  <2>1. Typed BY <1>2, GotoType DEF Look, Steps
  <2> QED BY <1>2, <2>1 DEF Look, TypeOK, storage, session
<1>3. CASE Remove(t)
  <2>1. Typed BY <1>3, GotoType DEF Remove, Steps
  <2> QED BY <1>3, <2>1, <1>a DEF Remove, TypeOK, session, locals
<1>4. CASE Verify(t)
  <2>1. Typed BY <1>4, GotoType DEF Verify, Steps
  <2> QED BY <1>4, <2>1 DEF Verify, TypeOK, storage, session, locals
<1>5. CASE CleanupFails(t)
  BY <1>5, <1>a, EndsType DEF CleanupFails, LockVault, TypeOK, storage
<1>6. CASE GivesUp(t)
  BY <1>6, EndsType DEF GivesUp, TypeOK, storage, session
<1>7. CASE Ensure(t)
  <2>1. PICK vault \in SUBSET Edits : deviceVault' = vault /\ Prepares(t, "open", vault, "adopt")
    BY <1>7, <1>a DEF Ensure, TypeOK, Vaults
  <2> QED BY <1>7, <2>1, <1>a, PreparesType DEF Ensure, TypeOK
<1>8. CASE Initialize(t)
  <2>1. PICK e \in Fresh : Prepares(t, "initialize", {e}, "check")
    BY <1>8 DEF Initialize
  <2>2. {e} \in Vaults
    BY <1>a
  <2> QED BY <1>8, <2>1, <2>2, PreparesType DEF Initialize, TypeOK
<1>9. CASE Protect(t)
  <2>1. generation' \in [Threads -> Nat] /\ deviceVault' \in Vaults /\ deviceVault \in Vaults
    BY <1>9 DEF Protect, TypeOK
  <2> QED BY <1>9, <2>1, PreparesType DEF Protect
<1>10. CASE Edit(t)
  <2>1. PICK k \in Editing, e \in Fresh : Prepares(t, k, Base(t) \cup {e}, "check")
    BY <1>10 DEF Edit
  <2>2. Base(t) \cup {e} \in Vaults
    BY <1>10, <1>a DEF Edit, Base, TypeOK, Vaults
  <2>3. generation' \in [Threads -> Nat] /\ deviceVault' \in Vaults
    BY <1>10 DEF Edit, TypeOK
  <2> QED BY <2>1, <2>2, <2>3, PreparesType
<1>11. CASE Decrypt(t)
  <2>1. generation' \in [Threads -> Nat] /\ deviceVault' \in Vaults /\ found[t] \in Vaults
    BY <1>11 DEF Decrypt, TypeOK
  <2> QED BY <1>11, <2>1, PreparesType DEF Decrypt
<1>12. CASE Migrate(t)
  <2>1. Typed BY <1>12, GotoType DEF Migrate, Steps
  <2> QED BY <1>12, <2>1 DEF Migrate, TypeOK, session, locals
<1>13. CASE Check(t)
  <2>1. Typed BY <1>13, GotoType DEF Check, Steps
  <2> QED BY <1>13, <2>1 DEF Check, TypeOK, storage, session, locals
<1>14. CASE Write(t)
  <2>1. Typed BY <1>14, GotoType DEF Write, Steps
  <2>2. passwordVault' \in Vaults /\ oldFormat' \in BOOLEAN /\ deviceVault' \in Vaults
    BY <1>14 DEF Write, TypeOK
  <2>3. UNCHANGED <<session, revision, locals, crashes, overtaken, reported>>
    BY <1>14 DEF Write
  <2> QED BY <2>1, <2>2, <2>3 DEF TypeOK, session, locals
<1>15. CASE Adopt(t)
  <2>a. payload[t] \in Vaults /\ payload[t] # None
    BY <1>15 DEF Adopt, TypeOK, Phases, PhaseOf
  <2>b. payload[t] \subseteq Edits
    BY <2>a DEF Vaults
  <2>c. unlockedVault' = payload[t] /\ UNCHANGED <<storage, crashes, overtaken>>
    BY <1>15 DEF Adopt
  <2>d. deviceMode' = TRUE \/ deviceMode' = FALSE \/ deviceMode' = deviceMode
    BY <1>15 DEF Adopt
  <2>e. deviceMode' \in BOOLEAN
    BY <2>d DEF TypeOK
  <2>f. revision' \in Nat
    BY <1>15 DEF Adopt, TypeOK
  <2>1. /\ unlockedVault' \in Vaults /\ deviceMode' \in BOOLEAN /\ revision' \in Nat
        /\ UNCHANGED <<storage, crashes, overtaken>> /\ payload[t] \subseteq Edits
    BY <2>a, <2>b, <2>c, <2>e, <2>f
  <2>2. CASE kind[t] \in {"create", "import"}
    <3>1. Typed BY <1>15, <2>2, GotoType DEF Adopt, Steps
    <3> QED BY <1>15, <2>1, <2>2, <3>1 DEF Adopt, TypeOK, storage, locals
  <2>3. CASE kind[t] \notin {"create", "import"}
    <3>1. Ends(t) /\ reported' = reported \cup payload[t]
      BY <1>15, <2>3 DEF Adopt
    <3> QED BY <2>1, <3>1, EndsType DEF TypeOK, storage
  <2> QED BY <2>2, <2>3
<1>16. CASE Select(t)
  <2>1. payload[t] \subseteq Edits
    BY <1>16 DEF Select, TypeOK, Vaults, Phases, PhaseOf
  <2> QED BY <1>16, <2>1, EndsType DEF Select, TypeOK, storage, session
<1> QED BY <1>1, <1>2, <1>3, <1>4, <1>5, <1>6, <1>7, <1>8, <1>9, <1>10, <1>11, <1>12,
           <1>13, <1>14, <1>15, <1>16 DEF Operation

LEMMA TypeNext == TypeOK /\ Phases /\ [Next]_vars => TypeOK'
<1> SUFFICES ASSUME TypeOK, Phases, [Next]_vars PROVE TypeOK'
  OBVIOUS
<1> USE VaultAssumption
<1>1. ASSUME NEW t \in Threads, Operation(t) PROVE TypeOK'
  BY <1>1, OperationType
<1>2. CASE Lock
  BY <1>2 DEF Lock, LockVault, TypeOK, Vaults, storage, locals
<1>3. CASE ContextChanges
  BY <1>3 DEF ContextChanges, TypeOK, storage, session, locals
<1>4. CASE Crash
  <2>1. /\ kind' \in [Threads -> Kinds] /\ at' \in [Threads -> Steps]
        /\ \A u \in Threads :
             /\ at'[u] = "idle" <=> kind'[u] = "none"
             /\ kind'[u] \in KindsOf(u) \cup {"none"}
    BY <1>4 DEF Crash, Kinds, KindsOf, Steps
  <2>2. /\ found' \in [Threads -> Vaults] /\ payload' \in [Threads -> Vaults]
        /\ generation' \in [Threads -> Nat] /\ unlockedVault' \in Vaults
    BY <1>4 DEF Crash, Vaults
  <2>3. /\ keyed' = {} /\ migrating' = {} /\ overtaken' = {}
        /\ deviceMode' = FALSE /\ revision' = 0 /\ crashes' = crashes + 1
        /\ UNCHANGED <<storage, reported>>
    BY <1>4 DEF Crash
  <2>4. passwordVault' \in Vaults /\ oldFormat' \in BOOLEAN /\ deviceVault' \in Vaults
        /\ reported' \subseteq Edits
    BY <2>3 DEF TypeOK, storage
  <2>5. deviceMode' \in BOOLEAN
    BY <2>3
  <2>6. revision' \in Nat /\ crashes' \in Nat
    BY <2>3 DEF TypeOK
  <2> QED BY <2>1, <2>2, <2>3, <2>4, <2>5, <2>6 DEF TypeOK
<1>5. CASE UNCHANGED vars
  BY <1>5 DEF vars, storage, session, locals, TypeOK
<1> QED BY <1>1, <1>2, <1>3, <1>4, <1>5 DEF Next

\* What the last segment of a thread leaves to the others of its kind.
LEMMA OperationPhase ==
  ASSUME TypeOK, Phases, NEW t \in Threads, Operation(t) PROVE PhaseOf(t)'
<1> USE VaultAssumption DEF TypeOK, Phases, PhaseOf
<1>1. ASSUME NEW k \in Kinds, Begin(t, k) PROVE PhaseOf(t)' BY <1>1 DEF Begin
<1>2. CASE Look(t) BY <1>2 DEF Look, Goto
<1>3. CASE Remove(t) BY <1>3 DEF Remove, Goto, locals
<1>4. CASE Verify(t) BY <1>4 DEF Verify, Goto, locals
<1>5. CASE CleanupFails(t) BY <1>5 DEF CleanupFails, Ends
<1>6. CASE GivesUp(t) BY <1>6 DEF GivesUp, Ends
<1>7. CASE Ensure(t) BY <1>7, FreshEdits DEF Ensure, Prepares, Goto
<1>8. CASE Initialize(t) BY <1>8, FreshEdits DEF Initialize, Prepares, Goto
<1>9. CASE Protect(t) BY <1>9 DEF Protect, Prepares, Goto
<1>10. CASE Edit(t)
  <2>1. PICK k \in Editing, e \in Fresh : Prepares(t, k, Base(t) \cup {e}, "check")
    BY <1>10 DEF Edit
  <2>2. Base(t) \cup {e} \in SUBSET Edits
    BY <1>10, FreshEdits DEF Edit, Base, Vaults
  <2> QED BY <2>1, <2>2 DEF Prepares, Goto
<1>11. CASE Decrypt(t) BY <1>11 DEF Decrypt, Prepares, Goto
<1>12. CASE Migrate(t) BY <1>12 DEF Migrate, Goto, locals
<1>13. CASE Check(t) BY <1>13 DEF Check, Goto, locals
<1>14. CASE Write(t) BY <1>14 DEF Write, Goto, locals, Editing
<1>15. CASE Adopt(t) BY <1>15 DEF Adopt, Goto, Ends, locals
<1>16. CASE Select(t) BY <1>16 DEF Select, Ends
<1> QED BY <1>1, <1>2, <1>3, <1>4, <1>5, <1>6, <1>7, <1>8, <1>9, <1>10, <1>11, <1>12,
           <1>13, <1>14, <1>15, <1>16 DEF Operation

\* One thread's step leaves where another is and what it has found and holds.
LEMMA OthersUntouched ==
  ASSUME TypeOK, NEW t \in Threads, Operation(t), NEW u \in Threads, u # t
  PROVE  /\ at'[u] = at[u] /\ kind'[u] = kind[u] /\ found'[u] = found[u]
         /\ payload'[u] = payload[u] /\ (u \in keyed' <=> u \in keyed)
         /\ (u \in migrating' <=> u \in migrating) /\ generation'[u] = generation[u]
<1> USE DEF TypeOK, Goto, Ends, Prepares, locals
<1>1. ASSUME NEW k \in Kinds, Begin(t, k)
      PROVE  /\ at'[u] = at[u] /\ kind'[u] = kind[u] /\ found'[u] = found[u]
             /\ payload'[u] = payload[u] /\ (u \in keyed' <=> u \in keyed)
             /\ (u \in migrating' <=> u \in migrating) /\ generation'[u] = generation[u]
  BY <1>1 DEF Begin
<1>2. CASE Look(t) \/ Remove(t) \/ Verify(t) \/ CleanupFails(t) \/ GivesUp(t)
  BY <1>2 DEF Look, Remove, Verify, CleanupFails, GivesUp
<1>3. CASE Ensure(t) BY <1>3 DEF Ensure
<1>4. CASE Initialize(t) BY <1>4 DEF Initialize
<1>5. CASE Protect(t) BY <1>5 DEF Protect
<1>6. CASE Edit(t) BY <1>6 DEF Edit
<1>7. CASE Decrypt(t) BY <1>7 DEF Decrypt
<1>8. CASE Migrate(t) \/ Check(t) \/ Write(t) \/ Adopt(t) \/ Select(t)
  BY <1>8 DEF Migrate, Check, Write, Adopt, Select
<1> QED BY <1>1, <1>2, <1>3, <1>4, <1>5, <1>6, <1>7, <1>8 DEF Operation

LEMMA PhasesNext == TypeOK /\ Phases /\ [Next]_vars => Phases'
<1> SUFFICES ASSUME TypeOK, Phases, [Next]_vars PROVE Phases'
  OBVIOUS
<1>1. ASSUME NEW t \in Threads, Operation(t) PROVE Phases'
  <2>1. ASSUME NEW u \in Threads, u # t PROVE PhaseOf(u)'
    BY <1>1, <2>1, OthersUntouched DEF Phases, PhaseOf
  <2>2. PhaseOf(t)'
    BY <1>1, OperationPhase
  <2> QED BY <2>1, <2>2 DEF Phases
<1>2. ASSUME UNCHANGED <<kind, at, found, payload>> PROVE Phases'
  BY <1>2 DEF Phases, PhaseOf
<1>3. CASE Lock BY <1>2, <1>3 DEF Lock, locals
<1>4. CASE ContextChanges BY <1>2, <1>4 DEF ContextChanges, locals
<1>5. CASE Crash BY <1>5 DEF Crash, Phases, PhaseOf
<1>6. CASE UNCHANGED vars BY <1>2, <1>6 DEF vars, locals
<1> QED BY <1>1, <1>3, <1>4, <1>5, <1>6 DEF Next

LEMMA PhasesHold == Spec => [](TypeOK /\ Phases)
<1>1. Init => Phases
  BY DEF Init, Phases, PhaseOf
<1> QED BY <1>1, TypeInit, TypeNext, PhasesNext, PTL DEF Spec

\* Every state of the two vaults, the session and the operations is well typed
\* (the variables of background.ts 78-121 and what device-vault.ts stores).
THEOREM TypeCorrect == Spec => []TypeOK
BY PhasesHold, PTL

-----------------------------------------------------------------------------
(* Who may sign.                                                            *)

\* A cleanup, and a vault that was found, tell that there is a password vault; an
\* unlock goes on only when there is no other copy.
FoundIsProtected(t) ==
    /\ at[t] \in {"remove", "verify"} => passwordVault # None
    /\ at[t] = "read" /\ found[t] # None => passwordVault # None /\ deviceVault = None
    /\ kind[t] = "unlock" /\ at[t] \in {"migrate", "adopt"} =>
         passwordVault # None /\ deviceVault = None

\* The operation that runs alone is the only one to create a vault of either kind:
\* what it found missing is missing until it writes.
SerialKnows ==
    /\ at[Serial] = "read" /\ found[Serial] = None => passwordVault = None
    /\ at[Serial] # "idle" /\ Serial \notin keyed => kind[Serial] \in {"create", "rename"}
    /\ kind[Serial] \in {"create", "rename"} /\ Serial \in keyed => ~deviceMode
    /\ at[Serial] \in {"check", "write"} =>
         /\ Serial \notin keyed => passwordVault = None
         /\ kind[Serial] \in {"initialize", "protect"} => passwordVault = None /\ Serial \in keyed
         /\ kind[Serial] = "initialize" => deviceVault = None
         /\ kind[Serial] \in Editing /\ Serial \in keyed => passwordVault # None
    /\ at[Serial] = "adopt" /\ kind[Serial] \in {"initialize", "protect"} =>
         passwordVault # None /\ deviceVault = None

ProtectInv ==
    /\ \A t \in Threads : FoundIsProtected(t)
    /\ SerialKnows
    /\ SigningIsProtected

\* Which thread may do what.
LEMMA KindTells ==
  ASSUME TypeOK, NEW t \in Threads
  PROVE  /\ Serial \in Threads
         /\ kind[t] \in Editing \cup Opening => t = Serial
         /\ kind[t] = "unlock" => t \in Unlockers /\ t # Serial
         /\ kind[Serial] \in Editing \cup Opening \cup {"none"}
BY VaultAssumption DEF TypeOK, KindsOf, Editing, Opening, Serial, Threads

\* Steps that write neither vault nor session.
LEMMA OthersKeepProtectInv ==
  ASSUME TypeOK, Phases, ProtectInv, NEW t \in Threads, Operation(t),
         UNCHANGED <<passwordVault, deviceVault, session>> \/ unlockedVault' = None,
         UNCHANGED <<passwordVault, deviceVault>>, deviceMode' = deviceMode,
         FoundIsProtected(t)', t = Serial => SerialKnows'
  PROVE  ProtectInv'
<1> USE DEF ProtectInv, session
<1>1. \A u \in Threads : FoundIsProtected(u)'
  BY OthersUntouched DEF FoundIsProtected
<1>2. SerialKnows'
  <2>1. CASE t = Serial BY <2>1
  <2>2. CASE t # Serial
    BY <2>2, KindTells, OthersUntouched DEF SerialKnows
  <2> QED BY <2>1, <2>2
<1>3. SigningIsProtected'
  BY DEF SigningIsProtected
<1> QED BY <1>1, <1>2, <1>3

\* A step of an operation keeps it.
LEMMA OperationKeepsProtectInv ==
  ASSUME TypeOK, TypeOK', Phases, Phases', ProtectInv, NEW t \in Threads, Operation(t)
  PROVE  ProtectInv'
<1> USE VaultAssumption
<1> DEFINE Others == \A u \in Threads \ {t} :
                       /\ at'[u] = at[u] /\ kind'[u] = kind[u] /\ found'[u] = found[u]
                       /\ (u \in keyed' <=> u \in keyed)
           Knows == FoundIsProtected(t)' /\ (t = Serial => SerialKnows')
           Quiet == /\ UNCHANGED <<passwordVault, deviceVault>> /\ deviceMode' = deviceMode
                    /\ unlockedVault' = unlockedVault \/ unlockedVault' = None
<1>a. Others
  BY OthersUntouched
<1>b. ASSUME Quiet, Knows PROVE ProtectInv'
  BY <1>b, OthersKeepProtectInv DEF session
<1>k. /\ Serial \in Threads
      /\ kind[t] \in Editing \cup Opening => t = Serial
      /\ kind[t] = "unlock" => t # Serial
  BY KindTells
<1> USE DEF TypeOK, Phases, PhaseOf
<1>1. ASSUME NEW k \in Kinds, Begin(t, k) PROVE ProtectInv'
  <2>1. Quiet BY <1>1 DEF Begin, storage, session
  <2>2. Knows BY <1>1, <1>k DEF Begin, storage, session, ProtectInv, FoundIsProtected, SerialKnows, KindsOf, Editing, Opening, Serial
  <2> QED BY <2>1, <2>2, <1>b
<1>2. CASE Look(t)
  <2>1. Quiet BY <1>2 DEF Look, storage, session
  <2>2. Knows BY <1>2, <1>k DEF Look, Goto, storage, session, ProtectInv, FoundIsProtected, SerialKnows
  <2> QED BY <2>1, <2>2, <1>b
<1>3. CASE Remove(t)
  <2>1. /\ at[t] = "remove" /\ deviceVault' = None /\ at' = [at EXCEPT ![t] = "verify"]
        /\ UNCHANGED <<passwordVault, kind, found, keyed, deviceMode, unlockedVault>>
        /\ passwordVault # None
    BY <1>3 DEF Remove, Goto, session, locals, ProtectInv, FoundIsProtected
  <2>2. \A u \in Threads : FoundIsProtected(u)'
    BY <2>1 DEF ProtectInv, FoundIsProtected
  <2>3. SerialKnows'
    BY <2>1, <1>k DEF ProtectInv, SerialKnows
  <2>4. SigningIsProtected'
    BY <2>1 DEF ProtectInv, SigningIsProtected
  <2> QED BY <2>2, <2>3, <2>4 DEF ProtectInv
<1>4. CASE Verify(t)
  <2>1. Quiet BY <1>4 DEF Verify, storage, session
  <2>2. Knows BY <1>4, <1>k DEF Verify, Goto, storage, session, locals, ProtectInv, FoundIsProtected, SerialKnows
  <2> QED BY <2>1, <2>2, <1>b
<1>5. CASE CleanupFails(t)
  <2>1. Quiet BY <1>5 DEF CleanupFails, LockVault, storage
  <2>2. Knows BY <1>5, <1>k DEF CleanupFails, LockVault, Ends, storage, FoundIsProtected, SerialKnows
  <2> QED BY <2>1, <2>2, <1>b
<1>6. CASE GivesUp(t)
  <2>1. Quiet BY <1>6 DEF GivesUp, storage, session
  <2>2. Knows BY <1>6, <1>k DEF GivesUp, Ends, FoundIsProtected, SerialKnows
  <2> QED BY <2>1, <2>2, <1>b
<1>7. CASE Ensure(t)
  <2>1. /\ kind[t] = "open" /\ at[t] = "read" /\ at' = [at EXCEPT ![t] = "adopt"] /\ found[t] = None
        /\ UNCHANGED <<passwordVault, kind, found, keyed, deviceMode, unlockedVault>>
    BY <1>7 DEF Ensure, Prepares, Goto, session
  <2>2. t = Serial /\ passwordVault = None
    BY <2>1, <1>k DEF ProtectInv, SerialKnows, Opening
  <2>3. \A u \in Threads : FoundIsProtected(u)'
    BY <2>1, <2>2 DEF ProtectInv, FoundIsProtected
  <2>4. SerialKnows'
    BY <2>1, <2>2 DEF ProtectInv, SerialKnows
  <2>5. SigningIsProtected'
    BY <2>1, <2>2 DEF ProtectInv, SigningIsProtected
  <2> QED BY <2>3, <2>4, <2>5 DEF ProtectInv
<1>8. CASE Initialize(t)
  <2>1. Quiet BY <1>8 DEF Initialize, Prepares, session
  <2>2. Knows BY <1>8, <1>k DEF Initialize, Prepares, Goto, ProtectInv, FoundIsProtected, SerialKnows, Opening, Editing
  <2> QED BY <2>1, <2>2, <1>b
<1>9. CASE Protect(t)
  <2>1. Quiet BY <1>9 DEF Protect, Prepares, session
  <2>2. Knows BY <1>9, <1>k DEF Protect, Prepares, Goto, ProtectInv, FoundIsProtected, SerialKnows, Opening, Editing
  <2> QED BY <2>1, <2>2, <1>b
<1>10. CASE Edit(t)
  <2>1. PICK k \in Editing, e \in Fresh : Prepares(t, k, Base(t) \cup {e}, "check")
    BY <1>10 DEF Edit
  <2>2. Quiet BY <1>10, <2>1 DEF Edit, Prepares, session
  <2>3. /\ t = Serial /\ at[t] = "read" /\ kind[t] \in Editing /\ at' = [at EXCEPT ![t] = "check"]
        /\ UNCHANGED <<kind, keyed, found, passwordVault, deviceVault, deviceMode>>
    BY <1>10, <2>1, <1>k DEF Edit, Prepares, Goto, session
  <2>4. t \notin keyed => passwordVault = None
    BY <1>10, <2>3 DEF Edit, Base, ProtectInv, FoundIsProtected, SerialKnows
  <2>5. t \in keyed => passwordVault # None
    BY <1>10, <2>3 DEF Edit, Base, ProtectInv, FoundIsProtected, SerialKnows, Editing
  <2>6. Knows
    BY <2>3, <2>4, <2>5 DEF ProtectInv, FoundIsProtected, SerialKnows, Editing
  <2> QED BY <2>2, <2>6, <1>b
<1>11. CASE Decrypt(t)
  <2>1. Quiet BY <1>11 DEF Decrypt, Prepares, session
  <2>2. Knows BY <1>11, <1>k DEF Decrypt, Prepares, Goto, ProtectInv, FoundIsProtected
  <2> QED BY <2>1, <2>2, <1>b
<1>12. CASE Migrate(t)
  <2>1. /\ at[t] = "migrate" /\ kind[t] = "unlock" /\ at' = [at EXCEPT ![t] = "adopt"]
        /\ passwordVault' = payload[t] /\ payload[t] # None
        /\ UNCHANGED <<deviceVault, kind, found, keyed, deviceMode, unlockedVault>>
    BY <1>12 DEF Migrate, Goto, session, locals
  <2>2. passwordVault # None /\ deviceVault = None /\ t # Serial
    BY <2>1, <1>k DEF ProtectInv, FoundIsProtected
  <2>3. \A u \in Threads : FoundIsProtected(u)'
    BY <2>1, <2>2 DEF ProtectInv, FoundIsProtected
  <2>4. SerialKnows'
    BY <2>1, <2>2, <1>k DEF ProtectInv, SerialKnows
  <2>5. SigningIsProtected'
    BY <2>1, <2>2 DEF SigningIsProtected
  <2> QED BY <2>3, <2>4, <2>5 DEF ProtectInv
<1>13. CASE Check(t)
  <2>1. Quiet BY <1>13 DEF Check, storage, session
  <2>2. Knows BY <1>13, <1>k DEF Check, Goto, storage, session, locals, ProtectInv, FoundIsProtected, SerialKnows
  <2> QED BY <2>1, <2>2, <1>b
<1>14. CASE Write(t)
  <2>1. /\ at[t] = "write" /\ kind[t] \in Editing \cup {"initialize", "protect"} /\ payload[t] # None
        /\ at' = [at EXCEPT ![t] = IF kind[t] = "protect" THEN "remove" ELSE "adopt"]
        /\ UNCHANGED <<kind, found, keyed, deviceMode, unlockedVault>>
    BY <1>14 DEF Write, Goto, session, locals
  <2>2. t = Serial
    BY <2>1, <1>k DEF Opening
  <2>3. CASE t \in keyed
    <3>1. passwordVault' = payload[t] /\ deviceVault' = deviceVault
      BY <1>14, <2>3 DEF Write
    <3>2. \A u \in Threads : FoundIsProtected(u)'
      BY <2>1, <2>2, <3>1, <1>a DEF ProtectInv, FoundIsProtected, Editing
    <3>3. SerialKnows'
      BY <2>1, <2>2, <2>3, <3>1 DEF ProtectInv, SerialKnows, Editing
    <3>4. SigningIsProtected'
      BY <2>1, <3>1 DEF ProtectInv, SigningIsProtected
    <3> QED BY <3>2, <3>3, <3>4 DEF ProtectInv
  <2>4. CASE t \notin keyed
    <3>1. deviceVault' = payload[t] /\ passwordVault' = passwordVault /\ passwordVault = None
      BY <1>14, <2>1, <2>2, <2>4 DEF Write, ProtectInv, SerialKnows
    <3>2. \A u \in Threads : FoundIsProtected(u)'
      BY <2>1, <2>2, <2>4, <3>1, <1>a DEF ProtectInv, FoundIsProtected, SerialKnows, Editing
    <3>3. SerialKnows'
      BY <2>1, <2>2, <2>4, <3>1 DEF ProtectInv, SerialKnows, Editing
    <3>4. SigningIsProtected'
      BY <2>1, <3>1 DEF ProtectInv, SigningIsProtected
    <3> QED BY <3>2, <3>3, <3>4 DEF ProtectInv
  <2> QED BY <2>3, <2>4
<1>15. CASE Adopt(t)
  <2>1. /\ at[t] = "adopt" /\ kind[t] # "status" /\ at'[t] \in {"select", "idle"}
        /\ UNCHANGED <<passwordVault, deviceVault>>
        /\ kind[t] \in Editing => unlockedVault # None
        /\ kind[t] = "open" => deviceMode' = TRUE
        /\ kind[t] \in {"unlock", "protect"} => deviceMode' = FALSE
        /\ kind[t] \in Editing \cup {"initialize"} => deviceMode' = deviceMode
    BY <1>15 DEF Adopt, Current, Goto, Ends, storage, Editing
  <2>2. kind[t] \in Editing \cup Opening \cup {"unlock"}
    BY <2>1 DEF KindsOf, Kinds
  <2>3. FoundIsProtected(t)'
    BY <2>1 DEF FoundIsProtected
  <2>4. \A u \in Threads : FoundIsProtected(u)'
    BY <2>1, <2>3, <1>a DEF ProtectInv, FoundIsProtected
  <2>5. SigningIsProtected'
    BY <2>1, <2>2, <1>k DEF ProtectInv, SigningIsProtected, FoundIsProtected, SerialKnows, Editing, Opening
  <2>6. SerialKnows'
    <3>1. CASE t # Serial
      <4>1. deviceMode' = FALSE
        BY <2>1, <2>2, <3>1, <1>k
      <4> QED BY <2>1, <3>1, <4>1, <1>a, <1>k DEF ProtectInv, SerialKnows
    <3>2. CASE t = Serial
      <4>1. CASE kind[t] \in {"create", "import"}
        BY <1>15, <2>1, <3>2, <4>1 DEF Adopt, Goto, locals, ProtectInv, SerialKnows, Editing
      <4>2. CASE kind[t] \notin {"create", "import"}
        BY <1>15, <2>1, <3>2, <4>2 DEF Adopt, Ends, SerialKnows
      <4> QED BY <4>1, <4>2
    <3> QED BY <3>1, <3>2
  <2> QED BY <2>4, <2>5, <2>6 DEF ProtectInv
<1>16. CASE Select(t)
  <2>1. Quiet BY <1>16 DEF Select, storage, session
  <2>2. Knows BY <1>16, <1>k DEF Select, Ends, FoundIsProtected, SerialKnows
  <2> QED BY <2>1, <2>2, <1>b
<1> QED BY <1>1, <1>2, <1>3, <1>4, <1>5, <1>6, <1>7, <1>8, <1>9, <1>10, <1>11, <1>12,
           <1>13, <1>14, <1>15, <1>16 DEF Operation

LEMMA ProtectInvNext ==
  TypeOK /\ Phases /\ TypeOK' /\ Phases' /\ ProtectInv /\ [Next]_vars => ProtectInv'
<1> SUFFICES ASSUME TypeOK, Phases, TypeOK', Phases', ProtectInv, [Next]_vars PROVE ProtectInv'
  OBVIOUS
<1> USE DEF ProtectInv, FoundIsProtected, SerialKnows, SigningIsProtected
<1>1. ASSUME NEW t \in Threads, Operation(t) PROVE ProtectInv'
  BY <1>1, OperationKeepsProtectInv
<1>2. CASE Lock BY <1>2 DEF Lock, LockVault, storage, locals
<1>3. CASE ContextChanges BY <1>3 DEF ContextChanges, storage, session, locals
<1>4. CASE Crash
  <2>1. /\ \A t \in Threads : at'[t] \in {"idle", "look"}
        /\ at'[Serial] = "idle" /\ kind'[Serial] = "none" /\ unlockedVault' = None
    BY <1>4, VaultAssumption DEF Crash, Serial, Threads
  <2> QED BY <2>1
<1>5. CASE UNCHANGED vars BY <1>5 DEF vars, storage, session, locals
<1> QED BY <1>1, <1>2, <1>3, <1>4, <1>5 DEF Next

LEMMA ProtectInvHolds == Spec => []ProtectInv
<1>1. Init => ProtectInv
  BY VaultAssumption DEF Init, ProtectInv, FoundIsProtected, SerialKnows, SigningIsProtected, Threads, Serial
<1> QED BY <1>1, PhasesHold, ProtectInvNext, PTL DEF Spec

\* A session that can sign is under a password, and no unprotected copy of its
\* wallets is left, whatever creates, protects, locks, unlocks and dies in between
\* (background.ts 1239-1290, device-vault.ts).
THEOREM SessionsAreProtected == Spec => []SigningIsProtected
BY ProtectInvHolds, PTL DEF ProtectInv

-----------------------------------------------------------------------------
(* No wallet is lost.                                                       *)

\* At most one window unlocks while there is a vault of the old format.
OneWindow == Legacy => \A t, u \in Unlockers : t = u

\* The vault that counts: the password vault, once there is one.
Kept == IF passwordVault = None THEN Content(deviceVault) ELSE passwordVault

\* The thread has its vault in the store and goes on with it.
Stores(t) == at[t] \in {"adopt", "select"} \/ (at[t] \in {"remove", "verify"} /\ payload[t] # None)

\* What a thread found is still there, and with it what it is going to open.
FoundIsKept(t) ==
    /\ found[t] # None => passwordVault # None /\ found[t] \subseteq passwordVault
    /\ found[t] # None /\ oldFormat => found[t] = passwordVault
    /\ kind[t] = "unlock" /\ at[t] \in {"migrate", "adopt"} => payload[t] = found[t]
    /\ Stores(t) => payload[t] \subseteq Kept /\ ~oldFormat

\* A window that migrates writes what is there.
MigrationIsCurrent(t) ==
    /\ t \in migrating => Legacy
    /\ at[t] \in {"remove", "verify", "read", "migrate"} => (t \in migrating => oldFormat)
    /\ at[t] \in {"remove", "verify", "read"} /\ found[t] # None /\ t \notin migrating => ~oldFormat
    /\ at[t] = "migrate" => t \in migrating

\* The operation that runs alone writes no less than there is.
SerialIsCurrent ==
    /\ kind[Serial] \in Editing => ~oldFormat
    /\ at[Serial] \in {"remove", "verify", "read"} /\ payload[Serial] = None /\ found[Serial] # None =>
         found[Serial] = passwordVault
    /\ at[Serial] \in {"check", "write"} => Kept \subseteq payload[Serial]

KeptInv ==
    /\ Content(unlockedVault) \cup reported \subseteq Kept
    /\ oldFormat => Legacy /\ passwordVault # None /\ unlockedVault = None
    /\ \A t \in Threads : FoundIsKept(t)
    /\ \A t \in Unlockers : MigrationIsCurrent(t)
    /\ SerialIsCurrent

\* A step of an operation leaves what counts in place, or adds to it.
LEMMA KeptGrows ==
  ASSUME OneWindow, TypeOK, TypeOK', Phases, ProtectInv, KeptInv, NEW t \in Threads, Operation(t)
  PROVE  /\ Kept \subseteq Kept'
         /\ passwordVault # None => passwordVault' # None
         /\ oldFormat' => oldFormat /\ passwordVault' = passwordVault
<1> USE VaultAssumption DEF TypeOK, Phases, PhaseOf
<1>k. /\ Serial \in Threads
      /\ kind[t] \in Editing \cup Opening => t = Serial
      /\ kind[t] = "unlock" => t \in Unlockers
  BY KindTells
<1> DEFINE Grows == /\ Kept \subseteq Kept'
                    /\ passwordVault # None => passwordVault' # None
                    /\ oldFormat' => oldFormat /\ passwordVault' = passwordVault
<1>a. ASSUME UNCHANGED storage PROVE Grows
  BY <1>a DEF storage, Kept, Content
<1>1. CASE (\E k \in Kinds : Begin(t, k)) \/ Look(t) \/ Verify(t) \/ CleanupFails(t)
           \/ GivesUp(t) \/ Check(t) \/ Adopt(t) \/ Select(t)
  <2>1. UNCHANGED storage
    BY <1>1 DEF Begin, Look, Verify, CleanupFails, GivesUp, Check, Adopt, Select
  <2> QED BY <2>1, <1>a
<1>2. CASE Initialize(t) \/ Protect(t) \/ Edit(t) \/ Decrypt(t)
  <2>1. UNCHANGED storage
    BY <1>2 DEF Initialize, Protect, Edit, Decrypt, Prepares, storage
  <2> QED BY <2>1, <1>a
<1>3. CASE Remove(t)
  BY <1>3 DEF Remove, ProtectInv, FoundIsProtected, Kept
<1>4. CASE Ensure(t)
  <2>1. kind[t] = "open" /\ at[t] = "read" /\ found[t] = None /\ UNCHANGED <<passwordVault, oldFormat>>
    BY <1>4 DEF Ensure, Prepares
  <2>2. passwordVault = None
    BY <2>1, <1>k DEF ProtectInv, SerialKnows, Opening
  <2>3. deviceVault # None => deviceVault' = deviceVault
    BY <1>4 DEF Ensure
  <2> QED BY <2>1, <2>2, <2>3 DEF Kept, Content
<1>5. CASE Migrate(t)
  <2>1. at[t] = "migrate" /\ kind[t] = "unlock" /\ passwordVault' = payload[t] /\ payload[t] # None
        /\ oldFormat' = FALSE
    BY <1>5 DEF Migrate
  <2>2. t \in migrating /\ oldFormat /\ passwordVault # None
    BY <2>1, <1>k DEF KeptInv, MigrationIsCurrent
  <2>3. payload[t] = passwordVault
    BY <2>1, <2>2 DEF KeptInv, FoundIsKept
  <2> QED BY <2>1, <2>3, <2>2 DEF Kept
<1>6. CASE Write(t)
  <2>1. t = Serial /\ at[Serial] = "write" /\ payload[t] # None
    BY <1>6, <1>k DEF Write, Opening
  <2>2. Kept \subseteq payload[t]
    BY <2>1 DEF KeptInv, SerialIsCurrent
  <2>3. CASE t \in keyed
    <3>1. passwordVault' = payload[t] /\ oldFormat' = FALSE
      BY <1>6, <2>3 DEF Write
    <3> QED BY <2>1, <2>2, <3>1 DEF Kept
  <2>4. CASE t \notin keyed
    <3>1. deviceVault' = payload[t] /\ UNCHANGED <<passwordVault, oldFormat>> /\ passwordVault = None
      BY <1>6, <2>1, <2>4 DEF Write, ProtectInv, SerialKnows
    <3> QED BY <2>1, <2>2, <3>1 DEF Kept, Content
  <2> QED BY <2>3, <2>4
<1> QED BY <1>1, <1>2, <1>3, <1>4, <1>5, <1>6 DEF Operation

\* What the others found and are going to open is still there.
LEMMA OthersAreKept ==
  ASSUME OneWindow, TypeOK, TypeOK', Phases, ProtectInv, KeptInv, NEW t \in Threads, Operation(t),
         NEW u \in Threads, u # t
  PROVE  FoundIsKept(u)'
<1>1. /\ at'[u] = at[u] /\ kind'[u] = kind[u] /\ found'[u] = found[u] /\ payload'[u] = payload[u]
  BY OthersUntouched
<1>2. /\ Kept \subseteq Kept'
      /\ passwordVault # None => passwordVault' # None
      /\ oldFormat' => oldFormat /\ passwordVault' = passwordVault
  BY KeptGrows
<1>3. FoundIsKept(u)
  BY DEF KeptInv
<1>4. found[u] # None => passwordVault' # None /\ found[u] \subseteq passwordVault'
  BY <1>2, <1>3 DEF FoundIsKept, Kept
<1>5. found[u] # None /\ oldFormat' => found[u] = passwordVault'
  BY <1>2, <1>3 DEF FoundIsKept
<1>6. Stores(u) => payload[u] \subseteq Kept' /\ ~oldFormat'
  BY <1>2, <1>3 DEF FoundIsKept
<1> QED BY <1>1, <1>3, <1>4, <1>5, <1>6 DEF FoundIsKept, Stores

\* A window that is about to migrate is the only one, and nothing else gives the
\* vault a new format meanwhile.
LEMMA OthersMigrate ==
  ASSUME OneWindow, TypeOK, Phases, ProtectInv, KeptInv, NEW t \in Threads, Operation(t),
         NEW u \in Unlockers, u # t
  PROVE  MigrationIsCurrent(u)'
<1> USE VaultAssumption
<1>1. /\ at'[u] = at[u] /\ found'[u] = found[u] /\ (u \in migrating' <=> u \in migrating)
  BY OthersUntouched DEF Threads
<1>2. MigrationIsCurrent(u)
  BY DEF KeptInv
<1>3. oldFormat' => oldFormat
  BY DEF Operation, Begin, Look, Remove, Verify, CleanupFails, GivesUp, Ensure, Initialize, Protect,
         Edit, Decrypt, Migrate, Check, Write, Adopt, Select, Prepares, storage
<1>4. CASE oldFormat => oldFormat'
  BY <1>1, <1>2, <1>3, <1>4 DEF MigrationIsCurrent
<1>5. CASE oldFormat /\ ~oldFormat'
  <2>1. Migrate(t) \/ (Write(t) /\ t \in keyed)
    BY <1>5 DEF Operation, Begin, Look, Remove, Verify, CleanupFails, GivesUp, Ensure, Initialize,
         Protect, Edit, Decrypt, Migrate, Check, Write, Adopt, Select, Prepares, storage
  <2>2. CASE Migrate(t)
    <3>1. at[t] = "migrate" /\ kind[t] = "unlock"
      BY <2>2 DEF Migrate, Phases, PhaseOf
    <3>2. t \in Unlockers
      BY <3>1, KindTells
    <3>3. Legacy
      BY <1>5 DEF KeptInv
    <3> QED BY <3>2, <3>3 DEF OneWindow
  <2>3. CASE Write(t) /\ t \in keyed
    <3>1. at[t] = "write" /\ kind[t] \in Editing \cup {"initialize", "protect"}
      BY <2>3 DEF Write, Phases, PhaseOf
    <3>2. t = Serial
      BY <3>1, KindTells DEF Opening
    <3>3. kind[t] \notin Editing
      BY <3>2, <1>5 DEF KeptInv, SerialIsCurrent
    <3>4. passwordVault = None
      BY <3>1, <3>2, <3>3 DEF ProtectInv, SerialKnows
    <3> QED BY <3>4, <1>5 DEF KeptInv
  <2> QED BY <2>1, <2>2, <2>3
<1> QED BY <1>3, <1>4, <1>5

\* The thread that takes the step.
LEMMA OwnIsKept ==
  ASSUME OneWindow, TypeOK, TypeOK', Phases, Phases', ProtectInv, ProtectInv', KeptInv,
         NEW t \in Threads, Operation(t)
  PROVE  /\ FoundIsKept(t)'
         /\ t \in Unlockers => MigrationIsCurrent(t)'
         /\ t = Serial => SerialIsCurrent'
<1> USE VaultAssumption
<1> DEFINE Goal == /\ FoundIsKept(t)'
                   /\ t \in Unlockers => MigrationIsCurrent(t)'
                   /\ t = Serial => SerialIsCurrent'
<1>k. /\ Serial \in Threads /\ Serial \notin Unlockers
      /\ kind[t] \in Editing \cup Opening => t = Serial
      /\ kind[t] = "unlock" => t \in Unlockers /\ t # Serial
  BY KindTells DEF Serial
<1>g. /\ Kept \subseteq Kept'
      /\ passwordVault # None => passwordVault' # None
      /\ oldFormat' => oldFormat /\ passwordVault' = passwordVault
  BY KeptGrows
<1>f. /\ FoundIsKept(t)
      /\ t \in Unlockers => MigrationIsCurrent(t)
      /\ SerialIsCurrent
      /\ oldFormat => Legacy /\ passwordVault # None /\ unlockedVault = None
  BY DEF KeptInv
<1> USE DEF TypeOK, Phases, PhaseOf
<1>e. ASSUME Ends(t) PROVE Goal
  <2>1. at'[t] = "idle" /\ kind'[t] = "none" /\ found'[t] = None /\ t \notin migrating'
    BY <1>e DEF Ends
  <2> QED BY <2>1 DEF FoundIsKept, MigrationIsCurrent, SerialIsCurrent, Stores, Editing
<1>1. ASSUME NEW k \in Kinds, Begin(t, k) PROVE Goal
  <2>1. /\ at'[t] = "look" /\ kind'[t] = k /\ found'[t] = None /\ UNCHANGED <<migrating, storage>>
        /\ k \in Editing => unlockedVault # None
    BY <1>1 DEF Begin
  <2> QED BY <2>1, <1>f DEF FoundIsKept, MigrationIsCurrent, SerialIsCurrent, Stores, storage
<1>2. CASE Look(t)
  <2>1. /\ at[t] = "look" /\ at'[t] \in {"read", "remove"} /\ kind' = kind /\ found'[t] = passwordVault
        /\ payload' = payload /\ payload[t] = None /\ UNCHANGED storage
        /\ t \in migrating' <=> oldFormat
    BY <1>2 DEF Look, Goto
  <2>2. FoundIsKept(t)'
    BY <2>1 DEF FoundIsKept, Stores, storage
  <2>3. MigrationIsCurrent(t)'
    BY <2>1, <1>f DEF MigrationIsCurrent, storage
  <2>4. t = Serial => SerialIsCurrent'
    BY <2>1, <1>f DEF SerialIsCurrent, storage
  <2> QED BY <2>2, <2>3, <2>4
<1>3. CASE Remove(t) \/ Verify(t)
  <2>1. /\ at[t] \in {"remove", "verify"} /\ UNCHANGED <<kind, found, payload, migrating, passwordVault, oldFormat>>
        /\ at'[t] \in {"verify", "read", "adopt"} /\ (payload[t] # None => at'[t] # "read")
        /\ (payload[t] = None => at'[t] # "adopt")
    BY <1>3 DEF Remove, Verify, Goto, locals, storage
  <2>2. FoundIsKept(t)'
    BY <2>1, <1>f, <1>g DEF FoundIsKept, Stores
  <2>3. t \in Unlockers => MigrationIsCurrent(t)'
    BY <2>1, <1>f DEF MigrationIsCurrent
  <2>4. t = Serial => SerialIsCurrent'
    BY <2>1, <1>f DEF SerialIsCurrent
  <2> QED BY <2>2, <2>3, <2>4
<1>5. CASE CleanupFails(t) BY <1>5, <1>e DEF CleanupFails
<1>6. CASE GivesUp(t) BY <1>6, <1>e DEF GivesUp
<1>7. CASE Ensure(t)
  <2>1. /\ at[t] = "read" /\ kind[t] = "open" /\ found[t] = None /\ at'[t] = "adopt"
        /\ UNCHANGED <<kind, found, migrating, passwordVault, oldFormat>>
        /\ payload'[t] = deviceVault' /\ deviceVault' # None
    BY <1>7, FreshEdits DEF Ensure, Prepares, Goto, Vaults
  <2>2. t = Serial /\ passwordVault = None
    BY <2>1, <1>k DEF Opening, ProtectInv, SerialKnows
  <2>3. FoundIsKept(t)'
    BY <2>1, <2>2, <1>f DEF FoundIsKept, Kept, Content
  <2>4. SerialIsCurrent'
    BY <2>1, <2>2 DEF SerialIsCurrent, Editing
  <2> QED BY <2>2, <2>3, <2>4, <1>k
<1>8. CASE Initialize(t) \/ Protect(t)
  <2>1. /\ at[t] = "read" /\ kind[t] \in {"initialize", "protect"} /\ found[t] = None /\ at'[t] = "check"
        /\ UNCHANGED <<kind, found, migrating, storage>>
        /\ Content(deviceVault) \subseteq payload'[t]
    BY <1>8 DEF Initialize, Protect, Prepares, Goto, storage, Content
  <2>2. t = Serial /\ passwordVault = None
    BY <2>1, <1>k DEF Opening, ProtectInv, SerialKnows
  <2>3. FoundIsKept(t)'
    BY <2>1 DEF FoundIsKept, Stores
  <2>4. SerialIsCurrent'
    BY <2>1, <2>2 DEF SerialIsCurrent, Editing, Kept, storage
  <2> QED BY <2>2, <2>3, <2>4, <1>k
<1>10. CASE Edit(t)
  <2>1. PICK k \in Editing, e \in Fresh : Prepares(t, k, Base(t) \cup {e}, "check")
    BY <1>10 DEF Edit
  <2>2. /\ at[t] = "read" /\ kind[t] \in Editing /\ at'[t] = "check"
        /\ UNCHANGED <<kind, found, migrating, storage>> /\ Base(t) # None
        /\ payload'[t] = Base(t) \cup {e}
    BY <1>10, <2>1 DEF Edit, Prepares, Goto, storage
  <2>3. t = Serial
    BY <2>2, <1>k
  <2>4. Kept \subseteq Base(t)
    <3>1. CASE t \in keyed
      <4>1. Base(t) = found[t]
        BY <3>1, <2>2, <2>3 DEF Base, ProtectInv, SerialKnows, Editing
      <4> QED BY <4>1, <2>2, <2>3, <1>f DEF SerialIsCurrent, FoundIsKept, Kept
    <3>2. CASE t \notin keyed
      <4>1. Base(t) = deviceVault /\ deviceVault # None
        BY <3>2, <2>2 DEF Base
      <4>2. passwordVault = None
        BY <4>1, <2>2, <2>3 DEF ProtectInv, SerialKnows, FoundIsProtected
      <4> QED BY <4>1, <4>2 DEF Kept, Content
    <3> QED BY <3>1, <3>2
  <2>5. FoundIsKept(t)'
    BY <2>2, <2>3, <1>f DEF FoundIsKept, Stores, storage, Editing
  <2>6. SerialIsCurrent'
    BY <2>2, <2>3, <2>4, <1>f DEF SerialIsCurrent, storage, Kept
  <2> QED BY <2>3, <2>5, <2>6, <1>k
<1>11. CASE Decrypt(t)
  <2>1. /\ at[t] = "read" /\ kind[t] = "unlock" /\ found[t] # None /\ payload'[t] = found[t]
        /\ at'[t] = IF t \in migrating THEN "migrate" ELSE "adopt"
        /\ UNCHANGED <<kind, found, migrating, storage>>
    BY <1>11 DEF Decrypt, Prepares, Goto, storage
  <2>2. t \in Unlockers
    BY <2>1, <1>k
  <2>3. MigrationIsCurrent(t)'
    BY <2>1, <2>2, <1>f DEF MigrationIsCurrent, storage
  <2>4. t \notin migrating => ~oldFormat
    BY <2>1, <2>2, <1>f DEF MigrationIsCurrent
  <2>5. FoundIsKept(t)'
    BY <2>1, <2>4, <1>f DEF FoundIsKept, Stores, storage, Kept
  <2> QED BY <2>2, <2>3, <2>5, <1>k
<1>12. CASE Migrate(t)
  <2>1. /\ at[t] = "migrate" /\ kind[t] = "unlock" /\ at'[t] = "adopt" /\ payload[t] # None
        /\ UNCHANGED <<kind, found, payload, migrating>>
        /\ passwordVault' = payload[t] /\ oldFormat' = FALSE
    BY <1>12 DEF Migrate, Goto, locals
  <2>2. t \in Unlockers /\ payload[t] = found[t]
    BY <2>1, <1>k, <1>f DEF FoundIsKept
  <2>3. MigrationIsCurrent(t)'
    BY <2>1, <2>2, <1>f DEF MigrationIsCurrent
  <2>4. FoundIsKept(t)'
    BY <2>1, <2>2, <1>f DEF FoundIsKept, Kept
  <2> QED BY <2>2, <2>3, <2>4, <1>k
<1>13. CASE Check(t)
  <2>1. /\ at[t] = "check" /\ at'[t] = "write" /\ UNCHANGED <<kind, found, payload, migrating, storage>>
    BY <1>13 DEF Check, Goto, locals
  <2>2. t = Serial
    BY <2>1, <1>k DEF Opening
  <2>3. FoundIsKept(t)'
    BY <2>1, <1>f DEF FoundIsKept, Stores, storage
  <2>4. SerialIsCurrent'
    BY <2>1, <2>2, <1>f DEF SerialIsCurrent, storage, Kept
  <2> QED BY <2>2, <2>3, <2>4, <1>k
<1>14. CASE Write(t)
  <2>1. /\ at[t] = "write" /\ at'[t] \in {"remove", "adopt"} /\ payload[t] # None
        /\ UNCHANGED <<kind, found, payload, migrating>>
    BY <1>14 DEF Write, Goto, locals
  <2>2. t = Serial
    BY <2>1, <1>k DEF Opening
  <2>3. Kept \subseteq payload[t] /\ Kept' = payload[t]
    <3>1. Kept \subseteq payload[t]
      BY <2>1, <2>2, <1>f DEF SerialIsCurrent
    <3>2. CASE t \in keyed
      BY <1>14, <3>1, <3>2, <2>1 DEF Write, Kept
    <3>3. CASE t \notin keyed
      BY <1>14, <3>1, <3>3, <2>1, <2>2 DEF Write, Kept, Content, ProtectInv, SerialKnows
    <3> QED BY <3>1, <3>2, <3>3
  <2>4. ~oldFormat'
    <3>1. CASE t \in keyed BY <1>14, <3>1 DEF Write
    <3>2. CASE t \notin keyed
      <4>1. passwordVault = None /\ oldFormat' = oldFormat
        BY <1>14, <2>1, <2>2, <3>2 DEF Write, ProtectInv, SerialKnows
      <4> QED BY <4>1, <1>f
    <3> QED BY <3>1, <3>2
  <2>5. FoundIsKept(t)'
    <3>1. found[t] # None => passwordVault' # None /\ found[t] \subseteq passwordVault'
      BY <1>f, <1>g DEF FoundIsKept, Kept
    <3> QED BY <3>1, <2>1, <2>2, <2>3, <2>4, <1>k DEF FoundIsKept
  <2>6. SerialIsCurrent'
    BY <2>1, <2>2, <2>4, <1>f DEF SerialIsCurrent
  <2> QED BY <2>2, <2>5, <2>6, <1>k
<1>15. CASE Adopt(t)
  <2>1. CASE kind[t] \in {"create", "import"}
    <3>1. /\ at[t] = "adopt" /\ at'[t] = "select" /\ UNCHANGED <<kind, found, payload, migrating, storage>>
      BY <1>15, <2>1 DEF Adopt, Goto, locals
    <3>2. t = Serial
      BY <2>1, <1>k DEF Editing
    <3>3. FoundIsKept(t)'
      BY <3>1, <1>f DEF FoundIsKept, Stores, storage, Kept
    <3>4. SerialIsCurrent'
      BY <3>1, <3>2, <1>f DEF SerialIsCurrent, storage
    <3> QED BY <3>2, <3>3, <3>4, <1>k
  <2>2. CASE kind[t] \notin {"create", "import"}
    BY <1>15, <2>2, <1>e DEF Adopt
  <2> QED BY <2>1, <2>2
<1>16. CASE Select(t) BY <1>16, <1>e DEF Select
<1> QED BY <1>1, <1>2, <1>3, <1>5, <1>6, <1>7, <1>8, <1>10, <1>11, <1>12,
           <1>13, <1>14, <1>15, <1>16 DEF Operation

LEMMA OperationKeepsKeptInv ==
  ASSUME OneWindow, TypeOK, TypeOK', Phases, Phases', ProtectInv, ProtectInv', KeptInv,
         NEW t \in Threads, Operation(t)
  PROVE  KeptInv'
<1> USE VaultAssumption
<1>1. \A u \in Threads : FoundIsKept(u)'
  BY OthersAreKept, OwnIsKept
<1>2. \A u \in Unlockers : MigrationIsCurrent(u)'
  BY OthersMigrate, OwnIsKept
<1>g. /\ Kept \subseteq Kept'
      /\ passwordVault # None => passwordVault' # None
      /\ oldFormat' => oldFormat /\ passwordVault' = passwordVault
  BY KeptGrows
<1>f. /\ Content(unlockedVault) \cup reported \subseteq Kept
      /\ oldFormat => Legacy /\ passwordVault # None /\ unlockedVault = None
      /\ FoundIsKept(t) /\ SerialIsCurrent
  BY DEF KeptInv
<1>3. SerialIsCurrent'
  <2>1. CASE t = Serial BY <2>1, OwnIsKept
  <2>2. CASE t # Serial
    <3>1. /\ at'[Serial] = at[Serial] /\ kind'[Serial] = kind[Serial] /\ found'[Serial] = found[Serial]
          /\ payload'[Serial] = payload[Serial]
      BY <2>2, OthersUntouched, KindTells
    <3>2. passwordVault' = passwordVault \/ (Migrate(t) /\ passwordVault' = payload[t])
      <4>1. Write(t) => t = Serial
        BY KindTells DEF Write, Phases, PhaseOf, Opening
      <4> QED BY <2>2, <4>1 DEF Operation, Begin, Look, Remove, Verify, CleanupFails, GivesUp, Ensure,
             Initialize, Protect, Edit, Decrypt, Migrate, Check, Adopt, Select, Prepares, storage
    <3>3. passwordVault' = passwordVault
      <4>1. ASSUME Migrate(t) PROVE payload[t] = passwordVault
        <5>1. at[t] = "migrate" /\ kind[t] = "unlock" /\ payload[t] # None
          BY <4>1 DEF Migrate, Phases, PhaseOf
        <5>2. t \in Unlockers
          BY <5>1, KindTells
        <5>3. oldFormat
          BY <5>1, <5>2 DEF KeptInv, MigrationIsCurrent
        <5> QED BY <5>1, <5>3, <1>f DEF FoundIsKept
      <4> QED BY <3>2, <4>1
    <3>4. deviceVault' = deviceVault \/ passwordVault # None
      <4>1. Write(t) => t = Serial
        BY KindTells DEF Write, Phases, PhaseOf, Opening
      <4>2. Ensure(t) => t = Serial
        BY KindTells DEF Ensure, Prepares, Opening
      <4>3. Remove(t) => passwordVault # None
        BY DEF Remove, ProtectInv, FoundIsProtected
      <4> QED BY <2>2, <4>1, <4>2, <4>3 DEF Operation, Begin, Look, Verify, CleanupFails, GivesUp,
             Initialize, Protect, Edit, Decrypt, Migrate, Check, Adopt, Select, Prepares, storage
    <3>5. Kept' = Kept
      BY <3>3, <3>4 DEF Kept
    <3> QED BY <3>1, <3>3, <3>5, <1>f, <1>g DEF SerialIsCurrent
  <2> QED BY <2>1, <2>2
<1>4. Content(unlockedVault)' \cup reported' \subseteq Kept' /\ (oldFormat' => unlockedVault' = None)
  <2>1. CASE UNCHANGED <<unlockedVault, reported>>
    BY <2>1, <1>f, <1>g DEF Content
  <2>2. CASE unlockedVault' = None /\ reported' = reported
    BY <2>2, <1>f, <1>g DEF Content
  <2>3. CASE Adopt(t)
    <3>1. at[t] = "adopt" /\ unlockedVault' = payload[t] /\ reported' \in {reported, reported \cup payload[t]}
      BY <2>3 DEF Adopt
    <3>2. payload[t] \subseteq Kept /\ ~oldFormat
      BY <3>1, <1>f DEF FoundIsKept, Stores
    <3>3. payload[t] # None
      BY <3>1 DEF Phases, PhaseOf
    <3> QED BY <3>1, <3>2, <3>3, <1>f, <1>g DEF Content
  <2>4. CASE Select(t)
    <3>1. at[t] = "select" /\ unlockedVault' = unlockedVault /\ reported' = reported \cup payload[t]
      BY <2>4 DEF Select, session
    <3>2. payload[t] \subseteq Kept
      BY <3>1, <1>f DEF FoundIsKept, Stores
    <3> QED BY <3>1, <3>2, <1>f, <1>g DEF Content
  <2> QED BY <2>1, <2>2, <2>3, <2>4 DEF Operation, Begin, Look, Remove, Verify, CleanupFails, LockVault,
         GivesUp, Ensure, Initialize, Protect, Edit, Decrypt, Migrate, Check, Write, Prepares, session
<1>5. oldFormat' => Legacy /\ passwordVault' # None
  BY <1>f, <1>g
<1> QED BY <1>1, <1>2, <1>3, <1>4, <1>5 DEF KeptInv, Content

LEMMA KeptInvNext ==
  ASSUME OneWindow, TypeOK, TypeOK', Phases, Phases', ProtectInv, ProtectInv', KeptInv, [Next]_vars
  PROVE  KeptInv'
<1> USE VaultAssumption
<1>1. ASSUME NEW t \in Threads, Operation(t) PROVE KeptInv'
  BY <1>1, OperationKeepsKeptInv
<1>2. ASSUME UNCHANGED <<storage, kind, at, found, payload, migrating, reported>>,
             unlockedVault' = unlockedVault \/ unlockedVault' = None
      PROVE  KeptInv'
  BY <1>2 DEF KeptInv, FoundIsKept, MigrationIsCurrent, SerialIsCurrent, Stores, Kept, Content, storage
<1>3. CASE Lock BY <1>2, <1>3 DEF Lock, LockVault, locals
<1>4. CASE ContextChanges BY <1>2, <1>4 DEF ContextChanges, session, locals
<1>5. CASE Crash
  <2>1. /\ \A t \in Threads : at'[t] \in {"idle", "look"} /\ found'[t] = None
        /\ migrating' = {} /\ kind'[Serial] = "none" /\ unlockedVault' = None
        /\ UNCHANGED <<storage, reported>> /\ Serial \in Threads
    BY <1>5, KindTells DEF Crash, Serial, Threads
  <2>2. kind' = [t \in Threads |-> IF t = "status" THEN "status" ELSE "none"]
    BY <1>5 DEF Crash
  <2>3. \A t \in Threads : FoundIsKept(t)'
    BY <2>1, <2>2 DEF FoundIsKept, Stores
  <2>4. \A t \in Unlockers : MigrationIsCurrent(t)'
    BY <2>1 DEF MigrationIsCurrent, Threads
  <2>5. SerialIsCurrent'
    BY <2>1 DEF SerialIsCurrent, Editing
  <2> QED BY <2>1, <2>3, <2>4, <2>5 DEF KeptInv, Kept, Content, storage
<1>6. CASE UNCHANGED vars BY <1>2, <1>6 DEF vars, session, locals
<1> QED BY <1>1, <1>3, <1>4, <1>5, <1>6 DEF Next

LEMMA KeptInvHolds == ASSUME OneWindow PROVE Spec => []KeptInv
<1>1. Init => KeptInv
  <2> SUFFICES ASSUME Init PROVE KeptInv
    OBVIOUS
  <2>1. /\ Content(unlockedVault) \cup reported \subseteq Kept
        /\ oldFormat => Legacy /\ passwordVault # None /\ unlockedVault = None
    BY VaultAssumption DEF Init, Kept, Content
  <2>2. \A t \in Threads : FoundIsKept(t) /\ MigrationIsCurrent(t)
    BY DEF Init, FoundIsKept, MigrationIsCurrent, Stores
  <2>3. SerialIsCurrent
    BY VaultAssumption DEF Init, SerialIsCurrent, Editing, Threads, Serial
  <2> QED BY <2>1, <2>2, <2>3 DEF KeptInv, Threads
<1>2. TypeOK /\ TypeOK' /\ Phases /\ Phases' /\ ProtectInv /\ ProtectInv' /\ KeptInv /\ [Next]_vars => KeptInv'
  BY KeptInvNext
<1> QED BY <1>1, <1>2, PhasesHold, ProtectInvHolds, PTL DEF Spec

\* Every wallet the user was told of, or sees in the session, is in one of the two
\* stored vaults, whatever locks, protects, imports, cleans up and dies; a second
\* window that unlocks a vault of the old format is the one exception, and run
\* VaultMigration shows it (background.ts 1256, 1360-1378).
THEOREM NoWalletIsLost == ASSUME OneWindow PROVE Spec => []WalletsDurable
<1>1. KeptInv => WalletsDurable
  BY DEF KeptInv, WalletsDurable, Kept, Stored, Content
<1> QED BY <1>1, KeptInvHolds, PTL

-----------------------------------------------------------------------------
(* A lock stands.                                                           *)

\* Whatever a lock overtook, and opens a session without needing one, compares with
\* a revision that is over.
OvertakenIsStale ==
    \A t \in Threads :
        /\ generation[t] <= revision
        /\ t \in overtaken /\ kind[t] \in {"unlock", "open", "initialize"} => generation[t] < revision

LEMMA OvertakenNext == TypeOK /\ OvertakenIsStale /\ [Next]_vars => OvertakenIsStale'
<1> SUFFICES ASSUME TypeOK, OvertakenIsStale, [Next]_vars PROVE OvertakenIsStale'
  OBVIOUS
<1> USE VaultAssumption DEF TypeOK, OvertakenIsStale
<1>1. ASSUME NEW t \in Threads, Operation(t) PROVE OvertakenIsStale'
  <2>e. ASSUME Ends(t), revision' \in {revision, revision + 1}, UNCHANGED overtaken PROVE OvertakenIsStale'
    BY <2>e DEF Ends
  <2>g. ASSUME UNCHANGED <<kind, generation, overtaken>>, revision' \in {revision, revision + 1}
        PROVE  OvertakenIsStale'
    BY <2>g
  <2>1. ASSUME NEW k \in Kinds, Begin(t, k) PROVE OvertakenIsStale' BY <2>1 DEF Begin
  <2>2. CASE Look(t) \/ Remove(t) \/ Verify(t) \/ Migrate(t) \/ Check(t) \/ Write(t)
    BY <2>2, <2>g DEF Look, Remove, Verify, Migrate, Check, Write, Goto, locals
  <2>3. CASE CleanupFails(t) BY <2>3 DEF CleanupFails, LockVault, Ends
  <2>4. CASE GivesUp(t) BY <2>4, <2>e DEF GivesUp
  <2>5. CASE Ensure(t) \/ Initialize(t) \/ Decrypt(t)
    BY <2>5, <2>g DEF Ensure, Initialize, Decrypt, Prepares, Goto
  <2>6. CASE Protect(t) BY <2>6 DEF Protect, Prepares, Goto
  <2>7. CASE Edit(t) BY <2>7 DEF Edit, Prepares, Goto, Editing
  <2>8. CASE Adopt(t)
    <3>1. revision' \in {revision, revision + 1} /\ overtaken' = overtaken
      BY <2>8 DEF Adopt
    <3>2. Ends(t) \/ (UNCHANGED <<kind, generation>>)
      BY <2>8 DEF Adopt, Goto, locals
    <3> QED BY <3>1, <3>2, <2>e, <2>g
  <2>9. CASE Select(t) BY <2>9, <2>e DEF Select
  <2> QED BY <1>1, <2>1, <2>2, <2>3, <2>4, <2>5, <2>6, <2>7, <2>8, <2>9 DEF Operation
<1>2. CASE Lock BY <1>2 DEF Lock, LockVault, locals
<1>3. CASE ContextChanges BY <1>3 DEF ContextChanges, locals
<1>4. CASE Crash BY <1>4 DEF Crash
<1>5. CASE UNCHANGED vars BY <1>5 DEF vars, locals
<1> QED BY <1>1, <1>2, <1>3, <1>4, <1>5 DEF Next

\* A wallet that was locked is opened only by an operation that began after the
\* lock (background.ts 301, 1242, 1260, 1363).
THEOREM LocksStand == Spec => LockStands
<1> DEFINE Opens == unlockedVault = None /\ unlockedVault' # None =>
                      \E t \in Threads \ overtaken : at[t] = "adopt" /\ at'[t] # "adopt"
<1>1. Init => OvertakenIsStale
  BY VaultAssumption DEF Init, OvertakenIsStale
<1>2. TypeOK /\ Phases /\ OvertakenIsStale /\ [Next]_vars => [Opens]_vars
  <2> SUFFICES ASSUME TypeOK, Phases, OvertakenIsStale, [Next]_vars, unlockedVault = None, unlockedVault' # None
               PROVE  \E t \in Threads \ overtaken : at[t] = "adopt" /\ at'[t] # "adopt"
    OBVIOUS
  <2>1. PICK t \in Threads : Adopt(t)
    BY DEF Next, Lock, ContextChanges, Crash, vars, Operation, Begin, Look, Remove, Verify, CleanupFails,
           LockVault, GivesUp, Ensure, Initialize, Protect, Edit, Decrypt, Migrate, Check, Write, Select,
           Prepares, session
  <2>2. at[t] = "adopt" /\ at'[t] \in {"idle", "select"} /\ generation[t] = revision
    BY <2>1 DEF Adopt, Current, Goto, Ends, TypeOK
  <2>3. kind[t] \in {"unlock", "open", "initialize"}
    BY <2>1, <2>2 DEF Adopt, Current, Phases, PhaseOf, TypeOK, Kinds, Editing, Opening
  <2>4. t \notin overtaken
    BY <2>2, <2>3 DEF OvertakenIsStale, TypeOK
  <2> QED BY <2>2, <2>4
<1> QED BY <1>1, <1>2, OvertakenNext, PhasesHold, PTL DEF Spec, LockStands
===============================================================================
