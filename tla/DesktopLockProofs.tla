-------------------------- MODULE DesktopLockProofs --------------------------
(***************************************************************************)
(* Theorems about DesktopLock: an acknowledged lock leaves no session and no *)
(* work of an earlier epoch, for any number of commands, wallets and locks.  *)
(***************************************************************************)
EXTENDS DesktopLock, TLAPS

\* The gate excludes: whoever clears the sessions holds it alone.
HolderIsAlone ==
    /\ lock \in {"first try", "second try"} => gate = "taken"
    /\ gate = "taken" => NoReader

\* What the two safety properties need besides themselves: no acknowledgement is
\* ahead of the epoch, and the holder of the gate is alone.
LockInv ==
    /\ TypeOK
    /\ acknowledged <= epoch
    /\ HolderIsAlone
    /\ LockedMeansLocked
    /\ NoWorkOutlivesLock

USE DesktopAssumption DEF Kinds

LEMMA TypeInit == Init => TypeOK
<1> SUFFICES ASSUME Init PROVE TypeOK
  OBVIOUS
<1>1. lockPending \in BOOLEAN
  BY DEF Init
<1>2. session \in [Wallets -> Requests \cup {None}]
  BY DEF Init, NoSession
<1>3. step \in [Requests -> Steps]
  BY DEF Init, Steps
<1>4. unlocking \in [Requests -> SUBSET Wallets]
  BY DEF Init
<1> QED BY <1>1, <1>2, <1>3, <1>4 DEF Init, TypeOK, LockSteps

\* The state of the model has its types, whatever the commands do (the types of
\* DesktopApiProcess, lib.rs 431-439).
THEOREM TypeCorrect == Spec => []TypeOK
<1>1. TypeOK /\ [Next]_vars => TypeOK'
  <2> SUFFICES ASSUME TypeOK, [Next]_vars PROVE TypeOK'
    OBVIOUS
  <2> USE DEF TypeOK, shell, process, commands, Goto, Steps, LockSteps, NoSession
  <2>1. ASSUME NEW r \in Requests, Command(r) PROVE TypeOK'
    <3>1. CASE AsksTouch(r) BY <3>1 DEF AsksTouch
    <3>2. CASE Touched(r) BY <3>2 DEF Touched
    <3>3. CASE LoadEpoch(r) BY <3>3 DEF LoadEpoch
    <3>4. CASE CheckPending(r) BY <3>4 DEF CheckPending
    <3>5. CASE EnterGate(r) BY <3>5 DEF EnterGate
    <3>6. CASE Recheck(r) BY <3>6 DEF Recheck
    <3>7. CASE Derive(r) BY <3>7 DEF Derive
    <3>8. CASE Answer(r) BY <3>8 DEF Answer
    <3>9. ASSUME NEW w \in Wallets, Insert(r, w) PROVE TypeOK' BY <3>9 DEF Insert
    <3>10. ASSUME NEW w \in Wallets, TakeKey(r, w) PROVE TypeOK' BY <3>10 DEF TakeKey
    <3> QED BY <2>1, <3>1, <3>2, <3>3, <3>4, <3>5, <3>6, <3>7, <3>8, <3>9, <3>10 DEF Command
  <2>2. CASE LockBegins BY <2>2 DEF LockBegins
  <2>3. CASE Locking
    <3>1. CASE LockBumpsEpoch BY <3>1 DEF LockBumpsEpoch
    <3>2. CASE LockTakesGate BY <3>2 DEF LockTakesGate
    <3>3. CASE LockGivesUpGate BY <3>3 DEF LockGivesUpGate
    <3>4. CASE LockAllAnswers BY <3>4 DEF LockAllAnswers
    <3>5. CASE LockAllFails BY <3>5 DEF LockAllFails
    <3>6. CASE Kill BY <3>6 DEF Kill, BackendEnds
    <3>7. CASE KillFails BY <3>7 DEF KillFails
    <3>8. CASE LockReleasesGate BY <3>8 DEF LockReleasesGate
    <3>9. CASE LockReturns BY <3>9 DEF LockReturns
    <3> QED BY <2>3, <3>1, <3>2, <3>3, <3>4, <3>5, <3>6, <3>7, <3>8, <3>9 DEF Locking
  <2>4. CASE Crash BY <2>4 DEF Crash, BackendEnds
  <2>5. ASSUME NEW w \in Wallets, Purge(w) PROVE TypeOK' BY <2>5 DEF Purge
  <2>6. CASE UNCHANGED vars BY <2>6 DEF vars
  <2> QED BY <2>1, <2>2, <2>3, <2>4, <2>5, <2>6 DEF Next
<1> QED BY TypeInit, <1>1, PTL DEF Spec

-----------------------------------------------------------------------------
LEMMA LockInvInit == Init => LockInv
<1> SUFFICES ASSUME Init PROVE LockInv
  OBVIOUS
<1>1. TypeOK
  BY TypeInit
<1>2. acknowledged <= epoch /\ HolderIsAlone
  BY DEF Init, HolderIsAlone
<1>3. LockedMeansLocked /\ NoWorkOutlivesLock
  BY DEF Init, LockedMeansLocked, NoWorkOutlivesLock, NoSession, InBackend
<1> QED BY <1>1, <1>2, <1>3 DEF LockInv

\* A step of a command keeps the invariant: it enters the gate only when nobody
\* holds it for writing, and goes on to the backend only in the current epoch.
LEMMA CommandKeepsLockInv ==
  ASSUME NEW r \in Requests, LockInv, TypeOK', Command(r) PROVE LockInv'
<1> USE DEF LockInv, HolderIsAlone, LockedMeansLocked, NoWorkOutlivesLock
<1> USE DEF TypeOK, shell, process, commands, Goto, NoReader, Reading, InBackend
<1>1. CASE AsksTouch(r) BY <1>1 DEF AsksTouch
<1>2. CASE Touched(r) BY <1>2 DEF Touched
<1>3. CASE LoadEpoch(r) BY <1>3 DEF LoadEpoch
<1>4. CASE CheckPending(r) BY <1>4 DEF CheckPending
<1>5. CASE EnterGate(r) BY <1>5 DEF EnterGate, GateOpen
<1>6. CASE Recheck(r) BY <1>6 DEF Recheck
<1>7. CASE Derive(r) BY <1>7 DEF Derive
<1>8. CASE Answer(r) BY <1>8 DEF Answer
<1>9. ASSUME NEW w \in Wallets, Insert(r, w) PROVE LockInv' BY <1>9 DEF Insert
<1>10. ASSUME NEW w \in Wallets, TakeKey(r, w) PROVE LockInv' BY <1>10 DEF TakeKey
<1> QED BY <1>1, <1>2, <1>3, <1>4, <1>5, <1>6, <1>7, <1>8, <1>9, <1>10 DEF Command

\* The acknowledgement: the lock is alone, so the backend works on nothing, and
\* it has just dropped every session.
LEMMA AnswerKeepsLockInv ==
  ASSUME LockInv, TypeOK', LockAllAnswers PROVE LockInv'
<1>1. /\ acknowledged' = epoch /\ epoch' = epoch /\ gate' = gate /\ step' = step
      /\ lock' = "releasing" /\ session' = NoSession
  BY DEF LockAllAnswers, commands
<1>2. acknowledged' <= epoch'
  BY <1>1 DEF TypeOK
<1>3. NoReader /\ NoReader'
  BY <1>1 DEF LockInv, HolderIsAlone, LockAllAnswers, NoReader, Reading, InBackend
<1>4. HolderIsAlone'
  BY <1>1, <1>3 DEF HolderIsAlone
<1>5. LockedMeansLocked'
  BY <1>1 DEF LockedMeansLocked, NoSession
<1>6. NoWorkOutlivesLock'
  BY <1>3 DEF NoWorkOutlivesLock, NoReader, Reading
<1> QED BY <1>2, <1>4, <1>5, <1>6 DEF LockInv

\* A step of the lock keeps it: it acknowledges alone with the backend, or after
\* the backend went down with the requests it worked on.
LEMMA LockingKeepsLockInv ==
  ASSUME LockInv, TypeOK', Locking PROVE LockInv'
<1> USE DEF LockInv, HolderIsAlone, LockedMeansLocked, NoWorkOutlivesLock, NoSession
<1> USE DEF TypeOK, shell, process, commands, NoReader, Reading, InBackend
<1>1. CASE LockBumpsEpoch BY <1>1 DEF LockBumpsEpoch
<1>2. CASE LockTakesGate BY <1>2 DEF LockTakesGate
<1>3. CASE LockGivesUpGate BY <1>3 DEF LockGivesUpGate
<1>4. CASE LockAllAnswers BY <1>4, AnswerKeepsLockInv
<1>5. CASE LockAllFails
  <2>1. /\ lock' \in {"first try", "second try"} => gate' = "taken"
        /\ gate' = "taken" => NoReader'
    BY <1>5 DEF LockAllFails
  <2>2. \A w \in Wallets : session'[w] = session[w] \/ session'[w] = None
    BY <1>5 DEF LockAllFails
  <2> QED BY <1>5, <2>1, <2>2 DEF LockAllFails
<1>6. CASE Kill BY <1>6 DEF Kill, BackendEnds
<1>7. CASE KillFails BY <1>7 DEF KillFails
<1>8. CASE LockReleasesGate BY <1>8 DEF LockReleasesGate
<1>9. CASE LockReturns BY <1>9 DEF LockReturns
<1> QED BY <1>1, <1>2, <1>3, <1>4, <1>5, <1>6, <1>7, <1>8, <1>9 DEF Locking

LEMMA LockInvNext == LockInv /\ TypeOK' /\ [Next]_vars => LockInv'
<1> SUFFICES ASSUME LockInv, TypeOK', [Next]_vars PROVE LockInv'
  OBVIOUS
<1>1. CASE \E r \in Requests : Command(r) BY <1>1, CommandKeepsLockInv
<1>2. CASE Locking BY <1>2, LockingKeepsLockInv
<1> USE DEF LockInv, HolderIsAlone, LockedMeansLocked, NoWorkOutlivesLock, NoSession
<1> USE DEF TypeOK, shell, process, commands, NoReader, Reading, InBackend
<1>3. CASE LockBegins BY <1>3 DEF LockBegins
<1>4. CASE Crash BY <1>4 DEF Crash, BackendEnds
<1>5. ASSUME NEW w \in Wallets, Purge(w) PROVE LockInv' BY <1>5 DEF Purge
<1>6. CASE UNCHANGED vars BY <1>6 DEF vars
<1> QED BY <1>1, <1>2, <1>3, <1>4, <1>5, <1>6 DEF Next

\* No session of an earlier epoch survives an acknowledged lock
\* (lock_wallet_security_state_inner, lib.rs 1278-1340).
THEOREM LockClearsSessions == Spec => []LockedMeansLocked
<1>1. LockInv /\ TypeOK' /\ [Next]_vars => LockInv'
  BY LockInvNext
<1>2. LockInv => LockedMeansLocked
  BY DEF LockInv
<1> QED BY LockInvInit, TypeCorrect, <1>1, <1>2, PTL DEF Spec

\* No request of an earlier epoch is at work in the backend after it.
THEOREM LockStopsWork == Spec => []NoWorkOutlivesLock
<1>1. LockInv /\ TypeOK' /\ [Next]_vars => LockInv'
  BY LockInvNext
<1>2. LockInv => NoWorkOutlivesLock
  BY DEF LockInv
<1> QED BY LockInvInit, TypeCorrect, <1>1, <1>2, PTL DEF Spec
==============================================================================
