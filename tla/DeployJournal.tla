----------------------------- MODULE DeployJournal -----------------------------
(***************************************************************************)
(* Deployment of a program to a Solana cluster: create a buffer account,   *)
(* write the chunks into it, deploy from it.  Every transaction is signed, *)
(* recorded in the journal of the wallet store and only then sent; a       *)
(* request may stop anywhere, and the next one has to find out from the    *)
(* journal and the cluster what became of the earlier signatures before it *)
(* signs again.  Handler deploy_program of desktop-api/src/main.rs, journal*)
(* of desktop-api/src/wallet_store.rs.                                     *)
(*                                                                         *)
(* A transaction is named by the order of its signature; a buffer is named *)
(* by the transaction that creates it.  One handler at a time:             *)
(* PROGRAM_DEPLOY_LOCK and the single instance of the application.         *)
(***************************************************************************)
EXTENDS Integers, FiniteSets, FiniteSetsExt

CONSTANTS
    None,
    Artifacts,    \* the program binaries a request may ask to deploy
    NumChunks,    \* chunks of a binary
    MaxTx,        \* bound: transactions ever signed
    MaxFaults,    \* bound: crashes, RPC errors, lagging reads, lost transactions
    Forks         \* whether a confirmed block may be abandoned

Ids    == 1..MaxTx
Chunks == 1..NumChunks
Stages == {"create_buffer", "write", "deploy"}
Statuses == {"create_buffer_signed", "create_buffer_reconcile", "buffer_ready", "write_signed",
             "write_confirmed", "write_reconcile", "buffer_finalized", "deploy_signed",
             "deploy_reconcile", "deploy_finalized", "finalized"}
Journals == [artifact: Artifacts, buffer: Ids, status: Statuses, completed: 0..NumChunks]

ASSUME DeployAssumption == /\ NumChunks \in Nat \ {0}
                           /\ MaxTx \in Nat /\ MaxFaults \in Nat
                           /\ Forks \in BOOLEAN
                           /\ None \notin Artifacts /\ None \notin Journals

VARIABLES
    journal,   \* the row of the journal: [artifact, buffer, status, completed] or None
    attempt,   \* the recorded status of each transaction, "none" when not recorded
    kind,      \* what each transaction is: [stage, chunk, buffer, artifact]
    fate,      \* what the cluster has done with it
    last,      \* transactions signed so far
    step,      \* where the handler of the running request is
    want,      \* the binary it was asked to deploy
    todo,      \* the chunks it still has to write
    cur,       \* the transaction it is sending
    faults

handler == <<step, want, todo, cur>>
store   == <<journal, attempt>>
chain   == <<kind, fate, last>>
vars    == <<store, chain, handler, faults>>

--------------------------------------------------------------------------------
(* The cluster as the handler sees it: finalized state. *)

Rooted(stage)  == {t \in Ids : fate[t] = "ok" /\ kind[t].stage = stage}
Written(b)     == {kind[t].chunk : t \in {u \in Rooted("write") : kind[u].buffer = b}}
Deployed       == {kind[t].artifact : t \in Rooted("deploy")}
BufferExists(b) == fate[b] = "ok" /\ \A t \in Rooted("deploy") : kind[t].buffer # b

(* The journal as the handler reads it. *)
Recorded(stage) == {t \in Ids : attempt[t] # "none" /\ kind[t].stage = stage}
Active          == {t \in Ids : attempt[t] \in {"signed", "confirmed", "requires_reconciliation"}}
Terminal        == {t \in Ids : attempt[t] \in {"finalized", "finalized_failed"}}
Own             == journal # None /\ journal.artifact = want
Completed       == NumChunks - Cardinality(todo)

\* Transactions that may still take effect, or have.
MayHaveEffect(t) == fate[t] \in {"signed", "sent", "landed", "failing", "ok"}

-----------------------------------------------------------------------------
(* Writes of the store, one SQL transaction each. *)

\* Mutant: the count is added to the old one.
ProgressAdds(status, n) ==
    /\ n >= journal.completed
    /\ journal' = [journal EXCEPT !.status = status, !.completed = @ + n]

Progress(status, n) ==
    /\ n >= journal.completed
    /\ journal' = [journal EXCEPT !.status = status, !.completed = n]

Follows(from) ==
    LET final == {"finalized", "finalized_failed", "expired_absent"}
    IN  CASE from = "signed"    -> final \union {"confirmed", "requires_reconciliation"}
          [] from = "confirmed" -> final \union {"requires_reconciliation"}
          [] from = "requires_reconciliation" -> final
          [] OTHER -> {}

Move(t, to, status, n) ==
    /\ to \in Follows(attempt[t])
    /\ attempt' = [attempt EXCEPT ![t] = to]
    /\ Progress(status, n)

\* A new signature, recorded before it is sent.
Sign(stage, chunk, buffer) ==
    /\ last < MaxTx
    /\ last' = last + 1
    /\ kind' = [kind EXCEPT ![last + 1] =
                  [stage |-> stage, chunk |-> chunk, buffer |-> buffer, artifact |-> want]]
    /\ fate' = [fate EXCEPT ![last + 1] = "signed"]
    /\ cur' = last + 1
    /\ step' = "send"

Begin(stage, chunk, status) ==
    /\ Sign(stage, chunk, journal.buffer)
    /\ attempt' = [attempt EXCEPT ![last + 1] = "signed"]
    /\ Progress(status, Completed)

Return == step' = "idle" /\ want' = None /\ todo' = {} /\ cur' = None
Goto(s) == step' = s /\ UNCHANGED <<want, todo, cur>>
Fault  == faults < MaxFaults /\ faults' = faults + 1
FaultIf(c) == IF c THEN Fault ELSE UNCHANGED faults

Init ==
    /\ journal = None
    /\ attempt = [t \in Ids |-> "none"]
    /\ kind = [t \in Ids |-> None]
    /\ fate = [t \in Ids |-> "none"]
    /\ last = 0
    /\ step = "idle" /\ want = None /\ todo = {} /\ cur = None
    /\ faults = 0

--------------------------------------------------------------------------------
(* Recovery: what became of the signatures that are recorded. *)

\* Mutant: the exception for a creation that never came to be is forgotten.
LoadsAttemptSameBuffer(t) == kind[t].buffer = journal.buffer

\* A recorded attempt belongs to the journal's buffer, or created one that never came to be.
LoadsAttempt(t) ==
    \/ kind[t].buffer = journal.buffer
    \/ kind[t].stage = "create_buffer" /\ attempt[t] = "expired_absent"

\* A request that loads the journal and does not find the program; a refused request changes nothing.
Start(a) ==
    /\ step = "idle"
    /\ FaultIf(Deployed # {})          \* a read that lags behind
    /\ IF journal # None /\ journal.artifact = a
       THEN /\ \A t \in Ids : attempt[t] # "none" => LoadsAttempt(t)
            /\ step' = "deploys"
       ELSE /\ journal # None => journal.status # "finalized"
            /\ step' = "create"
    /\ want' = a
    /\ todo' = Chunks
    /\ UNCHANGED <<store, chain, cur>>

\* The program is there and is the one asked for: the records are brought up to date.
Adopt(a) ==
    /\ step = "idle"
    /\ Deployed = {a}
    /\ journal # None /\ journal.artifact = a
    /\ \A t \in Ids : attempt[t] # "none" => LoadsAttempt(t)
    /\ attempt' = [t \in Ids |-> IF t \in Recorded("deploy") \cap Active THEN "finalized" ELSE attempt[t]]
    /\ journal' = [journal EXCEPT !.status = "finalized"]
    /\ UNCHANGED <<chain, handler, faults>>

\* Mutant: a signature unknown to the cluster counts as absent before it has expired.
ReconcileUnexpired(t, status, n, unchanged, next) ==
    \/ fate[t] \in {"dead", "sent"} /\ unchanged /\ Move(t, "expired_absent", status, n) /\ Goto(next)
    \/ fate[t] = "ok" /\ Move(t, "finalized", status, n) /\ Return
    \/ fate[t] = "failed" /\ Move(t, "finalized_failed", status, n) /\ Return

\* The fate of an active attempt whose effect is not there: only an expired and absent one lets
\* the request go on; a finalized one is recorded as such and ends it.
Reconcile(t, status, n, unchanged, next) ==
    \/ fate[t] = "dead" /\ unchanged /\ Move(t, "expired_absent", status, n) /\ Goto(next)
    \/ fate[t] = "ok" /\ Move(t, "finalized", status, n) /\ Return
    \/ fate[t] = "failed" /\ Move(t, "finalized_failed", status, n) /\ Return
    \/ ~(fate[t] = "dead" /\ unchanged) /\ UNCHANGED store /\ Return

ReconcileDeploy(t) ==
    /\ step = "deploys"
    /\ t \in Recorded("deploy") \cap Active
    /\ Recorded("deploy") \cap Terminal = {}
    /\ Reconcile(t, "buffer_finalized", journal.completed, Deployed = {}, "deploys")
    /\ UNCHANGED <<chain, faults>>

DeploysDone ==
    /\ step = "deploys"
    /\ Recorded("deploy") \cap Active = {}
    /\ IF \/ Recorded("deploy") \cap Terminal # {}
          \/ /\ Recorded("deploy") = {}
             /\ journal.status \in {"deploy_signed", "deploy_reconcile", "deploy_finalized", "finalized"}
       THEN Return
       ELSE Goto("buffer")
    /\ UNCHANGED <<store, chain, faults>>

\* The journal's buffer is read and its chunks compared with the binary.
BufferRead(seen) ==
    /\ step = "buffer"
    /\ BufferExists(journal.buffer)
    /\ seen \subseteq Written(journal.buffer)
    /\ FaultIf(seen # Written(journal.buffer))
    /\ IF Cardinality(seen) < journal.completed
       THEN UNCHANGED store /\ Return
       ELSE /\ IF journal.buffer \in Active
               THEN Move(journal.buffer, "finalized", "buffer_ready", Cardinality(seen))
               ELSE UNCHANGED store
            /\ step' = "writes"
            /\ todo' = Chunks \ seen
            /\ UNCHANGED <<want, cur>>
    /\ UNCHANGED chain

\* It is not there: the creation must be proved absent before another buffer takes its place.
BufferMissing ==
    /\ step = "buffer"
    /\ FaultIf(BufferExists(journal.buffer))
    /\ IF \/ journal.completed # 0
          \/ Recorded("write") \union Recorded("deploy") # {}
          \/ journal.buffer \in Terminal
       THEN UNCHANGED store /\ Return
       ELSE IF journal.buffer \in Active
            THEN Reconcile(journal.buffer, "create_buffer_reconcile", 0,
                           ~BufferExists(journal.buffer), "create")
            ELSE Goto("create") /\ UNCHANGED store
    /\ UNCHANGED chain

\* Mutant: the attempt is settled without a look at the buffer.
ReconcileWriteUnread(t) ==
    /\ step = "writes"
    /\ t \in Recorded("write") \cap Active
    /\ Move(t, "finalized", "buffer_ready", Completed)
    /\ UNCHANGED <<handler, chain, faults>>

ReconcileWrite(t) ==
    /\ step = "writes"
    /\ t \in Recorded("write") \cap Active
    /\ ~ \E u \in Recorded("write") \cap Terminal : u < t /\ kind[u].chunk \in todo
    /\ IF kind[t].chunk \in todo
       THEN Reconcile(t, "buffer_ready", Completed, todo = Chunks \ Written(journal.buffer), "writes")
       ELSE Move(t, "finalized", "buffer_ready", Completed) /\ UNCHANGED handler
    /\ UNCHANGED <<chain, faults>>

WritesDone ==
    /\ step = "writes"
    /\ IF \E u \in Recorded("write") \cap Terminal : kind[u].chunk \in todo
       THEN UNCHANGED store /\ Return
       ELSE /\ Recorded("write") \cap Active = {}
            /\ IF \/ journal.completed # Completed
                  \/ journal.status \notin {"buffer_ready", "buffer_finalized", "finalized"}
               THEN Progress("buffer_ready", Completed) /\ UNCHANGED attempt
               ELSE UNCHANGED store
            /\ Goto("write")
    /\ UNCHANGED <<chain, faults>>

--------------------------------------------------------------------------------
(* Signing and sending. *)

\* Mutant: rotation leaves the old address in the journal.
CreateBufferKeepsAddress ==
    /\ step = "create"
    /\ Sign("create_buffer", None, last + 1)
    /\ journal' = [artifact |-> want, buffer |-> IF Own THEN journal.buffer ELSE last + 1,
                   status |-> "create_buffer_signed", completed |-> 0]
    /\ attempt' = [t \in Ids |-> IF t = last + 1 THEN "signed" ELSE IF Own THEN attempt[t] ELSE "none"]
    /\ UNCHANGED <<want, todo, faults>>

\* A new buffer: for a new deployment, in the place of one that never came to be, or in the
\* place of a deployment of another binary, whose records are deleted.
CreateBuffer ==
    /\ step = "create"
    /\ Sign("create_buffer", None, last + 1)
    /\ journal' = [artifact |-> want, buffer |-> last + 1,
                   status |-> "create_buffer_signed", completed |-> 0]
    /\ IF Own
       THEN /\ journal.completed = 0
            /\ \A t \in Ids : attempt[t] # "none" =>
                  kind[t].stage = "create_buffer" /\ attempt[t] = "expired_absent"
            /\ attempt' = [attempt EXCEPT ![last + 1] = "signed"]
       ELSE attempt' = [t \in Ids |-> IF t = last + 1 THEN "signed" ELSE "none"]
    /\ UNCHANGED <<want, todo, faults>>

\* A signature that has expired meanwhile is sent in vain.
Send ==
    /\ step = "send"
    /\ fate' = [fate EXCEPT ![cur] = IF @ = "signed" THEN "sent" ELSE @]
    /\ Goto("outcome")
    /\ UNCHANGED <<store, kind, last, faults>>

\* The node's simulation refuses the first broadcast, or the time runs out before the commitment
\* is reached, or the transaction has failed.
Unconfirmed ==
    /\ \/ step = "send" /\ Fault
       \/ step = "outcome" /\ UNCHANGED faults
    /\ LET s == kind[cur].stage IN
       Move(cur, "requires_reconciliation",
            CASE s = "create_buffer" -> "create_buffer_reconcile"
              [] s = "write"  -> "write_reconcile"
              [] s = "deploy" -> "deploy_reconcile",
            IF s = "create_buffer" THEN 0 ELSE Completed)
    /\ Return
    /\ UNCHANGED chain

Created ==
    /\ step = "outcome" /\ kind[cur].stage = "create_buffer" /\ fate[cur] = "ok"
    /\ Move(cur, "confirmed", "create_buffer_reconcile", 0)
    /\ Goto("created")
    /\ UNCHANGED <<chain, faults>>

CreateSettled ==
    /\ step = "created"
    /\ BufferExists(cur)
    /\ Move(cur, "finalized", "buffer_ready", 0)
    /\ Goto("write")
    /\ UNCHANGED <<chain, faults>>

WriteChunk ==
    /\ step = "write" /\ todo # {}
    /\ Begin("write", Min(todo), "write_signed")
    /\ UNCHANGED <<want, todo, faults>>

WriteConfirmed ==
    /\ step = "outcome" /\ kind[cur].stage = "write" /\ fate[cur] \in {"landed", "ok"}
    /\ Move(cur, "confirmed", "write_confirmed", Completed + 1)
    /\ step' = "write"
    /\ todo' = todo \ {kind[cur].chunk}
    /\ UNCHANGED <<chain, want, cur, faults>>

\* Mutant: confirmed chunks are enough.
BufferWaitConfirmed ==
    /\ step = "write" /\ todo = {}
    /\ Goto("settle")
    /\ UNCHANGED <<store, chain, faults>>

\* Every chunk must be finalized, not only confirmed, before the deployment is signed.
BufferWait ==
    /\ step = "write" /\ todo = {}
    /\ IF Written(journal.buffer) = Chunks THEN Goto("settle") ELSE Return
    /\ UNCHANGED <<store, chain, faults>>

SettleWrite(t) ==
    /\ step = "settle"
    /\ t \in Recorded("write") \cap Active
    /\ Move(t, "finalized", "write_confirmed", NumChunks)
    /\ UNCHANGED <<chain, handler, faults>>

BufferFinalized ==
    /\ step = "settle"
    /\ Recorded("write") \cap Active = {}
    /\ Progress("buffer_finalized", NumChunks)
    /\ Goto("deploy")
    /\ UNCHANGED <<attempt, chain, faults>>

Deploy ==
    /\ step = "deploy"
    /\ Begin("deploy", None, "deploy_signed")
    /\ UNCHANGED <<want, todo, faults>>

\* Mutant: the deployment counts as done when it is confirmed.
DeployLandedConfirmed ==
    /\ step = "outcome" /\ kind[cur].stage = "deploy" /\ fate[cur] \in {"landed", "ok"}
    /\ Move(cur, "confirmed", "deploy_finalized", NumChunks)
    /\ Goto("readback")
    /\ UNCHANGED <<chain, faults>>

DeployLanded ==
    /\ step = "outcome" /\ kind[cur].stage = "deploy" /\ fate[cur] = "ok"
    /\ Move(cur, "confirmed", "deploy_finalized", NumChunks)
    /\ Goto("readback")
    /\ UNCHANGED <<chain, faults>>

ReadBack ==
    /\ step = "readback"
    /\ Deployed = {want}
    /\ Move(cur, "finalized", "finalized", NumChunks)
    /\ Return
    /\ UNCHANGED <<chain, faults>>

\* An RPC error, a refused budget or simulation, a dead process.
Stop ==
    /\ step # "idle"
    /\ Fault
    /\ Return
    /\ UNCHANGED <<store, chain>>

--------------------------------------------------------------------------------
(* The cluster. *)

Becomes(t, f) == /\ fate' = [fate EXCEPT ![t] = f]
                 /\ UNCHANGED <<store, kind, last, handler>>

\* Whether a transaction finds what it needs in the block it lands in.
Succeeds(t) ==
    LET k == kind[t]
        done(u) == fate[u] \in {"landed", "ok"}
        deploys == {u \in Ids : done(u) /\ kind[u].stage = "deploy"}
    IN CASE k.stage = "create_buffer" -> TRUE
         [] k.stage = "write"  -> done(k.buffer) /\ \A u \in deploys : kind[u].buffer # k.buffer
         [] k.stage = "deploy" -> done(k.buffer) /\ deploys = {}

Land(t) == /\ fate[t] = "sent"
           /\ \/ Succeeds(t) /\ Becomes(t, "landed") /\ UNCHANGED faults
              \/ Becomes(t, "failing") /\ FaultIf(Succeeds(t))   \* the payer's money is gone

Root(t) == /\ \/ fate[t] = "landed" /\ Becomes(t, "ok")
              \/ fate[t] = "failing" /\ Becomes(t, "failed")
           /\ UNCHANGED faults

\* Its block is abandoned; the transaction may land again.
Fork(t) ==
    /\ Forks
    /\ fate[t] \in {"landed", "failing"}
    /\ Fault
    /\ Becomes(t, "sent")

\* The block height passes the last one the signature is valid for; that a transaction never
\* lands although it was sent is a fault.
Forgotten(t) == fate[t] = "signed" /\ ~(step = "send" /\ cur = t)
Expire(t) == /\ fate[t] \in {"signed", "sent"}
             /\ FaultIf(~Forgotten(t))
             /\ Becomes(t, "dead")

Handler ==
    \/ \E t \in Ids : ReconcileDeploy(t) \/ ReconcileWrite(t) \/ SettleWrite(t)
    \/ DeploysDone \/ WritesDone
    \/ \E seen \in SUBSET Chunks : BufferRead(seen)
    \/ BufferMissing
    \/ CreateBuffer \/ Send \/ Unconfirmed \/ Created \/ CreateSettled
    \/ WriteChunk \/ WriteConfirmed \/ BufferWait \/ BufferFinalized
    \/ Deploy \/ DeployLanded \/ ReadBack

Request == \E a \in Artifacts : Start(a) \/ Adopt(a)
Cluster == \E t \in Ids : Land(t) \/ Root(t)
Next == Request \/ Handler \/ Stop \/ Cluster \/ \E t \in Ids : Fork(t) \/ Expire(t)

Spec == Init /\ [][Next]_vars

--------------------------------------------------------------------------------
(* Correctness. *)

TypeOK ==
    /\ journal \in Journals \union {None}
    /\ attempt \in [Ids -> {"none", "signed", "confirmed", "requires_reconciliation", "finalized",
                            "finalized_failed", "expired_absent"}]
    /\ fate \in [Ids -> {"none", "signed", "sent", "landed", "failing", "ok", "failed", "dead"}]
    /\ last \in 0..MaxTx
    /\ \A t \in Ids :
         IF t > last THEN kind[t] = None /\ fate[t] = "none" /\ attempt[t] = "none"
         ELSE kind[t] \in [stage: Stages, chunk: Chunks \union {None}, buffer: 1..t, artifact: Artifacts]
    /\ step \in {"idle", "deploys", "buffer", "writes", "create", "send", "outcome", "created",
                  "write", "settle", "deploy", "readback"}
    /\ want \in Artifacts \union {None}
    /\ todo \subseteq Chunks
    /\ cur \in 1..last \union {None}
    /\ faults \in 0..MaxFaults

\* Nothing is signed a second time while the first signature may still take effect: of the
\* transactions with one purpose at most one has not died.
Purpose(t) == <<kind[t].stage, kind[t].chunk, kind[t].artifact>>
OneLivePerPurpose ==
    \A t, u \in 1..last :
        Purpose(t) = Purpose(u) /\ MayHaveEffect(t) /\ MayHaveEffect(u) => t = u

\* What the journal says of a signature for good is true of the cluster.
EvidenceIsTrue ==
    \A t \in Ids :
        /\ attempt[t] = "finalized" => fate[t] = "ok"
        /\ attempt[t] = "finalized_failed" => fate[t] = "failed"
        /\ attempt[t] = "expired_absent" => fate[t] = "dead"

\* The journal can always be loaded: an attempt with another buffer than the journal's would
\* make every later request fail.
JournalLoads == \A t \in Ids : attempt[t] # "none" => LoadsAttempt(t)

\* Progress that the journal claims: a confirmed write may be lost in a fork, but a buffer said
\* to be finalized is complete and a deployment said to be finalized is there.
ProgressIsReal ==
    journal # None =>
        /\ journal.status \in {"buffer_finalized", "deploy_signed", "deploy_reconcile"} =>
              Written(journal.buffer) = Chunks
        /\ journal.status \in {"deploy_finalized", "finalized"} => Deployed = {journal.artifact}

\* A deployment is signed only for a buffer whose every chunk is finalized.
DeploysWholeBuffer ==
    \A t \in 1..last : kind[t].stage = "deploy" => Written(kind[t].buffer) = Chunks

\* Every transaction that was sent and may still take effect is in the journal.
EvidenceKept == \A t \in 1..last : fate[t] \in {"sent", "landed"} => attempt[t] # "none"

--------------------------------------------------------------------------------
(* Liveness: the requests are served, the cluster takes what it is sent, and the user asks again. *)

FairSpec ==
    /\ Spec
    /\ WF_vars(Handler)
    /\ WF_vars(Request)
    /\ \A t \in Ids : WF_vars(Land(t)) /\ WF_vars(Root(t)) /\ WF_vars(Forgotten(t) /\ Expire(t))

\* A confirmed write that the journal has counted and a fork has taken away.
CountedButLost(t) == attempt[t] = "confirmed" /\ kind[t].stage = "write" /\ fate[t] = "dead"

\* A deployment that was begun comes to an end, whatever crashed or was lost on the way: it is
\* finalized, unless the cluster has executed one of its transactions and failed it, or a write
\* that was counted when it was confirmed is gone for good (every later request then refuses).
DeployEnds ==
    journal # None ~> \/ journal # None /\ journal.status = "finalized"
                      \/ \E t \in 1..last : fate[t] = "failed" \/ CountedButLost(t)
================================================================================
