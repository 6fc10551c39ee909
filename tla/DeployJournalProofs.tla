-------------------------- MODULE DeployJournalProofs --------------------------
(***************************************************************************)
(* Theorems about DeployJournal, for any number of chunks, transactions    *)
(* and faults.  For any binaries: the journal can be loaded, a deployment  *)
(* is signed for a whole buffer, and the progress the journal claims is    *)
(* there.  For a program that is always asked for with one binary: what    *)
(* the journal says of a signature for good is true, and nothing is signed *)
(* twice while it may take effect.                                         *)
(***************************************************************************)
EXTENDS DeployJournal, FiniteSetTheorems, WellFoundedInduction, TLAPS

--------------------------------------------------------------------------------
(* The inductive invariants. *)

\* The steps of a handler that has taken the journal over, and those that send a transaction.
Owning  == {"deploys", "buffer", "writes", "send", "outcome", "created", "write", "settle",
            "deploy", "readback"}
Sending == {"send", "outcome", "created", "readback"}

Kinds    == [stage: Stages, chunk: Chunks \union {None}, buffer: Ids, artifact: Artifacts]
Attempts == {"none", "signed", "confirmed", "requires_reconciliation", "finalized",
             "finalized_failed", "expired_absent"}

ChainOK ==
    /\ kind \in [Ids -> Kinds \union {None}]
    /\ fate \in [Ids -> {"none", "signed", "sent", "landed", "failing", "ok", "failed", "dead"}]
    /\ last \in 0..MaxTx
    /\ \A t \in Ids : IF t > last THEN kind[t] = None /\ fate[t] = "none"
                      ELSE kind[t] \in Kinds /\ kind[t].buffer \in 1..t
    /\ \A t \in 1..last : IF kind[t].stage = "write" THEN kind[t].chunk \in Chunks ELSE kind[t].chunk = None

StoreOK ==
    /\ journal \in Journals \union {None}
    /\ attempt \in [Ids -> Attempts]
    /\ \A t \in Ids : t > last => attempt[t] = "none"
    /\ journal = None => last = 0
    /\ journal # None => journal.buffer <= last

\* The journal, the handler and the transaction it is sending belong together.
HandlerOK ==
    /\ step \in {"idle", "create"} \union Owning
    /\ want \in Artifacts \union {None}
    /\ todo \subseteq Chunks
    /\ cur \in 1..last \union {None}
    /\ step # "idle" => want \in Artifacts
    /\ step \in Owning => Own
    /\ step \in Sending =>
          /\ cur \in 1..last
          /\ kind[cur].buffer = journal.buffer /\ kind[cur].artifact = want
          /\ kind[cur].stage = "write" => kind[cur].chunk \in todo
          /\ step = "created" => kind[cur].stage = "create_buffer"
          /\ step = "readback" => kind[cur].stage = "deploy" /\ fate[cur] = "ok"

Inv == ChainOK /\ StoreOK /\ HandlerOK /\ faults \in 0..MaxFaults

\* The buffer is whole from the moment the handler waits for it no more.
Whole ==
    /\ step \in {"settle", "deploy"} => Written(journal.buffer) = Chunks
    /\ \A t, u \in 1..last : /\ kind[t].stage = "deploy" /\ fate[t] \in {"landed", "ok"}
                             /\ kind[u].stage = "deploy" /\ fate[u] \in {"landed", "ok"}
                             => t = u

\* One binary: of the transactions with one purpose all but the last are known to be absent.
Absent(t) == attempt[t] = "expired_absent"
AllAbsent(stage) == \A t \in 1..last : kind[t].stage = stage => Absent(t)
Superseded ==
    /\ \A t \in 1..last : attempt[t] # "none"
    /\ \A t, u \in 1..last : t < u /\ Purpose(t) = Purpose(u) => Absent(t)

\* What the handler has made sure of before it signs.
Cleared ==
    /\ step \in {"buffer", "writes", "write", "settle", "deploy"} => AllAbsent("deploy")
    /\ step \in {"send", "outcome"} /\ kind[cur].stage = "write" => AllAbsent("deploy")
    /\ step \in {"send", "outcome", "created"} /\ kind[cur].stage = "create_buffer" =>
          \A t \in 1..last : kind[t].stage = "create_buffer"
    /\ step = "write" => \A t \in 1..last : kind[t].stage = "write" /\ kind[t].chunk \in todo => Absent(t)
    /\ step \in {"send", "outcome"} /\ kind[cur].stage = "write" =>
          \A t \in 1..last : t # cur /\ kind[t].stage = "write" /\ kind[t].chunk \in todo => Absent(t)
    /\ step = "writes" => Chunks \ todo \subseteq Written(journal.buffer)

--------------------------------------------------------------------------------
(* Chunks and counts. *)

LEMMA MinChunk ==
  ASSUME NEW S \in SUBSET Chunks, S # {}
  PROVE  Min(S) \in S
<1>1. S \subseteq Nat BY DeployAssumption DEF Chunks
<1>2. PICK x \in S : \A y \in S : <<y, x>> \notin OpToRel(<, Nat)
  BY <1>1, WFMin, NatLessThanWellFounded
<1>3. ASSUME NEW y \in S PROVE x <= y
  <2>1. x \in Nat /\ y \in Nat BY <1>1
  <2>2. <<y, x>> \notin OpToRel(<, Nat) BY <1>2, Zenon
  <2>3. ~(y < x) BY <2>1, <2>2, Zenon DEF OpToRel
  <2> QED BY <2>1, <2>3
<1> QED BY <1>3 DEF Min

LEMMA CountChunks ==
  ASSUME NEW S \in SUBSET Chunks
  PROVE  /\ IsFiniteSet(S)
         /\ Cardinality(S) \in 0..NumChunks
         /\ NumChunks - Cardinality(S) \in 0..NumChunks
         /\ S # {} => NumChunks - Cardinality(S) + 1 \in 0..NumChunks
<1>1. IsFiniteSet(Chunks) /\ Cardinality(Chunks) = NumChunks
  BY DeployAssumption, FS_Interval DEF Chunks
<1>2. IsFiniteSet(S) /\ Cardinality(S) <= NumChunks BY <1>1, FS_Subset
<1>3. Cardinality(S) \in Nat BY <1>2, FS_CardinalityType
<1>4. S # {} => Cardinality(S) # 0 BY <1>2, FS_EmptySet
<1> QED BY <1>2, <1>3, <1>4, DeployAssumption

--------------------------------------------------------------------------------
(* Types. *)

LEMMA AllChunks == NumChunks \in 0..NumChunks
BY DeployAssumption

LEMMA InvType == Inv => TypeOK
BY DEF Inv, ChainOK, StoreOK, HandlerOK, TypeOK, Kinds, Attempts, Owning

LEMMA InvInit == Init => Inv
<1> SUFFICES ASSUME Init PROVE Inv
  OBVIOUS
<1> USE DeployAssumption DEF Init
<1>1. ChainOK BY DEF ChainOK, Ids
<1>2. StoreOK BY DEF StoreOK, Attempts, Ids
<1>3. HandlerOK BY DEF HandlerOK, Owning, Sending
<1> QED BY <1>1, <1>2, <1>3 DEF Inv

LEMMA ChainStays == ChainOK /\ UNCHANGED chain => ChainOK'
BY DEF ChainOK, chain

LEMMA StoreStays == StoreOK /\ UNCHANGED <<store, last>> => StoreOK'
BY DEF StoreOK, store

LEMMA FaultType ==
  ASSUME faults \in 0..MaxFaults, NEW c, FaultIf(c) \/ Fault \/ UNCHANGED faults
  PROVE  faults' \in 0..MaxFaults
BY DeployAssumption DEF FaultIf, Fault

LEMMA ReturnHandler == Return => HandlerOK'
BY DEF Return, HandlerOK, Owning, Sending

\* The handler goes on to a step that sends nothing.
LEMMA GoesOn ==
  ASSUME HandlerOK, step # "idle", UNCHANGED <<want, cur, last>>, todo' \subseteq Chunks,
         \/ step' \in Owning \ Sending /\ journal' # None /\ journal'.artifact = want
         \/ step' = "create"
  PROVE  HandlerOK'
BY DEF HandlerOK, Owning, Sending, Own

LEMMA ProgressType ==
  ASSUME journal \in Journals, NEW status \in Statuses, NEW n \in 0..NumChunks, Progress(status, n)
  PROVE  /\ journal' \in Journals /\ journal' # None
         /\ journal'.buffer = journal.buffer /\ journal'.artifact = journal.artifact
         /\ journal'.status = status
BY DeployAssumption DEF Progress, Journals

\* Recording what became of a transaction.
LEMMA MoveType ==
  ASSUME ChainOK, StoreOK, journal # None, UNCHANGED last,
         NEW t \in Ids, NEW to, NEW status \in Statuses, NEW n \in 0..NumChunks, Move(t, to, status, n)
  PROVE  /\ StoreOK'
         /\ journal' # None
         /\ journal'.buffer = journal.buffer /\ journal'.artifact = journal.artifact
         /\ journal'.status = status
         /\ attempt' = [attempt EXCEPT ![t] = to]
         /\ t \in 1..last /\ t \in Active /\ to \in Follows(attempt[t])
<1>1. journal \in Journals /\ Progress(status, n) BY DEF StoreOK, Move
<1>2. to \in Follows(attempt[t]) /\ attempt' = [attempt EXCEPT ![t] = to] BY DEF Move
<1>3. attempt[t] \in {"signed", "confirmed", "requires_reconciliation"} BY <1>2 DEF Follows
<1>4. to \in Attempts BY <1>2, <1>3 DEF Follows, Attempts
<1>5. t \in 1..last BY <1>3, DeployAssumption DEF ChainOK, StoreOK, Ids
<1>6. /\ journal' \in Journals /\ journal' # None
      /\ journal'.buffer = journal.buffer /\ journal'.artifact = journal.artifact
      /\ journal'.status = status
  BY <1>1, ProgressType
<1>7. StoreOK' BY <1>2, <1>4, <1>5, <1>6 DEF StoreOK, ChainOK
<1> QED BY <1>2, <1>3, <1>5, <1>6, <1>7 DEF Active

\* The fate of an attempt is settled, and the handler goes on or returns.
LEMMA ReconcileType ==
  ASSUME Inv, UNCHANGED <<chain, faults>>, step \in Owning, NEW t \in Ids, NEW status \in Statuses,
         NEW n \in 0..NumChunks, NEW unchanged, NEW next \in (Owning \ Sending) \union {"create"},
         Reconcile(t, status, n, unchanged, next)
  PROVE  Inv'
<1>0. ChainOK /\ StoreOK /\ HandlerOK /\ ChainOK' /\ last' = last /\ journal # None /\ journal.artifact = want
  BY ChainStays DEF Inv, chain, HandlerOK, Own
<1>1. ASSUME NEW to, Move(t, to, status, n), Return \/ Goto(next) PROVE Inv'
  <2>1. StoreOK' /\ journal' # None /\ journal'.artifact = journal.artifact
    BY <1>0, <1>1, MoveType
  <2>2. HandlerOK' BY <1>0, <1>1, <2>1, ReturnHandler, GoesOn DEF Goto, HandlerOK, Owning
  <2> QED BY <1>0, <2>1, <2>2 DEF Inv
<1>2. ASSUME UNCHANGED store, Return PROVE Inv'
  BY <1>0, <1>2, StoreStays, ReturnHandler DEF Inv
<1> QED BY <1>1, <1>2 DEF Reconcile

LEMMA CompletedType ==
  ASSUME HandlerOK
  PROVE  /\ Completed \in 0..NumChunks
         /\ todo # {} => Completed + 1 \in 0..NumChunks
BY CountChunks DEF HandlerOK, Completed

\* A new signature.
LEMMA SignType ==
  ASSUME ChainOK, want \in Artifacts, NEW stage \in Stages, NEW chunk \in Chunks \union {None},
         IF stage = "write" THEN chunk \in Chunks ELSE chunk = None, NEW buffer \in 1..(last + 1), Sign(stage, chunk, buffer)
  PROVE  /\ ChainOK' /\ last \in 0..MaxTx /\ last + 1 \in Ids /\ last' = last + 1 /\ cur' = last + 1
         /\ kind'[last + 1] = [stage |-> stage, chunk |-> chunk, buffer |-> buffer, artifact |-> want]
         /\ fate'[last + 1] = "signed"
         /\ \A t \in Ids : t # last + 1 => kind'[t] = kind[t] /\ fate'[t] = fate[t]
<1> DEFINE new == [stage |-> stage, chunk |-> chunk, buffer |-> buffer, artifact |-> want]
<1>1. last \in 0..MaxTx /\ last + 1 \in Ids /\ last' = last + 1 /\ cur' = last + 1
  BY DeployAssumption DEF ChainOK, Sign, Ids
<1>2. new \in Kinds /\ new.buffer \in 1..(last + 1) BY <1>1, DeployAssumption DEF Kinds, Ids
<1>3. kind' = [kind EXCEPT ![last + 1] = new] /\ fate' = [fate EXCEPT ![last + 1] = "signed"]
  BY DEF Sign
<1>4. /\ kind'[last + 1] = new /\ fate'[last + 1] = "signed"
      /\ \A t \in Ids : t # last + 1 => kind'[t] = kind[t] /\ fate'[t] = fate[t]
  BY <1>1, <1>3 DEF ChainOK
<1> HIDE DEF new
<1>5. ChainOK'
  <2>1. /\ kind' \in [Ids -> Kinds \union {None}]
        /\ fate' \in [Ids -> {"none", "signed", "sent", "landed", "failing", "ok", "failed", "dead"}]
    BY <1>2, <1>3 DEF ChainOK
  <2>2. \A t \in Ids : IF t > last' THEN kind'[t] = None /\ fate'[t] = "none"
                       ELSE kind'[t] \in Kinds /\ kind'[t].buffer \in 1..t
    BY <1>1, <1>2, <1>4 DEF ChainOK, Ids
  <2>3. \A t \in 1..last' : IF kind'[t].stage = "write" THEN kind'[t].chunk \in Chunks ELSE kind'[t].chunk = None
    <3>1. IF new.stage = "write" THEN new.chunk \in Chunks ELSE new.chunk = None BY DEF new
    <3>2. ASSUME NEW t \in 1..last', t # last + 1 PROVE t \in 1..last /\ t \in Ids
      BY <1>1, <3>2, DeployAssumption DEF Ids
    <3> QED BY <1>1, <1>4, <3>1, <3>2 DEF ChainOK
  <2>4. last' \in 0..MaxTx BY <1>1 DEF Ids
  <2> QED BY <2>1, <2>2, <2>3, <2>4 DEF ChainOK
<1> QED BY <1>1, <1>4, <1>5 DEF new

LEMMA BeginType ==
  ASSUME Inv, step \in Owning, UNCHANGED <<want, todo, faults>>, NEW stage \in Stages,
         NEW chunk \in Chunks \union {None}, IF stage = "write" THEN chunk \in todo ELSE chunk = None,
         NEW status \in Statuses, Begin(stage, chunk, status)
  PROVE  Inv'
<1>0. ChainOK /\ StoreOK /\ HandlerOK /\ want \in Artifacts /\ journal # None /\ journal.artifact = want
      /\ todo \subseteq Chunks
  BY DEF Inv, HandlerOK, Own, Owning
<1>1. journal.buffer \in 1..(last + 1) BY <1>0 DEF StoreOK, ChainOK, Journals, Ids
<1>2. /\ ChainOK' /\ last \in 0..MaxTx /\ last + 1 \in Ids /\ last' = last + 1 /\ cur' = last + 1
      /\ kind'[last + 1] = [stage |-> stage, chunk |-> chunk, buffer |-> journal.buffer,
                            artifact |-> want]
  BY <1>0, <1>1, SignType DEF Begin
<1>3. attempt' = [attempt EXCEPT ![last + 1] = "signed"] /\ Progress(status, Completed) /\ step' = "send"
  BY DEF Begin, Sign
<1>4. /\ journal' \in Journals /\ journal' # None
      /\ journal'.buffer = journal.buffer /\ journal'.artifact = journal.artifact
  BY <1>0, <1>3, ProgressType, CompletedType DEF StoreOK
<1>5. StoreOK'
  <2>1. attempt' \in [Ids -> Attempts] /\ \A t \in Ids : t > last' => attempt'[t] = "none"
    BY <1>0, <1>2, <1>3 DEF StoreOK, Attempts, Ids
  <2> QED BY <1>0, <1>2, <1>4, <2>1 DEF StoreOK, Journals, Ids
<1>6. HandlerOK'
  <2>1. cur' \in 1..last' BY <1>2
  <2>2. /\ kind'[cur'].buffer = journal'.buffer /\ kind'[cur'].artifact = want'
        /\ kind'[cur'].stage = "write" => kind'[cur'].chunk \in todo'
    BY <1>2, <1>4
  <2> QED BY <1>0, <1>3, <1>4, <2>1, <2>2 DEF HandlerOK, Owning, Sending, Own
<1> QED BY <1>2, <1>5, <1>6 DEF Inv

LEMMA RequestType ==
  ASSUME Inv, NEW a \in Artifacts, Start(a) \/ Adopt(a)
  PROVE  Inv'
<1>0. ChainOK /\ StoreOK /\ HandlerOK BY DEF Inv
<1>1. ChainOK' BY <1>0, ChainStays DEF Start, Adopt
<1>2. faults' \in 0..MaxFaults BY FaultType DEF Inv, Start, Adopt
<1>3. CASE Start(a)
  <2>1. StoreOK' BY <1>0, <1>3, StoreStays DEF Start, chain
  <2>2. /\ \/ step' = "deploys" /\ journal # None /\ journal.artifact = a
           \/ step' = "create"
        /\ want' = a /\ todo' = Chunks /\ UNCHANGED <<cur, last, journal>>
    BY <1>3 DEF Start, store, chain
  <2>3. HandlerOK' BY <1>0, <2>2 DEF HandlerOK, Owning, Sending, Own
  <2> QED BY <1>1, <1>2, <2>1, <2>3 DEF Inv
<1>4. CASE Adopt(a)
  <2>1. /\ journal # None /\ step = "idle" /\ UNCHANGED <<last, step, want, todo, cur>>
        /\ journal' = [journal EXCEPT !.status = "finalized"]
        /\ attempt' = [t \in Ids |-> IF t \in Recorded("deploy") \cap Active THEN "finalized" ELSE attempt[t]]
    BY <1>4 DEF Adopt, chain, handler
  <2>2. journal' \in Journals /\ journal' # None /\ journal'.buffer = journal.buffer
    BY <1>0, <2>1, DeployAssumption DEF StoreOK, Journals, Statuses
  <2>3. attempt' \in [Ids -> Attempts] /\ \A t \in Ids : t > last' => attempt'[t] = "none"
    BY <1>0, <2>1 DEF StoreOK, Attempts, Recorded
  <2>4. StoreOK' BY <1>0, <2>1, <2>2, <2>3 DEF StoreOK
  <2>5. HandlerOK' BY <1>0, <2>1 DEF HandlerOK, Owning, Sending
  <2> QED BY <1>1, <1>2, <2>4, <2>5 DEF Inv
<1> QED BY <1>3, <1>4

\* A step of recovery.
LEMMA RecoveryType ==
  ASSUME Inv,
         \/ \E t \in Ids : ReconcileDeploy(t) \/ ReconcileWrite(t) \/ SettleWrite(t)
         \/ DeploysDone \/ WritesDone \/ BufferMissing
         \/ \E seen \in SUBSET Chunks : BufferRead(seen)
  PROVE  Inv'
<1>0. ChainOK /\ StoreOK /\ HandlerOK /\ faults \in 0..MaxFaults /\ Completed \in 0..NumChunks
  BY CompletedType DEF Inv
<1>1. step \in {"deploys", "buffer", "writes", "settle"} => journal # None /\ journal.artifact = want
  BY <1>0 DEF HandlerOK, Own, Owning
<1>2. journal # None => journal.completed \in 0..NumChunks /\ journal.buffer \in Ids /\ journal.status \in Statuses
  BY <1>0 DEF StoreOK, Journals
<1>3. UNCHANGED chain => ChainOK' /\ last' = last BY <1>0, ChainStays DEF chain
<1>4. ASSUME NEW t \in Ids, ReconcileDeploy(t) PROVE Inv'
  BY <1>1, <1>2, <1>4, ReconcileType DEF ReconcileDeploy, Owning, Sending, Statuses
<1>5. ASSUME NEW t \in Ids, ReconcileWrite(t) PROVE Inv'
  <2>1. CASE kind[t].chunk \in todo
    BY <1>0, <1>5, <2>1, ReconcileType DEF ReconcileWrite, Owning, Sending, Statuses
  <2>2. CASE kind[t].chunk \notin todo
    <3>1. Move(t, "finalized", "buffer_ready", Completed) /\ UNCHANGED <<handler, chain, faults>> /\ step = "writes"
      BY <1>5, <2>2 DEF ReconcileWrite
    <3>2. StoreOK' /\ journal' # None /\ journal'.artifact = want
      BY <1>0, <1>1, <1>3, <3>1, MoveType DEF Statuses
    <3>3. HandlerOK' BY <1>0, <1>3, <3>1, <3>2, GoesOn DEF handler, Owning, Sending, HandlerOK
    <3> QED BY <1>0, <1>3, <3>1, <3>2, <3>3 DEF Inv
  <2> QED BY <2>1, <2>2
<1>6. ASSUME NEW t \in Ids, SettleWrite(t) PROVE Inv'
  <2>1. Move(t, "finalized", "write_confirmed", NumChunks) /\ UNCHANGED <<handler, chain, faults>> /\ step = "settle"
    BY <1>6 DEF SettleWrite
  <2>2. StoreOK' /\ journal' # None /\ journal'.artifact = want
    BY <1>0, <1>1, <1>3, <2>1, AllChunks, MoveType DEF Statuses
  <2>3. HandlerOK' BY <1>0, <1>3, <2>1, <2>2, GoesOn DEF handler, Owning, Sending, HandlerOK
  <2> QED BY <1>0, <1>3, <2>1, <2>2, <2>3 DEF Inv
<1>7. CASE DeploysDone
  <2>1. UNCHANGED <<store, chain, faults>> /\ (Return \/ Goto("buffer")) /\ step = "deploys"
    BY <1>7 DEF DeploysDone
  <2>2. StoreOK' BY <1>0, <1>3, <2>1, StoreStays
  <2>3. HandlerOK'
    BY <1>0, <1>1, <1>3, <2>1, ReturnHandler, GoesOn DEF Goto, Owning, Sending, HandlerOK, store
  <2> QED BY <1>0, <1>3, <2>1, <2>2, <2>3 DEF Inv
<1>8. CASE WritesDone
  <2>1. UNCHANGED <<chain, faults>> /\ step = "writes"
    BY <1>8 DEF WritesDone
  <2>2. \/ UNCHANGED store /\ (Return \/ Goto("write"))
        \/ Progress("buffer_ready", Completed) /\ UNCHANGED attempt /\ Goto("write")
    BY <1>8 DEF WritesDone
  <2>3. StoreOK' /\ journal' # None /\ journal'.artifact = want
    <3>1. CASE UNCHANGED store BY <1>0, <1>1, <1>3, <2>1, <3>1, StoreStays DEF store
    <3>2. CASE Progress("buffer_ready", Completed) /\ UNCHANGED attempt
      <4>1. /\ journal' \in Journals /\ journal' # None
            /\ journal'.buffer = journal.buffer /\ journal'.artifact = journal.artifact
        BY <1>0, <1>1, <2>1, <3>2, ProgressType DEF StoreOK, Statuses
      <4> QED BY <1>0, <1>1, <1>3, <2>1, <3>2, <4>1 DEF StoreOK
    <3> QED BY <2>2, <3>1, <3>2
  <2>4. HandlerOK'
    BY <1>0, <1>3, <2>1, <2>2, <2>3, ReturnHandler, GoesOn DEF Goto, Owning, Sending, HandlerOK
  <2> QED BY <1>0, <1>3, <2>1, <2>3, <2>4 DEF Inv
<1>9. CASE BufferMissing
  <2>1. UNCHANGED chain /\ step = "buffer" /\ faults' \in 0..MaxFaults
    BY <1>0, <1>9, FaultType DEF BufferMissing
  <2>2. CASE UNCHANGED store /\ (Return \/ Goto("create"))
    <3>1. StoreOK' BY <1>0, <1>3, <2>1, <2>2, StoreStays
    <3>2. HandlerOK'
      BY <1>0, <1>3, <2>1, <2>2, ReturnHandler, GoesOn DEF Goto, Owning, Sending, HandlerOK
    <3> QED BY <1>3, <2>1, <3>1, <3>2 DEF Inv
  <2>3. CASE ~(UNCHANGED store /\ (Return \/ Goto("create")))
    <3>1. Reconcile(journal.buffer, "create_buffer_reconcile", 0, ~BufferExists(journal.buffer), "create")
      BY <1>9, <2>3 DEF BufferMissing
    <3>2. PICK to : Move(journal.buffer, to, "create_buffer_reconcile", 0) /\ (Return \/ Goto("create"))
      BY <2>3, <3>1 DEF Reconcile
    <3>3. StoreOK'
      BY <1>0, <1>1, <1>2, <1>3, <2>1, <3>2, MoveType, DeployAssumption DEF Statuses
    <3>4. HandlerOK'
      BY <1>0, <1>3, <2>1, <3>2, ReturnHandler, GoesOn DEF Goto, HandlerOK
    <3> QED BY <1>3, <2>1, <3>3, <3>4 DEF Inv
  <2> QED BY <2>2, <2>3
<1>10. ASSUME NEW seen \in SUBSET Chunks, BufferRead(seen) PROVE Inv'
  <2>1. UNCHANGED chain /\ step = "buffer" /\ faults' \in 0..MaxFaults
    BY <1>0, <1>10, FaultType DEF BufferRead
  <2>2. \/ UNCHANGED store
        \/ Move(journal.buffer, "finalized", "buffer_ready", Cardinality(seen))
    BY <1>10 DEF BufferRead
  <2>3. Return \/ (step' = "writes" /\ todo' = Chunks \ seen /\ UNCHANGED <<want, cur>>)
    BY <1>10 DEF BufferRead
  <2>4. StoreOK' /\ journal' # None /\ journal'.artifact = want
    <3>1. Cardinality(seen) \in 0..NumChunks BY CountChunks
    <3>2. CASE UNCHANGED store BY <1>0, <1>1, <1>3, <2>1, <3>2, StoreStays DEF store
    <3>3. CASE Move(journal.buffer, "finalized", "buffer_ready", Cardinality(seen))
      BY <1>0, <1>1, <1>2, <1>3, <2>1, <3>1, <3>3, MoveType DEF Statuses
    <3> QED BY <2>2, <3>2, <3>3
  <2>5. HandlerOK'
    BY <1>0, <1>3, <2>1, <2>3, <2>4, ReturnHandler, GoesOn DEF Owning, Sending
  <2> QED BY <1>3, <2>1, <2>4, <2>5 DEF Inv
<1> QED BY <1>4, <1>5, <1>6, <1>7, <1>8, <1>9, <1>10

\* A step that signs or sends.
LEMMA SendingType ==
  ASSUME Inv,
         \/ CreateBuffer \/ Send \/ Unconfirmed \/ Created \/ CreateSettled
         \/ WriteChunk \/ WriteConfirmed \/ BufferWait \/ BufferFinalized
         \/ Deploy \/ DeployLanded \/ ReadBack
  PROVE  Inv'
<1> USE DEF Statuses
<1>0. ChainOK /\ StoreOK /\ HandlerOK /\ faults \in 0..MaxFaults /\ Completed \in 0..NumChunks
  BY CompletedType DEF Inv
<1>1. step \in Owning => journal # None /\ journal.artifact = want /\ journal \in Journals
  BY <1>0 DEF HandlerOK, Own, StoreOK
<1>2. step \in Sending =>
          /\ cur \in 1..last /\ cur \in Ids
          /\ kind[cur].buffer = journal.buffer /\ kind[cur].artifact = want
          /\ kind[cur].stage = "write" => kind[cur].chunk \in todo
          /\ step = "created" => kind[cur].stage = "create_buffer"
          /\ step = "readback" => kind[cur].stage = "deploy" /\ fate[cur] = "ok"
  BY <1>0, DeployAssumption DEF HandlerOK, ChainOK, Ids
<1>3. UNCHANGED chain => ChainOK' /\ last' = last BY <1>0, ChainStays DEF chain
<1>4. Sending \subseteq Owning /\ 0 \in 0..NumChunks /\ NumChunks \in 0..NumChunks
  BY DeployAssumption, AllChunks DEF Sending, Owning
\* What is recorded of the transaction that is being sent.
<1>5. ASSUME NEW to, NEW status \in Statuses, NEW n \in 0..NumChunks, Move(cur, to, status, n),
             step \in Sending, UNCHANGED last
      PROVE  StoreOK' /\ journal' # None /\ journal'.buffer = journal.buffer /\ journal'.artifact = want
  BY <1>0, <1>1, <1>2, <1>4, <1>5, MoveType
<1>6. CASE CreateBuffer
  <2>1. step = "create" /\ want \in Artifacts BY <1>0, <1>6 DEF CreateBuffer, HandlerOK
  <2>2. last + 1 \in 1..(last + 1) BY <1>0, DeployAssumption DEF ChainOK
  <2>3. /\ ChainOK' /\ last \in 0..MaxTx /\ last + 1 \in Ids /\ last' = last + 1 /\ cur' = last + 1
        /\ kind'[last + 1] = [stage |-> "create_buffer", chunk |-> None, buffer |-> last + 1,
                              artifact |-> want]
    BY <1>0, <1>6, <2>1, <2>2, SignType DEF CreateBuffer, Stages
  <2>4. /\ journal' = [artifact |-> want, buffer |-> last + 1,
                       status |-> "create_buffer_signed", completed |-> 0]
        /\ step' = "send" /\ UNCHANGED <<want, todo, faults>>
    BY <1>6 DEF CreateBuffer, Sign
  <2>5. journal' \in Journals /\ journal' # None
    BY <1>4, <2>1, <2>3, <2>4, DeployAssumption DEF Journals
  <2>6. attempt' \in [Ids -> Attempts] /\ \A t \in Ids : t > last' => attempt'[t] = "none"
    <3>1. \/ attempt' = [attempt EXCEPT ![last + 1] = "signed"]
          \/ attempt' = [t \in Ids |-> IF t = last + 1 THEN "signed" ELSE "none"]
      BY <1>6 DEF CreateBuffer
    <3>2. CASE attempt' = [attempt EXCEPT ![last + 1] = "signed"]
      BY <1>0, <2>3, <3>2 DEF StoreOK, Attempts, Ids
    <3>3. CASE attempt' = [t \in Ids |-> IF t = last + 1 THEN "signed" ELSE "none"]
      BY <1>0, <2>3, <3>3 DEF Attempts, Ids
    <3> QED BY <3>1, <3>2, <3>3
  <2>7. StoreOK' BY <2>3, <2>4, <2>5, <2>6 DEF StoreOK, Ids
  <2>8. HandlerOK'
    <3>1. cur' \in 1..last' /\ cur' = last + 1 BY <2>3
    <3> QED BY <1>0, <2>1, <2>3, <2>4, <2>5, <3>1 DEF HandlerOK, Owning, Sending, Own
  <2> QED BY <1>0, <2>3, <2>4, <2>7, <2>8 DEF Inv
<1>7. CASE Send
  <2>1. /\ step = "send" /\ step' = "outcome" /\ UNCHANGED <<store, kind, last, faults, want, todo, cur>>
        /\ fate' = [fate EXCEPT ![cur] = IF @ = "signed" THEN "sent" ELSE @]
    BY <1>7 DEF Send, Goto
  <2>2. ChainOK' BY <1>0, <1>2, <2>1 DEF ChainOK, Sending
  <2>3. StoreOK' BY <1>0, <2>1, StoreStays
  <2>4. HandlerOK' BY <1>0, <1>1, <1>2, <2>1 DEF HandlerOK, Sending, Owning, Own, store
  <2> QED BY <1>0, <2>1, <2>2, <2>3, <2>4 DEF Inv
<1>8. CASE Unconfirmed
  <2>1. UNCHANGED chain /\ Return /\ faults' \in 0..MaxFaults /\ step \in Sending
    BY <1>0, <1>8, FaultType DEF Unconfirmed, Sending
  <2>2. kind[cur].stage \in Stages BY <1>0, <1>2, <2>1 DEF ChainOK, Kinds
  <2>3. PICK status \in Statuses, n \in 0..NumChunks : Move(cur, "requires_reconciliation", status, n)
    BY <1>0, <1>4, <1>8, <2>2 DEF Unconfirmed, Stages
  <2>4. StoreOK' BY <1>3, <1>5, <2>1, <2>3
  <2> QED BY <1>3, <2>1, <2>4, ReturnHandler DEF Inv
<1>9. CASE Created
  <2>1. UNCHANGED <<chain, faults>> /\ step = "outcome" /\ Goto("created") /\ kind[cur].stage = "create_buffer"
    BY <1>9 DEF Created
  <2>2. StoreOK' /\ journal' # None /\ journal'.buffer = journal.buffer /\ journal'.artifact = want
    BY <1>3, <1>4, <1>5, <1>9, <2>1 DEF Created, Sending
  <2>3. HandlerOK'
    BY <1>0, <1>2, <2>1, <2>2 DEF HandlerOK, Goto, chain, Sending, Owning, Own
  <2> QED BY <1>0, <1>3, <2>1, <2>2, <2>3 DEF Inv
<1>10. CASE CreateSettled
  <2>1. UNCHANGED <<chain, faults>> /\ step = "created" /\ Goto("write") BY <1>10 DEF CreateSettled
  <2>2. StoreOK' /\ journal' # None /\ journal'.artifact = want
    BY <1>3, <1>4, <1>5, <1>10, <2>1 DEF CreateSettled, Sending
  <2>3. HandlerOK' BY <1>0, <1>3, <2>1, <2>2, GoesOn DEF HandlerOK, Goto, Sending, Owning
  <2> QED BY <1>0, <1>3, <2>1, <2>2, <2>3 DEF Inv
<1>11. CASE WriteChunk
  <2>1. Min(todo) \in todo /\ Min(todo) \in Chunks
    BY <1>0, <1>11, MinChunk DEF WriteChunk, HandlerOK
  <2> QED BY <1>11, <2>1, BeginType DEF WriteChunk, Owning, Stages
<1>12. CASE WriteConfirmed
  <2>1. /\ UNCHANGED <<chain, want, cur, faults>> /\ step = "outcome" /\ step' = "write"
        /\ todo' = todo \ {kind[cur].chunk} /\ kind[cur].stage = "write"
        /\ Move(cur, "confirmed", "write_confirmed", Completed + 1)
    BY <1>12 DEF WriteConfirmed
  <2>2. Completed + 1 \in 0..NumChunks BY <1>0, <1>2, <2>1, CompletedType DEF Sending
  <2>3. StoreOK' /\ journal' # None /\ journal'.artifact = want
    BY <1>3, <1>5, <2>1, <2>2 DEF Sending
  <2>4. HandlerOK' BY <1>0, <1>3, <2>1, <2>3, GoesOn DEF HandlerOK, Sending, Owning
  <2> QED BY <1>0, <1>3, <2>1, <2>3, <2>4 DEF Inv
<1>13. CASE BufferWait
  <2>1. UNCHANGED <<store, chain, faults>> /\ step = "write" /\ (Return \/ Goto("settle"))
    BY <1>13 DEF BufferWait
  <2>2. StoreOK' BY <1>0, <1>3, <2>1, StoreStays
  <2>3. HandlerOK'
    BY <1>0, <1>1, <1>3, <2>1, ReturnHandler, GoesOn DEF HandlerOK, Goto, Sending, Owning, store
  <2> QED BY <1>0, <1>3, <2>1, <2>2, <2>3 DEF Inv
<1>14. CASE BufferFinalized
  <2>1. UNCHANGED <<attempt, chain, faults>> /\ step = "settle" /\ Goto("deploy")
        /\ Progress("buffer_finalized", NumChunks)
    BY <1>14 DEF BufferFinalized
  <2>2. /\ journal' \in Journals /\ journal' # None
        /\ journal'.buffer = journal.buffer /\ journal'.artifact = want
    BY <1>1, <1>4, <2>1, ProgressType DEF Owning
  <2>3. StoreOK' BY <1>0, <1>1, <1>3, <2>1, <2>2 DEF StoreOK, Owning
  <2>4. HandlerOK' BY <1>0, <1>3, <2>1, <2>2, GoesOn DEF HandlerOK, Goto, Sending, Owning
  <2> QED BY <1>0, <1>3, <2>1, <2>3, <2>4 DEF Inv
<1>15. CASE Deploy
  BY <1>15, BeginType DEF Deploy, Owning, Stages
<1>16. CASE DeployLanded
  <2>1. /\ UNCHANGED <<chain, faults>> /\ step = "outcome" /\ Goto("readback")
        /\ kind[cur].stage = "deploy" /\ fate[cur] = "ok"
        /\ Move(cur, "confirmed", "deploy_finalized", NumChunks)
    BY <1>16 DEF DeployLanded
  <2>2. StoreOK' /\ journal' # None /\ journal'.buffer = journal.buffer /\ journal'.artifact = want
    BY <1>3, <1>4, <1>5, <2>1 DEF Sending
  <2>3. HandlerOK'
    BY <1>0, <1>2, <2>1, <2>2 DEF HandlerOK, Goto, chain, Sending, Owning, Own
  <2> QED BY <1>0, <1>3, <2>1, <2>2, <2>3 DEF Inv
<1>17. CASE ReadBack
  <2>1. /\ UNCHANGED <<chain, faults>> /\ step = "readback" /\ Return
        /\ Move(cur, "finalized", "finalized", NumChunks)
    BY <1>17 DEF ReadBack
  <2>2. StoreOK' BY <1>3, <1>4, <1>5, <2>1 DEF Sending
  <2> QED BY <1>0, <1>3, <2>1, <2>2, ReturnHandler DEF Inv
<1> QED BY <1>6, <1>7, <1>8, <1>9, <1>10, <1>11, <1>12, <1>13, <1>14, <1>15, <1>16, <1>17

\* The cluster decides about a transaction it had not decided about.
LEMMA ClusterType ==
  ASSUME Inv, NEW t \in Ids, Land(t) \/ Root(t) \/ Fork(t) \/ Expire(t)
  PROVE  /\ Inv'
         /\ UNCHANGED <<store, kind, last, handler>>
         /\ fate[t] \notin {"none", "ok", "failed", "dead"}
         /\ \A u \in Ids : u # t => fate'[u] = fate[u]
<1>0. ChainOK /\ StoreOK /\ HandlerOK /\ faults \in 0..MaxFaults BY DEF Inv
<1>1. PICK f \in {"sent", "landed", "failing", "ok", "failed", "dead"} : Becomes(t, f)
  BY DEF Land, Root, Fork, Expire
<1>2. fate[t] \notin {"none", "ok", "failed", "dead"}
  BY DEF Land, Root, Fork, Expire
<1>3. faults' \in 0..MaxFaults BY <1>0, FaultType DEF Land, Root, Fork, Expire
<1>4. UNCHANGED <<store, kind, last, handler>> /\ fate' = [fate EXCEPT ![t] = f]
  BY <1>1 DEF Becomes
<1>5. ChainOK' BY <1>0, <1>2, <1>4 DEF ChainOK
<1>6. StoreOK' BY <1>0, <1>4, StoreStays
<1>7. HandlerOK' BY <1>0, <1>2, <1>4 DEF HandlerOK, ChainOK, handler, store, Own
<1> QED BY <1>0, <1>2, <1>3, <1>4, <1>5, <1>6, <1>7 DEF Inv, ChainOK

LEMMA InvNext == Inv /\ [Next]_vars => Inv'
<1> SUFFICES ASSUME Inv, [Next]_vars PROVE Inv'
  OBVIOUS
<1>0. ChainOK /\ StoreOK /\ HandlerOK /\ faults \in 0..MaxFaults BY DEF Inv
<1>1. CASE Request BY <1>1, RequestType DEF Request
<1>2. CASE Handler BY <1>2, RecoveryType, SendingType DEF Handler
<1>3. CASE Stop
  BY <1>0, <1>3, ChainStays, StoreStays, ReturnHandler, FaultType DEF Stop, Inv, chain
<1>4. CASE Cluster \/ \E t \in Ids : Fork(t) \/ Expire(t)
  BY <1>4, ClusterType DEF Cluster
<1>5. CASE UNCHANGED vars
  <2>1. UNCHANGED <<store, chain, handler, faults, last>> BY <1>5 DEF vars, chain
  <2>2. HandlerOK' BY <1>0, <2>1 DEF HandlerOK, handler, store, chain, Own
  <2> QED BY <1>0, <2>1, <2>2, ChainStays, StoreStays DEF Inv
<1> QED BY <1>1, <1>2, <1>3, <1>4, <1>5 DEF Next

LEMMA InvHolds == Spec => []Inv
BY InvInit, InvNext, PTL DEF Spec

\* The journal, the handler and the transactions keep their types (main.rs 16336-17664,
\* wallet_store.rs 1138-1446).
THEOREM TypeCorrect == Spec => []TypeOK
BY InvHolds, InvType, PTL

--------------------------------------------------------------------------------
(* What a step makes of the transactions and of their records. *)

\* Of the transactions signed before the step.
Decided(t) == fate[t] \in {"ok", "failed", "dead"}

LEMMA ChainStep ==
  ASSUME Inv, [Next]_vars
  PROVE  /\ last \in Nat /\ 1..last \subseteq Ids
         /\ \A t \in 1..last : kind'[t] = kind[t] /\ (Decided(t) => fate'[t] = fate[t])
         /\ \/ last' = last
            \/ last' = last + 1 /\ fate'[last + 1] = "signed" /\ (CreateBuffer \/ WriteChunk \/ Deploy)
<1> USE DEF Decided
<1>0. /\ ChainOK /\ StoreOK /\ HandlerOK /\ last \in Nat /\ 1..last \subseteq Ids /\ last + 1 \notin 1..last
      /\ want \in Artifacts \/ step = "idle"
  BY DeployAssumption DEF Inv, ChainOK, HandlerOK, Ids
<1>1. CASE UNCHANGED <<kind, fate, last>> BY <1>0, <1>1
<1>2. CASE CreateBuffer
  <2>1. Sign("create_buffer", None, last + 1) /\ want \in Artifacts /\ last + 1 \in 1..(last + 1)
    BY <1>0, <1>2 DEF CreateBuffer
  <2> QED BY <1>0, <1>2, <2>1, SignType DEF Stages
<1>3. CASE WriteChunk
  <2>1. Sign("write", Min(todo), journal.buffer) /\ step = "write" /\ todo # {} BY <1>3 DEF WriteChunk, Begin
  <2>2. Min(todo) \in Chunks /\ want \in Artifacts /\ journal.buffer \in 1..(last + 1)
    BY <1>0, <2>1, MinChunk DEF HandlerOK, StoreOK, Owning, Own, Journals, Ids
  <2> QED BY <1>0, <1>3, <2>1, <2>2, SignType DEF Stages
<1>4. CASE Deploy
  <2>1. Sign("deploy", None, journal.buffer) /\ step = "deploy" BY <1>4 DEF Deploy, Begin
  <2>2. want \in Artifacts /\ journal.buffer \in 1..(last + 1)
    BY <1>0, <2>1 DEF HandlerOK, StoreOK, Owning, Own, Journals, Ids
  <2> QED BY <1>0, <1>4, <2>1, <2>2, SignType DEF Stages
<1>5. CASE Send
  <2>1. UNCHANGED <<kind, last>> /\ fate' = [fate EXCEPT ![cur] = IF @ = "signed" THEN "sent" ELSE @]
    BY <1>5 DEF Send
  <2> QED BY <1>0, <2>1 DEF ChainOK
<1>6. ASSUME NEW t \in Ids, Land(t) \/ Root(t) \/ Fork(t) \/ Expire(t)
      PROVE  /\ UNCHANGED <<kind, last>>
             /\ \A u \in Ids : fate[u] \in {"ok", "failed", "dead"} => fate'[u] = fate[u]
  BY <1>6, ClusterType
<1>7. Request \/ Stop \/ UNCHANGED vars => UNCHANGED <<kind, fate, last>>
  BY DEF Request, Start, Adopt, Stop, vars, chain
<1>8. Handler => UNCHANGED <<kind, fate, last>> \/ CreateBuffer \/ WriteChunk \/ Deploy \/ Send
  BY DEF Handler, ReconcileDeploy, ReconcileWrite, SettleWrite, DeploysDone, WritesDone, BufferRead,
         BufferMissing, Unconfirmed, Created, CreateSettled, WriteConfirmed, BufferWait, BufferFinalized,
         DeployLanded, ReadBack, chain
<1> QED BY <1>0, <1>1, <1>2, <1>3, <1>4, <1>5, <1>6, <1>7, <1>8 DEF Next, Cluster

LEMMA WrittenFacts ==
  ASSUME Inv
  PROVE  /\ \A b, c : c \in Written(b) <=> \E t \in 1..last : /\ fate[t] = "ok" /\ kind[t].stage = "write"
                                                              /\ kind[t].buffer = b /\ kind[t].chunk = c
         /\ \A b : Written(b) \subseteq Chunks
<1>0. \A t \in Ids : fate[t] = "ok" => t \in 1..last
  BY DeployAssumption DEF Inv, ChainOK, Ids
<1>1. 1..last \subseteq Ids BY DeployAssumption DEF Inv, ChainOK, Ids
<1>2. \A b, c : c \in Written(b) <=> \E t \in 1..last : /\ fate[t] = "ok" /\ kind[t].stage = "write"
                                                        /\ kind[t].buffer = b /\ kind[t].chunk = c
  BY <1>0, <1>1 DEF Written, Rooted
<1>3. \A b : Written(b) \subseteq Chunks BY <1>2 DEF Inv, ChainOK
<1> QED BY <1>2, <1>3

LEMMA WrittenGrows ==
  ASSUME Inv, [Next]_vars
  PROVE  \A b, c : c \in Written(b) => c \in Written(b)'
<1> SUFFICES ASSUME NEW b, NEW c, c \in Written(b) PROVE c \in Written(b)'
  OBVIOUS
<1>1. PICK t \in 1..last : /\ fate[t] = "ok" /\ kind[t].stage = "write"
                           /\ kind[t].buffer = b /\ kind[t].chunk = c
  BY WrittenFacts
<1>2. t \in Ids /\ fate'[t] = "ok" /\ kind'[t] = kind[t]
  BY <1>1, ChainStep DEF Decided
<1> QED BY <1>1, <1>2 DEF Written, Rooted

\* The evidence on which an attempt counts as finalized.
Shown(t) == \/ fate[t] = "ok"
            \/ kind[t].stage = "deploy" /\ Deployed # {}
            \/ kind[t].stage = "write" /\ step = "writes" /\ kind[t].chunk \notin todo
            \/ kind[t].stage = "write" /\ step = "settle"

Rerecorded(t) ==
    \/ attempt'[t] = attempt[t]
    \/ t \in Active /\ \/ attempt'[t] \in {"confirmed", "requires_reconciliation"}
                       \/ attempt'[t] = "expired_absent" /\ fate[t] = "dead"
                       \/ attempt'[t] = "finalized_failed" /\ fate[t] = "failed"
                       \/ attempt'[t] = "finalized" /\ Shown(t)

LEMMA MoveRecords ==
  ASSUME Inv, NEW t \in Ids, NEW to, NEW status, NEW n, Move(t, to, status, n), UNCHANGED last, journal # None,
         \/ to \in {"confirmed", "requires_reconciliation"}
         \/ to = "expired_absent" /\ fate[t] = "dead"
         \/ to = "finalized_failed" /\ fate[t] = "failed"
         \/ to = "finalized" /\ Shown(t)
  PROVE  /\ \A u \in 1..last : Rerecorded(u)
         /\ journal'.buffer = journal.buffer /\ journal'.artifact = journal.artifact
         /\ journal'.status = status
<1>1. journal \in Journals /\ attempt \in [Ids -> Attempts] /\ 1..last \subseteq Ids
  BY DeployAssumption DEF Inv, StoreOK, ChainOK, Ids
<1>2. to \in Follows(attempt[t]) /\ attempt' = [attempt EXCEPT ![t] = to] /\ Progress(status, n)
  BY DEF Move
<1>3. t \in Active BY <1>2 DEF Follows, Active
<1>4. journal'.buffer = journal.buffer /\ journal'.artifact = journal.artifact /\ journal'.status = status
  BY <1>1, <1>2 DEF Progress, Journals
<1> QED BY <1>1, <1>2, <1>3, <1>4 DEF Rerecorded

LEMMA ReconcileRecords ==
  ASSUME Inv, NEW t \in Ids, NEW status, NEW n, NEW unchanged, NEW next, Reconcile(t, status, n, unchanged, next),
         UNCHANGED last, journal # None
  PROVE  /\ \A u \in 1..last : Rerecorded(u)
         /\ journal'.buffer = journal.buffer /\ journal'.artifact = journal.artifact
         /\ journal'.status \in {journal.status, status}
<1>1. CASE UNCHANGED store BY <1>1 DEF Rerecorded, store
<1>2. ASSUME NEW to, Move(t, to, status, n),
             \/ to = "expired_absent" /\ fate[t] = "dead"
             \/ to = "finalized_failed" /\ fate[t] = "failed"
             \/ to = "finalized" /\ fate[t] = "ok"
      PROVE  /\ \A u \in 1..last : Rerecorded(u)
             /\ journal'.buffer = journal.buffer /\ journal'.artifact = journal.artifact
             /\ journal'.status \in {journal.status, status}
  BY <1>2, MoveRecords DEF Shown
<1> QED BY <1>1, <1>2 DEF Reconcile

LEMMA RecordStep ==
  ASSUME Inv, [Next]_vars, ~CreateBuffer
  PROVE  /\ \A t \in 1..last : Rerecorded(t)
         /\ journal' # journal => journal # None
         /\ journal'.buffer = journal.buffer /\ journal'.artifact = journal.artifact
         /\ last' # last => kind'[last + 1].buffer = journal.buffer /\ attempt'[last + 1] = "signed"
<1> DEFINE Fine == /\ \A t \in 1..last : Rerecorded(t)
                   /\ journal' # journal => journal # None
                   /\ journal'.buffer = journal.buffer /\ journal'.artifact = journal.artifact
                   /\ last' # last => kind'[last + 1].buffer = journal.buffer /\ attempt'[last + 1] = "signed"
<1>0. /\ ChainOK /\ StoreOK /\ HandlerOK /\ last \in Nat /\ 1..last \subseteq Ids
      /\ step \in Owning => journal # None /\ journal.artifact = want
  BY DeployAssumption DEF Inv, ChainOK, HandlerOK, Ids, Own
<1>1. ASSUME UNCHANGED <<store, last>> PROVE Fine
  BY <1>1 DEF Rerecorded, store
<1>2. ASSUME NEW t \in Ids, NEW to, NEW status, NEW n, Move(t, to, status, n), UNCHANGED last, journal # None,
             \/ to \in {"confirmed", "requires_reconciliation"}
             \/ to = "finalized" /\ Shown(t)
      PROVE  Fine
  BY <1>2, MoveRecords
<1>3. ASSUME NEW stage, NEW chunk, NEW status, Begin(stage, chunk, status), step \in Owning PROVE Fine
  <2>1. /\ kind' = [kind EXCEPT ![last + 1] = [stage |-> stage, chunk |-> chunk, buffer |-> journal.buffer,
                                                artifact |-> want]]
        /\ attempt' = [attempt EXCEPT ![last + 1] = "signed"]
        /\ Progress(status, Completed) /\ last < MaxTx
    BY <1>3 DEF Begin, Sign
  <2>2. last + 1 \in Ids /\ last + 1 \notin 1..last BY <1>0, <2>1, DeployAssumption DEF Ids
  <2>3. kind'[last + 1].buffer = journal.buffer /\ attempt'[last + 1] = "signed"
    BY <1>0, <2>1, <2>2 DEF ChainOK, StoreOK
  <2>4. \A t \in 1..last : attempt'[t] = attempt[t] BY <1>0, <2>1, <2>2 DEF StoreOK
  <2>5. journal # None /\ journal'.buffer = journal.buffer /\ journal'.artifact = journal.artifact
    BY <1>0, <1>3, <2>1 DEF Progress, StoreOK, Journals
  <2> QED BY <2>3, <2>4, <2>5 DEF Rerecorded
<1>4. CASE Request
  <2>1. ASSUME NEW a \in Artifacts, Start(a) PROVE Fine
    BY <1>1, <2>1 DEF Start, chain
  <2>2. ASSUME NEW a \in Artifacts, Adopt(a) PROVE Fine
    <3>1. /\ journal # None /\ Deployed # {} /\ last' = last
          /\ journal' = [journal EXCEPT !.status = "finalized"]
          /\ attempt' = [t \in Ids |-> IF t \in Recorded("deploy") \cap Active THEN "finalized" ELSE attempt[t]]
      BY <2>2 DEF Adopt, chain
    <3>2. \A t \in 1..last : Rerecorded(t) BY <1>0, <3>1 DEF Rerecorded, Recorded, Shown
    <3>3. journal'.buffer = journal.buffer /\ journal'.artifact = journal.artifact
      BY <1>0, <3>1 DEF StoreOK, Journals
    <3> QED BY <3>1, <3>2, <3>3
  <2> QED BY <1>4, <2>1, <2>2 DEF Request
<1>5. CASE Stop \/ UNCHANGED vars BY <1>1, <1>5 DEF Stop, vars, chain
<1>6. CASE Cluster \/ \E t \in Ids : Fork(t) \/ Expire(t)
  BY <1>1, <1>6, ClusterType DEF Cluster
<1>7. CASE Handler
  <2>1. ASSUME NEW t \in Ids, ReconcileDeploy(t) PROVE Fine
    BY <1>0, <2>1, ReconcileRecords DEF ReconcileDeploy, Owning, chain
  <2>2. ASSUME NEW t \in Ids, ReconcileWrite(t) PROVE Fine
    <3>1. CASE kind[t].chunk \in todo
      BY <1>0, <2>2, <3>1, ReconcileRecords DEF ReconcileWrite, Owning, chain
    <3>2. CASE kind[t].chunk \notin todo
      <4>1. Shown(t) BY <2>2, <3>2 DEF ReconcileWrite, Recorded, Shown
      <4> QED BY <1>0, <1>2, <2>2, <3>2, <4>1 DEF ReconcileWrite, Owning, chain
    <3> QED BY <3>1, <3>2
  <2>3. ASSUME NEW t \in Ids, SettleWrite(t) PROVE Fine
    <3>1. Shown(t) BY <2>3 DEF SettleWrite, Recorded, Shown
    <3> QED BY <1>0, <1>2, <2>3, <3>1 DEF SettleWrite, Owning, chain
  <2>4. CASE DeploysDone \/ BufferWait \/ Send
    BY <1>1, <2>4 DEF DeploysDone, BufferWait, Send, chain
  <2>5. ASSUME NEW status, NEW n, Progress(status, n), UNCHANGED <<attempt, last>>, step \in Owning PROVE Fine
    BY <1>0, <2>5 DEF Progress, StoreOK, Journals, Rerecorded
  <2>6. CASE WritesDone \/ BufferFinalized
    BY <1>1, <2>5, <2>6 DEF WritesDone, BufferFinalized, Owning, chain
  <2>7. ASSUME NEW seen \in SUBSET Chunks, BufferRead(seen) PROVE Fine
    <3>1. CASE UNCHANGED store BY <1>1, <2>7, <3>1 DEF BufferRead, chain
    <3>2. CASE ~UNCHANGED store
      <4>1. Move(journal.buffer, "finalized", "buffer_ready", Cardinality(seen)) /\ fate[journal.buffer] = "ok"
            /\ journal # None /\ last' = last
        BY <1>0, <2>7, <3>2 DEF BufferRead, BufferExists, Owning, chain
      <4>2. journal.buffer \in Ids BY <1>0, <4>1 DEF StoreOK, Journals
      <4> QED BY <1>2, <4>1, <4>2 DEF Shown
    <3> QED BY <3>1, <3>2
  <2>8. CASE BufferMissing
    <3>1. CASE UNCHANGED store BY <1>1, <2>8, <3>1 DEF BufferMissing, chain
    <3>2. CASE ~UNCHANGED store
      <4>1. /\ Reconcile(journal.buffer, "create_buffer_reconcile", 0, ~BufferExists(journal.buffer), "create")
            /\ journal # None /\ last' = last
        BY <1>0, <2>8, <3>2 DEF BufferMissing, Owning, chain
      <4>2. journal.buffer \in Ids BY <1>0, <4>1 DEF StoreOK, Journals
      <4> QED BY <4>1, <4>2, ReconcileRecords
    <3> QED BY <3>1, <3>2
  <2>9. step \in Sending => cur \in Ids /\ journal # None BY <1>0 DEF HandlerOK, Sending, Owning
  <2>10. CASE Unconfirmed
    <3>1. step \in Sending /\ last' = last BY <2>10 DEF Unconfirmed, Sending, chain
    <3>2. PICK status, n : Move(cur, "requires_reconciliation", status, n) BY <2>10 DEF Unconfirmed
    <3> QED BY <1>2, <2>9, <3>1, <3>2
  <2>11. CASE Created \/ WriteConfirmed \/ DeployLanded
    <3>1. step \in Sending /\ last' = last BY <2>11 DEF Created, WriteConfirmed, DeployLanded, Sending, chain
    <3>2. PICK status, n : Move(cur, "confirmed", status, n) BY <2>11 DEF Created, WriteConfirmed, DeployLanded
    <3> QED BY <1>2, <2>9, <3>1, <3>2
  <2>12. CASE CreateSettled \/ ReadBack
    <3>1. step \in Sending /\ last' = last BY <2>12 DEF CreateSettled, ReadBack, Sending, chain
    <3>2. fate[cur] = "ok" BY <1>0, <2>12, <3>1 DEF CreateSettled, ReadBack, BufferExists, HandlerOK
    <3>3. PICK status, n : Move(cur, "finalized", status, n) BY <2>12 DEF CreateSettled, ReadBack
    <3> QED BY <1>2, <2>9, <3>1, <3>2, <3>3 DEF Shown
  <2>13. CASE WriteChunk \/ Deploy
    BY <1>3, <2>13 DEF WriteChunk, Deploy, Owning
  <2> QED BY <1>7, <2>1, <2>2, <2>3, <2>4, <2>6, <2>7, <2>8, <2>10, <2>11, <2>12, <2>13 DEF Handler
<1> QED BY <1>4, <1>5, <1>6, <1>7 DEF Next

--------------------------------------------------------------------------------
(* For any binaries: the journal can be loaded. *)

LEMMA LoadsNext == Inv /\ JournalLoads /\ [Next]_vars => JournalLoads'
<1> SUFFICES ASSUME Inv, JournalLoads, [Next]_vars, NEW t \in Ids, attempt'[t] # "none"
             PROVE  LoadsAttempt(t)'
  BY DEF JournalLoads
<1>0. Inv' /\ ChainOK /\ StoreOK /\ StoreOK' /\ last \in Nat BY InvNext, ChainStep DEF Inv
<1>1. t \in 1..last' BY <1>0, DeployAssumption DEF StoreOK, Inv, ChainOK, Ids
<1>2. \A u \in 1..last : attempt[u] # "none" => LoadsAttempt(u)
  BY ChainStep DEF JournalLoads
<1>3. CASE ~CreateBuffer
  <2>1. CASE t \in 1..last
    <3>1. Rerecorded(t) /\ journal'.buffer = journal.buffer /\ kind'[t] = kind[t]
      BY <1>3, <2>1, RecordStep, ChainStep
    <3> QED BY <1>2, <2>1, <3>1 DEF Rerecorded, LoadsAttempt, Active
  <2>2. CASE t \notin 1..last
    <3>1. t = last + 1 /\ last' # last BY <1>0, <1>1, <2>2, ChainStep
    <3> QED BY <1>3, <3>1, RecordStep DEF LoadsAttempt
  <2> QED BY <2>1, <2>2
<1>4. CASE CreateBuffer
  <2>1. /\ journal'.buffer = last + 1
        /\ kind' = [kind EXCEPT ![last + 1] = [stage |-> "create_buffer", chunk |-> None,
                                              buffer |-> last + 1, artifact |-> want]]
        /\ last' = last + 1
    BY <1>4 DEF CreateBuffer, Sign
  <2>2. CASE t = last + 1
    BY <1>0, <2>1, <2>2 DEF LoadsAttempt, ChainOK
  <2>3. CASE t # last + 1
    <3>1. t \in 1..last BY <1>0, <1>1, <2>1, <2>3
    <3>2. attempt'[t] = attempt[t] /\ kind[t].stage = "create_buffer" /\ attempt[t] = "expired_absent"
      <4>1. CASE Own BY <1>0, <1>4, <2>3, <4>1 DEF CreateBuffer, StoreOK
      <4>2. CASE ~Own BY <1>4, <2>3, <4>2 DEF CreateBuffer
      <4> QED BY <4>1, <4>2
    <3>3. kind'[t] = kind[t] BY <3>1, ChainStep
    <3> QED BY <3>2, <3>3 DEF LoadsAttempt
  <2> QED BY <2>2, <2>3
<1> QED BY <1>3, <1>4

\* The journal can always be loaded: no attempt is recorded with another buffer than the journal's,
\* but for creations that never came to be (main.rs 11489-11527, 17147-17270).
THEOREM JournalAlwaysLoads == Spec => []JournalLoads
<1>1. Init => JournalLoads BY DEF Init, JournalLoads
<1> QED BY <1>1, InvHolds, LoadsNext, PTL DEF Spec

--------------------------------------------------------------------------------
(* For any binaries: deployments are of whole buffers. *)

WholeInv == Whole /\ DeploysWholeBuffer

LEMMA WholeStays ==
  ASSUME Inv, [Next]_vars, NEW b, Written(b) = Chunks
  PROVE  Written(b)' = Chunks
<1>1. Inv' BY InvNext
<1>2. \A c : c \in Written(b)' => c \in Chunks
  <2>1. \A t \in Ids : fate'[t] = "ok" => t \in 1..last'
    BY <1>1, DeployAssumption DEF Inv, ChainOK, Ids
  <2> QED BY <1>1, <2>1 DEF Written, Rooted, Inv, ChainOK
<1> QED BY <1>2, WrittenGrows

\* The handler begins to settle only what is whole.
LEMMA SettlesWhole ==
  ASSUME Inv, [Next]_vars, step' \in {"settle", "deploy"}
  PROVE  /\ step \in {"settle", "deploy"} \/ (BufferWait /\ Written(journal.buffer) = Chunks)
         /\ ~CreateBuffer
<1> USE DEF Return, Goto, Sign
<1>1. CASE Handler
  BY <1>1 DEF Handler, ReconcileDeploy, ReconcileWrite, SettleWrite, DeploysDone, WritesDone, BufferRead,
         BufferMissing, Reconcile, CreateBuffer, Send, Unconfirmed, Created, CreateSettled, WriteChunk,
         WriteConfirmed, BufferWait, BufferFinalized, Deploy, DeployLanded, ReadBack, Begin, handler
<1>2. CASE Request
  BY <1>2 DEF Request, Start, Adopt, handler, CreateBuffer
<1>3. CASE Stop \/ UNCHANGED vars
  BY <1>3 DEF Stop, vars, handler, CreateBuffer
<1>4. CASE Cluster \/ \E t \in Ids : Fork(t) \/ Expire(t)
  BY <1>4, ClusterType DEF Cluster, handler, CreateBuffer
<1> QED BY <1>1, <1>2, <1>3, <1>4 DEF Next

DoneDeploy(t) == kind[t].stage = "deploy" /\ fate[t] \in {"landed", "ok"}

\* A deployment only succeeds where none has.
LEMMA DeployLands ==
  ASSUME Inv, [Next]_vars, NEW t \in 1..last', kind'[t].stage = "deploy", fate'[t] \in {"landed", "ok"}
  PROVE  /\ t \in 1..last
         /\ \/ DoneDeploy(t)
            \/ /\ \A u \in 1..last : ~DoneDeploy(u)
               /\ \A u \in 1..last : u # t => fate'[u] = fate[u] /\ kind'[u] = kind[u]
               /\ last' = last
<1>0. ChainOK /\ last \in Nat /\ 1..last \subseteq Ids BY ChainStep DEF Inv
<1>1. t \in 1..last BY <1>0, ChainStep
<1>2. kind'[t] = kind[t] BY <1>1, ChainStep
<1>3. CASE fate'[t] = fate[t] BY <1>1, <1>2, <1>3 DEF DoneDeploy
<1>4. ASSUME NEW u \in Ids, Land(u) \/ Root(u) \/ Fork(u) \/ Expire(u), fate'[t] # fate[t]
      PROVE  \/ DoneDeploy(t)
             \/ /\ \A v \in 1..last : ~DoneDeploy(v)
                /\ \A v \in 1..last : v # t => fate'[v] = fate[v] /\ kind'[v] = kind[v]
                /\ last' = last
  <2>1. u = t /\ (\A v \in Ids : v # u => fate'[v] = fate[v]) /\ UNCHANGED <<kind, last>>
    BY <1>0, <1>1, <1>4, ClusterType
  <2>2. CASE Root(t) BY <1>0, <1>1, <1>2, <2>2 DEF Root, Becomes, DoneDeploy, ChainOK
  <2>3. CASE Land(t)
    <3>1. Succeeds(t) BY <1>0, <1>1, <2>3 DEF Land, Becomes, ChainOK
    <3>2. \A v \in Ids : ~DoneDeploy(v) BY <1>2, <3>1 DEF Succeeds, DoneDeploy
    <3> QED BY <1>0, <2>1, <3>2
  <2>4. CASE Fork(t) \/ Expire(t)
    BY <1>0, <1>1, <2>4 DEF Fork, Expire, Becomes, ChainOK
  <2> QED BY <1>4, <2>1, <2>2, <2>3, <2>4
<1>5. CASE Handler \/ Request \/ Stop \/ UNCHANGED vars
  <2>1. CASE CreateBuffer \/ WriteChunk \/ Deploy
    <3>1. fate' = [fate EXCEPT ![last + 1] = "signed"]
      BY <2>1 DEF CreateBuffer, WriteChunk, Deploy, Begin, Sign
    <3> QED BY <1>0, <1>1, <1>3, <3>1
  <2>2. CASE Send
    BY <1>0, <1>1, <1>3, <2>2 DEF Send, ChainOK
  <2>3. CASE ~(CreateBuffer \/ WriteChunk \/ Deploy \/ Send)
    <3>1. UNCHANGED fate
      BY <1>5, <2>3 DEF Handler, ReconcileDeploy, ReconcileWrite, SettleWrite, DeploysDone, WritesDone,
           BufferRead, BufferMissing, Unconfirmed, Created, CreateSettled, WriteConfirmed, BufferWait,
           BufferFinalized, DeployLanded, ReadBack, Request, Start, Adopt, Stop, vars, chain
    <3> QED BY <1>3, <3>1
  <2> QED BY <2>1, <2>2, <2>3
<1>6. CASE Cluster \/ \E u \in Ids : Fork(u) \/ Expire(u)
  BY <1>1, <1>3, <1>4, <1>6 DEF Cluster
<1> QED BY <1>1, <1>5, <1>6 DEF Next

LEMMA WholeNext == Inv /\ WholeInv /\ [Next]_vars => WholeInv'
<1> SUFFICES ASSUME Inv, WholeInv, [Next]_vars PROVE WholeInv'
  OBVIOUS
<1>0. HandlerOK /\ ChainOK /\ last \in Nat /\ 1..last \subseteq Ids BY ChainStep DEF Inv
<1>1. ASSUME step' \in {"settle", "deploy"} PROVE Written(journal.buffer)' = Chunks
  <2>1. Written(journal.buffer) = Chunks BY <1>1, SettlesWhole DEF WholeInv, Whole
  <2>2. journal'.buffer = journal.buffer BY <1>1, SettlesWhole, RecordStep
  <2>3. PICK b : b = journal.buffer OBVIOUS
  <2>4. Written(b)' = Chunks BY <2>1, <2>3, WholeStays
  <2> QED BY <2>2, <2>3, <2>4 DEF Written, Rooted
<1>2. ASSUME NEW t \in 1..last', NEW u \in 1..last',
             kind'[t].stage = "deploy", fate'[t] \in {"landed", "ok"},
             kind'[u].stage = "deploy", fate'[u] \in {"landed", "ok"}
      PROVE  t = u
  <2>1. t \in 1..last /\ u \in 1..last /\ kind'[t] = kind[t] /\ kind'[u] = kind[u]
    BY <1>2, DeployLands, ChainStep
  <2>2. CASE DoneDeploy(t) /\ DoneDeploy(u) BY <2>1, <2>2 DEF DoneDeploy, WholeInv, Whole
  <2>3. CASE ~DoneDeploy(t)
    <3>1. (\A v \in 1..last : ~DoneDeploy(v)) /\ (\A v \in 1..last : v # t => fate'[v] = fate[v])
      BY <1>2, <2>3, DeployLands
    <3> QED BY <1>2, <2>1, <3>1 DEF DoneDeploy
  <2>4. CASE ~DoneDeploy(u)
    <3>1. (\A v \in 1..last : ~DoneDeploy(v)) /\ (\A v \in 1..last : v # u => fate'[v] = fate[v])
      BY <1>2, <2>4, DeployLands
    <3> QED BY <1>2, <2>1, <3>1 DEF DoneDeploy
  <2> QED BY <2>2, <2>3, <2>4
<1>3. ASSUME NEW t \in 1..last', kind'[t].stage = "deploy"
      PROVE  Written(kind[t].buffer)' = Chunks
  <2>1. CASE t \in 1..last
    <3>1. kind'[t] = kind[t] BY <2>1, ChainStep
    <3>2. PICK b : b = kind[t].buffer OBVIOUS
    <3>3. Written(b)' = Chunks BY <1>3, <2>1, <3>1, <3>2, WholeStays DEF WholeInv, DeploysWholeBuffer
    <3> QED BY <3>1, <3>2, <3>3 DEF Written, Rooted
  <2>2. CASE t \notin 1..last
    <3>1. t = last + 1 /\ last' # last /\ (CreateBuffer \/ WriteChunk \/ Deploy)
      BY <1>0, <2>2, ChainStep
    <3>2. last + 1 \in Ids BY <1>0, <3>1, DeployAssumption DEF CreateBuffer, WriteChunk, Deploy, Begin, Sign, Ids
    <3>3. Deploy /\ kind'[t].buffer = journal.buffer
      BY <1>0, <1>3, <3>1, <3>2 DEF CreateBuffer, WriteChunk, Deploy, Begin, Sign, ChainOK
    <3>4. PICK b : b = journal.buffer OBVIOUS
    <3>5. Written(b)' = Chunks BY <3>3, <3>4, WholeStays DEF WholeInv, Whole, Deploy
    <3> QED BY <3>3, <3>4, <3>5 DEF Written, Rooted
  <2> QED BY <2>1, <2>2
<1> QED BY <1>1, <1>2, <1>3 DEF WholeInv, Whole, DeploysWholeBuffer

LEMMA WholeHolds == Spec => []WholeInv
<1>1. Init => WholeInv
  BY DeployAssumption DEF Init, WholeInv, Whole, DeploysWholeBuffer
<1> QED BY <1>1, InvHolds, WholeNext, PTL DEF Spec

\* A deployment is signed only for a buffer whose every chunk is finalized (main.rs 17476-17582).
THEOREM OnlyWholeBuffers == Spec => []DeploysWholeBuffer
BY WholeHolds, PTL DEF WholeInv

--------------------------------------------------------------------------------
(* For any binaries: the progress the journal claims is there. *)

Claims == {"buffer_finalized", "deploy_signed", "deploy_reconcile", "deploy_finalized", "finalized"}

\* What the handler has before it when it writes such a status.
LEMMA ClaimStep ==
  ASSUME Inv, [Next]_vars, journal' # None, journal'.status \in Claims
  PROVE  /\ journal # None /\ ~CreateBuffer
         /\ \/ journal'.status = journal.status
            \/ journal'.status = "buffer_finalized" /\ step \in {"settle", "deploy"}
            \/ journal'.status = "deploy_signed" /\ step \in {"settle", "deploy"}
            \/ journal'.status \in {"buffer_finalized", "deploy_reconcile"}
                 /\ \E t \in Ids : attempt[t] # "none" /\ kind[t].stage = "deploy"
            \/ journal'.status = "deploy_finalized"
                 /\ step = "outcome" /\ kind[cur].stage = "deploy" /\ fate[cur] = "ok"
            \/ journal'.status = "finalized" /\ Deployed = {journal.artifact}
<1> DEFINE Fine == /\ journal # None
                   /\ \/ journal'.status = journal.status
                      \/ journal'.status = "buffer_finalized" /\ step \in {"settle", "deploy"}
                      \/ journal'.status = "deploy_signed" /\ step \in {"settle", "deploy"}
                      \/ journal'.status \in {"buffer_finalized", "deploy_reconcile"}
                           /\ \E t \in Ids : attempt[t] # "none" /\ kind[t].stage = "deploy"
                      \/ journal'.status = "deploy_finalized"
                           /\ step = "outcome" /\ kind[cur].stage = "deploy" /\ fate[cur] = "ok"
                      \/ journal'.status = "finalized" /\ Deployed = {journal.artifact}
<1>2. ~CreateBuffer BY DEF CreateBuffer, Claims
<1> SUFFICES Fine BY <1>2
<1>0. /\ ChainOK /\ StoreOK /\ HandlerOK
      /\ step \in Owning => journal # None /\ journal.artifact = want
      /\ step \in Sending => cur \in Ids /\ cur \in 1..last
      /\ journal # None => journal \in Journals
  BY DeployAssumption DEF Inv, ChainOK, HandlerOK, StoreOK, Ids, Own
<1>1. ASSUME UNCHANGED journal PROVE Fine BY <1>1
<1>3. ASSUME NEW status, NEW n, Progress(status, n), journal # None PROVE journal'.status = status
  BY <1>0, <1>3 DEF Progress, Journals
<1>4. ASSUME NEW t, NEW to, NEW status, NEW n, Move(t, to, status, n), journal # None
      PROVE  journal'.status = status /\ attempt[t] # "none"
  BY <1>3, <1>4 DEF Move, Follows
<1>5. CASE Request
  <2>1. ASSUME NEW a \in Artifacts, Adopt(a) PROVE Fine
    <3>1. journal' = [journal EXCEPT !.status = "finalized"] /\ Deployed = {journal.artifact} /\ journal # None
      BY <2>1 DEF Adopt
    <3> QED BY <1>0, <3>1 DEF Journals
  <2> QED BY <1>1, <1>2, <1>5, <2>1 DEF Request, Start, store
<1>6. CASE Stop \/ UNCHANGED vars BY <1>1, <1>6 DEF Stop, vars, store
<1>7. CASE Cluster \/ \E t \in Ids : Fork(t) \/ Expire(t)
  BY <1>1, <1>7, ClusterType DEF Cluster, store
<1>8. ASSUME NEW t \in Ids, NEW status \in {"buffer_finalized", "create_buffer_reconcile", "buffer_ready"},
             NEW n, NEW unchanged, NEW next,
             Reconcile(t, status, n, unchanged, next), journal # None,
             status = "buffer_finalized" => attempt[t] # "none" /\ kind[t].stage = "deploy"
      PROVE  Fine
  <2>1. CASE UNCHANGED store BY <1>1, <2>1 DEF store
  <2>2. CASE ~UNCHANGED store
    <3>1. PICK to : Move(t, to, status, n) BY <1>8, <2>2 DEF Reconcile
    <3>2. journal'.status = status BY <1>4, <1>8, <3>1
    <3> QED BY <1>8, <3>2 DEF Claims
  <2> QED BY <2>1, <2>2
<1>9. CASE Handler
  <2>1. ASSUME NEW t \in Ids, ReconcileDeploy(t) PROVE Fine
    BY <1>0, <1>8, <2>1 DEF ReconcileDeploy, Owning, Recorded
  <2>2. ASSUME NEW t \in Ids, ReconcileWrite(t) PROVE Fine
    <3>1. CASE kind[t].chunk \in todo
      BY <1>0, <1>8, <2>2, <3>1 DEF ReconcileWrite, Owning
    <3>2. CASE kind[t].chunk \notin todo
      <4>1. Move(t, "finalized", "buffer_ready", Completed) /\ step = "writes"
        BY <2>2, <3>2 DEF ReconcileWrite
      <4> QED BY <1>0, <1>4, <4>1 DEF Claims, Owning
    <3> QED BY <3>1, <3>2
  <2>3. ASSUME NEW t \in Ids, SettleWrite(t) PROVE Fine
    <3>1. Move(t, "finalized", "write_confirmed", NumChunks) /\ step = "settle" BY <2>3 DEF SettleWrite
    <3> QED BY <1>0, <1>4, <3>1 DEF Claims, Owning
  <2>4. CASE DeploysDone \/ BufferWait \/ Send
    BY <1>1, <2>4 DEF DeploysDone, BufferWait, Send, store
  <2>5. CASE WritesDone \/ BufferFinalized
    <3>1. CASE WritesDone
      <4>1. UNCHANGED store \/ Progress("buffer_ready", Completed) BY <3>1 DEF WritesDone
      <4>2. journal # None BY <1>0, <3>1 DEF WritesDone, Owning
      <4> QED BY <1>1, <1>3, <4>1, <4>2 DEF store, Claims
    <3>2. CASE BufferFinalized BY <1>0, <1>3, <3>2 DEF BufferFinalized, Owning
    <3> QED BY <2>5, <3>1, <3>2
  <2>6. ASSUME NEW seen \in SUBSET Chunks, BufferRead(seen) PROVE Fine
    <3>1. UNCHANGED store \/ Move(journal.buffer, "finalized", "buffer_ready", Cardinality(seen))
      BY <2>6 DEF BufferRead
    <3>2. journal # None BY <1>0, <2>6 DEF BufferRead, Owning
    <3> QED BY <1>1, <1>4, <3>1, <3>2 DEF store, Claims
  <2>7. CASE BufferMissing
    <3>1. journal # None /\ journal.buffer \in Ids BY <1>0, <2>7 DEF BufferMissing, Owning, Journals
    <3>2. \/ UNCHANGED store
          \/ Reconcile(journal.buffer, "create_buffer_reconcile", 0, ~BufferExists(journal.buffer), "create")
      BY <2>7 DEF BufferMissing
    <3> QED BY <1>1, <1>8, <3>1, <3>2 DEF store
  <2>8. CASE Unconfirmed
    <3>1. step \in Sending /\ journal # None /\ kind[cur].stage \in Stages
      BY <1>0, <2>8 DEF Unconfirmed, Sending, Owning, ChainOK, Kinds
    <3>2. CASE kind[cur].stage = "deploy"
      <4>1. PICK n : Move(cur, "requires_reconciliation", "deploy_reconcile", n) BY <2>8, <3>2 DEF Unconfirmed
      <4>2. journal'.status = "deploy_reconcile" /\ attempt[cur] # "none" BY <1>4, <3>1, <4>1
      <4> QED BY <1>0, <3>1, <3>2, <4>2
    <3>3. CASE kind[cur].stage # "deploy"
      <4>1. PICK n : \/ Move(cur, "requires_reconciliation", "create_buffer_reconcile", n)
                     \/ Move(cur, "requires_reconciliation", "write_reconcile", n)
        <5>1. CASE kind[cur].stage = "create_buffer" BY <2>8, <5>1 DEF Unconfirmed
        <5>2. CASE kind[cur].stage = "write" BY <2>8, <5>2 DEF Unconfirmed
        <5> QED BY <3>1, <3>3, <5>1, <5>2 DEF Stages
      <4> QED BY <1>4, <3>1, <4>1 DEF Claims
    <3> QED BY <3>2, <3>3
  <2>9. CASE Created \/ CreateSettled \/ WriteConfirmed
    <3>1. PICK to, n : \/ Move(cur, to, "create_buffer_reconcile", n)
                       \/ Move(cur, to, "buffer_ready", n)
                       \/ Move(cur, to, "write_confirmed", n)
      BY <2>9 DEF Created, CreateSettled, WriteConfirmed
    <3>2. journal # None BY <1>0, <2>9 DEF Created, CreateSettled, WriteConfirmed, Owning
    <3> QED BY <1>4, <3>1, <3>2 DEF Claims
  <2>10. CASE DeployLanded
    BY <1>0, <1>4, <2>10 DEF DeployLanded, Owning
  <2>11. CASE ReadBack
    BY <1>0, <1>4, <2>11 DEF ReadBack, Owning
  <2>12. CASE WriteChunk
    BY <1>0, <1>3, <2>12 DEF WriteChunk, Begin, Owning, Claims
  <2>13. CASE Deploy
    BY <1>0, <1>3, <2>13 DEF Deploy, Begin, Owning
  <2> QED BY <1>2, <1>9, <2>1, <2>2, <2>3, <2>4, <2>5, <2>6, <2>7, <2>8, <2>9, <2>10, <2>11, <2>12, <2>13
          DEF Handler
<1> QED BY <1>2, <1>5, <1>6, <1>7, <1>9 DEF Next

\* What is deployed stays, and nothing else is.
LEMMA DeployedStays ==
  ASSUME Inv, WholeInv, [Next]_vars, NEW a, NEW t \in 1..last, kind[t].stage = "deploy", fate[t] = "ok",
         kind[t].artifact = a
  PROVE  Deployed = {a} /\ Deployed' = {a}
<1>1. Inv' /\ WholeInv' BY InvNext, WholeNext
<1>2. t \in Ids /\ t \in 1..last' /\ kind'[t] = kind[t] /\ fate'[t] = fate[t]
  BY ChainStep DEF Decided
<1>3. \A u \in Ids : fate[u] = "ok" /\ kind[u].stage = "deploy" => u = t
  <2>1. \A u \in Ids : fate[u] = "ok" => u \in 1..last BY DeployAssumption DEF Inv, ChainOK, Ids
  <2> QED BY <2>1 DEF WholeInv, Whole
<1>4. \A u \in Ids : fate'[u] = "ok" /\ kind'[u].stage = "deploy" => u = t
  <2>1. \A u \in Ids : fate'[u] = "ok" => u \in 1..last' BY <1>1, DeployAssumption DEF Inv, ChainOK, Ids
  <2> QED BY <1>1, <1>2, <2>1 DEF WholeInv, Whole
<1> QED BY <1>2, <1>3, <1>4 DEF Deployed, Rooted

LEMMA ProgressNext == Inv /\ WholeInv /\ JournalLoads /\ ProgressIsReal /\ [Next]_vars => ProgressIsReal'
<1> SUFFICES ASSUME Inv, WholeInv, JournalLoads, ProgressIsReal, [Next]_vars, journal' # None,
                    journal'.status \in Claims
             PROVE  /\ journal'.status \in {"buffer_finalized", "deploy_signed", "deploy_reconcile"} =>
                          Written(journal.buffer)' = Chunks
                    /\ journal'.status \in {"deploy_finalized", "finalized"} => Deployed' = {journal'.artifact}
  BY DEF ProgressIsReal, Claims
<1>0. /\ journal # None /\ journal'.buffer = journal.buffer /\ journal'.artifact = journal.artifact
      /\ ChainOK /\ HandlerOK /\ StoreOK
  BY ClaimStep, RecordStep DEF Inv
<1>1. ASSUME Written(journal.buffer) = Chunks PROVE Written(journal.buffer)' = Chunks
  <2>1. PICK b : b = journal.buffer OBVIOUS
  <2>2. Written(b)' = Chunks BY <1>1, <2>1, WholeStays
  <2> QED BY <1>0, <2>1, <2>2 DEF Written, Rooted
<1>2. ASSUME Deployed = {journal.artifact} PROVE Deployed' = {journal'.artifact}
  <2>1. PICK t \in Ids : fate[t] = "ok" /\ kind[t].stage = "deploy" /\ kind[t].artifact = journal.artifact
    BY <1>2 DEF Deployed, Rooted
  <2>2. t \in 1..last BY <1>0, <2>1, DeployAssumption DEF ChainOK, Ids
  <2>3. PICK a : a = journal.artifact OBVIOUS
  <2> QED BY <1>0, <2>1, <2>2, <2>3, DeployedStays
<1>3. CASE journal'.status = journal.status
  BY <1>0, <1>1, <1>2, <1>3 DEF ProgressIsReal
<1>4. CASE journal'.status \in {"buffer_finalized", "deploy_signed"} /\ step \in {"settle", "deploy"}
  BY <1>1, <1>4 DEF WholeInv, Whole
<1>5. CASE /\ journal'.status \in {"buffer_finalized", "deploy_reconcile"}
           /\ \E t \in Ids : attempt[t] # "none" /\ kind[t].stage = "deploy"
  <2>1. PICK t \in Ids : attempt[t] # "none" /\ kind[t].stage = "deploy" BY <1>5
  <2>2. t \in 1..last BY <1>0, <2>1, DeployAssumption DEF StoreOK, ChainOK, Ids
  <2>3. kind[t].buffer = journal.buffer BY <2>1 DEF JournalLoads, LoadsAttempt
  <2> QED BY <1>1, <1>5, <2>1, <2>2, <2>3 DEF WholeInv, DeploysWholeBuffer
<1>6. CASE journal'.status = "deploy_finalized" /\ step = "outcome" /\ kind[cur].stage = "deploy" /\ fate[cur] = "ok"
  <2>1. cur \in 1..last /\ kind[cur].artifact = journal.artifact
    BY <1>0, <1>6 DEF HandlerOK, Sending, Owning, Own
  <2>2. PICK a : a = journal.artifact OBVIOUS
  <2> QED BY <1>0, <1>6, <2>1, <2>2, DeployedStays
<1>7. CASE journal'.status = "finalized" /\ Deployed = {journal.artifact}
  BY <1>2, <1>7
<1> QED BY <1>3, <1>4, <1>5, <1>6, <1>7, ClaimStep

\* A buffer that the journal says is finalized is complete, and a deployment that it says is finalized
\* is there, alone (main.rs 17476-17664).
THEOREM ProgressHolds == Spec => []ProgressIsReal
<1>1. Init => ProgressIsReal BY DEF Init, ProgressIsReal
<1>2. Inv /\ WholeInv /\ JournalLoads /\ ProgressIsReal /\ [Next]_vars => ProgressIsReal'
  BY ProgressNext
<1> QED BY <1>1, <1>2, InvHolds, WholeHolds, JournalAlwaysLoads, PTL DEF Spec

--------------------------------------------------------------------------------
(* A program that is always asked for with one binary. *)

OneBinary == \A a, b \in Artifacts : a = b

\* Everything the theorems of one binary rest on.
SerialInv == Superseded /\ Cleared /\ EvidenceIsTrue
Before    == Inv /\ WholeInv /\ JournalLoads

LEMMA AbsentStays ==
  ASSUME OneBinary, Inv, SerialInv, [Next]_vars
  PROVE  \A t \in 1..last : attempt'[t] # "none" /\ (Absent(t) => Absent(t)')
<1>0. StoreOK /\ 1..last \subseteq Ids /\ (\A t \in 1..last : attempt[t] # "none") /\ last \in Nat
  BY ChainStep DEF Inv, SerialInv, Superseded
<1>1. CASE CreateBuffer
  <2>1. last + 1 \in Ids /\ want \in Artifacts
    BY <1>0, <1>1, DeployAssumption DEF CreateBuffer, Sign, Inv, HandlerOK, Ids
  <2>2. CASE journal = None BY <1>0, <2>2 DEF StoreOK
  <2>3. CASE journal # None
    <3>1. Own BY <1>0, <2>1, <2>3 DEF OneBinary, StoreOK, Journals, Own
    <3>2. attempt' = [attempt EXCEPT ![last + 1] = "signed"] BY <1>1, <3>1 DEF CreateBuffer
    <3> QED BY <1>0, <3>2 DEF StoreOK, Absent
  <2> QED BY <2>2, <2>3
<1>2. CASE ~CreateBuffer
  BY <1>0, <1>2, RecordStep DEF Rerecorded, Active, Absent
<1> QED BY <1>1, <1>2

\* A transaction that is still in doubt is the only one of its purpose that can have come about.
LEMMA OnlyOne ==
  ASSUME Inv, SerialInv, NEW t \in 1..last, NEW u \in 1..last, Purpose(t) = Purpose(u),
         attempt[t] # "expired_absent", fate[u] # "dead"
  PROVE  t = u
<1>1. 1..last \subseteq Ids /\ last \in Nat BY DeployAssumption DEF Inv, ChainOK, Ids
<1>2. t < u => Absent(t) BY DEF SerialInv, Superseded
<1>3. u < t => Absent(u) BY DEF SerialInv, Superseded
<1>4. Absent(u) => fate[u] = "dead" BY <1>1 DEF SerialInv, EvidenceIsTrue, Absent
<1> QED BY <1>1, <1>2, <1>3, <1>4 DEF Absent

LEMMA ShownIsTrue ==
  ASSUME OneBinary, Before, SerialInv, NEW t \in 1..last, t \in Active, Shown(t)
  PROVE  fate[t] = "ok"
<1>0. /\ ChainOK /\ 1..last \subseteq Ids /\ attempt[t] # "expired_absent"
      /\ \A u \in 1..last : kind[u].artifact \in Artifacts
      /\ \A u \in Ids : fate[u] = "ok" => u \in 1..last
  BY DeployAssumption DEF Before, Inv, ChainOK, Ids, Active, Kinds
<1>1. CASE kind[t].stage = "deploy" /\ Deployed # {}
  <2>1. PICK u \in Ids : fate[u] = "ok" /\ kind[u].stage = "deploy" BY <1>1 DEF Deployed, Rooted
  <2>2. u \in 1..last /\ Purpose(t) = Purpose(u) BY <1>0, <1>1, <2>1 DEF ChainOK, OneBinary, Purpose
  <2> QED BY <1>0, <2>1, <2>2, OnlyOne DEF Before
<1>2. ASSUME kind[t].stage = "write", kind[t].chunk \in Written(journal.buffer) PROVE fate[t] = "ok"
  <2>1. PICK u \in 1..last : fate[u] = "ok" /\ kind[u].stage = "write" /\ kind[u].chunk = kind[t].chunk
    BY <1>2, WrittenFacts DEF Before
  <2>2. Purpose(t) = Purpose(u) BY <1>0, <1>2, <2>1 DEF OneBinary, Purpose
  <2> QED BY <1>0, <2>1, <2>2, OnlyOne DEF Before
<1>3. kind[t].stage = "write" => kind[t].chunk \in Chunks BY <1>0 DEF ChainOK
<1>4. CASE kind[t].stage = "write" /\ step = "writes" /\ kind[t].chunk \notin todo
  BY <1>2, <1>3, <1>4 DEF SerialInv, Cleared
<1>5. CASE kind[t].stage = "write" /\ step = "settle"
  BY <1>2, <1>3, <1>5 DEF Before, WholeInv, Whole
<1> QED BY <1>1, <1>4, <1>5 DEF Shown

LEMMA EvidenceNext ==
  ASSUME OneBinary, Before, SerialInv, [Next]_vars
  PROVE  EvidenceIsTrue'
<1> SUFFICES ASSUME NEW t \in Ids,
                    attempt'[t] \in {"finalized", "finalized_failed", "expired_absent"}
             PROVE  /\ attempt'[t] = "finalized" => fate'[t] = "ok"
                    /\ attempt'[t] = "finalized_failed" => fate'[t] = "failed"
                    /\ attempt'[t] = "expired_absent" => fate'[t] = "dead"
  BY DEF EvidenceIsTrue
<1>0. Inv /\ Inv' /\ StoreOK' /\ StoreOK /\ last \in Nat /\ EvidenceIsTrue
  BY InvNext, ChainStep DEF Before, Inv, SerialInv
<1>1. t \in 1..last' BY <1>0, DeployAssumption DEF StoreOK, Inv, ChainOK, Ids
<1>2. \A u \in 1..last : Decided(u) => fate'[u] = fate[u] BY <1>0, ChainStep
<1>3. CASE CreateBuffer
  <2>1. t # last + 1
    <3>1. \/ attempt' = [attempt EXCEPT ![last + 1] = "signed"]
          \/ attempt' = [u \in Ids |-> IF u = last + 1 THEN "signed" ELSE "none"]
      BY <1>3 DEF CreateBuffer
    <3> QED BY <1>0, <3>1 DEF StoreOK
  <2>2. t \in 1..last BY <1>0, <1>1, <1>3, <2>1 DEF CreateBuffer, Sign
  <2>3. attempt'[t] = attempt[t]
    <3>1. CASE Own
      <4>1. attempt' = [attempt EXCEPT ![last + 1] = "signed"] BY <1>3, <3>1 DEF CreateBuffer
      <4> QED BY <1>0, <2>1, <4>1 DEF StoreOK
    <3>2. CASE ~Own
      <4>1. attempt' = [u \in Ids |-> IF u = last + 1 THEN "signed" ELSE "none"] BY <1>3, <3>2 DEF CreateBuffer
      <4> QED BY <2>1, <4>1
    <3> QED BY <3>1, <3>2
  <2> QED BY <1>0, <1>2, <2>2, <2>3 DEF EvidenceIsTrue, Decided
<1>4. CASE ~CreateBuffer
  <2>1. CASE t \in 1..last
    <3>1. Rerecorded(t) BY <1>0, <1>4, <2>1, RecordStep
    <3>2. CASE attempt'[t] = attempt[t] BY <1>0, <1>2, <2>1, <3>2 DEF EvidenceIsTrue, Decided
    <3>3. CASE attempt'[t] # attempt[t]
      <4>1. \/ attempt'[t] = "expired_absent" /\ fate[t] = "dead"
            \/ attempt'[t] = "finalized_failed" /\ fate[t] = "failed"
            \/ attempt'[t] = "finalized" /\ fate[t] = "ok"
        BY <2>1, <3>1, <3>3, ShownIsTrue DEF Rerecorded
      <4> QED BY <1>2, <2>1, <4>1 DEF Decided
    <3> QED BY <3>2, <3>3
  <2>2. CASE t \notin 1..last
    <3>1. t = last + 1 /\ last' # last BY <1>0, <1>1, <2>2, ChainStep
    <3> QED BY <1>0, <1>4, <3>1, RecordStep
  <2> QED BY <2>1, <2>2
<1> QED BY <1>3, <1>4

\* Where the handler of the next state comes from.
LEMMA Comes ==
  ASSUME Inv, [Next]_vars
  PROVE  /\ step' \in {"buffer", "writes", "settle", "deploy"} =>
               step \in {"buffer", "writes", "write", "settle", "deploy"} \/ DeploysDone
         /\ step' = "write" => \/ step = "write" /\ UNCHANGED <<todo, last>>
                               \/ WritesDone \/ CreateSettled \/ WriteConfirmed
         /\ step' \in {"send", "outcome"} =>
               \/ step \in {"send", "outcome"} /\ UNCHANGED <<cur, todo, last>>
               \/ CreateBuffer \/ WriteChunk \/ Deploy
         /\ step' = "created" => \/ step = "created" /\ UNCHANGED <<cur, last>>
                                 \/ Created
         /\ step' = "writes" => \/ step = "writes" /\ UNCHANGED todo
                                \/ \E seen \in SUBSET Chunks : BufferRead(seen)
         /\ step' \in {"buffer", "writes", "write", "settle", "deploy", "created"} => last' = last /\ ~CreateBuffer
<1> USE DEF Return, Goto, Sign
<1>1. CASE Handler
  BY <1>1 DEF Handler, ReconcileDeploy, ReconcileWrite, SettleWrite, DeploysDone, WritesDone, BufferRead,
         BufferMissing, Reconcile, CreateBuffer, Send, Unconfirmed, Created, CreateSettled, WriteChunk,
         WriteConfirmed, BufferWait, BufferFinalized, Deploy, DeployLanded, ReadBack, Begin, handler, chain
<1>2. CASE Request
  BY <1>2 DEF Request, Start, Adopt, handler, CreateBuffer, chain
<1>3. CASE Stop \/ UNCHANGED vars
  BY <1>3 DEF Stop, vars, handler, CreateBuffer, chain
<1>4. CASE Cluster \/ \E t \in Ids : Fork(t) \/ Expire(t)
  BY <1>4, ClusterType DEF Cluster, handler, CreateBuffer
<1> QED BY <1>1, <1>2, <1>3, <1>4 DEF Next

\* What the handler signs next is the only one of its purpose that is not known to be absent.
LEMMA NextIsAlone ==
  ASSUME OneBinary, Inv, SerialInv, [Next]_vars, last' # last, NEW t \in 1..last, Purpose(t) = Purpose(last)'
  PROVE  Absent(t)
<1>0. /\ StoreOK /\ ChainOK /\ 1..last \subseteq Ids /\ last \in Nat /\ attempt[t] # "none" /\ kind[t].chunk = kind'[last + 1].chunk
      /\ kind[t].stage = kind'[last + 1].stage /\ last' = last + 1 /\ (CreateBuffer \/ WriteChunk \/ Deploy)
  <2>1. last' = last + 1 BY ChainStep
  <2> QED BY <2>1, ChainStep DEF Inv, SerialInv, Superseded, Purpose
<1>1. last + 1 \in Ids BY <1>0, DeployAssumption DEF CreateBuffer, WriteChunk, Deploy, Begin, Sign, Ids
<1>2. CASE CreateBuffer
  <2>1. kind'[last + 1].stage = "create_buffer" BY <1>0, <1>1, <1>2 DEF CreateBuffer, Sign, ChainOK
  <2>2. journal # None BY <1>0 DEF StoreOK
  <2>3. Own BY <1>0, <1>2, <2>2 DEF OneBinary, StoreOK, Inv, HandlerOK, Journals, Own, CreateBuffer
  <2> QED BY <1>0, <1>2, <2>3 DEF CreateBuffer, Absent
<1>3. CASE WriteChunk
  <2>1. kind'[last + 1].stage = "write" /\ kind'[last + 1].chunk = Min(todo) /\ step = "write" /\ todo # {}
    BY <1>0, <1>1, <1>3 DEF WriteChunk, Begin, Sign, ChainOK
  <2>2. Min(todo) \in todo BY <2>1, MinChunk DEF Inv, HandlerOK
  <2> QED BY <1>0, <2>1, <2>2 DEF SerialInv, Cleared
<1>4. CASE Deploy
  <2>1. kind'[last + 1].stage = "deploy" /\ step = "deploy"
    BY <1>0, <1>1, <1>4 DEF Deploy, Begin, Sign, ChainOK
  <2> QED BY <1>0, <2>1 DEF SerialInv, Cleared, AllAbsent
<1> QED BY <1>0, <1>2, <1>3, <1>4

LEMMA SupersededNext ==
  ASSUME OneBinary, Inv, SerialInv, [Next]_vars
  PROVE  Superseded'
<1>0. /\ last \in Nat /\ 1..last \subseteq Ids /\ last' \in {last, last + 1}
      /\ \A t \in 1..last : kind'[t] = kind[t]
  BY ChainStep
<1>1. ASSUME NEW t \in 1..last' PROVE attempt'[t] # "none"
  <2>1. CASE t \in 1..last BY <2>1, AbsentStays
  <2>2. CASE t \notin 1..last
    <3>1. t = last + 1 /\ last' = last + 1 /\ (CreateBuffer \/ WriteChunk \/ Deploy) BY <1>0, <2>2, ChainStep
    <3>2. CASE CreateBuffer
      <4>1. \/ attempt' = [attempt EXCEPT ![last + 1] = "signed"]
            \/ attempt' = [u \in Ids |-> IF u = last + 1 THEN "signed" ELSE "none"]
        BY <3>2 DEF CreateBuffer
      <4>2. last + 1 \in Ids BY <1>0, <3>2, DeployAssumption DEF CreateBuffer, Sign, Ids
      <4> QED BY <3>1, <4>1, <4>2 DEF Inv, StoreOK
    <3> QED BY <1>0, <3>1, <3>2, RecordStep
  <2> QED BY <2>1, <2>2
<1>2. ASSUME NEW t \in 1..last', NEW u \in 1..last', t < u, Purpose(t)' = Purpose(u)' PROVE Absent(t)'
  <2>1. t \in 1..last BY <1>0, <1>2
  <2>2. Purpose(t)' = Purpose(t) BY <1>0, <2>1 DEF Purpose
  <2>3. Absent(t)
    <3>1. CASE u \in 1..last
      <4>1. Purpose(u)' = Purpose(u) BY <1>0, <3>1 DEF Purpose
      <4> QED BY <1>2, <2>1, <2>2, <3>1, <4>1 DEF SerialInv, Superseded
    <3>2. CASE u \notin 1..last
      <4>1. u = last + 1 /\ last' # last BY <1>0, <3>2
      <4>2. Purpose(u)' = Purpose(last)' BY <4>1, <1>0, ChainStep DEF Purpose
      <4> QED BY <1>2, <2>1, <2>2, <4>1, <4>2, NextIsAlone
    <3> QED BY <3>1, <3>2
  <2> QED BY <2>1, <2>3, AbsentStays
<1> QED BY <1>1, <1>2 DEF Superseded

LEMMA ClearedNext ==
  ASSUME OneBinary, Inv, SerialInv, [Next]_vars
  PROVE  Cleared'
<1>0. /\ last \in Nat /\ 1..last \subseteq Ids /\ ChainOK /\ StoreOK /\ HandlerOK /\ Cleared
      /\ \A t \in 1..last : attempt[t] # "none"
      /\ \A t \in 1..last : kind'[t] = kind[t] /\ (Absent(t) => Absent(t)')
      /\ \A t \in Ids : attempt[t] \in Attempts
  BY ChainStep, AbsentStays DEF Inv, SerialInv, Superseded, StoreOK
<1>1. ASSUME AllAbsent("deploy"), \A t \in 1..last' : t \notin 1..last => kind'[t].stage # "deploy"
      PROVE  AllAbsent("deploy")'
  BY <1>0, <1>1 DEF AllAbsent
<1>2. ASSUME step' \in {"buffer", "writes", "write", "settle", "deploy"} PROVE AllAbsent("deploy")'
  <2>1. last' = last BY <1>2, Comes
  <2>2. AllAbsent("deploy")
    <3>1. CASE step \in {"buffer", "writes", "write", "settle", "deploy"} BY <1>0, <3>1 DEF Cleared
    <3>2. CASE DeploysDone
      <4>1. Recorded("deploy") \cap Active = {} /\ Recorded("deploy") \cap Terminal = {}
        BY <1>2, <3>2 DEF DeploysDone, Return
      <4> QED BY <1>0, <4>1 DEF AllAbsent, Absent, Recorded, Active, Terminal, Attempts
    <3>3. CASE WritesDone BY <1>0, <3>3 DEF WritesDone, Cleared
    <3>4. CASE CreateSettled
      <4>1. kind[cur].stage = "create_buffer" /\ step = "created"
        BY <1>0, <3>4 DEF CreateSettled, HandlerOK, Sending
      <4> QED BY <1>0, <4>1 DEF Cleared, AllAbsent
    <3>5. CASE WriteConfirmed BY <1>0, <3>5 DEF WriteConfirmed, Cleared
    <3> QED BY <1>2, <3>1, <3>2, <3>3, <3>4, <3>5, Comes
  <2> QED BY <1>1, <2>1, <2>2
<1>3. ASSUME CreateBuffer \/ WriteChunk \/ Deploy
      PROVE  /\ last' = last + 1 /\ cur' = last + 1 /\ last + 1 \in Ids /\ todo' = todo
             /\ CreateBuffer => kind'[last + 1].stage = "create_buffer"
             /\ WriteChunk => kind'[last + 1].stage = "write"
             /\ Deploy => kind'[last + 1].stage = "deploy"
             /\ \A t \in 1..last' : t \in 1..last \/ t = last + 1
  <2>1. last' = last + 1 /\ cur' = last + 1 /\ last + 1 \in Ids /\ todo' = todo
    BY <1>0, <1>3, DeployAssumption DEF CreateBuffer, WriteChunk, Deploy, Begin, Sign, Ids
  <2>2. /\ CreateBuffer => kind'[last + 1].stage = "create_buffer"
        /\ WriteChunk => kind'[last + 1].stage = "write"
        /\ Deploy => kind'[last + 1].stage = "deploy"
    BY <1>0, <2>1 DEF CreateBuffer, WriteChunk, Deploy, Begin, Sign, ChainOK
  <2> QED BY <1>0, <2>1, <2>2
<1>4. ASSUME step' \in {"send", "outcome"}, kind'[cur'].stage = "write" PROVE AllAbsent("deploy")'
  <2>1. CASE step \in {"send", "outcome"} /\ UNCHANGED <<cur, todo, last>>
    <3>1. cur \in 1..last BY <1>0, <2>1 DEF HandlerOK, Sending
    <3> QED BY <1>0, <1>1, <1>4, <2>1, <3>1 DEF Cleared
  <2>2. CASE CreateBuffer \/ WriteChunk \/ Deploy
    <3>1. WriteChunk BY <1>3, <1>4, <2>2
    <3> QED BY <1>0, <1>1, <1>3, <3>1 DEF Cleared, WriteChunk
  <2> QED BY <1>4, <2>1, <2>2, Comes
<1>5. ASSUME step' \in {"send", "outcome", "created"}, kind'[cur'].stage = "create_buffer", NEW t \in 1..last'
      PROVE  kind'[t].stage = "create_buffer"
  <2>1. CASE step \in {"send", "outcome", "created"} /\ UNCHANGED <<cur, last>>
    <3>1. cur \in 1..last BY <1>0, <2>1 DEF HandlerOK, Sending
    <3> QED BY <1>0, <1>5, <2>1, <3>1 DEF Cleared
  <2>2. CASE Created
    <3>1. cur \in 1..last /\ UNCHANGED <<cur, last>> /\ step = "outcome"
      BY <1>0, <2>2 DEF HandlerOK, Sending, Created, Goto, chain
    <3> QED BY <2>1, <3>1
  <2>3. CASE CreateBuffer \/ WriteChunk \/ Deploy
    <3>1. CreateBuffer BY <1>3, <1>5, <2>3
    <3>2. ASSUME t \in 1..last PROVE kind[t].stage = "create_buffer"
      <4>1. journal # None BY <1>0, <3>2 DEF StoreOK
      <4>2. Own BY <1>0, <3>1, <4>1 DEF OneBinary, StoreOK, HandlerOK, Journals, Own, CreateBuffer
      <4> QED BY <1>0, <3>1, <3>2, <4>2 DEF CreateBuffer
    <3> QED BY <1>0, <1>3, <1>5, <3>1, <3>2
  <2> QED BY <1>5, <2>1, <2>2, <2>3, Comes
<1>6. ASSUME step' = "write", NEW t \in 1..last', kind'[t].stage = "write", kind'[t].chunk \in todo'
      PROVE  Absent(t)'
  <2>1. t \in 1..last /\ kind[t].stage = "write" /\ kind'[t] = kind[t] BY <1>0, <1>6, Comes
  <2>2. Absent(t)
    <3>1. CASE step = "write" /\ UNCHANGED <<todo, last>> BY <1>0, <1>6, <2>1, <3>1 DEF Cleared
    <3>2. CASE WritesDone
      <4>1. /\ ~ \E u \in Recorded("write") \cap Terminal : kind[u].chunk \in todo
            /\ Recorded("write") \cap Active = {} /\ todo' = todo
        BY <1>6, <3>2 DEF WritesDone, Return, Goto
      <4>2. t \notin Active /\ t \notin Terminal
        BY <1>0, <1>6, <2>1, <4>1 DEF Recorded
      <4> QED BY <1>0, <2>1, <4>2 DEF Active, Terminal, Attempts, Absent
    <3>3. CASE CreateSettled
      <4>1. kind[cur].stage = "create_buffer" /\ step = "created"
        BY <1>0, <3>3 DEF CreateSettled, HandlerOK, Sending
      <4> QED BY <1>0, <2>1, <4>1 DEF Cleared
    <3>4. CASE WriteConfirmed
      <4>1. step = "outcome" /\ kind[cur].stage = "write" /\ todo' = todo \ {kind[cur].chunk}
        BY <3>4 DEF WriteConfirmed
      <4>2. t # cur /\ kind[t].chunk \in todo BY <1>6, <2>1, <4>1
      <4> QED BY <1>0, <2>1, <4>1, <4>2 DEF Cleared
    <3> QED BY <1>6, <3>1, <3>2, <3>3, <3>4, Comes
  <2> QED BY <1>0, <2>1, <2>2
<1>7. ASSUME step' \in {"send", "outcome"}, kind'[cur'].stage = "write", NEW t \in 1..last', t # cur',
             kind'[t].stage = "write", kind'[t].chunk \in todo'
      PROVE  Absent(t)'
  <2>1. CASE step \in {"send", "outcome"} /\ UNCHANGED <<cur, todo, last>>
    <3>1. cur \in 1..last BY <1>0, <2>1 DEF HandlerOK, Sending
    <3> QED BY <1>0, <1>7, <2>1, <3>1 DEF Cleared
  <2>2. CASE CreateBuffer \/ WriteChunk \/ Deploy
    <3>1. WriteChunk BY <1>3, <1>7, <2>2
    <3>2. step = "write" /\ t \in 1..last BY <1>3, <1>7, <3>1 DEF WriteChunk
    <3> QED BY <1>0, <1>3, <1>7, <3>1, <3>2 DEF Cleared
  <2> QED BY <1>7, <2>1, <2>2, Comes
<1>8. ASSUME step' = "writes" PROVE (Chunks \ todo \subseteq Written(journal.buffer))'
  <2>1. journal'.buffer = journal.buffer BY <1>8, Comes, RecordStep
  <2>2. Chunks \ todo' \subseteq Written(journal.buffer)
    <3>1. CASE step = "writes" /\ UNCHANGED todo BY <1>0, <3>1 DEF Cleared
    <3>2. ASSUME NEW seen \in SUBSET Chunks, BufferRead(seen) PROVE Chunks \ todo' \subseteq Written(journal.buffer)
      <4>1. seen \subseteq Written(journal.buffer) /\ todo' = Chunks \ seen
        BY <1>8, <3>2 DEF BufferRead, Return
      <4> QED BY <4>1
    <3> QED BY <1>8, <3>1, <3>2, Comes
  <2>3. PICK b : b = journal.buffer OBVIOUS
  <2>4. \A c : c \in Written(b) => c \in Written(b)' BY WrittenGrows
  <2>5. Written(journal.buffer)' = Written(b)' BY <2>1, <2>3 DEF Written, Rooted
  <2> QED BY <2>2, <2>3, <2>4, <2>5
<1> QED BY <1>2, <1>4, <1>5, <1>6, <1>7, <1>8 DEF Cleared

LEMMA SerialHolds == OneBinary => (Spec => []SerialInv)
<1>1. Init => SerialInv
  <2> SUFFICES ASSUME Init PROVE SerialInv
    OBVIOUS
  <2>1. Superseded /\ Cleared
    BY DeployAssumption DEF Init, Superseded, Cleared
  <2>2. EvidenceIsTrue BY DEF Init, EvidenceIsTrue
  <2> QED BY <2>1, <2>2 DEF SerialInv
<1>2. OneBinary /\ Inv /\ WholeInv /\ JournalLoads /\ SerialInv /\ [Next]_vars => SerialInv'
  BY SupersededNext, ClearedNext, EvidenceNext DEF SerialInv, Before
<1> SUFFICES ASSUME OneBinary PROVE Spec => []SerialInv
  OBVIOUS
<1>3. Inv /\ WholeInv /\ JournalLoads /\ SerialInv /\ [Next]_vars => SerialInv'
  BY <1>2
<1> QED BY <1>1, <1>3, InvHolds, WholeHolds, JournalAlwaysLoads, PTL DEF Spec

\* What the journal says of a signature for good is true of the cluster: finalized is executed, failed
\* is failed, absent is expired (main.rs 16336-16700, 17147-17474).
THEOREM EvidenceHolds == OneBinary => (Spec => []EvidenceIsTrue)
<1> SUFFICES ASSUME OneBinary PROVE Spec => []EvidenceIsTrue
  OBVIOUS
<1> QED BY SerialHolds, PTL DEF SerialInv

\* Of the signatures with one purpose at most one has not died: the wallet pays for a buffer, a chunk
\* and a deployment only once (main.rs 17147-17582).
THEOREM NothingSignedTwice == OneBinary => (Spec => []OneLivePerPurpose)
<1> SUFFICES ASSUME OneBinary PROVE Spec => []OneLivePerPurpose
  OBVIOUS
<1>1. Inv /\ SerialInv => OneLivePerPurpose
  <2> SUFFICES ASSUME Inv, SerialInv, NEW t \in 1..last, NEW u \in 1..last, Purpose(t) = Purpose(u),
                      MayHaveEffect(t), MayHaveEffect(u)
               PROVE  t = u
    BY DEF OneLivePerPurpose
  <2>1. t \in Ids /\ fate[t] # "dead" /\ fate[u] # "dead"
    BY DeployAssumption DEF MayHaveEffect, Inv, ChainOK, Ids
  <2>2. attempt[t] # "expired_absent" BY <2>1 DEF SerialInv, EvidenceIsTrue
  <2> QED BY <2>1, <2>2, OnlyOne
<1> QED BY <1>1, InvHolds, SerialHolds, PTL
================================================================================
