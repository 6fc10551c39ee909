----------------------- MODULE ExtensionApprovalProofs -----------------------
(***************************************************************************)
(* Theorems about ExtensionApproval.  For any number of requests, ports and  *)
(* ids, also when two requests carry the same id: no request is both refused *)
(* and executed, and the badge follows the maps.  When no two requests carry *)
(* the same id: the queue implements Decision, and no popup stays behind.    *)
(***************************************************************************)
EXTENDS ExtensionApproval, FiniteSetTheorems, TLAPS

-----------------------------------------------------------------------------
LEMMA OutstandingIsNat == Outstanding \in Nat
<1>1. \A map : IsFiniteSet(Occupied(map)) /\ Cardinality(Occupied(map)) \in Nat
  BY ConstantsAssumption, FS_Subset, FS_CardinalityType DEF Occupied
<1> QED BY <1>1 DEF Outstanding

\* Removing items leaves a map of ids to requests.
LEMMA WithoutType ==
  ASSUME NEW S, pending \in [Ids -> Slots]
  PROVE  Without(S) \in [Ids -> Slots]
BY DEF Without, Slots

LEMMA TellType ==
  ASSUME NEW S, NEW answer \in Answers, Tell(S, answer),
         answers \in [Requests -> SUBSET Answers]
  PROVE  answers' \in [Requests -> SUBSET Answers]
BY DEF Tell

LEMMA TypeInit == Init => TypeOK
<1> SUFFICES ASSUME Init PROVE TypeOK
  OBVIOUS
<1> USE ConstantsAssumption DEF Init
<1>1. pending \in [Ids -> Slots] /\ processing \in [Ids -> Slots]
  BY DEF Slots
<1>2. stage \in [Requests -> Stages] /\ popup \in [Requests -> Popups]
  BY DEF Stages, Popups
<1>3. revision \in 0..MaxRevision /\ captured \in [Requests -> 0..MaxRevision]
  OBVIOUS
<1>4. port \in [Ports -> {"fresh", "up", "down"}] /\ answers \in [Requests -> SUBSET Answers]
  OBVIOUS
<1>5. badgeQueued \in BOOLEAN /\ badgeWriting \in Nat \cup {NoRequest} /\ badgeShown \in Nat
  OBVIOUS
<1> QED BY <1>1, <1>2, <1>3, <1>4, <1>5 DEF TypeOK

-----------------------------------------------------------------------------
LEMMA TypeNext == TypeOK /\ [Next]_vars => TypeOK'
<1> SUFFICES ASSUME TypeOK, [Next]_vars PROVE TypeOK'
  OBVIOUS
<1> USE ConstantsAssumption
<1> USE DEF TypeOK, workerVars, badge, SyncBadge, Stages, Popups, Answers
<1>1. ASSUME NEW r \in Requests, Arrive(r) \/ Handler(r) \/ Browser(r) \/ Clock(r) \/ User(r)
      PROVE  TypeOK'
  <2>1. CASE Arrive(r) BY <2>1 DEF Arrive
  <2>2. CASE Admit(r) BY <2>2 DEF Admit
  <2>3. CASE Refuse(r) BY <2>3, TellType DEF Refuse, Fails
  <2>4. CASE Open(r) BY <2>4 DEF Open, Slots
  <2>5. CASE OpenStale(r) BY <2>5, TellType DEF OpenStale, Fails
  <2>6. CASE Settle(r) BY <2>6, TellType DEF Settle, ClosePopup, Slots
  <2>7. CASE Locate(r) BY <2>7 DEF Locate
  <2>8. CASE Show(r) BY <2>8 DEF Show
  <2>9. CASE Created(r) BY <2>9 DEF Created
  <2>10. CASE CreateFails(r) BY <2>10, TellType, WithoutType DEF CreateFails
  <2>11. CASE Expire(r) BY <2>11 DEF Expire
  <2>12. CASE TimerFires(r) BY <2>12, TellType, WithoutType DEF TimerFires
  <2>13. CASE Approve(r) BY <2>13, WithoutType DEF Approve, Slots
  <2>14. CASE Decline(r) BY <2>14, TellType, WithoutType DEF Decline, ClosePopup
  <2>15. CASE UserCloses(r) BY <2>15, TellType, WithoutType DEF UserCloses
  <2> QED BY <1>1, <2>1, <2>2, <2>3, <2>4, <2>5, <2>6, <2>7, <2>8, <2>9, <2>10, <2>11, <2>12, <2>13, <2>14, <2>15
       DEF Handler, Browser, Clock, User
<1>2. ASSUME NEW p \in Ports, Connect(p) \/ Disconnect(p) PROVE TypeOK'
  <2>1. CASE Connect(p) BY <2>1 DEF Connect
  <2>2. CASE Disconnect(p) BY <2>2, WithoutType DEF Disconnect
  <2> QED BY <1>2, <2>1, <2>2
<1>3. CASE SweepExpired
  <2>1. PICK S : RejectItems(S) /\ UNCHANGED <<revision, processing, stage, captured, expired, port>>
    BY <1>3 DEF SweepExpired
  <2> QED BY <2>1, WithoutType, TellType DEF RejectItems
<1>4. CASE ChangeContext
  <2>1. revision' \in 0..MaxRevision
    BY <1>4 DEF ChangeContext
  <2>2. pending' \in [Ids -> Slots] /\ answers' \in [Requests -> SUBSET Answers]
    BY <1>4, WithoutType, TellType DEF ChangeContext, RejectItems
  <2>3. timer' \subseteq Requests /\ popup' \in [Requests -> Popups]
    BY <1>4 DEF ChangeContext, RejectItems
  <2>4. badgeQueued' \in BOOLEAN /\ badgeWriting' \in Nat \cup {NoRequest} /\ badgeShown' \in Nat
    BY <1>4 DEF ChangeContext, RejectItems
  <2> QED BY <1>4, <2>1, <2>2, <2>3, <2>4 DEF ChangeContext
<1>5. CASE BadgeStarts BY <1>5, OutstandingIsNat DEF BadgeStarts
<1>6. CASE BadgeWritten BY <1>6 DEF BadgeWritten
<1>7. CASE Restart BY <1>7 DEF Restart, Slots
<1>8. CASE UNCHANGED vars BY <1>8 DEF vars
<1> QED BY <1>1, <1>2, <1>3, <1>4, <1>5, <1>6, <1>7, <1>8 DEF Next

\* The maps, the handlers' stages, the windows and the badge keep their types in
\* every order of events (the maps of background.ts 109-111).
THEOREM TypeCorrect == Spec => []TypeOK
BY TypeInit, TypeNext, PTL DEF Spec

-----------------------------------------------------------------------------
(* The inductive invariant behind the safety properties.                    *)

\* An item sits in its own slot of either map, and an item being processed is
\* executing.
SlotsMatch ==
    /\ \A i \in Ids : pending[i] # NoRequest => IdOf[pending[i]] = i
    /\ \A i \in Ids : processing[i] # NoRequest =>
         IdOf[processing[i]] = i /\ stage[processing[i]] = "executing"

\* Only a request whose openApproval has finished awaits a decision.
PendingIsOpened == \A r \in Requests : IsPending(r) => stage[r] = "opened"

\* Nothing was said about a request that is on its way, parked or executing.
Undecided(r) == stage[r] \in {"idle", "handling", "context", "executing"} \/ IsPending(r)
UndecidedIsUnanswered == \A r \in Requests : Undecided(r) => answers[r] = {}

\* A result is the only answer of a request, and the last.
SettledOnce ==
    \A r \in Requests : "settled" \in answers[r] =>
        stage[r] = "settled" /\ answers[r] = {"settled"}

\* An executed request had its window: windows.create cannot fail any more.
ExecutedHadWindow ==
    \A r \in Requests : stage[r] = "executing" \/ "settled" \in answers[r] =>
        popup[r] \in {"shown", "open", "closed", "stray"}

QueueInv ==
    /\ SlotsMatch
    /\ PendingIsOpened
    /\ UndecidedIsUnanswered
    /\ SettledOnce
    /\ ExecutedHadWindow

LEMMA QueueInvInit == Init => QueueInv
<1> SUFFICES ASSUME Init PROVE QueueInv
  OBVIOUS
<1> USE ConstantsAssumption
<1>1. SlotsMatch /\ PendingIsOpened
  BY DEF Init, SlotsMatch, PendingIsOpened, IsPending
<1>2. UndecidedIsUnanswered /\ SettledOnce /\ ExecutedHadWindow
  BY DEF Init, UndecidedIsUnanswered, SettledOnce, ExecutedHadWindow
<1> QED BY <1>1, <1>2 DEF QueueInv

\* The items the map holds under an id are pending items.
LEMMA ItemsAtPending ==
  ASSUME TypeOK, SlotsMatch, NEW r \in Requests
  PROVE  ItemsAt(IdOf[r]) \subseteq PendingItems
BY ConstantsAssumption DEF ItemsAt, PendingItems, IsPending, SlotsMatch, TypeOK, Slots

\* Whatever ends pending items without executing them keeps the invariant: the
\* timer, the sweep, a lock, a closed window, a port that goes away.
LEMMA RemovalKeepsQueueInv ==
  ASSUME TypeOK, QueueInv, NEW S \in SUBSET PendingItems,
         pending' = Without(S), processing' = processing, stage' = stage,
         \A r \in Requests : \/ answers'[r] = answers[r]
                             \/ r \in S /\ answers'[r] = answers[r] \cup {"declined"},
         \A r \in Requests : popup'[r] = popup[r] \/ popup'[r] = "closed"
  PROVE  QueueInv'
<1> USE ConstantsAssumption
<1>1. /\ \A i \in Ids : pending'[i] = pending[i] \/ pending'[i] = NoRequest
      /\ \A r \in Requests : IsPending(r)' => IsPending(r) /\ r \notin S
  BY DEF Without, TypeOK, IsPending
<1>2. \A r \in S : r \in Requests /\ stage[r] = "opened" /\ "settled" \notin answers[r]
  BY DEF PendingItems, QueueInv, PendingIsOpened, SettledOnce
<1>3. SlotsMatch' /\ PendingIsOpened'
  BY <1>1 DEF QueueInv, SlotsMatch, PendingIsOpened
<1>4. UndecidedIsUnanswered'
  BY <1>1, <1>2 DEF QueueInv, UndecidedIsUnanswered, Undecided
<1>5. \A r \in Requests : "settled" \in answers'[r] => "settled" \in answers[r] /\ r \notin S
  BY <1>2
<1>6. SettledOnce' /\ ExecutedHadWindow'
  BY <1>5 DEF QueueInv, SettledOnce, ExecutedHadWindow
<1> QED BY <1>3, <1>4, <1>6 DEF QueueInv

\* The steps of one request keep it.
LEMMA RequestKeepsQueueInv ==
  ASSUME TypeOK, QueueInv, NEW r \in Requests,
         Arrive(r) \/ Handler(r) \/ Browser(r) \/ Clock(r) \/ User(r)
  PROVE  QueueInv'
<1> USE ConstantsAssumption
<1> USE DEF TypeOK, QueueInv, SlotsMatch, PendingIsOpened, UndecidedIsUnanswered,
            Undecided, SettledOnce, ExecutedHadWindow, IsPending
<1>1. CASE Arrive(r) BY <1>1 DEF Arrive, Live
<1>2. CASE Admit(r) BY <1>2 DEF Admit
<1>3. CASE Refuse(r) BY <1>3 DEF Refuse, Fails, Tell
<1>4. CASE Open(r) BY <1>4 DEF Open
<1>5. CASE OpenStale(r) BY <1>5 DEF OpenStale, Fails, Tell
<1>6. CASE Settle(r) BY <1>6 DEF Settle, Tell, ClosePopup
<1>7. CASE Locate(r) BY <1>7 DEF Locate, workerVars
<1>8. CASE Show(r) BY <1>8 DEF Show, workerVars
<1>9. CASE Created(r) BY <1>9 DEF Created, workerVars
<1>10. CASE CreateFails(r)
  <2>1. stage[r] # "executing" /\ "settled" \notin answers[r]
    BY <1>10 DEF CreateFails
  <2>2. /\ \A i \in Ids : pending'[i] = pending[i] \/ pending'[i] = NoRequest
        /\ \A q \in Requests : IsPending(q)' => IsPending(q) /\ q # r
    BY <1>10 DEF CreateFails, Without, ItemsAt
  <2>3. /\ processing' = processing /\ stage' = [stage EXCEPT ![r] = "settled"]
        /\ \A q \in Requests : q # r => answers'[q] = answers[q] /\ popup'[q] = popup[q]
        /\ "settled" \notin answers'[r]
    BY <1>10, <2>1 DEF CreateFails, Tell
  <2>4. SlotsMatch' /\ PendingIsOpened'
    BY <2>1, <2>2, <2>3 DEF Slots
  <2>5. UndecidedIsUnanswered' /\ SettledOnce' /\ ExecutedHadWindow'
    BY <2>2, <2>3
  <2> QED BY <2>4, <2>5
<1>11. CASE Expire(r) BY <1>11 DEF Expire, workerVars
<1>12. CASE TimerFires(r)
  <2>1. ItemsAt(IdOf[r]) \in SUBSET PendingItems
    BY ItemsAtPending
  <2>2. \A q \in Requests : popup'[q] = popup[q] \/ popup'[q] = "closed"
    BY <1>12 DEF TimerFires
  <2>3. \A q \in Requests :
          \/ answers'[q] = answers[q]
          \/ q \in ItemsAt(IdOf[r]) /\ answers'[q] = answers[q] \cup {"declined"}
    BY <1>12 DEF TimerFires, Tell
  <2>4. pending' = Without(ItemsAt(IdOf[r])) /\ processing' = processing /\ stage' = stage
    BY <1>12 DEF TimerFires
  <2> QED BY <2>1, <2>2, <2>3, <2>4, RemovalKeepsQueueInv
<1>13. CASE Approve(r) BY <1>13 DEF Approve, Decidable, Without
<1>14. CASE Decline(r) BY <1>14 DEF Decline, Decidable, Without, Tell, ClosePopup
<1>15. CASE UserCloses(r) BY <1>15, RemovalKeepsQueueInv DEF UserCloses, Tell, PendingItems
<1> QED BY <1>1, <1>2, <1>3, <1>4, <1>5, <1>6, <1>7, <1>8, <1>9, <1>10, <1>11, <1>12,
           <1>13, <1>14, <1>15 DEF Handler, Browser, Clock, User

\* So do the ports, the sweep, a change of context, the badge and a new worker.
LEMMA OthersKeepQueueInv ==
  ASSUME TypeOK, QueueInv,
         \/ \E p \in Ports : Connect(p) \/ Disconnect(p)
         \/ SweepExpired \/ ChangeContext \/ BadgeStarts \/ BadgeWritten \/ Restart
         \/ UNCHANGED vars
  PROVE  QueueInv'
<1> USE ConstantsAssumption
<1> DEFINE Quiet == UNCHANGED <<pending, processing, stage, answers, popup>>
<1>1. ASSUME Quiet PROVE QueueInv'
  BY <1>1 DEF QueueInv, SlotsMatch, PendingIsOpened, UndecidedIsUnanswered, Undecided,
              SettledOnce, ExecutedHadWindow, IsPending
<1>2. ASSUME NEW p \in Ports, Connect(p) PROVE QueueInv'
  BY <1>1, <1>2 DEF Connect, workerVars
<1>3. ASSUME NEW p \in Ports, Disconnect(p) PROVE QueueInv'
  BY <1>3, RemovalKeepsQueueInv DEF Disconnect, TypeOK
<1>4. ASSUME NEW S \in SUBSET PendingItems, RejectItems(S), UNCHANGED <<processing, stage>>
      PROVE  QueueInv'
  <2>1. \A r \in Requests : popup'[r] = popup[r] \/ popup'[r] = "closed"
    BY <1>4 DEF RejectItems
  <2>2. \A r \in Requests : \/ answers'[r] = answers[r]
                            \/ r \in S /\ answers'[r] = answers[r] \cup {"declined"}
    BY <1>4 DEF RejectItems, Tell, TypeOK
  <2> QED BY <1>4, <2>1, <2>2, RemovalKeepsQueueInv DEF RejectItems
<1>5. CASE SweepExpired
  <2>1. PICK S : S \in SUBSET (PendingItems \cap expired) /\ RejectItems(S)
                 /\ UNCHANGED <<processing, stage>>
    BY <1>5 DEF SweepExpired
  <2> QED BY <2>1, <1>4
<1>6. CASE ChangeContext BY <1>6, <1>4 DEF ChangeContext
<1>7. CASE BadgeStarts BY <1>1, <1>7 DEF BadgeStarts, workerVars
<1>8. CASE BadgeWritten BY <1>1, <1>8 DEF BadgeWritten, workerVars
<1>9. CASE Restart
  BY <1>9 DEF Restart, TypeOK, QueueInv, SlotsMatch, PendingIsOpened, UndecidedIsUnanswered,
              Undecided, SettledOnce, ExecutedHadWindow, IsPending
<1>10. CASE UNCHANGED vars BY <1>1, <1>10 DEF vars, workerVars
<1> QED BY <1>2, <1>3, <1>5, <1>6, <1>7, <1>8, <1>9, <1>10

LEMMA QueueInvNext == TypeOK /\ QueueInv /\ [Next]_vars => QueueInv'
BY RequestKeepsQueueInv, OthersKeepQueueInv DEF Next

LEMMA QueueInvHolds == Spec => []QueueInv
BY QueueInvInit, TypeCorrect, QueueInvNext, PTL DEF Spec

\* What a page was told stays true: a request reported as rejected or failed is
\* never executed, and an executed one is never reported as rejected
\* (background.ts 547-606, 1589-1622).
THEOREM NeverBoth == Spec => []NeverDeclinedAndExecuted
<1>1. QueueInv => NeverDeclinedAndExecuted
  BY DEF QueueInv, UndecidedIsUnanswered, Undecided, SettledOnce, NeverDeclinedAndExecuted
<1> QED BY QueueInvHolds, <1>1, PTL

\* A request taken for execution has left the map a second window could approve
\* it from (background.ts 1589-1595).
THEOREM TakenOnce == Spec => []NeverPendingAndProcessing
<1>1. TypeOK /\ QueueInv => NeverPendingAndProcessing
  BY ConstantsAssumption
     DEF TypeOK, Slots, QueueInv, SlotsMatch, PendingIsOpened, IsPending, NeverPendingAndProcessing
<1> QED BY TypeCorrect, QueueInvHolds, <1>1, PTL

-----------------------------------------------------------------------------
(* The queue implements Decision: every step of it is one step of one        *)
(* decision per request, or none.  This needs what the content script's      *)
(* counter provides, no two requests with one id.  (With a shared id the     *)
(* later item replaces the earlier one in the map, and the page may hear of  *)
(* the earlier one when it is already over.)                                 *)
DistinctIds == \A q, r \in Requests : IdOf[q] = IdOf[r] => q = r

-----------------------------------------------------------------------------
(* Steps of the abstract specification, by what they do to each request.     *)

Still(r) == DecisionOn(r)' = DecisionOn(r) /\ ReplyTo(r)' = ReplyTo(r)

LEMMA Stutter ==
  ASSUME \A r \in Requests : Still(r)
  PROVE  [Queue!Next]_(Queue!vars)
<1>1. [r \in Requests |-> DecisionOn(r)]' = [r \in Requests |-> DecisionOn(r)]
  BY DEF Still
<1>2. [r \in Requests |-> ReplyTo(r)]' = [r \in Requests |-> ReplyTo(r)]
  BY DEF Still
<1> QED BY <1>1, <1>2 DEF Queue!vars

LEMMA OneAsks ==
  ASSUME NEW r \in Requests,
         DecisionOn(r) = "new", DecisionOn(r)' = "open", ReplyTo(r)' = ReplyTo(r),
         \A q \in Requests \ {r} : Still(q)
  PROVE  [Queue!Next]_(Queue!vars)
<1>1. Queue!Ask(r)
  BY DEF Queue!Ask, Queue!Moved, Still
<1> QED BY <1>1 DEF Queue!Next

LEMMA SomeAreTurnedDown ==
  ASSUME NEW S \in SUBSET Requests,
         \A r \in S : /\ DecisionOn(r) = "open" /\ DecisionOn(r)' = "over"
                      /\ ReplyTo(r)' \in {ReplyTo(r), "no"},
         \A r \in Requests \ S : Still(r)
  PROVE  [Queue!Next]_(Queue!vars)
<1>1. CASE S = {} BY <1>1, Stutter
<1>2. CASE S # {}
  <2> DEFINE reached == {r \in S : ReplyTo(r)' = "no"}
  <2>1. [r \in Requests |-> DecisionOn(r)]' = Queue!Moved(S, "over")
    BY DEF Queue!Moved, Still
  <2>2. [r \in Requests |-> ReplyTo(r)]' = Queue!Told(reached, "no")
    BY DEF Queue!Told, Still
  <2>3. Queue!TurnDown(S)
    BY <1>2, <2>1, <2>2 DEF Queue!TurnDown
  <2> QED BY <2>3 DEF Queue!Next
<1> QED BY <1>1, <1>2

LEMMA OneIsTurnedDown ==
  ASSUME NEW r \in Requests,
         DecisionOn(r) = "open", DecisionOn(r)' = "over", ReplyTo(r)' \in {ReplyTo(r), "no"},
         \A q \in Requests \ {r} : Still(q)
  PROVE  [Queue!Next]_(Queue!vars)
<1>1. \A q \in {r} : /\ DecisionOn(q) = "open" /\ DecisionOn(q)' = "over"
                     /\ ReplyTo(q)' \in {ReplyTo(q), "no"}
  OBVIOUS
<1>2. {r} \in SUBSET Requests
  OBVIOUS
<1>3. \A S \in SUBSET Requests :
        /\ \A q \in S : /\ DecisionOn(q) = "open" /\ DecisionOn(q)' = "over"
                       /\ ReplyTo(q)' \in {ReplyTo(q), "no"}
        /\ \A q \in Requests \ S : Still(q)
        => [Queue!Next]_(Queue!vars)
  BY SomeAreTurnedDown
<1> QED BY <1>1, <1>2, <1>3

LEMMA OneIsTaken ==
  ASSUME NEW r \in Requests,
         DecisionOn(r) = "open", DecisionOn(r)' = "taken", ReplyTo(r)' = ReplyTo(r),
         \A q \in Requests \ {r} : Still(q)
  PROVE  [Queue!Next]_(Queue!vars)
<1>1. Queue!Take(r)
  BY DEF Queue!Take, Queue!Moved, Still
<1> QED BY <1>1 DEF Queue!Next

LEMMA OneIsFinished ==
  ASSUME NEW r \in Requests,
         DecisionOn(r) = "taken", DecisionOn(r)' = "over",
         ReplyTo(r)' \in {ReplyTo(r), "outcome"},
         \A q \in Requests \ {r} : Still(q)
  PROVE  [Queue!Next]_(Queue!vars)
<1> DEFINE reached == IF ReplyTo(r)' = "outcome" THEN {r} ELSE {}
<1>1. [q \in Requests |-> DecisionOn(q)]' = Queue!Moved({r}, "over")
  BY DEF Queue!Moved, Still
<1>2. [q \in Requests |-> ReplyTo(q)]' = Queue!Told(reached, "outcome")
  BY DEF Queue!Told, Still
<1>3. Queue!Finish(r)
  BY <1>1, <1>2 DEF Queue!Finish
<1> QED BY <1>3 DEF Queue!Next

LEMMA AllAreForgotten ==
  ASSUME \A r \in Requests : /\ DecisionOn(r)' = IF DecisionOn(r) = "new" THEN "new" ELSE "over"
                             /\ ReplyTo(r)' = ReplyTo(r)
  PROVE  [Queue!Next]_(Queue!vars)
<1>1. Queue!Die
  BY DEF Queue!Die, Queue!Moved
<1> QED BY <1>1 DEF Queue!Next

-----------------------------------------------------------------------------
(* What the refinement needs beyond QueueInv.                                *)

\* A request that is over was answered, unless its page is gone or the worker
\* that knew it is dead.
SilentIsDead ==
    \A r \in Requests :
        stage[r] = "opened" /\ ~IsPending(r) /\ answers[r] = {} => port[PortOf[r]] = "down"

\* A window is on its way for requests that were opened, and not beyond.
WindowIsOpened ==
    \A r \in Requests : popup[r] \in {"locating", "creating"} => stage[r] = "opened"

\* A request came by a port that was connected.
PortHasBeenUp == \A r \in Requests : stage[r] # "idle" => port[PortOf[r]] # "fresh"

DropInv == SilentIsDead /\ WindowIsOpened /\ PortHasBeenUp

\* Where the map holds an item under the id of r, it is r.
LEMMA ItemsAtOwn ==
  ASSUME DistinctIds, TypeOK, SlotsMatch, NEW r \in Requests
  PROVE  ItemsAt(IdOf[r]) = IF IsPending(r) THEN {r} ELSE {}
BY ConstantsAssumption DEF DistinctIds, ItemsAt, IsPending, SlotsMatch, TypeOK, Slots

\* Removing items leaves exactly the others pending.
LEMMA WithoutPending ==
  ASSUME TypeOK, NEW S, pending' = Without(S), NEW r \in Requests
  PROVE  IsPending(r)' <=> IsPending(r) /\ r \notin S
BY ConstantsAssumption DEF Without, IsPending, TypeOK

LEMMA DropInvInit == Init => DropInv
BY DEF Init, DropInv, SilentIsDead, WindowIsOpened, PortHasBeenUp

\* Items that are told if their page listens, or whose port is closed, may be removed.
LEMMA RemovalKeepsDropInv ==
  ASSUME TypeOK, QueueInv, DropInv, NEW S \in SUBSET PendingItems,
         pending' = Without(S), stage' = stage,
         \/ port' = port /\ Tell(S, "declined")
         \/ /\ answers' = answers /\ \A r \in S : port'[PortOf[r]] = "down"
            /\ \A p \in Ports : port'[p] = port[p] \/ port'[p] = "down",
         \A r \in Requests : popup'[r] = popup[r] \/ popup'[r] = "closed"
  PROVE  DropInv'
<1> USE ConstantsAssumption
<1>1. \A r \in S : r \in Requests /\ stage[r] = "opened" /\ port[PortOf[r]] \in {"up", "down"}
  BY DEF PendingItems, QueueInv, PendingIsOpened, DropInv, PortHasBeenUp, TypeOK
<1>2. \A r \in Requests : answers[r] \subseteq answers'[r]
  BY DEF Tell, TypeOK
<1>3. \A r \in S : answers'[r] # {} \/ port'[PortOf[r]] = "down"
  <2>1. CASE port' = port /\ Tell(S, "declined")
    <3>1. ASSUME NEW r \in S, Live(r) PROVE answers'[r] # {}
      BY <1>1, <2>1, <3>1 DEF Tell
    <3>2. ASSUME NEW r \in S, ~Live(r) PROVE port'[PortOf[r]] = "down"
      BY <1>1, <2>1, <3>2 DEF Live
    <3> QED BY <3>1, <3>2
  <2>2. CASE \A r \in S : port'[PortOf[r]] = "down" BY <2>2
  <2> QED BY <2>1, <2>2
<1>4. SilentIsDead'
  BY <1>2, <1>3, WithoutPending DEF DropInv, SilentIsDead
<1>5. WindowIsOpened' /\ PortHasBeenUp'
  BY DEF DropInv, WindowIsOpened, PortHasBeenUp
<1> QED BY <1>4, <1>5 DEF DropInv

LEMMA RequestKeepsDropInv ==
  ASSUME DistinctIds, TypeOK, QueueInv, DropInv, NEW r \in Requests,
         Arrive(r) \/ Handler(r) \/ Browser(r) \/ Clock(r) \/ User(r)
  PROVE  DropInv'
<1> USE ConstantsAssumption
<1> DEFINE Hit == ItemsAt(IdOf[r])
<1>a. Hit = IF IsPending(r) THEN {r} ELSE {}
  BY ItemsAtOwn DEF QueueInv
<1>1. CASE Arrive(r)
  BY <1>1 DEF Arrive, Live, TypeOK, DropInv, SilentIsDead, WindowIsOpened, PortHasBeenUp, IsPending
<1>2. CASE Admit(r)
  BY <1>2 DEF Admit, TypeOK, DropInv, SilentIsDead, WindowIsOpened, PortHasBeenUp, IsPending
<1>3. CASE Refuse(r)
  BY <1>3 DEF Refuse, Fails, Tell, TypeOK, DropInv, SilentIsDead, WindowIsOpened, PortHasBeenUp, IsPending
<1>4. CASE Open(r)
  <2>1. \A q \in Requests : IsPending(q)' <=> IsPending(q) \/ q = r
    BY <1>4 DEF Open, TypeOK, IsPending, DistinctIds, QueueInv, SlotsMatch
  <2> QED BY <1>4, <2>1 DEF Open, TypeOK, DropInv, SilentIsDead, WindowIsOpened, PortHasBeenUp
<1>5. CASE OpenStale(r)
  BY <1>5 DEF OpenStale, Fails, Tell, TypeOK, DropInv, SilentIsDead, WindowIsOpened, PortHasBeenUp, IsPending
<1>6. CASE Settle(r)
  BY <1>6 DEF Settle, Tell, ClosePopup, TypeOK, DropInv, SilentIsDead, WindowIsOpened, PortHasBeenUp, IsPending
<1>7. CASE Locate(r)
  BY <1>7 DEF Locate, workerVars, TypeOK, DropInv, SilentIsDead, WindowIsOpened, PortHasBeenUp, IsPending
<1>8. CASE Show(r)
  BY <1>8 DEF Show, workerVars, TypeOK, DropInv, SilentIsDead, WindowIsOpened, PortHasBeenUp, IsPending
<1>9. CASE Created(r)
  BY <1>9 DEF Created, workerVars, TypeOK, DropInv, SilentIsDead, WindowIsOpened, PortHasBeenUp, IsPending
<1>10. CASE CreateFails(r)
  <2>1. \A q \in Requests : q # r => (IsPending(q)' <=> IsPending(q))
    BY <1>10, <1>a, WithoutPending DEF CreateFails
  <2>2. \A q \in Requests : q # r => answers'[q] = answers[q] /\ stage'[q] = stage[q] /\ popup'[q] = popup[q]
    BY <1>10 DEF CreateFails, Tell, TypeOK
  <2>3. stage'[r] = "settled" /\ popup'[r] = "none" /\ port' = port
    BY <1>10 DEF CreateFails, TypeOK
  <2>4. stage[r] = "opened"
    BY <1>10 DEF CreateFails, DropInv, WindowIsOpened
  <2> QED BY <2>1, <2>2, <2>3, <2>4 DEF DropInv, SilentIsDead, WindowIsOpened, PortHasBeenUp
<1>11. CASE Expire(r)
  BY <1>11 DEF Expire, workerVars, DropInv, SilentIsDead, WindowIsOpened, PortHasBeenUp, IsPending
<1>12. CASE TimerFires(r)
  <2>1. \A q \in Requests : popup'[q] = popup[q] \/ popup'[q] = "closed"
    BY <1>12 DEF TimerFires
  <2>2. pending' = Without(Hit) /\ stage' = stage /\ port' = port
    BY <1>12 DEF TimerFires
  <2>3. Tell(Hit, "declined")
    BY <1>12 DEF TimerFires
  <2>4. Hit \in SUBSET PendingItems
    BY <1>a DEF PendingItems
  <2> QED BY <2>1, <2>2, <2>3, <2>4, RemovalKeepsDropInv
<1>13. CASE Approve(r)
  <2>1. \A q \in Requests : q # r => (IsPending(q)' <=> IsPending(q))
    BY <1>13, WithoutPending DEF Approve
  <2>2. stage[r] = "opened" /\ popup[r] \in {"shown", "open"}
    BY <1>13 DEF Approve, Decidable, QueueInv, PendingIsOpened
  <2> QED BY <1>13, <2>1, <2>2 DEF Approve, TypeOK, DropInv, SilentIsDead, WindowIsOpened, PortHasBeenUp
<1>14. CASE Decline(r)
  <2>1. \A q \in Requests : q # r => (IsPending(q)' <=> IsPending(q))
    BY <1>14, WithoutPending DEF Decline
  <2>2. stage[r] = "opened" /\ popup[r] \in {"shown", "open"}
    BY <1>14 DEF Decline, Decidable, QueueInv, PendingIsOpened
  <2> QED BY <1>14, <2>1, <2>2 DEF Decline, Tell, ClosePopup, TypeOK, DropInv, SilentIsDead, WindowIsOpened, PortHasBeenUp
<1>15. CASE UserCloses(r)
  BY <1>15, RemovalKeepsDropInv DEF UserCloses, PendingItems
<1> QED BY <1>1, <1>2, <1>3, <1>4, <1>5, <1>6, <1>7, <1>8, <1>9, <1>10, <1>11, <1>12,
           <1>13, <1>14, <1>15 DEF Handler, Browser, Clock, User

LEMMA OthersKeepDropInv ==
  ASSUME TypeOK, QueueInv, DropInv,
         \/ \E p \in Ports : Connect(p) \/ Disconnect(p)
         \/ SweepExpired \/ ChangeContext \/ BadgeStarts \/ BadgeWritten \/ Restart
         \/ UNCHANGED vars
  PROVE  DropInv'
<1> USE ConstantsAssumption
<1>1. ASSUME UNCHANGED <<pending, stage, answers, popup, port>> PROVE DropInv'
  BY <1>1 DEF DropInv, SilentIsDead, WindowIsOpened, PortHasBeenUp, IsPending
<1>2. ASSUME NEW p \in Ports, Connect(p) PROVE DropInv'
  <2>1. UNCHANGED <<pending, stage, answers, popup>> /\ port[p] = "fresh" /\ port' = [port EXCEPT ![p] = "up"]
    BY <1>2 DEF Connect, workerVars
  <2> QED BY <2>1 DEF TypeOK, DropInv, SilentIsDead, WindowIsOpened, PortHasBeenUp, IsPending
<1>3. ASSUME NEW p \in Ports, Disconnect(p) PROVE DropInv'
  <2> DEFINE gone == {r \in PendingItems : PortOf[r] = p}
  <2>1. /\ pending' = Without(gone) /\ stage' = stage /\ answers' = answers
        /\ port' = [port EXCEPT ![p] = "down"]
        /\ \A r \in Requests : popup'[r] = popup[r] \/ popup'[r] = "closed"
    BY <1>3 DEF Disconnect
  <2>2. \A q \in Ports : port'[q] = port[q] \/ port'[q] = "down"
    BY <2>1 DEF TypeOK
  <2>3. \A r \in gone : port'[PortOf[r]] = "down"
    BY <2>1 DEF TypeOK
  <2> QED BY <2>1, <2>2, <2>3, RemovalKeepsDropInv
<1>4. ASSUME NEW S \in SUBSET PendingItems, RejectItems(S), UNCHANGED <<stage, port>>
      PROVE  DropInv'
  BY <1>4, RemovalKeepsDropInv DEF RejectItems
<1>5. CASE SweepExpired
  <2>1. PICK S : S \in SUBSET (PendingItems \cap expired) /\ RejectItems(S) /\ UNCHANGED <<stage, port>>
    BY <1>5 DEF SweepExpired
  <2> QED BY <2>1, <1>4
<1>6. CASE ChangeContext BY <1>6, <1>4 DEF ChangeContext
<1>7. CASE BadgeStarts BY <1>1, <1>7 DEF BadgeStarts, workerVars
<1>8. CASE BadgeWritten BY <1>1, <1>8 DEF BadgeWritten, workerVars
<1>9. CASE Restart
  BY <1>9 DEF Restart, TypeOK, DropInv, SilentIsDead, WindowIsOpened, PortHasBeenUp
<1>10. CASE UNCHANGED vars BY <1>1, <1>10 DEF vars, workerVars
<1> QED BY <1>2, <1>3, <1>5, <1>6, <1>7, <1>8, <1>9, <1>10

LEMMA DropInvHolds == ASSUME DistinctIds PROVE Spec => []DropInv
<1>1. TypeOK /\ QueueInv /\ DropInv /\ [Next]_vars => DropInv'
  BY RequestKeepsDropInv, OthersKeepDropInv DEF Next
<1> QED BY <1>1, DropInvInit, TypeCorrect, QueueInvHolds, PTL DEF Spec

-----------------------------------------------------------------------------
(* Every step of the queue is a step of Decision, or a stutter.              *)

LEMMA SameIsStill ==
  ASSUME NEW r \in Requests, stage'[r] = stage[r], answers'[r] = answers[r],
         IsPending(r)' <=> IsPending(r)
  PROVE  Still(r)
BY DEF Still, DecisionOn, ReplyTo

\* A request nothing was said about has no reply, and what is said of it but a
\* result is a "no".
LEMMA ReplyIsNo ==
  ASSUME TypeOK, QueueInv, NEW r \in Requests, Undecided(r),
         NEW a \in {"declined", "failed"},
         answers'[r] = answers[r] \/ answers'[r] = answers[r] \cup {a}
  PROVE  ReplyTo(r)' \in {ReplyTo(r), "no"}
<1>1. answers[r] = {}
  BY DEF QueueInv, UndecidedIsUnanswered
<1> QED BY <1>1 DEF ReplyTo

LEMMA TellsNo ==
  ASSUME TypeOK, QueueInv, NEW r \in Requests, Undecided(r),
         NEW a \in {"declined", "failed"}, Tell({r}, a)
  PROVE  ReplyTo(r)' \in {ReplyTo(r), "no"}
<1>1. answers'[r] = answers[r] \/ answers'[r] = answers[r] \cup {a}
  BY DEF Tell
<1> QED BY <1>1, ReplyIsNo

LEMMA RemovalTurnsDown ==
  ASSUME TypeOK, QueueInv, NEW S \in SUBSET PendingItems,
         pending' = Without(S), stage' = stage,
         \A r \in Requests : \/ answers'[r] = answers[r]
                             \/ r \in S /\ answers'[r] = answers[r] \cup {"declined"}
  PROVE  [Queue!Next]_(Queue!vars)
<1>1. ASSUME NEW r \in S
      PROVE  /\ DecisionOn(r) = "open" /\ DecisionOn(r)' = "over"
             /\ ReplyTo(r)' \in {ReplyTo(r), "no"}
  <2>1. r \in Requests /\ IsPending(r) /\ ~IsPending(r)' /\ stage[r] = "opened"
    BY WithoutPending DEF PendingItems, QueueInv, PendingIsOpened
  <2>2. DecisionOn(r) = "open" /\ DecisionOn(r)' = "over"
    BY <2>1 DEF DecisionOn
  <2>3. ReplyTo(r)' \in {ReplyTo(r), "no"}
    BY <2>1, ReplyIsNo DEF Undecided
  <2> QED BY <2>2, <2>3
<1>2. ASSUME NEW r \in Requests \ S PROVE Still(r)
  BY <1>2, SameIsStill, WithoutPending
<1> QED BY <1>1, <1>2, SomeAreTurnedDown DEF PendingItems

LEMMA RequestImplements ==
  ASSUME DistinctIds, TypeOK, QueueInv, DropInv, NEW r \in Requests,
         Arrive(r) \/ Handler(r) \/ Browser(r) \/ Clock(r) \/ User(r)
  PROVE  [Queue!Next]_(Queue!vars)
<1> USE ConstantsAssumption
<1> DEFINE Hit == ItemsAt(IdOf[r])
<1>a. Hit = IF IsPending(r) THEN {r} ELSE {}
  BY ItemsAtOwn DEF QueueInv
<1>b. \A q \in Requests : IsPending(q) => stage[q] = "opened"
  BY DEF QueueInv, PendingIsOpened
<1>c. ASSUME UNCHANGED <<pending, stage, answers>> PROVE [Queue!Next]_(Queue!vars)
  BY <1>c, SameIsStill, Stutter DEF IsPending
<1>1. CASE Arrive(r)
  <2>1. \A q \in Requests \ {r} : Still(q)
    BY <1>1, SameIsStill DEF Arrive, TypeOK, IsPending
  <2>2. DecisionOn(r) = "new" /\ DecisionOn(r)' = "open" /\ ReplyTo(r)' = ReplyTo(r)
    BY <1>1 DEF Arrive, TypeOK, DecisionOn, ReplyTo
  <2> QED BY <2>1, <2>2, OneAsks
<1>2. CASE Admit(r)
  <2>1. \A q \in Requests \ {r} : Still(q)
    BY <1>2, SameIsStill DEF Admit, TypeOK, IsPending
  <2>2. Still(r)
    BY <1>2 DEF Admit, TypeOK, Still, DecisionOn, ReplyTo
  <2> QED BY <2>1, <2>2, Stutter
<1>3. CASE Refuse(r) \/ OpenStale(r)
  <2>1. /\ stage[r] \in {"handling", "context"} /\ stage' = [stage EXCEPT ![r] = "settled"]
        /\ pending' = pending /\ Tell({r}, "failed")
    BY <1>3 DEF Refuse, OpenStale, Fails
  <2>2. \A q \in Requests \ {r} : Still(q)
    BY <2>1, SameIsStill DEF Tell, TypeOK, IsPending
  <2>3. DecisionOn(r) = "open" /\ DecisionOn(r)' = "over"
    BY <2>1, <1>b DEF TypeOK, DecisionOn, IsPending
  <2>4. ReplyTo(r)' \in {ReplyTo(r), "no"}
    BY <2>1, TellsNo DEF Undecided
  <2> QED BY <2>2, <2>3, <2>4, OneIsTurnedDown
<1>4. CASE Open(r)
  <2>1. \A q \in Requests : IsPending(q)' <=> IsPending(q) \/ q = r
    BY <1>4 DEF Open, TypeOK, IsPending, DistinctIds, QueueInv, SlotsMatch
  <2>2. \A q \in Requests \ {r} : Still(q)
    BY <1>4, <2>1, SameIsStill DEF Open, TypeOK
  <2>3. Still(r)
    BY <1>4, <2>1 DEF Open, TypeOK, Still, DecisionOn, ReplyTo
  <2> QED BY <2>2, <2>3, Stutter
<1>5. CASE Settle(r)
  <2>1. \A q \in Requests \ {r} : Still(q)
    BY <1>5, SameIsStill DEF Settle, Tell, TypeOK, IsPending
  <2>2. DecisionOn(r) = "taken" /\ DecisionOn(r)' = "over"
    BY <1>5, <1>b DEF Settle, TypeOK, DecisionOn, IsPending
  <2>3. ReplyTo(r)' \in {ReplyTo(r), "outcome"}
    BY <1>5 DEF Settle, Tell, ReplyTo
  <2> QED BY <2>1, <2>2, <2>3, OneIsFinished
<1>6. CASE Locate(r) \/ Show(r) \/ Created(r) \/ Expire(r)
  BY <1>6, <1>c DEF Locate, Show, Created, Expire, workerVars
<1>7. CASE CreateFails(r)
  <2>1. /\ pending' = Without(Hit) /\ stage' = [stage EXCEPT ![r] = "settled"]
        /\ Tell({r}, "failed") /\ stage[r] = "opened"
    BY <1>7 DEF CreateFails, DropInv, WindowIsOpened
  <2>2. \A q \in Requests \ {r} : Still(q)
    BY <2>1, <1>a, SameIsStill, WithoutPending DEF Tell, TypeOK
  <2>3. ~IsPending(r)' /\ DecisionOn(r)' = "over"
    BY <2>1, <1>a, WithoutPending DEF TypeOK, DecisionOn
  <2>4. CASE IsPending(r)
    <3>1. DecisionOn(r) = "open"
      BY <2>1, <2>4 DEF DecisionOn
    <3>2. ReplyTo(r)' \in {ReplyTo(r), "no"}
      BY <2>1, <2>4, TellsNo DEF Undecided
    <3> QED BY <2>2, <2>3, <3>1, <3>2, OneIsTurnedDown
  <2>5. CASE ~IsPending(r)
    <3>1. DecisionOn(r) = "over"
      BY <2>1, <2>5 DEF DecisionOn
    <3>2. answers[r] = {} => ~Live(r)
      BY <2>1, <2>5 DEF DropInv, SilentIsDead, Live
    <3>3. "settled" \notin answers[r]
      BY <2>1 DEF QueueInv, SettledOnce
    <3>4. ReplyTo(r)' = ReplyTo(r)
      BY <2>1, <3>2, <3>3 DEF Tell, ReplyTo
    <3> QED BY <2>2, <2>3, <3>1, <3>4, Stutter DEF Still
  <2> QED BY <2>4, <2>5
<1>8. CASE TimerFires(r)
  <2>1. pending' = Without(Hit) /\ stage' = stage /\ Tell(Hit, "declined")
    BY <1>8 DEF TimerFires
  <2>2. Hit \in SUBSET PendingItems
    BY <1>a DEF PendingItems
  <2> QED BY <2>1, <2>2, RemovalTurnsDown DEF Tell, TypeOK
<1>9. CASE Approve(r)
  <2>1. \A q \in Requests \ {r} : Still(q)
    BY <1>9, SameIsStill, WithoutPending DEF Approve, TypeOK
  <2>2. DecisionOn(r) = "open" /\ DecisionOn(r)' = "taken" /\ ReplyTo(r)' = ReplyTo(r)
    BY <1>9, <1>b, WithoutPending DEF Approve, Decidable, TypeOK, DecisionOn, ReplyTo
  <2> QED BY <2>1, <2>2, OneIsTaken
<1>10. CASE Decline(r)
  <2>1. /\ IsPending(r) /\ pending' = Without({r}) /\ stage' = [stage EXCEPT ![r] = "settled"]
        /\ Tell({r}, "declined")
    BY <1>10 DEF Decline, Decidable
  <2>2. \A q \in Requests \ {r} : Still(q)
    BY <2>1, SameIsStill, WithoutPending DEF Tell, TypeOK
  <2>3. DecisionOn(r) = "open" /\ DecisionOn(r)' = "over"
    BY <2>1, <1>b, WithoutPending DEF TypeOK, DecisionOn
  <2>4. ReplyTo(r)' \in {ReplyTo(r), "no"}
    BY <2>1, TellsNo DEF Undecided
  <2> QED BY <2>2, <2>3, <2>4, OneIsTurnedDown
<1>11. CASE UserCloses(r)
  BY <1>11, RemovalTurnsDown DEF UserCloses, PendingItems, Tell, TypeOK
<1> QED BY <1>1, <1>2, <1>3, <1>4, <1>5, <1>6, <1>7, <1>8, <1>9, <1>10, <1>11
       DEF Handler, Browser, Clock, User

LEMMA OthersImplement ==
  ASSUME TypeOK, QueueInv, DropInv,
         \/ \E p \in Ports : Connect(p) \/ Disconnect(p)
         \/ SweepExpired \/ ChangeContext \/ BadgeStarts \/ BadgeWritten \/ Restart
         \/ UNCHANGED vars
  PROVE  [Queue!Next]_(Queue!vars)
<1>1. ASSUME UNCHANGED <<pending, stage, answers>> PROVE [Queue!Next]_(Queue!vars)
  BY <1>1, SameIsStill, Stutter DEF IsPending
<1>2. ASSUME NEW p \in Ports, Connect(p) PROVE [Queue!Next]_(Queue!vars)
  BY <1>1, <1>2 DEF Connect, workerVars
<1>3. ASSUME NEW p \in Ports, Disconnect(p) PROVE [Queue!Next]_(Queue!vars)
  BY <1>3, RemovalTurnsDown DEF Disconnect
<1>4. ASSUME NEW S \in SUBSET PendingItems, RejectItems(S), stage' = stage
      PROVE  [Queue!Next]_(Queue!vars)
  BY <1>4, RemovalTurnsDown DEF RejectItems, Tell, TypeOK
<1>5. CASE SweepExpired
  <2>1. PICK S : S \in SUBSET (PendingItems \cap expired) /\ RejectItems(S) /\ stage' = stage
    BY <1>5 DEF SweepExpired
  <2> QED BY <2>1, <1>4
<1>6. CASE ChangeContext BY <1>6, <1>4 DEF ChangeContext
<1>7. CASE BadgeStarts BY <1>1, <1>7 DEF BadgeStarts, workerVars
<1>8. CASE BadgeWritten BY <1>1, <1>8 DEF BadgeWritten, workerVars
<1>9. CASE Restart
  <2>1. \A r \in Requests : ~IsPending(r)' /\ answers' = answers
                            /\ stage'[r] = IF stage[r] \in {"idle", "settled"} THEN stage[r] ELSE "lost"
    BY <1>9, ConstantsAssumption DEF Restart, IsPending
  <2> QED BY <2>1, AllAreForgotten DEF DecisionOn, ReplyTo
<1>10. CASE UNCHANGED vars BY <1>1, <1>10 DEF vars, workerVars
<1> QED BY <1>2, <1>3, <1>5, <1>6, <1>7, <1>8, <1>9, <1>10

\* The queue implements one decision per request, when the pages' request ids
\* differ (background.ts 547-606, 965-980, 1589-1622).
THEOREM QueueImplementsDecision == ASSUME DistinctIds PROVE Spec => DecidedOnce
<1>1. Init => Queue!Init
  BY DEF Init, Queue!Init, DecisionOn, ReplyTo
<1>2. TypeOK /\ QueueInv /\ DropInv /\ [Next]_vars => [Queue!Next]_(Queue!vars)
  BY RequestImplements, OthersImplement DEF Next
<1> QED BY <1>1, <1>2, TypeCorrect, QueueInvHolds, DropInvHolds, PTL DEF Spec, DecidedOnce, Queue!Spec

-----------------------------------------------------------------------------
(* The popup and the badge follow the maps.                                  *)

\* A window belongs to a request that has arrived.
WindowHasRequest == \A r \in Requests : popup[r] # "none" => stage[r] # "idle"

PopupInv == WindowHasRequest /\ NoOrphanPopup

\* Whatever removes items, and leaves no window of a listening page open for them,
\* leaves no window behind.
LEMMA RemovalKeepsPopupInv ==
  ASSUME TypeOK, PopupInv, NEW S, pending' = Without(S), UNCHANGED <<stage, processing>>,
         \A p \in Ports : port'[p] = "up" => port[p] = "up",
         \A r \in Requests :
           \/ popup'[r] = popup[r] /\ (r \in S /\ port'[PortOf[r]] = "up" => popup[r] # "open")
           \/ popup'[r] = "closed" /\ popup[r] = "open"
  PROVE  PopupInv'
<1>1. WindowHasRequest'
  BY DEF PopupInv, WindowHasRequest
<1>2. ASSUME NEW r \in Requests, popup'[r] = "open", port'[PortOf[r]] = "up"
      PROVE  IsPending(r)' \/ processing'[IdOf[r]] = r
  <2>1. popup[r] = "open" /\ port[PortOf[r]] = "up" /\ r \notin S
    BY <1>2, ConstantsAssumption
  <2>2. IsPending(r) \/ processing[IdOf[r]] = r
    BY <2>1 DEF PopupInv, NoOrphanPopup, Live
  <2> QED BY <2>1, <2>2, WithoutPending
<1> QED BY <1>1, <1>2 DEF PopupInv, NoOrphanPopup, Live

LEMMA RequestKeepsPopupInv ==
  ASSUME DistinctIds, TypeOK, QueueInv, DropInv, PopupInv, NEW r \in Requests,
         Arrive(r) \/ Handler(r) \/ Browser(r) \/ Clock(r) \/ User(r)
  PROVE  PopupInv'
<1> USE ConstantsAssumption
<1> DEFINE Hit == ItemsAt(IdOf[r])
           Follows == WindowHasRequest /\ \A q \in Requests :
                        popup[q] = "open" /\ port[PortOf[q]] = "up" =>
                          IsPending(q) \/ processing[IdOf[q]] = q
<1>a. Hit = IF IsPending(r) THEN {r} ELSE {}
  BY ItemsAtOwn DEF QueueInv
<1>b. Follows
  BY DEF PopupInv, NoOrphanPopup, Live
<1>c. Follows' => PopupInv'
  BY DEF PopupInv, NoOrphanPopup, Live
<1>1. CASE Arrive(r) \/ Admit(r) \/ Refuse(r) \/ OpenStale(r)
  <2>1. UNCHANGED <<pending, processing, popup, port>> /\ \A q \in Requests : stage'[q] = "idle" => stage[q] = "idle"
    BY <1>1 DEF Arrive, Admit, Refuse, OpenStale, Fails, TypeOK
  <2> QED BY <2>1, <1>b, <1>c DEF WindowHasRequest, IsPending
<1>2. CASE Open(r)
  <2>1. \A q \in Requests : IsPending(q)' <=> IsPending(q) \/ q = r
    BY <1>2 DEF Open, TypeOK, IsPending, DistinctIds, QueueInv, SlotsMatch
  <2>2. /\ UNCHANGED <<processing, port>>
        /\ popup' = [popup EXCEPT ![r] = "locating"] /\ stage' = [stage EXCEPT ![r] = "opened"]
    BY <1>2 DEF Open
  <2> QED BY <2>1, <2>2, <1>b, <1>c DEF WindowHasRequest, TypeOK
<1>3. CASE Settle(r)
  <2>1. /\ UNCHANGED <<pending, port>> /\ processing' = [processing EXCEPT ![IdOf[r]] = NoRequest]
        /\ stage' = [stage EXCEPT ![r] = "settled"] /\ popup' = ClosePopup(r)
    BY <1>3 DEF Settle
  <2>2. \A q \in Requests : popup'[q] = IF q = r /\ popup[q] = "open" THEN "closed" ELSE popup[q]
    BY <2>1 DEF ClosePopup, TypeOK
  <2>3. \A q \in Requests \ {r} : processing'[IdOf[q]] = processing[IdOf[q]]
    BY <2>1 DEF DistinctIds, TypeOK
  <2>4. \A q \in Requests : IsPending(q)' <=> IsPending(q)
    BY <2>1 DEF IsPending
  <2>5. \A q \in Requests : stage'[q] = "idle" => stage[q] = "idle"
    BY <2>1 DEF TypeOK
  <2>6. WindowHasRequest'
    BY <2>1, <2>2, <1>b DEF WindowHasRequest, TypeOK
  <2> QED BY <2>1, <2>2, <2>3, <2>4, <2>6, <1>b, <1>c
<1>4. CASE Locate(r) \/ Show(r) \/ Created(r)
  <2>1. /\ UNCHANGED <<pending, processing, stage, port>> /\ popup[r] # "none"
        /\ \A q \in Requests \ {r} : popup'[q] = popup[q]
        /\ popup'[r] = "open" => IsPending(r)
    BY <1>4 DEF Locate, Show, Created, workerVars, TypeOK
  <2> QED BY <2>1, <1>b, <1>c DEF WindowHasRequest, IsPending
<1>5. CASE CreateFails(r)
  <2>1. /\ UNCHANGED <<processing, port>> /\ pending' = Without(Hit)
        /\ popup' = [popup EXCEPT ![r] = "none"] /\ stage' = [stage EXCEPT ![r] = "settled"]
    BY <1>5 DEF CreateFails
  <2>2. \A q \in Requests \ {r} : IsPending(q)' <=> IsPending(q)
    BY <2>1, <1>a, WithoutPending
  <2> QED BY <2>1, <2>2, <1>b, <1>c DEF WindowHasRequest, TypeOK
<1>6. CASE Expire(r)
  BY <1>6, <1>b, <1>c DEF Expire, workerVars, WindowHasRequest, IsPending
<1>7. CASE TimerFires(r)
  <2>1. /\ pending' = Without(Hit) /\ UNCHANGED <<stage, processing, port>>
        /\ popup' = [q \in Requests |->
                       IF q \in Hit /\ Live(q) /\ popup[q] = "open" THEN "closed" ELSE popup[q]]
    BY <1>7 DEF TimerFires
  <2> QED BY <2>1, RemovalKeepsPopupInv DEF Live
<1>8. CASE Approve(r)
  <2>1. /\ UNCHANGED <<popup, port>> /\ pending' = Without({r})
        /\ processing' = [processing EXCEPT ![IdOf[r]] = r] /\ stage' = [stage EXCEPT ![r] = "executing"]
    BY <1>8 DEF Approve
  <2>2. \A q \in Requests \ {r} : /\ IsPending(q)' <=> IsPending(q)
                                  /\ processing'[IdOf[q]] = processing[IdOf[q]]
    BY <2>1, WithoutPending DEF DistinctIds, TypeOK
  <2>3. processing'[IdOf[r]] = r
    BY <2>1 DEF TypeOK
  <2>4. WindowHasRequest'
    BY <2>1, <1>b DEF WindowHasRequest, TypeOK
  <2>5. ASSUME NEW q \in Requests, popup'[q] = "open", port'[PortOf[q]] = "up"
        PROVE  IsPending(q)' \/ processing'[IdOf[q]] = q
    <3>1. CASE q = r BY <3>1, <2>3
    <3>2. CASE q # r BY <3>2, <2>1, <2>2, <2>5, <1>b
    <3> QED BY <3>1, <3>2
  <2> QED BY <2>4, <2>5, <1>c
<1>9. CASE Decline(r)
  <2>1. /\ UNCHANGED <<processing, port>> /\ pending' = Without({r})
        /\ stage' = [stage EXCEPT ![r] = "settled"] /\ popup' = ClosePopup(r)
    BY <1>9 DEF Decline
  <2>2. \A q \in Requests : popup'[q] = IF q = r /\ popup[q] = "open" THEN "closed" ELSE popup[q]
    BY <2>1 DEF ClosePopup, TypeOK
  <2>3. \A q \in Requests \ {r} : IsPending(q)' <=> IsPending(q)
    BY <2>1, WithoutPending
  <2>4. WindowHasRequest'
    BY <2>1, <2>2, <1>b DEF WindowHasRequest, TypeOK
  <2> QED BY <2>1, <2>2, <2>3, <2>4, <1>b, <1>c
<1>10. CASE UserCloses(r)
  <2> DEFINE mine == {q \in {r} : IsPending(q)}
  <2>1. /\ pending' = Without(mine) /\ UNCHANGED <<stage, processing, port>>
        /\ popup[r] = "open" /\ popup' = [popup EXCEPT ![r] = "closed"]
    BY <1>10 DEF UserCloses
  <2> QED BY <2>1, RemovalKeepsPopupInv DEF TypeOK
<1> QED BY <1>1, <1>2, <1>3, <1>4, <1>5, <1>6, <1>7, <1>8, <1>9, <1>10
       DEF Handler, Browser, Clock, User

LEMMA OthersKeepPopupInv ==
  ASSUME TypeOK, QueueInv, DropInv, PopupInv,
         \/ \E p \in Ports : Connect(p) \/ Disconnect(p)
         \/ SweepExpired \/ ChangeContext \/ BadgeStarts \/ BadgeWritten \/ Restart
         \/ UNCHANGED vars
  PROVE  PopupInv'
<1> USE ConstantsAssumption
<1>1. ASSUME UNCHANGED <<pending, processing, stage, popup, port>> PROVE PopupInv'
  BY <1>1 DEF PopupInv, WindowHasRequest, NoOrphanPopup, Live, IsPending
<1>2. ASSUME NEW p \in Ports, Connect(p) PROVE PopupInv'
  <2>1. /\ UNCHANGED <<pending, processing, stage, popup>>
        /\ port[p] = "fresh" /\ port' = [port EXCEPT ![p] = "up"]
    BY <1>2 DEF Connect, workerVars
  <2>2. \A r \in Requests : popup[r] = "open" => PortOf[r] # p
    BY <2>1 DEF PopupInv, WindowHasRequest, DropInv, PortHasBeenUp
  <2> QED BY <2>1, <2>2 DEF TypeOK, PopupInv, WindowHasRequest, NoOrphanPopup, Live, IsPending
<1>3. ASSUME NEW p \in Ports, Disconnect(p) PROVE PopupInv'
  <2> DEFINE gone == {r \in PendingItems : PortOf[r] = p}
  <2>1. /\ pending' = Without(gone) /\ UNCHANGED <<stage, processing>>
        /\ port' = [port EXCEPT ![p] = "down"]
        /\ popup' = [r \in Requests |-> IF r \in gone /\ popup[r] = "open" THEN "closed" ELSE popup[r]]
    BY <1>3 DEF Disconnect
  <2> QED BY <2>1, RemovalKeepsPopupInv DEF TypeOK
<1>4. ASSUME NEW S, RejectItems(S), UNCHANGED <<processing, stage, port>> PROVE PopupInv'
  <2>1. popup' = [r \in Requests |->
                    IF r \in S /\ Live(r) /\ popup[r] = "open" THEN "closed" ELSE popup[r]]
    BY <1>4 DEF RejectItems
  <2> QED BY <1>4, <2>1, RemovalKeepsPopupInv DEF RejectItems, Live
<1>5. CASE SweepExpired
  <2>1. PICK S : RejectItems(S) /\ UNCHANGED <<processing, stage, port>>
    BY <1>5 DEF SweepExpired
  <2> QED BY <2>1, <1>4
<1>6. CASE ChangeContext BY <1>6, <1>4 DEF ChangeContext
<1>7. CASE BadgeStarts BY <1>1, <1>7 DEF BadgeStarts, workerVars
<1>8. CASE BadgeWritten BY <1>1, <1>8 DEF BadgeWritten, workerVars
<1>9. CASE Restart
  BY <1>9 DEF Restart, TypeOK, PopupInv, WindowHasRequest, NoOrphanPopup
<1>10. CASE UNCHANGED vars BY <1>1, <1>10 DEF vars, workerVars
<1> QED BY <1>2, <1>3, <1>5, <1>6, <1>7, <1>8, <1>9, <1>10

\* The window of a request that is over does not stay behind, when the pages'
\* request ids differ: with a shared id the older item is dropped without its window
\* (background.ts 570-589, 605, 1621).
THEOREM NoPopupStaysBehind == ASSUME DistinctIds PROVE Spec => []NoOrphanPopup
<1>1. Init => PopupInv
  BY DEF Init, PopupInv, WindowHasRequest, NoOrphanPopup
<1>2. TypeOK /\ QueueInv /\ DropInv /\ PopupInv /\ [Next]_vars => PopupInv'
  BY RequestKeepsPopupInv, OthersKeepPopupInv DEF Next
<1>3. PopupInv => NoOrphanPopup
  BY DEF PopupInv
<1> QED BY <1>1, <1>2, <1>3, TypeCorrect, QueueInvHolds, DropInvHolds, PTL DEF Spec

\* The number that the badge will show when the update under way has landed is
\* right, unless another update waits.
BadgeFollows ==
    ~badgeQueued => (IF badgeWriting = NoRequest THEN badgeShown ELSE badgeWriting) = Outstanding

\* Whoever changes neither map, or queues an update, keeps it.
LEMMA QueuedOrSame ==
  ASSUME BadgeFollows,
         \/ SyncBadge
         \/ UNCHANGED badge /\ pending' = pending /\ processing' = processing
  PROVE  BadgeFollows'
BY DEF BadgeFollows, SyncBadge, badge, Outstanding

LEMMA WithoutNobody ==
  ASSUME TypeOK, NEW S, S = {} PROVE Without(S) = pending
BY DEF TypeOK, Without

LEMMA BadgeFollowsNext == TypeOK /\ BadgeFollows /\ [Next]_vars => BadgeFollows'
<1> SUFFICES ASSUME TypeOK, BadgeFollows, [Next]_vars PROVE BadgeFollows'
  OBVIOUS
<1>1. ASSUME NEW S, pending' = Without(S), processing' = processing,
             IF S # {} THEN SyncBadge ELSE UNCHANGED badge
      PROVE  BadgeFollows'
  BY <1>1, WithoutNobody, QueuedOrSame
<1>2. ASSUME NEW r \in Requests, Arrive(r) \/ Handler(r) \/ Browser(r) \/ Clock(r) \/ User(r)
      PROVE  BadgeFollows'
  <2>1. CASE Arrive(r) BY <2>1, QueuedOrSame DEF Arrive
  <2>2. CASE Admit(r) BY <2>2, QueuedOrSame DEF Admit
  <2>3. CASE Refuse(r) BY <2>3, QueuedOrSame DEF Refuse
  <2>4. CASE Open(r) BY <2>4, QueuedOrSame DEF Open
  <2>5. CASE OpenStale(r) BY <2>5, QueuedOrSame DEF OpenStale
  <2>6. CASE Settle(r) BY <2>6, QueuedOrSame DEF Settle
  <2>7. CASE Locate(r) BY <2>7, QueuedOrSame DEF Locate, workerVars
  <2>8. CASE Show(r) BY <2>8, QueuedOrSame DEF Show, workerVars
  <2>9. CASE Created(r) BY <2>9, QueuedOrSame DEF Created, workerVars
  <2>10. CASE CreateFails(r) BY <2>10, <1>1 DEF CreateFails
  <2>11. CASE Expire(r) BY <2>11, QueuedOrSame DEF Expire, workerVars
  <2>12. CASE TimerFires(r) BY <2>12, <1>1 DEF TimerFires
  <2>13. CASE Approve(r) BY <2>13, QueuedOrSame DEF Approve
  <2>14. CASE Decline(r) BY <2>14, QueuedOrSame DEF Decline
  <2>15. CASE UserCloses(r) BY <2>15, <1>1 DEF UserCloses
  <2> QED BY <1>2, <2>1, <2>2, <2>3, <2>4, <2>5, <2>6, <2>7, <2>8, <2>9, <2>10, <2>11, <2>12, <2>13, <2>14, <2>15
       DEF Handler, Browser, Clock, User
<1>3. ASSUME NEW p \in Ports, Connect(p) PROVE BadgeFollows'
  BY <1>3, QueuedOrSame DEF Connect, workerVars
<1>4. ASSUME NEW p \in Ports, Disconnect(p) PROVE BadgeFollows'
  BY <1>4, <1>1 DEF Disconnect
<1>5. CASE SweepExpired
  <2>1. PICK S : RejectItems(S) /\ processing' = processing
    BY <1>5 DEF SweepExpired
  <2> QED BY <2>1, <1>1 DEF RejectItems
<1>6. CASE ChangeContext BY <1>6, <1>1 DEF ChangeContext, RejectItems
<1>7. CASE BadgeStarts
  <2>1. badgeWriting' = Outstanding /\ Outstanding' = Outstanding
    BY <1>7 DEF BadgeStarts, workerVars, Outstanding
  <2>2. Outstanding # NoRequest
    BY OutstandingIsNat, ConstantsAssumption
  <2> QED BY <2>1, <2>2 DEF BadgeFollows
<1>8. CASE BadgeWritten
  BY <1>8 DEF BadgeWritten, workerVars, Outstanding, BadgeFollows
<1>9. CASE Restart BY <1>9 DEF Restart, BadgeFollows
<1>10. CASE UNCHANGED vars BY <1>10, QueuedOrSame DEF vars, workerVars
<1> QED BY <1>2, <1>3, <1>4, <1>5, <1>6, <1>7, <1>8, <1>9, <1>10 DEF Next

\* When no update of the badge waits or is under way, the toolbar shows the number
\* of requests that wait for a decision or are being executed, also when requests
\* share an id (background.ts 111-121), as long as the browser carries out the
\* writes it is asked for.
THEOREM BadgeIsRight == Spec => []BadgeAgreesWhenIdle
<1>1. Init => BadgeFollows
  BY DEF Init, BadgeFollows
<1>2. BadgeFollows => BadgeAgreesWhenIdle
  BY DEF BadgeFollows, BadgeAgreesWhenIdle
<1> QED BY <1>1, <1>2, BadgeFollowsNext, TypeCorrect, PTL DEF Spec
===============================================================================
