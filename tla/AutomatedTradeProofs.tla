------------------------- MODULE AutomatedTradeProofs -------------------------
(***************************************************************************)
(* Theorems about AutomatedTrade: the replay guard protects a trade for the *)
(* whole validity of its intent, for any number of calls, intents and ids.  *)
(***************************************************************************)
EXTENDS AutomatedTrade, TLAPS

LEMMA CallTypes ==
  ASSUME NEW c \in Calls
  PROVE  Id(c) \in RequestIds /\ Trade(c) \in Trades /\ Expiry(c) \in Nat
BY TradeAssumption DEF Id, Trade, Expiry

LEMMA TypeInit == Init => TypeOK
BY TradeAssumption DEF Init, TypeOK

LEMMA TypeNext == TypeOK /\ [Next]_vars => TypeOK'
<1> SUFFICES ASSUME TypeOK, [Next]_vars PROVE TypeOK'
  OBVIOUS
<1> USE TradeAssumption DEF TypeOK, Goto, records, handlers, history
<1>1. CASE Tick BY <1>1 DEF Tick
<1>2. ASSUME NEW c \in Calls, Validate(c) \/ Begin(c) \/ Store(c) PROVE TypeOK'
  <2>1. CASE Validate(c) BY <2>1 DEF Validate
  <2>2. CASE Answered(c) BY <2>2 DEF Answered, Only
  <2>3. CASE Execute(c) BY <2>3, CallTypes DEF Execute, Enter
  <2>4. CASE ExecuteEvicting(c)
    <3>1. PICK i \in Kept(clock[c]) : Enter(c, Kept(clock[c]) \ {i})
                                      /\ evicted' = evicted \cup {owner[i]} /\ ~InFlight(i)
      BY <2>4 DEF ExecuteEvicting
    <3> QED BY <3>1, CallTypes DEF Enter, Kept
  <2>5. CASE RefuseFull(c) BY <2>5 DEF RefuseFull, Only
  <2>6. CASE Store(c) BY <2>6 DEF Store
  <2> QED BY <1>2, <2>1, <2>2, <2>3, <2>4, <2>5, <2>6 DEF Begin
<1>3. CASE UNCHANGED vars BY <1>3 DEF vars
<1> QED BY <1>1, <1>2, <1>3 DEF Next

\* The records keep their types (the ReplayEntry map, automated_trade.rs 74-91).
THEOREM TypeCorrect == Spec => []TypeOK
BY TypeInit, TypeNext, PTL DEF Spec

-----------------------------------------------------------------------------
(* The inductive invariant: a record is that of the execution that entered  *)
(* it, and an execution whose intent is valid has its record.               *)

ClockBehind == \A c \in Calls : clock[c] <= now

RecordIsOwners ==
    \A i \in RequestIds : trade[i] # None =>
        /\ owner[i] \in executed /\ Id(owner[i]) = i
        /\ Trade(owner[i]) = trade[i] /\ Expiry(owner[i]) = until[i]
        /\ InFlight(i) => step[owner[i]] = "selling"

ValidIsRecorded ==
    \A d \in executed \ evicted : now <= Expiry(d) + Skew =>
        trade[Id(d)] # None /\ owner[Id(d)] = d

TradeInv ==
    /\ ClockBehind
    /\ RecordIsOwners
    /\ ValidIsRecorded
    /\ TradesRecordedOnce

LEMMA TradeInvInit == Init => TradeInv
BY TradeAssumption
   DEF Init, TradeInv, ClockBehind, RecordIsOwners, ValidIsRecorded, TradesRecordedOnce

\* The record of an execution whose intent is valid is kept by retain(), whatever
\* older time the caller has read.
LEMMA ValidIsKept ==
  ASSUME TypeOK, TradeInv, NEW c \in Calls, NEW d \in executed \ evicted,
         now <= Expiry(d) + Skew
  PROVE  Id(d) \in Kept(clock[c]) /\ trade[Id(d)] = Trade(d) /\ owner[Id(d)] = d
<1>1. d \in Calls /\ Id(d) \in RequestIds /\ Expiry(d) \in Nat
  BY CallTypes DEF TypeOK
<1>2. trade[Id(d)] # None /\ owner[Id(d)] = d
  BY DEF TradeInv, ValidIsRecorded
<1>3. trade[Id(d)] = Trade(d) /\ until[Id(d)] = Expiry(d)
  BY <1>1, <1>2 DEF TradeInv, RecordIsOwners
<1>4. clock[c] <= now /\ clock[c] \in Nat /\ now \in Nat /\ Skew \in Nat
  BY TradeAssumption DEF TradeInv, ClockBehind, TypeOK
<1>5. until[Id(d)] + Skew >= clock[c]
  BY <1>1, <1>3, <1>4
<1> QED BY <1>1, <1>2, <1>3, <1>5 DEF Kept

\* retain() forgets only records whose intent is over.
LEMMA RetainKeepsTradeInv ==
  ASSUME TypeOK, TradeInv, NEW c \in Calls, step[c] = "validated", Only(Kept(clock[c])),
         step' = [step EXCEPT ![c] = "over"],
         UNCHANGED <<now, until, result, clock, executed, owner, evicted>>
  PROVE  TradeInv'
<1>1. ClockBehind'
  BY DEF TradeInv, ClockBehind
<1>2. \A i \in RequestIds : trade'[i] # None => trade'[i] = trade[i]
  BY DEF Only
<1>3. RecordIsOwners'
  BY <1>2, TypeNext DEF TradeInv, RecordIsOwners, InFlight, TypeOK, Id, Trade, Expiry
<1>4. ValidIsRecorded'
  <2> SUFFICES ASSUME NEW d \in executed \ evicted, now <= Expiry(d) + Skew
               PROVE  trade'[Id(d)] # None /\ owner[Id(d)] = d
    BY DEF ValidIsRecorded, Id, Expiry
  <2>1. Id(d) \in Kept(clock[c]) /\ trade[Id(d)] = Trade(d) /\ owner[Id(d)] = d
    BY ValidIsKept
  <2> QED BY <2>1 DEF Only, Kept
<1>5. TradesRecordedOnce'
  BY <1>2 DEF TradeInv, TradesRecordedOnce
<1> QED BY <1>1, <1>3, <1>4, <1>5 DEF TradeInv

\* A new record, with or without room made for it.
LEMMA EnterKeepsTradeInv ==
  ASSUME TypeOK, TradeInv, NEW c \in Calls, step[c] = "validated",
         NEW kept \in SUBSET Kept(clock[c]),
         Match(c, Kept(clock[c])) = {}, Enter(c, kept),
         evicted' = evicted \cup {owner[i] : i \in Kept(clock[c]) \ kept}
  PROVE  TradeInv'
<1> USE DEF Enter, Goto
<1>1. ClockBehind'
  BY DEF TradeInv, ClockBehind
<1>2. /\ Id(c) \notin Kept(clock[c])
      /\ \A i \in Kept(clock[c]) : trade[i] # Trade(c)
  BY DEF Match
<1>3. \A i \in RequestIds :
        /\ i = Id(c) => trade'[i] = Trade(c)
        /\ i # Id(c) /\ trade'[i] # None => i \in kept /\ trade'[i] = trade[i]
  OBVIOUS
<1>4. RecordIsOwners'
  <2> SUFFICES ASSUME NEW i \in RequestIds, trade'[i] # None
               PROVE  /\ owner'[i] \in executed' /\ Id(owner'[i]) = i
                      /\ Trade(owner'[i]) = trade'[i] /\ Expiry(owner'[i]) = until'[i]
                      /\ InFlight(i)' => step'[owner'[i]] = "selling"
    BY DEF RecordIsOwners, Id, Trade, Expiry
  <2>1. CASE i = Id(c)
    BY <2>1, <1>3, CallTypes DEF TypeOK
  <2>2. CASE i # Id(c)
    <3>1. trade[i] # None /\ trade'[i] = trade[i]
      BY <2>2, <1>3 DEF Kept
    <3>2. /\ owner[i] \in executed /\ Id(owner[i]) = i /\ Trade(owner[i]) = trade[i]
          /\ Expiry(owner[i]) = until[i] /\ (InFlight(i) => step[owner[i]] = "selling")
      BY <3>1 DEF TradeInv, RecordIsOwners
    <3>3. owner'[i] = owner[i] /\ until'[i] = until[i] /\ result'[i] = result[i] /\ owner[i] # c
      BY <2>2, <3>2 DEF TypeOK
    <3> QED BY <3>1, <3>2, <3>3 DEF InFlight, TypeOK
  <2> QED BY <2>1, <2>2
<1>5. ValidIsRecorded'
  <2> SUFFICES ASSUME NEW d \in executed' \ evicted', now <= Expiry(d) + Skew
               PROVE  trade'[Id(d)] # None /\ owner'[Id(d)] = d
    BY DEF ValidIsRecorded, Id, Expiry
  <2>1. CASE d = c
    BY <2>1, <1>3, CallTypes, TradeAssumption DEF TypeOK
  <2>2. CASE d # c
    <3>1. d \in executed \ evicted
      BY <2>2
    <3>2. Id(d) \in Kept(clock[c]) /\ trade[Id(d)] = Trade(d) /\ owner[Id(d)] = d
      BY <3>1, ValidIsKept
    <3>3. Id(d) \in kept /\ Id(d) # Id(c) /\ Id(d) \in RequestIds
      BY <3>2, <1>2 DEF Kept
    <3> QED BY <3>2, <3>3 DEF Kept, TypeOK
  <2> QED BY <2>1, <2>2
<1>6. TradesRecordedOnce'
  BY <1>2, <1>3 DEF TradeInv, TradesRecordedOnce
<1> QED BY <1>1, <1>4, <1>5, <1>6 DEF TradeInv

LEMMA TradeInvNext == TypeOK /\ TradeInv /\ [Next]_vars => TradeInv'
<1> SUFFICES ASSUME TypeOK, TradeInv, [Next]_vars PROVE TradeInv'
  OBVIOUS
<1> USE DEF records, handlers, history
<1>1. CASE Tick
  BY <1>1, TradeAssumption, CallTypes
     DEF Tick, TypeOK, TradeInv, ClockBehind, RecordIsOwners, ValidIsRecorded,
         TradesRecordedOnce, InFlight, Id, Trade, Expiry
<1>2. ASSUME NEW c \in Calls, Validate(c) PROVE TradeInv'
  <2>1. ClockBehind'
    BY <1>2 DEF Validate, TypeOK, TradeInv, ClockBehind
  <2>2. \A i \in RequestIds : trade[i] # None /\ InFlight(i) => owner[i] # c
    BY <1>2 DEF Validate, TradeInv, RecordIsOwners
  <2>3. RecordIsOwners' /\ ValidIsRecorded' /\ TradesRecordedOnce'
    BY <1>2, <2>2 DEF Validate, Goto, TypeOK, TradeInv, RecordIsOwners, ValidIsRecorded,
                      TradesRecordedOnce, InFlight, Id, Trade, Expiry
  <2> QED BY <2>1, <2>3 DEF TradeInv
<1>3. ASSUME NEW c \in Calls, Answered(c) \/ RefuseFull(c) PROVE TradeInv'
  BY <1>3, RetainKeepsTradeInv DEF Answered, RefuseFull, Goto
<1>4. ASSUME NEW c \in Calls, Execute(c) PROVE TradeInv'
  <2>1. evicted' = evicted \cup {owner[i] : i \in Kept(clock[c]) \ Kept(clock[c])}
    BY <1>4 DEF Execute
  <2> QED BY <1>4, <2>1, EnterKeepsTradeInv DEF Execute
<1>5. ASSUME NEW c \in Calls, ExecuteEvicting(c) PROVE TradeInv'
  <2>1. PICK i \in Kept(clock[c]) : /\ Enter(c, Kept(clock[c]) \ {i})
                                    /\ evicted' = evicted \cup {owner[i]}
    BY <1>5 DEF ExecuteEvicting
  <2> DEFINE kept == Kept(clock[c]) \ {i}
  <2>2. evicted' = evicted \cup {owner[j] : j \in Kept(clock[c]) \ kept}
    BY <2>1
  <2> QED BY <1>5, <2>1, <2>2, EnterKeepsTradeInv DEF ExecuteEvicting
<1>6. ASSUME NEW c \in Calls, Store(c) PROVE TradeInv'
  <2>1. RecordIsOwners'
    BY <1>6, CallTypes, TradeAssumption
       DEF Store, Goto, TypeOK, TradeInv, RecordIsOwners, InFlight, Id, Trade, Expiry
  <2>2. ClockBehind' /\ ValidIsRecorded' /\ TradesRecordedOnce'
    BY <1>6 DEF Store, TradeInv, ClockBehind, ValidIsRecorded, TradesRecordedOnce, Id, Expiry
  <2> QED BY <2>1, <2>2 DEF TradeInv
<1>7. CASE UNCHANGED vars
  BY <1>7 DEF vars, TradeInv, ClockBehind, RecordIsOwners, ValidIsRecorded,
              TradesRecordedOnce, InFlight, Id, Trade, Expiry
<1> QED BY <1>1, <1>2, <1>3, <1>4, <1>5, <1>6, <1>7 DEF Next, Begin

LEMMA TradeInvHolds == Spec => []TradeInv
BY TypeCorrect, TradeInvInit, TradeInvNext, PTL DEF Spec

\* Two records never name the same trade (automated_trade.rs 150-163).
THEOREM TradesUnique == Spec => []TradesRecordedOnce
<1>1. TradeInv => TradesRecordedOnce
  BY DEF TradeInv
<1> QED BY TradeInvHolds, <1>1, PTL

\* Every record in flight has an execution that will finish it
\* (automated_trade.rs 99-122).
THEOREM NoStuckRecord == Spec => []InFlightIsExecuting
<1>1. TypeOK /\ TradeInv => InFlightIsExecuting
  BY DEF TypeOK, TradeInv, RecordIsOwners, InFlightIsExecuting
<1> QED BY TypeCorrect, TradeInvHolds, <1>1, PTL

\* A valid intent is executed at most once, whoever sends it or an equivalent one
\* and with whatever clock readings (automated_trade.rs 126-186).
THEOREM SoldOnceInWindow == Spec => NoSecondSaleInWindow
<1>1. TypeOK /\ TradeInv /\ [Next]_vars =>
        [\A c \in executed' \ executed, d \in executed \ evicted :
            Id(c) = Id(d) \/ Trade(c) = Trade(d) => now > Expiry(d) + Skew]_vars
  <2> SUFFICES ASSUME TypeOK, TradeInv, Next,
                      NEW c \in executed' \ executed, NEW d \in executed \ evicted,
                      Id(c) = Id(d) \/ Trade(c) = Trade(d)
               PROVE  now > Expiry(d) + Skew
    BY DEF vars, history
  <2>1. c \in Calls /\ (Execute(c) \/ ExecuteEvicting(c))
    BY DEF Next, Tick, Validate, Begin, Answered, Execute, ExecuteEvicting, Enter, RefuseFull,
           Store, history, TypeOK
  <2>2. Match(c, Kept(clock[c])) = {}
    BY <2>1 DEF Execute, ExecuteEvicting
  <2>3. CASE now <= Expiry(d) + Skew
    <3>1. Id(d) \in Kept(clock[c]) /\ trade[Id(d)] = Trade(d)
      BY <2>1, <2>3, ValidIsKept
    <3> QED BY <2>2, <3>1 DEF Match
  <2>4. now \in Nat /\ Expiry(d) + Skew \in Nat
    BY CallTypes, TradeAssumption DEF TypeOK
  <2> QED BY <2>3, <2>4
<1> QED BY TypeCorrect, TradeInvHolds, <1>1, PTL DEF Spec, NoSecondSaleInWindow

-----------------------------------------------------------------------------
(* A sale under way and its record.                                         *)

SellsRecorded == \A c \in Calls : step[c] = "selling" => c \in executed

OtherSaleEnded(c) == \E d \in executed \ {c} : Id(d) = Id(c) /\ step[d] = "over"
HasRecord(c) == trade[Id(c)] = Trade(c) /\ owner[Id(c)] = c /\ InFlight(Id(c))

SaleInv == SellsRecorded /\ SaleIsRecorded

\* A begin() of another call leaves the record of a valid sale where it is.
LEMMA BeginLeavesSale ==
  ASSUME TypeOK, TradeInv, NEW c \in Calls, NEW e \in Calls \ {c}, HasRecord(c),
         now <= Expiry(c) + Skew, Begin(e)
  PROVE  HasRecord(c)'
<1>1. Id(c) \in RequestIds /\ Trade(c) \in Trades /\ Expiry(c) \in Nat
  BY CallTypes
<1>2. trade[Id(c)] # None
  BY <1>1, TradeAssumption DEF HasRecord
<1>3. until[Id(c)] = Expiry(c)
  BY <1>1, <1>2 DEF TradeInv, RecordIsOwners, HasRecord
<1>4. clock[e] <= now /\ clock[e] \in Nat /\ now \in Nat /\ Skew \in Nat
  BY TradeAssumption DEF TradeInv, ClockBehind, TypeOK
<1>5. Id(c) \in Kept(clock[e])
  BY <1>1, <1>2, <1>3, <1>4 DEF Kept
<1>6. CASE Answered(e) \/ RefuseFull(e)
  <2>1. Only(Kept(clock[e])) /\ UNCHANGED <<result, owner>>
    BY <1>6 DEF Answered, RefuseFull, history
  <2> QED BY <1>1, <1>5, <2>1 DEF Only, HasRecord, InFlight, Id, Trade
<1>7. CASE Execute(e) \/ ExecuteEvicting(e)
  <2>1. PICK kept \in SUBSET Kept(clock[e]) : Enter(e, kept) /\ Id(c) \in kept
    <3>1. CASE Execute(e)
      BY <3>1, <1>5 DEF Execute
    <3>2. CASE ExecuteEvicting(e)
      <4>1. PICK i \in Kept(clock[e]) : ~InFlight(i) /\ Enter(e, Kept(clock[e]) \ {i})
        BY <3>2 DEF ExecuteEvicting
      <4>2. i # Id(c)
        BY <4>1 DEF HasRecord
      <4> QED BY <4>1, <4>2, <1>5
    <3> QED BY <1>7, <3>1, <3>2
  <2>2. Id(e) # Id(c)
    BY <1>5, <1>7 DEF Execute, ExecuteEvicting, Match
  <2> QED BY <1>1, <2>1, <2>2 DEF Enter, HasRecord, InFlight, Id, Trade, TypeOK
<1> QED BY <1>6, <1>7 DEF Begin

LEMMA SaleInvNext == TypeOK /\ TradeInv /\ SaleInv /\ [Next]_vars => SaleInv'
<1> SUFFICES ASSUME TypeOK, TradeInv, SaleInv, [Next]_vars PROVE SaleInv'
  OBVIOUS
<1> USE DEF records, handlers, history
<1>1. SellsRecorded'
  <2>1. ASSUME NEW e \in Calls, Validate(e) \/ Begin(e) \/ Store(e) PROVE SellsRecorded'
    <3>1. CASE Validate(e) \/ Answered(e) \/ RefuseFull(e) \/ Store(e)
      BY <3>1 DEF Validate, Answered, RefuseFull, Store, Goto, SaleInv, SellsRecorded, TypeOK
    <3>2. CASE Execute(e) \/ ExecuteEvicting(e)
      BY <3>2 DEF Execute, ExecuteEvicting, Enter, Goto, SaleInv, SellsRecorded, TypeOK
    <3> QED BY <2>1, <3>1, <3>2 DEF Begin
  <2>2. CASE Tick \/ UNCHANGED vars
    BY <2>2 DEF Tick, vars, SaleInv, SellsRecorded
  <2> QED BY <2>1, <2>2 DEF Next
<1>2. SUFFICES ASSUME NEW c \in Calls, step'[c] = "selling", now' <= Expiry(c) + Skew,
                      ~OtherSaleEnded(c)'
               PROVE  HasRecord(c)'
  BY <1>1 DEF SaleInv, SaleIsRecorded, HasRecord, OtherSaleEnded, Id, Trade, Expiry, InFlight
<1>3. Id(c) \in RequestIds /\ Trade(c) \in Trades /\ Expiry(c) \in Nat
      /\ Skew \in Nat /\ now \in Nat
  BY CallTypes, TradeAssumption DEF TypeOK
<1>4. now <= now' /\ now' \in Nat
  BY <1>3 DEF Next, Tick, Validate, Begin, Answered, Execute, ExecuteEvicting, Enter,
              RefuseFull, Store, vars
<1>5. now <= Expiry(c) + Skew
  BY <1>2, <1>3, <1>4
<1>6. ASSUME step[c] = "selling", ~OtherSaleEnded(c) PROVE HasRecord(c)
  BY <1>5, <1>6 DEF SaleInv, SaleIsRecorded, HasRecord, OtherSaleEnded
<1>7. CASE Tick \/ UNCHANGED vars
  BY <1>2, <1>6, <1>7 DEF Tick, vars, HasRecord, OtherSaleEnded, InFlight, Id, Trade
<1>8. ASSUME NEW e \in Calls, Validate(e) PROVE HasRecord(c)'
  <2>1. step[c] = "selling"
    BY <1>2, <1>8 DEF Validate, Goto, TypeOK
  <2>2. ~OtherSaleEnded(c)
    BY <1>2, <1>8 DEF Validate, Goto, OtherSaleEnded, Id, TypeOK
  <2> QED BY <1>6, <1>8, <2>1, <2>2 DEF Validate, HasRecord, InFlight, Id, Trade
<1>9. ASSUME NEW e \in Calls, Begin(e) PROVE HasRecord(c)'
  <2>1. CASE e = c
    <3>1. PICK kept : Enter(c, kept)
      BY <1>2, <1>9, <2>1 DEF Begin, Answered, RefuseFull, Execute, ExecuteEvicting, Goto, TypeOK
    <3> QED BY <1>3, <3>1 DEF Enter, HasRecord, InFlight, Id, Trade, TypeOK
  <2>2. CASE e # c
    <3>1. step[c] = "selling" /\ executed \subseteq executed'
          /\ \A d \in Calls : step[d] = "over" => step'[d] = "over"
      BY <1>2, <1>9, <2>2
         DEF Begin, Answered, RefuseFull, Execute, ExecuteEvicting, Enter, Goto, TypeOK
    <3>2. ~OtherSaleEnded(c)
      BY <1>2, <3>1 DEF OtherSaleEnded, Id, TypeOK
    <3> QED BY <1>5, <1>6, <1>9, <2>2, <3>1, <3>2, BeginLeavesSale
  <2> QED BY <2>1, <2>2
<1>10. ASSUME NEW e \in Calls, Store(e) PROVE HasRecord(c)'
  <2>1. e # c /\ step[c] = "selling"
    BY <1>2, <1>10 DEF Store, Goto, TypeOK
  <2>2. ~OtherSaleEnded(c)
    BY <1>2, <1>10 DEF Store, Goto, OtherSaleEnded, Id, TypeOK
  <2>3. e \in executed /\ step'[e] = "over" /\ executed' = executed
    BY <1>10 DEF Store, Goto, SaleInv, SellsRecorded, TypeOK
  <2>4. Id(e) # Id(c)
    BY <1>2, <2>1, <2>3 DEF OtherSaleEnded, Id
  <2> QED BY <1>3, <1>6, <1>10, <2>1, <2>2, <2>4
          DEF Store, HasRecord, InFlight, Id, Trade, TypeOK
<1> QED BY <1>7, <1>8, <1>9, <1>10 DEF Next

\* While its intent is valid a sale under way has its record, whatever is evicted
\* for others; the exception is an earlier sale of the same request_id that ended
\* (automated_trade.rs 134-136, 163-173, 187-200).
THEOREM SalesAreRecorded == Spec => []SaleIsRecorded
<1>1. Init => SaleInv
  BY DEF Init, SaleInv, SellsRecorded, SaleIsRecorded
<1>2. SaleInv => SaleIsRecorded
  BY DEF SaleInv
<1> QED BY TypeCorrect, TradeInvHolds, SaleInvNext, <1>1, <1>2, PTL DEF Spec
==============================================================================
