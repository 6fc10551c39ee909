---------------------------- MODULE AutomatedTrade ----------------------------
(***************************************************************************)
(* The replay guard of automated token sells                                *)
(* (crates/desktop-api/src/automated_trade.rs, and its handler in main.rs). *)
(*                                                                         *)
(* A sell intent is valid until it expires.  Whoever sends it again, or     *)
(* sends an equivalent one, gets the first result instead of a second sale. *)
(* The records live in one map behind a mutex, are forgotten when their     *)
(* intent is over and, when the map is full, one finished record makes room.*)
(* Handlers run in parallel: each reads the clock, takes the mutex once to   *)
(* begin and once to store its result, and sells in between.                *)
(***************************************************************************)
EXTENDS Naturals, FiniteSets

CONSTANTS
    Calls, IntentOf,      \* HTTP calls, and the intent each carries
    Intents,              \* sell intents
    RequestIds, IdOf,     \* the request_id of an intent
    Trades, TradeOf,      \* its fingerprint: wallet, mint, venue, amount, slippage
    ExpiryOf,             \* its expires_at_ms
    Skew, Lifetime,       \* MAX_CLOCK_SKEW_MS, MAX_INTENT_LIFETIME_MS
    MaxRecords,           \* MAX_REPLAY_RECORDS
    MaxTime,              \* bound: the clock stops there
    None

ASSUME TradeAssumption ==
    /\ IntentOf \in [Calls -> Intents]
    /\ IdOf \in [Intents -> RequestIds]
    /\ TradeOf \in [Intents -> Trades]
    /\ ExpiryOf \in [Intents -> Nat]
    /\ Skew \in Nat /\ Lifetime \in Nat /\ MaxRecords \in Nat /\ MaxTime \in Nat
    /\ IsFiniteSet(RequestIds)
    /\ None \notin Calls \cup Trades

VARIABLES
    now,      \* the system clock
    trade,    \* records: the fingerprint recorded for a request_id, or None
    until,    \* records: the expiry of the intent recorded
    result,   \* records: the call whose result is recorded, or None: InFlight
    step,     \* how far each handler is
    clock,    \* now_ms, as each handler read it
    executed, \* history: the calls that were let through to sell
    owner,    \* history: the call that entered a record
    evicted   \* history: executions whose record made room for another

records == <<trade, until, result>>
handlers == <<step, clock>>
history == <<executed, owner, evicted>>
vars == <<now, records, handlers, history>>

TypeOK ==
    /\ now \in Nat
    /\ trade \in [RequestIds -> Trades \cup {None}]
    /\ until \in [RequestIds -> Nat]
    /\ result \in [RequestIds -> Calls \cup {None}]
    /\ step \in [Calls -> {"idle", "validated", "selling", "over"}]
    /\ clock \in [Calls -> Nat]
    /\ executed \subseteq Calls
    /\ owner \in [RequestIds -> Calls \cup {None}]
    /\ evicted \subseteq Calls \cup {None}

-----------------------------------------------------------------------------
Id(c) == IdOf[IntentOf[c]]
Trade(c) == TradeOf[IntentOf[c]]
Expiry(c) == ExpiryOf[IntentOf[c]]

\* Mutant: a record is forgotten at its expiry, without the clock skew.
KeptStrictly(time) == {i \in RequestIds : trade[i] # None /\ until[i] >= time}

\* The entries retain() keeps for a caller that read the given time.
Kept(time) == {i \in RequestIds : trade[i] # None /\ until[i] + Skew >= time}
InFlight(i) == result[i] = None

Init ==
    /\ now = 0
    /\ trade = [i \in RequestIds |-> None]
    /\ until = [i \in RequestIds |-> 0]
    /\ result = [i \in RequestIds |-> None]
    /\ step = [c \in Calls |-> "idle"]
    /\ clock = [c \in Calls |-> 0]
    /\ executed = {}
    /\ owner = [i \in RequestIds |-> None]
    /\ evicted = {}

Tick ==
    /\ now < MaxTime
    /\ now' = now + 1
    /\ UNCHANGED <<records, handlers, history>>

Goto(c, next) == step' = [step EXCEPT ![c] = next]

\* intent.validate(now_ms).
Validate(c) ==
    /\ step[c] = "idle"
    /\ clock' = [clock EXCEPT ![c] = now]
    /\ Goto(c, IF Expiry(c) + Skew >= now /\ Expiry(c) <= now + Lifetime
               THEN "validated" ELSE "over")
    /\ UNCHANGED <<now, records, history>>

-----------------------------------------------------------------------------
(* begin(), under the mutex: retain(), then one of these.                   *)

Only(kept) == trade' = [i \in RequestIds |-> IF i \in kept THEN trade[i] ELSE None]

\* Mutant: equivalent intents under other ids are not looked for.
MatchId(c, kept) == {i \in kept : i = Id(c)}

\* The record of the same request answers; otherwise that of an equivalent one.
Match(c, kept) ==
    IF Id(c) \in kept THEN {Id(c)} ELSE {i \in kept : trade[i] = Trade(c)}

\* Already in progress, or already finished and the recorded result is returned.
Answered(c) ==
    LET kept == Kept(clock[c]) IN
    /\ step[c] = "validated"
    /\ Match(c, kept) # {}
    /\ Only(kept)
    /\ Goto(c, "over")
    /\ UNCHANGED <<now, until, result, clock, history>>

Enter(c, kept) ==
    /\ trade' = [i \in RequestIds |-> IF i = Id(c) THEN Trade(c)
                                      ELSE IF i \in kept THEN trade[i] ELSE None]
    /\ until' = [until EXCEPT ![Id(c)] = Expiry(c)]
    /\ result' = [result EXCEPT ![Id(c)] = None]
    /\ owner' = [owner EXCEPT ![Id(c)] = c]
    /\ executed' = executed \cup {c}
    /\ Goto(c, "selling")
    /\ UNCHANGED <<now, clock>>

Execute(c) ==
    LET kept == Kept(clock[c]) IN
    /\ step[c] = "validated"
    /\ Match(c, kept) = {}
    /\ Cardinality(kept) < MaxRecords
    /\ Enter(c, kept)
    /\ UNCHANGED evicted

\* Mutant: any record makes room, also one whose sale is under way.
ExecuteEvictingAny(c) ==
    LET kept == Kept(clock[c]) IN
    /\ step[c] = "validated"
    /\ Match(c, kept) = {}
    /\ Cardinality(kept) >= MaxRecords
    /\ \E i \in kept : Enter(c, kept \ {i}) /\ evicted' = evicted \cup {owner[i]}

\* The map is full: some finished record makes room, or the call is refused.
ExecuteEvicting(c) ==
    LET kept == Kept(clock[c]) IN
    /\ step[c] = "validated"
    /\ Match(c, kept) = {}
    /\ Cardinality(kept) >= MaxRecords
    /\ \E i \in kept :
         /\ ~InFlight(i)
         /\ Enter(c, kept \ {i})
         /\ evicted' = evicted \cup {owner[i]}

RefuseFull(c) ==
    LET kept == Kept(clock[c]) IN
    /\ step[c] = "validated"
    /\ Match(c, kept) = {}
    /\ Cardinality(kept) >= MaxRecords
    /\ \A i \in kept : InFlight(i)
    /\ Only(kept)
    /\ Goto(c, "over")
    /\ UNCHANGED <<now, until, result, clock, history>>

-----------------------------------------------------------------------------
\* Mutant: a handler that is dropped leaves its record in flight.
StoreNothing(c) ==
    /\ step[c] = "selling"
    /\ Goto(c, "over")
    /\ UNCHANGED <<now, records, clock, history>>

\* store_result(), by finish() with the receipt or the error of the sale, or by
\* Drop when the handler is dropped. A record that is gone is not made again.
Store(c) ==
    /\ step[c] = "selling"
    /\ result' = IF trade[Id(c)] # None THEN [result EXCEPT ![Id(c)] = c] ELSE result
    /\ Goto(c, "over")
    /\ UNCHANGED <<now, trade, until, clock, history>>

-----------------------------------------------------------------------------
Begin(c) == Answered(c) \/ Execute(c) \/ ExecuteEvicting(c) \/ RefuseFull(c)

Next ==
    \/ Tick
    \/ \E c \in Calls : Validate(c) \/ Begin(c) \/ Store(c)

Spec == Init /\ [][Next]_vars

-----------------------------------------------------------------------------
(* Properties.                                                              *)

\* The records name each trade once, so what begin() finds does not depend on
\* the order of a hash map (automated_trade.rs 150-163).
TradesRecordedOnce ==
    \A i, j \in RequestIds : trade[i] # None /\ trade[i] = trade[j] => i = j

\* While an intent is valid neither it nor an equivalent one is executed again,
\* also when a begin() with a newer clock overtakes one with an older clock;
\* unless a full map gave the record up (automated_trade.rs 126-186).
NoSecondSaleInWindow ==
    [][\A c \in executed' \ executed, d \in executed \ evicted :
         Id(c) = Id(d) \/ Trade(c) = Trade(d) => now > Expiry(d) + Skew]_vars

\* No record is left in flight without an execution that will finish it, however
\* handlers end and whoever re-uses the request_id (automated_trade.rs 99-122,
\* 187-200): it would refuse its trade for as long as it is kept.
InFlightIsExecuting ==
    \A i \in RequestIds :
        trade[i] # None /\ InFlight(i) =>
            \E c \in Calls : step[c] = "selling" /\ Id(c) = i

\* A sale under way keeps the record that refuses its repetitions for as long as
\* its intent is valid, however full the map is and whatever clocks the other
\* calls have read (automated_trade.rs 134-136, 163-173). The exception is what
\* the code does: store_result() goes by the request_id alone (187-200), so an
\* earlier sale of that id that outlasted its own intent finishes the record.
SaleIsRecorded ==
    \A c \in Calls : step[c] = "selling" /\ now <= Expiry(c) + Skew =>
        \/ trade[Id(c)] = Trade(c) /\ owner[Id(c)] = c /\ InFlight(Id(c))
        \/ \E d \in executed \ {c} : Id(d) = Id(c) /\ step[d] = "over"
==============================================================================
