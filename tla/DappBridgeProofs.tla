--------------------------- MODULE DappBridgeProofs ---------------------------
(***************************************************************************)
(* Theorems about DappBridge, for any number of tabs, requests, approvals,   *)
(* openings and interfering events: a claim never follows a pause that has   *)
(* returned, no request is signed twice, a disconnected request is never     *)
(* answered as approved, and the bridge is paused when a lock is over.       *)
(***************************************************************************)
EXTENDS DappBridge, SequenceTheorems, TLAPS

-----------------------------------------------------------------------------
(* Types. (What the window's queue can be is QueueInv, below.) *)

Sessions == [origin : Origins, wallet : Wallets, family : Families, opened : Nat]
Events   == [tab : Tabs \union {None}, opening : Nat, created : Nat,
             origin : Origins, wallet : Wallets, family : Families]
Results  == {"approved", "rejected"}
Entries  == [claimed : BOOLEAN, result : Results \union {None}]
SignSteps    == {"claim", "claiming", "claimed", "sign", "signed", "answer", "reject"}
ConnectSteps == {"grant", "approve", "refuse", "confirmed", "undo"}
Flows == [of : Signs, at : SignSteps, existed : BOOLEAN]
         \union [of : Connects, at : ConnectSteps, existed : BOOLEAN] \union {Idle}

ShellTypeOK ==
    /\ paused \in BOOLEAN
    /\ sessions \in [Tabs -> Sessions \union {None}]
    /\ requests \in [Ids -> Entries \union {None}]
    /\ claiming \in Approvals \union {None}
    /\ gate \in Tabs \union {None, "pause"}
    /\ webview \in [Tabs -> Nat]
    /\ clock \in Nat
    /\ granted \subseteq Identity

PagesTypeOK ==
    /\ event \in [Ids -> Events \union {None}]
    /\ page \in [Ids -> {"idle", "submitting", "waiting", "done"}]
    /\ delivered \in [Ids -> Results \union {"none", "expired"}]

WindowTypeOK ==
    /\ lockedRef \in BOOLEAN /\ locked \in BOOLEAN
    /\ locking \in {"none", "store", "barrier", "backend"}
    /\ presented \in [Kinds -> Ids \union {None}]
    /\ dialog \in [Kinds -> Ids \union {None}]
    /\ \A kind \in Kinds : dialog[kind] \in Of(kind) \union {None}
    /\ busy \in BOOLEAN
    /\ resolving \in Connects \union {None}
    /\ flow \in [Approvals -> Flows]
    /\ keys \in BOOLEAN
    /\ signed \in [Ids -> Nat]

GhostTypeOK ==
    /\ closed \in BOOLEAN
    /\ cut \subseteq Ids
    /\ refused \subseteq Identity
    /\ events \in Nat

\* What is being handled has been asked for; a claim belongs to the approval that waits for it.
AskedFor ==
    /\ \A r \in Ids : page[r] # "idle" => event[r] \in Events
    /\ \A r \in Ids : page[r] \in {"idle", "submitting"} => ~Kept(r) /\ delivered[r] = "none"
    /\ \A kind \in Kinds : dialog[kind] # None => page[dialog[kind]] \in {"waiting", "done"}
    /\ \A a \in Approvals : flow[a] # Idle => page[flow[a].of] \in {"waiting", "done"}
    /\ claiming # None => flow[claiming].at = "claiming"

TypeOK == ShellTypeOK /\ PagesTypeOK /\ WindowTypeOK /\ GhostTypeOK /\ AskedFor

-----------------------------------------------------------------------------
(* The inductive invariants behind the safety properties. *)

\* The mutexes are not held by a claim once a pause has passed them.
PauseInv == (closed => paused) /\ (claiming # None => ~closed)

\* A request of which an approval was claimed cannot be claimed again.
Taken(r) == page[r] \in {"waiting", "done"} /\ (Kept(r) => requests[r].claimed)
Beyond(a) == flow[a].at \in {"claimed", "sign"}

ClaimInv ==
    /\ \A a \in Approvals : Beyond(a) => Taken(flow[a].of) /\ signed[flow[a].of] = 0
    /\ \A a, b \in Approvals : Beyond(a) /\ Beyond(b) /\ flow[a].of = flow[b].of => a = b
    /\ \A r \in Signs : signed[r] # 0 => Taken(r) /\ signed[r] = 1

\* A request that was cut off is gone, and nobody has answered one that is still open.
CutInv ==
    /\ \A r \in Ids : Kept(r) /\ requests[r].result = None => delivered[r] = "none"
    /\ \A r \in cut : ~Kept(r) /\ page[r] \in {"waiting", "done"} /\ delivered[r] # "approved"

\* The window's queue: a resumption of before the lock, its pause, the next unlock.
QueueInv ==
    /\ gate = "pause" => paused /\ queue # <<>> /\ Head(queue) = "pause"
    /\ ~locked => ~lockedRef /\ queue \in {<<>>, <<"resume">>}
    /\ locked /\ lockedRef => \/ queue = <<>> /\ paused
                              \/ queue \in {<<"pause">>, <<"resume", "pause">>}
    /\ locked /\ ~lockedRef => \/ queue = <<"unlock">> /\ paused
                               \/ queue \in {<<"pause", "unlock">>, <<"resume", "pause", "unlock">>}

-----------------------------------------------------------------------------
(* Type correctness. *)

LEMMA KindFacts ==
    /\ Ids = Signs \union Connects
    /\ Kinds = {"sign", "connect"}
    /\ Of("sign") = Signs /\ Of("connect") = Connects
    /\ \A kind \in Kinds : Of(kind) \subseteq Ids
    /\ \A r \in Ids : KindOf(r) \in Kinds /\ r \in Of(KindOf(r))
BY BridgeAssumption DEF Ids, Kinds, Of, KindOf

LEMMA SessionType ==
  ASSUME NEW x \in Tabs \union Links, NEW n \in Nat
  PROVE  Session(Named[x], n) \in Sessions
BY BridgeAssumption DEF Session, Sessions

LEMMA IdentityType ==
    /\ \A e \in Events : IdentityOf(e) \in Identity
    /\ \A e \in Sessions : IdentityOf(e) \in Identity
BY DEF Events, Sessions, IdentityOf, Identity

LEMMA TypeInit == Init => TypeOK
<1> SUFFICES ASSUME Init PROVE TypeOK
  OBVIOUS
<1> USE BridgeAssumption DEF Init
<1>1. ShellTypeOK BY DEF ShellTypeOK, Identity
<1>2. PagesTypeOK BY DEF PagesTypeOK
<1>3. WindowTypeOK
  <2>2. flow \in [Approvals -> Flows] BY DEF Flows
  <2> QED BY <2>2, KindFacts DEF WindowTypeOK, NoRequest
<1>4. GhostTypeOK BY DEF GhostTypeOK
<1>5. AskedFor BY DEF AskedFor, Kept, NoRequest
<1> QED BY <1>1, <1>2, <1>3, <1>4, <1>5 DEF TypeOK

LEMMA TabType ==
  ASSUME TypeOK, NEW t \in Tabs, Tab(t)
  PROVE  TypeOK'
<1> USE BridgeAssumption DEF TypeOK, pages, window, security, dialogs, backend, ghosts
<1>1. PagesTypeOK' /\ WindowTypeOK' /\ GhostTypeOK'
  BY DEF Tab, Open, Load, Opened, Close, Navigate, Interfere, PagesTypeOK, WindowTypeOK, GhostTypeOK
<1>2. AskedFor'
  BY DEF Tab, Open, Load, Opened, Close, Navigate, AskedFor, Kept
<1>3. ShellTypeOK'
  <2> USE DEF ShellTypeOK
  <2>1. CASE Open(t) BY <2>1, SessionType DEF Open
  <2>2. CASE Load(t) \/ Opened(t) BY <2>2 DEF Load, Opened
  <2>3. CASE Close(t) BY <2>3 DEF Close
  <2>4. ASSUME NEW o \in Origins, Navigate(t, o) PROVE ShellTypeOK'
    BY <2>4 DEF Navigate, Sessions
  <2> QED BY <2>1, <2>2, <2>3, <2>4 DEF Tab
<1> QED BY <1>1, <1>2, <1>3

LEMMA PageType ==
  ASSUME TypeOK, NEW r \in Ids, Page(r)
  PROVE  TypeOK'
<1> USE BridgeAssumption DEF TypeOK, pages, window, security, dialogs, backend, ghosts, shell
<1>1. ASSUME NEW tab \in Tabs \union {None}, NEW opening \in Nat, NEW p,
             p \in Identity \union Sessions, Ask(r, tab, opening, p)
      PROVE  TypeOK'
  <2>1. event' \in [Ids -> Events \union {None}] /\ event'[r] \in Events
    BY <1>1 DEF Ask, PagesTypeOK, ShellTypeOK, Events, Identity, Sessions
  <2>2. PagesTypeOK' BY <1>1, <2>1 DEF Ask, PagesTypeOK
  <2>3. ShellTypeOK' /\ WindowTypeOK' /\ GhostTypeOK'
    BY <1>1 DEF Ask, ShellTypeOK, WindowTypeOK, GhostTypeOK
  <2>4. \A q \in Ids : q # r => page'[q] = page[q] /\ event'[q] = event[q]
    BY <1>1 DEF Ask, PagesTypeOK
  <2>5. AskedFor'
    BY <1>1, <2>1, <2>4 DEF Ask, AskedFor, PagesTypeOK, WindowTypeOK, Kept, Flows
  <2> QED BY <2>2, <2>3, <2>5
<1>2. ASSUME NEW t \in Tabs, Submit(r, t) PROVE TypeOK'
  BY <1>1, <1>2 DEF Submit, ShellTypeOK
<1>3. CASE Link(r)
  BY <1>1, <1>3 DEF Link, Identity
<1>4. CASE Enqueue(r)
  <2>1. ShellTypeOK' BY <1>4 DEF Enqueue, ShellTypeOK, Entries
  <2>2. PagesTypeOK' /\ WindowTypeOK' /\ GhostTypeOK'
    BY <1>4 DEF Enqueue, PagesTypeOK, WindowTypeOK, GhostTypeOK
  <2>3. AskedFor'
    BY <1>4 DEF Enqueue, AskedFor, PagesTypeOK, ShellTypeOK, WindowTypeOK, Kept, Flows
  <2> QED BY <2>1, <2>2, <2>3
<1>5. CASE Expire(r)
  <2>1. ShellTypeOK' BY <1>5 DEF Expire, ShellTypeOK
  <2>2. PagesTypeOK' /\ WindowTypeOK' /\ GhostTypeOK'
    BY <1>5 DEF Expire, PagesTypeOK, WindowTypeOK, GhostTypeOK
  <2>3. AskedFor' BY <1>5 DEF Expire, AskedFor, ShellTypeOK, Kept
  <2> QED BY <2>1, <2>2, <2>3
<1>6. CASE Poll(r)
  <2>1. ShellTypeOK' BY <1>6 DEF Poll, ShellTypeOK
  <2>2. PagesTypeOK' BY <1>6 DEF Poll, PagesTypeOK, ShellTypeOK, Entries, Kept
  <2>3. WindowTypeOK' /\ GhostTypeOK' BY <1>6 DEF Poll, WindowTypeOK, GhostTypeOK
  <2>4. AskedFor'
    BY <1>6 DEF Poll, AskedFor, PagesTypeOK, ShellTypeOK, WindowTypeOK, Kept, Flows
  <2> QED BY <2>1, <2>2, <2>3, <2>4
<1> QED BY <1>2, <1>3, <1>4, <1>5, <1>6 DEF Page

\* What an answer to the shell may change.
LEMMA ResolveType ==
  ASSUME TypeOK, NEW r \in Ids, NEW result \in Results, Resolve(r, result), granted' = granted
  PROVE  /\ ShellTypeOK' /\ PagesTypeOK'
         /\ page' = page /\ event' = event /\ claiming' = claiming
         /\ \A q \in Ids : page[q] \in {"idle", "submitting"} =>
                               ~Kept(q)' /\ delivered'[q] = "none"
<1> USE DEF TypeOK, Resolve, CanResolve, Kept
<1>1. ShellTypeOK' BY DEF ShellTypeOK, Entries
<1>2. PagesTypeOK' BY DEF PagesTypeOK
<1>3. \A q \in Ids : page[q] \in {"idle", "submitting"} => ~Kept(q)' /\ delivered'[q] = "none"
  BY DEF AskedFor, ShellTypeOK, PagesTypeOK
<1> QED BY <1>1, <1>2, <1>3

LEMMA DialogType ==
  ASSUME TypeOK, NEW kind \in Kinds, Dialog(kind)
  PROVE  TypeOK'
<1> USE BridgeAssumption, KindFacts
    DEF TypeOK, pages, window, security, dialogs, backend, ghosts, shell
<1>1. CASE Show(kind)
  <2>1. ShellTypeOK' /\ PagesTypeOK' /\ GhostTypeOK'
    BY <1>1 DEF Show, ShellTypeOK, PagesTypeOK, GhostTypeOK
  <2>2. PICK r \in Waiting(kind) : /\ presented' = [presented EXCEPT ![kind] = r]
                                    /\ dialog' = [dialog EXCEPT ![kind] = r]
    BY <1>1 DEF Show
  <2>3. r \in Of(kind) /\ r \in Ids /\ page[r] \in {"waiting", "done"}
    BY DEF Waiting, AskedFor, PagesTypeOK
  <2>4. WindowTypeOK' BY <1>1, <2>2, <2>3 DEF Show, WindowTypeOK
  <2>5. AskedFor' BY <1>1, <2>2, <2>3 DEF Show, AskedFor, WindowTypeOK, Kept
  <2> QED BY <2>1, <2>4, <2>5
<1>2. ASSUME NEW r \in Of(kind), Decline(r) PROVE TypeOK'
  <2>1. r \in Ids /\ KindOf(r) \in Kinds BY KindFacts
  <2>2. Resolve(r, "rejected") /\ granted' = granted BY <1>2 DEF Decline
  <2>3. /\ ShellTypeOK' /\ PagesTypeOK' /\ page' = page /\ event' = event /\ claiming' = claiming
        /\ \A q \in Ids : page[q] \in {"idle", "submitting"} =>
                              ~Kept(q)' /\ delivered'[q] = "none"
    BY <2>1, <2>2, ResolveType DEF Results
  <2>4. WindowTypeOK' /\ GhostTypeOK'
    BY <1>2, <2>1 DEF Decline, WindowTypeOK, GhostTypeOK
  <2>5. AskedFor' BY <1>2, <2>1, <2>3 DEF Decline, AskedFor, WindowTypeOK
  <2> QED BY <2>3, <2>4, <2>5
<1> QED BY <1>1, <1>2 DEF Dialog

\* The clicks that begin an approval.
LEMMA ClickType ==
  ASSUME TypeOK, NEW r \in Ids, (r \in Signs /\ ApproveSign(r)) \/ (r \in Connects /\ ApproveConnect(r))
  PROVE  TypeOK'
<1> USE BridgeAssumption, KindFacts
    DEF TypeOK, pages, window, security, dialogs, backend, ghosts, shell
<1>1. ASSUME NEW next \in Flows, next.of = r, next.at \in {"claim", "grant"}, Begin(next),
             page[r] \in {"waiting", "done"}, UNCHANGED <<shell, pages, security, dialog, presented, backend, ghosts>>,
             busy' = TRUE, resolving' \in {resolving, r}, r \in Connects \/ resolving' = resolving
      PROVE  TypeOK'
  <2>1. PICK a \in Approvals : flow[a] = Idle /\ flow' = [flow EXCEPT ![a] = next]
    BY <1>1 DEF Begin
  <2>2. ShellTypeOK' /\ PagesTypeOK' /\ GhostTypeOK'
    BY <1>1 DEF ShellTypeOK, PagesTypeOK, GhostTypeOK
  <2>3. WindowTypeOK' BY <1>1, <2>1 DEF WindowTypeOK
  <2>4. \A b \in Approvals : flow'[b] = IF b = a THEN next ELSE flow[b]
    BY <2>1 DEF WindowTypeOK
  <2>5. claiming # None => claiming \in Approvals /\ claiming # a
    BY <2>1 DEF AskedFor, ShellTypeOK, Idle
  <2>6. /\ \A b \in Approvals : flow'[b] # Idle => page[flow'[b].of] \in {"waiting", "done"}
        /\ claiming # None => flow'[claiming].at = "claiming"
    BY <1>1, <2>4, <2>5 DEF AskedFor
  <2>7. AskedFor' BY <1>1, <2>6 DEF AskedFor, Kept
  <2> QED BY <2>2, <2>3, <2>7
<1>2. CASE r \in Signs /\ ApproveSign(r)
  <2>1. page[r] \in {"waiting", "done"} BY <1>2 DEF ApproveSign, AskedFor, Ids
  <2>2. [of |-> r, at |-> "claim", existed |-> FALSE] \in Flows
    BY <1>2 DEF Flows, SignSteps
  <2> QED BY <1>1, <1>2, <2>1, <2>2 DEF ApproveSign
<1>3. CASE r \in Connects /\ ApproveConnect(r)
  <2>1. page[r] \in {"waiting", "done"} BY <1>3 DEF ApproveConnect, AskedFor, Ids
  <2>2. [of |-> r, at |-> "grant", existed |-> IdentityOf(event[r]) \in granted] \in Flows
    BY <1>3 DEF Flows, ConnectSteps
  <2> QED BY <1>1, <1>3, <2>1, <2>2 DEF ApproveConnect
<1> QED BY <1>2, <1>3

\* A step of an approval that is not the claim itself: it goes on, or it ends.
LEMMA FlowType ==
  ASSUME TypeOK, NEW a \in Approvals, flow[a] # Idle, claiming # a \/ claiming' = None,
         NEW next \in Flows, next = Idle \/ next.of = flow[a].of,
         flow' = [flow EXCEPT ![a] = next],
         dialog' \in [Kinds -> Ids \union {None}],
         \A kind \in Kinds : dialog'[kind] \in {dialog[kind], None},
         busy' \in BOOLEAN, resolving' \in {resolving, None},
         claiming' \in {claiming, None},
         UNCHANGED <<security, presented, keys, page, event>>, signed' \in [Ids -> Nat],
         \A q \in Ids : page[q] \in {"idle", "submitting"} => ~Kept(q)' /\ delivered'[q] = "none"
  PROVE  WindowTypeOK' /\ AskedFor'
<1> USE DEF TypeOK, security
<1>1. \A b \in Approvals : flow'[b] = IF b = a THEN next ELSE flow[b]
  BY DEF WindowTypeOK
<1>2. WindowTypeOK' BY DEF WindowTypeOK
<1>3. claiming' # None => claiming' = claiming /\ claiming \in Approvals /\ claiming # a
  BY DEF ShellTypeOK
<1>4. /\ \A b \in Approvals : flow'[b] # Idle => page[flow'[b].of] \in {"waiting", "done"}
      /\ claiming' # None => flow'[claiming'].at = "claiming"
  BY <1>1, <1>3 DEF AskedFor
<1>5. AskedFor' BY <1>4 DEF AskedFor
<1> QED BY <1>2, <1>5

LEMMA FlowFacts ==
  ASSUME TypeOK, NEW a \in Approvals
  PROVE  /\ flow[a].at \in SignSteps => flow[a].of \in Signs
         /\ flow[a].at \in ConnectSteps => flow[a].of \in Connects
         /\ flow[a].at \in SignSteps \union ConnectSteps =>
               flow[a] # Idle /\ flow[a].of \in Ids /\ page[flow[a].of] \in {"waiting", "done"}
         /\ claiming = a => flow[a].at = "claiming"
<1>1. flow[a] \in Flows BY DEF TypeOK, WindowTypeOK
<1>2. Idle.at = "none" /\ "none" \notin SignSteps \union ConnectSteps
  BY DEF Idle, SignSteps, ConnectSteps
<1>3. flow[a].at \in SignSteps => flow[a].of \in Signs
  BY <1>1, <1>2 DEF Flows, SignSteps, ConnectSteps
<1>4. flow[a].at \in ConnectSteps => flow[a].of \in Connects
  BY <1>1, <1>2 DEF Flows, SignSteps, ConnectSteps
<1>5. claiming = a => flow[a].at = "claiming"
  BY BridgeAssumption DEF TypeOK, AskedFor
<1> QED BY <1>2, <1>3, <1>4, <1>5 DEF TypeOK, AskedFor, Ids

LEMMA GotoType ==
  ASSUME TypeOK, NEW a \in Approvals, NEW to, Goto(a, to),
         \/ flow[a].at \in SignSteps /\ to \in SignSteps
         \/ flow[a].at \in ConnectSteps /\ to \in ConnectSteps
  PROVE  \E next \in Flows : /\ flow' = [flow EXCEPT ![a] = next]
                              /\ next.of = flow[a].of /\ next.at = to
<1> DEFINE next == [of |-> flow[a].of, at |-> to, existed |-> flow[a].existed]
<1>1. flow[a] \in Flows /\ flow \in [Approvals -> Flows] BY DEF TypeOK, WindowTypeOK
<1>2. flow[a] = [of |-> flow[a].of, at |-> flow[a].at, existed |-> flow[a].existed]
      /\ flow[a].existed \in BOOLEAN
  <2>1. CASE flow[a] = Idle BY <2>1 DEF Idle
  <2>2. CASE flow[a] # Idle BY <1>1, <2>2 DEF Flows
  <2> QED BY <2>1, <2>2
<1>3. next \in Flows BY <1>2, FlowFacts DEF Flows
<1>4. [flow[a] EXCEPT !.at = to] = next BY <1>2
<1>5. flow' = [flow EXCEPT ![a] = next] BY <1>1, <1>4 DEF Goto
<1> QED BY <1>3, <1>5

LEMMA QuietPagesType ==
  ASSUME TypeOK, UNCHANGED <<requests, page, delivered>>
  PROVE  \A q \in Ids : page[q] \in {"idle", "submitting"} => ~Kept(q)' /\ delivered'[q] = "none"
BY DEF TypeOK, AskedFor, Kept

LEMMA IdleIsFlow == Idle \in Flows
BY DEF Flows

\* An approval ends; the dialogs it closes are closed.
LEMMA EndsType ==
  ASSUME TypeOK
  PROVE  /\ [dialog EXCEPT !["sign"] = None] \in [Kinds -> Ids \union {None}]
         /\ [dialog EXCEPT !["connect"] = None] \in [Kinds -> Ids \union {None}]
         /\ dialog \in [Kinds -> Ids \union {None}]
         /\ \A kind \in Kinds : /\ [dialog EXCEPT !["sign"] = None][kind] \in {dialog[kind], None}
                                  /\ [dialog EXCEPT !["connect"] = None][kind] \in {dialog[kind], None}
BY KindFacts DEF TypeOK, WindowTypeOK

LEMMA ClaimedEntry ==
  ASSUME NEW e \in Entries
  PROVE  [e EXCEPT !.claimed = TRUE] \in Entries
BY DEF Entries

LEMMA SigningType ==
  ASSUME TypeOK, NEW a \in Approvals, Signing(a)
  PROVE  TypeOK'
<1> DEFINE Unheard == \A q \in Ids : page[q] \in {"idle", "submitting"} =>
                                       ~Kept(q)' /\ delivered'[q] = "none"
           Rest == ShellTypeOK' /\ PagesTypeOK' /\ GhostTypeOK'
           At(from) == flow[a].at = from
<1>0. busy \in BOOLEAN /\ signed \in [Ids -> Nat] BY DEF TypeOK, WindowTypeOK
<1>1. ASSUME NEW from \in SignSteps, At(from), NEW to \in SignSteps, Goto(a, to), Unheard, Rest,
             claiming # a \/ claiming' = None, claiming' \in {claiming, None},
             UNCHANGED <<security, dialog, presented, busy, resolving, keys, page, event>>,
             signed' \in [Ids -> Nat]
      PROVE  TypeOK'
  <2>1. PICK next \in Flows : /\ flow' = [flow EXCEPT ![a] = next]
                              /\ next.of = flow[a].of /\ next.at = to
    BY <1>1, GotoType
  <2>2. flow[a] # Idle BY <1>1, FlowFacts
  <2>3. WindowTypeOK' /\ AskedFor'
    BY <1>0, <1>1, <2>1, <2>2, FlowType, EndsType
  <2> QED BY <1>1, <2>3 DEF TypeOK
<1>2. ASSUME NEW from \in SignSteps, At(from), SignEnds(a), Unheard, Rest,
             claiming # a \/ claiming' = None, claiming' \in {claiming, None},
             UNCHANGED <<security, presented, resolving, keys, signed, page, event>>
      PROVE  TypeOK'
  <2>1. flow[a] # Idle BY <1>2, FlowFacts
  <2>2. WindowTypeOK' /\ AskedFor'
    BY <1>0, <1>2, <2>1, FlowType, EndsType, IdleIsFlow DEF SignEnds
  <2> QED BY <1>2, <2>2 DEF TypeOK
<1> USE FlowFacts DEF SignSteps
<1>3. CASE ClaimBegins(a)
  <2>1. Unheard BY <1>3, QuietPagesType DEF ClaimBegins, pages
  <2>2. PagesTypeOK' /\ GhostTypeOK'
    BY <1>3 DEF ClaimBegins, TypeOK, PagesTypeOK, GhostTypeOK, pages, ghosts
  <2>3. ShellTypeOK' BY <1>3 DEF ClaimBegins, TypeOK, ShellTypeOK, pages
  <2>4. CASE paused
    BY <1>2, <1>3, <2>1, <2>2, <2>3, <2>4, BridgeAssumption DEF ClaimBegins, Free, pages, backend
  <2>5. CASE ~paused
    <3>1. PICK next \in Flows : /\ flow' = [flow EXCEPT ![a] = next]
                                /\ next.of = flow[a].of /\ next.at = "claiming"
      BY <1>3, <2>5, GotoType DEF ClaimBegins
    <3>2. flow' \in [Approvals -> Flows] /\ flow'[a] = next /\ page[next.of] \in {"waiting", "done"}
          /\ \A b \in Approvals \ {a} : flow'[b] = flow[b]
      BY <1>3, <3>1 DEF ClaimBegins, TypeOK, WindowTypeOK
    <3>3. WindowTypeOK'
      BY <1>3, <2>5, <3>2 DEF ClaimBegins, TypeOK, WindowTypeOK, security, backend
    <3>4. claiming' = a /\ UNCHANGED <<dialog, page, event, requests, delivered>>
      BY <1>3, <2>5 DEF ClaimBegins, pages
    <3>5. AskedFor' BY <3>1, <3>2, <3>4 DEF TypeOK, AskedFor, Kept
    <3> QED BY <2>2, <2>3, <3>3, <3>5 DEF TypeOK
  <2> QED BY <2>4, <2>5
<1>4. CASE ClaimEnds(a)
  <2>1. At("claiming") /\ flow[a].of \in Ids BY <1>4 DEF ClaimEnds
  <2>2. PagesTypeOK' /\ GhostTypeOK'
    BY <1>4 DEF ClaimEnds, TypeOK, PagesTypeOK, GhostTypeOK, pages, ghosts
  <2>3. ShellTypeOK'
    <3>1. requests' \in [Ids -> Entries \union {None}]
      BY <1>4, <2>1, ClaimedEntry DEF ClaimEnds, TypeOK, ShellTypeOK, Claimable, Kept
    <3> QED BY <1>4, <3>1 DEF ClaimEnds, TypeOK, ShellTypeOK
  <2>4. Unheard
    BY <1>4, <2>1 DEF ClaimEnds, TypeOK, ShellTypeOK, AskedFor, Claimable, Kept, Entries, pages
  <2> QED BY <1>1, <1>2, <1>4, <2>1, <2>2, <2>3, <2>4 DEF ClaimEnds, pages, backend, TypeOK, WindowTypeOK
<1>5. ASSUME NEW from \in {"claimed", "signed"}, NEW to \in {"sign", "answer"}, Continue(a, from, to)
      PROVE TypeOK'
  <2>1. Unheard BY <1>5, QuietPagesType DEF Continue, pages, shell
  <2>2. Rest
    BY <1>5 DEF Continue, TypeOK, PagesTypeOK, GhostTypeOK, ShellTypeOK, pages, ghosts, shell
  <2>3. At(from) /\ claiming # a /\ claiming' = claiming
    BY <1>5 DEF Continue, shell
  <2> QED BY <1>0, <1>1, <1>5, <2>1, <2>2, <2>3 DEF Continue, pages, backend
<1>6. CASE Sign(a)
  <2>1. Unheard BY <1>6, QuietPagesType DEF Sign, pages, shell
  <2>2. Rest
    BY <1>6 DEF Sign, TypeOK, PagesTypeOK, GhostTypeOK, ShellTypeOK, pages, ghosts, shell
  <2>3. At("sign") /\ claiming # a /\ claiming' = claiming /\ flow[a].of \in Ids
    BY <1>6 DEF Sign, shell
  <2>4. signed' \in [Ids -> Nat] BY <1>0, <1>6, <2>3 DEF Sign
  <2> QED BY <1>1, <1>6, <2>1, <2>2, <2>3, <2>4 DEF Sign, pages
<1>7. CASE Answer(a) \/ Reject(a)
  <2>1. PICK result \in Results : Resolve(flow[a].of, result)
    BY <1>7 DEF Answer, Reject, Results
  <2>2. flow[a].of \in Ids /\ claiming # a /\ (At("answer") \/ At("reject")) BY <1>7 DEF Answer, Reject
  <2>3. granted' = granted BY <1>7 DEF Answer, Reject
  <2>4. /\ ShellTypeOK' /\ PagesTypeOK' /\ page' = page /\ event' = event /\ claiming' = claiming
        /\ Unheard
    BY <2>1, <2>2, <2>3, ResolveType
  <2>5. GhostTypeOK' BY <1>7 DEF Answer, Reject, TypeOK, GhostTypeOK, ghosts
  <2> QED BY <1>0, <1>1, <1>2, <1>7, <2>2, <2>4, <2>5 DEF Answer, Reject, backend
<1> QED BY <1>3, <1>4, <1>5, <1>6, <1>7 DEF Signing

LEMMA ConnectingType ==
  ASSUME TypeOK, NEW a \in Approvals, Connecting(a)
  PROVE  TypeOK'
<1> DEFINE Unheard == \A q \in Ids : page[q] \in {"idle", "submitting"} =>
                                       ~Kept(q)' /\ delivered'[q] = "none"
           Rest == ShellTypeOK' /\ PagesTypeOK' /\ GhostTypeOK'
           At(from) == flow[a].at = from
<1>0. busy \in BOOLEAN /\ signed \in [Ids -> Nat] BY DEF TypeOK, WindowTypeOK
<1>1. ASSUME NEW from \in ConnectSteps, At(from), NEW to \in ConnectSteps, Goto(a, to),
             Unheard, Rest, claiming # a, claiming' = claiming,
             UNCHANGED <<security, dialog, presented, busy, resolving, keys, signed, page, event>>
      PROVE  TypeOK'
  <2>1. PICK next \in Flows : /\ flow' = [flow EXCEPT ![a] = next]
                              /\ next.of = flow[a].of /\ next.at = to
    BY <1>1, GotoType
  <2>2. flow[a] # Idle BY <1>1, FlowFacts
  <2>3. WindowTypeOK' /\ AskedFor'
    BY <1>0, <1>1, <2>1, <2>2, FlowType, EndsType
  <2> QED BY <1>1, <2>3 DEF TypeOK
<1>2. ASSUME NEW from \in ConnectSteps, At(from), Unheard, Rest, claiming # a, claiming' = claiming,
             ConnectEnds(a, dialog) \/ ConnectEnds(a, [dialog EXCEPT !["connect"] = None]),
             UNCHANGED <<security, presented, keys, signed, page, event>>
      PROVE  TypeOK'
  <2>1. flow[a] # Idle BY <1>2, FlowFacts
  <2>2. WindowTypeOK' /\ AskedFor'
    <3>1. /\ dialog' \in [Kinds -> Ids \union {None}]
          /\ \A kind \in Kinds : dialog'[kind] \in {dialog[kind], None}
      BY <1>2, EndsType DEF ConnectEnds
    <3>2. /\ flow' = [flow EXCEPT ![a] = Idle] /\ busy' \in BOOLEAN
          /\ resolving' \in {resolving, None}
      BY <1>2 DEF ConnectEnds
    <3> QED BY <1>0, <1>2, <2>1, <3>1, <3>2, FlowType, IdleIsFlow
  <2> QED BY <1>2, <2>2 DEF TypeOK
<1> USE FlowFacts DEF ConnectSteps
<1>3. ASSUME At("grant") \/ At("undo") \/ At("refuse") \/ At("approve") \/ At("confirmed")
      PROVE  /\ claiming # a /\ flow[a].of \in Ids
             /\ IdentityOf(event[flow[a].of]) \in Identity
  BY <1>3, IdentityType DEF TypeOK, AskedFor
<1>4. CASE Grant(a)
  <2>1. At("grant") BY <1>4 DEF Grant
  <2>2. Unheard BY <1>4, QuietPagesType DEF Grant, pages
  <2>3. Rest
    BY <1>3, <1>4, <2>1 DEF Grant, TypeOK, ShellTypeOK, PagesTypeOK, GhostTypeOK, pages, ghosts
  <2> QED BY <1>1, <1>2, <1>3, <1>4, <2>1, <2>2, <2>3 DEF Grant, pages, backend
<1>5. CASE Confirm(a)
  <2>1. At("refuse") \/ At("approve") BY <1>5 DEF Confirm
  <2>2. PICK result \in Results : Resolve(flow[a].of, result) BY <1>5 DEF Confirm, Results
  <2>3. granted' = granted BY <1>5 DEF Confirm
  <2>4. /\ ShellTypeOK' /\ PagesTypeOK' /\ page' = page /\ event' = event /\ claiming' = claiming
        /\ Unheard
    BY <1>3, <2>1, <2>2, <2>3, ResolveType
  <2>5. GhostTypeOK' BY <1>5 DEF Confirm, TypeOK, GhostTypeOK, ghosts
  <2> QED BY <1>1, <1>2, <1>3, <1>5, <2>1, <2>4, <2>5 DEF Confirm, Undoing, backend
<1>6. CASE Confirmed(a)
  <2>1. At("confirmed") BY <1>6 DEF Confirmed
  <2>2. Unheard BY <1>6, QuietPagesType DEF Confirmed, pages, shell
  <2>3. Rest
    BY <1>6 DEF Confirmed, TypeOK, ShellTypeOK, PagesTypeOK, GhostTypeOK, pages, ghosts, shell
  <2> QED BY <1>1, <1>2, <1>3, <1>6, <2>1, <2>2, <2>3 DEF Confirmed, Undoing, pages, shell, backend
<1>7. CASE Undo(a)
  <2>1. At("undo") BY <1>7 DEF Undo
  <2>2. Unheard BY <1>7, QuietPagesType DEF Undo, pages
  <2>3. Rest
    BY <1>3, <1>7, <2>1 DEF Undo, TypeOK, ShellTypeOK, PagesTypeOK, GhostTypeOK, pages, ghosts
  <2> QED BY <1>2, <1>3, <1>7, <2>1, <2>2, <2>3 DEF Undo, pages, backend
<1> QED BY <1>4, <1>5, <1>6, <1>7 DEF Connecting

LEMMA SecurityType ==
  ASSUME TypeOK, Security
  PROVE  TypeOK'
<1>1. AskedFor'
  BY DEF TypeOK, AskedFor, Security, Lock, LockStores, LockPasses, LockEnds, Unlock, Pause, PauseEnds,
         Resume, ResumeFails, NoRequest, Kept, shell, pages, window, security, dialogs
<1>2. ShellTypeOK' /\ PagesTypeOK'
  BY DEF TypeOK, ShellTypeOK, PagesTypeOK, Security, Lock, LockStores, LockPasses, LockEnds, Unlock,
         Pause, PauseEnds, Resume, ResumeFails, shell, pages
<1>3. GhostTypeOK'
  <2> USE DEF TypeOK, GhostTypeOK, ShellTypeOK, ghosts
  <2>1. CASE Lock BY <2>1 DEF Lock, Interfere
  <2>2. CASE LockStores \/ LockPasses \/ LockEnds BY <2>2 DEF LockStores, LockPasses, LockEnds
  <2>3. CASE Unlock \/ Pause \/ PauseEnds BY <2>3 DEF Unlock, Pause, PauseEnds
  <2>4. CASE Resume \/ ResumeFails BY <2>4 DEF Resume, ResumeFails
  <2> QED BY <2>1, <2>2, <2>3, <2>4 DEF Security
<1>4. /\ presented' \in [Kinds -> Ids \union {None}] /\ dialog' \in [Kinds -> Ids \union {None}]
      /\ \A kind \in Kinds : dialog'[kind] \in Of(kind) \union {None}
  BY DEF TypeOK, WindowTypeOK, Security, Lock, LockStores, LockPasses, LockEnds, Unlock,
         Pause, PauseEnds, Resume, ResumeFails, NoRequest, window, dialogs
<1>5. /\ lockedRef' \in BOOLEAN /\ locked' \in BOOLEAN /\ busy' \in BOOLEAN /\ keys' \in BOOLEAN
      /\ locking' \in {"none", "store", "barrier", "backend"}
      /\ resolving' \in Connects \union {None}
      /\ flow' \in [Approvals -> Flows] /\ signed' \in [Ids -> Nat]
  BY DEF TypeOK, WindowTypeOK, Security, Lock, LockStores, LockPasses, LockEnds, Unlock,
         Pause, PauseEnds, Resume, ResumeFails, window, security, dialogs, backend
<1> QED BY <1>1, <1>2, <1>3, <1>4, <1>5 DEF TypeOK, WindowTypeOK

LEMMA DisconnectingType ==
  ASSUME TypeOK, Disconnecting
  PROVE  TypeOK'
<1> DEFINE Removes == \E tabs \in SUBSET Tabs, removed \in SUBSET Ids : Remove(tabs, removed)
<1>1. Removes \/ UNCHANGED <<sessions, requests, cut>>
  BY DEF Disconnecting, DisconnectConnection, DisconnectWallet, Matching, Ids
<1>2. /\ sessions' \in [Tabs -> Sessions \union {None}]
      /\ requests' \in [Ids -> Entries \union {None}]
      /\ \A r \in Ids : requests'[r] \in {requests[r], None}
      /\ cut' \subseteq Ids
  BY <1>1 DEF Remove, TypeOK, ShellTypeOK, GhostTypeOK
<1>3. granted' \subseteq Identity /\ refused' \subseteq Identity /\ events' \in Nat
  <2> USE DEF UserDisconnects, Interfere, TypeOK, ShellTypeOK, GhostTypeOK
  <2>1. ASSUME NEW p \in Identity, DisconnectConnection(p)
        PROVE  granted' \subseteq Identity /\ refused' \subseteq Identity /\ events' \in Nat
    BY <2>1 DEF DisconnectConnection
  <2>2. ASSUME NEW w \in Wallets, DisconnectWallet(w)
        PROVE  granted' \subseteq Identity /\ refused' \subseteq Identity /\ events' \in Nat
    BY <2>2 DEF DisconnectWallet
  <2> QED BY <2>1, <2>2 DEF Disconnecting
<1>4. UNCHANGED <<paused, claiming, gate, webview, clock, pages, window, backend, closed>>
  BY DEF Disconnecting, DisconnectConnection, DisconnectWallet
<1>5. ShellTypeOK' /\ GhostTypeOK' BY <1>2, <1>3, <1>4 DEF TypeOK, ShellTypeOK, GhostTypeOK
<1>6. PagesTypeOK' /\ WindowTypeOK'
  BY <1>4 DEF TypeOK, PagesTypeOK, WindowTypeOK, pages, window, security, dialogs, backend
<1>7. AskedFor' BY <1>2, <1>4 DEF TypeOK, AskedFor, Kept, pages, window, dialogs
<1> QED BY <1>5, <1>6, <1>7 DEF TypeOK

LEMMA TypeNext == TypeOK /\ [Next]_vars => TypeOK'
<1> SUFFICES ASSUME TypeOK, [Next]_vars PROVE TypeOK'
  OBVIOUS
<1>1. ASSUME NEW r \in Signs, ApproveSign(r) PROVE TypeOK'
  BY <1>1, ClickType DEF Ids
<1>2. ASSUME NEW r \in Connects, ApproveConnect(r) PROVE TypeOK'
  BY <1>2, ClickType DEF Ids
<1>3. CASE UNCHANGED vars
  BY <1>3 DEF TypeOK, ShellTypeOK, PagesTypeOK, WindowTypeOK, GhostTypeOK, AskedFor, Kept,
              vars, shell, pages, window, security, dialogs, backend, ghosts
<1> QED BY <1>1, <1>2, <1>3, TabType, PageType, DialogType, SigningType, ConnectingType,
           SecurityType, DisconnectingType DEF Next

\* Sessions, requests, dialogs and approvals keep their types, and whatever a
\* dialog or an approval is about has been asked for (lib.rs 5880-6640, page.tsx 11640-11900).
THEOREM TypeCorrect == Spec => []TypeOK
BY TypeInit, TypeNext, PTL DEF Spec

-----------------------------------------------------------------------------
(* The pause and the claims. *)

LEMMA PauseInvNext == TypeOK /\ PauseInv /\ [Next]_vars => PauseInv'
<1> SUFFICES ASSUME TypeOK, PauseInv, [Next]_vars PROVE PauseInv'
  OBVIOUS
<1> USE BridgeAssumption DEF PauseInv
<1>1. ASSUME NEW t \in Tabs, Tab(t) PROVE PauseInv'
  BY <1>1 DEF Tab, Open, Load, Opened, Close, Navigate, ghosts
<1>2. ASSUME NEW r \in Ids, Page(r) PROVE PauseInv'
  BY <1>2 DEF Page, Submit, Link, Ask, Enqueue, Expire, Poll, shell, ghosts
<1>3. ASSUME NEW kind \in Kinds, Dialog(kind) PROVE PauseInv'
  BY <1>3 DEF Dialog, Show, Decline, Resolve, shell, ghosts
<1>4. ASSUME NEW r, ApproveSign(r) \/ ApproveConnect(r) PROVE PauseInv'
  BY <1>4 DEF ApproveSign, ApproveConnect, shell, ghosts
<1>5. ASSUME NEW a \in Approvals, Signing(a) PROVE PauseInv'
  <2>1. CASE ClaimBegins(a) BY <2>1 DEF ClaimBegins, ghosts
  <2>2. CASE ClaimEnds(a) BY <2>2 DEF ClaimEnds, ghosts
  <2> QED BY <1>5, <2>1, <2>2 DEF Signing, Continue, Sign, Answer, Reject, Resolve, shell, ghosts
<1>6. ASSUME NEW a \in Approvals, Connecting(a) PROVE PauseInv'
  BY <1>6 DEF Connecting, Grant, Confirm, Confirmed, Undo, Resolve, shell, ghosts
<1>7. CASE Security
  <2>1. closed \in BOOLEAN /\ paused \in BOOLEAN BY DEF TypeOK, ShellTypeOK, GhostTypeOK
  <2> QED BY <1>7, <2>1 DEF Security, Lock, LockStores, LockPasses, LockEnds, Unlock, Pause, PauseEnds,
                      Resume, ResumeFails, Free, shell, ghosts
<1>8. CASE Disconnecting
  <2>1. UNCHANGED <<paused, claiming, closed>>
    BY <1>8 DEF Disconnecting, DisconnectConnection, DisconnectWallet
  <2> QED BY <2>1
<1>9. CASE UNCHANGED vars BY <1>9 DEF vars, shell, ghosts
<1> QED BY <1>1, <1>2, <1>3, <1>4, <1>5, <1>6, <1>7, <1>8, <1>9 DEF Next

LEMMA PauseInvHolds == Spec => []PauseInv
<1>1. Init => PauseInv BY BridgeAssumption DEF Init, PauseInv
<1> QED BY <1>1, TypeCorrect, PauseInvNext, PTL DEF Spec

-----------------------------------------------------------------------------
(* What a step makes of a request. *)

Same(r)     == UNCHANGED <<requests[r], page[r], delivered[r]>>
Asked(r)    == page[r] = "idle" /\ page'[r] = "submitting" /\ UNCHANGED <<requests[r], delivered[r]>>
Enters(r)   == page[r] = "submitting" /\ page'[r] = "waiting" /\ UNCHANGED delivered[r]
Leaves(r)   == requests'[r] = None /\ UNCHANGED <<page[r], delivered[r]>>
Polled(r)   == /\ page[r] = "waiting" /\ page'[r] = "done"
               /\ requests'[r] = None /\ (~Kept(r) => delivered'[r] = "expired")
Answered(r) == /\ Kept(r) /\ requests[r].result = None /\ UNCHANGED page[r]
               /\ requests'[r].claimed = requests[r].claimed /\ requests'[r].result \in Results
Claimed(r)  == /\ Kept(r) /\ requests[r].result = None /\ ~requests[r].claimed
               /\ requests'[r].claimed /\ requests'[r].result = None
               /\ UNCHANGED <<page[r], delivered[r]>>
               /\ \E a \in Approvals : ClaimEnds(a) /\ flow[a].of = r
Fate(r) == Same(r) \/ Asked(r) \/ Enters(r) \/ Leaves(r) \/ Polled(r) \/ Answered(r) \/ Claimed(r)

LEMMA ResolveFate ==
  ASSUME TypeOK, NEW q \in Ids, NEW result \in Results, Resolve(q, result), NEW r \in Ids
  PROVE  Same(r) \/ Answered(r)
<1>1. requests \in [Ids -> Entries \union {None}] /\ delivered \in [Ids -> Results \union {"none", "expired"}]
  BY DEF TypeOK, ShellTypeOK, PagesTypeOK
<1>2. CASE CanResolve(q, result) /\ r = q
  <2>1. Kept(r) /\ requests[r].result = None /\ requests[r] \in Entries
    BY <1>1, <1>2 DEF CanResolve, Kept
  <2>2. requests'[r] = [requests[r] EXCEPT !.result = result]
    BY <1>1, <1>2 DEF Resolve
  <2>3. requests'[r].claimed = requests[r].claimed /\ requests'[r].result = result
    BY <2>1, <2>2 DEF Entries
  <2> QED BY <2>1, <2>3 DEF Answered, Resolve
<1>3. CASE ~(CanResolve(q, result) /\ r = q)
  BY <1>1, <1>3 DEF Resolve, Same
<1> QED BY <1>2, <1>3

LEMMA RequestFate ==
  ASSUME TypeOK, [Next]_vars, NEW r \in Ids
  PROVE  Fate(r)
<1> USE BridgeAssumption DEF Fate
<1>0. /\ requests \in [Ids -> Entries \union {None}]
      /\ delivered \in [Ids -> Results \union {"none", "expired"}]
      /\ page \in [Ids -> {"idle", "submitting", "waiting", "done"}]
  BY DEF TypeOK, ShellTypeOK, PagesTypeOK
<1>q. ASSUME UNCHANGED <<requests, page, delivered>> PROVE Fate(r)
  BY <1>q DEF Same
<1>1. ASSUME NEW t \in Tabs, Tab(t) PROVE Fate(r)
  BY <1>1, <1>q DEF Tab, Open, Load, Opened, Close, Navigate, pages
<1>2. ASSUME NEW q \in Ids, Page(q) PROVE Fate(r)
  <2>1. ASSUME NEW tab, NEW opening, NEW p, Ask(q, tab, opening, p) PROVE Fate(r)
    BY <1>0, <2>1 DEF Ask, Same, Asked, shell
  <2>2. CASE Enqueue(q) BY <1>0, <2>2 DEF Enqueue, Same, Enters
  <2>3. CASE Expire(q) BY <1>0, <2>3 DEF Expire, Same, Leaves, pages
  <2>4. CASE Poll(q) BY <1>0, <2>4 DEF Poll, Same, Polled
  <2> QED BY <1>2, <2>1, <2>2, <2>3, <2>4 DEF Page, Submit, Link
<1>3. ASSUME NEW kind \in Kinds, Dialog(kind) PROVE Fate(r)
  <2>1. CASE Show(kind) BY <1>q, <2>1 DEF Show, shell, pages
  <2>2. ASSUME NEW q \in Of(kind), Decline(q) PROVE Fate(r)
    BY <2>2, ResolveFate, KindFacts DEF Decline, Results
  <2> QED BY <1>3, <2>1, <2>2 DEF Dialog
<1>4. ASSUME NEW q, ApproveSign(q) \/ ApproveConnect(q) PROVE Fate(r)
  BY <1>4, <1>q DEF ApproveSign, ApproveConnect, shell, pages
<1>5. ASSUME NEW a \in Approvals, Signing(a) PROVE Fate(r)
  <2>1. CASE ClaimBegins(a) BY <1>q, <2>1 DEF ClaimBegins, pages
  <2>2. CASE ClaimEnds(a)
    <3>1. CASE r = flow[a].of /\ Claimable(r)
      <4>1. Kept(r) /\ requests[r].result = None /\ ~requests[r].claimed /\ requests[r] \in Entries
        BY <1>0, <3>1 DEF Claimable, Kept
      <4>2. requests'[r] = [requests[r] EXCEPT !.claimed = TRUE]
        BY <1>0, <2>2, <3>1 DEF ClaimEnds
      <4>3. requests'[r].claimed /\ requests'[r].result = None
        BY <4>1, <4>2 DEF Entries
      <4> QED BY <2>2, <3>1, <4>1, <4>3 DEF Claimed, ClaimEnds, pages
    <3>2. CASE ~(r = flow[a].of /\ Claimable(r))
      BY <1>0, <2>2, <3>2 DEF ClaimEnds, Same, pages
    <3> QED BY <3>1, <3>2
  <2>3. ASSUME NEW from, NEW to, Continue(a, from, to) PROVE Fate(r)
    BY <1>q, <2>3 DEF Continue, shell, pages
  <2>4. CASE Sign(a) BY <1>q, <2>4 DEF Sign, shell, pages
  <2>5. CASE Answer(a) \/ Reject(a)
    BY <2>5, ResolveFate, FlowFacts DEF Answer, Reject, Results, SignSteps
  <2> QED BY <1>5, <2>1, <2>2, <2>3, <2>4, <2>5 DEF Signing
<1>6. ASSUME NEW a \in Approvals, Connecting(a) PROVE Fate(r)
  <2>1. CASE Confirm(a)
    BY <2>1, ResolveFate, FlowFacts DEF Confirm, Results, ConnectSteps
  <2> QED BY <1>6, <1>q, <2>1 DEF Connecting, Grant, Confirmed, Undo, shell, pages
<1>7. CASE Security
  BY <1>7, <1>q DEF Security, Lock, LockStores, LockPasses, LockEnds, Unlock, Pause, PauseEnds,
                    Resume, ResumeFails, shell, pages
<1>8. CASE Disconnecting
  <2>1. UNCHANGED pages
    BY <1>8 DEF Disconnecting, DisconnectConnection, DisconnectWallet
  <2>2. requests'[r] \in {requests[r], None}
    BY <1>0, <1>8 DEF Disconnecting, DisconnectConnection, DisconnectWallet, Remove
  <2> QED BY <2>1, <2>2 DEF Same, Leaves, pages
<1>9. CASE UNCHANGED vars BY <1>9, <1>q DEF vars, shell, pages
<1> QED BY <1>1, <1>2, <1>3, <1>4, <1>5, <1>6, <1>7, <1>8, <1>9 DEF Next, Ids

\* "Once a pause has returned no request is claimed any more": the claim looks at the flag under the
\* mutex of the sessions, and the pause waits for that mutex (lib.rs 6204-6214, 6373-6384).
THEOREM NoClaimAfterPause == Spec => PauseStopsClaims
<1> DEFINE Stops == \A r \in Signs : Kept(r) /\ ~requests[r].claimed /\ requests'[r] # None
                                     /\ requests'[r].claimed => ~closed
<1>1. TypeOK /\ PauseInv /\ [Next]_vars => [Stops]_vars
  <2> SUFFICES ASSUME TypeOK, PauseInv, [Next]_vars, NEW r \in Signs,
                      Kept(r), ~requests[r].claimed, requests'[r] # None, requests'[r].claimed
               PROVE  ~closed
    OBVIOUS
  <2>1. Fate(r) /\ page[r] \in {"waiting", "done"}
    BY RequestFate DEF Ids, TypeOK, AskedFor, PagesTypeOK
  <2>2. Claimed(r)
    BY <2>1 DEF Fate, Same, Asked, Enters, Leaves, Polled, Answered, Kept
  <2>3. claiming # None BY <2>2, BridgeAssumption DEF Claimed, ClaimEnds
  <2> QED BY <2>3 DEF PauseInv
<1> QED BY <1>1, TypeCorrect, PauseInvHolds, PTL DEF Spec, PauseStopsClaims

-----------------------------------------------------------------------------
(* A request is signed once. *)

\* Taken, of a request named before the step, after it.
TakenAfter(r) == page'[r] \in {"waiting", "done"} /\ (requests'[r] # None => requests'[r].claimed)

\* A request that was taken stays taken.
LEMMA TakenStays ==
  ASSUME TypeOK, [Next]_vars, NEW r \in Ids, Taken(r)
  PROVE  TakenAfter(r)
<1>1. Fate(r) BY RequestFate
<1> QED BY <1>1 DEF TakenAfter, Fate, Same, Asked, Enters, Leaves, Polled, Answered, Claimed, Taken, Kept

\* An approval goes beyond its claim only by the claim, and signs only from there.
LEMMA BeyondByClaim ==
  ASSUME TypeOK, [Next]_vars, NEW a \in Approvals
  PROVE  \/ flow'[a].of = flow[a].of /\ (Beyond(a)' => Beyond(a))
         \/ ~Beyond(a)'
         \/ ClaimEnds(a) /\ Claimable(flow[a].of) /\ flow'[a].of = flow[a].of
<1> USE BridgeAssumption DEF Beyond
<1>0. flow \in [Approvals -> Flows] BY DEF TypeOK, WindowTypeOK
<1>1. ASSUME flow'[a] = flow[a] \/ flow'[a] = Idle
      PROVE  \/ flow'[a].of = flow[a].of /\ (Beyond(a)' => Beyond(a))
             \/ ~Beyond(a)'
  BY <1>1 DEF Idle
<1>2. ASSUME NEW b \in Approvals, NEW next, next.at \notin {"claimed", "sign"},
             flow' = [flow EXCEPT ![b] = next]
      PROVE  flow'[a] = flow[a] \/ ~Beyond(a)'
  BY <1>0, <1>2
<1>3. ASSUME NEW b \in Approvals, NEW to, to \notin {"claimed", "sign"}, Goto(b, to)
      PROVE  flow'[a] = flow[a] \/ ~Beyond(a)'
  <2>1. [flow[b] EXCEPT !.at = to].at = to
    BY <1>0 DEF Flows, Idle
  <2> QED BY <1>0, <1>3, <2>1 DEF Goto
<1>4. ASSUME NEW t \in Tabs, Tab(t) PROVE flow' = flow
  BY <1>4 DEF Tab, Open, Load, Opened, Close, Navigate, window, dialogs
<1>5. ASSUME NEW q \in Ids, Page(q) PROVE flow' = flow
  BY <1>5 DEF Page, Submit, Link, Ask, Enqueue, Expire, Poll, window, dialogs
<1>6. ASSUME NEW kind \in Kinds, Dialog(kind) PROVE flow' = flow
  BY <1>6 DEF Dialog, Show, Decline
<1>7. ASSUME NEW q, ApproveSign(q) \/ ApproveConnect(q)
      PROVE  flow'[a] = flow[a] \/ ~Beyond(a)'
  BY <1>2, <1>7 DEF ApproveSign, ApproveConnect, Begin
<1>8. ASSUME NEW b \in Approvals, Connecting(b)
      PROVE  flow'[a] = flow[a] \/ flow'[a] = Idle \/ ~Beyond(a)'
  BY <1>0, <1>3, <1>8 DEF Connecting, Grant, Confirm, Confirmed, Undo, Undoing, ConnectEnds
<1>9. CASE Security \/ Disconnecting \/ UNCHANGED vars
  <2>1. flow' = flow
    BY <1>9 DEF Security, Lock, LockStores, LockPasses, LockEnds, Unlock, Pause, PauseEnds, Resume,
                ResumeFails, Disconnecting, DisconnectConnection, DisconnectWallet, vars, window, dialogs
  <2> QED BY <2>1, <1>1
<1>10. ASSUME NEW b \in Approvals, Signing(b)
       PROVE  \/ flow'[a].of = flow[a].of /\ (Beyond(a)' => Beyond(a))
              \/ ~Beyond(a)'
              \/ ClaimEnds(a) /\ Claimable(flow[a].of) /\ flow'[a].of = flow[a].of
  <2>1. CASE ClaimBegins(b) BY <1>0, <1>1, <1>3, <2>1 DEF ClaimBegins, SignEnds
  <2>2. CASE ClaimEnds(b)
    <3>1. CASE Claimable(flow[b].of)
      <4>1. flow' = [flow EXCEPT ![b] = [flow[b] EXCEPT !.at = "claimed"]]
        BY <1>0, <2>2, <3>1 DEF ClaimEnds, Goto
      <4>2. [flow[b] EXCEPT !.at = "claimed"].of = flow[b].of BY <1>0 DEF Flows, Idle
      <4> QED BY <1>0, <1>1, <2>2, <3>1, <4>1, <4>2
    <3>2. CASE ~Claimable(flow[b].of) BY <1>0, <1>1, <2>2, <3>2 DEF ClaimEnds, SignEnds
    <3> QED BY <3>1, <3>2
  <2>3. CASE Continue(b, "claimed", "sign")
    <3>1. PICK to : /\ flow' = [flow EXCEPT ![b] = [flow[b] EXCEPT !.at = to]]
                    /\ flow[b].at = "claimed"
      BY <1>0, <2>3 DEF Continue, Goto
    <3>2. [flow[b] EXCEPT !.at = to].of = flow[b].of BY <1>0 DEF Flows, Idle
    <3> QED BY <1>0, <1>1, <3>1, <3>2
  <2>4. CASE Continue(b, "signed", "answer") BY <1>1, <1>3, <2>4 DEF Continue
  <2>5. CASE Sign(b) BY <1>1, <1>3, <2>5 DEF Sign
  <2>6. CASE Answer(b) \/ Reject(b) BY <1>0, <1>1, <1>3, <2>6 DEF Answer, Reject, SignEnds
  <2> QED BY <1>10, <2>1, <2>2, <2>3, <2>4, <2>5, <2>6 DEF Signing
<1> QED BY <1>1, <1>4, <1>5, <1>6, <1>7, <1>8, <1>9, <1>10 DEF Next

LEMMA SignsBeyond ==
  ASSUME TypeOK, [Next]_vars
  PROVE  \/ signed' = signed
         \/ \E a \in Approvals : /\ Beyond(a) /\ ~Beyond(a)' /\ flow[a].of \in Signs
                                  /\ signed' = [signed EXCEPT ![flow[a].of] = @ + 1]
<1>1. ASSUME NEW a \in Approvals, Sign(a), signed' # signed
      PROVE  /\ Beyond(a) /\ ~Beyond(a)' /\ flow[a].of \in Signs
             /\ signed' = [signed EXCEPT ![flow[a].of] = @ + 1]
  <2>1. flow[a].at = "sign" /\ (Goto(a, "signed") \/ Goto(a, "reject")) BY <1>1 DEF Sign
  <2>2. flow'[a].at \in {"signed", "reject"}
    BY <2>1, GotoType DEF SignSteps, TypeOK, WindowTypeOK
  <2> QED BY <1>1, <2>1, <2>2, FlowFacts DEF Sign, Beyond, SignSteps
<1>2. ASSUME NEW a \in Approvals, Signing(a), ~Sign(a) PROVE signed' = signed
  BY <1>2 DEF Signing, ClaimBegins, ClaimEnds, Continue, Answer, Reject, backend
<1>3. ASSUME NEW a \in Approvals, Connecting(a) PROVE signed' = signed
  BY <1>3 DEF Connecting, Grant, Confirm, Confirmed, Undo, backend
<1>4. ASSUME NEW t \in Tabs, Tab(t) PROVE signed' = signed
  BY <1>4 DEF Tab, Open, Load, Opened, Close, Navigate, backend
<1>5. ASSUME NEW q \in Ids, Page(q) PROVE signed' = signed
  BY <1>5 DEF Page, Submit, Link, Ask, Enqueue, Expire, Poll, backend
<1>6. ASSUME NEW kind \in Kinds, Dialog(kind) PROVE signed' = signed
  BY <1>6 DEF Dialog, Show, Decline, backend
<1>7. CASE (\E q : ApproveSign(q) \/ ApproveConnect(q)) \/ Security \/ Disconnecting \/ UNCHANGED vars
  BY <1>7 DEF ApproveSign, ApproveConnect, Security, Lock, LockStores, LockPasses, LockEnds, Unlock,
              Pause, PauseEnds, Resume, ResumeFails, Disconnecting, DisconnectConnection,
              DisconnectWallet, vars, backend
<1> QED BY <1>1, <1>2, <1>3, <1>4, <1>5, <1>6, <1>7 DEF Next

LEMMA ClaimInvNext == TypeOK /\ ClaimInv /\ [Next]_vars => ClaimInv'
<1> SUFFICES ASSUME TypeOK, ClaimInv, [Next]_vars PROVE ClaimInv'
  OBVIOUS
<1>0. signed \in [Ids -> Nat] /\ Signs \subseteq Ids
  BY DEF TypeOK, WindowTypeOK, Ids
<1>2. \A a \in Approvals : Beyond(a)' => /\ flow'[a].of = flow[a].of /\ flow[a].of \in Signs
                                         /\ Beyond(a) \/ (ClaimEnds(a) /\ Claimable(flow[a].of))
  BY FlowFacts, BeyondByClaim, BridgeAssumption DEF Beyond, SignSteps, ClaimEnds
<1>3. \A a \in Approvals : ClaimEnds(a) => signed' = signed
  BY DEF ClaimEnds, backend
<1>4. \A a \in Approvals : ClaimEnds(a) /\ Claimable(flow[a].of) /\ flow[a].of \in Signs =>
         ~Taken(flow[a].of) /\ TakenAfter(flow[a].of)
  <2> SUFFICES ASSUME NEW a \in Approvals, ClaimEnds(a), Claimable(flow[a].of), flow[a].of \in Signs
               PROVE  ~Taken(flow[a].of) /\ TakenAfter(flow[a].of)
    OBVIOUS
  <2> DEFINE r == flow[a].of
  <2>1. Kept(r) /\ ~requests[r].claimed /\ requests[r] \in Entries /\ page[r] \in {"waiting", "done"}
    BY <1>0 DEF Claimable, Kept, TypeOK, ShellTypeOK, PagesTypeOK, AskedFor
  <2>2. requests'[r] = [requests[r] EXCEPT !.claimed = TRUE] /\ page' = page
    BY <1>0 DEF ClaimEnds, TypeOK, ShellTypeOK, pages
  <2>3. requests'[r].claimed BY <2>1, <2>2 DEF Entries
  <2> QED BY <2>1, <2>2, <2>3 DEF Taken, TakenAfter
<1>5. \A a, b \in Approvals : ClaimEnds(a) /\ ClaimEnds(b) => a = b
  BY DEF ClaimEnds
<1>6. CASE signed' = signed
  <2>0. /\ \A b \in Approvals : Beyond(b) => Taken(flow[b].of) /\ signed[flow[b].of] = 0
        /\ \A b, c \in Approvals : Beyond(b) /\ Beyond(c) /\ flow[b].of = flow[c].of => b = c
        /\ \A r \in Signs : ~Taken(r) => signed[r] = 0
    BY DEF ClaimInv
  <2>1. ASSUME NEW a \in Approvals, Beyond(a)'
        PROVE  TakenAfter(flow'[a].of) /\ signed'[flow'[a].of] = 0
    <3>1. /\ flow'[a].of = flow[a].of /\ flow[a].of \in Signs
          /\ Beyond(a) \/ (ClaimEnds(a) /\ Claimable(flow[a].of))
      BY <1>2, <2>1
    <3>2. CASE Beyond(a) BY <1>0, <1>6, <2>0, <3>1, <3>2, TakenStays
    <3>3. CASE ClaimEnds(a) /\ Claimable(flow[a].of) BY <1>4, <1>6, <2>0, <3>1, <3>3
    <3> QED BY <3>1, <3>2, <3>3
  <2>2. ASSUME NEW a \in Approvals, NEW b \in Approvals, Beyond(a)', Beyond(b)', flow'[a].of = flow'[b].of
        PROVE  a = b
    <3>1. /\ flow[a].of = flow[b].of /\ flow[a].of \in Signs
          /\ Beyond(a) \/ (ClaimEnds(a) /\ Claimable(flow[a].of))
          /\ Beyond(b) \/ (ClaimEnds(b) /\ Claimable(flow[b].of))
      BY <1>2, <2>2
    <3>2. CASE Beyond(a) /\ Beyond(b) BY <2>0, <3>1, <3>2
    <3>3. CASE ClaimEnds(a) /\ Claimable(flow[a].of) /\ ClaimEnds(b) BY <1>5, <3>3
    <3>4. CASE ClaimEnds(a) /\ Claimable(flow[a].of) /\ Beyond(b) BY <1>4, <2>0, <3>1, <3>4
    <3>5. CASE ClaimEnds(b) /\ Claimable(flow[b].of) /\ Beyond(a) BY <1>4, <2>0, <3>1, <3>5
    <3> QED BY <3>1, <3>2, <3>3, <3>4, <3>5
  <2>3. \A r \in Signs : signed'[r] # 0 => TakenAfter(r) /\ signed'[r] = 1
    BY <1>0, <1>6, TakenStays DEF ClaimInv
  <2> QED BY <2>1, <2>2, <2>3 DEF ClaimInv, Beyond, Taken, TakenAfter, Kept
<1>7. ASSUME NEW a \in Approvals, Beyond(a), ~Beyond(a)', flow[a].of \in Signs,
             signed' = [signed EXCEPT ![flow[a].of] = @ + 1], signed' # signed
      PROVE  ClaimInv'
  <2>0. \A b \in Approvals : ~ClaimEnds(b) BY <1>3, <1>7
  <2>1. \A b \in Approvals : Beyond(b)' => /\ Beyond(b) /\ flow'[b].of = flow[b].of
                                           /\ flow[b].of \in Signs /\ flow[b].of # flow[a].of
    BY <1>2, <1>7, <2>0 DEF ClaimInv
  <2>2. \A b \in Approvals : Beyond(b)' => TakenAfter(flow'[b].of) /\ signed'[flow'[b].of] = 0
    BY <1>0, <1>7, <2>1, TakenStays DEF ClaimInv
  <2>3. \A b, c \in Approvals : Beyond(b)' /\ Beyond(c)' /\ flow'[b].of = flow'[c].of => b = c
    BY <2>1 DEF ClaimInv
  <2>4. \A r \in Signs : signed'[r] # 0 => TakenAfter(r) /\ signed'[r] = 1
    BY <1>0, <1>7, TakenStays DEF ClaimInv
  <2> QED BY <2>2, <2>3, <2>4 DEF ClaimInv, Beyond, Taken, TakenAfter, Kept
<1> QED BY <1>6, <1>7, SignsBeyond

\* "A claimed request is never retried: a broadcast may already have happened" (page.tsx 11817):
\* however often it is shown and approved, a request is signed at most once.
THEOREM SignedAtMostOnce == Spec => []SignedOnce
<1>1. Init => ClaimInv
  BY DEF Init, ClaimInv, Beyond, Idle, Ids
<1>2. TypeOK /\ ClaimInv => SignedOnce
  BY DEF TypeOK, WindowTypeOK, ClaimInv, SignedOnce, Ids
<1> QED BY <1>1, <1>2, TypeCorrect, ClaimInvNext, PTL DEF Spec

-----------------------------------------------------------------------------
(* A request whose connection was disconnected. *)

\* A disconnection takes requests out, and remembers the open ones.
LEMMA CutByRemoval ==
  ASSUME TypeOK, [Next]_vars, NEW r \in cut', r \notin cut
  PROVE  /\ r \in Ids /\ Kept(r) /\ requests[r].result = None
         /\ requests'[r] = None /\ UNCHANGED <<page, delivered>>
<1>1. ASSUME NEW tabs, NEW removed \in SUBSET Ids, Remove(tabs, removed), UNCHANGED pages
      PROVE  /\ r \in Ids /\ Kept(r) /\ requests[r].result = None
             /\ requests'[r] = None /\ UNCHANGED <<page, delivered>>
  BY <1>1 DEF Remove, pages
<1>2. ASSUME NEW p \in Identity, DisconnectConnection(p)
      PROVE  \E tabs \in SUBSET Tabs, removed \in SUBSET Ids : Remove(tabs, removed) /\ UNCHANGED pages
  BY <1>2 DEF DisconnectConnection, Matching
<1>3. ASSUME NEW w \in Wallets, DisconnectWallet(w)
      PROVE  \E tabs \in SUBSET Tabs, removed \in SUBSET Ids : Remove(tabs, removed) /\ UNCHANGED pages
  BY <1>3 DEF DisconnectWallet, Ids
<1>4. ASSUME NEW t \in Tabs, Tab(t) PROVE FALSE
  BY <1>4 DEF Tab, Open, Load, Opened, Close, Navigate, ghosts
<1>5. ASSUME NEW q \in Ids, Page(q) PROVE FALSE
  BY <1>5 DEF Page, Submit, Link, Ask, Enqueue, Expire, Poll, ghosts
<1>6. ASSUME NEW kind \in Kinds, Dialog(kind) PROVE FALSE
  BY <1>6 DEF Dialog, Show, Decline, ghosts
<1>7. ASSUME NEW a \in Approvals, Signing(a) \/ Connecting(a) PROVE FALSE
  BY <1>7 DEF Signing, ClaimBegins, ClaimEnds, Continue, Sign, Answer, Reject,
              Connecting, Grant, Confirm, Confirmed, Undo, ghosts
<1>8. CASE (\E q : ApproveSign(q) \/ ApproveConnect(q)) \/ Security \/ UNCHANGED vars
  BY <1>8 DEF ApproveSign, ApproveConnect, Security, Lock, LockStores, LockPasses, LockEnds, Unlock,
              Pause, PauseEnds, Resume, ResumeFails, vars, ghosts
<1> QED BY <1>1, <1>2, <1>3, <1>4, <1>5, <1>6, <1>7, <1>8 DEF Next, Disconnecting

LEMMA CutInvNext == TypeOK /\ CutInv /\ [Next]_vars => CutInv'
<1> SUFFICES ASSUME TypeOK, CutInv, [Next]_vars PROVE CutInv'
  OBVIOUS
<1>0. TypeOK' BY TypeNext
<1>1. ASSUME NEW r \in Ids, requests'[r] # None, requests'[r].result = None
      PROVE  delivered'[r] = "none"
  <2>1. Fate(r) BY RequestFate
  <2> QED BY <1>1, <2>1, BridgeAssumption
          DEF CutInv, TypeOK, AskedFor, PagesTypeOK, Kept, Results,
              Fate, Same, Asked, Enters, Leaves, Polled, Answered, Claimed
<1>2. ASSUME NEW r \in cut'
      PROVE  requests'[r] = None /\ page'[r] \in {"waiting", "done"} /\ delivered'[r] # "approved"
  <2>1. CASE r \in cut
    <3>1. r \in Ids /\ ~Kept(r) /\ page[r] \in {"waiting", "done"} /\ delivered[r] # "approved"
      BY <2>1 DEF CutInv, TypeOK, GhostTypeOK
    <3>2. Fate(r) BY <3>1, RequestFate
    <3> QED BY <3>1, <3>2
            DEF Kept, Fate, Same, Asked, Enters, Leaves, Polled, Answered, Claimed
  <2>2. CASE r \notin cut
    <3>1. /\ r \in Ids /\ Kept(r) /\ requests[r].result = None
          /\ requests'[r] = None /\ UNCHANGED <<page, delivered>>
      BY <2>2, CutByRemoval
    <3> QED BY <3>1 DEF CutInv, TypeOK, AskedFor, PagesTypeOK
  <2> QED BY <2>1, <2>2
<1> QED BY <1>1, <1>2 DEF CutInv, Kept

\* A request that was open when its site was disconnected is never answered as approved, whatever
\* the window was doing with it (lib.rs 6502-6544).
THEOREM DisconnectionStands == Spec => []DisconnectStands
<1>1. Init => CutInv BY DEF Init, CutInv, Kept
<1>2. CutInv => DisconnectStands BY DEF CutInv, DisconnectStands
<1> QED BY <1>1, <1>2, TypeCorrect, CutInvNext, PTL DEF Spec

-----------------------------------------------------------------------------
(* The bridge is paused when a lock is over. *)

\* Whatever does not lock, unlock, pause or resume leaves the queue and the pause as they are.
LEMMA OutsideSecurity ==
  ASSUME TypeOK, [Next]_vars, ~Security
  PROVE  /\ UNCHANGED security /\ paused' = paused
         /\ gate' = "pause" => gate = "pause"
<1> USE BridgeAssumption
<1>1. ASSUME NEW t \in Tabs, Tab(t)
      PROVE  UNCHANGED security /\ paused' = paused /\ (gate' = "pause" => gate = "pause")
  BY <1>1 DEF Tab, Open, Load, Opened, Close, Navigate, window
<1>2. ASSUME NEW q \in Ids, Page(q)
      PROVE  UNCHANGED security /\ paused' = paused /\ gate' = gate
  BY <1>2 DEF Page, Submit, Link, Ask, Enqueue, Expire, Poll, shell, window
<1>3. ASSUME NEW kind \in Kinds, Dialog(kind)
      PROVE  UNCHANGED security /\ paused' = paused /\ gate' = gate
  BY <1>3 DEF Dialog, Show, Decline, Resolve, shell
<1>4. ASSUME NEW a \in Approvals, Signing(a)
      PROVE  UNCHANGED security /\ paused' = paused /\ gate' = gate
  BY <1>4 DEF Signing, ClaimBegins, ClaimEnds, Continue, Sign, Answer, Reject, Resolve, shell
<1>5. ASSUME NEW a \in Approvals, Connecting(a)
      PROVE  UNCHANGED security /\ paused' = paused /\ gate' = gate
  BY <1>5 DEF Connecting, Grant, Confirm, Confirmed, Undo, Resolve, shell
<1>6. CASE (\E q : ApproveSign(q) \/ ApproveConnect(q)) \/ Disconnecting \/ UNCHANGED vars
  BY <1>6 DEF ApproveSign, ApproveConnect, Disconnecting, DisconnectConnection, DisconnectWallet,
              vars, shell, window
<1> QED BY <1>1, <1>2, <1>3, <1>4, <1>5, <1>6 DEF Next

\* Appending to a short queue.
LEMMA AppendShort ==
  ASSUME NEW S, NEW a \in S, NEW b \in S, NEW c \in S
  PROVE  /\ Append(<<>>, a) = <<a>>
         /\ Append(<<a>>, b) = <<a, b>>
         /\ Append(<<a, b>>, c) = <<a, b, c>>
<1>1. Append(<<>>, a) = <<a>> OBVIOUS
<1>2. ASSUME NEW s \in Seq(S), Len(s) = 1, s[1] = a PROVE Append(s, b) = <<a, b>>
  <2>1. Append(s, b) \in Seq(S) /\ Len(Append(s, b)) = Len(s) + 1 OBVIOUS
  <2>2. Append(s, b)[Len(s) + 1] = b OBVIOUS
  <2>3. Append(s, b)[1] = a BY <1>2
  <2>4. Len(s) + 1 = 2 BY <1>2
  <2> DEFINE t == Append(s, b)
           u == <<a, b>>
  <2>5. t \in Seq(S) /\ Len(t) = 2 /\ t[1] = a /\ t[2] = b BY <2>1, <2>2, <2>3, <2>4
  <2>6. u \in Seq(S) /\ Len(u) = 2 /\ u[1] = a /\ u[2] = b OBVIOUS
  <2> HIDE DEF t, u
  <2>7. \A i \in 1..2 : t[i] = u[i] BY <2>5, <2>6
  <2>8. t = u BY <2>5, <2>6, <2>7, SeqEqual
  <2> QED BY <2>8 DEF t, u
<1>3. ASSUME NEW s \in Seq(S), Len(s) = 2, s[1] = a, s[2] = b PROVE Append(s, c) = <<a, b, c>>
  <2>1. Append(s, c) \in Seq(S) /\ Len(Append(s, c)) = Len(s) + 1 OBVIOUS
  <2>2. Append(s, c)[Len(s) + 1] = c OBVIOUS
  <2>3. Append(s, c)[1] = a /\ Append(s, c)[2] = b
    <3>1. \A i \in 1..Len(s) : Append(s, c)[i] = s[i] OBVIOUS
    <3>2. 1 \in 1..Len(s) /\ 2 \in 1..Len(s) BY <1>3
    <3> QED BY <1>3, <3>1, <3>2
  <2>4. Len(s) + 1 = 3 BY <1>3
  <2> DEFINE t == Append(s, c)
           u == <<a, b, c>>
  <2>5. t \in Seq(S) /\ Len(t) = 3 /\ t[1] = a /\ t[2] = b /\ t[3] = c BY <2>1, <2>2, <2>3, <2>4
  <2>6. u \in Seq(S) /\ Len(u) = 3 /\ u[1] = a /\ u[2] = b /\ u[3] = c OBVIOUS
  <2> HIDE DEF t, u
  <2>7. \A i \in 1..3 : t[i] = u[i] BY <2>5, <2>6
  <2>8. t = u BY <2>5, <2>6, <2>7, SeqEqual
  <2> QED BY <2>8 DEF t, u
<1>4. <<a>> \in Seq(S) /\ Len(<<a>>) = 1 /\ <<a>>[1] = a OBVIOUS
<1>5. <<a, b>> \in Seq(S) /\ Len(<<a, b>>) = 2 /\ <<a, b>>[1] = a /\ <<a, b>>[2] = b OBVIOUS
<1> QED BY <1>1, <1>2, <1>3, <1>4, <1>5
\* What the window's queue becomes.
LEMMA QueueSteps ==
    /\ Append(<<>>, "pause") = <<"pause">> /\ Append(<<>>, "unlock") = <<"unlock">>
    /\ Append(<<>>, "resume") = <<"resume">>
    /\ Append(<<"resume">>, "pause") = <<"resume", "pause">>
    /\ Append(<<"pause">>, "unlock") = <<"pause", "unlock">>
    /\ Append(<<"resume", "pause">>, "unlock") = <<"resume", "pause", "unlock">>
    /\ Tail(<<"resume">>) = <<>> /\ Tail(<<"pause">>) = <<>> /\ Tail(<<"unlock">>) = <<>>
    /\ Tail(<<"resume", "pause">>) = <<"pause">> /\ Tail(<<"pause", "unlock">>) = <<"unlock">>
    /\ Tail(<<"resume", "pause", "unlock">>) = <<"pause", "unlock">>
    /\ Head(<<"resume">>) = "resume" /\ Head(<<"pause">>) = "pause" /\ Head(<<"unlock">>) = "unlock"
    /\ Head(<<"resume", "pause">>) = "resume" /\ Head(<<"pause", "unlock">>) = "pause"
    /\ Head(<<"resume", "pause", "unlock">>) = "resume"
    /\ <<"resume">> # <<>> /\ <<"pause">> # <<>> /\ <<"unlock">> # <<>>
<1> DEFINE S == {"resume", "pause", "unlock"}
<1>1. ASSUME NEW a \in S, NEW b \in S, NEW c \in S
      PROVE  /\ Append(<<>>, a) = <<a>> /\ Append(<<a>>, b) = <<a, b>>
             /\ Append(<<a, b>>, c) = <<a, b, c>>
  BY AppendShort
<1>2. /\ Tail(<<"resume">>) = <<>> /\ Tail(<<"pause">>) = <<>> /\ Tail(<<"unlock">>) = <<>>
      /\ Tail(<<"resume", "pause">>) = <<"pause">> /\ Tail(<<"pause", "unlock">>) = <<"unlock">>
  OBVIOUS
<1>3. Tail(<<"resume", "pause", "unlock">>) = <<"pause", "unlock">>
  OBVIOUS
<1>4. /\ Head(<<"resume">>) = "resume" /\ Head(<<"pause">>) = "pause" /\ Head(<<"unlock">>) = "unlock"
      /\ Head(<<"resume", "pause">>) = "resume" /\ Head(<<"pause", "unlock">>) = "pause"
      /\ Head(<<"resume", "pause", "unlock">>) = "resume"
      /\ <<"resume">> # <<>> /\ <<"pause">> # <<>> /\ <<"unlock">> # <<>>
  OBVIOUS
<1> QED BY <1>1, <1>2, <1>3, <1>4

LEMMA QueueInvNext == TypeOK /\ QueueInv /\ [Next]_vars => QueueInv'
<1> SUFFICES ASSUME TypeOK, QueueInv, [Next]_vars PROVE QueueInv'
  OBVIOUS
<1> USE BridgeAssumption, QueueSteps DEF QueueInv
<1>0. lockedRef \in BOOLEAN /\ locked \in BOOLEAN /\ paused \in BOOLEAN
  BY DEF TypeOK, ShellTypeOK, WindowTypeOK
<1>1. CASE ~Security
  <2>1. /\ UNCHANGED <<lockedRef, locked, queue, paused>> /\ (gate' = "pause" => gate = "pause")
    BY <1>1, OutsideSecurity DEF security
  <2> QED BY <2>1
<1>2. CASE Lock BY <1>0, <1>2 DEF Lock, shell
<1>3. CASE LockStores BY <1>0, <1>3 DEF LockStores
<1>4. CASE LockPasses \/ LockEnds BY <1>0, <1>4 DEF LockPasses, LockEnds, shell
<1>5. CASE Unlock
  <2>1. locked /\ ~lockedRef' /\ queue' = Append(queue, "unlock") /\ UNCHANGED <<locked, paused, gate>>
    BY <1>5 DEF Unlock, shell
  <2>2. (queue = <<>> /\ paused) \/ queue = <<"pause">> \/ queue = <<"resume", "pause">>
    BY <1>0, <1>5 DEF Unlock
  <2>3. CASE queue = <<>> /\ paused BY <2>1, <2>3
  <2>4. CASE queue = <<"pause">> BY <2>1, <2>4
  <2>5. CASE queue = <<"resume", "pause">> BY <2>1, <2>5
  <2> QED BY <2>2, <2>3, <2>4, <2>5
<1>6. CASE Pause BY <1>0, <1>6 DEF Pause, window, security
<1>7. CASE PauseEnds BY <1>0, <1>7 DEF PauseEnds
<1>8. CASE Resume BY <1>0, <1>8 DEF Resume
<1>9. CASE ResumeFails BY <1>0, <1>9 DEF ResumeFails, shell
<1> QED BY <1>1, <1>2, <1>3, <1>4, <1>5, <1>6, <1>7, <1>8, <1>9 DEF Security

\* When a lock has run its course, nobody unlocks and nothing is left to run, the bridge is paused,
\* although an earlier resumption may have overtaken the lock (page.tsx 5088-5092; lib.rs 6355-6384).
THEOREM LockLeavesPaused == Spec => []PausedAtRest
<1>1. Init => QueueInv BY BridgeAssumption DEF Init, QueueInv
<1>2. QueueInv => PausedAtRest BY DEF QueueInv, PausedAtRest
<1> QED BY <1>1, <1>2, TypeCorrect, QueueInvNext, PTL DEF Spec
=============================================================================
