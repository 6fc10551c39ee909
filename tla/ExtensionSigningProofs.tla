------------------------ MODULE ExtensionSigningProofs ------------------------
(***************************************************************************)
(* Theorems about ExtensionSigning: for any requests, sites, accounts and    *)
(* networks and any number of locks, selections, switches and revocations.   *)
(*                                                                         *)
(* Every step is a request's own step or spares that request (OwnOrUnmoved), *)
(* so an invariant of a request is proved over its own steps and those       *)
(* lemmas that say what a step does to the shared state: to the permission   *)
(* chain, the revocations, the permissions, the revision, the selection.     *)
(***************************************************************************)
EXTENDS ExtensionSigning, TLAPS

-----------------------------------------------------------------------------
(* Types.                                                                   *)

Replies == {"none", "declined", "result", "error", "maybe sent"}
Jobs == Requests \cup Origins

LEMMA StepNames ==
    /\ "idle" \in Steps /\ "pending" \in Steps /\ "cancelled" \in Steps /\ "approved" \in Steps
    /\ "account" \in Steps /\ "network" \in Steps /\ "permission" \in Steps
    /\ "permitted" \in Steps /\ "switch" \in Steps /\ "switchRead" \in Steps
    /\ "switchWrite" \in Steps /\ "switched" \in Steps /\ "queued" \in Steps
    /\ "granting" \in Steps /\ "grantWrite" \in Steps /\ "granted" \in Steps
    /\ "key" \in Steps /\ "chain" \in Steps /\ "ready" \in Steps /\ "checked" \in Steps
    /\ "signed" \in Steps /\ "finish" \in Steps /\ "over" \in Steps
BY DEF Steps

LEMMA ReplyNames ==
    /\ "none" \in Replies /\ "declined" \in Replies /\ "result" \in Replies
    /\ "error" \in Replies /\ "maybe sent" \in Replies
BY DEF Replies

LEMMA CurrentType == TypeOK => Current \in Contexts
BY DEF TypeOK, Current, Selections, Contexts

LEMMA ItemType ==
  ASSUME TypeOK, NEW r \in Requests
  PROVE  /\ step \in [Requests -> Steps] /\ answer \in [Requests -> Replies]
         /\ local \in [Requests -> Partial] /\ local[r] \in Partial
         /\ prepared \in [Requests -> Partial] /\ signature \in [Requests -> Partial]
         /\ context \in [Requests -> Contexts \cup {None}]
         /\ written \in [Requests -> Contexts \cup {None}]
         /\ queue \in Seq(Jobs)
         /\ selection.account \in Accounts /\ selection.chain \in Chains
BY DEF TypeOK, Replies, Jobs, Selections

LEMMA GotoType ==
  ASSUME TypeOK, NEW r \in Requests, NEW next \in Steps, Goto(r, next)
  PROVE  step' \in [Requests -> Steps] /\ answer' \in [Requests -> Replies]
BY ItemType DEF Goto

LEMMA AnswerType ==
  ASSUME TypeOK, NEW r \in Requests, NEW reply \in Replies, Answer(r, reply)
  PROVE  step' \in [Requests -> Steps] /\ answer' \in [Requests -> Replies]
BY ItemType, StepNames DEF Answer

LEMMA FailType ==
  ASSUME TypeOK, NEW r \in Requests, Fail(r)
  PROVE  step' \in [Requests -> Steps] /\ answer' \in [Requests -> Replies]
BY AnswerType, ReplyNames DEF Fail

LEMMA AssertedType ==
  ASSUME TypeOK, NEW r \in Requests, NEW next \in Steps, Asserted(r, next)
  PROVE  step' \in [Requests -> Steps] /\ answer' \in [Requests -> Replies]
BY GotoType, AnswerType, ReplyNames DEF Asserted

LEMMA CancelledType == TypeOK => Cancelled \in [Requests -> Steps]
<1> SUFFICES ASSUME TypeOK PROVE Cancelled \in [Requests -> Steps]
  OBVIOUS
<1>1. step \in [Requests -> Steps]
  BY DEF TypeOK
<1> QED BY <1>1, StepNames DEF Cancelled

LEMMA CancelType ==
  ASSUME TypeOK, CancelPending
  PROVE  step' \in [Requests -> Steps] /\ answer' \in [Requests -> Replies]
<1>1. answer \in [Requests -> Replies]
  BY DEF TypeOK, Replies
<1> QED BY <1>1, CancelledType, ReplyNames DEF CancelPending

LEMMA ChangeType ==
  ASSUME TypeOK, NEW by, ChangeContext(by)
  PROVE  revision' \in Nat /\ revision' = revision + 1 /\ disturbed' \subseteq Requests
<1>1. revision \in Nat /\ disturbed \subseteq Requests
  BY DEF TypeOK
<1> QED BY <1>1 DEF ChangeContext, Running

\* Reading the account or the network into what an execution or a view holds.
LEMMA AccountRead ==
  ASSUME NEW f \in [Requests -> Partial], NEW r \in Requests, NEW a \in Accounts,
         NEW g, g = [f EXCEPT ![r].account = a]
  PROVE  /\ g \in [Requests -> Partial]
         /\ g[r].account = a /\ g[r].chain = f[r].chain
         /\ \A q \in Requests : q # r => g[q] = f[q]
BY DEF Partial

LEMMA ChainRead ==
  ASSUME NEW f \in [Requests -> Partial], NEW r \in Requests, NEW c \in Chains,
         NEW g, g = [f EXCEPT ![r].chain = c]
  PROVE  /\ g \in [Requests -> Partial]
         /\ g[r].chain = c /\ g[r].account = f[r].account
         /\ \A q \in Requests : q # r => g[q] = f[q]
BY DEF Partial

LEMMA Enqueued == ASSUME NEW q \in Seq(Jobs), NEW job \in Jobs PROVE Append(q, job) \in Seq(Jobs)
OBVIOUS

LEMMA Dequeued == ASSUME NEW q \in Seq(Jobs), q # <<>> PROVE Tail(q) \in Seq(Jobs)
OBVIOUS

\* Not decided yet.
Undecided(r) == step[r] \in {"idle", "pending", "cancelled"}

\* How far a request has come, and what it then has.
PhaseOf(r) ==
    /\ step[r] # "idle" => context[r] \in Contexts
    /\ step[r] = "idle" => view[r] = "none"
    /\ ~Undecided(r) => view[r] = "shown"
    /\ step[r] \in {"network", "permission", "permitted"} => Kind[r] # "connect"
    /\ step[r] \in {"switch", "switchRead", "switchWrite", "switched"} => Kind[r] = "switch"
    /\ step[r] \in {"queued", "granting", "grantWrite", "granted"} => Kind[r] \in {"connect", "switch"}
    /\ step[r] \in {"key", "chain", "ready"} => Kind[r] \in {"sign", "send"}
    /\ step[r] \in {"checked", "signed"} => Kind[r] = "send"
    /\ step[r] \in {"switchRead", "switchWrite", "switched"} => written[r] \in Contexts
    /\ step[r] \in {"network", "permission", "permitted", "switch", "switchRead", "switchWrite",
                    "switched", "queued", "granting", "grantWrite", "granted"} =>
         local[r].account # None
    /\ step[r] \in {"granting", "grantWrite", "granted"} => local[r].chain # None

Phases == \A r \in Requests : PhaseOf(r)

\* The job of the permission chain that works is the one at its head.
HeadsWork ==
    /\ \A r \in Requests : step[r] \in {"granting", "grantWrite", "granted"} => AtHead(r)
    /\ \A o \in Origins : revoke[o] = "write" => AtHead(o)

LEMMA GrantType ==
  ASSUME granted \in [Origins -> Permissions], NEW o \in Origins,
         NEW a \in Accounts, NEW c \in Chains, NEW g,
         g = [granted EXCEPT ![o].accounts = @ \cup {a}, ![o].chains = @ \cup {c}]
  PROVE  /\ g \in [Origins -> Permissions]
         /\ g[o].accounts = granted[o].accounts \cup {a}
         /\ g[o].chains = granted[o].chains \cup {c}
         /\ \A p \in Origins : p # o => g[p] = granted[p]
BY DEF Permissions

LEMMA TypeInit == Init => TypeOK
<1> SUFFICES ASSUME Init PROVE TypeOK
  OBVIOUS
<1> USE SigningAssumption
<1>1. selection \in Selections /\ granted \in [Origins -> Permissions] /\ revision \in Nat /\ unlocked \in BOOLEAN
  BY DEF Init
<1>2. /\ step \in [Requests -> Steps]
      /\ context \in [Requests -> Contexts \cup {None}] /\ written \in [Requests -> Contexts \cup {None}]
      /\ view \in [Requests -> {"none", "chain", "account", "check", "shown"}]
      /\ answer \in [Requests -> {"none", "declined", "result", "error", "maybe sent"}]
  BY DEF Init, Steps
<1>3. /\ prepared \in [Requests -> Partial] /\ local \in [Requests -> Partial]
      /\ signature \in [Requests -> Partial]
  BY DEF Init, Unread, Partial
<1>4. queue \in Seq(Requests \cup Origins)
  BY DEF Init
<1>5. /\ select \in [step : {"idle", "read", "write"}, next : Selections]
      /\ revoke \in [Origins -> {"none", "queued", "write", "done"}]
      /\ unlock \in [running : BOOLEAN, revision : Nat, overtaken : BOOLEAN]
  BY DEF Init
<1>6. /\ sent \subseteq Requests /\ disturbed \subseteq Requests
      /\ grantedBy \in [Origins -> Requests \cup {None}]
      /\ revokedFirst \in [Requests -> SUBSET Origins]
      /\ waitedFor \in [Requests -> SUBSET Origins]
  BY DEF Init
<1> QED BY <1>1, <1>2, <1>3, <1>4, <1>5, <1>6 DEF TypeOK

\* The selection, the permissions and the context of a view keep their types.
LEMMA ViewType ==
  ASSUME TypeOK, NEW r \in Requests, Viewing(r)
  PROVE  TypeOK'
<1> USE DEF TypeOK, storage, session, users, history
<1>1. CASE ViewBegins(r) BY <1>1 DEF ViewBegins, View
<1>2. CASE ViewReadsChain(r)
  <2>1. prepared' \in [Requests -> Partial]
    BY <1>2, ChainRead, ItemType DEF ViewReadsChain
  <2> QED BY <1>2, <2>1 DEF ViewReadsChain, View
<1>3. CASE ViewReadsAccount(r) BY <1>3 DEF ViewReadsAccount, View, Partial, Selections
<1>4. CASE ViewLocked(r) BY <1>4 DEF ViewLocked, View, Partial, Unread
<1>5. CASE ViewEnds(r) BY <1>5 DEF ViewEnds, View
<1> QED BY <1>1, <1>2, <1>3, <1>4, <1>5 DEF Viewing

LEMMA ExecutionType ==
  ASSUME TypeOK, Phases, HeadsWork, NEW r \in Requests, Executing(r)
  PROVE  TypeOK'
<1> USE SigningAssumption
<1> USE DEF storage, session, users, history, Segment
<1> DEFINE Ty == step' \in [Requests -> Steps] /\ answer' \in [Requests -> Replies]
<1>1. CASE Verify(r)
  <2>1. Ty
    BY <1>1, AssertedType, FailType, StepNames DEF Verify
  <2> QED BY <1>1, <2>1 DEF Verify, TypeOK, Replies
<1>2. CASE ReadAccount(r)
  <2>1. Ty
    BY <1>2, GotoType, FailType, StepNames DEF ReadAccount
  <2>2. local' = local \/ local' = [local EXCEPT ![r].account = selection.account]
    BY <1>2 DEF ReadAccount
  <2>3. local' \in [Requests -> Partial]
    <3>1. CASE local' = local
      BY <3>1, ItemType
    <3>2. CASE local' = [local EXCEPT ![r].account = selection.account]
      BY <3>2, AccountRead, ItemType
    <3> QED BY <2>2, <3>1, <3>2
  <2>4. queue' = queue \/ queue' = Append(queue, r)
    BY <1>2 DEF ReadAccount
  <2>5. queue' \in Seq(Jobs)
    <3>1. r \in Jobs /\ queue \in Seq(Jobs)
      BY ItemType DEF Jobs
    <3> QED BY <2>4, <3>1, Enqueued
  <2> QED BY <1>2, <2>1, <2>3, <2>5 DEF ReadAccount, TypeOK, Replies, Jobs
<1>3. CASE ReadNetwork(r)
  <2>1. Ty
    BY <1>3, GotoType, StepNames DEF ReadNetwork
  <2>2. local' \in [Requests -> Partial]
    BY <1>3, ChainRead, ItemType DEF ReadNetwork
  <2> QED BY <1>3, <2>1, <2>2 DEF ReadNetwork, TypeOK, Replies
<1>4. CASE CheckPermission(r)
  <2>1. Ty
    BY <1>4, GotoType, FailType, StepNames DEF CheckPermission
  <2> QED BY <1>4, <2>1 DEF CheckPermission, TypeOK, Replies
<1>5. CASE Permitted(r)
  <2>1. Ty
    BY <1>5, AssertedType, StepNames DEF Permitted
  <2> QED BY <1>5, <2>1 DEF Permitted, TypeOK, Replies
<1>6. CASE SwitchReads(r)
  <2>1. Ty
    BY <1>6, GotoType, StepNames DEF SwitchReads
  <2>2. [Current EXCEPT !.chain = TargetOf[r]] \in Contexts
    BY CurrentType DEF Contexts
  <2>3. written' \in [Requests -> Contexts \cup {None}]
    BY <1>6, <2>2, ItemType DEF SwitchReads
  <2> QED BY <1>6, <2>1, <2>3 DEF SwitchReads, TypeOK, Replies
<1>7. CASE SwitchBegins(r)
  <2>1. Ty
    <3>1. step' \in [Requests -> Steps]
      BY <1>7, CancelledType, StepNames DEF SwitchBegins
    <3>2. answer' \in [Requests -> Replies]
      BY <1>7, ItemType, ReplyNames DEF SwitchBegins
    <3> QED BY <3>1, <3>2
  <2>2. revision' \in Nat /\ disturbed' \subseteq Requests
    BY <1>7, ChangeType DEF SwitchBegins
  <2>3. written[r] \in Contexts
    BY <1>7, ItemType DEF SwitchBegins, Phases, PhaseOf
  <2>4. [written[r] EXCEPT !.revision = revision'] \in Contexts
    BY <2>2, <2>3 DEF Contexts
  <2>5. written' = [written EXCEPT ![r] = [written[r] EXCEPT !.revision = revision']]
    BY <1>7 DEF SwitchBegins
  <2>6. written' \in [Requests -> Contexts \cup {None}]
    BY <2>4, <2>5, ItemType
  <2> QED BY <1>7, <2>1, <2>2, <2>6 DEF SwitchBegins, TypeOK, Replies
<1>8. CASE SwitchRefused(r)
  <2>1. Ty
    BY <1>8, FailType DEF SwitchRefused
  <2> QED BY <1>8, <2>1 DEF SwitchRefused, TypeOK, Replies
<1>9. CASE SwitchLands(r)
  <2>1. written[r] \in Contexts
    BY <1>9, ItemType DEF SwitchLands, Phases, PhaseOf
  <2>2. selection' \in Selections
    BY <1>9, <2>1 DEF SwitchLands, Selections, Contexts
  <2>3. Ty
    BY <1>9, GotoType, StepNames DEF SwitchLands
  <2> QED BY <1>9, <2>2, <2>3 DEF SwitchLands, TypeOK, Replies
<1>10. CASE SwitchEnds(r)
  <2>1. written[r] \in Contexts
    BY <1>10, ItemType DEF SwitchEnds, Phases, PhaseOf
  <2>2. Ty
    BY <1>10, GotoType, FailType, StepNames DEF SwitchEnds
  <2>3. \/ context' = context /\ queue' = queue
        \/ context' = [context EXCEPT ![r] = written[r]] /\ queue' = Append(queue, r)
    BY <1>10 DEF SwitchEnds
  <2>4. context' \in [Requests -> Contexts \cup {None}]
    BY <2>1, <2>3, ItemType
  <2>5. queue' \in Seq(Jobs)
    <3>1. r \in Jobs /\ queue \in Seq(Jobs)
      BY ItemType DEF Jobs
    <3> QED BY <2>3, <3>1, Enqueued
  <2> QED BY <1>10, <2>2, <2>4, <2>5 DEF SwitchEnds, TypeOK, Replies, Jobs
<1>11. CASE GrantReads(r)
  <2>1. Ty
    BY <1>11, GotoType, StepNames DEF GrantReads
  <2>2. local' \in [Requests -> Partial]
    BY <1>11, ChainRead, ItemType DEF GrantReads
  <2> QED BY <1>11, <2>1, <2>2 DEF GrantReads, TypeOK, Replies
<1>12. CASE GrantWrites(r)
  <2>1. Ty
    BY <1>12, AssertedType, StepNames DEF GrantWrites
  <2>2. queue # <<>>
    BY <1>12 DEF GrantWrites, HeadsWork, AtHead
  <2>3. queue' = queue \/ queue' = Tail(queue)
    BY <1>12 DEF GrantWrites
  <2>4. queue' \in Seq(Jobs)
    <3>1. queue \in Seq(Jobs)
      BY ItemType
    <3> QED BY <2>2, <2>3, <3>1, Dequeued
  <2> QED BY <1>12, <2>1, <2>4 DEF GrantWrites, TypeOK, Replies, Jobs
<1>13. CASE GrantLands(r)
  <2>1. local[r].account \in Accounts /\ local[r].chain \in Chains
    BY <1>13, ItemType DEF GrantLands, Phases, PhaseOf, Partial
  <2>2. granted' \in [Origins -> Permissions]
    BY <1>13, <2>1, GrantType DEF GrantLands, TypeOK
  <2>3. Ty
    BY <1>13, GotoType, StepNames DEF GrantLands
  <2>4. grantedBy' \in [Origins -> Requests \cup {None}]
    BY <1>13 DEF GrantLands, TypeOK
  <2> QED BY <1>13, <2>2, <2>3, <2>4 DEF GrantLands, TypeOK, Replies
<1>14. CASE GrantEnds(r)
  <2>1. Ty
    BY <1>14, AssertedType, StepNames DEF GrantEnds
  <2>2. queue # <<>>
    BY <1>14 DEF GrantEnds, HeadsWork, AtHead
  <2>3. queue' \in Seq(Jobs)
    BY <1>14, <2>2, Dequeued, ItemType DEF GrantEnds
  <2> QED BY <1>14, <2>1, <2>3 DEF GrantEnds, TypeOK, Replies, Jobs
<1>15. CASE ReadKey(r)
  <2>1. Ty
    BY <1>15, GotoType, FailType, StepNames DEF ReadKey
  <2>2. local' = local \/ local' = [local EXCEPT ![r].account = selection.account]
    BY <1>15 DEF ReadKey
  <2>3. local' \in [Requests -> Partial]
    <3>1. CASE local' = local
      BY <3>1, ItemType
    <3>2. CASE local' = [local EXCEPT ![r].account = selection.account]
      BY <3>2, AccountRead, ItemType
    <3> QED BY <2>2, <3>1, <3>2
  <2> QED BY <1>15, <2>1, <2>3 DEF ReadKey, TypeOK, Replies
<1>16. CASE ReadChain(r)
  <2>1. Ty
    BY <1>16, GotoType, StepNames DEF ReadChain
  <2>2. local' \in [Requests -> Partial]
    BY <1>16, ChainRead, ItemType DEF ReadChain
  <2> QED BY <1>16, <2>1, <2>2 DEF ReadChain, TypeOK, Replies
<1>17. CASE SignMessage(r)
  <2>1. Ty
    BY <1>17, AssertedType, StepNames DEF SignMessage
  <2>2. signature' \in [Requests -> Partial]
    BY <1>17, ItemType DEF SignMessage
  <2> QED BY <1>17, <2>1, <2>2 DEF SignMessage, TypeOK, Replies
<1>18. CASE AskNetwork(r)
  <2>1. Ty
    BY <1>18, GotoType, FailType, StepNames DEF AskNetwork
  <2> QED BY <1>18, <2>1 DEF AskNetwork, TypeOK, Replies
<1>19. CASE SignTransaction(r)
  <2>1. Ty
    BY <1>19, AssertedType, StepNames DEF SignTransaction
  <2>2. signature' \in [Requests -> Partial]
    BY <1>19, ItemType DEF SignTransaction
  <2> QED BY <1>19, <2>1, <2>2 DEF SignTransaction, TypeOK, Replies
<1>20. CASE Broadcast(r)
  <2>1. Ty
    BY <1>20, AssertedType, StepNames DEF Broadcast
  <2>2. sent' \subseteq Requests
    BY <1>20 DEF Broadcast, TypeOK
  <2> QED BY <1>20, <2>1, <2>2 DEF Broadcast, TypeOK, Replies
<1>21. CASE Finish(r)
  <2>1. Ty
    BY <1>21, AnswerType, ReplyNames DEF Finish
  <2> QED BY <1>21, <2>1 DEF Finish, TypeOK, Replies
<1> QED BY <1>1, <1>2, <1>3, <1>4, <1>5, <1>6, <1>7, <1>8, <1>9, <1>10, <1>11, <1>12, <1>13, <1>14,
           <1>15, <1>16, <1>17, <1>18, <1>19, <1>20, <1>21 DEF Executing

LEMMA TypeNext == TypeOK /\ Phases /\ HeadsWork /\ [Next]_vars => TypeOK'
<1> SUFFICES ASSUME TypeOK, Phases, HeadsWork, [Next]_vars PROVE TypeOK'
  OBVIOUS
<1> USE SigningAssumption
<1> USE DEF storage, session, items, users, history
<1> DEFINE Ty == step' \in [Requests -> Steps] /\ answer' \in [Requests -> Replies]
<1>1. ASSUME NEW r \in Requests, Open(r) PROVE TypeOK'
  <2>1. Ty
    BY <1>1, GotoType, StepNames DEF Open
  <2>2. context' \in [Requests -> Contexts \cup {None}]
    BY <1>1, CurrentType, ItemType DEF Open
  <2> QED BY <1>1, <2>1, <2>2 DEF Open, TypeOK, Replies
<1>2. ASSUME NEW r \in Requests, Approve(r) PROVE TypeOK'
  <2>1. Ty
    BY <1>2, GotoType, AnswerType, StepNames, ReplyNames DEF Approve
  <2>2. revokedFirst' \in [Requests -> SUBSET Origins] /\ waitedFor' \in [Requests -> SUBSET Origins]
    BY <1>2 DEF Approve, TypeOK
  <2> QED BY <1>2, <2>1, <2>2 DEF Approve, TypeOK, Replies
<1>4. CASE Lock
  <2>1. Ty /\ revision' \in Nat /\ disturbed' \subseteq Requests
    BY <1>4, CancelType, ChangeType DEF Lock
  <2>2. unlock' \in [running : BOOLEAN, revision : Nat, overtaken : BOOLEAN]
    BY <1>4 DEF Lock, TypeOK
  <2> QED BY <1>4, <2>1, <2>2 DEF Lock, TypeOK, Replies
<1>5. CASE UnlockBegins
  BY <1>5 DEF UnlockBegins, TypeOK
<1>6. CASE UnlockEnds
  <2>1. unlock' \in [running : BOOLEAN, revision : Nat, overtaken : BOOLEAN]
    BY <1>6 DEF UnlockEnds, TypeOK
  <2>2. unlocked' \in BOOLEAN
    BY <1>6, Zenon DEF UnlockEnds
  <2> QED BY <1>6, <2>1, <2>2 DEF UnlockEnds, TypeOK
<1>7. ASSUME NEW next \in Selections, SelectReads(next) PROVE TypeOK'
  <2>1. select' \in [step : {"idle", "read", "write"}, next : Selections]
    BY <1>7 DEF SelectReads
  <2> QED BY <1>7, <2>1 DEF SelectReads, TypeOK
<1>8. CASE SelectBegins
  <2>1. Ty /\ revision' \in Nat /\ disturbed' \subseteq Requests
    BY <1>8, CancelType, ChangeType DEF SelectBegins
  <2>2. select' \in [step : {"idle", "read", "write"}, next : Selections]
    BY <1>8 DEF SelectBegins, TypeOK
  <2> QED BY <1>8, <2>1, <2>2 DEF SelectBegins, TypeOK, Replies
<1>9. CASE SelectLands
  <2>1. select' \in [step : {"idle", "read", "write"}, next : Selections]
    BY <1>9 DEF SelectLands, TypeOK
  <2> QED BY <1>9, <2>1 DEF SelectLands, TypeOK
<1>10. ASSUME NEW o \in Origins, RevokeBegins(o) PROVE TypeOK'
  <2>1. Ty /\ revision' \in Nat /\ disturbed' \subseteq Requests
    BY <1>10, CancelType, ChangeType DEF RevokeBegins
  <2>2. queue' \in Seq(Jobs)
    BY <1>10, Enqueued, ItemType DEF RevokeBegins, Jobs, TypeOK
  <2>3. revoke' \in [Origins -> {"none", "queued", "write", "done"}]
    BY <1>10 DEF RevokeBegins, TypeOK
  <2> QED BY <1>10, <2>1, <2>2, <2>3 DEF RevokeBegins, TypeOK, Replies, Jobs
<1>11. ASSUME NEW o \in Origins, RevokeReads(o) PROVE TypeOK'
  <2>1. queue # <<>> /\ (queue' = queue \/ queue' = Tail(queue))
    BY <1>11 DEF RevokeReads, AtHead
  <2>2. queue' \in Seq(Jobs)
    <3>1. queue \in Seq(Jobs)
      BY DEF TypeOK, Jobs
    <3> QED BY <2>1, <3>1, Dequeued
  <2>3. revoke' \in [Origins -> {"none", "queued", "write", "done"}]
    <3>1. revoke' = [revoke EXCEPT ![o] = "done"] \/ revoke' = [revoke EXCEPT ![o] = "write"]
      BY <1>11 DEF RevokeReads
    <3>2. revoke \in [Origins -> {"none", "queued", "write", "done"}]
      BY DEF TypeOK
    <3> QED BY <3>1, <3>2
  <2> QED BY <1>11, <2>2, <2>3 DEF RevokeReads, TypeOK, Jobs
<1>12. ASSUME NEW o \in Origins, RevokeLands(o) PROVE TypeOK'
  <2>1. queue # <<>> /\ queue' = Tail(queue)
    BY <1>12 DEF RevokeLands, HeadsWork, AtHead
  <2>2. queue' \in Seq(Jobs)
    BY <2>1, Dequeued DEF TypeOK, Jobs
  <2>3. granted' \in [Origins -> Permissions] /\ revoke' \in [Origins -> {"none", "queued", "write", "done"}]
    BY <1>12 DEF RevokeLands, TypeOK, Permissions
  <2> QED BY <1>12, <2>2, <2>3 DEF RevokeLands, TypeOK, Jobs
<1>13. CASE UNCHANGED vars
  BY <1>13 DEF vars, TypeOK
<1> QED BY <1>1, <1>2, <1>4, <1>5, <1>6, <1>7, <1>8, <1>9, <1>10, <1>11, <1>12, <1>13,
           ViewType, ExecutionType DEF Next, Revoking

-----------------------------------------------------------------------------
(* What a step spares.                                                      *)

\* A step of somebody else: it may decline a request that waits, and no more.
Unmoved(q) ==
    /\ step'[q] = step[q] \/ (step[q] = "pending" /\ step'[q] = "cancelled")
    /\ context'[q] = context[q] /\ view'[q] = view[q] /\ prepared'[q] = prepared[q]
    /\ local'[q] = local[q] /\ written'[q] = written[q]
    /\ signature'[q] = signature[q]
    /\ revokedFirst'[q] = revokedFirst[q] /\ waitedFor'[q] = waitedFor[q]
    /\ q \in sent' <=> q \in sent
    /\ answer'[q] = answer[q] \/ answer'[q] = "declined"

LEMMA CancelSpares ==
  ASSUME TypeOK, CancelPending, NEW q \in Requests
  PROVE  /\ step'[q] = step[q] \/ (step[q] = "pending" /\ step'[q] = "cancelled")
         /\ answer'[q] = answer[q] \/ answer'[q] = "declined"
BY DEF CancelPending, Cancelled

LEMMA ReplySpares ==
  ASSUME TypeOK, NEW r \in Requests, NEW q \in Requests, q # r,
         \/ \E next \in Steps : Goto(r, next)
         \/ \E reply \in Replies : Answer(r, reply)
  PROVE  step'[q] = step[q] /\ answer'[q] = answer[q]
BY ItemType DEF Goto, Answer

LEMMA AssertedMoves ==
  ASSUME NEW r \in Requests, NEW next \in Steps, Asserted(r, next)
  PROVE  (\E n \in Steps : Goto(r, n)) \/ (\E reply \in Replies : Answer(r, reply))
BY ReplyNames DEF Asserted

LEMMA FailMoves ==
  ASSUME NEW r \in Requests, Fail(r)
  PROVE  \E reply \in Replies : Answer(r, reply)
BY ReplyNames DEF Fail

LEMMA ExecutionSpares ==
  ASSUME TypeOK, NEW r \in Requests, Executing(r), NEW q \in Requests, q # r
  PROVE  Unmoved(q)
<1> USE DEF storage, session, users, history, Segment
<1> DEFINE Moved == (\E next \in Steps : Goto(r, next)) \/ (\E reply \in Replies : Answer(r, reply))
<1> DEFINE Still == step'[q] = step[q] /\ answer'[q] = answer[q]
<1>0. Moved => Still
  BY ReplySpares
<1>a. /\ local \in [Requests -> Partial] /\ signature \in [Requests -> Partial]
      /\ context \in [Requests -> Contexts \cup {None}] /\ written \in [Requests -> Contexts \cup {None}]
  BY ItemType
<1> HIDE DEF Moved, Still
<1>1. CASE Verify(r)
  <2>1. Moved BY <1>1, StepNames, AssertedMoves, FailMoves DEF Verify, Moved
  <2> QED BY <1>1, <2>1, <1>0 DEF Verify, Unmoved, Still
<1>2. CASE ReadAccount(r)
  <2>1. Moved BY <1>2, StepNames, FailMoves DEF ReadAccount, Moved
  <2>2. local' = local \/ local' = [local EXCEPT ![r].account = selection.account]
    BY <1>2 DEF ReadAccount
  <2>3. local'[q] = local[q]
    BY <2>2, <1>a
  <2> QED BY <1>2, <2>1, <2>3, <1>0 DEF ReadAccount, Unmoved, Still
<1>3. CASE ReadNetwork(r)
  <2>1. Moved BY <1>3, StepNames DEF ReadNetwork, Moved
  <2>2. local'[q] = local[q]
    BY <1>3, <1>a DEF ReadNetwork
  <2> QED BY <1>3, <2>1, <2>2, <1>0 DEF ReadNetwork, Unmoved, Still
<1>4. CASE CheckPermission(r)
  <2>1. Moved BY <1>4, StepNames, FailMoves DEF CheckPermission, Moved
  <2> QED BY <1>4, <2>1, <1>0 DEF CheckPermission, Unmoved, Still
<1>5. CASE Permitted(r)
  <2>1. Moved BY <1>5, StepNames, AssertedMoves DEF Permitted, Moved
  <2> QED BY <1>5, <2>1, <1>0 DEF Permitted, Unmoved, Still
<1>6. CASE SwitchReads(r)
  <2>1. Moved BY <1>6, StepNames DEF SwitchReads, Moved
  <2>2. written'[q] = written[q]
    BY <1>6, <1>a DEF SwitchReads
  <2> QED BY <1>6, <2>1, <2>2, <1>0 DEF SwitchReads, Unmoved, Still
<1>7. CASE SwitchBegins(r)
  <2>1. step'[q] = step[q] \/ (step[q] = "pending" /\ step'[q] = "cancelled")
    BY <1>7 DEF SwitchBegins, Cancelled
  <2>2. answer'[q] = answer[q] \/ answer'[q] = "declined"
    BY <1>7 DEF SwitchBegins
  <2>3. written'[q] = written[q]
    BY <1>7, <1>a DEF SwitchBegins
  <2> QED BY <1>7, <2>1, <2>2, <2>3 DEF SwitchBegins, Unmoved
<1>8. CASE SwitchRefused(r)
  <2>1. Moved BY <1>8, FailMoves DEF SwitchRefused, Moved
  <2> QED BY <1>8, <2>1, <1>0 DEF SwitchRefused, Unmoved, Still
<1>9. CASE SwitchLands(r)
  <2>1. Moved BY <1>9, StepNames DEF SwitchLands, Moved
  <2> QED BY <1>9, <2>1, <1>0 DEF SwitchLands, Unmoved, Still
<1>10. CASE SwitchEnds(r)
  <2>1. Moved BY <1>10, StepNames, FailMoves DEF SwitchEnds, Moved
  <2>2. context' = context \/ context' = [context EXCEPT ![r] = written[r]]
    BY <1>10 DEF SwitchEnds
  <2>3. context'[q] = context[q]
    BY <2>2, <1>a
  <2> QED BY <1>10, <2>1, <2>3, <1>0 DEF SwitchEnds, Unmoved, Still
<1>11. CASE GrantReads(r)
  <2>1. Moved BY <1>11, StepNames DEF GrantReads, Moved
  <2>2. local'[q] = local[q]
    BY <1>11, <1>a DEF GrantReads
  <2> QED BY <1>11, <2>1, <2>2, <1>0 DEF GrantReads, Unmoved, Still
<1>12. CASE GrantWrites(r)
  <2>1. Moved BY <1>12, StepNames, AssertedMoves DEF GrantWrites, Moved
  <2> QED BY <1>12, <2>1, <1>0 DEF GrantWrites, Unmoved, Still
<1>13. CASE GrantLands(r)
  <2>1. Moved BY <1>13, StepNames DEF GrantLands, Moved
  <2> QED BY <1>13, <2>1, <1>0 DEF GrantLands, Unmoved, Still
<1>14. CASE GrantEnds(r)
  <2>1. Moved BY <1>14, StepNames, AssertedMoves DEF GrantEnds, Moved
  <2> QED BY <1>14, <2>1, <1>0 DEF GrantEnds, Unmoved, Still
<1>15. CASE ReadKey(r)
  <2>1. Moved BY <1>15, StepNames, FailMoves DEF ReadKey, Moved
  <2>2. local' = local \/ local' = [local EXCEPT ![r].account = selection.account]
    BY <1>15 DEF ReadKey
  <2>3. local'[q] = local[q]
    BY <2>2, <1>a
  <2> QED BY <1>15, <2>1, <2>3, <1>0 DEF ReadKey, Unmoved, Still
<1>16. CASE ReadChain(r)
  <2>1. Moved BY <1>16, StepNames DEF ReadChain, Moved
  <2>2. local'[q] = local[q]
    BY <1>16, <1>a DEF ReadChain
  <2> QED BY <1>16, <2>1, <2>2, <1>0 DEF ReadChain, Unmoved, Still
<1>17. CASE SignMessage(r)
  <2>1. Moved BY <1>17, StepNames, AssertedMoves DEF SignMessage, Moved
  <2>2. signature'[q] = signature[q]
    BY <1>17, <1>a DEF SignMessage
  <2> QED BY <1>17, <2>1, <2>2, <1>0 DEF SignMessage, Unmoved, Still
<1>18. CASE AskNetwork(r)
  <2>1. Moved BY <1>18, StepNames, FailMoves DEF AskNetwork, Moved
  <2> QED BY <1>18, <2>1, <1>0 DEF AskNetwork, Unmoved, Still
<1>19. CASE SignTransaction(r)
  <2>1. Moved BY <1>19, StepNames, AssertedMoves DEF SignTransaction, Moved
  <2>2. signature'[q] = signature[q]
    BY <1>19, <1>a DEF SignTransaction
  <2> QED BY <1>19, <2>1, <2>2, <1>0 DEF SignTransaction, Unmoved, Still
<1>20. CASE Broadcast(r)
  <2>1. Moved BY <1>20, StepNames, AssertedMoves DEF Broadcast, Moved
  <2>2. q \in sent' <=> q \in sent
    BY <1>20 DEF Broadcast
  <2> QED BY <1>20, <2>1, <2>2, <1>0 DEF Broadcast, Unmoved, Still
<1>21. CASE Finish(r)
  <2>1. Moved BY <1>21, ReplyNames DEF Finish, Moved
  <2> QED BY <1>21, <2>1, <1>0 DEF Finish, Unmoved, Still
<1> QED BY <1>1, <1>2, <1>3, <1>4, <1>5, <1>6, <1>7, <1>8, <1>9, <1>10, <1>11, <1>12, <1>13, <1>14,
           <1>15, <1>16, <1>17, <1>18, <1>19, <1>20, <1>21 DEF Executing

\* The user, the alarm and the revocations: everything that is not a request's step.
Around ==
    \/ Lock \/ UnlockBegins \/ UnlockEnds
    \/ (\E next \in Selections : SelectReads(next)) \/ SelectBegins \/ SelectLands
    \/ (\E o \in Origins : RevokeBegins(o) \/ Revoking(o))
    \/ UNCHANGED vars

Own(q) == Open(q) \/ Viewing(q) \/ Approve(q) \/ Executing(q)

LEMMA AroundSpares ==
  ASSUME TypeOK, Around, NEW q \in Requests
  PROVE  Unmoved(q)
<1> USE DEF storage, session, items, users, history
<1>1. CASE Lock BY <1>1, CancelSpares DEF Lock, Unmoved
<1>2. CASE UnlockBegins BY <1>2 DEF UnlockBegins, Unmoved
<1>3. CASE UnlockEnds BY <1>3 DEF UnlockEnds, Unmoved
<1>4. ASSUME NEW next \in Selections, SelectReads(next) PROVE Unmoved(q)
  BY <1>4 DEF SelectReads, Unmoved
<1>5. CASE SelectBegins BY <1>5, CancelSpares DEF SelectBegins, Unmoved
<1>6. CASE SelectLands BY <1>6 DEF SelectLands, Unmoved
<1>7. ASSUME NEW o \in Origins, RevokeBegins(o) PROVE Unmoved(q)
  BY <1>7, CancelSpares DEF RevokeBegins, Unmoved
<1>8. ASSUME NEW o \in Origins, RevokeReads(o) PROVE Unmoved(q)
  BY <1>8 DEF RevokeReads, Unmoved
<1>9. ASSUME NEW o \in Origins, RevokeLands(o) PROVE Unmoved(q)
  BY <1>9 DEF RevokeLands, Unmoved
<1>10. CASE UNCHANGED vars BY <1>10 DEF vars, Unmoved
<1> QED BY <1>1, <1>2, <1>3, <1>4, <1>5, <1>6, <1>7, <1>8, <1>9, <1>10 DEF Around, Revoking

LEMMA ViewSpares ==
  ASSUME TypeOK, NEW r \in Requests, Viewing(r), NEW q \in Requests, q # r
  PROVE  Unmoved(q)
<1> USE DEF storage, session, users, history
<1>1. view \in [Requests -> {"none", "chain", "account", "check", "shown"}] /\ prepared \in [Requests -> Partial]
  BY DEF TypeOK
<1>2. CASE ViewBegins(r) BY <1>1, <1>2 DEF ViewBegins, View, Unmoved
<1>3. CASE ViewReadsChain(r) BY <1>1, <1>3 DEF ViewReadsChain, View, Unmoved
<1>4. CASE ViewReadsAccount(r) BY <1>1, <1>4 DEF ViewReadsAccount, View, Unmoved
<1>5. CASE ViewLocked(r) BY <1>1, <1>5 DEF ViewLocked, View, Unmoved
<1>6. CASE ViewEnds(r) BY <1>1, <1>6 DEF ViewEnds, View, Unmoved
<1> QED BY <1>2, <1>3, <1>4, <1>5, <1>6 DEF Viewing

\* Every step is a request's own, or spares it.
LEMMA OwnOrUnmoved ==
  ASSUME TypeOK, [Next]_vars, NEW q \in Requests
  PROVE  Own(q) \/ Unmoved(q)
<1>1. CASE Around
  BY <1>1, AroundSpares
<1>2. ASSUME NEW r \in Requests, r # q, Own(r) PROVE Unmoved(q)
  <2> USE DEF storage, session, items, users, history
  <2>1. CASE Open(r)
    <3>1. step'[q] = step[q] /\ answer'[q] = answer[q]
      BY <2>1, <1>2, ReplySpares, StepNames DEF Open
    <3> QED BY <2>1, <1>2, <3>1, ItemType DEF Open, Unmoved
  <2>2. CASE Viewing(r)
    BY <2>2, <1>2, ViewSpares
  <2>3. CASE Approve(r)
    <3>1. step'[q] = step[q] /\ answer'[q] = answer[q]
      BY <2>3, <1>2, ReplySpares, StepNames, ReplyNames DEF Approve
    <3>2. revokedFirst'[q] = revokedFirst[q] /\ waitedFor'[q] = waitedFor[q]
      BY <2>3, <1>2 DEF Approve, TypeOK
    <3> QED BY <2>3, <3>1, <3>2 DEF Approve, Unmoved
  <2>4. CASE Executing(r)
    BY <2>4, <1>2, ExecutionSpares
  <2> QED BY <1>2, <2>1, <2>2, <2>3, <2>4 DEF Own
<1>3. Around \/ \E r \in Requests : Own(r)
  BY DEF Around, Own, Next
<1> QED BY <1>1, <1>2, <1>3

-----------------------------------------------------------------------------
(* Where the steps of a request take it.                                    *)

\* From where to where the own steps of a request take it.
Went(r, from, to) == step[r] = from /\ step'[r] \in to

LEMMA GotoWent ==
  ASSUME TypeOK, NEW r \in Requests, NEW next, Goto(r, next)
  PROVE  step'[r] = next /\ answer'[r] = answer[r]
BY ItemType DEF Goto

LEMMA AnswerWent ==
  ASSUME TypeOK, NEW r \in Requests, NEW reply, Answer(r, reply)
  PROVE  step'[r] = "over" /\ answer'[r] = reply
BY ItemType DEF Answer

LEMMA FailWent ==
  ASSUME TypeOK, NEW r \in Requests, Fail(r)
  PROVE  step'[r] = "over" /\ answer'[r] = "error"
BY AnswerWent DEF Fail

LEMMA AssertedWent ==
  ASSUME TypeOK, NEW r \in Requests, NEW next, Asserted(r, next)
  PROVE  \/ ContextHolds(r) /\ step'[r] = next /\ answer'[r] = answer[r]
         \/ ~ContextHolds(r) /\ step'[r] = "over" /\ answer'[r] = "error"
BY GotoWent, AnswerWent DEF Asserted

\* The steps of an execution, each with where it takes the request.
LEMMA Moves ==
  ASSUME TypeOK, NEW r \in Requests
  PROVE  /\ Verify(r) => Went(r, "approved", {"account", "over"})
         /\ ReadAccount(r) => Went(r, "account", IF Kind[r] = "connect" THEN {"queued", "over"}
                                                 ELSE {"network", "over"})
         /\ ReadNetwork(r) => Went(r, "network", {"permission"})
         /\ CheckPermission(r) => Went(r, "permission", {"permitted", "over"})
         /\ Permitted(r) => Went(r, "permitted", IF Kind[r] = "switch" THEN {"switch", "over"}
                                                 ELSE {"key", "over"})
         /\ SwitchReads(r) => Went(r, "switch", {"switchRead"})
         /\ SwitchBegins(r) => Went(r, "switchRead", {"switchWrite"})
         /\ SwitchRefused(r) => Went(r, "switchRead", {"over"})
         /\ SwitchLands(r) => Went(r, "switchWrite", {"switched"})
         /\ SwitchEnds(r) => Went(r, "switched", {"queued", "over"})
         /\ GrantReads(r) => Went(r, "queued", {"granting"})
         /\ GrantWrites(r) => Went(r, "granting", {"grantWrite", "over"})
         /\ GrantLands(r) => Went(r, "grantWrite", {"granted"})
         /\ GrantEnds(r) => Went(r, "granted", {"finish", "over"})
         /\ ReadKey(r) => Went(r, "key", {"chain", "over"})
         /\ ReadChain(r) => Went(r, "chain", {"ready"})
         /\ SignMessage(r) => Kind[r] = "sign" /\ Went(r, "ready", {"finish", "over"})
         /\ AskNetwork(r) => Kind[r] = "send" /\ Went(r, "ready", {"checked", "over"})
         /\ SignTransaction(r) => Went(r, "checked", {"signed", "over"})
         /\ Broadcast(r) => Went(r, "signed", {"finish", "over"})
         /\ Finish(r) => Went(r, "finish", {"over"})
<1> USE GotoWent, AnswerWent, FailWent, AssertedWent DEF Went, Segment
<1>1. Verify(r) => Went(r, "approved", {"account", "over"})
  BY DEF Verify
<1>2. ReadAccount(r) => Went(r, "account", IF Kind[r] = "connect" THEN {"queued", "over"}
                                           ELSE {"network", "over"})
  BY DEF ReadAccount
<1>3. ReadNetwork(r) => Went(r, "network", {"permission"})
  BY DEF ReadNetwork
<1>4. CheckPermission(r) => Went(r, "permission", {"permitted", "over"})
  BY DEF CheckPermission
<1>5. Permitted(r) => Went(r, "permitted", IF Kind[r] = "switch" THEN {"switch", "over"}
                                           ELSE {"key", "over"})
  BY DEF Permitted
<1>6. SwitchReads(r) => Went(r, "switch", {"switchRead"})
  BY DEF SwitchReads
<1>7. SwitchBegins(r) => Went(r, "switchRead", {"switchWrite"})
  BY CancelledType DEF SwitchBegins
<1>8. SwitchRefused(r) => Went(r, "switchRead", {"over"})
  BY DEF SwitchRefused
<1>9. SwitchLands(r) => Went(r, "switchWrite", {"switched"})
  BY DEF SwitchLands
<1>10. SwitchEnds(r) => Went(r, "switched", {"queued", "over"})
  BY DEF SwitchEnds
<1>11. GrantReads(r) => Went(r, "queued", {"granting"})
  BY DEF GrantReads
<1>12. GrantWrites(r) => Went(r, "granting", {"grantWrite", "over"})
  BY DEF GrantWrites
<1>13. GrantLands(r) => Went(r, "grantWrite", {"granted"})
  BY DEF GrantLands
<1>14. GrantEnds(r) => Went(r, "granted", {"finish", "over"})
  BY DEF GrantEnds
<1>15. ReadKey(r) => Went(r, "key", {"chain", "over"})
  BY DEF ReadKey
<1>16. ReadChain(r) => Went(r, "chain", {"ready"})
  BY DEF ReadChain
<1>17. SignMessage(r) => Kind[r] = "sign" /\ Went(r, "ready", {"finish", "over"})
  BY DEF SignMessage
<1>18. AskNetwork(r) => Kind[r] = "send" /\ Went(r, "ready", {"checked", "over"})
  BY DEF AskNetwork
<1>19. SignTransaction(r) => Went(r, "checked", {"signed", "over"})
  BY DEF SignTransaction
<1>20. Broadcast(r) => Went(r, "signed", {"finish", "over"})
  BY DEF Broadcast
<1>21. Finish(r) => Went(r, "finish", {"over"})
  BY DEF Finish
<1> QED BY <1>1, <1>2, <1>3, <1>4, <1>5, <1>6, <1>7, <1>8, <1>9, <1>10, <1>11, <1>12, <1>13, <1>14,
           <1>15, <1>16, <1>17, <1>18, <1>19, <1>20, <1>21

\* Before the decision.
LEMMA EarlyMoves ==
  ASSUME TypeOK, NEW r \in Requests
  PROVE  /\ Open(r) => /\ Went(r, "idle", {"pending"}) /\ context'[r] = Current
                       /\ view'[r] = view[r] /\ local'[r] = local[r] /\ written'[r] = written[r]
         /\ Approve(r) => /\ Went(r, "pending", {"approved", "over"}) /\ view[r] = "shown"
                          /\ UNCHANGED <<context, view, prepared, local, written>>
         /\ Viewing(r) => UNCHANGED <<step, context, local, written>>
<1> USE DEF storage, session, users, history
<1>1. Open(r) => /\ Went(r, "idle", {"pending"}) /\ context'[r] = Current
                 /\ view'[r] = view[r] /\ local'[r] = local[r] /\ written'[r] = written[r]
  BY GotoWent, ItemType DEF Open, Went
<1>2. Approve(r) => /\ Went(r, "pending", {"approved", "over"}) /\ view[r] = "shown"
                    /\ UNCHANGED <<context, view, prepared, local, written>>
  BY GotoWent, AnswerWent DEF Approve, Went
<1>3. Viewing(r) => UNCHANGED <<step, context, local, written>>
  BY DEF Viewing, View, ViewBegins, ViewReadsChain, ViewReadsAccount, ViewLocked, ViewEnds
<1> QED BY <1>1, <1>2, <1>3

LEMMA PhasesInit == Init => Phases
<1> SUFFICES ASSUME Init, NEW r \in Requests PROVE PhaseOf(r)
  BY DEF Phases
<1>1. step[r] = "idle" /\ view[r] = "none"
  BY DEF Init
<1> QED BY <1>1 DEF PhaseOf, Undecided

\* What an execution's step does with what the request has read.
ReadsOnce(r) ==
    /\ \/ local'[r] = local[r]
       \/ /\ local'[r].account = selection.account /\ local'[r].chain = local[r].chain
          /\ ReadAccount(r) \/ ReadKey(r)
       \/ /\ local'[r].chain = selection.chain /\ local'[r].account = local[r].account
          /\ ReadNetwork(r) \/ GrantReads(r) \/ ReadChain(r)
    /\ \/ context'[r] = context[r]
       \/ context'[r] = written[r] /\ SwitchEnds(r)
    /\ \/ written'[r] = written[r]
       \/ SwitchReads(r) /\ written'[r] \in Contexts
       \/ SwitchBegins(r) /\ written'[r] = [written[r] EXCEPT !.revision = revision']
    /\ ReadAccount(r) \/ ReadKey(r) =>
         step'[r] = "over" \/ local'[r].account = selection.account
    /\ ReadNetwork(r) \/ GrantReads(r) \/ ReadChain(r) => local'[r].chain = selection.chain
    /\ SwitchReads(r) => written'[r] \in Contexts

LEMMA Reads ==
  ASSUME TypeOK, NEW r \in Requests, Executing(r)
  PROVE  ReadsOnce(r)
<1> USE Moves DEF Segment, Went
<1>0. /\ local \in [Requests -> Partial] /\ context \in [Requests -> Contexts \cup {None}]
      /\ written \in [Requests -> Contexts \cup {None}]
      /\ selection.account \in Accounts /\ selection.chain \in Chains
  BY ItemType
<1>1. CASE Verify(r) BY <1>1 DEF Verify, ReadsOnce
<1>2. CASE ReadAccount(r)
  <2>1. (local' = local /\ step'[r] = "over") \/ local' = [local EXCEPT ![r].account = selection.account]
    BY <1>2, FailWent DEF ReadAccount
  <2>2. \/ local'[r] = local[r] /\ step'[r] = "over"
        \/ local'[r].account = selection.account /\ local'[r].chain = local[r].chain
    <3>1. CASE local' = local /\ step'[r] = "over"
      BY <3>1
    <3>2. CASE local' = [local EXCEPT ![r].account = selection.account]
      BY <3>2, <1>0, AccountRead
    <3> QED BY <2>1, <3>1, <3>2
  <2> QED BY <1>2, <2>2 DEF ReadAccount, ReadsOnce
<1>3. CASE ReadNetwork(r)
  <2>1. local' = [local EXCEPT ![r].chain = selection.chain]
    BY <1>3 DEF ReadNetwork
  <2>2. local'[r].chain = selection.chain /\ local'[r].account = local[r].account
    BY <2>1, <1>0, ChainRead
  <2> QED BY <1>3, <2>2 DEF ReadNetwork, ReadsOnce
<1>4. CASE CheckPermission(r) BY <1>4 DEF CheckPermission, ReadsOnce
<1>5. CASE Permitted(r) BY <1>5 DEF Permitted, ReadsOnce
<1>6. CASE SwitchReads(r)
  <2>1. [Current EXCEPT !.chain = TargetOf[r]] \in Contexts
    BY CurrentType, SigningAssumption DEF Contexts
  <2>2. written'[r] \in Contexts
    BY <1>6, <2>1, <1>0 DEF SwitchReads
  <2> QED BY <1>6, <2>2 DEF SwitchReads, ReadsOnce
<1>7. CASE SwitchBegins(r)
  <2>1. written'[r] = [written[r] EXCEPT !.revision = revision']
    BY <1>7, <1>0 DEF SwitchBegins
  <2> QED BY <1>7, <2>1 DEF SwitchBegins, ReadsOnce
<1>8. CASE SwitchRefused(r) BY <1>8 DEF SwitchRefused, ReadsOnce
<1>9. CASE SwitchLands(r) BY <1>9 DEF SwitchLands, ReadsOnce
<1>10. CASE SwitchEnds(r)
  <2>1. context' = context \/ context' = [context EXCEPT ![r] = written[r]]
    BY <1>10 DEF SwitchEnds
  <2>2. context'[r] = context[r] \/ context'[r] = written[r]
    BY <2>1, <1>0
  <2> QED BY <1>10, <2>2 DEF SwitchEnds, ReadsOnce
<1>11. CASE GrantReads(r)
  <2>1. local' = [local EXCEPT ![r].chain = selection.chain]
    BY <1>11 DEF GrantReads
  <2>2. local'[r].chain = selection.chain /\ local'[r].account = local[r].account
    BY <2>1, <1>0, ChainRead
  <2> QED BY <1>11, <2>2 DEF GrantReads, ReadsOnce
<1>12. CASE GrantWrites(r) BY <1>12 DEF GrantWrites, ReadsOnce
<1>13. CASE GrantLands(r) BY <1>13 DEF GrantLands, ReadsOnce
<1>14. CASE GrantEnds(r) BY <1>14 DEF GrantEnds, ReadsOnce
<1>15. CASE ReadKey(r)
  <2>1. (local' = local /\ step'[r] = "over") \/ local' = [local EXCEPT ![r].account = selection.account]
    BY <1>15, FailWent DEF ReadKey
  <2>2. \/ local'[r] = local[r] /\ step'[r] = "over"
        \/ local'[r].account = selection.account /\ local'[r].chain = local[r].chain
    <3>1. CASE local' = local /\ step'[r] = "over"
      BY <3>1
    <3>2. CASE local' = [local EXCEPT ![r].account = selection.account]
      BY <3>2, <1>0, AccountRead
    <3> QED BY <2>1, <3>1, <3>2
  <2> QED BY <1>15, <2>2 DEF ReadKey, ReadsOnce
<1>16. CASE ReadChain(r)
  <2>1. local' = [local EXCEPT ![r].chain = selection.chain]
    BY <1>16 DEF ReadChain
  <2>2. local'[r].chain = selection.chain /\ local'[r].account = local[r].account
    BY <2>1, <1>0, ChainRead
  <2> QED BY <1>16, <2>2 DEF ReadChain, ReadsOnce
<1>17. CASE SignMessage(r) BY <1>17 DEF SignMessage, ReadsOnce
<1>18. CASE AskNetwork(r) BY <1>18 DEF AskNetwork, ReadsOnce
<1>19. CASE SignTransaction(r) BY <1>19 DEF SignTransaction, ReadsOnce
<1>20. CASE Broadcast(r) BY <1>20 DEF Broadcast, ReadsOnce
<1>21. CASE Finish(r) BY <1>21 DEF Finish, ReadsOnce
<1> QED BY <1>1, <1>2, <1>3, <1>4, <1>5, <1>6, <1>7, <1>8, <1>9, <1>10, <1>11,
           <1>12, <1>13, <1>14, <1>15, <1>16, <1>17, <1>18, <1>19, <1>20, <1>21 DEF Executing

\* What an execution's step changes outside the request.
Leaves(r) ==
    /\ select' = select /\ revoke' = revoke /\ unlocked' = unlocked /\ unlock' = unlock
    /\ view' = view /\ prepared' = prepared
    /\ revokedFirst' = revokedFirst /\ waitedFor' = waitedFor
    /\ (revision' = revision /\ disturbed' = disturbed) \/ SwitchBegins(r)
    /\ selection' = selection \/ SwitchLands(r)
    /\ (granted' = granted /\ grantedBy' = grantedBy) \/ GrantLands(r)
    /\ \/ queue' = queue
       \/ queue' = Append(queue, r) /\ (ReadAccount(r) \/ SwitchEnds(r)) /\ step'[r] = "queued"
       \/ queue' = Tail(queue) /\ GrantWrites(r) /\ step'[r] = "over"
       \/ queue' = Tail(queue) /\ GrantEnds(r)

LEMMA Frame ==
  ASSUME TypeOK, NEW r \in Requests, Executing(r)
  PROVE  Leaves(r)
<1> USE DEF storage, session, users, history, Segment
<1>1. CASE Verify(r) BY <1>1 DEF Verify, Leaves
<1>2. CASE ReadAccount(r)
  <2>1. queue' = queue \/ (queue' = Append(queue, r) /\ step'[r] = "queued")
    BY <1>2, GotoWent DEF ReadAccount
  <2> QED BY <1>2, <2>1 DEF ReadAccount, Leaves
<1>3. CASE ReadNetwork(r) BY <1>3 DEF ReadNetwork, Leaves
<1>4. CASE CheckPermission(r) BY <1>4 DEF CheckPermission, Leaves
<1>5. CASE Permitted(r) BY <1>5 DEF Permitted, Leaves
<1>6. CASE SwitchReads(r) BY <1>6 DEF SwitchReads, Leaves
<1>7. CASE SwitchBegins(r) BY <1>7 DEF SwitchBegins, Leaves
<1>8. CASE SwitchRefused(r) BY <1>8 DEF SwitchRefused, Leaves
<1>9. CASE SwitchLands(r) BY <1>9 DEF SwitchLands, Leaves
<1>10. CASE SwitchEnds(r)
  <2>1. queue' = queue \/ (queue' = Append(queue, r) /\ step'[r] = "queued")
    BY <1>10, GotoWent DEF SwitchEnds
  <2> QED BY <1>10, <2>1 DEF SwitchEnds, Leaves
<1>11. CASE GrantReads(r) BY <1>11 DEF GrantReads, Leaves
<1>12. CASE GrantWrites(r)
  <2>1. queue' = queue \/ (queue' = Tail(queue) /\ step'[r] = "over")
    BY <1>12, AssertedWent DEF GrantWrites
  <2> QED BY <1>12, <2>1 DEF GrantWrites, Leaves
<1>13. CASE GrantLands(r) BY <1>13 DEF GrantLands, Leaves
<1>14. CASE GrantEnds(r) BY <1>14 DEF GrantEnds, Leaves
<1>15. CASE ReadKey(r) BY <1>15 DEF ReadKey, Leaves
<1>16. CASE ReadChain(r) BY <1>16 DEF ReadChain, Leaves
<1>17. CASE SignMessage(r) BY <1>17 DEF SignMessage, Leaves
<1>18. CASE AskNetwork(r) BY <1>18 DEF AskNetwork, Leaves
<1>19. CASE SignTransaction(r) BY <1>19 DEF SignTransaction, Leaves
<1>20. CASE Broadcast(r) BY <1>20 DEF Broadcast, Leaves
<1>21. CASE Finish(r) BY <1>21 DEF Finish, Leaves
<1> QED BY <1>1, <1>2, <1>3, <1>4, <1>5, <1>6, <1>7, <1>8, <1>9, <1>10, <1>11,
           <1>12, <1>13, <1>14, <1>15, <1>16, <1>17, <1>18, <1>19, <1>20, <1>21 DEF Executing

LEMMA PhasesNext == TypeOK /\ Phases /\ [Next]_vars => Phases'
<1> SUFFICES ASSUME TypeOK, Phases, [Next]_vars, NEW r \in Requests PROVE PhaseOf(r)'
  BY DEF Phases
<1> USE DEF PhaseOf, Undecided
<1>0. PhaseOf(r) /\ Kind[r] \in Kinds
  BY SigningAssumption DEF Phases
<1>1. CASE Unmoved(r)
  BY <1>0, <1>1 DEF Unmoved
<1>2. CASE Open(r)
  BY <1>0, <1>2, EarlyMoves, CurrentType DEF Went
<1>3. CASE Viewing(r)
  <2>1. step[r] # "idle" /\ (Undecided(r) \/ view'[r] = view[r])
    BY <1>0, <1>3 DEF Viewing, View, ViewBegins, ViewReadsChain, ViewReadsAccount, ViewLocked, ViewEnds
  <2> QED BY <1>0, <1>3, <2>1, EarlyMoves
<1>4. CASE Approve(r)
  BY <1>0, <1>4, EarlyMoves DEF Went
<1>5. CASE Executing(r)
  <2>1. view'[r] = view[r] /\ ReadsOnce(r)
    BY <1>5, Frame, Reads DEF Leaves
  <2>2. local[r] \in Partial /\ selection.account # None /\ selection.chain # None
    BY ItemType, SigningAssumption
  <2>24. ASSUME SwitchBegins(r) PROVE written'[r] \in Contexts
    <3>1. revision' \in Nat
      BY <2>24, ChangeType DEF SwitchBegins
    <3>2. step[r] = "switchRead" /\ written[r] \in Contexts
      BY <2>24, <1>0, Moves DEF Went
    <3>3. [written[r] EXCEPT !.revision = revision'] \in Contexts
      BY <3>1, <3>2 DEF Contexts
    <3>4. written'[r] = [written[r] EXCEPT !.revision = revision']
      BY <2>24, ItemType DEF SwitchBegins
    <3> QED BY <3>3, <3>4
  <2> USE Moves, <2>24 DEF Went, ReadsOnce, Kinds
  <2>3. CASE Verify(r) BY <2>3, <1>0, <2>1, <2>2
  <2>4. CASE ReadAccount(r) BY <2>4, <1>0, <2>1, <2>2
  <2>5. CASE ReadNetwork(r) BY <2>5, <1>0, <2>1, <2>2
  <2>6. CASE CheckPermission(r) BY <2>6, <1>0, <2>1, <2>2
  <2>7. CASE Permitted(r) BY <2>7, <1>0, <2>1, <2>2
  <2>8. CASE SwitchReads(r) BY <2>8, <1>0, <2>1, <2>2
  <2>9. CASE SwitchBegins(r) BY <2>9, <1>0, <2>1, <2>2
  <2>10. CASE SwitchRefused(r) BY <2>10, <1>0, <2>1, <2>2
  <2>11. CASE SwitchLands(r) BY <2>11, <1>0, <2>1, <2>2
  <2>12. CASE SwitchEnds(r) BY <2>12, <1>0, <2>1, <2>2
  <2>13. CASE GrantReads(r) BY <2>13, <1>0, <2>1, <2>2
  <2>14. CASE GrantWrites(r) BY <2>14, <1>0, <2>1, <2>2
  <2>15. CASE GrantLands(r) BY <2>15, <1>0, <2>1, <2>2
  <2>16. CASE GrantEnds(r) BY <2>16, <1>0, <2>1, <2>2
  <2>17. CASE ReadKey(r) BY <2>17, <1>0, <2>1, <2>2
  <2>18. CASE ReadChain(r) BY <2>18, <1>0, <2>1, <2>2
  <2>19. CASE SignMessage(r) BY <2>19, <1>0, <2>1, <2>2
  <2>20. CASE AskNetwork(r) BY <2>20, <1>0, <2>1, <2>2
  <2>21. CASE SignTransaction(r) BY <2>21, <1>0, <2>1, <2>2
  <2>22. CASE Broadcast(r) BY <2>22, <1>0, <2>1, <2>2
  <2>23. CASE Finish(r) BY <2>23, <1>0, <2>1, <2>2
  <2> QED BY <1>5, <2>3, <2>4, <2>5, <2>6, <2>7, <2>8, <2>9, <2>10, <2>11, <2>12, <2>13,
             <2>14, <2>15, <2>16, <2>17, <2>18, <2>19, <2>20, <2>21, <2>22, <2>23 DEF Executing
<1> QED BY <1>1, <1>2, <1>3, <1>4, <1>5, OwnOrUnmoved DEF Own

-----------------------------------------------------------------------------
(* What a step does to the shared state.                                    *)

\* The permission chain: jobs are added at its end, and the one at its head leaves
\* when its work is over.
Done(job) ==
    \/ job \in Requests /\ step'[job] \in {"over", "finish"}
    \/ job \in Origins /\ revoke'[job] = "done"

QueueMoves ==
    \/ queue' = queue
    \/ \E r \in Requests : /\ queue' = Append(queue, r) /\ Executing(r)
                           /\ step'[r] = "queued"
    \/ \E o \in Origins : queue' = Append(queue, o) /\ RevokeBegins(o)
    \/ queue # <<>> /\ queue' = Tail(queue) /\ Done(Head(queue))

LEMMA QueueStep == TypeOK /\ HeadsWork /\ [Next]_vars => QueueMoves
<1> SUFFICES ASSUME TypeOK, HeadsWork, [Next]_vars PROVE QueueMoves
  OBVIOUS
<1> USE DEF storage, session, items, users, history
<1>1. ASSUME NEW r \in Requests, Executing(r) PROVE QueueMoves
  <2>1. Leaves(r)
    BY <1>1, Frame
  <2>2. ASSUME GrantWrites(r) \/ GrantEnds(r) PROVE queue # <<>> /\ Head(queue) = r
    BY <2>2, Moves DEF Went, HeadsWork, AtHead
  <2>3. ASSUME GrantEnds(r) PROVE step'[r] \in {"over", "finish"}
    BY <2>3, Moves DEF Went
  <2> QED BY <1>1, <2>1, <2>2, <2>3 DEF Leaves, QueueMoves, Done
<1>2. ASSUME NEW r \in Requests, Open(r) \/ Viewing(r) \/ Approve(r) PROVE QueueMoves
  BY <1>2 DEF Open, Viewing, Approve, View, ViewBegins, ViewReadsChain, ViewReadsAccount,
              ViewLocked, ViewEnds, QueueMoves
<1>3. CASE Lock \/ UnlockBegins \/ UnlockEnds \/ SelectBegins \/ SelectLands
  BY <1>3 DEF Lock, UnlockBegins, UnlockEnds, SelectBegins, SelectLands, QueueMoves
<1>4. ASSUME NEW next \in Selections, SelectReads(next) PROVE QueueMoves
  BY <1>4 DEF SelectReads, QueueMoves
<1>5. ASSUME NEW o \in Origins, RevokeBegins(o) PROVE QueueMoves
  BY <1>5 DEF RevokeBegins, QueueMoves
<1>6. ASSUME NEW o \in Origins, RevokeReads(o) PROVE QueueMoves
  <2>1. queue' = queue \/ (queue' = Tail(queue) /\ revoke'[o] = "done")
    BY <1>6 DEF RevokeReads, TypeOK
  <2> QED BY <1>6, <2>1 DEF RevokeReads, AtHead, QueueMoves, Done
<1>7. ASSUME NEW o \in Origins, RevokeLands(o) PROVE QueueMoves
  <2>1. queue' = Tail(queue) /\ revoke'[o] = "done"
    BY <1>7 DEF RevokeLands, TypeOK
  <2> QED BY <1>7, <2>1 DEF RevokeLands, HeadsWork, AtHead, QueueMoves, Done
<1>8. CASE UNCHANGED vars
  BY <1>8 DEF vars, QueueMoves
<1> QED BY <1>1, <1>2, <1>3, <1>4, <1>5, <1>6, <1>7, <1>8 DEF Next, Revoking

RevokeMoves(o) ==
    \/ revoke'[o] = revoke[o]
    \/ revoke[o] = "none" /\ revoke'[o] = "queued" /\ RevokeBegins(o)
    \/ revoke[o] = "queued" /\ RevokeReads(o) /\ AtHead(o)
       /\ (revoke'[o] = "done" \/ (revoke'[o] = "write" /\ queue' = queue))
    \/ revoke[o] = "write" /\ RevokeLands(o) /\ revoke'[o] = "done"

LEMMA RevokeStep ==
  ASSUME TypeOK, [Next]_vars, NEW o \in Origins
  PROVE  RevokeMoves(o)
<1> USE DEF storage, session, items, users, history
<1>0. revoke \in [Origins -> {"none", "queued", "write", "done"}]
  BY DEF TypeOK
<1>1. ASSUME NEW r \in Requests, Executing(r) PROVE RevokeMoves(o)
  BY <1>1, Frame DEF Leaves, RevokeMoves
<1>2. ASSUME NEW r \in Requests, Open(r) \/ Viewing(r) \/ Approve(r) PROVE RevokeMoves(o)
  BY <1>2 DEF Open, Viewing, Approve, View, ViewBegins, ViewReadsChain, ViewReadsAccount,
              ViewLocked, ViewEnds, RevokeMoves
<1>3. CASE Lock \/ UnlockBegins \/ UnlockEnds \/ SelectBegins \/ SelectLands
  BY <1>3 DEF Lock, UnlockBegins, UnlockEnds, SelectBegins, SelectLands, RevokeMoves
<1>4. ASSUME NEW next \in Selections, SelectReads(next) PROVE RevokeMoves(o)
  BY <1>4 DEF SelectReads, RevokeMoves
<1>5. ASSUME NEW p \in Origins, RevokeBegins(p) PROVE RevokeMoves(o)
  BY <1>0, <1>5 DEF RevokeBegins, RevokeMoves
<1>6. ASSUME NEW p \in Origins, RevokeReads(p) PROVE RevokeMoves(o)
  <2>1. \/ revoke' = [revoke EXCEPT ![p] = "done"]
        \/ revoke' = [revoke EXCEPT ![p] = "write"] /\ queue' = queue
    BY <1>6 DEF RevokeReads
  <2>2. revoke[p] = "queued" /\ AtHead(p)
    BY <1>6 DEF RevokeReads
  <2> QED BY <1>0, <1>6, <2>1, <2>2 DEF RevokeMoves
<1>7. ASSUME NEW p \in Origins, RevokeLands(p) PROVE RevokeMoves(o)
  <2>1. revoke' = [revoke EXCEPT ![p] = "done"] /\ revoke[p] = "write"
    BY <1>7 DEF RevokeLands
  <2> QED BY <1>0, <1>7, <2>1 DEF RevokeMoves
<1>8. CASE UNCHANGED vars
  BY <1>8 DEF vars, RevokeMoves
<1> QED BY <1>1, <1>2, <1>3, <1>4, <1>5, <1>6, <1>7, <1>8 DEF Next, Revoking

\* The permission of a site changes when a grant or a revocation is written.
GrantMoves(o) ==
    \/ granted'[o] = granted[o] /\ grantedBy'[o] = grantedBy[o]
    \/ \E r \in Requests : /\ GrantLands(r) /\ OriginOf[r] = o /\ grantedBy'[o] = r
                           /\ granted'[o].accounts = granted[o].accounts \cup {local[r].account}
                           /\ granted'[o].chains = granted[o].chains \cup {local[r].chain}
    \/ RevokeLands(o) /\ granted'[o].accounts = {}

LEMMA GrantStep ==
  ASSUME TypeOK, Phases, [Next]_vars, NEW o \in Origins
  PROVE  GrantMoves(o)
<1> USE DEF storage, session, items, users, history
<1>0. granted \in [Origins -> Permissions] /\ grantedBy \in [Origins -> Requests \cup {None}]
  BY DEF TypeOK
<1>1. ASSUME NEW r \in Requests, Executing(r) PROVE GrantMoves(o)
  <2>1. CASE GrantLands(r)
    <3>1. OriginOf[r] \in Origins
      BY SigningAssumption
    <3>2. step[r] = "grantWrite"
      BY <2>1 DEF GrantLands
    <3>3. local[r].account \in Accounts /\ local[r].chain \in Chains
      BY <3>2, ItemType DEF Phases, PhaseOf, Partial
    <3>4. granted' = [granted EXCEPT ![OriginOf[r]].accounts = @ \cup {local[r].account},
                                     ![OriginOf[r]].chains = @ \cup {local[r].chain}]
      BY <2>1 DEF GrantLands
    <3>5. /\ granted'[OriginOf[r]].accounts = granted[OriginOf[r]].accounts \cup {local[r].account}
          /\ granted'[OriginOf[r]].chains = granted[OriginOf[r]].chains \cup {local[r].chain}
          /\ \A p \in Origins : p # OriginOf[r] => granted'[p] = granted[p]
      BY <1>0, <3>1, <3>3, <3>4, GrantType
    <3>6. grantedBy'[OriginOf[r]] = r /\ \A p \in Origins : p # OriginOf[r] => grantedBy'[p] = grantedBy[p]
      BY <1>0, <2>1, <3>1 DEF GrantLands
    <3> QED BY <2>1, <3>1, <3>5, <3>6 DEF GrantMoves
  <2>2. CASE ~GrantLands(r)
    BY <1>1, <2>2, Frame DEF Leaves, GrantMoves
  <2> QED BY <2>1, <2>2
<1>2. ASSUME NEW r \in Requests, Open(r) \/ Viewing(r) \/ Approve(r) PROVE GrantMoves(o)
  BY <1>2 DEF Open, Viewing, Approve, View, ViewBegins, ViewReadsChain, ViewReadsAccount,
              ViewLocked, ViewEnds, GrantMoves
<1>3. CASE Lock \/ UnlockBegins \/ UnlockEnds \/ SelectBegins \/ SelectLands
  BY <1>3 DEF Lock, UnlockBegins, UnlockEnds, SelectBegins, SelectLands, GrantMoves
<1>4. ASSUME NEW next \in Selections, SelectReads(next) PROVE GrantMoves(o)
  BY <1>4 DEF SelectReads, GrantMoves
<1>5. ASSUME NEW p \in Origins, RevokeBegins(p) \/ RevokeReads(p) PROVE GrantMoves(o)
  BY <1>5 DEF RevokeBegins, RevokeReads, GrantMoves
<1>7. ASSUME NEW p \in Origins, RevokeLands(p) PROVE GrantMoves(o)
  BY <1>0, <1>7 DEF RevokeLands, GrantMoves
<1>8. CASE UNCHANGED vars
  BY <1>8 DEF vars, GrantMoves
<1> QED BY <1>1, <1>2, <1>3, <1>4, <1>5, <1>7, <1>8 DEF Next, Revoking

\* The revision never goes back; moving it overtakes the other executions.
RevisionMoves(r) ==
    \/ revision' = revision /\ disturbed' = disturbed /\ ~SwitchBegins(r)
    \/ /\ revision' = revision + 1
       /\ r \in disturbed' => r \in disturbed \/ (Running(r) /\ ~SwitchBegins(r))

LEMMA RevisionStep ==
  ASSUME TypeOK, [Next]_vars, NEW r \in Requests
  PROVE  RevisionMoves(r)
<1> USE DEF storage, session, items, users, history
<1>b. revision \in Nat
  BY DEF TypeOK
<1>c. ASSUME NEW by, ChangeContext(by), by = r \/ ~SwitchBegins(r) PROVE RevisionMoves(r)
  BY <1>c DEF ChangeContext, RevisionMoves, Running
<1>d. ASSUME revision' = revision, disturbed' = disturbed PROVE RevisionMoves(r)
  BY <1>b, <1>d DEF RevisionMoves, SwitchBegins, ChangeContext
<1>1. ASSUME NEW q \in Requests, Executing(q) PROVE RevisionMoves(r)
  <2>1. CASE SwitchBegins(q)
    <3>1. ChangeContext(q) /\ step[q] = "switchRead" /\ step'[q] = "switchWrite"
      BY <2>1, Moves DEF Went, SwitchBegins
    <3>2. q # r /\ SwitchBegins(r) => FALSE
      BY <2>1, <3>1, Moves, ExecutionSpares DEF Went, Unmoved, Executing
    <3> QED BY <3>1, <3>2, <1>c
  <2>2. CASE ~SwitchBegins(q)
    BY <1>1, <2>2, Frame, <1>d DEF Leaves
  <2> QED BY <2>1, <2>2
<1>2. ASSUME NEW q \in Requests, Open(q) \/ Viewing(q) \/ Approve(q) PROVE RevisionMoves(r)
  BY <1>2, <1>d DEF Open, Viewing, Approve, View, ViewBegins, ViewReadsChain, ViewReadsAccount,
              ViewLocked, ViewEnds
<1>3. CASE UnlockBegins \/ UnlockEnds \/ SelectLands
  BY <1>3, <1>d DEF UnlockBegins, UnlockEnds, SelectLands
<1>4. ASSUME NEW next \in Selections, SelectReads(next) PROVE RevisionMoves(r)
  BY <1>4, <1>d DEF SelectReads
<1>5. ASSUME Lock \/ SelectBegins \/ \E o \in Origins : RevokeBegins(o) PROVE RevisionMoves(r)
  <2>1. ChangeContext(None) /\ CancelPending
    BY <1>5 DEF Lock, SelectBegins, RevokeBegins
  <2>2. ~SwitchBegins(r)
    BY <2>1, CancelSpares, Moves DEF Went
  <2> QED BY <2>1, <2>2, <1>c
<1>6. ASSUME NEW o \in Origins, Revoking(o) PROVE RevisionMoves(r)
  BY <1>6, <1>d DEF Revoking, RevokeReads, RevokeLands
<1>8. CASE UNCHANGED vars
  BY <1>8, <1>d DEF vars
<1> QED BY <1>1, <1>2, <1>3, <1>4, <1>5, <1>6, <1>8 DEF Next

-----------------------------------------------------------------------------
(* Locks, switches and revocations cancel stale work.                       *)

LEMMA HeadKept ==
  ASSUME NEW q \in Seq(Jobs), q # <<>>, NEW job \in Jobs
  PROVE  Append(q, job) # <<>> /\ Head(Append(q, job)) = Head(q)
OBVIOUS

\* A job at the head that is not done stays there.
LEMMA AtHeadStays ==
  ASSUME TypeOK, QueueMoves, NEW job \in Jobs, AtHead(job), ~Done(job)
  PROVE  AtHead(job)'
<1>1. queue \in Seq(Jobs)
  BY DEF TypeOK, Jobs
<1> QED BY <1>1, HeadKept DEF QueueMoves, AtHead, Jobs

LEMMA HeadsWorkNext == TypeOK /\ HeadsWork /\ [Next]_vars => HeadsWork'
<1> SUFFICES ASSUME TypeOK, HeadsWork, [Next]_vars PROVE HeadsWork'
  OBVIOUS
<1> USE QueueStep
<1> DEFINE Works(r) == step[r] \in {"granting", "grantWrite", "granted"}
<1>1. ASSUME NEW r \in Requests, Works(r)' PROVE AtHead(r)'
  <2>0. r \in Jobs /\ ~Done(r)
    BY <1>1, SigningAssumption DEF Jobs, Done
  <2>1. CASE Unmoved(r)
    <3>1. AtHead(r)
      BY <1>1, <2>1 DEF Unmoved, HeadsWork
    <3> QED BY <2>0, <3>1, AtHeadStays
  <2>2. CASE Own(r)
    <3>1. AtHead(r)
      BY <1>1, <2>2, Moves, EarlyMoves DEF Went, Own, Executing, HeadsWork, GrantReads
    <3> QED BY <2>0, <3>1, AtHeadStays
  <2> QED BY <2>1, <2>2, OwnOrUnmoved
<1>2. ASSUME NEW o \in Origins, revoke'[o] = "write" PROVE AtHead(o)'
  <2>0. o \in Jobs /\ ~Done(o)
    BY <1>2, SigningAssumption DEF Jobs, Done
  <2>1. AtHead(o)
    BY <1>2, RevokeStep DEF RevokeMoves, HeadsWork
  <2> QED BY <2>0, <2>1, AtHeadStays
<1> QED BY <1>1, <1>2 DEF HeadsWork

\* The revision the work of a request counts on: that of its context, or, while its
\* own network switch is written, the one that the switch began.
Switching(r) == step[r] \in {"switchWrite", "switched"}

CountsOn(r) == IF Switching(r) THEN written[r].revision ELSE context[r].revision

Valid(r) == step[r] # "idle" /\ CountsOn(r) = revision

StaleOf(r) ==
    step[r] # "idle" =>
        /\ CountsOn(r) <= revision
        /\ context[r].revision <= CountsOn(r)
        /\ Switching(r) => context[r].revision < CountsOn(r)
        /\ r \in disturbed => CountsOn(r) < revision

StaleInv == \A r \in Requests : StaleOf(r)

DisturbedHasBegun == \A r \in disturbed : ~Undecided(r)

\* The revisions are numbers.
LEMMA RevisionTypes ==
  ASSUME TypeOK, Phases, NEW r \in Requests, step[r] # "idle"
  PROVE  /\ context[r] \in Contexts /\ context[r].revision \in Nat
         /\ CountsOn(r) \in Nat /\ revision \in Nat
<1>1. context[r] \in Contexts /\ (Switching(r) => written[r] \in Contexts)
  BY DEF Phases, PhaseOf, Switching
<1> QED BY <1>1 DEF Contexts, CountsOn, TypeOK

LEMMA SwitchingWent ==
  ASSUME TypeOK, NEW r \in Requests
  PROVE  /\ SwitchBegins(r) =>
              /\ context[r].revision = revision /\ revision' = revision + 1
              /\ context'[r] = context[r] /\ step[r] = "switchRead" /\ step'[r] = "switchWrite"
         /\ SwitchEnds(r) =>
              \/ step'[r] = "over" /\ context'[r] = context[r]
              \/ written[r].revision = revision /\ context'[r] = written[r] /\ step'[r] = "queued"
<1>1. ASSUME SwitchBegins(r)
      PROVE  /\ context[r].revision = revision /\ revision' = revision + 1
             /\ context'[r] = context[r] /\ step[r] = "switchRead" /\ step'[r] = "switchWrite"
  BY <1>1, Moves DEF Went, SwitchBegins, RevisionHolds, ChangeContext
<1>2. ASSUME SwitchEnds(r)
      PROVE  \/ step'[r] = "over" /\ context'[r] = context[r]
             \/ written[r].revision = revision /\ context'[r] = written[r] /\ step'[r] = "queued"
  <2>1. CASE unlocked /\ written[r].revision = revision
    BY <1>2, <2>1, ItemType, GotoWent DEF SwitchEnds
  <2>2. CASE ~(unlocked /\ written[r].revision = revision)
    BY <1>2, <2>2, FailWent DEF SwitchEnds
  <2> QED BY <2>1, <2>2
<1> QED BY <1>1, <1>2

\* How a step changes the revision a request counts on.
Recounts(r) ==
    \/ /\ CountsOn(r)' = CountsOn(r) /\ context'[r] = context[r]
       /\ Switching(r)' <=> Switching(r)
       /\ ~SwitchBegins(r)
    \/ SwitchBegins(r) /\ CountsOn(r)' = revision' /\ Switching(r)'
    \/ /\ SwitchEnds(r) /\ Switching(r) /\ ~Switching(r)' /\ ~SwitchBegins(r)
       /\ \/ CountsOn(r)' = context[r].revision /\ context'[r] = context[r]
          \/ CountsOn(r)' = CountsOn(r) /\ context'[r].revision = CountsOn(r) /\ CountsOn(r) = revision

LEMMA CountStep ==
  ASSUME TypeOK, Phases, [Next]_vars, NEW r \in Requests, step[r] # "idle"
  PROVE  Recounts(r)
<1>1. CASE Unmoved(r)
  BY <1>1, Moves DEF Unmoved, Recounts, CountsOn, Switching, Went
<1>2. CASE Viewing(r)
  BY <1>2, EarlyMoves, Moves DEF Recounts, CountsOn, Switching, Went
<1>3. CASE Open(r) \/ Approve(r)
  BY <1>3, EarlyMoves, Moves DEF Recounts, CountsOn, Switching, Went
<1>4. CASE SwitchBegins(r)
  <2>1. written[r] \in Contexts /\ step'[r] = "switchWrite"
    BY <1>4, Moves DEF Went, Phases, PhaseOf
  <2>2. written'[r] = [written[r] EXCEPT !.revision = revision']
    BY <1>4, ItemType DEF SwitchBegins
  <2>3. written'[r].revision = revision'
    BY <2>1, <2>2 DEF Contexts
  <2> QED BY <1>4, <2>1, <2>3 DEF Recounts, CountsOn, Switching
<1>5. CASE SwitchEnds(r)
  <2>1. step[r] = "switched" /\ ~SwitchBegins(r)
    BY <1>5, Moves DEF Went
  <2> QED BY <1>5, <2>1, SwitchingWent DEF Recounts, CountsOn, Switching
<1>6. CASE SwitchLands(r)
  <2>1. ReadsOnce(r)
    BY <1>6, Reads DEF Executing
  <2> QED BY <1>6, <2>1, Moves DEF Recounts, CountsOn, Switching, Went, ReadsOnce
<1>7. CASE Executing(r) /\ ~SwitchBegins(r) /\ ~SwitchEnds(r) /\ ~SwitchLands(r)
  <2>1. ReadsOnce(r)
    BY <1>7, Reads
  <2>2. ~Switching(r) /\ ~Switching(r)'
    BY <1>7, Moves DEF Executing, Went, Switching
  <2> QED BY <1>7, <2>1, <2>2 DEF Recounts, CountsOn, Switching, ReadsOnce
<1> QED BY <1>1, <1>2, <1>3, <1>4, <1>5, <1>6, <1>7, OwnOrUnmoved DEF Own

LEMMA StaleNext ==
    TypeOK /\ Phases /\ HeadsWork /\ StaleInv /\ DisturbedHasBegun /\ [Next]_vars =>
        StaleInv' /\ DisturbedHasBegun'
<1> SUFFICES ASSUME TypeOK, Phases, HeadsWork, StaleInv, DisturbedHasBegun, [Next]_vars
             PROVE  StaleInv' /\ DisturbedHasBegun'
  OBVIOUS
<1>a. TypeOK'
  BY TypeNext
<1> SUFFICES ASSUME NEW r \in Requests
             PROVE  StaleOf(r)' /\ (r \in disturbed' => ~Undecided(r)')
  BY <1>a DEF StaleInv, DisturbedHasBegun, TypeOK
<1>0. StaleOf(r) /\ RevisionMoves(r) /\ revision \in Nat
  BY RevisionStep DEF StaleInv, TypeOK
<1>1. r \in disturbed' => ~Undecided(r)'
  <2>1. r \in disturbed' => ~Undecided(r)
    BY <1>0 DEF RevisionMoves, DisturbedHasBegun, Running, Undecided
  <2>2. CASE Unmoved(r)
    BY <2>1, <2>2 DEF Unmoved, Undecided
  <2>3. CASE Open(r) \/ Viewing(r) \/ Approve(r)
    BY <2>1, <2>3, EarlyMoves DEF Went, Undecided
  <2>4. CASE Executing(r)
    BY <2>1, <2>4, Moves DEF Went, Undecided, Executing
  <2> QED BY <2>2, <2>3, <2>4, OwnOrUnmoved DEF Own
<1>2. ASSUME step[r] = "idle" PROVE StaleOf(r)'
  <2>1. CASE Open(r)
    <3>1. context'[r] = Current /\ step'[r] = "pending" /\ r \notin disturbed' /\ revision' = revision
      <4>1. context'[r] = Current /\ step'[r] = "pending"
        BY <2>1, EarlyMoves DEF Went
      <4>2. revision' = revision /\ disturbed' = disturbed
        BY <2>1 DEF Open, session, history
      <4> QED BY <1>2, <4>1, <4>2 DEF DisturbedHasBegun, Undecided
    <3> QED BY <1>0, <3>1 DEF StaleOf, CountsOn, Switching, Current
  <2>2. CASE ~Open(r)
    <3>1. step'[r] = "idle"
      BY <1>2, <2>2, OwnOrUnmoved, EarlyMoves, Moves DEF Own, Unmoved, Went, Executing
    <3> QED BY <3>1 DEF StaleOf, CountsOn, Switching
  <2> QED BY <2>1, <2>2
<1>3. ASSUME step[r] # "idle" PROVE StaleOf(r)'
  <2>1. /\ context[r].revision \in Nat /\ CountsOn(r) \in Nat /\ revision \in Nat
    BY <1>3, RevisionTypes
  <2>2. Recounts(r)
    BY <1>3, CountStep
  <2>3. CASE SwitchBegins(r)
    <3>1. context[r].revision = revision /\ revision' = revision + 1 /\ context'[r] = context[r]
      BY <2>3, SwitchingWent
    <3>2. ~Switching(r)
      BY <2>3, SwitchingWent DEF Switching
    <3>3. r \notin disturbed'
      BY <1>0, <1>3, <2>1, <2>3, <3>1, <3>2 DEF RevisionMoves, StaleOf, CountsOn
    <3> QED BY <2>1, <2>2, <2>3, <3>1, <3>3 DEF Recounts, StaleOf
  <2>4. CASE ~SwitchBegins(r)
    <3>1. /\ CountsOn(r) <= revision /\ context[r].revision <= CountsOn(r)
          /\ Switching(r) => context[r].revision < CountsOn(r)
          /\ r \in disturbed => CountsOn(r) < revision
      BY <1>0, <1>3 DEF StaleOf
    <3>2. \/ revision' = revision /\ disturbed' = disturbed
          \/ revision' = revision + 1
      BY <1>0 DEF RevisionMoves
    <3>3. CASE /\ CountsOn(r)' = CountsOn(r) /\ context'[r] = context[r]
               /\ Switching(r)' <=> Switching(r)
      <4>1. context'[r].revision = context[r].revision
        BY <3>3
      <4> QED BY <2>1, <3>1, <3>2, <3>3, <4>1 DEF StaleOf
    <3>4. CASE /\ Switching(r) /\ ~Switching(r)'
               /\ CountsOn(r)' = context[r].revision /\ context'[r] = context[r]
      <4>1. context'[r].revision = context[r].revision
        BY <3>4
      <4> QED BY <2>1, <3>1, <3>2, <3>4, <4>1 DEF StaleOf
    <3>5. CASE /\ Switching(r) /\ ~Switching(r)'
               /\ CountsOn(r)' = CountsOn(r) /\ context'[r].revision = CountsOn(r)
      BY <2>1, <3>1, <3>2, <3>5 DEF StaleOf
    <3> QED BY <2>2, <2>4, <3>3, <3>4, <3>5 DEF Recounts
  <2> QED BY <2>3, <2>4
<1> QED BY <1>1, <1>2, <1>3

\* What every proof below starts from.
Basis == TypeOK /\ Phases /\ HeadsWork /\ StaleInv /\ DisturbedHasBegun

LEMMA BasisInit == Init => Basis
<1>1. Init => StaleInv /\ DisturbedHasBegun
  BY DEF Init, StaleInv, StaleOf, DisturbedHasBegun
<1>2. Init => HeadsWork
  BY DEF Init, HeadsWork
<1> QED BY <1>1, <1>2, TypeInit, PhasesInit DEF Basis

LEMMA BasisNext == Basis /\ [Next]_vars => Basis'
BY TypeNext, PhasesNext, HeadsWorkNext, StaleNext DEF Basis

LEMMA BasisHolds == Spec => []Basis
BY BasisInit, BasisNext, PTL DEF Spec

\* Every state of the requests, the permission chain, the selection and the session is
\* well typed (the variables of background.ts 78-121 and the records it stores).
THEOREM TypeCorrect == Spec => []TypeOK
BY BasisHolds, PTL DEF Basis

\* An execution whose context holds was not overtaken.
LEMMA HoldsMeansValid ==
  ASSUME Basis, NEW r \in Requests, step[r] # "idle", context[r].revision = revision
  PROVE  Valid(r) /\ r \notin disturbed /\ ~Switching(r)
<1>1. /\ context[r].revision \in Nat /\ CountsOn(r) \in Nat /\ revision \in Nat /\ StaleOf(r)
  BY RevisionTypes DEF Basis, StaleInv
<1> QED BY <1>1 DEF StaleOf, Valid

LEMMA ContextMeansRevision ==
  ASSUME NEW r, ContextHolds(r)
  PROVE  context[r].revision = revision /\ context[r] = Current
BY DEF ContextHolds, Current

\* A signature is what the running execution holds, made while its context holds; so
\* are a broadcast and a result.
Signed(r) ==
    /\ \/ signature'[r] = signature[r]
       \/ /\ signature'[r] = local[r] /\ ContextHolds(r)
          /\ SignMessage(r) \/ SignTransaction(r)
    /\ \/ r \in sent' => r \in sent
       \/ ContextHolds(r) /\ Broadcast(r)
    /\ \/ answer'[r] = "result" => answer[r] = "result"
       \/ ContextHolds(r) /\ Finish(r)

LEMMA SignStep ==
  ASSUME TypeOK, [Next]_vars, NEW r \in Requests
  PROVE  Signed(r)
<1>1. CASE Unmoved(r)
  BY <1>1 DEF Unmoved, Signed
<1>2. CASE Open(r) \/ Viewing(r) \/ Approve(r)
  <2> USE DEF storage, session, users, history
  <2>1. signature' = signature /\ sent' = sent
    BY <1>2 DEF Open, Approve, Viewing, View, ViewBegins, ViewReadsChain, ViewReadsAccount,
                ViewLocked, ViewEnds
  <2>2. answer'[r] = answer[r] \/ answer'[r] = "error"
    BY <1>2, GotoWent, AnswerWent
       DEF Open, Approve, Viewing, View, ViewBegins, ViewReadsChain, ViewReadsAccount,
           ViewLocked, ViewEnds
  <2> QED BY <2>1, <2>2 DEF Signed
<1>3. CASE Executing(r)
  <2> USE GotoWent, FailWent, AssertedWent DEF history, Segment, Signed
  <2>0. signature \in [Requests -> Partial] /\ answer \in [Requests -> Replies]
    BY ItemType
  <2>1. CASE Verify(r) BY <2>1 DEF Verify
  <2>2. CASE ReadAccount(r) BY <2>2 DEF ReadAccount
  <2>3. CASE ReadNetwork(r) BY <2>3 DEF ReadNetwork
  <2>4. CASE CheckPermission(r) BY <2>4 DEF CheckPermission
  <2>5. CASE Permitted(r) BY <2>5 DEF Permitted
  <2>6. CASE SwitchReads(r) BY <2>6 DEF SwitchReads
  <2>7. CASE SwitchBegins(r)
    <3>1. answer'[r] = answer[r]
      BY <2>7 DEF SwitchBegins
    <3> QED BY <2>7, <3>1 DEF SwitchBegins
  <2>8. CASE SwitchRefused(r) BY <2>8 DEF SwitchRefused
  <2>9. CASE SwitchLands(r) BY <2>9 DEF SwitchLands
  <2>10. CASE SwitchEnds(r) BY <2>10 DEF SwitchEnds
  <2>11. CASE GrantReads(r) BY <2>11 DEF GrantReads
  <2>12. CASE GrantWrites(r) BY <2>12 DEF GrantWrites
  <2>13. CASE GrantLands(r) BY <2>13 DEF GrantLands
  <2>14. CASE GrantEnds(r) BY <2>14 DEF GrantEnds
  <2>15. CASE ReadKey(r) BY <2>15 DEF ReadKey
  <2>16. CASE ReadChain(r) BY <2>16 DEF ReadChain
  <2>17. CASE SignMessage(r)
    <3>1. signature'[r] = signature[r] \/ (signature'[r] = local[r] /\ ContextHolds(r))
      BY <2>17, <2>0 DEF SignMessage
    <3> QED BY <2>17, <3>1 DEF SignMessage
  <2>18. CASE AskNetwork(r) BY <2>18 DEF AskNetwork
  <2>19. CASE SignTransaction(r)
    <3>1. signature'[r] = signature[r] \/ (signature'[r] = local[r] /\ ContextHolds(r))
      BY <2>19, <2>0 DEF SignTransaction
    <3> QED BY <2>19, <3>1 DEF SignTransaction
  <2>20. CASE Broadcast(r)
    <3>1. r \in sent' => r \in sent \/ ContextHolds(r)
      BY <2>20 DEF Broadcast
    <3> QED BY <2>20, <3>1 DEF Broadcast
  <2>21. CASE Finish(r)
    <3>1. CASE ContextHolds(r)
      BY <2>21, <3>1 DEF Finish
    <3>2. CASE ~ContextHolds(r)
      <4>1. answer'[r] \in {"maybe sent", "error"}
        BY <2>21, <3>2, AnswerWent DEF Finish
      <4> QED BY <2>21, <4>1 DEF Finish
    <3> QED BY <3>1, <3>2
  <2> QED BY <1>3, <2>1, <2>2, <2>3, <2>4, <2>5, <2>6, <2>7, <2>8, <2>9, <2>10, <2>11,
             <2>12, <2>13, <2>14, <2>15, <2>16, <2>17, <2>18, <2>19, <2>20, <2>21 DEF Executing
<1> QED BY <1>1, <1>2, <1>3, OwnOrUnmoved DEF Own

\* "Locking, switching accounts or revoking permissions cancels stale work" (README.md
\* 141): an execution that one of them overtook signs nothing, broadcasts nothing and
\* reports no result (background.ts 638-677, 1602-1613).
THEOREM NoStaleWork == Spec => StaleWorkIsCancelled
<1>1. Basis /\ [Next]_vars =>
        [\A r \in disturbed :
           /\ signature'[r] = signature[r]
           /\ r \in sent' => r \in sent
           /\ answer'[r] = "result" => answer[r] = "result"]_vars
  <2> SUFFICES ASSUME Basis, [Next]_vars, NEW r \in disturbed
               PROVE  /\ signature'[r] = signature[r]
                      /\ r \in sent' => r \in sent
                      /\ answer'[r] = "result" => answer[r] = "result"
    OBVIOUS
  <2>1. r \in Requests /\ step[r] # "idle"
    BY DEF Basis, TypeOK, DisturbedHasBegun, Undecided
  <2>2. ~ContextHolds(r)
    BY <2>1, HoldsMeansValid, ContextMeansRevision
  <2> QED BY <2>1, <2>2, SignStep DEF Basis, Signed
<1> QED BY <1>1, BasisHolds, PTL DEF Spec, StaleWorkIsCancelled

-----------------------------------------------------------------------------
(* Revocations.                                                             *)

\* Work that counts on the present revision did so before the step, and no lock,
\* selection or revocation began in it.
LEMMA ValidBefore ==
  ASSUME Basis, [Next]_vars, NEW r \in Requests, step[r] # "idle", Valid(r)'
  PROVE  Valid(r) /\ (revision' = revision \/ SwitchBegins(r))
<1>1. /\ context[r].revision \in Nat /\ CountsOn(r) \in Nat /\ revision \in Nat
  BY RevisionTypes DEF Basis
<1>2. StaleOf(r) /\ Recounts(r) /\ RevisionMoves(r)
  BY RevisionStep, CountStep DEF Basis, StaleInv
<1>3. /\ CountsOn(r) <= revision /\ context[r].revision <= CountsOn(r)
      /\ Switching(r) => context[r].revision < CountsOn(r)
  BY <1>2 DEF StaleOf
<1>4. revision' = revision \/ revision' = revision + 1
  BY <1>2 DEF RevisionMoves
<1>5. CountsOn(r)' = revision'
  BY DEF Valid
<1>6. CASE SwitchBegins(r)
  <2>1. context[r].revision = revision /\ ~Switching(r)
    BY <1>6, SwitchingWent DEF Basis, Switching
  <2> QED BY <1>6, <2>1 DEF Valid, CountsOn
<1>7. CASE ~SwitchBegins(r)
  <2>1. \/ CountsOn(r)' = CountsOn(r)
        \/ Switching(r) /\ CountsOn(r)' = context[r].revision
    BY <1>2, <1>7 DEF Recounts
  <2> QED BY <1>1, <1>3, <1>4, <1>5, <2>1 DEF Valid
<1> QED BY <1>6, <1>7

LEMMA FirstStep ==
  ASSUME TypeOK, [Next]_vars, NEW r \in Requests
  PROVE  \/ revokedFirst'[r] = revokedFirst[r] /\ waitedFor'[r] = waitedFor[r]
         \/ /\ Approve(r) /\ revokedFirst'[r] = {o \in Origins : revoke[o] # "none"}
            /\ waitedFor'[r] = {o \in Origins : revoke[o] \in {"queued", "write"}}
            /\ revoke' = revoke
<1>1. CASE Approve(r)
  <2>1. revokedFirst \in [Requests -> SUBSET Origins] /\ waitedFor \in [Requests -> SUBSET Origins]
    BY DEF TypeOK
  <2> QED BY <1>1, <2>1 DEF Approve, users
<1>2. CASE Unmoved(r)
  BY <1>2 DEF Unmoved
<1>3. CASE Open(r) \/ Viewing(r)
  BY <1>3 DEF Open, Viewing, View, ViewBegins, ViewReadsChain, ViewReadsAccount, ViewLocked,
              ViewEnds, history
<1>4. CASE Executing(r)
  BY <1>4, Frame DEF Leaves
<1> QED BY <1>1, <1>2, <1>3, <1>4, OwnOrUnmoved DEF Own

\* A revocation that began before a request's work became valid was there when the user
\* approved it.
ValidCameAfter ==
    \A r \in Requests, o \in Origins :
        Valid(r) /\ ~Undecided(r) /\ revoke[o] # "none" => o \in revokedFirst[r]

\* No revocation begins in a step that leaves the work of a decided request valid.
LEMMA NoneBegins ==
  ASSUME Basis, [Next]_vars, NEW r \in Requests, NEW o \in Origins,
         step[r] # "idle", Valid(r)', ~Undecided(r)', ~Approve(r)
  PROVE  Valid(r) /\ ~Undecided(r) /\ ~RevokeBegins(o)
<1>0. TypeOK /\ Phases
  BY DEF Basis
<1>1. Valid(r) /\ (revision' = revision \/ SwitchBegins(r))
  BY ValidBefore
<1>2. ~Undecided(r)
  BY <1>0, OwnOrUnmoved, EarlyMoves, Moves DEF Own, Executing, Went, Unmoved, Undecided
<1>3. ~RevokeBegins(o)
  <2>1. ASSUME RevokeBegins(o) PROVE revision' = revision + 1 /\ CancelPending
    BY <2>1 DEF RevokeBegins, ChangeContext
  <2>2. ASSUME SwitchBegins(r), CancelPending PROVE FALSE
    BY <1>0, <2>2, CancelSpares, Moves DEF Went
  <2>3. revision \in Nat
    BY <1>0 DEF TypeOK
  <2> QED BY <1>1, <2>1, <2>2, <2>3
<1> QED BY <1>1, <1>2, <1>3

LEMMA CameAfterNext == Basis /\ ValidCameAfter /\ [Next]_vars => ValidCameAfter'
<1> SUFFICES ASSUME Basis, ValidCameAfter, [Next]_vars, NEW r \in Requests, NEW o \in Origins,
                    Valid(r)', ~Undecided(r)', revoke'[o] # "none"
             PROVE  o \in revokedFirst'[r]
  BY DEF ValidCameAfter
<1>0. TypeOK /\ Phases
  BY DEF Basis
<1>1. step[r] # "idle"
  BY <1>0, OwnOrUnmoved, EarlyMoves, Moves DEF Own, Executing, Went, Unmoved, Undecided
<1>2. CASE Approve(r)
  <2>1. revokedFirst'[r] = {p \in Origins : revoke[p] # "none"} /\ revoke' = revoke
    BY <1>0, <1>2 DEF Approve, users, TypeOK
  <2> QED BY <2>1
<1>3. CASE ~Approve(r)
  <2>1. Valid(r) /\ ~Undecided(r) /\ ~RevokeBegins(o)
    BY <1>1, <1>3, NoneBegins
  <2>2. revoke[o] # "none"
    BY <1>0, <2>1, RevokeStep DEF RevokeMoves
  <2>3. revokedFirst'[r] = revokedFirst[r]
    BY <1>0, <1>3, FirstStep
  <2> QED BY <2>1, <2>2, <2>3 DEF ValidCameAfter
<1> QED BY <1>2, <1>3

\* A revocation that has still to be written while a request's work is valid was waiting
\* when the user approved it.
ValidWaits ==
    \A r \in Requests, o \in Origins :
        Valid(r) /\ ~Undecided(r) /\ revoke[o] \in {"queued", "write"} => o \in waitedFor[r]

LEMMA ValidWaitsNext == Basis /\ ValidWaits /\ [Next]_vars => ValidWaits'
<1> SUFFICES ASSUME Basis, ValidWaits, [Next]_vars, NEW r \in Requests, NEW o \in Origins,
                    Valid(r)', ~Undecided(r)', revoke'[o] \in {"queued", "write"}
             PROVE  o \in waitedFor'[r]
  BY DEF ValidWaits
<1>0. TypeOK /\ Phases
  BY DEF Basis
<1>1. step[r] # "idle"
  BY <1>0, OwnOrUnmoved, EarlyMoves, Moves DEF Own, Executing, Went, Unmoved, Undecided
<1>2. CASE Approve(r)
  <2>1. waitedFor'[r] = {p \in Origins : revoke[p] \in {"queued", "write"}} /\ revoke' = revoke
    BY <1>0, <1>2 DEF Approve, users, TypeOK
  <2> QED BY <2>1
<1>3. CASE ~Approve(r)
  <2>1. Valid(r) /\ ~Undecided(r) /\ ~RevokeBegins(o)
    BY <1>1, <1>3, NoneBegins
  <2>2. revoke[o] \in {"queued", "write"}
    BY <1>0, <2>1, RevokeStep DEF RevokeMoves
  <2>3. waitedFor'[r] = waitedFor[r]
    BY <1>0, <1>3, FirstStep
  <2> QED BY <2>1, <2>2, <2>3 DEF ValidWaits
<1> QED BY <1>2, <1>3

\* A grant under way outlives a revocation only if the user approved it after that
\* one began.
WritesAfter ==
    \A r \in Requests, o \in Origins :
        step[r] = "grantWrite" /\ revoke[o] = "done" => o \in revokedFirst[r]

LEMMA WritesAfterNext == Basis /\ ValidCameAfter /\ WritesAfter /\ [Next]_vars => WritesAfter'
<1> SUFFICES ASSUME Basis, ValidCameAfter, WritesAfter, [Next]_vars,
                    NEW r \in Requests, NEW o \in Origins,
                    step'[r] = "grantWrite", revoke'[o] = "done"
             PROVE  o \in revokedFirst'[r]
  BY DEF WritesAfter
<1>0. TypeOK /\ Phases /\ HeadsWork
  BY DEF Basis
<1>1. step[r] = "grantWrite" \/ GrantWrites(r)
  BY <1>0, OwnOrUnmoved, EarlyMoves, Moves DEF Own, Executing, Went, Unmoved
<1>2. revokedFirst'[r] = revokedFirst[r]
  BY <1>0, <1>1, FirstStep, EarlyMoves, Moves DEF Went
<1>3. CASE step[r] = "grantWrite"
  <2>1. AtHead(r) /\ r # o
    BY <1>0, <1>3, SigningAssumption DEF HeadsWork
  <2>2. revoke[o] = "done"
    <3>1. CASE revoke[o] = "write"
      BY <1>0, <2>1, <3>1 DEF HeadsWork, AtHead
    <3>2. CASE revoke[o] # "write"
      BY <1>0, <2>1, <3>2, RevokeStep DEF RevokeMoves, AtHead
    <3> QED BY <3>1, <3>2
  <2> QED BY <1>2, <1>3, <2>2 DEF WritesAfter
<1>4. CASE GrantWrites(r)
  <2>1. ContextHolds(r) /\ step[r] = "granting"
    BY <1>0, <1>4, AssertedWent DEF GrantWrites, Segment
  <2>2. Valid(r) /\ ~Undecided(r)
    BY <2>1, HoldsMeansValid, ContextMeansRevision DEF Undecided
  <2>3. revoke' = revoke
    BY <1>0, <1>4, Frame DEF Leaves, Executing
  <2> QED BY <1>2, <2>2, <2>3 DEF ValidCameAfter
<1> QED BY <1>1, <1>3, <1>4

\* Who wrote a permission has done so.
GrantersAreDone ==
    \A r \in Requests, o \in Origins :
        grantedBy[o] = r => step[r] \in {"granted", "finish", "over"}

LEMMA GrantersNext == Basis /\ GrantersAreDone /\ [Next]_vars => GrantersAreDone'
<1> SUFFICES ASSUME Basis, GrantersAreDone, [Next]_vars, NEW r \in Requests, NEW o \in Origins,
                    grantedBy'[o] = r
             PROVE  step'[r] \in {"granted", "finish", "over"}
  BY DEF GrantersAreDone
<1>0. TypeOK /\ Phases
  BY DEF Basis
<1>1. CASE grantedBy[o] = r
  <2>1. step[r] \in {"granted", "finish", "over"}
    BY <1>1 DEF GrantersAreDone
  <2> QED BY <1>0, <2>1, OwnOrUnmoved, EarlyMoves, Moves DEF Own, Executing, Went, Unmoved
<1>2. CASE grantedBy[o] # r
  <2>1. GrantLands(r) \/ RevokeLands(o)
    BY <1>0, <1>2, GrantStep DEF GrantMoves
  <2>2. ~RevokeLands(o)
    BY <1>2 DEF RevokeLands, history
  <2> QED BY <1>0, <2>1, <2>2, Moves DEF Went
<1> QED BY <1>1, <1>2

RevokeInv == ValidCameAfter /\ WritesAfter /\ GrantersAreDone /\ RevocationStands

LEMMA RevokedNext == Basis /\ RevokeInv /\ [Next]_vars => RevocationStands'
<1> SUFFICES ASSUME Basis, RevokeInv, [Next]_vars, NEW o \in Origins,
                    revoke'[o] = "done", granted'[o].accounts # {}
             PROVE  \E r \in Requests : grantedBy'[o] = r /\ o \in revokedFirst'[r]
  BY DEF RevocationStands
<1>0. TypeOK /\ Phases /\ HeadsWork
  BY DEF Basis
<1>1. CASE \E r \in Requests : GrantLands(r) /\ OriginOf[r] = o /\ grantedBy'[o] = r
  <2>1. PICK r \in Requests : GrantLands(r) /\ OriginOf[r] = o /\ grantedBy'[o] = r
    BY <1>1
  <2>2. step[r] = "grantWrite" /\ revoke' = revoke /\ revokedFirst' = revokedFirst
    BY <2>1 DEF GrantLands, users
  <2> QED BY <2>1, <2>2 DEF RevokeInv, WritesAfter
<1>2. CASE granted'[o] = granted[o] /\ grantedBy'[o] = grantedBy[o]
  <2>1. revoke[o] = "done"
    <3>1. ASSUME RevokeReads(o), revoke'[o] = "done" PROVE granted[o].accounts = {}
      <4>1. revoke \in [Origins -> {"none", "queued", "write", "done"}]
        BY <1>0 DEF TypeOK
      <4> QED BY <3>1, <4>1 DEF RevokeReads
    <3>2. ASSUME RevokeLands(o) PROVE granted'[o].accounts = {}
      <4>1. granted \in [Origins -> Permissions]
        BY <1>0 DEF TypeOK
      <4> QED BY <3>2, <4>1 DEF RevokeLands
    <3> QED BY <1>0, <1>2, <3>1, <3>2, RevokeStep DEF RevokeMoves
  <2>2. PICK r \in Requests : grantedBy[o] = r /\ o \in revokedFirst[r]
    BY <1>2, <2>1 DEF RevokeInv, RevocationStands
  <2>3. step[r] \in {"granted", "finish", "over"}
    BY <2>2 DEF RevokeInv, GrantersAreDone
  <2>4. revokedFirst'[r] = revokedFirst[r]
    BY <1>0, <2>3, FirstStep, EarlyMoves DEF Went
  <2> QED BY <1>2, <2>2, <2>4
<1> QED BY <1>0, <1>1, <1>2, GrantStep DEF GrantMoves

\* "Permission writes are serialized so revocation cannot be undone by an older
\* connection approval" (README.md 141): what a revoked site holds was granted by an
\* approval given after the revocation began (background.ts 340-345, 610-613).
THEOREM RevocationsAreFinal == Spec => []RevocationStands
<1>1. Init => RevokeInv
  <2> SUFFICES ASSUME Init PROVE RevokeInv
    OBVIOUS
  <2>1. ValidCameAfter /\ WritesAfter /\ RevocationStands
    BY DEF Init, ValidCameAfter, WritesAfter, RevocationStands, Undecided
  <2>2. GrantersAreDone
    BY SigningAssumption DEF Init, GrantersAreDone
  <2> QED BY <2>1, <2>2 DEF RevokeInv
<1>2. Basis /\ RevokeInv /\ [Next]_vars => RevokeInv'
  BY CameAfterNext, WritesAfterNext, GrantersNext, RevokedNext DEF RevokeInv
<1>3. RevokeInv => RevocationStands
  BY DEF RevokeInv
<1> QED BY <1>1, <1>2, <1>3, BasisHolds, PTL DEF Spec

-----------------------------------------------------------------------------
(* Results.                                                                 *)

Pending(o) == revoke[o] \in {"queued", "write"}

\* A revocation that is to be written is a job of the chain; a request in the chain was approved.
QueueHas ==
    /\ \A o \in Origins : Pending(o) => \E i \in 1 .. Len(queue) : queue[i] = o
    /\ \A r \in Requests, j \in 1 .. Len(queue) : queue[j] = r => ~Undecided(r)

\* It comes before the grants whose work is valid.
RevokedBefore ==
    \A r \in Requests, o \in Origins, j \in 1 .. Len(queue) :
        queue[j] = r /\ Valid(r) /\ Pending(o) => \E i \in 1 .. (j - 1) : queue[i] = o

\* A grant that was written stands while its work is valid.
GrantHolds ==
    \A r \in Requests :
        Valid(r) /\ Kind[r] \in {"connect", "switch"} /\ step[r] \in {"granted", "finish"} =>
            /\ ~Pending(OriginOf[r])
            /\ Permits(OriginOf[r], local[r].account, local[r].chain)

LEMMA Appended ==
  ASSUME NEW q \in Seq(Jobs), NEW job \in Jobs
  PROVE  /\ Len(Append(q, job)) = Len(q) + 1 /\ Len(q) \in Nat
         /\ Append(q, job)[Len(q) + 1] = job
         /\ \A i \in 1 .. Len(q) : Append(q, job)[i] = q[i]
OBVIOUS

LEMMA Shifted ==
  ASSUME NEW q \in Seq(Jobs), q # <<>>
  PROVE  /\ Len(q) \in Nat /\ Len(q) > 0 /\ Len(Tail(q)) = Len(q) - 1
         /\ Head(q) = q[1]
         /\ \A i \in 1 .. (Len(q) - 1) : Tail(q)[i] = q[i + 1]
OBVIOUS

\* What it takes to have a revocation waiting after a step.
LEMMA PendingBefore ==
  ASSUME TypeOK, [Next]_vars, NEW o \in Origins, Pending(o)'
  PROVE  Pending(o) \/ RevokeBegins(o)
BY RevokeStep DEF Pending, RevokeMoves

LEMMA RevocationAppends ==
  ASSUME Basis, [Next]_vars, NEW o \in Origins, RevokeBegins(o)
  PROVE  /\ queue' = Append(queue, o)
         /\ \A r \in Requests : step[r] # "idle" => ~Valid(r)'
<1>1. queue' = Append(queue, o) /\ revision' = revision + 1 /\ CancelPending
  BY DEF RevokeBegins, ChangeContext
<1>2. TypeOK /\ revision \in Nat
  BY DEF Basis, TypeOK
<1>3. revision' # revision
  BY <1>1, <1>2
<1>4. ASSUME NEW r \in Requests PROVE ~SwitchBegins(r)
  BY <1>1, <1>2, CancelSpares, Moves DEF Went
<1> QED BY <1>1, <1>3, <1>4, ValidBefore

LEMMA QueueHasNext == Basis /\ QueueHas /\ [Next]_vars => QueueHas'
<1> SUFFICES ASSUME Basis, QueueHas, [Next]_vars PROVE QueueHas'
  OBVIOUS
<1>0. TypeOK /\ HeadsWork /\ QueueMoves
  BY QueueStep DEF Basis
<1>a. queue \in Seq(Jobs)
  BY <1>0 DEF TypeOK, Jobs
<1>1. ASSUME NEW o \in Origins, Pending(o)'
      PROVE  \E i \in 1 .. Len(queue') : queue'[i] = o
  <2>0. o \in Jobs
    BY DEF Jobs
  <2>1. CASE RevokeBegins(o)
    <3>1. queue' = Append(queue, o)
      BY <2>1, RevocationAppends
    <3> QED BY <1>a, <2>0, <3>1, Appended
  <2>2. CASE ~RevokeBegins(o)
    <3>1. PICK i \in 1 .. Len(queue) : queue[i] = o
      BY <1>0, <1>1, <2>2, PendingBefore DEF QueueHas
    <3>2. ASSUME NEW job \in Jobs, queue' = Append(queue, job)
          PROVE  \E k \in 1 .. Len(queue') : queue'[k] = o
      BY <1>a, <3>1, <3>2, Appended
    <3>3. ASSUME queue # <<>>, queue' = Tail(queue), Done(Head(queue))
          PROVE  \E k \in 1 .. Len(queue') : queue'[k] = o
      <4>1. Head(queue) # o
        BY <1>1, <3>3, SigningAssumption DEF Done, Pending
      <4>2. i # 1 /\ Len(queue') = Len(queue) - 1 /\ Len(queue) \in Nat
        BY <1>a, <3>1, <3>3, <4>1, Shifted
      <4>3. i - 1 \in 1 .. Len(queue') /\ queue'[i - 1] = o
        BY <1>a, <3>1, <3>3, <4>2, Shifted
      <4> QED BY <4>3
    <3> QED BY <1>0, <3>1, <3>2, <3>3 DEF QueueMoves, Jobs
  <2> QED BY <2>1, <2>2
<1>2. ASSUME NEW r \in Requests, NEW j \in 1 .. Len(queue'), queue'[j] = r
      PROVE  ~Undecided(r)'
  <2>1. ASSUME ~Undecided(r) PROVE ~Undecided(r)'
    BY <1>0, <2>1, OwnOrUnmoved, EarlyMoves, Moves DEF Own, Executing, Went, Unmoved, Undecided
  <2>2. \A k \in 1 .. Len(queue) : queue[k] = r => ~Undecided(r)
    BY DEF QueueHas
  <2>3. CASE queue' = queue
    BY <1>2, <2>1, <2>2, <2>3
  <2>4. ASSUME NEW q \in Requests, queue' = Append(queue, q), step'[q] = "queued" PROVE ~Undecided(r)'
    <3>1. q \in Jobs
      BY DEF Jobs
    <3>2. r = q \/ \E k \in 1 .. Len(queue) : queue[k] = r
      BY <1>a, <1>2, <2>4, <3>1, Appended
    <3> QED BY <2>1, <2>2, <2>4, <3>2 DEF Undecided
  <2>5. ASSUME NEW o \in Origins, queue' = Append(queue, o) PROVE ~Undecided(r)'
    <3>1. o \in Jobs /\ o # r
      BY SigningAssumption DEF Jobs
    <3>2. \E k \in 1 .. Len(queue) : queue[k] = r
      BY <1>a, <1>2, <2>5, <3>1, Appended
    <3> QED BY <2>1, <2>2, <3>2
  <2>6. CASE queue # <<>> /\ queue' = Tail(queue)
    <3>1. j + 1 \in 1 .. Len(queue) /\ queue[j + 1] = r
      BY <1>a, <1>2, <2>6, Shifted
    <3> QED BY <2>1, <2>2, <3>1
  <2> QED BY <1>0, <2>3, <2>4, <2>5, <2>6 DEF QueueMoves
<1> QED BY <1>1, <1>2 DEF QueueHas

LEMMA BeforeNext == Basis /\ QueueHas /\ RevokedBefore /\ [Next]_vars => RevokedBefore'
<1> SUFFICES ASSUME Basis, QueueHas, RevokedBefore, [Next]_vars,
                    NEW r \in Requests, NEW o \in Origins, NEW j \in 1 .. Len(queue'),
                    queue'[j] = r, Valid(r)', Pending(o)'
             PROVE  \E i \in 1 .. (j - 1) : queue'[i] = o
  BY DEF RevokedBefore
<1>0. TypeOK /\ HeadsWork /\ QueueMoves
  BY QueueStep DEF Basis
<1>a. queue \in Seq(Jobs) /\ r \in Jobs /\ o \in Jobs /\ r # o
  <2>1. queue \in Seq(Jobs)
    BY <1>0 DEF TypeOK, Jobs
  <2> QED BY <2>1, SigningAssumption DEF Jobs
<1>b. ASSUME step[r] # "idle" PROVE Valid(r) /\ Pending(o)
  BY <1>0, <1>b, ValidBefore, PendingBefore, RevocationAppends
<1>c. ASSUME NEW k \in 1 .. Len(queue), queue[k] = r
      PROVE  \E i \in 1 .. (k - 1) : queue[i] = o
  <2>1. step[r] # "idle"
    BY <1>c DEF QueueHas, Undecided
  <2> QED BY <1>b, <1>c, <2>1 DEF RevokedBefore
<1>1. CASE queue' = queue
  BY <1>1, <1>c
<1>2. ASSUME NEW job \in Jobs, queue' = Append(queue, job), j \in 1 .. Len(queue)
      PROVE  \E i \in 1 .. (j - 1) : queue'[i] = o
  <2>1. queue[j] = r
    BY <1>a, <1>2, Appended
  <2>2. PICK i \in 1 .. (j - 1) : queue[i] = o
    BY <1>2, <1>c, <2>1
  <2>3. i \in 1 .. Len(queue)
    BY <1>2, <1>a, Appended
  <2>4. queue'[i] = o
    BY <1>a, <1>2, <2>2, <2>3, Appended
  <2> QED BY <2>4
<1>3. ASSUME NEW q \in Requests, queue' = Append(queue, q), Executing(q), j \notin 1 .. Len(queue)
      PROVE  \E i \in 1 .. (j - 1) : queue'[i] = o
  <2>1. q \in Jobs
    BY DEF Jobs
  <2>2. j = Len(queue) + 1 /\ Len(queue) \in Nat /\ q = r
    BY <1>a, <1>3, <2>1, Appended
  <2>3. step[r] # "idle"
    BY <1>0, <1>3, <2>2, Moves DEF Executing, Went
  <2>4. PICK i \in 1 .. Len(queue) : queue[i] = o
    BY <1>b, <2>3 DEF QueueHas
  <2>5. i \in 1 .. (j - 1) /\ queue'[i] = o
    BY <1>a, <1>3, <2>1, <2>2, <2>4, Appended
  <2> QED BY <2>5
<1>4. ASSUME NEW p \in Origins, queue' = Append(queue, p), RevokeBegins(p), j \notin 1 .. Len(queue)
      PROVE  FALSE
  <2>1. p \in Jobs /\ p # r
    BY SigningAssumption DEF Jobs
  <2> QED BY <1>a, <1>4, <2>1, Appended
<1>5. CASE queue # <<>> /\ queue' = Tail(queue) /\ Done(Head(queue))
  <2>1. j + 1 \in 1 .. Len(queue) /\ queue[j + 1] = r /\ Len(queue) \in Nat /\ Head(queue) = queue[1]
    BY <1>a, <1>5, Shifted
  <2>2. PICK i \in 1 .. ((j + 1) - 1) : queue[i] = o
    BY <1>c, <2>1
  <2>3. Head(queue) # o
    BY <1>5, SigningAssumption DEF Done, Pending
  <2>4. i # 1
    BY <2>1, <2>2, <2>3
  <2>5. i - 1 \in 1 .. (j - 1) /\ i - 1 \in 1 .. (Len(queue) - 1)
    BY <2>1, <2>2, <2>4
  <2>6. queue'[i - 1] = o
    BY <1>a, <1>5, <2>2, <2>5, Shifted
  <2> QED BY <2>5, <2>6
<1> QED BY <1>0, <1>1, <1>2, <1>3, <1>4, <1>5 DEF QueueMoves, Jobs

GrantInv == QueueHas /\ RevokedBefore /\ GrantHolds

LEMMA GrantHoldsNext == Basis /\ GrantInv /\ [Next]_vars => GrantHolds'
<1> SUFFICES ASSUME Basis, GrantInv, [Next]_vars, NEW r \in Requests,
                    Valid(r)', Kind[r] \in {"connect", "switch"}, step'[r] \in {"granted", "finish"}
             PROVE  /\ ~Pending(OriginOf[r])'
                    /\ Permits(OriginOf[r], local[r].account, local[r].chain)'
  BY DEF GrantHolds
<1> DEFINE o == OriginOf[r]
<1>0. TypeOK /\ Phases /\ HeadsWork /\ o \in Origins
  BY SigningAssumption DEF Basis
<1>1. GrantLands(r) \/ (step[r] \in {"granted", "finish"} /\ local'[r] = local[r])
  <2>1. CASE Unmoved(r)
    BY <2>1 DEF Unmoved
  <2>2. CASE Open(r) \/ Viewing(r) \/ Approve(r)
    BY <1>0, <2>2, EarlyMoves DEF Went
  <2>3. CASE Executing(r)
    <3>1. ReadsOnce(r)
      BY <1>0, <2>3, Reads
    <3>2. GrantLands(r) \/ GrantEnds(r)
      BY <1>0, <2>3, Moves DEF Went, Executing, Phases, PhaseOf
    <3> QED BY <1>0, <3>1, <3>2, Moves DEF Went, ReadsOnce
  <2> QED BY <1>0, <2>1, <2>2, <2>3, OwnOrUnmoved DEF Own
<1>2. step[r] # "idle"
  BY <1>0, <1>1, Moves DEF Went
<1>3. Valid(r) /\ ~RevokeBegins(o)
  BY <1>0, <1>2, ValidBefore, RevocationAppends
<1>4. ~Pending(o)
  <2>1. CASE GrantLands(r)
    <3>1. AtHead(r) /\ r \in Jobs
      BY <1>0, <2>1, Moves DEF Went, HeadsWork, Jobs
    <3>2. queue \in Seq(Jobs)
      BY <1>0 DEF TypeOK, Jobs
    <3>3. 1 \in 1 .. Len(queue) /\ queue[1] = r
      BY <3>1, <3>2, Shifted DEF AtHead
    <3>4. ASSUME Pending(o) PROVE \E i \in 1 .. (1 - 1) : queue[i] = o
      BY <1>0, <1>3, <3>3, <3>4 DEF GrantInv, RevokedBefore
    <3> QED BY <3>4
  <2>2. CASE step[r] \in {"granted", "finish"}
    BY <1>3, <2>2 DEF GrantInv, GrantHolds
  <2> QED BY <1>1, <2>1, <2>2
<1>5. ~Pending(o)'
  BY <1>0, <1>3, <1>4, PendingBefore
<1>6. ~RevokeLands(o)
  BY <1>4 DEF RevokeLands, Pending
<1>7. CASE GrantLands(r)
  <2>1. step[r] = "grantWrite" /\ local' = local
    BY <1>7 DEF GrantLands
  <2>2. local[r].account \in Accounts /\ local[r].chain \in Chains /\ granted \in [Origins -> Permissions]
    BY <1>0, <2>1, ItemType DEF Phases, PhaseOf, Partial, TypeOK
  <2>3. granted' = [granted EXCEPT ![o].accounts = @ \cup {local[r].account},
                                   ![o].chains = @ \cup {local[r].chain}]
    BY <1>7 DEF GrantLands
  <2>4. /\ granted'[o].accounts = granted[o].accounts \cup {local[r].account}
        /\ granted'[o].chains = granted[o].chains \cup {local[r].chain}
    BY <1>0, <2>2, <2>3, GrantType
  <2> QED BY <1>5, <2>1, <2>4 DEF Permits
<1>8. CASE step[r] \in {"granted", "finish"} /\ local'[r] = local[r]
  <2>1. local[r].account \in granted[o].accounts /\ local[r].chain \in granted[o].chains
    BY <1>3, <1>8 DEF GrantInv, GrantHolds, Permits
  <2>2. granted[o].accounts \subseteq granted'[o].accounts /\ granted[o].chains \subseteq granted'[o].chains
    BY <1>0, <1>6, GrantStep DEF GrantMoves
  <2> QED BY <1>5, <1>8, <2>1, <2>2 DEF Permits
<1> QED BY <1>1, <1>7, <1>8

\* A site told that it is connected, or that the network was switched, holds the
\* permission at that moment, although revocations wait in the same chain
\* (background.ts 610-613, 628-632, 1602-1613).
THEOREM ResultsAreGranted == Spec => ResultMeansGranted
<1>1. Init => GrantInv
  <2> SUFFICES ASSUME Init PROVE GrantInv
    OBVIOUS
  <2>1. queue = <<>> /\ Len(queue) = 0
    BY DEF Init
  <2>2. QueueHas /\ RevokedBefore
    BY <2>1 DEF Init, QueueHas, RevokedBefore, Pending
  <2>3. GrantHolds
    BY DEF Init, GrantHolds
  <2> QED BY <2>2, <2>3 DEF GrantInv
<1>2. Basis /\ GrantInv /\ [Next]_vars => GrantInv'
  BY QueueHasNext, BeforeNext, GrantHoldsNext DEF GrantInv
<1>3. Basis /\ GrantInv /\ [Next]_vars =>
        [\A r \in Requests :
           answer'[r] = "result" /\ answer[r] # "result" /\ Kind[r] \in {"connect", "switch"} =>
               Permits(OriginOf[r], local[r].account, local[r].chain)]_vars
  <2> SUFFICES ASSUME Basis, GrantInv, [Next]_vars, NEW r \in Requests,
                      answer'[r] = "result", answer[r] # "result", Kind[r] \in {"connect", "switch"}
               PROVE  Permits(OriginOf[r], local[r].account, local[r].chain)
    OBVIOUS
  <2>1. TypeOK
    BY DEF Basis
  <2>2. ContextHolds(r) /\ step[r] = "finish"
    BY <2>1, SignStep, Moves DEF Signed, Went
  <2>3. Valid(r)
    BY <2>2, HoldsMeansValid, ContextMeansRevision
  <2> QED BY <2>2, <2>3 DEF GrantInv, GrantHolds
<1> QED BY <1>1, <1>2, <1>3, BasisHolds, PTL DEF Spec, ResultMeansGranted

-----------------------------------------------------------------------------
(* The selection, and what is shown.                                        *)

\* A write of the settings is on its way to the store.
Writing == select.step = "write" \/ \E r \in Requests : step[r] = "switchWrite"

\* The store serves its calls in the order they are made: when signingContext() gets the
\* settings a request is opened with, the writes begun before have landed, and one begun
\* since has moved the revision, which signingContext() compares (background.ts 540-545).
OpensInOrder == Writing => \A r \in Requests : ~Open(r)

Same(r) == context[r].account = selection.account /\ context[r].chain = selection.chain

Holds(r) == step[r] # "idle" /\ context[r].revision = revision /\ Same(r)

\* A context of the present revision is the selection, and no write is on its way that
\* could replace it. The write of a network switch that began this revision is the only
\* one, and lands in what the switch goes on with.
SteadyOf(r) ==
    /\ step[r] # "idle" /\ context[r].revision = revision => ~Writing /\ Same(r)
    /\ step[r] = "switchWrite" /\ written[r].revision = revision =>
         select.step # "write" /\ \A q \in Requests : step[q] = "switchWrite" => q = r
    /\ step[r] = "switched" /\ written[r].revision = revision =>
         /\ ~Writing
         /\ written[r].account = selection.account /\ written[r].chain = selection.chain

Steady == \A r \in Requests : SteadyOf(r)

\* What moves the selection, and what begins to.
SelectionMoves ==
    /\ selection' = selection \/ SelectLands \/ \E q \in Requests : SwitchLands(q)
    /\ \/ select'.step = select.step
       \/ select'.step = "read"
       \/ select'.step = "write" /\ revision' = revision + 1
       \/ select'.step = "idle" /\ SelectLands

LEMMA SelectionStep ==
  ASSUME TypeOK, [Next]_vars
  PROVE  SelectionMoves
<1> USE DEF storage, session, items, users, history
<1>0. select \in [step : {"idle", "read", "write"}, next : Selections]
  BY DEF TypeOK
<1>1. ASSUME NEW r \in Requests, Executing(r) PROVE SelectionMoves
  BY <1>1, Frame DEF Leaves, SelectionMoves
<1>2. ASSUME NEW r \in Requests, Open(r) \/ Viewing(r) \/ Approve(r) PROVE SelectionMoves
  BY <1>2 DEF Open, Viewing, Approve, View, ViewBegins, ViewReadsChain, ViewReadsAccount,
              ViewLocked, ViewEnds, SelectionMoves
<1>3. CASE Lock \/ UnlockBegins \/ UnlockEnds
  BY <1>3 DEF Lock, UnlockBegins, UnlockEnds, SelectionMoves
<1>4. ASSUME NEW next \in Selections, SelectReads(next) PROVE SelectionMoves
  BY <1>4 DEF SelectReads, SelectionMoves
<1>5. CASE SelectBegins
  <2>1. select'.step = "write" /\ revision' = revision + 1 /\ selection' = selection
    BY <1>0, <1>5 DEF SelectBegins, ChangeContext
  <2> QED BY <2>1 DEF SelectionMoves
<1>6. CASE SelectLands
  <2>1. select'.step = "idle"
    BY <1>0, <1>6 DEF SelectLands
  <2> QED BY <1>6, <2>1 DEF SelectionMoves
<1>7. ASSUME NEW o \in Origins, RevokeBegins(o) \/ Revoking(o) PROVE SelectionMoves
  BY <1>7 DEF RevokeBegins, Revoking, RevokeReads, RevokeLands, SelectionMoves
<1>8. CASE UNCHANGED vars
  BY <1>8 DEF vars, SelectionMoves
<1> QED BY <1>1, <1>2, <1>3, <1>4, <1>5, <1>6, <1>7, <1>8 DEF Next

\* Without a write on its way nothing moves the selection.
LEMMA SelectionRests ==
  ASSUME TypeOK, [Next]_vars, ~Writing
  PROVE  selection' = selection
<1>1. ~SelectLands /\ \A q \in Requests : ~SwitchLands(q)
  BY DEF Writing, SelectLands, SwitchLands
<1> QED BY <1>1, SelectionStep DEF SelectionMoves

\* A write begins under a new revision.
LEMMA WritingBegins ==
  ASSUME TypeOK, [Next]_vars, Writing', ~Writing
  PROVE  revision' = revision + 1
<1>1. CASE select'.step = "write"
  BY <1>1, SelectionStep DEF SelectionMoves, Writing
<1>2. ASSUME NEW r \in Requests, step'[r] = "switchWrite" PROVE revision' = revision + 1
  <2>1. step[r] # "switchWrite"
    BY DEF Writing
  <2>2. SwitchBegins(r)
    BY <1>2, <2>1, OwnOrUnmoved, EarlyMoves, Moves DEF Own, Executing, Went, Unmoved
  <2> QED BY <2>2, SwitchingWent
<1> QED BY <1>1, <1>2 DEF Writing

\* The context of a request is the one it had, or the one its switch wrote.
LEMMA ContextStep ==
  ASSUME Basis, [Next]_vars, NEW r \in Requests, step[r] # "idle"
  PROVE  /\ context'[r].revision <= revision
         /\ revision' = revision \/ revision' = revision + 1
         /\ revision \in Nat /\ context[r].revision \in Nat /\ context'[r].revision \in Nat
         /\ \/ context'[r] = context[r]
            \/ /\ step[r] = "switched" /\ written[r].revision = revision /\ Kind[r] = "switch"
               /\ context'[r] = written[r]
<1>0. TypeOK /\ Phases /\ StaleOf(r)
  BY DEF Basis, StaleInv
<1>1. context[r].revision \in Nat /\ CountsOn(r) \in Nat /\ revision \in Nat
  BY <1>0, RevisionTypes
<1>2. Recounts(r) /\ (revision' = revision \/ revision' = revision + 1)
  BY <1>0, CountStep, RevisionStep DEF RevisionMoves
<1>3. \/ context'[r] = context[r]
      \/ step[r] = "switched" /\ written[r].revision = revision /\ Kind[r] = "switch"
         /\ context'[r].revision = CountsOn(r) /\ context'[r] = written[r]
  <2>1. CASE SwitchEnds(r)
    <3>1. step[r] = "switched" /\ Kind[r] = "switch"
      BY <1>0, <2>1, Moves DEF Went, Phases, PhaseOf
    <3> QED BY <1>0, <2>1, <3>1, SwitchingWent DEF CountsOn, Switching
  <2>2. CASE ~SwitchEnds(r)
    BY <1>0, <1>2, <2>2, SwitchingWent DEF Recounts
  <2> QED BY <2>1, <2>2
<1>4. CountsOn(r) <= revision /\ context[r].revision <= CountsOn(r)
  BY <1>0 DEF StaleOf
<1> QED BY <1>1, <1>2, <1>3, <1>4

\* The revision of a switch that is written is over, or still the present one.
LEMMA SwitchRevision ==
  ASSUME Basis, [Next]_vars, NEW r \in Requests, Switching(r), written[r].revision = revision'
  PROVE  revision' = revision
<1>1. TypeOK /\ Phases /\ StaleOf(r) /\ step[r] # "idle"
  BY DEF Basis, StaleInv, Switching
<1>2. CountsOn(r) = written[r].revision /\ CountsOn(r) <= revision /\ CountsOn(r) \in Nat
  BY <1>1, RevisionTypes DEF StaleOf, CountsOn
<1> QED BY <1>1, <1>2, ContextStep

LEMMA SteadyContext ==
  ASSUME Basis, Steady, [OpensInOrder]_vars, [Next]_vars, NEW r \in Requests,
         step'[r] # "idle", context'[r].revision = revision'
  PROVE  ~Writing' /\ Same(r)'
<1>0. TypeOK /\ Phases /\ SteadyOf(r) /\ revision \in Nat
  BY DEF Basis, Steady, TypeOK
<1>1. CASE step[r] = "idle"
  <2>1. Open(r)
    BY <1>0, <1>1, OwnOrUnmoved, EarlyMoves, Moves DEF Own, Executing, Went, Unmoved
  <2>2. ~Writing /\ context'[r] = Current
    <3>1. step' # step /\ context'[r] = Current
      BY <1>0, <2>1, EarlyMoves DEF Went
    <3> QED BY <2>1, <3>1 DEF OpensInOrder, vars, items
  <2>3. revision' = revision /\ selection' = selection
    BY <1>0, <2>2, SelectionRests DEF Current
  <2> QED BY <1>0, <2>2, <2>3, WritingBegins DEF Current, Same
<1>2. CASE step[r] # "idle"
  <2>1. revision' = revision
    BY <1>2, ContextStep
  <2>2. /\ ~Writing
        /\ context'[r].account = selection.account /\ context'[r].chain = selection.chain
    BY <1>0, <1>2, <2>1, ContextStep DEF SteadyOf, Same
  <2>3. selection' = selection
    BY <1>0, <2>2, SelectionRests
  <2> QED BY <1>0, <2>1, <2>2, <2>3, WritingBegins DEF Same
<1> QED BY <1>1, <1>2

LEMMA SteadyWrite ==
  ASSUME Basis, Steady, [Next]_vars, NEW r \in Requests,
         step'[r] = "switchWrite", written'[r].revision = revision'
  PROVE  select'.step # "write" /\ \A q \in Requests : step'[q] = "switchWrite" => q = r
<1>0. TypeOK /\ Phases /\ SteadyOf(r) /\ revision \in Nat
  BY DEF Basis, Steady, TypeOK
<1>1. CASE step[r] = "switchWrite"
  <2>1. written'[r] = written[r]
    BY <1>0, <1>1, OwnOrUnmoved, EarlyMoves, Moves DEF Own, Executing, Went, Unmoved
  <2>2. revision' = revision
    BY <1>1, <2>1, SwitchRevision DEF Switching
  <2>3. select.step # "write" /\ \A q \in Requests : step[q] = "switchWrite" => q = r
    BY <1>0, <1>1, <2>1, <2>2 DEF SteadyOf
  <2>4. select'.step # "write"
    BY <1>0, <2>2, <2>3, SelectionStep DEF SelectionMoves
  <2>5. ASSUME NEW q \in Requests, step'[q] = "switchWrite", q # r PROVE FALSE
    <3>1. SwitchBegins(q)
      BY <1>0, <2>3, <2>5, OwnOrUnmoved, EarlyMoves, Moves DEF Own, Executing, Went, Unmoved
    <3> QED BY <1>0, <2>2, <3>1, SwitchingWent
  <2> QED BY <2>4, <2>5
<1>2. CASE step[r] # "switchWrite"
  <2>1. SwitchBegins(r)
    BY <1>0, <1>2, OwnOrUnmoved, EarlyMoves, Moves DEF Own, Executing, Went, Unmoved
  <2>2. ~Writing
    BY <1>0, <2>1, SwitchingWent DEF SteadyOf
  <2>3. select' = select
    BY <2>1 DEF SwitchBegins, users
  <2>4. ASSUME NEW q \in Requests, step'[q] = "switchWrite", q # r PROVE FALSE
    BY <1>0, <2>1, <2>2, <2>4, ExecutionSpares DEF Executing, Unmoved, Writing
  <2> QED BY <2>2, <2>3, <2>4 DEF Writing
<1> QED BY <1>1, <1>2

LEMMA SteadySwitch ==
  ASSUME Basis, Steady, [Next]_vars, NEW r \in Requests,
         step'[r] = "switched", written'[r].revision = revision'
  PROVE  /\ ~Writing'
         /\ written'[r].account = selection'.account /\ written'[r].chain = selection'.chain
<1>0. TypeOK /\ Phases /\ SteadyOf(r) /\ revision \in Nat
  BY DEF Basis, Steady, TypeOK
<1>1. CASE step[r] = "switched"
  <2>1. written'[r] = written[r]
    BY <1>0, <1>1, OwnOrUnmoved, EarlyMoves, Moves DEF Own, Executing, Went, Unmoved
  <2>2. revision' = revision
    BY <1>1, <2>1, SwitchRevision DEF Switching
  <2>3. /\ ~Writing
        /\ written[r].account = selection.account /\ written[r].chain = selection.chain
    BY <1>0, <1>1, <2>1, <2>2 DEF SteadyOf
  <2> QED BY <1>0, <2>1, <2>2, <2>3, SelectionRests, WritingBegins
<1>2. CASE step[r] # "switched"
  <2>1. SwitchLands(r) /\ step[r] = "switchWrite"
    BY <1>0, <1>2, OwnOrUnmoved, EarlyMoves, Moves DEF Own, Executing, Went, Unmoved
  <2>2. /\ written' = written /\ select' = select
        /\ selection'.account = written[r].account /\ selection'.chain = written[r].chain
    BY <2>1 DEF SwitchLands, users
  <2>3. revision' = revision
    BY <2>1, <2>2, SwitchRevision DEF Switching
  <2>4. select.step # "write" /\ \A q \in Requests : step[q] = "switchWrite" => q = r
    BY <1>0, <2>1, <2>2, <2>3 DEF SteadyOf
  <2>5. \A q \in Requests : step'[q] # "switchWrite"
    BY <1>0, <2>1, <2>4, ExecutionSpares DEF Executing, Unmoved
  <2> QED BY <2>2, <2>4, <2>5 DEF Writing
<1> QED BY <1>1, <1>2

LEMMA SteadyNext == Basis /\ Steady /\ [OpensInOrder]_vars /\ [Next]_vars => Steady'
<1> SUFFICES ASSUME Basis, Steady, [OpensInOrder]_vars, [Next]_vars, NEW r \in Requests
             PROVE  SteadyOf(r)'
  BY DEF Steady
<1> QED BY SteadyContext, SteadyWrite, SteadySwitch DEF SteadyOf

Signs(r) == Kind[r] \in {"sign", "send"}

\* A signing request whose context holds after a step held it before, with the same
\* selection.
LEMMA HeldBefore ==
  ASSUME Basis, Steady, [Next]_vars, NEW r \in Requests, Signs(r), step[r] # "idle", Holds(r)'
  PROVE  Holds(r) /\ selection' = selection
<1>0. TypeOK /\ SteadyOf(r)
  BY DEF Basis, Steady
<1>1. context'[r] = context[r] /\ context[r].revision = revision /\ revision' = revision
  BY ContextStep DEF Signs, Holds
<1>2. ~Writing /\ Same(r)
  BY <1>0, <1>1 DEF SteadyOf
<1>3. selection' = selection
  BY <1>0, <1>2, SelectionRests
<1> QED BY <1>1, <1>2, <1>3 DEF Holds

\* What a signing request whose context holds has read, is the selection.
ShownOf(r) ==
    Signs(r) /\ Holds(r) =>
        /\ view[r] = "account" => prepared[r].chain = selection.chain
        /\ view[r] \in {"check", "shown"} => prepared[r] = selection
        /\ step[r] = "network" => local[r].account = selection.account
        /\ step[r] \in {"permission", "permitted", "key", "chain", "ready", "checked"} =>
             local[r] = selection

ShownInv == \A r \in Requests : ShownOf(r)

LEMMA WholeSelection ==
  ASSUME TypeOK, NEW p \in Partial, p.account = selection.account, p.chain = selection.chain
  PROVE  p = selection
<1>1. selection \in Selections
  BY DEF TypeOK
<1> QED BY <1>1 DEF Selections, Partial

LEMMA ShownNext == Basis /\ Steady /\ ShownInv /\ [Next]_vars => ShownInv'
<1> SUFFICES ASSUME Basis, Steady, ShownInv, [Next]_vars, NEW r \in Requests, Signs(r), Holds(r)'
             PROVE  ShownOf(r)'
  BY DEF ShownInv, ShownOf, Signs
<1>0. TypeOK /\ Phases /\ PhaseOf(r) /\ ShownOf(r) /\ prepared[r] \in Partial /\ local[r] \in Partial
  BY ItemType DEF Basis, Phases, ShownInv
<1>a. TypeOK' /\ PhaseOf(r)'
  BY TypeNext, PhasesNext DEF Basis, Phases
<1>b. prepared'[r] \in Partial /\ local'[r] \in Partial
  BY <1>a DEF TypeOK
<1>1. CASE Open(r)
  <2>1. step'[r] = "pending" /\ view'[r] = "none"
    BY <1>0, <1>1, EarlyMoves DEF Went, PhaseOf
  <2> QED BY <2>1 DEF ShownOf
<1>2. ASSUME ~Open(r) PROVE Holds(r) /\ selection' = selection
  <2>1. step[r] # "idle"
    BY <1>0, <1>2, OwnOrUnmoved, EarlyMoves, Moves DEF Own, Executing, Went, Unmoved, Holds
  <2> QED BY <2>1, HeldBefore
<1> DEFINE Shown == /\ view[r] = "account" => prepared[r].chain = selection.chain
                    /\ view[r] \in {"check", "shown"} => prepared[r] = selection
           Read == /\ step[r] = "network" => local[r].account = selection.account
                   /\ step[r] \in {"permission", "permitted", "key", "chain", "ready", "checked"} =>
                        local[r] = selection
<1>3. ASSUME ~Open(r) PROVE Shown /\ Read
  BY <1>0, <1>2, <1>3 DEF ShownOf
<1>4. ASSUME Shown', Read' PROVE ShownOf(r)'
  BY <1>4 DEF ShownOf
<1>5. CASE Unmoved(r) /\ ~Open(r)
  <2>1. Shown'
    BY <1>2, <1>3, <1>5 DEF Unmoved
  <2>2. Read'
    BY <1>2, <1>3, <1>5 DEF Unmoved
  <2> QED BY <1>4, <2>1, <2>2
<1>6. CASE Viewing(r) /\ ~Open(r)
  <2>1. view[r] # "shown" /\ step' = step /\ local' = local
    BY <1>0, <1>6, EarlyMoves DEF Viewing, View, ViewBegins, ViewReadsChain, ViewReadsAccount,
                                  ViewLocked, ViewEnds
  <2>2. Undecided(r)
    BY <1>0, <2>1 DEF PhaseOf
  <2>3. Read'
    BY <2>1, <2>2 DEF Undecided
  <2>4. view \in [Requests -> {"none", "chain", "account", "check", "shown"}]
    BY <1>0 DEF TypeOK
  <2>5. Shown'
    <3>1. CASE ViewBegins(r)
      BY <2>4, <3>1 DEF ViewBegins, View
    <3>2. CASE ViewReadsChain(r)
      <4>1. prepared'[r].chain = selection.chain
        BY <1>0, <3>2, ChainRead, ItemType DEF ViewReadsChain
      <4>2. view'[r] = "account"
        BY <2>4, <3>2 DEF ViewReadsChain, View
      <4> QED BY <1>2, <1>6, <4>1, <4>2
    <3>3. CASE ViewReadsAccount(r)
      <4>1. view[r] = "account" /\ view'[r] = "check"
        BY <2>4, <3>3 DEF ViewReadsAccount, View
      <4>2. prepared'[r].account = selection.account /\ prepared'[r].chain = prepared[r].chain
        BY <1>0, <3>3, AccountRead, ItemType DEF ViewReadsAccount
      <4>3. prepared'[r] = selection
        BY <1>0, <1>b, <1>3, <1>6, <4>1, <4>2, WholeSelection
      <4> QED BY <1>2, <1>6, <4>1, <4>3
    <3>4. CASE ViewLocked(r)
      BY <2>4, <3>4 DEF ViewLocked, View
    <3>5. CASE ViewEnds(r)
      <4>1. view[r] = "check" /\ view'[r] = "shown" /\ prepared' = prepared
        BY <2>4, <3>5 DEF ViewEnds, View
      <4> QED BY <1>2, <1>3, <1>6, <4>1
    <3> QED BY <1>6, <3>1, <3>2, <3>3, <3>4, <3>5 DEF Viewing
  <2> QED BY <1>4, <2>3, <2>5
<1>7. CASE Approve(r) /\ ~Open(r)
  <2>1. /\ step'[r] \in {"approved", "over"} /\ view'[r] = view[r] /\ prepared'[r] = prepared[r]
    BY <1>0, <1>7, EarlyMoves DEF Went
  <2>2. Read'
    BY <2>1
  <2>3. Shown'
    BY <1>2, <1>3, <1>7, <2>1
  <2> QED BY <1>4, <2>2, <2>3
<1>8. CASE Executing(r) /\ ~Open(r)
  <2>1. view' = view /\ prepared' = prepared /\ ReadsOnce(r)
    BY <1>0, <1>8, Frame, Reads DEF Leaves
  <2>2. Shown'
    BY <1>2, <1>3, <1>8, <2>1
  <2>3. Read /\ selection' = selection
    BY <1>2, <1>3, <1>8
  <2> HIDE DEF Shown
  <2> USE Moves DEF Went, ReadsOnce
  <2>5. ASSUME step'[r] = "network" PROVE local'[r].account = selection'.account
    <3>1. ReadAccount(r)
      BY <1>0, <1>8, <2>5 DEF Executing
    <3> QED BY <1>0, <2>1, <2>3, <2>5, <3>1
  <2>6. ASSUME step'[r] = "permission" PROVE local'[r] = selection'
    <3>1. ReadNetwork(r)
      BY <1>0, <1>8, <2>6 DEF Executing
    <3>2. local'[r].chain = selection.chain /\ local'[r].account = selection.account
      BY <1>0, <2>1, <2>3, <3>1
    <3> QED BY <1>0, <1>b, <2>3, <3>2, WholeSelection
  <2>7. ASSUME step'[r] \in {"permitted", "key", "chain", "ready", "checked"}
        PROVE  local'[r] = selection'
    <3>1. CheckPermission(r) \/ Permitted(r) \/ ReadKey(r) \/ ReadChain(r) \/ AskNetwork(r)
      BY <1>0, <1>8, <2>7 DEF Executing
    <3>2. local[r] = selection
      BY <1>0, <2>3, <3>1
    <3>3. local'[r].chain = selection.chain /\ local'[r].account = selection.account
      BY <1>0, <2>1, <3>1, <3>2
    <3> QED BY <1>0, <1>b, <2>3, <3>3, WholeSelection
  <2>8. Read'
    BY <2>5, <2>6, <2>7
  <2> QED BY <1>4, <2>2, <2>8
<1> QED BY <1>0, <1>1, <1>5, <1>6, <1>7, <1>8, OwnOrUnmoved DEF Own

-----------------------------------------------------------------------------
(* Signatures.                                                              *)

\* What the user was shown does not change once decided.
LEMMA ShownStays ==
  ASSUME TypeOK, Phases, [Next]_vars, NEW r \in Requests, ~Undecided(r)
  PROVE  prepared'[r] = prepared[r] /\ view[r] = "shown" /\ ~Undecided(r)'
<1>1. view[r] = "shown" /\ step[r] \notin {"idle", "pending", "cancelled"}
  BY DEF Phases, PhaseOf, Undecided
<1>2. ~Viewing(r) /\ ~Open(r) /\ ~Approve(r)
  BY <1>1, EarlyMoves DEF Went, Viewing, View, ViewBegins, ViewReadsChain, ViewReadsAccount,
                          ViewLocked, ViewEnds
<1>3. CASE Unmoved(r)
  BY <1>1, <1>3 DEF Unmoved, Undecided
<1>4. CASE Executing(r)
  <2>1. prepared' = prepared
    BY <1>4, Frame DEF Leaves
  <2>2. ~Undecided(r)'
    BY <1>4, Moves DEF Executing, Went, Undecided
  <2> QED BY <1>1, <2>1, <2>2
<1> QED BY <1>2, <1>3, <1>4, OwnOrUnmoved DEF Own

\* What is signed was decided on.
SignedWasDecided == \A r \in Requests : signature[r] # Unread => ~Undecided(r)

LEMMA SignedDecidedNext == Basis /\ SignedWasDecided /\ [Next]_vars => SignedWasDecided'
<1> SUFFICES ASSUME Basis, SignedWasDecided, [Next]_vars, NEW r \in Requests, signature'[r] # Unread
             PROVE  ~Undecided(r)'
  BY DEF SignedWasDecided, Unread
<1>1. TypeOK /\ Phases
  BY DEF Basis
<1>2. ~Undecided(r)
  <2>1. CASE signature'[r] = signature[r]
    BY <2>1 DEF SignedWasDecided
  <2>2. CASE SignMessage(r) \/ SignTransaction(r)
    BY <1>1, <2>2, Moves DEF Went, Undecided
  <2> QED BY <1>1, <2>1, <2>2, SignStep DEF Signed
<1> QED BY <1>1, <1>2, ShownStays

\* A transaction is compared with what was shown before it is signed.
SendOf(r) ==
    Kind[r] = "send" =>
        /\ step[r] = "checked" => local[r] = prepared[r]
        /\ signature[r] # Unread => signature[r] = prepared[r]

SendInv == \A r \in Requests : SendOf(r)

LEMMA SendNext == Basis /\ SignedWasDecided /\ SendInv /\ [Next]_vars => SendInv'
<1> SUFFICES ASSUME Basis, SignedWasDecided, SendInv, [Next]_vars, NEW r \in Requests, Kind[r] = "send"
             PROVE  /\ step'[r] = "checked" => local'[r] = prepared'[r]
                    /\ signature'[r] # Unread => signature'[r] = prepared'[r]
  BY DEF SendInv, SendOf, Unread
<1>1. TypeOK /\ Phases /\ SendOf(r)
  BY DEF Basis, SendInv
<1>2. ASSUME step'[r] = "checked" PROVE local'[r] = prepared'[r]
  <2>1. step[r] = "checked" \/ AskNetwork(r)
    BY <1>1, <1>2, OwnOrUnmoved, EarlyMoves, Moves DEF Own, Executing, Went, Unmoved
  <2>2. CASE AskNetwork(r)
    <3>1. prepared[r] = local[r]
      BY <1>1, <1>2, <2>2, FailWent DEF AskNetwork
    <3> QED BY <2>2, <3>1 DEF AskNetwork, Segment
  <2>3. CASE step[r] = "checked"
    <3>1. prepared'[r] = prepared[r]
      BY <1>1, <2>3, ShownStays DEF Undecided
    <3>2. local'[r] = local[r]
      BY <1>1, <1>2, <2>3, OwnOrUnmoved, EarlyMoves, Moves DEF Own, Executing, Went, Unmoved
    <3> QED BY <1>1, <2>3, <3>1, <3>2 DEF SendOf
  <2> QED BY <2>1, <2>2, <2>3
<1>3. ASSUME signature'[r] # Unread PROVE signature'[r] = prepared'[r]
  <2>1. CASE signature'[r] = signature[r]
    <3>1. signature[r] = prepared[r] /\ ~Undecided(r)
      BY <1>1, <1>3, <2>1 DEF SendOf, SignedWasDecided
    <3> QED BY <1>1, <2>1, <3>1, ShownStays
  <2>2. CASE signature'[r] = local[r] /\ SignTransaction(r)
    <3>1. step[r] = "checked"
      BY <1>1, <2>2, Moves DEF Went
    <3> QED BY <1>1, <2>2, <3>1, ShownStays DEF Undecided, SendOf
  <2>3. CASE SignMessage(r)
    BY <1>1, <2>3, Moves
  <2> QED BY <1>1, <2>1, <2>2, <2>3, SignStep DEF Signed
<1> QED BY <1>2, <1>3

LEMMA SignedInit == Init => SignedWasDecided /\ SendInv /\ SignsWhatWasShown
BY DEF Init, SignedWasDecided, SendInv, SendOf, SignsWhatWasShown

\* A transaction is signed for the account and the network that the confirmation window
\* showed, whatever is selected meanwhile and in whatever order the settings are written:
\* signPrepared compares both (background.ts 638-677).
THEOREM TransactionsAreAsShown ==
    Spec => [](\A r \in Requests :
                  Kind[r] = "send" /\ signature[r] # Unread => signature[r] = prepared[r])
<1>1. Basis /\ SignedWasDecided /\ SendInv /\ [Next]_vars => SignedWasDecided' /\ SendInv'
  BY SignedDecidedNext, SendNext
<1>2. SendInv => \A r \in Requests :
                   Kind[r] = "send" /\ signature[r] # Unread => signature[r] = prepared[r]
  BY DEF SendInv, SendOf
<1> QED BY <1>1, <1>2, SignedInit, BasisHolds, PTL DEF Spec

ReviewInv == Steady /\ ShownInv /\ SignedWasDecided /\ SignsWhatWasShown

LEMMA ReviewInit == Init => ReviewInv
<1> SUFFICES ASSUME Init PROVE ReviewInv
  OBVIOUS
<1>1. Steady /\ ShownInv
  BY DEF Init, Steady, SteadyOf, ShownInv, ShownOf, Holds
<1> QED BY <1>1, SignedInit DEF ReviewInv

\* The context that holds when something is signed is that of the request.
LEMMA SignedInContext ==
  ASSUME Basis, NEW r \in Requests, step[r] # "idle", ContextHolds(r)
  PROVE  Holds(r) /\ Valid(r)
BY HoldsMeansValid, ContextMeansRevision DEF Holds, Same, Current

LEMMA ReviewNext == Basis /\ ReviewInv /\ [OpensInOrder]_vars /\ [Next]_vars => ReviewInv'
<1> SUFFICES ASSUME Basis, ReviewInv, [OpensInOrder]_vars, [Next]_vars PROVE ReviewInv'
  OBVIOUS
<1>1. Steady' /\ ShownInv' /\ SignedWasDecided'
  BY SteadyNext, ShownNext, SignedDecidedNext DEF ReviewInv
<1>2. TypeOK /\ Phases
  BY DEF Basis
<1>3. ASSUME NEW r \in Requests, signature'[r] # Unread PROVE signature'[r] = prepared'[r]
  <2>1. CASE signature'[r] = signature[r]
    <3>1. signature[r] = prepared[r] /\ ~Undecided(r)
      BY <1>3, <2>1 DEF ReviewInv, SignsWhatWasShown, SignedWasDecided
    <3> QED BY <1>2, <2>1, <3>1, ShownStays
  <2>2. CASE signature'[r] = local[r] /\ ContextHolds(r) /\ (SignMessage(r) \/ SignTransaction(r))
    <3>1. step[r] \in {"ready", "checked"} /\ Signs(r)
      BY <1>2, <2>2, Moves DEF Went, Phases, PhaseOf, Signs
    <3>2. Holds(r)
      BY <2>2, <3>1, SignedInContext
    <3>3. view[r] = "shown" /\ prepared'[r] = prepared[r]
      BY <1>2, <3>1, ShownStays DEF Undecided
    <3> QED BY <2>2, <3>1, <3>2, <3>3 DEF ReviewInv, ShownInv, ShownOf
  <2> QED BY <1>2, <2>1, <2>2, SignStep DEF Signed
<1>4. SignsWhatWasShown'
  BY <1>3 DEF SignsWhatWasShown, Unread
<1> QED BY <1>1, <1>4 DEF ReviewInv

\* The same of messages too, which nothing compares with what was shown: it follows from
\* the context, and so needs that a selection replaced within a revision does not come
\* back, that is, that the settings are read in order ("Pending signing requests retain
\* their approved account/network context through execution", README.md 141;
\* background.ts 638-677).
THEOREM SignaturesAreAsShown == Spec /\ [][OpensInOrder]_vars => []SignsWhatWasShown
<1>1. ReviewInv => SignsWhatWasShown
  BY DEF ReviewInv
<1> QED BY <1>1, ReviewInit, ReviewNext, BasisHolds, PTL DEF Spec

\* The permission that was checked stands while the context holds, or is being revoked
\* by a revocation that waited for its turn when the user approved.
PermittedOf(r) ==
    Signs(r) /\ Holds(r) /\ step[r] \in {"permitted", "key", "chain", "ready", "checked"} =>
        \/ Permits(OriginOf[r], selection.account, selection.chain)
        \/ OriginOf[r] \in waitedFor[r]

PermittedInv == \A r \in Requests : PermittedOf(r)

LEMMA PermittedNext ==
    Basis /\ ValidWaits /\ Steady /\ ShownInv /\ PermittedInv /\ [Next]_vars => PermittedInv'
<1> SUFFICES ASSUME Basis, ValidWaits, Steady, ShownInv, PermittedInv, [Next]_vars,
                    NEW r \in Requests, Signs(r), Holds(r)',
                    step'[r] \in {"permitted", "key", "chain", "ready", "checked"}
             PROVE  \/ Permits(OriginOf[r], selection.account, selection.chain)'
                    \/ OriginOf[r] \in waitedFor'[r]
  BY DEF PermittedInv, PermittedOf, Signs
<1> DEFINE o == OriginOf[r]
<1>0. TypeOK /\ Phases /\ o \in Origins
  BY SigningAssumption DEF Basis
<1>1. step[r] \in {"permission", "permitted", "key", "chain", "ready", "checked"}
  BY <1>0, OwnOrUnmoved, EarlyMoves, Moves DEF Own, Executing, Went, Unmoved
<1>2. Holds(r) /\ selection' = selection
  BY <1>1, HeldBefore
<1>3. Valid(r) /\ ~Undecided(r)
  BY <1>1, <1>2, HoldsMeansValid DEF Holds, Undecided
<1>4. waitedFor'[r] = waitedFor[r]
  BY <1>0, <1>1, FirstStep, EarlyMoves DEF Went
<1>5. CASE o \in waitedFor[r]
  BY <1>4, <1>5
<1>6. CASE o \notin waitedFor[r]
  <2>1. Permits(o, selection.account, selection.chain)
    <3>1. CASE step[r] = "permission"
      <4>1. CheckPermission(r)
        BY <1>0, <3>1, OwnOrUnmoved, EarlyMoves, Moves DEF Own, Executing, Went, Unmoved
      <4>2. Permits(o, local[r].account, local[r].chain)
        BY <1>0, <4>1, FailWent DEF CheckPermission
      <4>3. local[r] = selection
        BY <1>2, <3>1 DEF ShownInv, ShownOf
      <4> QED BY <4>2, <4>3
    <3>2. CASE step[r] # "permission"
      BY <1>1, <1>2, <1>6, <3>2 DEF PermittedInv, PermittedOf
    <3> QED BY <3>1, <3>2
  <2>2. ~RevokeLands(o)
    <3>1. revoke[o] \notin {"queued", "write"}
      BY <1>0, <1>3, <1>6 DEF ValidWaits
    <3> QED BY <3>1 DEF RevokeLands
  <2>3. /\ granted[o].accounts \subseteq granted'[o].accounts
        /\ granted[o].chains \subseteq granted'[o].chains
    BY <1>0, <2>2, GrantStep DEF GrantMoves
  <2> QED BY <1>2, <2>1, <2>3 DEF Permits
<1> QED BY <1>5, <1>6

\* A signature is made only while the store grants the site that account and network,
\* although the permission was read several awaits earlier; excepted is an approval given
\* while a revocation waited for its turn to write (background.ts 621-623, 656-661).
THEOREM SignaturesArePermitted == Spec /\ [][OpensInOrder]_vars => SignsUnderPermission
<1> DEFINE Inv == ValidWaits /\ ReviewInv /\ PermittedInv
<1>1. Init => Inv
  <2> SUFFICES ASSUME Init PROVE Inv
    OBVIOUS
  <2>1. ValidWaits /\ PermittedInv
    BY DEF Init, ValidWaits, PermittedInv, PermittedOf, Undecided
  <2> QED BY <2>1, ReviewInit
<1>2. Basis /\ Inv /\ [OpensInOrder]_vars /\ [Next]_vars => Inv'
  BY ValidWaitsNext, ReviewNext, PermittedNext DEF ReviewInv
<1>3. Basis /\ Inv /\ [Next]_vars =>
        [\A r \in Requests :
           signature'[r] # signature[r] =>
               \/ Permits(OriginOf[r], signature'[r].account, signature'[r].chain)
               \/ OriginOf[r] \in waitedFor[r]]_vars
  <2> SUFFICES ASSUME Basis, Inv, [Next]_vars, NEW r \in Requests, signature'[r] # signature[r]
               PROVE  \/ Permits(OriginOf[r], signature'[r].account, signature'[r].chain)
                      \/ OriginOf[r] \in waitedFor[r]
    OBVIOUS
  <2>1. TypeOK /\ Phases
    BY DEF Basis
  <2>2. signature'[r] = local[r] /\ ContextHolds(r) /\ (SignMessage(r) \/ SignTransaction(r))
    BY <2>1, SignStep DEF Signed
  <2>3. step[r] \in {"ready", "checked"} /\ Signs(r)
    BY <2>1, <2>2, Moves DEF Went, Phases, PhaseOf, Signs
  <2>4. Holds(r)
    BY <2>2, <2>3, SignedInContext
  <2>5. local[r] = selection
    BY <2>3, <2>4 DEF ReviewInv, ShownInv, ShownOf
  <2> QED BY <2>2, <2>3, <2>4, <2>5 DEF PermittedInv, PermittedOf
<1> HIDE DEF Inv
<1> QED BY <1>1, <1>2, <1>3, BasisHolds, PTL DEF Spec, SignsUnderPermission

-----------------------------------------------------------------------------
(* Locks and unlocks.                                                       *)

\* An unlock that a lock overtook began at a revision that is over.
OvertakenIsStale ==
    unlock.running =>
        /\ unlock.revision <= revision
        /\ unlock.overtaken => unlock.revision < revision

LEMMA OvertakenNext == TypeOK /\ OvertakenIsStale /\ [Next]_vars => OvertakenIsStale'
<1> SUFFICES ASSUME TypeOK, OvertakenIsStale, [Next]_vars PROVE OvertakenIsStale'
  OBVIOUS
<1> USE DEF storage, session, items, users, history
<1>0. /\ unlock \in [running : BOOLEAN, revision : Nat, overtaken : BOOLEAN]
      /\ revision \in Nat /\ unlock.revision \in Nat
  BY DEF TypeOK
<1>1. CASE Lock
  <2>1. /\ unlock'.running = unlock.running /\ unlock'.revision = unlock.revision
        /\ unlock'.overtaken = unlock.running /\ revision' = revision + 1
    BY <1>0, <1>1 DEF Lock, ChangeContext
  <2> QED BY <1>0, <2>1 DEF OvertakenIsStale
<1>2. CASE UnlockBegins
  BY <1>0, <1>2 DEF UnlockBegins, OvertakenIsStale
<1>3. CASE UnlockEnds
  <2>1. unlock'.running = FALSE
    BY <1>0, <1>3 DEF UnlockEnds
  <2> QED BY <2>1 DEF OvertakenIsStale
<1>4. ASSUME unlock' = unlock, revision' = revision \/ revision' = revision + 1
      PROVE  OvertakenIsStale'
  BY <1>0, <1>4 DEF OvertakenIsStale
<1>5. ASSUME NEW r \in Requests, Executing(r) PROVE OvertakenIsStale'
  BY <1>4, <1>5, Frame, SwitchingWent DEF Leaves
<1>6. ASSUME NEW r \in Requests, Open(r) \/ Viewing(r) \/ Approve(r) PROVE OvertakenIsStale'
  BY <1>4, <1>6 DEF Open, Viewing, Approve, View, ViewBegins, ViewReadsChain,
                    ViewReadsAccount, ViewLocked, ViewEnds
<1>7. ASSUME NEW next \in Selections, SelectReads(next) PROVE OvertakenIsStale'
  BY <1>4, <1>7 DEF SelectReads
<1>8. CASE SelectBegins \/ SelectLands
  BY <1>4, <1>8 DEF SelectBegins, SelectLands, ChangeContext
<1>9. ASSUME NEW o \in Origins, RevokeBegins(o) \/ Revoking(o) PROVE OvertakenIsStale'
  BY <1>4, <1>9 DEF RevokeBegins, Revoking, RevokeReads, RevokeLands, ChangeContext
<1>10. CASE UNCHANGED vars
  BY <1>4, <1>10 DEF vars
<1> QED BY <1>1, <1>2, <1>3, <1>5, <1>6, <1>7, <1>8, <1>9, <1>10 DEF Next

\* The session is opened by the end of an unlock only.
LEMMA UnlockStep ==
  ASSUME TypeOK, [Next]_vars, ~unlocked, unlocked'
  PROVE  UnlockEnds
<1> USE DEF storage, session, items, users, history
<1>1. ASSUME NEW r \in Requests, Executing(r) PROVE FALSE
  BY <1>1, Frame DEF Leaves
<1>2. ASSUME NEW r \in Requests, Open(r) \/ Viewing(r) \/ Approve(r) PROVE FALSE
  BY <1>2 DEF Open, Viewing, Approve, View, ViewBegins, ViewReadsChain, ViewReadsAccount,
              ViewLocked, ViewEnds
<1>3. ~Lock /\ ~UnlockBegins /\ ~SelectBegins /\ ~SelectLands
  BY DEF Lock, UnlockBegins, SelectBegins, SelectLands
<1>4. ASSUME NEW next \in Selections, SelectReads(next) PROVE FALSE
  BY <1>4 DEF SelectReads
<1>5. ASSUME NEW o \in Origins, RevokeBegins(o) \/ Revoking(o) PROVE FALSE
  BY <1>5 DEF RevokeBegins, Revoking, RevokeReads, RevokeLands
<1>6. ~(UNCHANGED vars)
  BY DEF vars
<1> QED BY <1>1, <1>2, <1>3, <1>4, <1>5, <1>6 DEF Next

\* "Delayed unlocks cannot override a lock" (README.md 141): an unlock that a lock
\* overtook compares the revision it began at and opens no session, however often the
\* wallet was locked and unlocked since (background.ts 293-304).
THEOREM UnlocksAreOverridden == Spec => LockOverridesUnlock
<1>1. Init => OvertakenIsStale
  BY DEF Init, OvertakenIsStale
<1>2. TypeOK /\ OvertakenIsStale /\ [Next]_vars =>
        [unlock.overtaken /\ ~unlocked => ~unlocked']_<<unlocked>>
  <2> SUFFICES ASSUME TypeOK, OvertakenIsStale, [Next]_vars,
                      unlock.overtaken, ~unlocked, unlocked'
               PROVE  FALSE
    OBVIOUS
  <2>1. UnlockEnds
    BY UnlockStep
  <2>2. unlock.running /\ unlock.revision = revision /\ revision \in Nat
    BY <2>1 DEF UnlockEnds, TypeOK
  <2> QED BY <2>2 DEF OvertakenIsStale
<1> QED BY <1>1, <1>2, OvertakenNext, TypeCorrect, PTL DEF Spec, LockOverridesUnlock
===============================================================================
