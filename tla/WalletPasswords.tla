---------------------------- MODULE WalletPasswords ----------------------------
(***************************************************************************)
(* The stored wallets of the desktop API under their passwords.  Handlers  *)
(* of desktop-api/src/main.rs run in parallel; each touches, one after the *)
(* other, the wallet store (one lock, wallet_store.rs), the limiter of     *)
(* password attempts and the sessions.  Between two such accesses it       *)
(* derives keys, for a second or so, from what it has read before.         *)
(*                                                                         *)
(* A ciphertext is known by the password it is encrypted under, the call   *)
(* that encrypted it and the call that last wrote its name; a row of the   *)
(* store by the call that inserted it.                                     *)
(***************************************************************************)
EXTENDS Integers, Sequences, FiniteSets

CONSTANTS
    Calls,          \* requests, each made once
    OpsOf,          \* the operations each may ask for
    Wallets,        \* key pairs: a public key each
    Passwords,
    FreeFailures,   \* PASSWORD_ATTEMPT_FREE_FAILURES
    Permits,        \* key derivations at a time
    MaxGone,        \* bound: clients that hang up
    None

\* The accesses of each operation, in order.
Path == [verify     |-> <<"find", "begin", "check", "migrate", "insert">>,
         export     |-> <<"find", "begin", "check", "migrate">>,
         unlock_all |-> <<"begin", "load", "check_all", "migrate", "insert", "finish">>,
         create     |-> <<"load", "begin", "check_all", "upsert", "insert">>,
         import     |-> <<"load", "begin", "check_all", "upsert", "insert">>,
         rename     |-> <<"find", "update">>,
         delete     |-> <<"lock", "delete">>,
         lock_all   |-> <<"lock">>,
         change     |-> <<"load", "begin", "replace", "finish", "lock">>,
         adopt      |-> <<"find", "load", "begin", "check_all", "begin", "replace", "finish", "lock">>,
         migrate    |-> <<"find", "begin", "replace", "finish", "lock">>]

\* The accesses that run_keystore_task runs on its own thread, under a permit.
Task == [op \in DOMAIN Path |->
           CASE op \in {"verify", "create", "import"} -> 1..4
             [] op = "unlock_all" -> 3..4
             [] op \in {"change", "migrate"} -> 2..4
             [] op = "adopt" -> 2..7
             [] OTHER -> {}]

ASSUME PasswordsAssumption == /\ FreeFailures \in Nat /\ MaxGone \in Nat /\ Permits \in Nat \ {0}
                              /\ OpsOf \in [Calls -> SUBSET DOMAIN Path]
                              /\ None \notin Calls \union Passwords

VARIABLES
    stored,     \* the row of each wallet: [pw, legacy, made, named, row] or None
    sessions,   \* the unlocked wallets: [wallet, row, by]
    attempt,    \* the call whose password attempt is in flight, or None
    failures,   \* consecutive failures
    blocked,    \* whether attempts are refused for now
    req,        \* what each call asks for: [op, wallet, old, new]
    row,        \* the row of its wallet, as the client knows it
    at,         \* the access it makes next, a position of its path; 0 after the last
    read,       \* what it has read of each wallet
    left,       \* the wallets it still has to open a session for
    result,     \* "none", "ok", "failed", or "gone": nobody hears the answer
    seen        \* the calls that had been answered with success when it came

limiter == <<attempt, failures, blocked>>
calls   == <<req, row, seen>>
vars    == <<stored, sessions, limiter, calls, at, read, left, result>>

--------------------------------------------------------------------------------
\* What a request may ask for; None where the operation takes no wallet or no password.
Rewrites == {"change", "adopt", "migrate"}
Requests ==
    LET Asking(op, ws, olds) == [op : {op}, wallet : ws, old : olds, new : olds]
    IN  UNION {CASE op = "change" -> {r \in Asking(op, Wallets, Passwords) : r.old # r.new}
                 [] op \in Rewrites \ {"change"} -> Asking(op, Wallets, Passwords)
                 [] op = "unlock_all" -> {r \in Asking(op, {None}, Passwords) : r.old = r.new}
                 [] op = "lock_all" -> Asking(op, {None}, {None})
                 [] op \in {"rename", "delete"} -> Asking(op, Wallets, {None})
                 [] OTHER -> {r \in Asking(op, Wallets, Passwords) : r.old = r.new}
               : op \in DOMAIN Path}

Op(c)       == req[c].op
At(c, step) == at[c] # 0 /\ Path[Op(c)][at[c]] = step
InTask(c)   == at[c] # 0 /\ at[c] \in Task[Op(c)] /\ at[c] - 1 \in Task[Op(c)]
Read(c)     == {w \in Wallets : read[c][w] # None}
Reencrypted(c, w, pw) == [read[c][w] EXCEPT !.pw = pw, !.made = c, !.legacy = FALSE]

\* A task begins only when a permit is free.
Permit(c) == at[c] \in Task[Op(c)] /\ ~InTask(c) => Cardinality({d \in Calls : InTask(d)}) < Permits

Answer(c, r) ==
    /\ result' = [result EXCEPT ![c] = IF @ = "gone" THEN "gone" ELSE r]
    /\ at' = [at EXCEPT ![c] = 0]

\* On to access n; nobody waits for a task whose client is gone.
Goto(c, n) ==
    IF n > Len(Path[Op(c)]) \/ (result[c] = "gone" /\ n \notin Task[Op(c)])
    THEN Answer(c, "ok")
    ELSE at' = [at EXCEPT ![c] = n] /\ UNCHANGED result

Advance(c) == Goto(c, at[c] + 1)

(* The limiter. *)
Succeeded == attempt' = None /\ failures' = 0 /\ blocked' = FALSE
Failed ==
    /\ attempt' = None
    /\ failures' = IF failures < FreeFailures THEN failures + 1 ELSE failures  \* more only delay longer
    /\ blocked' = (blocked \/ failures >= FreeFailures)
Dropped(c) == attempt' = (IF attempt = c THEN None ELSE attempt) /\ UNCHANGED <<failures, blocked>>

Init ==
    /\ stored \in [Wallets -> {None} \union [pw : Passwords, legacy : BOOLEAN,
                                             made : {None}, named : {None}, row : {None}]]
    /\ sessions = {}
    /\ attempt = None /\ failures = 0 /\ blocked = FALSE
    /\ req \in [Calls -> Requests] /\ \A c \in Calls : Op(c) \in OpsOf[c]
    /\ row = [c \in Calls |-> None]
    /\ at = [c \in Calls |-> 1]
    /\ read = [c \in Calls |-> [w \in Wallets |-> None]]
    /\ left = [c \in Calls |-> {}]
    /\ result = [c \in Calls |-> "none"]
    /\ seen = [c \in Calls |-> {}]

--------------------------------------------------------------------------------
(* Requests.  A created wallet is a key pair nobody has seen; one that is  *)
(* imported comes with a file whose password the user knows; the others    *)
(* name a row that is there: a request for any other is refused and        *)
(* changes nothing.  A request comes with its first access.                *)

Begun(c)     == at[c] # 1 \/ result[c] # "none"
Untouched(w) == stored[w] = None /\ \A d \in Calls : Begun(d) => req[d].wallet # w
Creating(w)  == \E d \in Calls : Begun(d) /\ at[d] # 0 /\ Op(d) = "create" /\ req[d].wallet = w

Asks(op, w) ==
    CASE op = "create" -> Untouched(w)
      [] op = "import" -> ~Creating(w)
      [] op \in {"unlock_all", "lock_all"} -> TRUE
      [] OTHER -> stored[w] # None

Arrive(c) ==
    IF Begun(c) THEN UNCHANGED <<row, seen>>
    ELSE /\ Asks(Op(c), req[c].wallet)
         /\ seen' = [seen EXCEPT ![c] = {d \in Calls : result[d] = "ok"}]
         /\ row' = [row EXCEPT ![c] = IF Op(c) \in {"unlock_all", "lock_all"} \/ stored[req[c].wallet] = None
                                     THEN None ELSE stored[req[c].wallet].row]

\* A handler waits for a permit, or for its task.
Awaiting(c) ==
    /\ at[c] # 0
    /\ at[c] \in Task[Op(c)] \/ at[c] - 1 \in Task[Op(c)]
    /\ At(c, "insert") /\ Op(c) = "unlock_all" => left[c] = Read(c)

\* The client of a waiting request hangs up: its handler is dropped, a running task goes on.
HangUp(c) ==
    /\ Awaiting(c) /\ result[c] = "none"
    /\ Cardinality({d \in Calls : result[d] = "gone"}) < MaxGone
    /\ result' = [result EXCEPT ![c] = "gone"]
    /\ IF InTask(c) THEN UNCHANGED at ELSE at' = [at EXCEPT ![c] = 0]
    /\ IF InTask(c) /\ Op(c) # "unlock_all" THEN UNCHANGED limiter ELSE Dropped(c)
    /\ UNCHANGED <<stored, sessions, calls, read, left>>

--------------------------------------------------------------------------------
(* The store. *)

Present(w, id) == stored[w] # None /\ stored[w].row = id

Find(c) ==
    /\ At(c, "find") /\ Permit(c) /\ Arrive(c)
    /\ read' = [read EXCEPT ![c][req[c].wallet] = stored[req[c].wallet]]
    /\ Advance(c)
    /\ UNCHANGED <<stored, sessions, limiter, req, left>>

\* All wallets, but what is adopted has been read before.
Load(c) ==
    LET own == Read(c)
    IN  /\ At(c, "load") /\ Permit(c) /\ Arrive(c)
        /\ read' = [read EXCEPT ![c] = [w \in Wallets |-> IF w \in own THEN @[w] ELSE stored[w]]]
        /\ LET others == {w \in Wallets \ own : stored[w] # None}
           IN  CASE Op(c) \in {"create", "import", "adopt"} ->
                      Goto(c, IF others = {} THEN at[c] + 3 ELSE at[c] + 1) /\ UNCHANGED limiter
                 [] Op(c) = "unlock_all" /\ others = {} -> Answer(c, "failed") /\ Failed
                 [] OTHER -> Advance(c) /\ UNCHANGED limiter
        /\ UNCHANGED <<stored, sessions, req, left>>

\* Compare and swap of all rows at once.
Matches(c, ws) == \A w \in ws : stored[w] = read[c][w]
Write(c, ws, pw) == stored' = [w \in Wallets |-> IF w \in ws THEN Reencrypted(c, w, pw) ELSE stored[w]]

\* Mutant: a password change rewrites the wallet it names, and no other.
RewrittenAlone(c) == {req[c].wallet}

Rewritten(c) == IF Op(c) = "change" THEN Read(c) ELSE {req[c].wallet}

\* Mutant: the row is not compared with what was read.
ReplaceBlindly(c) ==
    /\ At(c, "replace") /\ Permit(c)
    /\ IF \A w \in Rewritten(c) : read[c][w].pw = req[c].old
       THEN /\ IF \A w \in Rewritten(c) : stored[w] # None
               THEN Write(c, Rewritten(c), req[c].new) /\ Advance(c) /\ UNCHANGED limiter
               ELSE Answer(c, "failed") /\ Dropped(c) /\ UNCHANGED stored
       ELSE Answer(c, "failed") /\ Failed /\ UNCHANGED stored
    /\ UNCHANGED <<sessions, calls, read, left>>

\* Mutant: what could be replaced stays replaced when another row could not.
ReplaceOneByOne(c) ==
    /\ At(c, "replace") /\ Permit(c)
    /\ LET ws == {w \in Rewritten(c) : Matches(c, {w})}
       IN  IF \A w \in Rewritten(c) : read[c][w].pw = req[c].old
           THEN /\ Write(c, ws, req[c].new)
                /\ IF ws = Rewritten(c) THEN Advance(c) /\ UNCHANGED limiter
                   ELSE Answer(c, "failed") /\ Dropped(c)
           ELSE Answer(c, "failed") /\ Failed /\ UNCHANGED stored
    /\ UNCHANGED <<sessions, calls, read, left>>

Replace(c) ==
    /\ At(c, "replace") /\ Permit(c)
    /\ IF \A w \in Rewritten(c) : read[c][w].pw = req[c].old
       THEN IF Matches(c, Rewritten(c))
            THEN Write(c, Rewritten(c), req[c].new) /\ Advance(c) /\ UNCHANGED limiter
            ELSE Answer(c, "failed") /\ Dropped(c) /\ UNCHANGED stored
       ELSE Answer(c, "failed") /\ Failed /\ UNCHANGED stored
    /\ UNCHANGED <<sessions, calls, read, left>>

\* An unlock that met ciphertexts of the old format re-encrypts them.
Migrate(c) ==
    LET old == {w \in Read(c) : read[c][w].legacy}
    IN  /\ At(c, "migrate")
        /\ IF Matches(c, old)
           THEN /\ Write(c, old, req[c].old) /\ Advance(c)
                /\ left' = [left EXCEPT ![c] = Read(c)]
                /\ UNCHANGED limiter
           ELSE /\ Answer(c, "failed") /\ UNCHANGED <<stored, left>>
                /\ IF attempt = c THEN Failed ELSE UNCHANGED limiter
        /\ UNCHANGED <<sessions, calls, read>>

\* Inserts a row, or replaces name and ciphertext of the one with this public key.
Upsert(c) ==
    LET w == req[c].wallet
        id == IF stored[w] = None THEN c ELSE stored[w].row
    IN  /\ At(c, "upsert")
        /\ stored' = [stored EXCEPT ![w] = [pw |-> req[c].new, legacy |-> FALSE,
                                            made |-> c, named |-> c, row |-> id]]
        /\ row' = [row EXCEPT ![c] = id]
        /\ left' = [left EXCEPT ![c] = {w}]
        /\ Advance(c)
        /\ UNCHANGED <<sessions, limiter, req, read, seen>>

\* Renaming writes back the ciphertext it read, with another name in it.
Update(c) ==
    LET w == req[c].wallet
    IN  /\ At(c, "update")
        /\ IF Present(w, row[c])
           THEN stored' = [stored EXCEPT ![w] = [read[c][w] EXCEPT !.named = c]] /\ Advance(c)
           ELSE Answer(c, "failed") /\ UNCHANGED stored
        /\ UNCHANGED <<sessions, limiter, calls, read, left>>

Delete(c) ==
    LET w == req[c].wallet
    IN  /\ At(c, "delete")
        /\ IF Present(w, row[c])
           THEN stored' = [stored EXCEPT ![w] = None] /\ Advance(c)
           ELSE Answer(c, "failed") /\ UNCHANGED stored
        /\ UNCHANGED <<sessions, limiter, calls, read, left>>

--------------------------------------------------------------------------------
(* The limiter and the passwords. *)

\* Mutant: a second attempt is let in beside the first.
BeginBeside(c) ==
    /\ At(c, "begin") /\ Permit(c) /\ Arrive(c)
    /\ IF (Op(c) = "migrate" /\ ~read[c][req[c].wallet].legacy) \/ blocked
       THEN Answer(c, "failed") /\ UNCHANGED limiter
       ELSE attempt' = c /\ Advance(c) /\ UNCHANGED <<failures, blocked>>
    /\ UNCHANGED <<stored, sessions, req, read, left>>

Begin(c) ==
    /\ At(c, "begin") /\ Permit(c) /\ Arrive(c)
    /\ IF \/ Op(c) = "migrate" /\ ~read[c][req[c].wallet].legacy
          \/ blocked \/ attempt # None
       THEN Answer(c, "failed") /\ UNCHANGED limiter
       ELSE attempt' = c /\ Advance(c) /\ UNCHANGED <<failures, blocked>>
    /\ UNCHANGED <<stored, sessions, req, read, left>>

\* One wallet decrypts, or does not.
Check(c) ==
    /\ At(c, "check")
    /\ IF read[c][req[c].wallet].pw = req[c].old
       THEN Succeeded /\ Advance(c)
       ELSE Failed /\ Answer(c, "failed")
    /\ UNCHANGED <<stored, sessions, calls, read, left>>

\* Mutant: an unlock of all goes on with the wallets that do decrypt.
CheckSome(c) ==
    LET ws == IF Op(c) = "adopt" THEN Read(c) \ {req[c].wallet} ELSE Read(c)
    IN  /\ At(c, "check_all") /\ Permit(c)
        /\ IF \E w \in ws : read[c][w].pw = req[c].new
           THEN /\ Advance(c)
                /\ IF Op(c) = "unlock_all" THEN UNCHANGED limiter ELSE Succeeded
           ELSE /\ Answer(c, "failed")
                /\ IF attempt = c THEN Failed ELSE UNCHANGED limiter
        /\ UNCHANGED <<stored, sessions, calls, read, left>>

\* Every wallet that was read has to decrypt: for an unlock of all of them, and for the
\* unified password a new, an imported or an adopted wallet must have.
CheckAll(c) ==
    LET ws == IF Op(c) = "adopt" THEN Read(c) \ {req[c].wallet} ELSE Read(c)
    IN  /\ At(c, "check_all") /\ Permit(c)
        /\ IF \A w \in ws : read[c][w].pw = req[c].new
           THEN /\ Advance(c)
                /\ IF Op(c) = "unlock_all" THEN UNCHANGED limiter ELSE Succeeded
           ELSE /\ Answer(c, "failed")
                /\ IF attempt = c THEN Failed ELSE UNCHANGED limiter
        /\ UNCHANGED <<stored, sessions, calls, read, left>>

\* The attempt ends with success: after a rewrite, and after an unlock of all.
Finish(c) ==
    /\ At(c, "finish")
    /\ Op(c) = "unlock_all" => left[c] = {}
    /\ Succeeded /\ Advance(c)
    /\ UNCHANGED <<stored, sessions, calls, read, left>>

\* The delay after too many failures is over.
Unblock ==
    /\ blocked /\ blocked' = FALSE
    /\ UNCHANGED <<stored, sessions, attempt, failures, calls, at, read, left, result>>

--------------------------------------------------------------------------------
(* The sessions. *)

Insert(c, w) ==
    LET id == IF Op(c) \in {"create", "import"} THEN row[c] ELSE read[c][w].row
    IN  /\ At(c, "insert") /\ w \in left[c]
        /\ sessions' = {s \in sessions : s.wallet # w \/ s.row # id}
                         \union {[wallet |-> w, row |-> id, by |-> c]}
        /\ left' = [left EXCEPT ![c] = @ \ {w}]
        /\ IF left[c] = {w} THEN Advance(c) ELSE UNCHANGED <<at, result>>
        /\ UNCHANGED <<stored, limiter, calls, read>>

Lock(c) ==
    /\ At(c, "lock") /\ Arrive(c)
    /\ sessions' = IF Op(c) \in {"delete", "migrate"}
                   THEN {s \in sessions : s.wallet # req[c].wallet \/ s.row # row'[c]}
                   ELSE {}
    /\ Advance(c)
    /\ UNCHANGED <<stored, limiter, req, read, left>>

Next ==
    \/ Unblock
    \/ \E c \in Calls :
         \/ HangUp(c)
         \/ Find(c) \/ Load(c) \/ Replace(c) \/ Migrate(c) \/ Upsert(c) \/ Update(c) \/ Delete(c)
         \/ Begin(c) \/ Check(c) \/ CheckAll(c) \/ Finish(c)
         \/ \E w \in Wallets : Insert(c, w)
         \/ Lock(c)

Spec == Init /\ [][Next]_vars

--------------------------------------------------------------------------------
Row == [pw : Passwords, legacy : BOOLEAN, made : Calls \union {None},
        named : Calls \union {None}, row : Calls \union {None}]

\* The type invariant.
TypeOK ==
    /\ stored \in [Wallets -> Row \union {None}]
    /\ sessions \subseteq [wallet : Wallets, row : Calls \union {None}, by : Calls]
    /\ attempt \in Calls \union {None} /\ failures \in Nat /\ blocked \in BOOLEAN
    /\ req \in [Calls -> Requests]
    /\ row \in [Calls -> Calls \union {None}]
    /\ at \in [Calls -> 0..8]
    /\ read \in [Calls -> [Wallets -> Row \union {None}]]
    /\ left \in [Calls -> SUBSET Wallets]
    /\ result \in [Calls -> {"none", "ok", "failed", "gone"}]
    /\ seen \in [Calls -> SUBSET Calls]

Done(c, ops) == Op(c) \in ops /\ result[c] = "ok"

(* Two rewrites that both report success were not derived from the same ciphertext: neither has *)
(* written over the other (replace_keystore_atomically, replace_all_keystores_atomically).      *)
NoRewriteLost ==
    \A d, e \in Calls : d # e /\ Done(d, Rewrites) /\ Done(e, Rewrites) =>
        \A w \in Rewritten(d) \intersect Rewritten(e) : read[d][w] # read[e][w]

(* A rewrite that reports failure has changed no wallet, and an import, an adoption or a creation *)
(* refused for its password none either: replace_all_keystores_atomically is one transaction.     *)
FailedRewritesNothing ==
    \A c \in Calls, w \in Wallets : result[c] = "failed" /\ stored[w] # None =>
        stored[w].made # c /\ stored[w].named # c

(* A call made after a password change was reported does not get in with the old password: not to *)
(* any wallet the change covered, unless somebody asked for that password again, or a renaming or *)
(* an import overlapped the change (change_wallet_password, keypair_from_saved_wallet_with_...).  *)
GetsIn(c, d, w) ==
    /\ Done(c, {"verify", "export"}) /\ Done(d, {"change"}) /\ d \in seen[c]
    /\ req[c].wallet = w /\ w \in Read(d) /\ read[d][w].row = row[c]
    /\ req[c].old = req[d].old
AskedBack(d, w) ==
    \E e \in Calls \ {d} : /\ Begun(e) /\ Op(e) \in Rewrites /\ w \in Rewritten(e)
                            /\ req[e].new = req[d].old /\ result[e] # "failed"
Overlapped(d, w) ==
    \E e \in Calls : /\ Begun(e) /\ Op(e) \in {"rename", "import"}
                     /\ req[e].wallet = w /\ d \notin seen[e]
PasswordChangeStands ==
    \A c, d \in Calls, w \in Wallets : GetsIn(c, d, w) => AskedBack(d, w) \/ Overlapped(d, w)

(* The same without the exception: wallet_store.rs 1759-1760 promises that a concurrent rename or *)
(* rewrite is not silently lost. update_metadata, which a renaming uses, does not compare.        *)
OldPasswordIsDead ==
    \A c, d \in Calls, w \in Wallets : GetsIn(c, d, w) => AskedBack(d, w)

(* "This keeps unlock all-or-nothing" (main.rs 8382): a session opened by an unlock of all means  *)
(* that every wallet it met decrypted, and none is left by one that reports failure.              *)
UnlockAllOrNothing ==
    \A s \in sessions : Op(s.by) = "unlock_all" =>
        /\ result[s.by] # "failed"
        /\ \A w \in Read(s.by) : read[s.by][w].pw = req[s.by].old

(* One password is tried at a time, and the limiter is free again as soon as nobody tries one:     *)
(* PasswordAttemptGuard, on every path that ends an attempt. An unlock of all whose client is gone *)
(* has given its guard back, although its task goes on.                                            *)
Trying(c) ==
    /\ at[c] > 1
    /\ \/ Op(c) = "unlock_all" /\ result[c] # "gone"
       \/ Op(c) # "unlock_all" /\ \E s \in {"check", "check_all", "replace", "finish"} : At(c, s)
AttemptsAreSerial == \A c \in Calls : attempt = c <=> Trying(c)
================================================================================
