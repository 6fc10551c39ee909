-------------------------- MODULE WalletPasswordsProofs --------------------------
(***************************************************************************)
(* Theorems about WalletPasswords, for any calls, wallets and passwords:   *)
(* attempts are serial, a rewrite that fails has rewritten nothing and     *)
(* none is lost, an unlock of all is all or nothing, and a password that   *)
(* has been changed stays changed.                                         *)
(***************************************************************************)
EXTENDS WalletPasswords, TLAPS

--------------------------------------------------------------------------------
(* The inductive invariants. *)

Ops    == {"verify", "export", "unlock_all", "create", "import", "rename", "delete", "lock_all",
           "change", "adopt", "migrate"}
Naming == {"verify", "export", "rename", "adopt", "migrate"}

Length(op) == IF op \in {"rename", "delete"} THEN 2
              ELSE IF op = "lock_all" THEN 1
              ELSE IF op = "export" THEN 4
              ELSE IF op = "unlock_all" THEN 6
              ELSE IF op = "adopt" THEN 8 ELSE 5

\* The access with which an operation writes ciphertexts.
WriteAt(op) == IF op = "lock_all" THEN 0
               ELSE IF op \in {"rename", "delete"} THEN 2
               ELSE IF op \in {"change", "migrate"} THEN 3
               ELSE IF op = "adopt" THEN 6 ELSE 4

\* It has written nothing yet, or never will; it has written.
Pending(c) == result[c] = "failed" \/ at[c] \in 1..WriteAt(Op(c))
Wrote(c)   == at[c] > WriteAt(Op(c)) \/ (at[c] = 0 /\ result[c] = "ok")

\* Where a call is, what it has been told and what it has read.
CallOK(c) ==
    /\ at[c] \in 0..Length(Op(c))
    /\ result[c] \in {"ok", "failed"} => at[c] = 0
    /\ result[c] = "gone" /\ at[c] # 0 => InTask(c)
    /\ at[c] = 1 => seen[c] = {} /\ Read(c) = {}
    /\ \A d \in seen[c] : result[d] = "ok"
    /\ Op(c) \in Naming /\ (at[c] > 1 \/ result[c] = "ok") =>
          req[c].wallet \in Read(c) /\ read[c][req[c].wallet].row = row[c]

Inv == TypeOK /\ (\A c \in Calls : CallOK(c)) /\ AttemptsAreSerial

\* Sessions are opened for wallets that were read; who names a wallet reads no other.
Reads ==
    \A c \in Calls :
        /\ Op(c) \notin {"create", "import"} => left[c] \subseteq Read(c)
        /\ Op(c) \in {"verify", "export"} => Read(c) \subseteq {req[c].wallet}

\* A call is in no ciphertext before it writes one.
Unmarked(c, r) == r # None => r.made # c /\ r.named # c /\ r.row # c
Fresh ==
    \A c \in Calls : Pending(c) =>
        \A w \in Wallets : Unmarked(c, stored[w]) /\ \A d \in Calls : Unmarked(c, read[d][w])

\* What a rewrite has read is gone for good.
Replaced(d, w) == Op(d) \in Rewrites /\ Wrote(d) /\ w \in Rewritten(d)
ReadsGone ==
    \A d \in Calls, w \in Wallets : Replaced(d, w) =>
        /\ stored[w] # read[d][w]
        /\ \A e \in Calls \ {d} : Replaced(e, w) => read[d][w] # read[e][w]

\* What an unlock of all decrypted, and the passwords of the others.
Unlocks(c)  == \A w \in Read(c) : read[c][w].pw = req[c].old
Checked ==
    \A c \in Calls :
        /\ Op(c) = "unlock_all" /\ at[c] \in 4..6 => Unlocks(c)
        /\ Op(c) \in {"verify", "export"} /\ (at[c] \in 4..5 \/ (at[c] = 0 /\ result[c] = "ok")) =>
              read[c][req[c].wallet].pw = req[c].old
        /\ Op(c) \in {"create", "import"} /\ at[c] = 4 => \A w \in Read(c) : read[c][w].pw = req[c].new
Opened ==
    \A s \in sessions : Op(s.by) = "unlock_all" =>
        /\ at[s.by] \in 5..6 \/ (at[s.by] = 0 /\ result[s.by] # "failed")
        /\ Unlocks(s.by)

\* A wallet that is being created is not there, and nobody else is at it.
Unborn ==
    \A c \in Calls : Op(c) = "create" /\ at[c] \in 2..4 =>
        /\ stored[req[c].wallet] = None
        /\ \A d \in Calls \ {c} : Op(d) \notin {"unlock_all", "lock_all"} /\ req[d].wallet = req[c].wallet =>
              at[d] \in {0, 1}

\* A password change has covered the wallet; the exceptions of PasswordChangeStands, once they are there for good.
Covers(d, w) == Op(d) = "change" /\ Wrote(d) /\ w \in Read(d)
Excused(d, w) ==
    \/ \E e \in Calls \ {d} : /\ Op(e) \in Rewrites /\ ~Pending(e) /\ w \in Rewritten(e)
                              /\ req[e].new = req[d].old
    \/ \E e \in Calls : Op(e) \in {"rename", "import"} /\ req[e].wallet = w /\ at[e] # 1 /\ d \notin seen[e]
Old(d, w, r) == r # None /\ r.row = read[d][w].row /\ r.pw = req[d].old
Outdated ==
    \A d \in Calls, w \in Wallets : Covers(d, w) =>
        \/ Excused(d, w)
        \/ ~Old(d, w, stored[w]) /\ \A e \in Calls : d \in seen[e] => ~Old(d, w, read[e][w])
\* An import that finds such a wallet has read it.
Imports ==
    \A d, e \in Calls : LET w == req[e].wallet IN
        /\ Op(e) = "import" /\ at[e] \in 2..4 /\ d \in seen[e] /\ Covers(d, w)
        /\ stored[w] # None /\ stored[w].row = read[d][w].row
        => read[e][w] # None /\ read[e][w].row = stored[w].row

--------------------------------------------------------------------------------
(* The paths. *)

LEMMA PathOps == DOMAIN Path = Ops
BY DEF Path, Ops

LEMMA Paths ==
  /\ Path["verify"] = <<"find", "begin", "check", "migrate", "insert">>
  /\ Path["export"] = <<"find", "begin", "check", "migrate">>
  /\ Path["unlock_all"] = <<"begin", "load", "check_all", "migrate", "insert", "finish">>
  /\ Path["create"] = <<"load", "begin", "check_all", "upsert", "insert">>
  /\ Path["import"] = <<"load", "begin", "check_all", "upsert", "insert">>
  /\ Path["rename"] = <<"find", "update">>
  /\ Path["delete"] = <<"lock", "delete">>
  /\ Path["lock_all"] = <<"lock">>
  /\ Path["change"] = <<"load", "begin", "replace", "finish", "lock">>
  /\ Path["adopt"] = <<"find", "load", "begin", "check_all", "begin", "replace", "finish", "lock">>
  /\ Path["migrate"] = <<"find", "begin", "replace", "finish", "lock">>
BY DEF Path

LEMMA Lens == ASSUME NEW op \in Ops PROVE Len(Path[op]) = Length(op)
<1>1. CASE op = "verify" BY <1>1, Paths DEF Length
<1>2. CASE op = "export" BY <1>2, Paths DEF Length
<1>3. CASE op = "unlock_all" BY <1>3, Paths DEF Length
<1>4. CASE op = "create" BY <1>4, Paths DEF Length
<1>5. CASE op = "import" BY <1>5, Paths DEF Length
<1>6. CASE op = "rename" BY <1>6, Paths DEF Length
<1>7. CASE op = "delete" BY <1>7, Paths DEF Length
<1>8. CASE op = "lock_all" BY <1>8, Paths DEF Length
<1>9. CASE op = "change" BY <1>9, Paths DEF Length
<1>10. CASE op = "adopt" BY <1>10, Paths DEF Length
<1>11. CASE op = "migrate" BY <1>11, Paths DEF Length
<1> QED BY <1>1, <1>2, <1>3, <1>4, <1>5, <1>6, <1>7, <1>8, <1>9, <1>10, <1>11 DEF Ops

\* At which positions an operation takes each step.
LEMMA Steps ==
  ASSUME NEW op \in Ops, NEW n \in 1..Length(op)
  PROVE /\ Path[op][n] = "find" <=> n = 1 /\ op \in {"verify", "export", "rename", "adopt", "migrate"}
        /\ Path[op][n] = "load" <=> \/ n = 2 /\ op \in {"unlock_all", "adopt"}
                                    \/ n = 1 /\ op \in {"create", "import", "change"}
        /\ Path[op][n] = "begin" <=> \/ n = 1 /\ op = "unlock_all"
                                     \/ n = 2 /\ op \in {"verify", "export", "create", "import", "change", "migrate"}
                                     \/ n \in {3, 5} /\ op = "adopt"
        /\ Path[op][n] = "check" <=> n = 3 /\ op \in {"verify", "export"}
        /\ Path[op][n] = "check_all" <=> \/ n = 3 /\ op \in {"unlock_all", "create", "import"}
                                         \/ n = 4 /\ op = "adopt"
        /\ Path[op][n] = "migrate" <=> n = 4 /\ op \in {"verify", "export", "unlock_all"}
        /\ Path[op][n] = "replace" <=> \/ n = 3 /\ op \in {"change", "migrate"}
                                       \/ n = 6 /\ op = "adopt"
        /\ Path[op][n] = "upsert" <=> n = 4 /\ op \in {"create", "import"}
        /\ Path[op][n] = "update" <=> n = 2 /\ op = "rename"
        /\ Path[op][n] = "delete" <=> n = 2 /\ op = "delete"
        /\ Path[op][n] = "insert" <=> n = 5 /\ op \in {"verify", "unlock_all", "create", "import"}
        /\ Path[op][n] = "finish" <=> \/ n = 6 /\ op = "unlock_all"
                                      \/ n = 4 /\ op \in {"change", "migrate"}
                                      \/ n = 7 /\ op = "adopt"
        /\ Path[op][n] = "lock" <=> \/ n = 1 /\ op \in {"delete", "lock_all"}
                                    \/ n = 5 /\ op \in {"change", "migrate"}
                                    \/ n = 8 /\ op = "adopt"
<1>1. CASE op = "verify" BY <1>1, Paths DEF Length
<1>2. CASE op = "export" BY <1>2, Paths DEF Length
<1>3. CASE op = "unlock_all" BY <1>3, Paths DEF Length
<1>4. CASE op = "create" BY <1>4, Paths DEF Length
<1>5. CASE op = "import" BY <1>5, Paths DEF Length
<1>6. CASE op = "rename" BY <1>6, Paths DEF Length
<1>7. CASE op = "delete" BY <1>7, Paths DEF Length
<1>8. CASE op = "lock_all" BY <1>8, Paths DEF Length
<1>9. CASE op = "change" BY <1>9, Paths DEF Length
<1>10. CASE op = "adopt" BY <1>10, Paths DEF Length
<1>11. CASE op = "migrate" BY <1>11, Paths DEF Length
<1> QED BY <1>1, <1>2, <1>3, <1>4, <1>5, <1>6, <1>7, <1>8, <1>9, <1>10, <1>11 DEF Ops

LEMMA TaskSteps ==
  ASSUME NEW op \in Ops, NEW n 
  PROVE n \in Task[op] <=> \/ op \in {"verify", "create", "import"} /\ n \in 1..4
                           \/ op = "unlock_all" /\ n \in 3..4
                           \/ op \in {"change", "migrate"} /\ n \in 2..4
                           \/ op = "adopt" /\ n \in 2..7
BY PathOps DEF Task, Ops

\* Where an attempt is in flight.
TryingHere(op, n, r) ==
    \/ op = "unlock_all" /\ n > 1 /\ r # "gone"
    \/ op \in {"verify", "export", "create", "import"} /\ n = 3
    \/ op \in {"change", "migrate"} /\ n \in 3..4
    \/ op = "adopt" /\ n \in {4, 6, 7}

LEMMA TryingSteps ==
  ASSUME NEW op \in Ops, NEW n \in 0..Length(op), NEW r
  PROVE  (/\ n > 1
          /\ \/ op = "unlock_all" /\ r # "gone"
             \/ /\ op # "unlock_all"
                /\ \E s \in {"check", "check_all", "replace", "finish"} : n # 0 /\ Path[op][n] = s)
         <=> TryingHere(op, n, r)
<1>1. CASE n = 0 BY <1>1 DEF TryingHere
<1>2. CASE n # 0
  <2>1. n \in 1..Length(op) BY <1>2 DEF Length
  <2> QED BY <2>1, Steps DEF TryingHere, Length, Ops
<1> QED BY <1>1, <1>2

--------------------------------------------------------------------------------
(* Requests and their progress. *)

LEMMA RequestFacts ==
  ASSUME NEW r \in Requests
  PROVE  /\ r.op \in Ops
         /\ r.op \notin {"unlock_all", "lock_all"} => r.wallet \in Wallets
         /\ r.op \notin {"lock_all", "rename", "delete"} => r.old \in Passwords /\ r.new \in Passwords
         /\ r.op \notin Rewrites => r.old = r.new
         /\ r.op = "change" => r.old # r.new
<1> DEFINE Asking(op, ws, olds) == [op : {op}, wallet : ws, old : olds, new : olds]
<1>1. PICK op \in Ops :
        r \in CASE op = "change" -> {q \in Asking(op, Wallets, Passwords) : q.old # q.new}
                [] op \in Rewrites \ {"change"} -> Asking(op, Wallets, Passwords)
                [] op = "unlock_all" -> {q \in Asking(op, {None}, Passwords) : q.old = q.new}
                [] op = "lock_all" -> Asking(op, {None}, {None})
                [] op \in {"rename", "delete"} -> Asking(op, Wallets, {None})
                [] OTHER -> {q \in Asking(op, Wallets, Passwords) : q.old = q.new}
  BY PathOps DEF Requests
<1>2. CASE op = "change" BY <1>1, <1>2 DEF Rewrites
<1>3. CASE op \in Rewrites \ {"change"} BY <1>1, <1>3 DEF Rewrites, Ops
<1>4. CASE op = "unlock_all" BY <1>1, <1>4 DEF Rewrites, Ops
<1>5. CASE op = "lock_all" BY <1>1, <1>5 DEF Rewrites, Ops
<1>6. CASE op \in {"rename", "delete"} BY <1>1, <1>6 DEF Rewrites, Ops
<1>7. CASE op \in {"verify", "export", "create", "import"} BY <1>1, <1>7 DEF Rewrites, Ops
<1> QED BY <1>2, <1>3, <1>4, <1>5, <1>6, <1>7 DEF Ops, Rewrites

LEMMA CallFacts ==
  ASSUME Inv, NEW c \in Calls
  PROVE  /\ Op(c) \in Ops /\ at[c] \in 0..Length(Op(c)) /\ result[c] \in {"none", "ok", "failed", "gone"}
         /\ Op(c) \notin {"unlock_all", "lock_all"} => req[c].wallet \in Wallets
         /\ Op(c) \notin {"lock_all", "rename", "delete"} => req[c].old \in Passwords /\ req[c].new \in Passwords
         /\ Op(c) \notin Rewrites => req[c].old = req[c].new
         /\ Op(c) = "change" => req[c].old # req[c].new
         /\ \A w \in Wallets : read[c][w] # None => read[c][w] \in Row
         /\ Read(c) \subseteq Wallets
BY RequestFacts DEF Inv, TypeOK, CallOK, Op, Read

LEMMA AtFacts ==
  ASSUME Inv, NEW c \in Calls
  PROVE  /\ At(c, "find") <=> at[c] = 1 /\ Op(c) \in Naming
         /\ At(c, "load") <=> \/ at[c] = 2 /\ Op(c) \in {"unlock_all", "adopt"}
                              \/ at[c] = 1 /\ Op(c) \in {"create", "import", "change"}
         /\ At(c, "begin") <=> \/ at[c] = 1 /\ Op(c) = "unlock_all"
                               \/ at[c] = 2 /\ Op(c) \in {"verify", "export", "create", "import", "change", "migrate"}
                               \/ at[c] \in {3, 5} /\ Op(c) = "adopt"
         /\ At(c, "check") <=> at[c] = 3 /\ Op(c) \in {"verify", "export"}
         /\ At(c, "check_all") <=> \/ at[c] = 3 /\ Op(c) \in {"unlock_all", "create", "import"}
                                   \/ at[c] = 4 /\ Op(c) = "adopt"
         /\ At(c, "migrate") <=> at[c] = 4 /\ Op(c) \in {"verify", "export", "unlock_all"}
         /\ At(c, "replace") <=> \/ at[c] = 3 /\ Op(c) \in {"change", "migrate"}
                                 \/ at[c] = 6 /\ Op(c) = "adopt"
         /\ At(c, "upsert") <=> at[c] = 4 /\ Op(c) \in {"create", "import"}
         /\ At(c, "update") <=> at[c] = 2 /\ Op(c) = "rename"
         /\ At(c, "delete") <=> at[c] = 2 /\ Op(c) = "delete"
         /\ At(c, "insert") <=> at[c] = 5 /\ Op(c) \in {"verify", "unlock_all", "create", "import"}
         /\ At(c, "finish") <=> \/ at[c] = 6 /\ Op(c) = "unlock_all"
                                \/ at[c] = 4 /\ Op(c) \in {"change", "migrate"}
                                \/ at[c] = 7 /\ Op(c) = "adopt"
         /\ At(c, "lock") <=> \/ at[c] = 1 /\ Op(c) \in {"delete", "lock_all"}
                              \/ at[c] = 5 /\ Op(c) \in {"change", "migrate"}
                              \/ at[c] = 8 /\ Op(c) = "adopt"
<1>1. Op(c) \in Ops /\ at[c] \in 0..Length(Op(c)) BY CallFacts
<1>2. CASE at[c] = 0 BY <1>2 DEF At
<1>3. CASE at[c] # 0
  <2>1. at[c] \in 1..Length(Op(c)) BY <1>1, <1>3 DEF Length
  <2>2. \A s : At(c, s) <=> Path[Op(c)][at[c]] = s BY <1>3 DEF At
  <2> QED BY <1>1, <2>1, <2>2, Steps DEF Naming
<1> QED BY <1>2, <1>3

LEMMA TryingFacts ==
  ASSUME Inv, NEW c \in Calls
  PROVE  Trying(c) <=> TryingHere(Op(c), at[c], result[c])
BY CallFacts, TryingSteps DEF Trying, At

\* What a call does to itself.
Goes(c, n) == /\ at'[c] = n /\ n \in 1..Length(Op(c)) /\ result'[c] = result[c]
              /\ result[c] = "gone" => n \in Task[Op(c)]
Ends(c)    == at'[c] = 0 /\ result'[c] = IF result[c] = "gone" THEN "gone" ELSE "ok"
Fails(c)   == at'[c] = 0 /\ result'[c] = IF result[c] = "gone" THEN "gone" ELSE "failed"
Others(c)  == /\ req' = req
              /\ at' \in [Calls -> 0..8] /\ result' \in [Calls -> {"none", "ok", "failed", "gone"}]
              /\ \A d \in Calls \ {c} : /\ at'[d] = at[d] /\ result'[d] = result[d] /\ read'[d] = read[d]
                                        /\ left'[d] = left[d] /\ row'[d] = row[d] /\ seen'[d] = seen[d]

LEMMA GotoFacts ==
  ASSUME Inv, NEW c \in Calls, NEW n \in 1..11, Goto(c, n)
  PROVE  /\ Goes(c, n) \/ (Ends(c) /\ (n > Length(Op(c)) \/ result[c] = "gone"))
         /\ at' \in [Calls -> 0..8] /\ result' \in [Calls -> {"none", "ok", "failed", "gone"}]
         /\ \A d \in Calls \ {c} : at'[d] = at[d] /\ result'[d] = result[d]
<1>1. Op(c) \in Ops /\ Len(Path[Op(c)]) = Length(Op(c)) /\ Length(Op(c)) \in 1..8
  BY CallFacts, Lens DEF Length
<1>2. at \in [Calls -> 0..8] /\ result \in [Calls -> {"none", "ok", "failed", "gone"}] BY DEF Inv, TypeOK
<1>3. CASE n > Length(Op(c)) \/ (result[c] = "gone" /\ n \notin Task[Op(c)])
  <2>1. Answer(c, "ok") BY <1>1, <1>3 DEF Goto
  <2> QED BY <1>2, <1>3, <2>1 DEF Answer, Ends
<1>4. CASE ~(n > Length(Op(c)) \/ (result[c] = "gone" /\ n \notin Task[Op(c)]))
  <2>1. at' = [at EXCEPT ![c] = n] /\ UNCHANGED result BY <1>1, <1>4 DEF Goto
  <2> QED BY <1>1, <1>2, <1>4, <2>1 DEF Goes
<1> QED BY <1>3, <1>4

LEMMA FailFacts ==
  ASSUME Inv, NEW c \in Calls, Answer(c, "failed")
  PROVE  /\ Fails(c)
         /\ at' \in [Calls -> 0..8] /\ result' \in [Calls -> {"none", "ok", "failed", "gone"}]
         /\ \A d \in Calls \ {c} : at'[d] = at[d] /\ result'[d] = result[d]
BY DEF Inv, TypeOK, Answer, Fails

LEMMA Running ==
  ASSUME Inv, NEW c \in Calls, at[c] # 0
  PROVE  /\ result[c] \in {"none", "gone"}
         /\ at[c] = 1 => ~Begun(c) /\ result[c] = "none" /\ seen[c] = {} /\ Read(c) = {}
         /\ at[c] # 1 => Begun(c) /\ at[c] > 1
         /\ result[c] = "gone" => at[c] \in Task[Op(c)] /\ at[c] - 1 \in Task[Op(c)]
<1>1. Op(c) \in Ops /\ at[c] \in 0..8 /\ result[c] \in {"none", "ok", "failed", "gone"}
  BY CallFacts DEF Inv, TypeOK
<1>2. CallOK(c) BY DEF Inv
<1>3. 0 \notin Task[Op(c)] BY <1>1, TaskSteps
<1>4. at[c] = 1 => result[c] = "none" BY <1>1, <1>2, <1>3 DEF CallOK, InTask
<1> QED BY <1>1, <1>2, <1>4 DEF CallOK, InTask, Begun

LEMMA ArriveFacts ==
  ASSUME Inv, NEW c \in Calls, at[c] # 0, Arrive(c)
  PROVE  /\ row' \in [Calls -> Calls \union {None}] /\ seen' \in [Calls -> SUBSET Calls]
         /\ \A d \in Calls \ {c} : row'[d] = row[d] /\ seen'[d] = seen[d]
         /\ at[c] = 1 => /\ Asks(Op(c), req[c].wallet)
                         /\ seen'[c] = {d \in Calls : result[d] = "ok"}
                         /\ Op(c) \in Naming => stored[req[c].wallet] # None
                                                 /\ row'[c] = stored[req[c].wallet].row
         /\ at[c] # 1 => row' = row /\ seen' = seen
<1>0. TypeOK BY DEF Inv
<1>1. CASE at[c] = 1
  <2>1. ~Begun(c) BY <1>1, Running
  <2>2. /\ Asks(Op(c), req[c].wallet)
        /\ seen' = [seen EXCEPT ![c] = {d \in Calls : result[d] = "ok"}]
        /\ row' = [row EXCEPT ![c] = IF Op(c) \in {"unlock_all", "lock_all"} \/ stored[req[c].wallet] = None
                                     THEN None ELSE stored[req[c].wallet].row]
    BY <2>1 DEF Arrive
  <2>3. Op(c) \in Naming => stored[req[c].wallet] # None BY <2>2 DEF Asks, Naming
  <2>4. \A w \in Wallets : stored[w] # None => stored[w].row \in Calls \union {None}
    BY <1>0 DEF TypeOK, Row
  <2>5. Op(c) \notin {"unlock_all", "lock_all"} => req[c].wallet \in Wallets BY CallFacts
  <2> QED BY <1>0, <1>1, <2>2, <2>3, <2>4, <2>5 DEF TypeOK, Naming
<1>2. CASE at[c] # 1
  <2>1. row' = row /\ seen' = seen BY <1>2, Running DEF Arrive
  <2> QED BY <1>0, <1>2, <2>1 DEF TypeOK
<1> QED BY <1>1, <1>2

\* How a call may go on from where it is.
Onward(c) ==
    \/ at'[c] = 0 /\ result'[c] # "none"
    \/ /\ at'[c] \in 2..Length(Op(c)) /\ result'[c] \in {result[c], "gone"}
       /\ result'[c] = "gone" => at'[c] \in Task[Op(c)] /\ at'[c] - 1 \in Task[Op(c)]

LEMMA CallStays ==
  ASSUME Inv, NEW c \in Calls, at[c] # 0, Others(c), Onward(c),
         \A d \in seen'[c] : d \in Calls /\ result[d] = "ok",
         Op(c) \in Naming /\ (at'[c] > 1 \/ result'[c] = "ok") =>
            read'[c][req[c].wallet] # None /\ read'[c][req[c].wallet].row = row'[c]
  PROVE  \A d \in Calls : CallOK(d)'
<1>1. result[c] \in {"none", "gone"} BY Running
<1>2. ASSUME NEW d \in Calls, d # c PROVE CallOK(d)'
  <2>1. \A e \in seen[d] : result[e] = "ok" /\ e \in Calls BY DEF Inv, CallOK, TypeOK
  <2>2. \A e \in seen'[d] : result'[e] = "ok" BY <1>1, <1>2, <2>1 DEF Others
  <2>3. CallOK(d) BY DEF Inv
  <2>4. /\ Op(d)' = Op(d) /\ Read(d)' = Read(d) /\ InTask(d)' = InTask(d) /\ at'[d] = at[d] /\ result'[d] = result[d]
        /\ row'[d] = row[d] /\ seen'[d] = seen[d] /\ read'[d] = read[d] /\ req' = req
    BY <1>2 DEF Others, Op, Read, InTask
  <2> QED BY <2>2, <2>3, <2>4 DEF CallOK
<1>3. CallOK(c)'
  <2>1. \A e \in seen'[c] : e # c BY <1>1
  <2>2. Op(c)' = Op(c) /\ req' = req BY DEF Others, Op
  <2>3. Op(c) \in Naming => req[c].wallet \in Wallets BY CallFacts DEF Naming
  <2>4. \A e \in seen'[c] : result'[e] = "ok" BY <2>1, CallFacts DEF Others, Inv, TypeOK
  <2>5. at'[c] \in 0..Length(Op(c)) /\ at'[c] # 1 BY CallFacts DEF Onward, Length
  <2>6. result'[c] \in {"ok", "failed"} => at'[c] = 0 BY <1>1 DEF Onward
  <2>7. result'[c] = "gone" /\ at'[c] # 0 => InTask(c)' BY <2>2 DEF Onward, InTask
  <2> QED BY <2>2, <2>3, <2>4, <2>5, <2>6, <2>7 DEF CallOK, Read
<1> QED BY <1>2, <1>3

\* A step leaves the limiter alone and the call trying or not, ends its attempt or begins one.
SerialStep(c) ==
    LET before == TryingHere(Op(c), at[c], result[c])
        after  == TryingHere(Op(c), at'[c], result'[c])
    IN  \/ attempt' = attempt /\ (after <=> before)
        \/ attempt' = None /\ before /\ ~after
        \/ attempt = None /\ attempt' = c /\ after
        \/ attempt' = (IF attempt = c THEN None ELSE attempt) /\ ~after

LEMMA SerialStays ==
  ASSUME Inv, NEW c \in Calls, Others(c), at'[c] \in 0..Length(Op(c)),
         SerialStep(c)
  PROVE  AttemptsAreSerial'
<1>1. Op(c) \in Ops /\ c # None /\ \A d \in Calls : attempt = d <=> Trying(d)
  BY CallFacts, PasswordsAssumption DEF Inv, AttemptsAreSerial
<1>2. Trying(c) <=> TryingHere(Op(c), at[c], result[c]) BY TryingFacts
<1>3. Trying(c)' <=> TryingHere(Op(c), at'[c], result'[c])
  <2>1. Op(c)' = Op(c) BY DEF Others, Op
  <2>2. PICK n, r : n = at'[c] /\ r = result'[c] OBVIOUS
  <2> QED BY <1>1, <2>1, <2>2, TryingSteps DEF Trying, At
<1>4. ASSUME NEW d \in Calls, d # c PROVE Trying(d)' <=> Trying(d)
  BY <1>4 DEF Others, Trying, At, Op
<1>5. ASSUME NEW d \in Calls PROVE attempt' = d <=> Trying(d)'
  <2>1. CASE d = c BY <1>1, <1>2, <1>3, <2>1, PasswordsAssumption DEF SerialStep
  <2>2. CASE d # c BY <1>1, <1>2, <1>4, <2>2, PasswordsAssumption DEF SerialStep
  <2> QED BY <2>1, <2>2
<1> QED BY <1>5 DEF AttemptsAreSerial

\* Calls that go on, end or fail where they are, reading nothing: nearly every access.
LEMMA QuietStays ==
  ASSUME Inv, NEW c \in Calls, at[c] # 0, at[c] # 1 \/ Op(c) \in {"unlock_all", "lock_all", "delete"},
         Others(c), Onward(c), UNCHANGED read, row'[c] = row[c] \/ Op(c) \notin Naming,
         \A d \in seen'[c] : d \in Calls /\ result[d] = "ok"
  PROVE  \A d \in Calls : CallOK(d)'
<1>1. CallOK(c) BY DEF Inv
<1>2. at[c] # 1 => at[c] > 1 BY Running
<1>3. Op(c) \in Naming => /\ req[c].wallet \in Wallets /\ read[c][req[c].wallet] # None
                          /\ read[c][req[c].wallet].row = row[c] /\ row'[c] = row[c]
  BY <1>1, <1>2 DEF CallOK, Read, Naming
<1> QED BY <1>3, CallStays

\* The next access, or the end.
LEMMA AdvanceFacts ==
  ASSUME Inv, NEW c \in Calls, at[c] # 0, NEW k \in {1, 3}, Goto(c, at[c] + k), UNCHANGED req,
         k = 3 => at[c] + 2 \in Task[Op(c)]
  PROVE  /\ Onward(c)
         /\ \/ at'[c] = at[c] + k /\ result'[c] = result[c]
            \/ at'[c] = 0 /\ result'[c] \in {"ok", "gone"}
         /\ at'[c] \in 0..Length(Op(c))
         /\ \/ Goes(c, at[c] + k)
            \/ Ends(c) /\ (at[c] + k > Length(Op(c)) \/ result[c] = "gone")
         /\ at' \in [Calls -> 0..8] /\ result' \in [Calls -> {"none", "ok", "failed", "gone"}]
         /\ \A d \in Calls \ {c} : at'[d] = at[d] /\ result'[d] = result[d]
<1>1. at[c] \in 1..8 /\ at[c] + k \in 1..11 /\ at[c] + k # 1 BY DEF Inv, TypeOK
<1>2. /\ \/ Goes(c, at[c] + k)
         \/ Ends(c) /\ (at[c] + k > Length(Op(c)) \/ result[c] = "gone")
      /\ at' \in [Calls -> 0..8] /\ result' \in [Calls -> {"none", "ok", "failed", "gone"}]
      /\ \A d \in Calls \ {c} : at'[d] = at[d] /\ result'[d] = result[d]
  BY <1>1, GotoFacts
<1>3. result[c] \in {"none", "gone"} /\ (result[c] = "gone" => at[c] \in Task[Op(c)]) BY Running
<1>4. Op(c) \in Ops /\ Length(Op(c)) \in Nat BY CallFacts DEF Length
<1>5. CASE Ends(c) BY <1>2, <1>3, <1>4, <1>5 DEF Ends, Onward
<1>6. CASE Goes(c, at[c] + k)
  <2>1. result[c] = "gone" => at[c] + k - 1 \in Task[Op(c)] BY <1>1, <1>3
  <2> QED BY <1>1, <1>2, <1>3, <1>4, <1>6, <2>1 DEF Goes, Onward
<1> QED BY <1>2, <1>5, <1>6

LEMMA FindStep ==
  ASSUME Inv, NEW c \in Calls, Find(c)
  PROVE  /\ Inv' /\ Others(c) /\ UNCHANGED <<stored, sessions>>
         /\ at[c] = 1 /\ Op(c) \in Naming /\ seen'[c] = {d \in Calls : result[d] = "ok"}
         /\ Goes(c, 2) /\ stored[req[c].wallet] # None /\ req[c].wallet \in Wallets
         /\ \A w \in Wallets : read'[c][w] = IF w = req[c].wallet THEN stored[w] ELSE None
<1>0. /\ at[c] = 1 /\ at[c] # 0 /\ Op(c) \in Naming /\ result[c] = "none" /\ Read(c) = {}
      /\ req[c].wallet \in Wallets /\ TypeOK /\ Op(c) \in Ops
  BY AtFacts, Running, CallFacts DEF Find, Inv, Naming
<1>1. /\ row' \in [Calls -> Calls \union {None}] /\ seen' \in [Calls -> SUBSET Calls]
      /\ \A d \in Calls \ {c} : row'[d] = row[d] /\ seen'[d] = seen[d]
      /\ seen'[c] = {d \in Calls : result[d] = "ok"}
      /\ stored[req[c].wallet] # None /\ row'[c] = stored[req[c].wallet].row
  BY <1>0, ArriveFacts DEF Find
<1>2. UNCHANGED <<stored, sessions, attempt, failures, blocked, req, left>> BY DEF Find, limiter
<1>3. read' = [read EXCEPT ![c][req[c].wallet] = stored[req[c].wallet]] /\ Goto(c, at[c] + 1)
  BY DEF Find, Advance
<1>4. /\ Onward(c) /\ at'[c] \in 0..Length(Op(c)) /\ (Goes(c, 2) \/ (Ends(c) /\ 2 > Length(Op(c))))
      /\ at' \in [Calls -> 0..8] /\ result' \in [Calls -> {"none", "ok", "failed", "gone"}]
      /\ \A d \in Calls \ {c} : at'[d] = at[d] /\ result'[d] = result[d]
  BY <1>0, <1>2, <1>3, AdvanceFacts
<1>5. Goes(c, 2) BY <1>0, <1>4 DEF Length, Naming
<1>6. /\ read' \in [Calls -> [Wallets -> Row \union {None}]]
      /\ \A d \in Calls \ {c} : read'[d] = read[d]
      /\ \A w \in Wallets : read'[c][w] = IF w = req[c].wallet THEN stored[w] ELSE None
  BY <1>0, <1>3 DEF TypeOK, Read
<1>7. Others(c) BY <1>1, <1>2, <1>4, <1>6 DEF Others
<1>8. \A d \in Calls : CallOK(d)' BY <1>0, <1>1, <1>4, <1>6, <1>7, CallStays
<1>9. AttemptsAreSerial'
  BY <1>0, <1>2, <1>4, <1>5, <1>7, SerialStays DEF SerialStep, Goes, TryingHere, Naming
<1>10. TypeOK' BY <1>0, <1>1, <1>2, <1>4, <1>6 DEF TypeOK
<1> QED BY <1>0, <1>1, <1>2, <1>5, <1>6, <1>7, <1>8, <1>9, <1>10 DEF Inv

LEMMA LoadStep ==
  ASSUME Inv, NEW c \in Calls, Load(c)
  PROVE  /\ Inv' /\ Others(c) /\ UNCHANGED <<stored, sessions>>
         /\ \/ at[c] = 1 /\ Op(c) \in {"create", "import", "change"} /\ seen'[c] = {d \in Calls : result[d] = "ok"}
               /\ Asks(Op(c), req[c].wallet)
            \/ at[c] = 2 /\ Op(c) \in {"unlock_all", "adopt"} /\ seen' = seen
         /\ \A w \in Wallets : read'[c][w] = IF read[c][w] # None THEN read[c][w] ELSE stored[w]
         /\ \/ Goes(c, at[c] + 1)
            \/ Goes(c, at[c] + 3) /\ Op(c) \in {"create", "import", "adopt"}
                 /\ \A w \in Wallets : read[c][w] = None => stored[w] = None
            \/ Fails(c) /\ Op(c) = "unlock_all"
<1> DEFINE others == {w \in Wallets \ Read(c) : stored[w] # None}
<1>0. /\ \/ at[c] = 2 /\ Op(c) \in {"unlock_all", "adopt"}
         \/ at[c] = 1 /\ Op(c) \in {"create", "import", "change"}
      /\ at[c] # 0 /\ TypeOK /\ Op(c) \in Ops /\ Read(c) \subseteq Wallets
  BY AtFacts, CallFacts DEF Load, Inv
<1>1. result[c] = "none" BY <1>0, Running, TaskSteps
<1>2. /\ row' \in [Calls -> Calls \union {None}] /\ seen' \in [Calls -> SUBSET Calls]
      /\ \A d \in Calls \ {c} : row'[d] = row[d] /\ seen'[d] = seen[d]
      /\ at[c] = 1 => seen'[c] = {d \in Calls : result[d] = "ok"} /\ Asks(Op(c), req[c].wallet)
      /\ at[c] # 1 => row' = row /\ seen' = seen
  BY <1>0, ArriveFacts DEF Load
<1>3. /\ read' = [read EXCEPT ![c] = [w \in Wallets |-> IF w \in Read(c) THEN @[w] ELSE stored[w]]]
      /\ UNCHANGED <<stored, sessions, req, left>>
      /\ CASE Op(c) \in {"create", "import", "adopt"} ->
                Goto(c, IF others = {} THEN at[c] + 3 ELSE at[c] + 1) /\ UNCHANGED limiter
           [] Op(c) = "unlock_all" /\ others = {} -> Answer(c, "failed") /\ Failed
           [] OTHER -> Advance(c) /\ UNCHANGED limiter
  BY DEF Load
<1>4. /\ read' \in [Calls -> [Wallets -> Row \union {None}]]
      /\ \A d \in Calls \ {c} : read'[d] = read[d]
      /\ \A w \in Wallets : read'[c][w] = IF read[c][w] # None THEN read[c][w] ELSE stored[w]
  BY <1>0, <1>3 DEF TypeOK, Read
<1>5. others = {} <=> \A w \in Wallets : read[c][w] = None => stored[w] = None
  BY DEF Read
<1> HIDE DEF others
<1>6. ASSUME NEW k \in {1, 3}, Goto(c, at[c] + k), UNCHANGED limiter,
             k = 3 => Op(c) \in {"create", "import", "adopt"}
      PROVE  /\ Goes(c, at[c] + k) /\ Others(c) /\ Inv'
  <2>1. k = 3 => at[c] + 2 \in Task[Op(c)] BY <1>0, <1>6, TaskSteps
  <2>2. /\ Onward(c) /\ at'[c] \in 0..Length(Op(c))
        /\ Goes(c, at[c] + k) \/ (Ends(c) /\ at[c] + k > Length(Op(c)))
        /\ at' \in [Calls -> 0..8] /\ result' \in [Calls -> {"none", "ok", "failed", "gone"}]
        /\ \A d \in Calls \ {c} : at'[d] = at[d] /\ result'[d] = result[d]
    BY <1>0, <1>1, <1>3, <1>6, <2>1, AdvanceFacts
  <2>3. Goes(c, at[c] + k) BY <1>0, <1>6, <2>2 DEF Length
  <2>4. Others(c) BY <1>2, <1>3, <1>4, <2>2 DEF Others
  <2>5. \A d \in seen'[c] : d \in Calls /\ result[d] = "ok"
    BY <1>0, <1>2 DEF Inv, CallOK, TypeOK
  <2>6. Op(c) \in Naming => /\ req[c].wallet \in Wallets /\ read[c][req[c].wallet] # None
                            /\ read[c][req[c].wallet].row = row[c] /\ row'[c] = row[c]
    BY <1>0, <1>2, CallFacts DEF Naming, Inv, CallOK, Read
  <2>7. \A d \in Calls : CallOK(d)' BY <1>0, <1>4, <2>2, <2>4, <2>5, <2>6, CallStays
  <2>8. AttemptsAreSerial'
    BY <1>0, <1>1, <1>6, <2>2, <2>3, <2>4, SerialStays DEF SerialStep, Goes, TryingHere, limiter
  <2>9. TypeOK' BY <1>0, <1>2, <1>3, <1>4, <1>6, <2>2 DEF TypeOK, limiter
  <2> QED BY <2>3, <2>4, <2>7, <2>8, <2>9 DEF Inv
<1>7. CASE Op(c) = "unlock_all" /\ others = {}
  <2>1. Answer(c, "failed") /\ Failed BY <1>3, <1>7
  <2>2. /\ Fails(c) /\ Onward(c) /\ at'[c] = 0
        /\ at' \in [Calls -> 0..8] /\ result' \in [Calls -> {"none", "ok", "failed", "gone"}]
        /\ \A d \in Calls \ {c} : at'[d] = at[d] /\ result'[d] = result[d]
    BY <1>1, <2>1, FailFacts DEF Fails, Onward
  <2>3. Others(c) BY <1>2, <1>3, <1>4, <2>2 DEF Others
  <2>4. \A d \in seen'[c] : d \in Calls /\ result[d] = "ok"
    BY <1>0, <1>2, <1>7 DEF Inv, CallOK, TypeOK
  <2>5. \A d \in Calls : CallOK(d)' BY <1>0, <1>7, <2>2, <2>3, <2>4, CallStays DEF Naming
  <2>6. AttemptsAreSerial'
    <3>1. attempt' = None /\ TryingHere(Op(c), at[c], result[c]) /\ ~TryingHere(Op(c), at'[c], result'[c])
      BY <1>0, <1>1, <1>7, <2>1, <2>2 DEF Failed, TryingHere
    <3> QED BY <2>2, <2>3, <3>1, SerialStays DEF SerialStep, Length
  <2>7. TypeOK' BY <1>0, <1>2, <1>3, <1>4, <2>1, <2>2, PasswordsAssumption DEF TypeOK, Failed
  <2> QED BY <1>0, <1>2, <1>3, <1>4, <1>7, <2>2, <2>3, <2>5, <2>6, <2>7 DEF Inv
<1>8. CASE ~(Op(c) = "unlock_all" /\ others = {})
  <2>1. PICK k \in {1, 3} : /\ Goto(c, at[c] + k) /\ UNCHANGED limiter
                            /\ k = 3 => Op(c) \in {"create", "import", "adopt"} /\ others = {}
    <3>1. CASE Op(c) \in {"create", "import", "adopt"} BY <1>3, <3>1
    <3>2. CASE Op(c) \notin {"create", "import", "adopt"} BY <1>3, <1>8, <3>2 DEF Advance
    <3> QED BY <3>1, <3>2
  <2>2. Goes(c, at[c] + k) /\ Others(c) /\ Inv' BY <1>6, <2>1
  <2> QED BY <1>0, <1>2, <1>3, <1>4, <1>5, <2>1, <2>2
<1> QED BY <1>7, <1>8

LEMMA LimiterType ==
  ASSUME TypeOK, NEW c \in Calls, Failed \/ Dropped(c) \/ Succeeded \/ UNCHANGED limiter
  PROVE  attempt' \in Calls \union {None} /\ failures' \in Nat /\ blocked' \in BOOLEAN
<1>1. CASE Failed
  <2>1. attempt' \in Calls \union {None} BY <1>1 DEF Failed
  <2>2. failures' \in Nat
    <3>1. failures' = IF failures < FreeFailures THEN failures + 1 ELSE failures BY <1>1 DEF Failed
    <3> QED BY <3>1 DEF TypeOK
  <2>3. blocked' \in BOOLEAN
    <3>1. blocked' = (blocked \/ failures >= FreeFailures) BY <1>1 DEF Failed
    <3> QED BY <3>1, Zenon
  <2> QED BY <2>1, <2>2, <2>3
<1>2. CASE Dropped(c) BY <1>2 DEF Dropped, TypeOK
<1>3. CASE Succeeded BY <1>3 DEF Succeeded
<1>4. CASE UNCHANGED limiter BY <1>4 DEF limiter, TypeOK
<1> QED BY <1>1, <1>2, <1>3, <1>4

LEMMA QuietInvAtFirst ==
  ASSUME Inv, NEW c \in Calls, at[c] # 0, at[c] # 1 \/ Op(c) \in {"unlock_all", "lock_all", "delete"},
         Advance(c) \/ Answer(c, "failed"), UNCHANGED <<req, read>>,
         seen' \in [Calls -> SUBSET Calls], \A d \in Calls \ {c} : seen'[d] = seen[d],
         \A d \in seen'[c] : result[d] = "ok",
         row' \in [Calls -> Calls \union {None}], \A d \in Calls \ {c} : row'[d] = row[d],
         row'[c] = row[c] \/ Op(c) \notin Naming,
         left' \in [Calls -> SUBSET Wallets], \A d \in Calls \ {c} : left'[d] = left[d],
         stored' \in [Wallets -> Row \union {None}],
         sessions' \subseteq [wallet : Wallets, row : Calls \union {None}, by : Calls],
         attempt' \in Calls \union {None}, failures' \in Nat, blocked' \in BOOLEAN
  PROVE  /\ Others(c)
         /\ Advance(c) => Goes(c, at[c] + 1) \/ (Ends(c) /\ (at[c] + 1 > Length(Op(c)) \/ result[c] = "gone"))
         /\ Answer(c, "failed") => Fails(c)
         /\ SerialStep(c) => Inv'
<1>1. TypeOK /\ at[c] \in 0..8 BY DEF Inv, TypeOK
<1>2. result[c] \in {"none", "gone"} BY Running
<1>3. /\ at' \in [Calls -> 0..8] /\ result' \in [Calls -> {"none", "ok", "failed", "gone"}]
      /\ \A d \in Calls \ {c} : at'[d] = at[d] /\ result'[d] = result[d]
      /\ Onward(c) /\ at'[c] \in 0..Length(Op(c))
  <2>1. CASE Advance(c) BY <1>1, <2>1, AdvanceFacts DEF Advance
  <2>2. CASE Answer(c, "failed")
    <3>1. Length(Op(c)) \in Nat BY DEF Length
    <3> QED BY <1>2, <2>2, <3>1, FailFacts DEF Fails, Onward
  <2> QED BY <2>1, <2>2
<1>4. Others(c) BY <1>3 DEF Others
<1>5. \A d \in seen'[c] : d \in Calls /\ result[d] = "ok" OBVIOUS
<1>6. \A d \in Calls : CallOK(d)' BY <1>1, <1>3, <1>4, <1>5, QuietStays
<1>7. TypeOK' BY <1>1, <1>3 DEF TypeOK
<1>8. SerialStep(c) => AttemptsAreSerial' BY <1>3, <1>4, SerialStays
<1>9. Advance(c) => Goes(c, at[c] + 1) \/ (Ends(c) /\ (at[c] + 1 > Length(Op(c)) \/ result[c] = "gone"))
  BY AdvanceFacts DEF Advance
<1>10. Answer(c, "failed") => Fails(c) BY FailFacts
<1> QED BY <1>4, <1>6, <1>7, <1>8, <1>9, <1>10 DEF Inv

LEMMA QuietInv ==
  ASSUME Inv, NEW c \in Calls, at[c] > 1, Advance(c) \/ Answer(c, "failed"), UNCHANGED <<req, seen, read>>,
         row' \in [Calls -> Calls \union {None}], \A d \in Calls \ {c} : row'[d] = row[d],
         row'[c] = row[c] \/ Op(c) \notin Naming,
         left' \in [Calls -> SUBSET Wallets], \A d \in Calls \ {c} : left'[d] = left[d],
         stored' \in [Wallets -> Row \union {None}],
         sessions' \subseteq [wallet : Wallets, row : Calls \union {None}, by : Calls],
         attempt' \in Calls \union {None}, failures' \in Nat, blocked' \in BOOLEAN
  PROVE  /\ Others(c)
         /\ Advance(c) => Goes(c, at[c] + 1) \/ (Ends(c) /\ (at[c] + 1 > Length(Op(c)) \/ result[c] = "gone"))
         /\ Answer(c, "failed") => Fails(c)
         /\ SerialStep(c) => Inv'
<1>1. TypeOK /\ at[c] \in 0..8 BY DEF Inv, TypeOK
<1>2. at[c] # 0 /\ at[c] # 1 BY <1>1
<1>3. /\ seen' \in [Calls -> SUBSET Calls] /\ (\A d \in Calls \ {c} : seen'[d] = seen[d])
      /\ \A d \in seen'[c] : result[d] = "ok"
  BY <1>1 DEF Inv, TypeOK, CallOK
<1> QED BY <1>2, <1>3, QuietInvAtFirst

LEMMA ReencryptedType ==
  ASSUME Inv, NEW c \in Calls, NEW w \in Wallets, read[c][w] # None, NEW pw \in Passwords
  PROVE  /\ Reencrypted(c, w, pw) \in Row
         /\ Reencrypted(c, w, pw).pw = pw /\ Reencrypted(c, w, pw).made = c
         /\ Reencrypted(c, w, pw).row = read[c][w].row /\ Reencrypted(c, w, pw).named = read[c][w].named
<1> DEFINE one == [read[c][w] EXCEPT !.pw = pw]
           two == [one EXCEPT !.made = c]
           all == [two EXCEPT !.legacy = FALSE]
<1>1. read[c][w] \in Row BY CallFacts
<1>2. one \in Row /\ one.pw = pw /\ one.row = read[c][w].row /\ one.named = read[c][w].named BY <1>1 DEF Row
<1> HIDE DEF one
<1>3. two \in Row /\ two.pw = pw /\ two.made = c /\ two.row = read[c][w].row /\ two.named = read[c][w].named
  BY <1>2 DEF Row
<1> HIDE DEF two
<1>4. /\ all \in Row /\ all.pw = pw /\ all.made = c /\ all.row = read[c][w].row
      /\ all.named = read[c][w].named
  BY <1>3 DEF Row
<1>5. Reencrypted(c, w, pw) = all BY Zenon DEF Reencrypted, one, two
<1> HIDE DEF all
<1> QED BY <1>4, <1>5

\* A rewrite has read what it rewrites.
LEMMA RewrittenRead ==
  ASSUME Inv, NEW c \in Calls, at[c] > 1, Op(c) \in Rewrites
  PROVE  Rewritten(c) \subseteq Read(c) /\ Rewritten(c) \subseteq Wallets
<1>1. Read(c) \subseteq Wallets /\ CallOK(c) BY CallFacts DEF Inv
<1> QED BY <1>1 DEF CallOK, Naming, Rewrites, Rewritten

\* A call replaces ciphertexts it has read by ones of its own.
Rewrites1(c, ws, pw) ==
    /\ ws \subseteq Read(c) /\ pw \in Passwords
    /\ \A w \in Wallets :
         IF w \in ws THEN stored[w] = read[c][w] /\ stored'[w] = Reencrypted(c, w, pw)
         ELSE stored'[w] = stored[w]

LEMMA WriteFacts ==
  ASSUME Inv, NEW c \in Calls, NEW ws, NEW pw \in Passwords, ws \subseteq Read(c), Matches(c, ws), Write(c, ws, pw)
  PROVE  Rewrites1(c, ws, pw) /\ stored' \in [Wallets -> Row \union {None}]
<1>1. \A w \in ws : w \in Wallets /\ read[c][w] # None BY DEF Read
<1>2. \A w \in ws : Reencrypted(c, w, pw) \in Row BY <1>1, ReencryptedType
<1>3. stored \in [Wallets -> Row \union {None}] BY DEF Inv, TypeOK
<1> QED BY <1>1, <1>2, <1>3 DEF Write, Matches, Rewrites1

LEMMA ReplaceStep ==
  ASSUME Inv, NEW c \in Calls, Replace(c)
  PROVE  /\ Inv' /\ Others(c) /\ UNCHANGED <<sessions, row, seen, read, left>>
         /\ at[c] = WriteAt(Op(c)) /\ Op(c) \in Rewrites
         /\ \/ Goes(c, at[c] + 1) /\ Rewrites1(c, Rewritten(c), req[c].new)
            \/ Fails(c) /\ UNCHANGED stored
<1>0. /\ at[c] = WriteAt(Op(c)) /\ Op(c) \in Rewrites /\ at[c] > 1 /\ TypeOK /\ Op(c) \in Ops
      /\ at[c] + 1 <= Length(Op(c)) /\ at[c] + 1 \in Task[Op(c)]
      /\ (at[c] = 3 /\ Op(c) \in {"change", "migrate"}) \/ (at[c] = 6 /\ Op(c) = "adopt")
      /\ req[c].new \in Passwords /\ result[c] \in {"none", "gone"}
  <2>1. (at[c] = 3 /\ Op(c) \in {"change", "migrate"}) \/ (at[c] = 6 /\ Op(c) = "adopt")
    BY AtFacts DEF Replace
  <2> QED BY <2>1, CallFacts, Running, TaskSteps DEF Replace, Inv, WriteAt, Rewrites, Length
<1>1. /\ \/ /\ Advance(c) /\ UNCHANGED limiter
            /\ Matches(c, Rewritten(c)) /\ Write(c, Rewritten(c), req[c].new)
         \/ Answer(c, "failed") /\ UNCHANGED stored /\ (Failed \/ Dropped(c))
      /\ UNCHANGED <<sessions, req, row, seen, read, left>>
  BY DEF Replace, calls
<1>2. CASE /\ Advance(c) /\ UNCHANGED limiter
           /\ Matches(c, Rewritten(c)) /\ Write(c, Rewritten(c), req[c].new)
  <2>1. Rewrites1(c, Rewritten(c), req[c].new) /\ stored' \in [Wallets -> Row \union {None}]
    BY <1>0, <1>2, RewrittenRead, WriteFacts
  <2>2. Others(c) /\ (SerialStep(c) => Inv')
        /\ (Goes(c, at[c] + 1) \/ (Ends(c) /\ (at[c] + 1 > Length(Op(c)) \/ result[c] = "gone")))
    BY <1>0, <1>1, <1>2, <2>1, QuietInv DEF TypeOK, limiter
  <2>3. Goes(c, at[c] + 1)
    <3>1. Goto(c, at[c] + 1) /\ Len(Path[Op(c)]) = Length(Op(c)) BY <1>0, <1>2, Lens DEF Advance
    <3>2. ~(at[c] + 1 > Len(Path[Op(c)]) \/ (result[c] = "gone" /\ at[c] + 1 \notin Task[Op(c)]))
      BY <1>0, <3>1
    <3>3. at' = [at EXCEPT ![c] = at[c] + 1] /\ UNCHANGED result BY <3>1, <3>2 DEF Goto
    <3> QED BY <1>0, <3>1, <3>3 DEF Goes, TypeOK
  <2>4. SerialStep(c) BY <1>0, <1>2, <2>3 DEF SerialStep, Goes, TryingHere, limiter
  <2> QED BY <1>0, <1>1, <2>1, <2>2, <2>3, <2>4
<1>3. CASE Answer(c, "failed") /\ UNCHANGED stored /\ (Failed \/ Dropped(c))
  <2>1. attempt' \in Calls \union {None} /\ failures' \in Nat /\ blocked' \in BOOLEAN
    BY <1>0, <1>3, LimiterType
  <2>2. Others(c) /\ Fails(c) /\ (SerialStep(c) => Inv')
    BY <1>0, <1>1, <1>3, <2>1, QuietInv DEF TypeOK
  <2>3. SerialStep(c)
    <3>1. TryingHere(Op(c), at[c], result[c]) /\ ~TryingHere(Op(c), at'[c], result'[c])
      BY <1>0, <2>2 DEF Fails, TryingHere
    <3> QED BY <1>3, <3>1 DEF SerialStep, Failed, Dropped
  <2> QED BY <1>0, <1>1, <1>3, <2>2, <2>3
<1> QED BY <1>1, <1>2, <1>3

LEMMA MigrateStep ==
  ASSUME Inv, NEW c \in Calls, Migrate(c)
  PROVE  /\ Inv' /\ Others(c) /\ UNCHANGED <<sessions, row, seen, read>>
         /\ at[c] = 4 /\ Op(c) \in {"verify", "export", "unlock_all"}
         /\ \/ /\ Goes(c, 5) \/ (Ends(c) /\ (Op(c) = "export" \/ result[c] = "gone"))
               /\ \E ws : Rewrites1(c, ws, req[c].old)
               /\ left'[c] = Read(c)
            \/ Fails(c) /\ UNCHANGED stored
<1> DEFINE old == {w \in Read(c) : read[c][w].legacy}
<1>0. /\ at[c] = 4 /\ Op(c) \in {"verify", "export", "unlock_all"} /\ at[c] > 1 /\ TypeOK
      /\ req[c].old \in Passwords /\ result[c] \in {"none", "gone"} /\ Read(c) \subseteq Wallets
  BY AtFacts, CallFacts, Running DEF Migrate, Inv
<1>1. /\ \/ /\ Advance(c) /\ UNCHANGED limiter /\ left' = [left EXCEPT ![c] = Read(c)]
            /\ Matches(c, old) /\ Write(c, old, req[c].old)
         \/ /\ Answer(c, "failed") /\ UNCHANGED <<stored, left>>
            /\ IF attempt = c THEN Failed ELSE UNCHANGED limiter
      /\ UNCHANGED <<sessions, req, row, seen, read>>
  BY DEF Migrate, calls
<1>2. old \subseteq Read(c) OBVIOUS
<1> HIDE DEF old
<1>3. CASE /\ Advance(c) /\ UNCHANGED limiter /\ left' = [left EXCEPT ![c] = Read(c)]
           /\ Matches(c, old) /\ Write(c, old, req[c].old)
  <2>1. Rewrites1(c, old, req[c].old) /\ stored' \in [Wallets -> Row \union {None}]
    BY <1>0, <1>2, <1>3, WriteFacts
  <2>2. left' \in [Calls -> SUBSET Wallets] /\ (\A d \in Calls \ {c} : left'[d] = left[d]) /\ left'[c] = Read(c)
    BY <1>0, <1>3 DEF TypeOK
  <2>3. Others(c) /\ (SerialStep(c) => Inv')
        /\ (Goes(c, at[c] + 1) \/ (Ends(c) /\ (at[c] + 1 > Length(Op(c)) \/ result[c] = "gone")))
    BY <1>0, <1>1, <1>3, <2>1, <2>2, QuietInv, LimiterType DEF TypeOK
  <2>4. Goes(c, 5) \/ (Ends(c) /\ (Op(c) = "export" \/ result[c] = "gone"))
    BY <1>0, <2>3 DEF Length
  <2>5. SerialStep(c) BY <1>0, <1>3, <2>4 DEF SerialStep, Goes, Ends, TryingHere, limiter
  <2> QED BY <1>0, <1>1, <2>1, <2>2, <2>3, <2>4, <2>5
<1>4. CASE /\ Answer(c, "failed") /\ UNCHANGED <<stored, left>>
           /\ IF attempt = c THEN Failed ELSE UNCHANGED limiter
  <2>1. Others(c) /\ Fails(c) /\ (SerialStep(c) => Inv')
    BY <1>0, <1>1, <1>4, QuietInv, LimiterType DEF TypeOK
  <2>2. SerialStep(c)
    <3>1. attempt = c <=> TryingHere(Op(c), at[c], result[c]) BY TryingFacts DEF Inv, AttemptsAreSerial
    <3>2. ~TryingHere(Op(c), at'[c], result'[c]) BY <1>0, <2>1 DEF Fails, TryingHere
    <3> QED BY <1>4, <3>1, <3>2 DEF SerialStep, Failed, limiter
  <2> QED BY <1>0, <1>1, <1>4, <2>1, <2>2
<1> QED BY <1>1, <1>3, <1>4

LEMMA UpsertStep ==
  ASSUME Inv, NEW c \in Calls, Upsert(c)
  PROVE  /\ Inv' /\ Others(c) /\ UNCHANGED <<sessions, seen, read>>
         /\ at[c] = 4 /\ Op(c) \in {"create", "import"} /\ req[c].wallet \in Wallets
         /\ Goes(c, 5) \/ (Ends(c) /\ result[c] = "gone")
         /\ stored' = [stored EXCEPT ![req[c].wallet] =
                         [pw |-> req[c].new, legacy |-> FALSE, made |-> c, named |-> c,
                          row |-> IF stored[req[c].wallet] = None THEN c ELSE stored[req[c].wallet].row]]
         /\ left'[c] = {req[c].wallet}
<1> DEFINE id == IF stored[req[c].wallet] = None THEN c ELSE stored[req[c].wallet].row
<1>0. /\ at[c] = 4 /\ Op(c) \in {"create", "import"} /\ at[c] > 1 /\ TypeOK /\ req[c].wallet \in Wallets
      /\ req[c].new \in Passwords /\ result[c] \in {"none", "gone"}
  BY AtFacts, CallFacts, Running DEF Upsert, Inv
<1>1. /\ stored' = [stored EXCEPT ![req[c].wallet] = [pw |-> req[c].new, legacy |-> FALSE, made |-> c, named |-> c,
                                                      row |-> id]]
      /\ row' = [row EXCEPT ![c] = id] /\ left' = [left EXCEPT ![c] = {req[c].wallet}] /\ Advance(c)
      /\ UNCHANGED <<sessions, limiter, req, read, seen>>
  BY DEF Upsert
<1>2. id \in Calls \union {None} BY <1>0 DEF TypeOK, Row
<1> HIDE DEF id
<1>3. /\ stored' \in [Wallets -> Row \union {None}]
      /\ row' \in [Calls -> Calls \union {None}] /\ left' \in [Calls -> SUBSET Wallets]
      /\ \A d \in Calls \ {c} : row'[d] = row[d] /\ left'[d] = left[d]
      /\ left'[c] = {req[c].wallet}
  BY <1>0, <1>1, <1>2 DEF TypeOK, Row
<1>4. Others(c) /\ (SerialStep(c) => Inv')
      /\ (Goes(c, at[c] + 1) \/ (Ends(c) /\ (at[c] + 1 > Length(Op(c)) \/ result[c] = "gone")))
  BY <1>0, <1>1, <1>3, QuietInv, LimiterType DEF TypeOK, Naming
<1>5. Goes(c, 5) \/ (Ends(c) /\ result[c] = "gone") BY <1>0, <1>4 DEF Length
<1>6. SerialStep(c) BY <1>0, <1>1, <1>5 DEF SerialStep, Goes, Ends, TryingHere, limiter
<1> QED BY <1>0, <1>1, <1>3, <1>4, <1>5, <1>6 DEF id

LEMMA UpdateStep ==
  ASSUME Inv, NEW c \in Calls, Update(c)
  PROVE  /\ Inv' /\ Others(c) /\ UNCHANGED <<sessions, row, seen, read, left>>
         /\ at[c] = 2 /\ Op(c) = "rename" /\ req[c].wallet \in Read(c) /\ req[c].wallet \in Wallets
         /\ \/ /\ Ends(c) /\ stored[req[c].wallet] # None
               /\ stored[req[c].wallet].row = read[c][req[c].wallet].row
               /\ stored' = [stored EXCEPT ![req[c].wallet] = [read[c][req[c].wallet] EXCEPT !.named = c]]
            \/ Fails(c) /\ UNCHANGED stored
<1>0. /\ at[c] = 2 /\ Op(c) = "rename" /\ at[c] > 1 /\ TypeOK /\ req[c].wallet \in Wallets
      /\ result[c] \in {"none", "gone"} /\ CallOK(c)
  BY AtFacts, CallFacts, Running DEF Update, Inv
<1>1. /\ \/ /\ Advance(c) /\ Present(req[c].wallet, row[c])
            /\ stored' = [stored EXCEPT ![req[c].wallet] = [read[c][req[c].wallet] EXCEPT !.named = c]]
         \/ Answer(c, "failed") /\ UNCHANGED stored
      /\ UNCHANGED <<sessions, limiter, req, row, seen, read, left>>
  BY DEF Update, calls
<1>2. req[c].wallet \in Read(c) /\ read[c][req[c].wallet] \in Row /\ read[c][req[c].wallet].row = row[c]
  BY <1>0, CallFacts DEF CallOK, Naming, Read
<1>3. stored' \in [Wallets -> Row \union {None}]
  <2>1. [read[c][req[c].wallet] EXCEPT !.named = c] \in Row BY <1>2 DEF Row
  <2> QED BY <1>0, <1>1, <2>1 DEF TypeOK
<1>4. /\ Others(c) /\ (SerialStep(c) => Inv')
      /\ Advance(c) => (Goes(c, at[c] + 1) \/ (Ends(c) /\ (at[c] + 1 > Length(Op(c)) \/ result[c] = "gone")))
      /\ Answer(c, "failed") => Fails(c)
  BY <1>0, <1>1, <1>3, QuietInv, LimiterType DEF TypeOK
<1>5. Advance(c) => Ends(c) BY <1>0, <1>4 DEF Length, Goes
<1>6. SerialStep(c) BY <1>0, <1>1, <1>4, <1>5 DEF SerialStep, Ends, Fails, TryingHere, limiter
<1> QED BY <1>0, <1>1, <1>2, <1>4, <1>5, <1>6 DEF Present

LEMMA DeleteStep ==
  ASSUME Inv, NEW c \in Calls, Delete(c)
  PROVE  /\ Inv' /\ Others(c) /\ UNCHANGED <<sessions, row, seen, read, left>>
         /\ at[c] = 2 /\ Op(c) = "delete" /\ req[c].wallet \in Wallets
         /\ \/ Ends(c) /\ stored' = [stored EXCEPT ![req[c].wallet] = None]
            \/ Fails(c) /\ UNCHANGED stored
<1>0. /\ at[c] = 2 /\ Op(c) = "delete" /\ at[c] > 1 /\ TypeOK /\ req[c].wallet \in Wallets
      /\ result[c] \in {"none", "gone"}
  BY AtFacts, CallFacts, Running DEF Delete, Inv
<1>1. /\ \/ Advance(c) /\ stored' = [stored EXCEPT ![req[c].wallet] = None]
         \/ Answer(c, "failed") /\ UNCHANGED stored
      /\ UNCHANGED <<sessions, limiter, req, row, seen, read, left>>
  BY DEF Delete, calls
<1>3. stored' \in [Wallets -> Row \union {None}] BY <1>0, <1>1 DEF TypeOK
<1>4. /\ Others(c) /\ (SerialStep(c) => Inv')
      /\ Advance(c) => (Goes(c, at[c] + 1) \/ (Ends(c) /\ (at[c] + 1 > Length(Op(c)) \/ result[c] = "gone")))
      /\ Answer(c, "failed") => Fails(c)
  BY <1>0, <1>1, <1>3, QuietInv, LimiterType DEF TypeOK
<1>5. Advance(c) => Ends(c) BY <1>0, <1>4 DEF Length, Goes
<1>6. SerialStep(c) BY <1>0, <1>1, <1>4, <1>5 DEF SerialStep, Ends, Fails, TryingHere, limiter
<1> QED BY <1>0, <1>1, <1>4, <1>5, <1>6

LEMMA BeginStep ==
  ASSUME Inv, NEW c \in Calls, Begin(c)
  PROVE  /\ Inv' /\ Others(c) /\ UNCHANGED <<stored, sessions, read, left>>
         /\ at[c] # 0 /\ at[c] < WriteAt(Op(c)) /\ at[c] # 4
         /\ Op(c) \in {"create", "import", "verify", "export"} => at[c] = 2
         /\ Op(c) = "unlock_all" => at[c] = 1
         /\ seen'[c] = seen[c] \/ (at[c] = 1 /\ Op(c) = "unlock_all" /\ seen'[c] = {d \in Calls : result[d] = "ok"})
         /\ Goes(c, at[c] + 1) \/ Fails(c)
<1>0. /\ \/ at[c] = 1 /\ Op(c) = "unlock_all"
         \/ at[c] = 2 /\ Op(c) \in {"verify", "export", "create", "import", "change", "migrate"}
         \/ at[c] \in {3, 5} /\ Op(c) = "adopt"
      /\ TypeOK
  BY AtFacts DEF Begin, Inv
<1>00. at[c] # 0 /\ Op(c) \in Ops BY <1>0, CallFacts
<1>1. result[c] \in {"none", "gone"} /\ (result[c] = "gone" => at[c] + 1 \in Task[Op(c)])
  BY <1>0, <1>00, Running, TaskSteps
<1>2. /\ row' \in [Calls -> Calls \union {None}] /\ seen' \in [Calls -> SUBSET Calls]
      /\ \A d \in Calls \ {c} : row'[d] = row[d] /\ seen'[d] = seen[d]
      /\ at[c] = 1 => seen'[c] = {d \in Calls : result[d] = "ok"}
      /\ at[c] # 1 => row' = row /\ seen' = seen
  BY <1>00, ArriveFacts DEF Begin
<1>3. /\ \/ Answer(c, "failed") /\ UNCHANGED limiter
         \/ attempt = None /\ attempt' = c /\ Advance(c) /\ UNCHANGED <<failures, blocked>>
      /\ UNCHANGED <<stored, sessions, req, read, left>>
  BY DEF Begin
<1>4. \A d \in seen'[c] : result[d] = "ok" BY <1>2 DEF Inv, CallOK
<1>10. attempt' \in Calls \union {None} /\ failures' \in Nat /\ blocked' \in BOOLEAN
  <2>1. CASE UNCHANGED limiter BY <1>0, <2>1, LimiterType
  <2>2. CASE attempt' = c /\ UNCHANGED <<failures, blocked>> BY <1>0, <2>2 DEF TypeOK
  <2> QED BY <1>3, <2>1, <2>2
<1>11. row'[c] = row[c] \/ Op(c) \notin Naming BY <1>0, <1>2 DEF Naming
<1>12. /\ left' \in [Calls -> SUBSET Wallets] /\ stored' \in [Wallets -> Row \union {None}]
       /\ sessions' \subseteq [wallet : Wallets, row : Calls \union {None}, by : Calls]
       /\ \A d \in Calls \ {c} : left'[d] = left[d]
  BY <1>0, <1>3 DEF TypeOK
<1>13. at[c] # 1 \/ Op(c) \in {"unlock_all", "lock_all", "delete"} BY <1>0
<1>5. /\ Others(c) /\ (SerialStep(c) => Inv')
      /\ Advance(c) => (Goes(c, at[c] + 1) \/ (Ends(c) /\ (at[c] + 1 > Length(Op(c)) \/ result[c] = "gone")))
      /\ Answer(c, "failed") => Fails(c)
  <2>1. Advance(c) \/ Answer(c, "failed") BY <1>3
  <2>2. UNCHANGED <<req, read>> BY <1>3
  <2> QED BY <2>1, <2>2, <1>00, <1>2, <1>4, <1>10, <1>11, <1>12, <1>13, QuietInvAtFirst
<1>6. Advance(c) => Goes(c, at[c] + 1)
  <2> SUFFICES ASSUME Advance(c) PROVE Goes(c, at[c] + 1)
    OBVIOUS
  <2>1. Goto(c, at[c] + 1) /\ Len(Path[Op(c)]) = Length(Op(c)) /\ at[c] + 1 \in 1..Length(Op(c))
    BY <1>0, <1>00, Lens DEF Advance, Length
  <2>2. at' = [at EXCEPT ![c] = at[c] + 1] /\ UNCHANGED result BY <1>1, <2>1 DEF Goto
  <2> QED BY <1>0, <1>1, <2>1, <2>2 DEF Goes, TypeOK
<1>7. SerialStep(c)
  <2>1. CASE Answer(c, "failed") /\ UNCHANGED limiter
    BY <1>0, <1>5, <2>1 DEF SerialStep, Fails, TryingHere, limiter
  <2>2. CASE attempt = None /\ attempt' = c /\ Advance(c)
    <3>1. result[c] # "gone" \/ Op(c) # "unlock_all" BY <1>0, <1>1, <1>00, TaskSteps
    <3> QED BY <1>0, <1>6, <2>2, <3>1 DEF SerialStep, Goes, TryingHere
  <2> QED BY <1>3, <2>1, <2>2
<1>8. at[c] < WriteAt(Op(c)) BY <1>0 DEF WriteAt
<1>9. seen'[c] = seen[c] \/ (at[c] = 1 /\ Op(c) = "unlock_all" /\ seen'[c] = {d \in Calls : result[d] = "ok"})
  BY <1>0, <1>2
<1> QED BY <1>0, <1>00, <1>3, <1>5, <1>6, <1>7, <1>8, <1>9

LEMMA CheckStep ==
  ASSUME Inv, NEW c \in Calls, Check(c)
  PROVE  /\ Inv' /\ Others(c) /\ UNCHANGED <<stored, sessions, row, seen, read, left>>
         /\ at[c] = 3 /\ Op(c) \in {"verify", "export"}
         /\ (Goes(c, 4) /\ read[c][req[c].wallet].pw = req[c].old) \/ Fails(c)
<1>0. /\ at[c] = 3 /\ Op(c) \in {"verify", "export"} /\ at[c] > 1 /\ TypeOK
      /\ result[c] \in {"none", "gone"} /\ (result[c] = "gone" => 4 \in Task[Op(c)])
  BY AtFacts, CallFacts, Running, TaskSteps DEF Check, Inv
<1>1. /\ \/ Succeeded /\ Advance(c) /\ read[c][req[c].wallet].pw = req[c].old
         \/ Failed /\ Answer(c, "failed")
      /\ UNCHANGED <<stored, sessions, req, row, seen, read, left>>
  BY DEF Check, calls
<1>2. /\ Others(c) /\ (SerialStep(c) => Inv')
      /\ Advance(c) => (Goes(c, at[c] + 1) \/ (Ends(c) /\ (at[c] + 1 > Length(Op(c)) \/ result[c] = "gone")))
      /\ Answer(c, "failed") => Fails(c)
  BY <1>0, <1>1, QuietInv, LimiterType DEF TypeOK
<1>3. Advance(c) => Goes(c, 4)
  <2> SUFFICES ASSUME Advance(c) PROVE Goes(c, 4)
    OBVIOUS
  <2>1. Goto(c, 4) /\ Len(Path[Op(c)]) = Length(Op(c)) /\ 4 \in 1..Length(Op(c))
    BY <1>0, Lens, CallFacts DEF Advance, Length
  <2>2. at' = [at EXCEPT ![c] = 4] /\ UNCHANGED result BY <1>0, <2>1 DEF Goto
  <2> QED BY <1>0, <2>1, <2>2 DEF Goes, TypeOK
<1>4. SerialStep(c)
  BY <1>0, <1>1, <1>2, <1>3 DEF SerialStep, Goes, Fails, TryingHere, Succeeded, Failed
<1> QED BY <1>0, <1>1, <1>2, <1>3, <1>4

LEMMA CheckAllStep ==
  ASSUME Inv, NEW c \in Calls, CheckAll(c)
  PROVE  /\ Inv' /\ Others(c) /\ UNCHANGED <<stored, sessions, row, seen, read, left>>
         /\ \/ at[c] = 3 /\ Op(c) \in {"unlock_all", "create", "import"}
            \/ at[c] = 4 /\ Op(c) = "adopt"
         /\ \/ /\ Goes(c, at[c] + 1)
               /\ Op(c) # "adopt" => \A w \in Read(c) : read[c][w].pw = req[c].new
            \/ Fails(c)
<1>0. /\ \/ at[c] = 3 /\ Op(c) \in {"unlock_all", "create", "import"}
         \/ at[c] = 4 /\ Op(c) = "adopt"
      /\ TypeOK
  BY AtFacts DEF CheckAll, Inv
<1>1. /\ at[c] > 1 /\ result[c] \in {"none", "gone"} /\ (result[c] = "gone" => at[c] + 1 \in Task[Op(c)])
      /\ Op(c) \in Ops
  BY <1>0, CallFacts, Running, TaskSteps
<1>2. /\ \/ /\ Advance(c) /\ (Op(c) # "adopt" => \A w \in Read(c) : read[c][w].pw = req[c].new)
            /\ IF Op(c) = "unlock_all" THEN UNCHANGED limiter ELSE Succeeded
         \/ Answer(c, "failed") /\ IF attempt = c THEN Failed ELSE UNCHANGED limiter
      /\ UNCHANGED <<stored, sessions, req, row, seen, read, left>>
  BY DEF CheckAll, calls
<1>3. /\ Others(c) /\ (SerialStep(c) => Inv')
      /\ Advance(c) => (Goes(c, at[c] + 1) \/ (Ends(c) /\ (at[c] + 1 > Length(Op(c)) \/ result[c] = "gone")))
      /\ Answer(c, "failed") => Fails(c)
  BY <1>0, <1>1, <1>2, QuietInv, LimiterType DEF TypeOK
<1>4. Advance(c) => Goes(c, at[c] + 1)
  <2> SUFFICES ASSUME Advance(c) PROVE Goes(c, at[c] + 1)
    OBVIOUS
  <2>1. Goto(c, at[c] + 1) /\ Len(Path[Op(c)]) = Length(Op(c)) /\ at[c] + 1 \in 1..Length(Op(c))
    BY <1>0, <1>1, Lens DEF Advance, Length
  <2>2. at' = [at EXCEPT ![c] = at[c] + 1] /\ UNCHANGED result BY <1>1, <2>1 DEF Goto
  <2> QED BY <1>0, <1>1, <2>1, <2>2 DEF Goes, TypeOK
<1>5. attempt = c <=> TryingHere(Op(c), at[c], result[c]) BY TryingFacts DEF Inv, AttemptsAreSerial
<1>6. SerialStep(c)
  <2>1. CASE Advance(c) /\ IF Op(c) = "unlock_all" THEN UNCHANGED limiter ELSE Succeeded
    BY <1>0, <1>4, <2>1 DEF SerialStep, Goes, TryingHere, Succeeded, limiter
  <2>2. CASE Answer(c, "failed") /\ IF attempt = c THEN Failed ELSE UNCHANGED limiter
    BY <1>0, <1>3, <1>5, <2>2 DEF SerialStep, Fails, TryingHere, Failed, limiter
  <2> QED BY <1>2, <2>1, <2>2
<1> QED BY <1>0, <1>2, <1>3, <1>4, <1>6

LEMMA FinishStep ==
  ASSUME Inv, NEW c \in Calls, Finish(c)
  PROVE  /\ Inv' /\ Others(c) /\ UNCHANGED <<stored, sessions, row, seen, read, left>>
         /\ at[c] > WriteAt(Op(c)) /\ Op(c) \in {"unlock_all", "change", "migrate", "adopt"}
         /\ at[c] = 6 <=> Op(c) = "unlock_all"
         /\ Goes(c, at[c] + 1) \/ Ends(c)
         /\ Op(c) = "unlock_all" => Ends(c)
<1>0. /\ \/ at[c] = 6 /\ Op(c) = "unlock_all"
         \/ at[c] = 4 /\ Op(c) \in {"change", "migrate"}
         \/ at[c] = 7 /\ Op(c) = "adopt"
      /\ TypeOK
  BY AtFacts DEF Finish, Inv
<1>1. at[c] > 1 /\ Op(c) \in Ops /\ (Op(c) = "unlock_all" => result[c] # "gone")
  BY <1>0, CallFacts, Running, TaskSteps
<1>2. Succeeded /\ Advance(c) /\ UNCHANGED <<stored, sessions, req, row, seen, read, left>>
  BY DEF Finish, calls
<1>3. /\ Others(c) /\ (SerialStep(c) => Inv')
      /\ Goes(c, at[c] + 1) \/ (Ends(c) /\ (at[c] + 1 > Length(Op(c)) \/ result[c] = "gone"))
  BY <1>0, <1>1, <1>2, QuietInv, LimiterType DEF TypeOK
<1>4. SerialStep(c) BY <1>0, <1>1, <1>2, <1>3 DEF SerialStep, Goes, Ends, TryingHere, Succeeded, Length
<1>5. Op(c) = "unlock_all" => Ends(c) BY <1>0, <1>3 DEF Goes, Length
<1> QED BY <1>0, <1>2, <1>3, <1>4, <1>5 DEF WriteAt

LEMMA InsertStep ==
  ASSUME Inv, Reads, NEW c \in Calls, NEW w \in Wallets, Insert(c, w)
  PROVE  /\ Inv' /\ Others(c) /\ UNCHANGED <<stored, row, seen, read>>
         /\ at[c] = 5 /\ Op(c) \in {"verify", "unlock_all", "create", "import"}
         /\ \A s \in sessions' : s \in sessions \/ s.by = c
         /\ left'[c] \subseteq left[c]
         /\ \/ at' = at /\ result' = result
            \/ Goes(c, 6) /\ Op(c) = "unlock_all"
            \/ Ends(c)
<1> DEFINE id == IF Op(c) \in {"create", "import"} THEN row[c] ELSE read[c][w].row
<1>0. /\ at[c] = 5 /\ Op(c) \in {"verify", "unlock_all", "create", "import"} /\ TypeOK /\ w \in left[c]
  BY AtFacts DEF Insert, Inv
<1>1. /\ sessions' = {s \in sessions : s.wallet # w \/ s.row # id} \union {[wallet |-> w, row |-> id, by |-> c]}
      /\ left' = [left EXCEPT ![c] = @ \ {w}]
      /\ Advance(c) \/ UNCHANGED <<at, result>>
      /\ UNCHANGED <<stored, attempt, failures, blocked, req, row, seen, read>>
  BY DEF Insert, limiter, calls
<1>2. id \in Calls \union {None}
  <2>1. CASE Op(c) \in {"create", "import"} BY <1>0, <2>1 DEF TypeOK
  <2>2. CASE Op(c) \notin {"create", "import"}
    <3>1. read[c][w] # None BY <1>0, <2>2 DEF Reads, Read
    <3>2. read[c][w] \in Row BY <3>1, CallFacts
    <3> QED BY <2>2, <3>2 DEF Row
  <2> QED BY <2>1, <2>2
<1> HIDE DEF id
<1>3. /\ sessions' \subseteq [wallet : Wallets, row : Calls \union {None}, by : Calls]
      /\ \A s \in sessions' : s \in sessions \/ s.by = c
  BY <1>0, <1>1, <1>2 DEF TypeOK
<1>4. /\ left' \in [Calls -> SUBSET Wallets] /\ left'[c] \subseteq left[c]
      /\ \A d \in Calls \ {c} : left'[d] = left[d]
  BY <1>0, <1>1 DEF TypeOK
<1>5. CASE Advance(c)
  <2>1. Others(c) /\ (SerialStep(c) => Inv')
        /\ (Goes(c, at[c] + 1) \/ (Ends(c) /\ (at[c] + 1 > Length(Op(c)) \/ result[c] = "gone")))
    BY <1>0, <1>1, <1>3, <1>4, <1>5, QuietInv DEF TypeOK
  <2>2. Ends(c) \/ (Goes(c, 6) /\ Op(c) = "unlock_all")
    BY <1>0, <2>1 DEF Goes, Length
  <2>3. SerialStep(c)
    <3>1. Ends(c) => Op(c) # "unlock_all" \/ result[c] = "gone" BY <1>0, <2>1 DEF Length, Goes, Ends
    <3> QED BY <1>0, <1>1, <2>2, <3>1 DEF SerialStep, Goes, Ends, TryingHere
  <2> QED BY <1>0, <1>1, <1>3, <1>4, <2>1, <2>2, <2>3
<1>6. CASE UNCHANGED <<at, result>>
  <2>1. Others(c) BY <1>0, <1>1, <1>4, <1>6 DEF Others, TypeOK
  <2>2. TypeOK' BY <1>0, <1>1, <1>3, <1>4, <1>6 DEF TypeOK
  <2>3. \A d \in Calls : CallOK(d)'
    <3>1. \A d \in Calls : CallOK(d) BY DEF Inv
    <3> QED BY <1>1, <1>6, <3>1 DEF CallOK, Op, Read, InTask
  <2>4. AttemptsAreSerial'
    <3>1. AttemptsAreSerial BY DEF Inv
    <3> QED BY <1>1, <1>6, <3>1 DEF AttemptsAreSerial, Trying, At, Op
  <2> QED BY <1>0, <1>1, <1>3, <1>4, <1>6, <2>1, <2>2, <2>3, <2>4 DEF Inv
<1> QED BY <1>1, <1>5, <1>6

LEMMA LockStep ==
  ASSUME Inv, NEW c \in Calls, Lock(c)
  PROVE  /\ Inv' /\ Others(c) /\ UNCHANGED <<stored, read, left>> /\ sessions' \subseteq sessions
         /\ \/ at[c] = 1 /\ Op(c) \in {"delete", "lock_all"} /\ Asks(Op(c), req[c].wallet)
            \/ at[c] > WriteAt(Op(c)) /\ Op(c) \in Rewrites /\ seen' = seen
         /\ (Goes(c, 2) /\ Op(c) = "delete") \/ (Ends(c) /\ Op(c) # "delete")
<1>0. /\ \/ at[c] = 1 /\ Op(c) \in {"delete", "lock_all"}
         \/ at[c] = 5 /\ Op(c) \in {"change", "migrate"}
         \/ at[c] = 8 /\ Op(c) = "adopt"
      /\ TypeOK
  BY AtFacts DEF Lock, Inv
<1>1. at[c] # 0 /\ Op(c) \in Ops BY <1>0, CallFacts
<1>2. /\ row' \in [Calls -> Calls \union {None}] /\ seen' \in [Calls -> SUBSET Calls]
      /\ \A d \in Calls \ {c} : row'[d] = row[d] /\ seen'[d] = seen[d]
      /\ at[c] = 1 => seen'[c] = {d \in Calls : result[d] = "ok"} /\ Asks(Op(c), req[c].wallet)
      /\ at[c] # 1 => row' = row /\ seen' = seen
  BY <1>1, ArriveFacts DEF Lock
<1>3. Advance(c) /\ UNCHANGED <<stored, attempt, failures, blocked, req, read, left>> /\ sessions' \subseteq sessions
  BY DEF Lock, limiter
<1>4. \A d \in seen'[c] : result[d] = "ok" BY <1>2 DEF Inv, CallOK
<1>5. row'[c] = row[c] \/ Op(c) \notin Naming BY <1>0, <1>2 DEF Naming
<1>6. at[c] # 1 \/ Op(c) \in {"unlock_all", "lock_all", "delete"} BY <1>0
<1>7. /\ left' \in [Calls -> SUBSET Wallets] /\ stored' \in [Wallets -> Row \union {None}]
      /\ sessions' \subseteq [wallet : Wallets, row : Calls \union {None}, by : Calls]
      /\ attempt' \in Calls \union {None} /\ failures' \in Nat /\ blocked' \in BOOLEAN
      /\ \A d \in Calls \ {c} : left'[d] = left[d]
  BY <1>0, <1>3 DEF TypeOK
<1>8. /\ Others(c) /\ (SerialStep(c) => Inv')
      /\ Goes(c, at[c] + 1) \/ (Ends(c) /\ (at[c] + 1 > Length(Op(c)) \/ result[c] = "gone"))
  <2>1. UNCHANGED <<req, read>> BY <1>3
  <2> QED BY <2>1, <1>1, <1>2, <1>3, <1>4, <1>5, <1>6, <1>7, QuietInvAtFirst
<1>9. (Goes(c, 2) /\ Op(c) = "delete") \/ (Ends(c) /\ Op(c) # "delete")
  BY <1>0, <1>1, <1>8, Running DEF Goes, Length
<1>10. SerialStep(c) BY <1>0, <1>3, <1>9 DEF SerialStep, Goes, Ends, TryingHere
<1>11. \/ at[c] = 1 /\ Op(c) \in {"delete", "lock_all"} /\ Asks(Op(c), req[c].wallet)
       \/ at[c] > WriteAt(Op(c)) /\ Op(c) \in Rewrites /\ seen' = seen
  BY <1>0, <1>2 DEF WriteAt, Rewrites
<1> QED BY <1>3, <1>8, <1>9, <1>10, <1>11

LEMMA HangUpStep ==
  ASSUME Inv, NEW c \in Calls, HangUp(c)
  PROVE  /\ Inv' /\ Others(c) /\ UNCHANGED <<stored, sessions, row, seen, read, left>>
         /\ at[c] # 0 /\ result'[c] = "gone"
         /\ at'[c] = 0 \/ (at'[c] = at[c] /\ at[c] \in Task[Op(c)] /\ at[c] - 1 \in Task[Op(c)])
<1>0. at[c] # 0 /\ TypeOK /\ Op(c) \in Ops /\ at[c] \in 0..Length(Op(c)) /\ result[c] = "none"
  BY CallFacts DEF HangUp, Awaiting, Inv
<1>1. /\ result' = [result EXCEPT ![c] = "gone"]
      /\ IF InTask(c) THEN UNCHANGED at ELSE at' = [at EXCEPT ![c] = 0]
      /\ IF InTask(c) /\ Op(c) # "unlock_all" THEN UNCHANGED limiter ELSE Dropped(c)
      /\ UNCHANGED <<stored, sessions, req, row, seen, read, left>>
  BY DEF HangUp, calls
<1>2. /\ at' \in [Calls -> 0..8] /\ result' \in [Calls -> {"none", "ok", "failed", "gone"}]
      /\ \A d \in Calls \ {c} : at'[d] = at[d] /\ result'[d] = result[d]
      /\ result'[c] = "gone"
  <2>1. at \in [Calls -> 0..8] /\ result \in [Calls -> {"none", "ok", "failed", "gone"}] BY <1>0 DEF TypeOK
  <2>2. CASE InTask(c) BY <1>1, <2>1, <2>2
  <2>3. CASE ~InTask(c) BY <1>1, <2>1, <2>3
  <2> QED BY <2>2, <2>3
<1>3. at'[c] = 0 \/ (at'[c] = at[c] /\ at[c] \in Task[Op(c)] /\ at[c] - 1 \in Task[Op(c)])
  BY <1>0, <1>1 DEF TypeOK, InTask
<1>4. Others(c) BY <1>1, <1>2 DEF Others
<1>5. Onward(c)
  <2>1. at[c] \in Task[Op(c)] /\ at[c] - 1 \in Task[Op(c)] => at[c] \in 2..Length(Op(c))
    BY <1>0, TaskSteps DEF Length
  <2> QED BY <1>2, <1>3, <2>1 DEF Onward
<1>6. \A d \in Calls : CallOK(d)'
  <2>1. \A d \in seen'[c] : d \in Calls /\ result[d] = "ok" BY <1>0, <1>1 DEF Inv, CallOK, TypeOK
  <2>2. Op(c) \in Naming /\ (at'[c] > 1 \/ result'[c] = "ok") =>
           read'[c][req[c].wallet] # None /\ read'[c][req[c].wallet].row = row'[c]
    BY <1>1, <1>2, <1>3 DEF Inv, CallOK, Read
  <2> QED BY <1>0, <1>4, <1>5, <2>1, <2>2, CallStays
<1>7. TypeOK' /\ at'[c] \in 0..Length(Op(c))
  <2>1. attempt' \in Calls \union {None} /\ failures' \in Nat /\ blocked' \in BOOLEAN
    BY <1>0, <1>1, LimiterType
  <2>2. at'[c] \in 0..Length(Op(c)) BY <1>0, <1>3 DEF Length
  <2>3. TypeOK' BY <1>0, <1>1, <1>2, <2>1 DEF TypeOK
  <2> QED BY <2>2, <2>3
<1>8. AttemptsAreSerial'
  <2>1. CASE InTask(c) /\ Op(c) # "unlock_all"
    <3>1. attempt' = attempt /\ at' = at BY <1>1, <2>1 DEF limiter
    <3>2. TryingHere(Op(c), at'[c], result'[c]) <=> TryingHere(Op(c), at[c], result[c])
      BY <2>1, <3>1 DEF TryingHere
    <3> QED BY <1>4, <1>7, <3>1, <3>2, SerialStays DEF SerialStep
  <2>2. CASE ~(InTask(c) /\ Op(c) # "unlock_all")
    <3>1. attempt' = (IF attempt = c THEN None ELSE attempt) BY <1>1, <2>2 DEF Dropped
    <3>2. Op(c) = "unlock_all" \/ at'[c] = 0 BY <1>0, <1>1, <2>2 DEF TypeOK
    <3>3. ~TryingHere(Op(c), at'[c], result'[c]) BY <1>2, <3>2 DEF TryingHere
    <3> QED BY <1>4, <1>7, <3>1, <3>3, SerialStays DEF SerialStep
  <2> QED BY <2>1, <2>2
<1> QED BY <1>0, <1>1, <1>2, <1>3, <1>4, <1>6, <1>7, <1>8 DEF Inv

--------------------------------------------------------------------------------
(* What any step does, as far as the invariants are concerned. *)

Moves(c) ==
    /\ Others(c) /\ at[c] # 0 /\ at'[c] # 1 /\ (at'[c] = 0 \/ at'[c] >= at[c])
    /\ at[c] # 1 => seen'[c] = seen[c]
    /\ at[c] = 1 /\ at'[c] # 0 => Asks(Op(c), req[c].wallet)
    /\ at[c] = 1 /\ at'[c] # 0 /\ Op(c) = "import" => \A w \in Wallets : read'[c][w] = stored[w]
    /\ \A w \in Wallets : read'[c][w] = read[c][w] \/ (read[c][w] = None /\ read'[c][w] = stored[w])

\* No ciphertext is written.
Still(c) == /\ UNCHANGED stored
            /\ Pending(c)' => Pending(c)
            /\ Wrote(c)' => Wrote(c) /\ read'[c] = read[c]

\* Ciphertexts are written, by a call that writes this one time.
Writes(c) ==
    /\ at[c] = WriteAt(Op(c)) /\ Pending(c) /\ ~Pending(c)' /\ read'[c] = read[c]
    /\ \/ Op(c) \in Rewrites /\ Rewrites1(c, Rewritten(c), req[c].new)
       \/ Op(c) \in {"verify", "export", "unlock_all"} /\ \E ws : Rewrites1(c, ws, req[c].old)
       \/ /\ Op(c) \in {"create", "import"} /\ req[c].wallet \in Wallets
          /\ stored' = [stored EXCEPT ![req[c].wallet] =
                          [pw |-> req[c].new, legacy |-> FALSE, made |-> c, named |-> c,
                           row |-> IF stored[req[c].wallet] = None THEN c ELSE stored[req[c].wallet].row]]
       \/ /\ Op(c) = "rename" /\ req[c].wallet \in Read(c) /\ stored[req[c].wallet] # None
          /\ stored[req[c].wallet].row = read[c][req[c].wallet].row
          /\ stored' = [stored EXCEPT ![req[c].wallet] = [read[c][req[c].wallet] EXCEPT !.named = c]]
       \/ Op(c) = "delete" /\ req[c].wallet \in Wallets /\ stored' = [stored EXCEPT ![req[c].wallet] = None]

\* Passwords are tried before they are relied on.
Relied(c)   == \/ Op(c) = "unlock_all" /\ at[c] \in 4..6
               \/ Op(c) \in {"verify", "export"} /\ (at[c] \in 4..5 \/ (at[c] = 0 /\ result[c] = "ok"))
               \/ Op(c) \in {"create", "import"} /\ at[c] = 4
Right(c)    == IF Op(c) \in {"verify", "export"} THEN read[c][req[c].wallet].pw = req[c].old
               ELSE \A w \in Read(c) : read[c][w].pw = req[c].new
Proves(c)   == Relied(c)' => Right(c)' \/ (Relied(c) /\ read'[c] = read[c])

\* Sessions are opened at one place, by a call that will not fail any more.
Opens(c) ==
    /\ \A s \in sessions' : s \in sessions \/ (s.by = c /\ at[c] = 5)
    /\ Op(c) = "unlock_all" /\ at[c] \in 5..6 =>
         read'[c] = read[c] /\ (at'[c] \in 5..6 \/ (at'[c] = 0 /\ result'[c] # "failed"))

Acts(c) == Moves(c) /\ (Still(c) \/ Writes(c)) /\ Proves(c) /\ Opens(c)

LEMMA FindActs ==
  ASSUME Inv, Reads, NEW c \in Calls, Find(c) PROVE Acts(c) /\ Reads'
<1>0. CallOK(c) /\ at[c] \in 0..Length(Op(c)) /\ Op(c)' = Op(c) /\ req' = req
  BY CallFacts, FindStep DEF Inv, Others, Op
<1>1. Moves(c)
  BY <1>0, FindStep, Running DEF Moves, Goes, Asks, Naming, Read
<1>2. Still(c) BY <1>0, FindStep DEF Still, Pending, Wrote, Goes, WriteAt, Naming
<1>3. Proves(c) BY <1>0, FindStep DEF Proves, Relied, Goes
<1>4. Opens(c) BY <1>0, FindStep DEF Opens
<1>5. Reads'
  <2>1. left' = left BY DEF Find
  <2>2. \A d \in Calls \ {c} : Op(d)' = Op(d) /\ Read(d)' = Read(d) BY FindStep DEF Others, Op, Read
  <2>3. Read(c) = {} /\ Op(c) \notin {"create", "import"} BY FindStep, Running DEF Naming
  <2>4. left[c] = {} BY <2>3 DEF Reads
  <2>5. Read(c)' \subseteq {req[c].wallet} BY FindStep DEF Read
  <2>6. ASSUME NEW d \in Calls
        PROVE  /\ Op(d)' \notin {"create", "import"} => left'[d] \subseteq Read(d)'
               /\ Op(d)' \in {"verify", "export"} => Read(d)' \subseteq {req'[d].wallet}
    <3>1. CASE d = c BY <1>0, <2>1, <2>4, <2>5, <3>1
    <3>2. CASE d # c BY <1>0, <2>1, <2>2, <3>2 DEF Reads
    <3> QED BY <3>1, <3>2
  <2> QED BY <2>6 DEF Reads
<1> QED BY <1>1, <1>2, <1>3, <1>4, <1>5 DEF Acts

LEMMA LoadActs ==
  ASSUME Inv, Reads, NEW c \in Calls, Load(c) PROVE Acts(c) /\ Reads'
<1>0. /\ CallOK(c) /\ at[c] \in 0..Length(Op(c)) /\ Op(c)' = Op(c) /\ req' = req
      /\ Op(c) \notin Rewrites => req[c].old = req[c].new
  BY CallFacts, LoadStep DEF Inv, Others, Op
<1>1. Moves(c)
  BY <1>0, LoadStep, Running DEF Moves, Goes, Fails, Asks, Read
<1>2. Still(c) BY <1>0, LoadStep, Running DEF Still, Pending, Wrote, Goes, Fails, WriteAt
<1>3. Proves(c)
  <2>1. SUFFICES ASSUME Relied(c)' PROVE Right(c)'
    BY DEF Proves
  <2>2. Op(c) \in {"create", "import"} /\ at[c] = 1 /\ Goes(c, 4)
        /\ \A w \in Wallets : read[c][w] = None => stored[w] = None
    BY <1>0, <2>1, LoadStep DEF Relied, Goes, Fails
  <2>3. \A w \in Wallets : read[c][w] = None BY <2>2, Running DEF Read
  <2>4. \A w \in Wallets : read'[c][w] = None BY <2>2, <2>3, LoadStep
  <2> QED BY <1>0, <2>2, <2>4 DEF Right, Read
<1>4. Opens(c) BY <1>0, LoadStep DEF Opens
<1>5. Reads'
  <2>1. left' = left BY DEF Load
  <2>2. Op(c) \notin {"verify", "export"} BY LoadStep
  <2>3. Read(c) \subseteq Read(c)' BY LoadStep DEF Read
  <2> QED BY <1>0, <2>1, <2>2, <2>3, LoadStep DEF Reads, Read, Others, Op
<1> QED BY <1>1, <1>2, <1>3, <1>4, <1>5 DEF Acts

\* Accesses that read nothing, and give nobody wallets to open.
LEMMA ReadsStay ==
  ASSUME Reads, NEW c \in Calls, Others(c), UNCHANGED read, left'[c] \subseteq left[c] \/ left'[c] = Read(c) \/ Op(c) \in {"create", "import"}
  PROVE  Reads'
<1>1. \A d \in Calls : Op(d)' = Op(d) /\ Read(d)' = Read(d) /\ req' = req BY DEF Others, Op, Read
<1>2. \A d \in Calls \ {c} : left'[d] = left[d] BY DEF Others
<1> QED BY <1>1, <1>2 DEF Reads

LEMMA ReplaceActs ==
  ASSUME Inv, Reads, NEW c \in Calls, Replace(c) PROVE Acts(c) /\ Reads'
<1>0. at[c] \in 0..Length(Op(c)) /\ Op(c)' = Op(c) /\ req' = req /\ at[c] \in {3, 6} /\ result[c] \in {"none", "gone"}
  BY CallFacts, ReplaceStep, Running DEF Others, Op, WriteAt, Rewrites
<1>1. Moves(c) BY <1>0, ReplaceStep DEF Moves, Goes, Fails
<1>2. Still(c) \/ Writes(c)
  BY <1>0, ReplaceStep DEF Still, Writes, Pending, Wrote, Goes, Fails
<1>3. Proves(c) BY <1>0, ReplaceStep DEF Proves, Relied, Rewrites
<1>4. Opens(c) BY <1>0, ReplaceStep DEF Opens, Rewrites
<1> QED BY <1>1, <1>2, <1>3, <1>4, ReplaceStep, ReadsStay DEF Acts

LEMMA MigrateActs ==
  ASSUME Inv, Reads, NEW c \in Calls, Migrate(c) PROVE Acts(c) /\ Reads'
<1>0. Op(c)' = Op(c) /\ req' = req /\ at[c] = WriteAt(Op(c)) /\ result[c] \in {"none", "gone"}
  BY MigrateStep, Running DEF Others, Op, WriteAt
<1>1. Moves(c) BY <1>0, MigrateStep DEF Moves, Goes, Fails, Ends
<1>2. Still(c) \/ Writes(c)
  BY <1>0, MigrateStep DEF Still, Writes, Pending, Wrote, Goes, Fails, Ends
<1>3. Proves(c) BY <1>0, MigrateStep DEF Proves, Relied, Goes, Fails
<1>4. Opens(c) BY <1>0, MigrateStep DEF Opens
<1>5. left'[c] \subseteq left[c] \/ left'[c] = Read(c)
  <2>1. left'[c] = left[c] \/ left'[c] = Read(c) BY DEF Migrate, Inv, TypeOK
  <2> QED BY <2>1
<1> QED BY <1>1, <1>2, <1>3, <1>4, <1>5, MigrateStep, ReadsStay DEF Acts

LEMMA UpsertActs ==
  ASSUME Inv, Reads, NEW c \in Calls, Upsert(c) PROVE Acts(c) /\ Reads'
<1>0. Op(c)' = Op(c) /\ req' = req /\ at[c] = WriteAt(Op(c)) /\ result[c] \in {"none", "gone"}
  <2>1. at[c] = 4 /\ Op(c) \in {"create", "import"} /\ Others(c) BY UpsertStep
  <2> QED BY <2>1, Running DEF Others, Op, WriteAt
<1>1. Moves(c)
  <2>1. Others(c) /\ UNCHANGED <<seen, read>> /\ at[c] = 4 /\ (Goes(c, 5) \/ Ends(c)) BY UpsertStep
  <2> QED BY <2>1 DEF Moves, Goes, Ends
<1>2. Writes(c) BY <1>0, UpsertStep DEF Writes, Pending, Wrote, Goes, Ends
<1>3. Proves(c) BY <1>0, UpsertStep DEF Proves, Relied, Goes, Ends
<1>4. Opens(c) BY <1>0, UpsertStep DEF Opens
<1> QED BY <1>1, <1>2, <1>3, <1>4, UpsertStep, ReadsStay DEF Acts

LEMMA UpdateActs ==
  ASSUME Inv, Reads, NEW c \in Calls, Update(c) PROVE Acts(c) /\ Reads'
<1>0. Op(c)' = Op(c) /\ req' = req /\ at[c] = WriteAt(Op(c)) /\ result[c] \in {"none", "gone"}
  <2>1. at[c] = 2 /\ Op(c) = "rename" /\ Others(c) BY UpdateStep
  <2> QED BY <2>1, Running DEF Others, Op, WriteAt
<1>1. Moves(c)
  <2>1. Others(c) /\ UNCHANGED <<seen, read>> /\ at[c] = 2 /\ (Fails(c) \/ Ends(c)) BY UpdateStep
  <2> QED BY <2>1 DEF Moves, Fails, Ends
<1>2. Still(c) \/ Writes(c) BY <1>0, UpdateStep DEF Still, Writes, Pending, Wrote, Fails, Ends
<1>3. Proves(c) BY <1>0, UpdateStep DEF Proves, Relied
<1>4. Opens(c) BY <1>0, UpdateStep DEF Opens
<1> QED BY <1>1, <1>2, <1>3, <1>4, UpdateStep, ReadsStay DEF Acts

LEMMA DeleteActs ==
  ASSUME Inv, Reads, NEW c \in Calls, Delete(c) PROVE Acts(c) /\ Reads'
<1>0. Op(c)' = Op(c) /\ req' = req /\ at[c] = WriteAt(Op(c)) /\ result[c] \in {"none", "gone"}
  BY DeleteStep, Running DEF Others, Op, WriteAt
<1>1. Moves(c) BY <1>0, DeleteStep DEF Moves, Fails, Ends
<1>2. Still(c) \/ Writes(c) BY <1>0, DeleteStep DEF Still, Writes, Pending, Wrote, Fails, Ends
<1>3. Proves(c) BY <1>0, DeleteStep DEF Proves, Relied
<1>4. Opens(c) BY <1>0, DeleteStep DEF Opens
<1> QED BY <1>1, <1>2, <1>3, <1>4, DeleteStep, ReadsStay DEF Acts

LEMMA BeginActs ==
  ASSUME Inv, Reads, NEW c \in Calls, Begin(c) PROVE Acts(c) /\ Reads'
<1>0. /\ Op(c)' = Op(c) /\ req' = req /\ result[c] \in {"none", "gone"} /\ at[c] \in 0..Length(Op(c))
      /\ at[c] = 1 => Op(c) = "unlock_all"
  <2>1. at[c] = 1 => Op(c) = "unlock_all" BY AtFacts DEF Begin
  <2> QED BY <2>1, BeginStep, Running, CallFacts DEF Others, Op
<1>1. Moves(c) BY <1>0, BeginStep DEF Moves, Goes, Fails, Asks
<1>2. Still(c) BY <1>0, BeginStep DEF Still, Pending, Wrote, Goes, Fails, WriteAt
<1>3. Proves(c) BY <1>0, BeginStep DEF Proves, Relied, Goes, Fails
<1>4. Opens(c) BY <1>0, BeginStep DEF Opens
<1> QED BY <1>1, <1>2, <1>3, <1>4, BeginStep, ReadsStay DEF Acts

LEMMA CheckActs ==
  ASSUME Inv, Reads, NEW c \in Calls, Check(c) PROVE Acts(c) /\ Reads'
<1>0. Op(c)' = Op(c) /\ req' = req /\ result[c] \in {"none", "gone"}
  BY CheckStep, Running DEF Others, Op
<1>1. Moves(c) BY <1>0, CheckStep DEF Moves, Goes, Fails
<1>2. Still(c) BY <1>0, CheckStep DEF Still, Pending, Wrote, Goes, Fails, WriteAt
<1>3. Proves(c) BY <1>0, CheckStep DEF Proves, Relied, Right, Goes, Fails
<1>4. Opens(c) BY <1>0, CheckStep DEF Opens
<1> QED BY <1>1, <1>2, <1>3, <1>4, CheckStep, ReadsStay DEF Acts

LEMMA CheckAllActs ==
  ASSUME Inv, Reads, NEW c \in Calls, CheckAll(c) PROVE Acts(c) /\ Reads'
<1>0. /\ Op(c)' = Op(c) /\ req' = req /\ result[c] \in {"none", "gone"}
      /\ Read(c)' = Read(c) /\ read' = read
  BY CheckAllStep, Running DEF Others, Op, Read
<1>1. Moves(c) BY <1>0, CheckAllStep DEF Moves, Goes, Fails
<1>2. Still(c) BY <1>0, CheckAllStep DEF Still, Pending, Wrote, Goes, Fails, WriteAt
<1>3. Proves(c) BY <1>0, CheckAllStep DEF Proves, Relied, Right, Goes, Fails
<1>4. Opens(c) BY <1>0, CheckAllStep DEF Opens
<1> QED BY <1>1, <1>2, <1>3, <1>4, CheckAllStep, ReadsStay DEF Acts

LEMMA FinishActs ==
  ASSUME Inv, Reads, NEW c \in Calls, Finish(c) PROVE Acts(c) /\ Reads'
<1>0. Op(c)' = Op(c) /\ req' = req /\ result[c] \in {"none", "gone"} /\ at[c] > 1 /\ at[c] \in 0..8
  <2>1. at[c] \in 0..8 BY DEF Inv, TypeOK
  <2>2. at[c] > 1 BY <2>1, FinishStep DEF WriteAt
  <2> QED BY <2>1, <2>2, FinishStep, Running DEF Others, Op
<1>1. Moves(c) BY <1>0, FinishStep DEF Moves, Goes, Ends
<1>2. Still(c) BY <1>0, FinishStep DEF Still, Pending, Wrote, Goes, Ends, WriteAt
<1>3. Proves(c) BY <1>0, FinishStep DEF Proves, Relied, Ends
<1>4. Opens(c) BY <1>0, FinishStep DEF Opens, Ends
<1> QED BY <1>1, <1>2, <1>3, <1>4, FinishStep, ReadsStay DEF Acts

LEMMA InsertActs ==
  ASSUME Inv, Reads, NEW c \in Calls, NEW w \in Wallets, Insert(c, w) PROVE Acts(c) /\ Reads'
<1>0. Op(c)' = Op(c) /\ req' = req /\ result[c] \in {"none", "gone"}
  BY InsertStep, Running DEF Others, Op
<1>1. Moves(c) BY <1>0, InsertStep DEF Moves, Goes, Ends
<1>2. Still(c) BY <1>0, InsertStep DEF Still, Pending, Wrote, Goes, Ends, WriteAt
<1>3. Proves(c) BY <1>0, InsertStep DEF Proves, Relied, Goes, Ends
<1>4. Opens(c) BY <1>0, InsertStep DEF Opens, Goes, Ends
<1> QED BY <1>1, <1>2, <1>3, <1>4, InsertStep, ReadsStay DEF Acts

LEMMA LockActs ==
  ASSUME Inv, Reads, NEW c \in Calls, Lock(c) PROVE Acts(c) /\ Reads'
<1>0. Op(c)' = Op(c) /\ req' = req /\ result[c] \in {"none", "gone"} /\ at[c] # 0 /\ at[c] \in 0..8
  <2>1. at[c] \in 0..8 /\ at[c] # 0 BY DEF Lock, At, Inv, TypeOK
  <2> QED BY <2>1, LockStep, Running DEF Others, Op
<1>1. Moves(c) BY <1>0, LockStep DEF Moves, Goes, Ends, WriteAt, Rewrites
<1>2. Still(c)
  <2>1. CASE Op(c) = "delete" BY <1>0, <2>1, LockStep DEF Still, Pending, Wrote, Goes, WriteAt, Rewrites
  <2>2. CASE Op(c) # "delete"
    <3>1. Ends(c) /\ at[c] > WriteAt(Op(c)) BY <1>0, <2>2, LockStep DEF WriteAt, Rewrites
    <3> QED BY <1>0, <3>1, LockStep DEF Still, Pending, Wrote, Ends, WriteAt
  <2> QED BY <2>1, <2>2
<1>3. Proves(c) BY <1>0, LockStep DEF Proves, Relied, Rewrites
<1>4. Opens(c) BY <1>0, LockStep DEF Opens, Rewrites
<1>5. left'[c] \subseteq left[c] BY LockStep
<1> QED BY <1>1, <1>2, <1>3, <1>4, <1>5, LockStep, ReadsStay DEF Acts

LEMMA HangUpActs ==
  ASSUME Inv, Reads, NEW c \in Calls, HangUp(c) PROVE Acts(c) /\ Reads'
<1>0. /\ Op(c)' = Op(c) /\ req' = req /\ result[c] \in {"none", "gone"} /\ Op(c) \in Ops
      /\ at'[c] = 0 \/ (at'[c] = at[c] /\ at[c] > 1 /\ (Op(c) = "unlock_all" => at[c] = 4)) 
      /\ at[c] \in 0..8
  <2>1. at[c] \in 0..8 /\ Op(c) \in Ops BY CallFacts DEF Inv, TypeOK
  <2> QED BY <2>1, HangUpStep, Running, TaskSteps DEF Others, Op
<1>1. Moves(c) BY <1>0, HangUpStep DEF Moves
<1>2. Still(c) BY <1>0, HangUpStep DEF Still, Pending, Wrote, WriteAt
<1>3. Proves(c) BY <1>0, HangUpStep DEF Proves, Relied
<1>4. Opens(c) BY <1>0, HangUpStep DEF Opens
<1> QED BY <1>1, <1>2, <1>3, <1>4, HangUpStep, ReadsStay DEF Acts

LEMMA InvNext ==
  ASSUME Inv, Reads, [Next]_vars
  PROVE  /\ Inv' /\ Reads'
         /\ \/ UNCHANGED <<stored, sessions, req, row, seen, at, read, left, result>>
            \/ \E c \in Calls : Acts(c)
<1>1. CASE UNCHANGED vars \/ Unblock
  <2>1. /\ UNCHANGED <<stored, sessions, req, row, seen, at, read, left, result>>
        /\ UNCHANGED attempt /\ failures' = failures
        /\ blocked' = FALSE \/ blocked' = blocked
    BY <1>1 DEF vars, Unblock, limiter, calls
  <2>2. TypeOK' BY <2>1 DEF Inv, TypeOK
  <2>3. \A d \in Calls : CallOK(d)'
    <3>1. \A d \in Calls : CallOK(d) BY DEF Inv
    <3> QED BY <2>1, <3>1 DEF CallOK, Op, Read, InTask
  <2>4. AttemptsAreSerial'
    <3>1. AttemptsAreSerial BY DEF Inv
    <3> QED BY <2>1, <3>1 DEF AttemptsAreSerial, Trying, At, Op
  <2>5. Reads' BY <2>1 DEF Reads, Op, Read
  <2> QED BY <2>1, <2>2, <2>3, <2>4, <2>5 DEF Inv
<1>2. ASSUME NEW c \in Calls, Find(c)
      PROVE  Inv' /\ Reads' /\ Acts(c)
  BY <1>2, FindStep, FindActs
<1>3. ASSUME NEW c \in Calls, Load(c)
      PROVE  Inv' /\ Reads' /\ Acts(c)
  BY <1>3, LoadStep, LoadActs
<1>4. ASSUME NEW c \in Calls, Replace(c)
      PROVE  Inv' /\ Reads' /\ Acts(c)
  BY <1>4, ReplaceStep, ReplaceActs
<1>5. ASSUME NEW c \in Calls, Migrate(c)
      PROVE  Inv' /\ Reads' /\ Acts(c)
  BY <1>5, MigrateStep, MigrateActs
<1>6. ASSUME NEW c \in Calls, Upsert(c)
      PROVE  Inv' /\ Reads' /\ Acts(c)
  BY <1>6, UpsertStep, UpsertActs
<1>7. ASSUME NEW c \in Calls, Update(c)
      PROVE  Inv' /\ Reads' /\ Acts(c)
  BY <1>7, UpdateStep, UpdateActs
<1>8. ASSUME NEW c \in Calls, Delete(c)
      PROVE  Inv' /\ Reads' /\ Acts(c)
  BY <1>8, DeleteStep, DeleteActs
<1>9. ASSUME NEW c \in Calls, Begin(c)
      PROVE  Inv' /\ Reads' /\ Acts(c)
  BY <1>9, BeginStep, BeginActs
<1>10. ASSUME NEW c \in Calls, Check(c)
       PROVE  Inv' /\ Reads' /\ Acts(c)
  BY <1>10, CheckStep, CheckActs
<1>11. ASSUME NEW c \in Calls, CheckAll(c)
       PROVE  Inv' /\ Reads' /\ Acts(c)
  BY <1>11, CheckAllStep, CheckAllActs
<1>12. ASSUME NEW c \in Calls, Finish(c)
       PROVE  Inv' /\ Reads' /\ Acts(c)
  BY <1>12, FinishStep, FinishActs
<1>13. ASSUME NEW c \in Calls, NEW w \in Wallets, Insert(c, w)
       PROVE  Inv' /\ Reads' /\ Acts(c)
  BY <1>13, InsertStep, InsertActs
<1>14. ASSUME NEW c \in Calls, Lock(c)
       PROVE  Inv' /\ Reads' /\ Acts(c)
  BY <1>14, LockStep, LockActs
<1>15. ASSUME NEW c \in Calls, HangUp(c)
       PROVE  Inv' /\ Reads' /\ Acts(c)
  BY <1>15, HangUpStep, HangUpActs
<1> QED BY <1>1, <1>2, <1>3, <1>4, <1>5, <1>6, <1>7, <1>8, <1>9, <1>10, <1>11, <1>12, <1>13, <1>14, <1>15 DEF Next

LEMMA InvInit ==
  ASSUME Init
  PROVE  Inv /\ Reads
<1>1. /\ sessions = {} /\ attempt = None /\ failures = 0 /\ blocked = FALSE
      /\ req \in [Calls -> Requests] /\ row = [c \in Calls |-> None]
      /\ at = [c \in Calls |-> 1] /\ read = [c \in Calls |-> [w \in Wallets |-> None]]
      /\ left = [c \in Calls |-> {}] /\ result = [c \in Calls |-> "none"] /\ seen = [c \in Calls |-> {}]
  BY DEF Init
<1>2. stored \in [Wallets -> Row \union {None}]
  <2>1. stored \in [Wallets -> {None} \union [pw : Passwords, legacy : BOOLEAN,
                                              made : {None}, named : {None}, row : {None}]]
    BY DEF Init
  <2>2. [pw : Passwords, legacy : BOOLEAN, made : {None}, named : {None}, row : {None}] \subseteq Row
    BY DEF Row
  <2> QED BY <2>1, <2>2
<1>3. TypeOK
  <2>1. at \in [Calls -> 0..8] /\ row \in [Calls -> Calls \union {None}] BY <1>1
  <2>2. left \in [Calls -> SUBSET Wallets] /\ seen \in [Calls -> SUBSET Calls] BY <1>1
  <2>3. result \in [Calls -> {"none", "ok", "failed", "gone"}] BY <1>1
  <2>4. read \in [Calls -> [Wallets -> Row \union {None}]] BY <1>1
  <2> QED BY <1>1, <1>2, <2>1, <2>2, <2>3, <2>4 DEF TypeOK
<1>4. ASSUME NEW c \in Calls PROVE CallOK(c) /\ Read(c) = {} /\ ~Trying(c)
  <2>1. Op(c) \in Ops /\ at[c] = 1 /\ result[c] = "none" /\ seen[c] = {} BY <1>1, RequestFacts DEF Op
  <2>2. Read(c) = {} BY <1>1 DEF Read
  <2> QED BY <2>1, <2>2 DEF CallOK, Trying, Length
<1>5. AttemptsAreSerial BY <1>1, <1>4, PasswordsAssumption DEF AttemptsAreSerial
<1> QED BY <1>1, <1>3, <1>4, <1>5 DEF Inv, Reads

\* Every variable keeps its type, and no call is where its operation has no access.
THEOREM TypeCorrect == Spec => [](Inv /\ Reads)
<1>1. Inv /\ Reads /\ [Next]_vars => (Inv /\ Reads)' BY InvNext
<1> QED BY InvInit, <1>1, PTL DEF Spec

\* One password is tried at a time, and the limiter is free again as soon as nobody
\* tries one: PasswordAttemptGuard is dropped on every path.
THEOREM OneAttemptAtATime == Spec => []AttemptsAreSerial
<1>1. Inv => AttemptsAreSerial BY DEF Inv
<1> QED BY <1>1, TypeCorrect, PTL

--------------------------------------------------------------------------------
(* Rewrites. *)

\* Calls that do not move keep everything of theirs.
LEMMA StayFacts ==
  ASSUME Inv, NEW c \in Calls, Acts(c), NEW d \in Calls
  PROVE  /\ Op(d)' = Op(d) /\ req'[d] = req[d] /\ Read(d) \subseteq Read(d)'
         /\ Pending(d)' => Pending(d) /\ (Writes(c) => d # c)
         /\ Wrote(d)' => read'[d] = read[d] /\ Read(d)' = Read(d) /\ Rewritten(d)' = Rewritten(d)
                         /\ (Wrote(d) \/ (d = c /\ Writes(c)))
         /\ at[d] # 1 => at'[d] # 1 /\ seen'[d] = seen[d]
         /\ d # c => at'[d] = at[d] /\ result'[d] = result[d] /\ read'[d] = read[d] /\ seen'[d] = seen[d]
                     /\ Pending(d)' = Pending(d) /\ Wrote(d)' = Wrote(d) /\ Read(d)' = Read(d)
<1>1. Moves(c) /\ (Still(c) \/ Writes(c)) /\ Others(c) BY DEF Acts, Moves
<1>2. Op(d)' = Op(d) /\ req' = req BY <1>1 DEF Others, Op
<1>3. CASE d = c
  <2>1. Read(c) \subseteq Read(c)' BY <1>1 DEF Moves, Read
  <2>2. read'[c] = read[c] => Read(c)' = Read(c) BY DEF Read
  <2>3. Wrote(c)' => read'[c] = read[c] /\ (Wrote(c) \/ Writes(c)) BY <1>1 DEF Still, Writes
  <2>4. Pending(c)' => Pending(c) /\ ~Writes(c) BY <1>1 DEF Still, Writes
  <2>5. Wrote(c)' => Rewritten(c)' = Rewritten(c) BY <1>2, <1>3, <2>2, <2>3 DEF Rewritten
  <2>6. at[c] # 1 => at'[c] # 1 /\ seen'[c] = seen[c] BY <1>1 DEF Moves
  <2> QED BY <1>2, <1>3, <2>1, <2>2, <2>3, <2>4, <2>5, <2>6
<1>4. CASE d # c
  <2>1. at'[d] = at[d] /\ result'[d] = result[d] /\ read'[d] = read[d] /\ seen'[d] = seen[d]
    BY <1>1, <1>4 DEF Others
  <2>2. Pending(d)' = Pending(d) /\ Wrote(d)' = Wrote(d) BY <1>2, <2>1 DEF Pending, Wrote
  <2>3. Read(d)' = Read(d) BY <2>1 DEF Read
  <2>4. Rewritten(d)' = Rewritten(d) BY <1>2, <2>3 DEF Rewritten
  <2> QED BY <1>2, <1>4, <2>1, <2>2, <2>3, <2>4
<1> QED BY <1>3, <1>4

\* What a write leaves in the store: the row that was there, or one that carries the
\* writer's mark, made from what it had read or inserted.
LEMMA WrittenFacts ==
  ASSUME Inv, NEW c \in Calls, Writes(c), NEW w \in Wallets, stored'[w] # stored[w], stored'[w] # None
  PROVE  /\ stored'[w] \in Row
         /\ stored'[w].made = c \/ stored'[w].named = c
         /\ stored'[w].named \in {c} \/ (read[c][w] # None /\ stored'[w].named = read[c][w].named)
         /\ stored'[w].made \in {c} \/ (read[c][w] # None /\ stored'[w].made = read[c][w].made)
         /\ \/ stored[w] = None /\ stored'[w].row = c /\ Op(c) \in {"create", "import"}
            \/ stored[w] # None /\ stored'[w].row = stored[w].row
<1>1. stored \in [Wallets -> Row \union {None}] BY DEF Inv, TypeOK
<1>2. ASSUME NEW ws, NEW pw, Rewrites1(c, ws, pw)
      PROVE  /\ w \in ws /\ stored[w] = read[c][w] /\ read[c][w] # None
             /\ stored'[w] \in Row /\ stored'[w].made = c
             /\ stored'[w].named = read[c][w].named /\ stored'[w].row = read[c][w].row
  <2>1. w \in ws /\ stored[w] = read[c][w] /\ stored'[w] = Reencrypted(c, w, pw) BY <1>2 DEF Rewrites1
  <2>2. read[c][w] # None /\ pw \in Passwords BY <1>2, <2>1 DEF Rewrites1, Read
  <2> QED BY <2>1, <2>2, ReencryptedType
<1>3. CASE \E ws, pw : Rewrites1(c, ws, pw)
  BY <1>2, <1>3
<1>4. CASE /\ Op(c) \in {"create", "import"} /\ req[c].wallet \in Wallets
           /\ stored' = [stored EXCEPT ![req[c].wallet] =
                          [pw |-> req[c].new, legacy |-> FALSE, made |-> c, named |-> c,
                           row |-> IF stored[req[c].wallet] = None THEN c ELSE stored[req[c].wallet].row]]
  <2>1. stored'[w] = [pw |-> req[c].new, legacy |-> FALSE, made |-> c, named |-> c,
                      row |-> IF stored[w] = None THEN c ELSE stored[w].row]
    BY <1>1, <1>4
  <2>2. req[c].new \in Passwords BY <1>4, CallFacts
  <2>3. stored[w] # None => stored[w].row \in Calls \union {None} BY <1>1 DEF Row
  <2> QED BY <1>4, <2>1, <2>2, <2>3 DEF Row
<1>5. CASE /\ Op(c) = "rename" /\ req[c].wallet \in Read(c) /\ stored[req[c].wallet] # None
           /\ stored[req[c].wallet].row = read[c][req[c].wallet].row
           /\ stored' = [stored EXCEPT ![req[c].wallet] = [read[c][req[c].wallet] EXCEPT !.named = c]]
  <2>1. w = req[c].wallet /\ stored'[w] = [read[c][w] EXCEPT !.named = c] BY <1>1, <1>5
  <2>2. read[c][w] # None /\ read[c][w] \in Row BY <1>5, <2>1, CallFacts DEF Read
  <2>3. /\ [read[c][w] EXCEPT !.named = c] \in Row /\ [read[c][w] EXCEPT !.named = c].named = c
        /\ [read[c][w] EXCEPT !.named = c].made = read[c][w].made
        /\ [read[c][w] EXCEPT !.named = c].row = read[c][w].row
    BY <2>2 DEF Row
  <2> QED BY <1>5, <2>1, <2>2, <2>3
<1>6. CASE Op(c) = "delete" /\ req[c].wallet \in Wallets /\ stored' = [stored EXCEPT ![req[c].wallet] = None]
  BY <1>1, <1>6
<1> QED BY <1>3, <1>4, <1>5, <1>6 DEF Writes

LEMMA FreshInit == Init => Fresh
<1> SUFFICES ASSUME Init PROVE Fresh
  OBVIOUS
<1>1. \A d \in Calls, w \in Wallets : read[d][w] = None BY DEF Init
<1>2. \A w \in Wallets : stored[w] # None => stored[w].made = None /\ stored[w].named = None /\ stored[w].row = None
  BY DEF Init
<1> QED BY <1>1, <1>2, PasswordsAssumption DEF Fresh, Unmarked

LEMMA FreshNext ==
  ASSUME Inv, Reads, Fresh, [Next]_vars
  PROVE  Fresh'
<1>1. CASE UNCHANGED <<stored, sessions, req, row, seen, at, read, left, result>>
  BY <1>1 DEF Fresh, Pending, Op, Unmarked
<1>2. ASSUME NEW c \in Calls, Acts(c)
      PROVE  Fresh'
  <2>1. Moves(c) /\ (Still(c) \/ Writes(c)) BY <1>2 DEF Acts
  <2>2. SUFFICES ASSUME NEW d \in Calls, Pending(d)', NEW w \in Wallets
                 PROVE  Unmarked(d, stored'[w]) /\ \A e \in Calls : Unmarked(d, read'[e][w])
    BY DEF Fresh, Unmarked
  <2>3. Pending(d) /\ (Writes(c) => d # c) BY <1>2, <2>2, StayFacts
  <2>4. Unmarked(d, stored[w]) /\ \A e \in Calls : Unmarked(d, read[e][w]) BY <2>3 DEF Fresh
  <2>5. \A e \in Calls : read'[e][w] \in {read[e][w], stored[w]}
    BY <1>2, <2>1, StayFacts DEF Moves
  <2>6. Unmarked(d, stored'[w])
    <3>1. CASE stored'[w] = stored[w] BY <2>4, <3>1
    <3>2. CASE stored'[w] = None BY <3>2 DEF Unmarked
    <3>3. CASE stored'[w] # stored[w] /\ stored'[w] # None
      <4>1. Writes(c) /\ d # c BY <2>1, <2>3, <3>3 DEF Still
      <4>2. stored'[w].named \in {c} \/ (read[c][w] # None /\ stored'[w].named = read[c][w].named)
        BY <3>3, <4>1, WrittenFacts
      <4>3. stored'[w].made \in {c} \/ (read[c][w] # None /\ stored'[w].made = read[c][w].made)
        BY <3>3, <4>1, WrittenFacts
      <4>4. \/ stored[w] = None /\ stored'[w].row = c
            \/ stored[w] # None /\ stored'[w].row = stored[w].row
        BY <3>3, <4>1, WrittenFacts
      <4> QED BY <2>4, <4>1, <4>2, <4>3, <4>4 DEF Unmarked
    <3> QED BY <3>1, <3>2, <3>3
  <2> QED BY <2>4, <2>5, <2>6
<1> QED BY <1>1, <1>2, InvNext

LEMMA FreshHolds == Spec => [](Inv /\ Reads /\ Fresh)
<1>1. Inv /\ Reads /\ Fresh /\ [Next]_vars => Fresh' BY FreshNext
<1> QED BY FreshInit, <1>1, TypeCorrect, PTL DEF Spec

\* A rewrite that reports failure has changed no wallet: replace_all_keystores_atomically
\* is one transaction, and nobody fails after it.
THEOREM FailedCallsRewriteNothing == Spec => []FailedRewritesNothing
<1>1. Inv /\ Reads /\ Fresh => FailedRewritesNothing
  BY DEF Fresh, Pending, Unmarked, FailedRewritesNothing
<1> QED BY <1>1, FreshHolds, PTL

LEMMA ReadsGoneInit == Init => ReadsGone
<1> SUFFICES ASSUME Init, NEW d \in Calls, Op(d) \in Rewrites PROVE ~Wrote(d)
  BY DEF ReadsGone, Replaced
<1>1. at[d] = 1 BY DEF Init
<1> QED BY <1>1 DEF Wrote, WriteAt, Rewrites

LEMMA ReadsGoneNext ==
  ASSUME Inv, Reads, Fresh, ReadsGone, [Next]_vars
  PROVE  ReadsGone'
<1>1. CASE UNCHANGED <<stored, sessions, req, row, seen, at, read, left, result>>
  BY <1>1 DEF ReadsGone, Replaced, Rewritten, Read, Wrote, Op
<1>2. ASSUME NEW c \in Calls, Acts(c)
      PROVE  ReadsGone'
  <2>1. Still(c) \/ Writes(c) BY <1>2 DEF Acts
  <2>2. ASSUME NEW d \in Calls, NEW w \in Wallets, Replaced(d, w)'
        PROVE  /\ read'[d] = read[d] /\ w \in Read(d) /\ w \in Wallets
               /\ Replaced(d, w) \/ (d = c /\ Writes(c) /\ Rewrites1(c, Rewritten(c), req[c].new) /\ w \in Rewritten(c))
    <3>1. /\ Op(d) \in Rewrites /\ w \in Rewritten(d) /\ read'[d] = read[d]
          /\ Wrote(d) \/ (d = c /\ Writes(c))
      BY <1>2, <2>2, StayFacts DEF Replaced
    <3>2. CASE Wrote(d)
      <4>1. CallOK(d) /\ at[d] \in 0..8 BY DEF Inv, TypeOK
      <4>2. at[d] > 1 \/ result[d] = "ok" BY <3>1, <3>2, <4>1 DEF Wrote, WriteAt, Rewrites
      <4>3. w \in Read(d) BY <3>1, <4>1, <4>2 DEF CallOK, Rewritten, Naming, Rewrites
      <4> QED BY <3>1, <3>2, <4>3 DEF Replaced
    <3>3. CASE d = c /\ Writes(c)
      <4>1. Rewrites1(c, Rewritten(c), req[c].new) BY <3>1, <3>3 DEF Writes, Rewrites
      <4>2. w \in Read(c) BY <3>1, <3>3, <4>1 DEF Rewrites1
      <4> QED BY <3>1, <3>3, <4>1, <4>2
    <3> QED BY <3>1, <3>2, <3>3
  <2>3. ASSUME Writes(c), NEW d \in Calls, NEW w \in Wallets PROVE Unmarked(c, read[d][w])
    BY <2>3 DEF Fresh, Writes
  <2>4. ASSUME NEW d \in Calls, NEW w \in Wallets, Replaced(d, w)'
        PROVE  stored'[w] # read'[d][w]
    <3>1. read'[d] = read[d] /\ read[d][w] # None BY <2>2, <2>4 DEF Read
    <3>2. CASE stored'[w] = None BY <3>1, <3>2
    <3>3. CASE stored'[w] = stored[w]
      <4>1. CASE Replaced(d, w) BY <3>1, <3>3, <4>1 DEF ReadsGone
      <4>2. CASE ~Replaced(d, w)
        <5>1. d = c /\ Writes(c) /\ Rewrites1(c, Rewritten(c), req[c].new) /\ w \in Rewritten(c)
          BY <2>2, <2>4, <4>2
        <5>2. stored'[w] = Reencrypted(c, w, req[c].new) /\ req[c].new \in Passwords
          BY <5>1 DEF Rewrites1
        <5>3. stored'[w].made = c BY <3>1, <5>1, <5>2, ReencryptedType
        <5> QED BY <2>3, <3>1, <5>1, <5>3 DEF Unmarked
      <4> QED BY <4>1, <4>2
    <3>4. CASE stored'[w] # stored[w] /\ stored'[w] # None
      <4>1. Writes(c) BY <2>1, <3>4 DEF Still
      <4>2. stored'[w].made = c \/ stored'[w].named = c BY <3>4, <4>1, WrittenFacts
      <4> QED BY <2>3, <3>1, <4>1, <4>2 DEF Unmarked
    <3> QED BY <3>2, <3>3, <3>4
  <2>5. ASSUME NEW d \in Calls, NEW e \in Calls, d # e, NEW w \in Wallets, Replaced(d, w)', Replaced(e, w)'
        PROVE  read'[d][w] # read'[e][w]
    <3>1. read'[d] = read[d] /\ read'[e] = read[e] BY <2>2, <2>5
    <3>2. CASE Replaced(d, w) /\ Replaced(e, w) BY <2>5, <3>1, <3>2 DEF ReadsGone
    <3>3. ASSUME NEW a \in Calls, NEW b \in Calls, a # b, Replaced(a, w)', Replaced(b, w)', ~Replaced(b, w)
          PROVE  read[a][w] # read[b][w]
      <4>1. b = c /\ Rewrites1(c, Rewritten(c), req[c].new) /\ w \in Rewritten(c) BY <2>2, <3>3
      <4>2. stored[w] = read[b][w] BY <4>1 DEF Rewrites1
      <4>3. Replaced(a, w) BY <2>2, <3>3, <4>1
      <4> QED BY <4>2, <4>3 DEF ReadsGone
    <3>4. CASE ~Replaced(e, w) BY <2>5, <3>1, <3>3, <3>4
    <3>5. CASE ~Replaced(d, w) BY <2>5, <3>1, <3>3, <3>5
    <3> QED BY <3>2, <3>4, <3>5
  <2> QED BY <2>4, <2>5 DEF ReadsGone
<1> QED BY <1>1, <1>2, InvNext

LEMMA ReadsGoneHolds == Spec => [](Inv /\ Reads /\ Fresh /\ ReadsGone)
<1>1. Inv /\ Reads /\ Fresh /\ ReadsGone /\ [Next]_vars => ReadsGone' BY ReadsGoneNext
<1> QED BY ReadsGoneInit, <1>1, FreshHolds, PTL DEF Spec

\* Of two rewrites that both report success, neither was derived from the ciphertext the
\* other one replaced: replace_keystore_atomically compares what it swaps.
THEOREM RewritesAreNotLost == Spec => []NoRewriteLost
<1>1. ASSUME Inv, ReadsGone PROVE NoRewriteLost
  <2>1. SUFFICES ASSUME NEW d \in Calls, NEW e \in Calls, d # e, Done(d, Rewrites), Done(e, Rewrites),
                        NEW w \in Rewritten(d) \intersect Rewritten(e)
                 PROVE  read[d][w] # read[e][w]
    BY DEF NoRewriteLost
  <2>2. at[d] = 0 /\ at[e] = 0 BY <1>1, <2>1 DEF Inv, CallOK, Done
  <2>3. w \in Wallets BY <1>1, <2>1, CallFacts DEF Done, Rewritten, Rewrites
  <2>4. Replaced(d, w) /\ Replaced(e, w) BY <2>1, <2>2 DEF Replaced, Done, Wrote
  <2> QED BY <1>1, <2>1, <2>3, <2>4 DEF ReadsGone
<1> QED BY <1>1, ReadsGoneHolds, PTL

--------------------------------------------------------------------------------
(* Unlocking all. *)

LEMMA CheckedInit == Init => Checked /\ Opened
<1> SUFFICES ASSUME Init PROVE Checked /\ Opened
  OBVIOUS
<1>1. sessions = {} /\ \A c \in Calls : at[c] = 1 BY DEF Init
<1> QED BY <1>1 DEF Checked, Opened

LEMMA CheckedIff ==
  ASSUME Inv
  PROVE  Checked <=> \A c \in Calls : Relied(c) => Right(c)
<1>1. \A c \in Calls : Op(c) \notin Rewrites => req[c].old = req[c].new BY CallFacts
<1> QED BY <1>1 DEF Checked, Relied, Right, Unlocks, Rewrites

LEMMA CheckedNext ==
  ASSUME Inv, Reads, Checked, Opened, [Next]_vars
  PROVE  Checked' /\ Opened'
<1>0. Inv' BY InvNext
<1>1. CASE UNCHANGED <<stored, sessions, req, row, seen, at, read, left, result>>
  BY <1>1 DEF Checked, Opened, Unlocks, Read, Op
<1>2. ASSUME NEW c \in Calls, Acts(c)
      PROVE  Checked' /\ Opened'
  <2>1. Moves(c) /\ Proves(c) /\ Opens(c) /\ Others(c) BY <1>2 DEF Acts, Moves
  <2>2. \A d \in Calls : Relied(d) => Right(d) BY CheckedIff
  <2>3. ASSUME NEW d \in Calls, read'[d] = read[d]
        PROVE  (Right(d)' <=> Right(d)) /\ (Unlocks(d)' <=> Unlocks(d))
    BY <2>1, <2>3 DEF Right, Unlocks, Read, Others, Op
  <2>4. ASSUME NEW d \in Calls, Relied(d)' PROVE Right(d)'
    <3>1. CASE d = c BY <2>1, <2>2, <2>3, <2>4, <3>1 DEF Proves
    <3>2. CASE d # c
      <4>1. Relied(d) /\ read'[d] = read[d] BY <2>1, <2>4, <3>2 DEF Relied, Others, Op
      <4> QED BY <2>2, <2>3, <4>1
    <3> QED BY <3>1, <3>2
  <2>5. Checked'
    <3>1. \A d \in Calls : (Op(d) \notin Rewrites => req[d].old = req[d].new)' 
      BY CallFacts, <2>1 DEF Others, Op
    <3> QED BY <2>4, <3>1 DEF Checked, Relied, Right, Unlocks, Rewrites
  <2>6. ASSUME NEW s \in sessions', (Op(s.by) = "unlock_all")'
        PROVE  /\ at'[s.by] \in 5..6 \/ (at'[s.by] = 0 /\ result'[s.by] # "failed")
               /\ Unlocks(s.by)'
    <3>1. s.by \in Calls /\ Op(s.by) = "unlock_all" BY <1>0, <2>1, <2>6 DEF Inv, TypeOK, Others, Op
    <3>2. CASE s.by = c
      <4>1. s \in sessions => at[c] \in 5..6 BY <2>1, <3>1, <3>2 DEF Opened, Moves
      <4>2. at[c] \in 5..6 BY <2>1, <3>2, <4>1 DEF Opens
      <4>3. Unlocks(c) BY <3>1, <3>2, <4>2 DEF Checked
      <4> QED BY <2>1, <2>3, <3>1, <3>2, <4>2, <4>3 DEF Opens
    <3>3. CASE s.by # c
      <4>1. s \in sessions BY <2>1, <3>3 DEF Opens
      <4>2. at'[s.by] = at[s.by] /\ result'[s.by] = result[s.by] /\ read'[s.by] = read[s.by]
        BY <2>1, <3>1, <3>3 DEF Others
      <4> QED BY <2>3, <3>1, <4>1, <4>2 DEF Opened
    <3> QED BY <3>2, <3>3
  <2> QED BY <2>5, <2>6 DEF Opened
<1> QED BY <1>1, <1>2, InvNext

LEMMA CheckedHolds == Spec => [](Inv /\ Reads /\ Checked /\ Opened)
<1>1. Inv /\ Reads /\ Checked /\ Opened /\ [Next]_vars => Checked' /\ Opened' BY CheckedNext
<1> QED BY CheckedInit, <1>1, TypeCorrect, PTL DEF Spec

\* A session opened by an unlock of all means that every wallet it met decrypted, and none
\* is left by an unlock that reports failure.
THEOREM UnlocksAllOrNothing == Spec => []UnlockAllOrNothing
<1>1. ASSUME Inv, Opened PROVE UnlockAllOrNothing
  <2>1. \A s \in sessions : s.by \in Calls BY <1>1 DEF Inv, TypeOK
  <2>2. \A d \in Calls : at[d] \in 5..6 => result[d] # "failed" BY <1>1 DEF Inv, CallOK
  <2> QED BY <1>1, <2>1, <2>2 DEF Opened, UnlockAllOrNothing, Unlocks
<1> QED BY <1>1, CheckedHolds, PTL

--------------------------------------------------------------------------------
(* Passwords that were changed. *)

\* A row as it stands when nothing has a call in it.
LEMMA OldFacts ==
  ASSUME Inv, NEW d \in Calls, NEW w \in Wallets, Covers(d, w)
  PROVE  read[d][w] # None /\ read[d][w] \in Row /\ req[d].old \in Passwords
BY CallFacts DEF Covers, Read

LEMMA UnbornInit == Init => Unborn /\ Outdated /\ Imports
<1> SUFFICES ASSUME Init PROVE Unborn /\ Outdated /\ Imports
  OBVIOUS
<1>1. \A c \in Calls : at[c] = 1 BY DEF Init
<1>2. \A c \in Calls, w \in Wallets : ~Covers(c, w) BY <1>1 DEF Covers, Wrote, WriteAt
<1> QED BY <1>1, <1>2 DEF Unborn, Outdated, Imports

\* A wallet that is not there is written by nobody but who creates or imports it.
LEMMA Unwritten ==
  ASSUME Inv, NEW c \in Calls, Writes(c), NEW w \in Wallets, stored[w] = None,
         Op(c) \notin {"create", "import"} \/ req[c].wallet # w
  PROVE  stored'[w] = None
<1>1. stored \in [Wallets -> Row \union {None}] BY DEF Inv, TypeOK
<1>2. ASSUME NEW ws, NEW pw, Rewrites1(c, ws, pw)
      PROVE  stored'[w] = stored[w]
  <2>1. w \in ws => stored[w] = read[c][w] /\ read[c][w] # None BY <1>2 DEF Rewrites1, Read
  <2> QED BY <1>2, <2>1 DEF Rewrites1
<1> QED BY <1>1, <1>2 DEF Writes

LEMMA UnbornNext ==
  ASSUME Inv, Reads, Unborn, [Next]_vars
  PROVE  Unborn'
<1>1. CASE UNCHANGED <<stored, sessions, req, row, seen, at, read, left, result>>
  BY <1>1 DEF Unborn, Op
<1>2. ASSUME NEW a \in Calls, Acts(a)
      PROVE  Unborn'
  <2>1. Moves(a) /\ (Still(a) \/ Writes(a)) /\ Others(a) BY <1>2 DEF Acts, Moves
  <2>2. \A c \in Calls : Op(c)' = Op(c) /\ req'[c] = req[c] BY <1>2, StayFacts
  <2>3. SUFFICES ASSUME NEW c \in Calls, Op(c) = "create", at'[c] \in 2..4
                 PROVE  /\ stored'[req[c].wallet] = None
                        /\ \A d \in Calls \ {c} : Op(d) \notin {"unlock_all", "lock_all"} /\ req[d].wallet = req[c].wallet =>
                              at'[d] \in {0, 1}
    BY <2>2 DEF Unborn
  <2>4. req[c].wallet \in Wallets BY <2>3, CallFacts
  <2>5. at[c] # 0 /\ (at[c] # 1 => at[c] \in 2..4)
    <3>1. at[c] \in 0..8 BY DEF Inv, TypeOK
    <3>2. CASE c = a BY <2>1, <2>3, <3>1, <3>2 DEF Moves
    <3>3. CASE c # a BY <2>1, <2>3, <3>3 DEF Others
    <3> QED BY <3>2, <3>3
  <2>6. CASE at[c] = 1
    <3>1. c = a BY <2>1, <2>3, <2>6 DEF Others
    <3>2. Untouched(req[c].wallet) BY <2>1, <2>3, <2>6, <3>1 DEF Moves, Asks
    <3>3. ~Writes(c) BY <2>3, <2>6 DEF Writes, WriteAt
    <3>4. stored' = stored BY <2>1, <3>1, <3>3 DEF Still
    <3>5. ASSUME NEW d \in Calls \ {c}, req[d].wallet = req[c].wallet PROVE at'[d] = 1
      BY <2>1, <3>1, <3>2, <3>5 DEF Untouched, Begun, Others
    <3> QED BY <3>2, <3>4, <3>5 DEF Untouched
  <2>7. CASE at[c] # 1
    <3>1. /\ stored[req[c].wallet] = None
          /\ \A d \in Calls \ {c} : Op(d) \notin {"unlock_all", "lock_all"} /\ req[d].wallet = req[c].wallet =>
                at[d] \in {0, 1}
      BY <2>3, <2>5, <2>7 DEF Unborn
    <3>2. stored'[req[c].wallet] = None
      <4>1. CASE Still(a) BY <3>1, <4>1 DEF Still
      <4>2. CASE Writes(a)
        <5>1. Op(a) \notin {"create", "import"} \/ req[a].wallet # req[c].wallet
          <6>1. CASE a = c
            <7>1. at[c] = 4 /\ Pending(c) /\ ~Pending(c)' BY <2>3, <4>2, <6>1 DEF Writes, WriteAt
            <7> QED BY <2>2, <2>3, <7>1 DEF Pending, WriteAt
          <6>2. CASE a # c BY <3>1, <4>2, <6>2 DEF Writes, WriteAt
          <6> QED BY <6>1, <6>2
        <5> QED BY <2>4, <3>1, <4>2, <5>1, Unwritten
      <4> QED BY <2>1, <4>1, <4>2
    <3>3. ASSUME NEW d \in Calls \ {c}, Op(d) \notin {"unlock_all", "lock_all"}, req[d].wallet = req[c].wallet
          PROVE  at'[d] \in {0, 1}
      <4>1. CASE d # a BY <2>1, <3>1, <3>3, <4>1 DEF Others
      <4>2. CASE d = a
        <5>1. at[d] = 1 BY <2>1, <3>1, <3>3, <4>2 DEF Moves
        <5>2. ~Asks(Op(d), req[d].wallet)
          <6>1. Begun(c) BY <2>7 DEF Begun
          <6>2. ~Untouched(req[d].wallet) BY <3>3, <6>1 DEF Untouched
          <6>3. Creating(req[d].wallet) BY <2>3, <2>5, <3>3, <6>1 DEF Creating
          <6> QED BY <3>1, <3>3, <6>2, <6>3 DEF Asks
        <5> QED BY <2>1, <4>2, <5>1, <5>2 DEF Moves
      <4> QED BY <4>1, <4>2
    <3> QED BY <3>2, <3>3
  <2> QED BY <2>6, <2>7
<1> QED BY <1>1, <1>2, InvNext

\* What excuses the old password excuses it for good.
LEMMA ExcusedStays ==
  ASSUME Inv, NEW c \in Calls, Acts(c), NEW d \in Calls, NEW w \in Wallets, Excused(d, w)
  PROVE  Excused(d, w)'
<1>0. \A e \in Calls : Op(e)' = Op(e) /\ req'[e] = req[e] BY StayFacts
<1>1. CASE \E e \in Calls \ {d} : /\ Op(e) \in Rewrites /\ ~Pending(e) /\ w \in Rewritten(e)
                                  /\ req[e].new = req[d].old
  <2>1. PICK e \in Calls \ {d} : /\ Op(e) \in Rewrites /\ ~Pending(e) /\ w \in Rewritten(e)
                                 /\ req[e].new = req[d].old
    BY <1>1
  <2>2. ~Pending(e)' /\ Read(e) \subseteq Read(e)' BY <2>1, StayFacts
  <2>3. w \in Rewritten(e)' BY <1>0, <2>1, <2>2 DEF Rewritten
  <2> QED BY <1>0, <2>1, <2>2, <2>3 DEF Excused
<1>2. CASE \E e \in Calls : Op(e) \in {"rename", "import"} /\ req[e].wallet = w /\ at[e] # 1 /\ d \notin seen[e]
  <2>1. PICK e \in Calls : Op(e) \in {"rename", "import"} /\ req[e].wallet = w /\ at[e] # 1 /\ d \notin seen[e]
    BY <1>2
  <2>2. at'[e] # 1 /\ seen'[e] = seen[e] BY <2>1, StayFacts
  <2> QED BY <1>0, <2>1, <2>2 DEF Excused
<1> QED BY <1>1, <1>2 DEF Excused

LEMMA CoversStays ==
  ASSUME Inv, NEW c \in Calls, Acts(c), NEW d \in Calls, NEW w \in Wallets, Covers(d, w)'
  PROVE  /\ Op(d) = "change" /\ read'[d] = read[d] /\ w \in Read(d) /\ req'[d] = req[d]
         /\ Covers(d, w) \/ (d = c /\ Writes(c) /\ Rewrites1(c, Read(c), req[c].new))
<1>1. /\ Op(d) = "change" /\ read'[d] = read[d] /\ w \in Read(d) /\ req'[d] = req[d]
      /\ Wrote(d) \/ (d = c /\ Writes(c))
  BY StayFacts DEF Covers
<1>2. CASE Wrote(d) BY <1>1, <1>2 DEF Covers
<1>3. CASE d = c /\ Writes(c)
  <2>1. Rewrites1(c, Rewritten(c), req[c].new) BY <1>1, <1>3 DEF Writes, Rewrites
  <2> QED BY <1>1, <1>3, <2>1 DEF Rewritten
<1> QED BY <1>1, <1>2, <1>3

LEMMA ImportsNext ==
  ASSUME Inv, Reads, Fresh, Imports, [Next]_vars
  PROVE  Imports'
<1>1. CASE UNCHANGED <<stored, sessions, req, row, seen, at, read, left, result>>
  BY <1>1 DEF Imports, Op, Covers, Wrote, Read
<1>2. ASSUME NEW c \in Calls, Acts(c)
      PROVE  Imports'
  <2>1. Moves(c) /\ (Still(c) \/ Writes(c)) /\ Others(c) BY <1>2 DEF Acts, Moves
  <2>2. \A e \in Calls : Op(e)' = Op(e) /\ req'[e] = req[e] BY <1>2, StayFacts
  <2>3. SUFFICES ASSUME NEW d \in Calls, NEW e \in Calls, NEW w, w = req[e].wallet,
                        Op(e) = "import", at'[e] \in 2..4, d \in seen'[e], Covers(d, w)',
                        stored'[w] # None, stored'[w].row = read'[d][w].row
                 PROVE  read'[e][w] # None /\ read'[e][w].row = stored'[w].row
    BY <2>2 DEF Imports
  <2>4. w \in Wallets BY <2>3, CallFacts
  <2>5. /\ Op(d) = "change" /\ read'[d] = read[d] /\ w \in Read(d)
        /\ Covers(d, w) \/ (d = c /\ Writes(c) /\ Rewrites1(c, Read(c), req[c].new))
    BY <1>2, <2>3, <2>4, CoversStays
  <2>6. CASE e = c
    <3>1. stored' = stored
      <4>1. ~Writes(c)
        <5>1. SUFFICES ASSUME at[c] = 4, Pending(c), ~Pending(c)' PROVE FALSE
          BY <2>3, <2>6 DEF Writes, WriteAt
        <5>2. at'[c] = 4 BY <2>1, <2>3, <2>6, <5>1 DEF Moves
        <5> QED BY <2>2, <2>3, <2>6, <5>1, <5>2 DEF Pending, WriteAt
      <4> QED BY <2>1, <4>1 DEF Still
    <3>2. CASE at[c] = 1 BY <2>1, <2>3, <2>4, <2>6, <3>1, <3>2 DEF Moves
    <3>3. CASE at[c] # 1
      <4>1. at[c] \in 2..4
        <5>1. at[c] \in 0..8 BY DEF Inv, TypeOK
        <5> QED BY <2>1, <2>3, <2>6, <3>3, <5>1 DEF Moves
      <4>2. d \in seen[e] BY <2>1, <2>3, <2>6, <3>3 DEF Moves
      <4>3. Covers(d, w)
        <5>1. d # c BY <2>3, <2>5, <2>6
        <5> QED BY <2>5, <5>1
      <4>4. read[e][w] # None /\ read[e][w].row = stored[w].row
        BY <2>3, <2>5, <2>6, <3>1, <4>1, <4>2, <4>3 DEF Imports
      <4>5. read'[e][w] = read[e][w] BY <2>1, <2>4, <2>6, <4>4 DEF Moves
      <4> QED BY <3>1, <4>4, <4>5
    <3> QED BY <3>2, <3>3
  <2>7. CASE e # c
    <3>1. at[e] \in 2..4 /\ seen'[e] = seen[e] /\ read'[e] = read[e] BY <2>1, <2>3, <2>7 DEF Others
    <3>2. d # c
      <4>1. result[d] = "ok" BY <2>3, <3>1 DEF Inv, CallOK
      <4>2. at[d] = 0 BY <4>1 DEF Inv, CallOK
      <4> QED BY <2>1, <4>2 DEF Moves
    <3>3. Covers(d, w) BY <2>5, <3>2
    <3>4. stored[w] # None /\ stored[w].row = stored'[w].row
      <4>1. CASE stored'[w] = stored[w] BY <2>3, <4>1
      <4>2. CASE stored'[w] # stored[w]
        <5>1. Writes(c) BY <2>1, <4>2 DEF Still
        <5>2. \/ stored[w] = None /\ stored'[w].row = c
              \/ stored[w] # None /\ stored'[w].row = stored[w].row
          BY <2>3, <2>4, <4>2, <5>1, WrittenFacts
        <5>3. read[d][w] # None /\ read[d][w].row # c
          BY <2>4, <2>5, <5>1 DEF Writes, Fresh, Unmarked, Read
        <5> QED BY <2>3, <2>5, <5>2, <5>3
      <4> QED BY <4>1, <4>2
    <3> QED BY <2>3, <2>5, <3>1, <3>3, <3>4 DEF Imports
  <2> QED BY <2>6, <2>7
<1> QED BY <1>1, <1>2, InvNext

\* A write does not bring the old password back, unless it is excused.
LEMMA OutdatedWrite ==
  ASSUME Inv, Reads, Fresh, Checked, Unborn, Outdated, Imports, NEW c \in Calls, Acts(c), Writes(c),
         NEW d \in Calls, d # c, NEW w \in Wallets, Covers(d, w), ~Excused(d, w), Old(d, w, stored'[w])
  PROVE  Excused(d, w)'
<1>0. /\ ~Old(d, w, stored[w])
      /\ \A e \in Calls : d \in seen[e] => ~Old(d, w, read[e][w])
      /\ stored'[w] # None /\ stored'[w] # stored[w]
  BY DEF Outdated, Old
<1>1. /\ \A e \in Calls : Op(e)' = Op(e) /\ req'[e] = req[e] /\ Read(e) \subseteq Read(e)'
      /\ at[c] = WriteAt(Op(c)) /\ Pending(c) /\ ~Pending(c)' /\ at[c] # 0
  BY StayFacts DEF Writes, Acts, Moves
<1>2. at[c] # 1 /\ at'[c] # 1 /\ seen'[c] = seen[c]
  <2>1. at[c] # 1 BY <1>1 DEF Writes, WriteAt, Rewrites
  <2> QED BY <2>1, StayFacts
<1>3. /\ read[d][w] # None /\ read[d][w].row # c
  BY <1>1 DEF Fresh, Unmarked, Covers, Read
<1>4. CASE Op(c) \in Rewrites /\ Rewrites1(c, Rewritten(c), req[c].new)
  <2>1. w \in Rewritten(c) /\ stored'[w] = Reencrypted(c, w, req[c].new) /\ req[c].new \in Passwords
        /\ read[c][w] # None
    BY <1>0, <1>4 DEF Rewrites1, Read
  <2>2. req[c].new = req[d].old BY <2>1, ReencryptedType DEF Old
  <2>3. w \in Rewritten(c)' BY <1>1, <2>1 DEF Rewritten
  <2> QED BY <1>1, <1>4, <2>2, <2>3 DEF Excused
<1>5. ASSUME Op(c) \in {"verify", "export", "unlock_all"}, NEW ws, Rewrites1(c, ws, req[c].old)
      PROVE  FALSE
  <2>1. w \in ws /\ stored[w] = read[c][w] /\ read[c][w] # None /\ req[c].old \in Passwords
        /\ stored'[w] = Reencrypted(c, w, req[c].old)
    BY <1>0, <1>5 DEF Rewrites1, Read
  <2>2. stored'[w].pw = req[c].old /\ stored'[w].row = read[c][w].row BY <2>1, ReencryptedType
  <2>3. read[c][w].pw = req[c].old
    <3>1. w \in Read(c) /\ at[c] = 4 BY <1>1, <1>5, <2>1 DEF Read, WriteAt
    <3>2. CASE Op(c) = "unlock_all" BY <3>1, <3>2 DEF Checked, Unlocks
    <3>3. CASE Op(c) \in {"verify", "export"} BY <3>1, <3>3 DEF Checked, Reads
    <3> QED BY <1>5, <3>2, <3>3
  <2> QED BY <1>0, <2>1, <2>2, <2>3 DEF Old
<1>6. CASE /\ Op(c) \in {"create", "import"} /\ req[c].wallet \in Wallets
           /\ stored' = [stored EXCEPT ![req[c].wallet] =
                          [pw |-> req[c].new, legacy |-> FALSE, made |-> c, named |-> c,
                           row |-> IF stored[req[c].wallet] = None THEN c ELSE stored[req[c].wallet].row]]
  <2>1. w = req[c].wallet /\ stored \in [Wallets -> Row \union {None}] BY <1>0, <1>6 DEF Inv, TypeOK
  <2>2. stored'[w].pw = req[c].new /\ (stored[w] = None => stored'[w].row = c)
        /\ (stored[w] # None => stored'[w].row = stored[w].row)
    BY <1>6, <2>1
  <2>3. stored[w] # None /\ stored[w].row = read[d][w].row BY <1>3, <2>2 DEF Old
  <2>4. Op(c) = "import" /\ at[c] = 4
    <3>1. at[c] = 4 BY <1>1, <1>6 DEF WriteAt
    <3>2. Op(c) # "create" BY <2>1, <2>3, <3>1 DEF Unborn
    <3> QED BY <1>6, <3>1, <3>2
  <2>5. CASE d \in seen[c]
    <3>1. read[c][w] # None /\ read[c][w].row = stored[w].row
      BY <2>1, <2>3, <2>4, <2>5 DEF Imports
    <3>2. read[c][w].pw = req[c].new BY <2>4, <3>1 DEF Checked, Read
    <3> QED BY <1>0, <2>2, <2>3, <2>5, <3>1, <3>2 DEF Old
  <2>6. CASE d \notin seen[c]
    <3>1. Op(c)' = "import" /\ req'[c].wallet = w /\ at'[c] # 1 /\ d \notin seen'[c]
      BY <1>1, <1>2, <2>1, <2>4, <2>6
    <3> QED BY <3>1 DEF Excused
  <2> QED BY <2>5, <2>6
<1>7. CASE /\ Op(c) = "rename" /\ req[c].wallet \in Read(c) /\ stored[req[c].wallet] # None
           /\ stored[req[c].wallet].row = read[c][req[c].wallet].row
           /\ stored' = [stored EXCEPT ![req[c].wallet] = [read[c][req[c].wallet] EXCEPT !.named = c]]
  <2>1. stored \in [Wallets -> Row \union {None}] BY DEF Inv, TypeOK
  <2>2. w = req[c].wallet /\ stored'[w] = [read[c][w] EXCEPT !.named = c] BY <1>0, <1>7, <2>1
  <2>3. read[c][w] # None /\ read[c][w] \in Row BY <1>7, <2>2, CallFacts DEF Read
  <2>4. /\ [read[c][w] EXCEPT !.named = c].pw = read[c][w].pw
        /\ [read[c][w] EXCEPT !.named = c].row = read[c][w].row
    BY <2>3 DEF Row
  <2>5. Old(d, w, read[c][w]) BY <2>2, <2>3, <2>4 DEF Old
  <2>6. d \notin seen[c] BY <1>0, <2>5
  <2>7. Op(c)' = "rename" /\ req'[c].wallet = w /\ at'[c] # 1 /\ d \notin seen'[c]
    BY <1>1, <1>2, <1>7, <2>2, <2>6
  <2> QED BY <2>7 DEF Excused
<1>8. CASE Op(c) = "delete" /\ req[c].wallet \in Wallets /\ stored' = [stored EXCEPT ![req[c].wallet] = None]
  <2>1. stored \in [Wallets -> Row \union {None}] BY DEF Inv, TypeOK
  <2> QED BY <1>0, <1>8, <2>1
<1> QED BY <1>4, <1>5, <1>6, <1>7, <1>8 DEF Writes

LEMMA OutdatedNext ==
  ASSUME Inv, Reads, Fresh, Checked, Unborn, Outdated, Imports, [Next]_vars
  PROVE  Outdated'
<1>1. CASE UNCHANGED <<stored, sessions, req, row, seen, at, read, left, result>>
  <2>1. \A d \in Calls, w \in Wallets : (Excused(d, w) => Excused(d, w)') /\ (Covers(d, w)' => Covers(d, w))
    BY <1>1 DEF Excused, Covers, Pending, Wrote, Rewritten, Op, Read
  <2> QED BY <1>1, <2>1 DEF Outdated, Old
<1>2. ASSUME NEW c \in Calls, Acts(c)
      PROVE  Outdated'
  <2>1. Moves(c) /\ (Still(c) \/ Writes(c)) /\ Others(c) BY <1>2 DEF Acts, Moves
  <2>2. SUFFICES ASSUME NEW d \in Calls, NEW w \in Wallets, Covers(d, w)', ~Excused(d, w)'
                 PROVE  ~Old(d, w, stored[w])' /\ \A e \in Calls : d \in seen'[e] => ~Old(d, w, read[e][w])'
    BY DEF Outdated
  <2>3. /\ Op(d) = "change" /\ read'[d] = read[d] /\ w \in Read(d) /\ req'[d] = req[d]
        /\ Covers(d, w) \/ (d = c /\ Writes(c) /\ Rewrites1(c, Read(c), req[c].new))
    BY <1>2, <2>2, CoversStays
  <2>4. \A r : Old(d, w, r) <=> r # None /\ r.row = read'[d][w].row /\ r.pw = req'[d].old
    BY <2>3 DEF Old
  <2>5. Old(d, w, stored[w])' <=> Old(d, w, stored'[w]) BY <2>4 DEF Old
  <2>6. \A e \in Calls : Old(d, w, read[e][w])' <=> Old(d, w, read'[e][w]) BY <2>4 DEF Old
  <2>7. CASE Covers(d, w)
    <3>1. ~Excused(d, w) BY <1>2, <2>2, ExcusedStays
    <3>2. ~Old(d, w, stored[w]) /\ \A e \in Calls : d \in seen[e] => ~Old(d, w, read[e][w])
      BY <2>7, <3>1 DEF Outdated
    <3>3. ~Old(d, w, stored'[w])
      <4>1. CASE Still(c) BY <3>2, <4>1 DEF Still
      <4>2. CASE Writes(c)
        <5>1. d # c
          <6>1. Wrote(d) /\ Op(d) = "change" BY <2>7 DEF Covers
          <6> QED BY <4>2, <6>1 DEF Writes, Pending, Wrote, WriteAt
        <5> QED BY <1>2, <2>2, <2>7, <3>1, <4>2, <5>1, OutdatedWrite
      <4> QED BY <2>1, <4>1, <4>2
    <3>4. ASSUME NEW e \in Calls, d \in seen'[e] PROVE ~Old(d, w, read'[e][w])
      <4>1. CASE e # c BY <2>1, <3>2, <3>4, <4>1 DEF Others
      <4>2. CASE e = c
        <5>1. read'[c][w] = read[c][w] \/ read'[c][w] = stored[w] BY <2>1 DEF Moves
        <5>2. CASE at[c] = 1
          <6>1. read[c][w] = None BY <5>2, Running DEF Read
          <6> QED BY <3>2, <4>2, <5>1, <6>1 DEF Old
        <5>3. CASE at[c] # 1
          <6>1. d \in seen[c] BY <2>1, <3>4, <4>2, <5>3 DEF Moves
          <6> QED BY <3>2, <4>2, <5>1, <6>1
        <5> QED BY <5>2, <5>3
      <4> QED BY <4>1, <4>2
    <3> QED BY <2>5, <2>6, <3>3, <3>4
  <2>8. CASE d = c /\ Writes(c) /\ Rewrites1(c, Read(c), req[c].new)
    <3>1. ~Old(d, w, stored'[w])
      <4>1. stored'[w] = Reencrypted(c, w, req[c].new) /\ req[c].new \in Passwords /\ read[c][w] # None
        BY <2>3, <2>8 DEF Rewrites1, Read
      <4>2. stored'[w].pw = req[c].new BY <4>1, ReencryptedType
      <4>3. req[c].new # req[c].old BY <2>3, <2>8, CallFacts
      <4> QED BY <2>8, <4>2, <4>3 DEF Old
    <3>2. \A e \in Calls : d \notin seen'[e]
      <4>1. at[c] # 0 /\ result[c] # "ok" BY <2>1, Running DEF Moves
      <4>2. at[c] # 1 BY <2>3, <2>8 DEF Writes, WriteAt
      <4>3. \A e \in Calls : seen'[e] = seen[e] BY <1>2, <4>2, StayFacts
      <4> QED BY <2>8, <4>1, <4>3 DEF Inv, CallOK
    <3> QED BY <2>5, <3>1, <3>2
  <2> QED BY <2>3, <2>7, <2>8
<1> QED BY <1>1, <1>2, InvNext

\* The inductive invariant of the theorem below.
Stands == Inv /\ Reads /\ Fresh /\ Checked /\ Opened /\ Unborn /\ Outdated /\ Imports

LEMMA StandsHolds == Spec => []Stands
<1>1. Init => Stands BY InvInit, FreshInit, CheckedInit, UnbornInit DEF Stands
<1>2. Stands /\ [Next]_vars => Stands'
  BY InvNext, FreshNext, CheckedNext, UnbornNext, OutdatedNext, ImportsNext DEF Stands
<1> QED BY <1>1, <1>2, PTL DEF Spec

\* A call made after a password change was reported does not get in with the old password,
\* to any wallet the change covered: unless somebody asked for that password again, or a
\* renaming or an import overlapped the change.
THEOREM ChangedPasswordsStand == Spec => []PasswordChangeStands
<1>1. ASSUME Stands PROVE PasswordChangeStands
  <2>0. Inv /\ Checked /\ Outdated BY <1>1 DEF Stands
  <2>1. SUFFICES ASSUME NEW c \in Calls, NEW d \in Calls, NEW w \in Wallets, GetsIn(c, d, w)
                 PROVE  AskedBack(d, w) \/ Overlapped(d, w)
    BY DEF PasswordChangeStands
  <2>2. /\ Op(c) \in {"verify", "export"} /\ result[c] = "ok" /\ Op(d) = "change" /\ result[d] = "ok"
        /\ d \in seen[c] /\ req[c].wallet = w /\ w \in Read(d) /\ read[d][w].row = row[c]
        /\ req[c].old = req[d].old
    BY <2>1 DEF GetsIn, Done
  <2>3. at[c] = 0 /\ at[d] = 0 BY <2>0, <2>2 DEF Inv, CallOK
  <2>4. read[c][w] # None /\ read[c][w].row = row[c] BY <2>0, <2>2 DEF Inv, CallOK, Naming, Read
  <2>5. read[c][w].pw = req[c].old BY <2>0, <2>2, <2>3 DEF Checked
  <2>6. Old(d, w, read[c][w]) BY <2>2, <2>4, <2>5 DEF Old
  <2>7. Covers(d, w) BY <2>2, <2>3 DEF Covers, Wrote
  <2>8. Excused(d, w) BY <2>0, <2>2, <2>6, <2>7 DEF Outdated
  <2>9. \A e \in Calls : Op(e) \in Rewrites /\ ~Pending(e) => Begun(e) /\ result[e] # "failed"
    BY DEF Pending, Begun, WriteAt, Rewrites
  <2> QED BY <2>8, <2>9 DEF Excused, AskedBack, Overlapped, Begun
<1> QED BY <1>1, StandsHolds, PTL

================================================================================
