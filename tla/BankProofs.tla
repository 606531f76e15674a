---------------------------- MODULE BankProofs ----------------------------
(***************************************************************************)
(* For any number of accounts, requests and connections: the types, the    *)
(* agreement of balance and history, and that BankLedger implements Bank.  *)
(*                                                                         *)
(* The invariant says what a transaction may rely on between its           *)
(* statements: it holds the row lock, and so what it read is still there.  *)
(* A second one says the converse: only such a transaction holds a lock.   *)
(***************************************************************************)
EXTENDS BankLedger, FiniteSetTheorems, TLAPS

Holding == {"update", "insert", "commit"}

Moved(op, b, m) == IF op = "deposit" THEN b + m ELSE b - m

\* What is true of request p between two of its statements.
Sound(p) ==
    /\ req[p].at \in InTx \cup {"begin"} =>
           /\ req[p].op \in {"deposit", "withdrawal"}
           /\ req[p].amount \in Amounts
           /\ req[p].amount > 0
    /\ req[p].at \in Holding =>
           /\ req[p].acct \in exists
           /\ lock[req[p].acct] = p
           /\ Suffices(req[p].op, balance[req[p].acct], req[p].amount)
    /\ req[p].at = "update" => req[p].bal = balance[req[p].acct]
    /\ req[p].at \in {"insert", "commit"} =>
           req[p].bal \in Stored(Moved(req[p].op, balance[req[p].acct], req[p].amount))
    /\ req[p].at = "commit" => Round(req[p].amount) > 0

AllSound == \A p \in Requests : Sound(p)

\* A row of the history belongs to a request that has been answered.
BookedIsDone == \A a \in Accounts : \A p \in entries[a] : req[p].at = "done"

Halves(a) == {p \in entries[a] : HalfCent(req[p].amount)}

IInv == TypeOK /\ AllSound /\ BookedIsDone /\ BooksAgree

-----------------------------------------------------------------------------
(* Rounding *)

\* Rounding commutes with the whole cents of a deposit: what UPDATE stores is
\* what the history books, but for a half cent.
LEMMA DepositRounds ==
    ASSUME NEW b \in WholeCents, NEW m \in Int, NEW v \in Stored(b + m)
    PROVE  /\ ~ HalfCent(m) => v = b + Round(m)
           /\ HalfCent(m) => v = b + Round(m) \/ v = b + Round(m) - Cent
BY MoneyAssumption DEF WholeCents, Stored, Round, HalfCent, Cent

LEMMA WithdrawalRounds ==
    ASSUME NEW b \in WholeCents, NEW m \in Int, NEW v \in Stored(b - m)
    PROVE  /\ ~ HalfCent(m) => v = b - Round(m)
           /\ HalfCent(m) => v = b - Round(m) \/ v = b - Round(m) + Cent
BY MoneyAssumption DEF WholeCents, Stored, Round, HalfCent, Cent

\* A stored value is a whole number of cents, and not negative if the exact
\* value was not.
LEMMA StoredIsCents ==
    ASSUME NEW m \in Int, m >= 0, NEW v \in Stored(m), v <= MaxMoney
    PROVE  v \in WholeCents
BY MoneyAssumption DEF WholeCents, Stored, Round, HalfCent, Cent

LEMMA StoredIsInt ==
    ASSUME NEW m \in Int
    PROVE  Round(m) \in Int /\ \A v \in Stored(m) : v \in Int
BY DEF Stored, Round, HalfCent, Cent

\* What NewBalance computes from a balance that was read and suffices.
LEMMA MovedIsNat ==
    ASSUME NEW op \in {"deposit", "withdrawal"}, NEW b \in WholeCents,
           NEW m \in Int, m > 0, Suffices(op, b, m)
    PROVE  Moved(op, b, m) \in Int /\ Moved(op, b, m) >= 0
BY MoneyAssumption DEF Moved, Suffices, WholeCents

-----------------------------------------------------------------------------
(* Steps that leave the tables alone.  p is the request that moves: it is    *)
(* not answered yet, and its own lock is the only one that changes.          *)

LEMMA InitIInv == Init => IInv
<1> SUFFICES ASSUME Init PROVE IInv
  OBVIOUS
<1> USE LedgerAssumption, MoneyAssumption
<1>1. 0 \in WholeCents
  BY DEF WholeCents, Cent
<1>2. (CHOOSE a \in Accounts : TRUE) \in Accounts
  OBVIOUS
<1>3. TypeOK
  <2>1. balance \in [Accounts -> WholeCents] /\ booked \in [Accounts -> Int]
    BY <1>1 DEF Init, WholeCents
  <2>2. req \in [Requests -> Request]
    BY <1>1, <1>2 DEF Init, Request, Replies
  <2> QED
    BY <2>1, <2>2 DEF Init, TypeOK
<1>4. AllSound
  BY DEF Init, AllSound, Sound, InTx, Holding
<1>5. BookedIsDone
  BY DEF Init, BookedIsDone
<1>6. BooksAgree
  <2> SUFFICES ASSUME NEW a \in Accounts
               PROVE  Drift(a) <= Cent * Cardinality(Halves(a))
    BY DEF BooksAgree, Halves
  <2>1. Halves(a) = {}
    BY DEF Init, Halves
  <2>2. Cardinality(Halves(a)) = 0
    BY <2>1, FS_EmptySet
  <2>3. Drift(a) = 0
    BY <1>3 DEF Init, Drift, TypeOK, WholeCents
  <2> QED
    BY <2>2, <2>3 DEF Cent
<1> QED
  BY <1>3, <1>4, <1>5, <1>6 DEF IInv

\* Halves only looks at requests that are done.
LEMMA QuietKeepsBooks ==
    ASSUME IInv, UNCHANGED rows, NEW p \in Requests, req[p].at # "done",
           \A q \in Requests : q # p => req'[q] = req[q]
    PROVE  BooksAgree'
<1> SUFFICES ASSUME NEW a \in Accounts
             PROVE  Drift(a)' <= Cent * Cardinality(Halves(a)')
  BY DEF BooksAgree, Halves
<1>1. \A q \in entries[a] : q \in Requests /\ q # p
  BY DEF IInv, TypeOK, BookedIsDone
<1>2. Halves(a)' = Halves(a)
  BY <1>1 DEF rows, Halves
<1>3. Drift(a)' = Drift(a)
  BY DEF rows, Drift
<1>4. Drift(a) <= Cent * Cardinality(Halves(a))
  BY DEF IInv, BooksAgree, Halves
<1> QED
  BY <1>2, <1>3, <1>4

\* A step of p that leaves the tables alone keeps the invariant if it keeps p's
\* own part of it and takes no lock from another request.
LEMMA QuietKeepsIInv ==
    ASSUME IInv, UNCHANGED rows, NEW p \in Requests, req[p].at # "done",
           req' \in [Requests -> Request],
           lock' \in [Accounts -> Requests \cup {Nobody}],
           \A q \in Requests : q # p => req'[q] = req[q],
           \A a \in Accounts : lock[a] \notin {Nobody, p} => lock'[a] = lock[a],
           faults' \in 0 .. MaxFaults,
           Sound(p)'
    PROVE  IInv'
<1>1. TypeOK'
  BY DEF IInv, TypeOK, rows
<1>2. AllSound'
  <2> SUFFICES ASSUME NEW q \in Requests, q # p PROVE Sound(q)'
    BY DEF AllSound
  <2>1. Sound(q) /\ req'[q] = req[q] /\ req[q].acct \in Accounts
    BY DEF IInv, AllSound, TypeOK, Request
  <2>2. req[q].at \in Holding => lock'[req[q].acct] = q
    BY <2>1, LedgerAssumption DEF Sound
  <2> QED
    BY <2>1, <2>2 DEF Sound, rows
<1>3. BookedIsDone'
  BY DEF IInv, BookedIsDone, TypeOK, rows
<1>4. BooksAgree'
  BY QuietKeepsBooks
<1> QED
  BY <1>1, <1>2, <1>3, <1>4 DEF IInv

-----------------------------------------------------------------------------
(* One lemma per statement. *)

LEMMA UnlockFacts ==
    ASSUME TypeOK, NEW p \in Requests, Unlock(p)
    PROVE  /\ lock' \in [Accounts -> Requests \cup {Nobody}]
           /\ \A a \in Accounts : lock[a] \notin {Nobody, p} => lock'[a] = lock[a]
BY DEF Unlock, TypeOK

LEMMA AnswerFacts ==
    ASSUME TypeOK, NEW p \in Requests, NEW reply \in Replies, Answer(p, reply)
    PROVE  /\ req' \in [Requests -> Request]
           /\ req'[p].at = "done"
           /\ \A q \in Requests : q # p => req'[q] = req[q]
           /\ \A q \in Requests : req'[q].amount = req[q].amount
BY DEF Answer, TypeOK, Request

LEMMA RefuseKeepsIInv ==
    ASSUME IInv, NEW p \in Requests, NEW reply \in Replies,
           req[p].at # "done", Refuse(p, reply)
    PROVE  IInv'
<1> USE DEF IInv
<1>1. Answer(p, reply) /\ Unlock(p) /\ UNCHANGED <<rows, faults>>
  BY DEF Refuse
<1>2. Sound(p)'
  BY <1>1, AnswerFacts DEF Sound, InTx, Holding
<1>3. faults' \in 0 .. MaxFaults
  BY <1>1 DEF TypeOK
<1> QED
  BY <1>1, <1>2, <1>3, AnswerFacts, UnlockFacts, QuietKeepsIInv

LEMMA AbortKeepsIInv ==
    ASSUME IInv, NEW p \in Requests, Abort(p)
    PROVE  IInv'
<1> USE DEF IInv
<1>1. Answer(p, "error") /\ Unlock(p) /\ UNCHANGED rows /\ req[p].at # "done"
  BY DEF Abort, InTx
<1>2. "error" \in Replies
  BY DEF Replies
<1>3. Sound(p)'
  BY <1>1, <1>2, AnswerFacts DEF Sound, InTx, Holding
<1>4. faults' \in 0 .. MaxFaults
  BY <1>1, LedgerAssumption DEF Abort, Fault, TypeOK
<1> QED
  BY <1>1, <1>2, <1>3, <1>4, AnswerFacts, UnlockFacts, QuietKeepsIInv

LEMMA ReceiveKeepsIInv ==
    ASSUME IInv, NEW p \in Requests, NEW op \in {"deposit", "withdrawal"},
           NEW a \in Accounts, NEW m \in Amounts, Receive(p, op, a, m)
    PROVE  IInv'
<1> USE DEF IInv
<1>1. m \in Int
  BY LedgerAssumption
<1>2. req' \in [Requests -> Request]
  BY <1>1 DEF Receive, TypeOK, Request, Replies
<1>3. \A q \in Requests : q # p => req'[q] = req[q]
  BY DEF Receive, TypeOK
<1>4. /\ req'[p].at = IF m <= 0 THEN "done" ELSE "begin"
      /\ req'[p].op = op /\ req'[p].amount = m
  BY DEF Receive, TypeOK, Request
<1>5. Sound(p)'
  BY <1>1, <1>4 DEF Sound, InTx, Holding
<1>6. /\ req[p].at # "done" /\ UNCHANGED rows
      /\ faults' \in 0 .. MaxFaults
      /\ lock' \in [Accounts -> Requests \cup {Nobody}] /\ lock' = lock
  BY DEF Receive, TypeOK
<1> QED
  BY <1>2, <1>3, <1>5, <1>6, QuietKeepsIInv

LEMMA BeginKeepsIInv ==
    ASSUME IInv, NEW p \in Requests, Begin(p)
    PROVE  IInv'
<1> USE DEF IInv
<1>2. req' \in [Requests -> Request]
  <2>1. req[p] \in Request
    BY DEF TypeOK
  <2>2. [req[p] EXCEPT !.at = "select"] \in Request
    BY <2>1 DEF Request, InTx
  <2> QED
    BY <2>2 DEF Begin, TypeOK
<1>3. \A q \in Requests : q # p => req'[q] = req[q]
  BY DEF Begin, TypeOK
<1>4. /\ req'[p].at = "select" /\ req[p].at = "begin"
      /\ req'[p].op = req[p].op /\ req'[p].amount = req[p].amount
  BY DEF Begin, TypeOK, Request
<1>5. Sound(p)'
  BY <1>4 DEF Sound, AllSound, InTx, Holding
<1>6. /\ UNCHANGED rows /\ faults' \in 0 .. MaxFaults
      /\ lock' \in [Accounts -> Requests \cup {Nobody}] /\ lock' = lock
  BY DEF Begin, TypeOK
<1> QED
  BY <1>2, <1>3, <1>4, <1>5, <1>6, QuietKeepsIInv

LEMMA SelectKeepsIInv ==
    ASSUME IInv, NEW p \in Requests, SelectForUpdate(p)
    PROVE  IInv'
<1> USE DEF IInv
<1> DEFINE a == req[p].acct
<1>1. a \in Accounts /\ a \in exists /\ balance[a] \in WholeCents /\ UNCHANGED rows
  BY DEF SelectForUpdate, TypeOK, Request
<1>2. req' \in [Requests -> Request]
  <2>1. req[p] \in Request
    BY DEF TypeOK
  <2>2. [req[p] EXCEPT !.at = "update", !.bal = balance[a]] \in Request
    BY <1>1, <2>1 DEF Request, InTx
  <2> QED
    BY <2>2 DEF SelectForUpdate, TypeOK
<1>3. \A q \in Requests : q # p => req'[q] = req[q]
  BY DEF SelectForUpdate, TypeOK
<1>4. /\ req'[p].at = "update" /\ req[p].at = "select"
      /\ req'[p].op = req[p].op /\ req'[p].amount = req[p].amount
      /\ req'[p].acct = a /\ req'[p].bal = balance[a]
  BY DEF SelectForUpdate, TypeOK, Request
<1>5. /\ lock' \in [Accounts -> Requests \cup {Nobody}] /\ lock'[a] = p
      /\ \A b \in Accounts : lock[b] \notin {Nobody, p} => lock'[b] = lock[b]
  BY <1>1 DEF SelectForUpdate, TypeOK
<1>6. Suffices(req[p].op, balance[a], req[p].amount)
  BY DEF SelectForUpdate
<1>7. Sound(p)'
  BY <1>1, <1>4, <1>5, <1>6 DEF Sound, AllSound, InTx, Holding, rows, Suffices
<1>8. faults' \in 0 .. MaxFaults
  BY DEF SelectForUpdate, TypeOK
<1> QED
  BY <1>1, <1>2, <1>3, <1>4, <1>5, <1>7, <1>8, QuietKeepsIInv

LEMMA UpdateKeepsIInv ==
    ASSUME IInv, NEW p \in Requests, UpdateBalance(p)
    PROVE  IInv'
<1> USE DEF IInv
<1> DEFINE a == req[p].acct
<1>1. /\ req[p].at = "update" /\ a \in Accounts
      /\ req[p].op \in {"deposit", "withdrawal"} /\ req[p].amount \in Int /\ req[p].amount > 0
  BY DEF UpdateBalance, TypeOK, Request, AllSound, Sound, InTx
<1>2. /\ a \in exists /\ lock[a] = p /\ req[p].bal = balance[a] /\ balance[a] \in WholeCents
      /\ Suffices(req[p].op, balance[a], req[p].amount)
  BY <1>1 DEF AllSound, Sound, Holding, TypeOK
<1>3. NewBalance(req[p]) = Moved(req[p].op, balance[a], req[p].amount)
  BY <1>2 DEF NewBalance, Moved
<1>4. NewBalance(req[p]) \in Int /\ NewBalance(req[p]) >= 0
  BY <1>1, <1>2, <1>3, MovedIsNat
<1>5. PICK v \in Stored(NewBalance(req[p])) :
          IF v > MaxMoney THEN Refuse(p, "error")
          ELSE /\ lock' = [lock EXCEPT ![a] = p]
               /\ req' = [req EXCEPT ![p] = [@ EXCEPT !.at = "insert", !.bal = v]]
               /\ UNCHANGED <<rows, faults>>
  BY DEF UpdateBalance
<1>6. CASE v > MaxMoney
  BY <1>1, <1>5, <1>6, RefuseKeepsIInv DEF Replies
<1>7. CASE ~ v > MaxMoney
  <2>1. /\ lock' = [lock EXCEPT ![a] = p]
        /\ req' = [req EXCEPT ![p] = [@ EXCEPT !.at = "insert", !.bal = v]]
        /\ UNCHANGED <<rows, faults>>
    BY <1>5, <1>7
  <2>2. v \in WholeCents
    BY <1>4, <1>7, StoredIsInt, StoredIsCents, MoneyAssumption
  <2>3. req' \in [Requests -> Request]
    <3>1. req[p] \in Request
      BY DEF TypeOK
    <3>2. [req[p] EXCEPT !.at = "insert", !.bal = v] \in Request
      BY <2>2, <3>1 DEF Request, InTx
    <3> QED
      BY <2>1, <3>2 DEF TypeOK
  <2>4. \A q \in Requests : q # p => req'[q] = req[q]
    BY <2>1 DEF TypeOK
  <2>5. /\ req'[p].at = "insert" /\ req'[p].bal = v /\ req'[p].acct = a
        /\ req'[p].op = req[p].op /\ req'[p].amount = req[p].amount
    BY <2>1 DEF TypeOK, Request
  <2>6. /\ lock' \in [Accounts -> Requests \cup {Nobody}] /\ lock'[a] = p
        /\ \A b \in Accounts : lock[b] \notin {Nobody, p} => lock'[b] = lock[b]
    <3>1. lock \in [Accounts -> Requests \cup {Nobody}] /\ lock[a] = p
      BY <1>2 DEF TypeOK
    <3>2. lock' = lock
      BY <1>1, <2>1, <3>1
    <3> QED
      BY <3>1, <3>2
  <2>7. v \in Stored(Moved(req[p].op, balance[a], req[p].amount))
    BY <1>3
  <2>8. req[p].amount \in Amounts
    BY <1>1 DEF AllSound, Sound, InTx
  <2>9. balance' = balance /\ exists' = exists
    BY <2>1 DEF rows
  <2>10. Sound(p)'
    BY <1>1, <1>2, <2>5, <2>6, <2>7, <2>8, <2>9 DEF Sound, InTx, Holding, Suffices
  <2>11. faults' \in 0 .. MaxFaults
    BY <2>1 DEF TypeOK
  <2> QED
    BY <1>1, <2>1, <2>3, <2>4, <2>6, <2>10, <2>11, QuietKeepsIInv
<1> QED
  BY <1>6, <1>7

LEMMA InsertKeepsIInv ==
    ASSUME IInv, NEW p \in Requests, InsertTransaction(p)
    PROVE  IInv'
<1> USE DEF IInv
<1>1. req[p].at = "insert"
  BY DEF InsertTransaction
<1>2. CASE ~ Round(req[p].amount) > 0
  BY <1>1, <1>2, RefuseKeepsIInv DEF InsertTransaction, Replies
<1>3. CASE Round(req[p].amount) > 0
  <2>1. req' = [req EXCEPT ![p].at = "commit"] /\ UNCHANGED <<rows, lock, faults>>
    BY <1>3 DEF InsertTransaction
  <2>2. req' \in [Requests -> Request] /\ \A q \in Requests : q # p => req'[q] = req[q]
    BY <2>1 DEF TypeOK, Request, InTx
  <2>3. req'[p] = [req[p] EXCEPT !.at = "commit"]
    BY <2>1 DEF TypeOK
  <2>4. /\ req'[p].at = "commit" /\ req'[p].bal = req[p].bal /\ req'[p].acct = req[p].acct
        /\ req'[p].op = req[p].op /\ req'[p].amount = req[p].amount
    BY <2>3 DEF TypeOK, Request
  <2>5. lock' = lock /\ balance' = balance /\ exists' = exists
    BY <2>1 DEF rows
  <2>6. Sound(p)'
    BY <1>1, <1>3, <2>4, <2>5 DEF AllSound, Sound, InTx, Holding, Suffices
  <2>7. /\ faults' \in 0 .. MaxFaults
        /\ lock' \in [Accounts -> Requests \cup {Nobody}]
    BY <2>1 DEF TypeOK
  <2> QED
    BY <1>1, <2>1, <2>2, <2>5, <2>6, <2>7, QuietKeepsIInv
<1> QED
  BY <1>2, <1>3

-----------------------------------------------------------------------------
(* COMMIT, whether or not its answer arrives. *)

Committed(p, reply) ==
    /\ req[p].at = "commit"
    /\ Publish(p)
    /\ Unlock(p)
    /\ Answer(p, reply)
    /\ faults' \in 0 .. MaxFaults

\* What a transaction that commits relies on.
LEMMA AtCommit ==
    ASSUME IInv, NEW p \in Requests, req[p].at = "commit"
    PROVE  /\ req[p].acct \in Accounts /\ req[p].acct \in exists
           /\ lock[req[p].acct] = p
           /\ req[p].op \in {"deposit", "withdrawal"}
           /\ req[p].amount \in Amounts /\ req[p].amount \in Int /\ req[p].amount > 0
           /\ Round(req[p].amount) > 0 /\ Round(req[p].amount) \in Int
           /\ req[p].bal \in WholeCents /\ balance[req[p].acct] \in WholeCents
           /\ Suffices(req[p].op, balance[req[p].acct], req[p].amount)
           /\ req[p].bal \in Stored(Moved(req[p].op, balance[req[p].acct], req[p].amount))
<1>1. /\ req[p].acct \in Accounts /\ req[p].amount \in Int /\ req[p].bal \in WholeCents
      /\ Sound(p)
  BY DEF IInv, TypeOK, AllSound, Request
<1>2. balance[req[p].acct] \in WholeCents
  BY <1>1 DEF IInv, TypeOK
<1>3. Round(req[p].amount) \in Int
  BY <1>1, StoredIsInt
<1> QED
  BY <1>1, <1>2, <1>3 DEF Sound, InTx, Holding

\* What COMMIT adds to the balance and to the history differs by a cent at
\* most, and only for a half cent.
LEMMA CommitDrift ==
    ASSUME IInv, NEW p \in Requests, NEW reply \in Replies, Committed(p, reply),
           NEW a \in Accounts, a = req[p].acct
    PROVE  /\ ~ HalfCent(req[p].amount) => Drift(a)' = Drift(a)
           /\ HalfCent(req[p].amount) => Drift(a)' <= Drift(a) + Cent
<1> DEFINE m == req[p].amount
           b == balance[a]
           v == req[p].bal
<1>1. req[p].at = "commit"
  BY DEF Committed
<1>2. a \in Accounts /\ m \in Int /\ Round(m) \in Int /\ v \in Int /\ b \in Int /\ booked[a] \in Int
  BY <1>1, AtCommit DEF IInv, TypeOK, WholeCents
<1>3. balance'[a] = v
  BY <1>2 DEF Committed, Publish, IInv, TypeOK
<1>4. booked'[a] = booked[a] + (IF req[p].op = "deposit" THEN Round(m) ELSE - Round(m))
  BY <1>2 DEF Committed, Publish, Signed, IInv, TypeOK
<1>5. CASE req[p].op = "deposit"
  <2>1. v \in Stored(b + m) /\ b \in WholeCents
    BY <1>1, <1>5, AtCommit DEF Moved
  <2>2. /\ ~ HalfCent(m) => v = b + Round(m)
        /\ HalfCent(m) => v = b + Round(m) \/ v = b + Round(m) - Cent
    BY <1>2, <2>1, DepositRounds
  <2> QED
    BY <1>2, <1>3, <1>4, <1>5, <2>2 DEF Drift, Cent
<1>6. CASE req[p].op = "withdrawal"
  <2>1. v \in Stored(b - m) /\ b \in WholeCents
    BY <1>1, <1>6, AtCommit DEF Moved
  <2>2. /\ ~ HalfCent(m) => v = b - Round(m)
        /\ HalfCent(m) => v = b - Round(m) \/ v = b - Round(m) + Cent
    BY <1>2, <2>1, WithdrawalRounds
  <2> QED
    BY <1>2, <1>3, <1>4, <1>6, <2>2 DEF Drift, Cent
<1> QED
  BY <1>1, <1>5, <1>6, AtCommit

LEMMA CommitKeepsBooks ==
    ASSUME IInv, NEW p \in Requests, NEW reply \in Replies, Committed(p, reply)
    PROVE  BooksAgree'
<1> SUFFICES ASSUME NEW c \in Accounts
             PROVE  Drift(c)' <= Cent * Cardinality(Halves(c)')
  BY DEF BooksAgree, Halves
<1> DEFINE a == req[p].acct
<1>1. Drift(c) <= Cent * Cardinality(Halves(c))
  BY DEF IInv, BooksAgree, Halves
<1>2. entries[c] \subseteq Requests /\ p \notin entries[c]
  BY DEF Committed, IInv, TypeOK, BookedIsDone
<1>3. IsFiniteSet(Halves(c)) /\ p \notin Halves(c)
  BY <1>2, LedgerAssumption, FS_Subset DEF Halves
<1>4. Cardinality(Halves(c)) \in Nat
  BY <1>3, FS_CardinalityType
<1>5. \A q \in Requests : req'[q].amount = req[q].amount
  BY AnswerFacts DEF Committed, IInv
<1>6. Drift(c) \in Int
  BY DEF IInv, TypeOK, Drift, WholeCents
<1>7. a \in Accounts
  BY AtCommit DEF Committed
<1>8. CASE c # a
  <2>1. entries'[c] = entries[c] /\ balance'[c] = balance[c] /\ booked'[c] = booked[c]
    BY <1>7, <1>8 DEF Committed, Publish, IInv, TypeOK
  <2>2. Halves(c)' = Halves(c)
    BY <1>2, <1>5, <2>1 DEF Halves
  <2>3. Drift(c)' = Drift(c)
    BY <2>1 DEF Drift
  <2> QED
    BY <1>1, <2>2, <2>3
<1>9. CASE c = a
  <2>1. entries'[c] = entries[c] \cup {p}
    BY <1>7, <1>9 DEF Committed, Publish, IInv, TypeOK
  <2>2. CASE ~ HalfCent(req[p].amount)
    <3>1. Halves(c)' = Halves(c)
      BY <1>2, <1>5, <2>1, <2>2 DEF Halves
    <3>2. Drift(c)' = Drift(c)
      BY <1>9, <2>2, CommitDrift
    <3> QED
      BY <1>1, <3>1, <3>2
  <2>3. CASE HalfCent(req[p].amount)
    <3>1. Halves(c)' = Halves(c) \cup {p}
      BY <1>2, <1>5, <2>1, <2>3 DEF Halves
    <3>2. Cardinality(Halves(c)') = Cardinality(Halves(c)) + 1
      BY <1>3, <3>1, FS_AddElement
    <3>3. Drift(c)' <= Drift(c) + Cent
      BY <1>9, <2>3, CommitDrift
    <3>4. Drift(c)' \in Int
      <4>1. balance'[c] \in Int /\ booked'[c] \in Int
        BY <1>7, <1>9, AtCommit DEF Committed, Publish, Signed, IInv, TypeOK, WholeCents
      <4> QED
        BY <4>1 DEF Drift
    <3> HIDE DEF Halves
    <3> QED
      BY <1>1, <1>4, <1>6, <3>2, <3>3, <3>4 DEF Cent
  <2> QED
    BY <2>2, <2>3
<1> QED
  BY <1>8, <1>9

LEMMA CommitKeepsIInv ==
    ASSUME IInv, NEW p \in Requests, NEW reply \in Replies, Committed(p, reply)
    PROVE  IInv'
<1> DEFINE a == req[p].acct
<1>1. /\ req[p].at = "commit" /\ a \in Accounts /\ lock[a] = p /\ req[p].bal \in WholeCents
      /\ Signed(req[p]) \in Int
  BY AtCommit DEF Committed, Signed
<1>2. /\ req' \in [Requests -> Request] /\ req'[p].at = "done"
      /\ \A q \in Requests : q # p => req'[q] = req[q]
  BY AnswerFacts DEF Committed, IInv
<1>3. /\ lock' \in [Accounts -> Requests \cup {Nobody}]
      /\ \A c \in Accounts : lock[c] \notin {Nobody, p} => lock'[c] = lock[c]
  BY UnlockFacts DEF Committed, IInv
<1>4. /\ balance' = [balance EXCEPT ![a] = req[p].bal]
      /\ booked' = [booked EXCEPT ![a] = @ + Signed(req[p])]
      /\ entries' = [entries EXCEPT ![a] = @ \cup {p}]
      /\ exists' = exists
  BY DEF Committed, Publish
<1>5. TypeOK'
  <2>1. balance' \in [Accounts -> WholeCents]
    BY <1>1, <1>4 DEF IInv, TypeOK
  <2>2. booked' \in [Accounts -> Int]
    BY <1>1, <1>4 DEF IInv, TypeOK
  <2>3. entries' \in [Accounts -> SUBSET Requests]
    BY <1>1, <1>4 DEF IInv, TypeOK
  <2>4. exists' \subseteq Accounts /\ faults' \in 0 .. MaxFaults
    BY <1>4 DEF IInv, TypeOK, Committed
  <2> QED
    BY <1>2, <1>3, <2>1, <2>2, <2>3, <2>4 DEF TypeOK
<1>6. AllSound'
  <2> SUFFICES ASSUME NEW q \in Requests PROVE Sound(q)'
    BY DEF AllSound
  <2>1. CASE q = p
    BY <1>2, <2>1 DEF Sound, InTx, Holding
  <2>2. CASE q # p
    <3>1. Sound(q) /\ req'[q] = req[q] /\ req[q].acct \in Accounts
      BY <1>2, <2>2 DEF IInv, AllSound, TypeOK, Request
    <3>2. ASSUME req[q].at \in Holding
          PROVE  /\ lock'[req[q].acct] = q
                 /\ balance'[req[q].acct] = balance[req[q].acct]
      <4>1. lock[req[q].acct] = q
        BY <3>1, <3>2 DEF Sound
      <4>2. req[q].acct # a
        BY <1>1, <2>2, <4>1
      <4> QED
        BY <1>1, <1>3, <1>4, <2>2, <3>1, <4>1, <4>2, LedgerAssumption DEF IInv, TypeOK
    <3> QED
      BY <1>4, <3>1, <3>2 DEF Sound, Holding
  <2> QED
    BY <2>1, <2>2
<1>7. BookedIsDone'
  <2> SUFFICES ASSUME NEW c \in Accounts, NEW q \in entries'[c]
               PROVE  req'[q].at = "done"
    BY DEF BookedIsDone
  <2>1. q = p \/ q \in entries[c]
    BY <1>1, <1>4 DEF IInv, TypeOK
  <2>2. q \in entries[c] => q \in Requests /\ req[q].at = "done"
    BY DEF IInv, TypeOK, BookedIsDone
  <2> QED
    BY <1>1, <1>2, <2>1, <2>2
<1>8. BooksAgree'
  BY CommitKeepsBooks
<1> QED
  BY <1>5, <1>6, <1>7, <1>8 DEF IInv

\* No transaction works on an account that has no row yet.
LEMMA CreateKeepsIInv ==
    ASSUME IInv, NEW a \in Accounts, CreateAccount(a)
    PROVE  IInv'
<1>1. /\ a \notin exists /\ exists' = exists \cup {a}
      /\ balance' = [balance EXCEPT ![a] = 0]
      /\ booked' = [booked EXCEPT ![a] = 0]
      /\ UNCHANGED <<entries, lock, req, faults>>
  BY DEF CreateAccount
<1>2. 0 \in WholeCents
  BY MoneyAssumption DEF WholeCents, Cent
<1>3. TypeOK'
  BY <1>1, <1>2 DEF IInv, TypeOK
<1>4. AllSound'
  <2> SUFFICES ASSUME NEW q \in Requests PROVE Sound(q)'
    BY DEF AllSound
  <2>1. Sound(q) /\ req'[q] = req[q] /\ req[q].acct \in Accounts /\ lock' = lock
    BY <1>1 DEF IInv, AllSound, TypeOK, Request
  <2>2. req[q].at \in Holding => req[q].acct # a /\ balance'[req[q].acct] = balance[req[q].acct]
    BY <1>1, <2>1 DEF Sound, IInv, TypeOK
  <2> QED
    BY <1>1, <2>1, <2>2 DEF Sound, Holding
<1>5. BookedIsDone'
  BY <1>1 DEF IInv, BookedIsDone
<1>6. BooksAgree'
  <2> SUFFICES ASSUME NEW c \in Accounts
               PROVE  Drift(c)' <= Cent * Cardinality(Halves(c)')
    BY DEF BooksAgree, Halves
  <2>1. Halves(c)' = Halves(c)
    BY <1>1 DEF Halves
  <2>2. Drift(c) <= Cent * Cardinality(Halves(c))
    BY DEF IInv, BooksAgree, Halves
  <2>3. CASE c # a
    BY <1>1, <2>1, <2>2, <2>3 DEF Drift, IInv, TypeOK
  <2>4. CASE c = a
    <3>1. Drift(c)' = 0
      BY <1>1, <2>4 DEF Drift, IInv, TypeOK
    <3>2. entries[c] \subseteq Requests
      BY DEF IInv, TypeOK
    <3>3. IsFiniteSet(Halves(c))
      BY <3>2, LedgerAssumption, FS_Subset DEF Halves
    <3>4. Cardinality(Halves(c)) \in Nat
      BY <3>3, FS_CardinalityType
    <3> QED
      BY <2>1, <3>1, <3>4 DEF Cent
  <2> QED
    BY <2>3, <2>4
<1> QED
  BY <1>3, <1>4, <1>5, <1>6 DEF IInv

LEMMA CommitsAreCommitted ==
    ASSUME IInv, NEW p \in Requests
    PROVE  /\ Commit(p) => Committed(p, "ok")
           /\ CommitReplyLost(p) => Committed(p, "error")
BY LedgerAssumption DEF Commit, CommitReplyLost, Committed, Fault, IInv, TypeOK

LEMMA StatementKeepsIInv ==
    ASSUME IInv, NEW p \in Requests, Statement(p)
    PROVE  IInv'
<1>1. CASE Begin(p)
  BY <1>1, BeginKeepsIInv
<1>2. CASE SelectForUpdate(p)
  BY <1>2, SelectKeepsIInv
<1>3. CASE NotFound(p)
  BY <1>3, RefuseKeepsIInv DEF NotFound, Replies
<1>4. CASE InsufficientFunds(p)
  BY <1>4, RefuseKeepsIInv DEF InsufficientFunds, Replies
<1>5. CASE UpdateBalance(p)
  BY <1>5, UpdateKeepsIInv
<1>6. CASE InsertTransaction(p)
  BY <1>6, InsertKeepsIInv
<1>7. CASE Commit(p)
  BY <1>7, CommitsAreCommitted, CommitKeepsIInv DEF Replies
<1> QED
  BY <1>1, <1>2, <1>3, <1>4, <1>5, <1>6, <1>7 DEF Statement

LEMMA NextKeepsIInv == IInv /\ [Next]_vars => IInv'
<1> SUFFICES ASSUME IInv, [Next]_vars PROVE IInv'
  OBVIOUS
<1>1. ASSUME NEW p \in Requests, NEW op \in {"deposit", "withdrawal"},
             NEW a \in Accounts, NEW m \in Amounts, Receive(p, op, a, m)
      PROVE  IInv'
  BY <1>1, ReceiveKeepsIInv
<1>2. ASSUME NEW p \in Requests, Statement(p) \/ Abort(p) \/ CommitReplyLost(p)
      PROVE  IInv'
  BY <1>2, StatementKeepsIInv, AbortKeepsIInv, CommitsAreCommitted, CommitKeepsIInv
     DEF Replies
<1>3. ASSUME NEW a \in Accounts, CreateAccount(a) PROVE IInv'
  BY <1>3, CreateKeepsIInv
<1>4. CASE UNCHANGED vars
  BY <1>4 DEF vars, IInv, TypeOK, AllSound, Sound, BookedIsDone, BooksAgree, Drift
<1> QED
  BY <1>1, <1>2, <1>3, <1>4 DEF Next

\* Between its statements a transaction holds the lock of its account's row and
\* the balance it works with is the one that is committed.
THEOREM Invariance == Spec => []IInv
BY InitIInv, NextKeepsIInv, PTL DEF Spec

\* Type correctness of the account service and its tables; in particular a
\* balance is a whole number of cents from zero to the largest of the column.
THEOREM TypeCorrect == Spec => []TypeOK
<1>1. IInv => TypeOK
  BY DEF IInv
<1> QED
  BY <1>1, Invariance, PTL

\* The balance of an account and its history agree to a cent per booked half
\* cent: Deposit and Withdraw of service/account.go under any interleaving,
\* any failed statement and any lost answer to COMMIT.
THEOREM BooksTheorem == Spec => []BooksAgree
<1>1. IInv => BooksAgree
  BY DEF IInv
<1> QED
  BY <1>1, Invariance, PTL

-----------------------------------------------------------------------------
(* BankLedger implements Bank. *)

LEMMA InitRefines == Init => Promise!Init
<1> SUFFICES ASSUME Init PROVE Promise!Init
  OBVIOUS
<1>1. IInv
  BY InitIInv
<1> QED
  BY <1>1, LedgerAssumption
     DEF Init, Promise!Init, Promise!WholeCents, Promise!Cent, IInv, TypeOK, WholeCents, Cent

LEMMA CommitRefines ==
    ASSUME IInv, NEW p \in Requests, NEW reply \in Replies, Committed(p, reply)
    PROVE  Promise!Next
<1> DEFINE a == req[p].acct
           m == req[p].amount
<1>1. /\ a \in Accounts /\ m \in Amounts /\ m \in Int /\ a \in exists /\ Round(m) > 0
      /\ req[p].op \in {"deposit", "withdrawal"}
      /\ req[p].bal \in WholeCents
      /\ req[p].bal \in Stored(Moved(req[p].op, balance[a], m))
      /\ Suffices(req[p].op, balance[a], m)
      /\ balance[a] \in Int
  BY AtCommit DEF Committed, WholeCents
<1> USE DEF Promise!Round, Promise!Stored, Promise!HalfCent, Promise!Cent, Promise!WholeCents,
            Round, Stored, HalfCent, Cent, WholeCents
<1>2. /\ balance' = [balance EXCEPT ![a] = req[p].bal]
      /\ booked' = [booked EXCEPT ![a] = @ + Signed(req[p])]
      /\ exists' = exists
  BY DEF Committed, Publish
<1>3. CASE req[p].op = "deposit"
  <2>1. Promise!Deposit(a, m)
    BY <1>1, <1>2, <1>3 DEF Promise!Deposit, Moved, Signed
  <2> QED
    BY <1>1, <2>1 DEF Promise!Next
<1>4. CASE req[p].op = "withdrawal"
  <2>1. booked' = [booked EXCEPT ![a] = @ - Round(m)]
    <3>1. Signed(req[p]) = - Round(m) /\ Round(m) \in Int /\ booked[a] \in Int
      BY <1>1, <1>4 DEF Signed, IInv, TypeOK
    <3> QED
      BY <1>1, <1>2, <3>1 DEF IInv, TypeOK
  <2>2. Promise!Withdraw(a, m)
    BY <1>1, <1>2, <1>4, <2>1 DEF Promise!Withdraw, Moved, Suffices
  <2> QED
    BY <1>1, <2>2 DEF Promise!Next
<1> QED
  BY <1>1, <1>3, <1>4

\* Every other step leaves what Bank sees alone.
LEMMA StepRefines ==
    IInv /\ [Next]_vars => [Promise!Next]_<<exists, balance, booked>>
<1> SUFFICES ASSUME IInv, [Next]_vars
             PROVE  Promise!Next \/ UNCHANGED <<exists, balance, booked>>
  OBVIOUS
<1>1. ASSUME NEW p \in Requests, Commit(p) \/ CommitReplyLost(p) PROVE Promise!Next
  BY <1>1, CommitsAreCommitted, CommitRefines DEF Replies
<1>2. ASSUME NEW a \in Accounts, CreateAccount(a) PROVE Promise!Next
  BY <1>2 DEF CreateAccount, Promise!Next, Promise!Open
<1>3. ASSUME NEW p \in Requests, Statement(p), ~ Commit(p)
      PROVE  UNCHANGED rows
  BY <1>3 DEF Statement, Begin, SelectForUpdate, NotFound, InsufficientFunds,
              UpdateBalance, InsertTransaction, Refuse
<1>4. ASSUME NEW p \in Requests, Abort(p) PROVE UNCHANGED rows
  BY <1>4 DEF Abort
<1>5. ASSUME NEW p \in Requests, NEW op \in {"deposit", "withdrawal"},
             NEW a \in Accounts, NEW m \in Amounts, Receive(p, op, a, m)
      PROVE  UNCHANGED rows
  BY <1>5 DEF Receive
<1>6. CASE UNCHANGED vars
  BY <1>6 DEF vars
<1> QED
  BY <1>1, <1>2, <1>3, <1>4, <1>5, <1>6 DEF Next, rows

\* The statements of a request act as one step of Bank: the service's deposits
\* and withdrawals are atomic and serializable.
THEOREM Atomicity == Spec => ActsAtOnce
<1>1. Init => Promise!Init
  BY InitRefines
<1>2. IInv /\ [Next]_vars => [Promise!Next]_<<exists, balance, booked>>
  BY StepRefines
<1> QED
  BY <1>1, <1>2, Invariance, PTL DEF Spec, ActsAtOnce, Promise!Spec

-----------------------------------------------------------------------------
(* Nobody waits for a waiter. *)

\* A row is locked only by a transaction that works on it and is past its
\* SELECT: no lock outlives its transaction.
LocksAreHeld ==
    \A a \in Accounts : lock[a] # Nobody =>
        /\ lock[a] \in Requests
        /\ req[lock[a]].at \in Holding
        /\ req[lock[a]].acct = a

\* What a step of p must see to: the locks it holds afterwards are p's own row's,
\* the others are as they were.
LEMMA OthersKeepLocks ==
    ASSUME LocksAreHeld, NEW p \in Requests,
           \A q \in Requests : q # p => req'[q] = req[q],
           \A a \in Accounts : lock'[a] # Nobody =>
              \/ lock'[a] = p /\ req'[p].at \in Holding /\ req'[p].acct = a
              \/ lock'[a] # p /\ lock'[a] = lock[a]
    PROVE  LocksAreHeld'
<1> SUFFICES ASSUME NEW a \in Accounts, lock'[a] # Nobody
             PROVE  /\ lock'[a] \in Requests
                    /\ req'[lock'[a]].at \in Holding
                    /\ req'[lock'[a]].acct = a
  BY DEF LocksAreHeld
<1>1. CASE lock'[a] = p
  BY <1>1
<1>2. CASE lock'[a] # p
  <2>1. lock'[a] = lock[a] /\ lock[a] # Nobody
    BY <1>2
  <2>2. lock[a] \in Requests /\ req[lock[a]].at \in Holding /\ req[lock[a]].acct = a
    BY <2>1 DEF LocksAreHeld
  <2>3. req'[lock[a]] = req[lock[a]]
    BY <1>2, <2>1, <2>2
  <2> QED
    BY <2>1, <2>2, <2>3
<1> QED
  BY <1>1, <1>2

\* A request that is not past its SELECT holds no lock.
LEMMA NoLockYet ==
    ASSUME LocksAreHeld, NEW p \in Requests, req[p].at \notin Holding
    PROVE  \A a \in Accounts : lock[a] # p
BY LedgerAssumption DEF LocksAreHeld

\* COMMIT, ROLLBACK and a lost connection leave no lock behind.
LEMMA EndKeepsLocks ==
    ASSUME TypeOK, LocksAreHeld, NEW p \in Requests, NEW reply \in Replies,
           Unlock(p), Answer(p, reply)
    PROVE  LocksAreHeld'
<1>1. \A q \in Requests : q # p => req'[q] = req[q]
  BY AnswerFacts
<1>2. \A a \in Accounts : lock'[a] # Nobody => lock'[a] # p /\ lock'[a] = lock[a]
  BY DEF Unlock
<1> QED
  BY <1>1, <1>2, OthersKeepLocks

\* A statement that leaves the locks alone and p where it was, or not yet past
\* its SELECT.
LEMMA QuietKeepsLocks ==
    ASSUME LocksAreHeld, NEW p \in Requests, lock' = lock,
           \A q \in Requests : q # p => req'[q] = req[q],
           \/ req[p].at \notin Holding
           \/ req'[p].at \in Holding /\ req'[p].acct = req[p].acct
    PROVE  LocksAreHeld'
<1>1. CASE req[p].at \notin Holding
  BY <1>1, NoLockYet, OthersKeepLocks
<1>2. CASE req'[p].at \in Holding /\ req'[p].acct = req[p].acct
  <2>1. \A a \in Accounts : lock[a] = p => req'[p].acct = a
    BY <1>2, LedgerAssumption DEF LocksAreHeld
  <2> QED
    BY <1>2, <2>1, OthersKeepLocks
<1> QED
  BY <1>1, <1>2

\* SELECT ... FOR UPDATE and UPDATE lock the row of p's account.
LEMMA LockingKeepsLocks ==
    ASSUME TypeOK, LocksAreHeld, NEW p \in Requests,
           lock' = [lock EXCEPT ![req[p].acct] = p],
           \A q \in Requests : q # p => req'[q] = req[q],
           req'[p].at \in Holding, req'[p].acct = req[p].acct
    PROVE  LocksAreHeld'
<1> DEFINE b == req[p].acct
<1>1. b \in Accounts /\ lock \in [Accounts -> Requests \cup {Nobody}]
  BY DEF TypeOK, Request
<1>2. lock'[b] = p /\ \A a \in Accounts : a # b => lock'[a] = lock[a]
  BY <1>1
<1>3. \A a \in Accounts : lock[a] = p => a = b
  BY LedgerAssumption DEF LocksAreHeld
<1> QED
  BY <1>2, <1>3, OthersKeepLocks

LEMMA StatementKeepsLocks ==
    ASSUME TypeOK, LocksAreHeld, NEW p \in Requests, Statement(p)
    PROVE  LocksAreHeld'
<1>0. ASSUME NEW reply \in Replies, Refuse(p, reply) PROVE LocksAreHeld'
  BY <1>0, EndKeepsLocks DEF Refuse
<1>1. CASE Begin(p)
  <2>1. /\ lock' = lock /\ req[p].at \notin Holding
        /\ \A q \in Requests : q # p => req'[q] = req[q]
    BY <1>1 DEF Begin, Holding, TypeOK
  <2> QED
    BY <2>1, QuietKeepsLocks
<1>2. CASE SelectForUpdate(p)
  <2>1. lock' = [lock EXCEPT ![req[p].acct] = p]
    BY <1>2 DEF SelectForUpdate
  <2>2. /\ \A q \in Requests : q # p => req'[q] = req[q]
        /\ req'[p].at \in Holding /\ req'[p].acct = req[p].acct
    BY <1>2 DEF SelectForUpdate, TypeOK, Request, Holding
  <2> QED
    BY <2>1, <2>2, LockingKeepsLocks
<1>3. CASE NotFound(p) \/ InsufficientFunds(p)
  BY <1>0, <1>3 DEF NotFound, InsufficientFunds, Replies
<1>5. CASE UpdateBalance(p)
  <2>1. PICK v \in Stored(NewBalance(req[p])) :
           IF v > MaxMoney THEN Refuse(p, "error")
           ELSE /\ lock' = [lock EXCEPT ![req[p].acct] = p]
                /\ req' = [req EXCEPT ![p] = [@ EXCEPT !.at = "insert", !.bal = v]]
    BY <1>5 DEF UpdateBalance
  <2>2. CASE v > MaxMoney
    BY <1>0, <2>1, <2>2 DEF Replies
  <2>3. CASE ~ (v > MaxMoney)
    <3> DEFINE r == [req[p] EXCEPT !.at = "insert", !.bal = v]
    <3>0. r.at = "insert" /\ r.acct = req[p].acct
      BY DEF TypeOK, Request
    <3>2. lock' = [lock EXCEPT ![req[p].acct] = p] /\ req' = [req EXCEPT ![p] = r]
      BY <2>1, <2>3
    <3> HIDE DEF r
    <3>1. /\ \A q \in Requests : q # p => req'[q] = req[q]
          /\ req'[p].at \in Holding /\ req'[p].acct = req[p].acct
      BY <3>0, <3>2 DEF TypeOK, Holding
    <3> QED
      BY <3>1, <3>2, LockingKeepsLocks
  <2> QED
    BY <2>2, <2>3
<1>6. CASE InsertTransaction(p)
  <2>1. CASE Round(req[p].amount) > 0
    <3>1. /\ lock' = lock
          /\ \A q \in Requests : q # p => req'[q] = req[q]
          /\ req'[p].at \in Holding /\ req'[p].acct = req[p].acct
      BY <1>6, <2>1 DEF InsertTransaction, TypeOK, Request, Holding
    <3> QED
      BY <3>1, QuietKeepsLocks
  <2>2. CASE ~ (Round(req[p].amount) > 0)
    BY <1>0, <1>6, <2>2 DEF InsertTransaction, Replies
  <2> QED
    BY <2>1, <2>2
<1>7. CASE Commit(p)
  BY <1>7, EndKeepsLocks DEF Commit, Replies
<1> QED
  BY <1>1, <1>2, <1>3, <1>5, <1>6, <1>7 DEF Statement

LEMMA NextKeepsLocks == TypeOK /\ LocksAreHeld /\ [Next]_vars => LocksAreHeld'
<1> SUFFICES ASSUME TypeOK, LocksAreHeld, [Next]_vars PROVE LocksAreHeld'
  OBVIOUS
<1>1. ASSUME NEW p \in Requests, NEW op \in {"deposit", "withdrawal"},
             NEW a \in Accounts, NEW m \in Amounts, Receive(p, op, a, m)
      PROVE  LocksAreHeld'
  <2>1. /\ lock' = lock /\ req[p].at \notin Holding
        /\ \A q \in Requests : q # p => req'[q] = req[q]
    BY <1>1 DEF Receive, Holding, TypeOK
  <2> QED
    BY <2>1, QuietKeepsLocks
<1>2. ASSUME NEW p \in Requests, Statement(p) PROVE LocksAreHeld'
  BY <1>2, StatementKeepsLocks
<1>3. ASSUME NEW p \in Requests, Abort(p) \/ CommitReplyLost(p) PROVE LocksAreHeld'
  BY <1>3, EndKeepsLocks DEF Abort, CommitReplyLost, Replies
<1>4. CASE (\E a \in Accounts : CreateAccount(a)) \/ UNCHANGED vars
  BY <1>4 DEF CreateAccount, vars, LocksAreHeld
<1> QED
  BY <1>1, <1>2, <1>3, <1>4 DEF Next

\* The holder of a row has all it needs.
LEMMA HolderGoesOn ==
    ASSUME IInv, LocksAreHeld, NEW a \in Accounts, lock[a] # Nobody
    PROVE  GoesOn(lock[a])
<1> DEFINE q == lock[a]
<1>1. q \in Requests /\ req[q].at \in Holding
  BY DEF LocksAreHeld
<1> HIDE DEF q
<1>2. lock[req[q].acct] = q
  BY <1>1 DEF IInv, AllSound, Sound
<1>3. req[q].at # "select" /\ req[q].at \in InTx
  BY <1>1 DEF Holding, InTx
<1>4. GoesOn(q)
  BY <1>1, <1>2, <1>3 DEF GoesOn, WaitsForRow
<1> QED
  BY <1>4 DEF q

\* From the two invariants: whoever holds a row goes on, and when the connections
\* are all taken there is a transaction, which goes on or waits for one that does.
LEMMA WaitersWaitForRunners == IInv /\ LocksAreHeld => NobodyWaitsForAWaiter
<1> SUFFICES ASSUME IInv, LocksAreHeld, NEW p \in Requests
             PROVE  /\ WaitsForRow(p) => GoesOn(lock[req[p].acct])
                    /\ WaitsForConn(p) => \E q \in Requests : GoesOn(q)
  BY DEF NobodyWaitsForAWaiter
<1>1. ASSUME NEW q \in Requests, WaitsForRow(q) PROVE GoesOn(lock[req[q].acct])
  <2>1. req[q].acct \in Accounts
    BY DEF IInv, TypeOK, Request
  <2>2. lock[req[q].acct] # Nobody
    BY <1>1 DEF WaitsForRow
  <2> QED
    BY <2>1, <2>2, HolderGoesOn
<1>2. ASSUME WaitsForConn(p) PROVE \E q \in Requests : GoesOn(q)
  <2> DEFINE T == {q \in Requests : req[q].at \in InTx}
  <2>1. T # {}
    <3>1. ~ (Cardinality(T) < Conns)
      BY <1>2 DEF WaitsForConn, FreeConn
    <3>2. Cardinality({}) = 0 /\ Conns \in Nat \ {0}
      BY FS_EmptySet, LedgerAssumption
    <3> HIDE DEF T
    <3> QED
      BY <3>1, <3>2
  <2>2. PICK q \in Requests : req[q].at \in InTx
    BY <2>1
  <2>3. CASE WaitsForRow(q)
    BY <1>1, <2>3 DEF GoesOn
  <2>4. CASE ~ WaitsForRow(q)
    BY <2>2, <2>4 DEF GoesOn
  <2> QED
    BY <2>3, <2>4
<1> QED
  BY <1>1, <1>2

\* Requests never wait in a circle, for any number of requests, accounts and
\* connections and whatever statements fail: what EveryRequestIsAnswered rests on.
THEOREM NoCircularWait == Spec => []NobodyWaitsForAWaiter
<1>1. Init => LocksAreHeld
  BY DEF Init, LocksAreHeld
<1>2. IInv => TypeOK
  BY DEF IInv
<1> QED
  BY <1>1, <1>2, NextKeepsLocks, WaitersWaitForRunners, Invariance, PTL DEF Spec

-----------------------------------------------------------------------------
(* What the caller is told is what happened. *)

\* A step of p before its answer that books nothing and does not report success.
LEMMA NothingBooked ==
    ASSUME IInv, AnswersAreTrue, NEW p \in Requests, req[p].at # "done",
           UNCHANGED entries,
           \A q \in Requests : q # p => req'[q] = req[q],
           req'[p].reply # "ok" \/ (req'[p].reply = req[p].reply /\ req'[p].acct = req[p].acct)
    PROVE  AnswersAreTrue'
<1>1. \A a \in Accounts : p \notin entries[a]
  BY DEF IInv, BookedIsDone
<1>2. req[p].reply # "ok"
  BY <1>1 DEF AnswersAreTrue, IInv, TypeOK, Request
<1>3. req'[p].reply # "ok"
  BY <1>2
<1> QED
  BY <1>1, <1>3 DEF AnswersAreTrue

\* Refused, failed or cut off before COMMIT.
LEMMA RefusalIsTrue ==
    ASSUME IInv, AnswersAreTrue, NEW p \in Requests, req[p].at # "done",
           NEW reply \in Replies \ {"ok"}, Answer(p, reply), UNCHANGED entries
    PROVE  AnswersAreTrue'
<1>1. \A q \in Requests : q # p => req'[q] = req[q]
  BY AnswerFacts DEF IInv
<1>2. req'[p].reply = reply
  BY DEF Answer, IInv, TypeOK, Request
<1> QED
  BY <1>1, <1>2, NothingBooked

\* COMMIT books the request on its account, whether or not the caller hears of it.
LEMMA CommitIsTrue ==
    ASSUME IInv, AnswersAreTrue, NEW p \in Requests, NEW reply \in {"ok", "error"},
           req[p].at = "commit", Publish(p), Answer(p, reply)
    PROVE  AnswersAreTrue'
<1> DEFINE b == req[p].acct
<1>1. b \in Accounts
  BY DEF IInv, TypeOK, Request
<1>2. /\ entries'[b] = entries[b] \cup {p}
      /\ \A a \in Accounts : a # b => entries'[a] = entries[a]
  BY <1>1 DEF Publish, IInv, TypeOK
<1>3. \A q \in Requests : q # p => req'[q] = req[q]
  BY AnswerFacts DEF IInv, Replies
<1>4. req'[p].reply = reply /\ req'[p].acct = b
  BY DEF Answer, IInv, TypeOK, Request
<1>5. \A a \in Accounts : p \notin entries[a]
  BY DEF IInv, BookedIsDone
<1> HIDE DEF b
<1>6. ASSUME NEW q \in Requests
      PROVE  /\ req'[q].reply = "ok" => q \in entries'[req'[q].acct]
             /\ \A a \in Accounts :
                   q \in entries'[a] => a = req'[q].acct /\ req'[q].reply \in {"ok", "error"}
  <2>1. CASE q = p
    BY <1>2, <1>4, <1>5, <2>1
  <2>2. CASE q # p
    <3>1. \A a \in Accounts : q \in entries'[a] <=> q \in entries[a]
      BY <1>2, <2>2
    <3>2. req[q].acct \in Accounts /\ req'[q] = req[q]
      BY <1>3, <2>2 DEF IInv, TypeOK, Request
    <3> QED
      BY <3>1, <3>2 DEF AnswersAreTrue
  <2> QED
    BY <2>1, <2>2
<1> QED
  BY <1>6 DEF AnswersAreTrue

LEMMA StatementIsTrue ==
    ASSUME IInv, AnswersAreTrue, NEW p \in Requests, Statement(p)
    PROVE  AnswersAreTrue'
<1>r. req[p] \in Request /\ req \in [Requests -> Request]
  BY DEF IInv, TypeOK
<1>0. ASSUME NEW reply \in Replies \ {"ok"}, req[p].at # "done", Refuse(p, reply)
      PROVE  AnswersAreTrue'
  BY <1>0, RefusalIsTrue DEF Refuse, rows
<1>m. ASSUME NEW r, req[p].at # "done", UNCHANGED entries,
             req' = [req EXCEPT ![p] = r], r.reply = req[p].reply, r.acct = req[p].acct
      PROVE  AnswersAreTrue'
  <2>1. req'[p] = r /\ \A q \in Requests : q # p => req'[q] = req[q]
    BY <1>m, <1>r
  <2> QED
    BY <1>m, <2>1, NothingBooked
<1>1. CASE Begin(p)
  <2> DEFINE r == [req[p] EXCEPT !.at = "select"]
  <2>1. r.reply = req[p].reply /\ r.acct = req[p].acct
    BY <1>r DEF Request
  <2>2. req[p].at # "done" /\ UNCHANGED entries /\ req' = [req EXCEPT ![p] = r]
    BY <1>1 DEF Begin, rows
  <2> HIDE DEF r
  <2> QED
    BY <1>m, <2>1, <2>2
<1>2. CASE SelectForUpdate(p)
  <2> DEFINE r == [req[p] EXCEPT !.at = "update", !.bal = balance[req[p].acct]]
  <2>1. r.reply = req[p].reply /\ r.acct = req[p].acct
    BY <1>r DEF Request
  <2>2. req[p].at # "done" /\ UNCHANGED entries /\ req' = [req EXCEPT ![p] = r]
    BY <1>2 DEF SelectForUpdate, rows
  <2> HIDE DEF r
  <2> QED
    BY <1>m, <2>1, <2>2
<1>3. CASE NotFound(p) \/ InsufficientFunds(p)
  BY <1>0, <1>3 DEF NotFound, InsufficientFunds, Replies
<1>4. CASE UpdateBalance(p)
  <2>1. PICK v \in Stored(NewBalance(req[p])) :
           IF v > MaxMoney THEN Refuse(p, "error")
           ELSE /\ req' = [req EXCEPT ![p] = [@ EXCEPT !.at = "insert", !.bal = v]]
                /\ UNCHANGED entries
    BY <1>4 DEF UpdateBalance, rows
  <2>2. req[p].at # "done" /\ "error" \in Replies \ {"ok"}
    BY <1>4 DEF UpdateBalance, Replies
  <2>3. CASE v > MaxMoney
    BY <1>0, <2>1, <2>2, <2>3
  <2>4. CASE ~ (v > MaxMoney)
    <3> DEFINE r == [req[p] EXCEPT !.at = "insert", !.bal = v]
    <3>1. r.reply = req[p].reply /\ r.acct = req[p].acct
      BY <1>r DEF Request
    <3>2. UNCHANGED entries /\ req' = [req EXCEPT ![p] = r]
      BY <2>1, <2>4
    <3> HIDE DEF r
    <3> QED
      BY <1>m, <2>2, <3>1, <3>2
  <2> QED
    BY <2>3, <2>4
<1>5. CASE InsertTransaction(p)
  <2>2. req[p].at # "done" /\ "error" \in Replies \ {"ok"}
    BY <1>5 DEF InsertTransaction, Replies
  <2>3. CASE Round(req[p].amount) > 0
    <3> DEFINE r == [req[p] EXCEPT !.at = "commit"]
    <3>1. r.reply = req[p].reply /\ r.acct = req[p].acct
      BY <1>r DEF Request
    <3>2. UNCHANGED entries /\ req' = [req EXCEPT ![p] = r]
      BY <1>5, <2>3, <1>r DEF InsertTransaction, rows
    <3> HIDE DEF r
    <3> QED
      BY <1>m, <2>2, <3>1, <3>2
  <2>4. CASE ~ (Round(req[p].amount) > 0)
    BY <1>0, <1>5, <2>2, <2>4 DEF InsertTransaction
  <2> QED
    BY <2>3, <2>4
<1>6. CASE Commit(p)
  BY <1>6, CommitIsTrue DEF Commit
<1> QED
  BY <1>1, <1>2, <1>3, <1>4, <1>5, <1>6 DEF Statement

LEMMA NextIsTrue == IInv /\ AnswersAreTrue /\ [Next]_vars => AnswersAreTrue'
<1> SUFFICES ASSUME IInv, AnswersAreTrue, [Next]_vars PROVE AnswersAreTrue'
  OBVIOUS
<1>1. ASSUME NEW p \in Requests, NEW op \in {"deposit", "withdrawal"},
             NEW a \in Accounts, NEW m \in Amounts, Receive(p, op, a, m)
      PROVE  AnswersAreTrue'
  <2>1. req[p].at # "done" /\ UNCHANGED entries
    BY <1>1 DEF Receive, rows
  <2>2. \A q \in Requests : q # p => req'[q] = req[q]
    BY <1>1 DEF Receive, IInv, TypeOK
  <2>3. req'[p].reply # "ok"
    BY <1>1 DEF Receive, IInv, TypeOK, Request
  <2> QED
    BY <2>1, <2>2, <2>3, NothingBooked
<1>2. ASSUME NEW p \in Requests, Statement(p) PROVE AnswersAreTrue'
  BY <1>2, StatementIsTrue
<1>3. ASSUME NEW p \in Requests, Abort(p) PROVE AnswersAreTrue'
  BY <1>3, RefusalIsTrue DEF Abort, Replies, InTx, rows
<1>4. ASSUME NEW p \in Requests, CommitReplyLost(p) PROVE AnswersAreTrue'
  BY <1>4, CommitIsTrue DEF CommitReplyLost
<1>5. CASE (\E a \in Accounts : CreateAccount(a)) \/ UNCHANGED vars
  BY <1>5 DEF CreateAccount, vars, AnswersAreTrue
<1> QED
  BY <1>1, <1>2, <1>3, <1>4, <1>5 DEF Next

\* A caller of Deposit or Withdraw who hears of success has been booked, one who
\* is refused has not, however requests interleave and statements fail.
THEOREM AnswersTheorem == Spec => []AnswersAreTrue
<1>1. Init => AnswersAreTrue
  BY DEF Init, AnswersAreTrue
<1> QED
  BY <1>1, NextIsTrue, Invariance, PTL DEF Spec
=============================================================================
