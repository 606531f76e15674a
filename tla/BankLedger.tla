---------------------------- MODULE BankLedger ----------------------------
(***************************************************************************)
(* The account service of the banking API (internal/service/account.go)    *)
(* over PostgreSQL at READ COMMITTED.  Each request runs its transaction   *)
(* one statement at a time on a connection of the pool; any other request  *)
(* may run in between.  What a transaction wrote is seen by others only    *)
(* after COMMIT, and the row lock of SELECT ... FOR UPDATE lasts till then. *)
(***************************************************************************)
EXTENDS Money, FiniteSets

CONSTANTS
    Accounts,    \* account numbers that requests may name
    Seeded,      \* those database/init.sql creates
    Opening,     \* what it deposits on each of them
    Requests,    \* the requests of a behaviour, each sent once
    Amounts,     \* what they ask for, in mills
    Conns,       \* connections of the pool
    Nobody,      \* stands for the holder of a free lock
    MaxFaults    \* bound on failed statements and lost connections

ASSUME LedgerAssumption ==
    /\ Accounts # {}
    /\ Seeded \subseteq Accounts
    /\ Opening \in WholeCents
    /\ IsFiniteSet(Requests)
    /\ Amounts \subseteq Int
    /\ Conns \in Nat \ {0}
    /\ Nobody \notin Requests
    /\ MaxFaults \in Nat

VARIABLES
    exists,    \* the accounts that have a row
    balance,   \* bank_accounts.balance, committed
    booked,    \* deposits minus withdrawals of the committed transactions rows
    entries,   \* per account, the requests that own a transactions row
    lock,      \* per account, the request that holds its row lock
    req,       \* the requests
    faults     \* faults so far

vars == <<exists, balance, booked, entries, lock, req, faults>>

InTx    == {"select", "update", "insert", "commit"}
Replies == {"none", "ok", "bad_request", "not_found", "insufficient_funds", "error"}

\* bal is account.Balance as read, then newBalance as stored.
Request == [at : InTx \cup {"new", "begin", "done"}, op : {"none", "deposit", "withdrawal"},
            acct : Accounts, amount : Int, bal : WholeCents, reply : Replies]

TypeOK ==
    /\ exists \subseteq Accounts
    /\ balance \in [Accounts -> WholeCents]
    /\ booked \in [Accounts -> Int]
    /\ entries \in [Accounts -> SUBSET Requests]
    /\ lock \in [Accounts -> Requests \cup {Nobody}]
    /\ req \in [Requests -> Request]
    /\ faults \in 0 .. MaxFaults

Init ==
    /\ exists = Seeded
    /\ balance = [a \in Accounts |-> IF a \in Seeded THEN Opening ELSE 0]
    /\ booked = balance
    /\ entries = [a \in Accounts |-> {}]
    /\ lock = [a \in Accounts |-> Nobody]
    /\ req = [p \in Requests |->
           [at |-> "new", op |-> "none", acct |-> CHOOSE a \in Accounts : TRUE,
            amount |-> 0, bal |-> 0, reply |-> "none"]]
    /\ faults = 0

rows == <<exists, balance, booked, entries>>

-----------------------------------------------------------------------------
FreeConn == Cardinality({p \in Requests : req[p].at \in InTx}) < Conns

\* The end of a transaction, by COMMIT or ROLLBACK, frees its row lock.
Unlock(p) == lock' = [a \in Accounts |-> IF lock[a] = p THEN Nobody ELSE lock[a]]

Answer(p, reply) == req' = [req EXCEPT ![p] = [@ EXCEPT !.at = "done", !.reply = reply]]

\* Faulty: an early return leaves the transaction open.
RefuseKeepsLock(p, reply) == Answer(p, reply) /\ UNCHANGED <<lock, rows, faults>>

\* An early return of Deposit or Withdraw: the deferred Rollback runs.
Refuse(p, reply) == Answer(p, reply) /\ Unlock(p) /\ UNCHANGED <<rows, faults>>

\* The HTTP handlers Deposit and Withdraw.
Receive(p, op, a, m) ==
    /\ req[p].at = "new"
    /\ req' = [req EXCEPT ![p].op = op, ![p].acct = a, ![p].amount = m,
                          ![p].at = IF m <= 0 THEN "done" ELSE "begin",
                          ![p].reply = IF m <= 0 THEN "bad_request" ELSE "none"]
    /\ UNCHANGED <<rows, lock, faults>>

\* pool.Begin waits for a free connection.
Begin(p) ==
    /\ req[p].at = "begin"
    /\ FreeConn
    /\ req' = [req EXCEPT ![p] = [@ EXCEPT !.at = "select"]]
    /\ UNCHANGED <<rows, lock, faults>>

\* Withdraw compares the balance with the exact amount, Deposit does not.
Suffices(op, bal, m) == op = "withdrawal" => bal >= m

\* Faulty: the balance is read without FOR UPDATE.
SelectPlain(p) ==
    LET a == req[p].acct
    IN  /\ req[p].at = "select"
        /\ a \in exists
        /\ Suffices(req[p].op, balance[a], req[p].amount)
        /\ req' = [req EXCEPT ![p] = [@ EXCEPT !.at = "update", !.bal = balance[a]]]
        /\ UNCHANGED <<rows, lock, faults>>

\* GetByAccountNumberForUpdate waits for the row lock and then reads what the
\* last holder committed.
SelectForUpdate(p) ==
    LET a == req[p].acct
    IN  /\ req[p].at = "select"
        /\ a \in exists
        /\ lock[a] = Nobody
        /\ Suffices(req[p].op, balance[a], req[p].amount)
        /\ lock' = [lock EXCEPT ![a] = p]
        /\ req' = [req EXCEPT ![p] = [@ EXCEPT !.at = "update", !.bal = balance[a]]]
        /\ UNCHANGED <<rows, faults>>

NotFound(p) ==
    /\ req[p].at = "select"
    /\ req[p].acct \notin exists
    /\ Refuse(p, "not_found")

InsufficientFunds(p) ==
    LET a == req[p].acct
    IN  /\ req[p].at = "select"
        /\ a \in exists
        /\ lock[a] = Nobody
        /\ ~ Suffices(req[p].op, balance[a], req[p].amount)
        /\ Refuse(p, "insufficient_funds")

NewBalance(r) == IF r.op = "deposit" THEN r.bal + r.amount ELSE r.bal - r.amount

\* UpdateBalance takes the row lock if the transaction does not hold it yet;
\* a balance the column cannot hold fails the statement.
UpdateBalance(p) ==
    LET a == req[p].acct
    IN  /\ req[p].at = "update"
        /\ lock[a] \in {Nobody, p}
        /\ \E v \in Stored(NewBalance(req[p])) :
               IF v > MaxMoney THEN Refuse(p, "error")
               ELSE /\ lock' = [lock EXCEPT ![a] = p]
                    /\ req' = [req EXCEPT ![p] = [@ EXCEPT !.at = "insert", !.bal = v]]
                    /\ UNCHANGED <<rows, faults>>

\* Faulty: the row is inserted on a second connection of the pool.
InsertOnPool(p) ==
    /\ req[p].at = "insert"
    /\ FreeConn
    /\ req' = [req EXCEPT ![p].at = "commit"]
    /\ UNCHANGED <<rows, lock, faults>>

\* transactions.Create: CHECK (amount > 0) looks at the rounded amount.
InsertTransaction(p) ==
    /\ req[p].at = "insert"
    /\ IF Round(req[p].amount) > 0
       THEN /\ req' = [req EXCEPT ![p].at = "commit"]
            /\ UNCHANGED <<rows, lock, faults>>
       ELSE Refuse(p, "error")

Signed(r) == IF r.op = "deposit" THEN Round(r.amount) ELSE - Round(r.amount)

\* Faulty: only the history is published, the balance is left to a later job.
PublishHistory(p) ==
    LET r == req[p]
    IN  /\ booked' = [booked EXCEPT ![r.acct] = @ + Signed(r)]
        /\ entries' = [entries EXCEPT ![r.acct] = @ \cup {p}]
        /\ UNCHANGED <<exists, balance>>

\* What COMMIT makes visible of p's transaction.
Publish(p) ==
    LET r == req[p]
    IN  /\ balance' = [balance EXCEPT ![r.acct] = r.bal]
        /\ booked' = [booked EXCEPT ![r.acct] = @ + Signed(r)]
        /\ entries' = [entries EXCEPT ![r.acct] = @ \cup {p}]
        /\ UNCHANGED exists

\* Faulty: the error of COMMIT is not looked at.
CommitUnchecked(p) ==
    /\ req[p].at = "commit"
    /\ Publish(p) \/ UNCHANGED rows
    /\ Unlock(p)
    /\ Answer(p, "ok")
    /\ UNCHANGED faults

Commit(p) ==
    /\ req[p].at = "commit"
    /\ Publish(p)
    /\ Unlock(p)
    /\ Answer(p, "ok")
    /\ UNCHANGED faults

\* CreateAccount: one INSERT, no transaction of the service's own.  A number
\* that is taken is answered 409 and changes nothing.
CreateAccount(a) ==
    /\ a \notin exists
    /\ exists' = exists \cup {a}
    /\ balance' = [balance EXCEPT ![a] = 0]
    /\ booked' = [booked EXCEPT ![a] = 0]
    /\ UNCHANGED <<entries, lock, req, faults>>

-----------------------------------------------------------------------------
(* A statement may fail, the client may go away (which cancels the request's *)
(* context) or the process may die at any point: PostgreSQL rolls back.      *)

Fault == faults < MaxFaults /\ faults' = faults + 1

Abort(p) ==
    /\ req[p].at \in InTx \cup {"begin"}
    /\ Fault
    /\ Unlock(p)
    /\ Answer(p, "error")
    /\ UNCHANGED rows

\* The answer to COMMIT is lost: the caller is told of an error.
CommitReplyLost(p) ==
    /\ req[p].at = "commit"
    /\ Fault
    /\ Publish(p)
    /\ Unlock(p)
    /\ Answer(p, "error")

Statement(p) ==
    \/ Begin(p)
    \/ SelectForUpdate(p) \/ NotFound(p) \/ InsufficientFunds(p)
    \/ UpdateBalance(p)
    \/ InsertTransaction(p)
    \/ Commit(p)

Next ==
    \/ \E p \in Requests, op \in {"deposit", "withdrawal"}, a \in Accounts, m \in Amounts :
           Receive(p, op, a, m)
    \/ \E p \in Requests : Statement(p) \/ Abort(p) \/ CommitReplyLost(p)
    \/ \E a \in Accounts : CreateAccount(a)

Spec == Init /\ [][Next]_vars

\* A handler that can go on does: the pool and the row lock let a waiter
\* through once nobody else is in its way.
FairSpec == Spec /\ \A p \in Requests : WF_vars(Statement(p))

-----------------------------------------------------------------------------
Drift(a) == IF balance[a] >= booked[a] THEN balance[a] - booked[a]
                                       ELSE booked[a] - balance[a]

\* An account's balance and the sum of its transaction history differ by at
\* most one cent for each booked request that asked for a half cent, and not
\* at all where nobody did: "SELECT FOR UPDATE row lock prevents concurrent
\* balance corruption" (service/account.go).
BooksAgree ==
    \A a \in Accounts :
        Drift(a) <= Cent * Cardinality({p \in entries[a] : HalfCent(req[p].amount)})

\* What the caller is told is what happened: a deposit or withdrawal answered
\* with success is in the history of its account, and one answered with 400, 404
\* or 422 is in none; only an error, which may stand for a lost answer to COMMIT,
\* leaves it open. Nothing is ever booked on another account.
AnswersAreTrue ==
    \A p \in Requests :
        /\ req[p].reply = "ok" => p \in entries[req[p].acct]
        /\ \A a \in Accounts :
               p \in entries[a] => a = req[p].acct /\ req[p].reply \in {"ok", "error"}

\* The statements of a request together act as one step of Bank.
Promise == INSTANCE Bank

\* Every deposit and withdrawal takes effect at once or not at all, in some
\* order of the requests: Deposit and Withdraw of service/account.go.
ActsAtOnce == Promise!Spec

WaitsForConn(p) == req[p].at = "begin" /\ ~ FreeConn

WaitsForRow(p) ==
    LET a == req[p].acct
    IN  \/ req[p].at = "select" /\ a \in exists /\ lock[a] # Nobody
        \/ req[p].at = "update" /\ lock[a] \notin {Nobody, p}

\* A transaction that can run its next statement.
GoesOn(p) == p \in Requests /\ req[p].at \in InTx /\ ~ WaitsForRow(p)

\* Nobody waits for a waiter: the request that holds a row of bank_accounts
\* another one asks for has all it needs, and while the pool has no connection
\* left some transaction has all it needs. So the connections are never all held
\* by requests that wait for each other, however few there are, and no row stays
\* locked for a request that is gone (GetByAccountNumberForUpdate, pool.Begin).
NobodyWaitsForAWaiter ==
    \A p \in Requests :
        /\ WaitsForRow(p) => GoesOn(lock[req[p].acct])
        /\ WaitsForConn(p) => \E q \in Requests : GoesOn(q)

\* Every request that arrives is answered: waiting for a connection and for
\* a row lock never blocks everyone, however few connections there are. As a
\* request is sent once, that is: again and again no request is under way.
EveryRequestIsAnswered ==
    []<>(\A p \in Requests : req[p].at \in {"new", "done"})
=============================================================================
