-------------------------------- MODULE Bank --------------------------------
(***************************************************************************)
(* What the account service promises: a deposit or a withdrawal happens at *)
(* once or not at all, changes one account's balance and its transaction   *)
(* history together, and never takes more than is there.                   *)
(***************************************************************************)
EXTENDS Money

CONSTANTS Accounts, Amounts

VARIABLES
    exists,    \* the accounts that have a row
    balance,   \* bank_accounts.balance
    booked     \* deposits minus withdrawals in the transactions table

Init ==
    /\ exists \in SUBSET Accounts
    /\ balance \in [Accounts -> WholeCents]
    /\ booked = balance

Open(a) ==
    /\ a \notin exists
    /\ exists' = exists \cup {a}
    /\ balance' = [balance EXCEPT ![a] = 0]
    /\ booked' = [booked EXCEPT ![a] = 0]

\* An amount that rounds to nothing is refused.
Deposit(a, m) ==
    /\ a \in exists
    /\ Round(m) > 0
    /\ \E v \in Stored(balance[a] + m) \cap WholeCents :
           balance' = [balance EXCEPT ![a] = v]
    /\ booked' = [booked EXCEPT ![a] = @ + Round(m)]
    /\ UNCHANGED exists

Withdraw(a, m) ==
    /\ a \in exists
    /\ Round(m) > 0
    /\ m <= balance[a]
    /\ \E v \in Stored(balance[a] - m) \cap WholeCents :
           balance' = [balance EXCEPT ![a] = v]
    /\ booked' = [booked EXCEPT ![a] = @ - Round(m)]
    /\ UNCHANGED exists

Next ==
    \/ \E a \in Accounts : Open(a)
    \/ \E a \in Accounts, m \in Amounts : Deposit(a, m) \/ Withdraw(a, m)

Spec == Init /\ [][Next]_<<exists, balance, booked>>
=============================================================================
