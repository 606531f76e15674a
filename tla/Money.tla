------------------------------- MODULE Money -------------------------------
(***************************************************************************)
(* How PostgreSQL stores money, database/init.sql: NUMERIC(15, 2) columns  *)
(* hold whole cents.  Requests carry a float64 of any precision, so the    *)
(* models count in mills, a tenth of a cent: enough to tell an amount      *)
(* below half a cent, at half a cent and above it.                         *)
(***************************************************************************)
EXTENDS Integers

CONSTANT MaxMoney   \* the largest value of the column; PostgreSQL refuses more

ASSUME MoneyAssumption == MaxMoney \in Nat

Cent == 10

WholeCents == {v \in 0 .. MaxMoney : v % Cent = 0}

\* A value is rounded to the cent, halves away from zero.
Round(m) == ((m + 5) \div Cent) * Cent

HalfCent(m) == m % Cent = 5

\* Faulty: the column keeps every digit of the value.
StoredExactly(m) == {m}

\* What UPDATE leaves of a newBalance: the float64 sum or difference of two
\* decimals may lie on either side of a half cent.
Stored(m) == IF HalfCent(m) THEN {m - 5, m + 5} ELSE {Round(m)}
=============================================================================
