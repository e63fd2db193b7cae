----------------------------- MODULE MCAccounts -----------------------------
(***************************************************************************)
(* Small instances of Accounts for TLC.                                    *)
(***************************************************************************)
EXTENDS Accounts, TLC

CONSTANTS u1, u2, u3, n1, n2, t1, t2, s1, s2

\* A second administrator, with an email that is free until he is created and
\* with one that is taken.
OneUsername == {NewRow(n2, mail, "admin") : mail \in Names}

\* Administrators are demoted and deactivated, for good.
TakenAway ==
    {[role |-> "operator", active |-> None], [role |-> None, active |-> FALSE]}

\* The administrator and one of the users he creates log in.
OneTokenEach == [t \in Tokens |-> IF t = t1 THEN u1 ELSE u2]

Symmetry == Permutations(Sessions)
=============================================================================
