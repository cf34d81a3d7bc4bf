----------------------------- MODULE MCAccounts -----------------------------
EXTENDS Accounts, TLC

CONSTANTS t1, t2, p1, p2

MaxMain == [ip |-> 2, email |-> 1]
MaxWide == [ip |-> 4, email |-> 4]
WindowMain == [ip |-> 2, email |-> 2]

Symmetry == Permutations(Threads) \cup Permutations(Passwords)
=============================================================================
