------------------------------ MODULE MCAccounts ------------------------------
EXTENDS Accounts, TLC
Alike == Permutations(Accounts) \cup Permutations(Addresses)
           \cup Permutations(Tokens)
===============================================================================
