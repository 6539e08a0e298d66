------------------------------ MODULE MCSessions ------------------------------
EXTENDS AccountSessions, TLC

MCSymmetry == Permutations(Requests)
===============================================================================
