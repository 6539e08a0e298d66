------------------------------ MODULE MCRequests ------------------------------
EXTENDS Navigation

CONSTANTS r1, r2, i1, i2, k1

MCTexts == {[id |-> i1, spelled |-> "a"], [id |-> i1, spelled |-> "b"], [id |-> i2, spelled |-> "a"]}
===============================================================================
