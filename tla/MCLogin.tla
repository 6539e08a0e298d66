------------------------------- MODULE MCLogin --------------------------------
EXTENDS LoginChallenge, TLC

\* Request slots, and challenge ids, are interchangeable.
MCSymmetry == Permutations(Requests) \cup Permutations(Challenges)
===============================================================================
