------------------------------- MODULE MCAccount -------------------------------
EXTENDS AccountChallenges, TLC

CONSTANTS u1, u2, p1, p2

MCFirstPhone == u1 :> p1 @@ u2 :> p2

\* Request slots and challenge ids are interchangeable, and so are the users
\* if the numbers they begin with change places as well.
MCSymmetry ==
    Permutations(Requests) \cup Permutations(Challenges)
    \cup {u1 :> u2 @@ u2 :> u1 @@ p1 :> p2 @@ p2 :> p1}
===============================================================================
