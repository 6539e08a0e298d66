------------------------------ MODULE LoginGrant ------------------------------
(***************************************************************************)
(* What the login challenge promises, without its requests: a challenge is *)
(* offered to a user, proved once with a code, and lets the user in at     *)
(* most once.  A login withdraws every other open challenge of that user.  *)
(***************************************************************************)
EXTENDS Naturals

CONSTANTS
    Users,
    Challenges,
    Nobody          \* holder of a challenge that is not pending

VARIABLES
    state,          \* of each challenge
    holder,         \* whom a pending challenge was offered to
    uses            \* how often each challenge let its holder in

vars == <<state, holder, uses>>

States == {"absent", "open", "proved", "spent", "withdrawn"}
Pending == {c \in Challenges : state[c] \in {"open", "proved"}}

Init ==
    /\ state = [c \in Challenges |-> "absent"]
    /\ holder = [c \in Challenges |-> Nobody]
    /\ uses = [c \in Challenges |-> 0]

Offer(c, u) ==
    /\ state[c] = "absent"
    /\ state' = [state EXCEPT ![c] = "open"]
    /\ holder' = [holder EXCEPT ![c] = u]
    /\ UNCHANGED uses

Prove(c) ==
    /\ state[c] = "open"
    /\ state' = [state EXCEPT ![c] = "proved"]
    /\ UNCHANGED <<holder, uses>>

Rivals(c) == {d \in Pending \ {c} : holder[d] = holder[c]}

Grant(c) ==
    /\ state[c] = "proved"
    /\ state' = [d \in Challenges |->
                    IF d = c THEN "spent"
                    ELSE IF d \in Rivals(c) THEN "withdrawn" ELSE state[d]]
    /\ holder' = [d \in Challenges |->
                    IF d \in Rivals(c) \cup {c} THEN Nobody ELSE holder[d]]
    /\ uses' = [uses EXCEPT ![c] = @ + 1]

Withdraw(S) ==
    /\ state' = [d \in Challenges |-> IF d \in S THEN "withdrawn" ELSE state[d]]
    /\ holder' = [d \in Challenges |-> IF d \in S THEN Nobody ELSE holder[d]]
    /\ UNCHANGED uses

Next ==
    \/ \E c \in Challenges, u \in Users : Offer(c, u)
    \/ \E c \in Challenges : Prove(c) \/ Grant(c)
    \/ \E S \in SUBSET Pending : Withdraw(S)

Spec == Init /\ [][Next]_vars
===============================================================================
