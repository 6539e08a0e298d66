----------------------------- MODULE ApprovalGrant ------------------------------
(***************************************************************************)
(* What a sensitive change of an account promises, without its requests:   *)
(* an approval is asked for, proved with the code sent by mail and then    *)
(* with the code sent by SMS, and carried out at most once.  Carrying it   *)
(* out withdraws every other pending approval it makes obsolete: a new     *)
(* password those of its own kind, a new phone number and the end of the   *)
(* account those of every kind.                                            *)
(***************************************************************************)
EXTENDS Naturals

CONSTANTS
    Users,
    Challenges,
    Nobody          \* the subject of an approval that is not pending

VARIABLES
    state,          \* of each approval
    subject,        \* whose account a pending approval is about, and what it is for
    uses            \* how often each approval was carried out

vars == <<state, subject, uses>>

Kinds   == {"reset", "delete", "contact"}
States  == {"absent", "asked", "mailProved", "bothProved", "spent", "withdrawn"}
Pending == {c \in Challenges : state[c] \in {"asked", "mailProved", "bothProved"}}

Init ==
    /\ state = [c \in Challenges |-> "absent"]
    /\ subject = [c \in Challenges |-> Nobody]
    /\ uses = [c \in Challenges |-> 0]

Ask(c) ==
    /\ state[c] = "absent"
    /\ state' = [state EXCEPT ![c] = "asked"]
    /\ \E s \in Users \X Kinds : subject' = [subject EXCEPT ![c] = s]
    /\ UNCHANGED uses

Prove(c, before, after) ==
    /\ state[c] = before
    /\ state' = [state EXCEPT ![c] = after]
    /\ UNCHANGED <<subject, uses>>

Obsolete(c) ==
    {d \in Pending \ {c} :
        /\ subject[d][1] = subject[c][1]
        /\ subject[c][2] = "reset" => subject[d][2] = "reset"}

Leave(S) == subject' = [d \in Challenges |-> IF d \in S THEN Nobody ELSE subject[d]]

CarryOut(c) ==
    /\ state[c] = "bothProved"
    /\ state' = [d \in Challenges |->
                    IF d = c THEN "spent"
                    ELSE IF d \in Obsolete(c) THEN "withdrawn" ELSE state[d]]
    /\ Leave(Obsolete(c) \cup {c})
    /\ uses' = [uses EXCEPT ![c] = @ + 1]

Withdraw(S) ==
    /\ state' = [d \in Challenges |-> IF d \in S THEN "withdrawn" ELSE state[d]]
    /\ Leave(S)
    /\ UNCHANGED uses

Next ==
    \/ \E S \in SUBSET Pending : Withdraw(S)
    \/ \E c \in Challenges :
        \/ Ask(c)
        \/ Prove(c, "asked", "mailProved")
        \/ Prove(c, "mailProved", "bothProved")
        \/ CarryOut(c)

Spec == Init /\ [][Next]_vars
===============================================================================
