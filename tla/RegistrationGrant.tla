--------------------------- MODULE RegistrationGrant ---------------------------
(***************************************************************************)
(* What the registration promises, without its requests.  An application   *)
(* is made for an address and a phone number and replaces the one the      *)
(* address had; its mail code is proved, then its SMS code, and that opens *)
(* the account, at most once for an application, if neither the address    *)
(* nor the number belongs to an account by then.                           *)
(***************************************************************************)
EXTENDS Naturals

CONSTANTS
    Emails,
    Phones,
    Challenges,
    None

VARIABLES
    state,      \* of each application
    claim,      \* the address and number of a pending one
    user        \* the number of each address that has an account

vars == <<state, claim, user>>

States  == {"absent", "asked", "mailProved", "gone"}
Pending == {c \in Challenges : state[c] \in {"asked", "mailProved"}}
Of(e)   == {c \in Pending : claim[c][1] = e}
Free(p) == \A e \in Emails : user[e] # p

Init ==
    /\ state = [c \in Challenges |-> "absent"]
    /\ claim = [c \in Challenges |-> None]
    /\ user = [e \in Emails |-> None]

Drop(S, s) == [c \in Challenges |-> IF c \in S THEN "gone" ELSE s[c]]
Forget(S)  == [c \in Challenges |-> IF c \in S THEN None ELSE claim[c]]

Apply(c, e, p) ==
    /\ state[c] = "absent"
    /\ state' = Drop(Of(e), [state EXCEPT ![c] = "asked"])
    /\ claim' = [Forget(Of(e)) EXCEPT ![c] = <<e, p>>]
    /\ UNCHANGED user

ProveMail(c) ==
    /\ state[c] = "asked"
    /\ state' = [state EXCEPT ![c] = "mailProved"]
    /\ UNCHANGED <<claim, user>>

Open(c) ==
    LET e == claim[c][1]
        p == claim[c][2] IN
    /\ state[c] = "mailProved"
    /\ user[e] = None /\ Free(p)
    /\ user' = [user EXCEPT ![e] = p]
    /\ state' = Drop(Of(e), state)
    /\ claim' = Forget(Of(e))

Withdraw(c) ==
    /\ c \in Pending
    /\ state' = Drop({c}, state)
    /\ claim' = Forget({c})
    /\ UNCHANGED user

Close(e) ==
    /\ user[e] # None
    /\ user' = [user EXCEPT ![e] = None]
    /\ UNCHANGED <<state, claim>>

ChangePhone(e, p) ==
    /\ user[e] # None /\ Free(p)
    /\ user' = [user EXCEPT ![e] = p]
    /\ UNCHANGED <<state, claim>>

Next ==
    \/ \E c \in Challenges :
          \/ \E e \in Emails, p \in Phones : Apply(c, e, p)
          \/ ProveMail(c)
          \/ Open(c)
          \/ Withdraw(c)
    \/ \E e \in Emails : Close(e) \/ \E p \in Phones : ChangePhone(e, p)

Spec == Init /\ [][Next]_vars
================================================================================
