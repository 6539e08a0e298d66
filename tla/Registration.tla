------------------------------ MODULE Registration ------------------------------
(***************************************************************************)
(* Registration: a start or restart stores a challenge and mails a code;   *)
(* the right mail code stores and texts a second code; the right SMS code  *)
(* opens the account.  The requests are sequences of separate statements.  *)
(*                                                                         *)
(* Two of them are transactions of which others see all or nothing.  The   *)
(* replacement of a challenge is serialised per address by an advisory     *)
(* lock; the completion locks the challenge it consumes, so a replacement  *)
(* that meets it waits, or makes it find nothing.                          *)
(*                                                                         *)
(* Requests that are refused at once change nothing and are left out.  SMS *)
(* is taken as enabled.                                                    *)
(***************************************************************************)
EXTENDS Naturals, FiniteSets

CONSTANTS
    Emails,
    Phones,
    Wants,          \* the number the owner of each address registers with
    Requests,       \* request slots
    Unset,
    RegisterMaxAttempts, \* REGISTER_MAX_ATTEMPTS
    \* bounds of the model
    MaxChallenges,
    MaxTrouble      \* failures, wrong codes, expiries, interference

ASSUME RegistrationAssumption ==
    /\ Wants \in [Emails -> Phones]
    /\ Unset \notin Emails \cup Phones
    /\ RegisterMaxAttempts \in Nat \ {0} /\ MaxChallenges \in Nat /\ MaxTrouble \in Nat

Challenges == 1..MaxChallenges      \* row ids in the order of insertion

VARIABLES
    user,       \* User: the number of each address that has an account
    rows,       \* RegistrationVerificationChallenge
    req,        \* requests under way
    trouble

registrationVars == <<user, rows, req, trouble>>

Stages == {"absent", "mail", "sms", "gone"}
Steps  == {"idle", "email", "phone", "replace", "sendMail", "wrongMail", "rightMail",
           "sendSms", "wrongSms", "rightSms"}

\* expired and sent are those of the code of the stage; sent: it is in the outbox.
NoRow(stage) == [stage |-> stage, email |-> Unset, phone |-> Unset, expired |-> FALSE,
                 sent |-> FALSE, emailCodeAttempts |-> 0, smsCodeAttempts |-> 0]
Idle == [step |-> "idle", email |-> Unset, phone |-> Unset, chal |-> 0]

Exists(c)  == rows[c].stage \in {"mail", "sms"}
RowsOf(e)  == {c \in Challenges : Exists(c) /\ rows[c].email = e}
Without(S) == [c \in Challenges |-> IF c \in S THEN NoRow("gone") ELSE rows[c]]
Taken(p)   == \E e \in Emails : user[e] = p

RegistrationInit ==
    /\ user = [e \in Emails |-> Unset]
    /\ rows = [c \in Challenges |-> NoRow("absent")]
    /\ req = [r \in Requests |-> Idle]
    /\ trouble = 0

Goto(r, step) == req' = [req EXCEPT ![r].step = step]
Return(r)     == req' = [req EXCEPT ![r] = Idle]
Trouble       == trouble < MaxTrouble /\ trouble' = trouble + 1

-----------------------------------------------------------------------------
(* Start and restart *)

StartRegister(r, e, p) ==
    /\ req[r] = Idle
    /\ req' = [req EXCEPT ![r] = [Idle EXCEPT !.step = "email", !.email = e, !.phone = p]]
    /\ UNCHANGED <<user, rows>>

\* Faulty: a challenge whose mail code was used cannot be restarted.
RestartUnverified(r, c) ==
    /\ req[r] = Idle
    /\ rows[c].stage = "mail"
    /\ req' = [req EXCEPT ![r] = [Idle EXCEPT !.step = "email",
                                     !.email = rows[c].email, !.phone = rows[c].phone]]
    /\ UNCHANGED <<user, rows>>

\* Any row that is there is good enough, expired or verified.
RestartRegister(r, c) ==
    /\ req[r] = Idle
    /\ Exists(c)
    /\ req' = [req EXCEPT ![r] = [Idle EXCEPT !.step = "email",
                                     !.email = rows[c].email, !.phone = rows[c].phone]]
    /\ UNCHANGED <<user, rows>>

\* The two look-ups run in parallel; EMAIL_TAKEN if either finds an account.
FindActiveUserIdByEmail(r) ==
    /\ req[r].step = "email"
    /\ IF user[req[r].email] # Unset THEN Return(r) ELSE Goto(r, "phone")
    /\ UNCHANGED <<user, rows, trouble>>

FindActiveUserIdByPhone(r) ==
    /\ req[r].step = "phone"
    /\ IF Taken(req[r].phone) THEN Return(r) ELSE Goto(r, "replace")
    /\ UNCHANGED <<user, rows, trouble>>

ReplaceRegistrationChallenge(r) ==
    /\ req[r].step = "replace"
    /\ \E c \in Challenges :
          /\ rows[c].stage = "absent" /\ \A d \in 1..(c - 1) : rows[d].stage # "absent"
          /\ rows' = [Without(RowsOf(req[r].email)) EXCEPT ![c] =
                [NoRow("mail") EXCEPT !.email = req[r].email, !.phone = req[r].phone]]
          /\ req' = [req EXCEPT ![r] = [Idle EXCEPT !.step = "sendMail", !.chal = c]]
    /\ UNCHANGED <<user, trouble>>

SendEmailCode(r) ==
    /\ req[r].step = "sendMail"
    /\ rows' = [rows EXCEPT ![req[r].chal].sent = rows[req[r].chal].stage = "mail"]
    /\ Return(r)
    /\ UNCHANGED <<user, trouble>>

-----------------------------------------------------------------------------
(* The mail code *)

\* Who enters the right code has received it.
VerifyEmailCode(r, c, right) ==
    /\ req[r] = Idle
    /\ rows[c].stage = "mail" /\ ~rows[c].expired
    /\ rows[c].emailCodeAttempts < RegisterMaxAttempts
    /\ right => rows[c].sent
    /\ req' = [req EXCEPT ![r] = [Idle EXCEPT !.chal = c,
                  !.step = IF right THEN "rightMail" ELSE "wrongMail"]]
    /\ UNCHANGED <<user, rows>>

\* Faulty: counts without asking whether the limit is reached.
IncrementEmailAttemptsAlways(r) ==
    LET c == req[r].chal IN
    /\ req[r].step = "wrongMail"
    /\ rows' = IF Exists(c) THEN [rows EXCEPT ![c].emailCodeAttempts = @ + 1] ELSE rows
    /\ Return(r)
    /\ UNCHANGED <<user, trouble>>

IncrementEmailAttempts(r) ==
    LET c == req[r].chal IN
    /\ req[r].step = "wrongMail"
    /\ rows' = IF Exists(c) /\ rows[c].emailCodeAttempts < RegisterMaxAttempts
               THEN [rows EXCEPT ![c].emailCodeAttempts = @ + 1] ELSE rows
    /\ Return(r)
    /\ UNCHANGED <<user, trouble>>

\* The code of a row never changes, and expiry is compared with the time at
\* which the request began, both times.
MarkEmailVerified(r) ==
    LET c == req[r].chal IN
    /\ req[r].step = "rightMail"
    /\ IF rows[c].stage = "mail" /\ rows[c].emailCodeAttempts < RegisterMaxAttempts
       THEN /\ rows' = [rows EXCEPT ![c].stage = "sms", ![c].sent = FALSE,
                                    ![c].expired = FALSE, ![c].smsCodeAttempts = 0]
            /\ Goto(r, "sendSms")
       ELSE Return(r) /\ UNCHANGED rows
    /\ UNCHANGED <<user, trouble>>

SendSmsCode(r) ==
    /\ req[r].step = "sendSms"
    /\ rows' = [rows EXCEPT ![req[r].chal].sent = rows[req[r].chal].stage = "sms"]
    /\ Return(r)
    /\ UNCHANGED <<user, trouble>>

-----------------------------------------------------------------------------
(* The SMS code *)

VerifySmsCode(r, c, right) ==
    /\ req[r] = Idle
    /\ rows[c].stage = "sms" /\ ~rows[c].expired
    /\ rows[c].smsCodeAttempts < RegisterMaxAttempts
    /\ right => rows[c].sent
    /\ req' = [req EXCEPT ![r] =
          IF right THEN [step |-> "rightSms", chal |-> c,
                         email |-> rows[c].email, phone |-> rows[c].phone]
                   ELSE [Idle EXCEPT !.step = "wrongSms", !.chal = c]]
    /\ UNCHANGED <<user, rows>>

IncrementSmsAttempts(r) ==
    LET c == req[r].chal IN
    /\ req[r].step = "wrongSms"
    /\ rows' = IF Exists(c) /\ rows[c].smsCodeAttempts < RegisterMaxAttempts
               THEN [rows EXCEPT ![c].smsCodeAttempts = @ + 1] ELSE rows
    /\ Return(r)
    /\ UNCHANGED <<user, trouble>>

CanConsume(c) == rows[c].stage = "sms" /\ rows[c].smsCodeAttempts < RegisterMaxAttempts

\* Faulty: relies on what was read and does not consume the challenge.
CompleteWithoutConsuming(r) ==
    LET e == req[r].email
        p == req[r].phone IN
    /\ req[r].step = "rightSms"
    /\ IF user[e] = Unset /\ ~Taken(p)
       THEN /\ user' = [user EXCEPT ![e] = p]
            /\ rows' = Without(RowsOf(e))
       ELSE UNCHANGED <<user, rows>>
    /\ Return(r)
    /\ UNCHANGED trouble

\* The challenge, the User row with its unique columns, the default tenant with
\* its owner, and the end of the address's challenges: all or nothing.  On
\* REGISTRATION_CONFLICT the challenge stays as it was.
CompleteRegistration(r) ==
    LET e == req[r].email
        p == req[r].phone IN
    /\ req[r].step = "rightSms"
    /\ IF CanConsume(req[r].chal) /\ user[e] = Unset /\ ~Taken(p)
       THEN /\ user' = [user EXCEPT ![e] = p]
            /\ rows' = Without(RowsOf(e))
       ELSE UNCHANGED <<user, rows>>
    /\ Return(r)
    /\ UNCHANGED trouble

-----------------------------------------------------------------------------
(* Around the requests *)

\* A request stops: the process dies, or the outbox cannot take the message
\* (SMS_DELIVERY_FAILED).
Fail(r) ==
    /\ req[r] # Idle
    /\ Return(r)
    /\ Trouble
    /\ UNCHANGED <<user, rows>>

Expire(c) ==
    /\ Exists(c) /\ ~rows[c].expired
    /\ rows' = [rows EXCEPT ![c].expired = TRUE]
    /\ Trouble
    /\ UNCHANGED <<user, req>>

\* An hour after the mail code expired, when the SMS code has as well.
CleanUp(c) ==
    /\ Exists(c) /\ rows[c].expired
    /\ rows' = Without({c})
    /\ Trouble
    /\ UNCHANGED <<user, req>>

SoftDeleteUser(e) ==
    /\ user[e] # Unset
    /\ user' = [user EXCEPT ![e] = Unset]
    /\ Trouble
    /\ UNCHANGED <<rows, req>>

ChangePhone(e, p) ==
    /\ user[e] # Unset /\ ~Taken(p)
    /\ user' = [user EXCEPT ![e] = p]
    /\ Trouble
    /\ UNCHANGED <<rows, req>>

-----------------------------------------------------------------------------
Step(r) ==
    \/ FindActiveUserIdByEmail(r)
    \/ FindActiveUserIdByPhone(r)
    \/ ReplaceRegistrationChallenge(r)
    \/ SendEmailCode(r)
    \/ IncrementEmailAttempts(r)
    \/ MarkEmailVerified(r)
    \/ SendSmsCode(r)
    \/ IncrementSmsAttempts(r)
    \/ CompleteRegistration(r)

\* The owner of an address waits for an answer before the next request.
Waiting(e) == \E r \in Requests :
    \/ req[r].email = e
    \/ req[r].chal \in RowsOf(e)

Stuck(c) ==
    \/ rows[c].expired \/ ~rows[c].sent
    \/ rows[c].stage = "mail" /\ rows[c].emailCodeAttempts = RegisterMaxAttempts
    \/ rows[c].stage = "sms" /\ rows[c].smsCodeAttempts = RegisterMaxAttempts

\* What the owner does, by fairness: starts, enters the codes, and starts over
\* when that leads nowhere.
OwnerActs(e) ==
    /\ user[e] = Unset /\ ~Waiting(e)
    /\ UNCHANGED trouble
    /\ \E r \in Requests :
        \/ (\A c \in RowsOf(e) : rows[c].phone # Wants[e]) /\ StartRegister(r, e, Wants[e])
        \/ \E c \in RowsOf(e) :
            /\ rows[c].phone = Wants[e]
            /\ \/ Stuck(c) /\ RestartRegister(r, c)
               \/ VerifyEmailCode(r, c, TRUE)
               \/ VerifySmsCode(r, c, TRUE)

\* What anyone may do at any time.
AnyoneActs(r) ==
    /\ Trouble
    /\ \/ \E e \in Emails, p \in Phones : StartRegister(r, e, p)
       \/ \E c \in Challenges :
           \/ RestartRegister(r, c)
           \/ \E right \in BOOLEAN : VerifyEmailCode(r, c, right) \/ VerifySmsCode(r, c, right)

RegistrationNext ==
    \/ \E r \in Requests : Step(r) \/ AnyoneActs(r) \/ Fail(r)
    \/ \E e \in Emails : OwnerActs(e) \/ SoftDeleteUser(e) \/ \E p \in Phones : ChangePhone(e, p)
    \/ \E c \in Challenges : Expire(c) \/ CleanUp(c)

\* A request that does not fail goes on; owners are persistent.
RegistrationSpec ==
    /\ RegistrationInit /\ [][RegistrationNext]_registrationVars
    /\ \A r \in Requests : WF_registrationVars(Step(r))
    /\ \A e \in Emails : WF_registrationVars(OwnerActs(e))

-----------------------------------------------------------------------------
(* Properties *)

RegistrationTypeOK ==
    /\ user \in [Emails -> Phones \cup {Unset}]
    /\ rows \in [Challenges -> [stage : Stages, email : Emails \cup {Unset},
          phone : Phones \cup {Unset}, expired : BOOLEAN, sent : BOOLEAN,
          emailCodeAttempts : 0..RegisterMaxAttempts, smsCodeAttempts : 0..RegisterMaxAttempts]]
    /\ req \in [Requests -> [step : Steps, email : Emails \cup {Unset},
          phone : Phones \cup {Unset}, chal : 0..MaxChallenges]]
    /\ trouble \in 0..MaxTrouble

Grant == INSTANCE RegistrationGrant WITH
    None <- Unset,
    state <- [c \in Challenges |->
        CASE rows[c].stage = "mail" -> "asked"
          [] rows[c].stage = "sms"  -> "mailProved"
          [] OTHER                  -> rows[c].stage],
    claim <- [c \in Challenges |->
        IF Exists(c) THEN <<rows[c].email, rows[c].phone>> ELSE Unset]

\* Statement by statement and with failures the registration keeps what
\* RegistrationGrant promises: only the newest application of an address opens
\* its account, once, with both codes and the number it was made with, and
\* addresses and numbers stay unique whatever a request has read before.
RegistersAsPromised == Grant!Spec

\* Nothing strands a persistent owner for good: neither a mail or SMS that could
\* not be sent after its code was stored, nor lost requests, wrong codes,
\* expiry or the restarts of others.  The owner gets the account, or the number
\* turns out to be another one's (restartRegisterVerificationChallenge).
EveryoneRegisters == \A e \in Emails : <>(user[e] # Unset \/ Taken(Wants[e]))
=================================================================================
