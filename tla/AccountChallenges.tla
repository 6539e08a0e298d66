--------------------------- MODULE AccountChallenges ---------------------------
(***************************************************************************)
(* Password reset, account deletion and change of the phone number.  All   *)
(* three ask for a code sent by mail, then for one sent by SMS, hand out a *)
(* token, and do their work in a transaction that consumes the token.      *)
(* Their rows are in three tables; what a row is for is its kind.  The     *)
(* statements on these tables are the same but for the table's name.       *)
(*                                                                         *)
(* Requests are sequences of separate statements, as in LoginChallenge.    *)
(* The session that deletion and phone change require is checked before    *)
(* the first of these statements and can be stale by then: nothing here    *)
(* relies on it.  SMS is taken as enabled: without it deletion and phone   *)
(* change do not start, and a reset stops at the mail code.                *)
(*                                                                         *)
(* The three transactions are single steps.  Each of them first locks the  *)
(* challenge, and each update of a unique User column blocks the insertion *)
(* of further challenges of that user until it commits.  Two that need     *)
(* each other's locks are a deadlock, of which the database aborts one:    *)
(* this is a Fail.                                                         *)
(***************************************************************************)
EXTENDS Naturals, FiniteSets

CONSTANTS
    Users,
    Phones,
    Challenges,             \* ids of rows of the three tables; one is used once
    Requests,               \* request slots: how many requests run at a time
    None,                   \* no user, phone, challenge, kind or request
    FirstPhone,             \* the phone number each user begins with
    MaxAttempts             \* *_MAX_ATTEMPTS, the same for all three

ASSUME AccountAssumption ==
    /\ None \notin Users \cup Phones \cup Challenges \cup Requests
                   \cup {"reset", "delete", "contact"}
    /\ FirstPhone \in [Users -> Phones \cup {None}]
    /\ \A u, v \in Users : FirstPhone[u] = FirstPhone[v] /\ u # v => FirstPhone[u] = None
    /\ IsFiniteSet(Requests)
    /\ IsFiniteSet(Challenges)
    /\ MaxAttempts \in Nat \ {0}

VARIABLES
    phone, deleted,         \* the table User
    rows,                   \* the three tables of challenges
    pc, who, kind, chal,    \* the requests: control point, user and kind of a start, row in hand
    number,                 \* the phone number in hand: to change to, or to send a code to
    uses                    \* an observer's count: how often a challenge did its work

users    == <<phone, deleted>>
requests == <<pc, who, kind, chal, number>>
vars     == <<users, rows, requests, uses>>

Kinds  == {"reset", "delete", "contact"}
Points == {"idle", "checkPhone", "delete", "create", "wrongMail", "rightMail",
           "wrongSms", "rightSms", "complete"}

\* mail: emailCodeVerifiedAt is null; sms: smsCodeVerifiedAt is null; token:
\* the token is stored; used: it has been used.
Stages == {"absent", "mail", "sms", "token", "used", "gone"}

\* expired: the deadline of the stage has passed.  A request compares it with
\* the time at which it started, in the read and again in the update.
\* Not columns: sentTo, the number the SMS code goes to, and how many wrong
\* codes of each sort the server has answered.
Row == [stage : Stages, kind : Kinds \cup {None}, owner : Users \cup {None},
        nextPhone : Phones \cup {None}, emailCodeAttempts : 0..MaxAttempts,
        smsCodeAttempts : 0..MaxAttempts, expired : BOOLEAN,
        sentTo : Phones \cup {None}, wrongMails : Nat, wrongSms : Nat]

NoRow(stage) == [stage |-> stage, kind |-> None, owner |-> None, nextPhone |-> None,
                 emailCodeAttempts |-> 0, smsCodeAttempts |-> 0, expired |-> FALSE,
                 sentTo |-> None, wrongMails |-> 0, wrongSms |-> 0]

Exists(c) == rows[c].stage \notin {"absent", "gone"}
IsPending(c) == rows[c].stage \in {"mail", "sms", "token"}
RowsOf(u) == {c \in Challenges : Exists(c) /\ rows[c].owner = u}
Active(u) == ~deleted[u]
Taken(p, u) == \E v \in Users \ {u} : phone[v] = p

Without(S) == [c \in Challenges |-> IF c \in S THEN NoRow("gone") ELSE rows[c]]

Init ==
    /\ phone = FirstPhone
    /\ deleted = [u \in Users |-> FALSE]
    /\ rows = [c \in Challenges |-> NoRow("absent")]
    /\ pc = [r \in Requests |-> "idle"]
    /\ who = [r \in Requests |-> None]
    /\ kind = [r \in Requests |-> None]
    /\ chal = [r \in Requests |-> None]
    /\ number = [r \in Requests |-> None]
    /\ uses = [c \in Challenges |-> 0]

Goto(r, p) == pc' = [pc EXCEPT ![r] = p]

Return(r) ==
    /\ Goto(r, "idle")
    /\ who' = [who EXCEPT ![r] = None]
    /\ kind' = [kind EXCEPT ![r] = None]
    /\ chal' = [chal EXCEPT ![r] = None]
    /\ number' = [number EXCEPT ![r] = None]

(***************************************************************************)
(* Start.  Requests that are refused change nothing and are left out.      *)
(***************************************************************************)
Begin(r, u, k, p, next) ==
    /\ pc[r] = "idle"
    /\ Active(u)
    /\ Goto(r, next)
    /\ who' = [who EXCEPT ![r] = u]
    /\ kind' = [kind EXCEPT ![r] = k]
    /\ number' = [number EXCEPT ![r] = p]
    /\ UNCHANGED <<users, rows, chal, uses>>

\* The phone number is not looked at yet.
StartPasswordReset(r, u) == Begin(r, u, "reset", None, "delete")

StartAccountDelete(r, u) == phone[u] # None /\ Begin(r, u, "delete", None, "delete")

StartContactChange(r, u, p) == phone[u] # p /\ Begin(r, u, "contact", p, "checkPhone")

\* findActiveUserByPhoneExcludingUser; deleted users have no phone number.
CheckPhoneFree(r) ==
    /\ pc[r] = "checkPhone"
    /\ IF Taken(number[r], who[r])
       THEN Return(r)
       ELSE Goto(r, "delete") /\ UNCHANGED <<who, kind, chal, number>>
    /\ UNCHANGED <<users, rows, uses>>

\* deleteMany of the user's challenges of this kind.
DeleteChallenges(r) ==
    /\ pc[r] = "delete"
    /\ rows' = Without({c \in RowsOf(who[r]) : rows[c].kind = kind[r]})
    /\ Goto(r, "create")
    /\ UNCHANGED <<users, who, kind, chal, number, uses>>

\* The mail with the code is enqueued after this.
CreateChallenge(r) ==
    /\ pc[r] = "create"
    /\ \E c \in Challenges :
        /\ rows[c].stage = "absent"
        /\ rows' = [rows EXCEPT ![c] =
                [NoRow("mail") EXCEPT !.kind = kind[r], !.owner = who[r],
                                      !.nextPhone = number[r]]]
    /\ Return(r)
    /\ UNCHANGED <<users, uses>>

(***************************************************************************)
(* The code sent by mail                                                   *)
(***************************************************************************)
\* Faulty: a missing phone number is not noticed.
VerifyEmailCodeUnaddressed(r, c) ==
    /\ pc[r] = "idle"
    /\ rows[c].stage = "mail"
    /\ ~rows[c].expired
    /\ rows[c].emailCodeAttempts < MaxAttempts
    /\ Goto(r, "wrongMail") \/ Goto(r, "rightMail")
    /\ number' = [number EXCEPT ![r] = phone[rows[c].owner]]
    /\ chal' = [chal EXCEPT ![r] = c]
    /\ UNCHANGED <<users, rows, who, kind, uses>>

\* The row is read together with its user's phone number, and the code is
\* compared.  Without a phone number the right code leads nowhere.
VerifyEmailCode(r, c) ==
    /\ pc[r] = "idle"
    /\ rows[c].stage = "mail"
    /\ ~rows[c].expired
    /\ rows[c].emailCodeAttempts < MaxAttempts
    /\ \/ Goto(r, "wrongMail") /\ UNCHANGED number
       \/ /\ phone[rows[c].owner] # None
          /\ Goto(r, "rightMail")
          /\ number' = [number EXCEPT ![r] = phone[rows[c].owner]]
    /\ chal' = [chal EXCEPT ![r] = c]
    /\ UNCHANGED <<users, rows, who, kind, uses>>

VerifyPasswordResetEmailCode(r, c) == rows[c].kind = "reset" /\ VerifyEmailCode(r, c)
VerifyAccountDeleteEmailCode(r, c) == rows[c].kind = "delete" /\ VerifyEmailCode(r, c)
VerifyContactChangeEmailCode(r, c) == rows[c].kind = "contact" /\ VerifyEmailCode(r, c)

\* Conditional on the counter alone: a late answer is counted on a row whose
\* mail code was accepted meanwhile.
IncrementEmailAttempts(r) ==
    LET c == chal[r] IN
    /\ pc[r] = "wrongMail"
    /\ IF Exists(c)
       THEN rows' = [rows EXCEPT ![c].emailCodeAttempts = IF @ < MaxAttempts THEN @ + 1 ELSE @,
                                 ![c].wrongMails = @ + 1]
       ELSE UNCHANGED rows
    /\ Return(r)
    /\ UNCHANGED <<users, uses>>

\* The SMS code is stored with a deadline of its own; it goes to the number
\* that was read with the row, after this statement.
MarkEmailVerified(r) ==
    LET c == chal[r] IN
    /\ pc[r] = "rightMail"
    /\ IF rows[c].stage = "mail" /\ rows[c].emailCodeAttempts < MaxAttempts
       THEN rows' = [rows EXCEPT ![c].stage = "sms", ![c].smsCodeAttempts = 0,
                                 ![c].expired = FALSE, ![c].sentTo = number[r]]
       ELSE UNCHANGED rows
    /\ Return(r)
    /\ UNCHANGED <<users, uses>>

(***************************************************************************)
(* The code sent by SMS                                                    *)
(***************************************************************************)
\* Faulty: the counter is not looked at before the comparison.
VerifySmsCodeUncounted(r, c) ==
    /\ pc[r] = "idle"
    /\ rows[c].stage = "sms"
    /\ ~rows[c].expired
    /\ Goto(r, "rightSms") \/ Goto(r, "wrongSms")
    /\ chal' = [chal EXCEPT ![r] = c]
    /\ UNCHANGED <<users, rows, who, kind, number, uses>>

VerifySmsCode(r, c) ==
    /\ pc[r] = "idle"
    /\ rows[c].stage = "sms"
    /\ ~rows[c].expired
    /\ rows[c].smsCodeAttempts < MaxAttempts
    /\ Goto(r, "rightSms") \/ Goto(r, "wrongSms")
    /\ chal' = [chal EXCEPT ![r] = c]
    /\ UNCHANGED <<users, rows, who, kind, number, uses>>

VerifyPasswordResetSmsCode(r, c) == rows[c].kind = "reset" /\ VerifySmsCode(r, c)
VerifyAccountDeleteSmsCode(r, c) == rows[c].kind = "delete" /\ VerifySmsCode(r, c)
VerifyContactChangeSmsCode(r, c) == rows[c].kind = "contact" /\ VerifySmsCode(r, c)

\* Faulty: an unconditional increment.
IncrementSmsAttemptsAlways(r) ==
    LET c == chal[r] IN
    /\ pc[r] = "wrongSms"
    /\ IF Exists(c)
       THEN rows' = [rows EXCEPT ![c].smsCodeAttempts = @ + 1, ![c].wrongSms = @ + 1]
       ELSE UNCHANGED rows
    /\ Return(r)
    /\ UNCHANGED <<users, uses>>

IncrementSmsAttempts(r) ==
    LET c == chal[r] IN
    /\ pc[r] = "wrongSms"
    /\ IF Exists(c)
       THEN rows' = [rows EXCEPT ![c].smsCodeAttempts = IF @ < MaxAttempts THEN @ + 1 ELSE @,
                                 ![c].wrongSms = @ + 1]
       ELSE UNCHANGED rows
    /\ Return(r)
    /\ UNCHANGED <<users, uses>>

MarkSmsVerified(r) ==
    LET c == chal[r] IN
    /\ pc[r] = "rightSms"
    /\ IF rows[c].stage = "sms" /\ rows[c].smsCodeAttempts < MaxAttempts
       THEN rows' = [rows EXCEPT ![c].stage = "token", ![c].expired = FALSE]
       ELSE UNCHANGED rows
    /\ Return(r)
    /\ UNCHANGED <<users, uses>>

(***************************************************************************)
(* Completion                                                              *)
(***************************************************************************)
\* The row is read and the token compared.
FindToken(r, c) ==
    /\ pc[r] = "idle"
    /\ rows[c].stage = "token"
    /\ ~rows[c].expired
    /\ Goto(r, "complete")
    /\ chal' = [chal EXCEPT ![r] = c]
    /\ UNCHANGED <<users, rows, who, kind, number, uses>>

FindPasswordResetToken(r, c) == rows[c].kind = "reset" /\ FindToken(r, c)
FindAccountDeleteToken(r, c) == rows[c].kind = "delete" /\ FindToken(r, c)
FindContactChangeToken(r, c) == rows[c].kind = "contact" /\ FindToken(r, c)

\* The transaction of kind k consumes the token.
Consume(r, k) ==
    /\ pc[r] = "complete"
    /\ rows[chal[r]].stage = "token"
    /\ rows[chal[r]].kind = k
    /\ uses' = [uses EXCEPT ![chal[r]] = @ + 1]
    /\ Return(r)

\* Faulty: the other reset challenges stay open.
CompletePasswordResetAlone(r) ==
    /\ Consume(r, "reset")
    /\ Active(rows[chal[r]].owner)
    /\ rows' = [rows EXCEPT ![chal[r]].stage = "used"]
    /\ UNCHANGED users

\* completePasswordResetAndCleanup.  Password and tokenVersion, which
\* AccountSessions has, change here.
CompletePasswordReset(r) ==
    LET c == chal[r]
        u == rows[c].owner
        others == {d \in RowsOf(u) \ {c} : rows[d].kind = "reset"} IN
    /\ Consume(r, "reset")
    /\ Active(u)
    /\ rows' = [Without(others) EXCEPT ![c].stage = "used"]
    /\ UNCHANGED users

\* completeAccountDeleteAndCleanup
CompleteAccountDelete(r) ==
    LET u == rows[chal[r]].owner IN
    /\ Consume(r, "delete")
    /\ Active(u)
    /\ deleted' = [deleted EXCEPT ![u] = TRUE]
    /\ phone' = [phone EXCEPT ![u] = None]
    /\ rows' = Without(RowsOf(u))

\* Faulty: challenges of the other kinds stay open.
CompleteContactChangeKeeping(r) ==
    LET c == chal[r]
        u == rows[c].owner IN
    /\ Consume(r, "contact")
    /\ ~Taken(rows[c].nextPhone, u)
    /\ phone' = [phone EXCEPT ![u] = rows[c].nextPhone]
    /\ rows' = Without({d \in RowsOf(u) : rows[d].kind = "contact"})
    /\ UNCHANGED deleted

\* Faulty: relies on the look at the number when the change was started.
CompleteContactChangeTrusting(r) ==
    LET c == chal[r]
        u == rows[c].owner IN
    /\ Consume(r, "contact")
    /\ phone' = [phone EXCEPT ![u] = rows[c].nextPhone]
    /\ rows' = Without(RowsOf(u))
    /\ UNCHANGED deleted

\* completeAccountContactChange: the number may have been taken meanwhile, and
\* the user is not asked to be active.
CompleteContactChange(r) ==
    LET c == chal[r]
        u == rows[c].owner IN
    /\ Consume(r, "contact")
    /\ ~Taken(rows[c].nextPhone, u)
    /\ phone' = [phone EXCEPT ![u] = rows[c].nextPhone]
    /\ rows' = Without(RowsOf(u))
    /\ UNCHANGED deleted

\* A request dies, or one of its statements throws, between two steps.  A
\* transaction that finds the token used, the user deleted or the number taken
\* is rolled back.
Fail(r) ==
    /\ pc[r] # "idle"
    /\ Return(r)
    /\ UNCHANGED <<users, rows, uses>>

(***************************************************************************)
(* Time                                                                    *)
(***************************************************************************)
Expire(c) ==
    /\ IsPending(c)
    /\ ~rows[c].expired
    /\ rows' = [rows EXCEPT ![c].expired = TRUE]
    /\ UNCHANGED <<users, requests, uses>>

\* The nightly clean-up: emailCodeExpiresAt is more than an hour ago.  All that
\* can be pending by then is the token of a reset, whose life is configured.
CleanUp(c) ==
    /\ Exists(c)
    /\ \/ rows[c].expired
       \/ rows[c].stage = "used"
       \/ rows[c].stage = "token" /\ rows[c].kind = "reset"
    /\ rows' = Without({c})
    /\ UNCHANGED <<users, requests, uses>>

RequestStep(r) ==
    \/ \E u \in Users :
        \/ StartPasswordReset(r, u)
        \/ StartAccountDelete(r, u)
        \/ \E p \in Phones : StartContactChange(r, u, p)
    \/ CheckPhoneFree(r)
    \/ DeleteChallenges(r)
    \/ CreateChallenge(r)
    \/ \E c \in Challenges :
        \/ VerifyPasswordResetEmailCode(r, c)
        \/ VerifyAccountDeleteEmailCode(r, c)
        \/ VerifyContactChangeEmailCode(r, c)
        \/ VerifyPasswordResetSmsCode(r, c)
        \/ VerifyAccountDeleteSmsCode(r, c)
        \/ VerifyContactChangeSmsCode(r, c)
        \/ FindPasswordResetToken(r, c)
        \/ FindAccountDeleteToken(r, c)
        \/ FindContactChangeToken(r, c)
    \/ IncrementEmailAttempts(r)
    \/ MarkEmailVerified(r)
    \/ IncrementSmsAttempts(r)
    \/ MarkSmsVerified(r)
    \/ CompletePasswordReset(r)
    \/ CompleteAccountDelete(r)
    \/ CompleteContactChange(r)
    \/ Fail(r)

Next ==
    \/ \E r \in Requests : RequestStep(r)
    \/ \E c \in Challenges : Expire(c) \/ CleanUp(c)

Spec == Init /\ [][Next]_vars
-------------------------------------------------------------------------------
(***************************************************************************)
(* Properties                                                              *)
(***************************************************************************)
TypeOK ==
    /\ phone \in [Users -> Phones \cup {None}]
    /\ deleted \in [Users -> BOOLEAN]
    /\ rows \in [Challenges -> Row]
    /\ \A c \in Challenges : Exists(c) => rows[c].owner \in Users /\ rows[c].kind \in Kinds
    /\ pc \in [Requests -> Points]
    /\ who \in [Requests -> Users \cup {None}]
    /\ kind \in [Requests -> Kinds \cup {None}]
    /\ chal \in [Requests -> Challenges \cup {None}]
    /\ number \in [Requests -> Phones \cup {None}]
    /\ uses \in [Challenges -> Nat]

\* Whoever is about to finish has, or needs, the code sent to the number the
\* account has now: a number that was given up since then approves nothing,
\* also when it was read before and used after the change.
PhoneProved ==
    \A c \in Challenges :
        rows[c].stage \in {"sms", "token"} =>
            rows[c].sentTo # None /\ rows[c].sentTo = phone[rows[c].owner]

\* A deleted account does not get a phone number again, although a change that
\* was under way may leave a challenge behind and its transaction does not ask
\* whether the user is active.
DeletedStaysBare == \A u \in Users : deleted[u] => phone[u] = None

\* Two users who change to the same number at the same time do not both get it,
\* although each of them has looked whether it is free.
PhonesUnique == \A u, v \in Users : phone[u] = phone[v] /\ u # v => phone[u] = None

\* Wrong codes of either kind exceed the limit by less than the number of
\* requests that run at a time.
WrongCodesBounded ==
    \A c \in Challenges :
        /\ rows[c].wrongMails < MaxAttempts + Cardinality(Requests)
        /\ rows[c].wrongSms < MaxAttempts + Cardinality(Requests)

\* "new phone SMS code": a number is stored only after a code was sent to it.
NewPhoneProved ==
    [][\A u \in Users :
          phone'[u] \notin {phone[u], None} =>
              \E c \in RowsOf(u) : rows[c].stage = "token" /\ rows[c].sentTo = phone'[u]]_vars

(***************************************************************************)
(* Refinement of ApprovalGrant                                             *)
(***************************************************************************)
ApprovalState(c) ==
    CASE rows[c].stage = "absent" -> "absent"
      [] rows[c].stage = "mail"   -> "asked"
      [] rows[c].stage = "sms"    -> "mailProved"
      [] rows[c].stage = "token"  -> "bothProved"
      [] rows[c].stage = "used"   -> "spent"
      [] rows[c].stage = "gone"   -> IF uses[c] = 0 THEN "withdrawn" ELSE "spent"

Approval == INSTANCE ApprovalGrant WITH
    Nobody  <- None,
    state   <- [c \in Challenges |-> ApprovalState(c)],
    subject <- [c \in Challenges |->
                    IF IsPending(c) THEN <<rows[c].owner, rows[c].kind>> ELSE None]

\* Requests, stale reads and failures included: both codes before the work, the
\* work once, and nothing pending that the work made obsolete.
ApprovesAsPromised == Approval!Spec
===============================================================================
