---------------------------- MODULE LoginChallenge ----------------------------
(***************************************************************************)
(* Login in three requests: a password starts a challenge, a one-time code *)
(* verifies it and yields a login token, the token is consumed for a       *)
(* session.  Requests of the same user run concurrently; each one is a     *)
(* sequence of separate database statements, and acts between them on what *)
(* it read before.                                                         *)
(*                                                                         *)
(* Expiry is a step of its own (ExpireCode, ExpireToken, UnlockAccount).   *)
(* The code compares a row's expiry with the time at which the request     *)
(* started, in the read and again in the conditional update, and no        *)
(* statement moves an expiry: the update's test repeats the read's answer. *)
(***************************************************************************)
EXTENDS Naturals, FiniteSets

CONSTANTS
    Users,
    Challenges,             \* ids of rows of LoginChallenge; one is used once
    Requests,               \* request slots: how many requests run at a time
    None,                   \* no user, no challenge, no mode, no request
    SmsEnabled,             \* UPPOINT_SMS_ENABLED: is there a phone login
    MaxAttempts,            \* LOGIN_MAX_ATTEMPTS
    MaxPasswordAttempts     \* LOGIN_PASSWORD_MAX_ATTEMPTS

ASSUME LoginAssumption ==
    /\ None \notin Users \cup Challenges \cup Requests \cup {"email", "phone"}
    /\ SmsEnabled \in BOOLEAN
    /\ IsFiniteSet(Requests)
    /\ IsFiniteSet(Challenges)
    /\ {MaxAttempts, MaxPasswordAttempts} \subseteq Nat \ {0}

VARIABLES
    \* the table User: failedLoginAttempts, lockedUntil > now, deletedAt # null
    failedLogins, locked, deleted,
    \* the table LoginChallenge
    rows,
    \* the requests: control point, user and mode of a start, row in hand
    pc, who, mode, chal,
    \* what an observer counts: wrong codes and wrong passwords the server
    \* answered, logins granted, challenges that must not grant one any more
    wrongCodes, wrongPasswords, grants, void

users    == <<failedLogins, locked, deleted>>
requests == <<pc, who, mode, chal>>
seen     == <<wrongCodes, wrongPasswords, grants, void>>
vars     == <<users, rows, requests, seen>>

Modes  == {"email", "phone"}
Points == {"idle", "wrongPassword", "clear", "delete", "create",
           "wrongCode", "rightCode", "consume"}

\* absent: not inserted yet; pending: verifiedAt is null; verified: the login
\* token is stored; used: loginTokenUsedAt is set; gone: the row is deleted.
Stages == {"absent", "pending", "verified", "used", "gone"}
\* codeExpiresAt always comes before loginTokenExpiresAt.
Expiries == {"fresh", "codeExpired", "tokenExpired"}

\* by is not a column: the request slot that inserted the row.
Row == [stage : Stages, owner : Users \cup {None}, mode : Modes \cup {None},
        codeAttempts : 0..MaxAttempts, expiry : Expiries, by : Requests \cup {None}]

NoRow(stage) == [stage |-> stage, owner |-> None, mode |-> None,
                 codeAttempts |-> 0, expiry |-> "fresh", by |-> None]

Exists(c)  == rows[c].stage \notin {"absent", "gone"}
RowsOf(u)  == {c \in Challenges : Exists(c) /\ rows[c].owner = u}
\* Faulty: the filter deletedAt = null is missing.
ActiveAlways(u) == TRUE
Active(u)  == ~deleted[u]

\* deleteMany: rows of S are gone.
Without(S) == [c \in Challenges |-> IF c \in S THEN NoRow("gone") ELSE rows[c]]

Init ==
    /\ failedLogins = [u \in Users |-> 0]
    /\ locked = [u \in Users |-> FALSE]
    /\ deleted = [u \in Users |-> FALSE]
    /\ rows = [c \in Challenges |-> NoRow("absent")]
    /\ pc = [r \in Requests |-> "idle"]
    /\ who = [r \in Requests |-> None]
    /\ mode = [r \in Requests |-> None]
    /\ chal = [r \in Requests |-> None]
    /\ wrongCodes = [c \in Challenges |-> 0]
    /\ wrongPasswords = [u \in Users |-> 0]
    /\ grants = [c \in Challenges |-> 0]
    /\ void = {}

Goto(r, p) == pc' = [pc EXCEPT ![r] = p]

\* The request returns or throws.
Return(r) ==
    /\ Goto(r, "idle")
    /\ who' = [who EXCEPT ![r] = None]
    /\ mode' = [mode EXCEPT ![r] = None]
    /\ chal' = [chal EXCEPT ![r] = None]

(***************************************************************************)
(* startEmailLoginChallenge, startPhoneLoginChallenge                      *)
(***************************************************************************)
\* The user is read and the password compared with the hash that was read.
\* Requests that are refused here change nothing and are left out.
CheckPassword(r, u, m) ==
    /\ pc[r] = "idle"
    /\ Active(u)
    /\ ~locked[u]
    /\ Goto(r, "clear") \/ Goto(r, "wrongPassword")
    /\ who' = [who EXCEPT ![r] = u]
    /\ mode' = [mode EXCEPT ![r] = m]
    /\ UNCHANGED <<users, rows, chal, seen>>

StartEmailLogin(r, u) == CheckPassword(r, u, "email")
StartPhoneLogin(r, u) == SmsEnabled /\ CheckPassword(r, u, "phone")

\* Faulty: locks one attempt late.
RegisterFailedPasswordLate(r) ==
    LET u == who[r]
        reached == failedLogins[u] + 1 > MaxPasswordAttempts IN
    /\ pc[r] = "wrongPassword"
    /\ IF Active(u)
       THEN /\ failedLogins' = [failedLogins EXCEPT
                    ![u] = IF reached THEN MaxPasswordAttempts ELSE @ + 1]
            /\ locked' = [locked EXCEPT ![u] = @ \/ reached]
            /\ UNCHANGED deleted
       ELSE UNCHANGED users
    /\ wrongPasswords' = [wrongPasswords EXCEPT ![u] = @ + 1]
    /\ Return(r)
    /\ UNCHANGED <<rows, wrongCodes, grants, void>>

\* registerFailedPasswordAttemptAtomic.  The column keeps counting; from
\* MaxPasswordAttempts on the count makes no difference and is kept there.
RegisterFailedPassword(r) ==
    LET u == who[r]
        reached == failedLogins[u] + 1 >= MaxPasswordAttempts IN
    /\ pc[r] = "wrongPassword"
    /\ IF Active(u)
       THEN /\ failedLogins' = [failedLogins EXCEPT
                    ![u] = IF reached THEN MaxPasswordAttempts ELSE @ + 1]
            /\ locked' = [locked EXCEPT ![u] = @ \/ reached]
            /\ UNCHANGED deleted
       ELSE UNCHANGED users
    /\ wrongPasswords' = [wrongPasswords EXCEPT ![u] = @ + 1]
    /\ Return(r)
    /\ UNCHANGED <<rows, wrongCodes, grants, void>>

\* failedLoginAttempts and lockedUntil are reset; the observer starts again.
ResetFailures(u) ==
    /\ failedLogins' = [failedLogins EXCEPT ![u] = 0]
    /\ locked' = [locked EXCEPT ![u] = FALSE]
    /\ wrongPasswords' = [wrongPasswords EXCEPT ![u] = 0]
    /\ UNCHANGED deleted

\* clearFailedLoginAttempts
ClearFailedPasswords(r) ==
    /\ pc[r] = "clear"
    /\ IF Active(who[r]) THEN ResetFailures(who[r]) ELSE UNCHANGED <<users, wrongPasswords>>
    /\ Goto(r, "delete")
    /\ UNCHANGED <<rows, who, mode, chal, wrongCodes, grants, void>>

\* Faulty: earlier challenges are kept.
DeleteNothing(r) ==
    /\ pc[r] = "delete"
    /\ Goto(r, "create")
    /\ UNCHANGED <<users, rows, who, mode, chal, seen>>

\* deleteLoginChallengesForUserAndMode
DeleteChallenges(r) ==
    LET S == {c \in RowsOf(who[r]) : rows[c].mode = mode[r]} IN
    /\ pc[r] = "delete"
    /\ rows' = Without(S)
    /\ void' = void \cup S
    /\ Goto(r, "create")
    /\ UNCHANGED <<users, who, mode, chal, wrongCodes, wrongPasswords, grants>>

\* createLoginChallenge; the user may be gone by now.  The message with the
\* code is enqueued after this and changes no row of this table.
CreateChallenge(r) ==
    /\ pc[r] = "create"
    /\ \E c \in Challenges :
        /\ rows[c].stage = "absent"
        /\ rows' = [rows EXCEPT ![c] =
                [stage |-> "pending", owner |-> who[r], mode |-> mode[r],
                 codeAttempts |-> 0, expiry |-> "fresh", by |-> r]]
    /\ Return(r)
    /\ UNCHANGED <<users, seen>>

(***************************************************************************)
(* verifyLoginChallengeCode                                                *)
(***************************************************************************)
\* Faulty: the counter is not looked at before the comparison.
VerifyCodeUncounted(r, c) ==
    /\ pc[r] = "idle"
    /\ rows[c].stage = "pending"
    /\ rows[c].expiry = "fresh"
    /\ Goto(r, "rightCode") \/ Goto(r, "wrongCode")
    /\ chal' = [chal EXCEPT ![r] = c]
    /\ UNCHANGED <<users, rows, who, mode, seen>>

\* The row is read, then the code is compared: a right or a wrong answer.
VerifyCode(r, c) ==
    /\ pc[r] = "idle"
    /\ rows[c].stage = "pending"
    /\ rows[c].expiry = "fresh"
    /\ rows[c].codeAttempts < MaxAttempts
    /\ Goto(r, "rightCode") \/ Goto(r, "wrongCode")
    /\ chal' = [chal EXCEPT ![r] = c]
    /\ UNCHANGED <<users, rows, who, mode, seen>>

\* Faulty: an unconditional increment.
IncrementAttemptsAlways(r) ==
    LET c == chal[r] IN
    /\ pc[r] = "wrongCode"
    /\ IF Exists(c)
       THEN rows' = [rows EXCEPT ![c].codeAttempts = @ + 1]
       ELSE UNCHANGED rows
    /\ wrongCodes' = [wrongCodes EXCEPT ![c] = @ + 1]
    /\ Return(r)
    /\ UNCHANGED <<users, wrongPasswords, grants, void>>

\* incrementLoginChallengeAttempts: conditional on codeAttempts only, so a
\* late answer may still be counted on a challenge verified meanwhile.
IncrementAttempts(r) ==
    LET c == chal[r] IN
    /\ pc[r] = "wrongCode"
    /\ IF Exists(c) /\ rows[c].codeAttempts < MaxAttempts
       THEN rows' = [rows EXCEPT ![c].codeAttempts = @ + 1]
       ELSE UNCHANGED rows
    /\ wrongCodes' = [wrongCodes EXCEPT ![c] = @ + 1]
    /\ Return(r)
    /\ UNCHANGED <<users, wrongPasswords, grants, void>>

\* Faulty: without verifiedAt = null, a used challenge gets a new token.
CanMarkAgain(c) == Exists(c) /\ rows[c].codeAttempts < MaxAttempts

\* The WHERE clause of markLoginChallengeVerifiedAndStoreToken.
CanMark(c) ==
    /\ rows[c].stage = "pending"
    /\ rows[c].codeAttempts < MaxAttempts

MarkVerified(r) ==
    LET c == chal[r] IN
    /\ pc[r] = "rightCode"
    /\ IF CanMark(c)
       THEN rows' = [rows EXCEPT ![c].stage = "verified"]
       ELSE UNCHANGED rows
    /\ Return(r)
    /\ UNCHANGED <<users, seen>>

(***************************************************************************)
(* consumeLoginToken                                                       *)
(***************************************************************************)
\* findLoginChallengeByTokenHash and the checks on what it returned.
FindToken(r, c) ==
    /\ pc[r] = "idle"
    /\ rows[c].stage = "verified"
    /\ rows[c].expiry # "tokenExpired"
    /\ Active(rows[c].owner)
    /\ Goto(r, "consume")
    /\ chal' = [chal EXCEPT ![r] = c]
    /\ UNCHANGED <<users, rows, who, mode, seen>>

\* Faulty: without loginTokenUsedAt = null.
CanConsumeAgain(c) == rows[c].stage \in {"verified", "used"} /\ Active(rows[c].owner)

\* The WHERE clause of the transaction's first update, and its user check.
CanConsume(c) ==
    /\ rows[c].stage = "verified"
    /\ Active(rows[c].owner)

\* Faulty: a login leaves the challenges of the other mode alone.
ConsumeTokenOneMode(r) ==
    LET c == chal[r]
        u == rows[c].owner
        others == RowsOf(u) \ {c}
        sameMode == {d \in others : rows[d].mode = rows[c].mode} IN
    /\ pc[r] = "consume"
    /\ IF CanConsume(c)
       THEN /\ rows' = [Without(sameMode) EXCEPT ![c].stage = "used"]
            /\ ResetFailures(u)
            /\ grants' = [grants EXCEPT ![c] = @ + 1]
            /\ void' = void \cup others
       ELSE UNCHANGED <<users, rows, wrongPasswords, grants, void>>
    /\ Return(r)
    /\ UNCHANGED wrongCodes

\* consumeLoginTokenAndCleanupChallenges, one transaction.
ConsumeToken(r) ==
    LET c == chal[r]
        u == rows[c].owner
        others == RowsOf(u) \ {c} IN
    /\ pc[r] = "consume"
    /\ IF CanConsume(c)
       THEN /\ rows' = [Without(others) EXCEPT ![c].stage = "used"]
            /\ ResetFailures(u)
            /\ grants' = [grants EXCEPT ![c] = @ + 1]
            /\ void' = void \cup others
       ELSE UNCHANGED <<users, rows, wrongPasswords, grants, void>>
    /\ Return(r)
    /\ UNCHANGED wrongCodes

\* A request dies, or one of its statements throws, between two steps.
Fail(r) ==
    /\ pc[r] # "idle"
    /\ Return(r)
    /\ UNCHANGED <<users, rows, seen>>

(***************************************************************************)
(* What happens to the tables from outside                                 *)
(***************************************************************************)
\* softDeleteUserWithCleanupInTransaction
SoftDeleteUser(u) ==
    /\ Active(u)
    /\ deleted' = [deleted EXCEPT ![u] = TRUE]
    /\ rows' = Without(RowsOf(u))
    /\ void' = void \cup RowsOf(u)
    /\ UNCHANGED <<failedLogins, locked, requests, wrongCodes, wrongPasswords, grants>>

\* completeContactChange deletes the user's pending challenges of every kind.
ChangeContact(u) ==
    /\ RowsOf(u) # {}
    /\ rows' = Without(RowsOf(u))
    /\ void' = void \cup RowsOf(u)
    /\ UNCHANGED <<users, requests, wrongCodes, wrongPasswords, grants>>

ExpireCode(c) ==
    /\ Exists(c)
    /\ rows[c].expiry = "fresh"
    /\ rows' = [rows EXCEPT ![c].expiry = "codeExpired"]
    /\ UNCHANGED <<users, requests, seen>>

ExpireToken(c) ==
    /\ Exists(c)
    /\ rows[c].expiry = "codeExpired"
    /\ rows' = [rows EXCEPT ![c].expiry = "tokenExpired"]
    /\ UNCHANGED <<users, requests, seen>>

\* The nightly clean-up: codeExpiresAt is more than an hour ago.
CleanUp(c) ==
    /\ Exists(c)
    /\ rows[c].expiry = "tokenExpired"
    /\ rows' = Without({c})
    /\ UNCHANGED <<users, requests, seen>>

\* lockedUntil passes.  failedLoginAttempts is not reset.
UnlockAccount(u) ==
    /\ locked[u]
    /\ locked' = [locked EXCEPT ![u] = FALSE]
    /\ wrongPasswords' = [wrongPasswords EXCEPT ![u] = 0]
    /\ UNCHANGED <<failedLogins, deleted, rows, requests, wrongCodes, grants, void>>

RequestStep(r) ==
    \/ \E u \in Users : StartEmailLogin(r, u) \/ StartPhoneLogin(r, u)
    \/ RegisterFailedPassword(r)
    \/ ClearFailedPasswords(r)
    \/ DeleteChallenges(r)
    \/ CreateChallenge(r)
    \/ \E c \in Challenges : VerifyCode(r, c) \/ FindToken(r, c)
    \/ IncrementAttempts(r)
    \/ MarkVerified(r)
    \/ ConsumeToken(r)
    \/ Fail(r)

Next ==
    \/ \E r \in Requests : RequestStep(r)
    \/ \E u \in Users : SoftDeleteUser(u) \/ ChangeContact(u) \/ UnlockAccount(u)
    \/ \E c \in Challenges : ExpireCode(c) \/ ExpireToken(c) \/ CleanUp(c)

Spec == Init /\ [][Next]_vars
-------------------------------------------------------------------------------
(***************************************************************************)
(* Properties                                                              *)
(***************************************************************************)
TypeOK ==
    /\ failedLogins \in [Users -> 0..MaxPasswordAttempts]
    /\ locked \in [Users -> BOOLEAN]
    /\ deleted \in [Users -> BOOLEAN]
    /\ rows \in [Challenges -> Row]
    /\ \A c \in Challenges : Exists(c) => rows[c].owner \in Users
    /\ pc \in [Requests -> Points]
    /\ who \in [Requests -> Users \cup {None}]
    /\ mode \in [Requests -> Modes \cup {None}]
    /\ chal \in [Requests -> Challenges \cup {None}]
    /\ wrongCodes \in [Challenges -> Nat]
    /\ wrongPasswords \in [Users -> Nat]
    /\ grants \in [Challenges -> Nat]
    /\ void \subseteq Challenges

\* A login token lets its holder in once, however many requests present it.
SingleUse == \A c \in Challenges : grants[c] <= 1

\* Concurrent requests read the same count before any of them is counted: the
\* server answers "wrong code" more often than the counter allows, but at most
\* once more for every further request under way.
WrongCodesBounded ==
    \A c \in Challenges : wrongCodes[c] < MaxAttempts + Cardinality(Requests)

\* The same for passwords, between two resets or ends of a lock.
WrongPasswordsBounded ==
    \A u \in Users : wrongPasswords[u] < MaxPasswordAttempts + Cardinality(Requests)

\* A challenge that was superseded by a new start, by a login, by a contact
\* change or by the end of the account never lets anyone in afterwards, not
\* even through a request that had read it before.
VoidNeverGrants == [][\A c \in void : grants'[c] = grants[c]]_vars

\* Nobody is let into a deleted account, although a start that was under way
\* may still have left a challenge behind.
DeletedNeverEnters ==
    [][\A c \in Challenges :
          Exists(c) /\ deleted[rows[c].owner] => grants'[c] = grants[c]]_vars

\* Concurrent starts delete before they insert, without a lock: several
\* challenges of one user and mode can be open, but never more than requests
\* run at a time.
OpenChallengesBounded ==
    \A u \in Users, m \in Modes :
        Cardinality({c \in RowsOf(u) : rows[c].mode = m}) <= Cardinality(Requests)

(***************************************************************************)
(* Refinement of LoginGrant                                                *)
(***************************************************************************)
\* A row that is gone was used before, or withdrawn.
GrantState(c) ==
    CASE rows[c].stage = "absent"   -> "absent"
      [] rows[c].stage = "pending"  -> "open"
      [] rows[c].stage = "verified" -> "proved"
      [] rows[c].stage = "used"     -> "spent"
      [] rows[c].stage = "gone"     -> IF grants[c] = 0 THEN "withdrawn" ELSE "spent"

Grant == INSTANCE LoginGrant WITH
    Nobody <- None,
    state  <- [c \in Challenges |-> GrantState(c)],
    holder <- [c \in Challenges |->
                  IF rows[c].stage \in {"pending", "verified"} THEN rows[c].owner ELSE None],
    uses   <- grants

\* Requests, stale reads and failures included, login grants are the grants of
\* LoginGrant: proved before granted, granted once, and then exclusive.
GrantsAsPromised == Grant!Spec
===============================================================================
