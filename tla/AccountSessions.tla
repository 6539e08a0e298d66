--------------------------- MODULE AccountSessions ----------------------------
(***************************************************************************)
(* The JWT sessions of one account.  A session lives in a signed cookie,   *)
(* not in a table: the server ends it by comparing the cookie's            *)
(* tokenVersion with the User row, or by a row of RevokedSessionToken with *)
(* the session's jti.  Sessions of different accounts share no row.        *)
(*                                                                         *)
(* Every request works on a copy of the cookie it was sent with, reads the *)
(* revocation row and the User row one after the other, and may answer     *)
(* with a fresh cookie that replaces whatever the browser holds by then.   *)
(* Time is relative: ages and time left, in ticks.                         *)
(***************************************************************************)
EXTENDS Naturals

CONSTANTS
    Sessions,       \* jtis
    Requests,       \* request slots
    None,           \* no session
    MaxAge,         \* SESSION_MAX_AGE_SECONDS
    IdleTimeout,    \* resolveIdleTimeoutSeconds(rememberMe)
    MaxRequestAge,  \* bound: ticks a request may take
    MaxVersion      \* bound: revocations of all sessions

ASSUME SessionAssumption ==
    /\ None \notin Sessions \cup Requests
    /\ {MaxAge, IdleTimeout} \subseteq Nat \ {0}
    /\ {MaxRequestAge, MaxVersion} \subseteq Nat
    /\ IdleTimeout <= MaxAge

VARIABLES
    \* the User row
    tokenVersion, deleted,
    \* logins: how far each is, the tokenVersion it read
    login, version,
    \* the cookie each browser holds
    jar,
    \* the table RevokedSessionToken: is there a row, time until expiresAt
    revoked, timeLeft,
    \* requests: control point, what is asked, the session, the cookie that
    \* came with it, time since the request read the clock
    pc, kind, session, cookie, requestAge,
    \* what an observer knows: tokenVersion when a login was granted, sessions
    \* whose logout was confirmed, both as they were when a request started
    born, loggedOut, since, tooLate

account  == <<tokenVersion, deleted>>
logins   == <<login, version, born>>
table    == <<revoked, timeLeft>>
requests == <<pc, kind, session, cookie, requestAge, since, tooLate>>
vars     == <<account, logins, jar, table, requests, loggedOut>>

LoginStages == {"none", "found", "granted", "issued"}
Kinds       == {"page", "refresh", "logout", "logoutAll"}
Points      == {"idle", "lookup", "dropRow", "user", "accepted", "rejected", "confirm"}

\* age: since exp was set; idle: since lastActivityAt; dead: sub is empty.
\* A cookie of age MaxAge is expired, or not there.
Cookie   == [age : 0..MaxAge, idle : Nat, dead : BOOLEAN]
NoCookie == [age |-> MaxAge, idle |-> 0, dead |-> TRUE]
Decodes(k) == k.age < MaxAge

Init ==
    /\ tokenVersion = 0
    /\ deleted = FALSE
    /\ login = [j \in Sessions |-> "none"]
    /\ version = [j \in Sessions |-> 0]
    /\ jar = [j \in Sessions |-> NoCookie]
    /\ revoked = [j \in Sessions |-> FALSE]
    /\ timeLeft = [j \in Sessions |-> 0]
    /\ pc = [r \in Requests |-> "idle"]
    /\ kind = [r \in Requests |-> "page"]
    /\ session = [r \in Requests |-> None]
    /\ cookie = [r \in Requests |-> NoCookie]
    /\ requestAge = [r \in Requests |-> 0]
    /\ born = [j \in Sessions |-> 0]
    /\ loggedOut = [j \in Sessions |-> FALSE]
    /\ since = [r \in Requests |-> 0]
    /\ tooLate = [r \in Requests |-> FALSE]

(***************************************************************************)
(* Login                                                                   *)
(***************************************************************************)
\* consumeLoginToken reads the User row with the challenge.
FindLogin(j) ==
    /\ login[j] = "none"
    /\ ~deleted
    /\ login' = [login EXCEPT ![j] = "found"]
    /\ version' = [version EXCEPT ![j] = tokenVersion]
    /\ UNCHANGED <<account, born, jar, table, requests, loggedOut>>

\* Its transaction tests deletedAt again, but not tokenVersion.
GrantLogin(j) ==
    /\ login[j] = "found"
    /\ ~deleted
    /\ login' = [login EXCEPT ![j] = "granted"]
    /\ born' = [born EXCEPT ![j] = tokenVersion]
    /\ UNCHANGED <<account, version, jar, table, requests, loggedOut>>

\* authorize returns the user as it was read; the jwt callback puts its
\* tokenVersion and a new jti into the cookie.
IssueCookie(j) ==
    /\ login[j] = "granted"
    /\ login' = [login EXCEPT ![j] = "issued"]
    /\ jar' = [jar EXCEPT ![j] = [age |-> 0, idle |-> 0, dead |-> FALSE]]
    /\ UNCHANGED <<account, version, born, table, requests, loggedOut>>

(***************************************************************************)
(* A request: getServerSession and the jwt callback                        *)
(***************************************************************************)
Goto(r, p) == pc' = [pc EXCEPT ![r] = p]

\* The cookie is decoded and the clock read.
StartRequest(r, j, k) ==
    /\ pc[r] = "idle"
    /\ Decodes(jar[j])
    /\ Goto(r, "lookup")
    /\ kind' = [kind EXCEPT ![r] = k]
    /\ session' = [session EXCEPT ![r] = j]
    /\ cookie' = [cookie EXCEPT ![r] = jar[j]]
    /\ requestAge' = [requestAge EXCEPT ![r] = 0]
    /\ since' = [since EXCEPT ![r] = tokenVersion]
    /\ tooLate' = [tooLate EXCEPT ![r] = loggedOut[j]]
    /\ UNCHANGED <<account, logins, jar, table, loggedOut>>

\* Faulty: no idle timeout.
IdleExpiredNever(r) == FALSE

\* hasIdleSessionExpired, against the clock reading of the request.
IdleExpired(r) == cookie[r].idle >= IdleTimeout

\* isSessionJtiRevoked: a row whose time is over does not count; it is going
\* to be deleted, by its id, in a statement of its own.
LookUpRevocation(r) ==
    LET j == session[r] IN
    /\ pc[r] = "lookup"
    /\ Goto(r, IF cookie[r].dead \/ (revoked[j] /\ timeLeft[j] > 0) THEN "rejected"
               ELSE IF revoked[j] THEN "dropRow"
               ELSE IF IdleExpired(r) THEN "rejected" ELSE "user")
    /\ UNCHANGED <<account, logins, jar, table, kind, session, cookie, requestAge,
                   since, tooLate, loggedOut>>

\* The delete does not look at expiresAt again; its failure is ignored.
DropRevocation(r) ==
    LET j == session[r] IN
    /\ pc[r] = "dropRow"
    /\ \/ /\ revoked' = [revoked EXCEPT ![j] = FALSE]
          /\ timeLeft' = [timeLeft EXCEPT ![j] = 0]
       \/ UNCHANGED table
    /\ Goto(r, IF IdleExpired(r) THEN "rejected" ELSE "user")
    /\ UNCHANGED <<account, logins, jar, kind, session, cookie, requestAge,
                   since, tooLate, loggedOut>>

\* Faulty: the versions are not compared.
UserAcceptsAnyVersion(j) == ~deleted

\* findActiveUserSessionSnapshot, and the comparison of the versions.
UserAccepts(j) == ~deleted /\ tokenVersion = version[j]

CheckUser(r) ==
    /\ pc[r] = "user"
    /\ Goto(r, IF UserAccepts(session[r]) THEN "accepted" ELSE "rejected")
    /\ UNCHANGED <<account, logins, jar, table, kind, session, cookie, requestAge,
                   since, tooLate, loggedOut>>

Finish(r) ==
    /\ Goto(r, "idle")
    /\ kind' = [kind EXCEPT ![r] = "page"]
    /\ session' = [session EXCEPT ![r] = None]
    /\ cookie' = [cookie EXCEPT ![r] = NoCookie]
    /\ requestAge' = [requestAge EXCEPT ![r] = 0]
    /\ since' = [since EXCEPT ![r] = 0]
    /\ tooLate' = [tooLate EXCEPT ![r] = FALSE]

\* A page or an API call has its answer; it writes no cookie.
AnswerPage(r) ==
    /\ kind[r] = "page"
    /\ pc[r] \in {"accepted", "rejected"}
    /\ Finish(r)
    /\ UNCHANGED <<account, logins, jar, table, loggedOut>>

\* The session endpoint encodes the token again, with a new exp, and its
\* answer replaces the cookie in the browser, whenever it arrives.
AnswerRefresh(r) ==
    /\ kind[r] = "refresh"
    /\ pc[r] \in {"accepted", "rejected"}
    /\ \E a \in 0..requestAge[r] :
          jar' = [jar EXCEPT ![session[r]] =
                    IF a < MaxAge
                    THEN [age |-> a, idle |-> requestAge[r], dead |-> pc[r] = "rejected"]
                    ELSE NoCookie]
    /\ Finish(r)
    /\ UNCHANGED <<account, logins, table, loggedOut>>

\* Faulty: exp is taken for the time of issue.
RevokeJtiFromExp(r) ==
    LET j == session[r] IN
    /\ kind[r] = "logout"
    /\ pc[r] \in {"accepted", "rejected"}
    /\ Decodes(cookie[r])
    /\ revoked' = [revoked EXCEPT ![j] = TRUE]
    /\ timeLeft' = [timeLeft EXCEPT ![j] = 2 * MaxAge - cookie[r].age]
    /\ Goto(r, "confirm")
    /\ UNCHANGED <<account, logins, jar, kind, session, cookie, requestAge,
                   since, tooLate, loggedOut>>

\* POST logout: revokeSessionJti with the exp of the cookie that was sent,
\* whether or not the session was accepted.  The row that may be there is
\* overwritten.  An expired cookie has nothing to revoke; if the session was
\* accepted all the same, the logout is refused.
RevokeJti(r) ==
    LET j == session[r]
        expired == ~Decodes(cookie[r]) IN
    /\ kind[r] = "logout"
    /\ pc[r] \in {"accepted", "rejected"}
    /\ ~(expired /\ pc[r] = "accepted")
    /\ IF expired
       THEN UNCHANGED table
       ELSE /\ revoked' = [revoked EXCEPT ![j] = TRUE]
            /\ timeLeft' = [timeLeft EXCEPT ![j] = MaxAge - cookie[r].age]
    /\ Goto(r, "confirm")
    /\ UNCHANGED <<account, logins, jar, kind, session, cookie, requestAge,
                   since, tooLate, loggedOut>>

\* performLogout: the browser drops its cookie only after the server's 200.
ConfirmLogout(r) ==
    /\ pc[r] = "confirm"
    /\ jar' = [jar EXCEPT ![session[r]] = NoCookie]
    /\ loggedOut' = [loggedOut EXCEPT ![session[r]] = TRUE]
    /\ Finish(r)
    /\ UNCHANGED <<account, logins, table>>

\* revokeAllUserSessions; a completed password reset does the same.
BumpVersion ==
    /\ ~deleted
    /\ tokenVersion < MaxVersion
    /\ tokenVersion' = tokenVersion + 1
    /\ UNCHANGED deleted

LogoutAll(r) ==
    /\ kind[r] = "logoutAll"
    /\ pc[r] = "accepted"
    /\ BumpVersion \/ (deleted /\ UNCHANGED account)
    /\ Finish(r)
    /\ UNCHANGED <<logins, jar, table, loggedOut>>

\* A request dies, one of its statements throws, or it is refused.
Fail(r) ==
    /\ pc[r] # "idle"
    /\ Finish(r)
    /\ UNCHANGED <<account, logins, jar, table, loggedOut>>

(***************************************************************************)
(* Elsewhere                                                               *)
(***************************************************************************)
\* completePasswordReset
ResetPassword ==
    /\ BumpVersion
    /\ UNCHANGED <<logins, jar, table, requests, loggedOut>>

\* softDeleteUserWithCleanupInTransaction
SoftDeleteUser ==
    /\ ~deleted
    /\ tokenVersion < MaxVersion
    /\ deleted' = TRUE
    /\ tokenVersion' = tokenVersion + 1
    /\ UNCHANGED <<logins, jar, table, requests, loggedOut>>

\* The nightly clean-up of RevokedSessionToken.
CleanUp(j) ==
    /\ revoked[j]
    /\ timeLeft[j] = 0
    /\ revoked' = [revoked EXCEPT ![j] = FALSE]
    /\ UNCHANGED <<account, logins, jar, timeLeft, requests, loggedOut>>

\* A cookie one tick older; the browser drops it when exp is reached.
Older(k) == IF k.age + 1 < MaxAge THEN [k EXCEPT !.age = @ + 1, !.idle = @ + 1] ELSE NoCookie

\* A request keeps the token it decoded, and the idle time it computed.
Tick ==
    /\ \A r \in Requests : pc[r] # "idle" => requestAge[r] < MaxRequestAge
    /\ jar' = [j \in Sessions |-> Older(jar[j])]
    /\ timeLeft' = [j \in Sessions |-> IF timeLeft[j] > 0 THEN timeLeft[j] - 1 ELSE 0]
    /\ requestAge' = [r \in Requests |-> IF pc[r] = "idle" THEN 0 ELSE requestAge[r] + 1]
    /\ cookie' = [r \in Requests |->
                     IF Decodes(cookie[r]) THEN [cookie[r] EXCEPT !.age = @ + 1] ELSE cookie[r]]
    /\ UNCHANGED <<account, logins, revoked, pc, kind, session, since, tooLate, loggedOut>>

RequestStep(r) ==
    \/ \E j \in Sessions, k \in Kinds : StartRequest(r, j, k)
    \/ LookUpRevocation(r)
    \/ DropRevocation(r)
    \/ CheckUser(r)
    \/ AnswerPage(r)
    \/ AnswerRefresh(r)
    \/ RevokeJti(r)
    \/ ConfirmLogout(r)
    \/ LogoutAll(r)
    \/ Fail(r)

Next ==
    \/ \E j \in Sessions : FindLogin(j) \/ GrantLogin(j) \/ IssueCookie(j) \/ CleanUp(j)
    \/ \E r \in Requests : RequestStep(r)
    \/ ResetPassword
    \/ SoftDeleteUser
    \/ Tick

Spec == Init /\ [][Next]_vars
-------------------------------------------------------------------------------
(***************************************************************************)
(* Properties                                                              *)
(***************************************************************************)
TypeOK ==
    /\ tokenVersion \in Nat
    /\ deleted \in BOOLEAN
    /\ login \in [Sessions -> LoginStages]
    /\ version \in [Sessions -> Nat]
    /\ jar \in [Sessions -> Cookie]
    /\ revoked \in [Sessions -> BOOLEAN]
    /\ timeLeft \in [Sessions -> 0..MaxAge]
    /\ pc \in [Requests -> Points]
    /\ kind \in [Requests -> Kinds]
    /\ session \in [Requests -> Sessions \cup {None}]
    /\ \A r \in Requests : pc[r] # "idle" => session[r] \in Sessions
    /\ cookie \in [Requests -> Cookie]
    /\ requestAge \in [Requests -> Nat]
    /\ born \in [Sessions -> Nat]
    /\ loggedOut \in [Sessions -> BOOLEAN]
    /\ since \in [Requests -> Nat]
    /\ tooLate \in [Requests -> BOOLEAN]

\* After a logout of all sessions, a password reset or the end of the account
\* no request that starts later is accepted for a session granted before,
\* although logins and refreshes may be under way at that moment.
RevokeAllHolds ==
    \A r \in Requests : pc[r] = "accepted" => born[session[r]] >= since[r]

\* Once a logout has been confirmed, no request that starts later is accepted
\* for that session, although a refresh under way may put a cookie back.
LogoutHolds == \A r \in Requests : pc[r] = "accepted" => ~tooLate[r]
===============================================================================
