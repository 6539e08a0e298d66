----------------------------- MODULE BrowserProofs -----------------------------
(***************************************************************************)
(* Proofs about a browser: AccountSessions, for any sessions, any requests *)
(* at a time and any number of revocations, and after them the dialogs of  *)
(* AccountForms, for any requests under way at once, any faults and any    *)
(* detours.                                                                *)
(***************************************************************************)
EXTENDS MCBrowser, TLAPS

(***************************************************************************)
(* Versions.  A login reads tokenVersion before it is granted, and the     *)
(* version only grows: whoever is found to have the present version was    *)
(* granted at that version or a later one.                                 *)
(***************************************************************************)
IsIssued(j) == login[j] = "issued"

VersionInv ==
    /\ \A j \in Sessions :
        /\ version[j] <= tokenVersion
        /\ login[j] \in {"granted", "issued"} => version[j] <= born[j]
        /\ Decodes(jar[j]) => IsIssued(j)
    /\ \A r \in Requests :
        /\ pc[r] # "idle" => IsIssued(session[r])
        /\ since[r] <= tokenVersion
    /\ RevokeAllHolds

(***************************************************************************)
(* Ages.  IdleGap is what the two timeouts have to leave between them: the *)
(* maximum age exceeds twice the idle timeout by the time of a few         *)
(* requests, as it does for sessions that are not to be remembered.        *)
(*                                                                         *)
(* A cookie is live if a request sent now would find neither the cookie    *)
(* dead nor the session idle, and a request is live if it came with such a *)
(* cookie.  While anything of a session is live, every request of it came  *)
(* with a cookie that is recent.                                           *)
(***************************************************************************)
IdleGap ==
    /\ MaxRequestAge <= IdleTimeout
    /\ 2 * IdleTimeout + 3 * MaxRequestAge <= MaxAge

LiveCookie(j) == Decodes(jar[j]) /\ ~jar[j].dead /\ jar[j].idle < IdleTimeout

Of(j)   == {r \in Requests : pc[r] # "idle" /\ session[r] = j}
Live(j) == {r \in Of(j) : /\ ~cookie[r].dead /\ ~IdleExpired(r)
                          /\ pc[r] \in {"lookup", "dropRow", "user", "accepted"}}

Recent(r) == cookie[r].age <= IdleTimeout + MaxRequestAge + requestAge[r]

AgeInv ==
    /\ \A r \in Requests :
        /\ requestAge[r] <= MaxRequestAge
        /\ pc[r] \in {"dropRow", "user", "accepted"} => ~cookie[r].dead
        /\ pc[r] \in {"user", "accepted"} => r \in Live(session[r])
    /\ \A j \in Sessions :
        /\ Decodes(jar[j]) => jar[j].age <= jar[j].idle
        /\ \A r \in Live(j) : Decodes(jar[j]) => jar[j].age <= IdleTimeout + requestAge[r]
        /\ (LiveCookie(j) \/ Live(j) # {}) => \A r \in Of(j) : Recent(r)

(***************************************************************************)
(* Revocation.  From the moment a logout writes its row, the row outlives  *)
(* everything that is live, and the requests that could still be accepted  *)
(* find it; a row that was seen to have expired has nothing live beside it.*)
(***************************************************************************)
Marked(j) ==
    \/ revoked[j]
    \/ loggedOut[j]
    \/ \E r \in Of(j) : pc[r] \in {"confirm", "dropRow"}

\* The row lasts for time t from now, after that has been made up for by spent.
Outlasts(j, t, spent) == revoked[j] /\ timeLeft[j] + spent >= t

Spent(j) ==
    /\ ~LiveCookie(j)
    /\ \A r \in Live(j) : pc[r] \in {"user", "accepted"} /\ kind[r] # "refresh"

Protected(j) ==
    /\ LiveCookie(j) => Outlasts(j, IdleTimeout + MaxRequestAge, jar[j].idle)
    /\ \A r \in Live(j) :
        /\ pc[r] = "lookup" => Outlasts(j, 1 + MaxRequestAge, requestAge[r])
        /\ pc[r] # "lookup" /\ kind[r] = "refresh" =>
               Outlasts(j, IdleTimeout + MaxRequestAge, requestAge[r])
        /\ pc[r] # "lookup" => ~tooLate[r]

IssuedInv == \A j \in Sessions : revoked[j] \/ loggedOut[j] => IsIssued(j)

RevocationInv ==
    /\ \A r \in Requests : pc[r] # "idle" /\ tooLate[r] => loggedOut[session[r]]
    /\ \A r \in Requests : pc[r] = "dropRow" => Spent(session[r])
    /\ \A j \in Sessions : Marked(j) => Protected(j)

IInv == TypeOK /\ VersionInv /\ AgeInv /\ IssuedInv /\ RevocationInv
-------------------------------------------------------------------------------
(***************************************************************************)
(* Types                                                                   *)
(***************************************************************************)
LEMMA Constants ==
    /\ MaxAge \in Nat /\ MaxAge > 0 /\ IdleTimeout \in Nat /\ IdleTimeout > 0
    /\ MaxRequestAge \in Nat /\ MaxVersion \in Nat
    /\ None \notin Sessions
  BY SessionAssumption

LEMMA OlderCookie ==
    ASSUME NEW k \in Cookie
    PROVE  /\ [k EXCEPT !.age = k.age + 1] =
                  [age |-> k.age + 1, idle |-> k.idle, dead |-> k.dead]
           /\ Older(k) = IF k.age + 1 < MaxAge
                         THEN [age |-> k.age + 1, idle |-> k.idle + 1, dead |-> k.dead]
                         ELSE NoCookie
<1>1. PICK a \in 0..MaxAge, i \in Nat, d \in BOOLEAN : k = [age |-> a, idle |-> i, dead |-> d]
  BY SMT DEF Cookie
<1>2. k.age = a /\ k.idle = i /\ k.dead = d
  BY <1>1
<1>3. [k EXCEPT !.age = k.age + 1] = [age |-> k.age + 1, idle |-> k.idle, dead |-> k.dead]
  BY <1>1, <1>2
<1>4. [k EXCEPT !.age = k.age + 1, !.idle = k.idle + 1] =
          [age |-> k.age + 1, idle |-> k.idle + 1, dead |-> k.dead]
  <2>1. \A n, m \in Nat : [[age |-> n, idle |-> i, dead |-> d] EXCEPT !.idle = m] =
                             [age |-> n, idle |-> m, dead |-> d]
    OBVIOUS
  <2>2. [k EXCEPT !.age = k.age + 1, !.idle = k.idle + 1] =
            [[age |-> a + 1, idle |-> i, dead |-> d] EXCEPT !.idle = i + 1]
    BY <1>2, <1>3, Zenon
  <2>3. a + 1 \in Nat /\ i + 1 \in Nat
    BY Constants
  <2> QED
    BY <1>2, <2>1, <2>2, <2>3, Zenon
<1> QED
  BY <1>3, <1>4 DEF Older

LEMMA CookieFields ==
    /\ \A k \in Cookie : k.age \in 0..MaxAge /\ k.idle \in Nat /\ k.dead \in BOOLEAN
    /\ NoCookie \in Cookie /\ ~Decodes(NoCookie)
  BY Constants DEF Cookie, NoCookie, Decodes

\* What an answer of the session endpoint does to the cookies.
LEMMA RefreshedCookie ==
    ASSUME TypeOK, NEW r \in Requests, AnswerRefresh(r)
    PROVE  LET j == session[r] IN
           /\ j \in Sessions
           /\ \A i \in Sessions \ {j} : jar'[i] = jar[i]
           /\ Decodes(jar'[j]) => /\ jar'[j].age <= requestAge[r]
                                  /\ jar'[j].idle = requestAge[r]
                                  /\ ~jar'[j].dead => pc[r] = "accepted"
<1> DEFINE j == session[r]
           New(a) == [age |-> a, idle |-> requestAge[r], dead |-> pc[r] = "rejected"]
<1>1. j \in Sessions /\ pc[r] \in {"accepted", "rejected"} /\ requestAge[r] \in Nat
  BY DEF TypeOK, AnswerRefresh
<1>2. PICK a \in 0..requestAge[r] :
          jar' = [jar EXCEPT ![j] = IF a < MaxAge THEN New(a) ELSE NoCookie]
  BY Zenon DEF AnswerRefresh
<1>3. /\ jar'[j] = IF a < MaxAge THEN New(a) ELSE NoCookie
      /\ \A i \in Sessions \ {j} : jar'[i] = jar[i]
  BY <1>1, <1>2, Zenon DEF TypeOK
<1>4. New(a).age = a /\ New(a).idle = requestAge[r] /\ New(a).dead = (pc[r] = "rejected")
  BY Zenon
<1>5. a <= requestAge[r]
  BY <1>1
<1> HIDE DEF New
<1>6. CASE a < MaxAge
  <2>1. ~jar'[j].dead => pc[r] = "accepted"
    BY <1>1, <1>3, <1>4, <1>6, Zenon
  <2> QED
    BY <1>1, <1>3, <1>4, <1>5, <1>6, <2>1, Zenon
<1>7. CASE ~(a < MaxAge)
  BY <1>1, <1>3, <1>7, CookieFields, Zenon
<1> QED
  BY <1>6, <1>7

\* What a tick does to the cookies.
LEMMA TickCookies ==
    ASSUME TypeOK, Tick
    PROVE  /\ jar' \in [Sessions -> Cookie] /\ cookie' \in [Requests -> Cookie]
           /\ \A j \in Sessions : Decodes(jar'[j]) => Decodes(jar[j])
           /\ \A j \in Sessions : jar'[j] =
                IF jar[j].age + 1 < MaxAge
                THEN [age |-> jar[j].age + 1, idle |-> jar[j].idle + 1, dead |-> jar[j].dead]
                ELSE NoCookie
           /\ \A r \in Requests : cookie'[r] =
                IF Decodes(cookie[r])
                THEN [age |-> cookie[r].age + 1, idle |-> cookie[r].idle, dead |-> cookie[r].dead]
                ELSE cookie[r]
<1>1. NoCookie \in Cookie
  BY Constants DEF NoCookie, Cookie
<1>2. \A k \in Cookie : /\ k.age \in 0..MaxAge /\ k.idle \in Nat /\ k.dead \in BOOLEAN
                        /\ k.age + 1 \in Nat /\ k.idle + 1 \in Nat
                        /\ Decodes(k) => k.age + 1 \in 0..MaxAge
  BY Constants DEF Cookie, Decodes
<1>3. ASSUME NEW j \in Sessions
      PROVE  jar'[j] = IF jar[j].age + 1 < MaxAge
                       THEN [age |-> jar[j].age + 1, idle |-> jar[j].idle + 1, dead |-> jar[j].dead]
                       ELSE NoCookie
  BY OlderCookie DEF TypeOK, Tick
<1>4. ASSUME NEW r \in Requests
      PROVE  cookie'[r] = IF Decodes(cookie[r])
                THEN [age |-> cookie[r].age + 1, idle |-> cookie[r].idle, dead |-> cookie[r].dead]
                ELSE cookie[r]
  BY OlderCookie, Zenon DEF TypeOK, Tick
<1>5. ASSUME NEW j \in Sessions PROVE jar'[j] \in Cookie
  <2>1. jar[j] \in Cookie
    BY DEF TypeOK
  <2>2. jar[j].age + 1 < MaxAge =>
            [age |-> jar[j].age + 1, idle |-> jar[j].idle + 1, dead |-> jar[j].dead] \in Cookie
    BY <1>2, <2>1, Constants DEF Cookie
  <2> QED
    BY <1>1, <1>3, <2>2, Zenon
<1>6. ASSUME NEW r \in Requests PROVE cookie'[r] \in Cookie
  <2>1. cookie[r] \in Cookie
    BY DEF TypeOK
  <2>2. Decodes(cookie[r]) =>
            [age |-> cookie[r].age + 1, idle |-> cookie[r].idle, dead |-> cookie[r].dead] \in Cookie
    BY <1>2, <2>1 DEF Cookie
  <2> QED
    BY <1>4, <2>1, <2>2, Zenon
<1>7. DOMAIN jar' = Sessions /\ DOMAIN cookie' = Requests
  BY DEF Tick
<1>8. ASSUME NEW j \in Sessions, Decodes(jar'[j]) PROVE Decodes(jar[j])
  <2>1. jar[j].age + 1 < MaxAge
    BY <1>3, <1>8, CookieFields, Zenon
  <2>2. jar[j].age \in Nat
    BY <1>2, Constants DEF TypeOK
  <2> QED
    BY <2>1, <2>2, Constants DEF Decodes
<1> QED
  BY <1>3, <1>4, <1>5, <1>6, <1>7, <1>8 DEF Tick

\* What a request leaves behind when it ends.
LEMMA FinishType ==
    ASSUME TypeOK, NEW r \in Requests, Finish(r)
    PROVE  /\ pc' \in [Requests -> Points] /\ pc' = [pc EXCEPT ![r] = "idle"]
           /\ kind' \in [Requests -> Kinds]
           /\ session' \in [Requests -> Sessions \cup {None}]
           /\ \A q \in Requests : pc'[q] # "idle" => session'[q] \in Sessions
           /\ cookie' \in [Requests -> Cookie]
           /\ requestAge' \in [Requests -> Nat]
           /\ since' \in [Requests -> Nat]
           /\ tooLate' \in [Requests -> BOOLEAN]
<1>1. NoCookie \in Cookie
  BY Constants DEF NoCookie, Cookie
<1> QED
  BY <1>1 DEF TypeOK, Finish, Goto, Points, Kinds

LEMMA TypeStep == TypeOK /\ [Next]_vars => TypeOK'
<1> SUFFICES ASSUME TypeOK, [Next]_vars PROVE TypeOK'
  OBVIOUS
<1> USE DEF TypeOK, account, logins, table, requests
<1>0. NoCookie \in Cookie
  BY Constants DEF NoCookie, Cookie
<1>1. ASSUME NEW j \in Sessions, FindLogin(j) \/ GrantLogin(j) \/ CleanUp(j) PROVE TypeOK'
  <2>1. CASE FindLogin(j)
    BY <2>1 DEF FindLogin, LoginStages
  <2>2. CASE GrantLogin(j)
    BY <2>2 DEF GrantLogin, LoginStages
  <2>3. CASE CleanUp(j)
    BY <2>3 DEF CleanUp
  <2> QED
    BY <1>1, <2>1, <2>2, <2>3
<1>2. ASSUME NEW j \in Sessions, IssueCookie(j) PROVE TypeOK'
  <2>1. [age |-> 0, idle |-> 0, dead |-> FALSE] \in Cookie
    BY Constants DEF Cookie
  <2> QED
    BY <1>2, <2>1 DEF IssueCookie, LoginStages
<1>3. ASSUME NEW r \in Requests, NEW j \in Sessions, NEW k \in Kinds, StartRequest(r, j, k)
      PROVE  TypeOK'
  BY <1>3 DEF StartRequest, Goto, Points
<1>4. ASSUME NEW r \in Requests, LookUpRevocation(r) \/ CheckUser(r) PROVE TypeOK'
  BY <1>4 DEF LookUpRevocation, CheckUser, Goto, Points
<1>5. ASSUME NEW r \in Requests, DropRevocation(r) PROVE TypeOK'
  <2>1. session[r] \in Sessions
    BY <1>5 DEF DropRevocation
  <2>2. timeLeft' \in [Sessions -> 0..MaxAge]
    BY <1>5, <2>1, Constants DEF DropRevocation
  <2>3. revoked' \in [Sessions -> BOOLEAN]
    BY <1>5, <2>1, Zenon DEF DropRevocation
  <2> QED
    BY <1>5, <2>2, <2>3 DEF DropRevocation, Goto, Points
<1>6. ASSUME NEW r \in Requests, AnswerPage(r) \/ Fail(r) PROVE TypeOK'
  BY <1>6, FinishType DEF AnswerPage, Fail
<1>7. ASSUME NEW r \in Requests, AnswerRefresh(r) PROVE TypeOK'
  <2>1. \A a \in 0..requestAge[r] : a < MaxAge =>
            [age |-> a, idle |-> requestAge[r], dead |-> pc[r] = "rejected"] \in Cookie
    BY Constants DEF Cookie
  <2>2. jar' \in [Sessions -> Cookie]
    BY <1>0, <1>7, <2>1 DEF AnswerRefresh
  <2> QED
    BY <1>7, <2>2, FinishType DEF AnswerRefresh
<1>8. ASSUME NEW r \in Requests, RevokeJti(r) PROVE TypeOK'
  <2>1. MaxAge - cookie[r].age \in 0..MaxAge
    BY Constants DEF Cookie
  <2> QED
    BY <1>8, <2>1 DEF RevokeJti, Goto, Points
<1>9. ASSUME NEW r \in Requests, ConfirmLogout(r) PROVE TypeOK'
  BY <1>0, <1>9, FinishType DEF ConfirmLogout
<1>10. ASSUME NEW r \in Requests, LogoutAll(r) PROVE TypeOK'
  BY <1>10, FinishType DEF LogoutAll, BumpVersion
<1>11. ASSUME ResetPassword \/ SoftDeleteUser PROVE TypeOK'
  <2>1. tokenVersion' \in Nat
    BY <1>11 DEF ResetPassword, SoftDeleteUser, BumpVersion
  <2>2. deleted' \in BOOLEAN
    BY <1>11, Zenon DEF ResetPassword, SoftDeleteUser, BumpVersion
  <2> QED
    BY <1>11, <2>1, <2>2 DEF ResetPassword, SoftDeleteUser
<1>12. ASSUME Tick PROVE TypeOK'
  <2>1. timeLeft' \in [Sessions -> 0..MaxAge] /\ requestAge' \in [Requests -> Nat]
    BY <1>12, Constants DEF Tick
  <2> QED
    BY <1>12, <2>1, TickCookies DEF Tick
<1>13. ASSUME UNCHANGED vars PROVE TypeOK'
  BY <1>13 DEF vars
<1> QED
  BY <1>1, <1>2, <1>3, <1>4, <1>5, <1>6, <1>7, <1>8, <1>9, <1>10, <1>11, <1>12, <1>13
     DEF Next, RequestStep

LEMMA InitType == Init => TypeOK
<1>1. NoCookie \in Cookie
  BY Constants DEF NoCookie, Cookie
<1>2. ASSUME Init
      PROVE  /\ deleted \in BOOLEAN /\ revoked \in [Sessions -> BOOLEAN]
             /\ loggedOut \in [Sessions -> BOOLEAN] /\ tooLate \in [Requests -> BOOLEAN]
  BY <1>2, Zenon DEF Init
<1>3. 0 \in Nat /\ 0 \in 0..MaxAge
  BY Constants
<1>4. ASSUME Init
      PROVE  /\ tokenVersion \in Nat /\ login \in [Sessions -> LoginStages]
             /\ version \in [Sessions -> Nat] /\ jar \in [Sessions -> Cookie]
             /\ timeLeft \in [Sessions -> 0..MaxAge] /\ pc \in [Requests -> Points]
             /\ kind \in [Requests -> Kinds] /\ session \in [Requests -> Sessions \cup {None}]
             /\ \A r \in Requests : pc[r] = "idle"
             /\ cookie \in [Requests -> Cookie] /\ requestAge \in [Requests -> Nat]
             /\ born \in [Sessions -> Nat] /\ since \in [Requests -> Nat]
  BY <1>1, <1>3, <1>4, Zenon DEF Init, LoginStages, Kinds, Points
<1> QED
  BY <1>2, <1>4, Zenon DEF TypeOK

\* The types of the variables, for any number of sessions and requests.
THEOREM TypeCorrect == Spec => []TypeOK
  BY InitType, TypeStep, PTL DEF Spec
-------------------------------------------------------------------------------
(***************************************************************************)
(* Versions                                                                *)
(***************************************************************************)
\* A request that ends disturbs nothing that is said of the others.
LEMMA VersionFinish ==
    ASSUME TypeOK, VersionInv, NEW r \in Requests, Finish(r),
           UNCHANGED <<login, version, born>>, tokenVersion' \in Nat, tokenVersion' >= tokenVersion,
           \A j \in Sessions : Decodes(jar'[j]) => IsIssued(j)
    PROVE  VersionInv'
<1> USE DEF TypeOK, VersionInv, RevokeAllHolds, IsIssued
<1>1. /\ \A q \in Requests : pc'[q] # "idle" =>
            q # r /\ pc'[q] = pc[q] /\ session'[q] = session[q]
      /\ \A q \in Requests : since'[q] = IF q = r THEN 0 ELSE since[q]
  BY DEF Finish, Goto
<1> QED
  BY <1>1

LEMMA VersionStep == TypeOK /\ VersionInv /\ [Next]_vars => VersionInv'
<1> SUFFICES ASSUME TypeOK, VersionInv, [Next]_vars PROVE VersionInv'
  OBVIOUS
<1> USE DEF account, logins, table, requests
<1>0. ~Decodes(NoCookie)
  BY Constants DEF Decodes, NoCookie
<1>1. ASSUME NEW j \in Sessions, FindLogin(j) \/ GrantLogin(j) PROVE VersionInv'
  BY <1>1 DEF TypeOK, VersionInv, RevokeAllHolds, IsIssued, FindLogin, GrantLogin
<1>2. ASSUME NEW j \in Sessions, IssueCookie(j) PROVE VersionInv'
  BY <1>2 DEF TypeOK, VersionInv, RevokeAllHolds, IsIssued, IssueCookie
<1>3. ASSUME NEW j \in Sessions, CleanUp(j) PROVE VersionInv'
  BY <1>3 DEF VersionInv, RevokeAllHolds, IsIssued, CleanUp
<1>4. ASSUME NEW r \in Requests, NEW j \in Sessions, NEW k \in Kinds, StartRequest(r, j, k)
      PROVE  VersionInv'
  BY <1>4 DEF TypeOK, VersionInv, RevokeAllHolds, IsIssued, StartRequest, Goto
<1>5. ASSUME NEW r \in Requests, LookUpRevocation(r) \/ DropRevocation(r) \/ RevokeJti(r)
      PROVE  VersionInv'
  <2>1. /\ pc[r] # "idle" /\ pc'[r] # "accepted"
        /\ \A q \in Requests \ {r} : pc'[q] = pc[q]
        /\ UNCHANGED <<account, logins, jar, session, since>>
    BY <1>5 DEF TypeOK, LookUpRevocation, DropRevocation, RevokeJti, Goto
  <2> QED
    BY <2>1 DEF VersionInv, RevokeAllHolds, IsIssued
\* The comparison: since[r] <= tokenVersion = version[session[r]] <= born[session[r]]
<1>6. ASSUME NEW r \in Requests, CheckUser(r) PROVE VersionInv'
  <2>1. /\ pc[r] # "idle"
        /\ pc'[r] = "accepted" => UserAccepts(session[r])
        /\ \A q \in Requests \ {r} : pc'[q] = pc[q]
        /\ UNCHANGED <<account, logins, jar, session, since>>
    BY <1>6 DEF TypeOK, CheckUser, Goto
  <2>2. session[r] \in Sessions
    BY <2>1 DEF TypeOK
  <2>3. since[r] <= tokenVersion /\ version[session[r]] <= born[session[r]]
    BY <2>1, <2>2 DEF VersionInv, IsIssued
  <2>4. pc'[r] = "accepted" => born[session[r]] >= since[r]
    BY <2>1, <2>2, <2>3 DEF TypeOK, UserAccepts
  <2> QED
    BY <2>1, <2>4, Zenon DEF VersionInv, RevokeAllHolds, IsIssued
<1>7. ASSUME NEW r \in Requests, AnswerPage(r) \/ Fail(r) PROVE VersionInv'
  <2>1. Finish(r) /\ UNCHANGED <<account, logins, jar>>
    BY <1>7 DEF AnswerPage, Fail
  <2> QED
    BY <2>1, VersionFinish DEF TypeOK, VersionInv, IsIssued
<1>8. ASSUME NEW r \in Requests, AnswerRefresh(r) \/ ConfirmLogout(r) PROVE VersionInv'
  <2>1. Finish(r) /\ UNCHANGED <<account, logins>> /\ pc[r] # "idle"
    BY <1>8 DEF AnswerRefresh, ConfirmLogout
  <2>2. \A j \in Sessions \ {session[r]} : jar'[j] = jar[j]
    <3>1. CASE AnswerRefresh(r)
      BY <3>1, RefreshedCookie
    <3>2. CASE ConfirmLogout(r)
      BY <3>2, Zenon DEF TypeOK, ConfirmLogout
    <3> QED
      BY <1>8, <3>1, <3>2
  <2>3. \A j \in Sessions : Decodes(jar'[j]) => IsIssued(j)
    BY <2>1, <2>2 DEF VersionInv
  <2>4. tokenVersion' \in Nat /\ tokenVersion' >= tokenVersion
    BY <2>1 DEF TypeOK
  <2> QED
    BY <2>1, <2>3, <2>4, VersionFinish
<1>9. ASSUME NEW r \in Requests, LogoutAll(r) PROVE VersionInv'
  <2>1. /\ Finish(r) /\ UNCHANGED <<logins, jar>>
        /\ tokenVersion' = tokenVersion \/ tokenVersion' = tokenVersion + 1
    BY <1>9 DEF LogoutAll, BumpVersion
  <2> QED
    BY <2>1, VersionFinish DEF TypeOK, VersionInv, IsIssued
<1>10. ASSUME ResetPassword \/ SoftDeleteUser PROVE VersionInv'
  <2>1. UNCHANGED <<logins, jar, pc, session, since>> /\ tokenVersion' = tokenVersion + 1
    BY <1>10 DEF ResetPassword, SoftDeleteUser, BumpVersion
  <2> QED
    BY <2>1 DEF TypeOK, VersionInv, RevokeAllHolds, IsIssued
<1>11. ASSUME Tick PROVE VersionInv'
  <2>1. UNCHANGED <<account, logins, pc, session, since>>
    BY <1>11 DEF Tick
  <2>2. \A j \in Sessions : Decodes(jar'[j]) => Decodes(jar[j])
    BY <1>11, TickCookies
  <2> QED
    BY <2>1, <2>2 DEF VersionInv, RevokeAllHolds, IsIssued
<1>12. ASSUME UNCHANGED vars PROVE VersionInv'
  BY <1>12 DEF vars, VersionInv, RevokeAllHolds, IsIssued
<1> QED
  BY <1>1, <1>2, <1>3, <1>4, <1>5, <1>6, <1>7, <1>8, <1>9, <1>10, <1>11, <1>12
     DEF Next, RequestStep

\* A request that starts after a revocation of all sessions is not accepted for
\* a session granted before, whatever was under way at that moment.
THEOREM RevokedForAll == Spec => []RevokeAllHolds
<1>1. Init => VersionInv
  <2>1. ~Decodes(NoCookie)
    BY Constants DEF Decodes, NoCookie
  <2> SUFFICES ASSUME Init PROVE VersionInv
    OBVIOUS
  <2>2. tokenVersion = 0 /\ \A r \in Requests : pc[r] = "idle" /\ since[r] = 0
    BY Zenon DEF Init
  <2>3. \A j \in Sessions : version[j] = 0 /\ login[j] = "none" /\ jar[j] = NoCookie
    BY Zenon DEF Init
  <2> QED
    BY <2>1, <2>2, <2>3 DEF VersionInv, RevokeAllHolds
<1>2. VersionInv => RevokeAllHolds
  BY DEF VersionInv
<1> QED
  BY <1>1, <1>2, TypeCorrect, VersionStep, PTL DEF Spec
-------------------------------------------------------------------------------
(***************************************************************************)
(* Ages                                                                    *)
(***************************************************************************)
\* Nothing is renewed: a browser keeps a cookie or drops it, a request keeps
\* what it came with or ends, and is accepted only after it was looked at.
NoneRenewed ==
    /\ \A j \in Sessions : jar'[j] = jar[j] \/ ~Decodes(jar'[j])
    /\ \A r \in Requests :
        /\ pc'[r] # "idle" =>
              /\ pc[r] # "idle"
              /\ session'[r] = session[r] /\ kind'[r] = kind[r] /\ cookie'[r] = cookie[r]
              /\ requestAge'[r] = requestAge[r] /\ tooLate'[r] = tooLate[r]
        /\ requestAge'[r] = requestAge[r] \/ requestAge'[r] = 0
        /\ pc'[r] \in {"lookup", "dropRow", "user", "accepted"} =>
              pc[r] \in {"lookup", "dropRow", "user", "accepted"}
        /\ pc'[r] = "lookup" => pc[r] = "lookup"
        /\ pc'[r] = "dropRow" => pc[r] \in {"lookup", "dropRow"}
        /\ pc'[r] \in {"dropRow", "user", "accepted"} =>
              \/ pc[r] \in {"dropRow", "user", "accepted"}
              \/ ~cookie[r].dead
        /\ pc'[r] \in {"user", "accepted"} => pc[r] \in {"user", "accepted"} \/ ~IdleExpired(r)

\* Then nothing new is live.
LEMMA LiveShrinks ==
    ASSUME NoneRenewed, NEW j \in Sessions
    PROVE  /\ LiveCookie(j)' => LiveCookie(j)
           /\ Of(j)' \subseteq Of(j)
           /\ Live(j)' \subseteq Live(j)
<1>1. LiveCookie(j)' => LiveCookie(j)
  BY Zenon DEF NoneRenewed, LiveCookie
<1>2. Of(j)' \subseteq Of(j)
  BY DEF NoneRenewed, Of
<1>3. ASSUME NEW r \in Live(j)' PROVE r \in Live(j)
  <2>1. /\ r \in Of(j)' /\ ~cookie'[r].dead /\ ~IdleExpired(r)'
        /\ pc'[r] \in {"lookup", "dropRow", "user", "accepted"}
    BY <1>3 DEF Live
  <2>2. r \in Requests /\ r \in Of(j) /\ pc'[r] # "idle"
    BY <2>1, <1>2 DEF Of
  <2>3. /\ cookie'[r] = cookie[r]
        /\ pc[r] \in {"lookup", "dropRow", "user", "accepted"}
    BY <2>1, <2>2 DEF NoneRenewed
  <2> QED
    BY <2>1, <2>2, <2>3, Zenon DEF Live, IdleExpired
<1> QED
  BY <1>1, <1>2, <1>3

LEMMA AgeKept ==
    ASSUME TypeOK, TypeOK', AgeInv, NoneRenewed
    PROVE  AgeInv'
<1>1. ASSUME NEW r \in Requests PROVE requestAge'[r] <= MaxRequestAge
  <2>1. requestAge[r] <= MaxRequestAge
    BY Zenon DEF AgeInv
  <2>2. requestAge'[r] = requestAge[r] \/ requestAge'[r] = 0
    BY Zenon DEF NoneRenewed
  <2> QED
    BY <2>1, <2>2, Constants
<1>5. ASSUME NEW r \in Requests, pc'[r] \in {"dropRow", "user", "accepted"}
      PROVE  ~cookie'[r].dead
  <2>1. cookie'[r] = cookie[r] /\ (pc[r] \in {"dropRow", "user", "accepted"} \/ ~cookie[r].dead)
    BY <1>5 DEF NoneRenewed
  <2> QED
    BY <2>1, Zenon DEF AgeInv
<1>2. ASSUME NEW r \in Requests, pc'[r] \in {"user", "accepted"} PROVE (r \in Live(session[r]))'
  <2>1. /\ pc[r] # "idle" /\ session'[r] = session[r] /\ cookie'[r] = cookie[r]
        /\ pc[r] \in {"user", "accepted"} \/ ~IdleExpired(r)
    BY <1>2 DEF NoneRenewed
  <2>2. ~cookie[r].dead /\ ~IdleExpired(r)
    <3>1. ~IdleExpired(r)
      BY <2>1 DEF AgeInv, Live
    <3> QED
      BY <1>2, <1>5, <2>1, <3>1, Zenon
  <2> QED
    BY <1>2, <2>1, <2>2, Zenon DEF Live, Of, IdleExpired
<1>3. ASSUME NEW j \in Sessions, Decodes(jar'[j])
      PROVE  /\ jar'[j].age <= jar'[j].idle
             /\ \A r \in Live(j)' : jar'[j].age <= IdleTimeout + requestAge'[r]
  <2>1. jar'[j] = jar[j]
    BY <1>3 DEF NoneRenewed
  <2>2. ASSUME NEW r \in Live(j)' PROVE r \in Live(j) /\ requestAge'[r] = requestAge[r]
    BY <2>2, LiveShrinks DEF NoneRenewed, Live, Of
  <2> QED
    BY <1>3, <2>1, <2>2 DEF AgeInv
<1>4. ASSUME NEW j \in Sessions, LiveCookie(j)' \/ Live(j)' # {}, NEW r \in Of(j)'
      PROVE  Recent(r)'
  <2>1. (LiveCookie(j) \/ Live(j) # {}) /\ r \in Of(j)
    BY <1>4, LiveShrinks
  <2>2. Recent(r)
    BY <2>1 DEF AgeInv
  <2>3. cookie'[r] = cookie[r] /\ requestAge'[r] = requestAge[r]
    BY <1>4 DEF NoneRenewed, Of
  <2> QED
    BY <2>2, <2>3 DEF Recent
<1> QED
  BY <1>1, <1>2, <1>3, <1>4, <1>5, Zenon DEF AgeInv

\* A request that ends renews nothing, unless its answer does.
LEMMA FinishRenewsNothing ==
    ASSUME TypeOK, NEW r \in Requests, Finish(r),
           \A j \in Sessions : jar'[j] = jar[j] \/ ~Decodes(jar'[j])
    PROVE  NoneRenewed
<1>1. /\ pc'[r] = "idle" /\ requestAge'[r] = 0
      /\ \A q \in Requests \ {r} :
            /\ pc'[q] = pc[q] /\ session'[q] = session[q] /\ kind'[q] = kind[q]
            /\ cookie'[q] = cookie[q] /\ requestAge'[q] = requestAge[q] /\ tooLate'[q] = tooLate[q]
  BY Zenon DEF TypeOK, Finish, Goto
<1> QED
  BY <1>1 DEF NoneRenewed

\* Four actions renew something; all others do not.
LEMMA Renewals ==
    ASSUME TypeOK, AgeInv, [Next]_vars
    PROVE  \/ NoneRenewed
           \/ \E j \in Sessions : IssueCookie(j)
           \/ \E r \in Requests, j \in Sessions, k \in Kinds : StartRequest(r, j, k)
           \/ \E r \in Requests : AnswerRefresh(r)
           \/ Tick
<1>1. ASSUME UNCHANGED <<jar, requests>> PROVE NoneRenewed
  BY <1>1 DEF NoneRenewed, requests
<1>2. ASSUME NEW j \in Sessions, FindLogin(j) \/ GrantLogin(j) \/ CleanUp(j) PROVE NoneRenewed
  BY <1>1, <1>2 DEF FindLogin, GrantLogin, CleanUp
\* A request whose control point moves.
<1>3. ASSUME NEW r \in Requests, NEW p \in Points, Goto(r, p),
             UNCHANGED <<jar, kind, session, cookie, requestAge, tooLate>>,
             pc[r] # "idle",
             p \in {"lookup", "dropRow", "user", "accepted"} => pc[r] \in {"lookup", "dropRow", "user"},
             p # "lookup", p = "dropRow" => pc[r] = "lookup",
             p \in {"dropRow", "user", "accepted"} =>
                pc[r] \in {"dropRow", "user"} \/ ~cookie[r].dead,
             p \in {"user", "accepted"} => pc[r] = "user" \/ ~IdleExpired(r)
      PROVE  NoneRenewed
  <2>1. pc'[r] = p /\ \A q \in Requests \ {r} : pc'[q] = pc[q]
    BY <1>3, Zenon DEF TypeOK, Goto
  <2> QED
    BY <1>3, <2>1 DEF NoneRenewed
<1>4. ASSUME NEW r \in Requests, LookUpRevocation(r) PROVE NoneRenewed
  <2> DEFINE p == IF cookie[r].dead \/ (revoked[session[r]] /\ timeLeft[session[r]] > 0) THEN "rejected"
                  ELSE IF revoked[session[r]] THEN "dropRow"
                  ELSE IF IdleExpired(r) THEN "rejected" ELSE "user"
  <2>1. /\ Goto(r, p) /\ pc[r] = "lookup"
        /\ UNCHANGED <<jar, kind, session, cookie, requestAge, tooLate>>
    BY <1>4, Zenon DEF LookUpRevocation
  <2>2. /\ p \in {"rejected", "dropRow", "user"}
        /\ p \in {"dropRow", "user"} => ~cookie[r].dead
        /\ p = "user" => ~IdleExpired(r)
    BY Zenon
  <2> HIDE DEF p
  <2> QED
    BY <1>3, <2>1, <2>2 DEF Points
<1>5. ASSUME NEW r \in Requests, DropRevocation(r) PROVE NoneRenewed
  <2> DEFINE p == IF IdleExpired(r) THEN "rejected" ELSE "user"
  <2>1. /\ Goto(r, p) /\ pc[r] = "dropRow"
        /\ UNCHANGED <<jar, kind, session, cookie, requestAge, tooLate>>
    BY <1>5, Zenon DEF DropRevocation
  <2>2. p \in {"rejected", "user"} /\ (p = "user" => ~IdleExpired(r))
    BY Zenon
  <2> HIDE DEF p
  <2> QED
    BY <1>3, <2>1, <2>2 DEF Points
<1>6. ASSUME NEW r \in Requests, CheckUser(r) PROVE NoneRenewed
  <2> DEFINE p == IF UserAccepts(session[r]) THEN "accepted" ELSE "rejected"
  <2>1. /\ Goto(r, p) /\ pc[r] = "user"
        /\ UNCHANGED <<jar, kind, session, cookie, requestAge, tooLate>>
    BY <1>6, Zenon DEF CheckUser
  <2>2. p \in {"rejected", "accepted"}
    BY Zenon
  <2> HIDE DEF p
  <2> QED
    BY <1>3, <2>1, <2>2 DEF Points
<1>7. ASSUME NEW r \in Requests, RevokeJti(r) PROVE NoneRenewed
  <2>1. /\ Goto(r, "confirm") /\ pc[r] # "idle"
        /\ UNCHANGED <<jar, kind, session, cookie, requestAge, tooLate>>
    BY <1>7 DEF RevokeJti
  <2> QED
    BY <1>3, <2>1 DEF Points
<1>8. ASSUME NEW r \in Requests, AnswerPage(r) \/ Fail(r) \/ LogoutAll(r) \/ ConfirmLogout(r)
      PROVE  NoneRenewed
  <2>1. Finish(r)
    BY <1>8 DEF AnswerPage, Fail, LogoutAll, ConfirmLogout
  <2>2. CASE jar' = jar
    BY <2>1, <2>2, FinishRenewsNothing
  <2>3. CASE ConfirmLogout(r)
    <3>1. \A j \in Sessions : jar'[j] = jar[j] \/ jar'[j] = NoCookie
      BY <2>3, Zenon DEF TypeOK, ConfirmLogout
    <3> QED
      BY <2>1, <3>1, CookieFields, FinishRenewsNothing
  <2> QED
    BY <1>8, <2>2, <2>3 DEF AnswerPage, Fail, LogoutAll
<1>9. ASSUME ResetPassword \/ SoftDeleteUser \/ UNCHANGED vars PROVE NoneRenewed
  BY <1>1, <1>9 DEF ResetPassword, SoftDeleteUser, vars
<1> QED
  BY <1>2, <1>4, <1>5, <1>6, <1>7, <1>8, <1>9 DEF Next, RequestStep

\* A request that stays where it is, with its cookie as good as before, is
\* live as before.
LEMMA SameRequest ==
    ASSUME NEW q \in Requests, NEW j,
           pc'[q] = pc[q], session'[q] = session[q],
           cookie'[q].idle = cookie[q].idle, cookie'[q].dead = cookie[q].dead
    PROVE  ((q \in Of(j))' <=> q \in Of(j)) /\ ((q \in Live(j))' <=> q \in Live(j))
<1>1. (q \in Of(j))' <=> q \in Of(j)
  BY DEF Of
<1>2. IdleExpired(q)' <=> IdleExpired(q)
  BY Zenon DEF IdleExpired
<1> QED
  BY <1>1, <1>2, Zenon DEF Live

LEMMA Members ==
    ASSUME NEW q, NEW j
    PROVE  /\ q \in Of(j) => q \in Requests
           /\ (q \in Of(j))' => q \in Requests
           /\ q \in Live(j) => q \in Of(j)
           /\ (q \in Live(j))' => (q \in Of(j))'
  BY Zenon DEF Of, Live

\* The arithmetic of a cookie, of a request and of the constants.
LEMMA Numbers ==
    ASSUME TypeOK
    PROVE  /\ \A j \in Sessions : jar[j].age \in Nat /\ jar[j].idle \in Nat
           /\ \A r \in Requests : cookie[r].age \in Nat /\ cookie[r].idle \in Nat
                                  /\ requestAge[r] \in Nat
           /\ \A j \in Sessions : timeLeft[j] \in Nat
  BY CookieFields, Constants DEF TypeOK

\* A session gets its cookie when no request of it is under way.
LEMMA AgeIssue ==
    ASSUME TypeOK, AgeInv, VersionInv, NEW j \in Sessions, IssueCookie(j)
    PROVE  AgeInv'
<1>1. /\ jar'[j] = [age |-> 0, idle |-> 0, dead |-> FALSE]
      /\ \A i \in Sessions \ {j} : jar'[i] = jar[i]
  BY Zenon DEF IssueCookie, TypeOK
<1>2. jar'[j].age = 0 /\ jar'[j].idle = 0
  BY <1>1
<1>3. UNCHANGED <<pc, session, cookie, requestAge>>
  BY DEF IssueCookie, requests
<1>4. Of(j) = {}
  BY DEF IssueCookie, VersionInv, IsIssued, Of
<1>5. \A i \in Sessions : Of(i)' = Of(i) /\ Live(i)' = Live(i)
  BY <1>3, Zenon DEF Of, Live, IdleExpired
<1>6. Live(j) = {}
  BY <1>4, Zenon DEF Live
<1>7. \A r \in Requests : Recent(r)' <=> Recent(r)
  BY <1>3, Zenon DEF Recent
<1>8. ASSUME NEW i \in Sessions
      PROVE  /\ Decodes(jar'[i]) => jar'[i].age <= jar'[i].idle
             /\ \A r \in Live(i)' : Decodes(jar'[i]) => jar'[i].age <= IdleTimeout + requestAge'[r]
             /\ (LiveCookie(i)' \/ Live(i)' # {}) => \A r \in Of(i)' : Recent(r)'
  <2>1. CASE i = j
    BY <1>2, <1>4, <1>5, <1>6, <2>1
  <2>2. CASE i # j
    <3>1. jar'[i] = jar[i] /\ (LiveCookie(i)' <=> LiveCookie(i))
      BY <1>1, <2>2, Zenon DEF LiveCookie
    <3>2. \A r \in Of(i) : r \in Requests
      BY DEF Of
    <3> QED
      BY <1>3, <1>5, <1>7, <3>1, <3>2, Zenon DEF AgeInv
  <2> QED
    BY <2>1, <2>2
<1>9. ASSUME NEW r \in Requests
      PROVE  /\ requestAge'[r] <= MaxRequestAge
             /\ pc'[r] \in {"dropRow", "user", "accepted"} => ~cookie'[r].dead
             /\ pc'[r] \in {"user", "accepted"} => (r \in Live(session[r]))'
  <2>1. (r \in Live(session[r]))' <=> r \in Live(session[r])
    BY <1>3, Zenon DEF Of, Live, IdleExpired
  <2> QED
    BY <1>3, <2>1, Zenon DEF AgeInv
<1> QED
  BY <1>8, <1>9, Zenon DEF AgeInv

\* A request comes with the cookie as it is.
LEMMA AgeStart ==
    ASSUME TypeOK, AgeInv, NEW r \in Requests, NEW j \in Sessions, NEW k \in Kinds,
           StartRequest(r, j, k)
    PROVE  AgeInv'
<1>1. /\ pc[r] = "idle" /\ Decodes(jar[j]) /\ jar' = jar
      /\ pc'[r] = "lookup" /\ session'[r] = j /\ cookie'[r] = jar[j] /\ requestAge'[r] = 0
      /\ \A q \in Requests \ {r} : /\ pc'[q] = pc[q] /\ session'[q] = session[q]
                                   /\ cookie'[q] = cookie[q] /\ requestAge'[q] = requestAge[q]
  BY Zenon DEF TypeOK, StartRequest, Goto
<1>2. \A q \in Requests \ {r}, i \in Sessions :
        /\ (q \in Of(i))' <=> q \in Of(i)
        /\ (q \in Live(i))' <=> q \in Live(i)
        /\ Recent(q)' <=> Recent(q)
  BY <1>1, SameRequest, Zenon DEF Recent
<1>3. \A i \in Sessions : jar'[i] = jar[i] /\ (LiveCookie(i)' <=> LiveCookie(i))
  BY <1>1, Zenon DEF LiveCookie
<1>4. \A i \in Sessions : (r \in Of(i))' => i = j
  BY <1>1 DEF Of
<1>5. (r \in Live(j))' => LiveCookie(j)
  <2> SUFFICES ASSUME (r \in Live(j))' PROVE LiveCookie(j)
    OBVIOUS
  <2>1. ~cookie'[r].dead /\ ~(cookie'[r].idle >= IdleTimeout)
    BY Zenon DEF Live, IdleExpired
  <2>2. jar[j].idle < IdleTimeout
    BY <1>1, <2>1, Numbers, Constants
  <2> QED
    BY <1>1, <2>1, <2>2, Zenon DEF LiveCookie
<1>6. LiveCookie(j) => jar[j].age < IdleTimeout
  BY Numbers, Constants DEF AgeInv, LiveCookie
<1>7. (LiveCookie(j) \/ Live(j) # {}) => Recent(r)'
  <2>1. CASE LiveCookie(j)
    BY <1>1, <1>6, <2>1, Numbers, Constants DEF Recent
  <2>2. ASSUME NEW q \in Live(j) PROVE Recent(r)'
    <3>0. q \in Requests
      BY Members, Zenon
    <3>1. jar[j].age <= IdleTimeout + requestAge[q]
      BY <1>1, Zenon DEF AgeInv
    <3>2. requestAge[q] <= MaxRequestAge
      BY <3>0, Zenon DEF AgeInv
    <3> QED
      BY <1>1, <3>0, <3>1, <3>2, Numbers, Constants DEF Recent
  <2> QED
    BY <2>1, <2>2
<1>8. ASSUME NEW i \in Sessions
      PROVE  /\ Decodes(jar'[i]) => jar'[i].age <= jar'[i].idle
             /\ \A q \in Live(i)' : Decodes(jar'[i]) => jar'[i].age <= IdleTimeout + requestAge'[q]
             /\ (LiveCookie(i)' \/ Live(i)' # {}) => \A q \in Of(i)' : Recent(q)'
  <2>1. Decodes(jar'[i]) => jar'[i].age <= jar'[i].idle
    <3>1. jar'[i] = jar[i]
      BY <1>3
    <3> QED
      BY <3>1, Zenon DEF AgeInv
  <2>2. ASSUME NEW q \in Live(i)', Decodes(jar'[i]) PROVE jar'[i].age <= IdleTimeout + requestAge'[q]
    <3>1. CASE q # r
      <4>1. q \in Requests /\ q \in Live(i) /\ requestAge'[q] = requestAge[q]
        BY <1>1, <1>2, <3>1, Members, Zenon
      <4>2. jar'[i] = jar[i]
        BY <1>3
      <4> QED
        BY <2>2, <4>1, <4>2, Zenon DEF AgeInv
    <3>2. CASE q = r
      <4>1. i = j /\ LiveCookie(j)
        BY <1>4, <1>5, <3>2, Members, Zenon
      <4> QED
        BY <1>1, <1>6, <3>2, <4>1, Numbers, Constants
    <3> QED
      BY <3>1, <3>2
  <2>3. ASSUME LiveCookie(i)' \/ Live(i)' # {}, NEW q \in Of(i)' PROVE Recent(q)'
    <3>1. LiveCookie(i) \/ Live(i) # {}
      <4>1. ASSUME NEW p \in Live(i)' PROVE LiveCookie(i) \/ Live(i) # {}
        BY <1>2, <1>4, <1>5, Members, Zenon
      <4> QED
        BY <1>3, <2>3, <4>1, Zenon
    <3>2. CASE q # r
      <4>1. q \in Requests /\ q \in Of(i) /\ (Recent(q)' <=> Recent(q))
        BY <1>2, <3>2, Members, Zenon
      <4> QED
        BY <3>1, <4>1, Zenon DEF AgeInv
    <3>3. CASE q = r
      BY <1>4, <1>7, <3>1, <3>3, Zenon
    <3> QED
      BY <3>2, <3>3
  <2> QED
    BY <2>1, <2>2, <2>3, Zenon
<1>9. ASSUME NEW q \in Requests
      PROVE  /\ requestAge'[q] <= MaxRequestAge
             /\ pc'[q] \in {"dropRow", "user", "accepted"} => ~cookie'[q].dead
             /\ pc'[q] \in {"user", "accepted"} => (q \in Live(session[q]))'
  <2>1. CASE q = r
    BY <1>1, <2>1, Constants
  <2>2. CASE q # r
    <3>1. /\ pc'[q] = pc[q] /\ cookie'[q] = cookie[q] /\ requestAge'[q] = requestAge[q]
          /\ session'[q] = session[q]
      BY <1>1, <2>2
    <3>2. (q \in Live(session[q]))' <=> q \in Live(session[q])
      BY <3>1, Zenon DEF Live, Of, IdleExpired
    <3> QED
      BY <3>1, <3>2, Zenon DEF AgeInv
  <2> QED
    BY <2>1, <2>2
<1> QED
  BY <1>8, <1>9, Zenon DEF AgeInv

\* A cookie that is renewed is younger than the idle timeout, and it is live
\* only if the request that renewed it was.
LEMMA AgeRefresh ==
    ASSUME TypeOK, AgeInv, IdleGap, NEW r \in Requests, AnswerRefresh(r)
    PROVE  AgeInv'
<1>0. PICK j \in Sessions : j = session[r]
  BY RefreshedCookie
<1>1. /\ \A i \in Sessions \ {j} : jar'[i] = jar[i]
      /\ Decodes(jar'[j]) => /\ jar'[j].age <= requestAge[r]
                             /\ jar'[j].idle = requestAge[r]
                             /\ ~jar'[j].dead => pc[r] = "accepted"
  BY <1>0, RefreshedCookie, Zenon
<1>2. /\ pc'[r] = "idle" /\ requestAge'[r] = 0
      /\ \A q \in Requests \ {r} : /\ pc'[q] = pc[q] /\ session'[q] = session[q]
                                   /\ cookie'[q] = cookie[q] /\ requestAge'[q] = requestAge[q]
  BY Zenon DEF TypeOK, AnswerRefresh, Finish, Goto
<1>3. \A i \in Sessions : r \notin Of(i)'
  BY <1>2, Zenon DEF Of
<1>4. \A q \in Requests \ {r}, i \in Sessions :
        /\ (q \in Of(i))' <=> q \in Of(i)
        /\ (q \in Live(i))' <=> q \in Live(i)
        /\ Recent(q)' <=> Recent(q)
  BY <1>2, SameRequest, Zenon DEF Recent
<1>5. LiveCookie(j)' => Live(j) # {}
  <2>1. LiveCookie(j)' => pc[r] = "accepted"
    BY <1>1, Zenon DEF LiveCookie
  <2>2. pc[r] = "accepted" => r \in Live(j)
    BY <1>0, Zenon DEF AgeInv
  <2> QED
    BY <2>1, <2>2, Zenon
<1>6. requestAge[r] \in Nat /\ requestAge[r] <= MaxRequestAge
  BY Numbers, Zenon DEF AgeInv
<1>7. ASSUME NEW i \in Sessions, Decodes(jar'[i])
      PROVE  /\ jar'[i].age <= jar'[i].idle
             /\ \A q \in Live(i)' : jar'[i].age <= IdleTimeout + requestAge'[q]
  <2>1. CASE i = j
    <3>1. jar'[j].age <= requestAge[r] /\ jar'[j].idle = requestAge[r] /\ jar'[j].age \in Nat
      <4>1. jar' \in [Sessions -> Cookie]
        BY TypeStep DEF Next, RequestStep, TypeOK
      <4> QED
        BY <1>1, <1>7, <2>1, <4>1, CookieFields, Constants
    <3>2. ASSUME NEW q \in Live(i)' PROVE jar'[i].age <= IdleTimeout + requestAge'[q]
      <4>1. q \in Requests \ {r}
        BY <1>3, Members, Zenon
      <4>2. requestAge'[q] \in Nat
        BY <1>2, <4>1, Numbers
      <4> QED
        BY <1>6, <2>1, <3>1, <4>2, Constants DEF IdleGap
    <3> QED
      BY <1>6, <2>1, <3>1, <3>2
  <2>2. CASE i # j
    <3>1. jar'[i] = jar[i]
      BY <1>1, <2>2
    <3>2. jar'[i].age <= jar'[i].idle
      BY <1>7, <3>1, Zenon DEF AgeInv
    <3>3. ASSUME NEW q \in Live(i)' PROVE jar'[i].age <= IdleTimeout + requestAge'[q]
      <4>1. q \in Requests \ {r}
        BY <1>3, Members, Zenon
      <4>2. q \in Live(i) /\ requestAge'[q] = requestAge[q]
        BY <1>2, <1>4, <4>1, Zenon
      <4> QED
        BY <1>7, <3>1, <4>2, Zenon DEF AgeInv
    <3> QED
      BY <3>2, <3>3
  <2> QED
    BY <2>1, <2>2
<1>8. ASSUME NEW i \in Sessions, LiveCookie(i)' \/ Live(i)' # {}, NEW q \in Of(i)'
      PROVE  Recent(q)'
  <2>1. q \in Requests \ {r}
    BY <1>3, Members, Zenon
  <2>2. LiveCookie(i) \/ Live(i) # {}
    <3>1. ASSUME NEW p \in Live(i)' PROVE Live(i) # {}
      <4>1. p \in Requests \ {r}
        BY <1>3, Members, Zenon
      <4> QED
        BY <1>4, <4>1, Zenon
    <3>2. CASE i # j
      <4>1. LiveCookie(i)' => LiveCookie(i)
        BY <1>1, <3>2, Zenon DEF LiveCookie
      <4> QED
        BY <1>8, <3>1, <4>1, Zenon
    <3>3. CASE i = j
      BY <1>5, <1>8, <3>1, <3>3, Zenon
    <3> QED
      BY <3>2, <3>3
  <2>3. q \in Of(i)
    BY <1>4, <2>1, Zenon
  <2> QED
    BY <1>4, <2>1, <2>2, <2>3, Zenon DEF AgeInv
<1>9. ASSUME NEW q \in Requests
      PROVE  /\ requestAge'[q] <= MaxRequestAge
             /\ pc'[q] \in {"dropRow", "user", "accepted"} => ~cookie'[q].dead
             /\ pc'[q] \in {"user", "accepted"} => (q \in Live(session[q]))'
  <2>1. CASE q = r
    BY <1>2, <2>1, Constants
  <2>2. CASE q # r
    <3>1. /\ pc'[q] = pc[q] /\ cookie'[q] = cookie[q] /\ requestAge'[q] = requestAge[q]
          /\ session'[q] = session[q]
      BY <1>2, <2>2
    <3>2. (q \in Live(session[q]))' <=> q \in Live(session[q])
      BY <3>1, Zenon DEF Live, Of, IdleExpired
    <3> QED
      BY <3>1, <3>2, Zenon DEF AgeInv
  <2> QED
    BY <2>1, <2>2
<1> QED
  BY <1>7, <1>8, <1>9, Zenon DEF AgeInv

\* Cookies and requests grow older together.
LEMMA TickAges ==
    ASSUME TypeOK, Tick
    PROVE  /\ \A j \in Sessions : Decodes(jar'[j]) =>
                /\ Decodes(jar[j])
                /\ jar'[j].age = jar[j].age + 1 /\ jar'[j].idle = jar[j].idle + 1
                /\ jar'[j].dead = jar[j].dead
           /\ \A r \in Requests :
                /\ cookie'[r].age = IF Decodes(cookie[r]) THEN cookie[r].age + 1 ELSE cookie[r].age
                /\ cookie'[r].idle = cookie[r].idle /\ cookie'[r].dead = cookie[r].dead
                /\ pc'[r] = pc[r] /\ session'[r] = session[r]
                /\ pc[r] # "idle" => /\ requestAge[r] < MaxRequestAge
                                      /\ requestAge'[r] = requestAge[r] + 1
                /\ pc[r] = "idle" => requestAge'[r] = 0
<1>1. ASSUME NEW j \in Sessions, Decodes(jar'[j])
      PROVE  /\ Decodes(jar[j])
             /\ jar'[j].age = jar[j].age + 1 /\ jar'[j].idle = jar[j].idle + 1
             /\ jar'[j].dead = jar[j].dead
  <2> DEFINE k == [age |-> jar[j].age + 1, idle |-> jar[j].idle + 1, dead |-> jar[j].dead]
  <2>1. jar'[j] = k
    BY <1>1, TickCookies, CookieFields, Zenon
  <2>2. k.age = jar[j].age + 1 /\ k.idle = jar[j].idle + 1 /\ k.dead = jar[j].dead
    BY Zenon
  <2> HIDE DEF k
  <2> QED
    BY <1>1, <2>1, <2>2, TickCookies, Zenon
<1>2. ASSUME NEW r \in Requests
      PROVE  /\ cookie'[r].age = IF Decodes(cookie[r]) THEN cookie[r].age + 1 ELSE cookie[r].age
             /\ cookie'[r].idle = cookie[r].idle /\ cookie'[r].dead = cookie[r].dead
  <2>1. CASE Decodes(cookie[r])
    <3> DEFINE k == [age |-> cookie[r].age + 1, idle |-> cookie[r].idle, dead |-> cookie[r].dead]
    <3>1. cookie'[r] = k
      BY <2>1, TickCookies, Zenon
    <3>2. k.age = cookie[r].age + 1 /\ k.idle = cookie[r].idle /\ k.dead = cookie[r].dead
      BY Zenon
    <3> HIDE DEF k
    <3> QED
      BY <2>1, <3>1, <3>2, Zenon
  <2>2. CASE ~Decodes(cookie[r])
    BY <2>2, TickCookies, Zenon
  <2> QED
    BY <2>1, <2>2
<1>3. ASSUME NEW r \in Requests
      PROVE  /\ pc'[r] = pc[r] /\ session'[r] = session[r]
             /\ pc[r] # "idle" => /\ requestAge[r] < MaxRequestAge
                                   /\ requestAge'[r] = requestAge[r] + 1
             /\ pc[r] = "idle" => requestAge'[r] = 0
  BY DEF Tick
<1> QED
  BY <1>1, <1>2, <1>3, Zenon

LEMMA AgeTick ==
    ASSUME TypeOK, AgeInv, Tick
    PROVE  AgeInv'
<1>1. \A r \in Requests, i \in Sessions :
        /\ (r \in Of(i))' <=> r \in Of(i)
        /\ (r \in Live(i))' <=> r \in Live(i)
  BY TickAges, SameRequest, Zenon
<1>2. ASSUME NEW j \in Sessions, Decodes(jar'[j])
      PROVE  /\ jar'[j].age <= jar'[j].idle
             /\ \A r \in Live(j)' : jar'[j].age <= IdleTimeout + requestAge'[r]
  <2>1. /\ Decodes(jar[j])
        /\ jar'[j].age = jar[j].age + 1 /\ jar'[j].idle = jar[j].idle + 1
    BY <1>2, TickAges
  <2>2. jar[j].age <= jar[j].idle
    BY <2>1, Zenon DEF AgeInv
  <2>3. ASSUME NEW r \in Live(j)' PROVE jar'[j].age <= IdleTimeout + requestAge'[r]
    <3>1. r \in Requests /\ r \in Live(j) /\ pc[r] # "idle"
      BY <1>1, Members, Zenon DEF Of
    <3>2. jar[j].age <= IdleTimeout + requestAge[r]
      BY <2>1, <3>1, Zenon DEF AgeInv
    <3>3. requestAge'[r] = requestAge[r] + 1
      BY <3>1, TickAges, Zenon
    <3> QED
      BY <2>1, <3>1, <3>2, <3>3, Numbers, Constants
  <2> QED
    BY <2>1, <2>2, <2>3, Numbers
<1>3. ASSUME NEW j \in Sessions, LiveCookie(j)' \/ Live(j)' # {}, NEW r \in Of(j)'
      PROVE  Recent(r)'
  <2>1. r \in Requests /\ r \in Of(j) /\ pc[r] # "idle"
    BY <1>1, Members, Zenon DEF Of
  <2>2. LiveCookie(j)' => LiveCookie(j)
    <3> SUFFICES ASSUME LiveCookie(j)' PROVE LiveCookie(j)
      OBVIOUS
    <3>1. Decodes(jar'[j]) /\ ~jar'[j].dead /\ jar'[j].idle < IdleTimeout
      BY Zenon DEF LiveCookie
    <3>2. Decodes(jar[j]) /\ ~jar[j].dead /\ jar'[j].idle = jar[j].idle + 1
      BY <3>1, TickAges, Zenon
    <3>3. jar[j].idle < IdleTimeout
      BY <3>1, <3>2, Numbers, Constants
    <3> QED
      BY <3>2, <3>3, Zenon DEF LiveCookie
  <2>3. LiveCookie(j) \/ Live(j) # {}
    <3>1. ASSUME NEW p \in Live(j)' PROVE Live(j) # {}
      BY <1>1, Members, Zenon
    <3> QED
      BY <1>3, <2>2, <3>1, Zenon
  <2>4. cookie[r].age <= IdleTimeout + MaxRequestAge + requestAge[r]
    BY <2>1, <2>3, Zenon DEF AgeInv, Recent
  <2>5. /\ cookie'[r].age = IF Decodes(cookie[r]) THEN cookie[r].age + 1 ELSE cookie[r].age
        /\ requestAge'[r] = requestAge[r] + 1
    BY <2>1, TickAges, Zenon
  <2> QED
    BY <2>1, <2>4, <2>5, Numbers, Constants DEF Recent
<1>4. ASSUME NEW r \in Requests
      PROVE  /\ requestAge'[r] <= MaxRequestAge
             /\ pc'[r] \in {"dropRow", "user", "accepted"} => ~cookie'[r].dead
             /\ pc'[r] \in {"user", "accepted"} => (r \in Live(session[r]))'
  <2>1. /\ cookie'[r].dead = cookie[r].dead /\ cookie'[r].idle = cookie[r].idle
        /\ pc'[r] = pc[r] /\ session'[r] = session[r]
    BY TickAges, Zenon
  <2>2. requestAge'[r] <= MaxRequestAge
    BY TickAges, Numbers, Constants
  <2>3. (r \in Live(session[r]))' <=> r \in Live(session[r])
    BY <2>1, Zenon DEF Live, Of, IdleExpired
  <2> QED
    BY <2>1, <2>2, <2>3, Zenon DEF AgeInv
<1> QED
  BY <1>2, <1>3, <1>4, Zenon DEF AgeInv

LEMMA AgeStep ==
    TypeOK /\ TypeOK' /\ AgeInv /\ VersionInv /\ IdleGap /\ [Next]_vars => AgeInv'
  BY Renewals, AgeKept, AgeIssue, AgeStart, AgeRefresh, AgeTick
-------------------------------------------------------------------------------
(***************************************************************************)
(* Revocation                                                              *)
(***************************************************************************)
\* Only a session whose cookie has been issued is revoked or logged out.
LEMMA IssuedStep == TypeOK /\ VersionInv /\ IssuedInv /\ [Next]_vars => IssuedInv'
<1> SUFFICES ASSUME TypeOK, VersionInv, IssuedInv, [Next]_vars PROVE IssuedInv'
  OBVIOUS
<1> USE DEF account, logins, table, requests
<1>1. ASSUME NEW j \in Sessions, FindLogin(j) \/ GrantLogin(j) \/ IssueCookie(j)
      PROVE  IssuedInv'
  <2>1. /\ login[j] # "issued" /\ UNCHANGED <<table, loggedOut>>
        /\ \A i \in Sessions \ {j} : login'[i] = login[i]
    BY <1>1 DEF TypeOK, FindLogin, GrantLogin, IssueCookie
  <2> QED
    BY <2>1, Zenon DEF IssuedInv, IsIssued
<1>2. ASSUME NEW r \in Requests, session[r] \in Sessions, pc[r] # "idle",
             UNCHANGED logins,
             \A i \in Sessions \ {session[r]} : revoked'[i] = revoked[i] /\ loggedOut'[i] = loggedOut[i]
      PROVE  IssuedInv'
  BY <1>2, Zenon DEF IssuedInv, VersionInv, IsIssued
<1>3. ASSUME UNCHANGED logins,
             \A i \in Sessions : /\ revoked'[i] => revoked[i]
                                 /\ loggedOut'[i] = loggedOut[i]
      PROVE  IssuedInv'
  BY <1>3, Zenon DEF IssuedInv, IsIssued
<1>4. ASSUME NEW j \in Sessions, CleanUp(j) PROVE IssuedInv'
  <2>1. UNCHANGED <<logins, loggedOut>>
    BY <1>4 DEF CleanUp
  <2>2. \A i \in Sessions : revoked'[i] => revoked[i]
    BY <1>4, Zenon DEF TypeOK, CleanUp
  <2> QED
    BY <1>3, <2>1, <2>2
<1>5. ASSUME NEW r \in Requests, DropRevocation(r) \/ RevokeJti(r) \/ ConfirmLogout(r)
      PROVE  IssuedInv'
  <2>1. session[r] \in Sessions /\ pc[r] # "idle" /\ UNCHANGED logins
    BY <1>5 DEF TypeOK, DropRevocation, RevokeJti, ConfirmLogout
  <2>2. \A i \in Sessions \ {session[r]} : revoked'[i] = revoked[i]
    BY <1>5, <2>1, Zenon DEF TypeOK, DropRevocation, RevokeJti, ConfirmLogout
  <2>3. \A i \in Sessions \ {session[r]} : loggedOut'[i] = loggedOut[i]
    BY <1>5, <2>1, Zenon DEF TypeOK, DropRevocation, RevokeJti, ConfirmLogout
  <2> QED
    BY <1>2, <2>1, <2>2, <2>3
<1>6. ASSUME UNCHANGED <<logins, revoked, loggedOut>> PROVE IssuedInv'
  BY <1>3, <1>6
<1>7. ASSUME NEW r \in Requests,
             \/ \E j \in Sessions, k \in Kinds : StartRequest(r, j, k)
             \/ LookUpRevocation(r) \/ CheckUser(r) \/ AnswerPage(r) \/ AnswerRefresh(r)
             \/ LogoutAll(r) \/ Fail(r)
      PROVE  IssuedInv'
  <2>1. UNCHANGED <<logins, revoked, loggedOut>>
    BY <1>7 DEF StartRequest, LookUpRevocation, CheckUser, AnswerPage, AnswerRefresh,
                LogoutAll, Fail
  <2> QED
    BY <1>6, <2>1
<1>8. ASSUME ResetPassword \/ SoftDeleteUser \/ Tick \/ UNCHANGED vars PROVE IssuedInv'
  BY <1>6, <1>8 DEF ResetPassword, SoftDeleteUser, Tick, vars
<1> QED
  BY <1>1, <1>4, <1>5, <1>7, <1>8 DEF Next, RequestStep

\* A session with nothing to protect stays so until something is renewed.
LEMMA SpentKept ==
    ASSUME NoneRenewed, NEW j \in Sessions, Spent(j)
    PROVE  Spent(j)'
<1>1. ~LiveCookie(j)'
  BY LiveShrinks, Zenon DEF Spent
<1>2. ASSUME NEW r \in Live(j)' PROVE pc'[r] \in {"user", "accepted"} /\ kind'[r] # "refresh"
  <2>1. r \in Live(j) /\ r \in Requests
    BY LiveShrinks, Members
  <2>2. pc[r] \in {"user", "accepted"} /\ kind[r] # "refresh"
    BY <2>1, Zenon DEF Spent
  <2>3. pc'[r] \in {"lookup", "dropRow", "user", "accepted"}
    BY DEF Live
  <2>4. /\ kind'[r] = kind[r]
        /\ pc'[r] # "lookup" /\ pc'[r] # "dropRow"
    BY <2>1, <2>2, <2>3 DEF NoneRenewed
  <2> QED
    BY <2>2, <2>3, <2>4
<1> QED
  BY <1>1, <1>2, Zenon DEF Spent

\* Then nothing has to be protected by a row.
LEMMA SpentProtected ==
    ASSUME NoneRenewed, NEW j \in Sessions, Spent(j), Protected(j)
    PROVE  Protected(j)'
<1>1. ASSUME NEW r \in Live(j)'
      PROVE  pc'[r] # "lookup" /\ kind'[r] # "refresh" /\ ~tooLate'[r]
  <2>1. r \in Live(j) /\ r \in Requests /\ pc'[r] # "idle"
    BY LiveShrinks, Members DEF Live
  <2>2. pc[r] \in {"user", "accepted"}
    BY <2>1, Zenon DEF Spent
  <2>3. ~tooLate[r]
    BY <2>1, <2>2 DEF Protected
  <2>4. tooLate'[r] = tooLate[r]
    BY <2>1, Zenon DEF NoneRenewed
  <2>5. pc'[r] \in {"user", "accepted"} /\ kind'[r] # "refresh"
    BY SpentKept, Zenon DEF Spent
  <2> QED
    BY <2>3, <2>4, <2>5
<1> QED
  BY <1>1, SpentKept, Zenon DEF Protected, Spent

\* Or a row goes on to protect what it did.
LEMMA RowProtects ==
    ASSUME NoneRenewed, NEW j \in Sessions, Protected(j),
           revoked'[j] = revoked[j], timeLeft'[j] = timeLeft[j],
           \A r \in Live(j) : pc[r] = "lookup" => pc'[r] \notin {"dropRow", "user", "accepted"}
    PROVE  Protected(j)'
<1>1. LiveCookie(j)' => Outlasts(j, IdleTimeout + MaxRequestAge, jar[j].idle)'
  <2>1. LiveCookie(j)' => LiveCookie(j) /\ jar'[j] = jar[j]
    BY LiveShrinks, Zenon DEF NoneRenewed, LiveCookie
  <2> QED
    BY <2>1, Zenon DEF Protected, Outlasts
<1>2. ASSUME NEW r \in Live(j)'
      PROVE  /\ pc'[r] = "lookup" => Outlasts(j, 1 + MaxRequestAge, requestAge[r])'
             /\ pc'[r] # "lookup" /\ kind'[r] = "refresh" =>
                    Outlasts(j, IdleTimeout + MaxRequestAge, requestAge[r])'
             /\ pc'[r] # "lookup" => ~tooLate'[r]
  <2>1. r \in Live(j) /\ r \in Requests
    BY LiveShrinks, Members
  <2>2. pc'[r] \in {"lookup", "dropRow", "user", "accepted"}
    BY DEF Live
  <2>3. /\ kind'[r] = kind[r] /\ requestAge'[r] = requestAge[r] /\ tooLate'[r] = tooLate[r]
        /\ pc'[r] = "lookup" => pc[r] = "lookup"
    BY <2>1, <2>2, Zenon DEF NoneRenewed
  <2>4. pc'[r] # "lookup" => pc[r] # "lookup"
    BY <2>1, <2>2
  <2> QED
    BY <2>1, <2>3, <2>4, Zenon DEF Protected, Outlasts
<1> QED
  BY <1>1, <1>2, Zenon DEF Protected

\* A row whose time is over has outlived what it had to.
LEMMA ExpiredIsSpent ==
    ASSUME TypeOK, AgeInv, RevocationInv, NEW j \in Sessions, revoked[j], timeLeft[j] = 0
    PROVE  Spent(j)
<1>1. Protected(j)
  BY Zenon DEF RevocationInv, Marked
<1>2. ~LiveCookie(j)
  <2> SUFFICES ASSUME LiveCookie(j) PROVE FALSE
    OBVIOUS
  <2>1. jar[j].idle < IdleTimeout /\ timeLeft[j] + jar[j].idle >= IdleTimeout + MaxRequestAge
    BY <1>1, Zenon DEF Protected, Outlasts, LiveCookie
  <2> QED
    BY <2>1, Numbers, Constants
<1>3. ASSUME NEW r \in Live(j) PROVE pc[r] \in {"user", "accepted"} /\ kind[r] # "refresh"
  <2>1. /\ r \in Requests /\ r \in Of(j) /\ session[r] = j
        /\ pc[r] \in {"lookup", "dropRow", "user", "accepted"}
    BY Members, Zenon DEF Live, Of
  <2>2. requestAge[r] <= MaxRequestAge
    BY <2>1, Zenon DEF AgeInv
  <2>3. pc[r] # "lookup"
    <3> SUFFICES ASSUME pc[r] = "lookup" PROVE FALSE
      OBVIOUS
    <3>1. timeLeft[j] + requestAge[r] >= 1 + MaxRequestAge
      BY <1>1, Zenon DEF Protected, Outlasts
    <3> QED
      BY <2>1, <2>2, <3>1, Numbers, Constants
  <2>4. kind[r] # "refresh"
    <3> SUFFICES ASSUME kind[r] = "refresh" PROVE FALSE
      OBVIOUS
    <3>1. timeLeft[j] + requestAge[r] >= IdleTimeout + MaxRequestAge
      BY <1>1, <2>3, Zenon DEF Protected, Outlasts
    <3> QED
      BY <2>1, <2>2, <3>1, Numbers, Constants
  <2>5. pc[r] # "dropRow"
    <3> SUFFICES ASSUME pc[r] = "dropRow" PROVE FALSE
      OBVIOUS
    <3>1. Spent(j)
      BY <2>1, Zenon DEF RevocationInv
    <3>2. pc[r] \in {"user", "accepted"}
      BY <3>1, Zenon DEF Spent
    <3> QED
      BY <3>2
  <2> QED
    BY <2>1, <2>3, <2>4, <2>5
<1> QED
  BY <1>2, <1>3, Zenon DEF Spent

\* What is left to show of a step that renews nothing.
LEMMA RevocationKept ==
    ASSUME TypeOK, RevocationInv, NoneRenewed,
           \A j \in Sessions : loggedOut[j] => loggedOut'[j],
           \A r \in Requests : pc'[r] = "dropRow" => pc[r] = "dropRow" \/ Spent(session[r]),
           \A j \in Sessions : Marked(j)' => Protected(j)'
    PROVE  RevocationInv'
<1>1. ASSUME NEW r \in Requests, pc'[r] # "idle", tooLate'[r]
      PROVE  loggedOut'[session'[r]]
  <2>1. pc[r] # "idle" /\ session'[r] = session[r] /\ tooLate'[r] = tooLate[r]
    BY <1>1, Zenon DEF NoneRenewed
  <2>2. session[r] \in Sessions
    BY <2>1 DEF TypeOK
  <2> QED
    BY <1>1, <2>1, <2>2, Zenon DEF RevocationInv
<1>2. ASSUME NEW r \in Requests, pc'[r] = "dropRow" PROVE Spent(session[r])'
  <2>1. pc[r] # "idle" /\ session'[r] = session[r]
    BY <1>2 DEF NoneRenewed
  <2>2. PICK j \in Sessions : j = session[r]
    BY <2>1 DEF TypeOK
  <2>3. Spent(j)
    BY <1>2, <2>2, Zenon DEF RevocationInv
  <2>4. Spent(j)'
    BY <2>3, SpentKept
  <2> QED
    BY <2>1, <2>2, <2>4, Zenon
<1> QED
  BY <1>1, <1>2, Zenon DEF RevocationInv

\* A step that leaves the rows alone and moves no request past the look-up.
LEMMA RevocationCalm ==
    ASSUME TypeOK, RevocationInv, NoneRenewed, UNCHANGED table,
           \A j \in Sessions : loggedOut[j] => loggedOut'[j],
           \A j \in Sessions : loggedOut'[j] =>
                loggedOut[j] \/ \E r \in Of(j) : pc[r] \in {"confirm", "dropRow"},
           \A r \in Requests : pc'[r] \in {"confirm", "dropRow"} => pc'[r] = pc[r],
           \A r \in Requests : pc[r] = "lookup" => pc'[r] \notin {"dropRow", "user", "accepted"}
    PROVE  RevocationInv'
<1>1. ASSUME NEW j \in Sessions, Marked(j)' PROVE Marked(j)
  <2>1. revoked'[j] => revoked[j]
    BY Zenon DEF table
  <2>2. ASSUME NEW r \in Of(j)', pc'[r] \in {"confirm", "dropRow"}
        PROVE  r \in Of(j) /\ pc[r] \in {"confirm", "dropRow"}
    <3>1. r \in Requests /\ r \in Of(j)
      BY LiveShrinks, Members
    <3>2. pc'[r] = pc[r]
      BY <2>2, <3>1
    <3> QED
      BY <2>2, <3>1, <3>2, Zenon
  <2>3. CASE revoked'[j]
    BY <2>1, <2>3, Zenon DEF Marked
  <2>4. CASE loggedOut'[j]
    BY <2>4, Zenon DEF Marked
  <2>5. CASE \E r \in Of(j)' : pc'[r] \in {"confirm", "dropRow"}
    BY <2>2, <2>5, Zenon DEF Marked
  <2> QED
    BY <1>1, <2>3, <2>4, <2>5, Zenon DEF Marked
<1>2. ASSUME NEW j \in Sessions, Marked(j)' PROVE Protected(j)'
  <2>1. Protected(j)
    BY <1>1, <1>2, Zenon DEF RevocationInv
  <2>2. revoked'[j] = revoked[j] /\ timeLeft'[j] = timeLeft[j]
    BY Zenon DEF table
  <2>3. \A r \in Live(j) : pc[r] = "lookup" => pc'[r] \notin {"dropRow", "user", "accepted"}
    BY Members, Zenon
  <2> QED
    BY <2>1, <2>2, <2>3, RowProtects
<1>3. \A r \in Requests : pc'[r] = "dropRow" => pc[r] = "dropRow"
  OBVIOUS
<1> QED
  BY <1>2, <1>3, RevocationKept

\* Steps of one request r of session j that may change the row of j: the other
\* sessions are not concerned.
LEMMA OtherSessions ==
    ASSUME TypeOK, RevocationInv, NoneRenewed, NEW j \in Sessions, NEW r \in Of(j),
           \A q \in Requests \ {r} : pc'[q] = pc[q],
           UNCHANGED loggedOut,
           NEW i \in Sessions, i # j,
           revoked'[i] = revoked[i], timeLeft'[i] = timeLeft[i], Marked(i)'
    PROVE  Protected(i)'
<1>1. \A q \in Of(i) : q \in Requests \ {r}
  BY DEF Of
<1>2. Marked(i)
  <2>1. ASSUME NEW q \in Of(i)', pc'[q] \in {"confirm", "dropRow"} PROVE Marked(i)
    <3>1. q \in Of(i) /\ pc'[q] = pc[q]
      BY <1>1, LiveShrinks
    <3> QED
      BY <2>1, <3>1, Zenon DEF Marked
  <2>2. CASE \E q \in Of(i)' : pc'[q] \in {"confirm", "dropRow"}
    BY <2>1, <2>2, Zenon
  <2>3. CASE revoked'[i] \/ loggedOut'[i]
    BY <2>3, Zenon DEF Marked
  <2> QED
    BY <2>2, <2>3, Zenon DEF Marked
<1>3. Protected(i)
  BY <1>2, Zenon DEF RevocationInv
<1>4. ASSUME NEW q \in Live(i), pc[q] = "lookup" PROVE pc'[q] \notin {"dropRow", "user", "accepted"}
  <2>1. pc'[q] = pc[q]
    BY <1>1, Members, Zenon
  <2> QED
    BY <1>4, <2>1
<1> QED
  BY <1>3, <1>4, RowProtects

\* A logout writes a row that lasts: the cookie it came with is recent, if
\* anything of the session is live.
LEMMA RevocationWrite ==
    ASSUME TypeOK, AgeInv, RevocationInv, NoneRenewed, IdleGap, NEW r \in Requests, RevokeJti(r)
    PROVE  RevocationInv'
<1>1. PICK j \in Sessions : j = session[r]
  BY DEF TypeOK, RevokeJti
<1>2. /\ pc[r] \in {"accepted", "rejected"} /\ UNCHANGED loggedOut
      /\ pc'[r] = "confirm" /\ \A q \in Requests \ {r} : pc'[q] = pc[q]
      /\ Decodes(cookie[r]) => revoked'[j] /\ timeLeft'[j] = MaxAge - cookie[r].age
      /\ ~Decodes(cookie[r]) => UNCHANGED table
      /\ \A i \in Sessions \ {j} : revoked'[i] = revoked[i] /\ timeLeft'[i] = timeLeft[i]
  BY <1>1, Zenon DEF TypeOK, RevokeJti, Goto, table
<1>3. r \in Of(j)
  BY <1>1, <1>2 DEF Of
<1>4. ASSUME LiveCookie(j) \/ Live(j) # {}
      PROVE  revoked'[j] /\ timeLeft'[j] \in Nat /\ timeLeft'[j] >= IdleTimeout + MaxRequestAge
  <2>1. cookie[r].age <= IdleTimeout + MaxRequestAge + requestAge[r]
    BY <1>3, <1>4, Zenon DEF AgeInv, Recent
  <2>2. requestAge[r] <= MaxRequestAge
    BY Zenon DEF AgeInv
  <2>3. cookie[r].age < MaxAge /\ MaxAge - cookie[r].age >= IdleTimeout + MaxRequestAge
        /\ MaxAge - cookie[r].age \in Nat
    BY <2>1, <2>2, Numbers, Constants DEF IdleGap
  <2> QED
    BY <1>2, <2>3, Zenon DEF Decodes
<1>5. Protected(j)'
  <2>1. ASSUME LiveCookie(j)' PROVE Outlasts(j, IdleTimeout + MaxRequestAge, jar[j].idle)'
    <3>1. LiveCookie(j) /\ jar'[j] = jar[j]
      BY <2>1, LiveShrinks, Zenon DEF NoneRenewed, LiveCookie
    <3>2. timeLeft'[j] + jar'[j].idle >= IdleTimeout + MaxRequestAge
      BY <1>4, <3>1, Numbers, Constants
    <3> QED
      BY <1>4, <3>1, <3>2, Zenon DEF Outlasts
  <2>2. ASSUME NEW q \in Live(j)'
        PROVE  /\ Outlasts(j, 1 + MaxRequestAge, requestAge[q])'
               /\ Outlasts(j, IdleTimeout + MaxRequestAge, requestAge[q])'
               /\ pc'[q] # "lookup" => ~tooLate'[q]
    <3>1. q \in Requests /\ q \in Live(j)
      BY LiveShrinks, Members
    <3>2. pc'[q] \in {"lookup", "dropRow", "user", "accepted"}
      BY DEF Live
    <3>3. /\ requestAge'[q] = requestAge[q] /\ tooLate'[q] = tooLate[q]
          /\ session[q] = j /\ pc[q] # "idle"
      BY <3>1, <3>2, Zenon DEF NoneRenewed, Live, Of
    <3>4. timeLeft'[j] + requestAge'[q] >= 1 + MaxRequestAge
          /\ timeLeft'[j] + requestAge'[q] >= IdleTimeout + MaxRequestAge
      BY <1>4, <3>1, <3>3, Numbers, Constants
    <3>5. pc'[q] = pc[q]
      BY <1>2, <3>1, <3>2
    <3>6. ASSUME pc[q] # "lookup", tooLate[q] PROVE FALSE
      <4>1. Marked(j)
        BY <3>1, <3>3, <3>6, Zenon DEF RevocationInv, Marked
      <4> QED
        BY <3>1, <3>6, <4>1, Zenon DEF RevocationInv, Protected
    <3> QED
      BY <1>4, <3>1, <3>3, <3>4, <3>5, <3>6, Zenon DEF Outlasts
  <2> QED
    BY <2>1, <2>2, Zenon DEF Protected
<1>6. ASSUME NEW i \in Sessions, Marked(i)' PROVE Protected(i)'
  <2>1. CASE i = j
    BY <1>5, <2>1
  <2>2. CASE i # j
    BY <1>2, <1>3, <1>6, <2>2, OtherSessions
  <2> QED
    BY <2>1, <2>2
<1>7. \A q \in Requests : pc'[q] = "dropRow" => pc[q] = "dropRow"
  BY <1>2
<1>8. \A i \in Sessions : loggedOut[i] => loggedOut'[i]
  BY <1>2, Zenon
<1> QED
  BY <1>6, <1>7, <1>8, RevocationKept

\* The look-up: a live request of a revoked session finds a row that counts.
LEMMA RevocationLookUp ==
    ASSUME TypeOK, AgeInv, RevocationInv, NoneRenewed, NEW r \in Requests, LookUpRevocation(r)
    PROVE  RevocationInv'
<1>1. PICK j \in Sessions : j = session[r]
  BY DEF TypeOK, LookUpRevocation
<1>2. /\ pc[r] = "lookup" /\ UNCHANGED <<table, loggedOut>>
      /\ UNCHANGED <<session, kind, cookie>>
      /\ pc'[r] = (IF cookie[r].dead \/ (revoked[j] /\ timeLeft[j] > 0) THEN "rejected"
                   ELSE IF revoked[j] THEN "dropRow"
                   ELSE IF IdleExpired(r) THEN "rejected" ELSE "user")
      /\ \A q \in Requests \ {r} : pc'[q] = pc[q]
  BY <1>1, Zenon DEF TypeOK, LookUpRevocation, Goto
<1>3. r \in Of(j)
  BY <1>1, <1>2 DEF Of
<1>4. \A i \in Sessions : revoked'[i] = revoked[i] /\ timeLeft'[i] = timeLeft[i]
  BY <1>2, Zenon DEF table
<1>5. \A i \in Sessions : loggedOut[i] => loggedOut'[i]
  BY <1>2, Zenon
<1>6. CASE pc'[r] = "rejected"
  <2>1. \A q \in Requests : pc'[q] \in {"confirm", "dropRow"} => pc'[q] = pc[q]
    BY <1>2, <1>6
  <2>2. \A q \in Requests : pc[q] = "lookup" => pc'[q] \notin {"dropRow", "user", "accepted"}
    BY <1>2, <1>6
  <2>3. \A i \in Sessions : loggedOut'[i] => loggedOut[i]
    BY <1>2, Zenon
  <2> QED
    BY <1>2, <1>5, <2>1, <2>2, <2>3, RevocationCalm
<1>7. CASE pc'[r] = "dropRow"
  <2>1. revoked[j] /\ ~(timeLeft[j] > 0)
    BY <1>2, <1>7, Zenon
  <2>2. timeLeft[j] = 0
    BY <2>1, Numbers
  <2>3. Spent(j) /\ Protected(j)
    BY <2>1, <2>2, ExpiredIsSpent, Zenon DEF RevocationInv, Marked
  <2>4. ASSUME NEW i \in Sessions, Marked(i)' PROVE Protected(i)'
    <3>1. CASE i = j
      BY <2>3, <3>1, SpentProtected
    <3>2. CASE i # j
      BY <1>2, <1>3, <1>4, <2>4, <3>2, OtherSessions
    <3> QED
      BY <3>1, <3>2
  <2>5. \A q \in Requests : pc'[q] = "dropRow" => pc[q] = "dropRow" \/ Spent(session[q])
    BY <1>1, <1>2, <2>3, Zenon
  <2> QED
    BY <1>5, <2>4, <2>5, RevocationKept
<1>8. CASE pc'[r] = "user"
  <2>1. ~revoked[j] /\ ~cookie[r].dead /\ ~IdleExpired(r)
    BY <1>2, <1>8, Zenon
  <2>2. r \in Live(j)
    BY <1>2, <1>3, <2>1, Zenon DEF Live
  <2>3. ~Marked(j)
    BY <1>2, <2>1, <2>2, Zenon DEF RevocationInv, Protected, Outlasts
  <2>4. ~Marked(j)'
    <3>1. ASSUME NEW q \in Of(j)', pc'[q] \in {"confirm", "dropRow"} PROVE FALSE
      <4>1. q \in Requests /\ q \in Of(j)
        BY LiveShrinks, Members
      <4>2. pc'[q] = pc[q]
        BY <1>2, <1>8, <3>1, <4>1
      <4> QED
        BY <2>3, <3>1, <4>1, <4>2, Zenon DEF Marked
    <3>2. ~revoked'[j] /\ ~loggedOut'[j]
      BY <1>2, <1>4, <2>3, Zenon DEF Marked
    <3> QED
      BY <3>1, <3>2, Zenon DEF Marked
  <2>5. ASSUME NEW i \in Sessions, Marked(i)' PROVE Protected(i)'
    <3>1. i # j
      BY <2>4, <2>5, Zenon
    <3> QED
      BY <1>2, <1>3, <1>4, <2>5, <3>1, OtherSessions
  <2>6. \A q \in Requests : pc'[q] = "dropRow" => pc[q] = "dropRow"
    BY <1>2, <1>8
  <2> QED
    BY <1>5, <2>5, <2>6, RevocationKept
<1> QED
  BY <1>2, <1>6, <1>7, <1>8, Zenon

\* A row is deleted when nothing live is left that it had to stop.
LEMMA RevocationDelete ==
    ASSUME TypeOK, AgeInv, RevocationInv, NoneRenewed,
           \/ \E r \in Requests : DropRevocation(r)
           \/ \E j \in Sessions : CleanUp(j)
    PROVE  RevocationInv'
<1>1. ASSUME NEW r \in Requests, DropRevocation(r) PROVE RevocationInv'
  <2>1. PICK j \in Sessions : j = session[r]
    BY <1>1 DEF TypeOK, DropRevocation
  <2>2. /\ pc[r] = "dropRow" /\ UNCHANGED loggedOut
        /\ pc'[r] \in {"rejected", "user"} /\ \A q \in Requests \ {r} : pc'[q] = pc[q]
    BY <1>1, Zenon DEF TypeOK, DropRevocation, Goto
  <2>3. \A i \in Sessions \ {j} : revoked'[i] = revoked[i] /\ timeLeft'[i] = timeLeft[i]
    <3>1. CASE UNCHANGED table
      BY <3>1, Zenon DEF table
    <3>2. CASE /\ revoked' = [revoked EXCEPT ![j] = FALSE]
               /\ timeLeft' = [timeLeft EXCEPT ![j] = 0]
      BY <3>2, Zenon DEF TypeOK
    <3> QED
      BY <1>1, <2>1, <3>1, <3>2, Zenon DEF DropRevocation
  <2>4. r \in Of(j)
    BY <2>1, <2>2 DEF Of
  <2>5. Spent(j) /\ Protected(j)
    BY <2>1, <2>2, <2>4, Zenon DEF RevocationInv, Marked
  <2>6. ASSUME NEW i \in Sessions, Marked(i)' PROVE Protected(i)'
    <3>1. CASE i = j
      BY <2>5, <3>1, SpentProtected
    <3>2. CASE i # j
      BY <2>2, <2>3, <2>4, <2>6, <3>2, OtherSessions
    <3> QED
      BY <3>1, <3>2
  <2>7. \A q \in Requests : pc'[q] = "dropRow" => pc[q] = "dropRow"
    BY <2>2
  <2>8. \A i \in Sessions : loggedOut[i] => loggedOut'[i]
    BY <2>2, Zenon
  <2> QED
    BY <2>6, <2>7, <2>8, RevocationKept
<1>2. ASSUME NEW j \in Sessions, CleanUp(j) PROVE RevocationInv'
  <2>1. /\ revoked[j] /\ timeLeft[j] = 0 /\ UNCHANGED <<timeLeft, loggedOut, pc, session>>
    BY <1>2, Zenon DEF CleanUp, requests
  <2>2. \A i \in Sessions \ {j} : revoked'[i] = revoked[i]
    BY <1>2, Zenon DEF TypeOK, CleanUp
  <2>3. Spent(j) /\ Protected(j)
    BY <2>1, ExpiredIsSpent, Zenon DEF RevocationInv, Marked
  <2>4. ASSUME NEW i \in Sessions, Marked(i)' PROVE Protected(i)'
    <3>1. CASE i = j
      BY <2>3, <3>1, SpentProtected
    <3>2. CASE i # j
      <4>1. revoked'[i] = revoked[i] /\ timeLeft'[i] = timeLeft[i]
        BY <2>1, <2>2, <3>2
      <4>2. Marked(i)
        <5>1. Of(i)' = Of(i)
          BY <2>1, Zenon DEF Of
        <5> QED
          BY <2>1, <2>4, <4>1, <5>1, Zenon DEF Marked
      <4>3. Protected(i)
        BY <4>2, Zenon DEF RevocationInv
      <4>4. \A q \in Live(i) : pc[q] = "lookup" => pc'[q] \notin {"dropRow", "user", "accepted"}
        BY <2>1
      <4> QED
        BY <4>1, <4>3, <4>4, RowProtects
    <3> QED
      BY <3>1, <3>2
  <2>5. \A q \in Requests : pc'[q] = "dropRow" => pc[q] = "dropRow"
    BY <2>1
  <2>6. \A i \in Sessions : loggedOut[i] => loggedOut'[i]
    BY <2>1, Zenon
  <2> QED
    BY <2>4, <2>5, <2>6, RevocationKept
<1> QED
  BY <1>1, <1>2

\* A session that gets its cookie has not been revoked.
LEMMA RevocationIssue ==
    ASSUME TypeOK, VersionInv, IssuedInv, RevocationInv, NEW j \in Sessions, IssueCookie(j)
    PROVE  RevocationInv'
<1>1. /\ UNCHANGED <<revoked, timeLeft, loggedOut>>
      /\ UNCHANGED <<pc, kind, session, cookie, requestAge, tooLate>>
      /\ \A i \in Sessions \ {j} : jar'[i] = jar[i]
      /\ login[j] = "granted"
  BY Zenon DEF TypeOK, IssueCookie, table, requests
<1>2. \A i \in Sessions : Of(i)' = Of(i) /\ Live(i)' = Live(i)
  BY <1>1, Zenon DEF Of, Live, IdleExpired
<1>3. \A i \in Sessions : Marked(i)' => Marked(i)
  BY <1>1, <1>2, Zenon DEF Marked
<1>4. ~IsIssued(j)
  BY <1>1 DEF IsIssued
<1>5. Of(j) = {}
  BY <1>4, Zenon DEF VersionInv, Of
<1>6. ~Marked(j)
  BY <1>4, <1>5, Zenon DEF IssuedInv, Marked
<1>7. ASSUME NEW i \in Sessions, Marked(i)' PROVE Protected(i)'
  <2>1. i # j /\ Protected(i)
    BY <1>3, <1>6, <1>7, Zenon DEF RevocationInv
  <2>2. jar'[i] = jar[i]
    BY <1>1, <2>1
  <2> QED
    BY <1>1, <1>2, <2>1, <2>2, Zenon DEF Protected, Outlasts, LiveCookie
<1>8. ASSUME NEW r \in Requests, pc'[r] = "dropRow" PROVE Spent(session[r])'
  <2>1. PICK i \in Sessions : i = session[r]
    BY <1>1, <1>8 DEF TypeOK
  <2>2. r \in Of(i) /\ Spent(i)
    <3>1. r \in Of(i)
      BY <1>1, <1>8, <2>1 DEF Of
    <3> QED
      BY <1>1, <1>8, <2>1, <3>1, Zenon DEF RevocationInv
  <2>3. jar'[i] = jar[i]
    BY <1>1, <1>5, <2>2
  <2>4. Spent(i)'
    BY <1>1, <1>2, <2>2, <2>3, Zenon DEF Spent, LiveCookie
  <2> QED
    BY <1>1, <2>1, <2>4, Zenon
<1> QED
  BY <1>1, <1>7, <1>8, Zenon DEF RevocationInv

\* A request that starts finds what protected the cookie it comes with.
LEMMA RevocationStart ==
    ASSUME TypeOK, RevocationInv, NEW r \in Requests, NEW j \in Sessions, NEW k \in Kinds,
           StartRequest(r, j, k)
    PROVE  RevocationInv'
<1>1. /\ pc[r] = "idle" /\ Decodes(jar[j]) /\ UNCHANGED <<jar, revoked, timeLeft, loggedOut>>
      /\ pc'[r] = "lookup" /\ session'[r] = j /\ cookie'[r] = jar[j] /\ requestAge'[r] = 0
      /\ tooLate'[r] = loggedOut[j]
      /\ \A q \in Requests \ {r} : /\ pc'[q] = pc[q] /\ session'[q] = session[q]
                                   /\ cookie'[q] = cookie[q] /\ requestAge'[q] = requestAge[q]
                                   /\ kind'[q] = kind[q] /\ tooLate'[q] = tooLate[q]
  BY Zenon DEF TypeOK, StartRequest, Goto, table
<1>2. \A q \in Requests \ {r}, i \in Sessions :
        /\ (q \in Of(i))' <=> q \in Of(i)
        /\ (q \in Live(i))' <=> q \in Live(i)
  BY <1>1, SameRequest, Zenon
<1>3. \A i \in Sessions : LiveCookie(i)' <=> LiveCookie(i)
  BY <1>1, Zenon DEF LiveCookie
<1>4. \A i \in Sessions : (r \in Of(i))' => i = j
  BY <1>1, Zenon DEF Of
<1>5. \A i \in Sessions : (r \in Live(i))' => i = j /\ LiveCookie(j)
  <2> SUFFICES ASSUME NEW i \in Sessions, (r \in Live(i))' PROVE i = j /\ LiveCookie(j)
    BY Zenon
  <2>1. ~cookie'[r].dead /\ ~(cookie'[r].idle >= IdleTimeout)
    BY Zenon DEF Live, IdleExpired
  <2>2. jar[j].idle < IdleTimeout
    BY <1>1, <2>1, Numbers, Constants
  <2>3. LiveCookie(j)
    BY <1>1, <2>1, <2>2, Zenon DEF LiveCookie
  <2> QED
    BY <1>4, <2>3, Members, Zenon
<1>6. ASSUME NEW i \in Sessions, Marked(i)' PROVE Marked(i)
  <2>1. ASSUME NEW q \in Of(i)', pc'[q] \in {"confirm", "dropRow"} PROVE Marked(i)
    <3>1. q \in Requests
      BY Members, Zenon
    <3>2. q # r
      BY <1>1, <2>1
    <3>3. q \in Of(i) /\ pc'[q] = pc[q]
      BY <1>1, <1>2, <3>1, <3>2, Zenon
    <3> QED
      BY <2>1, <3>3, Zenon DEF Marked
  <2> QED
    BY <1>1, <1>6, <2>1, Zenon DEF Marked
<1>7. ASSUME NEW i \in Sessions, Marked(i)' PROVE Protected(i)'
  <2>1. Protected(i)
    BY <1>6, <1>7, Zenon DEF RevocationInv
  <2>2. LiveCookie(i)' => Outlasts(i, IdleTimeout + MaxRequestAge, jar[i].idle)'
    BY <1>1, <1>3, <2>1, Zenon DEF Protected, Outlasts
  <2>3. ASSUME NEW q \in Live(i)'
        PROVE  /\ pc'[q] = "lookup" => Outlasts(i, 1 + MaxRequestAge, requestAge[q])'
               /\ pc'[q] # "lookup" /\ kind'[q] = "refresh" =>
                      Outlasts(i, IdleTimeout + MaxRequestAge, requestAge[q])'
               /\ pc'[q] # "lookup" => ~tooLate'[q]
    <3>1. CASE q = r
      <4>1. i = j /\ LiveCookie(j)
        BY <1>5, <3>1, Zenon
      <4>2. revoked[j] /\ timeLeft[j] + jar[j].idle >= IdleTimeout + MaxRequestAge
            /\ jar[j].idle < IdleTimeout
        BY <2>1, <4>1, Zenon DEF Protected, Outlasts, LiveCookie
      <4>3. timeLeft[j] + 0 >= 1 + MaxRequestAge
        BY <4>2, Numbers, Constants
      <4>4. Outlasts(i, 1 + MaxRequestAge, requestAge[q])'
        BY <1>1, <3>1, <4>1, <4>2, <4>3, Zenon DEF Outlasts
      <4> QED
        BY <1>1, <3>1, <4>4
    <3>2. CASE q # r
      <4>1. q \in Requests /\ q \in Live(i)
        BY <1>2, <3>2, Members, Zenon
      <4>2. /\ pc'[q] = pc[q] /\ kind'[q] = kind[q] /\ requestAge'[q] = requestAge[q]
            /\ tooLate'[q] = tooLate[q]
        BY <1>1, <3>2, <4>1, Zenon
      <4> QED
        BY <1>1, <2>1, <4>1, <4>2, Zenon DEF Protected, Outlasts
    <3> QED
      BY <3>1, <3>2
  <2> QED
    BY <2>2, <2>3, Zenon DEF Protected
<1>8. ASSUME NEW q \in Requests, pc'[q] = "dropRow" PROVE Spent(session[q])'
  <2>1. q # r /\ pc[q] = "dropRow" /\ session'[q] = session[q]
    BY <1>1, <1>8
  <2>2. PICK i \in Sessions : i = session[q]
    BY <2>1 DEF TypeOK
  <2>3. Spent(i)
    BY <2>1, <2>2, Zenon DEF RevocationInv
  <2>4. ASSUME NEW p \in Live(i)' PROVE pc'[p] \in {"user", "accepted"} /\ kind'[p] # "refresh"
    <3>1. p # r
      BY <1>5, <2>3, Zenon DEF Spent
    <3>2. p \in Requests /\ p \in Live(i)
      BY <1>2, <3>1, Members, Zenon
    <3>3. pc'[p] = pc[p] /\ kind'[p] = kind[p]
      BY <1>1, <3>1, <3>2
    <3> QED
      BY <2>3, <3>2, <3>3, Zenon DEF Spent
  <2>5. Spent(i)'
    BY <1>3, <2>3, <2>4, Zenon DEF Spent
  <2> QED
    BY <2>1, <2>2, <2>5, Zenon
<1>9. ASSUME NEW q \in Requests, pc'[q] # "idle", tooLate'[q] PROVE loggedOut'[session'[q]]
  <2>1. CASE q = r
    BY <1>1, <1>9, <2>1, Zenon
  <2>2. CASE q # r
    BY <1>1, <1>9, <2>2, Zenon DEF RevocationInv
  <2> QED
    BY <2>1, <2>2
<1> QED
  BY <1>7, <1>8, <1>9, Zenon DEF RevocationInv

\* A cookie that is put back is as well protected as the request that did it.
LEMMA RevocationRefresh ==
    ASSUME TypeOK, AgeInv, RevocationInv, NEW r \in Requests, AnswerRefresh(r)
    PROVE  RevocationInv'
<1>0. PICK j \in Sessions : j = session[r]
  BY RefreshedCookie
<1>1. /\ \A i \in Sessions \ {j} : jar'[i] = jar[i]
      /\ Decodes(jar'[j]) => /\ jar'[j].idle = requestAge[r]
                             /\ ~jar'[j].dead => pc[r] = "accepted"
  BY <1>0, RefreshedCookie, Zenon
<1>2. /\ UNCHANGED <<revoked, timeLeft, loggedOut>> /\ kind[r] = "refresh"
      /\ pc'[r] = "idle"
      /\ \A q \in Requests \ {r} : /\ pc'[q] = pc[q] /\ session'[q] = session[q]
                                   /\ cookie'[q] = cookie[q] /\ requestAge'[q] = requestAge[q]
                                   /\ kind'[q] = kind[q] /\ tooLate'[q] = tooLate[q]
  BY Zenon DEF TypeOK, AnswerRefresh, Finish, Goto, table
<1>3. \A i \in Sessions : r \notin Of(i)'
  BY <1>2, Zenon DEF Of
<1>4. \A q \in Requests \ {r}, i \in Sessions :
        /\ (q \in Of(i))' <=> q \in Of(i)
        /\ (q \in Live(i))' <=> q \in Live(i)
  BY <1>2, SameRequest, Zenon
<1>5. LiveCookie(j)' => r \in Live(j) /\ pc[r] = "accepted"
  <2>1. LiveCookie(j)' => pc[r] = "accepted"
    BY <1>1, Zenon DEF LiveCookie
  <2>2. pc[r] = "accepted" => r \in Live(j)
    BY <1>0, Zenon DEF AgeInv
  <2> QED
    BY <2>1, <2>2, Zenon
<1>6. ASSUME NEW i \in Sessions, Marked(i)' PROVE Marked(i)
  <2>1. ASSUME NEW q \in Of(i)', pc'[q] \in {"confirm", "dropRow"} PROVE Marked(i)
    <3>1. q \in Requests \ {r}
      BY <1>3, Members, Zenon
    <3>2. q \in Of(i) /\ pc'[q] = pc[q]
      BY <1>2, <1>4, <3>1, Zenon
    <3> QED
      BY <2>1, <3>2, Zenon DEF Marked
  <2> QED
    BY <1>2, <1>6, <2>1, Zenon DEF Marked
<1>7. ASSUME NEW i \in Sessions, Marked(i)' PROVE Protected(i)'
  <2>1. Protected(i)
    BY <1>6, <1>7, Zenon DEF RevocationInv
  <2>2. LiveCookie(i)' => Outlasts(i, IdleTimeout + MaxRequestAge, jar[i].idle)'
    <3>1. CASE i = j
      <4> SUFFICES ASSUME LiveCookie(j)'
                   PROVE  Outlasts(j, IdleTimeout + MaxRequestAge, jar[j].idle)'
        BY <3>1, Zenon
      <4>1. Outlasts(j, IdleTimeout + MaxRequestAge, requestAge[r])
        BY <1>2, <1>5, <2>1, <3>1 DEF Protected
      <4>2. jar'[j].idle = requestAge[r]
        BY <1>1, Zenon DEF LiveCookie
      <4> QED
        BY <1>2, <4>1, <4>2, Zenon DEF Outlasts
    <3>2. CASE i # j
      <4>1. jar'[i] = jar[i]
        BY <1>1, <3>2
      <4> QED
        BY <1>2, <2>1, <4>1, Zenon DEF Protected, Outlasts, LiveCookie
    <3> QED
      BY <3>1, <3>2
  <2>3. ASSUME NEW q \in Live(i)'
        PROVE  /\ pc'[q] = "lookup" => Outlasts(i, 1 + MaxRequestAge, requestAge[q])'
               /\ pc'[q] # "lookup" /\ kind'[q] = "refresh" =>
                      Outlasts(i, IdleTimeout + MaxRequestAge, requestAge[q])'
               /\ pc'[q] # "lookup" => ~tooLate'[q]
    <3>1. q \in Requests \ {r}
      BY <1>3, Members, Zenon
    <3>2. /\ q \in Live(i)
          /\ pc'[q] = pc[q] /\ kind'[q] = kind[q] /\ requestAge'[q] = requestAge[q]
          /\ tooLate'[q] = tooLate[q]
      BY <1>2, <1>4, <3>1, Zenon
    <3> QED
      BY <1>2, <2>1, <3>2, Zenon DEF Protected, Outlasts
  <2> QED
    BY <2>2, <2>3, Zenon DEF Protected
<1>8. ASSUME NEW q \in Requests, pc'[q] = "dropRow" PROVE Spent(session[q])'
  <2>1. q # r /\ pc[q] = "dropRow" /\ session'[q] = session[q]
    BY <1>2, <1>8
  <2>2. PICK i \in Sessions : i = session[q]
    BY <2>1 DEF TypeOK
  <2>3. Spent(i)
    BY <2>1, <2>2, Zenon DEF RevocationInv
  <2>4. ASSUME NEW p \in Live(i)' PROVE pc'[p] \in {"user", "accepted"} /\ kind'[p] # "refresh"
    <3>1. p \in Requests \ {r}
      BY <1>3, Members, Zenon
    <3>2. p \in Live(i) /\ pc'[p] = pc[p] /\ kind'[p] = kind[p]
      BY <1>2, <1>4, <3>1, Zenon
    <3> QED
      BY <2>3, <3>2, Zenon DEF Spent
  <2>5. ~LiveCookie(i)'
    <3>1. CASE i = j
      BY <1>2, <1>5, <2>3, <3>1, Zenon DEF Spent
    <3>2. CASE i # j
      <4>1. jar'[i] = jar[i]
        BY <1>1, <3>2
      <4> QED
        BY <2>3, <4>1, Zenon DEF Spent, LiveCookie
    <3> QED
      BY <3>1, <3>2
  <2>6. Spent(i)'
    BY <2>4, <2>5, Zenon DEF Spent
  <2> QED
    BY <2>1, <2>2, <2>6, Zenon
<1>9. ASSUME NEW q \in Requests, pc'[q] # "idle", tooLate'[q] PROVE loggedOut'[session'[q]]
  <2>1. q # r
    BY <1>2, <1>9
  <2> QED
    BY <1>2, <1>9, <2>1, Zenon DEF RevocationInv
<1> QED
  BY <1>7, <1>8, <1>9, Zenon DEF RevocationInv

\* What a row has lost in time, a cookie or a request has gained in age.
LEMMA RevocationTick ==
    ASSUME TypeOK, RevocationInv, Tick
    PROVE  RevocationInv'
<1>1. /\ UNCHANGED <<revoked, loggedOut, pc, session, kind, tooLate>>
      /\ \A j \in Sessions : timeLeft'[j] = IF timeLeft[j] > 0 THEN timeLeft[j] - 1 ELSE 0
  BY Zenon DEF Tick
<1>2. \A r \in Requests, i \in Sessions :
        /\ (r \in Of(i))' <=> r \in Of(i)
        /\ (r \in Live(i))' <=> r \in Live(i)
  BY TickAges, SameRequest, Zenon
<1>3. ASSUME NEW i \in Sessions, LiveCookie(i)'
      PROVE  LiveCookie(i) /\ jar'[i].idle = jar[i].idle + 1
  <2>1. Decodes(jar'[i]) /\ ~jar'[i].dead /\ jar'[i].idle < IdleTimeout
    BY <1>3, Zenon DEF LiveCookie
  <2>2. Decodes(jar[i]) /\ ~jar[i].dead /\ jar'[i].idle = jar[i].idle + 1
    BY <2>1, TickAges, Zenon
  <2>3. jar[i].idle < IdleTimeout
    BY <2>1, <2>2, Numbers, Constants
  <2> QED
    BY <2>2, <2>3, Zenon DEF LiveCookie
<1>4. ASSUME NEW i \in Sessions, NEW t \in Nat, NEW n \in Nat, Outlasts(i, t, n)
      PROVE  revoked'[i] /\ timeLeft'[i] + (n + 1) >= t
  <2>1. revoked[i] /\ timeLeft[i] + n >= t
    BY <1>4, Zenon DEF Outlasts
  <2>2. timeLeft'[i] + (n + 1) >= t
    BY <1>1, <2>1, Numbers
  <2> QED
    BY <1>1, <2>1, <2>2, Zenon
<1>5. IdleTimeout + MaxRequestAge \in Nat /\ 1 + MaxRequestAge \in Nat
  BY Constants
<1>6. ASSUME NEW i \in Sessions, Marked(i)' PROVE Protected(i)'
  <2>1. Marked(i)
    <3>1. ASSUME NEW q \in Of(i)', pc'[q] \in {"confirm", "dropRow"} PROVE Marked(i)
      BY <1>1, <1>2, <3>1, Members, Zenon DEF Marked
    <3> QED
      BY <1>1, <1>6, <3>1, Zenon DEF Marked
  <2>2. Protected(i)
    BY <2>1, Zenon DEF RevocationInv
  <2>3. ASSUME LiveCookie(i)' PROVE Outlasts(i, IdleTimeout + MaxRequestAge, jar[i].idle)'
    <3>1. Outlasts(i, IdleTimeout + MaxRequestAge, jar[i].idle) /\ jar[i].idle \in Nat
      BY <1>3, <2>2, <2>3, Numbers, Zenon DEF Protected
    <3> QED
      BY <1>3, <1>4, <1>5, <2>3, <3>1, Zenon DEF Outlasts
  <2>4. ASSUME NEW q \in Live(i)'
        PROVE  /\ pc'[q] = "lookup" => Outlasts(i, 1 + MaxRequestAge, requestAge[q])'
               /\ pc'[q] # "lookup" /\ kind'[q] = "refresh" =>
                      Outlasts(i, IdleTimeout + MaxRequestAge, requestAge[q])'
               /\ pc'[q] # "lookup" => ~tooLate'[q]
    <3>1. q \in Requests /\ q \in Live(i) /\ pc[q] # "idle"
      BY <1>2, Members, Zenon DEF Live, Of
    <3>2. requestAge'[q] = requestAge[q] + 1 /\ requestAge[q] \in Nat
      BY <3>1, TickAges, Numbers, Zenon
    <3>3. pc[q] = "lookup" => Outlasts(i, 1 + MaxRequestAge, requestAge[q])'
      <4>1. pc[q] = "lookup" => Outlasts(i, 1 + MaxRequestAge, requestAge[q])
        BY <2>2, <3>1, Zenon DEF Protected
      <4> QED
        BY <1>4, <1>5, <3>2, <4>1, Zenon DEF Outlasts
    <3>4. pc[q] # "lookup" /\ kind[q] = "refresh" =>
              Outlasts(i, IdleTimeout + MaxRequestAge, requestAge[q])'
      <4>1. pc[q] # "lookup" /\ kind[q] = "refresh" =>
                Outlasts(i, IdleTimeout + MaxRequestAge, requestAge[q])
        BY <2>2, <3>1, Zenon DEF Protected
      <4> QED
        BY <1>4, <1>5, <3>2, <4>1, Zenon DEF Outlasts
    <3>5. pc[q] # "lookup" => ~tooLate[q]
      BY <2>2, <3>1, Zenon DEF Protected
    <3> QED
      BY <1>1, <3>3, <3>4, <3>5, Zenon
  <2> QED
    BY <2>3, <2>4, Zenon DEF Protected
<1>7. ASSUME NEW q \in Requests, pc'[q] = "dropRow" PROVE Spent(session[q])'
  <2>1. PICK i \in Sessions : i = session[q]
    BY <1>1, <1>7 DEF TypeOK
  <2>2. Spent(i)
    BY <1>1, <1>7, <2>1, Zenon DEF RevocationInv
  <2>3. ASSUME NEW p \in Live(i)' PROVE pc'[p] \in {"user", "accepted"} /\ kind'[p] # "refresh"
    BY <1>1, <1>2, <2>2, Members, Zenon DEF Spent
  <2>4. Spent(i)'
    BY <1>3, <2>2, <2>3, Zenon DEF Spent
  <2> QED
    BY <1>1, <2>1, <2>4, Zenon
<1> QED
  BY <1>1, <1>6, <1>7, Zenon DEF RevocationInv

LEMMA RevocationStep ==
    ASSUME TypeOK, VersionInv, AgeInv, IssuedInv, RevocationInv, IdleGap, [Next]_vars
    PROVE  RevocationInv'
<1>1. CASE \/ \E j \in Sessions : IssueCookie(j)
           \/ \E r \in Requests, j \in Sessions, k \in Kinds : StartRequest(r, j, k)
           \/ \E r \in Requests : AnswerRefresh(r)
           \/ Tick
  BY <1>1, RevocationIssue, RevocationStart, RevocationRefresh, RevocationTick
<1>2. CASE NoneRenewed
  <2>1. ASSUME UNCHANGED <<table, loggedOut, pc>> PROVE RevocationInv'
    <3>1. /\ \A j \in Sessions : loggedOut'[j] <=> loggedOut[j]
          /\ \A r \in Requests : pc'[r] = pc[r]
      BY <2>1, Zenon
    <3>2. \A r \in Requests : pc[r] = "lookup" => pc'[r] \notin {"dropRow", "user", "accepted"}
      BY <3>1
    <3> QED
      BY <1>2, <2>1, <3>1, <3>2, RevocationCalm, Zenon
  <2>2. ASSUME NEW j \in Sessions, FindLogin(j) \/ GrantLogin(j) PROVE RevocationInv'
    BY <2>1, <2>2 DEF FindLogin, GrantLogin, requests
  <2>3. ASSUME ResetPassword \/ SoftDeleteUser \/ UNCHANGED vars PROVE RevocationInv'
    BY <2>1, <2>3 DEF ResetPassword, SoftDeleteUser, vars, requests
  <2>4. ASSUME NEW r \in Requests, pc[r] # "lookup", pc'[r] \in {"idle", "accepted", "rejected"},
               \A q \in Requests \ {r} : pc'[q] = pc[q],
               UNCHANGED table,
               \A j \in Sessions : loggedOut[j] => loggedOut'[j],
               \A j \in Sessions : loggedOut'[j] =>
                    loggedOut[j] \/ (pc[r] = "confirm" /\ session[r] = j)
        PROVE  RevocationInv'
    <3>1. \A q \in Requests : pc'[q] \in {"confirm", "dropRow"} => pc'[q] = pc[q]
      BY <2>4
    <3>2. \A q \in Requests : pc[q] = "lookup" => pc'[q] \notin {"dropRow", "user", "accepted"}
      BY <2>4
    <3>3. \A j \in Sessions : loggedOut'[j] =>
                loggedOut[j] \/ \E q \in Of(j) : pc[q] \in {"confirm", "dropRow"}
      <4>1. \A j \in Sessions : pc[r] = "confirm" /\ session[r] = j => r \in Of(j)
        BY DEF Of
      <4> QED
        BY <2>4, <4>1, Zenon
    <3> QED
      BY <1>2, <2>4, <3>1, <3>2, <3>3, RevocationCalm, Zenon
  <2>5. ASSUME NEW r \in Requests, CheckUser(r) PROVE RevocationInv'
    <3>1. /\ pc[r] # "lookup" /\ pc'[r] \in {"accepted", "rejected"}
          /\ \A q \in Requests \ {r} : pc'[q] = pc[q]
      BY <2>5 DEF TypeOK, CheckUser, Goto
    <3>2. UNCHANGED table /\ UNCHANGED loggedOut
      BY <2>5 DEF CheckUser
    <3>3. \A j \in Sessions : loggedOut'[j] <=> loggedOut[j]
      BY <3>2, Zenon
    <3> QED
      BY <2>4, <3>1, <3>2, <3>3
  <2>6. ASSUME NEW r \in Requests, AnswerPage(r) \/ Fail(r) \/ LogoutAll(r) PROVE RevocationInv'
    <3>1. Finish(r) /\ UNCHANGED table /\ UNCHANGED loggedOut
      BY <2>6 DEF AnswerPage, Fail, LogoutAll
    <3>2. pc'[r] = "idle" /\ \A q \in Requests \ {r} : pc'[q] = pc[q]
      BY <3>1, Zenon DEF TypeOK, Finish, Goto
    <3>3. \A j \in Sessions : loggedOut'[j] <=> loggedOut[j]
      BY <3>1, Zenon
    <3>4. CASE pc[r] = "lookup"
      <4>1. \A q \in Requests : pc'[q] \in {"confirm", "dropRow"} => pc'[q] = pc[q]
        BY <3>2
      <4>2. \A q \in Requests : pc[q] = "lookup" => pc'[q] \notin {"dropRow", "user", "accepted"}
        BY <3>2
      <4> QED
        BY <1>2, <3>1, <3>3, <4>1, <4>2, RevocationCalm, Zenon
    <3>5. CASE pc[r] # "lookup"
      BY <2>4, <3>1, <3>2, <3>3, <3>5
    <3> QED
      BY <3>4, <3>5
  <2>7. ASSUME NEW r \in Requests, ConfirmLogout(r) PROVE RevocationInv'
    <3>1. Finish(r) /\ UNCHANGED table /\ pc[r] = "confirm"
      BY <2>7 DEF ConfirmLogout
    <3>2. pc'[r] = "idle" /\ \A q \in Requests \ {r} : pc'[q] = pc[q]
      BY <3>1, Zenon DEF TypeOK, Finish, Goto
    <3>3. \A j \in Sessions : loggedOut'[j] <=> loggedOut[j] \/ session[r] = j
      BY <2>7, Zenon DEF TypeOK, ConfirmLogout
    <3> QED
      BY <2>4, <3>1, <3>2, <3>3
  <2>8. ASSUME NEW r \in Requests, LookUpRevocation(r) \/ DropRevocation(r) \/ RevokeJti(r)
        PROVE  RevocationInv'
    BY <1>2, <2>8, RevocationLookUp, RevocationDelete, RevocationWrite
  <2>9. ASSUME NEW j \in Sessions, CleanUp(j) PROVE RevocationInv'
    BY <1>2, <2>9, RevocationDelete
  <2> QED
    BY <1>1, <2>2, <2>3, <2>5, <2>6, <2>7, <2>8, <2>9 DEF Next, RequestStep
<1> QED
  BY <1>1, <1>2, Renewals

LEMMA InitIInv == Init => IInv
<1> SUFFICES ASSUME Init PROVE IInv
  OBVIOUS
<1>1. TypeOK
  BY InitType
<1>2. tokenVersion = 0 /\ \A r \in Requests : pc[r] = "idle" /\ since[r] = 0 /\ requestAge[r] = 0
  BY Zenon DEF Init
<1>3. \A j \in Sessions : version[j] = 0 /\ login[j] = "none" /\ ~Decodes(jar[j])
  BY CookieFields, Zenon DEF Init
<1>4. \A j \in Sessions : ~revoked[j] /\ ~loggedOut[j]
  BY Zenon DEF Init
<1>5. \A j \in Sessions : Of(j) = {} /\ Live(j) = {}
  BY <1>2, Zenon DEF Of, Live
<1>6. VersionInv
  BY <1>2, <1>3 DEF VersionInv, RevokeAllHolds
<1>7. AgeInv
  <2>1. \A r \in Requests : /\ requestAge[r] <= MaxRequestAge
                           /\ pc[r] \notin {"dropRow", "user", "accepted"}
    BY <1>2, Constants
  <2> QED
    BY <1>3, <1>5, <2>1 DEF AgeInv, LiveCookie
<1>8. IssuedInv
  BY <1>4, Zenon DEF IssuedInv
<1>9. RevocationInv
  <2>1. \A j \in Sessions : ~Marked(j)
    BY <1>4, <1>5, Zenon DEF Marked
  <2>2. \A r \in Requests : pc[r] # "dropRow"
    BY <1>2
  <2> QED
    BY <1>2, <2>1, <2>2, Zenon DEF RevocationInv
<1> QED
  BY <1>1, <1>6, <1>7, <1>8, <1>9 DEF IInv

LEMMA IInvLogout == IInv => LogoutHolds
<1> SUFFICES ASSUME IInv, NEW r \in Requests, pc[r] = "accepted", tooLate[r] PROVE FALSE
  BY Zenon DEF LogoutHolds
<1>1. r \in Live(session[r]) /\ pc[r] # "lookup"
  <2>1. r \in Live(session[r])
    BY DEF IInv, AgeInv
  <2> QED
    BY <2>1
<1>2. session[r] \in Sessions
  BY DEF IInv, TypeOK
<1>3. loggedOut[session[r]]
  <2>1. pc[r] # "idle"
    OBVIOUS
  <2> QED
    BY <2>1, Zenon DEF IInv, RevocationInv
<1> QED
  BY <1>1, <1>2, <1>3, Zenon DEF IInv, RevocationInv, Marked, Protected

\* A confirmed logout is final: no request that starts after it is accepted for
\* the session, although a refresh under way may put a cookie back and the row
\* of the revocation is deleted when its time is over.  The row is as long as
\* the cookie of the logout had to go, which is enough if IdleGap.
THEOREM LogoutIsFinal ==
    ASSUME IdleGap
    PROVE  Spec => []LogoutHolds
<1>1. IInv /\ [Next]_vars => IInv'
  BY TypeStep, VersionStep, AgeStep, IssuedStep, RevocationStep DEF IInv
<1> QED
  BY <1>1, InitIInv, IInvLogout, PTL DEF Spec

\* What holds of AccountSessions holds of a browser: no dialog touches a cookie.
THEOREM CookiesBehave == BrowserSpec => Spec
<1>1. BrowserInit => Init
  BY DEF BrowserInit
<1>2. [BrowserNext]_<<vars, formVars>> => [Next]_vars
  BY DEF BrowserNext, vars
<1> QED
  BY <1>1, <1>2, PTL DEF BrowserSpec, Spec

-------------------------------------------------------------------------------
(***************************************************************************)
(* The dialogs.  FormFits speaks of moments with nothing under way, so the *)
(* invariant has to say what holds in between.  While nothing is astray at *)
(* most one request is under way, and it was sent from the form as the     *)
(* form still is (OnlyOne).  Until the server has taken it the form fits   *)
(* (Undone); once the server has, its answer says what the form will       *)
(* become (Taken), which is why a form may only go by an answer that it    *)
(* gets.  A sign-in has one step more, the token that follows the code     *)
(* without a click (SigningIn).  An astray form finds its way by a start   *)
(* that was alone from the click to the answer (AloneInv).                 *)
(***************************************************************************)
Places == {"details", "firstCode", "secondCode", "confirm", "success"}
Asks == {"start", "restart", "firstCode", "secondCode", "confirm"}
Later == {"firstCode", "secondCode", "confirm"}

\* What the variables range over.
FormSet ==
    [mode : Form!Modes, step : [Form!Modes -> Places], challenge : Nat, token : Nat,
     clock : {"none", "running", "out"}, busy : BOOLEAN, refused : BOOLEAN, back : BOOLEAN]

ServerSet ==
    [open : [Form!Modes -> [id : Nat, expects : Places \cup {"start"}]], issued : Nat, done : BOOLEAN]

FlightSet ==
    [ask : Asks, mode : Form!Modes, challenge : Nat, token : Nat, answered : BOOLEAN, reply : Nat,
     deaf : BOOLEAN, alone : BOOLEAN]

FormTypeOK ==
    /\ form \in FormSet /\ server \in ServerSet /\ astray \in BOOLEAN
    /\ flight \in [Slots -> FlightSet \cup {Form!NoRequest}]
    /\ dialog # "login" => form.mode = "email"

OpenOne(m) == server.open[m]

StepOf(f) == f.step[f.mode]

\* The form asks for what the server expects, or `Back' has led it to an earlier step.
FitsAs(f) ==
    StepOf(f) \notin {"details", "success"} =>
        /\ StepOf(f) = Form!Expected(f.mode) \/ (f.back /\ Form!Before(StepOf(f), Form!Expected(f.mode)))
        /\ f.challenge = OpenOne(f.mode).id
        /\ StepOf(f) = "confirm" => f.token = f.challenge

Fits == FitsAs(form)

\* A request that has been sent alone is alone still, and its answer to a start
\* names the open challenge.
AloneInv(s) ==
    flight[s] \in FlightSet /\ flight[s].alone =>
        /\ \A t \in Slots : t # s => Form!Idle(t)
        /\ flight[s].ask \in {"start", "restart"} /\ flight[s].answered /\ flight[s].reply # 0 =>
              OpenOne(flight[s].mode) = [id |-> flight[s].reply, expects |-> "firstCode"]

\* A request that needs a challenge or a token has one, and none has its reply
\* before its answer.
NamedInv(s) ==
    flight[s] \in FlightSet =>
        /\ flight[s].ask \in Later =>
              flight[s].challenge # 0 /\ (flight[s].ask = "confirm" => flight[s].token # 0)
        /\ ~flight[s].answered => flight[s].reply = 0

\* While nothing is astray, the one request under way was sent from the form as it is.
OnlyOne ==
    ~astray => \A s \in Slots : flight[s] \in FlightSet =>
        ~flight[s].deaf /\ form.busy /\ \A t \in Slots : t # s => Form!Idle(t)

\* The sign-in with its token follows the code in one handler.
SigningIn(s) ==
    /\ ~flight[s].answered
    /\ Form!Expected(form.mode) = "confirm"
    /\ flight[s].challenge = OpenOne(form.mode).id /\ flight[s].token = flight[s].challenge

\* The server has not taken the request.
Undone(s) ==
    /\ Fits
    /\ flight[s].ask \in Later =>
          /\ flight[s].ask = StepOf(form)
          /\ flight[s].challenge = form.challenge /\ flight[s].token = form.token

\* The server has, and the answer is on its way to the form.
Taken(s) ==
    /\ flight[s].ask # "confirm"
    /\ flight[s].ask \in {"start", "restart"} =>
          OpenOne(form.mode) = [id |-> flight[s].reply, expects |-> "firstCode"]
    /\ flight[s].ask \in {"firstCode", "secondCode"} =>
          /\ StepOf(form) = flight[s].ask
          /\ flight[s].reply = OpenOne(form.mode).id /\ form.challenge = OpenOne(form.mode).id
          /\ flight[s].challenge = form.challenge
          /\ Form!Expected(form.mode) = IF flight[s].ask = "firstCode" THEN Form!AfterFirst ELSE Form!AfterSecond

CurrentInv ==
    ~astray /\ ~server.done =>
        /\ (\A s \in Slots : Form!Idle(s)) => Fits
        /\ \A s \in Slots : flight[s] \in FlightSet =>
              /\ flight[s].mode = form.mode
              /\ IF flight[s].answered /\ flight[s].reply # 0 THEN Taken(s)
                 ELSE IF dialog = "login" /\ flight[s].ask = "confirm" THEN SigningIn(s)
                 ELSE Undone(s)

FormInv ==
    /\ FormTypeOK
    /\ \A s \in Slots : AloneInv(s) /\ NamedInv(s)
    /\ OnlyOne
    /\ CurrentInv

-------------------------------------------------------------------------------
LEMMA FormType ==
    ASSUME FormTypeOK
    PROVE  /\ form.mode \in Form!Modes /\ form.step \in [Form!Modes -> Places]
           /\ form.challenge \in Nat /\ form.token \in Nat /\ form.clock \in {"none", "running", "out"}
           /\ form.busy \in BOOLEAN /\ form.refused \in BOOLEAN
           /\ StepOf(form) \in Places /\ Form!Step = StepOf(form)
  BY DEF FormTypeOK, FormSet, StepOf, Form!Step

LEMMA FlightType ==
    ASSUME FormTypeOK, NEW s \in Slots
    PROVE  /\ flight[s] \in FlightSet \/ flight[s] = Form!NoRequest
           /\ flight[s] \in FlightSet <=> ~Form!Idle(s)
           /\ flight[s].ask \in Asks => flight[s] \in FlightSet
           /\ flight[s] \in FlightSet =>
                 /\ flight[s].ask \in Asks /\ flight[s].mode \in Form!Modes
                 /\ flight[s].challenge \in Nat /\ flight[s].token \in Nat /\ flight[s].reply \in Nat
                 /\ flight[s].answered \in BOOLEAN /\ flight[s].deaf \in BOOLEAN /\ flight[s].alone \in BOOLEAN
<1>1. flight[s] \in FlightSet \/ flight[s] = Form!NoRequest
  BY DEF FormTypeOK
<1>2. Form!NoRequest.ask = "nothing"
  BY DEF Form!NoRequest
<1>3. "nothing" \notin Asks
  BY DEF Asks
<1>4. flight[s] \in FlightSet => flight[s].ask \in Asks
  BY DEF FlightSet
<1> QED
  BY <1>1, <1>2, <1>3, <1>4 DEF FlightSet, Form!Idle

LEMMA FreshFacts ==
    /\ Form!Fresh \in FormSet /\ StepOf(Form!Fresh) = "details" /\ Form!Fresh.mode = "email"
    /\ FitsAs(Form!Fresh)
  BY DEF Form!Fresh, FormSet, Form!Modes, Places, StepOf, FitsAs

\* A change of the clock or of the message that is shown.
LEMMA TouchStep ==
    ASSUME FormInv, form' \in FormSet, UNCHANGED <<dialog, server, flight, astray>>,
           form'.mode = form.mode, form'.step = form.step, form'.challenge = form.challenge,
           form'.token = form.token, form'.busy = form.busy, form'.back = form.back
    PROVE  FormInv'
<1>1. FormTypeOK'
  BY DEF FormInv, FormTypeOK
<1>2. ASSUME NEW s \in Slots PROVE (AloneInv(s) /\ NamedInv(s))'
  BY DEF FormInv, AloneInv, NamedInv, OpenOne, Form!Idle
<1>3. OnlyOne'
  BY DEF FormInv, OnlyOne, Form!Idle
<1>4. CurrentInv'
  <2>1. Fits' = Fits /\ StepOf(form)' = StepOf(form)
    BY DEF Fits, FitsAs, StepOf, OpenOne, Form!Expected
  <2>2. ASSUME NEW s \in Slots
        PROVE  SigningIn(s)' = SigningIn(s) /\ Undone(s)' = Undone(s) /\ Taken(s)' = Taken(s) /\ Form!Idle(s)' = Form!Idle(s)
    BY <2>1 DEF SigningIn, Undone, Taken, OpenOne, Form!Expected, Form!AfterFirst, Form!AfterSecond, Form!Idle
  <2> QED
    BY <2>1, <2>2 DEF FormInv, CurrentInv
<1> QED
  BY <1>1, <1>2, <1>3, <1>4 DEF FormInv

\* A move of the person that leaves nothing under way behind, unless it goes astray.
LEMMA LeaveStep ==
    ASSUME FormInv, NEW f \in FormSet, form' = f, UNCHANGED <<dialog, server, flight>>, astray' \in BOOLEAN,
           dialog # "login" => f.mode = "email",
           ~astray' => ~astray /\ ~Form!Waiting /\ (StepOf(f) = "details" \/ server.done \/ FitsAs(f))
    PROVE  FormInv'
<1>1. FormTypeOK'
  BY DEF FormInv, FormTypeOK
<1>2. ASSUME NEW s \in Slots PROVE (AloneInv(s) /\ NamedInv(s))'
  BY DEF FormInv, AloneInv, NamedInv, OpenOne, Form!Idle
<1>3. ~astray' => \A s \in Slots : flight'[s] \notin FlightSet
  BY FlightType DEF FormInv, Form!Waiting, Form!Idle
<1>4. OnlyOne'
  BY <1>3 DEF OnlyOne
<1>5. CurrentInv'
  <2> SUFFICES ASSUME ~astray', ~server'.done PROVE Fits'
    BY <1>3 DEF CurrentInv
  <2>1. FitsAs(f)
    BY DEF FitsAs
  <2> QED
    BY <2>1 DEF Fits, FitsAs, StepOf, OpenOne, Form!Expected
<1> QED
  BY <1>1, <1>2, <1>4, <1>5 DEF FormInv
-------------------------------------------------------------------------------
(***************************************************************************)
(* A request goes out                                                      *)
(***************************************************************************)
LEMMA SendsFacts ==
    ASSUME FormInv, NEW s \in Slots, NEW ask \in Asks, NEW f \in FormSet, Form!Sends(s, ask, f)
    PROVE  /\ ~form.busy /\ Form!Idle(s) /\ UNCHANGED <<dialog, server, astray>>
           /\ form' \in FormSet /\ form'.mode = f.mode /\ form'.step = f.step
           /\ form'.challenge = f.challenge /\ form'.token = f.token /\ form'.busy /\ form'.back = f.back
           /\ flight' \in [Slots -> FlightSet \cup {Form!NoRequest}]
           /\ flight'[s] \in FlightSet /\ flight'[s].ask = ask /\ flight'[s].mode = f.mode
           /\ flight'[s].challenge = f.challenge /\ flight'[s].token = f.token
           /\ ~flight'[s].answered /\ flight'[s].reply = 0 /\ ~flight'[s].deaf
           /\ flight'[s].alone => ~Form!Waiting
           /\ \A t \in Slots : t # s =>
                 /\ Form!Idle(t) => flight'[t] = Form!NoRequest
                 /\ flight'[t] \in FlightSet =>
                       /\ flight[t] \in FlightSet /\ ~flight'[t].alone
                       /\ flight'[t].ask = flight[t].ask /\ flight'[t].challenge = flight[t].challenge
                       /\ flight'[t].token = flight[t].token
                       /\ flight'[t].answered = flight[t].answered /\ flight'[t].reply = flight[t].reply
<1> DEFINE new == [ask |-> ask, mode |-> f.mode, challenge |-> f.challenge, token |-> f.token,
                   answered |-> FALSE, reply |-> 0, deaf |-> FALSE, alone |-> ~Form!Waiting]
<1>1. /\ ~form.busy /\ Form!Idle(s) /\ UNCHANGED <<dialog, server, astray>>
      /\ flight' = [t \in Slots |-> IF t = s THEN new
                                    ELSE IF Form!Idle(t) THEN Form!NoRequest ELSE [flight[t] EXCEPT !.alone = FALSE]]
      /\ form' = [f EXCEPT !.busy = TRUE, !.refused = FALSE]
  BY DEF Form!Sends
<1>2. /\ form' \in FormSet /\ form'.mode = f.mode /\ form'.step = f.step
      /\ form'.challenge = f.challenge /\ form'.token = f.token /\ form'.busy /\ form'.back = f.back
  <2> DEFINE one == [f EXCEPT !.busy = TRUE]
  <2>1. one \in FormSet /\ one.mode = f.mode /\ one.step = f.step
        /\ one.challenge = f.challenge /\ one.token = f.token /\ one.busy /\ one.back = f.back
    BY DEF FormSet
  <2>2. form' = [one EXCEPT !.refused = FALSE]
    BY <1>1
  <2> HIDE DEF one
  <2> QED
    BY <2>1, <2>2 DEF FormSet
<1>3. new \in FlightSet
  <2>1. Form!Waiting \in BOOLEAN
    BY DEF Form!Waiting
  <2> QED
    BY <2>1 DEF FlightSet, FormSet
<1>4. /\ new.ask = ask /\ new.mode = f.mode /\ new.challenge = f.challenge /\ new.token = f.token
      /\ ~new.answered /\ new.reply = 0 /\ ~new.deaf /\ (new.alone => ~Form!Waiting)
  OBVIOUS
<1> HIDE DEF new
<1>5. ASSUME NEW t \in Slots, t # s, ~Form!Idle(t)
      PROVE  /\ flight[t] \in FlightSet /\ flight'[t] = [flight[t] EXCEPT !.alone = FALSE]
             /\ flight'[t] \in FlightSet /\ ~flight'[t].alone
             /\ flight'[t].ask = flight[t].ask /\ flight'[t].challenge = flight[t].challenge
             /\ flight'[t].token = flight[t].token
             /\ flight'[t].answered = flight[t].answered /\ flight'[t].reply = flight[t].reply
  <2>1. flight[t] \in FlightSet /\ flight'[t] = [flight[t] EXCEPT !.alone = FALSE]
    BY <1>1, <1>5, FlightType DEF FormInv
  <2> QED
    BY <2>1 DEF FlightSet
<1>6. \A t \in Slots : t # s /\ Form!Idle(t) => flight'[t] = Form!NoRequest
  BY <1>1
<1>7. flight'[s] = new
  BY <1>1
<1>8. Form!NoRequest \notin FlightSet
  BY DEF Form!NoRequest, FlightSet, Asks
<1>9. flight' \in [Slots -> FlightSet \cup {Form!NoRequest}]
  <2>1. \A t \in Slots : flight'[t] \in FlightSet \cup {Form!NoRequest}
    BY <1>3, <1>5, <1>6, <1>7
  <2>2. flight' = [t \in Slots |-> flight'[t]]
    BY <1>1, Zenon
  <2> QED
    BY <2>1, <2>2
<1> QED
  BY <1>1, <1>2, <1>3, <1>4, <1>5, <1>6, <1>7, <1>8, <1>9

\* What is sent follows the form, and the form is as it was or begins anew.
LEMMA SendStep ==
    ASSUME FormInv, NEW s \in Slots, NEW ask \in Asks, NEW f \in FormSet, Form!Sends(s, ask, f),
           f = form \/ (StepOf(f) = "details" /\ f.mode = "email" /\ ask \notin Later),
           ask \in Later => ask = StepOf(f) /\ f.challenge # 0 /\ (ask = "confirm" => f.token # 0),
           dialog = "login" => ask # "confirm"
    PROVE  FormInv'
<1>1. /\ ~form.busy /\ Form!Idle(s) /\ UNCHANGED <<dialog, server, astray>>
      /\ form' \in FormSet /\ form'.mode = f.mode /\ form'.step = f.step
      /\ form'.challenge = f.challenge /\ form'.token = f.token /\ form'.busy /\ form'.back = f.back
      /\ flight' \in [Slots -> FlightSet \cup {Form!NoRequest}]
      /\ flight'[s] \in FlightSet /\ flight'[s].ask = ask /\ flight'[s].mode = f.mode
      /\ flight'[s].challenge = f.challenge /\ flight'[s].token = f.token
      /\ ~flight'[s].answered /\ flight'[s].reply = 0 /\ ~flight'[s].deaf
      /\ flight'[s].alone => ~Form!Waiting
  BY SendsFacts
<1>2. \A t \in Slots : t # s =>
         /\ Form!Idle(t) => flight'[t] = Form!NoRequest
         /\ flight'[t] \in FlightSet =>
               /\ flight[t] \in FlightSet /\ ~flight'[t].alone
               /\ flight'[t].ask = flight[t].ask /\ flight'[t].challenge = flight[t].challenge
               /\ flight'[t].token = flight[t].token
               /\ flight'[t].answered = flight[t].answered /\ flight'[t].reply = flight[t].reply
  BY SendsFacts
<1>3. FormTypeOK'
  BY <1>1 DEF FormInv, FormTypeOK
<1>4. Form!NoRequest \notin FlightSet
  BY DEF Form!NoRequest, FlightSet, Asks
<1>5. ASSUME NEW t \in Slots PROVE AloneInv(t)'
  <2>1. CASE t # s
    BY <1>2, <2>1 DEF AloneInv
  <2>2. CASE t = s
    <3>1. ~Form!Waiting => \A u \in Slots : u # s => flight'[u] = Form!NoRequest
      BY <1>2 DEF Form!Waiting
    <3> QED
      BY <1>1, <2>2, <3>1 DEF AloneInv, Form!Idle
  <2> QED
    BY <2>1, <2>2
<1>6. ASSUME NEW t \in Slots PROVE NamedInv(t)'
  <2>1. CASE t # s
    BY <1>2, <2>1 DEF FormInv, NamedInv
  <2>2. CASE t = s
    BY <1>1, <2>2 DEF NamedInv
  <2> QED
    BY <2>1, <2>2
<1>7. ~astray' => \A t \in Slots : Form!Idle(t) /\ (t # s => flight'[t] = Form!NoRequest)
  <2>1. ~astray => \A t \in Slots : flight[t] \notin FlightSet
    BY <1>1 DEF FormInv, OnlyOne
  <2> QED
    BY <1>1, <1>2, <2>1, FlightType DEF FormInv
<1>8. OnlyOne'
  BY <1>1, <1>4, <1>7 DEF OnlyOne, Form!Idle
<1>9. CurrentInv'
  <2> SUFFICES ASSUME ~astray', ~server'.done PROVE CurrentInv'
    BY DEF CurrentInv
  <2>1. Fits
    BY <1>1, <1>7 DEF FormInv, CurrentInv
  <2>2. StepOf(form)' = StepOf(f) /\ (StepOf(f) = "details" \/ f = form)
    BY <1>1 DEF StepOf
  <2>3. Fits'
    BY <1>1, <2>1, <2>2 DEF Fits, FitsAs, OpenOne, Form!Expected
  <2>4. ASSUME NEW t \in Slots, flight'[t] \in FlightSet PROVE t = s
    BY <1>4, <1>7, <2>4
  <2>5. ~Form!Idle(s)'
    BY <1>1, <1>4 DEF Form!Idle
  <2>6. Undone(s)'
    BY <1>1, <2>2, <2>3 DEF Undone
  <2> QED
    BY <1>1, <2>4, <2>5, <2>6 DEF CurrentInv
<1> QED
  BY <1>3, <1>5, <1>6, <1>8, <1>9 DEF FormInv

LEMMA SendsFromStep ==
    ASSUME FormInv, NEW s \in Slots, NEW step \in Later, Form!SendsFrom(step, s),
           dialog = "login" => step # "confirm"
    PROVE  FormInv'
<1>1. form \in FormSet /\ Form!Step = StepOf(form)
  BY FormType DEF FormInv, FormTypeOK
<1>2. StepOf(form) = step /\ step \in Asks
  BY <1>1 DEF Form!SendsFrom, Later, Asks
<1>3. CASE form.challenge # 0 /\ (step = "confirm" => form.token # 0)
  <2>1. Form!Sends(s, step, form)
    BY <1>3 DEF Form!SendsFrom
  <2> QED
    BY <1>1, <1>2, <1>3, <2>1, SendStep
<1>4. CASE ~(form.challenge # 0 /\ (step = "confirm" => form.token # 0))
  <2>1. form' = [form EXCEPT !.refused = TRUE] /\ UNCHANGED <<dialog, server, flight, astray>>
    BY <1>4 DEF Form!SendsFrom
  <2>2. /\ form' \in FormSet /\ form'.mode = form.mode /\ form'.step = form.step
        /\ form'.challenge = form.challenge /\ form'.token = form.token /\ form'.busy = form.busy
        /\ form'.back = form.back
    BY <1>1, <2>1 DEF FormSet
  <2> QED
    BY <2>1, <2>2, TouchStep
<1> QED
  BY <1>3, <1>4
-------------------------------------------------------------------------------
(***************************************************************************)
(* An answer comes                                                         *)
(***************************************************************************)
LEMMA AnsweredFacts ==
    ASSUME FormInv, NEW s \in Slots, NEW ask \in Asks, NEW f \in FormSet, Form!Answered(s, ask, f)
    PROVE  /\ flight[s] \in FlightSet /\ flight[s].ask = ask /\ flight[s].answered /\ ~flight[s].deaf
           /\ UNCHANGED <<dialog, server>> /\ astray' \in BOOLEAN
           /\ flight' \in [Slots -> FlightSet \cup {Form!NoRequest}] /\ flight'[s] = Form!NoRequest
           /\ \A t \in Slots : t # s => flight'[t] = flight[t]
           /\ form' \in FormSet
           /\ flight[s].reply = 0 =>
                 /\ astray' = astray /\ form'.mode = form.mode /\ form'.step = form.step
                 /\ form'.challenge = form.challenge /\ form'.token = form.token /\ form'.back = form.back
           /\ flight[s].reply # 0 =>
                 /\ form'.mode = f.mode /\ form'.step = f.step
                 /\ form'.challenge = f.challenge /\ form'.token = f.token /\ form'.back = f.back
           /\ ~astray' /\ astray =>
                 /\ ask \in {"start", "restart"} /\ flight[s].reply # 0
                 /\ flight[s].mode = form.mode /\ flight[s].alone
<1>1. /\ flight[s].ask = ask /\ ~flight[s].deaf /\ flight[s].answered
      /\ flight' = [flight EXCEPT ![s] = Form!NoRequest]
      /\ UNCHANGED <<dialog, server>>
      /\ astray' = (astray /\ ~(/\ ask \in {"start", "restart"} /\ flight[s].reply # 0
                                /\ flight[s].mode = form.mode /\ flight[s].alone))
      /\ form' = IF flight[s].reply = 0 THEN [form EXCEPT !.busy = FALSE, !.refused = TRUE]
                 ELSE [f EXCEPT !.busy = FALSE]
  BY DEF Form!Answered
<1>2. flight[s] \in FlightSet
  BY <1>1, FlightType DEF FormInv
<1>3. form \in FormSet /\ flight \in [Slots -> FlightSet \cup {Form!NoRequest}] /\ astray \in BOOLEAN
  BY DEF FormInv, FormTypeOK
<1>4. /\ flight' \in [Slots -> FlightSet \cup {Form!NoRequest}] /\ flight'[s] = Form!NoRequest
      /\ \A t \in Slots : t # s => flight'[t] = flight[t]
  BY <1>1, <1>3
<1>5. CASE flight[s].reply = 0
  <2> DEFINE one == [form EXCEPT !.busy = FALSE]
  <2>1. one \in FormSet /\ one.mode = form.mode /\ one.step = form.step
        /\ one.challenge = form.challenge /\ one.token = form.token /\ one.back = form.back
    BY <1>3 DEF FormSet
  <2>2. form' = [one EXCEPT !.refused = TRUE]
    BY <1>1, <1>5
  <2> HIDE DEF one
  <2>3. /\ form' \in FormSet /\ form'.mode = form.mode /\ form'.step = form.step
        /\ form'.challenge = form.challenge /\ form'.token = form.token /\ form'.back = form.back
    BY <2>1, <2>2 DEF FormSet
  <2>4. astray' = astray
    BY <1>1, <1>3, <1>5
  <2> QED
    BY <1>1, <1>2, <1>3, <1>4, <1>5, <2>3, <2>4
<1>6. CASE flight[s].reply # 0
  <2>1. form' = [f EXCEPT !.busy = FALSE]
    BY <1>1, <1>6
  <2>2. /\ form' \in FormSet /\ form'.mode = f.mode /\ form'.step = f.step
        /\ form'.challenge = f.challenge /\ form'.token = f.token /\ form'.back = f.back
    BY <2>1 DEF FormSet
  <2> QED
    BY <1>1, <1>2, <1>3, <1>4, <1>6, <2>2
<1> QED
  BY <1>5, <1>6

\* A form that takes an answer for what it is fits the server.
LEMMA AnsweredStep ==
    ASSUME FormInv, NEW s \in Slots, NEW ask \in Asks, NEW f \in FormSet, Form!Answered(s, ask, f),
           dialog # "login" => f.mode = "email",
           flight[s] \in FlightSet /\ flight[s].reply # 0 /\ flight[s].mode = form.mode /\ Taken(s) => FitsAs(f)
    PROVE  FormInv'
<1>1. /\ flight[s] \in FlightSet /\ flight[s].ask = ask /\ flight[s].answered /\ ~flight[s].deaf
      /\ UNCHANGED <<dialog, server>> /\ astray' \in BOOLEAN
      /\ flight' \in [Slots -> FlightSet \cup {Form!NoRequest}] /\ flight'[s] = Form!NoRequest
      /\ \A t \in Slots : t # s => flight'[t] = flight[t]
      /\ form' \in FormSet
  BY AnsweredFacts
<1>2. flight[s].reply = 0 =>
         /\ astray' = astray /\ form'.mode = form.mode /\ form'.step = form.step
         /\ form'.challenge = form.challenge /\ form'.token = form.token /\ form'.back = form.back
  BY AnsweredFacts
<1>3. flight[s].reply # 0 =>
         /\ form'.mode = f.mode /\ form'.step = f.step
         /\ form'.challenge = f.challenge /\ form'.token = f.token /\ form'.back = f.back
  BY AnsweredFacts
<1>4. ~astray' /\ astray =>
         /\ ask \in {"start", "restart"} /\ flight[s].reply # 0
         /\ flight[s].mode = form.mode /\ flight[s].alone
  BY AnsweredFacts
<1>5. Form!NoRequest \notin FlightSet
  BY DEF Form!NoRequest, FlightSet, Asks
<1>6. FormTypeOK'
  BY <1>1, <1>2, <1>3 DEF FormInv, FormTypeOK
<1>7. ASSUME NEW t \in Slots PROVE (AloneInv(t) /\ NamedInv(t))'
  <2>1. CASE t = s
    BY <1>1, <1>5, <2>1 DEF AloneInv, NamedInv
  <2>2. CASE t # s
    <3>1. AloneInv(t) /\ NamedInv(t) /\ flight'[t] = flight[t]
      BY <1>1, <2>2 DEF FormInv
    <3>2. \A u \in Slots : Form!Idle(u) => Form!Idle(u)'
      BY <1>1 DEF Form!Idle
    <3> QED
      BY <1>1, <3>1, <3>2 DEF AloneInv, NamedInv, OpenOne
  <2> QED
    BY <2>1, <2>2
<1>8. ~astray' => \A t \in Slots : t # s => Form!Idle(t)
  <2>1. ~astray => \A t \in Slots : t # s => Form!Idle(t)
    BY <1>1 DEF FormInv, OnlyOne
  <2>2. flight[s].alone => \A t \in Slots : t # s => Form!Idle(t)
    BY <1>1 DEF FormInv, AloneInv
  <2> QED
    BY <1>4, <2>1, <2>2
<1>9. ~astray' => \A t \in Slots : flight'[t] = Form!NoRequest
  BY <1>1, <1>8 DEF Form!Idle
<1>10. OnlyOne'
  BY <1>5, <1>9 DEF OnlyOne
<1>11. CurrentInv'
  <2> SUFFICES ASSUME ~astray', ~server'.done PROVE Fits'
    BY <1>5, <1>9 DEF CurrentInv
  <2>1. CASE flight[s].reply = 0
    <3>1. Undone(s)
      BY <1>1, <1>2, <2>1 DEF FormInv, CurrentInv, SigningIn
    <3> QED
      BY <1>1, <1>2, <2>1, <3>1 DEF Undone, Fits, FitsAs, StepOf, OpenOne, Form!Expected
  <2>2. CASE flight[s].reply # 0
    <3>1. flight[s].mode = form.mode /\ Taken(s)
      <4>1. CASE ~astray
        BY <1>1, <2>2, <4>1 DEF FormInv, CurrentInv
      <4>2. CASE astray
        BY <1>1, <1>4, <4>2 DEF FormInv, AloneInv, Taken
      <4> QED
        BY <4>1, <4>2
    <3>2. FitsAs(f)
      BY <1>1, <2>2, <3>1
    <3> QED
      BY <1>1, <1>3, <2>2, <3>2 DEF Fits, FitsAs, StepOf, OpenOne, Form!Expected
  <2> QED
    BY <2>1, <2>2
<1> QED
  BY <1>6, <1>7, <1>10, <1>11 DEF FormInv
-------------------------------------------------------------------------------
(***************************************************************************)
(* What happens to one request, away from the form                         *)
(***************************************************************************)
LEMMA OneFlight ==
    ASSUME FormInv, NEW s \in Slots, flight[s] \in FlightSet,
           NEW new \in FlightSet \cup {Form!NoRequest}, flight' = [flight EXCEPT ![s] = new],
           dialog' = dialog, form' \in FormSet, form'.mode = form.mode, server' \in ServerSet,
           astray' \in BOOLEAN, ~server'.done => ~server.done,
           ~astray' => ~astray /\ form' = form /\ new \in FlightSet /\ ~new.deaf /\ new.mode = flight[s].mode,
           new \in FlightSet /\ new.alone =>
               /\ flight[s].alone
               /\ new.ask \in {"start", "restart"} /\ new.answered /\ new.reply # 0 =>
                     server'.open[new.mode] = [id |-> new.reply, expects |-> "firstCode"],
           new \in FlightSet =>
               /\ new.ask \in Later => new.challenge # 0 /\ (new.ask = "confirm" => new.token # 0)
               /\ ~new.answered => new.reply = 0,
           ~astray' /\ ~server'.done =>
               IF new.answered /\ new.reply # 0 THEN Taken(s)'
               ELSE IF dialog = "login" /\ new.ask = "confirm" THEN SigningIn(s)' ELSE Undone(s)'
    PROVE  FormInv'
<1>1. /\ flight \in [Slots -> FlightSet \cup {Form!NoRequest}]
      /\ flight' \in [Slots -> FlightSet \cup {Form!NoRequest}] /\ flight'[s] = new
      /\ \A t \in Slots : t # s => flight'[t] = flight[t]
  BY DEF FormInv, FormTypeOK
<1>2. FormTypeOK'
  BY <1>1 DEF FormInv, FormTypeOK
<1>3. Form!NoRequest \notin FlightSet
  BY DEF Form!NoRequest, FlightSet, Asks
<1>4. ~Form!Idle(s)
  BY <1>3 DEF Form!Idle
<1>5. \A t \in Slots : t # s /\ Form!Idle(t) => Form!Idle(t)'
  BY <1>1 DEF Form!Idle
<1>6. ASSUME NEW t \in Slots PROVE AloneInv(t)'
  <2>1. CASE t # s
    <3>1. flight[t] \in FlightSet => ~flight[t].alone
      BY <1>4, <2>1 DEF FormInv, AloneInv
    <3> QED
      BY <1>1, <2>1, <3>1 DEF AloneInv
  <2>2. CASE t = s
    <3>1. flight[s].alone => \A u \in Slots : u # s => Form!Idle(u)
      BY DEF FormInv, AloneInv
    <3> QED
      BY <1>1, <1>5, <2>2, <3>1 DEF AloneInv, OpenOne
  <2> QED
    BY <2>1, <2>2
<1>7. ASSUME NEW t \in Slots PROVE NamedInv(t)'
  BY <1>1 DEF FormInv, NamedInv
<1>8. ~astray' => form.busy /\ \A t \in Slots : t # s => Form!Idle(t)
  BY DEF FormInv, OnlyOne
<1>9. ~astray' => \A t \in Slots : flight'[t] \in FlightSet => t = s
  BY <1>1, <1>3, <1>8 DEF Form!Idle
<1>10. OnlyOne'
  BY <1>1, <1>5, <1>8, <1>9 DEF OnlyOne
<1>11. CurrentInv'
  <2> SUFFICES ASSUME ~astray', ~server'.done PROVE CurrentInv'
    BY DEF CurrentInv
  <2>1. new \in FlightSet /\ ~Form!Idle(s)'
    BY <1>1, <1>3 DEF Form!Idle
  <2>2. new.mode = form'.mode
    BY DEF FormInv, CurrentInv
  <2>3. IF new.answered /\ new.reply # 0 THEN Taken(s)'
        ELSE IF dialog = "login" /\ new.ask = "confirm" THEN SigningIn(s)' ELSE Undone(s)'
    OBVIOUS
  <2> QED
    BY <1>1, <1>9, <2>1, <2>2, <2>3 DEF CurrentInv
<1> QED
  BY <1>2, <1>6, <1>7, <1>10, <1>11 DEF FormInv

\* Nothing that Fits or Undone speaks of is touched.
LEMMA StillUndone ==
    ASSUME NEW s \in Slots, Undone(s), UNCHANGED <<dialog, form, server>>, flight'[s].ask = flight[s].ask,
           flight'[s].challenge = flight[s].challenge, flight'[s].token = flight[s].token
    PROVE  Undone(s)'
  BY DEF Undone, Fits, FitsAs, StepOf, OpenOne, Form!Expected

\* The answer to a code of the sign-in sends the token on.
LEMMA TokenStep ==
    ASSUME FormInv, NEW s \in Slots, dialog = "login", flight[s].ask = "firstCode",
           ~flight[s].deaf, flight[s].answered, flight[s].reply # 0,
           flight' = [flight EXCEPT ![s] = [@ EXCEPT !.ask = "confirm", !.token = flight[s].reply,
                                                     !.answered = FALSE, !.reply = 0]],
           UNCHANGED <<dialog, form, server, astray>>
    PROVE  FormInv'
<1> DEFINE old == flight[s]
           new == [old EXCEPT !.ask = "confirm", !.token = old.reply, !.answered = FALSE, !.reply = 0]
           one == [old EXCEPT !.ask = "confirm"]
           two == [one EXCEPT !.token = old.reply]
           three == [two EXCEPT !.answered = FALSE]
<1>1. old \in FlightSet
  BY FlightType DEF FormInv, Asks
<1>2. flight' = [flight EXCEPT ![s] = new]
  BY Zenon
<1>3. /\ form \in FormSet /\ server \in ServerSet /\ astray \in BOOLEAN
  BY DEF FormInv, FormTypeOK
<1>4. /\ new \in FlightSet /\ new.ask = "confirm" /\ new.token = old.reply /\ ~new.answered /\ new.reply = 0
      /\ new.mode = old.mode /\ new.challenge = old.challenge /\ new.deaf = old.deaf /\ new.alone = old.alone
  <2>1. /\ one \in FlightSet /\ one.ask = "confirm"
        /\ one.mode = old.mode /\ one.challenge = old.challenge /\ one.deaf = old.deaf /\ one.alone = old.alone
    BY <1>1 DEF FlightSet, Asks
  <2>2. /\ two \in FlightSet /\ two.ask = one.ask /\ two.token = old.reply
        /\ two.mode = one.mode /\ two.challenge = one.challenge /\ two.deaf = one.deaf /\ two.alone = one.alone
    <3> HIDE DEF one
    <3> QED
      BY <1>1, <2>1 DEF FlightSet
  <2>3. /\ three \in FlightSet /\ three.ask = two.ask /\ three.token = two.token /\ ~three.answered
        /\ three.mode = two.mode /\ three.challenge = two.challenge /\ three.deaf = two.deaf /\ three.alone = two.alone
    <3> HIDE DEF two
    <3> QED
      BY <2>2 DEF FlightSet
  <2>4. new = [three EXCEPT !.reply = 0]
    BY Zenon
  <2> HIDE DEF new, one, two, three
  <2>5. /\ new \in FlightSet /\ new.ask = three.ask /\ new.token = three.token
        /\ new.answered = three.answered /\ new.reply = 0
        /\ new.mode = three.mode /\ new.challenge = three.challenge
        /\ new.deaf = three.deaf /\ new.alone = three.alone
    BY <2>3, <2>4 DEF FlightSet
  <2> QED
    BY <2>1, <2>2, <2>3, <2>5
<1> HIDE DEF new, one, two, three
<1>5. flight'[s] = new
  BY <1>2 DEF FormInv, FormTypeOK
<1>6. old.challenge # 0
  BY <1>1 DEF FormInv, NamedInv, Later
<1>7. ASSUME ~astray, ~server.done PROVE SigningIn(s)'
  <2>1. Taken(s)
    BY <1>1, <1>7 DEF FormInv, CurrentInv
  <2> QED
    BY <1>4, <1>5, <2>1 DEF Taken, SigningIn, OpenOne, Form!Expected, Form!AfterFirst
<1>8. new \in FlightSet =>
          /\ new.ask \in Later => new.challenge # 0 /\ (new.ask = "confirm" => new.token # 0)
          /\ ~new.answered => new.reply = 0
  BY <1>4, <1>6
<1>9. ~astray' => ~astray /\ form' = form /\ new \in FlightSet /\ ~new.deaf /\ new.mode = flight[s].mode
  BY <1>4
<1> HIDE DEF old
<1>10. flight[s] \in FlightSet /\ new \in FlightSet \cup {Form!NoRequest}
  BY <1>1, <1>4 DEF old
<1>11. new \in FlightSet /\ new.alone =>
               /\ flight[s].alone
               /\ new.ask \in {"start", "restart"} /\ new.answered /\ new.reply # 0 =>
                     server'.open[new.mode] = [id |-> new.reply, expects |-> "firstCode"]
  BY <1>4 DEF old
<1>12. ~astray' /\ ~server'.done =>
               IF new.answered /\ new.reply # 0 THEN Taken(s)'
               ELSE IF dialog = "login" /\ new.ask = "confirm" THEN SigningIn(s)' ELSE Undone(s)'
  BY <1>4, <1>7
<1> QED
  BY <1>2, <1>3, <1>8, <1>9, <1>10, <1>11, <1>12, OneFlight
LEMMA RefuseStep ==
    ASSUME FormInv, NEW s \in Slots, Form!Refuse(s)
    PROVE  FormInv'
<1>1. /\ flight[s] \in FlightSet /\ ~flight[s].answered /\ UNCHANGED <<dialog, form, server>>
      /\ astray' = (astray \/ (dialog = "login" /\ flight[s].ask = "confirm"))
  BY FlightType DEF FormInv, Form!Refuse
<1>2. form \in FormSet /\ server \in ServerSet /\ astray' \in BOOLEAN
  BY <1>1 DEF FormInv, FormTypeOK
<1>3. CASE flight[s].deaf
  <2>1. flight' = [flight EXCEPT ![s] = Form!NoRequest]
    BY <1>3 DEF Form!Refuse
  <2>2. astray'
    BY <1>1, <1>3 DEF FormInv, OnlyOne
  <2>3. Form!NoRequest \notin FlightSet
    BY DEF Form!NoRequest, FlightSet, Asks
  <2> QED
    BY <1>1, <1>2, <2>1, <2>2, <2>3, OneFlight
<1>4. CASE ~flight[s].deaf
  <2> DEFINE new == [flight[s] EXCEPT !.answered = TRUE]
  <2>1. flight' = [flight EXCEPT ![s] = new]
    <3>1. flight' = [flight EXCEPT ![s].answered = TRUE]
      BY <1>4 DEF Form!Refuse
    <3> QED
      BY <3>1, Zenon
  <2>2. /\ new \in FlightSet /\ new.answered /\ new.reply = flight[s].reply /\ new.ask = flight[s].ask
        /\ new.mode = flight[s].mode /\ new.challenge = flight[s].challenge /\ new.token = flight[s].token
        /\ new.deaf = flight[s].deaf /\ new.alone = flight[s].alone
    BY <1>1 DEF FlightSet
  <2> HIDE DEF new
  <2>3. flight[s].reply = 0 /\ NamedInv(s)
    BY <1>1 DEF FormInv, NamedInv
  <2>4. flight'[s] = new
    BY <2>1 DEF FormInv, FormTypeOK
  <2>5. ~astray' /\ ~server'.done => ~(dialog = "login" /\ new.ask = "confirm") /\ Undone(s)'
    <3>1. ~astray' /\ ~server'.done => ~(dialog = "login" /\ new.ask = "confirm") /\ Undone(s)
      BY <1>1, <2>2 DEF FormInv, CurrentInv
    <3> QED
      BY <1>1, <2>2, <2>4, <3>1, StillUndone
  <2>6. new \in FlightSet =>
               /\ new.ask \in Later => new.challenge # 0 /\ (new.ask = "confirm" => new.token # 0)
               /\ ~new.answered => new.reply = 0
    BY <1>1, <2>2, <2>3 DEF NamedInv
  <2> QED
    BY <1>1, <1>2, <1>4, <2>1, <2>2, <2>3, <2>5, <2>6, OneFlight
<1> QED
  BY <1>3, <1>4

LEMMA TimesOutStep ==
    ASSUME FormInv, NEW s \in Slots, Form!TimesOut(s)
    PROVE  FormInv'
<1>1. /\ flight[s] \in FlightSet /\ UNCHANGED <<dialog, server>> /\ astray' = TRUE
  BY FlightType DEF FormInv, Form!TimesOut
<1>2. /\ form \in FormSet /\ server \in ServerSet
  BY DEF FormInv, FormTypeOK
<1>3. form' \in FormSet /\ form'.mode = form.mode
  <2> DEFINE one == [form EXCEPT !.busy = FALSE]
  <2>1. one \in FormSet /\ one.mode = form.mode
    BY <1>2 DEF FormSet
  <2>2. form' = [one EXCEPT !.refused = TRUE]
    BY DEF Form!TimesOut
  <2> HIDE DEF one
  <2> QED
    BY <2>1, <2>2 DEF FormSet
<1>4. CASE flight[s].answered
  <2>1. flight' = [flight EXCEPT ![s] = Form!NoRequest]
    BY <1>4 DEF Form!TimesOut
  <2>2. Form!NoRequest \notin FlightSet
    BY DEF Form!NoRequest, FlightSet, Asks
  <2> QED
    BY <1>1, <1>2, <1>3, <2>1, <2>2, OneFlight
<1>5. CASE ~flight[s].answered
  <2> DEFINE new == [flight[s] EXCEPT !.deaf = TRUE]
  <2>1. flight' = [flight EXCEPT ![s] = new]
    <3>1. flight' = [flight EXCEPT ![s] = [flight[s] EXCEPT !.deaf = TRUE]]
      BY <1>5 DEF Form!TimesOut
    <3> QED
      BY <3>1, Zenon
  <2>2. /\ new \in FlightSet /\ new.answered = flight[s].answered /\ new.reply = flight[s].reply
        /\ new.ask = flight[s].ask /\ new.mode = flight[s].mode /\ new.alone = flight[s].alone
        /\ new.challenge = flight[s].challenge /\ new.token = flight[s].token
    BY <1>1 DEF FlightSet
  <2> HIDE DEF new
  <2>3. NamedInv(s)
    BY DEF FormInv
  <2>4. new \in FlightSet =>
               /\ new.ask \in Later => new.challenge # 0 /\ (new.ask = "confirm" => new.token # 0)
               /\ ~new.answered => new.reply = 0
    BY <1>1, <2>2, <2>3 DEF NamedInv
  <2> QED
    BY <1>1, <1>2, <1>3, <1>5, <2>1, <2>2, <2>4, OneFlight
<1> QED
  BY <1>4, <1>5

\* The recovery dialog is closed and opened again: its requests are deaf now.
LEMMA ReopenStep ==
    ASSUME FormInv, Form!RecoveryReopen
    PROVE  FormInv'
<1>1. /\ form' = Form!Fresh /\ UNCHANGED <<dialog, server>> /\ astray' = (astray \/ Form!Waiting)
      /\ flight' = [s \in Slots |-> IF Form!Idle(s) \/ flight[s].answered THEN Form!NoRequest
                                    ELSE [flight[s] EXCEPT !.deaf = TRUE]]
  BY DEF Form!RecoveryReopen
<1>2. Form!NoRequest \notin FlightSet
  BY DEF Form!NoRequest, FlightSet, Asks
<1>3. ASSUME NEW s \in Slots
      PROVE  \/ flight'[s] = Form!NoRequest
             \/ /\ flight[s] \in FlightSet /\ flight'[s] \in FlightSet /\ ~flight'[s].answered
                /\ flight'[s].reply = flight[s].reply /\ flight[s].answered = flight'[s].answered
                /\ flight'[s].ask = flight[s].ask /\ flight'[s].challenge = flight[s].challenge
                /\ flight'[s].token = flight[s].token /\ flight'[s].alone = flight[s].alone
  <2>1. CASE Form!Idle(s) \/ flight[s].answered
    BY <1>1, <2>1
  <2>2. CASE ~(Form!Idle(s) \/ flight[s].answered)
    <3>1. flight[s] \in FlightSet /\ flight'[s] = [flight[s] EXCEPT !.deaf = TRUE]
      BY <1>1, <2>2, FlightType DEF FormInv
    <3> QED
      BY <2>2, <3>1 DEF FlightSet
  <2> QED
    BY <2>1, <2>2
<1>4. FormTypeOK'
  <2>1. \A s \in Slots : flight'[s] \in FlightSet \cup {Form!NoRequest}
    BY <1>3
  <2>2. flight' = [s \in Slots |-> flight'[s]]
    BY <1>1, Zenon
  <2>3. flight' \in [Slots -> FlightSet \cup {Form!NoRequest}]
    BY <2>1, <2>2
  <2>4. astray' \in BOOLEAN
    BY <1>1 DEF FormInv, FormTypeOK, Form!Waiting
  <2> QED
    BY <1>1, <2>3, <2>4, FreshFacts DEF FormInv, FormTypeOK
<1>5. ASSUME NEW s \in Slots PROVE (AloneInv(s) /\ NamedInv(s))'
  <2>1. AloneInv(s) /\ NamedInv(s)
    BY DEF FormInv
  <2>2. \A t \in Slots : Form!Idle(t) => Form!Idle(t)'
    BY <1>1 DEF Form!Idle
  <2>3. AloneInv(s)'
    BY <1>2, <1>3, <2>1, <2>2 DEF AloneInv
  <2>4. NamedInv(s)'
    BY <1>2, <1>3, <2>1 DEF NamedInv
  <2> QED
    BY <2>3, <2>4
<1>6. ~astray' => \A s \in Slots : flight'[s] = Form!NoRequest
  BY <1>1 DEF Form!Waiting, Form!Idle
<1>7. OnlyOne'
  BY <1>2, <1>6 DEF OnlyOne
<1>8. CurrentInv'
  BY <1>1, <1>2, <1>6, FreshFacts DEF CurrentInv, Fits, FitsAs, StepOf
<1> QED
  BY <1>4, <1>5, <1>7, <1>8 DEF FormInv
-------------------------------------------------------------------------------
(***************************************************************************)
(* The server at work                                                      *)
(***************************************************************************)
LEMMA AnswerStep ==
    ASSUME FormInv, NEW s \in Slots, flight[s] \in FlightSet, ~flight[s].answered,
           NEW reply \in Nat, Form!Answer(s, reply), UNCHANGED <<dialog, form>>,
           server' \in ServerSet, ~server'.done => ~server.done,
           reply # 0 /\ flight[s].ask \in {"start", "restart"} =>
               server'.open[flight[s].mode] = [id |-> reply, expects |-> "firstCode"],
           (~astray /\ ~server'.done /\ reply # 0 /\ flight'[s].reply = reply
            /\ flight'[s].ask = flight[s].ask /\ flight'[s].challenge = flight[s].challenge)
           => Taken(s)',
           reply = 0 =>
               /\ server' = server
               /\ ~astray /\ ~server.done => ~(dialog = "login" /\ flight[s].ask = "confirm")
    PROVE  FormInv'
<1> DEFINE yes == [flight[s] EXCEPT !.answered = TRUE]
           full == [yes EXCEPT !.reply = reply]
<1>1. /\ yes \in FlightSet /\ yes.answered /\ yes.reply = flight[s].reply /\ yes.ask = flight[s].ask
      /\ yes.mode = flight[s].mode /\ yes.challenge = flight[s].challenge /\ yes.token = flight[s].token
      /\ yes.deaf = flight[s].deaf /\ yes.alone = flight[s].alone
  BY DEF FlightSet
<1>2. /\ full \in FlightSet /\ full.answered /\ full.reply = reply /\ full.ask = flight[s].ask
      /\ full.mode = flight[s].mode /\ full.challenge = flight[s].challenge /\ full.token = flight[s].token
      /\ full.deaf = flight[s].deaf /\ full.alone = flight[s].alone
  <2> HIDE DEF yes
  <2> QED
    BY <1>1 DEF FlightSet
<1>3. \/ /\ flight[s].deaf /\ flight' = [flight EXCEPT ![s] = Form!NoRequest] /\ astray' = astray
      \/ /\ ~flight[s].deaf /\ flight' = [flight EXCEPT ![s] = full] /\ astray' = astray
      \/ /\ ~flight[s].deaf /\ flight' = [flight EXCEPT ![s] = yes] /\ astray' = TRUE
  <2>1. \/ /\ flight[s].deaf /\ flight' = [flight EXCEPT ![s] = Form!NoRequest] /\ astray' = astray
        \/ /\ ~flight[s].deaf /\ flight' = [flight EXCEPT ![s].answered = TRUE, ![s].reply = reply]
           /\ astray' = astray
        \/ /\ ~flight[s].deaf /\ flight' = [flight EXCEPT ![s].answered = TRUE] /\ astray' = TRUE
    BY DEF Form!Answer
  <2>2. flight \in [Slots -> FlightSet \cup {Form!NoRequest}]
    BY DEF FormInv, FormTypeOK
  <2>3. [flight EXCEPT ![s].answered = TRUE, ![s].reply = reply] = [flight EXCEPT ![s] = full]
    BY <2>2, Zenon
  <2>4. [flight EXCEPT ![s].answered = TRUE] = [flight EXCEPT ![s] = yes]
    BY Zenon
  <2> QED
    BY <2>1, <2>3, <2>4
<1> HIDE DEF yes, full
<1>4. form' \in FormSet /\ astray \in BOOLEAN /\ flight \in [Slots -> FlightSet \cup {Form!NoRequest}] /\ dialog' = dialog
  BY DEF FormInv, FormTypeOK
<1>5. NamedInv(s) /\ flight[s].reply = 0
  BY DEF FormInv, NamedInv
<1>6. CASE flight[s].deaf /\ flight' = [flight EXCEPT ![s] = Form!NoRequest] /\ astray' = astray
  <2>1. astray'
    BY <1>6 DEF FormInv, OnlyOne
  <2>2. Form!NoRequest \notin FlightSet
    BY DEF Form!NoRequest, FlightSet, Asks
  <2> QED
    BY <1>4, <1>6, <2>1, <2>2, OneFlight
<1>7. CASE ~flight[s].deaf /\ flight' = [flight EXCEPT ![s] = yes] /\ astray' = TRUE
  <2>1. yes \in FlightSet =>
               /\ yes.ask \in Later => yes.challenge # 0 /\ (yes.ask = "confirm" => yes.token # 0)
               /\ ~yes.answered => yes.reply = 0
    BY <1>1, <1>5 DEF NamedInv
  <2> QED
    BY <1>1, <1>4, <1>5, <1>7, <2>1, OneFlight
<1>8. CASE ~flight[s].deaf /\ flight' = [flight EXCEPT ![s] = full] /\ astray' = astray
  <2>1. flight'[s] = full
    BY <1>4, <1>8
  <2>2. full \in FlightSet =>
               /\ full.ask \in Later => full.challenge # 0 /\ (full.ask = "confirm" => full.token # 0)
               /\ ~full.answered => full.reply = 0
    BY <1>2, <1>5 DEF NamedInv
  <2>3. ASSUME ~astray', ~server'.done
        PROVE  IF full.answered /\ full.reply # 0 THEN Taken(s)'
               ELSE IF dialog = "login" /\ full.ask = "confirm" THEN SigningIn(s)' ELSE Undone(s)'
    <3>1. CASE reply # 0
      <4>1. Taken(s)'
        BY <1>2, <1>8, <2>1, <2>3, <3>1
      <4> QED
        BY <1>2, <3>1, <4>1
    <3>2. CASE reply = 0
      <4>1. ~(dialog = "login" /\ flight[s].ask = "confirm")
        BY <1>8, <2>3, <3>2
      <4>2. Undone(s)
        BY <1>8, <2>3, <4>1 DEF FormInv, CurrentInv
      <4>3. Undone(s)'
        BY <1>2, <2>1, <3>2, <4>2, StillUndone
      <4> QED
        BY <1>2, <3>2, <4>1, <4>3
    <3> QED
      BY <3>1, <3>2
  <2>4. full \in FlightSet /\ full.alone =>
               /\ flight[s].alone
               /\ full.ask \in {"start", "restart"} /\ full.answered /\ full.reply # 0 =>
                     server'.open[full.mode] = [id |-> full.reply, expects |-> "firstCode"]
    BY <1>2
  <2>5. ~astray' => ~astray /\ form' = form /\ full \in FlightSet /\ ~full.deaf /\ full.mode = flight[s].mode
    BY <1>2, <1>8
  <2>6. form'.mode = form.mode /\ astray' \in BOOLEAN /\ full \in FlightSet \cup {Form!NoRequest}
    BY <1>2, <1>4, <1>8
  <2> QED
    BY <1>4, <1>8, <2>2, <2>3, <2>4, <2>5, <2>6, OneFlight
<1> QED
  BY <1>3, <1>6, <1>7, <1>8

LEMMA AnswerNoStep ==
    ASSUME FormInv, NEW s \in Slots, flight[s] \in FlightSet, ~flight[s].answered,
           Form!Answer(s, 0), UNCHANGED <<dialog, form, server>>,
           ~astray /\ ~server.done => ~(dialog = "login" /\ flight[s].ask = "confirm")
    PROVE  FormInv'
<1>1. 0 \in Nat /\ server' \in ServerSet /\ (~server'.done => ~server.done) /\ UNCHANGED <<dialog, form>>
  BY DEF FormInv, FormTypeOK
<1>2. 0 # 0 /\ flight[s].ask \in {"start", "restart"} =>
         server'.open[flight[s].mode] = [id |-> 0, expects |-> "firstCode"]
  OBVIOUS
<1>3. (~astray /\ ~server'.done /\ 0 # 0 /\ flight'[s].reply = 0
       /\ flight'[s].ask = flight[s].ask /\ flight'[s].challenge = flight[s].challenge)
      => Taken(s)'
  OBVIOUS
<1>4. 0 = 0 => /\ server' = server
               /\ ~astray /\ ~server.done => ~(dialog = "login" /\ flight[s].ask = "confirm")
  OBVIOUS
<1> QED
  BY <1>1, <1>2, <1>3, <1>4, AnswerStep

LEMMA AnswerYesStep ==
    ASSUME FormInv, NEW s \in Slots, flight[s] \in FlightSet, ~flight[s].answered,
           NEW reply \in Nat, reply # 0, Form!Answer(s, reply), UNCHANGED <<dialog, form>>,
           server' \in ServerSet, ~server.done,
           flight[s].ask \in {"start", "restart"} =>
               server'.open[flight[s].mode] = [id |-> reply, expects |-> "firstCode"],
           (~astray /\ ~server'.done /\ flight'[s].reply = reply
            /\ flight'[s].ask = flight[s].ask /\ flight'[s].challenge = flight[s].challenge)
           => Taken(s)'
    PROVE  FormInv'
<1>1. reply # 0 /\ flight[s].ask \in {"start", "restart"} =>
         server'.open[flight[s].mode] = [id |-> reply, expects |-> "firstCode"]
  OBVIOUS
<1>2. (~astray /\ ~server'.done /\ reply # 0 /\ flight'[s].reply = reply
       /\ flight'[s].ask = flight[s].ask /\ flight'[s].challenge = flight[s].challenge)
      => Taken(s)'
  OBVIOUS
<1>3. reply = 0 => /\ server' = server
                   /\ ~astray /\ ~server.done => ~(dialog = "login" /\ flight[s].ask = "confirm")
  OBVIOUS
<1>4. ~server'.done => ~server.done
  OBVIOUS
<1> QED
  BY <1>1, <1>2, <1>3, <1>4, AnswerStep

\* A move of the open challenge of one mode.
LEMMA OpenMoves ==
    ASSUME server \in ServerSet, NEW m \in Form!Modes, NEW next \in Places
    PROVE  LET moved == [server EXCEPT !.open[m].expects = next, !.done = (next = "success")]
           IN  /\ moved \in ServerSet /\ moved.issued = server.issued /\ moved.done = (next = "success")
               /\ moved.open[m].id = OpenOne(m).id /\ moved.open[m].expects = next
<1> DEFINE there == [OpenOne(m) EXCEPT !.expects = next]
           opened == [server.open EXCEPT ![m] = there]
           one == [server EXCEPT !.open = opened]
           moved == [server EXCEPT !.open[m].expects = next, !.done = (next = "success")]
<1>1. OpenOne(m) \in [id : Nat, expects : Places \cup {"start"}]
  BY DEF ServerSet, OpenOne
<1>2. there \in [id : Nat, expects : Places \cup {"start"}] /\ there.id = OpenOne(m).id /\ there.expects = next
  BY <1>1
<1>3. opened \in [Form!Modes -> [id : Nat, expects : Places \cup {"start"}]] /\ opened[m] = there
  <2> HIDE DEF there
  <2> QED
    BY <1>2 DEF ServerSet
<1>4. one \in ServerSet /\ one.open = opened /\ one.issued = server.issued
  <2> HIDE DEF opened
  <2> QED
    BY <1>3 DEF ServerSet
<1>5. moved = [one EXCEPT !.done = (next = "success")]
  BY Zenon DEF OpenOne
<1> HIDE DEF one, opened, there
<1>6. /\ moved \in ServerSet /\ moved.issued = server.issued /\ moved.done = (next = "success")
      /\ moved.open = opened
  <2> HIDE DEF moved
  <2> QED
    BY <1>4, <1>5 DEF ServerSet
<1> QED
  BY <1>2, <1>3, <1>6
LEMMA StartChallengeStep ==
    ASSUME FormInv, NEW s \in Slots, Form!StartChallenge(s)
    PROVE  FormInv'
<1> DEFINE m == flight[s].mode
           id == server.issued + 1
           open == [id |-> id, expects |-> "firstCode"]
           opened == [server.open EXCEPT ![m] = open]
           one == [server EXCEPT !.issued = id]
<1>1. /\ flight[s].ask \in {"start", "restart"} /\ ~flight[s].answered /\ UNCHANGED <<dialog, form>>
      /\ \/ /\ ~server.done /\ server' = [server EXCEPT !.issued = id, !.open[m] = open]
            /\ Form!Answer(s, id)
         \/ server' = server /\ Form!Answer(s, 0)
  BY DEF Form!StartChallenge, Form!Pending
<1>2. flight[s] \in FlightSet /\ m \in Form!Modes
  BY <1>1, FlightType DEF FormInv, Asks
<1>3. server \in ServerSet
  BY DEF FormInv, FormTypeOK
<1>4. CASE server' = server /\ Form!Answer(s, 0)
  <2>1. ~(dialog = "login" /\ flight[s].ask = "confirm") /\ UNCHANGED <<dialog, form, server>>
    BY <1>1, <1>4
  <2> QED
    BY <1>1, <1>2, <1>4, <2>1, AnswerNoStep
<1>5. CASE /\ ~server.done /\ server' = [server EXCEPT !.issued = id, !.open[m] = open]
           /\ Form!Answer(s, id)
  <2>1. id \in Nat /\ id # 0
    BY <1>3 DEF ServerSet
  <2>2. open \in [id : Nat, expects : Places \cup {"start"}]
    BY <2>1 DEF Places
  <2>3. opened \in [Form!Modes -> [id : Nat, expects : Places \cup {"start"}]] /\ opened[m] = open
    <3> HIDE DEF open, m
    <3> QED
      BY <1>2, <1>3, <2>2 DEF ServerSet
  <2>4. one \in ServerSet /\ one.open = server.open /\ one.done = server.done
    BY <1>3, <2>1 DEF ServerSet
  <2>5. server' = [one EXCEPT !.open = opened]
    <3>1. server' = [server EXCEPT !.issued = id, !.open[m] = open]
      BY <1>5
    <3>2. [server EXCEPT !.issued = id, !.open[m] = open] = [one EXCEPT !.open = opened]
      <4> HIDE DEF id, m, open
      <4> QED
        BY <1>3, Zenon DEF ServerSet
    <3> QED
      BY <3>1, <3>2
  <2>6. server' \in ServerSet /\ server'.open = opened /\ server'.done = server.done
    <3> HIDE DEF one, opened
    <3> QED
      BY <2>3, <2>4, <2>5 DEF ServerSet
  <2>7. server'.open[m] = open
    BY <2>3, <2>6
  <2>8. ASSUME ~astray, ~server'.done, flight'[s].reply = id, flight'[s].ask = flight[s].ask
        PROVE  Taken(s)'
    <3>1. m = form.mode
      BY <1>2, <2>6, <2>8 DEF FormInv, CurrentInv
    <3> QED
      BY <1>1, <2>7, <2>8, <3>1 DEF Taken, OpenOne
  <2>9. flight[s].ask \in {"start", "restart"} =>
               server'.open[flight[s].mode] = [id |-> id, expects |-> "firstCode"]
    BY <2>7
  <2>10. (~astray /\ ~server'.done /\ flight'[s].reply = id
          /\ flight'[s].ask = flight[s].ask /\ flight'[s].challenge = flight[s].challenge)
         => Taken(s)'
    BY <2>8
  <2>11. ~server.done /\ Form!Answer(s, id) /\ server' \in ServerSet
    BY <1>5, <2>6
  <2> HIDE DEF id, m, open, opened, one
  <2> QED
    BY <1>1, <1>2, <2>1, <2>9, <2>10, <2>11, AnswerYesStep
<1> QED
  BY <1>1, <1>4, <1>5

LEMMA VerifyCodeStep ==
    ASSUME FormInv, NEW s \in Slots, NEW ask \in {"firstCode", "secondCode"},
           NEW next \in Places, next = IF ask = "firstCode" THEN Form!AfterFirst ELSE Form!AfterSecond,
           Form!VerifyCode(s, ask, next)
    PROVE  FormInv'
<1> DEFINE m == flight[s].mode
<1>1. /\ flight[s].ask = ask /\ ~flight[s].answered /\ UNCHANGED <<dialog, form>>
      /\ \/ /\ ~server.done /\ flight[s].challenge = OpenOne(m).id
            /\ server' = [server EXCEPT !.open[m].expects = next, !.done = (next = "success")]
            /\ Form!Answer(s, flight[s].challenge)
         \/ server' = server /\ Form!Answer(s, 0)
  BY DEF Form!VerifyCode, Form!Pending, OpenOne
<1>2. flight[s] \in FlightSet /\ m \in Form!Modes /\ flight[s].challenge \in Nat
  BY <1>1, FlightType DEF FormInv, Asks
<1>3. server \in ServerSet
  BY DEF FormInv, FormTypeOK
<1>4. CASE server' = server /\ Form!Answer(s, 0)
  <2>1. ~(dialog = "login" /\ flight[s].ask = "confirm") /\ UNCHANGED <<dialog, form, server>>
    BY <1>1, <1>4
  <2> QED
    BY <1>1, <1>2, <1>4, <2>1, AnswerNoStep
<1>5. CASE /\ ~server.done /\ flight[s].challenge = OpenOne(m).id
           /\ server' = [server EXCEPT !.open[m].expects = next, !.done = (next = "success")]
           /\ Form!Answer(s, flight[s].challenge)
  <2>1. /\ server' \in ServerSet /\ server'.open[m].id = OpenOne(m).id
        /\ server'.open[m].expects = next
    <3> HIDE DEF m
    <3> QED
      BY <1>2, <1>3, <1>5, OpenMoves
  <2>2. flight[s].challenge # 0
    BY <1>1, <1>2 DEF FormInv, NamedInv, Later
  <2>3. ASSUME ~astray, ~server'.done, flight'[s].reply = flight[s].challenge,
               flight'[s].ask = flight[s].ask, flight'[s].challenge = flight[s].challenge
        PROVE  Taken(s)'
    <3>1. m = form.mode /\ Undone(s)
      BY <1>1, <1>2, <1>5, <2>3 DEF FormInv, CurrentInv
    <3>2. StepOf(form) = ask /\ form.challenge = flight[s].challenge
      BY <1>1, <3>1 DEF Undone, Later
    <3>3. /\ OpenOne(form.mode)'.id = flight[s].challenge
          /\ Form!Expected(form.mode)' = next /\ StepOf(form)' = ask
          /\ form'.challenge = flight[s].challenge
      BY <1>1, <1>5, <2>1, <3>1, <3>2 DEF OpenOne, Form!Expected, StepOf
    <3>4. Form!AfterFirst' = Form!AfterFirst /\ Form!AfterSecond' = Form!AfterSecond
      BY <1>1 DEF Form!AfterFirst, Form!AfterSecond
    <3> QED
      BY <1>1, <2>3, <3>3, <3>4 DEF Taken
  <2>4. flight[s].ask \notin {"start", "restart"}
    BY <1>1
  <2>5. (~astray /\ ~server'.done /\ flight'[s].reply = flight[s].challenge
         /\ flight'[s].ask = flight[s].ask /\ flight'[s].challenge = flight[s].challenge)
        => Taken(s)'
    BY <2>3
  <2> QED
    BY <1>1, <1>2, <1>5, <2>1, <2>2, <2>4, <2>5, AnswerYesStep
<1> QED
  BY <1>1, <1>4, <1>5

LEMMA CompleteStep ==
    ASSUME FormInv, NEW s \in Slots, Form!Complete(s)
    PROVE  FormInv'
<1> DEFINE m == flight[s].mode
           ok == /\ ~server.done /\ Form!Expected(m) = "confirm"
                 /\ flight[s].challenge = server.open[m].id
                 /\ flight[s].token = flight[s].challenge
<1>1. /\ flight[s].ask = "confirm" /\ ~flight[s].answered /\ UNCHANGED <<dialog, form>>
      /\ \/ ok /\ server' = [server EXCEPT !.done = TRUE] /\ Form!Answer(s, flight[s].token)
         \/ ~ok /\ server' = server /\ Form!Answer(s, 0)
  BY DEF Form!Complete, Form!Pending
<1>2. flight[s] \in FlightSet /\ flight[s].token \in Nat
  BY <1>1, FlightType DEF FormInv, Asks
<1>3. server \in ServerSet
  BY DEF FormInv, FormTypeOK
<1>4. CASE ~ok /\ server' = server /\ Form!Answer(s, 0)
  <2>1. ~astray /\ ~server.done => dialog # "login"
    BY <1>1, <1>2, <1>4 DEF FormInv, CurrentInv, SigningIn, OpenOne
  <2> HIDE DEF ok
  <2> QED
    BY <1>1, <1>2, <1>4, <2>1, AnswerNoStep
<1>5. CASE ok /\ server' = [server EXCEPT !.done = TRUE] /\ Form!Answer(s, flight[s].token)
  <2>1. server' \in ServerSet /\ server'.done
    BY <1>3, <1>5 DEF ServerSet
  <2>2. flight[s].token # 0
    BY <1>1, <1>2 DEF FormInv, NamedInv, Later
  <2>3. flight[s].ask \notin {"start", "restart"}
    BY <1>1
  <2>4. (~astray /\ ~server'.done /\ flight'[s].reply = flight[s].token
         /\ flight'[s].ask = flight[s].ask /\ flight'[s].challenge = flight[s].challenge)
        => Taken(s)'
    BY <2>1
  <2>5. ~server.done
    BY <1>5
  <2> HIDE DEF ok
  <2> QED
    BY <1>1, <1>2, <1>5, <2>1, <2>2, <2>3, <2>4, <2>5, AnswerYesStep
<1> QED
  BY <1>1, <1>4, <1>5
-------------------------------------------------------------------------------
(***************************************************************************)
(* The handlers of the dialogs                                             *)
(***************************************************************************)
LEMMA MovedFacts ==
    ASSUME FormInv, NEW step \in Places
    PROVE  LET f == Form!Moved(step)
           IN  /\ f \in FormSet /\ f.mode = form.mode /\ StepOf(f) = step
               /\ f.challenge = form.challenge /\ f.token = form.token
<1> DEFINE steps == [form.step EXCEPT ![form.mode] = step]
           one == [form EXCEPT !.step = steps]
           f == [one EXCEPT !.back = FALSE]
<1>1. form \in FormSet
  BY DEF FormInv, FormTypeOK
<1>2. steps \in [Form!Modes -> Places] /\ steps[form.mode] = step
  BY <1>1 DEF FormSet
<1>3. /\ one \in FormSet /\ one.mode = form.mode /\ one.step = steps
      /\ one.challenge = form.challenge /\ one.token = form.token
  <2> HIDE DEF steps
  <2> QED
    BY <1>1, <1>2 DEF FormSet
<1>4. /\ f \in FormSet /\ f.mode = form.mode /\ f.step = steps
      /\ f.challenge = form.challenge /\ f.token = form.token
  <2> HIDE DEF one
  <2> QED
    BY <1>3 DEF FormSet
<1>5. Form!Moved(step) = f
  BY Zenon DEF Form!Moved
<1> QED
  BY <1>2, <1>4, <1>5 DEF StepOf

LEMMA StartedFacts ==
    ASSUME FormInv, NEW s \in Slots, flight[s] \in FlightSet
    PROVE  LET f == Form!Started(s)
           IN  /\ f \in FormSet /\ f.mode = form.mode
               /\ flight[s].ask \in {"start", "restart"} /\ flight[s].mode = form.mode /\ Taken(s) => FitsAs(f)
<1> DEFINE steps == [form.step EXCEPT ![flight[s].mode] = "firstCode"]
           one == [form EXCEPT !.challenge = flight[s].reply]
           two == [one EXCEPT !.clock = "running"]
           three == [two EXCEPT !.step = steps]
           f == [three EXCEPT !.back = FALSE]
<1>1. form \in FormSet /\ flight[s].mode \in Form!Modes /\ flight[s].reply \in Nat
  BY DEF FormInv, FormTypeOK, FlightSet
<1>2. steps \in [Form!Modes -> Places] /\ steps[flight[s].mode] = "firstCode"
  BY <1>1 DEF FormSet, Places
<1>3. one \in FormSet /\ one.mode = form.mode /\ one.step = form.step /\ one.challenge = flight[s].reply
  BY <1>1 DEF FormSet
<1>4. two \in FormSet /\ two.mode = form.mode /\ two.step = form.step /\ two.challenge = flight[s].reply
  <2> HIDE DEF one
  <2> QED
    BY <1>3 DEF FormSet
<1>5. f \in FormSet /\ f.mode = form.mode /\ f.step = steps /\ f.challenge = flight[s].reply
  <2>1. three \in FormSet /\ three.mode = form.mode /\ three.step = steps /\ three.challenge = flight[s].reply
    <3> HIDE DEF two, steps
    <3> QED
      BY <1>2, <1>4 DEF FormSet
  <2> HIDE DEF three
  <2> QED
    BY <2>1 DEF FormSet
<1>6. Form!Started(s) = f
  <2>1. Form!Started(s) = [form EXCEPT !.challenge = flight[s].reply, !.clock = "running",
                                       !.step[flight[s].mode] = "firstCode", !.back = FALSE]
    BY DEF Form!Started
  <2>2. two.step = form.step
    BY <1>4
  <2>3. Form!Started(s) = [[two EXCEPT !.step = [two.step EXCEPT ![flight[s].mode] = "firstCode"]]
                              EXCEPT !.back = FALSE]
    BY <2>1, Zenon
  <2> HIDE DEF two
  <2> QED
    BY <2>2, <2>3
<1> HIDE DEF f
<1>7. ASSUME flight[s].ask \in {"start", "restart"}, flight[s].mode = form.mode, Taken(s) PROVE FitsAs(f)
  <2>1. StepOf(f) = "firstCode"
    BY <1>2, <1>5, <1>7 DEF StepOf
  <2>2. OpenOne(form.mode).id = flight[s].reply /\ OpenOne(form.mode).expects = "firstCode"
    BY <1>7 DEF Taken
  <2> QED
    BY <1>5, <2>1, <2>2 DEF FitsAs, OpenOne, Form!Expected
<1> QED
  BY <1>5, <1>6, <1>7

\* After an accepted code the form asks for what comes next.
LEMMA SecondFacts ==
    ASSUME FormInv, dialog # "login", NEW s \in Slots, flight[s] \in FlightSet, flight[s].ask = "firstCode"
    PROVE  LET f == Form!AskingSecond
           IN  /\ f \in FormSet /\ f.mode = form.mode
               /\ flight[s].mode = form.mode /\ Taken(s) => FitsAs(f)
<1> DEFINE one == Form!Moved("secondCode")
           f == [one EXCEPT !.clock = "running"]
<1>1. /\ one \in FormSet /\ one.mode = form.mode /\ StepOf(one) = "secondCode"
      /\ one.challenge = form.challenge
  BY MovedFacts DEF Places
<1> HIDE DEF one
<1>2. f \in FormSet /\ f.mode = one.mode /\ f.step = one.step /\ f.challenge = one.challenge
  BY <1>1 DEF FormSet
<1>3. Form!AskingSecond = f
  BY DEF Form!AskingSecond, one
<1> HIDE DEF f
<1>4. ASSUME flight[s].mode = form.mode, Taken(s) PROVE FitsAs(f)
  <2>1. StepOf(f) = "secondCode" /\ f.challenge = form.challenge /\ f.mode = form.mode
    BY <1>1, <1>2 DEF StepOf
  <2>2. form.challenge = OpenOne(form.mode).id /\ Form!Expected(form.mode) = "secondCode"
    BY <1>4 DEF Taken, Form!AfterFirst
  <2> QED
    BY <2>1, <2>2 DEF FitsAs
<1> QED
  BY <1>1, <1>2, <1>3, <1>4

LEMMA TokenFacts ==
    ASSUME FormInv, dialog \notin {"login", "register"}, NEW s \in Slots, flight[s] \in FlightSet,
           flight[s].ask = "secondCode"
    PROVE  LET f == Form!Tokened(s)
           IN  /\ f \in FormSet /\ f.mode = form.mode
               /\ flight[s].mode = form.mode /\ Taken(s) => FitsAs(f)
<1> DEFINE one == Form!Moved("confirm")
           f == [one EXCEPT !.token = flight[s].reply]
<1>1. /\ one \in FormSet /\ one.mode = form.mode /\ StepOf(one) = "confirm"
      /\ one.challenge = form.challenge
  BY MovedFacts DEF Places
<1>2. flight[s].reply \in Nat
  BY DEF FlightSet
<1> HIDE DEF one
<1>3. /\ f \in FormSet /\ f.mode = one.mode /\ f.step = one.step /\ f.challenge = one.challenge
      /\ f.token = flight[s].reply
  BY <1>1, <1>2 DEF FormSet
<1>4. Form!Tokened(s) = f
  BY DEF Form!Tokened, one
<1> HIDE DEF f
<1>5. ASSUME flight[s].mode = form.mode, Taken(s) PROVE FitsAs(f)
  <2>1. /\ StepOf(f) = "confirm" /\ f.challenge = form.challenge /\ f.mode = form.mode
        /\ f.token = flight[s].reply
    BY <1>1, <1>3 DEF StepOf
  <2>2. /\ form.challenge = OpenOne(form.mode).id /\ flight[s].reply = OpenOne(form.mode).id
        /\ Form!Expected(form.mode) = "confirm"
    BY <1>5 DEF Taken, Form!AfterSecond
  <2> QED
    BY <2>1, <2>2 DEF FitsAs
<1> QED
  BY <1>1, <1>3, <1>4, <1>5
\* What an answer makes of the form.
LEMMA StartedStep ==
    ASSUME FormInv, NEW s \in Slots, NEW ask \in {"start", "restart"},
           Form!Answered(s, ask, Form!Started(s))
    PROVE  FormInv'
<1>1. flight[s] \in FlightSet /\ flight[s].ask = ask /\ ask \in Asks
  BY FlightType DEF FormInv, Form!Answered, Asks
<1>2. /\ Form!Started(s) \in FormSet /\ Form!Started(s).mode = form.mode
      /\ flight[s].mode = form.mode /\ Taken(s) => FitsAs(Form!Started(s))
  BY <1>1, StartedFacts
<1>3. dialog # "login" => form.mode = "email"
  BY DEF FormInv, FormTypeOK
<1> QED
  BY <1>1, <1>2, <1>3, AnsweredStep

LEMMA SecondStep ==
    ASSUME FormInv, NEW s \in Slots, dialog # "login", Form!Answered(s, "firstCode", Form!AskingSecond)
    PROVE  FormInv'
<1>1. flight[s] \in FlightSet /\ flight[s].ask = "firstCode" /\ "firstCode" \in Asks
  BY FlightType DEF FormInv, Form!Answered, Asks
<1>2. /\ Form!AskingSecond \in FormSet /\ Form!AskingSecond.mode = form.mode
      /\ flight[s].mode = form.mode /\ Taken(s) => FitsAs(Form!AskingSecond)
  BY <1>1, SecondFacts
<1>3. dialog # "login" => form.mode = "email"
  BY DEF FormInv, FormTypeOK
<1> QED
  BY <1>1, <1>2, <1>3, AnsweredStep

LEMMA TokenedStep ==
    ASSUME FormInv, NEW s \in Slots, dialog \notin {"login", "register"},
           Form!Answered(s, "secondCode", Form!Tokened(s))
    PROVE  FormInv'
<1>1. flight[s] \in FlightSet /\ flight[s].ask = "secondCode" /\ "secondCode" \in Asks
  BY FlightType DEF FormInv, Form!Answered, Asks
<1>2. /\ Form!Tokened(s) \in FormSet /\ Form!Tokened(s).mode = form.mode
      /\ flight[s].mode = form.mode /\ Taken(s) => FitsAs(Form!Tokened(s))
  BY <1>1, TokenFacts
<1>3. dialog # "login" => form.mode = "email"
  BY DEF FormInv, FormTypeOK
<1> QED
  BY <1>1, <1>2, <1>3, AnsweredStep

LEMMA EndStep ==
    ASSUME FormInv, NEW s \in Slots, NEW ask \in Asks, NEW f,
           f = Form!Moved("success") \/ f = Form!Fresh, Form!Answered(s, ask, f)
    PROVE  FormInv'
<1>1. dialog # "login" => form.mode = "email"
  BY DEF FormInv, FormTypeOK
<1>2. f \in FormSet /\ (dialog # "login" => f.mode = "email") /\ FitsAs(f)
  <2>1. CASE f = Form!Moved("success")
    <3>1. f \in FormSet /\ f.mode = form.mode /\ StepOf(f) = "success"
      BY <2>1, MovedFacts DEF Places
    <3> QED
      BY <1>1, <3>1 DEF FitsAs
  <2>2. CASE f = Form!Fresh
    BY <2>2, FreshFacts
  <2> QED
    BY <2>1, <2>2
<1> QED
  BY <1>2, AnsweredStep

\* A click that starts or restarts the dialog.
LEMMA BeginStep ==
    ASSUME FormInv, NEW s \in Slots, NEW ask \in {"start", "restart"}, NEW f,
           f = form \/ f = Form!Fresh, Form!Sends(s, ask, f)
    PROVE  FormInv'
<1>1. form \in FormSet /\ ask \in Asks /\ ask \notin Later
  BY DEF FormInv, FormTypeOK, Asks, Later
<1>2. f \in FormSet /\ (f = form \/ (StepOf(f) = "details" /\ f.mode = "email" /\ ask \notin Later))
  BY <1>1, FreshFacts
<1> QED
  BY <1>1, <1>2, SendStep DEF Later

LEMMA LoginStep ==
    ASSUME FormInv, NEW s \in Slots,
           Form!StartEmailChallenge(s) \/ Form!StartPhoneChallenge(s) \/ Form!VerifyLoginEmail(s)
              \/ Form!VerifyLoginPhone(s) \/ Form!SignInWithToken(s)
    PROVE  FormInv'
<1>1. ASSUME NEW m \in Form!Modes, Form!LoginStart(m, s) PROVE FormInv'
  <2>1. \/ Form!Sends(s, "start", form) \/ Form!Answered(s, "start", Form!Started(s))
    BY <1>1 DEF Form!LoginStart
  <2> QED
    BY <2>1, BeginStep, StartedStep
<1>2. ASSUME NEW m \in Form!Modes, Form!LoginVerify(m, s) PROVE FormInv'
  <2>1. CASE Form!SendsFrom("firstCode", s)
    BY <2>1, SendsFromStep DEF Later
  <2>2. CASE Form!Answered(s, "firstCode", form) /\ flight[s].reply = 0
    <3>1. form \in FormSet /\ (dialog # "login" => form.mode = "email") /\ "firstCode" \in Asks
      BY DEF FormInv, FormTypeOK, Asks
    <3> QED
      BY <2>2, <3>1, AnsweredStep
  <2>3. CASE /\ flight[s].ask = "firstCode" /\ ~flight[s].deaf /\ flight[s].answered /\ flight[s].reply # 0
             /\ flight' = [flight EXCEPT ![s] = [@ EXCEPT !.ask = "confirm", !.token = flight[s].reply,
                                                          !.answered = FALSE, !.reply = 0]]
             /\ UNCHANGED <<dialog, form, server, astray>>
    <3>1. dialog = "login"
      BY <1>2 DEF Form!LoginVerify
    <3> QED
      BY <2>3, <3>1, TokenStep
  <2> QED
    BY <1>2, <2>1, <2>2, <2>3 DEF Form!LoginVerify
<1>3. CASE Form!SignInWithToken(s)
  BY <1>3, EndStep DEF Form!SignInWithToken, Asks
<1>4. "email" \in Form!Modes /\ "phone" \in Form!Modes
  BY DEF Form!Modes
<1> QED
  BY <1>1, <1>2, <1>3, <1>4
     DEF Form!StartEmailChallenge, Form!StartPhoneChallenge, Form!VerifyLoginEmail, Form!VerifyLoginPhone
\* The dialogs that lead from two codes to an end.
LEMMA CodesStep ==
    ASSUME FormInv, NEW s \in Slots, dialog # "login",
           \/ Form!Sends(s, "start", form) \/ Form!Sends(s, "start", Form!Fresh) \/ Form!Sends(s, "restart", form)
           \/ Form!Answered(s, "start", Form!Started(s)) \/ Form!Answered(s, "restart", Form!Started(s))
           \/ Form!SendsFrom("firstCode", s) \/ Form!SendsFrom("secondCode", s) \/ Form!SendsFrom("confirm", s)
           \/ Form!Answered(s, "firstCode", Form!AskingSecond)
           \/ dialog # "register" /\ Form!Answered(s, "secondCode", Form!Tokened(s))
           \/ Form!Answered(s, "secondCode", Form!Moved("success"))
           \/ Form!Answered(s, "confirm", Form!Moved("success"))
           \/ Form!Answered(s, "confirm", Form!Fresh)
    PROVE  FormInv'
<1>1. CASE \/ Form!Sends(s, "start", form) \/ Form!Sends(s, "start", Form!Fresh) \/ Form!Sends(s, "restart", form)
  BY <1>1, BeginStep
<1>2. CASE Form!Answered(s, "start", Form!Started(s)) \/ Form!Answered(s, "restart", Form!Started(s))
  BY <1>2, StartedStep
<1>3. CASE \/ Form!SendsFrom("firstCode", s) \/ Form!SendsFrom("secondCode", s) \/ Form!SendsFrom("confirm", s)
  BY <1>3, SendsFromStep DEF Later
<1>4. CASE Form!Answered(s, "firstCode", Form!AskingSecond)
  BY <1>4, SecondStep
<1>5. CASE dialog # "register" /\ Form!Answered(s, "secondCode", Form!Tokened(s))
  BY <1>5, TokenedStep
<1>6. CASE \/ Form!Answered(s, "secondCode", Form!Moved("success"))
           \/ Form!Answered(s, "confirm", Form!Moved("success"))
           \/ Form!Answered(s, "confirm", Form!Fresh)
  BY <1>6, EndStep DEF Asks
<1> QED
  BY <1>1, <1>2, <1>3, <1>4, <1>5, <1>6

LEMMA HandlerStep ==
    ASSUME FormInv, NEW s \in Slots, Form!Handler(s)
    PROVE  FormInv'
<1>1. CASE Form!StartEmailChallenge(s) \/ Form!StartPhoneChallenge(s) \/ Form!VerifyLoginEmail(s)
              \/ Form!VerifyLoginPhone(s) \/ Form!SignInWithToken(s)
  BY <1>1, LoginStep
<1>2. CASE Form!SubmitRegistration(s) \/ Form!RestartVerificationFlow(s)
              \/ Form!RegisterVerifyEmail(s) \/ Form!RegisterVerifySms(s)
  BY <1>2, CodesStep DEF Form!SubmitRegistration, Form!RestartVerificationFlow, Form!RegisterVerifyEmail,
                         Form!RegisterVerifySms
<1>3. CASE Form!RequestEmailCode(s) \/ Form!RecoveryVerifyEmail(s) \/ Form!RecoveryVerifySms(s)
              \/ Form!CompleteReset(s)
  BY <1>3, CodesStep DEF Form!RequestEmailCode, Form!RecoveryVerifyEmail, Form!RecoveryVerifySms,
                         Form!CompleteReset
<1>4. CASE Form!StartFlow(s) \/ Form!VerifyEmailStep(s) \/ Form!VerifySmsStep(s) \/ Form!CompleteFlow(s)
  BY <1>4, CodesStep DEF Form!StartFlow, Form!VerifyEmailStep, Form!VerifySmsStep, Form!CompleteFlow
<1>5. CASE Form!RequestDeleteEmailCode(s) \/ Form!VerifyDeleteEmailCode(s)
              \/ Form!VerifyDeleteSmsCode(s) \/ Form!CompleteDeleteAccount(s)
  BY <1>5, CodesStep DEF Form!RequestDeleteEmailCode, Form!VerifyDeleteEmailCode, Form!VerifyDeleteSmsCode,
                         Form!CompleteDeleteAccount
<1> QED
  BY <1>1, <1>2, <1>3, <1>4, <1>5 DEF Form!Handler

LEMMA WayBackStep ==
    ASSUME FormInv, Form!WayBack
    PROVE  FormInv'
<1>1. form \in FormSet /\ astray \in BOOLEAN /\ (dialog # "login" => form.mode = "email")
  BY DEF FormInv, FormTypeOK
<1>2. Form!Waiting \in BOOLEAN
  BY DEF Form!Waiting
<1>3. CASE Form!ResetFlowState
  <2>1. PICK m \in Form!Modes : form' = [Form!Fresh EXCEPT !.mode = m]
    BY <1>3 DEF Form!ResetFlowState
  <2> DEFINE f == [Form!Fresh EXCEPT !.mode = m]
  <2>2. f \in FormSet /\ StepOf(f) = "details"
    BY DEF Form!Fresh, FormSet, Form!Modes, Places, StepOf
  <2>3. dialog = "login" /\ astray' = (astray \/ Form!Waiting) /\ UNCHANGED <<dialog, server, flight>>
    BY <1>3 DEF Form!ResetFlowState
  <2>4. form' = f
    BY <2>1
  <2> HIDE DEF f
  <2> QED
    BY <1>1, <1>2, <2>2, <2>3, <2>4, LeaveStep
<1>4. CASE Form!LoginBack
  <2> DEFINE steps == [form.step EXCEPT ![form.mode] = "details"]
             one == [form EXCEPT !.challenge = 0]
             two == [one EXCEPT !.clock = "none"]
             three == [two EXCEPT !.refused = FALSE]
             f == [three EXCEPT !.step = steps]
  <2>1. steps \in [Form!Modes -> Places] /\ steps[form.mode] = "details"
    BY <1>1 DEF FormSet, Places
  <2>2. one \in FormSet /\ one.mode = form.mode /\ one.step = form.step
    BY <1>1 DEF FormSet
  <2>3. two \in FormSet /\ two.mode = form.mode /\ two.step = form.step
    <3> HIDE DEF one
    <3> QED
      BY <2>2 DEF FormSet
  <2>4. three \in FormSet /\ three.mode = form.mode /\ three.step = form.step
    <3> HIDE DEF two
    <3> QED
      BY <2>3 DEF FormSet
  <2>5. f \in FormSet /\ StepOf(f) = "details"
    <3> HIDE DEF three, steps
    <3> QED
      BY <2>1, <2>4 DEF FormSet, StepOf
  <2>6. form' = [form EXCEPT !.challenge = 0, !.clock = "none", !.refused = FALSE,
                             !.step[form.mode] = "details"]
    BY <1>4 DEF Form!LoginBack, Form!Leaves
  <2>7. form' = [three EXCEPT !.step = [three.step EXCEPT ![form.mode] = "details"]]
    BY <2>6, Zenon
  <2>8. form' = f
    <3> HIDE DEF three
    <3> QED
      BY <2>4, <2>7
  <2>9. dialog = "login" /\ astray' = (astray \/ Form!Waiting) /\ UNCHANGED <<dialog, server, flight>>
    BY <1>4 DEF Form!LoginBack, Form!Leaves
  <2> HIDE DEF f
  <2> QED
    BY <1>1, <1>2, <2>5, <2>8, <2>9, LeaveStep
<1>5. CASE Form!RecoveryBack
  <2>1. PICK move \in {<<"firstCode", "details">>, <<"secondCode", "firstCode">>, <<"confirm", "secondCode">>} :
           /\ Form!Step = move[1]
           /\ form' = [form EXCEPT !.step.email = move[2], !.back = TRUE]
    BY <1>5 DEF Form!RecoveryBack, Form!Leaves
  <2> DEFINE steps == [form.step EXCEPT !["email"] = move[2]]
             one == [form EXCEPT !.step = steps]
             f == [one EXCEPT !.back = TRUE]
  <2>2. steps \in [Form!Modes -> Places] /\ steps["email"] = move[2]
    BY <1>1 DEF FormSet, Places, Form!Modes
  <2>3. /\ one \in FormSet /\ one.mode = form.mode /\ one.step = steps
        /\ one.challenge = form.challenge /\ one.token = form.token
    <3> HIDE DEF steps
    <3> QED
      BY <1>1, <2>2 DEF FormSet
  <2>4. /\ f \in FormSet /\ f.mode = form.mode /\ f.step = steps /\ f.back
        /\ f.challenge = form.challenge /\ f.token = form.token
    <3> HIDE DEF one
    <3> QED
      BY <2>3 DEF FormSet
  <2>5. form' = f
    BY <2>1, Zenon
  <2>6. form.mode = "email" /\ astray' = (astray \/ Form!Waiting) /\ UNCHANGED <<dialog, server, flight>>
    BY <1>1, <1>5 DEF Form!RecoveryBack, Form!Leaves
  <2> HIDE DEF f, one, steps
  <2>7. StepOf(f) = move[2] /\ StepOf(form) = move[1]
    BY <2>1, <2>2, <2>4, <2>6 DEF StepOf, Form!Step
  <2>8. ASSUME ~astray, ~Form!Waiting, ~server.done PROVE StepOf(f) = "details" \/ FitsAs(f)
    <3>1. FitsAs(form)
      BY <2>8 DEF FormInv, CurrentInv, Fits, Form!Waiting
    <3>2. StepOf(f) \in {"details", "firstCode", "secondCode"}
      BY <2>7
    <3>3. StepOf(f) # "details" => Form!Before(StepOf(f), Form!Expected(f.mode))
      BY <2>4, <2>7, <3>1 DEF FitsAs, Form!Before
    <3> QED
      BY <2>4, <2>7, <3>1, <3>2, <3>3 DEF FitsAs
  <2> QED
    BY <1>1, <1>2, <2>4, <2>5, <2>6, <2>8, LeaveStep
<1>6. CASE Form!RecoveryRestart
  <2> DEFINE steps == [form.step EXCEPT !["email"] = "details"]
             one == [form EXCEPT !.step = steps]
             two == [one EXCEPT !.challenge = 0]
             three == [two EXCEPT !.token = 0]
             f == [three EXCEPT !.clock = "none"]
  <2>1. form.mode = "email" /\ UNCHANGED <<dialog, server, flight>> /\ astray' = (astray \/ Form!Waiting)
    BY <1>1, <1>6 DEF Form!RecoveryRestart, Form!Leaves
  <2>2. steps \in [Form!Modes -> Places] /\ steps["email"] = "details"
    BY <1>1 DEF FormSet, Places, Form!Modes
  <2>3. one \in FormSet /\ one.mode = form.mode /\ one.step = steps
    <3> HIDE DEF steps
    <3> QED
      BY <1>1, <2>2 DEF FormSet
  <2>4. two \in FormSet /\ two.mode = form.mode /\ two.step = steps
    <3> HIDE DEF one
    <3> QED
      BY <2>3 DEF FormSet
  <2>5. three \in FormSet /\ three.mode = form.mode /\ three.step = steps
    <3> HIDE DEF two
    <3> QED
      BY <2>4 DEF FormSet
  <2>6. f \in FormSet /\ f.mode = form.mode /\ f.step = steps
    <3> HIDE DEF three
    <3> QED
      BY <2>5 DEF FormSet
  <2>7. form' = [form EXCEPT !.step.email = "details", !.challenge = 0, !.token = 0, !.clock = "none"]
    BY <1>6 DEF Form!RecoveryRestart, Form!Leaves
  <2>8. form' = f
    BY <2>7, Zenon
  <2> HIDE DEF f, steps
  <2>9. StepOf(f) = "details"
    BY <2>1, <2>2, <2>6 DEF StepOf
  <2> QED
    BY <1>1, <1>2, <2>1, <2>6, <2>8, <2>9, LeaveStep
<1>7. CASE Form!RecoveryReopen
  BY <1>7, ReopenStep
<1>8. CASE Form!ResetFlow \/ Form!HandleDeleteModalChange
  <2>1. /\ form' = Form!Fresh /\ UNCHANGED <<dialog, server, flight>>
        /\ astray' = (astray \/ Form!Waiting)
    BY <1>8 DEF Form!ResetFlow, Form!HandleDeleteModalChange, Form!Leaves
  <2> QED
    BY <1>1, <1>2, <2>1, FreshFacts, LeaveStep
<1> QED
  BY <1>3, <1>4, <1>5, <1>6, <1>7, <1>8 DEF Form!WayBack
LEMMA ExpiresStep ==
    ASSUME FormInv, Form!Expires
    PROVE  FormInv'
<1>1. form \in FormSet
  BY DEF FormInv, FormTypeOK
<1>2. form' = [form EXCEPT !.clock = "out"] /\ UNCHANGED <<dialog, server, flight, astray>>
  BY DEF Form!Expires
<1>3. /\ form' \in FormSet /\ form'.mode = form.mode /\ form'.step = form.step
      /\ form'.challenge = form.challenge /\ form'.token = form.token /\ form'.busy = form.busy
        /\ form'.back = form.back
  BY <1>1, <1>2 DEF FormSet
<1> QED
  BY <1>2, <1>3, TouchStep

LEMMA FormStep ==
    ASSUME FormInv, Form!Next
    PROVE  FormInv'
<1>1. ASSUME NEW s \in Slots, Form!Server(s) PROVE FormInv'
  <2>1. Form!AfterFirst \in Places /\ Form!AfterSecond \in Places
    BY DEF Form!AfterFirst, Form!AfterSecond, Places
  <2>2. CASE Form!VerifyFirstCode(s)
    BY <2>1, <2>2, VerifyCodeStep DEF Form!VerifyFirstCode
  <2>3. CASE Form!VerifySecondCode(s)
    BY <2>1, <2>3, VerifyCodeStep DEF Form!VerifySecondCode
  <2> QED
    BY <1>1, <2>2, <2>3, StartChallengeStep, CompleteStep DEF Form!Server
<1> QED
  BY <1>1, HandlerStep, RefuseStep, TimesOutStep, WayBackStep, ExpiresStep DEF Form!Next

LEMMA FormInitially ==
    ASSUME Form!Init
    PROVE  FormInv
<1>1. /\ form = Form!Fresh /\ server = [open |-> [m \in Form!Modes |-> Form!Closed], issued |-> 0, done |-> FALSE]
      /\ flight = [s \in Slots |-> Form!NoRequest] /\ astray = FALSE
  BY DEF Form!Init
<1>2. Form!NoRequest \notin FlightSet
  BY DEF Form!NoRequest, FlightSet, Asks
<1>3. server \in ServerSet
  <2>1. Form!Closed \in [id : Nat, expects : Places \cup {"start"}]
    BY DEF Form!Closed
  <2>2. [m \in Form!Modes |-> Form!Closed] \in [Form!Modes -> [id : Nat, expects : Places \cup {"start"}]]
    BY <2>1
  <2> QED
    BY <1>1, <2>2 DEF ServerSet
<1>4. FormTypeOK
  BY <1>1, <1>3, FreshFacts DEF FormTypeOK
<1> QED
  BY <1>1, <1>2, <1>4, FreshFacts DEF FormInv, AloneInv, NamedInv, OnlyOne, CurrentInv, Fits

\* FormInv holds in every reachable state of the dialogs.
THEOREM FormInductive == BrowserSpec => []FormInv
<1>1. BrowserInit => FormInv
  BY FormInitially DEF BrowserInit
<1>2. FormInv /\ [BrowserNext]_<<vars, formVars>> => FormInv'
  <2> SUFFICES ASSUME FormInv, [BrowserNext]_<<vars, formVars>> PROVE FormInv'
    OBVIOUS
  <2>1. CASE Form!Next
    BY <2>1, FormStep
  <2>2. CASE UNCHANGED formVars
    <3>1. form' \in FormSet /\ UNCHANGED <<dialog, form, server, flight, astray>>
      BY <2>2 DEF formVars, FormInv, FormTypeOK
    <3> QED
      BY <3>1, TouchStep
  <2> QED
    BY <2>1, <2>2 DEF BrowserNext
<1> QED
  BY <1>1, <1>2, PTL DEF BrowserSpec

\* While nothing is under way and no answer was lost or left behind since the last
\* start, a dialog that asks for a code or a confirmation does so with the id and
\* the token of the challenge that is open, and asks for what the server expects
\* next; only `Back' in the forgot-password dialog may have led it to an earlier
\* step, whose code the server refuses.  It does so for any number of requests
\* at once and of challenges, for all five dialogs.
THEOREM DialogFits == BrowserSpec => []FormFits
<1>1. FormInv => FormFits
  <2> SUFFICES ASSUME FormInv, ~astray, ~Form!Waiting, ~server.done,
                      Form!Step \notin {"details", "success"}
               PROVE  /\ \/ Form!Step = Form!Expected(form.mode)
                         \/ form.back /\ Form!Before(Form!Step, Form!Expected(form.mode))
                      /\ form.challenge = server.open[form.mode].id
                      /\ Form!Step = "confirm" => form.token = form.challenge
    BY DEF FormFits, Form!FormFits
  <2>1. Fits
    BY DEF FormInv, CurrentInv, Form!Waiting
  <2> QED
    BY <2>1 DEF Fits, FitsAs, StepOf, OpenOne, Form!Step
<1> QED
  BY <1>1, FormInductive, PTL
===============================================================================
