------------------------- MODULE LoginChallengeProofs --------------------------
(***************************************************************************)
(* Proofs about LoginChallenge, for any number of users, challenges and    *)
(* concurrent requests and any attempt limits.                             *)
(***************************************************************************)
EXTENDS LoginChallenge, FiniteSetTheorems, TLAPS

(***************************************************************************)
(* The invariants, one for each thing the proofs need to know.             *)
(***************************************************************************)
\* A request has in hand what its control point needs.
HandInv ==
    \A r \in Requests :
        /\ pc[r] \in {"wrongPassword", "clear", "delete", "create"} =>
               who[r] \in Users /\ mode[r] \in Modes
        /\ pc[r] \in {"wrongCode", "rightCode", "consume"} =>
               chal[r] \in Challenges /\ rows[chal[r]].stage # "absent"

\* The stage of a row tells how often it let its owner in.
GrantInv ==
    \A c \in Challenges :
        /\ rows[c].stage \in {"absent", "pending", "verified"} => grants[c] = 0
        /\ rows[c].stage = "used" => grants[c] = 1
        /\ rows[c].stage = "gone" => grants[c] \in {0, 1}

VoidInv == \A c \in void : rows[c].stage = "gone"

IInv == TypeOK /\ HandInv /\ GrantInv /\ VoidInv
-------------------------------------------------------------------------------
(***************************************************************************)
(* Types                                                                   *)
(***************************************************************************)
LEMMA RowUpdates ==
    ASSUME NEW row \in Row
    PROVE  /\ \A s \in Stages : [row EXCEPT !.stage = s] \in Row
           /\ \A e \in Expiries : [row EXCEPT !.expiry = e] \in Row
           /\ row.codeAttempts < MaxAttempts =>
                  [row EXCEPT !.codeAttempts = @ + 1] \in Row
  BY LoginAssumption DEF Row

LEMMA NoRowType == \A s \in Stages : NoRow(s) \in Row
  BY LoginAssumption DEF NoRow, Row, Expiries

\* What the parts of TypeOK about rows say; the types of a step are proved
\* for the rows and for the other variables one by one.
RowsOK ==
    /\ rows \in [Challenges -> Row]
    /\ \A c \in Challenges : Exists(c) => rows[c].owner \in Users

LEMMA WithoutType ==
    ASSUME RowsOK, NEW S, rows' = Without(S)
    PROVE  RowsOK'
  BY NoRowType DEF RowsOK, Without, Exists, Stages, NoRow

LEMMA ExpiryType ==
    ASSUME RowsOK, NEW c \in Challenges, NEW e \in Expiries,
           rows' = [rows EXCEPT ![c].expiry = e]
    PROVE  RowsOK'
<1>1. \A d \in Challenges : rows'[d].stage = rows[d].stage /\ rows'[d].owner = rows[d].owner
  BY DEF RowsOK, Row
<1> QED
  BY <1>1, RowUpdates DEF RowsOK, Exists

LEMMA StageType ==
    ASSUME RowsOK, NEW c \in Challenges, NEW s \in Stages, Exists(c),
           rows' = [rows EXCEPT ![c].stage = s]
    PROVE  RowsOK'
<1>1. \A d \in Challenges : rows'[d].owner = rows[d].owner
  BY DEF RowsOK, Row
<1>2. \A d \in Challenges : d # c => rows'[d].stage = rows[d].stage
  BY DEF RowsOK, Row
<1> QED
  BY <1>1, <1>2, RowUpdates DEF RowsOK, Exists

LEMMA CountType ==
    ASSUME RowsOK, NEW c \in Challenges, rows[c].codeAttempts < MaxAttempts,
           rows' = [rows EXCEPT ![c].codeAttempts = @ + 1]
    PROVE  RowsOK'
<1>1. \A d \in Challenges : rows'[d].stage = rows[d].stage /\ rows'[d].owner = rows[d].owner
  BY DEF RowsOK, Row
<1> QED
  BY <1>1, RowUpdates DEF RowsOK, Exists

\* The requests, with what they have in hand.
RequestsOK ==
    /\ pc \in [Requests -> Points]
    /\ who \in [Requests -> Users \cup {None}]
    /\ mode \in [Requests -> Modes \cup {None}]
    /\ chal \in [Requests -> Challenges \cup {None}]
    /\ HandInv

AccountsOK ==
    /\ failedLogins \in [Users -> 0..MaxPasswordAttempts]
    /\ locked \in [Users -> BOOLEAN]
    /\ deleted \in [Users -> BOOLEAN]
    /\ wrongPasswords \in [Users -> Nat]

SeenOK ==
    /\ wrongCodes \in [Challenges -> Nat]
    /\ grants \in [Challenges -> Nat]
    /\ void \subseteq Challenges

LEMMA TypeSplit == TypeOK /\ HandInv <=> RowsOK /\ RequestsOK /\ AccountsOK /\ SeenOK
  BY DEF TypeOK, RowsOK, RequestsOK, AccountsOK, SeenOK

\* A row that has been inserted does not become absent again.
Kept == \A c \in Challenges : rows[c].stage # "absent" => rows'[c].stage # "absent"

LEMMA ReturnType ==
    ASSUME RequestsOK, Kept, NEW r \in Requests, Return(r)
    PROVE  RequestsOK'
  BY DEF RequestsOK, HandInv, Kept, Return, Goto, Points

LEMMA RequestsSame ==
    ASSUME RequestsOK, Kept, UNCHANGED requests
    PROVE  RequestsOK'
  BY DEF RequestsOK, HandInv, Kept, requests

LEMMA KeptSame == ASSUME UNCHANGED rows PROVE Kept
  BY DEF Kept

LEMMA KeptWithout == ASSUME RowsOK, NEW S, rows' = Without(S) PROVE Kept
  BY DEF Kept, Without, NoRow

LEMMA RowsSame == ASSUME RowsOK, UNCHANGED rows PROVE RowsOK'
  BY DEF RowsOK, Exists

LEMMA ResetType ==
    ASSUME AccountsOK, NEW u \in Users, ResetFailures(u)
    PROVE  AccountsOK'
  BY LoginAssumption DEF AccountsOK, ResetFailures

\* Actions that leave the accounts alone.
LEMMA AccountsSame == ASSUME AccountsOK, UNCHANGED <<users, wrongPasswords>> PROVE AccountsOK'
  BY DEF AccountsOK, users

\* The two updates of one field of one row.
LEMMA StageKept ==
    ASSUME RowsOK, NEW c \in Challenges, NEW s \in Stages, s # "absent",
           rows' = [rows EXCEPT ![c].stage = s]
    PROVE  Kept
  BY DEF RowsOK, Row, Kept

\* A login: the other rows of the user are gone, its own is used.
LEMMA ConsumeRows ==
    ASSUME RowsOK, NEW c \in Challenges, rows[c].stage = "verified",
           rows' = [Without(RowsOf(rows[c].owner) \ {c}) EXCEPT ![c].stage = "used"]
    PROVE  /\ RowsOK' /\ Kept
           /\ rows'[c] = [rows[c] EXCEPT !.stage = "used"]
           /\ \A d \in Challenges \ {c} :
                 rows'[d] = IF d \in RowsOf(rows[c].owner) THEN NoRow("gone") ELSE rows[d]
<1> DEFINE S == RowsOf(rows[c].owner) \ {c}
<1>1. rows'[c] = [rows[c] EXCEPT !.stage = "used"]
  BY DEF Without, RowsOf
<1>2. \A d \in Challenges \ {c} : rows'[d] = IF d \in S THEN NoRow("gone") ELSE rows[d]
  BY DEF Without, RowsOf
<1>3. rows'[c] \in Row /\ rows'[c].stage = "used" /\ rows'[c].owner = rows[c].owner
  <2>1. rows[c] \in Row
    BY DEF RowsOK
  <2>2. [rows[c] EXCEPT !.stage = "used"] \in Row
    BY <2>1, RowUpdates DEF Stages
  <2> QED
    BY <1>1, <2>1, <2>2 DEF Row
<1>4. rows[c].owner \in Users
  BY DEF RowsOK, Exists
<1>5. \A d \in Challenges \ {c} : rows'[d] \in Row
  BY <1>2, NoRowType DEF RowsOK, Stages
<1>6. \A d \in Challenges \ {c} : Exists(d)' => rows'[d] = rows[d]
  BY <1>2 DEF Exists, NoRow
<1>7. rows' \in [Challenges -> Row]
  <2>1. DOMAIN rows' = Challenges /\ rows' = [d \in Challenges |-> rows'[d]]
    BY DEF Without
  <2> QED
    BY <2>1, <1>3, <1>5
<1>8. RowsOK'
  BY <1>3, <1>4, <1>6, <1>7 DEF RowsOK, Exists
<1>9. Kept
  <2>1. \A d \in Challenges \ {c} : rows'[d].stage \in {"gone", rows[d].stage}
    BY <1>2 DEF NoRow
  <2> QED
    BY <1>3, <2>1 DEF Kept
<1> QED
  BY <1>1, <1>2, <1>8, <1>9

LEMMA CreateRows ==
    ASSUME RowsOK, NEW c \in Challenges, NEW row \in Row, row.stage = "pending",
           row.owner \in Users, rows' = [rows EXCEPT ![c] = row]
    PROVE  RowsOK' /\ Kept
  BY DEF RowsOK, Exists, Kept

LEMMA TypeStep ==
    ASSUME RowsOK, RequestsOK, AccountsOK, SeenOK, [Next]_vars
    PROVE  RowsOK' /\ Kept /\ RequestsOK' /\ AccountsOK' /\ SeenOK'
<1> USE DEF users, seen
<1>1. ASSUME NEW r \in Requests, NEW u \in Users, NEW m \in Modes, CheckPassword(r, u, m)
      PROVE  RowsOK' /\ Kept /\ RequestsOK' /\ AccountsOK' /\ SeenOK'
  <2>1. RowsOK' /\ Kept /\ AccountsOK' /\ SeenOK'
    BY <1>1, RowsSame, KeptSame, AccountsSame DEF CheckPassword, SeenOK
  <2>2. RequestsOK'
    BY <1>1 DEF RequestsOK, HandInv, CheckPassword, Goto, Points
  <2> QED
    BY <2>1, <2>2
<1>2. ASSUME NEW r \in Requests, RegisterFailedPassword(r)
      PROVE  RowsOK' /\ Kept /\ RequestsOK' /\ AccountsOK' /\ SeenOK'
  <2>1. RowsOK' /\ Kept /\ SeenOK'
    BY <1>2, RowsSame, KeptSame DEF RegisterFailedPassword, SeenOK
  <2>2. RequestsOK'
    BY <1>2, <2>1, ReturnType DEF RegisterFailedPassword
  <2>3. who[r] \in Users
    BY <1>2 DEF RegisterFailedPassword, RequestsOK, HandInv
  <2>4. failedLogins' \in [Users -> 0..MaxPasswordAttempts]
    BY <1>2, <2>3, LoginAssumption DEF RegisterFailedPassword, AccountsOK
  <2>5. locked' \in [Users -> BOOLEAN]
    <3> DEFINE reached == failedLogins[who[r]] + 1 >= MaxPasswordAttempts
    <3>1. locked' \in {locked, [locked EXCEPT ![who[r]] = @ \/ reached]}
      BY <1>2 DEF RegisterFailedPassword
    <3>2. (locked[who[r]] \/ reached) \in BOOLEAN
      OBVIOUS
    <3> HIDE DEF reached
    <3> QED
      BY <3>1, <3>2, Zenon DEF AccountsOK
  <2>6. deleted' = deleted /\ wrongPasswords' = [wrongPasswords EXCEPT ![who[r]] = @ + 1]
    BY <1>2 DEF RegisterFailedPassword
  <2>7. AccountsOK'
    BY <2>3, <2>4, <2>5, <2>6 DEF AccountsOK
  <2> QED
    BY <2>1, <2>2, <2>7
<1>3. ASSUME NEW r \in Requests, ClearFailedPasswords(r)
      PROVE  RowsOK' /\ Kept /\ RequestsOK' /\ AccountsOK' /\ SeenOK'
  <2>1. RowsOK' /\ Kept /\ SeenOK'
    BY <1>3, RowsSame, KeptSame DEF ClearFailedPasswords, SeenOK
  <2>2. RequestsOK'
    BY <1>3, <2>1 DEF ClearFailedPasswords, RequestsOK, HandInv, Goto, Points
  <2>3. who[r] \in Users
    BY <1>3 DEF ClearFailedPasswords, RequestsOK, HandInv
  <2>4. AccountsOK'
    BY <1>3, <2>3, ResetType, AccountsSame DEF ClearFailedPasswords
  <2> QED
    BY <2>1, <2>2, <2>4
<1>4. ASSUME NEW r \in Requests, DeleteChallenges(r)
      PROVE  RowsOK' /\ Kept /\ RequestsOK' /\ AccountsOK' /\ SeenOK'
  <2>1. RowsOK' /\ Kept /\ AccountsOK'
    BY <1>4, WithoutType, KeptWithout, AccountsSame DEF DeleteChallenges
  <2>2. SeenOK'
    BY <1>4 DEF DeleteChallenges, SeenOK, RowsOf
  <2>3. RequestsOK'
    BY <1>4, <2>1 DEF DeleteChallenges, RequestsOK, HandInv, Kept, Goto, Points
  <2> QED
    BY <2>1, <2>2, <2>3
<1>5. ASSUME NEW r \in Requests, CreateChallenge(r)
      PROVE  RowsOK' /\ Kept /\ RequestsOK' /\ AccountsOK' /\ SeenOK'
  <2>1. PICK c \in Challenges :
          rows' = [rows EXCEPT ![c] =
                [stage |-> "pending", owner |-> who[r], mode |-> mode[r],
                 codeAttempts |-> 0, expiry |-> "fresh", by |-> r]]
    BY <1>5 DEF CreateChallenge
  <2>2. who[r] \in Users /\ mode[r] \in Modes
    BY <1>5 DEF CreateChallenge, RequestsOK, HandInv
  <2>3. [stage |-> "pending", owner |-> who[r], mode |-> mode[r],
         codeAttempts |-> 0, expiry |-> "fresh", by |-> r] \in Row
    BY <2>2, LoginAssumption DEF Row, Stages, Expiries
  <2>4. RowsOK' /\ Kept
    BY <2>1, <2>2, <2>3, CreateRows
  <2>5. RequestsOK' /\ AccountsOK' /\ SeenOK'
    BY <1>5, <2>4, ReturnType, AccountsSame DEF CreateChallenge, SeenOK
  <2> QED
    BY <2>4, <2>5
<1>6. ASSUME NEW r \in Requests, NEW c \in Challenges, VerifyCode(r, c) \/ FindToken(r, c)
      PROVE  RowsOK' /\ Kept /\ RequestsOK' /\ AccountsOK' /\ SeenOK'
  <2>1. RowsOK' /\ Kept /\ AccountsOK' /\ SeenOK'
    BY <1>6, RowsSame, KeptSame, AccountsSame DEF VerifyCode, FindToken, SeenOK
  <2>2. RequestsOK'
    BY <1>6 DEF RequestsOK, HandInv, VerifyCode, FindToken, Goto, Points
  <2> QED
    BY <2>1, <2>2
<1>7. ASSUME NEW r \in Requests, IncrementAttempts(r)
      PROVE  RowsOK' /\ Kept /\ RequestsOK' /\ AccountsOK' /\ SeenOK'
  <2>1. chal[r] \in Challenges
    BY <1>7 DEF IncrementAttempts, RequestsOK, HandInv
  <2>2. CASE Exists(chal[r]) /\ rows[chal[r]].codeAttempts < MaxAttempts
    <3>1. rows' = [rows EXCEPT ![chal[r]].codeAttempts = @ + 1]
      BY <1>7, <2>2 DEF IncrementAttempts
    <3>2. RowsOK'
      BY <2>1, <2>2, <3>1, CountType
    <3>3. Kept
      BY <2>1, <3>1 DEF Kept, RowsOK, Row
    <3> QED
      BY <1>7, <2>1, <3>2, <3>3, ReturnType, AccountsSame DEF IncrementAttempts, SeenOK
  <2>3. CASE UNCHANGED rows
    BY <1>7, <2>1, <2>3, RowsSame, KeptSame, ReturnType, AccountsSame DEF IncrementAttempts, SeenOK
  <2> QED
    BY <1>7, <2>2, <2>3 DEF IncrementAttempts
<1>8. ASSUME NEW r \in Requests, MarkVerified(r)
      PROVE  RowsOK' /\ Kept /\ RequestsOK' /\ AccountsOK' /\ SeenOK'
  <2>1. chal[r] \in Challenges
    BY <1>8 DEF MarkVerified, RequestsOK, HandInv
  <2>2. RowsOK' /\ Kept
    BY <1>8, <2>1, StageType, StageKept, RowsSame, KeptSame DEF MarkVerified, CanMark, Exists, Stages
  <2> QED
    BY <1>8, <2>2, ReturnType, AccountsSame DEF MarkVerified, SeenOK
<1>9. ASSUME NEW r \in Requests, ConsumeToken(r)
      PROVE  RowsOK' /\ Kept /\ RequestsOK' /\ AccountsOK' /\ SeenOK'
  <2>1. chal[r] \in Challenges
    BY <1>9 DEF ConsumeToken, RequestsOK, HandInv
  <2>2. CASE CanConsume(chal[r])
    <3>1. rows[chal[r]].stage = "verified" /\ rows[chal[r]].owner \in Users
      BY <2>1, <2>2 DEF CanConsume, RowsOK, Exists
    <3>2. RowsOK' /\ Kept
      BY <1>9, <2>1, <2>2, <3>1, ConsumeRows DEF ConsumeToken
    <3>3. RequestsOK' /\ AccountsOK'
      BY <1>9, <2>2, <3>1, <3>2, ReturnType, ResetType DEF ConsumeToken
    <3>4. SeenOK'
      BY <1>9, <2>1, <2>2 DEF ConsumeToken, SeenOK, RowsOf
    <3> QED
      BY <3>2, <3>3, <3>4
  <2>3. CASE ~CanConsume(chal[r])
    BY <1>9, <2>3, RowsSame, KeptSame, ReturnType, AccountsSame DEF ConsumeToken, SeenOK
  <2> QED
    BY <2>2, <2>3
<1>10. ASSUME NEW r \in Requests, Fail(r)
       PROVE  RowsOK' /\ Kept /\ RequestsOK' /\ AccountsOK' /\ SeenOK'
  BY <1>10, RowsSame, KeptSame, ReturnType, AccountsSame DEF Fail, SeenOK
<1>11. ASSUME NEW u \in Users, SoftDeleteUser(u)
       PROVE  RowsOK' /\ Kept /\ RequestsOK' /\ AccountsOK' /\ SeenOK'
  <2>1. RowsOK' /\ Kept
    BY <1>11, WithoutType, KeptWithout DEF SoftDeleteUser
  <2>2. RequestsOK'
    BY <1>11, <2>1, RequestsSame DEF SoftDeleteUser
  <2>3. AccountsOK' /\ SeenOK'
    BY <1>11 DEF SoftDeleteUser, AccountsOK, SeenOK, RowsOf
  <2> QED
    BY <2>1, <2>2, <2>3
<1>12. ASSUME NEW u \in Users, ChangeContact(u)
       PROVE  RowsOK' /\ Kept /\ RequestsOK' /\ AccountsOK' /\ SeenOK'
  <2>1. RowsOK' /\ Kept
    BY <1>12, WithoutType, KeptWithout DEF ChangeContact
  <2> QED
    BY <1>12, <2>1, RequestsSame, AccountsSame DEF ChangeContact, SeenOK, RowsOf
<1>13. ASSUME NEW u \in Users, UnlockAccount(u)
       PROVE  RowsOK' /\ Kept /\ RequestsOK' /\ AccountsOK' /\ SeenOK'
  <2>1. RowsOK' /\ Kept /\ RequestsOK'
    BY <1>13, RowsSame, KeptSame, RequestsSame DEF UnlockAccount
  <2> QED
    BY <1>13, <2>1 DEF UnlockAccount, AccountsOK, SeenOK
<1>14. ASSUME NEW c \in Challenges, ExpireCode(c) \/ ExpireToken(c)
       PROVE  RowsOK' /\ Kept /\ RequestsOK' /\ AccountsOK' /\ SeenOK'
  <2>1. PICK e \in Expiries : rows' = [rows EXCEPT ![c].expiry = e]
    BY <1>14 DEF ExpireCode, ExpireToken, Expiries
  <2>2. RowsOK'
    BY <2>1, ExpiryType
  <2>3. Kept
    BY <2>1 DEF Kept, RowsOK, Row
  <2> QED
    BY <1>14, <2>2, <2>3, RequestsSame, AccountsSame DEF ExpireCode, ExpireToken, SeenOK
<1>15. ASSUME NEW c \in Challenges, CleanUp(c)
       PROVE  RowsOK' /\ Kept /\ RequestsOK' /\ AccountsOK' /\ SeenOK'
  BY <1>15, WithoutType, KeptWithout, RequestsSame, AccountsSame DEF CleanUp, SeenOK
<1>16. ASSUME UNCHANGED vars
       PROVE  RowsOK' /\ Kept /\ RequestsOK' /\ AccountsOK' /\ SeenOK'
  BY <1>16, RowsSame, KeptSame, RequestsSame, AccountsSame DEF vars, SeenOK
<1>17. ASSUME NEW r \in Requests, NEW u \in Users, StartEmailLogin(r, u) \/ StartPhoneLogin(r, u)
       PROVE  RowsOK' /\ Kept /\ RequestsOK' /\ AccountsOK' /\ SeenOK'
  BY <1>1, <1>17 DEF StartEmailLogin, StartPhoneLogin, Modes
<1> QED
  BY <1>2, <1>3, <1>4, <1>5, <1>6, <1>7, <1>8, <1>9, <1>10, <1>11, <1>12, <1>13,
     <1>14, <1>15, <1>16, <1>17 DEF Next, RequestStep

LEMMA TypeInit == Init => RowsOK /\ RequestsOK /\ AccountsOK /\ SeenOK
<1> SUFFICES ASSUME Init PROVE RowsOK /\ RequestsOK /\ AccountsOK /\ SeenOK
  OBVIOUS
<1>1. RowsOK
  BY NoRowType DEF Init, RowsOK, Exists, NoRow, Stages
<1>2. RequestsOK /\ AccountsOK /\ SeenOK
  BY LoginAssumption DEF Init, RequestsOK, HandInv, AccountsOK, SeenOK, Points
<1> QED
  BY <1>1, <1>2

\* The types of the variables, for any number of users, challenges, requests.
THEOREM TypeCorrect == Spec => []TypeOK
<1>1. RowsOK /\ RequestsOK /\ AccountsOK /\ SeenOK /\ [Next]_vars
          => (RowsOK /\ RequestsOK /\ AccountsOK /\ SeenOK)'
  BY TypeStep
<1>2. RowsOK /\ RequestsOK /\ AccountsOK /\ SeenOK => TypeOK
  BY TypeSplit
<1> QED
  BY <1>1, <1>2, TypeInit, PTL DEF Spec
-------------------------------------------------------------------------------
(***************************************************************************)
(* What a step does to the challenges.  Most steps do nothing to them; the *)
(* others insert a row, verify one, use one, or delete some.               *)
(***************************************************************************)
SameOrigin(c) ==
    /\ rows'[c].owner = rows[c].owner
    /\ rows'[c].mode = rows[c].mode
    /\ rows'[c].by = rows[c].by

Quiet ==
    /\ UNCHANGED <<grants, void>>
    /\ \A d \in Challenges : rows'[d].stage = rows[d].stage /\ SameOrigin(d)

Removed(S) ==
    /\ S \subseteq {d \in Challenges : Exists(d)}
    /\ rows' = Without(S)
    /\ void \subseteq void' /\ void' \subseteq void \cup S
    /\ UNCHANGED grants

Created(c, r) ==
    /\ rows[c].stage = "absent"
    /\ pc[r] = "create" /\ who[r] \in Users /\ pc'[r] = "idle"
    /\ rows'[c].stage = "pending" /\ rows'[c].owner = who[r]
    /\ rows'[c].mode = mode[r] /\ rows'[c].by = r
    /\ \A d \in Challenges \ {c} : rows'[d] = rows[d]
    /\ UNCHANGED <<grants, void>>

Marked(c) ==
    /\ rows[c].stage = "pending"
    /\ rows'[c].stage = "verified" /\ SameOrigin(c)
    /\ \A d \in Challenges \ {c} : rows'[d] = rows[d]
    /\ UNCHANGED <<grants, void>>

Granted(c) ==
    /\ CanConsume(c)
    /\ rows'[c].stage = "used" /\ SameOrigin(c)
    /\ \A d \in Challenges \ {c} :
          rows'[d] = IF d \in RowsOf(rows[c].owner) THEN NoRow("gone") ELSE rows[d]
    /\ grants' = [grants EXCEPT ![c] = @ + 1]
    /\ void' = void \cup (RowsOf(rows[c].owner) \ {c})

LEMMA StepCases ==
    ASSUME RowsOK, RequestsOK, [Next]_vars
    PROVE  \/ Quiet
           \/ \E S \in SUBSET Challenges : Removed(S)
           \/ \E c \in Challenges, r \in Requests : Created(c, r)
           \/ \E c \in Challenges : Marked(c) \/ Granted(c)
<1> DEFINE Goal ==
        \/ Quiet
        \/ \E S \in SUBSET Challenges : Removed(S)
        \/ \E c \in Challenges, r \in Requests : Created(c, r)
        \/ \E c \in Challenges : Marked(c) \/ Granted(c)
<1>1. ASSUME UNCHANGED <<rows, grants, void>> PROVE Quiet
  BY <1>1 DEF Quiet, SameOrigin
<1>2. ASSUME NEW r \in Requests,
             \/ \E u \in Users : StartEmailLogin(r, u) \/ StartPhoneLogin(r, u)
             \/ RegisterFailedPassword(r)
             \/ ClearFailedPasswords(r)
             \/ \E c \in Challenges : VerifyCode(r, c) \/ FindToken(r, c)
             \/ Fail(r)
      PROVE  Quiet
  BY <1>1, <1>2 DEF StartEmailLogin, StartPhoneLogin, CheckPassword, RegisterFailedPassword,
     ClearFailedPasswords, VerifyCode, FindToken, Fail, seen
<1>3. ASSUME NEW r \in Requests, DeleteChallenges(r) PROVE Goal
  <2> DEFINE S == {c \in RowsOf(who[r]) : rows[c].mode = mode[r]}
  <2>1. S \in SUBSET Challenges /\ S \subseteq {d \in Challenges : Exists(d)}
    BY DEF RowsOf
  <2>2. Removed(S)
    BY <1>3, <2>1 DEF Removed, DeleteChallenges
  <2> QED
    BY <2>1, <2>2
<1>4. ASSUME NEW r \in Requests, CreateChallenge(r) PROVE Goal
  <2>1. PICK c \in Challenges :
          /\ rows[c].stage = "absent"
          /\ rows' = [rows EXCEPT ![c] =
                [stage |-> "pending", owner |-> who[r], mode |-> mode[r],
                 codeAttempts |-> 0, expiry |-> "fresh", by |-> r]]
    BY <1>4 DEF CreateChallenge
  <2>2. who[r] \in Users
    BY <1>4 DEF CreateChallenge, RequestsOK, HandInv
  <2>3. Created(c, r)
    BY <1>4, <2>1, <2>2 DEF Created, CreateChallenge, RowsOK, RequestsOK, Return, Goto, seen
  <2> QED
    BY <2>3
<1>5. ASSUME NEW r \in Requests, IncrementAttempts(r) PROVE Quiet
  <2>1. chal[r] \in Challenges
    BY <1>5 DEF IncrementAttempts, RequestsOK, HandInv
  <2>2. rows' \in {rows, [rows EXCEPT ![chal[r]].codeAttempts = @ + 1]}
    BY <1>5 DEF IncrementAttempts
  <2>3. \A d \in Challenges : rows'[d].stage = rows[d].stage /\ SameOrigin(d)
    BY <2>1, <2>2 DEF RowsOK, Row, SameOrigin
  <2> QED
    BY <1>5, <2>3 DEF Quiet, IncrementAttempts
<1>6. ASSUME NEW r \in Requests, MarkVerified(r) PROVE Goal
  <2>1. chal[r] \in Challenges
    BY <1>6 DEF MarkVerified, RequestsOK, HandInv
  <2>2. CASE CanMark(chal[r])
    <3>1. rows' = [rows EXCEPT ![chal[r]].stage = "verified"]
      BY <1>6, <2>2 DEF MarkVerified
    <3>2. rows'[chal[r]].stage = "verified" /\ SameOrigin(chal[r])
      BY <2>1, <3>1 DEF RowsOK, Row, SameOrigin
    <3>3. Marked(chal[r])
      BY <1>6, <2>1, <2>2, <3>1, <3>2 DEF Marked, MarkVerified, CanMark, RowsOK, seen
    <3> QED
      BY <2>1, <3>3
  <2>3. CASE ~CanMark(chal[r])
    BY <1>1, <1>6, <2>3 DEF MarkVerified, seen
  <2> QED
    BY <2>2, <2>3
<1>7. ASSUME NEW r \in Requests, ConsumeToken(r) PROVE Goal
  <2>1. chal[r] \in Challenges
    BY <1>7 DEF ConsumeToken, RequestsOK, HandInv
  <2>2. CASE CanConsume(chal[r])
    <3>1. rows' = [Without(RowsOf(rows[chal[r]].owner) \ {chal[r]}) EXCEPT ![chal[r]].stage = "used"]
      BY <1>7, <2>2 DEF ConsumeToken
    <3>2. /\ rows'[chal[r]] = [rows[chal[r]] EXCEPT !.stage = "used"]
          /\ \A d \in Challenges \ {chal[r]} :
                rows'[d] = IF d \in RowsOf(rows[chal[r]].owner) THEN NoRow("gone") ELSE rows[d]
      BY <2>1, <2>2, <3>1, ConsumeRows DEF CanConsume
    <3>3. rows'[chal[r]].stage = "used" /\ SameOrigin(chal[r])
      BY <2>1, <3>2 DEF RowsOK, Row, SameOrigin
    <3>4. Granted(chal[r])
      BY <1>7, <2>2, <3>2, <3>3 DEF Granted, ConsumeToken
    <3> QED
      BY <2>1, <3>4
  <2>3. CASE ~CanConsume(chal[r])
    BY <1>1, <1>7, <2>3 DEF ConsumeToken
  <2> QED
    BY <2>2, <2>3
<1>8. ASSUME NEW u \in Users, SoftDeleteUser(u) \/ ChangeContact(u) PROVE Goal
  <2>1. RowsOf(u) \in SUBSET Challenges /\ RowsOf(u) \subseteq {d \in Challenges : Exists(d)}
    BY DEF RowsOf
  <2>2. Removed(RowsOf(u))
    BY <1>8, <2>1 DEF Removed, SoftDeleteUser, ChangeContact
  <2> QED
    BY <2>1, <2>2
<1>9. ASSUME NEW c \in Challenges, ExpireCode(c) \/ ExpireToken(c) PROVE Quiet
  <2>1. rows' \in {[rows EXCEPT ![c].expiry = "codeExpired"], [rows EXCEPT ![c].expiry = "tokenExpired"]}
    BY <1>9 DEF ExpireCode, ExpireToken
  <2>2. \A d \in Challenges : rows'[d].stage = rows[d].stage /\ SameOrigin(d)
    BY <2>1 DEF RowsOK, Row, SameOrigin
  <2> QED
    BY <1>9, <2>2 DEF Quiet, ExpireCode, ExpireToken, seen
<1>10. ASSUME NEW c \in Challenges, CleanUp(c) PROVE Goal
  <2>1. Removed({c})
    BY <1>10 DEF Removed, CleanUp, seen
  <2> QED
    BY <2>1
<1>11. ASSUME (\E u \in Users : UnlockAccount(u)) \/ UNCHANGED vars PROVE Quiet
  BY <1>1, <1>11 DEF UnlockAccount, vars, seen
<1> QED
  BY <1>2, <1>3, <1>4, <1>5, <1>6, <1>7, <1>8, <1>9, <1>10, <1>11 DEF Next, RequestStep
-------------------------------------------------------------------------------
(***************************************************************************)
(* Invariants                                                              *)
(***************************************************************************)
LEMMA GrantStep ==
    ASSUME RowsOK, RequestsOK, SeenOK, GrantInv, VoidInv, [Next]_vars
    PROVE  GrantInv' /\ VoidInv'
<1> USE DEF GrantInv, VoidInv, SeenOK
<1>1. ASSUME Quiet PROVE GrantInv' /\ VoidInv'
  BY <1>1 DEF Quiet
<1>2. ASSUME NEW S \in SUBSET Challenges, Removed(S) PROVE GrantInv' /\ VoidInv'
  <2>1. \A d \in Challenges : rows'[d] = IF d \in S THEN NoRow("gone") ELSE rows[d]
    BY <1>2 DEF Removed, Without
  <2>2. \A d \in S : rows[d].stage \notin {"absent", "gone"} /\ grants[d] \in {0, 1}
    BY <1>2 DEF Removed, Exists, RowsOK, Row, Stages
  <2> QED
    BY <1>2, <2>1, <2>2 DEF Removed, NoRow
<1>3. ASSUME NEW c \in Challenges, NEW r \in Requests, Created(c, r) PROVE GrantInv' /\ VoidInv'
  BY <1>3 DEF Created
<1>4. ASSUME NEW c \in Challenges, Marked(c) PROVE GrantInv' /\ VoidInv'
  BY <1>4 DEF Marked
<1>5. ASSUME NEW c \in Challenges, Granted(c) PROVE GrantInv' /\ VoidInv'
  <2>1. grants'[c] = 1 /\ rows'[c].stage = "used" /\ c \notin void
    BY <1>5 DEF Granted, CanConsume
  <2>2. ASSUME NEW d \in Challenges \ {c}
        PROVE  /\ grants'[d] = grants[d]
               /\ IF d \in RowsOf(rows[c].owner)
                  THEN rows'[d].stage = "gone" /\ grants[d] \in {0, 1}
                  ELSE rows'[d] = rows[d]
    BY <1>5, <2>2 DEF Granted, NoRow, RowsOf, Exists, RowsOK, Row, Stages
  <2>3. void' \subseteq void \cup RowsOf(rows[c].owner) /\ c \notin void' /\ void' \subseteq Challenges
    BY <1>5, <2>1 DEF Granted, RowsOf
  <2>4. GrantInv'
    BY <2>1, <2>2
  <2>5. VoidInv'
    BY <2>2, <2>3
  <2> QED
    BY <2>4, <2>5
<1> QED
  BY <1>1, <1>2, <1>3, <1>4, <1>5, StepCases

LEMMA InductiveInvariant == Spec => []IInv
<1>1. Init => GrantInv /\ VoidInv
  BY DEF Init, GrantInv, VoidInv, NoRow
<1>2. Init => IInv
  BY <1>1, TypeInit, TypeSplit DEF IInv
<1>3. IInv /\ [Next]_vars => IInv'
  <2> SUFFICES ASSUME IInv, [Next]_vars PROVE IInv'
    OBVIOUS
  <2>1. RowsOK /\ RequestsOK /\ AccountsOK /\ SeenOK
    BY TypeSplit DEF IInv
  <2>2. (RowsOK /\ RequestsOK /\ AccountsOK /\ SeenOK)'
    BY <2>1, TypeStep
  <2>3. (TypeOK /\ HandInv)'
    BY <2>2 DEF TypeOK, RowsOK, RequestsOK, AccountsOK, SeenOK
  <2>4. GrantInv' /\ VoidInv'
    BY <2>1, GrantStep DEF IInv
  <2> QED
    BY <2>3, <2>4 DEF IInv
<1> QED
  BY <1>2, <1>3, PTL DEF Spec

\* A login token is good for one login, however many requests present it.
THEOREM TokensAreSingleUse == Spec => []SingleUse
<1>1. IInv => SingleUse
  BY DEF IInv, TypeOK, GrantInv, SingleUse, Row, Stages
<1> QED
  BY <1>1, InductiveInvariant, PTL

\* What IInv says, in the parts the step lemmas are stated with.
LEMMA InvParts == IInv => RowsOK /\ RequestsOK /\ AccountsOK /\ SeenOK /\ GrantInv /\ VoidInv
  BY TypeSplit DEF IInv

\* Only a verified challenge of an active user lets anyone in.
LEMMA OnlyGrantsChange ==
    ASSUME IInv, [Next]_vars, NEW d \in Challenges, grants'[d] # grants[d]
    PROVE  CanConsume(d)
<1>1. CASE Quiet \/ (\E S \in SUBSET Challenges : Removed(S))
           \/ (\E c \in Challenges, r \in Requests : Created(c, r)) \/ (\E c \in Challenges : Marked(c))
  BY <1>1 DEF Quiet, Removed, Created, Marked
<1>2. ASSUME NEW c \in Challenges, Granted(c) PROVE CanConsume(d)
  <2>1. grants' = [grants EXCEPT ![c] = @ + 1] /\ CanConsume(c)
    BY <1>2 DEF Granted
  <2>2. grants \in [Challenges -> Nat]
    BY DEF IInv, TypeOK
  <2> QED
    BY <2>1, <2>2
<1> QED
  BY <1>1, <1>2, StepCases, InvParts

\* A challenge that was superseded or withdrawn lets nobody in any more.
THEOREM VoidStaysVoid == Spec => VoidNeverGrants
<1>1. IInv /\ [Next]_vars => [\A c \in void : grants'[c] = grants[c]]_vars
  <2> SUFFICES ASSUME IInv, [Next]_vars, NEW c \in void PROVE grants'[c] = grants[c]
    OBVIOUS
  <2>1. c \in Challenges /\ rows[c].stage = "gone"
    BY DEF IInv, VoidInv, TypeOK
  <2> QED
    BY <2>1, OnlyGrantsChange DEF CanConsume
<1> QED
  BY <1>1, InductiveInvariant, PTL DEF Spec, VoidNeverGrants

\* No challenge lets anyone into a deleted account.
THEOREM DeletedAccountsStayClosed == Spec => DeletedNeverEnters
<1>1. IInv /\ [Next]_vars =>
        [\A c \in Challenges :
            Exists(c) /\ deleted[rows[c].owner] => grants'[c] = grants[c]]_vars
  BY OnlyGrantsChange DEF CanConsume, Active
<1> QED
  BY <1>1, InductiveInvariant, PTL DEF Spec, DeletedNeverEnters
-------------------------------------------------------------------------------
(***************************************************************************)
(* Refinement: every step of LoginChallenge is a step of LoginGrant or     *)
(* leaves its variables alone.                                             *)
(***************************************************************************)
Holder(c) == IF rows[c].stage \in {"pending", "verified"} THEN rows[c].owner ELSE None

LEMMA GrantInit == Init => Grant!Init
<1> SUFFICES ASSUME Init PROVE Grant!Init
  OBVIOUS
<1>1. \A c \in Challenges : rows[c].stage = "absent"
  BY DEF Init, NoRow
<1>2. \A c \in Challenges : GrantState(c) = "absent" /\ Holder(c) = None
  BY <1>1 DEF GrantState, Holder
<1> QED
  BY <1>1, <1>2 DEF Init, Grant!Init, Holder

\* The abstract state of each stage.
LEMMA StateOfStage ==
    ASSUME NEW c
    PROVE  /\ rows[c].stage = "absent" => GrantState(c) = "absent" /\ Holder(c) = None
           /\ rows[c].stage = "pending" => GrantState(c) = "open" /\ Holder(c) = rows[c].owner
           /\ rows[c].stage = "verified" => GrantState(c) = "proved" /\ Holder(c) = rows[c].owner
           /\ rows[c].stage = "used" => GrantState(c) = "spent" /\ Holder(c) = None
           /\ rows[c].stage = "gone" /\ grants[c] = 0 => GrantState(c) = "withdrawn" /\ Holder(c) = None
           /\ rows[c].stage = "gone" /\ grants[c] # 0 => GrantState(c) = "spent" /\ Holder(c) = None
  BY DEF GrantState, Holder

\* The same after a step.
LEMMA StateOfStageNext ==
    ASSUME NEW c
    PROVE  /\ rows'[c].stage = "absent" => GrantState(c)' = "absent" /\ Holder(c)' = None
           /\ rows'[c].stage = "pending" => GrantState(c)' = "open" /\ Holder(c)' = rows'[c].owner
           /\ rows'[c].stage = "verified" => GrantState(c)' = "proved" /\ Holder(c)' = rows'[c].owner
           /\ rows'[c].stage = "used" => GrantState(c)' = "spent" /\ Holder(c)' = None
           /\ rows'[c].stage = "gone" /\ grants'[c] = 0
                 => GrantState(c)' = "withdrawn" /\ Holder(c)' = None
           /\ rows'[c].stage = "gone" /\ grants'[c] # 0
                 => GrantState(c)' = "spent" /\ Holder(c)' = None
  BY DEF GrantState, Holder

\* A challenge of which stage, owner and grants stay the same is the same.
LEMMA SameState ==
    ASSUME NEW c, rows'[c].stage = rows[c].stage, rows'[c].owner = rows[c].owner,
           grants'[c] = grants[c]
    PROVE  GrantState(c)' = GrantState(c) /\ Holder(c)' = Holder(c)
  BY DEF GrantState, Holder

\* The refinement mapping, written with Holder.
AState == [c \in Challenges |-> GrantState(c)]
AHolder == [c \in Challenges |-> Holder(c)]

LEMMA RemovedWithdraws ==
    ASSUME IInv, NEW S \in SUBSET Challenges, Removed(S)
    PROVE  Grant!Withdraw({d \in S : rows[d].stage \in {"pending", "verified"}})
<1> DEFINE T == {d \in S : rows[d].stage \in {"pending", "verified"}}
<1>1. ASSUME NEW d \in Challenges
      PROVE  /\ GrantState(d)' = IF d \in T THEN "withdrawn" ELSE GrantState(d)
             /\ Holder(d)' = IF d \in T THEN None ELSE Holder(d)
  <2>1. rows'[d] = IF d \in S THEN NoRow("gone") ELSE rows[d]
    BY <1>1 DEF Removed, Without
  <2>2. grants'[d] = grants[d]
    BY DEF Removed
  <2>3. CASE d \notin S
    BY <2>1, <2>2, <2>3, SameState
  <2>4. CASE d \in T
    <3>1. rows'[d].stage = "gone" /\ grants'[d] = 0
      BY <1>1, <2>1, <2>2, <2>4 DEF NoRow, IInv, GrantInv
    <3> QED
      BY <2>4, <3>1, StateOfStageNext
  <2>5. CASE d \in S \ T
    <3>1. rows[d].stage = "used"
      BY <1>1, <2>5 DEF Removed, Exists, IInv, TypeOK, Row, Stages
    <3>2. rows'[d].stage = "gone" /\ grants'[d] = 1
      BY <1>1, <2>1, <2>2, <2>5, <3>1 DEF NoRow, IInv, GrantInv
    <3> QED
      BY <2>5, <3>1, <3>2, StateOfStage, StateOfStageNext
  <2> QED
    BY <2>3, <2>4, <2>5
<1> HIDE DEF T
<1>2. /\ AState' = [d \in Challenges |-> IF d \in T THEN "withdrawn" ELSE AState[d]]
      /\ AHolder' = [d \in Challenges |-> IF d \in T THEN None ELSE AHolder[d]]
  BY <1>1 DEF AState, AHolder
<1>3. UNCHANGED grants
  BY DEF Removed
<1> QED
  BY <1>2, <1>3 DEF Grant!Withdraw, AState, AHolder, Holder, T

LEMMA CreatedOffers ==
    ASSUME IInv, NEW c \in Challenges, NEW r \in Requests, Created(c, r)
    PROVE  Grant!Offer(c, who[r])
<1>1. GrantState(c) = "absent" /\ GrantState(c)' = "open" /\ Holder(c)' = who[r]
  BY StateOfStage, StateOfStageNext DEF Created
<1>2. \A d \in Challenges \ {c} : GrantState(d)' = GrantState(d) /\ Holder(d)' = Holder(d)
  BY SameState DEF Created
<1>3. /\ AState[c] = "absent"
      /\ AState' = [AState EXCEPT ![c] = "open"]
      /\ AHolder' = [AHolder EXCEPT ![c] = who[r]]
  BY <1>1, <1>2 DEF AState, AHolder
<1> QED
  BY <1>3 DEF Grant!Offer, AState, AHolder, Holder, Created

LEMMA MarkedProves ==
    ASSUME IInv, NEW c \in Challenges, Marked(c)
    PROVE  Grant!Prove(c)
<1>1. GrantState(c) = "open" /\ GrantState(c)' = "proved" /\ Holder(c)' = Holder(c)
  BY StateOfStage, StateOfStageNext DEF Marked, SameOrigin
<1>2. \A d \in Challenges \ {c} : GrantState(d)' = GrantState(d) /\ Holder(d)' = Holder(d)
  BY SameState DEF Marked
<1>3. /\ AState[c] = "open"
      /\ AState' = [AState EXCEPT ![c] = "proved"]
      /\ AHolder' = AHolder
  BY <1>1, <1>2 DEF AState, AHolder
<1> QED
  BY <1>3 DEF Grant!Prove, AState, AHolder, Holder, Marked

\* A login withdraws exactly the user's other pending challenges.
LEMMA GrantedGrants ==
    ASSUME IInv, NEW c \in Challenges, Granted(c)
    PROVE  Grant!Grant(c)
<1> DEFINE u == rows[c].owner
           Pending == {d \in Challenges : AState[d] \in {"open", "proved"}}
           Rivals == {d \in Pending \ {c} : AHolder[d] = AHolder[c]}
<1>1. /\ GrantState(c) = "proved" /\ Holder(c) = u
      /\ GrantState(c)' = "spent" /\ Holder(c)' = None
  BY StateOfStage, StateOfStageNext DEF Granted, CanConsume
<1>2. u \in Users /\ u # None
  BY LoginAssumption DEF IInv, TypeOK, Granted, CanConsume, Exists
<1>3. ASSUME NEW d \in Challenges \ {c}
      PROVE  /\ d \in Rivals <=> rows[d].stage \in {"pending", "verified"} /\ rows[d].owner = u
             /\ GrantState(d)' = IF d \in Rivals THEN "withdrawn" ELSE GrantState(d)
             /\ Holder(d)' = IF d \in Rivals THEN None ELSE Holder(d)
  <2>1. grants'[d] = grants[d]
    BY <1>3 DEF Granted, IInv, TypeOK
  <2>2. rows'[d] = IF d \in RowsOf(u) THEN NoRow("gone") ELSE rows[d]
    BY <1>3 DEF Granted
  <2>3. rows[d].stage \in Stages
    BY <1>3 DEF IInv, TypeOK, Row
  <2>4. d \in Rivals <=> GrantState(d) \in {"open", "proved"} /\ Holder(d) = u
    BY <1>1, <1>3 DEF AState, AHolder
  <2>5. d \in Rivals <=> rows[d].stage \in {"pending", "verified"} /\ rows[d].owner = u
    BY <1>2, <2>3, <2>4, StateOfStage DEF Stages
  <2> HIDE DEF Rivals
  <2>6. CASE d \in Rivals
    <3>1. d \in RowsOf(u) /\ grants[d] = 0
      BY <1>3, <2>5, <2>6 DEF RowsOf, Exists, IInv, GrantInv
    <3>2. rows'[d].stage = "gone" /\ grants'[d] = 0
      BY <2>1, <2>2, <3>1 DEF NoRow
    <3> QED
      BY <2>5, <2>6, <3>2, StateOfStageNext
  <2>7. CASE d \notin Rivals /\ d \in RowsOf(u)
    <3>1. rows[d].stage = "used" /\ grants[d] = 1
      BY <1>3, <2>3, <2>5, <2>7 DEF RowsOf, Exists, Stages, IInv, GrantInv
    <3>2. rows'[d].stage = "gone" /\ grants'[d] # 0
      BY <2>1, <2>2, <2>7, <3>1 DEF NoRow
    <3> QED
      BY <2>5, <2>7, <3>1, <3>2, StateOfStage, StateOfStageNext
  <2>8. CASE d \notin Rivals /\ d \notin RowsOf(u)
    <3>1. rows'[d] = rows[d]
      BY <2>2, <2>8
    <3> QED
      BY <2>1, <2>5, <2>8, <3>1, SameState
  <2> QED
    BY <2>6, <2>7, <2>8
<1>4. c \notin Rivals
  OBVIOUS
<1>5. Rivals = {d \in {e \in Challenges : AState[e] \in {"open", "proved"}} \ {c} : AHolder[d] = AHolder[c]}
  OBVIOUS
<1> HIDE DEF Rivals, Pending
<1>6. /\ AState[c] = "proved"
      /\ AState' = [d \in Challenges |->
            IF d = c THEN "spent" ELSE IF d \in Rivals THEN "withdrawn" ELSE AState[d]]
      /\ AHolder' = [d \in Challenges |-> IF d \in Rivals \cup {c} THEN None ELSE AHolder[d]]
  BY <1>1, <1>3, <1>4 DEF AState, AHolder
<1>7. grants' = [grants EXCEPT ![c] = @ + 1]
  BY DEF Granted
<1> QED
  BY <1>5, <1>6, <1>7 DEF Grant!Grant, Grant!Rivals, Grant!Pending, AState, AHolder, Holder

LEMMA QuietStutters ==
    ASSUME IInv, Quiet
    PROVE  UNCHANGED Grant!vars
<1>1. \A d \in Challenges : GrantState(d)' = GrantState(d) /\ Holder(d)' = Holder(d)
  BY SameState DEF Quiet, SameOrigin
<1>2. AState' = AState /\ AHolder' = AHolder /\ grants' = grants
  BY <1>1 DEF AState, AHolder, Quiet
<1> QED
  BY <1>2 DEF Grant!vars, AState, AHolder, Holder

LEMMA StepRefines == IInv /\ [Next]_vars => [Grant!Next]_Grant!vars
<1> SUFFICES ASSUME IInv, [Next]_vars PROVE [Grant!Next]_Grant!vars
  OBVIOUS
<1>1. ASSUME Quiet PROVE UNCHANGED Grant!vars
  BY <1>1, QuietStutters
<1>2. ASSUME NEW S \in SUBSET Challenges, Removed(S) PROVE Grant!Next
  <2> DEFINE T == {d \in S : rows[d].stage \in {"pending", "verified"}}
  <2>1. Grant!Withdraw(T)
    BY <1>2, RemovedWithdraws
  <2>2. T \in SUBSET {d \in Challenges : AState[d] \in {"open", "proved"}}
    BY StateOfStage DEF AState
  <2> HIDE DEF T
  <2>3. T \in SUBSET Grant!Pending
    BY <2>2 DEF Grant!Pending, AState
  <2>4. \E P \in SUBSET Grant!Pending : Grant!Withdraw(P)
    BY <2>1, <2>3 DEF Grant!Withdraw
  <2> QED
    BY <2>4 DEF Grant!Next
<1>3. ASSUME NEW c \in Challenges, NEW r \in Requests, Created(c, r) PROVE Grant!Next
  <2>1. Grant!Offer(c, who[r]) /\ who[r] \in Users
    BY <1>3, CreatedOffers DEF Created
  <2>2. \E u \in Users : Grant!Offer(c, u)
    BY <2>1 DEF Grant!Offer
  <2> QED
    BY <2>2 DEF Grant!Next
<1>4. ASSUME NEW c \in Challenges, Marked(c) PROVE Grant!Next
  BY <1>4, MarkedProves DEF Grant!Next
<1>5. ASSUME NEW c \in Challenges, Granted(c) PROVE Grant!Next
  BY <1>5, GrantedGrants DEF Grant!Next
<1> QED
  BY <1>1, <1>2, <1>3, <1>4, <1>5, StepCases, InvParts

\* The login, with its concurrent requests, its stale reads and its failures,
\* implements LoginGrant.
THEOREM LoginImplementsGrant == Spec => GrantsAsPromised
<1> QED
  BY GrantInit, StepRefines, InductiveInvariant, PTL DEF Spec, Grant!Spec, GrantsAsPromised
-------------------------------------------------------------------------------
(***************************************************************************)
(* How many challenges of one user and mode are open.  A request inserts a *)
(* row only after it has deleted those it inserted before, so no two open  *)
(* rows have the same user, mode and by.                                   *)
(***************************************************************************)
OpenInv ==
    /\ \A c \in Challenges : Exists(c) => rows[c].by \in Requests
    /\ \A c, d \in Challenges :
          /\ Exists(c) /\ Exists(d)
          /\ rows[c].owner = rows[d].owner
          /\ rows[c].mode = rows[d].mode
          /\ rows[c].by = rows[d].by
          => c = d
    /\ \A r \in Requests, c \in Challenges :
          pc[r] = "create" /\ Exists(c) /\ rows[c].owner = who[r] /\ rows[c].mode = mode[r]
          => rows[c].by # r

\* A request comes to insert a row only by deleting those of its user and mode.
LEMMA ComesToCreate ==
    ASSUME RequestsOK, [Next]_vars, NEW r \in Requests, pc'[r] = "create"
    PROVE  /\ who'[r] = who[r] /\ mode'[r] = mode[r]
           /\ \/ pc[r] = "create"
              \/ \A c \in Challenges :
                    Exists(c)' => ~(rows[c].owner = who[r] /\ rows[c].mode = mode[r])
<1> USE DEF RequestsOK
<1>1. ASSUME NEW s \in Requests, DeleteChallenges(s)
      PROVE  /\ who'[r] = who[r] /\ mode'[r] = mode[r]
             /\ \/ pc[r] = "create"
                \/ \A c \in Challenges :
                      Exists(c)' => ~(rows[c].owner = who[r] /\ rows[c].mode = mode[r])
  <2>1. CASE s # r
    BY <1>1, <2>1 DEF DeleteChallenges, Goto
  <2>2. CASE s = r
    <3>1. rows' = Without({c \in RowsOf(who[r]) : rows[c].mode = mode[r]})
      BY <1>1, <2>2 DEF DeleteChallenges
    <3>2. ASSUME NEW c \in Challenges, Exists(c)', rows[c].owner = who[r], rows[c].mode = mode[r]
          PROVE  FALSE
      <4>1. CASE Exists(c)
        <5>1. rows'[c] = NoRow("gone")
          BY <3>1, <3>2, <4>1 DEF Without, RowsOf
        <5> QED
          BY <3>2, <5>1 DEF Exists, NoRow
      <4>2. CASE ~Exists(c)
        <5>1. rows'[c] = rows[c]
          BY <3>1, <3>2, <4>2 DEF Without, RowsOf
        <5> QED
          BY <3>2, <4>2, <5>1 DEF Exists
      <4> QED
        BY <4>1, <4>2
    <3>3. who'[r] = who[r] /\ mode'[r] = mode[r]
      BY <1>1 DEF DeleteChallenges
    <3> QED
      BY <3>2, <3>3
  <2> QED
    BY <2>1, <2>2
<1>2. ASSUME NEW s \in Requests,
             \/ RegisterFailedPassword(s) \/ CreateChallenge(s) \/ IncrementAttempts(s)
             \/ MarkVerified(s) \/ ConsumeToken(s) \/ Fail(s)
      PROVE  pc[r] = "create" /\ who'[r] = who[r] /\ mode'[r] = mode[r]
  <2>1. Return(s)
    BY <1>2 DEF RegisterFailedPassword, CreateChallenge, IncrementAttempts, MarkVerified,
                ConsumeToken, Fail
  <2> QED
    BY <2>1 DEF Return, Goto
<1>3. ASSUME NEW s \in Requests, NEW u \in Users, NEW m, CheckPassword(s, u, m)
      PROVE  pc[r] = "create" /\ who'[r] = who[r] /\ mode'[r] = mode[r]
  BY <1>3 DEF CheckPassword, Goto
<1>4. ASSUME NEW s \in Requests, ClearFailedPasswords(s)
      PROVE  pc[r] = "create" /\ who'[r] = who[r] /\ mode'[r] = mode[r]
  BY <1>4 DEF ClearFailedPasswords, Goto
<1>5. ASSUME NEW s \in Requests, NEW c \in Challenges, VerifyCode(s, c) \/ FindToken(s, c)
      PROVE  pc[r] = "create" /\ who'[r] = who[r] /\ mode'[r] = mode[r]
  BY <1>5 DEF VerifyCode, FindToken, Goto
<1>6. ASSUME \/ \E u \in Users : SoftDeleteUser(u) \/ ChangeContact(u) \/ UnlockAccount(u)
             \/ \E c \in Challenges : ExpireCode(c) \/ ExpireToken(c) \/ CleanUp(c)
             \/ UNCHANGED vars
      PROVE  pc[r] = "create" /\ who'[r] = who[r] /\ mode'[r] = mode[r]
  BY <1>6 DEF SoftDeleteUser, ChangeContact, UnlockAccount, ExpireCode, ExpireToken, CleanUp,
     requests, vars
<1> QED
  BY <1>1, <1>2, <1>3, <1>4, <1>5, <1>6
  DEF Next, RequestStep, StartEmailLogin, StartPhoneLogin

LEMMA OpenStep ==
    ASSUME IInv, OpenInv, [Next]_vars
    PROVE  OpenInv'
<1>1. ASSUME \A c \in Challenges : Exists(c)' => Exists(c) /\ SameOrigin(c)
      PROVE  OpenInv'
  <2>1. \A c \in Challenges : Exists(c)' => rows'[c].by \in Requests
    BY <1>1 DEF OpenInv, SameOrigin
  <2>2. \A c, d \in Challenges :
          /\ Exists(c)' /\ Exists(d)'
          /\ rows'[c].owner = rows'[d].owner
          /\ rows'[c].mode = rows'[d].mode
          /\ rows'[c].by = rows'[d].by
          => c = d
    BY <1>1 DEF OpenInv, SameOrigin
  <2>3. ASSUME NEW r \in Requests, NEW c \in Challenges, pc'[r] = "create", Exists(c)',
               rows'[c].owner = who'[r], rows'[c].mode = mode'[r]
        PROVE  rows'[c].by # r
    BY <1>1, <2>3, ComesToCreate, InvParts DEF OpenInv, SameOrigin
  <2> QED
    BY <2>1, <2>2, <2>3 DEF OpenInv
<1>2. ASSUME NEW c \in Challenges, NEW r \in Requests, Created(c, r) PROVE OpenInv'
  <2>1. \A d \in Challenges \ {c} : rows'[d] = rows[d] /\ (Exists(d)' <=> Exists(d))
    BY <1>2 DEF Created, Exists
  <2>2. \A d \in Challenges \ {c} :
          Exists(d) /\ rows[d].owner = rows'[c].owner /\ rows[d].mode = rows'[c].mode
          => rows[d].by # r
    BY <1>2 DEF Created, OpenInv
  <2>3. rows'[c].by = r
    BY <1>2 DEF Created
  <2>4. \A d \in Challenges : Exists(d)' => rows'[d].by \in Requests
    BY <2>1, <2>3 DEF OpenInv
  <2>5. \A d, e \in Challenges :
          /\ Exists(d)' /\ Exists(e)'
          /\ rows'[d].owner = rows'[e].owner
          /\ rows'[d].mode = rows'[e].mode
          /\ rows'[d].by = rows'[e].by
          => d = e
    BY <2>1, <2>2, <2>3 DEF OpenInv
  <2>6. ASSUME NEW s \in Requests, NEW d \in Challenges, pc'[s] = "create", Exists(d)',
               rows'[d].owner = who'[s], rows'[d].mode = mode'[s]
        PROVE  rows'[d].by # s
    <3>1. s # r
      BY <1>2, <2>6 DEF Created
    <3>2. CASE d = c
      BY <2>3, <3>1, <3>2
    <3>3. CASE d # c
      BY <2>1, <2>6, <3>3, ComesToCreate, InvParts DEF OpenInv
    <3> QED
      BY <3>2, <3>3
  <2> QED
    BY <2>4, <2>5, <2>6 DEF OpenInv
<1>3. ASSUME Quiet \/ \E c \in Challenges : Marked(c) PROVE OpenInv'
  <2>1. \A c \in Challenges : Exists(c)' => Exists(c) /\ SameOrigin(c)
    BY <1>3 DEF Quiet, Marked, Exists, SameOrigin
  <2> QED
    BY <1>1, <2>1
<1>4. ASSUME NEW S \in SUBSET Challenges, Removed(S) PROVE OpenInv'
  <2>1. \A c \in Challenges : rows'[c] = rows[c] \/ rows'[c] = NoRow("gone")
    BY <1>4 DEF Removed, Without
  <2>2. \A c \in Challenges : Exists(c)' => Exists(c) /\ SameOrigin(c)
    BY <2>1 DEF Exists, SameOrigin, NoRow
  <2> QED
    BY <1>1, <2>2
<1>5. ASSUME NEW c \in Challenges, Granted(c) PROVE OpenInv'
  <2>1. \A d \in Challenges \ {c} : rows'[d] = rows[d] \/ rows'[d] = NoRow("gone")
    BY <1>5 DEF Granted
  <2>2. \A d \in Challenges : Exists(d)' => Exists(d) /\ SameOrigin(d)
    BY <1>5, <2>1 DEF Granted, CanConsume, Exists, SameOrigin, NoRow
  <2> QED
    BY <1>1, <2>2
<1> QED
  BY <1>2, <1>3, <1>4, <1>5, StepCases, InvParts

\* Rows that differ in by are as many as requests at most.
LEMMA OpenIsBounded == IInv /\ OpenInv => OpenChallengesBounded
<1> SUFFICES ASSUME IInv, OpenInv, NEW u \in Users, NEW m \in Modes
             PROVE  Cardinality({c \in RowsOf(u) : rows[c].mode = m}) <= Cardinality(Requests)
  BY DEF OpenChallengesBounded
<1> DEFINE S == {c \in RowsOf(u) : rows[c].mode = m}
           f == [c \in S |-> rows[c].by]
<1>1. f \in [S -> Requests]
  BY DEF RowsOf, OpenInv
<1>2. \A c, d \in S : f[c] = f[d] => c = d
  BY DEF RowsOf, OpenInv
<1> HIDE DEF S, f
<1>3. f \in Injection(S, Requests)
  BY <1>1, <1>2 DEF Injection, IsInjective
<1>4. Cardinality(S) <= Cardinality(Requests)
  BY <1>3, FS_Injection, LoginAssumption
<1> QED
  BY <1>4 DEF S

\* A user has no more open challenges of one mode than requests run at a time.
THEOREM OpenChallengesStayFew == Spec => []OpenChallengesBounded
<1>1. Init => OpenInv
  BY DEF Init, OpenInv, Exists, NoRow
<1>2. IInv /\ OpenInv /\ [Next]_vars => OpenInv'
  BY OpenStep
<1> QED
  BY <1>1, <1>2, OpenIsBounded, InductiveInvariant, PTL DEF Spec
-------------------------------------------------------------------------------
(***************************************************************************)
(* Wrong codes.  While a row can still be answered, every wrong answer has *)
(* been counted in it; the answers under way are at most one per request.  *)
(***************************************************************************)
Answering(c) == {r \in Requests : pc[r] = "wrongCode" /\ chal[r] = c}

CodesInvAt(c) ==
    /\ rows[c].stage = "absent" => wrongCodes[c] = 0
    /\ Exists(c) /\ rows[c].codeAttempts < MaxAttempts => wrongCodes[c] <= rows[c].codeAttempts
    /\ wrongCodes[c] + Cardinality(Answering(c)) < MaxAttempts + Cardinality(Requests)

CodesInv == \A c \in Challenges : CodesInvAt(c)

LEMMA RequestSets ==
    ASSUME NEW S \in SUBSET Requests
    PROVE  /\ IsFiniteSet(S) /\ Cardinality(S) \in Nat
           /\ Cardinality(Requests) \in Nat /\ Cardinality(S) <= Cardinality(Requests)
  BY FS_Subset, FS_CardinalityType, LoginAssumption

\* Steps that answer nothing about c: its counters stay, and no request
\* begins to answer.
LEMMA CodesQuiet ==
    ASSUME TypeOK, NEW c \in Challenges, CodesInvAt(c),
           wrongCodes'[c] = wrongCodes[c],
           Answering(c)' \subseteq Answering(c),
           rows'[c].stage = "absent" => rows[c].stage = "absent",
           Exists(c)' => \/ Exists(c) /\ rows'[c].codeAttempts = rows[c].codeAttempts
                         \/ rows[c].stage = "absent" /\ rows'[c].codeAttempts = 0
    PROVE  CodesInvAt(c)'
<1> DEFINE old == Cardinality(Answering(c))
           new == Cardinality(Answering(c)')
           all == Cardinality(Requests)
<1>1. old \in Nat /\ new \in Nat /\ all \in Nat /\ new <= old
  <2>1. Answering(c) \in SUBSET Requests /\ Answering(c)' \in SUBSET Requests
    BY DEF Answering
  <2> QED
    BY <2>1, RequestSets, FS_Subset
<1>2. wrongCodes[c] \in Nat /\ MaxAttempts \in Nat
  BY LoginAssumption DEF TypeOK
<1>3. wrongCodes[c] + old < MaxAttempts + all
  BY DEF CodesInvAt
<1> HIDE DEF old, new, all
<1>4. wrongCodes'[c] + new < MaxAttempts + all
  BY <1>1, <1>2, <1>3
<1>5. /\ rows'[c].stage = "absent" => wrongCodes'[c] = 0
      /\ Exists(c)' /\ rows'[c].codeAttempts < MaxAttempts => wrongCodes'[c] <= rows'[c].codeAttempts
  BY DEF CodesInvAt
<1> QED
  BY <1>4, <1>5 DEF CodesInvAt, new, all

\* A request begins to answer only a row whose counter is below the limit.
LEMMA CodesVerify ==
    ASSUME IInv, NEW c \in Challenges, CodesInvAt(c), NEW r \in Requests, NEW d \in Challenges,
           VerifyCode(r, d)
    PROVE  CodesInvAt(c)'
<1> USE DEF VerifyCode, seen
<1>1. CASE c # d
  <2>1. Answering(c)' \subseteq Answering(c)
    BY <1>1 DEF Answering, Goto, IInv, TypeOK
  <2> QED
    BY <2>1, CodesQuiet DEF IInv, Exists
<1>2. CASE c = d
  <2>1. wrongCodes[c] <= rows[c].codeAttempts /\ rows[c].codeAttempts < MaxAttempts
    BY <1>2 DEF CodesInvAt, Exists
  <2>2. wrongCodes[c] \in Nat /\ rows[c].codeAttempts \in Nat /\ MaxAttempts \in Nat
    BY LoginAssumption DEF IInv, TypeOK, Row
  <2>3. Answering(c)' \in SUBSET Requests
    BY DEF Answering
  <2>4. /\ Cardinality(Answering(c)') \in Nat /\ Cardinality(Requests) \in Nat
        /\ Cardinality(Answering(c)') <= Cardinality(Requests)
    BY <2>3, RequestSets
  <2>5. wrongCodes[c] + Cardinality(Answering(c)') < MaxAttempts + Cardinality(Requests)
    BY <2>1, <2>2, <2>4
  <2> QED
    BY <2>5 DEF CodesInvAt, Exists
<1> QED
  BY <1>1, <1>2

\* An answer moves from the requests to the counters.
LEMMA CodesIncrement ==
    ASSUME IInv, NEW c \in Challenges, CodesInvAt(c), NEW r \in Requests, IncrementAttempts(r)
    PROVE  CodesInvAt(c)'
<1>1. chal[r] \in Challenges /\ rows[chal[r]].stage # "absent" /\ pc[r] = "wrongCode"
  BY DEF IncrementAttempts, IInv, HandInv
<1>2. wrongCodes' = [wrongCodes EXCEPT ![chal[r]] = @ + 1] /\ Return(r)
  BY DEF IncrementAttempts
<1>3. rows' \in {rows, [rows EXCEPT ![chal[r]].codeAttempts = @ + 1]}
  BY DEF IncrementAttempts
<1>4. rows'[c].stage = rows[c].stage
  BY <1>1, <1>3 DEF IInv, TypeOK, Row
<1>5. CASE c # chal[r]
  <2>1. Answering(c)' \subseteq Answering(c)
    BY <1>2 DEF Answering, Return, Goto, IInv, TypeOK
  <2>2. rows'[c] = rows[c] /\ wrongCodes'[c] = wrongCodes[c]
    BY <1>1, <1>2, <1>3, <1>5 DEF IInv, TypeOK
  <2> QED
    BY <2>1, <2>2, CodesQuiet DEF IInv, Exists
<1>6. CASE c = chal[r]
  <2>1. r \in Answering(c) /\ Answering(c)' = Answering(c) \ {r}
    BY <1>1, <1>2, <1>6 DEF Answering, Return, Goto, IInv, TypeOK
  <2>2. Answering(c) \in SUBSET Requests
    BY DEF Answering
  <2>3. /\ Cardinality(Answering(c) \ {r}) = Cardinality(Answering(c)) - 1
        /\ Cardinality(Answering(c)) \in Nat /\ Cardinality(Requests) \in Nat
    BY <2>1, <2>2, RequestSets, FS_RemoveElement
  <2>4. wrongCodes'[c] = wrongCodes[c] + 1 /\ wrongCodes[c] \in Nat /\ MaxAttempts \in Nat
    BY <1>1, <1>2, <1>6, LoginAssumption DEF IInv, TypeOK
  <2>5. wrongCodes'[c] + Cardinality(Answering(c)') < MaxAttempts + Cardinality(Requests)
    BY <2>1, <2>3, <2>4 DEF CodesInvAt
  <2>6. ASSUME Exists(c), rows'[c].codeAttempts < MaxAttempts
        PROVE  wrongCodes'[c] <= rows'[c].codeAttempts
    <3>1. rows[c].codeAttempts \in Nat
      BY DEF IInv, TypeOK, Row
    <3>2. CASE rows[c].codeAttempts < MaxAttempts
      <4>1. rows' = [rows EXCEPT ![c].codeAttempts = @ + 1]
        BY <1>6, <2>6, <3>2 DEF IncrementAttempts
      <4>2. rows'[c].codeAttempts = rows[c].codeAttempts + 1
        BY <4>1 DEF IInv, TypeOK, Row
      <4> QED
        BY <2>4, <2>6, <3>1, <3>2, <4>2 DEF CodesInvAt
    <3>3. CASE ~(rows[c].codeAttempts < MaxAttempts)
      BY <1>6, <2>6, <3>3 DEF IncrementAttempts
    <3> QED
      BY <3>2, <3>3
  <2> QED
    BY <1>1, <1>4, <1>6, <2>5, <2>6 DEF CodesInvAt, Exists
<1> QED
  BY <1>5, <1>6

LEMMA AnsweringShrinks ==
    ASSUME TypeOK, NEW c,
           \/ \E s \in Requests : Return(s)
           \/ UNCHANGED <<pc, chal>>
           \/ \E s \in Requests, p \in Points \ {"wrongCode"} :
                 Goto(s, p) /\ \A q \in Requests \ {s} : chal'[q] = chal[q]
    PROVE  Answering(c)' \subseteq Answering(c)
  BY DEF Answering, Return, Goto, TypeOK

LEMMA CodesStep ==
    ASSUME IInv, CodesInv, [Next]_vars
    PROVE  CodesInv'
<1> SUFFICES ASSUME NEW c \in Challenges PROVE CodesInvAt(c)'
  BY DEF CodesInv
<1>0. CodesInvAt(c) /\ TypeOK /\ HandInv
  BY DEF CodesInv, IInv
<1>1. ASSUME UNCHANGED <<rows, wrongCodes>>, Answering(c)' \subseteq Answering(c)
      PROVE  CodesInvAt(c)'
  BY <1>0, <1>1, CodesQuiet DEF Exists
<1>2. ASSUME NEW S, rows' = Without(S), \A d \in S : Exists(d), UNCHANGED wrongCodes,
             Answering(c)' \subseteq Answering(c)
      PROVE  CodesInvAt(c)'
  <2>1. rows'[c] = IF c \in S THEN NoRow("gone") ELSE rows[c]
    BY <1>2 DEF Without
  <2>2. rows'[c].stage = "absent" => rows[c].stage = "absent"
    BY <2>1 DEF NoRow
  <2>3. Exists(c)' => Exists(c) /\ rows'[c].codeAttempts = rows[c].codeAttempts
    BY <2>1 DEF NoRow, Exists
  <2> QED
    BY <1>0, <1>2, <2>2, <2>3, CodesQuiet
<1>3. ASSUME NEW r \in Requests,
             \/ \E u \in Users : StartEmailLogin(r, u) \/ StartPhoneLogin(r, u)
             \/ RegisterFailedPassword(r)
             \/ ClearFailedPasswords(r)
             \/ Fail(r)
      PROVE  CodesInvAt(c)'
  <2>1. Answering(c)' \subseteq Answering(c)
    BY <1>0, <1>3, AnsweringShrinks DEF StartEmailLogin, StartPhoneLogin, CheckPassword,
       RegisterFailedPassword, ClearFailedPasswords, Fail, Points
  <2>2. UNCHANGED <<rows, wrongCodes>>
    BY <1>3 DEF StartEmailLogin, StartPhoneLogin, CheckPassword,
       RegisterFailedPassword, ClearFailedPasswords, Fail, seen
  <2> QED
    BY <1>1, <2>1, <2>2
<1>4. ASSUME NEW r \in Requests, DeleteChallenges(r) PROVE CodesInvAt(c)'
  <2>1. Answering(c)' \subseteq Answering(c)
    BY <1>0, <1>4, AnsweringShrinks DEF DeleteChallenges, Points
  <2> QED
    BY <1>2, <1>4, <2>1 DEF DeleteChallenges, RowsOf
<1>5. ASSUME NEW r \in Requests, CreateChallenge(r) PROVE CodesInvAt(c)'
  <2>1. Answering(c)' \subseteq Answering(c)
    BY <1>0, <1>5, AnsweringShrinks DEF CreateChallenge
  <2>2. PICK d \in Challenges :
          /\ rows[d].stage = "absent"
          /\ rows' = [rows EXCEPT ![d] =
                [stage |-> "pending", owner |-> who[r], mode |-> mode[r],
                 codeAttempts |-> 0, expiry |-> "fresh", by |-> r]]
    BY <1>5 DEF CreateChallenge
  <2>3. /\ rows'[c].stage = "absent" => rows[c].stage = "absent"
        /\ Exists(c)' => \/ Exists(c) /\ rows'[c].codeAttempts = rows[c].codeAttempts
                         \/ rows[c].stage = "absent" /\ rows'[c].codeAttempts = 0
    BY <1>0, <2>2 DEF TypeOK, Exists
  <2> QED
    BY <1>0, <1>5, <2>1, <2>3, CodesQuiet DEF CreateChallenge, seen
<1>6. ASSUME NEW r \in Requests, NEW d \in Challenges, FindToken(r, d) PROVE CodesInvAt(c)'
  <2>1. Answering(c)' \subseteq Answering(c)
    BY <1>6 DEF FindToken, Answering, Goto, IInv, TypeOK
  <2> QED
    BY <1>1, <1>6, <2>1 DEF FindToken, seen
<1>7. ASSUME NEW d \in Challenges,
             \/ \E s \in Stages \ {"absent"} : rows' = [rows EXCEPT ![d].stage = s]
             \/ \E e \in Expiries : rows' = [rows EXCEPT ![d].expiry = e],
             Exists(d), UNCHANGED wrongCodes, Answering(c)' \subseteq Answering(c)
      PROVE  CodesInvAt(c)'
  <2>1. /\ rows'[c].stage = "absent" => rows[c].stage = "absent"
        /\ Exists(c)' => Exists(c) /\ rows'[c].codeAttempts = rows[c].codeAttempts
    BY <1>0, <1>7 DEF TypeOK, Row, Exists
  <2> QED
    BY <1>0, <1>7, <2>1, CodesQuiet
<1>8. ASSUME NEW r \in Requests, MarkVerified(r) PROVE CodesInvAt(c)'
  <2>1. Answering(c)' \subseteq Answering(c)
    BY <1>0, <1>8, AnsweringShrinks DEF MarkVerified
  <2>2. chal[r] \in Challenges
    BY <1>0, <1>8 DEF MarkVerified, HandInv
  <2> QED
    BY <1>1, <1>7, <1>8, <2>1, <2>2 DEF MarkVerified, CanMark, Exists, Stages, seen
<1>9. ASSUME NEW r \in Requests, ConsumeToken(r) PROVE CodesInvAt(c)'
  <2>1. Answering(c)' \subseteq Answering(c)
    BY <1>0, <1>9, AnsweringShrinks DEF ConsumeToken
  <2>2. chal[r] \in Challenges
    BY <1>0, <1>9 DEF ConsumeToken, HandInv
  <2>3. CASE CanConsume(chal[r])
    <3>1. rows' = [Without(RowsOf(rows[chal[r]].owner) \ {chal[r]}) EXCEPT ![chal[r]].stage = "used"]
      BY <1>9, <2>3 DEF ConsumeToken
    <3>2. /\ rows'[chal[r]] = [rows[chal[r]] EXCEPT !.stage = "used"]
          /\ \A d \in Challenges \ {chal[r]} :
                rows'[d] = IF d \in RowsOf(rows[chal[r]].owner) THEN NoRow("gone") ELSE rows[d]
      BY <2>2, <2>3, <3>1, ConsumeRows, InvParts DEF CanConsume
    <3>3. /\ rows'[c].stage = "absent" => rows[c].stage = "absent"
          /\ Exists(c)' => Exists(c) /\ rows'[c].codeAttempts = rows[c].codeAttempts
      <4>1. CASE c = chal[r]
        <5>1. rows[c] \in Row /\ rows'[c] = [rows[c] EXCEPT !.stage = "used"]
          BY <1>0, <3>2, <4>1 DEF TypeOK
        <5>2. rows'[c].codeAttempts = rows[c].codeAttempts /\ rows'[c].stage = "used"
          BY <5>1 DEF Row
        <5> QED
          BY <2>3, <4>1, <5>2 DEF CanConsume, Exists
      <4>2. CASE c # chal[r]
        BY <3>2, <4>2 DEF NoRow, Exists
      <4> QED
        BY <4>1, <4>2
    <3> QED
      BY <1>0, <1>9, <2>1, <3>3, CodesQuiet DEF ConsumeToken
  <2>4. CASE ~CanConsume(chal[r])
    BY <1>1, <1>9, <2>1, <2>4 DEF ConsumeToken
  <2> QED
    BY <2>3, <2>4
<1>10. ASSUME \E u \in Users : SoftDeleteUser(u) \/ ChangeContact(u) \/ UnlockAccount(u)
       PROVE  CodesInvAt(c)'
  <2>1. Answering(c)' \subseteq Answering(c)
    BY <1>10 DEF SoftDeleteUser, ChangeContact, UnlockAccount, requests, Answering
  <2> QED
    BY <1>1, <1>2, <1>10, <2>1 DEF SoftDeleteUser, ChangeContact, UnlockAccount, RowsOf
<1>11. ASSUME NEW d \in Challenges, ExpireCode(d) \/ ExpireToken(d) \/ CleanUp(d)
       PROVE  CodesInvAt(c)'
  <2>1. Answering(c)' \subseteq Answering(c)
    BY <1>11 DEF ExpireCode, ExpireToken, CleanUp, requests, Answering
  <2>2. CASE ExpireCode(d) \/ ExpireToken(d)
    BY <1>7, <2>1, <2>2 DEF ExpireCode, ExpireToken, Expiries, seen
  <2>3. CASE CleanUp(d)
    BY <1>2, <2>1, <2>3 DEF CleanUp, seen
  <2> QED
    BY <1>11, <2>2, <2>3
<1>12. ASSUME UNCHANGED vars PROVE CodesInvAt(c)'
  BY <1>1, <1>12 DEF vars, requests, seen, Answering
<1> QED
  BY <1>0, <1>3, <1>4, <1>5, <1>6, <1>8, <1>9, <1>10, <1>11, <1>12, CodesVerify, CodesIncrement
  DEF Next, RequestStep

\* Concurrency adds at most one wrong answer for each request under way.
THEOREM WrongCodesStayFew == Spec => []WrongCodesBounded
<1>1. Init => CodesInv
  <2> SUFFICES ASSUME Init, NEW c \in Challenges PROVE CodesInvAt(c)
    BY DEF CodesInv
  <2>1. Answering(c) = {} /\ wrongCodes[c] = 0 /\ ~Exists(c)
    BY DEF Init, Answering, Exists, NoRow
  <2>2. Cardinality(Answering(c)) = 0 /\ Cardinality(Requests) \in Nat
    BY <2>1, FS_EmptySet, FS_CardinalityType, LoginAssumption
  <2> QED
    BY <2>1, <2>2, LoginAssumption DEF CodesInvAt
<1>2. IInv /\ CodesInv /\ [Next]_vars => CodesInv'
  BY CodesStep
<1>3. IInv /\ CodesInv => WrongCodesBounded
  <2> SUFFICES ASSUME IInv, CodesInv, NEW c \in Challenges
               PROVE  wrongCodes[c] < MaxAttempts + Cardinality(Requests)
    BY DEF WrongCodesBounded
  <2>1. Answering(c) \in SUBSET Requests
    BY DEF Answering
  <2>2. Cardinality(Answering(c)) \in Nat /\ Cardinality(Requests) \in Nat
    BY <2>1, RequestSets
  <2>3. wrongCodes[c] \in Nat /\ MaxAttempts \in Nat
    BY LoginAssumption DEF IInv, TypeOK
  <2>4. wrongCodes[c] + Cardinality(Answering(c)) < MaxAttempts + Cardinality(Requests)
    BY DEF CodesInv, CodesInvAt
  <2> QED
    BY <2>2, <2>3, <2>4
<1> QED
  BY <1>1, <1>2, <1>3, InductiveInvariant, PTL DEF Spec
-------------------------------------------------------------------------------
(***************************************************************************)
(* Wrong passwords.  The same argument: an unlocked account has counted    *)
(* every wrong password, and only an unlocked account is asked.            *)
(***************************************************************************)
Failing(u) == {r \in Requests : pc[r] = "wrongPassword" /\ who[r] = u}

PasswordsInvAt(u) ==
    /\ Active(u) /\ ~locked[u] =>
          wrongPasswords[u] <= failedLogins[u] /\ wrongPasswords[u] < MaxPasswordAttempts
    /\ wrongPasswords[u] + Cardinality(Failing(u)) < MaxPasswordAttempts + Cardinality(Requests)

PasswordsInv == \A u \in Users : PasswordsInvAt(u)

\* What arithmetic needs to know of the sets involved.
LEMMA FailingSizes ==
    ASSUME NEW u
    PROVE  /\ IsFiniteSet(Failing(u))
           /\ Cardinality(Failing(u)) \in Nat /\ Cardinality(Failing(u)') \in Nat
           /\ Cardinality(Requests) \in Nat
           /\ Cardinality(Failing(u)') <= Cardinality(Requests)
           /\ Failing(u)' \subseteq Failing(u) => Cardinality(Failing(u)') <= Cardinality(Failing(u))
<1>1. Failing(u) \in SUBSET Requests /\ Failing(u)' \in SUBSET Requests
  BY DEF Failing
<1> QED
  BY <1>1, RequestSets, FS_Subset

\* Steps that neither count for u nor begin to: its columns stay.
LEMMA PasswordsQuiet ==
    ASSUME TypeOK, NEW u \in Users, PasswordsInvAt(u),
           wrongPasswords'[u] = wrongPasswords[u],
           Failing(u)' \subseteq Failing(u),
           Active(u)' => Active(u) /\ locked'[u] = locked[u] /\ failedLogins'[u] = failedLogins[u]
    PROVE  PasswordsInvAt(u)'
<1>1. wrongPasswords[u] \in Nat /\ MaxPasswordAttempts \in Nat
  BY LoginAssumption DEF TypeOK
<1>2. wrongPasswords'[u] + Cardinality(Failing(u)') < MaxPasswordAttempts + Cardinality(Requests)
  BY <1>1, FailingSizes DEF PasswordsInvAt
<1> QED
  BY <1>2 DEF PasswordsInvAt

\* Steps that start the count of u again.
LEMMA PasswordsReset ==
    ASSUME TypeOK, TypeOK', NEW u \in Users, PasswordsInvAt(u), wrongPasswords'[u] = 0
    PROVE  PasswordsInvAt(u)'
<1>1. MaxPasswordAttempts \in Nat \ {0} /\ failedLogins'[u] \in Nat
  BY LoginAssumption DEF TypeOK
<1>2. Cardinality(Failing(u)') < MaxPasswordAttempts + Cardinality(Requests)
  BY <1>1, FailingSizes
<1>3. wrongPasswords'[u] + Cardinality(Failing(u)') < MaxPasswordAttempts + Cardinality(Requests)
  BY <1>2, FailingSizes
<1> QED
  BY <1>1, <1>3 DEF PasswordsInvAt

\* A password is compared only while the account is not locked.
LEMMA PasswordsCheck ==
    ASSUME IInv, NEW u \in Users, PasswordsInvAt(u),
           NEW r \in Requests, NEW v \in Users, NEW m, CheckPassword(r, v, m)
    PROVE  PasswordsInvAt(u)'
<1> USE DEF CheckPassword, users, seen
<1>1. CASE u # v
  <2>1. Failing(u)' \subseteq Failing(u)
    BY <1>1 DEF Failing, Goto, IInv, TypeOK
  <2> QED
    BY <2>1, PasswordsQuiet DEF IInv, Active
<1>2. CASE u = v
  <2>1. wrongPasswords[u] < MaxPasswordAttempts
    BY <1>2 DEF PasswordsInvAt
  <2>2. wrongPasswords[u] \in Nat /\ MaxPasswordAttempts \in Nat
    BY LoginAssumption DEF IInv, TypeOK
  <2>3. wrongPasswords[u] + Cardinality(Failing(u)') < MaxPasswordAttempts + Cardinality(Requests)
    BY <2>1, <2>2, FailingSizes
  <2> QED
    BY <2>3 DEF PasswordsInvAt, Active
<1> QED
  BY <1>1, <1>2

\* A wrong password moves from the requests to the counters, and locks.
LEMMA PasswordsRegister ==
    ASSUME IInv, NEW u \in Users, PasswordsInvAt(u), NEW r \in Requests, RegisterFailedPassword(r)
    PROVE  PasswordsInvAt(u)'
<1>1. who[r] \in Users /\ pc[r] = "wrongPassword" /\ Return(r)
  BY DEF RegisterFailedPassword, IInv, HandInv
<1>2. wrongPasswords' = [wrongPasswords EXCEPT ![who[r]] = @ + 1] /\ deleted' = deleted
  BY DEF RegisterFailedPassword, users
<1>3. CASE u # who[r]
  <2>1. Failing(u)' \subseteq Failing(u)
    BY <1>1 DEF Failing, Return, Goto, IInv, TypeOK
  <2>2. wrongPasswords'[u] = wrongPasswords[u]
    BY <1>2, <1>3 DEF IInv, TypeOK
  <2>3. locked'[u] = locked[u] /\ failedLogins'[u] = failedLogins[u]
    BY <1>3 DEF RegisterFailedPassword, users, IInv, TypeOK
  <2>4. Active(u)' <=> Active(u)
    BY <1>2 DEF Active
  <2> QED
    BY <2>1, <2>2, <2>3, <2>4, PasswordsQuiet DEF IInv
<1>4. CASE u = who[r]
  <2>1. r \in Failing(u) /\ Failing(u)' = Failing(u) \ {r}
    BY <1>1, <1>4 DEF Failing, Return, Goto, IInv, TypeOK
  <2>2. Cardinality(Failing(u)') = Cardinality(Failing(u)) - 1
    BY <2>1, FailingSizes, FS_RemoveElement
  <2>3. wrongPasswords'[u] = wrongPasswords[u] + 1 /\ wrongPasswords[u] \in Nat
        /\ MaxPasswordAttempts \in Nat
    BY <1>1, <1>2, <1>4, LoginAssumption DEF IInv, TypeOK
  <2>4. wrongPasswords'[u] + Cardinality(Failing(u)') < MaxPasswordAttempts + Cardinality(Requests)
    BY <2>2, <2>3, FailingSizes DEF PasswordsInvAt
  <2>5. ASSUME Active(u), ~locked'[u]
        PROVE  wrongPasswords'[u] <= failedLogins'[u] /\ wrongPasswords'[u] < MaxPasswordAttempts
    <3> DEFINE reached == failedLogins[u] + 1 >= MaxPasswordAttempts
    <3>1. locked' = [locked EXCEPT ![u] = @ \/ reached]
          /\ failedLogins' = [failedLogins EXCEPT
                ![u] = IF reached THEN MaxPasswordAttempts ELSE @ + 1]
      BY <1>4, <2>5 DEF RegisterFailedPassword
    <3>2. locked'[u] = (locked[u] \/ reached)
      <4> HIDE DEF reached
      <4> QED
        BY <3>1, Zenon DEF IInv, TypeOK
    <3>3. ~locked[u] /\ ~reached
      BY <2>5, <3>2
    <3>4. failedLogins \in [Users -> 0..MaxPasswordAttempts]
      BY DEF IInv, TypeOK
    <3>5. failedLogins'[u] = failedLogins[u] + 1
      BY <3>1, <3>3, <3>4
    <3>6. wrongPasswords[u] <= failedLogins[u]
      BY <2>5, <3>3 DEF PasswordsInvAt
    <3> QED
      BY <2>3, <3>3, <3>4, <3>5, <3>6
  <2>6. Active(u)' <=> Active(u)
    BY <1>2 DEF Active
  <2> QED
    BY <2>4, <2>5, <2>6 DEF PasswordsInvAt
<1> QED
  BY <1>3, <1>4

\* Requests that move on, or end, fail for nobody new.
LEMMA FailingShrinks ==
    ASSUME RequestsOK, NEW u, NEW r \in Requests,
           Return(r) \/ (who' = who /\ \E p \in Points \ {"wrongPassword"} : Goto(r, p))
    PROVE  Failing(u)' \subseteq Failing(u)
  BY DEF RequestsOK, Failing, Return, Goto

LEMMA PasswordsStep ==
    ASSUME IInv, PasswordsInv, [Next]_vars
    PROVE  PasswordsInv'
<1> SUFFICES ASSUME NEW u \in Users PROVE PasswordsInvAt(u)'
  BY DEF PasswordsInv
<1>0. /\ PasswordsInvAt(u) /\ TypeOK /\ RequestsOK
      /\ TypeOK'
  <2>1. RowsOK /\ RequestsOK /\ AccountsOK /\ SeenOK
    BY InvParts
  <2>2. RowsOK' /\ RequestsOK' /\ AccountsOK' /\ SeenOK'
    BY <2>1, TypeStep
  <2>3. TypeOK'
    BY <2>2 DEF TypeOK, RowsOK, RequestsOK, AccountsOK, SeenOK
  <2> QED
    BY <2>1, <2>3 DEF PasswordsInv, IInv
<1>1. ASSUME UNCHANGED <<users, wrongPasswords>>, Failing(u)' \subseteq Failing(u)
      PROVE  PasswordsInvAt(u)'
  <2>1. UNCHANGED <<wrongPasswords, locked, failedLogins, deleted>>
    BY <1>1 DEF users
  <2> QED
    BY <1>0, <1>1, <2>1, PasswordsQuiet DEF Active
<1>2. ASSUME NEW v \in Users, ResetFailures(v), Failing(u)' \subseteq Failing(u)
      PROVE  PasswordsInvAt(u)'
  <2>1. CASE u = v
    <3>1. wrongPasswords'[u] = 0
      BY <1>0, <1>2, <2>1 DEF ResetFailures, TypeOK
    <3> QED
      BY <1>0, <3>1, PasswordsReset
  <2>2. CASE u # v
    BY <1>0, <1>2, <2>2, PasswordsQuiet DEF ResetFailures, TypeOK, Active
  <2> QED
    BY <2>1, <2>2
<1>3. ASSUME NEW r \in Requests, NEW v \in Users, StartEmailLogin(r, v) \/ StartPhoneLogin(r, v)
      PROVE  PasswordsInvAt(u)'
  <2>1. PICK m : CheckPassword(r, v, m)
    BY <1>3 DEF StartEmailLogin, StartPhoneLogin
  <2> QED
    BY <1>0, <2>1, PasswordsCheck
<1>4. ASSUME NEW r \in Requests, RegisterFailedPassword(r) PROVE PasswordsInvAt(u)'
  BY <1>0, <1>4, PasswordsRegister
<1>5. ASSUME NEW r \in Requests, ClearFailedPasswords(r) PROVE PasswordsInvAt(u)'
  <2>1. Failing(u)' \subseteq Failing(u)
    BY <1>0, <1>5, FailingShrinks DEF ClearFailedPasswords, Points
  <2>2. who[r] \in Users
    BY <1>0, <1>5 DEF ClearFailedPasswords, RequestsOK, HandInv
  <2> QED
    BY <1>1, <1>2, <1>5, <2>1, <2>2 DEF ClearFailedPasswords
<1>6. ASSUME NEW r \in Requests,
             \/ DeleteChallenges(r)
             \/ CreateChallenge(r)
             \/ \E c \in Challenges : VerifyCode(r, c) \/ FindToken(r, c)
             \/ IncrementAttempts(r)
             \/ MarkVerified(r)
             \/ Fail(r)
      PROVE  PasswordsInvAt(u)'
  <2>1. Failing(u)' \subseteq Failing(u)
    BY <1>0, <1>6, FailingShrinks DEF DeleteChallenges, CreateChallenge, VerifyCode, FindToken,
       IncrementAttempts, MarkVerified, Fail, Points
  <2>2. UNCHANGED <<users, wrongPasswords>>
    BY <1>6 DEF DeleteChallenges, CreateChallenge, VerifyCode, FindToken,
       IncrementAttempts, MarkVerified, Fail, seen
  <2> QED
    BY <1>1, <2>1, <2>2
<1>7. ASSUME NEW r \in Requests, ConsumeToken(r) PROVE PasswordsInvAt(u)'
  <2>1. Failing(u)' \subseteq Failing(u)
    BY <1>0, <1>7, FailingShrinks DEF ConsumeToken
  <2>2. CASE CanConsume(chal[r])
    <3>1. chal[r] \in Challenges
      BY <1>0, <1>7 DEF ConsumeToken, RequestsOK, HandInv
    <3>2. rows[chal[r]].owner \in Users
      BY <1>0, <2>2, <3>1 DEF CanConsume, TypeOK, Exists
    <3>3. ResetFailures(rows[chal[r]].owner)
      BY <1>7, <2>2 DEF ConsumeToken
    <3> QED
      BY <1>2, <2>1, <3>2, <3>3
  <2>3. CASE ~CanConsume(chal[r])
    BY <1>1, <1>7, <2>1, <2>3 DEF ConsumeToken
  <2> QED
    BY <2>2, <2>3
<1>8. ASSUME NEW v \in Users, SoftDeleteUser(v) PROVE PasswordsInvAt(u)'
  <2>1. Failing(u)' \subseteq Failing(u)
    BY <1>8 DEF SoftDeleteUser, Failing, requests
  <2>2. Active(u)' => Active(u)
    BY <1>0, <1>8 DEF SoftDeleteUser, Active, TypeOK
  <2> QED
    BY <1>0, <1>8, <2>1, <2>2, PasswordsQuiet DEF SoftDeleteUser
<1>9. ASSUME NEW v \in Users, UnlockAccount(v) PROVE PasswordsInvAt(u)'
  <2>1. Failing(u)' \subseteq Failing(u)
    BY <1>9 DEF UnlockAccount, Failing, requests
  <2>2. CASE u = v
    <3>1. wrongPasswords'[u] = 0
      BY <1>0, <1>9, <2>2 DEF UnlockAccount, TypeOK
    <3> QED
      BY <1>0, <3>1, PasswordsReset
  <2>3. CASE u # v
    BY <1>0, <1>9, <2>1, <2>3, PasswordsQuiet DEF UnlockAccount, TypeOK, Active
  <2> QED
    BY <2>2, <2>3
<1>10. ASSUME \/ \E v \in Users : ChangeContact(v)
              \/ \E c \in Challenges : ExpireCode(c) \/ ExpireToken(c) \/ CleanUp(c)
              \/ UNCHANGED vars
       PROVE  PasswordsInvAt(u)'
  <2>1. UNCHANGED <<users, requests, wrongPasswords>>
    BY <1>10 DEF ChangeContact, ExpireCode, ExpireToken, CleanUp, vars, seen
  <2> QED
    BY <1>1, <2>1 DEF Failing, requests
<1> QED
  BY <1>3, <1>4, <1>5, <1>6, <1>7, <1>8, <1>9, <1>10 DEF Next, RequestStep

\* Between two resets, or two ends of a lock, no account is told "wrong
\* password" MaxPasswordAttempts times and once for every request: all but the
\* answers under way at that moment have been counted, and the count locks.
THEOREM WrongPasswordsStayFew == Spec => []WrongPasswordsBounded
<1>1. Init => PasswordsInv
  <2> SUFFICES ASSUME Init, NEW u \in Users PROVE PasswordsInvAt(u)
    BY DEF PasswordsInv
  <2>1. Failing(u) = {}
    BY DEF Init, Failing
  <2>2. Cardinality(Failing(u)) = 0 /\ Cardinality(Requests) \in Nat
    BY <2>1, FS_EmptySet, FailingSizes
  <2>3. wrongPasswords[u] = 0 /\ failedLogins[u] = 0
    BY DEF Init
  <2> QED
    BY <2>2, <2>3, LoginAssumption DEF PasswordsInvAt
<1>2. IInv /\ PasswordsInv /\ [Next]_vars => PasswordsInv'
  BY PasswordsStep
<1>3. IInv /\ PasswordsInv => WrongPasswordsBounded
  <2> SUFFICES ASSUME IInv, PasswordsInv, NEW u \in Users
               PROVE  wrongPasswords[u] < MaxPasswordAttempts + Cardinality(Requests)
    BY DEF WrongPasswordsBounded
  <2>1. wrongPasswords[u] \in Nat /\ MaxPasswordAttempts \in Nat
    BY LoginAssumption DEF IInv, TypeOK
  <2>2. wrongPasswords[u] + Cardinality(Failing(u)) < MaxPasswordAttempts + Cardinality(Requests)
    BY DEF PasswordsInv, PasswordsInvAt
  <2> QED
    BY <2>1, <2>2, FailingSizes
<1> QED
  BY <1>1, <1>2, <1>3, InductiveInvariant, PTL DEF Spec
===============================================================================
