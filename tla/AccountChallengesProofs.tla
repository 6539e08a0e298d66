------------------------ MODULE AccountChallengesProofs ------------------------
(***************************************************************************)
(* Proofs about AccountChallenges, for any number of users, phone numbers, *)
(* challenges and concurrent requests and any limit of attempts.           *)
(***************************************************************************)
EXTENDS AccountChallenges, FiniteSetTheorems, TLAPS

(***************************************************************************)
(* The invariants, one for each thing the proofs need to know.             *)
(***************************************************************************)
\* A request has in hand what its control point needs.
HandInv ==
    \A r \in Requests :
        /\ pc[r] \in {"checkPhone", "delete", "create"} => who[r] \in Users /\ kind[r] \in Kinds
        /\ pc[r] \in {"wrongMail", "rightMail", "wrongSms", "rightSms", "complete"} =>
               chal[r] \in Challenges /\ rows[chal[r]].stage # "absent"

\* A number that was read to send a code to is still the user's as long as its
\* challenge waits for the mail code: whatever changes the number of a user
\* deletes the user's challenges with it.
NumberInv ==
    \A r \in Requests : pc[r] = "rightMail" /\ rows[chal[r]].stage = "mail" =>
        number[r] # None /\ number[r] = phone[rows[chal[r]].owner]

\* The stage of a row tells how often it did its work.
UsesInv ==
    \A c \in Challenges :
        /\ rows[c].stage \in {"absent", "mail", "sms", "token"} => uses[c] = 0
        /\ rows[c].stage = "used" => uses[c] = 1
        /\ rows[c].stage = "gone" => uses[c] \in {0, 1}

IInv ==
    /\ TypeOK /\ HandInv
    /\ NumberInv /\ PhoneProved /\ DeletedStaysBare /\ PhonesUnique
    /\ UsesInv
-------------------------------------------------------------------------------
(***************************************************************************)
(* Rows                                                                    *)
(***************************************************************************)
LEMMA Constants ==
    /\ MaxAttempts \in Nat /\ MaxAttempts > 0
    /\ None \notin Users /\ None \notin Phones /\ None \notin Challenges /\ None \notin Kinds
  BY AccountAssumption DEF Kinds

\* What the parts of TypeOK about rows say; the types of a step are proved for
\* the rows and for the other variables one by one.
RowsOK ==
    /\ rows \in [Challenges -> Row]
    /\ \A c \in Challenges : Exists(c) => rows[c].owner \in Users /\ rows[c].kind \in Kinds

RequestsOK ==
    /\ pc \in [Requests -> Points]
    /\ who \in [Requests -> Users \cup {None}]
    /\ kind \in [Requests -> Kinds \cup {None}]
    /\ chal \in [Requests -> Challenges \cup {None}]
    /\ number \in [Requests -> Phones \cup {None}]
    /\ HandInv

UsersOK ==
    /\ phone \in [Users -> Phones \cup {None}]
    /\ deleted \in [Users -> BOOLEAN]

UsesOK == uses \in [Challenges -> Nat]

LEMMA TypeSplit == TypeOK /\ HandInv <=> RowsOK /\ RequestsOK /\ UsersOK /\ UsesOK
  BY DEF TypeOK, RowsOK, RequestsOK, UsersOK, UsesOK

LEMMA NoRowType ==
    \A s \in Stages : /\ NoRow(s) \in Row /\ NoRow(s).stage = s
                      /\ NoRow(s).owner = None /\ NoRow(s).sentTo = None
  BY Constants DEF NoRow, Row

LEMMA RowTypes ==
    \A row \in Row : /\ row.stage \in Stages /\ row.kind \in Kinds \cup {None}
                     /\ row.owner \in Users \cup {None} /\ row.nextPhone \in Phones \cup {None}
                     /\ row.sentTo \in Phones \cup {None}
                     /\ row.emailCodeAttempts \in 0..MaxAttempts
                     /\ row.smsCodeAttempts \in 0..MaxAttempts
                     /\ row.wrongMails \in Nat /\ row.wrongSms \in Nat
  BY DEF Row

LEMMA RowUpdates ==
    ASSUME NEW row \in Row
    PROVE  /\ \A e \in BOOLEAN : [row EXCEPT !.expired = e] \in Row
           /\ \A s \in Stages : [row EXCEPT !.stage = s] \in Row
           /\ \A n \in 0..MaxAttempts : [row EXCEPT !.emailCodeAttempts = n] \in Row
           /\ \A n \in 0..MaxAttempts : [row EXCEPT !.smsCodeAttempts = n] \in Row
           /\ \A n \in Nat : [row EXCEPT !.wrongMails = n] \in Row
           /\ \A n \in Nat : [row EXCEPT !.wrongSms = n] \in Row
           /\ \A p \in Phones : [row EXCEPT !.sentTo = p] \in Row
  BY Zenon DEF Row

\* Of a row, what the properties depend on.
SameSubject(new, row) ==
    /\ new.kind = row.kind /\ new.owner = row.owner /\ new.nextPhone = row.nextPhone

Same(new, row) ==
    SameSubject(new, row) /\ new.stage = row.stage /\ new.sentTo = row.sentTo

LEMMA RowFields ==
    ASSUME NEW row \in Row, NEW x
    PROVE  /\ Same([row EXCEPT !.expired = x], row)
           /\ Same([row EXCEPT !.emailCodeAttempts = x], row)
           /\ Same([row EXCEPT !.smsCodeAttempts = x], row)
           /\ Same([row EXCEPT !.wrongMails = x], row)
           /\ Same([row EXCEPT !.wrongSms = x], row)
           /\ LET new == [row EXCEPT !.stage = x] IN
              SameSubject(new, row) /\ new.stage = x /\ new.sentTo = row.sentTo
           /\ LET new == [row EXCEPT !.sentTo = x] IN
              SameSubject(new, row) /\ new.stage = row.stage /\ new.sentTo = x
  BY Zenon DEF Row, Same, SameSubject

\* The updates of one row.
LEMMA ExpireRow ==
    ASSUME NEW row \in Row, NEW new, new = [row EXCEPT !.expired = TRUE]
    PROVE  new \in Row /\ Same(new, row)
  BY RowUpdates, RowFields, Zenon

LEMMA CountMailRow ==
    ASSUME NEW row \in Row, NEW new,
           new = [row EXCEPT !.emailCodeAttempts = IF @ < MaxAttempts THEN @ + 1 ELSE @,
                             !.wrongMails = @ + 1]
    PROVE  new \in Row /\ Same(new, row)
<1> DEFINE n == IF row.emailCodeAttempts < MaxAttempts THEN row.emailCodeAttempts + 1
                ELSE row.emailCodeAttempts
           first == [row EXCEPT !.emailCodeAttempts = n]
<1>1. n \in 0..MaxAttempts
  BY RowTypes, Constants
<1>2. first \in Row /\ Same(first, row)
  BY <1>1, RowUpdates, RowFields, Zenon
<1> DEFINE second == [first EXCEPT !.wrongMails = row.wrongMails + 1]
<1>3. new = second
  BY Zenon
<1>4. row.wrongMails + 1 \in Nat
  BY RowTypes
<1>5. second \in Row /\ Same(second, first)
  BY <1>2, <1>4, RowUpdates, RowFields, Zenon
<1> HIDE DEF first, second
<1> QED
  BY <1>2, <1>3, <1>5, Zenon DEF Same, SameSubject

LEMMA CountSmsRow ==
    ASSUME NEW row \in Row, NEW new,
           new = [row EXCEPT !.smsCodeAttempts = IF @ < MaxAttempts THEN @ + 1 ELSE @,
                             !.wrongSms = @ + 1]
    PROVE  new \in Row /\ Same(new, row)
<1> DEFINE n == IF row.smsCodeAttempts < MaxAttempts THEN row.smsCodeAttempts + 1
                ELSE row.smsCodeAttempts
           first == [row EXCEPT !.smsCodeAttempts = n]
<1>1. n \in 0..MaxAttempts
  BY RowTypes, Constants
<1>2. first \in Row /\ Same(first, row)
  BY <1>1, RowUpdates, RowFields, Zenon
<1> DEFINE second == [first EXCEPT !.wrongSms = row.wrongSms + 1]
<1>3. new = second
  BY Zenon
<1>4. row.wrongSms + 1 \in Nat
  BY RowTypes
<1>5. second \in Row /\ Same(second, first)
  BY <1>2, <1>4, RowUpdates, RowFields, Zenon
<1> HIDE DEF first, second
<1> QED
  BY <1>2, <1>3, <1>5, Zenon DEF Same, SameSubject

MailVersion(row, p) == [row EXCEPT !.stage = "sms", !.smsCodeAttempts = 0, !.expired = FALSE,
                                   !.sentTo = p]

LEMMA MailProvedRow ==
    ASSUME NEW row \in Row, NEW p \in Phones
    PROVE  LET new == MailVersion(row, p) IN
           new \in Row /\ SameSubject(new, row) /\ new.stage = "sms" /\ new.sentTo = p
<1> DEFINE a == [row EXCEPT !.stage = "sms"]
           b == [a EXCEPT !.smsCodeAttempts = 0]
           d == [b EXCEPT !.expired = FALSE]
<1>1. "sms" \in Stages /\ 0 \in 0..MaxAttempts
  BY Constants DEF Stages
<1>2. a \in Row /\ SameSubject(a, row) /\ a.stage = "sms"
  BY <1>1, RowUpdates, RowFields, Zenon
<1>3. b \in Row /\ Same(b, a)
  BY <1>1, <1>2, RowUpdates, RowFields, Zenon
<1>4. d \in Row /\ Same(d, b)
  BY <1>3, RowUpdates, RowFields, Zenon
<1> DEFINE e == [d EXCEPT !.sentTo = p]
<1>5. MailVersion(row, p) = e
  BY Zenon DEF MailVersion
<1>6. e \in Row /\ SameSubject(e, d) /\ e.stage = d.stage /\ e.sentTo = p
  BY <1>4, RowUpdates, RowFields, Zenon
<1> HIDE DEF a, b, d, e
<1> QED
  BY <1>2, <1>3, <1>4, <1>5, <1>6, Zenon DEF Same, SameSubject

LEMMA SmsProvedRow ==
    ASSUME NEW row \in Row, NEW new,
           new = [row EXCEPT !.stage = "token", !.expired = FALSE]
    PROVE  new \in Row /\ SameSubject(new, row) /\ new.stage = "token" /\ new.sentTo = row.sentTo
<1> DEFINE a == [row EXCEPT !.stage = "token"]
<1>1. "token" \in Stages
  BY DEF Stages
<1>2. a \in Row /\ SameSubject(a, row) /\ a.stage = "token" /\ a.sentTo = row.sentTo
  BY <1>1, RowUpdates, RowFields, Zenon
<1> DEFINE b == [a EXCEPT !.expired = FALSE]
<1>3. new = b
  BY Zenon
<1>4. b \in Row /\ Same(b, a)
  BY <1>2, RowUpdates, RowFields, Zenon
<1> HIDE DEF a, b
<1> QED
  BY <1>2, <1>3, <1>4, Zenon DEF Same, SameSubject

FirstVersion(u, k, p) == [NoRow("mail") EXCEPT !.kind = k, !.owner = u, !.nextPhone = p]

LEMMA CreatedRow ==
    ASSUME NEW u \in Users, NEW k \in Kinds, NEW p \in Phones \cup {None}
    PROVE  LET new == FirstVersion(u, k, p) IN
           new \in Row /\ new.stage = "mail" /\ new.owner = u /\ new.kind = k
<1> DEFINE row == [stage |-> "mail", kind |-> k, owner |-> u, nextPhone |-> p,
                   emailCodeAttempts |-> 0, smsCodeAttempts |-> 0, expired |-> FALSE,
                   sentTo |-> None, wrongMails |-> 0, wrongSms |-> 0]
<1> PICK new : new = FirstVersion(u, k, p)
  BY Zenon
<1>1. new = row
  BY Zenon DEF NoRow, FirstVersion
<1>2. "mail" \in Stages /\ 0 \in 0..MaxAttempts /\ 0 \in Nat /\ FALSE \in BOOLEAN
  BY Constants DEF Stages
<1>3. row \in Row
  BY <1>2, Zenon DEF Row
<1>4. row.stage = "mail" /\ row.owner = u /\ row.kind = k
  BY Zenon
<1> HIDE DEF row
<1> QED
  BY <1>1, <1>3, <1>4, Zenon
-------------------------------------------------------------------------------
(***************************************************************************)
(* What a step does to the rows and to the users.                          *)
(***************************************************************************)
Quiet ==
    /\ \A c \in Challenges : Same(rows'[c], rows[c])
    /\ UNCHANGED <<users, uses>>

Removed(S) ==
    /\ \A c \in S : Exists(c)
    /\ rows' = Without(S)
    /\ UNCHANGED <<users, uses>>

OthersSame(c) == \A d \in Challenges \ {c} : rows'[d] = rows[d]

Created(c, u, k) ==
    /\ rows[c].stage = "absent"
    /\ rows'[c].stage = "mail" /\ rows'[c].owner = u /\ rows'[c].kind = k
    /\ OthersSame(c)
    /\ UNCHANGED <<users, uses>>

MailProved(c, r) ==
    /\ pc[r] = "rightMail" /\ chal[r] = c
    /\ rows[c].stage = "mail"
    /\ SameSubject(rows'[c], rows[c]) /\ rows'[c].stage = "sms" /\ rows'[c].sentTo = number[r]
    /\ OthersSame(c)
    /\ UNCHANGED <<users, uses>>

SmsProved(c) ==
    /\ rows[c].stage = "sms"
    /\ SameSubject(rows'[c], rows[c]) /\ rows'[c].stage = "token"
    /\ rows'[c].sentTo = rows[c].sentTo
    /\ OthersSame(c)
    /\ UNCHANGED <<users, uses>>

ResetDone(c) ==
    /\ rows[c].stage = "token" /\ rows[c].kind = "reset"
    /\ rows'[c].stage = "used"
    /\ \A d \in Challenges \ {c} :
          rows'[d] = IF d \in RowsOf(rows[c].owner) /\ rows[d].kind = "reset"
                     THEN NoRow("gone") ELSE rows[d]
    /\ uses' = [uses EXCEPT ![c] = @ + 1]
    /\ UNCHANGED users

DeleteDone(c) ==
    /\ rows[c].stage = "token" /\ rows[c].kind = "delete"
    /\ rows' = Without(RowsOf(rows[c].owner))
    /\ deleted' = [deleted EXCEPT ![rows[c].owner] = TRUE]
    /\ phone' = [phone EXCEPT ![rows[c].owner] = None]
    /\ uses' = [uses EXCEPT ![c] = @ + 1]

ContactDone(c) ==
    /\ rows[c].stage = "token" /\ rows[c].kind = "contact"
    /\ rows' = Without(RowsOf(rows[c].owner))
    /\ ~Taken(rows[c].nextPhone, rows[c].owner)
    /\ phone' = [phone EXCEPT ![rows[c].owner] = rows[c].nextPhone]
    /\ UNCHANGED deleted
    /\ uses' = [uses EXCEPT ![c] = @ + 1]

LEMMA OneRow ==
    ASSUME RowsOK, NEW c \in Challenges, NEW new \in Row,
           new.owner \in Users, new.kind \in Kinds, rows' = [rows EXCEPT ![c] = new]
    PROVE  RowsOK' /\ rows'[c] = new /\ OthersSame(c)
<1>1. rows'[c] = new /\ OthersSame(c) /\ rows' \in [Challenges -> Row]
  BY Zenon DEF RowsOK, OthersSame
<1>2. ASSUME NEW d \in Challenges, Exists(d)' PROVE rows'[d].owner \in Users /\ rows'[d].kind \in Kinds
  <2>1. CASE d = c
    BY <1>1, <2>1
  <2>2. CASE d # c
    <3>1. rows'[d] = rows[d]
      BY <1>1, <2>2 DEF OthersSame
    <3>2. Exists(d)
      BY <1>2, <3>1, Zenon DEF Exists
    <3> QED
      BY <3>1, <3>2, Zenon DEF RowsOK
  <2> QED
    BY <2>1, <2>2
<1> QED
  BY <1>1, <1>2, Zenon DEF RowsOK

LEMMA ExistingRow ==
    ASSUME RowsOK, NEW c \in Challenges, Exists(c)
    PROVE  rows[c] \in Row /\ rows[c].owner \in Users /\ rows[c].kind \in Kinds
  BY Zenon DEF RowsOK

LEMMA WithoutRows ==
    ASSUME RowsOK, NEW S, rows' = Without(S)
    PROVE  /\ RowsOK'
           /\ \A c \in Challenges : rows'[c] = IF c \in S THEN NoRow("gone") ELSE rows[c]
<1>1. \A c \in Challenges : rows'[c] = IF c \in S THEN NoRow("gone") ELSE rows[c]
  BY DEF Without
<1>2. NoRow("gone") \in Row /\ NoRow("gone").stage = "gone"
  BY NoRowType DEF Stages
<1>3. rows' \in [Challenges -> Row]
  BY <1>2, Zenon DEF Without, RowsOK
<1>4. ASSUME NEW c \in Challenges, Exists(c)' PROVE rows'[c].owner \in Users /\ rows'[c].kind \in Kinds
  <2>1. c \notin S
    BY <1>1, <1>2, <1>4 DEF Exists
  <2>2. rows'[c] = rows[c]
    BY <1>1, <2>1
  <2>3. Exists(c)
    BY <1>4, <2>2, Zenon DEF Exists
  <2> QED
    BY <2>2, <2>3, Zenon DEF RowsOK
<1> QED
  BY <1>1, <1>3, <1>4, Zenon DEF RowsOK

\* A step that changes one existing row without changing what it is for.
LEMMA OneSameRow ==
    ASSUME RowsOK, NEW c \in Challenges, Exists(c), NEW new \in Row, Same(new, rows[c]),
           rows' = [rows EXCEPT ![c] = new], UNCHANGED <<users, uses>>
    PROVE  RowsOK' /\ Quiet
<1>1. new.owner \in Users /\ new.kind \in Kinds
  BY ExistingRow, Zenon DEF Same, SameSubject
<1>2. RowsOK' /\ rows'[c] = new /\ OthersSame(c)
  BY <1>1, OneRow
<1>3. ASSUME NEW d \in Challenges PROVE Same(rows'[d], rows[d])
  <2>1. CASE d = c
    BY <1>2, <2>1
  <2>2. CASE d # c
    BY <1>2, <2>2, Zenon DEF OthersSame, Same, SameSubject
  <2> QED
    BY <2>1, <2>2
<1> QED
  BY <1>2, <1>3 DEF Quiet

LEMMA NoRowChanges ==
    ASSUME RowsOK, UNCHANGED rows, UNCHANGED <<users, uses>>
    PROVE  RowsOK' /\ Quiet
  BY Zenon DEF RowsOK, Exists, Quiet, Same, SameSubject

\* A reset: the other resets of the user are gone, its own challenge is used.
LEMMA ResetRows ==
    ASSUME RowsOK, NEW c \in Challenges, rows[c].stage = "token",
           rows' = [Without({d \in RowsOf(rows[c].owner) \ {c} : rows[d].kind = "reset"})
                       EXCEPT ![c].stage = "used"]
    PROVE  /\ RowsOK' /\ rows'[c].stage = "used"
           /\ \A d \in Challenges \ {c} :
                 rows'[d] = IF d \in RowsOf(rows[c].owner) /\ rows[d].kind = "reset"
                            THEN NoRow("gone") ELSE rows[d]
<1> DEFINE S == {d \in RowsOf(rows[c].owner) \ {c} : rows[d].kind = "reset"}
           new == [rows[c] EXCEPT !.stage = "used"]
<1>1. Without(S)[c] = rows[c]
  BY DEF Without
<1>2. rows' = [Without(S) EXCEPT ![c] = new]
  BY <1>1, Zenon
<1>3. Exists(c)
  BY DEF Exists
<1>4. rows[c] \in Row /\ rows[c].owner \in Users /\ rows[c].kind \in Kinds
  BY <1>3, ExistingRow
<1>5. new \in Row /\ SameSubject(new, rows[c]) /\ new.stage = "used"
  <2>1. "used" \in Stages
    BY DEF Stages
  <2> QED
    BY <1>4, <2>1, RowUpdates, RowFields, Zenon
<1> HIDE DEF new
<1>6. new.owner \in Users /\ new.kind \in Kinds
  BY <1>4, <1>5, Zenon DEF SameSubject
<1>7. rows'[c] = new
  BY <1>2, Zenon DEF Without
<1>8. \A d \in Challenges \ {c} : rows'[d] = IF d \in S THEN NoRow("gone") ELSE rows[d]
  BY <1>2, Zenon DEF Without
<1>9. NoRow("gone") \in Row /\ NoRow("gone").stage = "gone"
  BY NoRowType DEF Stages
<1> HIDE DEF S
<1>10. rows' \in [Challenges -> Row]
  <2>1. \A d \in Challenges : Without(S)[d] \in Row
    BY <1>9 DEF Without, RowsOK
  <2>2. Without(S) \in [Challenges -> Row]
    BY <2>1, Zenon DEF Without
  <2> QED
    BY <1>2, <1>5, <2>2, Zenon
<1>11. ASSUME NEW d \in Challenges, Exists(d)' PROVE rows'[d].owner \in Users /\ rows'[d].kind \in Kinds
  <2>1. CASE d = c
    BY <1>6, <1>7, <2>1
  <2>2. CASE d # c
    <3>1. d \notin S
      BY <1>8, <1>9, <1>11, <2>2 DEF Exists
    <3>2. rows'[d] = rows[d]
      BY <1>8, <2>2, <3>1
    <3>3. Exists(d)
      BY <1>11, <3>2, Zenon DEF Exists
    <3> QED
      BY <3>2, <3>3, Zenon DEF RowsOK
  <2> QED
    BY <2>1, <2>2
<1> QED
  BY <1>5, <1>7, <1>8, <1>10, <1>11 DEF RowsOK, S

LEMMA StepCases ==
    ASSUME RowsOK, RequestsOK, NumberInv, [Next]_vars
    PROVE  /\ RowsOK'
           /\ \/ Quiet
              \/ \E S \in SUBSET Challenges : Removed(S)
              \/ \E c \in Challenges, u \in Users, k \in Kinds : Created(c, u, k)
              \/ \E c \in Challenges, r \in Requests : MailProved(c, r)
              \/ \E c \in Challenges : SmsProved(c)
              \/ \E c \in Challenges : ResetDone(c) \/ DeleteDone(c) \/ ContactDone(c)
<1> DEFINE Goal == /\ RowsOK'
                   /\ \/ Quiet
                      \/ \E S \in SUBSET Challenges : Removed(S)
                      \/ \E c \in Challenges, u \in Users, k \in Kinds : Created(c, u, k)
                      \/ \E c \in Challenges, r \in Requests : MailProved(c, r)
                      \/ \E c \in Challenges : SmsProved(c)
                      \/ \E c \in Challenges : ResetDone(c) \/ DeleteDone(c) \/ ContactDone(c)
<1> SUFFICES Goal
  OBVIOUS
<1>1. ASSUME UNCHANGED rows, UNCHANGED <<users, uses>> PROVE Goal
  BY <1>1, NoRowChanges
<1>2. ASSUME NEW r \in Requests,
             \/ \E u \in Users : \/ StartPasswordReset(r, u) \/ StartAccountDelete(r, u)
                                \/ \E p \in Phones : StartContactChange(r, u, p)
             \/ CheckPhoneFree(r) \/ Fail(r)
      PROVE  Goal
  BY <1>1, <1>2 DEF StartPasswordReset, StartAccountDelete, StartContactChange, Begin,
                    CheckPhoneFree, Fail
<1>3. ASSUME NEW r \in Requests, NEW c \in Challenges,
             \/ VerifyPasswordResetEmailCode(r, c) \/ VerifyAccountDeleteEmailCode(r, c)
             \/ VerifyContactChangeEmailCode(r, c)
             \/ VerifyPasswordResetSmsCode(r, c) \/ VerifyAccountDeleteSmsCode(r, c)
             \/ VerifyContactChangeSmsCode(r, c)
             \/ FindPasswordResetToken(r, c) \/ FindAccountDeleteToken(r, c)
             \/ FindContactChangeToken(r, c)
      PROVE  Goal
  BY <1>1, <1>3 DEF VerifyPasswordResetEmailCode, VerifyAccountDeleteEmailCode,
        VerifyContactChangeEmailCode, VerifyPasswordResetSmsCode, VerifyAccountDeleteSmsCode,
        VerifyContactChangeSmsCode, FindPasswordResetToken, FindAccountDeleteToken,
        FindContactChangeToken, VerifyEmailCode, VerifySmsCode, FindToken
<1>4. ASSUME NEW S \in SUBSET Challenges, \A c \in S : Exists(c), rows' = Without(S),
             UNCHANGED <<users, uses>>
      PROVE  Goal
  BY <1>4, WithoutRows DEF Removed
<1>5. ASSUME NEW r \in Requests, DeleteChallenges(r) PROVE Goal
  <2>1. {c \in RowsOf(who[r]) : rows[c].kind = kind[r]} \in SUBSET Challenges
    BY DEF RowsOf
  <2>2. \A c \in {c \in RowsOf(who[r]) : rows[c].kind = kind[r]} : Exists(c)
    BY Zenon DEF RowsOf
  <2> QED
    BY <1>4, <1>5, <2>1, <2>2 DEF DeleteChallenges
<1>6. ASSUME NEW c \in Challenges, CleanUp(c) PROVE Goal
  BY <1>4, <1>6 DEF CleanUp
<1>7. ASSUME NEW r \in Requests, CreateChallenge(r) PROVE Goal
  <2> DEFINE new == FirstVersion(who[r], kind[r], number[r])
  <2>1. PICK c \in Challenges : rows[c].stage = "absent" /\ rows' = [rows EXCEPT ![c] = new]
    BY <1>7, Zenon DEF CreateChallenge, FirstVersion
  <2>2. UNCHANGED <<users, uses>>
    BY <1>7 DEF CreateChallenge
  <2>3. who[r] \in Users /\ kind[r] \in Kinds /\ number[r] \in Phones \cup {None}
    BY <1>7 DEF CreateChallenge, RequestsOK, HandInv
  <2>4. new \in Row /\ new.stage = "mail" /\ new.owner = who[r] /\ new.kind = kind[r]
    BY <2>3, CreatedRow
  <2>5. RowsOK' /\ rows'[c] = new /\ OthersSame(c)
    BY <2>1, <2>3, <2>4, OneRow
  <2>6. Created(c, who[r], kind[r])
    BY <2>1, <2>2, <2>4, <2>5 DEF Created
  <2> QED
    BY <2>3, <2>5, <2>6
<1>8. ASSUME NEW c \in Challenges, Expire(c) PROVE Goal
  <2>1. Exists(c)
    BY <1>8 DEF Expire, IsPending, Exists
  <2>2. rows' = [rows EXCEPT ![c] = [rows[c] EXCEPT !.expired = TRUE]]
    BY <1>8, Zenon DEF Expire
  <2>3. [rows[c] EXCEPT !.expired = TRUE] \in Row /\ Same([rows[c] EXCEPT !.expired = TRUE], rows[c])
    BY <2>1, ExistingRow, ExpireRow
  <2>4. UNCHANGED <<users, uses>>
    BY <1>8 DEF Expire
  <2> QED
    BY <2>1, <2>2, <2>3, <2>4, OneSameRow
<1>9. ASSUME NEW r \in Requests, IncrementEmailAttempts(r) PROVE Goal
  <2> DEFINE c == chal[r]
             new == [rows[c] EXCEPT !.emailCodeAttempts = IF @ < MaxAttempts THEN @ + 1 ELSE @,
                                    !.wrongMails = @ + 1]
  <2>1. c \in Challenges /\ UNCHANGED <<users, uses>>
    BY <1>9 DEF IncrementEmailAttempts, RequestsOK, HandInv
  <2>2. CASE Exists(c)
    <3>1. rows' = [rows EXCEPT ![c] = new]
      BY <1>9, <2>2, Zenon DEF IncrementEmailAttempts
    <3>2. new \in Row /\ Same(new, rows[c])
      BY <2>1, <2>2, ExistingRow, CountMailRow
    <3> HIDE DEF new
    <3> QED
      BY <2>1, <2>2, <3>1, <3>2, OneSameRow
  <2>3. CASE ~Exists(c)
    BY <1>1, <1>9, <2>1, <2>3 DEF IncrementEmailAttempts
  <2> QED
    BY <2>2, <2>3
<1>10. ASSUME NEW r \in Requests, IncrementSmsAttempts(r) PROVE Goal
  <2> DEFINE c == chal[r]
             new == [rows[c] EXCEPT !.smsCodeAttempts = IF @ < MaxAttempts THEN @ + 1 ELSE @,
                                    !.wrongSms = @ + 1]
  <2>1. c \in Challenges /\ UNCHANGED <<users, uses>>
    BY <1>10 DEF IncrementSmsAttempts, RequestsOK, HandInv
  <2>2. CASE Exists(c)
    <3>1. rows' = [rows EXCEPT ![c] = new]
      BY <1>10, <2>2, Zenon DEF IncrementSmsAttempts
    <3>2. new \in Row /\ Same(new, rows[c])
      BY <2>1, <2>2, ExistingRow, CountSmsRow
    <3> HIDE DEF new
    <3> QED
      BY <2>1, <2>2, <3>1, <3>2, OneSameRow
  <2>3. CASE ~Exists(c)
    BY <1>1, <1>10, <2>1, <2>3 DEF IncrementSmsAttempts
  <2> QED
    BY <2>2, <2>3
<1>11. ASSUME NEW r \in Requests, MarkEmailVerified(r) PROVE Goal
  <2> DEFINE c == chal[r]
  <2>1. c \in Challenges /\ UNCHANGED <<users, uses>> /\ pc[r] = "rightMail"
    BY <1>11 DEF MarkEmailVerified, RequestsOK, HandInv
  <2>2. CASE rows[c].stage = "mail" /\ rows[c].emailCodeAttempts < MaxAttempts
    <3> DEFINE new == MailVersion(rows[c], number[r])
    <3>1. rows' = [rows EXCEPT ![c] = new]
      BY <1>11, <2>2, Zenon DEF MarkEmailVerified, MailVersion
    <3>2. Exists(c)
      BY <2>2 DEF Exists
    <3>3. rows[c] \in Row /\ rows[c].owner \in Users /\ rows[c].kind \in Kinds
      BY <2>1, <3>2, ExistingRow
    <3>4. number[r] \in Phones
      BY <2>1, <2>2 DEF NumberInv, RequestsOK
    <3>5. new \in Row /\ SameSubject(new, rows[c]) /\ new.stage = "sms" /\ new.sentTo = number[r]
      BY <3>3, <3>4, MailProvedRow
    <3>6. new.owner \in Users /\ new.kind \in Kinds
      BY <3>3, <3>5, Zenon DEF SameSubject
    <3>7. RowsOK' /\ rows'[c] = new /\ OthersSame(c)
      BY <2>1, <3>1, <3>5, <3>6, OneRow
    <3>8. MailProved(c, r)
      BY <2>1, <2>2, <3>5, <3>7, Zenon DEF MailProved
    <3> QED
      BY <2>1, <3>7, <3>8
  <2>3. CASE ~(rows[c].stage = "mail" /\ rows[c].emailCodeAttempts < MaxAttempts)
    <3>1. UNCHANGED rows
      BY <1>11, <2>3, Zenon DEF MarkEmailVerified
    <3> QED
      BY <1>1, <2>1, <3>1
  <2> QED
    BY <2>2, <2>3
<1>12. ASSUME NEW r \in Requests, MarkSmsVerified(r) PROVE Goal
  <2> DEFINE c == chal[r]
             new == [rows[c] EXCEPT !.stage = "token", !.expired = FALSE]
  <2>1. c \in Challenges /\ UNCHANGED <<users, uses>>
    BY <1>12 DEF MarkSmsVerified, RequestsOK, HandInv
  <2>2. CASE rows[c].stage = "sms" /\ rows[c].smsCodeAttempts < MaxAttempts
    <3>1. rows' = [rows EXCEPT ![c] = new]
      BY <1>12, <2>2, Zenon DEF MarkSmsVerified
    <3>2. Exists(c)
      BY <2>2 DEF Exists
    <3>3. rows[c] \in Row /\ rows[c].owner \in Users /\ rows[c].kind \in Kinds
      BY <2>1, <3>2, ExistingRow
    <3>4. new \in Row /\ SameSubject(new, rows[c]) /\ new.stage = "token"
          /\ new.sentTo = rows[c].sentTo
      BY <3>3, SmsProvedRow, Zenon
    <3> HIDE DEF new
    <3>5. new.owner \in Users /\ new.kind \in Kinds
      BY <3>3, <3>4, Zenon DEF SameSubject
    <3>6. RowsOK' /\ rows'[c] = new /\ OthersSame(c)
      BY <2>1, <3>1, <3>4, <3>5, OneRow
    <3>7. SmsProved(c)
      BY <2>1, <2>2, <3>4, <3>6, Zenon DEF SmsProved
    <3> QED
      BY <2>1, <3>6, <3>7
  <2>3. CASE ~(rows[c].stage = "sms" /\ rows[c].smsCodeAttempts < MaxAttempts)
    <3>1. UNCHANGED rows
      BY <1>12, <2>3, Zenon DEF MarkSmsVerified
    <3> QED
      BY <1>1, <2>1, <3>1
  <2> QED
    BY <2>2, <2>3
<1>13. ASSUME NEW r \in Requests, CompletePasswordReset(r) PROVE Goal
  <2> DEFINE c == chal[r]
  <2>1. /\ c \in Challenges /\ rows[c].stage = "token" /\ rows[c].kind = "reset"
        /\ rows' = [Without({d \in RowsOf(rows[c].owner) \ {c} : rows[d].kind = "reset"})
                       EXCEPT ![c].stage = "used"]
        /\ uses' = [uses EXCEPT ![c] = @ + 1]
        /\ UNCHANGED users
    BY <1>13, Zenon DEF CompletePasswordReset, Consume, RequestsOK, HandInv
  <2>2. /\ RowsOK' /\ rows'[c].stage = "used"
        /\ \A d \in Challenges \ {c} :
              rows'[d] = IF d \in RowsOf(rows[c].owner) /\ rows[d].kind = "reset"
                         THEN NoRow("gone") ELSE rows[d]
    BY <2>1, ResetRows
  <2>3. ResetDone(c)
    BY <2>1, <2>2, Zenon DEF ResetDone
  <2> QED
    BY <2>1, <2>2, <2>3
<1>14. ASSUME NEW r \in Requests, CompleteAccountDelete(r) PROVE Goal
  <2>1. chal[r] \in Challenges /\ DeleteDone(chal[r])
    BY <1>14, Zenon DEF CompleteAccountDelete, Consume, RequestsOK, HandInv, DeleteDone
  <2>2. RowsOK'
    BY <2>1, WithoutRows DEF DeleteDone
  <2> QED
    BY <2>1, <2>2
<1>15. ASSUME NEW r \in Requests, CompleteContactChange(r) PROVE Goal
  <2>1. chal[r] \in Challenges /\ ContactDone(chal[r])
    BY <1>15, Zenon DEF CompleteContactChange, Consume, RequestsOK, HandInv, ContactDone
  <2>2. RowsOK'
    BY <2>1, WithoutRows DEF ContactDone
  <2> QED
    BY <2>1, <2>2
<1>16. ASSUME UNCHANGED vars PROVE Goal
  BY <1>1, <1>16 DEF vars
<1> HIDE DEF Goal
<1>17. ASSUME NEW r \in Requests, RequestStep(r) PROVE Goal
  BY <1>2, <1>3, <1>5, <1>7, <1>9, <1>10, <1>11, <1>12, <1>13, <1>14, <1>15, <1>17
  DEF RequestStep
<1> QED
  BY <1>6, <1>8, <1>16, <1>17 DEF Next
-------------------------------------------------------------------------------
(***************************************************************************)
(* The types of a step                                                     *)
(***************************************************************************)
StepShape ==
    \/ Quiet
    \/ \E S \in SUBSET Challenges : Removed(S)
    \/ \E c \in Challenges, u \in Users, k \in Kinds : Created(c, u, k)
    \/ \E c \in Challenges, r \in Requests : MailProved(c, r)
    \/ \E c \in Challenges : SmsProved(c)
    \/ \E c \in Challenges : ResetDone(c) \/ DeleteDone(c) \/ ContactDone(c)

LEMMA StepShapes ==
    ASSUME RowsOK, RequestsOK, NumberInv, [Next]_vars
    PROVE  RowsOK' /\ StepShape
  BY StepCases DEF StepShape

\* The ways of one row.
RowMove(c) ==
    \/ Same(rows'[c], rows[c])
    \/ rows[c].stage = "absent" /\ rows'[c].stage = "mail"
    \/ Exists(c) /\ rows'[c].stage \in {"used", "gone"}
    \/ \E r \in Requests : MailProved(c, r)
    \/ SmsProved(c)

LEMMA WithoutMoves ==
    ASSUME NEW S, \A d \in S : Exists(d), rows' = Without(S), NEW c \in Challenges
    PROVE  RowMove(c)
<1>1. CASE c \in S
  <2>1. rows'[c] = NoRow("gone") /\ Exists(c)
    BY <1>1 DEF Without
  <2>2. rows'[c].stage = "gone"
    BY <2>1, NoRowType DEF Stages
  <2> QED
    BY <2>1, <2>2 DEF RowMove
<1>2. CASE c \notin S
  <2>1. rows'[c] = rows[c]
    BY <1>2 DEF Without
  <2> QED
    BY <2>1, Zenon DEF RowMove, Same, SameSubject
<1> QED
  BY <1>1, <1>2

LEMMA RowMoves ==
    ASSUME StepShape, NEW c \in Challenges
    PROVE  RowMove(c)
<1>1. ASSUME rows'[c] = rows[c] PROVE RowMove(c)
  BY <1>1, Zenon DEF RowMove, Same, SameSubject
<1>2. CASE Quiet
  BY <1>2, Zenon DEF Quiet, RowMove
<1>3. ASSUME NEW S \in SUBSET Challenges, Removed(S) PROVE RowMove(c)
  BY <1>3, WithoutMoves DEF Removed
<1>4. ASSUME NEW d \in Challenges, NEW u \in Users, NEW k \in Kinds, Created(d, u, k) PROVE RowMove(c)
  <2>1. CASE c = d
    BY <1>4, <2>1, Zenon DEF Created, RowMove
  <2>2. CASE c # d
    BY <1>1, <1>4, <2>2 DEF Created, OthersSame
  <2> QED
    BY <2>1, <2>2
<1>5. ASSUME NEW d \in Challenges, NEW r \in Requests, MailProved(d, r) PROVE RowMove(c)
  <2>1. CASE c = d
    BY <1>5, <2>1, Zenon DEF RowMove
  <2>2. CASE c # d
    BY <1>1, <1>5, <2>2 DEF MailProved, OthersSame
  <2> QED
    BY <2>1, <2>2
<1>6. ASSUME NEW d \in Challenges, SmsProved(d) PROVE RowMove(c)
  <2>1. CASE c = d
    BY <1>6, <2>1, Zenon DEF RowMove
  <2>2. CASE c # d
    BY <1>1, <1>6, <2>2 DEF SmsProved, OthersSame
  <2> QED
    BY <2>1, <2>2
<1>7. ASSUME NEW d \in Challenges, ResetDone(d) PROVE RowMove(c)
  <2>1. CASE c = d
    <3>1. Exists(c) /\ rows'[c].stage = "used"
      BY <1>7, <2>1 DEF ResetDone, Exists
    <3> QED
      BY <3>1 DEF RowMove
  <2>2. CASE c # d
    <3>1. rows'[c] = IF c \in RowsOf(rows[d].owner) /\ rows[c].kind = "reset"
                     THEN NoRow("gone") ELSE rows[c]
      BY <1>7, <2>2 DEF ResetDone
    <3>2. CASE c \in RowsOf(rows[d].owner) /\ rows[c].kind = "reset"
      <4>1. rows'[c].stage = "gone" /\ Exists(c)
        BY <3>1, <3>2, NoRowType DEF RowsOf, Stages
      <4> QED
        BY <4>1 DEF RowMove
    <3>3. CASE ~(c \in RowsOf(rows[d].owner) /\ rows[c].kind = "reset")
      BY <1>1, <3>1, <3>3
    <3> QED
      BY <3>2, <3>3
  <2> QED
    BY <2>1, <2>2
<1>8. ASSUME NEW d \in Challenges, DeleteDone(d) \/ ContactDone(d) PROVE RowMove(c)
  <2>1. rows' = Without(RowsOf(rows[d].owner))
    BY <1>8 DEF DeleteDone, ContactDone
  <2>2. \A e \in RowsOf(rows[d].owner) : Exists(e)
    BY Zenon DEF RowsOf
  <2> QED
    BY <2>1, <2>2, WithoutMoves
<1> QED
  BY <1>2, <1>3, <1>4, <1>5, <1>6, <1>7, <1>8 DEF StepShape

\* A row that has been inserted does not become absent again.
Kept == \A c \in Challenges : rows[c].stage # "absent" => rows'[c].stage # "absent"

LEMMA RowsKept == ASSUME StepShape PROVE Kept
  BY RowMoves DEF Kept, RowMove, Same, MailProved, SmsProved

\* Whatever changes the number of a user deletes the user's rows.
LEMMA NumberOfRow ==
    ASSUME RowsOK, UsersOK, StepShape, NEW c \in Challenges, Exists(c), Exists(c)'
    PROVE  phone'[rows[c].owner] = phone[rows[c].owner]
<1>1. ASSUME UNCHANGED users PROVE phone'[rows[c].owner] = phone[rows[c].owner]
  BY <1>1 DEF users
<1>2. ASSUME NEW d \in Challenges, DeleteDone(d) \/ ContactDone(d)
      PROVE  phone'[rows[c].owner] = phone[rows[c].owner]
  <2>1. rows' = Without(RowsOf(rows[d].owner))
    BY <1>2 DEF DeleteDone, ContactDone
  <2>2. c \notin RowsOf(rows[d].owner)
    <3>1. NoRow("gone").stage = "gone"
      BY NoRowType DEF Stages
    <3> QED
      BY <2>1, <3>1 DEF Without, Exists
  <2>3. rows[c].owner # rows[d].owner /\ rows[c].owner \in Users
    BY <2>2, ExistingRow DEF RowsOf
  <2>4. PICK p : phone' = [phone EXCEPT ![rows[d].owner] = p]
    BY <1>2, Zenon DEF DeleteDone, ContactDone
  <2> QED
    BY <2>3, <2>4 DEF UsersOK
<1> QED
  BY <1>1, <1>2 DEF StepShape, Quiet, Removed, Created, MailProved, SmsProved, ResetDone

LEMMA UsersStep ==
    ASSUME RowsOK, UsersOK, UsesOK, StepShape
    PROVE  UsersOK' /\ UsesOK'
<1>1. CASE UNCHANGED <<users, uses>>
  BY <1>1 DEF users, UsersOK, UsesOK
<1>2. ASSUME NEW c \in Challenges, ResetDone(c) \/ DeleteDone(c) \/ ContactDone(c)
      PROVE  UsesOK'
  BY <1>2 DEF ResetDone, DeleteDone, ContactDone, UsesOK
<1>3. ASSUME NEW c \in Challenges, ResetDone(c) \/ DeleteDone(c) \/ ContactDone(c)
      PROVE  UsersOK'
  <2>1. rows[c].nextPhone \in Phones \cup {None}
    BY RowTypes DEF RowsOK
  <2> QED
    BY <1>3, <2>1 DEF ResetDone, DeleteDone, ContactDone, UsersOK, users
<1> QED
  BY <1>1, <1>2, <1>3 DEF StepShape, Quiet, Removed, Created, MailProved, SmsProved

LEMMA ReturnType ==
    ASSUME RequestsOK, Kept, NEW r \in Requests, Return(r)
    PROVE  RequestsOK'
  BY DEF RequestsOK, HandInv, Kept, Return, Goto, Points

LEMMA RequestsStep ==
    ASSUME RowsOK, RequestsOK, UsersOK, Kept, [Next]_vars
    PROVE  RequestsOK'
<1>1. ASSUME NEW r \in Requests, NEW u \in Users, NEW k \in Kinds, NEW p \in Phones \cup {None},
             NEW next \in {"checkPhone", "delete"}, Begin(r, u, k, p, next)
      PROVE  RequestsOK'
  BY <1>1 DEF Begin, RequestsOK, HandInv, Goto, Points
<1>2. ASSUME NEW r \in Requests, NEW u \in Users,
             \/ StartPasswordReset(r, u) \/ StartAccountDelete(r, u)
             \/ \E p \in Phones : StartContactChange(r, u, p)
      PROVE  RequestsOK'
  BY <1>1, <1>2 DEF StartPasswordReset, StartAccountDelete, StartContactChange, Kinds
<1>3. ASSUME NEW r \in Requests, CheckPhoneFree(r) PROVE RequestsOK'
  <2>1. CASE Return(r)
    BY <2>1, ReturnType
  <2>2. CASE Goto(r, "delete") /\ UNCHANGED <<who, kind, chal, number>>
    BY <1>3, <2>2 DEF CheckPhoneFree, RequestsOK, HandInv, Kept, Goto, Points
  <2> QED
    BY <1>3, <2>1, <2>2 DEF CheckPhoneFree
<1>4. ASSUME NEW r \in Requests, DeleteChallenges(r) PROVE RequestsOK'
  <2>1. pc[r] = "delete" /\ Goto(r, "create") /\ UNCHANGED <<who, kind, chal, number>>
    BY <1>4 DEF DeleteChallenges
  <2> QED
    BY <2>1 DEF RequestsOK, HandInv, Kept, Goto, Points
<1>5. ASSUME NEW r \in Requests, NEW c \in Challenges, VerifyEmailCode(r, c) PROVE RequestsOK'
  <2>1. rows[c].stage = "mail" /\ UNCHANGED <<users, rows, who, kind, uses>>
        /\ chal' = [chal EXCEPT ![r] = c]
    BY <1>5 DEF VerifyEmailCode
  <2>2. number' \in [Requests -> Phones \cup {None}]
    <3>1. rows[c].owner \in Users
      BY <2>1, ExistingRow DEF Exists
    <3>2. phone[rows[c].owner] \in Phones \cup {None}
      BY <3>1 DEF UsersOK
    <3> QED
      BY <1>5, <3>2 DEF VerifyEmailCode, RequestsOK
  <2>3. Goto(r, "wrongMail") \/ Goto(r, "rightMail")
    BY <1>5 DEF VerifyEmailCode
  <2> QED
    BY <2>1, <2>2, <2>3 DEF RequestsOK, HandInv, Goto, Points
<1>6. ASSUME NEW r \in Requests, NEW c \in Challenges, VerifySmsCode(r, c) \/ FindToken(r, c)
      PROVE  RequestsOK'
  BY <1>6 DEF VerifySmsCode, FindToken, RequestsOK, HandInv, Goto, Points
<1>7. ASSUME NEW r \in Requests, NEW c \in Challenges,
             \/ VerifyPasswordResetEmailCode(r, c) \/ VerifyAccountDeleteEmailCode(r, c)
             \/ VerifyContactChangeEmailCode(r, c)
             \/ VerifyPasswordResetSmsCode(r, c) \/ VerifyAccountDeleteSmsCode(r, c)
             \/ VerifyContactChangeSmsCode(r, c)
             \/ FindPasswordResetToken(r, c) \/ FindAccountDeleteToken(r, c)
             \/ FindContactChangeToken(r, c)
      PROVE  RequestsOK'
  BY <1>5, <1>6, <1>7 DEF VerifyPasswordResetEmailCode, VerifyAccountDeleteEmailCode,
        VerifyContactChangeEmailCode, VerifyPasswordResetSmsCode, VerifyAccountDeleteSmsCode,
        VerifyContactChangeSmsCode, FindPasswordResetToken, FindAccountDeleteToken,
        FindContactChangeToken
<1>8. ASSUME NEW r \in Requests,
             \/ CreateChallenge(r) \/ IncrementEmailAttempts(r) \/ MarkEmailVerified(r)
             \/ IncrementSmsAttempts(r) \/ MarkSmsVerified(r) \/ CompletePasswordReset(r)
             \/ CompleteAccountDelete(r) \/ CompleteContactChange(r) \/ Fail(r)
      PROVE  Return(r)
  BY <1>8, Zenon DEF CreateChallenge, IncrementEmailAttempts, MarkEmailVerified,
     IncrementSmsAttempts, MarkSmsVerified, CompletePasswordReset, CompleteAccountDelete,
     CompleteContactChange, Consume, Fail
<1>9. ASSUME UNCHANGED requests PROVE RequestsOK'
  BY <1>9 DEF requests, RequestsOK, HandInv, Kept
<1>10. ASSUME NEW c \in Challenges, Expire(c) \/ CleanUp(c) PROVE UNCHANGED requests
  BY <1>10 DEF Expire, CleanUp
<1>11. ASSUME NEW r \in Requests, RequestStep(r) PROVE RequestsOK'
  BY <1>2, <1>3, <1>4, <1>7, <1>8, <1>11, ReturnType DEF RequestStep
<1> QED
  BY <1>9, <1>10, <1>11 DEF Next, vars
-------------------------------------------------------------------------------
(***************************************************************************)
(* Invariants                                                              *)
(***************************************************************************)
\* A request holds a number to send a code to since before this step, or has
\* read it in this step together with the row.
HandKept(r) ==
    pc[r] = "rightMail" /\ chal'[r] = chal[r] /\ number'[r] = number[r]

HandRead(r) ==
    /\ UNCHANGED <<rows, users>>
    /\ number'[r] # None /\ number'[r] = phone[rows[chal'[r]].owner]

LEMMA HandsMove ==
    ASSUME RequestsOK, [Next]_vars, NEW r \in Requests, pc'[r] = "rightMail"
    PROVE  HandKept(r) \/ HandRead(r)
<1> USE DEF RequestsOK
<1>1. ASSUME NEW s \in Requests, Return(s) PROVE HandKept(r)
  BY <1>1 DEF Return, Goto, HandKept
<1>2. ASSUME NEW s \in Requests,
             \/ CreateChallenge(s) \/ IncrementEmailAttempts(s) \/ MarkEmailVerified(s)
             \/ IncrementSmsAttempts(s) \/ MarkSmsVerified(s) \/ CompletePasswordReset(s)
             \/ CompleteAccountDelete(s) \/ CompleteContactChange(s) \/ Fail(s)
      PROVE  Return(s)
  BY <1>2, Zenon DEF CreateChallenge, IncrementEmailAttempts, MarkEmailVerified,
     IncrementSmsAttempts, MarkSmsVerified, CompletePasswordReset, CompleteAccountDelete,
     CompleteContactChange, Consume, Fail
<1>3. ASSUME NEW s \in Requests, NEW u, NEW k, NEW p, NEW next \in {"checkPhone", "delete"},
             Begin(s, u, k, p, next)
      PROVE  HandKept(r)
  BY <1>3 DEF Begin, Goto, HandKept
<1>4. ASSUME NEW s \in Requests, NEW u \in Users,
             \/ StartPasswordReset(s, u) \/ StartAccountDelete(s, u)
             \/ \E p \in Phones : StartContactChange(s, u, p)
      PROVE  HandKept(r)
  BY <1>3, <1>4 DEF StartPasswordReset, StartAccountDelete, StartContactChange
<1>5. ASSUME NEW s \in Requests, CheckPhoneFree(s) \/ DeleteChallenges(s) PROVE HandKept(r)
  BY <1>1, <1>5 DEF CheckPhoneFree, DeleteChallenges, Goto, HandKept
<1>6. ASSUME NEW s \in Requests, NEW c \in Challenges, VerifyEmailCode(s, c)
      PROVE  HandKept(r) \/ HandRead(r)
  <2>1. CASE s # r
    <3>1. pc'[r] = pc[r] /\ chal'[r] = chal[r] /\ number'[r] = number[r]
      BY <1>6, <2>1 DEF VerifyEmailCode, Goto
    <3> QED
      BY <3>1 DEF HandKept
  <2>2. CASE s = r
    <3>1. chal'[r] = c /\ UNCHANGED <<rows, users>>
      BY <1>6, <2>2 DEF VerifyEmailCode
    <3>2. ~Goto(r, "wrongMail")
      BY DEF Goto
    <3>3. phone[rows[c].owner] # None /\ number' = [number EXCEPT ![r] = phone[rows[c].owner]]
      BY <1>6, <2>2, <3>2, Zenon DEF VerifyEmailCode
    <3>4. number'[r] = phone[rows[c].owner]
      BY <3>3, Zenon
    <3> QED
      BY <3>1, <3>3, <3>4 DEF HandRead
  <2> QED
    BY <2>1, <2>2
<1>7. ASSUME NEW s \in Requests, NEW c \in Challenges, VerifySmsCode(s, c) \/ FindToken(s, c)
      PROVE  HandKept(r)
  BY <1>7 DEF VerifySmsCode, FindToken, Goto, HandKept
<1>8. ASSUME NEW s \in Requests, NEW c \in Challenges,
             \/ VerifyPasswordResetEmailCode(s, c) \/ VerifyAccountDeleteEmailCode(s, c)
             \/ VerifyContactChangeEmailCode(s, c)
             \/ VerifyPasswordResetSmsCode(s, c) \/ VerifyAccountDeleteSmsCode(s, c)
             \/ VerifyContactChangeSmsCode(s, c)
             \/ FindPasswordResetToken(s, c) \/ FindAccountDeleteToken(s, c)
             \/ FindContactChangeToken(s, c)
      PROVE  HandKept(r) \/ HandRead(r)
  BY <1>6, <1>7, <1>8 DEF VerifyPasswordResetEmailCode, VerifyAccountDeleteEmailCode,
        VerifyContactChangeEmailCode, VerifyPasswordResetSmsCode, VerifyAccountDeleteSmsCode,
        VerifyContactChangeSmsCode, FindPasswordResetToken, FindAccountDeleteToken,
        FindContactChangeToken
<1>9. ASSUME UNCHANGED requests PROVE HandKept(r)
  BY <1>9 DEF requests, HandKept
<1>10. ASSUME NEW c \in Challenges, Expire(c) \/ CleanUp(c) PROVE UNCHANGED requests
  BY <1>10 DEF Expire, CleanUp
<1>11. ASSUME NEW s \in Requests, RequestStep(s) PROVE HandKept(r) \/ HandRead(r)
  BY <1>1, <1>2, <1>4, <1>5, <1>8, <1>11 DEF RequestStep
<1> QED
  BY <1>9, <1>10, <1>11 DEF Next, vars

LEMMA NumberStep ==
    ASSUME RowsOK, RequestsOK, UsersOK, NumberInv, StepShape, [Next]_vars
    PROVE  NumberInv'
<1> SUFFICES ASSUME NEW r \in Requests, pc'[r] = "rightMail", rows'[chal'[r]].stage = "mail"
             PROVE  number'[r] # None /\ number'[r] = phone'[rows'[chal'[r]].owner]
  BY DEF NumberInv
<1>1. CASE HandRead(r)
  BY <1>1 DEF HandRead, users
<1>2. CASE HandKept(r)
  <2> PICK c \in Challenges : c = chal[r] /\ rows[c].stage # "absent"
    BY <1>2 DEF HandKept, RequestsOK, HandInv
  <2>1. pc[r] = "rightMail" /\ chal'[r] = c /\ number'[r] = number[r] /\ rows'[c].stage = "mail"
    BY <1>2 DEF HandKept
  <2>2. rows[c].stage = "mail" /\ rows'[c].owner = rows[c].owner
    BY <2>1, RowMoves DEF RowMove, Same, SameSubject, MailProved, SmsProved
  <2>3. phone'[rows[c].owner] = phone[rows[c].owner]
    BY <2>1, <2>2, NumberOfRow DEF Exists
  <2>4. number[r] # None /\ number[r] = phone[rows[c].owner]
    BY <2>1, <2>2, Zenon DEF NumberInv
  <2> QED
    BY <2>1, <2>2, <2>3, <2>4
<1> QED
  BY <1>1, <1>2, HandsMove

LEMMA ProvedStep ==
    ASSUME RowsOK, UsersOK, NumberInv, PhoneProved, StepShape
    PROVE  PhoneProved'
<1> SUFFICES ASSUME NEW c \in Challenges, rows'[c].stage \in {"sms", "token"}
             PROVE  rows'[c].sentTo # None /\ rows'[c].sentTo = phone'[rows'[c].owner]
  BY DEF PhoneProved
<1>1. CASE Same(rows'[c], rows[c])
  <2>1. /\ rows[c].stage \in {"sms", "token"} /\ rows'[c].sentTo = rows[c].sentTo
        /\ rows'[c].owner = rows[c].owner
    BY <1>1 DEF Same, SameSubject
  <2>2. phone'[rows[c].owner] = phone[rows[c].owner]
    BY <2>1, NumberOfRow DEF Exists
  <2> QED
    BY <2>1, <2>2 DEF PhoneProved
<1>2. ASSUME NEW r \in Requests, MailProved(c, r)
      PROVE  rows'[c].sentTo # None /\ rows'[c].sentTo = phone'[rows'[c].owner]
  <2>1. /\ pc[r] = "rightMail" /\ chal[r] = c /\ rows[c].stage = "mail"
        /\ rows'[c].sentTo = number[r] /\ rows'[c].owner = rows[c].owner /\ phone' = phone
    BY <1>2 DEF MailProved, SameSubject, users
  <2>2. number[r] # None /\ number[r] = phone[rows[c].owner]
    BY <2>1, Zenon DEF NumberInv
  <2> QED
    BY <2>1, <2>2
<1>3. CASE SmsProved(c)
  BY <1>3 DEF SmsProved, SameSubject, users, PhoneProved
<1>4. rows'[c].stage \notin {"mail", "used", "gone"}
  OBVIOUS
<1> QED
  BY <1>1, <1>2, <1>3, <1>4, RowMoves DEF RowMove

\* A change of number that is completed finds the number it sent its code to.
LEMMA BareStep ==
    ASSUME RowsOK, UsersOK, PhoneProved, DeletedStaysBare, StepShape
    PROVE  DeletedStaysBare'
<1>1. CASE UNCHANGED users
  BY <1>1 DEF users, DeletedStaysBare
<1>2. ASSUME NEW c \in Challenges, DeleteDone(c) PROVE DeletedStaysBare'
  <2>1. rows[c].owner \in Users
    BY <1>2, ExistingRow DEF DeleteDone, Exists
  <2>2. \A u \in Users \ {rows[c].owner} : deleted'[u] = deleted[u] /\ phone'[u] = phone[u]
    BY <1>2 DEF DeleteDone, UsersOK
  <2>3. phone'[rows[c].owner] = None
    BY <1>2, <2>1 DEF DeleteDone, UsersOK
  <2> QED
    BY <2>2, <2>3 DEF DeletedStaysBare
<1>3. ASSUME NEW c \in Challenges, ContactDone(c) PROVE DeletedStaysBare'
  <2>1. rows[c].owner \in Users /\ phone[rows[c].owner] # None
    BY <1>3, ExistingRow DEF ContactDone, Exists, PhoneProved
  <2>2. \A u \in Users \ {rows[c].owner} : phone'[u] = phone[u]
    BY <1>3 DEF ContactDone, UsersOK
  <2>3. deleted' = deleted
    BY <1>3 DEF ContactDone
  <2> QED
    BY <2>1, <2>2, <2>3 DEF DeletedStaysBare
<1> QED
  BY <1>1, <1>2, <1>3
  DEF StepShape, Quiet, Removed, Created, MailProved, SmsProved, ResetDone

LEMMA UniqueStep ==
    ASSUME RowsOK, UsersOK, PhonesUnique, StepShape
    PROVE  PhonesUnique'
<1>1. CASE UNCHANGED users
  BY <1>1 DEF users, PhonesUnique
<1>2. ASSUME NEW c \in Challenges, DeleteDone(c) PROVE PhonesUnique'
  <2>1. rows[c].owner \in Users
    BY <1>2, ExistingRow DEF DeleteDone, Exists
  <2>2. \A u \in Users : phone'[u] = IF u = rows[c].owner THEN None ELSE phone[u]
    BY <1>2, <2>1 DEF DeleteDone, UsersOK
  <2> QED
    BY <2>2 DEF PhonesUnique
<1>3. ASSUME NEW c \in Challenges, ContactDone(c) PROVE PhonesUnique'
  <2>1. rows[c].owner \in Users
    BY <1>3, ExistingRow DEF ContactDone, Exists
  <2>2. \A u \in Users : phone'[u] = IF u = rows[c].owner THEN rows[c].nextPhone ELSE phone[u]
    BY <1>3, <2>1 DEF ContactDone, UsersOK
  <2>3. \A u \in Users \ {rows[c].owner} : phone[u] # rows[c].nextPhone
    BY <1>3 DEF ContactDone, Taken
  <2> QED
    BY <2>1, <2>2, <2>3 DEF PhonesUnique
<1> QED
  BY <1>1, <1>2, <1>3
  DEF StepShape, Quiet, Removed, Created, MailProved, SmsProved, ResetDone

LEMMA UsesStep ==
    ASSUME RowsOK, UsesOK, UsesInv, StepShape
    PROVE  UsesInv'
<1> SUFFICES ASSUME NEW c \in Challenges
             PROVE  /\ rows'[c].stage \in {"absent", "mail", "sms", "token"} => uses'[c] = 0
                    /\ rows'[c].stage = "used" => uses'[c] = 1
                    /\ rows'[c].stage = "gone" => uses'[c] \in {0, 1}
  BY DEF UsesInv
<1>1. /\ rows[c].stage \in {"absent", "mail", "sms", "token"} => uses[c] = 0
      /\ rows[c].stage = "used" => uses[c] = 1
      /\ uses[c] \in {0, 1} /\ rows[c].stage \in Stages
  BY RowTypes DEF UsesInv, RowsOK, Stages
<1>3. ASSUME NEW d \in Challenges, ResetDone(d) \/ DeleteDone(d) \/ ContactDone(d), c = d
      PROVE  uses'[c] = 1 /\ rows'[c].stage \in {"used", "gone"}
  <2>1. rows[c].stage = "token" /\ uses' = [uses EXCEPT ![c] = @ + 1]
    BY <1>3 DEF ResetDone, DeleteDone, ContactDone
  <2>2. uses'[c] = 1
    BY <1>1, <2>1 DEF UsesOK
  <2>3. CASE ResetDone(c)
    BY <2>2, <2>3 DEF ResetDone
  <2>4. CASE rows' = Without(RowsOf(rows[c].owner))
    <3>1. c \in RowsOf(rows[c].owner)
      BY <2>1 DEF RowsOf, Exists
    <3> QED
      BY <2>2, <2>4, <3>1, NoRowType DEF Without, Stages
  <2> QED
    BY <1>3, <2>3, <2>4 DEF DeleteDone, ContactDone
<1>4. ASSUME NEW d \in Challenges, ResetDone(d) \/ DeleteDone(d) \/ ContactDone(d), c # d
      PROVE  uses'[c] = uses[c] /\ rows'[c].stage \in {rows[c].stage, "gone"}
  <2>1. uses'[c] = uses[c]
    BY <1>4 DEF ResetDone, DeleteDone, ContactDone, UsesOK
  <2>2. NoRow("gone").stage = "gone"
    BY NoRowType DEF Stages
  <2>3. rows'[c] \in {rows[c], NoRow("gone")}
    BY <1>4 DEF ResetDone, DeleteDone, ContactDone, Without
  <2> QED
    BY <2>1, <2>2, <2>3
<1>5. ASSUME UNCHANGED uses, \A d \in Challenges : rows'[d].stage # "used" \/ rows[d].stage = "used"
      PROVE  /\ rows'[c].stage \in {"absent", "mail", "sms", "token"} => uses'[c] = 0
             /\ rows'[c].stage = "used" => uses'[c] = 1
             /\ rows'[c].stage = "gone" => uses'[c] \in {0, 1}
  BY <1>1, <1>5, RowMoves DEF RowMove, Same, MailProved, SmsProved, Stages
<1>6. CASE Quiet
  BY <1>5, <1>6 DEF Quiet, Same
<1>7. ASSUME NEW S \in SUBSET Challenges, Removed(S)
      PROVE  UNCHANGED uses /\ \A d \in Challenges : rows'[d].stage # "used" \/ rows[d].stage = "used"
  BY <1>7, NoRowType DEF Removed, Without, Stages
<1>8. ASSUME NEW d \in Challenges, UNCHANGED uses, OthersSame(d), rows'[d].stage # "used"
      PROVE  \A e \in Challenges : rows'[e].stage # "used" \/ rows[e].stage = "used"
  BY <1>8 DEF OthersSame
<1>9. CASE \/ \E d \in Challenges, u \in Users, k \in Kinds : Created(d, u, k)
           \/ \E d \in Challenges, r \in Requests : MailProved(d, r)
           \/ \E d \in Challenges : SmsProved(d)
  BY <1>5, <1>8, <1>9 DEF Created, MailProved, SmsProved
<1>10. CASE \E d \in Challenges : ResetDone(d) \/ DeleteDone(d) \/ ContactDone(d)
  BY <1>1, <1>3, <1>4, <1>10, RowMoves DEF RowMove, Same, MailProved, SmsProved, Stages
<1> QED
  BY <1>5, <1>6, <1>7, <1>9, <1>10 DEF StepShape

LEMMA InitOK == Init => RowsOK /\ RequestsOK /\ UsersOK /\ UsesOK
<1> SUFFICES ASSUME Init PROVE RowsOK /\ RequestsOK /\ UsersOK /\ UsesOK
  OBVIOUS
<1>1. NoRow("absent") \in Row /\ NoRow("absent").stage = "absent"
  BY NoRowType DEF Stages
<1>2. RowsOK
  BY <1>1 DEF Init, RowsOK, Exists
<1>3. RequestsOK /\ UsersOK /\ UsesOK
  BY AccountAssumption DEF Init, RequestsOK, HandInv, UsersOK, UsesOK, Points
<1> QED
  BY <1>2, <1>3

LEMMA InitInv == Init => IInv
<1> SUFFICES ASSUME Init PROVE IInv
  OBVIOUS
<1>1. \A c \in Challenges : rows[c].stage = "absent" /\ uses[c] = 0
  BY NoRowType DEF Init, Stages
<1>2. PhoneProved /\ UsesInv
  BY <1>1 DEF PhoneProved, UsesInv
<1>3. NumberInv /\ DeletedStaysBare
  BY DEF Init, NumberInv, DeletedStaysBare
<1>4. PhonesUnique
  BY AccountAssumption DEF Init, PhonesUnique
<1> QED
  BY <1>2, <1>3, <1>4, InitOK, TypeSplit DEF IInv

\* What IInv says, in the parts the step lemmas are stated with.
LEMMA InvParts ==
    IInv <=> /\ RowsOK /\ RequestsOK /\ UsersOK /\ UsesOK
             /\ NumberInv /\ PhoneProved /\ DeletedStaysBare /\ PhonesUnique /\ UsesInv
  BY TypeSplit DEF IInv

LEMMA InvStep == IInv /\ [Next]_vars => IInv'
<1> SUFFICES ASSUME IInv, [Next]_vars PROVE IInv'
  OBVIOUS
<1>1. RowsOK' /\ StepShape
  BY StepShapes, InvParts
<1>2. UsersOK' /\ UsesOK'
  BY <1>1, UsersStep, InvParts
<1>3. RequestsOK'
  BY <1>1, RowsKept, RequestsStep, InvParts
<1>4. NumberInv' /\ PhoneProved'
  BY <1>1, NumberStep, ProvedStep, InvParts
<1>5. DeletedStaysBare' /\ PhonesUnique'
  BY <1>1, BareStep, UniqueStep, InvParts
<1>6. UsesInv'
  BY <1>1, UsesStep, InvParts
<1>7. TypeOK' /\ HandInv'
  BY <1>1, <1>2, <1>3 DEF TypeOK, RowsOK, RequestsOK, UsersOK, UsesOK
<1> QED
  BY <1>4, <1>5, <1>6, <1>7 DEF IInv

LEMMA InductiveInvariant == Spec => []IInv
  BY InitInv, InvStep, PTL DEF Spec

\* The types of the variables, for any number of users, challenges, requests.
THEOREM TypeCorrect == Spec => []TypeOK
<1>1. IInv => TypeOK
  BY DEF IInv
<1> QED
  BY <1>1, InductiveInvariant, PTL

\* Nobody finishes a reset, a deletion or a change of number with a code that
\* went to a number the account does not have any more.
THEOREM CodesGoToTheNumber == Spec => []PhoneProved
<1>1. IInv => PhoneProved
  BY DEF IInv
<1> QED
  BY <1>1, InductiveInvariant, PTL

\* A change of number that was under way does not give a deleted account a
\* number, although its transaction does not ask whether the user is active.
THEOREM DeletedStayBare == Spec => []DeletedStaysBare
<1>1. IInv => DeletedStaysBare
  BY DEF IInv
<1> QED
  BY <1>1, InductiveInvariant, PTL

\* However many users change to the same number at once, one of them gets it.
THEOREM NumbersStayUnique == Spec => []PhonesUnique
<1>1. IInv => PhonesUnique
  BY DEF IInv
<1> QED
  BY <1>1, InductiveInvariant, PTL
-------------------------------------------------------------------------------
(***************************************************************************)
(* Refinement: every step of AccountChallenges is a step of ApprovalGrant  *)
(* or leaves its variables alone.                                          *)
(***************************************************************************)
Subject(c) == IF IsPending(c) THEN <<rows[c].owner, rows[c].kind>> ELSE None

\* The abstract state of each stage.
LEMMA StateOfStage ==
    ASSUME NEW c
    PROVE  /\ rows[c].stage = "absent" => ApprovalState(c) = "absent"
           /\ rows[c].stage = "mail" => ApprovalState(c) = "asked"
           /\ rows[c].stage = "sms" => ApprovalState(c) = "mailProved"
           /\ rows[c].stage = "token" => ApprovalState(c) = "bothProved"
           /\ rows[c].stage = "used" => ApprovalState(c) = "spent"
           /\ rows[c].stage = "gone" /\ uses[c] = 0 => ApprovalState(c) = "withdrawn"
           /\ rows[c].stage = "gone" /\ uses[c] # 0 => ApprovalState(c) = "spent"
  BY Zenon DEF ApprovalState

\* The same after a step.
LEMMA StateOfStageNext ==
    ASSUME NEW c
    PROVE  /\ rows'[c].stage = "absent" => ApprovalState(c)' = "absent"
           /\ rows'[c].stage = "mail" => ApprovalState(c)' = "asked"
           /\ rows'[c].stage = "sms" => ApprovalState(c)' = "mailProved"
           /\ rows'[c].stage = "token" => ApprovalState(c)' = "bothProved"
           /\ rows'[c].stage = "used" => ApprovalState(c)' = "spent"
           /\ rows'[c].stage = "gone" /\ uses'[c] = 0 => ApprovalState(c)' = "withdrawn"
           /\ rows'[c].stage = "gone" /\ uses'[c] # 0 => ApprovalState(c)' = "spent"
  BY Zenon DEF ApprovalState

LEMMA SubjectNext ==
    ASSUME NEW c
    PROVE  /\ rows'[c].stage \in {"mail", "sms", "token"}
                 => Subject(c)' = <<rows'[c].owner, rows'[c].kind>>
           /\ rows'[c].stage \notin {"mail", "sms", "token"} => Subject(c)' = None
  BY DEF Subject, IsPending

\* A challenge of which stage, owner, kind and uses stay the same is the same.
LEMMA SameState ==
    ASSUME NEW c \in Challenges, rows'[c].stage = rows[c].stage, rows[c].stage \in Stages,
           rows'[c].owner = rows[c].owner, rows'[c].kind = rows[c].kind, uses'[c] = uses[c]
    PROVE  ApprovalState(c)' = ApprovalState(c) /\ Subject(c)' = Subject(c)
<1>1. ApprovalState(c)' = ApprovalState(c)
  BY StateOfStage, StateOfStageNext DEF Stages
<1>2. Subject(c)' = Subject(c)
  BY DEF Subject, IsPending
<1> QED
  BY <1>1, <1>2

LEMMA StageOK == ASSUME IInv, NEW c \in Challenges PROVE rows[c].stage \in Stages
  BY RowTypes, InvParts DEF RowsOK

LEMMA StagePending ==
    ASSUME IInv, NEW c \in Challenges
    PROVE  IsPending(c) <=> ApprovalState(c) \in {"asked", "mailProved", "bothProved"}
  BY StageOK, StateOfStage DEF IsPending, Stages

\* The refinement mapping, written with Subject.
AState == [c \in Challenges |-> ApprovalState(c)]
ASubject == [c \in Challenges |-> Subject(c)]

LEMMA InitRefines == Init => Approval!Init
<1> SUFFICES ASSUME Init PROVE Approval!Init
  OBVIOUS
<1>1. \A c \in Challenges : rows[c].stage = "absent"
  BY NoRowType DEF Init, Stages
<1>2. \A c \in Challenges : ApprovalState(c) = "absent" /\ Subject(c) = None
  BY <1>1, StateOfStage DEF Subject, IsPending
<1> QED
  BY <1>1, <1>2 DEF Init, Approval!Init, Subject

LEMMA QuietStutters ==
    ASSUME IInv, Quiet
    PROVE  UNCHANGED Approval!vars
<1>1. \A c \in Challenges : ApprovalState(c)' = ApprovalState(c) /\ Subject(c)' = Subject(c)
  BY SameState, StageOK DEF Quiet, Same, SameSubject
<1>2. AState' = AState /\ ASubject' = ASubject /\ uses' = uses
  BY <1>1 DEF AState, ASubject, Quiet
<1> QED
  BY <1>2 DEF Approval!vars, AState, ASubject, Subject

LEMMA RemovedWithdraws ==
    ASSUME IInv, NEW S \in SUBSET Challenges, Removed(S)
    PROVE  Approval!Withdraw({d \in S : IsPending(d)})
<1> DEFINE T == {d \in S : IsPending(d)}
<1>1. ASSUME NEW d \in Challenges
      PROVE  /\ ApprovalState(d)' = IF d \in T THEN "withdrawn" ELSE ApprovalState(d)
             /\ Subject(d)' = IF d \in T THEN None ELSE Subject(d)
  <2>1. rows'[d] = (IF d \in S THEN NoRow("gone") ELSE rows[d]) /\ uses' = uses
    BY <1>1 DEF Removed, Without
  <2>2. NoRow("gone").stage = "gone"
    BY NoRowType DEF Stages
  <2>3. CASE d \notin S
    BY <2>1, <2>3, SameState, StageOK
  <2>4. CASE d \in T
    <3>1. rows'[d].stage = "gone" /\ uses'[d] = 0
      BY <2>1, <2>2, <2>4, InvParts DEF UsesInv, IsPending
    <3> QED
      BY <2>4, <3>1, StateOfStageNext, SubjectNext
  <2>5. CASE d \in S \ T
    <3>1. rows[d].stage = "used"
      BY <1>1, <2>5, StageOK DEF Removed, Exists, IsPending, Stages
    <3>2. rows'[d].stage = "gone" /\ uses'[d] = 1
      BY <2>1, <2>2, <2>5, <3>1, InvParts DEF UsesInv
    <3> QED
      BY <2>5, <3>1, <3>2, StateOfStage, StateOfStageNext, SubjectNext DEF Subject, IsPending
  <2> QED
    BY <2>3, <2>4, <2>5
<1> HIDE DEF T
<1>2. /\ AState' = [d \in Challenges |-> IF d \in T THEN "withdrawn" ELSE AState[d]]
      /\ ASubject' = [d \in Challenges |-> IF d \in T THEN None ELSE ASubject[d]]
  BY <1>1 DEF AState, ASubject
<1>3. UNCHANGED uses
  BY DEF Removed
<1> QED
  BY <1>2, <1>3 DEF Approval!Withdraw, Approval!Leave, AState, ASubject, Subject, T

LEMMA CreatedAsks ==
    ASSUME IInv, NEW c \in Challenges, NEW u \in Users, NEW k \in Kinds, Created(c, u, k)
    PROVE  Approval!Ask(c)
<1>1. ApprovalState(c) = "absent" /\ ApprovalState(c)' = "asked" /\ Subject(c)' = <<u, k>>
  BY StateOfStage, StateOfStageNext, SubjectNext DEF Created
<1>2. \A d \in Challenges \ {c} : ApprovalState(d)' = ApprovalState(d) /\ Subject(d)' = Subject(d)
  BY SameState, StageOK DEF Created, OthersSame
<1>3. /\ AState[c] = "absent"
      /\ AState' = [AState EXCEPT ![c] = "asked"]
      /\ ASubject' = [ASubject EXCEPT ![c] = <<u, k>>]
  BY <1>1, <1>2 DEF AState, ASubject
<1>4. <<u, k>> \in Users \X Approval!Kinds
  BY DEF Approval!Kinds, Kinds
<1>5. UNCHANGED uses
  BY DEF Created
<1> QED
  BY <1>3, <1>4, <1>5 DEF Approval!Ask, AState, ASubject, Subject

LEMMA MailProves ==
    ASSUME IInv, NEW c \in Challenges, NEW r \in Requests, MailProved(c, r)
    PROVE  Approval!Prove(c, "asked", "mailProved")
<1>1. /\ ApprovalState(c) = "asked" /\ ApprovalState(c)' = "mailProved"
      /\ Subject(c)' = Subject(c)
  BY StateOfStage, StateOfStageNext, SubjectNext DEF MailProved, SameSubject, Subject, IsPending
<1>2. \A d \in Challenges \ {c} : ApprovalState(d)' = ApprovalState(d) /\ Subject(d)' = Subject(d)
  BY SameState, StageOK DEF MailProved, OthersSame
<1>3. /\ AState[c] = "asked"
      /\ AState' = [AState EXCEPT ![c] = "mailProved"]
      /\ ASubject' = ASubject
  BY <1>1, <1>2 DEF AState, ASubject
<1>4. UNCHANGED uses
  BY DEF MailProved
<1> QED
  BY <1>3, <1>4 DEF Approval!Prove, AState, ASubject, Subject

LEMMA SmsProves ==
    ASSUME IInv, NEW c \in Challenges, SmsProved(c)
    PROVE  Approval!Prove(c, "mailProved", "bothProved")
<1>1. /\ ApprovalState(c) = "mailProved" /\ ApprovalState(c)' = "bothProved"
      /\ Subject(c)' = Subject(c)
  BY StateOfStage, StateOfStageNext, SubjectNext DEF SmsProved, SameSubject, Subject, IsPending
<1>2. \A d \in Challenges \ {c} : ApprovalState(d)' = ApprovalState(d) /\ Subject(d)' = Subject(d)
  BY SameState, StageOK DEF SmsProved, OthersSame
<1>3. /\ AState[c] = "mailProved"
      /\ AState' = [AState EXCEPT ![c] = "bothProved"]
      /\ ASubject' = ASubject
  BY <1>1, <1>2 DEF AState, ASubject
<1>4. UNCHANGED uses
  BY DEF SmsProved
<1> QED
  BY <1>3, <1>4 DEF Approval!Prove, AState, ASubject, Subject

\* What the work of c makes obsolete.
Obsolete(c) ==
    {d \in Challenges \ {c} :
        /\ IsPending(d)
        /\ rows[d].owner = rows[c].owner
        /\ rows[c].kind = "reset" => rows[d].kind = "reset"}

LEMMA SameObsolete ==
    ASSUME IInv, NEW c \in Challenges, IsPending(c)
    PROVE  Approval!Obsolete(c) = Obsolete(c)
<1>1. ASubject[c] = <<rows[c].owner, rows[c].kind>>
  BY DEF ASubject, Subject
<1>2. ASSUME NEW d \in Challenges
      PROVE  /\ AState[d] \in {"asked", "mailProved", "bothProved"} <=> IsPending(d)
             /\ IsPending(d) => ASubject[d] = <<rows[d].owner, rows[d].kind>>
  BY StagePending DEF AState, ASubject, Subject
<1>3. {d \in {e \in Challenges : AState[e] \in {"asked", "mailProved", "bothProved"}} \ {c} :
          /\ ASubject[d][1] = ASubject[c][1]
          /\ ASubject[c][2] = "reset" => ASubject[d][2] = "reset"} = Obsolete(c)
  BY <1>1, <1>2 DEF Obsolete
<1> QED
  BY <1>3 DEF Approval!Obsolete, Approval!Pending, AState, ASubject, Subject

Done(c) == ResetDone(c) \/ DeleteDone(c) \/ ContactDone(c)

\* The rows that the work of c leaves behind, its own aside.
LEMMA DoneOthers ==
    ASSUME IInv, NEW c \in Challenges, Done(c), NEW d \in Challenges \ {c}
    PROVE  /\ ApprovalState(d)' = IF d \in Obsolete(c) THEN "withdrawn" ELSE ApprovalState(d)
           /\ Subject(d)' = IF d \in Obsolete(c) THEN None ELSE Subject(d)
<1> DEFINE Hit == d \in RowsOf(rows[c].owner) /\ (rows[c].kind = "reset" => rows[d].kind = "reset")
<1>1. uses'[d] = uses[d]
  BY InvParts DEF Done, ResetDone, DeleteDone, ContactDone, UsesOK
<1>2. rows'[d] = IF Hit THEN NoRow("gone") ELSE rows[d]
  BY DEF Done, ResetDone, DeleteDone, ContactDone, Without
<1>3. NoRow("gone").stage = "gone"
  BY NoRowType DEF Stages
<1>4. rows[d].stage \in Stages
  BY StageOK
<1>5. d \in Obsolete(c) <=> Hit /\ IsPending(d)
  BY DEF Obsolete, RowsOf, Exists, IsPending
<1>6. CASE d \in Obsolete(c)
  <2>1. rows'[d].stage = "gone" /\ uses'[d] = 0
    BY <1>1, <1>2, <1>3, <1>5, <1>6, InvParts DEF UsesInv, IsPending
  <2> QED
    BY <1>6, <2>1, StateOfStageNext, SubjectNext
<1>7. CASE Hit /\ ~IsPending(d)
  <2>1. rows[d].stage = "used"
    BY <1>4, <1>7 DEF RowsOf, Exists, IsPending, Stages
  <2>2. rows'[d].stage = "gone" /\ uses'[d] = 1
    BY <1>1, <1>2, <1>3, <1>7, <2>1, InvParts DEF UsesInv
  <2>3. ApprovalState(d) = "spent" /\ ApprovalState(d)' = "spent"
    BY <2>1, <2>2, StateOfStage, StateOfStageNext
  <2>4. Subject(d) = None /\ Subject(d)' = None
    BY <1>7, <2>2, SubjectNext DEF Subject
  <2> QED
    BY <1>5, <1>7, <2>3, <2>4
<1>8. CASE ~Hit
  <2>1. rows'[d] = rows[d]
    BY <1>2, <1>8
  <2> QED
    BY <1>1, <1>4, <1>5, <1>8, <2>1, SameState
<1> QED
  BY <1>5, <1>6, <1>7, <1>8

LEMMA DoneCarriesOut ==
    ASSUME IInv, NEW c \in Challenges, Done(c)
    PROVE  Approval!CarryOut(c)
<1>1. IsPending(c) /\ rows[c].stage = "token"
  BY DEF Done, ResetDone, DeleteDone, ContactDone, IsPending
<1>2. uses' = [uses EXCEPT ![c] = @ + 1]
  BY DEF Done, ResetDone, DeleteDone, ContactDone
<1>3. ApprovalState(c) = "bothProved" /\ ApprovalState(c)' = "spent" /\ Subject(c)' = None
  <2>1. uses'[c] = 1
    BY <1>1, <1>2, InvParts DEF UsesInv, UsesOK
  <2>2. rows'[c].stage \in {"used", "gone"}
    <3>1. CASE ResetDone(c)
      BY <3>1 DEF ResetDone
    <3>2. CASE rows' = Without(RowsOf(rows[c].owner))
      <4>1. c \in RowsOf(rows[c].owner)
        BY <1>1 DEF RowsOf, Exists
      <4> QED
        BY <3>2, <4>1, NoRowType DEF Without, Stages
    <3> QED
      BY <3>1, <3>2 DEF Done, DeleteDone, ContactDone
  <2> QED
    BY <1>1, <2>1, <2>2, StateOfStage, StateOfStageNext, SubjectNext
<1>4. c \notin Obsolete(c)
  BY DEF Obsolete
<1>5. /\ AState[c] = "bothProved"
      /\ AState' = [d \in Challenges |->
            IF d = c THEN "spent" ELSE IF d \in Obsolete(c) THEN "withdrawn" ELSE AState[d]]
      /\ ASubject' = [d \in Challenges |-> IF d \in Obsolete(c) \cup {c} THEN None ELSE ASubject[d]]
  BY <1>3, <1>4, DoneOthers DEF AState, ASubject
<1>6. Approval!Obsolete(c) = Obsolete(c)
  BY <1>1, SameObsolete
<1> QED
  BY <1>2, <1>5, <1>6 DEF Approval!CarryOut, Approval!Leave, AState, ASubject, Subject

LEMMA StepRefines == IInv /\ [Next]_vars => [Approval!Next]_Approval!vars
<1> SUFFICES ASSUME IInv, [Next]_vars PROVE [Approval!Next]_Approval!vars
  OBVIOUS
<1>1. ASSUME Quiet PROVE UNCHANGED Approval!vars
  BY <1>1, QuietStutters
<1>2. ASSUME NEW S \in SUBSET Challenges, Removed(S) PROVE Approval!Next
  <2> DEFINE T == {d \in S : IsPending(d)}
  <2>1. Approval!Withdraw(T)
    BY <1>2, RemovedWithdraws
  <2>2. T \in SUBSET {d \in Challenges : AState[d] \in {"asked", "mailProved", "bothProved"}}
    BY StagePending DEF AState
  <2> HIDE DEF T
  <2>3. T \in SUBSET Approval!Pending
    BY <2>2 DEF Approval!Pending, AState
  <2>4. \E P \in SUBSET Approval!Pending : Approval!Withdraw(P)
    BY <2>1, <2>3 DEF Approval!Withdraw, Approval!Leave
  <2> QED
    BY <2>4 DEF Approval!Next
<1>3. ASSUME NEW c \in Challenges, NEW u \in Users, NEW k \in Kinds, Created(c, u, k)
      PROVE  Approval!Next
  BY <1>3, CreatedAsks DEF Approval!Next
<1>4. ASSUME NEW c \in Challenges, NEW r \in Requests, MailProved(c, r) PROVE Approval!Next
  BY <1>4, MailProves DEF Approval!Next
<1>5. ASSUME NEW c \in Challenges, SmsProved(c) PROVE Approval!Next
  BY <1>5, SmsProves DEF Approval!Next
<1>6. ASSUME NEW c \in Challenges, ResetDone(c) \/ DeleteDone(c) \/ ContactDone(c)
      PROVE  Approval!Next
  BY <1>6, DoneCarriesOut DEF Approval!Next, Done
<1>7. StepShape
  BY StepShapes, InvParts
<1> QED
  BY <1>1, <1>2, <1>3, <1>4, <1>5, <1>6, <1>7 DEF StepShape

\* The three changes, statement by statement, with stale reads and failures,
\* implement ApprovalGrant: both codes before the work, the work once, and
\* nothing pending that it made obsolete.
THEOREM ChallengesImplementApprovals == Spec => ApprovesAsPromised
<1> QED
  BY InitRefines, StepRefines, InductiveInvariant, PTL DEF Spec, Approval!Spec, ApprovesAsPromised
-------------------------------------------------------------------------------
(***************************************************************************)
(* Wrong codes.  As long as a row admits another answer of a sort, it has  *)
(* counted every wrong one; the answers under way are at most one for each *)
(* request.  The counter of the SMS code begins again with the first SMS,  *)
(* before which nobody can have answered one.                              *)
(***************************************************************************)
Sorts == {"wrongMail", "wrongSms"}

Wrong(k, c) == IF k = "wrongMail" THEN rows[c].wrongMails ELSE rows[c].wrongSms
Tries(k, c) == IF k = "wrongMail" THEN rows[c].emailCodeAttempts ELSE rows[c].smsCodeAttempts

Answering(k, c) == {r \in Requests : pc[r] = k /\ chal[r] = c}

CodesInvAt(k, c) ==
    /\ Exists(c) /\ Tries(k, c) < MaxAttempts => Wrong(k, c) <= Tries(k, c)
    /\ Wrong(k, c) + Cardinality(Answering(k, c)) < MaxAttempts + Cardinality(Requests)

NoSmsYet(c) ==
    rows[c].stage = "mail" => rows[c].wrongSms = 0 /\ Answering("wrongSms", c) = {}

CodesInv == \A c \in Challenges : NoSmsYet(c) /\ \A k \in Sorts : CodesInvAt(k, c)

LEMMA RequestSets ==
    ASSUME NEW S \in SUBSET Requests
    PROVE  /\ IsFiniteSet(S) /\ Cardinality(S) \in Nat
           /\ Cardinality(Requests) \in Nat /\ Cardinality(S) <= Cardinality(Requests)
  BY FS_Subset, FS_CardinalityType, AccountAssumption

LEMMA CountTypes ==
    ASSUME RowsOK, NEW k, NEW c \in Challenges
    PROVE  /\ Wrong(k, c) \in Nat /\ Tries(k, c) \in Nat
           /\ Answering(k, c) \in SUBSET Requests /\ Cardinality(Answering(k, c)) \in Nat
<1>1. rows[c] \in Row
  BY DEF RowsOK
<1>2. Wrong(k, c) \in Nat /\ Tries(k, c) \in Nat
  BY <1>1, RowTypes, Constants DEF Wrong, Tries
<1>3. Answering(k, c) \in SUBSET Requests
  BY DEF Answering
<1> QED
  BY <1>2, <1>3, RequestSets

\* Steps that answer nothing: the counters of c stay or begin anew.
LEMMA CodesQuiet ==
    ASSUME RowsOK, RowsOK', NEW k \in Sorts, NEW c \in Challenges, CodesInvAt(k, c),
           Answering(k, c)' \subseteq Answering(k, c),
           \/ /\ Wrong(k, c)' = Wrong(k, c) /\ Tries(k, c)' = Tries(k, c)
              /\ Exists(c)' => Exists(c)
           \/ Wrong(k, c)' = 0
    PROVE  CodesInvAt(k, c)'
<1> DEFINE old == Cardinality(Answering(k, c))
           new == Cardinality(Answering(k, c)')
           all == Cardinality(Requests)
<1>1. Answering(k, c) \in SUBSET Requests /\ Answering(k, c)' \in SUBSET Requests
  BY DEF Answering
<1>2. old \in Nat /\ new \in Nat /\ all \in Nat /\ new <= old /\ new <= all
  BY <1>1, RequestSets, FS_Subset
<1>3. /\ Wrong(k, c) \in Nat /\ Tries(k, c) \in Nat
      /\ Wrong(k, c)' \in Nat /\ Tries(k, c)' \in Nat
  <2>1. rows[c] \in Row /\ rows'[c] \in Row
    BY DEF RowsOK
  <2> QED
    BY <2>1, RowTypes, Constants DEF Wrong, Tries
<1>4. /\ Wrong(k, c) + old < MaxAttempts + all
      /\ Exists(c) /\ Tries(k, c) < MaxAttempts => Wrong(k, c) <= Tries(k, c)
  BY DEF CodesInvAt
<1> HIDE DEF old, new, all
<1>5. Wrong(k, c)' + new < MaxAttempts + all
  BY <1>2, <1>3, <1>4, Constants
<1>6. Exists(c)' /\ Tries(k, c)' < MaxAttempts => Wrong(k, c)' <= Tries(k, c)'
  BY <1>3, <1>4
<1> QED
  BY <1>5, <1>6 DEF CodesInvAt, new, all

\* A request begins to answer only a row whose counter is below the limit.
LEMMA CodesAsked ==
    ASSUME RowsOK, NEW k \in Sorts, NEW c \in Challenges, CodesInvAt(k, c),
           Exists(c), Tries(k, c) < MaxAttempts, UNCHANGED rows
    PROVE  CodesInvAt(k, c)'
<1>1. Wrong(k, c)' = Wrong(k, c) /\ Tries(k, c)' = Tries(k, c) /\ Exists(c)'
  BY DEF Wrong, Tries, Exists
<1>2. Wrong(k, c) <= Tries(k, c) /\ Wrong(k, c) \in Nat /\ Tries(k, c) \in Nat
  BY CountTypes DEF CodesInvAt
<1>3. Answering(k, c)' \in SUBSET Requests
  BY DEF Answering
<1>4. /\ Cardinality(Answering(k, c)') \in Nat /\ Cardinality(Requests) \in Nat
      /\ Cardinality(Answering(k, c)') <= Cardinality(Requests)
  BY <1>3, RequestSets
<1>5. Wrong(k, c)' + Cardinality(Answering(k, c)') < MaxAttempts + Cardinality(Requests)
  BY <1>1, <1>2, <1>4, Constants
<1> QED
  BY <1>1, <1>2, <1>5 DEF CodesInvAt

\* An answer moves from the requests to the counters.
LEMMA CodesCounted ==
    ASSUME RowsOK, RequestsOK, NEW k \in Sorts, NEW c \in Challenges, CodesInvAt(k, c),
           NEW r \in Requests, pc[r] = k, chal[r] = c, Return(r),
           Exists(c), Exists(c)', Wrong(k, c)' = Wrong(k, c) + 1,
           Tries(k, c)' = IF Tries(k, c) < MaxAttempts THEN Tries(k, c) + 1 ELSE Tries(k, c)
    PROVE  CodesInvAt(k, c)'
<1>1. r \in Answering(k, c) /\ Answering(k, c)' = Answering(k, c) \ {r}
  BY Constants DEF Answering, Return, Goto, RequestsOK, Sorts
<1>2. /\ Wrong(k, c) \in Nat /\ Tries(k, c) \in Nat /\ Answering(k, c) \in SUBSET Requests
      /\ Cardinality(Answering(k, c)) \in Nat
  BY CountTypes
<1>3. /\ Cardinality(Answering(k, c) \ {r}) = Cardinality(Answering(k, c)) - 1
      /\ Cardinality(Requests) \in Nat
  BY <1>1, <1>2, RequestSets, FS_RemoveElement
<1>4. Wrong(k, c)' + Cardinality(Answering(k, c)') < MaxAttempts + Cardinality(Requests)
  BY <1>1, <1>2, <1>3, Constants DEF CodesInvAt
<1>5. Tries(k, c)' < MaxAttempts => Wrong(k, c)' <= Tries(k, c)'
  BY <1>2, Constants DEF CodesInvAt
<1> QED
  BY <1>4, <1>5 DEF CodesInvAt

(***************************************************************************)
(* What a step does to the counters of a row, and to who answers it.       *)
(***************************************************************************)
SameCounters(new, row) ==
    /\ new.emailCodeAttempts = row.emailCodeAttempts /\ new.smsCodeAttempts = row.smsCodeAttempts
    /\ new.wrongMails = row.wrongMails /\ new.wrongSms = row.wrongSms

CountersStay(c) ==
    /\ SameCounters(rows'[c], rows[c])
    /\ Exists(c)' => Exists(c)
    /\ rows'[c].stage = "mail" => rows[c].stage = "mail"

CountersAnew(c) ==
    /\ rows'[c].wrongMails = 0 /\ rows'[c].wrongSms = 0
    /\ rows'[c].stage = "mail" => rows[c].stage = "absent"

SmsBegins(c) ==
    /\ rows[c].stage = "mail" /\ rows'[c].stage = "sms"
    /\ rows'[c].emailCodeAttempts = rows[c].emailCodeAttempts
    /\ rows'[c].wrongMails = rows[c].wrongMails /\ rows'[c].wrongSms = rows[c].wrongSms

NotCounted(c) == CountersStay(c) \/ CountersAnew(c) \/ SmsBegins(c)

LEMMA SameRowCounters ==
    ASSUME NEW row \in Row, NEW x
    PROVE  /\ LET new == [row EXCEPT !.expired = x] IN
              SameCounters(new, row) /\ new.stage = row.stage
           /\ LET new == [row EXCEPT !.stage = x] IN
              SameCounters(new, row) /\ new.stage = x
  BY Zenon DEF Row, SameCounters

LEMMA MailProvedCounters ==
    ASSUME NEW row \in Row, NEW p
    PROVE  LET new == MailVersion(row, p) IN
           /\ new.stage = "sms" /\ new.emailCodeAttempts = row.emailCodeAttempts
           /\ new.wrongMails = row.wrongMails /\ new.wrongSms = row.wrongSms
  BY DEF Row, MailVersion

LEMMA FirstCounters ==
    ASSUME NEW u, NEW k, NEW p
    PROVE  FirstVersion(u, k, p).wrongMails = 0 /\ FirstVersion(u, k, p).wrongSms = 0
  BY DEF FirstVersion, NoRow

LEMMA RowStays ==
    ASSUME NEW c \in Challenges, rows'[c] = rows[c]
    PROVE  CountersStay(c)
  BY Zenon DEF CountersStay, SameCounters, Exists

LEMMA WithoutCounts ==
    ASSUME NEW S, NEW c \in Challenges, rows'[c] = IF c \in S THEN NoRow("gone") ELSE rows[c]
    PROVE  NotCounted(c)
<1>1. CASE c \in S
  BY <1>1 DEF NoRow, NotCounted, CountersAnew
<1>2. CASE c \notin S
  BY <1>2, RowStays DEF NotCounted
<1> QED
  BY <1>1, <1>2

LEMMA RowsNotCounted ==
    ASSUME RowsOK, RequestsOK, [Next]_vars, NEW c \in Challenges
    PROVE  \/ NotCounted(c)
           \/ \E r \in Requests : IncrementEmailAttempts(r) \/ IncrementSmsAttempts(r)
<1> USE DEF RowsOK
<1>1. ASSUME UNCHANGED rows PROVE NotCounted(c)
  BY <1>1, RowStays DEF NotCounted
<1>2. ASSUME NEW S, rows' = Without(S) PROVE NotCounted(c)
  BY <1>2, WithoutCounts DEF Without
<1>3. ASSUME NEW d \in Challenges, NEW new, rows' = [rows EXCEPT ![d] = new],
             d = c => NotCounted(c)
      PROVE  NotCounted(c)
  <2>1. CASE d # c
    <3>1. rows'[c] = rows[c]
      BY <1>3, <2>1
    <3> QED
      BY <3>1, RowStays DEF NotCounted
  <2> QED
    BY <1>3, <2>1
<1>4. ASSUME NEW r \in Requests, CreateChallenge(r) PROVE NotCounted(c)
  <2> DEFINE new == FirstVersion(who[r], kind[r], number[r])
  <2>1. PICK d \in Challenges : rows[d].stage = "absent" /\ rows' = [rows EXCEPT ![d] = new]
    BY <1>4, Zenon DEF CreateChallenge, FirstVersion
  <2>2. ASSUME d = c PROVE NotCounted(c)
    <3>1. rows'[c] = new
      BY <2>1, <2>2
    <3> QED
      BY <2>1, <2>2, <3>1, FirstCounters DEF NotCounted, CountersAnew
  <2> HIDE DEF new
  <2> QED
    BY <1>3, <2>1, <2>2
<1>5. ASSUME NEW d \in Challenges, Expire(d) PROVE NotCounted(c)
  <2> DEFINE new == [rows[d] EXCEPT !.expired = TRUE]
  <2>1. rows' = [rows EXCEPT ![d] = new] /\ Exists(d)
    BY <1>5, Zenon DEF Expire, IsPending, Exists
  <2>2. ASSUME d = c PROVE NotCounted(c)
    <3>1. rows'[c] = new /\ rows[c] \in Row
      BY <2>1, <2>2
    <3>2. SameCounters(new, rows[c]) /\ new.stage = rows[c].stage
      BY <2>2, <3>1, SameRowCounters, Zenon
    <3> HIDE DEF new
    <3> QED
      BY <2>1, <2>2, <3>1, <3>2 DEF NotCounted, CountersStay, Exists
  <2> HIDE DEF new
  <2> QED
    BY <1>3, <2>1, <2>2
<1>6. ASSUME NEW r \in Requests, MarkEmailVerified(r) PROVE NotCounted(c)
  <2> DEFINE d == chal[r]
             new == MailVersion(rows[d], number[r])
  <2>1. d \in Challenges
    BY <1>6 DEF MarkEmailVerified, RequestsOK, HandInv
  <2>2. UNCHANGED rows \/ (rows' = [rows EXCEPT ![d] = new] /\ rows[d].stage = "mail")
    BY <1>6, Zenon DEF MarkEmailVerified, MailVersion
  <2>3. ASSUME rows' = [rows EXCEPT ![d] = new], rows[d].stage = "mail", d = c
        PROVE  NotCounted(c)
    <3>1. rows'[c] = new /\ rows[c] \in Row
      BY <2>3
    <3> QED
      BY <2>3, <3>1, MailProvedCounters DEF NotCounted, SmsBegins
  <2> HIDE DEF new, d
  <2> QED
    BY <1>1, <1>3, <2>1, <2>2, <2>3
<1>7. ASSUME NEW r \in Requests, MarkSmsVerified(r) PROVE NotCounted(c)
  <2> DEFINE d == chal[r]
             mid == [rows[d] EXCEPT !.stage = "token"]
             new == [mid EXCEPT !.expired = FALSE]
  <2>1. d \in Challenges
    BY <1>7 DEF MarkSmsVerified, RequestsOK, HandInv
  <2>2. UNCHANGED rows \/ (rows' = [rows EXCEPT ![d] = new] /\ rows[d].stage = "sms")
    BY <1>7, Zenon DEF MarkSmsVerified
  <2>3. ASSUME rows' = [rows EXCEPT ![d] = new], rows[d].stage = "sms", d = c
        PROVE  NotCounted(c)
    <3>1. rows'[c] = new /\ rows[d] \in Row
      BY <2>1, <2>3
    <3>2. SameCounters(mid, rows[d]) /\ mid.stage = "token" /\ mid \in Row
      BY <3>1, SameRowCounters, RowUpdates DEF Stages
    <3> HIDE DEF mid
    <3>3. SameCounters(new, mid) /\ new.stage = mid.stage
      BY <3>2, SameRowCounters, Zenon
    <3> HIDE DEF new
    <3>4. SameCounters(new, rows[d]) /\ new.stage = "token"
      BY <3>2, <3>3, Zenon DEF SameCounters
    <3> QED
      BY <2>3, <3>1, <3>4 DEF NotCounted, CountersStay, Exists
  <2> HIDE DEF new, d
  <2> QED
    BY <1>1, <1>3, <2>1, <2>2, <2>3
<1>8. ASSUME NEW r \in Requests, CompletePasswordReset(r) PROVE NotCounted(c)
  <2> DEFINE d == chal[r]
             S == {e \in RowsOf(rows[d].owner) \ {d} : rows[e].kind = "reset"}
  <2>1. d \in Challenges /\ rows[d].stage = "token" /\ rows' = [Without(S) EXCEPT ![d].stage = "used"]
    BY <1>8, Zenon DEF CompletePasswordReset, Consume, RequestsOK, HandInv
  <2>2. d \notin S
    OBVIOUS
  <2> HIDE DEF S, d
  <2>3. CASE c # d
    <3>1. rows'[c] = IF c \in S THEN NoRow("gone") ELSE rows[c]
      BY <2>1, <2>3 DEF Without
    <3> QED
      BY <3>1, WithoutCounts
  <2>4. CASE c = d
    <3> DEFINE left == Without(S)
    <3>1. left[c] = rows[c] /\ c \in DOMAIN left
      BY <2>2, <2>4 DEF Without
    <3>2. rows' = [left EXCEPT ![c].stage = "used"] /\ rows[c] \in Row
      BY <2>1, <2>4
    <3> HIDE DEF left
    <3> DEFINE new == [rows[c] EXCEPT !.stage = "used"]
    <3>3. rows'[c] = new
      BY <3>1, <3>2
    <3>4. SameCounters(new, rows[c]) /\ new.stage = "used"
      BY <3>2, SameRowCounters
    <3> HIDE DEF new
    <3> QED
      BY <2>1, <2>4, <3>3, <3>4 DEF NotCounted, CountersStay, Exists
  <2> QED
    BY <2>3, <2>4
<1>9. ASSUME NEW r \in Requests,
             DeleteChallenges(r) \/ CompleteAccountDelete(r) \/ CompleteContactChange(r)
      PROVE  NotCounted(c)
  BY <1>2, <1>9, Zenon DEF DeleteChallenges, CompleteAccountDelete, CompleteContactChange
<1>10. ASSUME NEW d \in Challenges, CleanUp(d) PROVE NotCounted(c)
  BY <1>2, <1>10 DEF CleanUp
<1>11. ASSUME NEW r \in Requests,
              \/ \E u \in Users : \/ StartPasswordReset(r, u) \/ StartAccountDelete(r, u)
                                 \/ \E p \in Phones : StartContactChange(r, u, p)
              \/ CheckPhoneFree(r) \/ Fail(r)
       PROVE  NotCounted(c)
  BY <1>1, <1>11 DEF StartPasswordReset, StartAccountDelete, StartContactChange, Begin,
                     CheckPhoneFree, Fail
<1>12. ASSUME NEW r \in Requests, NEW d \in Challenges,
              \/ VerifyPasswordResetEmailCode(r, d) \/ VerifyAccountDeleteEmailCode(r, d)
              \/ VerifyContactChangeEmailCode(r, d)
              \/ VerifyPasswordResetSmsCode(r, d) \/ VerifyAccountDeleteSmsCode(r, d)
              \/ VerifyContactChangeSmsCode(r, d)
              \/ FindPasswordResetToken(r, d) \/ FindAccountDeleteToken(r, d)
              \/ FindContactChangeToken(r, d)
       PROVE  NotCounted(c)
  BY <1>1, <1>12 DEF VerifyPasswordResetEmailCode, VerifyAccountDeleteEmailCode,
        VerifyContactChangeEmailCode, VerifyPasswordResetSmsCode, VerifyAccountDeleteSmsCode,
        VerifyContactChangeSmsCode, FindPasswordResetToken, FindAccountDeleteToken,
        FindContactChangeToken, VerifyEmailCode, VerifySmsCode, FindToken
<1>13. ASSUME NEW r \in Requests, RequestStep(r)
       PROVE  NotCounted(c) \/ IncrementEmailAttempts(r) \/ IncrementSmsAttempts(r)
  BY <1>4, <1>6, <1>7, <1>8, <1>9, <1>11, <1>12, <1>13 DEF RequestStep
<1> QED
  BY <1>1, <1>5, <1>10, <1>13 DEF Next, vars

Increment(k, r) == IF k = "wrongMail" THEN IncrementEmailAttempts(r) ELSE IncrementSmsAttempts(r)

LEMMA MailCountedRow ==
    ASSUME NEW row \in Row
    PROVE  LET new == [row EXCEPT !.emailCodeAttempts = IF @ < MaxAttempts THEN @ + 1 ELSE @,
                                  !.wrongMails = @ + 1] IN
           /\ new.stage = row.stage /\ new.wrongMails = row.wrongMails + 1
           /\ new.emailCodeAttempts = IF row.emailCodeAttempts < MaxAttempts
                                      THEN row.emailCodeAttempts + 1 ELSE row.emailCodeAttempts
           /\ new.smsCodeAttempts = row.smsCodeAttempts /\ new.wrongSms = row.wrongSms
  BY DEF Row

LEMMA SmsCountedRow ==
    ASSUME NEW row \in Row
    PROVE  LET new == [row EXCEPT !.smsCodeAttempts = IF @ < MaxAttempts THEN @ + 1 ELSE @,
                                  !.wrongSms = @ + 1] IN
           /\ new.stage = row.stage /\ new.wrongSms = row.wrongSms + 1
           /\ new.smsCodeAttempts = IF row.smsCodeAttempts < MaxAttempts
                                    THEN row.smsCodeAttempts + 1 ELSE row.smsCodeAttempts
           /\ new.emailCodeAttempts = row.emailCodeAttempts /\ new.wrongMails = row.wrongMails
  BY DEF Row

LEMMA IncrementCounts ==
    ASSUME RowsOK, RequestsOK, NEW k \in Sorts, NEW r \in Requests, Increment(k, r),
           NEW c \in Challenges
    PROVE  /\ pc[r] = k /\ chal[r] \in Challenges /\ Return(r)
           /\ rows'[c].stage = rows[c].stage
           /\ (c # chal[r] \/ ~Exists(c)) => rows'[c] = rows[c]
           /\ c = chal[r] /\ Exists(c) =>
                 /\ Wrong(k, c)' = Wrong(k, c) + 1
                 /\ Tries(k, c)' = IF Tries(k, c) < MaxAttempts THEN Tries(k, c) + 1 ELSE Tries(k, c)
           /\ \A j \in Sorts \ {k} : Wrong(j, c)' = Wrong(j, c) /\ Tries(j, c)' = Tries(j, c)
<1>1. pc[r] = k /\ chal[r] \in Challenges /\ Return(r)
  BY DEF Increment, IncrementEmailAttempts, IncrementSmsAttempts, RequestsOK, HandInv, Sorts
<1>2. CASE c # chal[r] \/ ~Exists(c)
  <2>1. rows'[c] = rows[c]
    BY <1>1, <1>2 DEF Increment, IncrementEmailAttempts, IncrementSmsAttempts, RowsOK
  <2> QED
    BY <1>1, <1>2, <2>1, Zenon DEF Wrong, Tries
<1>3. CASE c = chal[r] /\ Exists(c)
  <2>1. rows[c] \in Row /\ rows \in [Challenges -> Row]
    BY DEF RowsOK
  <2>2. CASE k = "wrongMail"
    <3> DEFINE new == [rows[c] EXCEPT !.emailCodeAttempts = IF @ < MaxAttempts THEN @ + 1 ELSE @,
                                      !.wrongMails = @ + 1]
    <3>1. rows' = [rows EXCEPT ![c] = new]
      BY <1>3, <2>2, Zenon DEF Increment, IncrementEmailAttempts
    <3>2. rows'[c] = new
      BY <2>1, <3>1, Zenon
    <3>3. /\ rows'[c].stage = rows[c].stage /\ Wrong(k, c)' = Wrong(k, c) + 1
          /\ Tries(k, c)' = IF Tries(k, c) < MaxAttempts THEN Tries(k, c) + 1 ELSE Tries(k, c)
          /\ rows'[c].smsCodeAttempts = rows[c].smsCodeAttempts
          /\ rows'[c].wrongSms = rows[c].wrongSms
      BY <2>1, <2>2, <3>2, MailCountedRow, Zenon DEF Wrong, Tries
    <3> QED
      BY <1>1, <1>3, <2>2, <3>3 DEF Wrong, Tries, Sorts
  <2>3. CASE k = "wrongSms"
    <3> DEFINE new == [rows[c] EXCEPT !.smsCodeAttempts = IF @ < MaxAttempts THEN @ + 1 ELSE @,
                                      !.wrongSms = @ + 1]
    <3>1. rows' = [rows EXCEPT ![c] = new]
      BY <1>3, <2>3 DEF Increment, IncrementSmsAttempts
    <3>2. rows'[c] = new
      BY <2>1, <3>1, Zenon
    <3>3. /\ rows'[c].stage = rows[c].stage /\ Wrong(k, c)' = Wrong(k, c) + 1
          /\ Tries(k, c)' = IF Tries(k, c) < MaxAttempts THEN Tries(k, c) + 1 ELSE Tries(k, c)
          /\ rows'[c].emailCodeAttempts = rows[c].emailCodeAttempts
          /\ rows'[c].wrongMails = rows[c].wrongMails
      BY <2>1, <2>3, <3>2, SmsCountedRow DEF Wrong, Tries
    <3> QED
      BY <1>1, <1>3, <2>3, <3>3 DEF Wrong, Tries, Sorts
  <2> QED
    BY <2>2, <2>3 DEF Sorts
<1> QED
  BY <1>2, <1>3

\* Nobody begins to answer, or one does with a row that still admits it.
Asked(k, c) ==
    /\ UNCHANGED rows
    /\ Exists(c) /\ Tries(k, c) < MaxAttempts
    /\ k = "wrongSms" => rows[c].stage = "sms"

LEMMA AnswersMove ==
    ASSUME RequestsOK, [Next]_vars, NEW k \in Sorts, NEW c \in Challenges
    PROVE  Answering(k, c)' \subseteq Answering(k, c) \/ Asked(k, c)
<1> DEFINE Fewer == Answering(k, c)' \subseteq Answering(k, c)
<1> USE DEF RequestsOK
<1>1. ASSUME NEW s \in Requests, Return(s) PROVE Fewer
  BY <1>1 DEF Return, Goto, Answering, Sorts
<1>2. ASSUME NEW s \in Requests,
             \/ CreateChallenge(s) \/ IncrementEmailAttempts(s) \/ MarkEmailVerified(s)
             \/ IncrementSmsAttempts(s) \/ MarkSmsVerified(s) \/ CompletePasswordReset(s)
             \/ CompleteAccountDelete(s) \/ CompleteContactChange(s) \/ Fail(s)
      PROVE  Return(s)
  BY <1>2, Zenon DEF CreateChallenge, IncrementEmailAttempts, MarkEmailVerified,
     IncrementSmsAttempts, MarkSmsVerified, CompletePasswordReset, CompleteAccountDelete,
     CompleteContactChange, Consume, Fail
<1>3. ASSUME NEW s \in Requests, NEW p \in Points \ Sorts, Goto(s, p), UNCHANGED chal PROVE Fewer
  BY <1>3 DEF Goto, Answering
<1>4. ASSUME NEW s \in Requests, NEW u \in Users,
             \/ StartPasswordReset(s, u) \/ StartAccountDelete(s, u)
             \/ \E p \in Phones : StartContactChange(s, u, p)
      PROVE  Fewer
  BY <1>3, <1>4 DEF StartPasswordReset, StartAccountDelete, StartContactChange, Begin, Points, Sorts
<1>5. ASSUME NEW s \in Requests, CheckPhoneFree(s) \/ DeleteChallenges(s) PROVE Fewer
  BY <1>1, <1>3, <1>5 DEF CheckPhoneFree, DeleteChallenges, Points, Sorts
<1>6. ASSUME NEW s \in Requests, NEW d \in Challenges, chal' = [chal EXCEPT ![s] = d],
             NEW p \in Points, Goto(s, p), p # k \/ d # c
      PROVE  Fewer
  BY <1>6 DEF Goto, Answering
<1>7. ASSUME NEW s \in Requests, NEW d \in Challenges, VerifyEmailCode(s, d)
      PROVE  Fewer \/ Asked(k, c)
  <2>1. /\ chal' = [chal EXCEPT ![s] = d] /\ UNCHANGED rows
        /\ rows[d].stage = "mail" /\ rows[d].emailCodeAttempts < MaxAttempts
        /\ Goto(s, "wrongMail") \/ Goto(s, "rightMail")
    BY <1>7, Zenon DEF VerifyEmailCode
  <2>2. CASE k = "wrongMail" /\ d = c
    BY <2>1, <2>2 DEF Asked, Tries, Exists
  <2>3. CASE ~(k = "wrongMail" /\ d = c)
    BY <1>6, <2>1, <2>3 DEF Sorts, Points
  <2> QED
    BY <2>2, <2>3
<1>8. ASSUME NEW s \in Requests, NEW d \in Challenges, VerifySmsCode(s, d)
      PROVE  Fewer \/ Asked(k, c)
  <2>1. /\ chal' = [chal EXCEPT ![s] = d] /\ UNCHANGED rows
        /\ rows[d].stage = "sms" /\ rows[d].smsCodeAttempts < MaxAttempts
        /\ Goto(s, "wrongSms") \/ Goto(s, "rightSms")
    BY <1>8, Zenon DEF VerifySmsCode
  <2>2. CASE k = "wrongSms" /\ d = c
    BY <2>1, <2>2 DEF Asked, Tries, Exists
  <2>3. CASE ~(k = "wrongSms" /\ d = c)
    BY <1>6, <2>1, <2>3 DEF Sorts, Points
  <2> QED
    BY <2>2, <2>3
<1>9. ASSUME NEW s \in Requests, NEW d \in Challenges, FindToken(s, d) PROVE Fewer
  BY <1>6, <1>9 DEF FindToken, Sorts, Points
<1> HIDE DEF Fewer
<1>10. ASSUME NEW s \in Requests, NEW d \in Challenges,
              \/ VerifyPasswordResetEmailCode(s, d) \/ VerifyAccountDeleteEmailCode(s, d)
              \/ VerifyContactChangeEmailCode(s, d)
              \/ VerifyPasswordResetSmsCode(s, d) \/ VerifyAccountDeleteSmsCode(s, d)
              \/ VerifyContactChangeSmsCode(s, d)
              \/ FindPasswordResetToken(s, d) \/ FindAccountDeleteToken(s, d)
              \/ FindContactChangeToken(s, d)
       PROVE  Fewer \/ Asked(k, c)
  BY <1>7, <1>8, <1>9, <1>10 DEF VerifyPasswordResetEmailCode, VerifyAccountDeleteEmailCode,
        VerifyContactChangeEmailCode, VerifyPasswordResetSmsCode, VerifyAccountDeleteSmsCode,
        VerifyContactChangeSmsCode, FindPasswordResetToken, FindAccountDeleteToken,
        FindContactChangeToken
<1>11. ASSUME UNCHANGED requests PROVE Fewer
  BY <1>11 DEF requests, Answering, Fewer
<1>12. ASSUME NEW d \in Challenges, Expire(d) \/ CleanUp(d) PROVE UNCHANGED requests
  BY <1>12 DEF Expire, CleanUp
<1>13. ASSUME NEW s \in Requests, RequestStep(s) PROVE Fewer \/ Asked(k, c)
  BY <1>1, <1>2, <1>4, <1>5, <1>10, <1>13 DEF RequestStep
<1>14. Fewer \/ Asked(k, c)
  BY <1>11, <1>12, <1>13 DEF Next, vars
<1> QED
  BY <1>14 DEF Fewer

LEMMA SmsStep ==
    ASSUME RowsOK, RequestsOK, [Next]_vars, NEW c \in Challenges, NoSmsYet(c)
    PROVE  NoSmsYet(c)'
<1> DEFINE A == Answering("wrongSms", c)
<1> SUFFICES ASSUME rows'[c].stage = "mail"
             PROVE  rows'[c].wrongSms = 0 /\ A' = {}
  BY DEF NoSmsYet
<1>1. A' \subseteq A \/ Asked("wrongSms", c)
  BY AnswersMove DEF Sorts
<1>2. A' \subseteq A
  <2>1. ~Asked("wrongSms", c)
    BY DEF Asked
  <2> QED
    BY <1>1, <2>1, Zenon
<1>3. CASE NotCounted(c)
  <2>1. rows[c].stage = "mail" \/ rows[c].stage = "absent"
    BY <1>3 DEF NotCounted, CountersStay, CountersAnew, SmsBegins
  <2>2. CASE rows[c].stage = "mail"
    BY <1>2, <1>3, <2>2 DEF NoSmsYet, NotCounted, CountersStay, SameCounters, CountersAnew, SmsBegins
  <2>3. CASE rows[c].stage = "absent"
    <3>1. A = {}
      BY <2>3 DEF Answering, RequestsOK, HandInv
    <3>2. rows'[c].wrongSms = 0
      BY <1>3, <2>3 DEF NotCounted, CountersStay, CountersAnew, SmsBegins
    <3> QED
      BY <1>2, <3>1, <3>2
  <2> QED
    BY <2>1, <2>2, <2>3
<1>4. ASSUME NEW r \in Requests, NEW k \in Sorts, Increment(k, r)
      PROVE  rows'[c].wrongSms = 0 /\ A' = {}
  <2>1. rows[c].stage = "mail" /\ pc[r] = k
    BY <1>4, IncrementCounts
  <2>2. rows[c].wrongSms = 0 /\ A = {}
    BY <2>1 DEF NoSmsYet
  <2>3. k = "wrongSms" => c # chal[r]
    BY <2>1, <2>2 DEF Answering
  <2>4. Wrong("wrongSms", c)' = Wrong("wrongSms", c)
    <3>1. CASE k = "wrongSms"
      <4>1. rows'[c] = rows[c]
        BY <1>4, <2>3, <3>1, IncrementCounts
      <4> QED
        BY <4>1 DEF Wrong
    <3>2. CASE k # "wrongSms"
      BY <1>4, <3>2, IncrementCounts DEF Sorts
    <3> QED
      BY <3>1, <3>2
  <2> QED
    BY <1>2, <2>2, <2>4 DEF Wrong
<1> QED
  BY <1>3, <1>4, RowsNotCounted DEF Increment, Sorts

LEMMA CodesStep ==
    ASSUME RowsOK, RowsOK', RequestsOK, [Next]_vars, NEW k \in Sorts, NEW c \in Challenges,
           NoSmsYet(c), CodesInvAt(k, c)
    PROVE  CodesInvAt(k, c)'
<1>1. CASE Asked(k, c)
  BY <1>1, CodesAsked DEF Asked
<1>2. CASE Answering(k, c)' \subseteq Answering(k, c) /\ NotCounted(c)
  <2>1. CASE CountersStay(c)
    <3>1. Wrong(k, c)' = Wrong(k, c) /\ Tries(k, c)' = Tries(k, c) /\ (Exists(c)' => Exists(c))
      BY <2>1 DEF CountersStay, SameCounters, Wrong, Tries
    <3> QED
      BY <1>2, <3>1, CodesQuiet
  <2>2. CASE CountersAnew(c)
    <3>1. Wrong(k, c)' = 0
      BY <2>2 DEF CountersAnew, Wrong
    <3> QED
      BY <1>2, <3>1, CodesQuiet
  <2>3. CASE SmsBegins(c) /\ k = "wrongMail"
    <3>1. Wrong(k, c)' = Wrong(k, c) /\ Tries(k, c)' = Tries(k, c) /\ Exists(c)
      BY <2>3 DEF SmsBegins, Wrong, Tries, Exists
    <3> QED
      BY <1>2, <3>1, CodesQuiet
  <2>4. CASE SmsBegins(c) /\ k = "wrongSms"
    <3>1. Wrong(k, c)' = 0
      BY <2>4 DEF SmsBegins, NoSmsYet, Wrong
    <3> QED
      BY <1>2, <3>1, CodesQuiet
  <2> QED
    BY <1>2, <2>1, <2>2, <2>3, <2>4 DEF NotCounted, Sorts
<1>3. ASSUME NEW r \in Requests, NEW j \in Sorts, Increment(j, r) PROVE CodesInvAt(k, c)'
  <2>1. /\ pc[r] = j /\ chal[r] \in Challenges /\ Return(r)
        /\ rows'[c].stage = rows[c].stage
        /\ (c # chal[r] \/ ~Exists(c)) => rows'[c] = rows[c]
        /\ c = chal[r] /\ Exists(c) =>
              /\ Wrong(j, c)' = Wrong(j, c) + 1
              /\ Tries(j, c)' = IF Tries(j, c) < MaxAttempts THEN Tries(j, c) + 1 ELSE Tries(j, c)
        /\ \A i \in Sorts \ {j} : Wrong(i, c)' = Wrong(i, c) /\ Tries(i, c)' = Tries(i, c)
    BY <1>3, IncrementCounts
  <2>2. Exists(c)' <=> Exists(c)
    BY <2>1 DEF Exists
  <2>3. Answering(k, c)' \subseteq Answering(k, c)
    BY <2>1 DEF Answering, Return, Goto, RequestsOK, Sorts
  <2>4. CASE k = j /\ c = chal[r] /\ Exists(c)
    BY <2>1, <2>2, <2>4, CodesCounted
  <2>5. CASE ~(k = j /\ c = chal[r] /\ Exists(c))
    <3>1. Wrong(k, c)' = Wrong(k, c) /\ Tries(k, c)' = Tries(k, c)
      <4>1. CASE k = j
        BY <2>1, <2>5, <4>1, Zenon DEF Wrong, Tries
      <4>2. CASE k # j
        BY <2>1, <4>2
      <4> QED
        BY <4>1, <4>2
    <3> QED
      BY <2>2, <2>3, <3>1, CodesQuiet
  <2> QED
    BY <2>4, <2>5
<1> QED
  BY <1>1, <1>2, <1>3, AnswersMove, RowsNotCounted DEF Increment, Sorts

\* Concurrency adds at most one wrong answer of either sort for each request
\* that runs at the same time, although the counter of the SMS code starts anew.
THEOREM WrongCodesStayFew == Spec => []WrongCodesBounded
<1>1. Init => CodesInv
  <2> SUFFICES ASSUME Init, NEW c \in Challenges, NEW k \in Sorts
               PROVE  NoSmsYet(c) /\ CodesInvAt(k, c)
    BY DEF CodesInv, Sorts
  <2>1. Answering(k, c) = {} /\ rows[c] = NoRow("absent")
    BY DEF Init, Answering, Sorts
  <2>2. Wrong(k, c) = 0 /\ ~Exists(c) /\ rows[c].stage # "mail"
    BY <2>1 DEF NoRow, Wrong, Exists
  <2>3. Cardinality(Answering(k, c)) = 0 /\ Cardinality(Requests) \in Nat
    BY <2>1, FS_EmptySet, FS_CardinalityType, AccountAssumption
  <2>4. Wrong(k, c) + Cardinality(Answering(k, c)) < MaxAttempts + Cardinality(Requests)
    BY <2>2, <2>3, Constants
  <2> QED
    BY <2>2, <2>4, Zenon DEF CodesInvAt, NoSmsYet
<1>2. IInv /\ CodesInv /\ [Next]_vars => CodesInv'
  <2> SUFFICES ASSUME IInv, CodesInv, [Next]_vars, NEW c \in Challenges
               PROVE  NoSmsYet(c)' /\ \A k \in Sorts : CodesInvAt(k, c)'
    BY DEF CodesInv
  <2>1. RowsOK /\ RequestsOK /\ RowsOK'
    BY InvParts, StepShapes
  <2>2. NoSmsYet(c) /\ \A k \in Sorts : CodesInvAt(k, c)
    BY DEF CodesInv
  <2> QED
    BY <2>1, <2>2, SmsStep, CodesStep
<1>3. IInv /\ CodesInv => WrongCodesBounded
  <2> SUFFICES ASSUME IInv, CodesInv, NEW c \in Challenges
               PROVE  /\ rows[c].wrongMails < MaxAttempts + Cardinality(Requests)
                      /\ rows[c].wrongSms < MaxAttempts + Cardinality(Requests)
    BY DEF WrongCodesBounded
  <2>1. ASSUME NEW k \in Sorts PROVE Wrong(k, c) < MaxAttempts + Cardinality(Requests)
    <3>1. /\ Wrong(k, c) \in Nat /\ Cardinality(Answering(k, c)) \in Nat
          /\ Cardinality(Requests) \in Nat
      BY CountTypes, InvParts, FS_CardinalityType, AccountAssumption
    <3>2. Wrong(k, c) + Cardinality(Answering(k, c)) < MaxAttempts + Cardinality(Requests)
      BY DEF CodesInv, CodesInvAt
    <3> QED
      BY <3>1, <3>2, Constants
  <2> QED
    BY <2>1 DEF Sorts, Wrong
<1> QED
  BY <1>1, <1>2, <1>3, InductiveInvariant, PTL DEF Spec
===============================================================================
