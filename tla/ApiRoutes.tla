------------------------------- MODULE ApiRoutes -------------------------------
(***************************************************************************)
(* The routes under app/api/auth.  Every one is a chain of the same        *)
(* stages, run by withIdempotency: a limit by address, a session, a body,  *)
(* limits by what the body or the session names, and the service that      *)
(* acts.  A route is the sequence of its stages.                           *)
(*                                                                         *)
(* All happens within one window of the limits and one lifetime of a       *)
(* stored answer (RateLimit and Idempotency follow those); what a service  *)
(* does is in the module of its component.  Each stage ends at an await,   *)
(* and the requests interleave there.                                      *)
(***************************************************************************)
EXTENDS Naturals, Sequences, FiniteSets

CONSTANTS
    Requests,   \* requests, each sent once; a retry is another one with the same key
    Texts,      \* what a body may hold for a challenge, an e-mail address or a phone:
                \* [id, spelled]; the service takes two spellings of an id for the same
    Keys,       \* Idempotency-Key headers with the scope sent beside them
                \* (x-idempotency-scope); without one a key is also bound to
                \* the address, the agent and the cookie
    None,
    Allowed,    \* rateLimitMax of the identifier limits
    MaxDeaths   \* bound: requests whose process dies

ASSUME ApiRoutesAssumption ==
    /\ IsFiniteSet(Requests)
    /\ None \notin Keys \cup Nat \cup Texts \cup {text.id : text \in Texts}
    /\ Allowed \in Nat /\ MaxDeaths \in Nat

VARIABLES
    route,      \* the route the requests are for
    started,    \* the sessions of the user are 1 .. started
    live,       \* those that auth() accepts
    req,        \* the requests
    stored,     \* the idempotency record of each key
    spent,      \* attempts within the limits: of which route and limit (rateLimitAction),
                \* for what, and the how-manieth
    deaths

apiVars == <<route, started, live, req, stored, spent, deaths>>

-----------------------------------------------------------------------------
(* The routes: ends tells whose sessions a success ends *)

BodyLimits == {"challenge", "email", "phone", "target"}
Limits == BodyLimits \cup {"user", "session-id", "action", "agent"}

Keyed(action, stages, ends) == [action |-> action, stages |-> stages, ends |-> ends, keyed |-> TRUE]
Plain(action, stages) == [action |-> action, stages |-> stages, ends |-> "none", keyed |-> FALSE]

Register == Keyed("register", <<"ip", "body", "email", "phone", "act">>, "none")
RegisterVerifyEmail == Keyed("register-verify-email", <<"ip", "body", "challenge", "act">>, "none")
RegisterVerifySms == Keyed("register-verify-sms", <<"ip", "body", "challenge", "act">>, "none")
RegisterRestart == Keyed("register-verify-restart", <<"ip", "body", "challenge", "act">>, "none")

LoginEmailStart == Keyed("login-email-start", <<"ip", "body", "email", "act">>, "none")
LoginEmailVerify == Keyed("login-email-verify", <<"ip", "body", "challenge", "act">>, "none")
LoginPhoneStart == Keyed("login-phone-start", <<"ip", "body", "phone", "act">>, "none")
LoginPhoneVerify == Keyed("login-phone-verify", <<"ip", "body", "challenge", "act">>, "none")
NextAuthPost == Plain("nextauth-post", <<"ip", "action", "act">>)

ForgotStart == Keyed("forgot-password-start", <<"ip", "body", "email", "act">>, "none")
ForgotVerifyEmail == Keyed("forgot-password-verify-email", <<"ip", "body", "challenge", "act">>, "none")
ForgotVerifySms == Keyed("forgot-password-verify-sms", <<"ip", "body", "challenge", "act">>, "none")
ForgotComplete == Keyed("forgot-password-complete", <<"ip", "body", "challenge", "act">>, "all")

\* A started or verified change of name: its draft token counts no wrong codes,
\* so the user's limit is what bounds them.
ProfileUpdate == Keyed("account-profile-update", <<"ip", "session", "user", "body", "act">>, "none")
ContactStart == Keyed("account-contact-change-start", <<"ip", "session", "body", "user", "target", "act">>, "none")
ContactVerifyEmail ==
    Keyed("account-contact-change-verify-email", <<"ip", "session", "body", "challenge", "user", "act">>, "none")
ContactVerifySms ==
    Keyed("account-contact-change-verify-sms", <<"ip", "session", "body", "challenge", "user", "act">>, "none")
ContactComplete ==
    Keyed("account-contact-change-complete", <<"ip", "session", "body", "challenge", "user", "act">>, "none")

DeleteStart == Keyed("account-delete-challenge-start", <<"ip", "session", "user", "body", "act">>, "none")
DeleteVerifyEmail ==
    Keyed("account-delete-verify-email", <<"ip", "session", "body", "challenge", "user", "act">>, "none")
DeleteVerifySms ==
    Keyed("account-delete-verify-sms", <<"ip", "session", "body", "challenge", "user", "act">>, "none")
DeleteAccount == Keyed("account-delete", <<"ip", "session", "user", "body", "schema", "challenge", "act">>, "all")

\* Takes the session from its cookie, whether or not auth() still accepts it
Logout == Keyed("logout", <<"ip", "session-id", "act">>, "own")
LogoutAll == Keyed("logout-all", <<"ip", "session", "user", "act">>, "all")

\* Answer 410 once the limits let them pass
DeprecatedRequest == Plain("deprecated-forgot-password-request", <<"ip", "agent">>)
DeprecatedReset == Plain("deprecated-forgot-password-reset", <<"ip", "agent">>)
DeprecatedVerifyEmail == Plain("deprecated-verify-email", <<"ip", "agent">>)

Routes ==
    {Register, RegisterVerifyEmail, RegisterVerifySms, RegisterRestart,
     LoginEmailStart, LoginEmailVerify, LoginPhoneStart, LoginPhoneVerify, NextAuthPost,
     ForgotStart, ForgotVerifyEmail, ForgotVerifySms, ForgotComplete,
     ProfileUpdate, ContactStart, ContactVerifyEmail, ContactVerifySms, ContactComplete,
     DeleteStart, DeleteVerifyEmail, DeleteVerifySms, DeleteAccount, Logout, LogoutAll,
     DeprecatedRequest, DeprecatedReset, DeprecatedVerifyEmail}

StagesOf(rt) == {rt.stages[i] : i \in DOMAIN rt.stages}

-----------------------------------------------------------------------------
(* A request: the route it is for, its key and the session of its cookie,  *)
(* the stages to do, the identifiers of its body, and what became of it    *)

Unsent ==
    [for |-> None, key |-> None, session |-> None, todo |-> <<>>, ids |-> <<>>,
     phase |-> "unsent", late |-> FALSE, ran |-> FALSE]

ApiInit ==
    /\ route \in Routes
    /\ started = 1 /\ live = {1}
    /\ req = [r \in Requests |-> Unsent]
    /\ stored = [k \in Keys |-> "free"]
    /\ spent = {}
    /\ deaths = 0

\* What is remembered of a request that is over
Over(r, phase) == IF req[r].ran THEN [req[r] EXCEPT !.phase = phase] ELSE [Unsent EXCEPT !.phase = phase]

Under(r, stage) == req[r].phase = "open" /\ req[r].todo # <<>> /\ Head(req[r].todo) = stage

Pass(r) == req' = [req EXCEPT ![r].todo = Tail(@)]
Refuse(r) == req' = [req EXCEPT ![r].phase = "refused", ![r].todo = <<>>, ![r].ids = <<>>]

-----------------------------------------------------------------------------
(* withIdempotency *)

\* A request whose key has an answer gets that answer; one whose key is in use
\* waits for it, and is turned away with 409 when that takes too long.
\* A request is late when its session had ended before it came.
Receive(r, rt, key, session) ==
    /\ req[r].phase = "unsent"
    /\ rt.keyed \/ key = None
    /\ LET state == IF key = None THEN "free" ELSE stored[key]
           phase == [free |-> "open", pending |-> "conflict", kept |-> "replayed"][state]
       IN /\ req' = [req EXCEPT ![r] = IF phase # "open" THEN [Unsent EXCEPT !.phase = phase]
                ELSE [Unsent EXCEPT !.for = rt, !.key = key, !.session = session, !.phase = phase,
                                    !.todo = rt.stages, !.late = session \notin live]]
          /\ stored' = [k \in Keys |-> IF k = key /\ state = "free" THEN "pending" ELSE stored[k]]
    /\ UNCHANGED <<route, started, live, spent, deaths>>

\* Whatever the answer, it is stored under the key.
Answer(r) ==
    /\ \/ req[r].phase \in {"refused", "acted"}
       \/ req[r].phase = "open" /\ req[r].todo = <<>>
    /\ req' = [req EXCEPT ![r] = Over(r, IF req[r].phase = "acted" THEN "done" ELSE "answered")]
    /\ stored' = [k \in Keys |-> IF k = req[r].key THEN "kept" ELSE stored[k]]
    /\ UNCHANGED <<route, started, live, spent, deaths>>

\* The process dies, or the handler throws: the key stays in use.
Die(r) ==
    /\ req[r].phase \in {"open", "refused", "acted"} /\ deaths < MaxDeaths
    /\ deaths' = deaths + 1
    /\ req' = [req EXCEPT ![r] = Over(r, "dead")]
    /\ UNCHANGED <<route, started, live, stored, spent>>

-----------------------------------------------------------------------------
(* The stages *)

\* Requests come from any number of addresses: the limit may refuse or not.
LimitAddress(r) ==
    /\ Under(r, "ip")
    /\ Pass(r) \/ Refuse(r)
    /\ UNCHANGED <<route, started, live, stored, spent, deaths>>

\* Faulty: the session of the cookie is taken as it is.
CheckSessionOfCookie(r) ==
    /\ Under(r, "session")
    /\ IF req[r].session # None THEN Pass(r) ELSE Refuse(r)
    /\ UNCHANGED <<route, started, live, stored, spent, deaths>>

CheckSession(r) ==
    /\ Under(r, "session")
    /\ IF req[r].session \in live THEN Pass(r) ELSE Refuse(r)
    /\ UNCHANGED <<route, started, live, stored, spent, deaths>>

\* The identifiers the later stages need, None where the body has no such text
ReadBody(r) ==
    /\ Under(r, "body")
    /\ \/ Refuse(r)
       \/ \E ids \in [BodyLimits \cap StagesOf(req[r].for) -> Texts \cup {None}] :
             req' = [req EXCEPT ![r].todo = Tail(@), ![r].ids = ids]
    /\ UNCHANGED <<route, started, live, stored, spent, deaths>>

Complete(r) == None \notin {req[r].ids[l] : l \in DOMAIN req[r].ids}

ParseSchema(r) ==
    /\ Under(r, "schema")
    /\ IF Complete(r) THEN Pass(r) ELSE Refuse(r)
    /\ UNCHANGED <<route, started, live, stored, spent, deaths>>

\* Faulty: the text is counted as it was sent, whatever the limit.
IdentifierAsSent(r, limit) ==
    CASE limit \in DOMAIN req[r].ids -> req[r].ids[limit]
      [] limit = "session-id" -> req[r].session
      [] OTHER -> limit

\* What a limit counts by, None when there is no such text.  A challenge, an
\* e-mail address and a phone are normalised as the service does; the target of
\* a contact change is counted as it was sent.
Identifier(r, limit) ==
    LET sent == IdentifierAsSent(r, limit)
    IN IF limit \in DOMAIN req[r].ids /\ limit # "target" /\ sent # None THEN sent.id ELSE sent

Spent(action, limit, id) ==
    Cardinality({a \in spent : a[1] = action /\ a[2] = limit /\ a[3] = id})

\* Without an identifier the limit is passed over.  Each route counts for itself.
LimitIdentifier(r) ==
    /\ req[r].phase = "open" /\ req[r].todo # <<>>
    /\ LET action == req[r].for.action
           limit == Head(req[r].todo)
           id == Identifier(r, limit)
           before == Spent(action, limit, id)
       IN /\ limit \in Limits
          /\ IF limit \in BodyLimits /\ id = None
             THEN Pass(r) /\ UNCHANGED spent
             ELSE IF before < Allowed
             THEN Pass(r) /\ spent' = spent \cup {<<action, limit, id, before + 1>>}
             ELSE Refuse(r) /\ UNCHANGED spent
    /\ UNCHANGED <<route, started, live, stored, deaths>>

Ended(r) ==
    CASE req[r].for.ends = "all" -> live
      [] req[r].for.ends = "own" -> {req[r].session}
      [] OTHER -> {}

\* The service refuses an incomplete body before anything else.  What it does
\* with a complete one may come to nothing, but has cost an attempt.
Act(r) ==
    /\ Under(r, "act")
    /\ \/ /\ Complete(r)
          /\ req' = [req EXCEPT ![r].phase = "acted", ![r].todo = <<>>, ![r].ran = TRUE]
          /\ live' = live \ Ended(r)
       \/ /\ req' = [req EXCEPT ![r].phase = "refused", ![r].todo = <<>>, ![r].ran = Complete(r)]
          /\ UNCHANGED live
    /\ UNCHANGED <<route, started, stored, spent, deaths>>

Handle(r) ==
    \/ LimitAddress(r) \/ CheckSession(r) \/ ReadBody(r) \/ ParseSchema(r)
    \/ LimitIdentifier(r) \/ Act(r) \/ Answer(r) \/ Die(r)

\* Beside the requests for the route there may be one that ends every session.
Send(r) ==
    \E session \in (1..started) \cup {None} :
        \/ \E key \in Keys \cup {None} : Receive(r, route, key, session)
        \/ Receive(r, LogoutAll, None, session)

ApiNext == \E r \in Requests : Send(r) \/ Handle(r)

-----------------------------------------------------------------------------
(* Properties *)

Ran(rt) == {r \in Requests : req[r].ran /\ req[r].for = rt}

\* "Identifier + IP based auth rate-limiting" (README.md:65): in one window the
\* service runs no more often for a challenge, an address, a phone or a user than
\* its limit allows, from however many addresses, under however many keys and
\* however the identifier is written (the POST handlers).  The target of a contact
\* change is left out: it is counted by a text that need not be the one acted on.
RunsWithinLimits ==
    /\ \A l \in (BodyLimits \cap StagesOf(route)) \ {"target"} : \A id \in {text.id : text \in Texts} :
          Cardinality({r \in Ran(route) : req[r].ids[l].id = id}) <= Allowed
    /\ "user" \in StagesOf(route) => Cardinality(Ran(route)) <= Allowed

AccountRoutes ==
    {ProfileUpdate, ContactStart, ContactVerifyEmail, ContactVerifySms, ContactComplete,
     DeleteStart, DeleteVerifyEmail, DeleteVerifySms, DeleteAccount, LogoutAll}

\* Once a session has ended, whichever request ended it and however it interleaved
\* with others, no request that comes later acts on the account by its cookie, nor
\* by a body or a key that an earlier request of it used (the account routes).
LateRequestsDoNothing ==
    \A r \in Requests : (req[r].late /\ req[r].for \in AccountRoutes) => ~req[r].ran

===============================================================================
