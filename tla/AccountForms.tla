---------------------------- MODULE AccountForms ----------------------------
(***************************************************************************)
(* The five dialogs that lead a person through a verification: sign-in     *)
(* (by e-mail or by phone), registration, password recovery, change of the *)
(* phone number and deletion of the account.  Each is a React component    *)
(* that keeps a step, the id of its challenge and an `isSubmitting' flag,  *)
(* and sends one request per step.  A handler is cut at its await: its     *)
(* first disjunct runs from the click to the request, its second one from  *)
(* the answer to the last setState.  In between the person may go back,    *)
(* close the dialog or change the mode, the request may time out while the *)
(* server still works on it, and answers may cross.                        *)
(*                                                                         *)
(* The server's side is the contract of LoginChallenge, AccountChallenges  *)
(* and Registration as a browser sees it: one open challenge of a mode,    *)
(* the latest, and the request it expects next.                            *)
(***************************************************************************)
EXTENDS Naturals

CONSTANTS
    Slots,      \* requests the browser may have under way at once
    Dialogs,    \* the dialogs to look at
    MaxFaults,  \* time-outs, failed answers, mistyped codes, late persons
    MaxDetours  \* moves of the person that nothing called for

VARIABLES
    dialog,     \* which dialog this is
    form,       \* the component's state, and whether `Back' has led to its step
    server,     \* the open challenge of each mode, and whether all is done
    flight,     \* the requests under way
    astray,     \* the form may have lost track of the server
    faults, detours

vars == <<dialog, form, server, flight, astray, faults, detours>>

Modes == {"email", "phone"}       \* phone is used by the sign-in only
NoRequest == [ask |-> "nothing"]
Closed == [id |-> 0, expects |-> "start"]

Fresh ==
    [mode |-> "email", step |-> [m \in Modes |-> "details"], challenge |-> 0,
     token |-> 0, clock |-> "none", busy |-> FALSE, refused |-> FALSE, back |-> FALSE]

Init ==
    /\ dialog \in Dialogs
    /\ form = Fresh
    /\ server = [open |-> [m \in Modes |-> Closed], issued |-> 0, done |-> FALSE]
    /\ flight = [s \in Slots |-> NoRequest]
    /\ astray = FALSE
    /\ faults = 0
    /\ detours = 0

Step == form.step[form.mode]
RanOut == Step \in {"firstCode", "secondCode"} /\ form.clock = "out"
Idle(s) == flight[s] = NoRequest
Waiting == \E s \in Slots : ~Idle(s)

\* What a person does who has no reason to is a detour, and they are few.
MayDetour(needless) ==
    /\ needless => detours < MaxDetours
    /\ detours' = IF needless THEN detours + 1 ELSE detours

MayFail == faults < MaxFaults /\ faults' = faults + 1

-----------------------------------------------------------------------------
(* The two halves of a handler.                                            *)

\* Faulty: without `if (isSubmitting) return', every click sends.
SendsOnEveryClick(s, ask, f) ==
    /\ Idle(s)
    /\ flight' = [flight EXCEPT ![s] =
          [ask |-> ask, mode |-> f.mode, challenge |-> f.challenge, token |-> f.token,
           answered |-> FALSE, reply |-> 0, deaf |-> FALSE, alone |-> ~Waiting]]
    /\ form' = [f EXCEPT !.busy = TRUE, !.refused = FALSE]
    /\ UNCHANGED <<dialog, server, astray, faults, detours>>

\* From the click to the request: nothing while `isSubmitting' is set.
\* `f' is the form as the click leaves it.  To send again at once what has
\* just been refused is a detour (the first step has nothing else to offer),
\* and so is going on after an error while an older request is still under way,
\* which fetchWithTimeout ends after 15 seconds.
Sends(s, ask, f) ==
    /\ ~form.busy
    /\ Idle(s)
    /\ flight' = [t \in Slots |->
          IF t = s THEN [ask |-> ask, mode |-> f.mode, challenge |-> f.challenge,
                         token |-> f.token, answered |-> FALSE, reply |-> 0,
                         deaf |-> FALSE, alone |-> ~Waiting]
          ELSE IF Idle(t) THEN NoRequest ELSE [flight[t] EXCEPT !.alone = FALSE]]
    /\ form' = [f EXCEPT !.busy = TRUE, !.refused = FALSE]
    /\ MayDetour(form.refused /\ (Step = ask \/ Waiting))
    /\ UNCHANGED <<dialog, server, astray, faults>>

\* A code or a confirmation needs a challenge; without one the dialog says so,
\* or does nothing.
SendsFrom(step, s) ==
    /\ Step = step
    /\ step # "confirm" => form.clock # "out"
    /\ IF form.challenge # 0 /\ (step = "confirm" => form.token # 0)
       THEN Sends(s, step, form)
       ELSE /\ ~form.busy /\ ~form.refused
            /\ form' = [form EXCEPT !.refused = TRUE]
            /\ UNCHANGED <<dialog, server, flight, astray, faults, detours>>

\* From the answer to the end: an error is shown and the form stays as it is
\* now, or it becomes `f'.  Whichever, `isSubmitting' is cleared.
Answered(s, ask, f) ==
    /\ flight[s].ask = ask
    /\ ~flight[s].deaf /\ flight[s].answered
    /\ flight' = [flight EXCEPT ![s] = NoRequest]
    /\ form' = IF flight[s].reply = 0
               THEN [form EXCEPT !.busy = FALSE, !.refused = TRUE]
               ELSE [f EXCEPT !.busy = FALSE]
    /\ astray' = (astray /\ ~(/\ ask \in {"start", "restart"} /\ flight[s].reply # 0
                              /\ flight[s].mode = form.mode /\ flight[s].alone))
    /\ UNCHANGED <<dialog, server, faults, detours>>

\* The form after a new challenge, after an accepted code and at the end.
Started(s) ==
    [form EXCEPT !.challenge = flight[s].reply, !.clock = "running",
                 !.step[flight[s].mode] = "firstCode", !.back = FALSE]
Moved(step) == [form EXCEPT !.step[form.mode] = step, !.back = FALSE]
AskingSecond == [Moved("secondCode") EXCEPT !.clock = "running"]
Tokened(s) == [Moved("confirm") EXCEPT !.token = flight[s].reply]

\* A button that leads back, at any time; not called for unless the way
\* forward is closed and nothing is under way.
Leaves(f) ==
    /\ form' = f
    /\ MayDetour(Waiting \/ (~form.refused /\ ~RanOut))
    /\ UNCHANGED <<dialog, server, flight, faults>>

\* Faulty: a catch that forgets setIsSubmitting(false).
TimesOutBusy(s) ==
    /\ ~Idle(s) /\ ~flight[s].deaf
    /\ MayFail
    /\ flight' = [flight EXCEPT ![s] =
          IF flight[s].answered THEN NoRequest ELSE [flight[s] EXCEPT !.deaf = TRUE]]
    /\ form' = [form EXCEPT !.refused = TRUE]
    /\ astray' = TRUE
    /\ UNCHANGED <<dialog, server, detours>>

\* fetchWithTimeout gives up and the handler's catch clears the flag; the
\* server may not have seen the request yet, or be at it still.
TimesOut(s) ==
    /\ ~Idle(s) /\ ~flight[s].deaf
    /\ MayFail
    /\ flight' = [flight EXCEPT ![s] =
          IF flight[s].answered THEN NoRequest ELSE [flight[s] EXCEPT !.deaf = TRUE]]
    /\ form' = [form EXCEPT !.busy = FALSE, !.refused = TRUE]
    /\ astray' = TRUE
    /\ UNCHANGED <<dialog, server, detours>>

\* The countdown under a code reaches zero.
Expires ==
    /\ Step \in {"firstCode", "secondCode"} /\ form.clock = "running"
    /\ form' = [form EXCEPT !.clock = "out"]
    /\ IF form.refused THEN UNCHANGED faults ELSE MayFail
    /\ UNCHANGED <<dialog, server, flight, astray, detours>>

-----------------------------------------------------------------------------
(* Sign-in.                                                                *)

LoginStart(m, s) ==
    /\ dialog = "login"
    /\ \/ /\ form.mode = m
          /\ Step = "details" \/ (Step = "firstCode" /\ RanOut)
          /\ Sends(s, "start", form)
       \/ flight[s].ask = "start" /\ flight[s].mode = m /\ Answered(s, "start", Started(s))
StartEmailChallenge(s) == LoginStart("email", s)
StartPhoneChallenge(s) == LoginStart("phone", s)

\* An accepted code is followed by the sign-in in the same handler, whatever
\* has become of the form.
LoginVerify(m, s) ==
    /\ dialog = "login"
    /\ \/ form.mode = m /\ SendsFrom("firstCode", s)
       \/ /\ flight[s].ask = "firstCode" /\ flight[s].mode = m
          /\ ~flight[s].deaf /\ flight[s].answered
          /\ IF flight[s].reply = 0
             THEN Answered(s, "firstCode", form)
             ELSE /\ flight' = [flight EXCEPT ![s] =
                        [@ EXCEPT !.ask = "confirm", !.token = flight[s].reply,
                                  !.answered = FALSE, !.reply = 0]]
                  /\ UNCHANGED <<dialog, form, server, astray, faults, detours>>
VerifyLoginEmail(s) == LoginVerify("email", s)
VerifyLoginPhone(s) == LoginVerify("phone", s)

SignInWithToken(s) == dialog = "login" /\ Answered(s, "confirm", Moved("success"))

\* A tab is clicked, also under a request.
ResetFlowState ==
    /\ dialog = "login" /\ Step # "success"
    /\ \E m \in Modes : form' = [Fresh EXCEPT !.mode = m]
    /\ MayDetour(TRUE)
    /\ astray' = (astray \/ Waiting)
    /\ UNCHANGED <<dialog, server, flight, faults>>

\* `Back' under the code; the flag stays as it is.
LoginBack ==
    /\ dialog = "login" /\ Step = "firstCode"
    /\ Leaves([form EXCEPT !.challenge = 0, !.clock = "none", !.refused = FALSE,
                           !.step[form.mode] = "details"])
    /\ astray' = (astray \/ Waiting)

-----------------------------------------------------------------------------
(* Registration.  There is no way back from the codes; an expired one lets *)
(* the person restart the challenge the form knows.                        *)

SubmitRegistration(s) ==
    /\ dialog = "register"
    /\ \/ Step = "details" /\ Sends(s, "start", form)
       \/ Answered(s, "start", Started(s))

RestartVerificationFlow(s) ==
    /\ dialog = "register"
    /\ \/ /\ RanOut
          /\ Sends(s, "restart", form)
       \/ Answered(s, "restart", Started(s))

RegisterVerifyEmail(s) ==
    /\ dialog = "register"
    /\ SendsFrom("firstCode", s) \/ Answered(s, "firstCode", AskingSecond)

RegisterVerifySms(s) ==
    /\ dialog = "register"
    /\ SendsFrom("secondCode", s) \/ Answered(s, "secondCode", Moved("success"))

-----------------------------------------------------------------------------
(* Password recovery.  `Back' moves one step and keeps all the rest; the   *)
(* server is not told, and refuses the code of a step that is over.        *)

RequestEmailCode(s) ==
    /\ dialog = "recovery"
    /\ \/ /\ Step = "details" \/ (Step = "firstCode" /\ RanOut)
          /\ Sends(s, "start", form)
       \/ Answered(s, "start", Started(s))

RecoveryVerifyEmail(s) ==
    /\ dialog = "recovery"
    /\ SendsFrom("firstCode", s) \/ Answered(s, "firstCode", AskingSecond)

RecoveryVerifySms(s) ==
    /\ dialog = "recovery"
    /\ SendsFrom("secondCode", s) \/ Answered(s, "secondCode", Tokened(s))

CompleteReset(s) ==
    /\ dialog = "recovery"
    /\ SendsFrom("confirm", s) \/ Answered(s, "confirm", Moved("success"))

RecoveryBack ==
    /\ dialog = "recovery"
    /\ \E move \in {<<"firstCode", "details">>, <<"secondCode", "firstCode">>,
                    <<"confirm", "secondCode">>} :
          /\ Step = move[1]
          /\ Leaves([form EXCEPT !.step.email = move[2], !.back = TRUE])
    /\ astray' = (astray \/ Waiting)

\* `Restart' under an expired SMS code; the flag stays as it is.
RecoveryRestart ==
    /\ dialog = "recovery" /\ Step = "secondCode" /\ RanOut
    /\ Leaves([form EXCEPT !.step.email = "details", !.challenge = 0, !.token = 0,
                           !.clock = "none"])
    /\ astray' = (astray \/ Waiting)

\* Closed and opened again, the modal is a new component (its key changes):
\* nobody hears the old one's answers.
RecoveryReopen ==
    /\ dialog = "recovery" /\ Step # "success"
    /\ MayDetour(TRUE)
    /\ form' = Fresh
    /\ flight' = [s \in Slots |-> IF Idle(s) \/ flight[s].answered THEN NoRequest
                                  ELSE [flight[s] EXCEPT !.deaf = TRUE]]
    /\ astray' = (astray \/ Waiting)
    /\ UNCHANGED <<dialog, server, faults>>

-----------------------------------------------------------------------------
(* Change of the phone number.  `Back', `Restart' and closing the modal    *)
(* are one reset, which clears the flag under a request as well.           *)

StartFlow(s) ==
    /\ dialog = "contact"
    /\ \/ Step = "details" /\ Sends(s, "start", form)
       \/ Answered(s, "start", Started(s))

VerifyEmailStep(s) ==
    /\ dialog = "contact"
    /\ SendsFrom("firstCode", s) \/ Answered(s, "firstCode", AskingSecond)

VerifySmsStep(s) ==
    /\ dialog = "contact"
    /\ SendsFrom("secondCode", s) \/ Answered(s, "secondCode", Tokened(s))

CompleteFlow(s) ==
    /\ dialog = "contact"
    /\ SendsFrom("confirm", s) \/ Answered(s, "confirm", Fresh)

ResetFlow ==
    /\ dialog = "contact" /\ form # Fresh
    /\ Leaves(Fresh)
    /\ astray' = (astray \/ Waiting)

-----------------------------------------------------------------------------
(* Deletion of the account.                                                *)

\* A new code is asked for under an expired one: the flow is reset and started
\* in one click.
RequestDeleteEmailCode(s) ==
    /\ dialog = "deletion"
    /\ \/ Step = "details" /\ Sends(s, "start", form)
       \/ RanOut /\ ~form.busy /\ Sends(s, "start", Fresh)
       \/ Answered(s, "start", Started(s))

VerifyDeleteEmailCode(s) ==
    /\ dialog = "deletion"
    /\ SendsFrom("firstCode", s) \/ Answered(s, "firstCode", AskingSecond)

VerifyDeleteSmsCode(s) ==
    /\ dialog = "deletion"
    /\ SendsFrom("secondCode", s) \/ Answered(s, "secondCode", Tokened(s))

CompleteDeleteAccount(s) ==
    /\ dialog = "deletion"
    /\ SendsFrom("confirm", s) \/ Answered(s, "confirm", Fresh)

\* `Cancel' is disabled under a request, Escape and the cross are not.
HandleDeleteModalChange ==
    /\ dialog = "deletion" /\ form # Fresh
    /\ Leaves(Fresh)
    /\ astray' = (astray \/ Waiting)

-----------------------------------------------------------------------------
(* The server: the latest challenge of a mode is the open one, and it      *)
(* takes its requests in order, each once.                                 *)

Expected(m) == server.open[m].expects
AfterFirst == IF dialog = "login" THEN "confirm" ELSE "secondCode"
AfterSecond == IF dialog = "register" THEN "success" ELSE "confirm"

\* The handler has done its work; its answer may still be an error.
Answer(s, reply) ==
    IF flight[s].deaf
    THEN flight' = [flight EXCEPT ![s] = NoRequest] /\ UNCHANGED <<astray, faults>>
    ELSE \/ /\ flight' = [flight EXCEPT ![s].answered = TRUE, ![s].reply = reply]
            /\ UNCHANGED <<astray, faults>>
         \/ /\ reply # 0 /\ MayFail
            /\ flight' = [flight EXCEPT ![s].answered = TRUE]
            /\ astray' = TRUE

Pending(s, asks) == flight[s].ask \in asks /\ ~flight[s].answered

\* A start replaces the open challenge; a restart needs the open one.
StartChallenge(s) ==
    /\ Pending(s, {"start", "restart"})
    /\ LET m == flight[s].mode
           id == server.issued + 1
           ok == /\ ~server.done
                 /\ flight[s].ask = "restart" => flight[s].challenge = server.open[m].id
       IN IF ok
          THEN /\ server' = [server EXCEPT !.issued = id,
                                           !.open[m] = [id |-> id, expects |-> "firstCode"]]
               /\ Answer(s, id)
          ELSE UNCHANGED server /\ Answer(s, 0)
    /\ UNCHANGED <<dialog, form, detours>>

\* A code is taken from the challenge it was sent for.
VerifyCode(s, ask, next) ==
    /\ Pending(s, {ask})
    /\ LET m == flight[s].mode
           ok == /\ ~server.done /\ Expected(m) = ask
                 /\ flight[s].challenge = server.open[m].id
       IN IF ok
          THEN /\ server' = [server EXCEPT !.open[m].expects = next,
                                           !.done = (next = "success")]
               /\ Answer(s, flight[s].challenge)
          ELSE UNCHANGED server /\ Answer(s, 0)
    /\ UNCHANGED <<dialog, form, detours>>
VerifyFirstCode(s) == VerifyCode(s, "firstCode", AfterFirst)
VerifySecondCode(s) == VerifyCode(s, "secondCode", AfterSecond)

\* The token is the one of the open challenge.
Complete(s) ==
    /\ Pending(s, {"confirm"})
    /\ LET m == flight[s].mode
           ok == /\ ~server.done /\ Expected(m) = "confirm"
                 /\ flight[s].challenge = server.open[m].id
                 /\ flight[s].token = flight[s].challenge
       IN IF ok
          THEN server' = [server EXCEPT !.done = TRUE] /\ Answer(s, flight[s].token)
          ELSE UNCHANGED server /\ Answer(s, 0)
    /\ UNCHANGED <<dialog, form, detours>>

\* A mistyped code, a limit, a database that is away, or a request that never
\* arrives.  A sign-in that fails leaves the form at the code it has used up.
Refuse(s) ==
    /\ ~Idle(s) /\ ~flight[s].answered
    /\ IF flight[s].deaf
       THEN flight' = [flight EXCEPT ![s] = NoRequest] /\ UNCHANGED faults
       ELSE MayFail /\ flight' = [flight EXCEPT ![s].answered = TRUE]
    /\ astray' = (astray \/ (dialog = "login" /\ flight[s].ask = "confirm"))
    /\ UNCHANGED <<dialog, form, server, detours>>

-----------------------------------------------------------------------------
Handler(s) ==
    \/ StartEmailChallenge(s) \/ StartPhoneChallenge(s)
    \/ VerifyLoginEmail(s) \/ VerifyLoginPhone(s) \/ SignInWithToken(s)
    \/ SubmitRegistration(s) \/ RestartVerificationFlow(s)
    \/ RegisterVerifyEmail(s) \/ RegisterVerifySms(s)
    \/ RequestEmailCode(s) \/ RecoveryVerifyEmail(s) \/ RecoveryVerifySms(s)
    \/ CompleteReset(s)
    \/ StartFlow(s) \/ VerifyEmailStep(s) \/ VerifySmsStep(s) \/ CompleteFlow(s)
    \/ RequestDeleteEmailCode(s) \/ VerifyDeleteEmailCode(s)
    \/ VerifyDeleteSmsCode(s) \/ CompleteDeleteAccount(s)

WayBack ==
    \/ ResetFlowState \/ LoginBack \/ RecoveryBack \/ RecoveryRestart
    \/ RecoveryReopen \/ ResetFlow \/ HandleDeleteModalChange

Server(s) ==
    StartChallenge(s) \/ VerifyFirstCode(s) \/ VerifySecondCode(s) \/ Complete(s)

Next ==
    \/ \E s \in Slots : Handler(s) \/ Server(s) \/ Refuse(s) \/ TimesOut(s)
    \/ WayBack
    \/ Expires

Spec == Init /\ [][Next]_vars

\* A person who does not give up, a clock that runs, requests that arrive or
\* are lost, and components that get the answers.
Persists == ((\E s \in Slots : Handler(s)) \/ WayBack) /\ detours' = detours
Fairness ==
    /\ WF_vars(Persists)
    /\ WF_vars(Expires)
    /\ \A s \in Slots : WF_vars(Server(s) \/ Refuse(s))

FairSpec == Spec /\ Fairness

-----------------------------------------------------------------------------
\* A step that comes before the one the server is at
Before(step, expects) ==
    <<step, expects>> \in
        {<<"firstCode", "secondCode">>, <<"firstCode", "confirm">>, <<"secondCode", "confirm">>}

\* With nothing under way, a form that asks for a code or a confirmation does so
\* for the open challenge and with the token of that challenge, and it asks for
\* what the server expects, unless an answer was lost or a request was left behind;
\* and it does so again after the next start.  One button is an exception: `Back'
\* in the forgot-password dialog, after which the dialog asks again for a code
\* that the server has taken and now refuses (password-reset-challenge.ts:284),
\* until the next answer that is accepted.
FormFits ==
    (~astray /\ ~Waiting /\ ~server.done /\ Step \notin {"details", "success"}) =>
        /\ Step = Expected(form.mode) \/ (form.back /\ Before(Step, Expected(form.mode)))
        /\ form.challenge = server.open[form.mode].id
        /\ Step = "confirm" => form.token = form.challenge

\* The registration form holds a challenge that its restart has replaced; it
\* has no way back, so only a reload of the page helps.
Stranded ==
    /\ dialog = "register"
    /\ Step \in {"firstCode", "secondCode"}
    /\ form.challenge # server.open.email.id

\* Whatever answers are lost, late or crossing, a person who goes on gets to
\* the end of every dialog; the one exception is the registration form that
\* has lost the answer to a restart.
GetsThrough == <>server.done \/ <>[]Stranded

=============================================================================
