------------------------------- MODULE MCBrowser -------------------------------
(* A browser: its session cookie under concurrent requests, or one of the      *)
(* dialogs.  The two share no state, so a behaviour is of the one or the other: *)
(* dialog says which dialog, or None.                                             *)
EXTENDS AccountSessions

CONSTANTS Slots, Dialogs, MaxFaults, MaxDetours

VARIABLES dialog, form, server, flight, astray, faults, detours

formVars == <<dialog, form, server, flight, astray, faults, detours>>

Form == INSTANCE AccountForms

AllDialogs == {None, "login", "register", "recovery", "contact", "deletion"}

BrowserInit == Init /\ Form!Init

BrowserNext ==
    \/ dialog = None /\ Next /\ UNCHANGED formVars
    \/ dialog # None /\ Form!Next /\ UNCHANGED vars

\* The fairness of AccountForms, for the behaviours that have a dialog.
BrowserSpec ==
    /\ BrowserInit /\ [][BrowserNext]_<<vars, formVars>>
    /\ WF_formVars(dialog # None /\ Form!Persists)
    /\ WF_formVars(dialog # None /\ Form!Expires)
    /\ \A s \in Slots : WF_formVars(dialog # None /\ (Form!Server(s) \/ Form!Refuse(s)))

\* A dialog asks for what the server expects (FormFits of AccountForms).
FormFits == dialog # None => Form!FormFits

\* A person who goes on gets to the end of a dialog (GetsThrough of AccountForms).
GetsThrough == dialog # None => Form!GetsThrough
===============================================================================
