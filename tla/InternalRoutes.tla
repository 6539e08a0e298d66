----------------------------- MODULE InternalRoutes -----------------------------
(***************************************************************************)
(* The two internal routes, which run for signed requests: the dispatch of *)
(* notifications, called by a timer, and the record of a request that the  *)
(* edge proxy turned away.  The network may deliver a request late, twice  *)
(* or never.  Whether a request id was used before is told by a rate limit *)
(* of one attempt, and by nothing else.                                    *)
(***************************************************************************)
EXTENDS RateLimit

CONSTANTS
    Messages,       \* signed requests: <<route, id>>
    MaxSkew,        \* maxSkewSeconds of a signed timestamp
    MaxDeliveries   \* bound of the model

\* Both replay limits allow one attempt (the two routes).
ASSUME InternalRoutesAssumption ==
    /\ \A m \in Messages : m[1] \in {"dispatch", "event"} /\ m = <<m[1], m[2]>>
    /\ {"dispatch-replay", "event-replay", "event-request"} \subseteq DOMAIN Window
    /\ Max["dispatch-replay"] = 1 /\ Max["event-replay"] = 1
    /\ MaxDeliveries \in Nat /\ MaxSkew \in Nat
    /\ None \notin Nat

VARIABLES
    signed,         \* when each request was signed, None before that is asked
    req,            \* requests under way
    deliveries,
    ran             \* what was run, in order: of which request, and its first attempt

vars == <<limitVars, signed, req, deliveries, ran>>

Idle == [msg |-> None, step |-> "idle", store |-> None, at |-> 0]

Init ==
    /\ LimitInit
    /\ signed = [m \in Messages |-> None] /\ deliveries = 0 /\ ran = <<>>
    /\ req = [s \in Slots |-> Idle]

ReplayLimit == [dispatch |-> "dispatch-replay", event |-> "event-replay"]

Answer(s) ==
    /\ req' = [req EXCEPT ![s] = Idle]
    /\ call' = [call EXCEPT ![s] = NoCall]

Run(m, store, at) == ran' = Append(ran, [msg |-> m, store |-> store, at |-> at])

UnchangedAround == UNCHANGED <<now, attempts, redis, faults, signed, deliveries, ran>>

-----------------------------------------------------------------------------
(* The guard of both routes *)

\* The latest it may have been signed, which keeps it fresh for longest
SignedAt(m) == IF signed[m] = None THEN now ELSE signed[m]

IsFreshTimestamp(ts) == now - ts <= MaxSkew /\ ts - now <= MaxSkew

\* Faulty: both routes spend the ids of one limit.
CheckReplayShared(s, m) ==
    /\ Begin(s, IdentifierChecks("event-replay", m[2]))
    /\ req' = [req EXCEPT ![s] = [Idle EXCEPT !.msg = m, !.step = "replay"]]

CheckReplay(s, m) ==
    /\ Begin(s, IdentifierChecks(ReplayLimit[m[1]], m[2]))
    /\ req' = [req EXCEPT ![s] = [Idle EXCEPT !.msg = m, !.step = "replay"]]

\* A fresh request that passes the limit of its address, the tests of its
\* token, signature, source and transport and, for a dispatch, that of its
\* empty body.  One that does not is refused and changes nothing here.
VerifyInternalRequest(s, m) ==
    /\ req[s] = Idle /\ deliveries < MaxDeliveries
    /\ deliveries' = deliveries + 1
    /\ IsFreshTimestamp(SignedAt(m))
    /\ signed' = [signed EXCEPT ![m] = SignedAt(m)]
    /\ CheckReplay(s, m)
    /\ UNCHANGED <<now, attempts, redis, faults, ran>>

\* As a replay, or an event by its own limit
Refuse(s) ==
    /\ call[s].step = "denied"
    /\ Answer(s)
    /\ UnchangedAround

-----------------------------------------------------------------------------
(* The handlers *)

\* The batch, whose steps are those of NotificationOutbox
DispatchBatch(s) ==
    /\ req[s].step = "replay" /\ call[s].step = "allowed" /\ req[s].msg[1] = "dispatch"
    /\ Run(req[s].msg, call[s].store, call[s].at)
    /\ Answer(s)
    /\ UNCHANGED <<now, attempts, redis, faults, signed, deliveries>>

\* A body that does not fit the schema is refused after its id was used up.
ParseSecurityEvent(s) ==
    /\ req[s].step = "replay" /\ call[s].step = "allowed" /\ req[s].msg[1] = "event"
    /\ \/ Answer(s)
       \/ /\ req' = [req EXCEPT ![s].step = "event", ![s].store = call[s].store, ![s].at = call[s].at]
          /\ Begin(s, IdentifierChecks("event-request", req[s].msg[2]))
    /\ UnchangedAround

RecordSecurityEvent(s) ==
    /\ req[s].step = "event" /\ call[s].step = "allowed"
    /\ Run(req[s].msg, req[s].store, req[s].at)
    /\ Answer(s)
    /\ UNCHANGED <<now, attempts, redis, faults, signed, deliveries>>

\* The process of a request dies.
Fail(s) ==
    /\ req[s] # Idle
    /\ Fault /\ Answer(s)
    /\ UNCHANGED <<now, attempts, redis, signed, deliveries, ran>>

Handle(s) ==
    \/ CheckRateLimit(s) /\ UNCHANGED <<signed, req, deliveries, ran>>
    \/ Refuse(s)
    \/ \E m \in Messages : VerifyInternalRequest(s, m)
    \/ DispatchBatch(s)
    \/ ParseSecurityEvent(s)
    \/ RecordSecurityEvent(s)
    \/ Fail(s)

Next ==
    \/ \E s \in Slots : Handle(s)
    \/ Tick /\ UNCHANGED <<signed, req, deliveries, ran>>

Spec == Init /\ [][Next]_vars

-----------------------------------------------------------------------------
(* Properties *)

TypeOK ==
    /\ LimitTypeOK
    /\ signed \in [Messages -> (0..MaxTime) \cup {None}]
    /\ deliveries \in 0..MaxDeliveries
    /\ \A s \in Slots :
          /\ req[s].step \in {"idle", "replay", "event"}
          /\ req[s].step = "idle" <=> req[s] = Idle
          /\ req[s].step = "idle" <=> call[s] = NoCall
    /\ \A i \in DOMAIN ran : signed[ran[i].msg] # None /\ ran[i].store \in {"redis", "db"}

\* "single-use replay window via identifier limiter" (CHANGELOG.md:1791): of the
\* deliveries of one signed request two may run only when a window has passed
\* between them, or when the counters changed place and the second one had not
\* counted the first (DispatchBatch, RecordSecurityEvent).
OneRunPerWindow ==
    \A i, j \in DOMAIN ran :
        (i < j /\ ran[i].msg = ran[j].msg)
            => \/ ran[i].store # ran[j].store
               \/ ran[j].at - ran[i].at >= Window[ReplayLimit[ran[i].msg[1]]] - MaxDelay
               \/ ran[i].at - ran[j].at >= Window[ReplayLimit[ran[i].msg[1]]] - MaxDelay

\* While no part fails, a dispatch is turned away as a replay only if another
\* delivery of it ran or is about to: one delivery out of each gets through.
ReplayExplained ==
    \A s \in Slots :
        LET m == req[s].msg IN
        (req[s].step = "replay" /\ call[s].step = "denied" /\ m[1] = "dispatch" /\ faults = 0)
            => \/ \E i \in DOMAIN ran : ran[i].msg = m
               \/ \E o \in Slots \ {s} :
                     req[o].msg = m /\ req[o].step = "replay" /\ call[o].store # None
=============================================================================
