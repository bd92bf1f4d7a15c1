------------------------------- MODULE Power -------------------------------
(***************************************************************************)
(* platform/power.c: the client side of the console's Power State Control  *)
(* (PSC), together with the PSC service it talks to.                       *)
(*                                                                         *)
(* PSC is external.  From the way power.c uses it: it asks one thing at a  *)
(* time, signals an auto-clearing event, and waits for the acknowledgement *)
(* before it asks again.  Nothing else is assumed: any request may follow  *)
(* any other.                                                              *)
(*                                                                         *)
(* The operators below are the functions of power.c; a result is a         *)
(* parameter.  Each leaves the variables it does not name to its caller.   *)
(***************************************************************************)
EXTENDS Naturals

CONSTANTS
    PscRequests,           \* the PscPmState values the console may ask for
    MaxGetRequestFailures  \* bound: pscPmModuleGetRequest calls that fail

SleepStates == {"ReadySleep", "ReadySleepCritical", "ReadyShutdown"}
WakeStates  == {"ReadyAwaken", "ReadyAwakenCritical", "Awake"}
PscStates   == SleepStates \cup WakeStates

ASSUME PowerAssumption ==
    /\ PscRequests \subseteq PscStates
    /\ MaxGetRequestFailures \in Nat

NoRequest    == "NoRequest"
PowerEvents  == {"None", "Sleep", "Wake"}
PowerActions == {"Sleep", "Restart", "PowerOff"}

VARIABLES
    psc_state,        \* external: the last state acknowledged to PSC
    psc_request,      \* external: the request PSC waits on, or NoRequest
    psc_event,        \* external: the module event is signalled
    get_failures,     \* failed pscPmModuleGetRequest calls so far
    g_pending_state,  \* the last request read
    g_deferred,       \* an event power_sleep_requested read, not yet polled
    g_scheduled       \* the agent's power action, "None" when there is none

pscVars   == <<psc_state, psc_request, psc_event>>
pollVars  == <<psc_event, get_failures, g_pending_state>>
powerVars == <<pscVars, get_failures, g_pending_state, g_deferred, g_scheduled>>

PowerRanges ==
    /\ psc_state \in PscStates
    /\ psc_request \in PscStates \cup {NoRequest}
    /\ get_failures \in 0..MaxGetRequestFailures
    /\ g_pending_state \in PscStates
    /\ g_deferred \in PowerEvents
    /\ g_scheduled \in PowerActions \cup {"None"}

PowerInit ==
    /\ psc_state = "Awake"
    /\ psc_request = NoRequest
    /\ psc_event = FALSE
    /\ get_failures = 0
    /\ g_pending_state = "Awake"
    /\ g_deferred = "None"
    /\ g_scheduled = "None"

\* External: PSC starts the next transition and signals the module.
PscRequest(s) ==
    /\ psc_request = NoRequest
    /\ psc_request' = s
    /\ psc_event' = TRUE
    /\ UNCHANGED <<psc_state, get_failures, g_pending_state, g_deferred, g_scheduled>>

PowerEventOf(s) == IF s \in SleepStates THEN "Sleep" ELSE "Wake"

\* The wait on the event clears it, so a request whose read then fails is not
\* offered again.
poll_psc(e) ==
    \/ /\ ~psc_event
       /\ e = "None"
       /\ UNCHANGED pollVars
    \/ /\ psc_event
       /\ get_failures < MaxGetRequestFailures
       /\ e = "None"
       /\ psc_event' = FALSE
       /\ get_failures' = get_failures + 1
       /\ UNCHANGED g_pending_state
    \/ /\ psc_event
       /\ e = PowerEventOf(psc_request)
       /\ psc_event' = FALSE
       /\ g_pending_state' = psc_request
       /\ UNCHANGED get_failures

\* Faulty: a deferred event is overlooked.
power_poll_overlooks(e) == poll_psc(e) /\ UNCHANGED g_deferred

\* Faulty: a deferred event is returned and kept.
power_poll_keeps(e) ==
    \/ g_deferred # "None" /\ e = g_deferred /\ UNCHANGED <<g_deferred, pollVars>>
    \/ g_deferred = "None" /\ poll_psc(e) /\ UNCHANGED g_deferred

power_poll(e) ==
    \/ /\ g_deferred # "None"
       /\ e = g_deferred
       /\ g_deferred' = "None"
       /\ UNCHANGED pollVars
    \/ /\ g_deferred = "None"
       /\ poll_psc(e)
       /\ UNCHANGED g_deferred

power_sleep_requested(asked) ==
    /\ \/ /\ g_deferred # "None"
          /\ UNCHANGED <<g_deferred, pollVars>>
       \/ /\ g_deferred = "None"
          /\ \E e \in PowerEvents : poll_psc(e) /\ g_deferred' = e
    /\ asked = (g_deferred' = "Sleep")

\* PSC takes the acknowledged state as reached and stops waiting.
power_ack ==
    /\ psc_state' = g_pending_state
    /\ psc_request' = NoRequest

power_schedule(action) == g_scheduled' = action

\* Faulty: the action stays scheduled.
power_take_scheduled_keeps(action) == action = g_scheduled /\ UNCHANGED g_scheduled

power_take_scheduled(action) ==
    /\ action = g_scheduled
    /\ g_scheduled' = "None"

\* Between the acknowledgement of a sleep request and the next wake
\* notification; a further sleep request does not end it.
Asleep == psc_state \in SleepStates /\ psc_request \notin WakeStates
=============================================================================
