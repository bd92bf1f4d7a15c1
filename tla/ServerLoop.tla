---------------------------- MODULE ServerLoop ----------------------------
(***************************************************************************)
(* core/http_server.c: the single thread that owns every socket, polls the *)
(* console's power state, watches its address, serves one client at a time *)
(* and executes the agent's power action.  It composes Power and Netif;    *)
(* PSC, nifm and the clients run concurrently with it.                     *)
(*                                                                         *)
(* pc names the place in the body of http_server_run's loop, one action    *)
(* per call that reads or changes shared state.  io is what the thread's   *)
(* latest step sent to other processes of the console: the properties are  *)
(* about which of these may happen when.                                   *)
(*                                                                         *)
(* A request handler is abstracted to what outlives it: it may leave the   *)
(* HDLS work buffer attached, schedule a power action, and wait.           *)
(***************************************************************************)
EXTENDS Power, Netif

CONSTANTS
    KeepAwake,       \* cfg->keep_awake
    LogLevel,        \* cfg->log_level, 0 (DEBUG) .. 4 (OFF)
    NetcheckEvery,   \* iterations between address checks (20 in the code)
    Announcements,   \* announcements per mDNS socket (3 in the code)
    MaxServed,       \* requests per connection (64 in the code)
    MaxWaitSlices,   \* bound: slices a waiting handler sleeps
    MaxFaults        \* bound: failed bind, mDNS open, announce, poll, accept

DEBUG == 0
INFO  == 1
WARN  == 2
ERROR == 3
OFF   == 4

ASSUME ServerLoopAssumption ==
    /\ KeepAwake \in BOOLEAN
    /\ LogLevel \in DEBUG..OFF
    /\ NetcheckEvery \in Nat \ {0}
    /\ Announcements \in Nat
    /\ MaxServed \in Nat \ {0}
    /\ MaxWaitSlices \in Nat \ {0}
    /\ MaxFaults \in Nat

Services == {"bsd", "fs", "hid", "nifm", "idle", "spsm"}

SleepPath == {"sleep_log", "sleep_close", "sleep_hooks", "sleep_ack"}
ConnPath  == {"first_request", "request", "wait", "after_wait", "respond", "next_request",
              "close_client"}
Labels    == SleepPath \cup ConnPath
             \cup {"poll", "wake_ack", "wake_log", "keepawake", "netcheck", "listen",
                   "mdns", "announce", "poll_fds", "accept", "take_scheduled"}

VARIABLES
    pc,
    io,                  \* services the latest step of the thread called
    faults,              \* failed socket calls so far
    listen_fd,           \* TRUE: open
    mdns_fd,             \* TRUE: open
    client,              \* TRUE: a client connection is open
    served,              \* requests served on it
    wait_left,           \* slices left to a waiting handler
    suspended,
    g_log_suspended,
    g_keepawake_due,     \* g_keepawake_next has passed
    netcheck_ticks,
    mdns_ready,
    mdns_ipv4,           \* mdns_cfg.ipv4
    mdns_announce_left,
    hdls,                \* external to the loop: HDLS work buffer attached
    late                 \* history: requests answered and slices waited with a
                         \* keep-awake ping due

sockVars == <<listen_fd, mdns_fd>>
connVars == <<client, served, wait_left>>
mdnsVars == <<mdns_ready, mdns_ipv4, mdns_announce_left>>
vars == <<powerVars, netifVars, pc, io, faults, sockVars, connVars, suspended,
          g_log_suspended, g_keepawake_due, netcheck_ticks, mdnsVars, hdls, late>>

\* Types, the truth values apart from the rest.
Flags ==
    /\ psc_event \in BOOLEAN
    /\ g_have_last_addr \in BOOLEAN
    /\ listen_fd \in BOOLEAN
    /\ mdns_fd \in BOOLEAN
    /\ client \in BOOLEAN
    /\ suspended \in BOOLEAN
    /\ g_log_suspended \in BOOLEAN
    /\ g_keepawake_due \in BOOLEAN
    /\ mdns_ready \in BOOLEAN
    /\ hdls \in BOOLEAN

Ranges ==
    /\ PowerRanges
    /\ NetifRanges
    /\ pc \in Labels
    /\ io \subseteq Services
    /\ faults \in 0..MaxFaults
    /\ served \in 0..MaxServed
    /\ wait_left \in 0..MaxWaitSlices
    /\ netcheck_ticks \in 0..(NetcheckEvery - 1)
    /\ mdns_ipv4 \in Addrs \cup {NoAddr}
    /\ mdns_announce_left \in 0..Announcements

TypeOK == Flags /\ Ranges /\ late \in Nat

\* http_server_run builds the mDNS parameters before its loop starts.
Init ==
    /\ PowerInit
    /\ NetifInit
    /\ pc = "poll"
    /\ io = {}
    /\ faults = 0
    /\ listen_fd = FALSE
    /\ mdns_fd = FALSE
    /\ client = FALSE
    /\ served = 0
    /\ wait_left = 0
    /\ suspended = FALSE
    /\ g_log_suspended = FALSE
    /\ g_keepawake_due = TRUE
    /\ netcheck_ticks = 0
    /\ mdns_ready = (ip # NoAddr)
    /\ mdns_ipv4 = ip
    /\ mdns_announce_left = 0
    /\ hdls = FALSE
    /\ late = 0

-----------------------------------------------------------------------------
(* Helpers *)

\* Faulty: the sink looks only at the level.
log_write_always(level) == IF level < LogLevel \/ LogLevel = OFF THEN {} ELSE {"fs"}

\* log_write: the services a line logged at this level reaches.
log_write(level) ==
    IF level < LogLevel \/ LogLevel = OFF \/ g_log_suspended THEN {} ELSE {"fs"}

Fault == faults < MaxFaults /\ faults' = faults + 1

close_sockets == listen_fd' = FALSE /\ mdns_fd' = FALSE

\* The bsd calls close_sockets makes: none when both are already closed.
CloseIo == IF listen_fd \/ mdns_fd THEN {"bsd"} ELSE {}

\* A ping may log: its first success, and every failure.
keepawake_maybe ==
    /\ g_keepawake_due' = IF KeepAwake THEN FALSE ELSE g_keepawake_due
    /\ IF KeepAwake /\ g_keepawake_due
       THEN io' \in {{"idle"}, {"idle"} \cup log_write(INFO), {"idle"} \cup log_write(ERROR)}
       ELSE io' = {}

\* Faulty: the hook only looks for a sleep request.
wait_idle_without_ping(go_on) ==
    \E asked \in BOOLEAN :
        /\ power_sleep_requested(asked)
        /\ go_on = ~asked
        /\ io' = IF asked THEN log_write(INFO) ELSE {}
        /\ UNCHANGED g_keepawake_due

\* wait_idle, the idle hook: TRUE while the handler may go on waiting.
wait_idle(go_on) ==
    \E asked \in BOOLEAN :
        /\ power_sleep_requested(asked)
        /\ go_on = ~asked
        /\ IF asked
           THEN io' = log_write(INFO) /\ UNCHANGED g_keepawake_due
           ELSE keepawake_maybe

-----------------------------------------------------------------------------
(* Sleep and wake *)

PollPower ==
    /\ pc = "poll"
    /\ \E e \in PowerEvents :
          /\ power_poll(e)
          /\ pc' = CASE e = "Sleep" -> "sleep_log"
                     [] e = "Wake"  -> "wake_ack"
                     [] OTHER       -> IF suspended THEN "poll" ELSE "keepawake"
    /\ io' = {}
    /\ UNCHANGED <<psc_state, psc_request, g_scheduled, netifVars, faults, sockVars, connVars,
                   suspended, g_log_suspended, g_keepawake_due, netcheck_ticks, mdnsVars, hdls>>

SleepLog ==
    /\ pc = "sleep_log"
    /\ io' = log_write(INFO)
    /\ pc' = "sleep_close"
    /\ UNCHANGED <<powerVars, netifVars, faults, sockVars, connVars, suspended,
                   g_log_suspended, g_keepawake_due, netcheck_ticks, mdnsVars, hdls>>

SleepClose ==
    /\ pc = "sleep_close"
    /\ g_log_suspended' = TRUE
    /\ close_sockets
    /\ io' = CloseIo
    /\ pc' = "sleep_hooks"
    /\ UNCHANGED <<powerVars, netifVars, faults, connVars, suspended,
                   g_keepawake_due, netcheck_ticks, mdnsVars, hdls>>

\* Faulty: the hooks are not run.
SleepHooks_skipped ==
    /\ pc = "sleep_hooks"
    /\ io' = {}
    /\ pc' = "sleep_ack"
    /\ UNCHANGED <<powerVars, netifVars, faults, sockVars, connVars, suspended, g_log_suspended,
                   g_keepawake_due, netcheck_ticks, mdnsVars, hdls>>

\* The one registered hook is input_suspend.
SleepHooks ==
    /\ pc = "sleep_hooks"
    /\ hdls' = FALSE
    /\ io' = IF hdls THEN {"hid"} ELSE {}
    /\ pc' = "sleep_ack"
    /\ UNCHANGED <<powerVars, netifVars, faults, sockVars, connVars, suspended,
                   g_log_suspended, g_keepawake_due, netcheck_ticks, mdnsVars>>

\* The loop then sleeps 100ms and polls again, as long as suspended is set.
SleepAck ==
    /\ pc = "sleep_ack"
    /\ suspended' = TRUE
    /\ power_ack
    /\ io' = {}
    /\ pc' = "poll"
    /\ UNCHANGED <<psc_event, get_failures, g_pending_state, g_deferred, g_scheduled, netifVars,
                   faults, sockVars, connVars, g_log_suspended, g_keepawake_due,
                   netcheck_ticks, mdnsVars, hdls>>

WakeAck ==
    /\ pc = "wake_ack"
    /\ power_ack
    /\ suspended' = FALSE
    /\ io' = {}
    /\ pc' = "wake_log"
    /\ UNCHANGED <<psc_event, get_failures, g_pending_state, g_deferred, g_scheduled, netifVars,
                   faults, sockVars, connVars, g_log_suspended, g_keepawake_due,
                   netcheck_ticks, mdnsVars, hdls>>

WakeLog ==
    /\ pc = "wake_log"
    /\ g_log_suspended' = FALSE
    /\ io' = IF INFO < LogLevel \/ LogLevel = OFF THEN {} ELSE {"fs"}
    /\ g_keepawake_due' = TRUE
    /\ pc' = "keepawake"
    /\ UNCHANGED <<powerVars, netifVars, faults, sockVars, connVars, suspended,
                   netcheck_ticks, mdnsVars, hdls>>

-----------------------------------------------------------------------------
(* Sockets *)

KeepAwakePing ==
    /\ pc = "keepawake"
    /\ keepawake_maybe
    /\ pc' = "netcheck"
    /\ UNCHANGED <<powerVars, netifVars, faults, sockVars, connVars, suspended,
                   g_log_suspended, netcheck_ticks, mdnsVars, hdls>>

NetcheckSkip ==
    /\ pc = "netcheck"
    /\ netcheck_ticks + 1 < NetcheckEvery
    /\ netcheck_ticks' = netcheck_ticks + 1
    /\ io' = {}
    /\ pc' = "listen"
    /\ UNCHANGED <<powerVars, netifVars, faults, sockVars, connVars, suspended,
                   g_log_suspended, g_keepawake_due, mdnsVars, hdls>>

\* Faulty: the sockets are rebuilt with the old mDNS parameters.
Netcheck_keeps_parameters ==
    /\ pc = "netcheck"
    /\ netcheck_ticks + 1 >= NetcheckEvery
    /\ netcheck_ticks' = 0
    /\ \E changed \in BOOLEAN :
          /\ netif_ipv4_changed(changed)
          /\ IF changed THEN close_sockets ELSE UNCHANGED sockVars
    /\ io' = {"nifm"}
    /\ pc' = "listen"
    /\ UNCHANGED <<powerVars, faults, connVars, suspended, g_log_suspended,
                   g_keepawake_due, mdnsVars, hdls>>

Netcheck ==
    /\ pc = "netcheck"
    /\ netcheck_ticks + 1 >= NetcheckEvery
    /\ netcheck_ticks' = 0
    /\ \E changed \in BOOLEAN :
          /\ netif_ipv4_changed(changed)
          /\ IF changed
             THEN /\ close_sockets
                  /\ mdns_ready' = FALSE
                  /\ io' = {"nifm"} \cup log_write(WARN) \cup CloseIo
             ELSE /\ io' = {"nifm"}
                  /\ UNCHANGED <<sockVars, mdns_ready>>
    /\ pc' = "listen"
    /\ UNCHANGED <<powerVars, faults, connVars, suspended, g_log_suspended,
                   g_keepawake_due, mdns_ipv4, mdns_announce_left, hdls>>

\* Faulty: the listener waits for an address, as mDNS does.
Listen_waits_for_address ==
    /\ pc = "listen"
    /\ listen_fd' = (listen_fd \/ ip # NoAddr)
    /\ io' = {"bsd"}
    /\ pc' = "mdns"
    /\ UNCHANGED <<powerVars, netifVars, faults, mdns_fd, connVars, suspended, g_log_suspended,
                   g_keepawake_due, netcheck_ticks, mdnsVars, hdls>>

\* A failed bind is retried from the top of the loop one second later.
Listen ==
    /\ pc = "listen"
    /\ \/ /\ listen_fd
          /\ io' = {}
          /\ pc' = "mdns"
          /\ UNCHANGED <<listen_fd, faults>>
       \/ /\ ~listen_fd
          /\ listen_fd' = TRUE
          /\ io' = {"bsd"} \cup log_write(INFO)
          /\ pc' = "mdns"
          /\ UNCHANGED faults
       \/ /\ ~listen_fd
          /\ Fault
          /\ io' = {"bsd"} \cup log_write(ERROR)
          /\ pc' = "poll"
          /\ UNCHANGED listen_fd
    /\ UNCHANGED <<powerVars, netifVars, mdns_fd, connVars, suspended, g_log_suspended,
                   g_keepawake_due, netcheck_ticks, mdnsVars, hdls>>

\* mdns_config_init clears the parameters and asks nifm for the address.
mdns_config_init == mdns_ready' = (ip # NoAddr) /\ mdns_ipv4' = ip

Mdns ==
    /\ pc = "mdns"
    /\ IF mdns_fd \/ mdns_ready THEN UNCHANGED <<mdns_ready, mdns_ipv4>> ELSE mdns_config_init
    /\ LET query == IF mdns_fd \/ mdns_ready THEN {} ELSE {"nifm"} \cup log_write(DEBUG)
       IN \/ /\ mdns_fd \/ ~mdns_ready'
             /\ io' = query
             /\ UNCHANGED <<mdns_fd, mdns_announce_left, faults>>
          \/ /\ ~mdns_fd /\ mdns_ready'
             /\ mdns_fd' = TRUE
             /\ mdns_announce_left' = Announcements
             /\ io' = query \cup {"bsd"} \cup log_write(INFO)
             /\ UNCHANGED faults
          \/ /\ ~mdns_fd /\ mdns_ready'
             /\ Fault
             /\ io' = query \cup {"bsd"} \cup log_write(ERROR)
             /\ UNCHANGED <<mdns_fd, mdns_announce_left>>
    /\ pc' = "announce"
    /\ UNCHANGED <<powerVars, netifVars, listen_fd, connVars, suspended, g_log_suspended,
                   g_keepawake_due, netcheck_ticks, hdls>>

\* An announcement counts only when it was sent.
Announce ==
    /\ pc = "announce"
    /\ \/ /\ ~mdns_fd \/ mdns_announce_left = 0
          /\ io' = {}
          /\ UNCHANGED <<mdns_announce_left, faults>>
       \/ /\ mdns_fd /\ mdns_announce_left > 0
          /\ mdns_announce_left' = mdns_announce_left - 1
          /\ io' = {"bsd"} \cup log_write(DEBUG)
          /\ UNCHANGED faults
       \/ /\ mdns_fd /\ mdns_announce_left > 0
          /\ Fault
          /\ io' = {"bsd"} \cup log_write(ERROR)
          /\ UNCHANGED mdns_announce_left
    /\ pc' = "poll_fds"
    /\ UNCHANGED <<powerVars, netifVars, sockVars, connVars, suspended, g_log_suspended,
                   g_keepawake_due, netcheck_ticks, mdns_ready, mdns_ipv4, hdls>>

\* poll(): timeout or only mDNS traffic (back to the top), a connection to
\* accept, or an error that rebuilds both sockets.
PollFds ==
    /\ pc = "poll_fds"
    /\ \/ /\ io' \in {{"bsd"}, {"bsd"} \cup log_write(ERROR)}
          /\ pc' \in {"poll", "accept"}
          /\ UNCHANGED <<sockVars, faults>>
       \/ /\ Fault
          /\ close_sockets
          /\ io' = {"bsd"} \cup log_write(ERROR)
          /\ pc' = "poll"
    /\ UNCHANGED <<powerVars, netifVars, connVars, suspended, g_log_suspended,
                   g_keepawake_due, netcheck_ticks, mdnsVars, hdls>>

-----------------------------------------------------------------------------
(* One client *)

connUnchanged == <<powerVars, netifVars, sockVars, suspended, g_log_suspended,
                   netcheck_ticks, mdnsVars>>

Accept ==
    /\ pc = "accept"
    /\ \/ /\ client' = TRUE
          /\ io' = {"bsd"}
          /\ pc' = "first_request"
          /\ UNCHANGED faults
       \/ /\ Fault
          /\ io' \in {{"bsd"}, {"bsd"} \cup log_write(ERROR)}
          /\ pc' = "poll"
          /\ UNCHANGED client
    /\ UNCHANGED <<connUnchanged, served, wait_left, g_keepawake_due, hdls>>

\* A peer that says nothing for FIRST_REQUEST_MS is dropped.
FirstRequest ==
    /\ pc = "first_request"
    /\ served' = 0
    /\ io' = {"bsd"}
    /\ pc' \in {"request", "close_client"}
    /\ UNCHANGED <<connUnchanged, client, wait_left, faults, g_keepawake_due, hdls>>

\* The request cannot be read: CONN_CLOSE.
RequestUnreadable ==
    /\ pc = "request"
    /\ io' = {"bsd"}
    /\ pc' = "close_client"
    /\ UNCHANGED <<connUnchanged, connVars, faults, g_keepawake_due, hdls>>

\* dispatch runs a handler, which may use any service, leave the HDLS work
\* buffer attached or released, and schedule a power action.
ServeRequest ==
    /\ pc \in {"request", "after_wait"}
    /\ \E action \in PowerActions : power_schedule(action) \/ UNCHANGED g_scheduled
    /\ hdls' \in BOOLEAN
    /\ io' = {"bsd", "fs", "hid", "nifm"}
    /\ pc' = "respond"
    /\ UNCHANGED <<pscVars, get_failures, g_pending_state, g_deferred, netifVars, sockVars,
                   connVars, suspended, g_log_suspended, g_keepawake_due, netcheck_ticks,
                   mdnsVars, faults>>

\* A handler starts to wait through http_server_wait_ms.
StartWait ==
    /\ pc = "request"
    /\ wait_left' \in 1..MaxWaitSlices
    /\ io' = {"bsd"}
    /\ pc' = "wait"
    /\ UNCHANGED <<connUnchanged, client, served, faults, g_keepawake_due, hdls>>

\* One slice.  The handler gives up when the hook says so (the launcher of
\* nro.c instead ignores it and keeps counting down), or stops on its own
\* condition or time limit.
WaitSlice ==
    /\ pc = "wait"
    /\ wait_left' = wait_left - 1
    /\ \E go_on \in BOOLEAN : wait_idle(go_on)
    /\ pc' \in IF wait_left' = 0 THEN {"after_wait"} ELSE {"wait", "after_wait"}
    /\ UNCHANGED <<psc_state, psc_request, g_scheduled, netifVars, sockVars, client, served,
                   suspended, g_log_suspended, netcheck_ticks, mdnsVars, faults, hdls>>

\* handle_one returns: CONN_KEEP when the client asked to keep the connection
\* and the rest of its body could be drained.
Respond ==
    /\ pc = "respond"
    /\ wait_left' = 0
    /\ io' = {"bsd"}
    /\ pc' \in {"next_request", "close_client"}
    /\ UNCHANGED <<connUnchanged, client, served, faults, g_keepawake_due, hdls>>

\* The connection goes on only if the next request is already arriving, and
\* for at most MaxServed requests.
NextRequest ==
    /\ pc = "next_request"
    /\ served' = served + 1
    /\ io' = {"bsd"}
    /\ pc' \in IF served' < MaxServed THEN {"request", "close_client"} ELSE {"close_client"}
    /\ UNCHANGED <<connUnchanged, client, wait_left, faults, g_keepawake_due, hdls>>

CloseClient ==
    /\ pc = "close_client"
    /\ client' = FALSE
    /\ io' = {"bsd"}
    /\ pc' = "take_scheduled"
    /\ UNCHANGED <<connUnchanged, served, wait_left, faults, g_keepawake_due, hdls>>

TakeScheduled ==
    /\ pc = "take_scheduled"
    /\ \E action \in PowerActions \cup {"None"} :
          /\ power_take_scheduled(action)
          /\ IF action = "None"
             THEN io' = {}
             ELSE io' \in {{"spsm"} \cup log_write(INFO), {"spsm"} \cup log_write(ERROR)}
    /\ pc' = "poll"
    /\ UNCHANGED <<pscVars, get_failures, g_pending_state, g_deferred, netifVars, sockVars,
                   connVars, suspended, g_log_suspended, g_keepawake_due, netcheck_ticks,
                   mdnsVars, faults, hdls>>

-----------------------------------------------------------------------------
(* The system *)

\* No ping is wanted: it was sent, or the console sleeps or is about to.
PingMoot == ~KeepAwake \/ ~g_keepawake_due \/ suspended \/ g_deferred = "Sleep"

CountLate ==
    late' = IF PingMoot' THEN 0 ELSE IF pc \in {"wait", "respond"} THEN late + 1 ELSE late

Loop ==
    /\ \/ PollPower \/ SleepLog \/ SleepClose \/ SleepHooks \/ SleepAck \/ WakeAck \/ WakeLog
       \/ KeepAwakePing \/ NetcheckSkip \/ Netcheck \/ Listen \/ Mdns \/ Announce \/ PollFds
       \/ Accept \/ FirstRequest \/ RequestUnreadable \/ ServeRequest \/ StartWait
       \/ WaitSlice \/ Respond \/ NextRequest \/ CloseClient \/ TakeScheduled
    /\ CountLate

loopVars == <<pc, faults, sockVars, connVars, suspended, g_log_suspended,
              netcheck_ticks, mdnsVars, hdls, late>>

PscAsks ==
    /\ \E s \in PscRequests : PscRequest(s)
    /\ io' = {}
    /\ UNCHANGED <<netifVars, loopVars, g_keepawake_due>>

NetworkChanges ==
    /\ \E a \in Addrs \cup {NoAddr} : IpChange(a)
    /\ io' = {}
    /\ UNCHANGED <<powerVars, loopVars, g_keepawake_due>>

\* The keep-awake interval elapses.
KeepAwakeElapses ==
    /\ ~g_keepawake_due
    /\ g_keepawake_due' = TRUE
    /\ io' = {}
    /\ UNCHANGED <<powerVars, netifVars, loopVars>>

Environment == PscAsks \/ NetworkChanges \/ KeepAwakeElapses

Next == Loop \/ Environment

\* The thread always runs; nothing is assumed of PSC, the network or clients.
Spec == Init /\ [][Next]_vars /\ WF_vars(Loop)
-----------------------------------------------------------------------------
(* Safety *)

\* While the console sleeps (from the acknowledgement of a sleep request to the
\* next wake notification) no socket is open, the HDLS work buffer is released
\* and the log sink is blocked: what http_server.c's loop comment and input.c
\* say would otherwise crash the console on the next wake.
SleepQuiescence ==
    Asleep => /\ ~listen_fd /\ ~mdns_fd /\ ~client
              /\ ~hdls
              /\ g_log_suspended

\* While the console sleeps the thread talks to no service at all (bsd, fsp-srv,
\* hid, nifm, idle:sys, spsm), not even on a repeated sleep request.
SilentWhileAsleep == [][Asleep /\ Asleep' => io' = {}]_vars

\* power_ack always answers the request PSC is waiting on, with that request's
\* own state, and in the role the loop gave it: a request read by a waiting
\* handler and delivered later is neither swapped with another nor answered twice.
AckAnswersRequest ==
    /\ pc \in SleepPath => psc_request \in SleepStates /\ g_pending_state = psc_request
    /\ pc = "wake_ack" => psc_request \in WakeStates /\ g_pending_state = psc_request

\* A power action scheduled by a request is taken when that request's
\* connection has been closed; it never stays behind for a later client.
ScheduledLeavesWithClient ==
    g_scheduled # "None" => client \/ pc = "take_scheduled"

\* http_server.c:244 "A handler blocked in a wait tool keeps pinging through the
\* idle hook": a ping that fell due goes out, or the console is told to sleep,
\* before more requests are answered than one connection may bring, and however
\* long their handlers wait.
PingNeverLate == late <= MaxServed

-----------------------------------------------------------------------------
(* The inductive invariant *)

\* A request that was read is the one PSC waits on, and of the kind recorded.
ReadRequest(e) ==
    /\ psc_request # NoRequest
    /\ g_pending_state = psc_request
    /\ e = PowerEventOf(psc_request)
    /\ ~psc_event

RequestInv ==
    /\ psc_event => psc_request # NoRequest
    /\ g_deferred # "None" => ReadRequest(g_deferred)
    /\ pc \in SleepPath => ReadRequest("Sleep") /\ g_deferred = "None"
    /\ pc = "wake_ack" => ReadRequest("Wake") /\ g_deferred = "None"

\* What each place in the loop has released is still released.
ReleaseInv ==
    /\ client <=> pc \in ConnPath
    /\ suspended => pc \in {"poll", "wake_ack"} \cup SleepPath
    /\ suspended \/ pc \in {"sleep_hooks", "sleep_ack"}
          => ~listen_fd /\ ~mdns_fd /\ g_log_suspended
    /\ suspended \/ pc = "sleep_ack" => ~hdls

\* The loop's flag and PSC agree on whether the console sleeps.
SuspendedInv == suspended <=> psc_state \in SleepStates

ScheduledInv == g_scheduled # "None" => pc \in ConnPath \cup {"take_scheduled"}

\* A waiting handler has a slice left, a connection being served a request.
CountInv ==
    /\ pc = "wait" => wait_left > 0
    /\ pc \in ConnPath \ {"first_request", "close_client"} => served < MaxServed

\* The loop pings before it accepts, and in a connection a ping is at most as late
\* as requests were answered without a wait.
LateInv ==
    /\ pc \in {"netcheck", "listen", "mdns", "announce", "poll_fds", "accept",
               "first_request"} => late = 0
    /\ pc \in {"request", "wait", "after_wait", "respond"} => late <= served
    /\ pc = "next_request" => late <= served + 1
    /\ late <= MaxServed

\* What the thread has read, released and scheduled at each place of the loop:
\* the facts that together make the safety properties above inductive.
IInv == TypeOK /\ CountInv /\ RequestInv /\ ReleaseInv /\ SuspendedInv /\ ScheduledInv
        /\ LateInv

-----------------------------------------------------------------------------
(* Liveness *)

\* Every transition PSC asks for is acknowledged, whatever the clients do:
\* connections, requests per connection and waits are all bounded.
EveryRequestAcknowledged == (psc_request # NoRequest) ~> (psc_request = NoRequest)

\* Awake, the server is reachable again and again: a closed listener (sleep,
\* address change, failed poll or bind) is reopened.
ListenerRestored == ~suspended ~> (listen_fd \/ suspended)

\* An address that differs from the one the previous check saw is advertised,
\* unless it changes again or the console sleeps first.
DetectedChangeIsAdvertised ==
    \A a \in Addrs :
        (ip = a /\ g_have_last_addr /\ g_last_addr # a)
            ~> (ip # a \/ suspended \/ (mdns_fd /\ mdns_ipv4 = a))

\* netif.h: connectivity changes are detected by polling the address.  So a
\* lasting address is eventually the one mDNS advertises.
AdvertisesCurrentAddress ==
    \A a \in Addrs :
        (ip = a) ~> (ip # a \/ suspended \/ (mdns_fd /\ mdns_ipv4 = a))
=============================================================================
