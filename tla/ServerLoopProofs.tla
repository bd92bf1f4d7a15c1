------------------------- MODULE ServerLoopProofs -------------------------
(***************************************************************************)
(* Theorems about the server loop, for every set of requests and addresses *)
(* and every bound on faults, waits and requests per connection.           *)
(*                                                                         *)
(* SleepQuiescence is not inductive: that the console sleeps says nothing  *)
(* by itself about where the thread is.  IInv (ServerLoop) adds what makes *)
(* it so.  RequestInv: a request the thread has read, deferred or being    *)
(* handled, is the one PSC still waits on.  ReleaseInv: what each place in *)
(* the loop has released is still released.  SuspendedInv: the last        *)
(* acknowledged state is a sleep state iff the loop's flag is set.         *)
(* ScheduledInv: a power action is pending only while its client is served.*)
(* LateInv: how late a keep-awake ping may be at each place of the loop.   *)
(***************************************************************************)
EXTENDS ServerLoop, TLAPS

USE DEF NoRequest, PowerEvents, SleepStates, WakeStates, PscStates, SleepPath, ConnPath,
        PowerEventOf, DEBUG, INFO, WARN, ERROR, OFF

-----------------------------------------------------------------------------
(* Each part of IInv is preserved by every action. *)

LEMMA FlagsStep == ASSUME Flags, [Next]_vars PROVE Flags'
<1> USE DEF Flags, vars, powerVars, pscVars, netifVars, lastVars, sockVars, connVars, mdnsVars
<1>1. CASE PollPower
  BY <1>1 DEF PollPower, power_poll, poll_psc, pollVars
<1>2. CASE SleepLog
  BY <1>2 DEF SleepLog
<1>3. CASE SleepClose
  BY <1>3 DEF SleepClose, close_sockets
<1>4. CASE SleepHooks
  BY <1>4 DEF SleepHooks
<1>5. CASE SleepAck
  BY <1>5 DEF SleepAck, power_ack
<1>6. CASE WakeAck
  BY <1>6 DEF WakeAck, power_ack
<1>7. CASE WakeLog
  BY <1>7 DEF WakeLog
<1>8. CASE KeepAwakePing
  BY <1>8 DEF KeepAwakePing, keepawake_maybe
<1>9. CASE NetcheckSkip
  BY <1>9 DEF NetcheckSkip
<1>10. CASE Netcheck
  BY <1>10 DEF Netcheck, netif_ipv4_changed, close_sockets
<1>11. CASE Listen
  BY <1>11 DEF Listen, Fault
<1>12. CASE Mdns
  BY <1>12 DEF Mdns, mdns_config_init, Fault
<1>13. CASE Announce
  BY <1>13 DEF Announce, Fault
<1>14. CASE PollFds
  BY <1>14 DEF PollFds, Fault, close_sockets
<1>15. CASE Accept
  BY <1>15 DEF Accept, Fault, connUnchanged
<1>16. CASE FirstRequest
  BY <1>16 DEF FirstRequest, connUnchanged
<1>17. CASE RequestUnreadable
  BY <1>17 DEF RequestUnreadable, connUnchanged
<1>18. CASE ServeRequest
  BY <1>18 DEF ServeRequest, power_schedule
<1>19. CASE StartWait
  BY <1>19 DEF StartWait, connUnchanged
<1>20. CASE WaitSlice
  <2>1. psc_event' \in BOOLEAN
    BY <1>20 DEF WaitSlice, wait_idle, power_sleep_requested, poll_psc, pollVars
  <2>2. g_keepawake_due' \in BOOLEAN
    BY <1>20 DEF WaitSlice, wait_idle, keepawake_maybe
  <2> QED
    BY <1>20, <2>1, <2>2 DEF WaitSlice
<1>21. CASE Respond
  BY <1>21 DEF Respond, connUnchanged
<1>22. CASE NextRequest
  BY <1>22 DEF NextRequest, connUnchanged
<1>23. CASE CloseClient
  BY <1>23 DEF CloseClient, connUnchanged
<1>24. CASE TakeScheduled
  BY <1>24 DEF TakeScheduled, power_take_scheduled
<1>25. CASE PscAsks
  BY <1>25 DEF PscAsks, PscRequest, loopVars
<1>26. CASE NetworkChanges
  BY <1>26 DEF NetworkChanges, IpChange, loopVars
<1>27. CASE KeepAwakeElapses
  BY <1>27 DEF KeepAwakeElapses, loopVars
<1>28. CASE UNCHANGED vars
  BY <1>28
<1> QED
  BY ONLY [Next]_vars, <1>1, <1>2, <1>3, <1>4, <1>5, <1>6, <1>7, <1>8, <1>9, <1>10, <1>11, <1>12, <1>13, <1>14, <1>15, <1>16, <1>17, <1>18, <1>19, <1>20, <1>21, <1>22, <1>23, <1>24, <1>25, <1>26, <1>27, <1>28 DEF Next, Loop, Environment

LEMMA RangesStep == ASSUME Ranges, CountInv, RequestInv, [Next]_vars PROVE Ranges'
<1> USE PowerAssumption, NetifAssumption, ServerLoopAssumption
        DEF Ranges, CountInv, PowerRanges, NetifRanges, Labels, Services, PowerActions, log_write, CloseIo,
            vars, powerVars, pscVars, netifVars, lastVars, sockVars, connVars, mdnsVars
<1>1. CASE PollPower
  <2>1. PICK e \in PowerEvents : power_poll(e)
    BY <1>1 DEF PollPower
  <2>2. get_failures' \in 0..MaxGetRequestFailures
    BY <2>1 DEF power_poll, poll_psc, pollVars
  <2>3. g_pending_state' \in PscStates
    BY <2>1 DEF power_poll, poll_psc, pollVars, RequestInv
  <2>4. g_deferred' \in PowerEvents
    BY <2>1 DEF power_poll
  <2> QED
    BY <1>1, <2>2, <2>3, <2>4 DEF PollPower
<1>2. CASE SleepLog
  BY <1>2 DEF SleepLog
<1>3. CASE SleepClose
  BY <1>3 DEF SleepClose, close_sockets
<1>4. CASE SleepHooks
  BY <1>4 DEF SleepHooks
<1>5. CASE SleepAck
  BY <1>5 DEF SleepAck, power_ack
<1>6. CASE WakeAck
  BY <1>6 DEF WakeAck, power_ack
<1>7. CASE WakeLog
  BY <1>7 DEF WakeLog
<1>8. CASE KeepAwakePing
  BY <1>8 DEF KeepAwakePing, keepawake_maybe
<1>9. CASE NetcheckSkip
  BY <1>9 DEF NetcheckSkip
<1>10. CASE Netcheck
  BY <1>10 DEF Netcheck, netif_ipv4_changed, close_sockets
<1>11. CASE Listen
  BY <1>11 DEF Listen, Fault
<1>12. CASE Mdns
  BY <1>12 DEF Mdns, mdns_config_init, Fault
<1>13. CASE Announce
  BY <1>13 DEF Announce, Fault
<1>14. CASE PollFds
  BY <1>14 DEF PollFds, Fault, close_sockets
<1>15. CASE Accept
  BY <1>15 DEF Accept, Fault, connUnchanged
<1>16. CASE FirstRequest
  BY <1>16 DEF FirstRequest, connUnchanged
<1>17. CASE RequestUnreadable
  BY <1>17 DEF RequestUnreadable, connUnchanged
<1>18. CASE ServeRequest
  BY <1>18 DEF ServeRequest, power_schedule
<1>19. CASE StartWait
  BY <1>19 DEF StartWait, connUnchanged
<1>20. CASE WaitSlice
  <2>1. PICK go_on \in BOOLEAN : wait_idle(go_on)
    BY <1>20 DEF WaitSlice
  <2>2. PICK asked \in BOOLEAN : power_sleep_requested(asked)
    BY <2>1 DEF wait_idle
  <2>3. get_failures' \in 0..MaxGetRequestFailures
    BY <2>2 DEF power_sleep_requested, poll_psc, pollVars
  <2>4. g_pending_state' \in PscStates
    BY <2>2 DEF power_sleep_requested, poll_psc, pollVars, RequestInv
  <2>5. g_deferred' \in PowerEvents
    BY <2>2 DEF power_sleep_requested
  <2>6. io' \subseteq Services
    BY <2>1 DEF wait_idle, keepawake_maybe
  <2> QED
    BY <1>20, <2>3, <2>4, <2>5, <2>6 DEF WaitSlice
<1>21. CASE Respond
  BY <1>21 DEF Respond, connUnchanged
<1>22. CASE NextRequest
  BY <1>22 DEF NextRequest, connUnchanged
<1>23. CASE CloseClient
  BY <1>23 DEF CloseClient, connUnchanged
<1>24. CASE TakeScheduled
  BY <1>24 DEF TakeScheduled, power_take_scheduled
<1>25. CASE PscAsks
  BY <1>25 DEF PscAsks, PscRequest, loopVars
<1>26. CASE NetworkChanges
  BY <1>26 DEF NetworkChanges, IpChange, loopVars
<1>27. CASE KeepAwakeElapses
  BY <1>27 DEF KeepAwakeElapses, loopVars
<1>28. CASE UNCHANGED vars
  BY <1>28
<1> QED
  BY ONLY [Next]_vars, <1>1, <1>2, <1>3, <1>4, <1>5, <1>6, <1>7, <1>8, <1>9, <1>10, <1>11, <1>12, <1>13, <1>14, <1>15, <1>16, <1>17, <1>18, <1>19, <1>20, <1>21, <1>22, <1>23, <1>24, <1>25, <1>26, <1>27, <1>28 DEF Next, Loop, Environment

LEMMA CountStep == ASSUME Ranges, CountInv, [Next]_vars PROVE CountInv'
<1> USE ServerLoopAssumption DEF Ranges, CountInv, vars, powerVars, pscVars, netifVars, lastVars, sockVars, connVars, mdnsVars
<1>1. CASE PollPower
  BY <1>1 DEF PollPower, power_poll, poll_psc, pollVars
<1>2. CASE SleepLog
  BY <1>2 DEF SleepLog
<1>3. CASE SleepClose
  BY <1>3 DEF SleepClose, close_sockets
<1>4. CASE SleepHooks
  BY <1>4 DEF SleepHooks
<1>5. CASE SleepAck
  BY <1>5 DEF SleepAck, power_ack
<1>6. CASE WakeAck
  BY <1>6 DEF WakeAck, power_ack
<1>7. CASE WakeLog
  BY <1>7 DEF WakeLog
<1>8. CASE KeepAwakePing
  BY <1>8 DEF KeepAwakePing, keepawake_maybe
<1>9. CASE NetcheckSkip
  BY <1>9 DEF NetcheckSkip
<1>10. CASE Netcheck
  BY <1>10 DEF Netcheck, netif_ipv4_changed, close_sockets
<1>11. CASE Listen
  BY <1>11 DEF Listen, Fault
<1>12. CASE Mdns
  BY <1>12 DEF Mdns, mdns_config_init, Fault
<1>13. CASE Announce
  BY <1>13 DEF Announce, Fault
<1>14. CASE PollFds
  BY <1>14 DEF PollFds, Fault, close_sockets
<1>15. CASE Accept
  BY <1>15 DEF Accept, Fault, connUnchanged
<1>16. CASE FirstRequest
  BY <1>16 DEF FirstRequest, connUnchanged
<1>17. CASE RequestUnreadable
  BY <1>17 DEF RequestUnreadable, connUnchanged
<1>18. CASE ServeRequest
  BY <1>18 DEF ServeRequest, power_schedule
<1>19. CASE StartWait
  BY <1>19 DEF StartWait, connUnchanged
<1>20. CASE WaitSlice
  BY <1>20 DEF WaitSlice, wait_idle, power_sleep_requested, poll_psc, pollVars, keepawake_maybe
<1>21. CASE Respond
  BY <1>21 DEF Respond, connUnchanged
<1>22. CASE NextRequest
  BY <1>22 DEF NextRequest, connUnchanged
<1>23. CASE CloseClient
  BY <1>23 DEF CloseClient, connUnchanged
<1>24. CASE TakeScheduled
  BY <1>24 DEF TakeScheduled, power_take_scheduled
<1>25. CASE PscAsks
  BY <1>25 DEF PscAsks, PscRequest, loopVars
<1>26. CASE NetworkChanges
  BY <1>26 DEF NetworkChanges, IpChange, loopVars
<1>27. CASE KeepAwakeElapses
  BY <1>27 DEF KeepAwakeElapses, loopVars
<1>28. CASE UNCHANGED vars
  BY <1>28
<1> QED
  BY ONLY [Next]_vars, <1>1, <1>2, <1>3, <1>4, <1>5, <1>6, <1>7, <1>8, <1>9, <1>10, <1>11, <1>12, <1>13, <1>14, <1>15, <1>16, <1>17, <1>18, <1>19, <1>20, <1>21, <1>22, <1>23, <1>24, <1>25, <1>26, <1>27, <1>28 DEF Next, Loop, Environment

LEMMA RequestStep == ASSUME Ranges, RequestInv, [Next]_vars PROVE RequestInv'
<1> USE PowerAssumption DEF Ranges, PowerRanges, RequestInv, ReadRequest, vars, powerVars, pscVars, netifVars, lastVars, sockVars, connVars, mdnsVars
<1>1. CASE PollPower
  BY <1>1 DEF PollPower, power_poll, poll_psc, pollVars
<1>2. CASE SleepLog
  BY <1>2 DEF SleepLog
<1>3. CASE SleepClose
  BY <1>3 DEF SleepClose, close_sockets
<1>4. CASE SleepHooks
  BY <1>4 DEF SleepHooks
<1>5. CASE SleepAck
  BY <1>5 DEF SleepAck, power_ack
<1>6. CASE WakeAck
  BY <1>6 DEF WakeAck, power_ack
<1>7. CASE WakeLog
  BY <1>7 DEF WakeLog
<1>8. CASE KeepAwakePing
  BY <1>8 DEF KeepAwakePing, keepawake_maybe
<1>9. CASE NetcheckSkip
  BY <1>9 DEF NetcheckSkip
<1>10. CASE Netcheck
  BY <1>10 DEF Netcheck, netif_ipv4_changed, close_sockets
<1>11. CASE Listen
  BY <1>11 DEF Listen, Fault
<1>12. CASE Mdns
  BY <1>12 DEF Mdns, mdns_config_init, Fault
<1>13. CASE Announce
  BY <1>13 DEF Announce, Fault
<1>14. CASE PollFds
  BY <1>14 DEF PollFds, Fault, close_sockets
<1>15. CASE Accept
  BY <1>15 DEF Accept, Fault, connUnchanged
<1>16. CASE FirstRequest
  BY <1>16 DEF FirstRequest, connUnchanged
<1>17. CASE RequestUnreadable
  BY <1>17 DEF RequestUnreadable, connUnchanged
<1>18. CASE ServeRequest
  BY <1>18 DEF ServeRequest, power_schedule
<1>19. CASE StartWait
  BY <1>19 DEF StartWait, connUnchanged
<1>20. CASE WaitSlice
  BY <1>20 DEF WaitSlice, wait_idle, power_sleep_requested, poll_psc, pollVars, keepawake_maybe
<1>21. CASE Respond
  BY <1>21 DEF Respond, connUnchanged
<1>22. CASE NextRequest
  BY <1>22 DEF NextRequest, connUnchanged
<1>23. CASE CloseClient
  BY <1>23 DEF CloseClient, connUnchanged
<1>24. CASE TakeScheduled
  BY <1>24 DEF TakeScheduled, power_take_scheduled
<1>25. CASE PscAsks
  BY <1>25 DEF PscAsks, PscRequest, loopVars
<1>26. CASE NetworkChanges
  BY <1>26 DEF NetworkChanges, IpChange, loopVars
<1>27. CASE KeepAwakeElapses
  BY <1>27 DEF KeepAwakeElapses, loopVars
<1>28. CASE UNCHANGED vars
  BY <1>28
<1> QED
  BY ONLY [Next]_vars, <1>1, <1>2, <1>3, <1>4, <1>5, <1>6, <1>7, <1>8, <1>9, <1>10, <1>11, <1>12, <1>13, <1>14, <1>15, <1>16, <1>17, <1>18, <1>19, <1>20, <1>21, <1>22, <1>23, <1>24, <1>25, <1>26, <1>27, <1>28 DEF Next, Loop, Environment

LEMMA ReleaseStep == ASSUME Flags, ReleaseInv, [Next]_vars PROVE ReleaseInv'
<1> USE DEF Flags, ReleaseInv, vars, powerVars, pscVars, netifVars, lastVars, sockVars, connVars, mdnsVars
<1>1. CASE PollPower
  BY <1>1 DEF PollPower, power_poll, poll_psc, pollVars
<1>2. CASE SleepLog
  BY <1>2 DEF SleepLog
<1>3. CASE SleepClose
  BY <1>3 DEF SleepClose, close_sockets
<1>4. CASE SleepHooks
  BY <1>4 DEF SleepHooks
<1>5. CASE SleepAck
  BY <1>5 DEF SleepAck, power_ack
<1>6. CASE WakeAck
  BY <1>6 DEF WakeAck, power_ack
<1>7. CASE WakeLog
  BY <1>7 DEF WakeLog
<1>8. CASE KeepAwakePing
  BY <1>8 DEF KeepAwakePing, keepawake_maybe
<1>9. CASE NetcheckSkip
  BY <1>9 DEF NetcheckSkip
<1>10. CASE Netcheck
  BY <1>10 DEF Netcheck, netif_ipv4_changed, close_sockets
<1>11. CASE Listen
  BY <1>11 DEF Listen, Fault
<1>12. CASE Mdns
  BY <1>12 DEF Mdns, mdns_config_init, Fault
<1>13. CASE Announce
  BY <1>13 DEF Announce, Fault
<1>14. CASE PollFds
  BY <1>14 DEF PollFds, Fault, close_sockets
<1>15. CASE Accept
  BY <1>15 DEF Accept, Fault, connUnchanged
<1>16. CASE FirstRequest
  BY <1>16 DEF FirstRequest, connUnchanged
<1>17. CASE RequestUnreadable
  BY <1>17 DEF RequestUnreadable, connUnchanged
<1>18. CASE ServeRequest
  BY <1>18 DEF ServeRequest, power_schedule
<1>19. CASE StartWait
  BY <1>19 DEF StartWait, connUnchanged
<1>20. CASE WaitSlice
  BY <1>20 DEF WaitSlice, wait_idle, power_sleep_requested, poll_psc, pollVars, keepawake_maybe
<1>21. CASE Respond
  BY <1>21 DEF Respond, connUnchanged
<1>22. CASE NextRequest
  BY <1>22 DEF NextRequest, connUnchanged
<1>23. CASE CloseClient
  BY <1>23 DEF CloseClient, connUnchanged
<1>24. CASE TakeScheduled
  BY <1>24 DEF TakeScheduled, power_take_scheduled
<1>25. CASE PscAsks
  BY <1>25 DEF PscAsks, PscRequest, loopVars
<1>26. CASE NetworkChanges
  BY <1>26 DEF NetworkChanges, IpChange, loopVars
<1>27. CASE KeepAwakeElapses
  BY <1>27 DEF KeepAwakeElapses, loopVars
<1>28. CASE UNCHANGED vars
  BY <1>28
<1> QED
  BY ONLY [Next]_vars, <1>1, <1>2, <1>3, <1>4, <1>5, <1>6, <1>7, <1>8, <1>9, <1>10, <1>11, <1>12, <1>13, <1>14, <1>15, <1>16, <1>17, <1>18, <1>19, <1>20, <1>21, <1>22, <1>23, <1>24, <1>25, <1>26, <1>27, <1>28 DEF Next, Loop, Environment

LEMMA SuspendedStep ==
    ASSUME RequestInv, SuspendedInv, [Next]_vars PROVE SuspendedInv'
<1> USE DEF RequestInv, ReadRequest, SuspendedInv, vars, powerVars, pscVars, netifVars, lastVars, sockVars, connVars, mdnsVars
<1>1. CASE PollPower
  BY <1>1 DEF PollPower, power_poll, poll_psc, pollVars
<1>2. CASE SleepLog
  BY <1>2 DEF SleepLog
<1>3. CASE SleepClose
  BY <1>3 DEF SleepClose, close_sockets
<1>4. CASE SleepHooks
  BY <1>4 DEF SleepHooks
<1>5. CASE SleepAck
  BY <1>5 DEF SleepAck, power_ack
<1>6. CASE WakeAck
  BY <1>6 DEF WakeAck, power_ack
<1>7. CASE WakeLog
  BY <1>7 DEF WakeLog
<1>8. CASE KeepAwakePing
  BY <1>8 DEF KeepAwakePing, keepawake_maybe
<1>9. CASE NetcheckSkip
  BY <1>9 DEF NetcheckSkip
<1>10. CASE Netcheck
  BY <1>10 DEF Netcheck, netif_ipv4_changed, close_sockets
<1>11. CASE Listen
  BY <1>11 DEF Listen, Fault
<1>12. CASE Mdns
  BY <1>12 DEF Mdns, mdns_config_init, Fault
<1>13. CASE Announce
  BY <1>13 DEF Announce, Fault
<1>14. CASE PollFds
  BY <1>14 DEF PollFds, Fault, close_sockets
<1>15. CASE Accept
  BY <1>15 DEF Accept, Fault, connUnchanged
<1>16. CASE FirstRequest
  BY <1>16 DEF FirstRequest, connUnchanged
<1>17. CASE RequestUnreadable
  BY <1>17 DEF RequestUnreadable, connUnchanged
<1>18. CASE ServeRequest
  BY <1>18 DEF ServeRequest, power_schedule
<1>19. CASE StartWait
  BY <1>19 DEF StartWait, connUnchanged
<1>20. CASE WaitSlice
  BY <1>20 DEF WaitSlice, wait_idle, power_sleep_requested, poll_psc, pollVars, keepawake_maybe
<1>21. CASE Respond
  BY <1>21 DEF Respond, connUnchanged
<1>22. CASE NextRequest
  BY <1>22 DEF NextRequest, connUnchanged
<1>23. CASE CloseClient
  BY <1>23 DEF CloseClient, connUnchanged
<1>24. CASE TakeScheduled
  BY <1>24 DEF TakeScheduled, power_take_scheduled
<1>25. CASE PscAsks
  BY <1>25 DEF PscAsks, PscRequest, loopVars
<1>26. CASE NetworkChanges
  BY <1>26 DEF NetworkChanges, IpChange, loopVars
<1>27. CASE KeepAwakeElapses
  BY <1>27 DEF KeepAwakeElapses, loopVars
<1>28. CASE UNCHANGED vars
  BY <1>28
<1> QED
  BY ONLY [Next]_vars, <1>1, <1>2, <1>3, <1>4, <1>5, <1>6, <1>7, <1>8, <1>9, <1>10, <1>11, <1>12, <1>13, <1>14, <1>15, <1>16, <1>17, <1>18, <1>19, <1>20, <1>21, <1>22, <1>23, <1>24, <1>25, <1>26, <1>27, <1>28 DEF Next, Loop, Environment

LEMMA ScheduledStep == ASSUME ScheduledInv, [Next]_vars PROVE ScheduledInv'
<1> USE DEF ScheduledInv, vars, powerVars, pscVars, netifVars, lastVars, sockVars, connVars, mdnsVars
<1>1. CASE PollPower
  BY <1>1 DEF PollPower, power_poll, poll_psc, pollVars
<1>2. CASE SleepLog
  BY <1>2 DEF SleepLog
<1>3. CASE SleepClose
  BY <1>3 DEF SleepClose, close_sockets
<1>4. CASE SleepHooks
  BY <1>4 DEF SleepHooks
<1>5. CASE SleepAck
  BY <1>5 DEF SleepAck, power_ack
<1>6. CASE WakeAck
  BY <1>6 DEF WakeAck, power_ack
<1>7. CASE WakeLog
  BY <1>7 DEF WakeLog
<1>8. CASE KeepAwakePing
  BY <1>8 DEF KeepAwakePing, keepawake_maybe
<1>9. CASE NetcheckSkip
  BY <1>9 DEF NetcheckSkip
<1>10. CASE Netcheck
  BY <1>10 DEF Netcheck, netif_ipv4_changed, close_sockets
<1>11. CASE Listen
  BY <1>11 DEF Listen, Fault
<1>12. CASE Mdns
  BY <1>12 DEF Mdns, mdns_config_init, Fault
<1>13. CASE Announce
  BY <1>13 DEF Announce, Fault
<1>14. CASE PollFds
  BY <1>14 DEF PollFds, Fault, close_sockets
<1>15. CASE Accept
  BY <1>15 DEF Accept, Fault, connUnchanged
<1>16. CASE FirstRequest
  BY <1>16 DEF FirstRequest, connUnchanged
<1>17. CASE RequestUnreadable
  BY <1>17 DEF RequestUnreadable, connUnchanged
<1>18. CASE ServeRequest
  BY <1>18 DEF ServeRequest, power_schedule
<1>19. CASE StartWait
  BY <1>19 DEF StartWait, connUnchanged
<1>20. CASE WaitSlice
  BY <1>20 DEF WaitSlice, wait_idle, power_sleep_requested, poll_psc, pollVars, keepawake_maybe
<1>21. CASE Respond
  BY <1>21 DEF Respond, connUnchanged
<1>22. CASE NextRequest
  BY <1>22 DEF NextRequest, connUnchanged
<1>23. CASE CloseClient
  BY <1>23 DEF CloseClient, connUnchanged
<1>24. CASE TakeScheduled
  BY <1>24 DEF TakeScheduled, power_take_scheduled
<1>25. CASE PscAsks
  BY <1>25 DEF PscAsks, PscRequest, loopVars
<1>26. CASE NetworkChanges
  BY <1>26 DEF NetworkChanges, IpChange, loopVars
<1>27. CASE KeepAwakeElapses
  BY <1>27 DEF KeepAwakeElapses, loopVars
<1>28. CASE UNCHANGED vars
  BY <1>28
<1> QED
  BY ONLY [Next]_vars, <1>1, <1>2, <1>3, <1>4, <1>5, <1>6, <1>7, <1>8, <1>9, <1>10, <1>11, <1>12, <1>13, <1>14, <1>15, <1>16, <1>17, <1>18, <1>19, <1>20, <1>21, <1>22, <1>23, <1>24, <1>25, <1>26, <1>27, <1>28 DEF Next, Loop, Environment
LEMMA LateStep ==
    ASSUME TypeOK, CountInv, LateInv, [Next]_vars PROVE late' \in Nat /\ LateInv'
<1>1. CASE UNCHANGED vars
  BY <1>1 DEF vars, connVars, TypeOK, LateInv
<1>2. CASE Environment
  BY <1>2 DEF Environment, PscAsks, NetworkChanges, KeepAwakeElapses, loopVars, connVars, TypeOK,
              LateInv
<1>3. CASE Loop
  <2> USE ServerLoopAssumption DEF LateInv, CountInv, connVars
  <2>1. late \in Nat /\ served \in 0..MaxServed
    BY DEF TypeOK, Ranges
  <2>2. \/ late' = 0
        \/ pc \in {"wait", "respond"} /\ ~PingMoot' /\ late' = late + 1
        \/ pc \notin {"wait", "respond"} /\ late' = late
    BY <1>3 DEF Loop, CountLate
  <2>3. CASE KeepAwakePing
    <3>1. PingMoot'
      BY <2>3 DEF KeepAwakePing, keepawake_maybe, PingMoot, TypeOK, Flags
    <3>2. late' = 0
      BY <3>1, <1>3 DEF Loop, CountLate
    <3> QED
      BY <2>1, <2>3, <3>2 DEF KeepAwakePing
  <2>4. CASE WaitSlice
    <3>1. PICK asked \in BOOLEAN :
             power_sleep_requested(asked) /\ (~asked => keepawake_maybe)
      BY <2>4 DEF WaitSlice, wait_idle
    <3>2. PingMoot'
      BY <3>1 DEF power_sleep_requested, keepawake_maybe, PingMoot, TypeOK, Flags
    <3>3. late' = 0
      BY <3>2, <1>3 DEF Loop, CountLate
    <3> QED
      BY <2>1, <2>4, <3>3 DEF WaitSlice
  <2>5. CASE PollPower
    BY <2>1, <2>2, <2>5 DEF PollPower
  <2>6. CASE SleepLog
    BY <2>1, <2>2, <2>6 DEF SleepLog
  <2>7. CASE SleepClose
    BY <2>1, <2>2, <2>7 DEF SleepClose
  <2>8. CASE SleepHooks
    BY <2>1, <2>2, <2>8 DEF SleepHooks
  <2>9. CASE SleepAck
    BY <2>1, <2>2, <2>9 DEF SleepAck
  <2>10. CASE WakeAck
    BY <2>1, <2>2, <2>10 DEF WakeAck
  <2>11. CASE WakeLog
    BY <2>1, <2>2, <2>11 DEF WakeLog
  <2>12. CASE NetcheckSkip
    BY <2>1, <2>2, <2>12 DEF NetcheckSkip
  <2>13. CASE Netcheck
    BY <2>1, <2>2, <2>13 DEF Netcheck
  <2>14. CASE Listen
    BY <2>1, <2>2, <2>14 DEF Listen, Fault
  <2>15. CASE Mdns
    BY <2>1, <2>2, <2>15 DEF Mdns
  <2>16. CASE Announce
    BY <2>1, <2>2, <2>16 DEF Announce
  <2>17. CASE PollFds
    BY <2>1, <2>2, <2>17 DEF PollFds
  <2>18. CASE Accept
    BY <2>1, <2>2, <2>18 DEF Accept, Fault
  <2>19. CASE FirstRequest
    BY <2>1, <2>2, <2>19 DEF FirstRequest
  <2>20. CASE RequestUnreadable
    BY <2>1, <2>2, <2>20 DEF RequestUnreadable
  <2>21. CASE ServeRequest
    BY <2>1, <2>2, <2>21 DEF ServeRequest
  <2>22. CASE StartWait
    BY <2>1, <2>2, <2>22 DEF StartWait
  <2>23. CASE Respond
    BY <2>1, <2>2, <2>23 DEF Respond
  <2>24. CASE NextRequest
    BY <2>1, <2>2, <2>24 DEF NextRequest
  <2>25. CASE CloseClient
    BY <2>1, <2>2, <2>25 DEF CloseClient
  <2>26. CASE TakeScheduled
    BY <2>1, <2>2, <2>26 DEF TakeScheduled
  <2> QED
    BY ONLY <1>3, <2>3, <2>4, <2>5, <2>6, <2>7, <2>8, <2>9, <2>10, <2>11, <2>12, <2>13, <2>14, <2>15,
       <2>16, <2>17, <2>18, <2>19, <2>20, <2>21, <2>22, <2>23, <2>24, <2>25, <2>26
       DEF Loop
<1> QED
  BY <1>1, <1>2, <1>3 DEF Next
-----------------------------------------------------------------------------
(* The theorems *)

LEMMA InitIInv == Init => IInv
<1> SUFFICES ASSUME Init PROVE IInv
  OBVIOUS
<1>1. Flags
  BY DEF Init, PowerInit, NetifInit, Flags
<1>2. Ranges
  <2> USE PowerAssumption, NetifAssumption, ServerLoopAssumption
  <2>1. PowerRanges
    BY DEF Init, PowerInit, PowerRanges
  <2>2. NetifRanges
    BY DEF Init, NetifInit, NetifRanges
  <2> QED
    BY <2>1, <2>2 DEF Init, NetifInit, Ranges, Labels, Services
<1>3. CountInv /\ RequestInv /\ ReleaseInv /\ SuspendedInv /\ ScheduledInv
  BY DEF Init, PowerInit, CountInv, RequestInv, ReleaseInv, SuspendedInv, ScheduledInv
<1>4. late \in Nat /\ LateInv
  BY ServerLoopAssumption DEF Init, LateInv
<1> QED
  BY <1>1, <1>2, <1>3, <1>4 DEF IInv, TypeOK

\* The inductive invariant holds in every reachable state of the loop.
THEOREM Invariance == Spec => []IInv
<1>1. IInv /\ [Next]_vars => IInv'
  BY FlagsStep, RangesStep, CountStep, RequestStep, ReleaseStep, SuspendedStep, ScheduledStep,
     LateStep
     DEF IInv, TypeOK
<1> QED
  BY InitIInv, <1>1, PTL DEF Spec

\* Every variable of the loop keeps its type.
THEOREM TypeCorrect == Spec => []TypeOK
<1>1. IInv => TypeOK
  BY DEF IInv
<1> QED
  BY <1>1, Invariance, PTL

\* While the console sleeps http_server.c holds no socket and no work buffer, and
\* log.c's sink is blocked.
THEOREM SleepIsQuiescent == Spec => []SleepQuiescence
<1>1. IInv => SleepQuiescence
  BY DEF IInv, ReleaseInv, SuspendedInv, SleepQuiescence, Asleep
<1> QED
  BY <1>1, Invariance, PTL

\* power_ack answers the request PSC waits on, in the role the loop gave it.
THEOREM AcksAnswerRequests == Spec => []AckAnswersRequest
<1>1. IInv => AckAnswersRequest
  BY DEF IInv, TypeOK, Ranges, PowerRanges, RequestInv, ReadRequest, AckAnswersRequest
<1> QED
  BY <1>1, Invariance, PTL

\* A scheduled power action is taken with the connection that scheduled it.
THEOREM ScheduledIsTaken == Spec => []ScheduledLeavesWithClient
<1>1. IInv => ScheduledLeavesWithClient
  BY DEF IInv, ScheduledInv, ReleaseInv, ScheduledLeavesWithClient
<1> QED
  BY <1>1, Invariance, PTL

\* A due keep-awake ping is never later than the requests of one connection, in
\* whatever number and length their handlers wait.
THEOREM PingsInTime == Spec => []PingNeverLate
<1>1. IInv => PingNeverLate
  BY DEF IInv, LateInv, PingNeverLate
<1> QED
  BY <1>1, Invariance, PTL

\* While the console sleeps the server thread issues no IPC but PSC's own.
THEOREM SleepIsSilent == Spec => SilentWhileAsleep
<1>1. IInv /\ [Next]_vars => [Asleep /\ Asleep' => io' = {}]_vars
  <2> SUFFICES ASSUME IInv, Next, Asleep, Asleep' PROVE io' = {}
    OBVIOUS
  <2>1. suspended /\ pc \in {"poll", "wake_ack"} \cup SleepPath
    BY DEF IInv, SuspendedInv, ReleaseInv, Asleep
  <2>2. pc # "wake_ack"
    BY DEF IInv, TypeOK, Ranges, PowerRanges, RequestInv, ReadRequest, Asleep
  <2>3. ~listen_fd /\ ~mdns_fd /\ ~hdls /\ g_log_suspended
    BY <2>1 DEF IInv, ReleaseInv
  <2>4. CASE Environment
    BY <2>4 DEF Environment, PscAsks, NetworkChanges, KeepAwakeElapses
  <2>5. CASE Loop
    <3>1. PollPower \/ SleepLog \/ SleepClose \/ SleepHooks \/ SleepAck
      BY ONLY <2>1, <2>2, <2>5
         DEF Loop, PollPower, SleepLog, SleepClose, SleepHooks, SleepAck, WakeAck, WakeLog,
             KeepAwakePing, NetcheckSkip, Netcheck, Listen, Mdns, Announce, PollFds, Accept,
             FirstRequest, RequestUnreadable, ServeRequest, StartWait, WaitSlice, Respond,
             NextRequest, CloseClient, TakeScheduled
    <3> QED
      BY <2>3, <3>1 DEF PollPower, SleepLog, SleepClose, SleepHooks, SleepAck, log_write, CloseIo
  <2> QED
    BY <2>4, <2>5 DEF Next
<1> QED
  BY <1>1, Invariance, PTL DEF Spec, SilentWhileAsleep
=============================================================================
