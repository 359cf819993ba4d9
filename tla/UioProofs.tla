----------------------------- MODULE UioProofs ------------------------------
(***************************************************************************)
(* Theorems about UioInstance, for any number of instances, any of them    *)
(* polled, any budget and any faults.                                      *)
(***************************************************************************)
EXTENDS UioInstance, TLAPS

\* Leaves are for Zenon unless they name another prover.
USE ZenonT(120)

USE UioAssumption DEF UioAssumption

\* The call in progress is for instance i, and has come to one of the places.
In(places, i) == call.at \in places /\ call.i = i

\* Instance i is in use, or on the way in or out of it with its thread running.
Alive(i) ==
    \/ state[i] = "READY"
    \/ In({"channels", "enable", "ready", "channelsFree", "osFree"}, i)

\* ipc_os_free has disabled instance i and has not returned yet.
Leaving(i) == In({"cancel", "join"}, i)

\* What HeldMatch says between calls, instance by instance, and what the call in
\* progress has done so far for its own.
HeldInv ==
    /\ call.at = "none" => call = NoCall
    /\ leaked \subseteq irq_num_init \ polled
    /\ devices \subseteq irq_num_init \cap uio_state
    /\ ~loaded => devices = {}
    /\ call # NoCall => loaded /\ files_opened
    /\ call = NoCall /\ files_opened => os_enabled # {}
    /\ files_opened => "module" \in fds
    /\ "cdev" \in fds <=> files_opened
    /\ \A i \in Instance :
          /\ state[i] = "CLEAR" <=> In({"channels", "enable", "ready"}, i)
          /\ state[i] = "READY" => call = NoCall \/ call.i # i
          /\ i \in os_enabled <=> Alive(i)
          /\ Alive(i) => loaded /\ files_opened /\ i \notin cancelled
          /\ Alive(i) => (thread[i] # "none" <=> i \notin polled)
          /\ ~Alive(i) /\ ~Leaving(i) => thread[i] = "none"
          /\ i \in cancelled => thread[i] # "none"
          /\ In({"cancel"}, i) => thread[i] # "none" /\ i \notin cancelled
          /\ In({"join"}, i) /\ thread[i] # "none" => i \in cancelled
          /\ i \in irq_num_init <=>
                \/ i \in leaked
                \/ (Alive(i) \/ Leaving(i)) /\ i \notin polled
          /\ Alive(i) \/ Leaving(i) => i \notin leaked
          /\ Alive(i) /\ i \notin polled => i \in devices

\* A Tx whose receiver is not in use any more has been crossed by its freeing;
\* nothing is in channels that are not initialised, and in those that are and are
\* not in use yet only what such a Tx has pushed.
QuietInv ==
    \A i \in Instance :
        /\ remote[i] = "checked" /\ state[i] # "READY" => i \in crossed
        /\ pending[i] # 0 => ChannelsUp(i)
        /\ pending[i] # 0 /\ In({"enable", "ready"}, i) => i \in crossed

\* LineComesBack, from the moment that the interrupt is enabled.
LineInv ==
    \A i \in Instance :
        i \notin polled /\ (state[i] = "READY" \/ In({"ready"}, i)) /\ i \notin enabled =>
            handler[i] # "idle" \/ event[i] \/ thread[i] # "read"

IndInv == TypeOK /\ HeldInv /\ QuietInv /\ LineInv /\ WakeupPending

-----------------------------------------------------------------------------
LEMMA ZeroInstance == 0 \in Instance /\ 0 \in 0..Budget /\ 0 \in 0..QueueCap
BY SMTT(60) DEF Instance

LEMMA InitFacts == Init => IndInv
<1> SUFFICES ASSUME Init PROVE IndInv
    OBVIOUS
<1>1. TypeOK
    BY ZeroInstance DEF Init, TypeOK, NoCall
<1>2. HeldInv
    BY DEF Init, HeldInv, In, Alive, Leaving, NoCall
<1> QED
    BY <1>1, <1>2 DEF Init, IndInv, QuietInv, LineInv, WakeupPending, In, NoCall

LEMMA TypeStep == TypeOK /\ [Next]_vars => TypeOK'
<1> SUFFICES ASSUME TypeOK, [Next]_vars PROVE TypeOK'
    OBVIOUS
<1> USE DEF TypeOK, NoCall, lib, rx, kernel, uio, irq, msgs
<1>0. CASE UNCHANGED vars
    BY <1>0 DEF vars
<1>1. ASSUME NEW i \in Instance, OsInitFails(i) PROVE TypeOK'
    BY <1>1 DEF OsInitFails, OsInitError, ModuleInit, ModuleInitFails
<1>2. ASSUME NEW i \in Instance, OsInitRegisterFails(i) PROVE TypeOK'
    BY <1>2 DEF OsInitRegisterFails, OsInitError, Refused, ModuleInit
<1>3. ASSUME NEW i \in Instance, OsInitOpenFails(i) PROVE TypeOK'
    BY <1>3 DEF OsInitOpenFails, OsInitError, Refused, ModuleInit
<1>4. ASSUME NEW i \in Instance, OsInit(i) PROVE TypeOK'
    BY <1>4 DEF OsInit, ipc_uio_init, ipc_os_softirq_init, Goto, Refused, ModuleInit
<1>5. ASSUME NEW i \in Instance, FreeState(i) PROVE TypeOK'
    BY <1>5 DEF FreeState, Goto
<1>6. ASSUME NEW i \in Instance, ipc_os_poll_channels(i) PROVE TypeOK'
    BY <1>6, ZeroInstance, SMTT(60) DEF ipc_os_poll_channels
<1>7. ASSUME NEW i \in Instance, Channels(i) PROVE TypeOK'
    BY <1>7, SMTT(60) DEF Channels, At, Goto
<1>8. ASSUME NEW i \in Instance, Ready(i) PROVE TypeOK'
    BY <1>8, ZeroInstance DEF Ready, At
<1>9. ASSUME NEW i \in Instance, FreeChannels(i) PROVE TypeOK'
    BY <1>9, ZeroInstance DEF FreeChannels, At, Goto
<1>10. ASSUME NEW i \in Instance, OsFreeCancel(i) PROVE TypeOK'
    BY <1>10 DEF OsFreeCancel, At, Goto
<1>11. ASSUME NEW i \in Instance, OsFreeJoined(i) PROVE TypeOK'
    <2>1. /\ call' = NoCall /\ files_opened' \in BOOLEAN /\ loaded' \in BOOLEAN
          /\ fds' \subseteq fds /\ irq_num_init' \subseteq irq_num_init
          /\ UNCHANGED <<polled, state, os_enabled, rx, irq, msgs>>
        BY <1>11 DEF OsFreeJoined, LastFree, ipc_uio_free, ipc_shm_uio_remove
    <2> QED
        BY <2>1, ZeroInstance
<1>12. ASSUME NEW i \in Instance, ThreadEnds(i) PROVE TypeOK'
    BY <1>12 DEF ThreadEnds
<1>13. ASSUME NEW i \in Instance, ThreadRead(i) PROVE TypeOK'
    BY <1>13 DEF ThreadRead
<1>14. ASSUME NEW i \in Instance, ThreadCall(i) PROVE TypeOK'
    BY <1>14, ZeroInstance DEF ThreadCall
<1>15. ASSUME NEW i \in Instance, ThreadRx(i) PROVE TypeOK'
    BY <1>15, SMTT(60) DEF ThreadRx
<1>16. ASSUME NEW i \in Instance, ThreadTest(i) PROVE TypeOK'
    BY <1>16 DEF ThreadTest
<1>17. ASSUME NEW i \in Instance, ThreadEnable(i) PROVE TypeOK'
    BY <1>17 DEF ThreadEnable
<1>18. ASSUME NEW i \in Instance, HandlerDisable(i) PROVE TypeOK'
    BY <1>18 DEF HandlerDisable
<1>19. ASSUME NEW i \in Instance, HandlerClear(i) PROVE TypeOK'
    BY <1>19 DEF HandlerClear
<1>20. ASSUME NEW i \in Instance, HandlerNotify(i) PROVE TypeOK'
    BY <1>20 DEF HandlerNotify
<1>21. ASSUME NEW i \in Instance, TxPush(i) PROVE TypeOK'
    BY <1>21, SMTT(60) DEF TxPush, ChannelsUp
<1>22. ASSUME NEW i \in Instance, TxNotify(i) PROVE TypeOK'
    BY <1>22 DEF TxNotify
<1>23. ASSUME NEW i \in Instance, IrqEnable(i) PROVE TypeOK'
    BY <1>23 DEF IrqEnable, At, Goto
<1>24. ASSUME NEW i \in Instance, OsFreeDisable(i) PROVE TypeOK'
    BY <1>24 DEF OsFreeDisable, At, Goto
<1>25. ASSUME NEW i \in Instance, TxCheck(i) PROVE TypeOK'
    BY <1>25 DEF TxCheck
<1> QED
    BY <1>0, <1>1, <1>2, <1>3, <1>4, <1>5, <1>6, <1>7, <1>8, <1>9, <1>10, <1>11, <1>12,
       <1>13, <1>14, <1>15, <1>16, <1>17, <1>18, <1>19, <1>20, <1>21, <1>22,
       <1>23, <1>24, <1>25
        DEF Next, CallStep, Thread, Handler

LEMMA HeldStep == TypeOK /\ HeldInv /\ [Next]_vars => HeldInv'
<1> SUFFICES ASSUME TypeOK, HeldInv, [Next]_vars PROVE HeldInv'
    OBVIOUS
<1> USE DEF TypeOK, HeldInv, In, Alive, Leaving, NoCall, lib, rx, kernel, uio, irq, msgs
<1>0. CASE UNCHANGED vars
    BY <1>0, SMTT(60) DEF vars
<1>1. ASSUME NEW i \in Instance, OsInitFails(i) PROVE HeldInv'
    BY <1>1, SMTT(60) DEF OsInitFails, OsInitError, ModuleInit, ModuleInitFails
<1>2. ASSUME NEW i \in Instance, OsInitRegisterFails(i) PROVE HeldInv'
    BY <1>2, SMTT(60) DEF OsInitRegisterFails, OsInitError, Refused, ModuleInit
<1>3. ASSUME NEW i \in Instance, OsInitOpenFails(i) PROVE HeldInv'
    BY <1>3, SMTT(60) DEF OsInitOpenFails, OsInitError, Refused, ModuleInit
<1>4. ASSUME NEW i \in Instance, OsInit(i) PROVE HeldInv'
    BY <1>4, SMTT(60) DEF OsInit, ipc_uio_init, ipc_os_softirq_init, Goto, Refused,
       ModuleInit
<1>5. ASSUME NEW i \in Instance, FreeState(i) PROVE HeldInv'
    BY <1>5, SMTT(60) DEF FreeState, Goto
<1>6. ASSUME NEW i \in Instance, ipc_os_poll_channels(i) PROVE HeldInv'
    BY <1>6, SMTT(60) DEF ipc_os_poll_channels
<1>7. ASSUME NEW i \in Instance, Channels(i) PROVE HeldInv'
    BY <1>7, SMTT(60) DEF Channels, At, Goto
<1>8. ASSUME NEW i \in Instance, Ready(i) PROVE HeldInv'
    BY <1>8, SMTT(60) DEF Ready, At
<1>9. ASSUME NEW i \in Instance, FreeChannels(i) PROVE HeldInv'
    BY <1>9 DEF FreeChannels, At, Goto
<1>10. ASSUME NEW i \in Instance, OsFreeCancel(i) PROVE HeldInv'
    BY <1>10 DEF OsFreeCancel, At, Goto
<1>11. ASSUME NEW i \in Instance, OsFreeJoined(i) PROVE HeldInv'
    BY <1>11, SMTT(60) DEF OsFreeJoined, At, LastFree, ipc_uio_free,
       ipc_shm_uio_remove
<1>12. ASSUME NEW i \in Instance, ThreadEnds(i) PROVE HeldInv'
    BY <1>12, SMTT(60) DEF ThreadEnds
<1>13. ASSUME NEW i \in Instance, ThreadRead(i) PROVE HeldInv'
    BY <1>13, SMTT(60) DEF ThreadRead
<1>14. ASSUME NEW i \in Instance, ThreadCall(i) PROVE HeldInv'
    BY <1>14, SMTT(60) DEF ThreadCall
<1>15. ASSUME NEW i \in Instance, ThreadRx(i) PROVE HeldInv'
    BY <1>15, SMTT(60) DEF ThreadRx
<1>16. ASSUME NEW i \in Instance, ThreadTest(i) PROVE HeldInv'
    BY <1>16, SMTT(60) DEF ThreadTest
<1>17. ASSUME NEW i \in Instance, ThreadEnable(i) PROVE HeldInv'
    BY <1>17, SMTT(60) DEF ThreadEnable
<1>18. ASSUME NEW i \in Instance, HandlerDisable(i) PROVE HeldInv'
    BY <1>18, SMTT(60) DEF HandlerDisable
<1>19. ASSUME NEW i \in Instance, HandlerClear(i) PROVE HeldInv'
    BY <1>19, SMTT(60) DEF HandlerClear
<1>20. ASSUME NEW i \in Instance, HandlerNotify(i) PROVE HeldInv'
    BY <1>20, SMTT(60) DEF HandlerNotify
<1>21. ASSUME NEW i \in Instance, TxPush(i) PROVE HeldInv'
    BY <1>21, SMTT(60) DEF TxPush, ChannelsUp
<1>22. ASSUME NEW i \in Instance, TxNotify(i) PROVE HeldInv'
    BY <1>22, SMTT(60) DEF TxNotify
<1>23. ASSUME NEW i \in Instance, IrqEnable(i) PROVE HeldInv'
    BY <1>23, SMTT(60) DEF IrqEnable, At, Goto
<1>24. ASSUME NEW i \in Instance, OsFreeDisable(i) PROVE HeldInv'
    BY <1>24, SMTT(60) DEF OsFreeDisable, At, Goto
<1>25. ASSUME NEW i \in Instance, TxCheck(i) PROVE HeldInv'
    BY <1>25, SMTT(60) DEF TxCheck
<1> QED
    BY <1>0, <1>1, <1>2, <1>3, <1>4, <1>5, <1>6, <1>7, <1>8, <1>9, <1>10, <1>11, <1>12,
       <1>13, <1>14, <1>15, <1>16, <1>17, <1>18, <1>19, <1>20, <1>21, <1>22,
       <1>23, <1>24, <1>25
        DEF Next, CallStep, Thread, Handler

LEMMA QuietStep == TypeOK /\ HeldInv /\ QuietInv /\ [Next]_vars => QuietInv'
<1> SUFFICES ASSUME TypeOK, HeldInv, QuietInv, [Next]_vars PROVE QuietInv'
    OBVIOUS
<1> USE DEF TypeOK, HeldInv, QuietInv, ChannelsUp, In, Alive, Leaving, NoCall, lib, rx, kernel, uio, irq, msgs
<1>0. CASE UNCHANGED vars
    BY <1>0 DEF vars
<1>1. ASSUME NEW i \in Instance, OsInitFails(i) PROVE QuietInv'
    BY <1>1 DEF OsInitFails, OsInitError, ModuleInitFails
<1>2. ASSUME NEW i \in Instance, OsInitRegisterFails(i) PROVE QuietInv'
    BY <1>2 DEF OsInitRegisterFails, OsInitError
<1>3. ASSUME NEW i \in Instance, OsInitOpenFails(i) PROVE QuietInv'
    BY <1>3 DEF OsInitOpenFails, OsInitError
<1>4. ASSUME NEW i \in Instance, OsInit(i) PROVE QuietInv'
    BY <1>4, SMTT(60) DEF OsInit, ipc_uio_init, ipc_os_softirq_init, Goto
<1>5. ASSUME NEW i \in Instance, FreeState(i) PROVE QuietInv'
    BY <1>5, SMTT(60) DEF FreeState, Goto
<1>6. ASSUME NEW i \in Instance, ipc_os_poll_channels(i) PROVE QuietInv'
    BY <1>6, SMTT(60) DEF ipc_os_poll_channels
<1>7. ASSUME NEW i \in Instance, Channels(i) PROVE QuietInv'
    BY <1>7, SMTT(60) DEF Channels, At, Goto
<1>8. ASSUME NEW i \in Instance, Ready(i) PROVE QuietInv'
    BY <1>8, SMTT(60) DEF Ready, At
<1>9. ASSUME NEW i \in Instance, FreeChannels(i) PROVE QuietInv'
    BY <1>9, SMTT(60) DEF FreeChannels, At, Goto
<1>10. ASSUME NEW i \in Instance, OsFreeCancel(i) PROVE QuietInv'
    BY <1>10 DEF OsFreeCancel, At, Goto
<1>11. ASSUME NEW i \in Instance, OsFreeJoined(i) PROVE QuietInv'
    BY <1>11 DEF OsFreeJoined, At, LastFree, ipc_uio_free,
       ipc_shm_uio_remove
<1>12. ASSUME NEW i \in Instance, ThreadEnds(i) PROVE QuietInv'
    BY <1>12 DEF ThreadEnds
<1>13. ASSUME NEW i \in Instance, ThreadRead(i) PROVE QuietInv'
    BY <1>13 DEF ThreadRead
<1>14. ASSUME NEW i \in Instance, ThreadCall(i) PROVE QuietInv'
    BY <1>14 DEF ThreadCall
<1>15. ASSUME NEW i \in Instance, ThreadRx(i) PROVE QuietInv'
    BY <1>15, SMTT(60) DEF ThreadRx
<1>16. ASSUME NEW i \in Instance, ThreadTest(i) PROVE QuietInv'
    BY <1>16 DEF ThreadTest
<1>17. ASSUME NEW i \in Instance, ThreadEnable(i) PROVE QuietInv'
    BY <1>17 DEF ThreadEnable
<1>18. ASSUME NEW i \in Instance, HandlerDisable(i) PROVE QuietInv'
    BY <1>18 DEF HandlerDisable
<1>19. ASSUME NEW i \in Instance, HandlerClear(i) PROVE QuietInv'
    BY <1>19 DEF HandlerClear
<1>20. ASSUME NEW i \in Instance, HandlerNotify(i) PROVE QuietInv'
    BY <1>20 DEF HandlerNotify
<1>21. ASSUME NEW i \in Instance, TxPush(i) PROVE QuietInv'
    BY <1>21, SMTT(60) DEF TxPush, ChannelsUp
<1>22. ASSUME NEW i \in Instance, TxNotify(i) PROVE QuietInv'
    BY <1>22, SMTT(60) DEF TxNotify
<1>23. ASSUME NEW i \in Instance, IrqEnable(i) PROVE QuietInv'
    BY <1>23, SMTT(60) DEF IrqEnable, At, Goto
<1>24. ASSUME NEW i \in Instance, OsFreeDisable(i) PROVE QuietInv'
    BY <1>24, SMTT(60) DEF OsFreeDisable, At, Goto
<1>25. ASSUME NEW i \in Instance, TxCheck(i) PROVE QuietInv'
    BY <1>25, SMTT(60) DEF TxCheck
<1> QED
    BY <1>0, <1>1, <1>2, <1>3, <1>4, <1>5, <1>6, <1>7, <1>8, <1>9, <1>10, <1>11, <1>12,
       <1>13, <1>14, <1>15, <1>16, <1>17, <1>18, <1>19, <1>20, <1>21, <1>22,
       <1>23, <1>24, <1>25
        DEF Next, CallStep, Thread, Handler

LEMMA LineStep == TypeOK /\ HeldInv /\ LineInv /\ [Next]_vars => LineInv'
<1> SUFFICES ASSUME TypeOK, HeldInv, LineInv, [Next]_vars PROVE LineInv'
    OBVIOUS
<1> USE DEF TypeOK, HeldInv, LineInv, In, Alive, Leaving, NoCall, lib, rx, kernel, uio, irq, msgs
<1>0. CASE UNCHANGED vars
    BY <1>0 DEF vars
<1>1. ASSUME NEW i \in Instance, OsInitFails(i) PROVE LineInv'
    BY <1>1, SMTT(60) DEF OsInitFails, OsInitError, ModuleInitFails
<1>2. ASSUME NEW i \in Instance, OsInitRegisterFails(i) PROVE LineInv'
    BY <1>2 DEF OsInitRegisterFails, OsInitError
<1>3. ASSUME NEW i \in Instance, OsInitOpenFails(i) PROVE LineInv'
    BY <1>3 DEF OsInitOpenFails, OsInitError
<1>4. ASSUME NEW i \in Instance, OsInit(i) PROVE LineInv'
    BY <1>4, SMTT(60) DEF OsInit, ipc_uio_init, ipc_os_softirq_init, Goto
<1>5. ASSUME NEW i \in Instance, FreeState(i) PROVE LineInv'
    BY <1>5 DEF FreeState, Goto
<1>6. ASSUME NEW i \in Instance, ipc_os_poll_channels(i) PROVE LineInv'
    BY <1>6 DEF ipc_os_poll_channels
<1>7. ASSUME NEW i \in Instance, Channels(i) PROVE LineInv'
    BY <1>7, SMTT(60) DEF Channels, At, Goto
<1>8. ASSUME NEW i \in Instance, Ready(i) PROVE LineInv'
    BY <1>8 DEF Ready, At
<1>9. ASSUME NEW i \in Instance, FreeChannels(i) PROVE LineInv'
    BY <1>9 DEF FreeChannels, At, Goto
<1>10. ASSUME NEW i \in Instance, OsFreeCancel(i) PROVE LineInv'
    BY <1>10 DEF OsFreeCancel, At, Goto
<1>11. ASSUME NEW i \in Instance, OsFreeJoined(i) PROVE LineInv'
    BY <1>11 DEF OsFreeJoined, At, LastFree, ipc_uio_free,
       ipc_shm_uio_remove
<1>12. ASSUME NEW i \in Instance, ThreadEnds(i) PROVE LineInv'
    BY <1>12, SMTT(60) DEF ThreadEnds
<1>13. ASSUME NEW i \in Instance, ThreadRead(i) PROVE LineInv'
    BY <1>13, SMTT(60) DEF ThreadRead
<1>14. ASSUME NEW i \in Instance, ThreadCall(i) PROVE LineInv'
    BY <1>14, SMTT(60) DEF ThreadCall
<1>15. ASSUME NEW i \in Instance, ThreadRx(i) PROVE LineInv'
    BY <1>15, SMTT(60) DEF ThreadRx
<1>16. ASSUME NEW i \in Instance, ThreadTest(i) PROVE LineInv'
    BY <1>16, SMTT(60) DEF ThreadTest
<1>17. ASSUME NEW i \in Instance, ThreadEnable(i) PROVE LineInv'
    BY <1>17, SMTT(60) DEF ThreadEnable
<1>18. ASSUME NEW i \in Instance, HandlerDisable(i) PROVE LineInv'
    BY <1>18, SMTT(60) DEF HandlerDisable
<1>19. ASSUME NEW i \in Instance, HandlerClear(i) PROVE LineInv'
    BY <1>19, SMTT(60) DEF HandlerClear
<1>20. ASSUME NEW i \in Instance, HandlerNotify(i) PROVE LineInv'
    BY <1>20, SMTT(60) DEF HandlerNotify
<1>21. ASSUME NEW i \in Instance, TxPush(i) PROVE LineInv'
    BY <1>21 DEF TxPush, ChannelsUp
<1>22. ASSUME NEW i \in Instance, TxNotify(i) PROVE LineInv'
    BY <1>22 DEF TxNotify
<1>23. ASSUME NEW i \in Instance, IrqEnable(i) PROVE LineInv'
    BY <1>23, SMTT(60) DEF IrqEnable, At, Goto
<1>24. ASSUME NEW i \in Instance, OsFreeDisable(i) PROVE LineInv'
    BY <1>24, SMTT(60) DEF OsFreeDisable, At, Goto
<1>25. ASSUME NEW i \in Instance, TxCheck(i) PROVE LineInv'
    BY <1>25 DEF TxCheck
<1> QED
    BY <1>0, <1>1, <1>2, <1>3, <1>4, <1>5, <1>6, <1>7, <1>8, <1>9, <1>10, <1>11, <1>12,
       <1>13, <1>14, <1>15, <1>16, <1>17, <1>18, <1>19, <1>20, <1>21, <1>22,
       <1>23, <1>24, <1>25
        DEF Next, CallStep, Thread, Handler

LEMMA WakeupStep == TypeOK /\ HeldInv /\ QuietInv /\ WakeupPending /\ [Next]_vars => WakeupPending'
<1> SUFFICES ASSUME TypeOK, HeldInv, QuietInv, WakeupPending, [Next]_vars PROVE WakeupPending'
    OBVIOUS
<1>a. \A i \in Instance : state[i] = "READY" => i \notin cancelled
    BY DEF HeldInv, Alive
<1>b. /\ state \in [Instance -> {"FREE", "CLEAR", "READY"}]
      /\ thread \in [Instance -> {"none", "read", "call", "rx", "test", "enable"}]
      /\ handler \in [Instance -> {"idle", "clear", "notify"}]
      /\ event \in [Instance -> BOOLEAN]
      /\ remote \in [Instance -> {"idle", "checked", "pushed"}]
    BY DEF TypeOK
<1>c. work \in [Instance -> 0..Budget] /\ pending \in [Instance -> 0..QueueCap]
    BY DEF TypeOK
<1>d. \A i \in Instance : At("ready", i) /\ pending[i] # 0 => i \in crossed
    BY SMTT(60) DEF At, QuietInv, In
<1> USE DEF WakeupPending, lib, rx, kernel, uio, irq, msgs
<1>0. CASE UNCHANGED vars
    BY <1>0 DEF vars
<1>1. ASSUME NEW i \in Instance, OsInitFails(i) PROVE WakeupPending'
    BY <1>1, <1>b DEF OsInitFails, OsInitError, ModuleInitFails
<1>2. ASSUME NEW i \in Instance, OsInitRegisterFails(i) PROVE WakeupPending'
    BY <1>2, <1>b DEF OsInitRegisterFails, OsInitError
<1>3. ASSUME NEW i \in Instance, OsInitOpenFails(i) PROVE WakeupPending'
    BY <1>3, <1>b DEF OsInitOpenFails, OsInitError
<1>4. ASSUME NEW i \in Instance, OsInit(i) PROVE WakeupPending'
    BY <1>4, <1>b DEF OsInit, ipc_uio_init, ipc_os_softirq_init, Goto
<1>5. ASSUME NEW i \in Instance, FreeState(i) PROVE WakeupPending'
    BY <1>5, <1>b DEF FreeState, Goto
<1>6. ASSUME NEW i \in Instance, ipc_os_poll_channels(i) PROVE WakeupPending'
    BY <1>6, <1>b, <1>c, SMTT(60) DEF ipc_os_poll_channels
<1>7. ASSUME NEW i \in Instance, Channels(i) PROVE WakeupPending'
    BY <1>7, <1>b, SMTT(60) DEF Channels, At, Goto
<1>8. ASSUME NEW i \in Instance, Ready(i) PROVE WakeupPending'
    BY <1>8, <1>b, <1>c, <1>d, SMTT(60) DEF Ready, At
<1>9. ASSUME NEW i \in Instance, FreeChannels(i) PROVE WakeupPending'
    BY <1>9, <1>b, <1>c, SMTT(60) DEF FreeChannels, At, Goto
<1>10. ASSUME NEW i \in Instance, OsFreeCancel(i) PROVE WakeupPending'
    BY <1>10, <1>b DEF OsFreeCancel, At, Goto
<1>11. ASSUME NEW i \in Instance, OsFreeJoined(i) PROVE WakeupPending'
    BY <1>11, <1>b DEF OsFreeJoined, At, LastFree, ipc_uio_free,
       ipc_shm_uio_remove
<1>12. ASSUME NEW i \in Instance, ThreadEnds(i) PROVE WakeupPending'
    BY <1>12, <1>a, <1>b DEF ThreadEnds
<1>13. ASSUME NEW i \in Instance, ThreadRead(i) PROVE WakeupPending'
    BY <1>13, <1>b DEF ThreadRead
<1>14. ASSUME NEW i \in Instance, ThreadCall(i) PROVE WakeupPending'
    BY <1>14, <1>b, <1>c, SMTT(60) DEF ThreadCall
<1>15. ASSUME NEW i \in Instance, ThreadRx(i) PROVE WakeupPending'
    BY <1>15, <1>b, <1>c, SMTT(60) DEF ThreadRx
<1>16. ASSUME NEW i \in Instance, ThreadTest(i) PROVE WakeupPending'
    BY <1>16, <1>b, <1>c, SMTT(60) DEF ThreadTest
<1>17. ASSUME NEW i \in Instance, ThreadEnable(i) PROVE WakeupPending'
    BY <1>17, <1>b DEF ThreadEnable
<1>18. ASSUME NEW i \in Instance, HandlerDisable(i) PROVE WakeupPending'
    BY <1>18, <1>b DEF HandlerDisable
<1>19. ASSUME NEW i \in Instance, HandlerClear(i) PROVE WakeupPending'
    BY <1>19, <1>b DEF HandlerClear
<1>20. ASSUME NEW i \in Instance, HandlerNotify(i) PROVE WakeupPending'
    BY <1>20, <1>b DEF HandlerNotify
<1>21. ASSUME NEW i \in Instance, TxPush(i) PROVE WakeupPending'
    BY <1>21, <1>b, <1>c, SMTT(60) DEF TxPush, ChannelsUp
<1>22. ASSUME NEW i \in Instance, TxNotify(i) PROVE WakeupPending'
    BY <1>22, <1>b DEF TxNotify
<1>23. ASSUME NEW i \in Instance, IrqEnable(i) PROVE WakeupPending'
    BY <1>23, <1>b DEF IrqEnable, At, Goto
<1>24. ASSUME NEW i \in Instance, OsFreeDisable(i) PROVE WakeupPending'
    BY <1>24, <1>b DEF OsFreeDisable, At, Goto
<1>25. ASSUME NEW i \in Instance, TxCheck(i) PROVE WakeupPending'
    BY <1>25, <1>b, SMTT(60) DEF TxCheck
<1> QED
    BY <1>0, <1>1, <1>2, <1>3, <1>4, <1>5, <1>6, <1>7, <1>8, <1>9, <1>10, <1>11, <1>12,
       <1>13, <1>14, <1>15, <1>16, <1>17, <1>18, <1>19, <1>20, <1>21, <1>22,
       <1>23, <1>24, <1>25
        DEF Next, CallStep, Thread, Handler

LEMMA Inductive == Spec => []IndInv
<1>1. IndInv /\ [Next]_vars => IndInv'
    BY TypeStep, HeldStep, QuietStep, LineStep, WakeupStep DEF IndInv
<1> QED
    BY <1>1, InitFacts, PTL DEF Spec

LEMMA HeldFollows == TypeOK /\ HeldInv => HeldMatch
<1> SUFFICES ASSUME TypeOK, HeldInv, call = NoCall PROVE HeldMatch
    BY DEF HeldMatch
<1>1. \A i \in Instance : Alive(i) <=> state[i] = "READY"
    BY DEF Alive, In, NoCall
<1>2. \A i \in Instance : ~Leaving(i)
    BY DEF Leaving, In, NoCall
<1> QED
    BY <1>1, <1>2, SMTT(60) DEF HeldMatch, HeldInv, TypeOK

\* Whatever calls of ipc_shm_init_instance fail, and wherever they do, between
\* calls the library and the kernel module hold what the instances in use need
\* and nothing that hinders one of them.
THEOREM Held == Spec => []HeldMatch
<1>1. IndInv => HeldMatch
    BY HeldFollows DEF IndInv
<1> QED
    BY <1>1, Inductive, PTL

\* Between ipc_shm_uio_handler in the kernel and ipc_shm_softirq in user space
\* no wakeup is lost, with the tests and the push of ipc_shm_tx, the cancelling of
\* the thread and the enabling of the interrupt as steps of their own; the one Tx
\* that the freeing of its receiver has crossed is the exception of WakeupPending.
THEOREM NoLostWakeup == Spec => []WakeupPending
<1>1. IndInv => WakeupPending
    BY DEF IndInv
<1> QED
    BY <1>1, Inductive, PTL

\* The interrupt that ipc_shm_uio_handler disables is enabled again by the
\* handler's event or by the thread.
THEOREM NoLostLine == Spec => []LineComesBack
<1>1. IndInv => LineComesBack
    BY DEF IndInv, LineInv, LineComesBack
<1> QED
    BY <1>1, Inductive, PTL
=============================================================================
