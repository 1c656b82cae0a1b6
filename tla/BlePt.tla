------------------------------- MODULE BlePt -------------------------------
(***************************************************************************)
(* The BLE protocol translator (blept-example): the life of a BLE device   *)
(* context between BlueZ on one side and Edge Core on the other.           *)
(*                                                                         *)
(* Two threads act.  The glib main loop dispatches D-Bus signals and       *)
(* replies, timers, idle sources and Unix signals, one handler at a time;  *)
(* every handler is one action here.  The pt-client thread runs the Edge   *)
(* callbacks, which touch a few globals and otherwise hand their work to   *)
(* the main loop with g_idle_add.  The order of handlers, replies and      *)
(* callbacks is left open; the idle sources of one priority are FIFO.      *)
(*                                                                         *)
(* Abstracted: the wall clock, to which side of the two limits of          *)
(* ble_start_reconnection_timer_or_unregister_device a context's last      *)
(* connection lies; the length of the retry timers (see BleReconnect); the *)
(* GATT data; one outstanding read stands for the reads of all             *)
(* characteristics of a device.                                            *)
(***************************************************************************)
EXTENDS Naturals, Sequences, FiniteSets

CONSTANTS
    Devices,        \* the persistent GATT servers within reach of the adapter
    Resolvable,     \* those whose GATT services BlueZ manages to resolve
    LinksKept,      \* BlueZ may hold links from before the process started
    CreateMayFail,  \* pt_device_create may fail although Edge is connected
    ExpireRetries,  \* first retry with a back-off above its maximal time
    MaxRetries,     \* BLE_MAX_CONNECTION_RETRIES
    MaxCalls,       \* bound on outstanding calls of one kind for one device
    MaxAge,         \* bound on the class of the time since a connection
    MaxIdle,        \* bound on idle sources, for the pt-client's callbacks
    MaxFaults       \* bound on faults of BlueZ, the links, Edge and the user

ASSUME BlePtAssumption ==
    /\ Resolvable \subseteq Devices
    /\ LinksKept \in BOOLEAN /\ CreateMayFail \in BOOLEAN
    /\ ExpireRetries \in Nat \ {0}
    /\ MaxRetries \in Nat \ {0}
    /\ MaxCalls \in Nat \ {0}
    /\ MaxAge \in 0..2
    /\ MaxIdle \in Nat \ {0}
    /\ MaxFaults \in Nat

VARIABLES
    \* The process.
    running,        \* global_keep_running
    unregistering,  \* unregistering_devices
    loop,           \* where ble_start is: "start", "run", "done"; or "crashed"
    idle,           \* the idle sources queued with g_idle_add
    abrupt,         \* history: the main loop was told to quit without draining
    handled,        \* how many of SIGTERM and SIGINT have had their handler run
    \* The device contexts of the global list, one set per field.
    tracked,        \* the devices with a context on the list
    registered,     \* BLE_DEVICE_FLAG_REGISTERED
    connected,      \* BLE_DEVICE_FLAG_CONNECTED
    resolved,       \* services_resolved
    timerId,        \* retry_timer_source # 0
    retries,        \* connection_retries
    age,            \* class of the time since last_connected_timestamp_secs
    timerSrc,       \* the glib timeout sources that hold a context pointer
    \* BlueZ as the proxies' cached properties show it.
    present,        \* the device objects BlueZ exports
    link,           \* property Connected
    gatt,           \* property ServicesResolved
    \* Outstanding D-Bus calls.
    connects,       \* Connect, per device
    removes,        \* RemoveDevice
    reads,          \* ReadValue
    \* The pt-client and Edge Core.
    conn,           \* g_connection_id is valid
    ptReg,          \* the translator's own registration has been answered
    ptdev,          \* device objects that exist in the pt-client
    res,            \* device objects whose GATT resources have been added
    edgeReg,        \* devices of which Edge's last answer was "registered"
    regs,           \* outstanding pt_device_register, per device
    unregs,         \* outstanding pt_device_unregister, by delete_context too
    faults          \* faults taken so far

procVars  == <<running, unregistering, loop, abrupt, handled>>
timerVars == <<timerId, timerSrc>>
retryVars == <<retries, age>>
ctxVars   == <<tracked, registered, connected, resolved, timerId, timerSrc,
               retries, age>>
bluezVars == <<present, link, gatt>>
callVars  == <<connects, removes, reads>>
edgeVars  == <<conn, ptReg, ptdev, res, edgeReg, regs, unregs>>
vars == <<running, unregistering, loop, idle, abrupt, handled,
          tracked, registered, connected, resolved, timerId, timerSrc,
          retries, age, present, link, gatt, connects, removes, reads,
          conn, ptReg, ptdev, res, edgeReg, regs, unregs, faults>>

-----------------------------------------------------------------------------
(* Idle sources: each carries the handler's name and its message. *)

QuitLoop            == [call |-> "quit"]
PtReady             == [call |-> "pt_ready"]
GracefulShutdown    == [call |-> "shutdown"]
Registered(d)       == [call |-> "registered", dev |-> d]
Unregistered(d, c)  == [call |-> "unregistered", dev |-> d, del |-> c]

IdleSource ==
    {QuitLoop, PtReady, GracefulShutdown}
      \cup {Registered(d) : d \in Devices}
      \cup {Unregistered(d, c) : d \in Devices, c \in BOOLEAN}

(* The main loop dispatches nothing outside g_main_loop_run. *)
LoopRuns == loop = "run"

(* ble_start returns from g_main_loop_run and tests `retry`. *)
LeaveLoop == IF running THEN "start" ELSE "done"

(* Classes of the time since a context's last connection: below the maximal *)
(* back-off time, up to MAX_CONNECTION_RETRY_TIME_SECONDS, or beyond.       *)
Recent == 0
Overdue == 1
Expired == 2

Zero(f, S) == [d \in Devices |-> IF d \in S THEN 0 ELSE f[d]]

Fault == faults < MaxFaults /\ faults' = faults + 1

-----------------------------------------------------------------------------
(* Helpers of the handlers.  Each fixes the primed value of the variables  *)
(* it names and leaves the others to its caller.                           *)

(* Mutant: device_free without device_stop_retry_timer. *)
devices_del_device_timer_left(d, cs) ==
    /\ tracked' = tracked \ {d} /\ registered' = registered \ {d}
    /\ connected' = cs \ {d} /\ resolved' = resolved \ {d}
    /\ timerId' = timerId \ {d}
    /\ retries' = Zero(retries, {d}) /\ age' = Zero(age, {d})
    /\ UNCHANGED timerSrc

(* device_free and ns_list_remove: the context goes, and with it the glib  *)
(* source that retry_timer_source names.  cs are the CONNECTED flags at the *)
(* time of the call.                                                        *)
devices_del_device(d, cs) ==
    /\ tracked' = tracked \ {d}
    /\ registered' = registered \ {d}
    /\ connected' = cs \ {d}
    /\ resolved' = resolved \ {d}
    /\ timerSrc' = timerSrc \ (timerId \cap {d})
    /\ timerId' = timerId \ {d}
    /\ retries' = Zero(retries, {d}) /\ age' = Zero(age, {d})

(* Mutant: the test for the last device comes one device too early. *)
pt_edge_del_device_early(d, cs, q) ==
    /\ devices_del_device(d, cs)
    /\ idle' = IF unregistering /\ tracked = {} THEN Append(q, QuitLoop) ELSE q

(* The last context to go during shutdown asks the loop to quit.  q is the  *)
(* idle queue without the source being dispatched.                          *)
pt_edge_del_device(d, cs, q) ==
    /\ devices_del_device(d, cs)
    /\ idle' = IF unregistering /\ tracked \ {d} = {}
               THEN Append(q, QuitLoop) ELSE q

(* edge_unregister_device returning true. *)
edge_unregister_device(d, del) ==
    /\ conn /\ d \in ptdev
    /\ unregs[<<d, del>>] < MaxCalls
    /\ unregs' = [unregs EXCEPT ![<<d, del>>] = @ + 1]

(* "Unregister, and if the call failed delete the context": the call fails  *)
(* when there is no device object or the pt-client refuses the request.     *)
unregister_or_delete(d) ==
    \/ edge_unregister_device(d, TRUE) /\ UNCHANGED <<ctxVars, idle>>
    \/ pt_edge_del_device(d, connected, idle) /\ UNCHANGED unregs

(* Mutant: the retry counter without its upper limit. *)
next_retry_uncapped(d) == retries[d] + 1

next_retry(d) == IF retries[d] < MaxRetries THEN retries[d] + 1 ELSE retries[d]

(* A running timer is left alone.  Otherwise one more retry is counted, and *)
(* once the back-off time has passed its maximum the device is unregistered *)
(* when it has been away for that long, and its context removed, through    *)
(* Edge or at once, when it has been away for a day.  A context that stays  *)
(* gets a timer.                                                            *)
ble_start_reconnection_timer_or_unregister_device(d, cs) ==
    LET n == next_retry(d)
        late == n >= ExpireRetries /\ age[d] >= Overdue
        remove == n >= ExpireRetries /\ age[d] >= Expired
    IN  \/ /\ d \in timerId
           /\ connected' = cs
           /\ UNCHANGED <<tracked, registered, resolved, timerVars, retryVars,
                          idle, unregs>>
        \/ /\ d \notin timerId /\ ~remove
           /\ \/ late /\ edge_unregister_device(d, FALSE)
              \/ UNCHANGED unregs
           /\ timerId' = timerId \cup {d}
           /\ timerSrc' = timerSrc \cup {d}
           /\ retries' = [retries EXCEPT ![d] = n]
           /\ connected' = cs
           /\ UNCHANGED <<tracked, registered, resolved, age, idle>>
        \/ /\ d \notin timerId /\ remove
           /\ edge_unregister_device(d, TRUE)
           /\ retries' = [retries EXCEPT ![d] = n]
           /\ connected' = cs
           /\ UNCHANGED <<tracked, registered, resolved, timerVars, age, idle>>
        \/ /\ d \notin timerId /\ remove
           /\ pt_edge_del_device(d, cs, idle)
           /\ UNCHANGED unregs

(* edge_register_device for the devices of S, P being the device objects    *)
(* that exist: the pt-client accepts some of them and will call back.       *)
edge_register_device(S, P) ==
    \E A \in SUBSET {d \in S \cap P : conn /\ regs[d] < MaxCalls} :
        regs' = [d \in Devices |-> IF d \in A THEN regs[d] + 1 ELSE regs[d]]

(* ble_on_services_resolved for the devices of S.  Resources are added once *)
(* per context, and only to device objects that exist; the registration is  *)
(* requested unless the REGISTERED flag is set.                             *)
ble_on_services_resolved(S, P) ==
    LET known == S \cap tracked
    IN  IF conn
        THEN /\ resolved' = resolved \cup known
             /\ res' = res \cup ((known \ resolved) \cap P)
             /\ edge_register_device(known \ registered, P)
        ELSE UNCHANGED <<resolved, res, regs>>

(* A context for each device of S that has none, with every field zeroed. *)
ble_create_device_context(S) ==
    /\ tracked' = tracked \cup S
    /\ registered' = registered \ (S \ tracked)
    /\ connected' = connected \ (S \ tracked)
    /\ resolved' = resolved \ (S \ tracked)
    /\ timerId' = timerId \ (S \ tracked)
    /\ UNCHANGED timerSrc
    /\ retries' = Zero(retries, S \ tracked)
    /\ age' = Zero(age, S \ tracked)

ble_proxy_connect(S) ==
    connects' = [d \in Devices |-> IF d \in S /\ connects[d] < MaxCalls
                                   THEN connects[d] + 1 ELSE connects[d]]

(* ble_new_device for the objects of S, persistent GATT servers all. *)
ble_new_device(S) ==
    IF running
    THEN ble_create_device_context(S) /\ ble_proxy_connect(S)
    ELSE UNCHANGED <<ctxVars, connects>>

-----------------------------------------------------------------------------
(* ble_start, and the object manager's signals. *)

(* Connect to the bus and the adapter, visit the known devices, run.  Links *)
(* that BlueZ kept from an earlier run are up already.                      *)
ble_start ==
    /\ loop = "start"
    /\ loop' = "run"
    /\ \E P \in SUBSET Devices :
       \E L \in SUBSET (IF LinksKept THEN P ELSE {}) :
       \E G \in SUBSET (L \cap Resolvable) :
          /\ present' = P /\ link' = L /\ gatt' = G
          /\ ble_new_device(P)
    /\ UNCHANGED <<running, unregistering, abrupt, handled, idle, removes,
                   reads, edgeVars, faults>>

(* No D-Bus, or no BlueZ after the shutdown began: ble_start returns. *)
ble_start_fails ==
    /\ loop = "start"
    /\ Fault
    /\ loop' = "done"
    /\ abrupt' = TRUE
    /\ UNCHANGED <<running, unregistering, handled, idle, ctxVars, bluezVars,
                   callVars, edgeVars>>

ble_on_object_added(d) ==
    /\ LoopRuns
    /\ d \notin present
    /\ present' = present \cup {d}
    /\ ble_new_device({d})
    /\ UNCHANGED <<procVars, idle, link, gatt, removes, reads, edgeVars,
                   faults>>

(* A device object goes: outstanding reads of it come back as errors. *)
ble_on_object_removed(d) ==
    /\ LoopRuns
    /\ d \in present
    /\ Fault \/ (d \in removes /\ UNCHANGED faults)
    /\ present' = present \ {d} /\ link' = link \ {d} /\ gatt' = gatt \ {d}
    /\ reads' = reads \ {d}
    /\ IF d \in tracked
       THEN unregister_or_delete(d)
       ELSE UNCHANGED <<ctxVars, idle, unregs>>
    /\ UNCHANGED <<procVars, connects, removes, conn, ptReg, ptdev, res,
                   edgeReg, regs>>

(* The adapter itself goes, after its devices: the main loop is left, and   *)
(* ble_start tries again unless the process is shutting down.               *)
ble_on_adapter_removed ==
    /\ LoopRuns
    /\ present = {}
    /\ Fault
    /\ loop' = LeaveLoop
    /\ abrupt' = (abrupt \/ ~running)
    /\ UNCHANGED <<running, unregistering, handled, idle, ctxVars, bluezVars,
                   callVars, edgeVars>>

-----------------------------------------------------------------------------
(* Property changes of a device proxy: ble_properties_changed. *)

(* Mutant: the CONNECTED flag is set only on contexts already registered. *)
ble_on_connect_registered(d) ==
    /\ LoopRuns
    /\ d \in present \ link
    /\ link' = link \cup {d}
    /\ connected' = connected \cup ({d} \cap registered)
    /\ UNCHANGED <<procVars, idle, tracked, registered, resolved, timerVars,
                   retryVars, present, gatt, callVars, edgeVars, faults>>

ble_on_connect(d) ==
    /\ LoopRuns
    /\ d \in present \ link
    /\ link' = link \cup {d}
    /\ connected' = connected \cup ({d} \cap tracked)
    /\ UNCHANGED <<procVars, idle, tracked, registered, resolved, timerVars,
                   retryVars, present, gatt, callVars, edgeVars, faults>>

ble_on_disconnect(d) ==
    /\ LoopRuns
    /\ d \in link
    /\ Fault
    /\ link' = link \ {d} /\ gatt' = gatt \ {d}
    /\ reads' = reads \ {d}
    /\ IF d \in tracked
       THEN ble_start_reconnection_timer_or_unregister_device(d, connected \ {d})
       ELSE UNCHANGED <<ctxVars, idle, unregs>>
    /\ UNCHANGED <<procVars, present, connects, removes, conn, ptReg, ptdev,
                   res, edgeReg, regs>>

ble_services_resolved(d) ==
    /\ LoopRuns
    /\ d \in (link \cap Resolvable) \ gatt
    /\ gatt' = gatt \cup {d}
    /\ ble_on_services_resolved({d}, ptdev)
    /\ UNCHANGED <<procVars, idle, tracked, registered, connected, timerVars,
                   retryVars, present, link, callVars, conn, ptReg, ptdev,
                   edgeReg, unregs, faults>>

-----------------------------------------------------------------------------
(* Replies of D-Bus calls, and timers. *)

Answered(d) == connects[d] > 0 /\ connects' = [connects EXCEPT ![d] = @ - 1]

ble_connect_done_error(d) ==
    /\ LoopRuns
    /\ Answered(d)
    /\ IF d \in tracked
       THEN ble_start_reconnection_timer_or_unregister_device(d, connected)
       ELSE UNCHANGED <<ctxVars, idle, unregs>>
    /\ UNCHANGED <<procVars, bluezVars, removes, reads, conn, ptReg, ptdev,
                   res, edgeReg, regs, faults>>

(* The link is up: create the device object when Edge is there, and go on   *)
(* with the services when BlueZ has resolved them before.                   *)
ble_connect_done(d) ==
    /\ LoopRuns
    /\ Answered(d)
    /\ d \in link
    /\ IF d \in tracked
       THEN LET P == IF conn THEN ptdev \cup {d} ELSE ptdev
            IN  /\ retries' = Zero(retries, {d}) /\ age' = Zero(age, {d})
                /\ ptdev' = P
                /\ ble_on_services_resolved({d} \cap gatt, P)
       ELSE UNCHANGED <<retryVars, ptdev, resolved, res, regs>>
    /\ UNCHANGED <<procVars, idle, tracked, registered, connected, timerVars,
                   bluezVars, removes, reads, conn, ptReg, edgeReg, unregs,
                   faults>>

(* The device object cannot be created: the context is dropped. *)
ble_connect_done_no_pt_device(d) ==
    /\ LoopRuns
    /\ Answered(d)
    /\ d \in (link \cap tracked) \ ptdev
    /\ CreateMayFail /\ conn
    /\ Fault
    /\ devices_del_device(d, connected)
    /\ UNCHANGED <<procVars, idle, bluezVars, removes, reads, edgeVars>>

(* Mutant: the timer goes off without a new attempt to connect. *)
ble_retry_connect_idle(d) ==
    /\ LoopRuns
    /\ d \in timerSrc
    /\ timerSrc' = timerSrc \ {d} /\ timerId' = timerId \ {d}
    /\ UNCHANGED <<procVars, idle, tracked, registered, connected, resolved,
                   retryVars, bluezVars, callVars, edgeVars, faults>>

ble_retry_connect(d) ==
    /\ LoopRuns
    /\ d \in timerSrc
    /\ connects[d] < MaxCalls
    /\ connects' = [connects EXCEPT ![d] = @ + 1]
    /\ timerSrc' = timerSrc \ {d}
    /\ timerId' = timerId \ {d}
    /\ UNCHANGED <<procVars, idle, tracked, registered, connected, resolved,
                   retryVars, bluezVars, removes, reads, edgeVars, faults>>

(* Time passes for a context that is not connected anew. *)
TimePasses(d) ==
    /\ d \in tracked
    /\ age[d] < MaxAge
    /\ age' = [age EXCEPT ![d] = @ + 1]
    /\ UNCHANGED <<procVars, idle, tracked, registered, connected, resolved,
                   timerVars, retries, bluezVars, callVars, edgeVars, faults>>

(* The reply, a success or an error.  With the device BlueZ has failed its  *)
(* outstanding reads; after an error they may still be answered.            *)
ble_remove_device_done(d) ==
    /\ LoopRuns
    /\ d \in removes
    /\ removes' = removes \ {d}
    /\ reads' \in {reads \ {d}, reads}
    /\ IF d \in tracked
       THEN unregister_or_delete(d)
       ELSE UNCHANGED <<ctxVars, idle, unregs>>
    /\ UNCHANGED <<procVars, bluezVars, connects, conn, ptReg, ptdev, res,
                   edgeReg, regs, faults>>

(* The 5 s poll: read every characteristic of the registered and connected  *)
(* devices.  A context has characteristics once its services are resolved.  *)
ble_read_everything ==
    /\ LoopRuns
    /\ running
    /\ reads' = reads \cup (registered \cap connected \cap link \cap resolved)
    /\ UNCHANGED <<procVars, idle, ctxVars, bluezVars, connects, removes,
                   edgeVars, faults>>

(* A value arrives.  The callback dereferences the context it looks up, and *)
(* indexes its services, without a check.                                   *)
ble_read_characteristic_callback(d) ==
    /\ LoopRuns
    /\ d \in reads
    /\ reads' = reads \ {d}
    /\ loop' = IF d \in tracked \cap resolved THEN loop ELSE "crashed"
    /\ UNCHANGED <<running, unregistering, abrupt, handled, idle, ctxVars,
                   bluezVars, connects, removes, edgeVars, faults>>

-----------------------------------------------------------------------------
(* Shutdown, and the idle sources. *)

(* Stop the timers of the contexts S and ask BlueZ to remove the devices. *)
ble_remove_device(S) ==
    /\ timerSrc' = timerSrc \ (timerId \cap S)
    /\ timerId' = timerId \ S
    /\ removes' = removes \cup S

(* unregister_devices: once, for every device on the list. *)
unregister_devices(q) ==
    /\ unregistering' = TRUE
    /\ IF unregistering
       THEN idle' = q /\ UNCHANGED <<timerVars, retryVars, removes>>
       ELSE /\ idle' = IF tracked = {} THEN Append(q, QuitLoop) ELSE q
            /\ ble_remove_device(tracked)

pt_ble_graceful_shutdown(q) ==
    /\ running' = FALSE
    /\ abrupt' = (abrupt \/ ~running)
    /\ unregister_devices(IF running THEN q ELSE Append(q, QuitLoop))
    /\ UNCHANGED <<loop, tracked, registered, connected, resolved, retryVars,
                   bluezVars, connects, reads, edgeVars>>

(* SIGTERM or SIGINT, the first of its kind: the handler is a source of the *)
(* main loop, which removes itself after it has run.                        *)
Signal ==
    /\ LoopRuns
    /\ Fault
    /\ handled < 2
    /\ handled' = handled + 1
    /\ pt_ble_graceful_shutdown(idle)

(* The second signal of one kind finds its handler gone and ends the        *)
(* process.                                                                 *)
SignalAgain ==
    /\ LoopRuns
    /\ Fault
    /\ handled > 0
    /\ loop' = "crashed"
    /\ UNCHANGED <<running, unregistering, abrupt, handled, idle, ctxVars,
                   bluezVars, callVars, edgeVars>>

Dispatch(e) == LoopRuns /\ idle # <<>> /\ Head(idle) = e

DispatchShutdown ==
    /\ Dispatch(GracefulShutdown)
    /\ pt_ble_graceful_shutdown(Tail(idle))
    /\ UNCHANGED <<handled, faults>>

pt_ble_g_main_quit_loop ==
    /\ Dispatch(QuitLoop)
    /\ idle' = Tail(idle)
    /\ loop' = IF running THEN loop ELSE LeaveLoop
    /\ UNCHANGED <<running, unregistering, abrupt, handled, ctxVars,
                   bluezVars, callVars, edgeVars, faults>>

device_registered(d) ==
    /\ Dispatch(Registered(d))
    /\ idle' = Tail(idle)
    /\ registered' = registered \cup ({d} \cap tracked)
    /\ UNCHANGED <<procVars, tracked, connected, resolved, timerVars, retryVars,
                   bluezVars, callVars, edgeVars, faults>>

(* Mutant: the flag is left when the context is kept. *)
device_unregistered_flag_left(d, del) ==
    /\ Dispatch(Unregistered(d, del))
    /\ IF del /\ d \in tracked
       THEN pt_edge_del_device(d, connected, Tail(idle))
       ELSE idle' = Tail(idle) /\ UNCHANGED ctxVars
    /\ UNCHANGED <<procVars, bluezVars, callVars, edgeVars, faults>>

device_unregistered(d, del) ==
    /\ Dispatch(Unregistered(d, del))
    /\ IF del /\ d \in tracked
       THEN pt_edge_del_device(d, connected, Tail(idle))
       ELSE /\ registered' = registered \ {d}
            /\ idle' = Tail(idle)
            /\ UNCHANGED <<tracked, connected, resolved, timerVars, retryVars>>
    /\ UNCHANGED <<procVars, bluezVars, callVars, edgeVars, faults>>

(* Edge became ready: create the missing device objects, some of which may  *)
(* fail even when the connection still stands, and go on with the resolved  *)
(* services of those created.  A context whose object failed stays.         *)
pt_ble_pt_ready ==
    /\ Dispatch(PtReady)
    /\ idle' = Tail(idle)
    /\ LET missing == IF conn THEN tracked \ ptdev ELSE {}
       IN  \E new \in SUBSET missing :
              /\ \/ new = missing /\ UNCHANGED faults
                 \/ CreateMayFail /\ new # missing /\ Fault
              /\ ptdev' = ptdev \cup new
              /\ ble_on_services_resolved(new \cap gatt, ptdev \cup new)
    /\ UNCHANGED <<procVars, tracked, registered, connected, timerVars,
                   retryVars, bluezVars, callVars, conn, ptReg, edgeReg,
                   unregs>>

-----------------------------------------------------------------------------
(* The pt-client thread.  Its callbacks run whatever the main loop does, as *)
(* long as the process lives.                                               *)

Room == loop \in {"start", "run"} /\ Len(idle) < MaxIdle

(* Mutant: a new connection makes the translator run again. *)
connection_ready_handler_restarts ==
    /\ Room
    /\ ~conn
    /\ conn' = TRUE
    /\ idle' = Append(idle, PtReady)
    /\ running' = TRUE
    /\ UNCHANGED <<unregistering, loop, abrupt, handled, ctxVars, bluezVars,
                   callVars, ptReg, ptdev, res, edgeReg, regs, unregs, faults>>

connection_ready_handler ==
    /\ Room
    /\ ~conn
    /\ conn' = TRUE
    /\ idle' = Append(idle, PtReady)
    /\ UNCHANGED <<procVars, ctxVars, bluezVars, callVars, ptReg, ptdev, res,
                   edgeReg, regs, unregs, faults>>

(* The connection is lost.  Whether the pt-client keeps its device objects  *)
(* is not known to the translator, which looks each one up again.           *)
disconnected_handler ==
    /\ Room
    /\ conn
    /\ Fault
    /\ conn' = FALSE
    /\ ptReg' = FALSE
    /\ \E keep \in {{}, Devices} :
          ptdev' = ptdev \cap keep /\ res' = res \cap keep
    /\ UNCHANGED <<procVars, idle, ctxVars, bluezVars, callVars, edgeReg,
                   regs, unregs>>

protocol_translator_registration_success ==
    /\ Room
    /\ conn /\ ~ptReg
    /\ ptReg' = TRUE
    /\ edge_register_device(tracked, ptdev)
    /\ UNCHANGED <<procVars, idle, ctxVars, bluezVars, callVars, conn, ptdev,
                   res, edgeReg, unregs, faults>>

protocol_translator_registration_failure ==
    /\ Room
    /\ conn /\ ~ptReg
    /\ Fault
    /\ ptReg' = TRUE
    /\ running' = FALSE
    /\ idle' = Append(idle, GracefulShutdown)
    /\ UNCHANGED <<unregistering, loop, abrupt, handled, ctxVars, bluezVars,
                   callVars, conn, ptdev, res, edgeReg, regs, unregs>>

shutdown_cb_handler ==
    /\ Room
    /\ Fault
    /\ running' = FALSE
    /\ idle' = IF running THEN Append(idle, GracefulShutdown) ELSE idle
    /\ UNCHANGED <<unregistering, loop, abrupt, handled, ctxVars, bluezVars,
                   callVars, edgeVars>>

device_registration_success(d) ==
    /\ Room
    /\ conn
    /\ regs[d] > 0
    /\ regs' = [regs EXCEPT ![d] = @ - 1]
    /\ edgeReg' = edgeReg \cup {d}
    /\ idle' = Append(idle, Registered(d))
    /\ UNCHANGED <<procVars, ctxVars, bluezVars, callVars, conn, ptReg, ptdev,
                   res, unregs, faults>>

(* Nothing is retried; the condition variable it signals is in PtStart. *)
device_registration_failure(d) ==
    /\ Room
    /\ regs[d] > 0
    /\ regs' = [regs EXCEPT ![d] = @ - 1]
    /\ UNCHANGED <<procVars, idle, ctxVars, bluezVars, callVars, conn, ptReg,
                   ptdev, res, edgeReg, unregs, faults>>

(* Both unregistration callbacks hand the message to device_unregistered; a *)
(* successful one ends the device object in the pt-client.                  *)
unregistration_answered(d, del) ==
    /\ Room
    /\ unregs[<<d, del>>] > 0
    /\ unregs' = [unregs EXCEPT ![<<d, del>>] = @ - 1]
    /\ idle' = Append(idle, Unregistered(d, del))
    /\ UNCHANGED <<procVars, ctxVars, bluezVars, callVars, conn, ptReg, regs,
                   faults>>

device_unregistration_success(d, del) ==
    /\ conn
    /\ unregistration_answered(d, del)
    /\ ptdev' = ptdev \ {d} /\ res' = res \ {d} /\ edgeReg' = edgeReg \ {d}

device_unregistration_failure(d, del) ==
    /\ unregistration_answered(d, del)
    /\ UNCHANGED <<ptdev, res, edgeReg>>

-----------------------------------------------------------------------------
Init ==
    /\ running = TRUE /\ unregistering = FALSE
    /\ loop = "start" /\ idle = <<>> /\ abrupt = FALSE /\ handled = 0
    /\ tracked = {} /\ registered = {} /\ connected = {} /\ resolved = {}
    /\ timerId = {} /\ timerSrc = {}
    /\ retries = [d \in Devices |-> 0] /\ age = [d \in Devices |-> Recent]
    /\ present = {} /\ link = {} /\ gatt = {}
    /\ connects = [d \in Devices |-> 0] /\ removes = {} /\ reads = {}
    /\ conn = FALSE /\ ptReg = FALSE /\ ptdev = {} /\ res = {} /\ edgeReg = {}
    /\ regs = [d \in Devices |-> 0]
    /\ unregs = [r \in Devices \X BOOLEAN |-> 0]
    /\ faults = 0

(* D-Bus signals and replies, timers. *)
BluezNext(d) ==
    \/ ble_on_object_added(d) \/ ble_on_object_removed(d)
    \/ ble_on_connect(d) \/ ble_on_disconnect(d) \/ ble_services_resolved(d)
    \/ ble_connect_done(d) \/ ble_connect_done_error(d)
    \/ ble_connect_done_no_pt_device(d)
    \/ ble_retry_connect(d) \/ TimePasses(d) \/ ble_remove_device_done(d)
    \/ ble_read_characteristic_callback(d)

(* The pt-client's callbacks and the idle sources about one device. *)
EdgeNext(d) ==
    \/ device_registered(d)
    \/ device_registration_success(d) \/ device_registration_failure(d)
    \/ \E del \in BOOLEAN :
          \/ device_unregistered(d, del)
          \/ device_unregistration_success(d, del)
          \/ device_unregistration_failure(d, del)

ProcessNext ==
    \/ ble_start \/ ble_start_fails \/ ble_on_adapter_removed
    \/ ble_read_everything \/ Signal \/ SignalAgain \/ DispatchShutdown
    \/ pt_ble_g_main_quit_loop \/ pt_ble_pt_ready
    \/ connection_ready_handler \/ disconnected_handler
    \/ protocol_translator_registration_success
    \/ protocol_translator_registration_failure
    \/ shutdown_cb_handler

Next == ProcessNext \/ \E d \in Devices : BluezNext(d) \/ EdgeNext(d)

Spec == Init /\ [][Next]_vars

DispatchIdle ==
    \/ DispatchShutdown \/ pt_ble_g_main_quit_loop \/ pt_ble_pt_ready
    \/ \E d \in Devices : device_registered(d)
                          \/ \E del \in BOOLEAN : device_unregistered(d, del)

UnregistrationAnswered(d, del) ==
    device_unregistration_success(d, del) \/ device_unregistration_failure(d, del)

(* glib dispatches what is ready; D-Bus answers every call, with an error   *)
(* after its own timeout; the pt-client answers every request.  Faults,     *)
(* new devices and Edge's own events may stay away.  The bound MaxIdle can  *)
(* make a callback wait for room, hence the strong fairness of the answer.  *)
Fairness ==
    /\ WF_vars(ble_start)
    /\ WF_vars(ble_read_everything)
    /\ WF_vars(DispatchIdle)
    /\ \A d \in Devices :
          /\ WF_vars(ble_connect_done_error(d) \/ ble_connect_done(d))
          /\ WF_vars(ble_retry_connect(d))
          /\ WF_vars(ble_remove_device_done(d))
          /\ \A del \in BOOLEAN : SF_vars(UnregistrationAnswered(d, del))

FairSpec == Spec /\ Fairness

-----------------------------------------------------------------------------
(* Properties. *)

ProcOK ==
    /\ running \in BOOLEAN /\ unregistering \in BOOLEAN /\ abrupt \in BOOLEAN
    /\ loop \in {"start", "run", "done", "crashed"}
    /\ idle \in Seq(IdleSource)
    /\ handled \in 0..2 /\ faults \in 0..MaxFaults

CtxOK ==
    /\ tracked \in SUBSET Devices /\ registered \in SUBSET Devices
    /\ connected \in SUBSET Devices /\ resolved \in SUBSET Devices
    /\ timerId \in SUBSET Devices /\ timerSrc \in SUBSET Devices
    /\ retries \in [Devices -> 0..MaxRetries]
    /\ age \in [Devices -> Recent..Expired]

BluezOK ==
    /\ present \in SUBSET Devices /\ link \in SUBSET Devices
    /\ gatt \in SUBSET Devices
    /\ connects \in [Devices -> 0..MaxCalls]
    /\ removes \in SUBSET Devices /\ reads \in SUBSET Devices

EdgeOK ==
    /\ conn \in BOOLEAN /\ ptReg \in BOOLEAN
    /\ ptdev \in SUBSET Devices /\ res \in SUBSET Devices
    /\ edgeReg \in SUBSET Devices
    /\ regs \in [Devices -> 0..MaxCalls]
    /\ unregs \in [Devices \X BOOLEAN -> 0..MaxCalls]

(* The counters stay within the limits of the code and the bounds of the    *)
(* model: connection_retries within BLE_MAX_CONNECTION_RETRIES, and no more *)
(* answers than calls.                                                      *)
TypeOK == ProcOK /\ CtxOK /\ BluezOK /\ EdgeOK

(* Every glib timeout source holds the pointer of a live context, the one   *)
(* whose retry_timer_source names it, so ble_retry_connect never runs on    *)
(* freed memory and no context ever has two timers.                         *)
TimerOwned == timerSrc = timerId /\ timerId \subseteq tracked

(* The queue s holds e; the idle queue does. *)
Holds(s, e) == \E i \in 1..Len(s) : s[i] = e
Queued(e) == Holds(idle, e)

Removing(d) ==
    \/ unregs[<<d, TRUE>>] > 0
    \/ Queued(Unregistered(d, TRUE))

(* devices.h, "if the device gets disconnected, we try to reconnect to it": *)
(* a context whose device BlueZ knows but has no link to always has a       *)
(* Connect call or a retry timer outstanding, unless its removal is under   *)
(* way.  No interleaving of signals, replies and Edge callbacks forgets it. *)
NotForgotten ==
    running => \A d \in (tracked \cap present) \ link :
                  connects[d] > 0 \/ d \in timerSrc \/ Removing(d)

(* ble_start returns only after every context was unregistered or deleted,  *)
(* unless it was told to stop at once (a second signal, Edge going away, no *)
(* adapter or bus).                                                         *)
DrainedBeforeExit == loop = "done" /\ ~abrupt => tracked = {}

(* A shutdown request makes the main loop end: no order of D-Bus replies,   *)
(* Edge answers and idle sources leaves it waiting for a device that never  *)
(* goes away.                                                               *)
ShutdownEnds == ~running ~> loop \in {"done", "crashed"}

(* Once the shutdown has begun no context is added to the list. *)
NoNewContexts == [][~running => tracked' \subseteq tracked]_vars

(* The shutdown is orderly in the sense of module Drain: contexts are taken *)
(* on only while the translator runs, then only given back, and the loop    *)
(* stops with none left, unless it was told to stop at once or crashed.     *)
(* This says both of what comes before, DrainedBeforeExit and NoNewContexts.*)
Phase ==
    CASE abrupt \/ loop = "crashed" -> "aborted"
      [] ~abrupt /\ loop = "done" -> "stopped"
      [] ~abrupt /\ loop \in {"start", "run"} /\ running -> "running"
      [] ~abrupt /\ loop \in {"start", "run"} /\ ~running -> "draining"
D == INSTANCE Drain WITH Owner <- {"main"}, Thing <- Devices,
                         phase <- [o \in {"main"} |-> Phase],
                         held <- [o \in {"main"} |-> tracked]
Drains == D!Spec

(* The REGISTERED flag never outlives Edge's word: a flagged device is one  *)
(* whose last answer from Edge was a registration, or the message that      *)
(* clears the flag is already queued.  Registration and unregistration      *)
(* answers that cross, contexts deleted and created anew, and late messages *)
(* for an earlier context included.                                         *)
FlagFollowsEdge ==
    \A d \in registered :
        d \in edgeReg \/ \E del \in BOOLEAN : Queued(Unregistered(d, del))

(* README.md, "characteristic values for all registered devices are polled  *)
(* with a 5 second interval": a registered device that stays linked is      *)
(* polled again and again.                                                  *)
RegisteredPolled ==
    \A d \in Devices :
        []<>(d \in reads \/ ~running \/ d \notin registered \cap link \cap resolved)

(* The poll looks at CONNECTED, which follows changes of the property only: *)
(* where no link is older than the translator, every context of a linked    *)
(* device has the flag, contexts of devices that went and came back too.    *)
LinkFlagged == ~LinksKept => tracked \cap link \subseteq connected

-----------------------------------------------------------------------------
(* Strengthenings: what the proofs of the invariants above rest on. *)

(* A request to quit is queued only during shutdown, and, unless the loop   *)
(* was told to stop at once, only when no context is left.                  *)
QuitWhenDrained ==
    /\ unregistering => ~running
    /\ Queued(QuitLoop) => ~running /\ (abrupt \/ tracked = {})

(* A registration that waits in the idle queue is Edge's last answer, or    *)
(* the unregistration that follows it waits behind it.                      *)
RegistrationInOrder ==
    \A d \in Devices, i \in 1..Len(idle) :
        idle[i] = Registered(d) =>
            \/ d \in edgeReg
            \/ \E j \in 1..Len(idle), del \in BOOLEAN :
                  j > i /\ idle[j] = Unregistered(d, del)

=============================================================================
