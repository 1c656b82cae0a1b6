---------------------------- MODULE BlePtProofs ----------------------------
(***************************************************************************)
(* Proofs about BlePt, for every set of devices and every bound.           *)
(***************************************************************************)
EXTENDS BlePt, TLAPS

-----------------------------------------------------------------------------
(* The idle queue. *)

(* Every message g_idle_add is called with is an idle source. *)
LEMMA IdleSources ==
    /\ QuitLoop \in IdleSource /\ PtReady \in IdleSource
    /\ GracefulShutdown \in IdleSource
    /\ \A d \in Devices : Registered(d) \in IdleSource
    /\ \A d \in Devices, c \in BOOLEAN : Unregistered(d, c) \in IdleSource
BY DEF IdleSource

(* Handlers only append to the idle queue and remove its head. *)
LEMMA QueueTyped ==
    ASSUME NEW s \in Seq(IdleSource)
    PROVE  /\ \A e \in IdleSource : Append(s, e) \in Seq(IdleSource)
           /\ s # <<>> => Tail(s) \in Seq(IdleSource)
OBVIOUS

(* The kinds of idle sources differ. *)
LEMMA SourcesDiffer ==
    ASSUME NEW d, NEW e, NEW c
    PROVE  /\ QuitLoop # PtReady /\ QuitLoop # GracefulShutdown
           /\ Registered(d) # QuitLoop /\ Registered(d) # PtReady
           /\ Registered(d) # GracefulShutdown
           /\ Unregistered(d, c) # QuitLoop /\ Unregistered(d, c) # PtReady
           /\ Unregistered(d, c) # GracefulShutdown
           /\ Unregistered(d, c) # Registered(e)
           /\ Registered(d) = Registered(e) => d = e
<1>1. /\ QuitLoop.call = "quit" /\ PtReady.call = "pt_ready"
      /\ GracefulShutdown.call = "shutdown"
      /\ Registered(d).call = "registered" /\ Registered(e).call = "registered"
      /\ Unregistered(d, c).call = "unregistered"
      /\ Registered(d).dev = d /\ Registered(e).dev = e
      BY DEF QuitLoop, PtReady, GracefulShutdown, Registered, Unregistered
<1> QED BY <1>1

(* Unregistrations tell their device and their purpose. *)
LEMMA UnregisteredDiffer ==
    ASSUME NEW d, NEW e, NEW b, NEW c, Unregistered(d, b) = Unregistered(e, c)
    PROVE  d = e /\ b = c
<1>1. /\ Unregistered(d, b).dev = d /\ Unregistered(e, c).dev = e
      /\ Unregistered(d, b).del = b /\ Unregistered(e, c).del = c
      BY DEF Unregistered
<1> QED BY <1>1

(* What a queue holds after an append. *)
LEMMA HoldsAppend ==
    ASSUME NEW s \in Seq(IdleSource), NEW e \in IdleSource, NEW x
    PROVE  Holds(Append(s, e), x) <=> Holds(s, x) \/ x = e
<1>1. /\ Len(Append(s, e)) = Len(s) + 1 /\ Len(s) \in Nat
      /\ Append(s, e)[Len(s) + 1] = e
      /\ \A i \in 1..Len(s) : Append(s, e)[i] = s[i]
      OBVIOUS
<1> QED BY <1>1 DEF Holds

(* What a queue holds after its head is dispatched. *)
LEMMA HoldsTail ==
    ASSUME NEW s \in Seq(IdleSource), s # <<>>, NEW x
    PROVE  /\ Holds(Tail(s), x) => Holds(s, x)
           /\ Holds(s, x) => Holds(Tail(s), x) \/ x = Head(s)
<1>a. Len(s) \in Nat \ {0}
      OBVIOUS
<1>b. Tail(s) \in Seq(IdleSource) /\ Len(Tail(s)) = Len(s) - 1
      OBVIOUS
<1>c. ASSUME NEW i \in 1..Len(Tail(s)) PROVE Tail(s)[i] = s[i + 1]
      BY <1>a, <1>b
<1>d. Head(s) = s[1]
      OBVIOUS
<1>1. /\ Len(Tail(s)) = Len(s) - 1 /\ Len(s) \in Nat \ {0}
      /\ \A i \in 1..Len(Tail(s)) : Tail(s)[i] = s[i + 1]
      /\ Head(s) = s[1]
      BY <1>a, <1>b, <1>c, <1>d
<1>2. ASSUME NEW i \in 1..Len(s), i # 1
      PROVE  i - 1 \in 1..Len(Tail(s)) /\ Tail(s)[i - 1] = s[i]
  <2>1. i - 1 \in 1..Len(Tail(s)) /\ (i - 1) + 1 = i
        BY <1>a, <1>b, <1>2
  <2> QED BY <2>1, <1>c
<1> QED BY <1>1, <1>2 DEF Holds

-----------------------------------------------------------------------------
(* Type correctness: first the helpers that several handlers share. *)

(* Freeing a context leaves well-typed contexts. *)
LEMMA DelTyped ==
    ASSUME TypeOK, NEW d \in Devices, NEW cs \in SUBSET Devices,
           devices_del_device(d, cs)
    PROVE  CtxOK'
<1>1. /\ Zero(retries, {d}) \in [Devices -> 0..MaxRetries]
      /\ Zero(age, {d}) \in [Devices -> Recent..Expired]
      BY BlePtAssumption DEF TypeOK, CtxOK, Zero, Recent, Expired
<1> QED BY <1>1 DEF TypeOK, CtxOK, devices_del_device

(* So does its removal during shutdown, which may queue a request to quit. *)
LEMMA EdgeDelTyped ==
    ASSUME TypeOK, NEW d \in Devices, NEW cs \in SUBSET Devices,
           NEW q \in Seq(IdleSource), pt_edge_del_device(d, cs, q)
    PROVE  CtxOK' /\ idle' \in Seq(IdleSource)
BY DelTyped, IdleSources, QueueTyped DEF pt_edge_del_device

(* The number of outstanding unregistrations stays within its bound. *)
LEMMA UnregisterTyped ==
    ASSUME TypeOK, NEW d \in Devices, NEW del \in BOOLEAN,
           edge_unregister_device(d, del)
    PROVE  unregs' \in [Devices \X BOOLEAN -> 0..MaxCalls]
BY BlePtAssumption DEF TypeOK, EdgeOK, edge_unregister_device

(* The number of outstanding registrations stays within its bound. *)
LEMMA RegisterTyped ==
    ASSUME TypeOK, NEW S, NEW P, edge_register_device(S, P)
    PROVE  regs' \in [Devices -> 0..MaxCalls]
BY BlePtAssumption DEF TypeOK, EdgeOK, edge_register_device

(* The retry counter stays within its limit, whatever is decided about the *)
(* context.                                                                *)
LEMMA ReconnectTyped ==
    ASSUME TypeOK, NEW d \in Devices, NEW cs \in SUBSET Devices,
           ble_start_reconnection_timer_or_unregister_device(d, cs)
    PROVE  /\ CtxOK' /\ idle' \in Seq(IdleSource)
           /\ unregs' \in [Devices \X BOOLEAN -> 0..MaxCalls]
<1> DEFINE n == next_retry(d)
<1>1. n \in 0..MaxRetries
      BY BlePtAssumption DEF TypeOK, CtxOK, next_retry
<1>2. [retries EXCEPT ![d] = n] \in [Devices -> 0..MaxRetries]
      BY <1>1 DEF TypeOK, CtxOK
<1>a. idle \in Seq(IdleSource) /\ unregs \in [Devices \X BOOLEAN -> 0..MaxCalls]
      BY DEF TypeOK, ProcOK, EdgeOK
<1> HIDE DEF n
<1>3. CASE /\ connected' = cs
           /\ UNCHANGED <<tracked, registered, resolved, timerVars, retryVars,
                          idle, unregs>>
      BY <1>3, <1>a DEF TypeOK, CtxOK, timerVars, retryVars
<1>4. CASE pt_edge_del_device(d, cs, idle) /\ UNCHANGED unregs
      BY <1>4, <1>a, EdgeDelTyped
<1>5. CASE /\ edge_unregister_device(d, FALSE) \/ UNCHANGED unregs
           /\ timerId' = timerId \cup {d}
           /\ timerSrc' = timerSrc \cup {d}
           /\ retries' = [retries EXCEPT ![d] = n]
           /\ connected' = cs
           /\ UNCHANGED <<tracked, registered, resolved, age, idle>>
      BY <1>2, <1>5, <1>a, UnregisterTyped DEF TypeOK, CtxOK
<1>6. CASE /\ edge_unregister_device(d, TRUE)
           /\ retries' = [retries EXCEPT ![d] = n]
           /\ connected' = cs
           /\ UNCHANGED <<tracked, registered, resolved, timerVars, age, idle>>
      BY <1>2, <1>6, <1>a, UnregisterTyped DEF TypeOK, CtxOK, timerVars
<1> QED
      BY <1>3, <1>4, <1>5, <1>6
      DEF ble_start_reconnection_timer_or_unregister_device, n

(* Unregistering a device, or deleting its context at once. *)
LEMMA RemoveTyped ==
    ASSUME TypeOK, NEW d \in Devices,
           unregister_or_delete(d) \/ UNCHANGED <<ctxVars, idle, unregs>>
    PROVE  /\ CtxOK' /\ idle' \in Seq(IdleSource)
           /\ unregs' \in [Devices \X BOOLEAN -> 0..MaxCalls]
<1>1. /\ connected \in SUBSET Devices /\ idle \in Seq(IdleSource)
      /\ unregs \in [Devices \X BOOLEAN -> 0..MaxCalls]
      BY DEF TypeOK, ProcOK, CtxOK, EdgeOK
<1>2. CASE edge_unregister_device(d, TRUE) /\ UNCHANGED <<ctxVars, idle>>
      BY <1>1, <1>2, UnregisterTyped DEF TypeOK, CtxOK, ctxVars
<1>3. CASE pt_edge_del_device(d, connected, idle) /\ UNCHANGED unregs
      BY <1>1, <1>3, EdgeDelTyped
<1>4. CASE UNCHANGED <<ctxVars, idle, unregs>>
      BY <1>1, <1>4 DEF TypeOK, CtxOK, ctxVars
<1> QED BY <1>2, <1>3, <1>4 DEF unregister_or_delete

(* Adding the resources of resolved services and registering the devices. *)
LEMMA ResolvedTyped ==
    ASSUME TypeOK, NEW S \in SUBSET Devices, NEW P \in SUBSET Devices,
           ble_on_services_resolved(S, P)
    PROVE  /\ resolved' \in SUBSET Devices /\ res' \in SUBSET Devices
           /\ regs' \in [Devices -> 0..MaxCalls]
BY RegisterTyped DEF ble_on_services_resolved, TypeOK, CtxOK, EdgeOK

(* Fresh contexts have zeroed fields. *)
LEMMA NewTyped ==
    ASSUME TypeOK, NEW S \in SUBSET Devices, ble_new_device(S)
    PROVE  CtxOK' /\ connects' \in [Devices -> 0..MaxCalls]
<1>1. /\ Zero(retries, S \ tracked) \in [Devices -> 0..MaxRetries]
      /\ Zero(age, S \ tracked) \in [Devices -> Recent..Expired]
      BY BlePtAssumption DEF TypeOK, CtxOK, Zero, Recent, Expired
<1>2. [d \in Devices |-> IF d \in S /\ connects[d] < MaxCalls
                         THEN connects[d] + 1 ELSE connects[d]]
        \in [Devices -> 0..MaxCalls]
      BY BlePtAssumption DEF TypeOK, BluezOK
<1>3. CASE running
      BY <1>1, <1>2, <1>3 DEF TypeOK, CtxOK, ble_new_device,
                              ble_create_device_context, ble_proxy_connect
<1>4. CASE ~running
      BY <1>4 DEF TypeOK, CtxOK, BluezOK, ble_new_device,
                  ble_create_device_context, ble_proxy_connect, ctxVars
<1> QED BY <1>3, <1>4

(* Faults are counted up to their bound. *)
LEMMA FaultTyped ==
    ASSUME TypeOK, Fault PROVE faults' \in 0..MaxFaults
BY BlePtAssumption DEF TypeOK, ProcOK, Fault

(* An answer to a Connect call. *)
LEMMA ConnectTyped ==
    ASSUME TypeOK, NEW d \in Devices, Answered(d)
    PROVE  connects' \in [Devices -> 0..MaxCalls]
BY BlePtAssumption DEF TypeOK, BluezOK, Answered

(* A shutdown request queues at most a request to quit and stops the timers. *)
LEMMA ShutdownTyped ==
    ASSUME TypeOK, NEW q \in Seq(IdleSource), pt_ble_graceful_shutdown(q),
           handled' \in 0..2, faults' \in 0..MaxFaults
    PROVE  TypeOK'
<1>1. running' \in BOOLEAN /\ unregistering' \in BOOLEAN /\ abrupt' \in BOOLEAN
      BY DEF pt_ble_graceful_shutdown, unregister_devices, ble_remove_device
<1>2. idle' \in Seq(IdleSource)
      BY IdleSources, QueueTyped DEF pt_ble_graceful_shutdown, unregister_devices,
         ble_remove_device
<1>3. ProcOK'
      BY <1>1, <1>2 DEF pt_ble_graceful_shutdown, TypeOK, ProcOK
<1>4. CtxOK' /\ removes' \in SUBSET Devices
      BY DEF pt_ble_graceful_shutdown, unregister_devices, ble_remove_device,
             TypeOK, CtxOK, BluezOK,
             timerVars, retryVars
<1>5. BluezOK' /\ EdgeOK'
      BY <1>4 DEF pt_ble_graceful_shutdown, TypeOK, BluezOK, EdgeOK, bluezVars,
                  edgeVars
<1> QED BY <1>3, <1>4, <1>5 DEF TypeOK

(* An answered unregistration. *)
LEMMA AnsweredTyped ==
    ASSUME TypeOK, NEW d \in Devices, NEW del \in BOOLEAN,
           unregistration_answered(d, del)
    PROVE  /\ ProcOK' /\ CtxOK' /\ BluezOK'
           /\ unregs' \in [Devices \X BOOLEAN -> 0..MaxCalls]
           /\ UNCHANGED <<conn, ptReg, regs>>
<1>1. idle' \in Seq(IdleSource)
      BY IdleSources, QueueTyped DEF unregistration_answered, TypeOK, ProcOK
<1>2. unregs' \in [Devices \X BOOLEAN -> 0..MaxCalls]
      BY BlePtAssumption DEF unregistration_answered, TypeOK, EdgeOK
<1> QED
      BY <1>1, <1>2
      DEF unregistration_answered, TypeOK, ProcOK, CtxOK, BluezOK, procVars,
          ctxVars, bluezVars, callVars

(* Every handler keeps every variable in its type. *)
LEMMA TypeStep ==
    TypeOK /\ [Next]_vars => TypeOK'
<1> SUFFICES ASSUME TypeOK, [Next]_vars PROVE TypeOK'
    OBVIOUS
<1> USE BlePtAssumption
    DEF TypeOK, ProcOK, CtxOK, BluezOK, EdgeOK, procVars, timerVars, retryVars,
        ctxVars, bluezVars, callVars, edgeVars
<1>1. CASE ble_start
      BY <1>1, NewTyped DEF ble_start
<1>2. CASE ble_start_fails \/ SignalAgain
  <2>1. CASE ble_start_fails
        BY <2>1, FaultTyped DEF ble_start_fails
  <2>2. CASE SignalAgain
        BY <2>2, FaultTyped DEF SignalAgain
  <2> QED BY <1>2, <2>1, <2>2
<1>3. CASE ble_on_adapter_removed
      BY <1>3 DEF ble_on_adapter_removed, LeaveLoop, Fault
<1>4. CASE ble_read_everything
      BY <1>4 DEF ble_read_everything
<1>5. CASE Signal
  <2>1. handled' \in 0..2 /\ faults' \in 0..MaxFaults
        BY <1>5, FaultTyped DEF Signal
  <2> QED BY <1>5, <2>1, ShutdownTyped DEF Signal
<1>6. CASE DispatchShutdown
  <2>1. idle \in Seq(IdleSource) /\ idle # <<>> /\ faults' \in 0..MaxFaults
        BY <1>6 DEF DispatchShutdown, Dispatch
  <2> QED BY <1>6, <2>1, QueueTyped, ShutdownTyped DEF DispatchShutdown
<1>7. CASE pt_ble_g_main_quit_loop
      BY <1>7, QueueTyped DEF pt_ble_g_main_quit_loop, Dispatch, LeaveLoop
<1>8. CASE pt_ble_pt_ready
  <2>1. idle' \in Seq(IdleSource)
        BY <1>8, QueueTyped DEF pt_ble_pt_ready, Dispatch
  <2>2. PICK new \in SUBSET (IF conn THEN tracked \ ptdev ELSE {}) :
              /\ UNCHANGED faults \/ Fault
              /\ ptdev' = ptdev \cup new
              /\ ble_on_services_resolved(new \cap gatt, ptdev \cup new)
        BY <1>8 DEF pt_ble_pt_ready
  <2>3. new \cap gatt \in SUBSET Devices /\ ptdev \cup new \in SUBSET Devices
        OBVIOUS
  <2>4. /\ resolved' \in SUBSET Devices /\ res' \in SUBSET Devices
        /\ regs' \in [Devices -> 0..MaxCalls]
        BY <2>2, <2>3, ResolvedTyped
  <2>5. faults' \in 0..MaxFaults
        BY <2>2, FaultTyped
  <2> QED BY <1>8, <2>1, <2>2, <2>3, <2>4, <2>5 DEF pt_ble_pt_ready
<1>9. CASE connection_ready_handler
      BY <1>9, IdleSources, QueueTyped DEF connection_ready_handler
<1>10. CASE disconnected_handler
      BY <1>10, FaultTyped DEF disconnected_handler
<1>11. CASE protocol_translator_registration_success
      BY <1>11, RegisterTyped DEF protocol_translator_registration_success
<1>12. CASE protocol_translator_registration_failure
      BY <1>12, IdleSources, QueueTyped, FaultTyped
      DEF protocol_translator_registration_failure
<1>13. CASE shutdown_cb_handler
      BY <1>13, IdleSources, QueueTyped, FaultTyped DEF shutdown_cb_handler
<1>14. ASSUME NEW d \in Devices, ble_on_object_added(d) PROVE TypeOK'
      BY <1>14, NewTyped DEF ble_on_object_added
<1>15. ASSUME NEW d \in Devices, ble_on_object_removed(d) PROVE TypeOK'
  <2>1. /\ CtxOK' /\ idle' \in Seq(IdleSource)
        /\ unregs' \in [Devices \X BOOLEAN -> 0..MaxCalls]
        /\ faults' \in 0..MaxFaults
        BY <1>15, RemoveTyped, FaultTyped DEF ble_on_object_removed
  <2> QED BY <1>15, <2>1 DEF ble_on_object_removed
<1>16. ASSUME NEW d \in Devices, ble_on_connect(d) PROVE TypeOK'
      BY <1>16 DEF ble_on_connect
<1>17. ASSUME NEW d \in Devices, ble_on_disconnect(d) PROVE TypeOK'
  <2>1. /\ CtxOK' /\ idle' \in Seq(IdleSource)
        /\ unregs' \in [Devices \X BOOLEAN -> 0..MaxCalls]
        /\ faults' \in 0..MaxFaults
        BY <1>17, ReconnectTyped, FaultTyped DEF ble_on_disconnect
  <2> QED BY <1>17, <2>1 DEF ble_on_disconnect
<1>18. ASSUME NEW d \in Devices, ble_services_resolved(d) PROVE TypeOK'
      BY <1>18, ResolvedTyped DEF ble_services_resolved
<1>19. ASSUME NEW d \in Devices, ble_connect_done_error(d) PROVE TypeOK'
  <2>1. /\ CtxOK' /\ idle' \in Seq(IdleSource)
        /\ unregs' \in [Devices \X BOOLEAN -> 0..MaxCalls]
        /\ connects' \in [Devices -> 0..MaxCalls]
        BY <1>19, ReconnectTyped, ConnectTyped DEF ble_connect_done_error
  <2> QED BY <1>19, <2>1 DEF ble_connect_done_error
<1>20. ASSUME NEW d \in Devices, ble_connect_done(d) PROVE TypeOK'
  <2> DEFINE P == IF conn THEN ptdev \cup {d} ELSE ptdev
  <2>1. connects' \in [Devices -> 0..MaxCalls]
        BY <1>20, ConnectTyped DEF ble_connect_done
  <2>2. /\ Zero(retries, {d}) \in [Devices -> 0..MaxRetries]
        /\ Zero(age, {d}) \in [Devices -> Recent..Expired]
        BY DEF Zero, Recent, Expired
  <2>3. CASE d \notin tracked
        BY <1>20, <2>1, <2>3 DEF ble_connect_done
  <2>4. CASE d \in tracked
    <3>1. {d} \cap gatt \in SUBSET Devices /\ P \in SUBSET Devices
          OBVIOUS
    <3>2. ptdev' = P /\ ble_on_services_resolved({d} \cap gatt, P)
          BY <1>20, <2>4 DEF ble_connect_done
    <3>3. /\ resolved' \in SUBSET Devices /\ res' \in SUBSET Devices
          /\ regs' \in [Devices -> 0..MaxCalls]
          BY <3>1, <3>2, ResolvedTyped
    <3>4. retries' = Zero(retries, {d}) /\ age' = Zero(age, {d})
          BY <1>20, <2>4 DEF ble_connect_done
    <3> QED BY <1>20, <2>1, <2>2, <3>1, <3>2, <3>3, <3>4 DEF ble_connect_done
  <2> QED BY <2>3, <2>4
<1>21. ASSUME NEW d \in Devices, ble_connect_done_no_pt_device(d) PROVE TypeOK'
  <2>1. /\ CtxOK' /\ faults' \in 0..MaxFaults
        /\ connects' \in [Devices -> 0..MaxCalls]
        BY <1>21, DelTyped, ConnectTyped,
           FaultTyped DEF ble_connect_done_no_pt_device
  <2> QED BY <1>21, <2>1 DEF ble_connect_done_no_pt_device
<1>22. ASSUME NEW d \in Devices, ble_retry_connect(d) PROVE TypeOK'
      BY <1>22 DEF ble_retry_connect
<1>23. ASSUME NEW d \in Devices, TimePasses(d) PROVE TypeOK'
  <2>1. age' \in [Devices -> Recent..Expired]
    <3>1. /\ age' = [age EXCEPT ![d] = @ + 1] /\ age[d] < MaxAge /\ MaxAge \in 0..2
          /\ age \in [Devices -> 0..2]
          BY <1>23 DEF TimePasses, Recent, Expired
    <3> HIDE BlePtAssumption DEF TypeOK, CtxOK
    <3> QED BY <3>1 DEF Recent, Expired
  <2> QED BY <1>23, <2>1 DEF TimePasses
<1>24. ASSUME NEW d \in Devices, ble_remove_device_done(d) PROVE TypeOK'
      BY <1>24, RemoveTyped DEF ble_remove_device_done
<1>25. ASSUME NEW d \in Devices, ble_read_characteristic_callback(d) PROVE TypeOK'
      BY <1>25 DEF ble_read_characteristic_callback
<1>26. ASSUME NEW d \in Devices, device_registered(d) PROVE TypeOK'
      BY <1>26, QueueTyped DEF device_registered, Dispatch
<1>27. ASSUME NEW d \in Devices, device_registration_success(d) PROVE TypeOK'
      BY <1>27, IdleSources, QueueTyped DEF device_registration_success
<1>28. ASSUME NEW d \in Devices, device_registration_failure(d) PROVE TypeOK'
      BY <1>28 DEF device_registration_failure
<1>29. ASSUME NEW d \in Devices, NEW del \in BOOLEAN,
             device_unregistered(d, del)
      PROVE  TypeOK'
      BY <1>29, EdgeDelTyped, QueueTyped DEF device_unregistered, Dispatch
<1>30. ASSUME NEW d \in Devices, NEW del \in BOOLEAN,
             device_unregistration_success(d, del)
      PROVE  TypeOK'
      BY <1>30, AnsweredTyped DEF device_unregistration_success
<1>31. ASSUME NEW d \in Devices, NEW del \in BOOLEAN,
             device_unregistration_failure(d, del)
      PROVE  TypeOK'
      BY <1>31, AnsweredTyped DEF device_unregistration_failure
<1>s. CASE UNCHANGED vars
      BY <1>s DEF vars
<1> QED
      BY <1>1, <1>2, <1>3, <1>4, <1>5, <1>6, <1>7, <1>8, <1>9, <1>10,
         <1>11, <1>12, <1>13, <1>14, <1>15, <1>16, <1>17, <1>18, <1>19, <1>20,
         <1>21, <1>22, <1>23, <1>24, <1>25, <1>26, <1>27, <1>28, <1>29, <1>30,
         <1>31, <1>s
      DEF Next, ProcessNext, BluezNext, EdgeNext

(* The initial state is well typed. *)
LEMMA TypeInit == Init => TypeOK
<1> SUFFICES ASSUME Init PROVE TypeOK
    OBVIOUS
<1>1. ProcOK
  <2>1. idle \in Seq(IdleSource)
        BY DEF Init
  <2>2. running \in BOOLEAN /\ unregistering \in BOOLEAN /\ abrupt \in BOOLEAN
        BY Zenon DEF Init
  <2>3. faults \in 0..MaxFaults
        BY BlePtAssumption DEF Init
  <2> QED BY <2>1, <2>2, <2>3 DEF Init, ProcOK
<1>2. CtxOK
      BY BlePtAssumption DEF Init, CtxOK, Recent, Expired
<1>3. BluezOK
      BY BlePtAssumption DEF Init, BluezOK
<1>4. EdgeOK
  <2>1. unregs \in [Devices \X BOOLEAN -> 0..MaxCalls]
        BY BlePtAssumption DEF Init
  <2>2. conn \in BOOLEAN /\ ptReg \in BOOLEAN
        BY Zenon DEF Init
  <2>3. regs \in [Devices -> 0..MaxCalls]
        BY BlePtAssumption DEF Init
  <2> QED BY <2>1, <2>2, <2>3 DEF Init, EdgeOK
<1> QED BY <1>1, <1>2, <1>3, <1>4 DEF TypeOK

(* Type correctness: no order of handlers, replies and callbacks drives the  *)
(* retry counter past its limit or answers a call that was not made.         *)
THEOREM TypeCorrect == Spec => []TypeOK
<1>1. Init => TypeOK BY TypeInit
<1>2. TypeOK /\ [Next]_vars => TypeOK' BY TypeStep
<1> QED BY <1>1, <1>2, PTL DEF Spec

-----------------------------------------------------------------------------
(* Timers.  TimerOwned is inductive as it stands. *)

(* Freeing a context destroys its timer. *)
LEMMA DelTimer ==
    ASSUME TimerOwned, NEW d, NEW cs, devices_del_device(d, cs)
    PROVE  TimerOwned'
BY DEF TimerOwned, devices_del_device

(* A timer is started only for a context on the list that has none. *)
LEMMA ReconnectTimer ==
    ASSUME TimerOwned, NEW d \in tracked, NEW cs,
           ble_start_reconnection_timer_or_unregister_device(d, cs)
    PROVE  TimerOwned'
<1>1. CASE UNCHANGED <<tracked, timerId, timerSrc>>
      BY <1>1 DEF TimerOwned
<1>2. CASE pt_edge_del_device(d, cs, idle)
      BY <1>2, DelTimer DEF pt_edge_del_device
<1>3. CASE /\ timerId' = timerId \cup {d} /\ timerSrc' = timerSrc \cup {d}
           /\ UNCHANGED tracked
      BY <1>3 DEF TimerOwned
<1> QED
      BY <1>1, <1>2, <1>3
      DEF ble_start_reconnection_timer_or_unregister_device, timerVars

(* Removing a context, through Edge or at once. *)
LEMMA RemoveTimer ==
    ASSUME TimerOwned, NEW d,
           unregister_or_delete(d) \/ UNCHANGED <<ctxVars, idle, unregs>>
    PROVE  TimerOwned'
<1>1. CASE UNCHANGED <<tracked, timerId, timerSrc>>
      BY <1>1 DEF TimerOwned
<1>2. CASE pt_edge_del_device(d, connected, idle)
      BY <1>2, DelTimer DEF pt_edge_del_device
<1> QED BY <1>1, <1>2 DEF unregister_or_delete, ctxVars

(* A fresh context has no timer, and no timer of an older one is left. *)
LEMMA NewTimer ==
    ASSUME TimerOwned, NEW S, ble_new_device(S)
    PROVE  TimerOwned'
BY DEF TimerOwned, ble_new_device, ble_create_device_context, ble_proxy_connect,
       ctxVars

(* Every handler keeps every timer owned by a live context. *)
LEMMA TimerStep == TimerOwned /\ [Next]_vars => TimerOwned'
<1> SUFFICES ASSUME TimerOwned, [Next]_vars PROVE TimerOwned'
    OBVIOUS
<1> DEFINE Same == UNCHANGED <<tracked, timerId, timerSrc>>
<1>1. CASE ble_start
      BY <1>1, NewTimer DEF ble_start
<1>2. CASE Signal \/ DispatchShutdown
      BY <1>2 DEF Signal, DispatchShutdown, pt_ble_graceful_shutdown,
                  unregister_devices, ble_remove_device, TimerOwned, timerVars
<1>3. ASSUME NEW d \in Devices, ble_on_object_added(d) PROVE TimerOwned'
      BY <1>3, NewTimer DEF ble_on_object_added
<1>4. ASSUME NEW d \in Devices,
             ble_on_object_removed(d) \/ ble_remove_device_done(d)
      PROVE  TimerOwned'
      BY <1>4, RemoveTimer DEF ble_on_object_removed, ble_remove_device_done
<1>5. ASSUME NEW d \in Devices, ble_on_disconnect(d) \/ ble_connect_done_error(d)
      PROVE  TimerOwned'
  <2>1. CASE d \in tracked
        BY <1>5, <2>1, ReconnectTimer DEF ble_on_disconnect, ble_connect_done_error
  <2>2. CASE d \notin tracked
        BY <1>5, <2>2 DEF ble_on_disconnect, ble_connect_done_error, ctxVars,
                          TimerOwned
  <2> QED BY <2>1, <2>2
<1>6. ASSUME NEW d \in Devices, ble_connect_done_no_pt_device(d)
      PROVE  TimerOwned'
      BY <1>6, DelTimer DEF ble_connect_done_no_pt_device
<1>7. ASSUME NEW d \in Devices, ble_retry_connect(d) PROVE TimerOwned'
      BY <1>7 DEF ble_retry_connect, TimerOwned
<1>8. ASSUME NEW d \in Devices, NEW del \in BOOLEAN, device_unregistered(d, del)
      PROVE  TimerOwned'
  <2>1. CASE del /\ d \in tracked
        BY <1>8, <2>1, DelTimer DEF device_unregistered, pt_edge_del_device
  <2>2. CASE ~(del /\ d \in tracked)
        BY <1>8, <2>2 DEF device_unregistered, timerVars, TimerOwned
  <2> QED BY <2>1, <2>2
<1>9. CASE \/ ble_start_fails \/ ble_on_adapter_removed \/ ble_read_everything
           \/ SignalAgain
           \/ pt_ble_g_main_quit_loop \/ pt_ble_pt_ready
           \/ connection_ready_handler \/ disconnected_handler
           \/ protocol_translator_registration_success
           \/ protocol_translator_registration_failure \/ shutdown_cb_handler
  <2>1. Same
        BY <1>9 DEF ble_start_fails, SignalAgain, ble_on_adapter_removed, ble_read_everything,
           pt_ble_g_main_quit_loop, pt_ble_pt_ready, connection_ready_handler,
           disconnected_handler, protocol_translator_registration_success,
           protocol_translator_registration_failure, shutdown_cb_handler,
           ctxVars, timerVars
  <2> QED BY <2>1 DEF TimerOwned
<1>10. ASSUME NEW d \in Devices,
              \/ ble_on_connect(d) \/ ble_services_resolved(d)
              \/ ble_connect_done(d) \/ TimePasses(d)
              \/ ble_read_characteristic_callback(d) \/ device_registered(d)
              \/ device_registration_success(d) \/ device_registration_failure(d)
       PROVE  TimerOwned'
  <2>1. Same
        BY <1>10 DEF ble_on_connect, ble_services_resolved, ble_connect_done,
           TimePasses, ble_read_characteristic_callback, device_registered,
           device_registration_success, device_registration_failure,
           ctxVars, timerVars
  <2> QED BY <2>1 DEF TimerOwned
<1>11. ASSUME NEW d \in Devices, NEW del \in BOOLEAN,
              \/ device_unregistration_success(d, del)
              \/ device_unregistration_failure(d, del)
       PROVE  TimerOwned'
       BY <1>11 DEF device_unregistration_success, device_unregistration_failure,
                    unregistration_answered, ctxVars, TimerOwned
<1>12. CASE UNCHANGED vars
       BY <1>12 DEF vars, TimerOwned
<1> QED
      BY <1>1, <1>2, <1>3, <1>4, <1>5, <1>6, <1>7, <1>8, <1>9, <1>10, <1>11, <1>12
      DEF Next, ProcessNext, BluezNext, EdgeNext

(* Every glib timeout source belongs to a live context, whatever the order  *)
(* of disconnections, connection replies, removals and shutdown: the        *)
(* callback of device_start_retry_timer never runs on a freed context.      *)
THEOREM TimersOwned == Spec => []TimerOwned
<1>1. Init => TimerOwned BY DEF Init, TimerOwned
<1>2. TimerOwned /\ [Next]_vars => TimerOwned' BY TimerStep
<1> QED BY <1>1, <1>2, PTL DEF Spec

-----------------------------------------------------------------------------
(* Shutdown.  DrainedBeforeExit needs QuitWhenDrained, which ties the        *)
(* request to quit, while it waits in the queue, to the list of contexts.    *)

DrainInv == TypeOK /\ QuitWhenDrained /\ DrainedBeforeExit

(* A step that adds no context, no request to quit and no way out. *)
LEMMA DrainFrame ==
    ASSUME DrainInv, UNCHANGED <<unregistering, abrupt, loop>>,
           running' => running, tracked' \subseteq tracked,
           Queued(QuitLoop)' => Queued(QuitLoop)
    PROVE  QuitWhenDrained' /\ DrainedBeforeExit'
BY DEF DrainInv, QuitWhenDrained, DrainedBeforeExit

(* The last context to go during shutdown queues the request to quit. *)
LEMMA DrainDel ==
    ASSUME DrainInv, UNCHANGED procVars, NEW d, NEW cs,
           NEW q \in Seq(IdleSource), Holds(q, QuitLoop) => Queued(QuitLoop),
           pt_edge_del_device(d, cs, q)
    PROVE  QuitWhenDrained' /\ DrainedBeforeExit'
<1>1. UNCHANGED <<running, unregistering, abrupt, loop>>
      BY DEF procVars
<1>2. tracked' = tracked \ {d}
      BY DEF pt_edge_del_device, devices_del_device
<1>3. CASE unregistering /\ tracked \ {d} = {}
      BY <1>1, <1>2, <1>3
      DEF DrainInv, QuitWhenDrained, DrainedBeforeExit
<1>4. CASE ~(unregistering /\ tracked \ {d} = {})
  <2>1. idle' = q
        BY <1>4 DEF pt_edge_del_device
  <2>2. Queued(QuitLoop)' => Queued(QuitLoop)
        BY <2>1 DEF Queued, Holds
  <2> QED BY <1>1, <1>2, <2>2, DrainFrame
<1> QED BY <1>3, <1>4

(* Reconnecting, or giving a device up. *)
LEMMA DrainReconnect ==
    ASSUME DrainInv, UNCHANGED procVars, NEW d, NEW cs,
           ble_start_reconnection_timer_or_unregister_device(d, cs)
    PROVE  QuitWhenDrained' /\ DrainedBeforeExit'
<1>1. CASE UNCHANGED <<tracked, idle>>
      BY <1>1, DrainFrame DEF procVars, Queued, Holds
<1>2. CASE pt_edge_del_device(d, cs, idle)
      BY <1>2, DrainDel DEF Queued, DrainInv, TypeOK, ProcOK
<1> QED
      BY <1>1, <1>2 DEF ble_start_reconnection_timer_or_unregister_device

(* Removing a context, through Edge or at once. *)
LEMMA DrainRemove ==
    ASSUME DrainInv, UNCHANGED procVars, NEW d,
           unregister_or_delete(d) \/ UNCHANGED <<ctxVars, idle, unregs>>
    PROVE  QuitWhenDrained' /\ DrainedBeforeExit'
<1>1. CASE UNCHANGED <<tracked, idle>>
      BY <1>1, DrainFrame DEF procVars, Queued, Holds
<1>2. CASE pt_edge_del_device(d, connected, idle)
      BY <1>2, DrainDel DEF Queued, DrainInv, TypeOK, ProcOK
<1> QED BY <1>1, <1>2 DEF unregister_or_delete, ctxVars

(* New contexts come only while no request to quit can be queued. *)
LEMMA DrainNew ==
    ASSUME DrainInv, UNCHANGED <<running, unregistering, abrupt, idle>>,
           loop' = "run", NEW S, ble_new_device(S)
    PROVE  QuitWhenDrained' /\ DrainedBeforeExit'
BY DEF DrainInv, QuitWhenDrained, DrainedBeforeExit, Queued, Holds,
       ble_new_device, ble_create_device_context, ble_proxy_connect, ctxVars

(* A first shutdown request quits at once only with an empty list; a second *)
(* one stops without draining.                                              *)
LEMMA DrainShutdown ==
    ASSUME DrainInv, LoopRuns, NEW q \in Seq(IdleSource),
           Holds(q, QuitLoop) => Queued(QuitLoop), pt_ble_graceful_shutdown(q)
    PROVE  QuitWhenDrained' /\ DrainedBeforeExit'
<1>1. DrainedBeforeExit' /\ running' = FALSE /\ tracked' = tracked
      BY DEF LoopRuns, pt_ble_graceful_shutdown, DrainedBeforeExit
<1>2. CASE ~running
      BY <1>1, <1>2 DEF pt_ble_graceful_shutdown, QuitWhenDrained
<1>3. CASE running
  <2>1. ~unregistering /\ ~Holds(q, QuitLoop)
        BY <1>3 DEF DrainInv, QuitWhenDrained
  <2>2. CASE tracked = {}
        BY <1>1, <2>2 DEF QuitWhenDrained
  <2>3. CASE tracked # {}
    <3>1. idle' = q
          BY <1>3, <2>1, <2>3 DEF pt_ble_graceful_shutdown, unregister_devices,
                                  ble_remove_device
    <3>2. ~Queued(QuitLoop)'
          BY <2>1, <3>1 DEF Queued, Holds
    <3> QED BY <1>1, <3>2 DEF QuitWhenDrained
  <2> QED BY <2>2, <2>3
<1> QED BY <1>1, <1>2, <1>3

(* A callback of the pt-client queues something else than a request to quit. *)
LEMMA DrainAppend ==
    ASSUME DrainInv, UNCHANGED <<unregistering, abrupt, loop, tracked>>,
           running' => running, NEW e \in IdleSource, e # QuitLoop,
           idle' = Append(idle, e)
    PROVE  QuitWhenDrained' /\ DrainedBeforeExit'
<1>1. Queued(QuitLoop)' => Queued(QuitLoop)
  <2>1. idle \in Seq(IdleSource)
        BY DEF DrainInv, TypeOK, ProcOK
  <2>2. Holds(Append(idle, e), QuitLoop) => Holds(idle, QuitLoop)
        BY <2>1, HoldsAppend
  <2> QED BY <2>2 DEF Queued, Holds
<1> QED BY <1>1, DrainFrame

(* Dispatching an idle source leaves the queue without it. *)
LEMMA DrainTail ==
    ASSUME DrainInv, idle # <<>>
    PROVE  /\ Tail(idle) \in Seq(IdleSource)
           /\ Holds(Tail(idle), QuitLoop) => Queued(QuitLoop)
<1>1. idle \in Seq(IdleSource)
      BY DEF DrainInv, TypeOK, ProcOK
<1> QED BY <1>1, HoldsTail, QueueTyped DEF Queued

(* Every handler keeps the request to quit behind the last context. *)
LEMMA DrainStep == DrainInv /\ [Next]_vars => DrainInv'
<1> SUFFICES ASSUME DrainInv, [Next]_vars
             PROVE  QuitWhenDrained' /\ DrainedBeforeExit'
    BY TypeStep DEF DrainInv
<1> DEFINE Goal == QuitWhenDrained' /\ DrainedBeforeExit'
<1>0. idle \in Seq(IdleSource)
      BY DEF DrainInv, TypeOK, ProcOK
<1>1. CASE ble_start
      BY <1>1, DrainNew DEF ble_start
<1>2. CASE ble_start_fails \/ ble_on_adapter_removed \/ SignalAgain
  <2>1. UNCHANGED <<running, unregistering, tracked, idle>>
        BY <1>2 DEF ble_start_fails, ble_on_adapter_removed, SignalAgain, ctxVars
  <2>2. (abrupt => abrupt') /\ (loop' = "done" => abrupt')
    <3>1. CASE SignalAgain
          BY <3>1 DEF SignalAgain
    <3>2. CASE ble_start_fails \/ ble_on_adapter_removed
          BY <3>2, Zenon DEF ble_start_fails, ble_on_adapter_removed, LeaveLoop
    <3> QED BY <1>2, <3>1, <3>2
  <2>3. Queued(QuitLoop)' = Queued(QuitLoop)
        BY <2>1 DEF Queued, Holds
  <2> QED BY <2>1, <2>2, <2>3 DEF DrainInv, QuitWhenDrained, DrainedBeforeExit
<1>3. CASE Signal
      BY <1>0, <1>3, DrainShutdown DEF Signal, Queued
<1>4. CASE DispatchShutdown
      BY <1>4, DrainTail, DrainShutdown DEF DispatchShutdown, Dispatch
<1>5. CASE pt_ble_g_main_quit_loop
  <2>1. idle # <<>> /\ Head(idle) = QuitLoop
        BY <1>5 DEF pt_ble_g_main_quit_loop, Dispatch
  <2>2. Queued(QuitLoop)
    <3>1. Head(idle) = idle[1] /\ Len(idle) \in Nat /\ Len(idle) > 0
          BY <1>0, <2>1
    <3> QED BY <2>1, <3>1 DEF Queued, Holds
  <2>3. abrupt \/ tracked = {}
        BY <2>2 DEF DrainInv, QuitWhenDrained
  <2>4. UNCHANGED <<running, unregistering, abrupt, tracked>>
        BY <1>5 DEF pt_ble_g_main_quit_loop, ctxVars
  <2> QED BY <2>2, <2>3, <2>4 DEF DrainInv, QuitWhenDrained, DrainedBeforeExit
<1>6. CASE pt_ble_pt_ready
  <2>1. /\ idle # <<>> /\ idle' = Tail(idle)
        /\ UNCHANGED <<procVars, tracked>>
        BY <1>6 DEF pt_ble_pt_ready, Dispatch
  <2> QED BY <2>1, DrainTail, DrainFrame DEF procVars, Queued, Holds
<1>7. CASE connection_ready_handler
      BY <1>7, DrainAppend, IdleSources, SourcesDiffer
      DEF connection_ready_handler, procVars, ctxVars
<1>8. CASE protocol_translator_registration_failure
      BY <1>8, DrainAppend, IdleSources, SourcesDiffer
      DEF protocol_translator_registration_failure, ctxVars
<1>9. CASE shutdown_cb_handler
  <2>1. CASE running
        BY <1>9, <2>1, DrainAppend, IdleSources, SourcesDiffer
        DEF shutdown_cb_handler, ctxVars
  <2>2. CASE ~running
        BY <1>9, <2>2, DrainFrame DEF shutdown_cb_handler, ctxVars, Queued, Holds
  <2> QED BY <2>1, <2>2
<1>10. CASE \/ ble_read_everything \/ disconnected_handler
            \/ protocol_translator_registration_success
  <2>1. UNCHANGED <<procVars, tracked, idle>>
        BY <1>10 DEF ble_read_everything, disconnected_handler,
                     protocol_translator_registration_success, ctxVars
  <2> QED BY <2>1, DrainFrame DEF procVars, Queued, Holds
<1>11. ASSUME NEW d \in Devices, ble_on_object_added(d) PROVE Goal
       BY <1>11, DrainNew DEF ble_on_object_added, procVars, LoopRuns
<1>12. ASSUME NEW d \in Devices,
              ble_on_object_removed(d) \/ ble_remove_device_done(d)
       PROVE  Goal
       BY <1>12, DrainRemove DEF ble_on_object_removed, ble_remove_device_done
<1>13. ASSUME NEW d \in Devices, ble_on_disconnect(d) \/ ble_connect_done_error(d)
       PROVE  Goal
  <2>1. UNCHANGED procVars
        BY <1>13 DEF ble_on_disconnect, ble_connect_done_error
  <2>2. CASE d \in tracked
        BY <1>13, <2>1, <2>2, DrainReconnect
        DEF ble_on_disconnect, ble_connect_done_error
  <2>3. CASE d \notin tracked
        BY <1>13, <2>1, <2>3, DrainRemove
        DEF ble_on_disconnect, ble_connect_done_error
  <2> QED BY <2>2, <2>3
<1>14. ASSUME NEW d \in Devices,
              \/ ble_connect_done_no_pt_device(d) \/ ble_retry_connect(d)
              \/ ble_on_connect(d) \/ ble_services_resolved(d)
              \/ ble_connect_done(d) \/ TimePasses(d)
              \/ device_registration_failure(d)
       PROVE  Goal
  <2>1. UNCHANGED <<procVars, idle>> /\ tracked' \subseteq tracked
        BY <1>14 DEF ble_connect_done_no_pt_device, devices_del_device,
           ble_retry_connect, ble_on_connect, ble_services_resolved,
           ble_connect_done, TimePasses, device_registration_failure, ctxVars
  <2> QED BY <2>1, DrainFrame DEF procVars, Queued, Holds
<1>15. ASSUME NEW d \in Devices, ble_read_characteristic_callback(d) PROVE Goal
       BY <1>15 DEF ble_read_characteristic_callback, ctxVars, LoopRuns, DrainInv,
                    QuitWhenDrained, DrainedBeforeExit, Queued, Holds
<1>16. ASSUME NEW d \in Devices, device_registered(d) PROVE Goal
  <2>1. /\ idle # <<>> /\ idle' = Tail(idle)
        /\ UNCHANGED <<procVars, tracked>>
        BY <1>16 DEF device_registered, Dispatch
  <2> QED BY <2>1, DrainTail, DrainFrame DEF procVars, Queued, Holds
<1>17. ASSUME NEW d \in Devices, device_registration_success(d) PROVE Goal
       BY <1>17, DrainAppend, IdleSources, SourcesDiffer
       DEF device_registration_success, procVars, ctxVars
<1>18. ASSUME NEW d \in Devices, NEW del \in BOOLEAN, device_unregistered(d, del)
       PROVE  Goal
  <2>1. idle # <<>> /\ UNCHANGED procVars
        BY <1>18 DEF device_unregistered, Dispatch
  <2>2. CASE del /\ d \in tracked
        BY <1>18, <2>1, <2>2, DrainTail, DrainDel DEF device_unregistered
  <2>3. CASE ~(del /\ d \in tracked)
    <3>1. idle' = Tail(idle) /\ UNCHANGED tracked
          BY <1>18, <2>3 DEF device_unregistered
    <3> QED BY <2>1, <3>1, DrainTail, DrainFrame DEF procVars, Queued, Holds
  <2> QED BY <2>2, <2>3
<1>19. ASSUME NEW d \in Devices, NEW del \in BOOLEAN,
              \/ device_unregistration_success(d, del)
              \/ device_unregistration_failure(d, del)
       PROVE  Goal
  <2>1. unregistration_answered(d, del)
        BY <1>19 DEF device_unregistration_success, device_unregistration_failure
  <2> QED BY <2>1, DrainAppend, IdleSources, SourcesDiffer
          DEF unregistration_answered, procVars, ctxVars
<1>20. CASE UNCHANGED vars
       BY <1>20, DrainFrame DEF vars, Queued, Holds
<1> QED
      BY <1>1, <1>2, <1>3, <1>4, <1>5, <1>6, <1>7, <1>8, <1>9, <1>10, <1>11,
         <1>12, <1>13, <1>14, <1>15, <1>16, <1>17, <1>18, <1>19, <1>20
      DEF Next, ProcessNext, BluezNext, EdgeNext

(* ble_start never returns with device contexts left on the list, unless it *)
(* was told to stop at once: whatever the order of shutdown requests, D-Bus *)
(* replies and Edge answers, for any number of devices.                     *)
THEOREM DrainedAtExit == Spec => []DrainedBeforeExit
<1>1. Init => DrainInv
      BY TypeInit DEF Init, DrainInv, QuitWhenDrained, DrainedBeforeExit, Queued,
                      Holds
<1>2. DrainInv /\ [Next]_vars => DrainInv' BY DrainStep
<1>3. DrainInv => DrainedBeforeExit BY DEF DrainInv
<1> QED BY <1>1, <1>2, <1>3, PTL DEF Spec

(* Once the shutdown has begun no handler, the signal of an object that      *)
(* appears late included, puts a context on the list.                        *)
THEOREM NoContextsAfterShutdown == Spec => NoNewContexts
<1>1. [Next]_vars => [~running => tracked' \subseteq tracked]_vars
  <2> SUFFICES ASSUME Next, ~running PROVE tracked' \subseteq tracked
      BY DEF vars
  <2>1. CASE ProcessNext
        BY <2>1 DEF ProcessNext, ble_start, ble_new_device,
                    ble_create_device_context, ble_proxy_connect, ble_start_fails,
           ble_on_adapter_removed, ble_read_everything, Signal, SignalAgain,
           DispatchShutdown,
           pt_ble_graceful_shutdown, pt_ble_g_main_quit_loop, pt_ble_pt_ready,
           connection_ready_handler, disconnected_handler,
           protocol_translator_registration_success,
           protocol_translator_registration_failure, shutdown_cb_handler, ctxVars
  <2>2. ASSUME NEW d \in Devices, BluezNext(d) PROVE tracked' \subseteq tracked
        BY <2>2 DEF BluezNext, ble_on_object_added, ble_new_device,
                    ble_create_device_context, ble_proxy_connect,
           ble_on_object_removed, unregister_or_delete, ble_on_connect,
           ble_on_disconnect, ble_start_reconnection_timer_or_unregister_device,
           ble_services_resolved, ble_connect_done, ble_connect_done_error,
           ble_connect_done_no_pt_device, ble_retry_connect, TimePasses,
           ble_remove_device_done, ble_read_characteristic_callback,
           pt_edge_del_device, devices_del_device, ctxVars
  <2>3. ASSUME NEW d \in Devices, EdgeNext(d) PROVE tracked' \subseteq tracked
        BY <2>3 DEF EdgeNext, device_registered, device_registration_success,
           device_registration_failure, device_unregistered, pt_edge_del_device,
           devices_del_device, device_unregistration_success,
           device_unregistration_failure, unregistration_answered, ctxVars
  <2> QED BY <2>1, <2>2, <2>3 DEF Next
<1> QED BY <1>1, PTL DEF Spec, NoNewContexts

-----------------------------------------------------------------------------
(* The shutdown implements module Drain.                                     *)

LoopActive == loop \in {"start", "run"}

(* A process that runs has neither stopped nor been told to stop at once. *)
PhaseInv ==
    /\ DrainInv
    /\ loop = "done" /\ ~abrupt => ~running
    /\ LoopActive /\ abrupt => ~running

(* What a step can do to the flags and to the list. *)
FlagMoves ==
    /\ running' => running
    /\ abrupt => abrupt'
    /\ UNCHANGED loop \/ LoopActive
    /\ UNCHANGED abrupt \/ (LoopActive /\ (~running' \/ loop' = "done"))
    /\ loop' = "done" => \/ loop = "done" \/ abrupt'
                         \/ ~running /\ UNCHANGED <<tracked, running>>
    /\ \/ tracked' \subseteq tracked
       \/ running /\ LoopActive /\ loop' = "run" /\ UNCHANGED <<running, abrupt>>

LEMMA StepFlags ==
    ASSUME TypeOK, Next
    PROVE  FlagMoves
<1>1. CASE ble_start
      BY <1>1 DEF ble_start, ble_new_device, ble_create_device_context,
                  ble_proxy_connect, ctxVars, FlagMoves, LoopActive
<1>2. CASE \/ ble_start_fails \/ SignalAgain \/ ble_on_adapter_removed
           \/ pt_ble_g_main_quit_loop
  <2>1. CASE ble_start_fails \/ SignalAgain
        BY <2>1 DEF ble_start_fails, SignalAgain, LoopRuns, ctxVars, FlagMoves,
                    LoopActive
  <2>2. CASE ble_on_adapter_removed
    <3>1. abrupt \in BOOLEAN
          BY DEF TypeOK, ProcOK
    <3>2. CASE running
          BY <2>2, <3>1, <3>2 DEF ble_on_adapter_removed, LeaveLoop, LoopRuns,
                                  ctxVars, FlagMoves, LoopActive
    <3>3. CASE ~running
          BY <2>2, <3>3 DEF ble_on_adapter_removed, LeaveLoop, LoopRuns,
                            ctxVars, FlagMoves, LoopActive
    <3> QED BY <3>2, <3>3
  <2>3. CASE pt_ble_g_main_quit_loop
        BY <2>3 DEF pt_ble_g_main_quit_loop, Dispatch, LeaveLoop, LoopRuns,
                    ctxVars, FlagMoves, LoopActive
  <2> QED BY <1>2, <2>1, <2>2, <2>3
<1>3. CASE Signal \/ DispatchShutdown
      BY <1>3 DEF Signal, DispatchShutdown, Dispatch, pt_ble_graceful_shutdown,
                  LoopRuns, FlagMoves, LoopActive
<1>4. CASE \/ ble_read_everything \/ pt_ble_pt_ready
           \/ connection_ready_handler \/ disconnected_handler
           \/ protocol_translator_registration_success
           \/ protocol_translator_registration_failure
           \/ shutdown_cb_handler
      BY <1>4 DEF ble_read_everything, pt_ble_pt_ready, connection_ready_handler,
                  disconnected_handler, protocol_translator_registration_success,
                  protocol_translator_registration_failure, shutdown_cb_handler,
                  procVars, ctxVars, FlagMoves
<1>5. ASSUME NEW d \in Devices, ble_on_object_added(d) PROVE FlagMoves
      BY <1>5 DEF ble_on_object_added, ble_new_device, ble_create_device_context,
                  ble_proxy_connect, LoopRuns, procVars, ctxVars, FlagMoves, LoopActive
<1>6. ASSUME NEW d \in Devices, ble_read_characteristic_callback(d) PROVE FlagMoves
      BY <1>6 DEF ble_read_characteristic_callback, LoopRuns, ctxVars, FlagMoves,
                  LoopActive
<1>7. ASSUME NEW d \in Devices, BluezNext(d), ~ble_on_object_added(d),
             ~ble_read_characteristic_callback(d)
      PROVE  FlagMoves
  <2>1. UNCHANGED procVars /\ tracked' \subseteq tracked
        BY <1>7 DEF BluezNext, ble_on_object_removed, unregister_or_delete,
           ble_on_connect, ble_on_disconnect,
           ble_start_reconnection_timer_or_unregister_device,
           ble_services_resolved, ble_connect_done, ble_connect_done_error,
           ble_connect_done_no_pt_device, ble_retry_connect, TimePasses,
           ble_remove_device_done, pt_edge_del_device, devices_del_device, ctxVars
  <2> QED BY <2>1 DEF procVars, FlagMoves
<1>8. ASSUME NEW d \in Devices, EdgeNext(d) PROVE FlagMoves
  <2>1. UNCHANGED procVars /\ tracked' \subseteq tracked
        BY <1>8 DEF EdgeNext, device_registered, device_registration_success,
           device_registration_failure, device_unregistered, pt_edge_del_device,
           devices_del_device, device_unregistration_success,
           device_unregistration_failure, unregistration_answered, ctxVars
  <2> QED BY <2>1 DEF procVars, FlagMoves
<1> QED
      BY <1>1, <1>2, <1>3, <1>4, <1>5, <1>6, <1>7, <1>8 DEF Next, ProcessNext

LEMMA PhaseInvStep == PhaseInv /\ [Next]_vars => PhaseInv'
<1> SUFFICES ASSUME PhaseInv, [Next]_vars PROVE PhaseInv'
    OBVIOUS
<1>1. DrainInv'
      BY DrainStep DEF PhaseInv
<1>2. CASE Next
  <2>1. FlagMoves
        BY <1>2, StepFlags DEF PhaseInv, DrainInv
  <2> QED BY <1>1, <2>1 DEF PhaseInv, FlagMoves, LoopActive, DrainInv, TypeOK, ProcOK
<1>3. CASE UNCHANGED vars
      BY <1>1, <1>3 DEF vars, PhaseInv, LoopActive
<1> QED BY <1>2, <1>3

(* The phase, read off the flags. *)
PhaseMeaning ==
    /\ Phase = "aborted" <=> abrupt \/ loop = "crashed"
    /\ Phase = "stopped" <=> ~abrupt /\ loop = "done"
    /\ Phase = "running" <=> ~abrupt /\ LoopActive /\ running
    /\ Phase = "draining" <=> ~abrupt /\ LoopActive /\ ~running

LEMMA PhaseIs == TypeOK => PhaseMeaning
<1> SUFFICES ASSUME TypeOK PROVE PhaseMeaning
    OBVIOUS
<1>1. /\ loop \in {"start", "run", "done", "crashed"}
      /\ abrupt \in BOOLEAN /\ running \in BOOLEAN
      BY DEF TypeOK, ProcOK
<1>2. CASE abrupt \/ loop = "crashed"
      BY <1>1, <1>2 DEF Phase, LoopActive, PhaseMeaning
<1>3. CASE ~abrupt /\ loop = "done"
      BY <1>1, <1>3 DEF Phase, LoopActive, PhaseMeaning
<1>4. CASE ~abrupt /\ LoopActive /\ running
      BY <1>1, <1>4 DEF Phase, LoopActive, PhaseMeaning
<1>5. CASE ~abrupt /\ LoopActive /\ ~running
      BY <1>1, <1>5 DEF Phase, LoopActive, PhaseMeaning
<1> QED BY <1>1, <1>2, <1>3, <1>4, <1>5 DEF LoopActive

(* An orderly shutdown, for any number of devices: contexts are taken on     *)
(* only while the translator runs, afterwards only given back, and the main  *)
(* loop is left with none, unless it is told to stop at once or crashes.     *)
THEOREM OrderlyShutdown == Spec => Drains
<1> DEFINE P == [o \in {"main"} |-> Phase]
           H == [o \in {"main"} |-> tracked]
<1>1. Init => PhaseInv
  <2>1. Init => DrainInv
        BY TypeInit DEF Init, DrainInv, QuitWhenDrained, DrainedBeforeExit, Queued,
                        Holds
  <2> QED BY <2>1 DEF Init, PhaseInv, LoopActive
<1>2. Init => D!Init
  <2> SUFFICES ASSUME Init PROVE Phase = "running" /\ tracked = {}
      BY DEF D!Init
  <2> QED BY TypeInit, PhaseIs DEF Init, LoopActive, PhaseMeaning
<1>3. PhaseInv /\ PhaseInv' /\ [Next]_vars => [D!Next]_<<P, H>>
  <2> SUFFICES ASSUME PhaseInv, PhaseInv', [Next]_vars
               PROVE  D!Next \/ UNCHANGED <<P, H>>
      OBVIOUS
  <2>1. CASE UNCHANGED vars
    <3>1. UNCHANGED <<Phase, tracked>>
          BY <2>1 DEF vars, Phase
    <3> QED BY <3>1
  <2>2. CASE Next
    <3>1. FlagMoves
          BY <2>2, StepFlags DEF PhaseInv, DrainInv
    <3>2. PhaseMeaning
          BY PhaseIs DEF PhaseInv, DrainInv
    <3>3. PhaseMeaning'
      <4>1. TypeOK'
            BY DEF PhaseInv, DrainInv
      <4> QED BY <4>1, PhaseIs, PTL
    <3>4. /\ loop \in {"start", "run", "done", "crashed"}
          /\ loop' \in {"start", "run", "done", "crashed"}
          /\ tracked' \in SUBSET Devices
          BY DEF PhaseInv, DrainInv, TypeOK, ProcOK, CtxOK
    <3>5. CASE Phase = "aborted"
          BY <3>1, <3>2, <3>3, <3>4, <3>5
          DEF PhaseMeaning, FlagMoves, LoopActive, PhaseInv, D!Next, D!Give
    <3>6. CASE Phase = "stopped"
      <4>1. Phase' = "stopped" /\ tracked' = tracked
            BY <3>1, <3>2, <3>3, <3>4, <3>6
            DEF PhaseMeaning, FlagMoves, LoopActive, PhaseInv, DrainInv, DrainedBeforeExit
      <4> QED BY <3>6, <4>1
    <3>7. CASE Phase = "running"
      <4>1. Phase' = "running" \/ Phase' = "draining" \/ Phase' = "aborted"
            BY <3>1, <3>2, <3>3, <3>4, <3>7 DEF PhaseMeaning, FlagMoves, LoopActive, PhaseInv
      <4>2. Phase' # "running" => tracked' \subseteq tracked
            BY <3>1, <3>2, <3>3, <3>4, <3>7 DEF PhaseMeaning, FlagMoves, LoopActive
      <4> QED BY <3>4, <3>7, <4>1, <4>2 DEF D!Next, D!Take, D!Close, D!Abort
    <3>8. CASE Phase = "draining"
      <4>1. Phase' = "draining" \/ Phase' = "stopped" \/ Phase' = "aborted"
            BY <3>1, <3>2, <3>3, <3>4, <3>8 DEF PhaseMeaning, FlagMoves, LoopActive
      <4>2. tracked' \subseteq tracked
            BY <3>1, <3>2, <3>8 DEF PhaseMeaning, FlagMoves
      <4>3. Phase' = "stopped" => tracked = {} /\ tracked' = {}
            BY <3>1, <3>2, <3>3, <3>8
            DEF PhaseMeaning, FlagMoves, LoopActive, PhaseInv, DrainInv, DrainedBeforeExit
      <4> QED BY <3>8, <4>1, <4>2, <4>3 DEF D!Next, D!Give, D!Stop, D!Abort
    <3> QED BY <3>2, <3>4, <3>5, <3>6, <3>7, <3>8 DEF LoopActive, PhaseMeaning
  <2> QED BY <2>1, <2>2
<1> QED BY <1>1, <1>2, <1>3, PhaseInvStep, PTL DEF Spec, Drains, D!Spec

-----------------------------------------------------------------------------
(* The REGISTERED flag.  FlagFollowsEdge needs RegistrationInOrder, which    *)
(* says the same of a registration that still waits in the queue.            *)

(* An unregistration of d waits in queue s, behind position i. *)
Behind(s, i, d) ==
    \E j \in 1..Len(s), del \in BOOLEAN : j > i /\ s[j] = Unregistered(d, del)

(* RegistrationInOrder and FlagFollowsEdge, of any queue s, devices R that   *)
(* Edge has registered and flagged devices F.                                *)
InOrder(s, R) ==
    \A d \in Devices, i \in 1..Len(s) :
        s[i] = Registered(d) => d \in R \/ Behind(s, i, d)
Backed(s, R, F) ==
    \A d \in F : d \in R \/ \E del \in BOOLEAN : Holds(s, Unregistered(d, del))

FlagInv == TypeOK /\ RegistrationInOrder /\ FlagFollowsEdge

(* The two invariants are these formulas, of the current state. *)
LEMMA FlagForm ==
    /\ RegistrationInOrder <=> InOrder(idle, edgeReg)
    /\ FlagFollowsEdge <=> Backed(idle, edgeReg, registered)
BY DEF RegistrationInOrder, FlagFollowsEdge, InOrder, Behind, Backed, Queued

(* A message that is no registration is appended: Edge's word may change     *)
(* only to "unregistered", and only with the message that says so.           *)
LEMMA FlagAppend ==
    ASSUME NEW s \in Seq(IdleSource), NEW e \in IdleSource, NEW R, NEW F,
           NEW Q, InOrder(s, R), Backed(s, R, F),
           \A d \in Devices : e = Registered(d) => d \in Q,
           \A d \in R \ Q : \E del \in BOOLEAN : e = Unregistered(d, del)
    PROVE  InOrder(Append(s, e), Q) /\ Backed(Append(s, e), Q, F)
<1> DEFINE t == Append(s, e)
<1>1. /\ Len(t) = Len(s) + 1 /\ Len(s) \in Nat /\ t[Len(s) + 1] = e
      /\ \A i \in 1..Len(s) : t[i] = s[i]
      OBVIOUS
<1> HIDE DEF t
<1>2. ASSUME NEW d \in Devices, NEW i \in 1..Len(t), t[i] = Registered(d)
      PROVE  d \in Q \/ Behind(t, i, d)
  <2>1. CASE i = Len(s) + 1
        BY <1>1, <1>2, <2>1
  <2>2. CASE i \in 1..Len(s)
    <3>1. d \in R \/ Behind(s, i, d)
          BY <1>1, <1>2, <2>2 DEF InOrder
    <3>2. CASE Behind(s, i, d)
          BY <1>1, <3>2 DEF Behind
    <3>3. CASE d \in R /\ d \notin Q
      <4>1. PICK del \in BOOLEAN : e = Unregistered(d, del)
            BY <3>3
      <4>2. Len(s) + 1 \in 1..Len(t) /\ Len(s) + 1 > i
            BY <1>1, <2>2
      <4> QED BY <1>1, <4>1, <4>2 DEF Behind
    <3> QED BY <3>1, <3>2, <3>3
  <2> QED BY <1>1, <2>1, <2>2
<1>3. ASSUME NEW d \in F
      PROVE  d \in Q \/ \E del \in BOOLEAN : Holds(t, Unregistered(d, del))
      BY HoldsAppend DEF Backed, t
<1> QED BY <1>2, <1>3 DEF InOrder, Backed, t

(* The head is dispatched: a registration sets its flag, an unregistration   *)
(* clears it.                                                                *)
LEMMA FlagTail ==
    ASSUME NEW s \in Seq(IdleSource), s # <<>>, NEW R, NEW F, NEW G,
           F \subseteq Devices, G \subseteq Devices,
           InOrder(s, R), Backed(s, R, F),
           \A d \in G : \/ Head(s) = Registered(d)
                       \/ /\ d \in F
                          /\ \A del \in BOOLEAN : Head(s) # Unregistered(d, del)
    PROVE  InOrder(Tail(s), R) /\ Backed(Tail(s), R, G)
<1> DEFINE t == Tail(s)
<1>1. Len(s) \in Nat \ {0} /\ Head(s) = s[1]
      OBVIOUS
<1>2. t \in Seq(IdleSource) /\ Len(t) = Len(s) - 1
      OBVIOUS
<1>3. ASSUME NEW i \in 1..Len(t) PROVE t[i] = s[i + 1]
      BY <1>1, <1>2
<1> HIDE DEF t
<1>4. ASSUME NEW d \in Devices, NEW i \in 1..Len(s), Behind(s, i, d)
      PROVE  \E j \in 1..Len(t), del \in BOOLEAN :
                j > i - 1 /\ t[j] = Unregistered(d, del)
  <2>1. PICK j \in 1..Len(s), del \in BOOLEAN : j > i /\ s[j] = Unregistered(d, del)
        BY <1>4 DEF Behind
  <2>2. j - 1 \in 1..Len(t) /\ (j - 1) + 1 = j /\ j - 1 > i - 1
        BY <1>1, <1>2, <2>1
  <2>3. t[j - 1] = s[j]
        BY <1>3, <2>2
  <2> QED BY <2>1, <2>2, <2>3
<1>5. ASSUME NEW d \in Devices, NEW i \in 1..Len(t), t[i] = Registered(d)
      PROVE  d \in R \/ Behind(t, i, d)
  <2>1. i + 1 \in 1..Len(s) /\ (i + 1) - 1 = i /\ s[i + 1] = Registered(d)
        BY <1>1, <1>2, <1>3, <1>5
  <2>2. d \in R \/ Behind(s, i + 1, d)
        BY <2>1 DEF InOrder
  <2> QED BY <1>4, <2>1, <2>2 DEF Behind
<1>6. ASSUME NEW d \in G
      PROVE  d \in R \/ \E del \in BOOLEAN : Holds(t, Unregistered(d, del))
  <2>1. CASE Head(s) = Registered(d)
    <3>1. d \in R \/ Behind(s, 1, d)
          BY <1>1, <2>1 DEF InOrder
    <3> QED BY <1>1, <1>4, <3>1 DEF Holds
  <2>2. CASE d \in F /\ \A del \in BOOLEAN : Head(s) # Unregistered(d, del)
    <3>1. d \in R \/ \E del \in BOOLEAN : Holds(s, Unregistered(d, del))
          BY <2>2 DEF Backed
    <3> QED BY <2>2, <3>1, HoldsTail DEF t
  <2> QED BY <2>1, <2>2
<1> QED BY <1>5, <1>6 DEF InOrder, Backed, t

(* Flags go: nothing to show. *)
LEMMA FlagFewer ==
    ASSUME NEW s, NEW R, NEW F, NEW G \in SUBSET F, Backed(s, R, F)
    PROVE  Backed(s, R, G)
BY DEF Backed

(* The goal of every step below, and the two invariants it is made of. *)
FlagGoal == InOrder(idle, edgeReg) /\ Backed(idle, edgeReg, registered)

(* FlagInv is TypeOK with FlagGoal, before and after a step. *)
LEMMA FlagGoals ==
    /\ FlagInv <=> TypeOK /\ FlagGoal
    /\ FlagInv' <=> TypeOK' /\ FlagGoal'
BY DEF FlagInv, FlagGoal, RegistrationInOrder, FlagFollowsEdge, InOrder, Behind,
       Backed, Queued

(* Steps that leave the queue and Edge's word alone and set no flag. *)
LEMMA FlagKeep ==
    ASSUME FlagGoal, UNCHANGED <<idle, edgeReg>>, registered' \subseteq registered
    PROVE  FlagGoal'
BY DEF FlagGoal, InOrder, Behind, Backed, Holds

(* Steps that append a message and leave the flags alone. *)
LEMMA FlagQueue ==
    ASSUME TypeOK, FlagGoal, NEW e \in IdleSource, idle' = Append(idle, e),
           registered' = registered,
           \A d \in Devices : e = Registered(d) => d \in edgeReg',
           \A d \in edgeReg \ edgeReg' : \E del \in BOOLEAN : e = Unregistered(d, del)
    PROVE  FlagGoal'
<1>1. idle \in Seq(IdleSource)
      BY DEF TypeOK, ProcOK
<1>2. InOrder(Append(idle, e), edgeReg') /\ Backed(Append(idle, e), edgeReg', registered)
      BY <1>1, FlagAppend DEF FlagGoal
<1> QED BY <1>2 DEF FlagGoal, InOrder, Behind, Backed, Holds

(* A deleted context loses its flag; a request to quit may follow. *)
LEMMA FlagDel ==
    ASSUME NEW d, NEW cs, NEW q \in Seq(IdleSource), UNCHANGED edgeReg,
           InOrder(q, edgeReg), Backed(q, edgeReg, registered \ {d}),
           pt_edge_del_device(d, cs, q)
    PROVE  FlagGoal'
<1>1. registered' = registered \ {d}
      BY DEF pt_edge_del_device, devices_del_device
<1>2. InOrder(Append(q, QuitLoop), edgeReg)
      /\ Backed(Append(q, QuitLoop), edgeReg, registered \ {d})
      BY FlagAppend, IdleSources, SourcesDiffer
<1>3. CASE idle' = q
      BY <1>1, <1>3 DEF FlagGoal, InOrder, Behind, Backed, Holds
<1>4. CASE idle' = Append(q, QuitLoop)
      BY <1>1, <1>2, <1>4 DEF FlagGoal, InOrder, Behind, Backed, Holds
<1> QED BY <1>3, <1>4 DEF pt_edge_del_device

(* The same from the idle queue itself. *)
LEMMA FlagDelIdle ==
    ASSUME TypeOK, FlagGoal, UNCHANGED edgeReg, NEW d, NEW cs,
           pt_edge_del_device(d, cs, idle)
    PROVE  FlagGoal'
<1>1. idle \in Seq(IdleSource)
      BY DEF TypeOK, ProcOK
<1>2. InOrder(idle, edgeReg) /\ Backed(idle, edgeReg, registered \ {d})
      BY FlagFewer DEF FlagGoal
<1> QED BY <1>1, <1>2, FlagDel

(* A shutdown request only appends requests to quit. *)
LEMMA FlagShutdown ==
    ASSUME NEW q \in Seq(IdleSource), InOrder(q, edgeReg),
           Backed(q, edgeReg, registered), pt_ble_graceful_shutdown(q)
    PROVE  FlagGoal'
<1> DEFINE q1 == Append(q, QuitLoop)
           q2 == Append(q1, QuitLoop)
<1>0. /\ QuitLoop \in IdleSource
      /\ \A d \in Devices : QuitLoop # Registered(d)
      BY IdleSources, SourcesDiffer
<1>1. /\ q1 \in Seq(IdleSource)
      /\ InOrder(q1, edgeReg) /\ Backed(q1, edgeReg, registered)
      BY <1>0, FlagAppend, QueueTyped
<1>2. InOrder(q2, edgeReg) /\ Backed(q2, edgeReg, registered)
      BY <1>0, <1>1, FlagAppend
<1>3. UNCHANGED <<edgeReg, registered>>
      BY DEF pt_ble_graceful_shutdown, edgeVars
<1>4. idle' = q \/ idle' = q1 \/ idle' = q2
      BY DEF pt_ble_graceful_shutdown, unregister_devices, ble_remove_device
<1> HIDE DEF q1, q2
<1> QED BY <1>1, <1>2, <1>3, <1>4 DEF FlagGoal, InOrder, Behind, Backed, Holds

(* Every handler keeps the flags backed by Edge's last word. *)
LEMMA FlagStep == FlagInv /\ [Next]_vars => FlagInv'
<1> SUFFICES ASSUME TypeOK, FlagGoal, [Next]_vars PROVE FlagGoal'
    BY TypeStep, FlagGoals
<1>0. idle \in Seq(IdleSource) /\ registered \in SUBSET Devices
      BY DEF TypeOK, ProcOK, CtxOK
<1>1. ASSUME UNCHANGED <<idle, edgeReg, registered>> PROVE FlagGoal'
      BY <1>1, FlagKeep
<1>2. ASSUME idle # <<>>, \A d \in Devices, del \in BOOLEAN :
                              Head(idle) # Unregistered(d, del)
      PROVE  /\ Tail(idle) \in Seq(IdleSource) /\ InOrder(Tail(idle), edgeReg)
             /\ Backed(Tail(idle), edgeReg, registered)
      BY <1>0, <1>2, FlagTail, QueueTyped DEF FlagGoal
<1>3. CASE ble_start
      BY <1>3, FlagKeep DEF ble_start, ble_new_device, ble_create_device_context,
                            ble_proxy_connect, edgeVars, ctxVars
<1>4. CASE \/ ble_start_fails \/ ble_on_adapter_removed \/ ble_read_everything
           \/ SignalAgain
           \/ disconnected_handler \/ protocol_translator_registration_success
      BY <1>1, <1>4 DEF ble_start_fails, SignalAgain, ble_on_adapter_removed,
         ble_read_everything, disconnected_handler,
         protocol_translator_registration_success, ctxVars, edgeVars
<1>5. CASE Signal
      BY <1>0, <1>5, FlagShutdown DEF Signal, FlagGoal
<1>6. CASE DispatchShutdown
  <2>1. idle # <<>> /\ Head(idle) = GracefulShutdown
        BY <1>6 DEF DispatchShutdown, Dispatch
  <2> QED BY <1>2, <1>6, <2>1, FlagShutdown, SourcesDiffer DEF DispatchShutdown
<1>7. CASE pt_ble_g_main_quit_loop \/ pt_ble_pt_ready
  <2>1. /\ idle # <<>> /\ Head(idle) \in {QuitLoop, PtReady}
        /\ idle' = Tail(idle) /\ UNCHANGED <<registered, edgeReg>>
        BY <1>7 DEF pt_ble_g_main_quit_loop, pt_ble_pt_ready, Dispatch, ctxVars,
                    edgeVars
  <2>2. InOrder(Tail(idle), edgeReg) /\ Backed(Tail(idle), edgeReg, registered)
        BY <1>2, <2>1, SourcesDiffer
  <2> QED BY <2>1, <2>2 DEF FlagGoal, InOrder, Behind, Backed, Holds
<1>8. CASE connection_ready_handler \/ protocol_translator_registration_failure
      BY <1>8, FlagQueue, IdleSources, SourcesDiffer
      DEF connection_ready_handler, protocol_translator_registration_failure,
          ctxVars
<1>9. CASE shutdown_cb_handler
  <2>1. UNCHANGED <<edgeReg, registered>>
        BY <1>9 DEF shutdown_cb_handler, edgeVars, ctxVars
  <2>2. CASE running
        BY <1>9, <2>1, <2>2, FlagQueue, IdleSources, SourcesDiffer
        DEF shutdown_cb_handler
  <2>3. CASE ~running
        BY <1>1, <1>9, <2>1, <2>3 DEF shutdown_cb_handler
  <2> QED BY <2>2, <2>3
<1>10. ASSUME NEW d \in Devices, ble_on_object_added(d) PROVE FlagGoal'
       BY <1>10, FlagKeep DEF ble_on_object_added, ble_new_device,
                              ble_create_device_context, ble_proxy_connect, edgeVars, ctxVars
<1>11. ASSUME NEW d \in Devices,
              ble_on_object_removed(d) \/ ble_remove_device_done(d)
       PROVE  FlagGoal'
  <2>1. UNCHANGED edgeReg
        BY <1>11 DEF ble_on_object_removed, ble_remove_device_done
  <2>2. CASE UNCHANGED <<idle, registered>>
        BY <1>1, <2>1, <2>2
  <2>3. CASE pt_edge_del_device(d, connected, idle)
        BY <2>1, <2>3, FlagDelIdle
  <2> QED BY <1>11, <2>2, <2>3 DEF ble_on_object_removed, ble_remove_device_done,
                                   unregister_or_delete, ctxVars
<1>12. ASSUME NEW d \in Devices, NEW cs, UNCHANGED edgeReg,
              ble_start_reconnection_timer_or_unregister_device(d, cs)
       PROVE  FlagGoal'
  <2>1. CASE UNCHANGED <<idle, registered>>
        BY <1>1, <1>12, <2>1
  <2>2. CASE pt_edge_del_device(d, cs, idle)
        BY <1>12, <2>2, FlagDelIdle
  <2> QED BY <1>12, <2>1, <2>2
          DEF ble_start_reconnection_timer_or_unregister_device
<1>13. ASSUME NEW d \in Devices, ble_on_disconnect(d) \/ ble_connect_done_error(d)
       PROVE  FlagGoal'
  <2>1. UNCHANGED edgeReg
        BY <1>13 DEF ble_on_disconnect, ble_connect_done_error
  <2>2. CASE d \in tracked
        BY <1>12, <1>13, <2>1, <2>2 DEF ble_on_disconnect, ble_connect_done_error
  <2>3. CASE d \notin tracked
        BY <1>1, <1>13, <2>1, <2>3
        DEF ble_on_disconnect, ble_connect_done_error, ctxVars
  <2> QED BY <2>2, <2>3
<1>14. ASSUME NEW d \in Devices, ble_connect_done_no_pt_device(d) PROVE FlagGoal'
       BY <1>14, FlagKeep DEF ble_connect_done_no_pt_device, devices_del_device,
                              edgeVars
<1>15. ASSUME NEW d \in Devices,
              \/ ble_on_connect(d) \/ ble_services_resolved(d)
              \/ ble_connect_done(d) \/ ble_retry_connect(d) \/ TimePasses(d)
              \/ ble_read_characteristic_callback(d)
              \/ device_registration_failure(d)
       PROVE  FlagGoal'
       BY <1>1, <1>15 DEF ble_on_connect, ble_services_resolved, ble_connect_done,
          ble_retry_connect, TimePasses, ble_read_characteristic_callback,
          device_registration_failure, ctxVars, edgeVars
<1>16. ASSUME NEW d \in Devices, device_registered(d) PROVE FlagGoal'
  <2>1. /\ idle # <<>> /\ Head(idle) = Registered(d) /\ idle' = Tail(idle)
        /\ registered' \subseteq registered \cup {d} /\ UNCHANGED edgeReg
        BY <1>16 DEF device_registered, Dispatch, edgeVars
  <2>2. \A x \in registered' :
           \/ Head(idle) = Registered(x)
           \/ x \in registered
              /\ \A del \in BOOLEAN : Head(idle) # Unregistered(x, del)
        BY <2>1, SourcesDiffer
  <2>3. InOrder(Tail(idle), edgeReg) /\ Backed(Tail(idle), edgeReg, registered')
        BY <1>0, <2>1, <2>2, FlagTail DEF FlagGoal
  <2> QED BY <2>1, <2>3 DEF FlagGoal, InOrder, Behind, Backed, Holds
<1>17. ASSUME NEW d \in Devices, device_registration_success(d) PROVE FlagGoal'
  <2>1. /\ edgeReg' = edgeReg \cup {d} /\ idle' = Append(idle, Registered(d))
        /\ registered' = registered
        BY <1>17 DEF device_registration_success, ctxVars
  <2> QED BY <2>1, FlagQueue, IdleSources, SourcesDiffer
<1>18. ASSUME NEW d \in Devices, NEW del \in BOOLEAN, device_unregistered(d, del)
       PROVE  FlagGoal'
  <2>1. idle # <<>> /\ Head(idle) = Unregistered(d, del) /\ UNCHANGED edgeReg
        BY <1>18 DEF device_unregistered, Dispatch, edgeVars
  <2>2. \A x \in registered \ {d}, c \in BOOLEAN : Head(idle) # Unregistered(x, c)
        BY <2>1, UnregisteredDiffer
  <2>3. /\ Tail(idle) \in Seq(IdleSource) /\ InOrder(Tail(idle), edgeReg)
        /\ Backed(Tail(idle), edgeReg, registered \ {d})
        BY <1>0, <2>1, <2>2, FlagTail, QueueTyped DEF FlagGoal
  <2>4. CASE del /\ d \in tracked
        BY <1>18, <2>1, <2>3, <2>4, FlagDel DEF device_unregistered
  <2>5. CASE ~(del /\ d \in tracked)
    <3>1. idle' = Tail(idle) /\ registered' = registered \ {d}
          BY <1>18, <2>5 DEF device_unregistered
    <3> QED BY <2>1, <2>3, <3>1 DEF FlagGoal, InOrder, Behind, Backed, Holds
  <2> QED BY <2>4, <2>5
<1>19. ASSUME NEW d \in Devices, NEW del \in BOOLEAN,
              \/ device_unregistration_success(d, del)
              \/ device_unregistration_failure(d, del)
       PROVE  FlagGoal'
  <2>1. /\ idle' = Append(idle, Unregistered(d, del)) /\ registered' = registered
        /\ edgeReg \ edgeReg' \subseteq {d}
        BY <1>19 DEF device_unregistration_success, device_unregistration_failure,
                     unregistration_answered, ctxVars
  <2>2. \A x \in Devices : Unregistered(d, del) # Registered(x)
        BY SourcesDiffer
  <2> QED BY <2>1, <2>2, FlagQueue, IdleSources
<1>20. CASE UNCHANGED vars
       BY <1>1, <1>20 DEF vars
<1> QED
      BY <1>3, <1>4, <1>5, <1>6, <1>7, <1>8, <1>9, <1>10, <1>11, <1>13, <1>14,
         <1>15, <1>16, <1>17, <1>18, <1>19, <1>20
      DEF Next, ProcessNext, BluezNext, EdgeNext

(* The REGISTERED flag of a context never outlives Edge's last word on the   *)
(* device: registration and unregistration answers may cross, contexts may   *)
(* be deleted and created anew, and messages for an older context may be     *)
(* late, in any order and for any number of devices.                         *)
THEOREM FlagsFollowEdge == Spec => []FlagFollowsEdge
<1>1. Init => FlagInv
      BY TypeInit DEF Init, FlagInv, RegistrationInOrder, FlagFollowsEdge
<1>2. FlagInv /\ [Next]_vars => FlagInv' BY FlagStep
<1>3. FlagInv => FlagFollowsEdge BY DEF FlagInv
<1> QED BY <1>1, <1>2, <1>3, PTL DEF Spec

-----------------------------------------------------------------------------
(* Reconnection.  NotForgotten is inductive together with TimerOwned: a       *)
(* timer that retry_timer_source names is one that will go off.               *)

ForgetInv == TypeOK /\ TimerOwned /\ NotForgotten

(* Something will happen to the context of d. *)
Pursued(d) == connects[d] > 0 \/ d \in timerSrc \/ Removing(d)

(* Nothing that pursues x is taken away. *)
Kept(x) ==
    /\ x \in tracked' => x \in tracked
    /\ x \in timerSrc => x \in timerSrc'
    /\ unregs'[<<x, TRUE>>] = unregs[<<x, TRUE>>]

(* The idle queue only grows. *)
Grows == \A x \in Devices :
            Queued(Unregistered(x, TRUE)) => Queued(Unregistered(x, TRUE))'

(* The invariant from one step to the next, device by device. *)
LEMMA ForgetFrame ==
    ASSUME NotForgotten, running' => running,
           \A x \in (tracked' \cap present') \ link' :
              \/ Pursued(x)'
              \/ x \in (tracked \cap present) \ link /\ (Pursued(x) => Pursued(x)')
    PROVE  NotForgotten'
BY DEF NotForgotten, Pursued

(* What pursues a device goes on. *)
LEMMA KeptPursued ==
    ASSUME NEW x \in Devices, Kept(x), Grows,
           connects[x] > 0 => connects'[x] > 0, Pursued(x)
    PROVE  Pursued(x)'
BY DEF Kept, Grows, Pursued, Removing

(* The queue grows when a message is appended, or when nothing happens. *)
LEMMA GrowsAppend ==
    ASSUME TypeOK, NEW e \in IdleSource, idle' = idle \/ idle' = Append(idle, e)
    PROVE  Grows
<1>1. idle \in Seq(IdleSource)
      BY DEF TypeOK, ProcOK
<1>2. CASE idle' = idle
      BY <1>2 DEF Grows, Queued, Holds
<1>3. CASE idle' = Append(idle, e)
  <2>1. ASSUME NEW x \in Devices, Holds(idle, Unregistered(x, TRUE))
        PROVE  Holds(Append(idle, e), Unregistered(x, TRUE))
        BY <1>1, <2>1, HoldsAppend
  <2> QED BY <1>3, <2>1 DEF Grows, Queued, Holds
<1> QED BY <1>2, <1>3

(* So it does, for the requests to remove a context, when some other source  *)
(* is dispatched.                                                            *)
LEMMA GrowsTail ==
    ASSUME TypeOK, idle # <<>>, idle' = Tail(idle),
           \A x \in Devices : Head(idle) # Unregistered(x, TRUE)
    PROVE  Grows
<1>1. idle \in Seq(IdleSource)
      BY DEF TypeOK, ProcOK
<1>2. ASSUME NEW x \in Devices, Holds(idle, Unregistered(x, TRUE))
      PROVE  Holds(Tail(idle), Unregistered(x, TRUE))
      BY <1>1, <1>2, HoldsTail
<1> QED BY <1>2 DEF Grows, Queued, Holds

(* Asking Edge to unregister d and to remove its context pursues d, and      *)
(* concerns no other device.                                                 *)
LEMMA UnregisterPursues ==
    ASSUME TypeOK, NEW d \in Devices, NEW del \in BOOLEAN,
           edge_unregister_device(d, del)
    PROVE  /\ del => unregs'[<<d, TRUE>>] > 0
           /\ \A x \in Devices \ {d} : unregs'[<<x, TRUE>>] = unregs[<<x, TRUE>>]
<1>1. /\ unregs \in [Devices \X BOOLEAN -> 0..MaxCalls]
      /\ unregs' = [unregs EXCEPT ![<<d, del>>] = @ + 1]
      BY DEF TypeOK, EdgeOK, edge_unregister_device
<1>2. del => unregs'[<<d, TRUE>>] > 0
  <2> SUFFICES ASSUME del PROVE unregs'[<<d, TRUE>>] > 0
      OBVIOUS
  <2>1. del = TRUE /\ <<d, TRUE>> \in Devices \X BOOLEAN
        OBVIOUS
  <2>2. unregs[<<d, TRUE>>] \in 0..MaxCalls
        BY <1>1, <2>1
  <2>3. unregs'[<<d, TRUE>>] = unregs[<<d, TRUE>>] + 1
        BY <1>1, <2>1
  <2> QED BY <2>2, <2>3, BlePtAssumption
<1>3. ASSUME NEW x \in Devices \ {d}
      PROVE  unregs'[<<x, TRUE>>] = unregs[<<x, TRUE>>]
      BY <1>1
<1> QED BY <1>2, <1>3

(* A context that is deleted concerns no other device. *)
LEMMA DelKeeps ==
    ASSUME TypeOK, NEW d \in Devices, NEW cs, UNCHANGED unregs,
           pt_edge_del_device(d, cs, idle)
    PROVE  /\ d \notin tracked' /\ Grows
           /\ \A x \in Devices \ {d} : Kept(x)
<1>1. Grows
      BY GrowsAppend, IdleSources DEF pt_edge_del_device
<1>2. /\ tracked' = tracked \ {d}
      /\ \A x \in Devices \ {d} : x \in timerSrc => x \in timerSrc'
      BY DEF pt_edge_del_device, devices_del_device
<1> QED BY <1>1, <1>2 DEF Kept

(* Removing a context pursues its device until it is gone. *)
LEMMA RemovePursues ==
    ASSUME TypeOK, NEW d \in Devices, unregister_or_delete(d)
    PROVE  /\ d \in tracked' => unregs'[<<d, TRUE>>] > 0
           /\ Grows
           /\ \A x \in Devices \ {d} : Kept(x)
<1>1. CASE edge_unregister_device(d, TRUE) /\ UNCHANGED <<ctxVars, idle>>
  <2>1. Grows
        BY <1>1, GrowsAppend, IdleSources
  <2> QED BY <1>1, <2>1, UnregisterPursues DEF Kept, ctxVars
<1>2. CASE pt_edge_del_device(d, connected, idle) /\ UNCHANGED unregs
      BY <1>2, DelKeeps
<1> QED BY <1>1, <1>2 DEF unregister_or_delete

(* Whatever is decided about a device that is not connected, there is a      *)
(* timer, or its removal is under way, or its context is gone.               *)
LEMMA ReconnectPursues ==
    ASSUME TypeOK, TimerOwned, NEW d \in Devices, NEW cs,
           ble_start_reconnection_timer_or_unregister_device(d, cs)
    PROVE  /\ d \in tracked' => d \in timerSrc' \/ unregs'[<<d, TRUE>>] > 0
           /\ Grows
           /\ \A x \in Devices \ {d} : Kept(x)
<1>1. CASE /\ d \in timerId
           /\ UNCHANGED <<tracked, timerSrc, idle, unregs>>
      BY <1>1, GrowsAppend, IdleSources DEF Kept, TimerOwned
<1>2. CASE /\ edge_unregister_device(d, FALSE) \/ UNCHANGED unregs
           /\ timerSrc' = timerSrc \cup {d}
           /\ UNCHANGED <<tracked, idle>>
  <2>1. Grows
        BY <1>2, GrowsAppend, IdleSources
  <2> QED BY <1>2, <2>1, UnregisterPursues DEF Kept
<1>3. CASE /\ edge_unregister_device(d, TRUE)
           /\ UNCHANGED <<tracked, timerSrc, idle>>
  <2>1. Grows
        BY <1>3, GrowsAppend, IdleSources
  <2> QED BY <1>3, <2>1, UnregisterPursues DEF Kept
<1>4. CASE pt_edge_del_device(d, cs, idle) /\ UNCHANGED unregs
      BY <1>4, DelKeeps
<1> QED
      BY <1>1, <1>2, <1>3, <1>4
      DEF ble_start_reconnection_timer_or_unregister_device, timerVars

(* Visiting a device makes a Connect call, and takes none away. *)
LEMMA NewPursues ==
    ASSUME TypeOK, NEW S \in SUBSET Devices, running, ble_new_device(S)
    PROVE  /\ \A x \in S : connects'[x] > 0
           /\ \A x \in Devices \ S : connects'[x] = connects[x]
           /\ tracked' = tracked \cup S /\ timerSrc' = timerSrc
BY BlePtAssumption DEF TypeOK, BluezOK, ble_new_device, ble_create_device_context,
                       ble_proxy_connect

(* Every handler keeps every unconnected device pursued. *)
LEMMA ForgetStep == ForgetInv /\ [Next]_vars => ForgetInv'
<1> SUFFICES ASSUME TypeOK, TimerOwned, NotForgotten, [Next]_vars
             PROVE  NotForgotten'
    BY TypeStep, TimerStep DEF ForgetInv
<1> DEFINE Lost == (tracked \cap present) \ link
<1>0. /\ tracked' \subseteq Devices /\ idle \in Seq(IdleSource)
      /\ connects \in [Devices -> 0..MaxCalls]
  <2>1. TypeOK'
        BY TypeStep
  <2> QED BY <2>1 DEF TypeOK, ProcOK, CtxOK, BluezOK
<1>1. ASSUME running' => running, Grows,
             UNCHANGED <<tracked, timerSrc, present, link, connects, unregs>>
      PROVE  NotForgotten'
  <2>1. \A x \in Devices : Pursued(x) => Pursued(x)'
        BY <1>1, KeptPursued DEF Kept
  <2> QED BY <1>0, <1>1, <2>1, ForgetFrame
<1>2. ASSUME ~running' PROVE NotForgotten'
      BY <1>2 DEF NotForgotten
<1>3. CASE ble_start
  <2>1. CASE ~running
        BY <1>2, <1>3, <2>1 DEF ble_start
  <2>2. CASE running
    <3>1. PICK P \in SUBSET Devices : present' = P /\ ble_new_device(P)
          BY <1>3 DEF ble_start
    <3>2. \A x \in present' : Pursued(x)'
          BY <2>2, <3>1, NewPursues DEF Pursued
    <3> QED BY <2>2, <3>2, ForgetFrame
  <2> QED BY <2>1, <2>2
<1>4. CASE \/ ble_start_fails \/ ble_on_adapter_removed \/ ble_read_everything
           \/ SignalAgain
           \/ disconnected_handler \/ protocol_translator_registration_success
  <2>1. UNCHANGED <<running, idle, tracked, timerSrc, present, link, connects, unregs>>
        BY <1>4 DEF ble_start_fails, SignalAgain, ble_on_adapter_removed,
           ble_read_everything, disconnected_handler, protocol_translator_registration_success,
           procVars, ctxVars, bluezVars, callVars, edgeVars
  <2> QED BY <1>1, <2>1, GrowsAppend, IdleSources
<1>5. CASE \/ Signal \/ DispatchShutdown
           \/ protocol_translator_registration_failure \/ shutdown_cb_handler
      BY <1>2, <1>5 DEF Signal, DispatchShutdown, pt_ble_graceful_shutdown,
         protocol_translator_registration_failure, shutdown_cb_handler
<1>6. CASE pt_ble_g_main_quit_loop \/ pt_ble_pt_ready
  <2>1. UNCHANGED <<running, tracked, timerSrc, present, link, connects, unregs>>
        BY <1>6 DEF pt_ble_g_main_quit_loop, pt_ble_pt_ready, procVars, ctxVars,
                    timerVars, bluezVars, callVars, edgeVars
  <2>2. idle # <<>> /\ idle' = Tail(idle) /\ Head(idle) \in {QuitLoop, PtReady}
        BY <1>6 DEF pt_ble_g_main_quit_loop, pt_ble_pt_ready, Dispatch
  <2>3. Grows
        BY <2>2, GrowsTail, SourcesDiffer
  <2> QED BY <1>1, <2>1, <2>3
<1>7. CASE connection_ready_handler
  <2>1. UNCHANGED <<running, tracked, timerSrc, present, link, connects, unregs>>
        BY <1>7 DEF connection_ready_handler, procVars, ctxVars, bluezVars, callVars
  <2>2. Grows
        BY <1>7, GrowsAppend, IdleSources DEF connection_ready_handler
  <2> QED BY <1>1, <2>1, <2>2
<1>8. ASSUME NEW d \in Devices, ble_on_object_added(d) PROVE NotForgotten'
  <2>1. CASE ~running
        BY <1>2, <1>8, <2>1 DEF ble_on_object_added, procVars
  <2>2. CASE running
    <3>1. /\ ble_new_device({d}) /\ present' = present \cup {d}
          /\ UNCHANGED <<idle, link, unregs>>
          BY <1>8 DEF ble_on_object_added, edgeVars
    <3>2. /\ connects'[d] > 0 /\ tracked' = tracked \cup {d}
          /\ timerSrc' = timerSrc
          /\ \A x \in Devices \ {d} : connects'[x] = connects[x]
          BY <2>2, <3>1, NewPursues
    <3>3. Grows
          BY <3>1, GrowsAppend, IdleSources
    <3>4. ASSUME NEW x \in Devices \ {d}, Pursued(x) PROVE Pursued(x)'
          BY <3>1, <3>2, <3>3, <3>4, KeptPursued DEF Kept
    <3>5. Pursued(d)'
          BY <3>2 DEF Pursued
    <3> QED BY <1>0, <2>2, <3>1, <3>2, <3>4, <3>5, ForgetFrame
  <2> QED BY <2>1, <2>2
<1>9. ASSUME NEW d \in Devices,
             ble_on_object_removed(d) \/ ble_remove_device_done(d)
      PROVE  NotForgotten'
  <2>1. /\ UNCHANGED <<running, connects>> /\ present' \subseteq present
        /\ (present' \cap link) \ {d} \subseteq link'
        BY <1>9 DEF ble_on_object_removed, ble_remove_device_done, procVars,
                    bluezVars
  <2>2. CASE d \notin tracked
    <3>1. UNCHANGED <<tracked, timerSrc, idle, unregs>>
          BY <1>9, <2>2 DEF ble_on_object_removed, ble_remove_device_done, ctxVars
    <3>2. Grows
          BY <3>1, GrowsAppend, IdleSources
    <3>3. \A x \in Devices : Pursued(x) => Pursued(x)'
          BY <2>1, <3>1, <3>2, KeptPursued DEF Kept
    <3> QED BY <1>0, <2>1, <2>2, <3>1, <3>3, ForgetFrame
  <2>3. CASE d \in tracked
    <3>1. /\ d \in tracked' => unregs'[<<d, TRUE>>] > 0
          /\ Grows
          /\ \A x \in Devices \ {d} : Kept(x)
          BY <1>9, <2>3, RemovePursues
          DEF ble_on_object_removed, ble_remove_device_done
    <3>2. d \in tracked' => Pursued(d)'
          BY <3>1 DEF Pursued, Removing
    <3>3. ASSUME NEW x \in Devices \ {d}, Pursued(x) PROVE Pursued(x)'
          BY <2>1, <3>1, <3>3, KeptPursued
    <3> QED BY <1>0, <2>1, <3>1, <3>2, <3>3, ForgetFrame DEF Kept
  <2> QED BY <2>2, <2>3
<1>10. ASSUME NEW d \in Devices, ble_on_disconnect(d) \/ ble_connect_done_error(d)
       PROVE  NotForgotten'
  <2>1. /\ UNCHANGED <<running, present>> /\ link \ {d} \subseteq link'
        /\ \A x \in Devices \ {d} : connects'[x] = connects[x]
        BY <1>0, <1>10 DEF ble_on_disconnect, ble_connect_done_error, Answered,
                           procVars, bluezVars
  <2>2. CASE d \notin tracked
    <3>1. UNCHANGED <<tracked, timerSrc, idle, unregs>>
          BY <1>10, <2>2 DEF ble_on_disconnect, ble_connect_done_error, ctxVars
    <3>2. Grows
          BY <3>1, GrowsAppend, IdleSources
    <3>3. ASSUME NEW x \in Devices \ {d}, Pursued(x) PROVE Pursued(x)'
          BY <2>1, <3>1, <3>2, <3>3, KeptPursued DEF Kept
    <3> QED BY <1>0, <2>1, <2>2, <3>1, <3>3, ForgetFrame
  <2>3. CASE d \in tracked
    <3>1. /\ d \in tracked' => d \in timerSrc' \/ unregs'[<<d, TRUE>>] > 0
          /\ Grows
          /\ \A x \in Devices \ {d} : Kept(x)
          BY <1>10, <2>3, ReconnectPursues
          DEF ble_on_disconnect, ble_connect_done_error
    <3>2. d \in tracked' => Pursued(d)'
          BY <3>1 DEF Pursued, Removing
    <3>3. ASSUME NEW x \in Devices \ {d}, Pursued(x) PROVE Pursued(x)'
          BY <2>1, <3>1, <3>3, KeptPursued
    <3> QED BY <1>0, <2>1, <3>1, <3>2, <3>3, ForgetFrame DEF Kept
  <2> QED BY <2>2, <2>3
<1>11. ASSUME NEW d \in Devices,
              ble_connect_done(d) \/ ble_connect_done_no_pt_device(d)
       PROVE  NotForgotten'
  <2>1. /\ UNCHANGED <<running, present, link, idle, unregs>> /\ d \in link
        /\ tracked' \subseteq tracked /\ timerSrc \ {d} \subseteq timerSrc'
        /\ \A x \in Devices \ {d} : connects'[x] = connects[x]
        BY <1>0, <1>11 DEF ble_connect_done, ble_connect_done_no_pt_device,
           devices_del_device, Answered, procVars, bluezVars, timerVars, edgeVars
  <2>2. Grows
        BY <2>1, GrowsAppend, IdleSources
  <2>3. ASSUME NEW x \in Devices \ {d}, Pursued(x) PROVE Pursued(x)'
        BY <2>1, <2>2, <2>3, KeptPursued DEF Kept
  <2> QED BY <1>0, <2>1, <2>3, ForgetFrame
<1>12. ASSUME NEW d \in Devices, ble_retry_connect(d) PROVE NotForgotten'
  <2>1. /\ UNCHANGED <<running, present, link, idle, unregs, tracked>>
        /\ timerSrc' = timerSrc \ {d}
        /\ connects' = [connects EXCEPT ![d] = @ + 1]
        BY <1>12 DEF ble_retry_connect, procVars, bluezVars, edgeVars
  <2>2. Grows
        BY <2>1, GrowsAppend, IdleSources
  <2>3. ASSUME NEW x \in Devices \ {d}, Pursued(x) PROVE Pursued(x)'
        BY <1>0, <2>1, <2>2, <2>3, KeptPursued DEF Kept
  <2>4. Pursued(d)'
        BY <1>0, <2>1, BlePtAssumption DEF Pursued
  <2> QED BY <1>0, <2>1, <2>3, <2>4, ForgetFrame
<1>13. ASSUME NEW d \in Devices,
              \/ ble_services_resolved(d) \/ TimePasses(d)
              \/ ble_read_characteristic_callback(d)
              \/ device_registration_failure(d)
       PROVE  NotForgotten'
  <2>1. UNCHANGED <<running, idle, tracked, timerSrc, present, link, connects, unregs>>
        BY <1>13 DEF ble_services_resolved, TimePasses,
           ble_read_characteristic_callback, device_registration_failure,
           procVars, ctxVars, timerVars, bluezVars, callVars, edgeVars
  <2> QED BY <1>1, <2>1, GrowsAppend, IdleSources
<1>14. ASSUME NEW d \in Devices, ble_on_connect(d) PROVE NotForgotten'
  <2>1. /\ UNCHANGED <<running, idle, tracked, timerSrc, present, connects, unregs>>
        /\ link \subseteq link'
        BY <1>14 DEF ble_on_connect, procVars, timerVars, callVars, edgeVars
  <2>2. Grows
        BY <2>1, GrowsAppend, IdleSources
  <2>3. \A x \in Devices : Pursued(x) => Pursued(x)'
        BY <2>1, <2>2, KeptPursued DEF Kept
  <2> QED BY <1>0, <2>1, <2>3, ForgetFrame
<1>15. ASSUME NEW d \in Devices, device_registered(d) PROVE NotForgotten'
  <2>1. UNCHANGED <<running, tracked, timerSrc, present, link, connects, unregs>>
        BY <1>15 DEF device_registered, procVars, timerVars, bluezVars, callVars,
                     edgeVars
  <2>2. idle # <<>> /\ idle' = Tail(idle) /\ Head(idle) = Registered(d)
        BY <1>15 DEF device_registered, Dispatch
  <2>3. Grows
        BY <2>2, GrowsTail, SourcesDiffer
  <2> QED BY <1>1, <2>1, <2>3
<1>16. ASSUME NEW d \in Devices, device_registration_success(d)
       PROVE  NotForgotten'
  <2>1. UNCHANGED <<running, tracked, timerSrc, present, link, connects, unregs>>
        BY <1>16 DEF device_registration_success, procVars, ctxVars, bluezVars,
                     callVars
  <2>2. Grows
        BY <1>16, GrowsAppend, IdleSources DEF device_registration_success
  <2> QED BY <1>1, <2>1, <2>2
<1>17. ASSUME NEW d \in Devices, NEW del \in BOOLEAN, device_unregistered(d, del)
       PROVE  NotForgotten'
  <2>1. /\ UNCHANGED <<running, present, link, connects, unregs>>
        /\ idle # <<>> /\ Head(idle) = Unregistered(d, del)
        BY <1>17 DEF device_unregistered, Dispatch, procVars, bluezVars, callVars,
                     edgeVars
  <2>2. CASE del /\ d \in tracked
    <3>1. /\ tracked' = tracked \ {d} /\ timerSrc \ {d} \subseteq timerSrc'
          /\ idle' = Tail(idle) \/ idle' = Append(Tail(idle), QuitLoop)
          BY <1>17, <2>2 DEF device_unregistered, pt_edge_del_device,
                             devices_del_device
    <3>2. ASSUME NEW x \in Devices \ {d}, Holds(idle, Unregistered(x, TRUE))
          PROVE  Queued(Unregistered(x, TRUE))'
      <4>1. Tail(idle) \in Seq(IdleSource) /\ QuitLoop \in IdleSource
            BY <1>0, <2>1, QueueTyped, IdleSources
      <4>a. Unregistered(x, TRUE) # Unregistered(d, del)
            BY UnregisteredDiffer
      <4>2. Holds(Tail(idle), Unregistered(x, TRUE))
            BY <1>0, <2>1, <3>2, <4>a, HoldsTail
      <4>3. Holds(Append(Tail(idle), QuitLoop), Unregistered(x, TRUE))
            BY <4>1, <4>2, HoldsAppend
      <4> QED BY <3>1, <4>2, <4>3 DEF Queued, Holds
    <3>3. ASSUME NEW x \in Devices \ {d}, Pursued(x) PROVE Pursued(x)'
          BY <2>1, <3>1, <3>2, <3>3 DEF Pursued, Removing, Queued
    <3> QED BY <1>0, <2>1, <3>1, <3>3, ForgetFrame
  <2>3. CASE ~(del /\ d \in tracked)
    <3>1. idle' = Tail(idle) /\ UNCHANGED <<tracked, timerSrc>>
          BY <1>17, <2>3 DEF device_unregistered, timerVars
    <3>2. ASSUME NEW x \in tracked \cap Devices, Holds(idle, Unregistered(x, TRUE))
          PROVE  Queued(Unregistered(x, TRUE))'
      <4>1. Unregistered(x, TRUE) # Unregistered(d, del)
            BY <2>3, UnregisteredDiffer
      <4>2. Holds(Tail(idle), Unregistered(x, TRUE))
            BY <1>0, <2>1, <3>2, <4>1, HoldsTail
      <4> QED BY <3>1, <4>2 DEF Queued, Holds
    <3>3. ASSUME NEW x \in tracked \cap Devices, Pursued(x) PROVE Pursued(x)'
          BY <2>1, <3>1, <3>2, <3>3 DEF Pursued, Removing, Queued
    <3> QED BY <1>0, <2>1, <3>1, <3>3, ForgetFrame
  <2> QED BY <2>2, <2>3
<1>18. ASSUME NEW d \in Devices, NEW del \in BOOLEAN,
              \/ device_unregistration_success(d, del)
              \/ device_unregistration_failure(d, del)
       PROVE  NotForgotten'
  <2>1. /\ UNCHANGED <<running, tracked, timerSrc, present, link, connects>>
        /\ unregs' = [unregs EXCEPT ![<<d, del>>] = @ - 1]
        /\ idle' = Append(idle, Unregistered(d, del))
        BY <1>18 DEF device_unregistration_success, device_unregistration_failure,
           unregistration_answered, procVars, ctxVars, bluezVars, callVars
  <2>2. Grows
        BY <2>1, GrowsAppend, IdleSources
  <2>3. unregs \in [Devices \X BOOLEAN -> 0..MaxCalls]
        BY DEF TypeOK, EdgeOK
  <2>4. ASSUME NEW x \in Devices, Pursued(x) PROVE Pursued(x)'
    <3>1. CASE x # d \/ ~del
      <4>1. <<x, TRUE>> # <<d, del>>
            BY <3>1
      <4>2. unregs'[<<x, TRUE>>] = unregs[<<x, TRUE>>]
            BY <2>1, <2>3, <4>1
      <4> QED BY <2>1, <2>2, <2>4, <4>2, KeptPursued DEF Kept
    <3>2. CASE x = d /\ del
      <4>1. Holds(Append(idle, Unregistered(x, TRUE)), Unregistered(x, TRUE))
            BY <1>0, HoldsAppend, IdleSources
      <4>2. Queued(Unregistered(x, TRUE))'
            BY <2>1, <3>2, <4>1 DEF Queued, Holds
      <4> QED BY <4>2 DEF Pursued, Removing
    <3> QED BY <3>1, <3>2
  <2> QED BY <1>0, <2>1, <2>4, ForgetFrame
<1>19. CASE UNCHANGED vars
  <2>1. Grows
        BY <1>19, GrowsAppend, IdleSources DEF vars
  <2> QED BY <1>1, <1>19, <2>1 DEF vars
<1> QED
      BY <1>3, <1>4, <1>5, <1>6, <1>7, <1>8, <1>9, <1>10, <1>11, <1>12, <1>13,
         <1>14, <1>15, <1>16, <1>17, <1>18, <1>19
      DEF Next, ProcessNext, BluezNext, EdgeNext

(* While the translator runs, a device that BlueZ knows and that is not      *)
(* connected always has a Connect call or a retry timer outstanding, or its  *)
(* removal is under way: for any number of devices and any order of events.  *)
THEOREM NeverForgotten == Spec => []NotForgotten
<1>1. Init => ForgetInv
      BY TypeInit DEF Init, ForgetInv, TimerOwned, NotForgotten
<1>2. ForgetInv /\ [Next]_vars => ForgetInv' BY ForgetStep
<1>3. ForgetInv => NotForgotten BY DEF ForgetInv
<1> QED BY <1>1, <1>2, <1>3, PTL DEF Spec

-----------------------------------------------------------------------------
(* The shutdown.  ShutdownEnds is a liveness property; what keeps it going    *)
(* is an invariant: at no point does the loop wait for nothing.               *)

(* A shutdown that has been asked for has a next step.  Until                 *)
(* pt_ble_graceful_shutdown has run it waits in the idle queue.  From then on *)
(* every context left is one whose RemoveDevice call or unregistration is     *)
(* still to be answered, and when none is left the request to quit is queued, *)
(* unless pt_device_create may fail: ble_connect_done then frees the context  *)
(* without the test for the last one.                                         *)
ShutdownPursued ==
    ~running /\ loop \in {"start", "run"} =>
        /\ ~unregistering => Queued(GracefulShutdown)
        /\ unregistering /\ tracked = {} => Queued(QuitLoop) \/ CreateMayFail
        /\ unregistering => \A d \in tracked : d \in removes \/ Removing(d)

PursuitInv == TypeOK /\ (unregistering => ~running) /\ ShutdownPursued

(* The source e stays in the idle queue. *)
Stays(e) == Queued(e) => Queued(e)'

LEMMA AppendStays ==
    ASSUME TypeOK, NEW m \in IdleSource, idle' = idle \/ idle' = Append(idle, m)
    PROVE  /\ \A e : Stays(e)
           /\ idle' = Append(idle, m) => Queued(m)'
<1>1. idle \in Seq(IdleSource)
      BY DEF TypeOK, ProcOK
<1>2. CASE idle' = idle
  <2>1. idle' = Append(idle, m) => FALSE
        BY <1>1, <1>2
  <2> QED BY <1>2, <2>1 DEF Stays, Queued, Holds
<1>3. CASE idle' = Append(idle, m)
  <2>1. \A e : Holds(Append(idle, m), e) <=> Holds(idle, e) \/ e = m
        BY <1>1, HoldsAppend
  <2> QED BY <1>3, <2>1 DEF Stays, Queued, Holds
<1> QED BY <1>2, <1>3

(* All but the head stay when it is dispatched. *)
LEMMA TailStays ==
    ASSUME TypeOK, idle # <<>>,
           idle' = Tail(idle) \/ idle' = Append(Tail(idle), QuitLoop)
    PROVE  /\ \A e : e # Head(idle) => Stays(e)
           /\ idle' = Append(Tail(idle), QuitLoop) => Queued(QuitLoop)'
<1>1. idle \in Seq(IdleSource) /\ Tail(idle) \in Seq(IdleSource)
      BY QueueTyped DEF TypeOK, ProcOK
<1>2. \A e : Holds(idle, e) => Holds(Tail(idle), e) \/ e = Head(idle)
      BY <1>1, HoldsTail
<1>3. \A e : Holds(Append(Tail(idle), QuitLoop), e)
                <=> Holds(Tail(idle), e) \/ e = QuitLoop
      BY <1>1, HoldsAppend, IdleSources
<1> QED BY <1>2, <1>3 DEF Stays, Queued, Holds

(* The invariant from one step to the next of a shutdown that goes on. *)
LEMMA PursuitFrame ==
    ASSUME ShutdownPursued, UNCHANGED <<running, unregistering>>,
           loop' \in {"start", "run"} => loop \in {"start", "run"},
           Stays(GracefulShutdown), Stays(QuitLoop), tracked' \subseteq tracked,
           unregistering /\ tracked' = {} =>
               tracked = {} \/ Queued(QuitLoop)' \/ CreateMayFail,
           \A x \in tracked' : x \in removes \/ Removing(x) =>
                                   x \in removes' \/ Removing(x)'
    PROVE  ShutdownPursued'
<1> SUFFICES ASSUME ~running, loop \in {"start", "run"}, loop' \in {"start", "run"}
             PROVE  /\ ~unregistering => Queued(GracefulShutdown)'
                    /\ unregistering /\ tracked' = {} =>
                           Queued(QuitLoop)' \/ CreateMayFail
                    /\ unregistering => \A d \in tracked' :
                                            d \in removes' \/ Removing(d)'
    BY DEF ShutdownPursued
<1> QED BY DEF ShutdownPursued, Stays

(* What is under way for a device of which nothing changes stays under way. *)
LEMMA RemovalStays ==
    ASSUME NEW x, UNCHANGED removes, Stays(Unregistered(x, TRUE)),
           unregs'[<<x, TRUE>>] = unregs[<<x, TRUE>>],
           x \in removes \/ Removing(x)
    PROVE  x \in removes' \/ Removing(x)'
BY DEF Stays, Removing

(* A context that is deleted through pt_edge_del_device is the last one only *)
(* when a request to quit follows it.                                        *)
LEMMA DelPursues ==
    ASSUME TypeOK, NEW d \in Devices, NEW cs, UNCHANGED unregs,
           pt_edge_del_device(d, cs, idle)
    PROVE  /\ \A e : Stays(e)
           /\ tracked' = tracked \ {d}
           /\ unregistering /\ tracked' = {} => Queued(QuitLoop)'
           /\ \A x : unregs'[<<x, TRUE>>] = unregs[<<x, TRUE>>]
BY AppendStays, IdleSources DEF pt_edge_del_device, devices_del_device

(* Every way to get rid of the context of d, or to leave it, in one. *)
GivesUp(d) ==
    /\ \A e : Stays(e)
    /\ tracked' \subseteq tracked
    /\ d \in tracked' /\ d \in tracked => unregs'[<<d, TRUE>>] >= unregs[<<d, TRUE>>]
    /\ unregistering /\ tracked' = {} => tracked = {} \/ Queued(QuitLoop)'
    /\ \A x \in Devices \ {d} : unregs'[<<x, TRUE>>] = unregs[<<x, TRUE>>]

LEMMA CountNat ==
    ASSUME TypeOK, NEW d \in Devices, NEW del \in BOOLEAN
    PROVE  unregs[<<d, del>>] \in Nat
<1>1. unregs \in [Devices \X BOOLEAN -> 0..MaxCalls]
      BY DEF TypeOK, EdgeOK
<1>2. <<d, del>> \in Devices \X BOOLEAN
      OBVIOUS
<1>3. unregs[<<d, del>>] \in 0..MaxCalls
      BY <1>1, <1>2
<1> QED BY <1>3, BlePtAssumption

LEMMA UnregisterMore ==
    ASSUME TypeOK, NEW d \in Devices, NEW del \in BOOLEAN,
           edge_unregister_device(d, del)
    PROVE  unregs'[<<d, TRUE>>] >= unregs[<<d, TRUE>>]
<1>1. /\ unregs \in [Devices \X BOOLEAN -> 0..MaxCalls]
      /\ unregs' = [unregs EXCEPT ![<<d, del>>] = @ + 1]
      BY DEF TypeOK, EdgeOK, edge_unregister_device
<1>2. <<d, TRUE>> \in Devices \X BOOLEAN /\ unregs[<<d, TRUE>>] \in Nat
      BY CountNat
<1>3. unregs'[<<d, TRUE>>] \in {unregs[<<d, TRUE>>], unregs[<<d, TRUE>>] + 1}
      BY <1>1, <1>2
<1> QED BY <1>2, <1>3

LEMMA ReconnectGivesUp ==
    ASSUME TypeOK, NEW d \in Devices, NEW cs,
           ble_start_reconnection_timer_or_unregister_device(d, cs)
    PROVE  GivesUp(d)
<1>0. unregs[<<d, TRUE>>] \in Nat
      BY CountNat
<1>1. CASE UNCHANGED <<tracked, idle, unregs>>
      BY <1>0, <1>1, AppendStays, IdleSources DEF GivesUp
<1>2. ASSUME NEW del \in BOOLEAN, edge_unregister_device(d, del),
             UNCHANGED <<tracked, idle>>
      PROVE  GivesUp(d)
  <2>1. \A e : Stays(e)
        BY <1>2, AppendStays, IdleSources
  <2>2. unregs'[<<d, TRUE>>] >= unregs[<<d, TRUE>>]
        BY <1>2, UnregisterMore
  <2>3. \A x \in Devices \ {d} : unregs'[<<x, TRUE>>] = unregs[<<x, TRUE>>]
        BY <1>2, UnregisterPursues
  <2> QED BY <1>2, <2>1, <2>2, <2>3 DEF GivesUp
<1>3. CASE pt_edge_del_device(d, cs, idle) /\ UNCHANGED unregs
      BY <1>0, <1>3, DelPursues DEF GivesUp
<1> QED BY <1>1, <1>2, <1>3
        DEF ble_start_reconnection_timer_or_unregister_device

LEMMA RemoveGivesUp ==
    ASSUME TypeOK, NEW d \in Devices, unregister_or_delete(d)
    PROVE  /\ GivesUp(d)
           /\ d \in tracked' => unregs'[<<d, TRUE>>] > 0
<1>0. unregs[<<d, TRUE>>] \in Nat
      BY CountNat
<1>1. CASE edge_unregister_device(d, TRUE) /\ UNCHANGED <<ctxVars, idle>>
  <2>1. \A e : Stays(e)
        BY <1>1, AppendStays, IdleSources
  <2>2. unregs'[<<d, TRUE>>] >= unregs[<<d, TRUE>>]
        BY <1>1, UnregisterMore
  <2>3. /\ unregs'[<<d, TRUE>>] > 0
        /\ \A x \in Devices \ {d} : unregs'[<<x, TRUE>>] = unregs[<<x, TRUE>>]
        BY <1>1, UnregisterPursues
  <2> QED BY <1>1, <2>1, <2>2, <2>3 DEF GivesUp, ctxVars
<1>2. CASE pt_edge_del_device(d, connected, idle) /\ UNCHANGED unregs
      BY <1>0, <1>2, DelPursues DEF GivesUp
<1> QED BY <1>1, <1>2 DEF unregister_or_delete

(* A step that may give up the context of d and leaves the others alone. *)
LEMMA GivesUpFrame ==
    ASSUME TypeOK, TypeOK', ShutdownPursued, NEW d \in Devices, GivesUp(d),
           UNCHANGED <<running, unregistering>>,
           loop' \in {"start", "run"} => loop \in {"start", "run"},
           removes \ {d} \subseteq removes',
           d \in tracked' /\ d \in removes => d \in removes' \/ Removing(d)'
    PROVE  ShutdownPursued'
<1>1. tracked' \subseteq tracked /\ tracked \subseteq Devices
      BY DEF GivesUp, TypeOK, CtxOK
<1>2. ASSUME NEW x \in tracked', x # d, x \in removes \/ Removing(x)
      PROVE  x \in removes' \/ Removing(x)'
      BY <1>1, <1>2 DEF GivesUp, Stays, Removing
<1>3. ASSUME d \in tracked', Removing(d) PROVE Removing(d)'
  <2>1. unregs'[<<d, TRUE>>] >= unregs[<<d, TRUE>>] /\ Stays(Unregistered(d, TRUE))
        BY <1>1, <1>3 DEF GivesUp
  <2>2. CASE Queued(Unregistered(d, TRUE))
        BY <2>1, <2>2 DEF Stays, Removing
  <2>3. CASE unregs[<<d, TRUE>>] > 0
    <3>1. unregs[<<d, TRUE>>] \in Nat
          BY CountNat
    <3>2. unregs'[<<d, TRUE>>] \in Nat
      <4>1. /\ unregs' \in [Devices \X BOOLEAN -> 0..MaxCalls]
            /\ <<d, TRUE>> \in Devices \X BOOLEAN
            BY DEF TypeOK, EdgeOK
      <4>2. unregs'[<<d, TRUE>>] \in 0..MaxCalls
            BY <4>1
      <4> QED BY <4>2, BlePtAssumption
    <3>3. unregs'[<<d, TRUE>>] > 0
          BY <2>1, <2>3, <3>1, <3>2
    <3> QED BY <3>3 DEF Removing
  <2> QED BY <1>3, <2>2, <2>3 DEF Removing
<1>4. \A x \in tracked' : x \in removes \/ Removing(x) => x \in removes' \/ Removing(x)'
      BY <1>2, <1>3
<1>5. /\ Stays(GracefulShutdown) /\ Stays(QuitLoop)
      /\ unregistering /\ tracked' = {} => tracked = {} \/ Queued(QuitLoop)'
      BY DEF GivesUp
<1> QED BY <1>1, <1>4, <1>5, PursuitFrame

(* The shutdown itself: the devices on the list are to be removed, or, when  *)
(* there is none, the loop is asked to quit.                                 *)
LEMMA ShutdownPursues ==
    ASSUME TypeOK, unregistering => ~running, ShutdownPursued,
           loop \in {"start", "run"}, NEW q \in Seq(IdleSource),
           \A e : e # GracefulShutdown => (Queued(e) => Holds(q, e)),
           pt_ble_graceful_shutdown(q)
    PROVE  ShutdownPursued'
<1> DEFINE p == IF running THEN q ELSE Append(q, QuitLoop)
<1>1. /\ unregistering' = TRUE /\ UNCHANGED <<loop, tracked, unregs>>
      /\ unregister_devices(p)
      BY DEF pt_ble_graceful_shutdown, unregister_devices, edgeVars
<1>2. p \in Seq(IdleSource) /\ \A e : Holds(q, e) => Holds(p, e)
      BY HoldsAppend, IdleSources, QueueTyped
<1>3. ~running => Holds(p, QuitLoop)
      BY HoldsAppend, IdleSources
<1> HIDE DEF p
<1>4. CASE unregistering
  <2>1. idle' = p /\ UNCHANGED removes
        BY <1>1, <1>4 DEF unregister_devices
  <2>2. Queued(QuitLoop)'
        BY <1>3, <1>4, <2>1 DEF Queued, Holds
  <2>3. \A d \in tracked : d \in removes \/ Removing(d)
        BY <1>4 DEF ShutdownPursued
  <2>4. \A d \in Devices : Queued(Unregistered(d, TRUE)) => Queued(Unregistered(d, TRUE))'
        BY <1>2, <2>1, SourcesDiffer DEF Queued, Holds
  <2>5. \A d \in tracked : d \in removes' \/ Removing(d)'
        BY <1>1, <2>1, <2>3, <2>4 DEF Removing, TypeOK, CtxOK
  <2> QED BY <1>1, <2>2, <2>5 DEF ShutdownPursued
<1>5. CASE ~unregistering
  <2>1. /\ idle' = IF tracked = {} THEN Append(p, QuitLoop) ELSE p
        /\ tracked \subseteq removes'
        BY <1>1, <1>5 DEF unregister_devices, ble_remove_device
  <2>2. tracked = {} => Queued(QuitLoop)'
    <3>1. Holds(Append(p, QuitLoop), QuitLoop)
          BY <1>2, HoldsAppend, IdleSources
    <3> QED BY <2>1, <3>1 DEF Queued, Holds
  <2> QED BY <1>1, <2>1, <2>2 DEF ShutdownPursued
<1> QED BY <1>4, <1>5

(* No handler, answer or callback leaves a shutdown with nothing to wait for. *)
LEMMA PursuitStep == PursuitInv /\ [Next]_vars => PursuitInv'
<1> SUFFICES ASSUME TypeOK, unregistering => ~running, ShutdownPursued, [Next]_vars
             PROVE  (unregistering => ~running)' /\ ShutdownPursued'
    BY TypeStep DEF PursuitInv
<1>0. /\ TypeOK' /\ tracked \subseteq Devices /\ tracked' \subseteq Devices
      /\ idle \in Seq(IdleSource)
  <2>1. TypeOK'
        BY TypeStep
  <2> QED BY <2>1 DEF TypeOK, ProcOK, CtxOK
<1>1. ASSUME UNCHANGED <<running, unregistering, tracked, removes, unregs>>,
             loop' \in {"start", "run"} => loop \in {"start", "run"},
             \A e : e = GracefulShutdown \/ e = QuitLoop
                    \/ (\E x \in Devices : e = Unregistered(x, TRUE)) => Stays(e)
      PROVE  (unregistering => ~running)' /\ ShutdownPursued'
  <2>1. \A x \in tracked' : x \in removes \/ Removing(x) => x \in removes' \/ Removing(x)'
        BY <1>0, <1>1, RemovalStays
  <2>2. tracked' \subseteq tracked /\ (tracked' = {} => tracked = {})
        BY <1>1
  <2>3. Stays(GracefulShutdown) /\ Stays(QuitLoop)
        BY <1>1
  <2> QED BY <1>1, <2>1, <2>2, <2>3, PursuitFrame
<1>2. ASSUME running, UNCHANGED <<running, unregistering>>
      PROVE  (unregistering => ~running)' /\ ShutdownPursued'
      BY <1>2 DEF ShutdownPursued
<1>3. CASE ble_start
  <2>1. CASE running
        BY <1>2, <1>3, <2>1 DEF ble_start
  <2>2. CASE ~running
    <3>1. /\ UNCHANGED <<running, unregistering, tracked, removes, unregs, idle>>
          /\ loop = "start"
          BY <1>3, <2>2 DEF ble_start, ble_new_device, ctxVars, edgeVars
    <3> QED BY <1>1, <3>1, AppendStays, IdleSources
  <2> QED BY <2>1, <2>2
<1>4. CASE \/ ble_start_fails \/ ble_on_adapter_removed \/ ble_read_everything
           \/ SignalAgain
           \/ disconnected_handler \/ protocol_translator_registration_success
  <2>1. /\ UNCHANGED <<running, unregistering, tracked, removes, unregs, idle>>
        /\ loop' \in {"start", "run"} => loop \in {"start", "run"}
        BY <1>4 DEF ble_start_fails, SignalAgain, ble_on_adapter_removed,
           ble_read_everything, disconnected_handler, protocol_translator_registration_success, LoopRuns,
           procVars, ctxVars, bluezVars, callVars, edgeVars
  <2> QED BY <1>1, <2>1, AppendStays, IdleSources
<1>5. CASE Signal \/ DispatchShutdown
  <2>1. /\ loop = "run" /\ running' = FALSE /\ unregistering' = TRUE
        /\ \E q \in {idle, Tail(idle)} :
              /\ pt_ble_graceful_shutdown(q)
              /\ q = idle \/ (q = Tail(idle) /\ idle # <<>>
                              /\ Head(idle) = GracefulShutdown)
        BY <1>5 DEF Signal, DispatchShutdown, Dispatch, LoopRuns,
                    pt_ble_graceful_shutdown, unregister_devices
  <2>2. PICK q \in {idle, Tail(idle)} :
              /\ pt_ble_graceful_shutdown(q)
              /\ q = idle \/ (q = Tail(idle) /\ idle # <<>>
                              /\ Head(idle) = GracefulShutdown)
        BY <2>1
  <2>3. q \in Seq(IdleSource)
        BY <1>0, <2>2, QueueTyped
  <2>4. \A e : e # GracefulShutdown => (Queued(e) => Holds(q, e))
        BY <1>0, <2>2, HoldsTail DEF Queued
  <2>5. ShutdownPursued'
        BY <2>1, <2>2, <2>3, <2>4, ShutdownPursues
  <2> QED BY <2>1, <2>5
<1>6. CASE pt_ble_g_main_quit_loop
  <2>1. CASE running
        BY <1>2, <1>6, <2>1 DEF pt_ble_g_main_quit_loop
  <2>2. CASE ~running
    <3>1. loop' = "done" /\ running' = FALSE
          BY <1>6, <2>2 DEF pt_ble_g_main_quit_loop, LeaveLoop
    <3> QED BY <3>1 DEF ShutdownPursued
  <2> QED BY <2>1, <2>2
<1>7. CASE pt_ble_pt_ready
  <2>1. /\ UNCHANGED <<running, unregistering, loop, tracked, removes, unregs>>
        /\ idle # <<>> /\ Head(idle) = PtReady /\ idle' = Tail(idle)
        BY <1>7 DEF pt_ble_pt_ready, Dispatch, procVars, callVars
  <2>2. \A e : e # PtReady => Stays(e)
        BY <2>1, TailStays
  <2>3. GracefulShutdown # PtReady
        BY DEF GracefulShutdown, PtReady
  <2> QED BY <1>1, <2>1, <2>2, <2>3, SourcesDiffer
<1>8. CASE connection_ready_handler
  <2>1. /\ UNCHANGED <<running, unregistering, loop, tracked, removes, unregs>>
        /\ idle' = Append(idle, PtReady)
        BY <1>8 DEF connection_ready_handler, procVars, ctxVars, callVars
  <2> QED BY <1>1, <2>1, AppendStays, IdleSources
<1>9. CASE protocol_translator_registration_failure \/ shutdown_cb_handler
  <2>1. /\ running' = FALSE /\ UNCHANGED <<unregistering, loop, tracked, removes, unregs>>
        /\ idle' = idle \/ idle' = Append(idle, GracefulShutdown)
        /\ running => idle' = Append(idle, GracefulShutdown)
        BY <1>9 DEF protocol_translator_registration_failure, shutdown_cb_handler,
                    ctxVars, callVars, edgeVars
  <2>2. (\A e : Stays(e)) /\ (running => Queued(GracefulShutdown)')
        BY <2>1, AppendStays, IdleSources
  <2>3. CASE running
        BY <2>1, <2>2, <2>3 DEF ShutdownPursued
  <2>4. CASE ~running
    <3>1. running' = running
          BY <2>1, <2>4 DEF TypeOK, ProcOK
    <3> QED BY <1>1, <2>1, <2>2, <3>1
  <2> QED BY <2>3, <2>4
<1>10. ASSUME NEW d \in Devices, ble_on_object_added(d)
       PROVE  (unregistering => ~running)' /\ ShutdownPursued'
  <2>1. CASE running
        BY <1>2, <1>10, <2>1 DEF ble_on_object_added, procVars
  <2>2. CASE ~running
    <3>1. UNCHANGED <<running, unregistering, loop, tracked, removes, unregs, idle>>
          BY <1>10, <2>2 DEF ble_on_object_added, ble_new_device, procVars, ctxVars,
                             edgeVars
    <3> QED BY <1>1, <3>1, AppendStays, IdleSources
  <2> QED BY <2>1, <2>2
<1>11. ASSUME NEW d \in Devices, UNCHANGED <<running, unregistering, loop, removes>>,
              GivesUp(d)
       PROVE  (unregistering => ~running)' /\ ShutdownPursued'
       BY <1>0, <1>11, GivesUpFrame
<1>12. ASSUME NEW d \in Devices, UNCHANGED <<tracked, idle, unregs>> PROVE GivesUp(d)
  <2>1. unregs[<<d, TRUE>>] \in Nat
        BY CountNat
  <2> QED BY <1>12, <2>1, AppendStays, IdleSources DEF GivesUp
<1>13. ASSUME NEW d \in Devices, ble_on_object_removed(d)
       PROVE  (unregistering => ~running)' /\ ShutdownPursued'
  <2>1. UNCHANGED <<running, unregistering, loop, removes>>
        BY <1>13 DEF ble_on_object_removed, procVars
  <2>2. GivesUp(d)
        BY <1>12, <1>13, RemoveGivesUp DEF ble_on_object_removed, ctxVars
  <2> QED BY <1>11, <2>1, <2>2
<1>14. ASSUME NEW d \in Devices, ble_on_disconnect(d) \/ ble_connect_done_error(d)
       PROVE  (unregistering => ~running)' /\ ShutdownPursued'
  <2>1. UNCHANGED <<running, unregistering, loop, removes>>
        BY <1>14 DEF ble_on_disconnect, ble_connect_done_error, procVars, callVars
  <2>2. GivesUp(d)
        BY <1>12, <1>14, ReconnectGivesUp
        DEF ble_on_disconnect, ble_connect_done_error, ctxVars
  <2> QED BY <1>11, <2>1, <2>2
<1>15. ASSUME NEW d \in Devices, ble_remove_device_done(d)
       PROVE  (unregistering => ~running)' /\ ShutdownPursued'
  <2>1. UNCHANGED <<running, unregistering, loop>> /\ removes' = removes \ {d}
        BY <1>15 DEF ble_remove_device_done, procVars
  <2>2. /\ GivesUp(d)
        /\ d \in tracked => (d \in tracked' => unregs'[<<d, TRUE>>] > 0)
        BY <1>12, <1>15, RemoveGivesUp DEF ble_remove_device_done, ctxVars
  <2>3. d \in tracked' => Removing(d)'
        BY <2>2 DEF Removing, GivesUp
  <2> QED BY <1>0, <2>1, <2>2, <2>3, GivesUpFrame
<1>16. ASSUME NEW d \in Devices, ble_connect_done_no_pt_device(d)
       PROVE  (unregistering => ~running)' /\ ShutdownPursued'
  <2>1. /\ UNCHANGED <<running, unregistering, loop, removes, idle, unregs>>
        /\ tracked' = tracked \ {d} /\ CreateMayFail
        BY <1>16 DEF ble_connect_done_no_pt_device, devices_del_device, procVars, edgeVars
  <2>2. \A e : Stays(e)
        BY <2>1, AppendStays, IdleSources
  <2>3. \A x \in tracked' : x \in removes \/ Removing(x) => x \in removes' \/ Removing(x)'
        BY <1>0, <2>1, <2>2, RemovalStays
  <2> QED BY <2>1, <2>2, <2>3, PursuitFrame
<1>17. ASSUME NEW d \in Devices,
              \/ ble_connect_done(d) \/ ble_retry_connect(d) \/ ble_services_resolved(d)
              \/ TimePasses(d) \/ ble_read_characteristic_callback(d)
              \/ ble_on_connect(d) \/ device_registration_failure(d)
       PROVE  (unregistering => ~running)' /\ ShutdownPursued'
  <2>1. /\ UNCHANGED <<running, unregistering, tracked, removes, unregs, idle>>
        /\ loop' \in {"start", "run"} => loop \in {"start", "run"}
        BY <1>17 DEF ble_connect_done, ble_retry_connect, ble_services_resolved,
           TimePasses, ble_read_characteristic_callback, ble_on_connect,
           device_registration_failure, LoopRuns, procVars, ctxVars, callVars, edgeVars
  <2> QED BY <1>1, <2>1, AppendStays, IdleSources
<1>18. ASSUME NEW d \in Devices, device_registered(d)
       PROVE  (unregistering => ~running)' /\ ShutdownPursued'
  <2>1. /\ UNCHANGED <<running, unregistering, loop, tracked, removes, unregs>>
        /\ idle # <<>> /\ Head(idle) = Registered(d) /\ idle' = Tail(idle)
        BY <1>18 DEF device_registered, Dispatch, procVars, callVars, edgeVars
  <2>2. \A e : e # Registered(d) => Stays(e)
        BY <2>1, TailStays
  <2> QED BY <1>1, <2>1, <2>2, SourcesDiffer
<1>19. ASSUME NEW d \in Devices, device_registration_success(d)
       PROVE  (unregistering => ~running)' /\ ShutdownPursued'
  <2>1. /\ UNCHANGED <<running, unregistering, loop, tracked, removes, unregs>>
        /\ idle' = Append(idle, Registered(d))
        BY <1>19 DEF device_registration_success, procVars, ctxVars, callVars
  <2> QED BY <1>1, <2>1, AppendStays, IdleSources
<1>20. ASSUME NEW d \in Devices, NEW del \in BOOLEAN, device_unregistered(d, del)
       PROVE  (unregistering => ~running)' /\ ShutdownPursued'
  <2>1. /\ UNCHANGED <<running, unregistering, loop, removes, unregs>>
        /\ idle # <<>> /\ Head(idle) = Unregistered(d, del)
        BY <1>20 DEF device_unregistered, Dispatch, procVars, callVars, edgeVars
  <2>2. IF del /\ d \in tracked
        THEN /\ tracked' = tracked \ {d}
             /\ idle' = IF unregistering /\ tracked \ {d} = {}
                        THEN Append(Tail(idle), QuitLoop) ELSE Tail(idle)
        ELSE tracked' = tracked /\ idle' = Tail(idle)
        BY <1>20 DEF device_unregistered, pt_edge_del_device, devices_del_device
  <2>3. /\ \A e : e # Unregistered(d, del) => Stays(e)
        /\ idle' = Append(Tail(idle), QuitLoop) => Queued(QuitLoop)'
        BY <2>1, <2>2, TailStays
  <2>4. Stays(GracefulShutdown) /\ Stays(QuitLoop)
        BY <2>3, SourcesDiffer
  <2>5. ASSUME NEW x \in tracked', x \in removes \/ Removing(x)
        PROVE  x \in removes' \/ Removing(x)'
    <3>1. x # d \/ ~del
          BY <2>2, <2>5
    <3>2. Stays(Unregistered(x, TRUE))
          BY <2>3, <3>1, UnregisteredDiffer
    <3> QED BY <2>1, <2>5, <3>2, RemovalStays
  <2>6. tracked' \subseteq tracked
        BY <2>2
  <2>7. unregistering /\ tracked' = {} => tracked = {} \/ Queued(QuitLoop)'
        BY <2>2, <2>3
  <2> QED BY <2>1, <2>4, <2>5, <2>6, <2>7, PursuitFrame
<1>21. ASSUME NEW d \in Devices, NEW del \in BOOLEAN,
              \/ device_unregistration_success(d, del)
              \/ device_unregistration_failure(d, del)
       PROVE  (unregistering => ~running)' /\ ShutdownPursued'
  <2>1. /\ UNCHANGED <<running, unregistering, loop, tracked, removes>>
        /\ unregs' = [unregs EXCEPT ![<<d, del>>] = @ - 1]
        /\ idle' = Append(idle, Unregistered(d, del))
        BY <1>21 DEF device_unregistration_success, device_unregistration_failure,
           unregistration_answered, procVars, ctxVars, callVars
  <2>2. (\A e : Stays(e)) /\ Queued(Unregistered(d, del))'
        BY <2>1, AppendStays, IdleSources
  <2>3. ASSUME NEW x \in tracked', x \in removes \/ Removing(x)
        PROVE  x \in removes' \/ Removing(x)'
    <3>1. CASE <<x, TRUE>> # <<d, del>>
      <4>1. unregs \in [Devices \X BOOLEAN -> 0..MaxCalls]
            BY DEF TypeOK, EdgeOK
      <4>2. unregs'[<<x, TRUE>>] = unregs[<<x, TRUE>>]
            BY <1>0, <2>1, <3>1, <4>1
      <4> QED BY <2>1, <2>2, <2>3, <4>2, RemovalStays
    <3>2. CASE <<x, TRUE>> = <<d, del>>
      <4>1. x = d /\ TRUE = del
            BY <3>2
      <4> QED BY <2>2, <4>1 DEF Removing
    <3> QED BY <3>1, <3>2
  <2> QED BY <2>1, <2>2, <2>3, PursuitFrame
<1>22. CASE UNCHANGED vars
  <2>1. \A e : Stays(e)
        BY <1>22, AppendStays, IdleSources DEF vars
  <2> QED BY <1>1, <1>22, <2>1 DEF vars
<1> QED
      BY <1>3, <1>4, <1>5, <1>6, <1>7, <1>8, <1>9, <1>10, <1>13, <1>14, <1>15, <1>16,
         <1>17, <1>18, <1>19, <1>20, <1>21, <1>22
      DEF Next, ProcessNext, BluezNext, EdgeNext

(* A shutdown never waits for nothing: while the loop is still to run, the   *)
(* request is queued, or every context left has an answer of BlueZ or Edge   *)
(* to come, or the request to quit is queued, for any number of devices and  *)
(* any order of events.  Only a failing pt_device_create may leave the loop   *)
(* without the last.                                                         *)
THEOREM ShutdownGoesOn == Spec => []ShutdownPursued
<1>1. Init => PursuitInv
      BY TypeInit DEF Init, PursuitInv, ShutdownPursued
<1>2. PursuitInv /\ [Next]_vars => PursuitInv'
      BY PursuitStep
<1>3. PursuitInv => ShutdownPursued
      BY DEF PursuitInv
<1> QED BY <1>1, <1>2, <1>3, PTL DEF Spec

-----------------------------------------------------------------------------
(* The CONNECTED flag.  A new context has none, so its device must have no   *)
(* link: BlueZ had forgotten the device.                                     *)
LinkInv == link \subseteq present /\ LinkFlagged

(* A context of a lost link or call is kept, or it is deleted.               *)
LEMMA TimerFlags ==
    ASSUME NEW d, NEW cs,
           ble_start_reconnection_timer_or_unregister_device(d, cs)
    PROVE  \/ tracked' = tracked /\ connected' = cs
           \/ tracked' = tracked \ {d} /\ connected' = cs \ {d}
<1> DEFINE n == next_retry(d)
           late == n >= ExpireRetries /\ age[d] >= Overdue
           remove == n >= ExpireRetries /\ age[d] >= Expired
<1>1. \/ tracked' = tracked /\ connected' = cs
      \/ pt_edge_del_device(d, cs, idle)
  <2> HIDE DEF n, late, remove
  <2> QED BY DEF ble_start_reconnection_timer_or_unregister_device, n, late, remove
<1> QED BY <1>1 DEF pt_edge_del_device, devices_del_device

LEMMA LinkStep == LinkInv /\ [Next]_vars => LinkInv'
<1> SUFFICES ASSUME LinkInv, [Next]_vars PROVE LinkInv'
    OBVIOUS
<1> USE DEF LinkInv, LinkFlagged
<1>1. CASE ProcessNext
  <2>1. CASE ble_start
        BY <1>1, <2>1 DEF ble_start, ble_new_device, ble_create_device_context, ctxVars
  <2>2. CASE ~ble_start
        BY <1>1, <2>2 DEF ProcessNext, ble_start_fails, ble_on_adapter_removed,
           ble_read_everything, Signal, SignalAgain, DispatchShutdown,
           pt_ble_graceful_shutdown,
           pt_ble_g_main_quit_loop, pt_ble_pt_ready, connection_ready_handler,
           disconnected_handler, protocol_translator_registration_success,
           protocol_translator_registration_failure, shutdown_cb_handler, ctxVars,
           bluezVars
  <2> QED BY <2>1, <2>2
<1>2. ASSUME NEW d \in Devices, BluezNext(d) PROVE LinkInv'
  <2>1. CASE ble_on_object_added(d)
        BY <2>1 DEF ble_on_object_added, ble_new_device, ble_create_device_context,
                    ctxVars
  <2>2. CASE ble_on_object_removed(d) \/ ble_remove_device_done(d)
        BY <2>2 DEF ble_on_object_removed, ble_remove_device_done, unregister_or_delete,
                    pt_edge_del_device, devices_del_device, ctxVars, bluezVars
  <2>3. CASE ble_on_connect(d)
        BY <2>3 DEF ble_on_connect
  <2>4. CASE ble_on_disconnect(d)
    <3>1. /\ link' = link \ {d} /\ present' = present
          /\ d \in tracked =>
                 ble_start_reconnection_timer_or_unregister_device(d, connected \ {d})
          /\ d \notin tracked => tracked' = tracked /\ connected' = connected
          BY <2>4 DEF ble_on_disconnect, ctxVars
    <3> QED BY <3>1, TimerFlags
  <2>5. CASE ble_connect_done_error(d)
    <3>1. /\ link' = link /\ present' = present
          /\ d \in tracked =>
                 ble_start_reconnection_timer_or_unregister_device(d, connected)
          /\ d \notin tracked => tracked' = tracked /\ connected' = connected
          BY <2>5 DEF ble_connect_done_error, ctxVars, bluezVars
    <3> QED BY <3>1, TimerFlags
  <2>6. CASE ble_connect_done_no_pt_device(d)
        BY <2>6 DEF ble_connect_done_no_pt_device, devices_del_device, bluezVars
  <2>7. CASE \/ ble_services_resolved(d) \/ ble_connect_done(d)
              \/ ble_retry_connect(d) \/ TimePasses(d)
              \/ ble_read_characteristic_callback(d)
        BY <2>7 DEF ble_services_resolved, ble_connect_done, ble_retry_connect,
                    TimePasses, ble_read_characteristic_callback, ctxVars, bluezVars
  <2> QED BY <1>2, <2>1, <2>2, <2>3, <2>4, <2>5, <2>6, <2>7 DEF BluezNext
<1>3. ASSUME NEW d \in Devices, EdgeNext(d) PROVE LinkInv'
      BY <1>3 DEF EdgeNext, device_registered, device_registration_success,
         device_registration_failure, device_unregistered, pt_edge_del_device,
         devices_del_device, device_unregistration_success,
         device_unregistration_failure, unregistration_answered, ctxVars, bluezVars
<1>4. CASE UNCHANGED vars
      BY <1>4 DEF vars
<1> QED BY <1>1, <1>2, <1>3, <1>4 DEF Next

(* The safety part of RegisteredPolled: where BlueZ keeps no link from an    *)
(* earlier run, every linked device on the list has its CONNECTED flag, so   *)
(* the next poll reads it once it is registered and resolved, however often  *)
(* contexts and links came and went.                                         *)
THEOREM LinksAreFlagged == Spec => []LinkFlagged
<1>1. Init => LinkInv
      BY DEF Init, LinkInv, LinkFlagged
<1>2. LinkInv => LinkFlagged
      BY DEF LinkInv
<1> QED BY <1>1, <1>2, LinkStep, PTL DEF Spec
=============================================================================
