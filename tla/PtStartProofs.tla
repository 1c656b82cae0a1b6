--------------------------- MODULE PtStartProofs ---------------------------
(* Proofs about PtStart: the hand-over of g_client, whatever may fail. *)
EXTENDS PtStart, TLAPS

(* The states of protocol_translator_api_start_func. *)
TypePt == pt \in {"begin", "create", "start", "events", "done"}

(* The counts of what has happened. *)
TypeFaults == faults \in [Kind -> Nat]

(* Each step of either thread keeps the client behind the test.  A callback  *)
(* wakes the main thread only from the event loop, which has a client; a     *)
(* client once created stays.                                                *)
LEMMA ClientStep ==
    TypeFaults /\ ClientCreated /\ [Next]_vars => (TypeFaults /\ ClientCreated)'
<1> SUFFICES ASSUME TypeFaults, ClientCreated, [Next]_vars
             PROVE  (TypeFaults /\ ClientCreated)'
    OBVIOUS
<1> USE DEF TypeFaults, Kind, Fault, Happened, ClientCreated, mainVars, edgeVars
<1>1. CASE start_lock \/ pt_client_create \/ pt_client_start
      BY <1>1 DEF start_lock, pt_client_create, pt_client_start
<1>2. CASE connection_ready_handler \/ disconnected_handler \/ shutdown_cb_handler
      BY <1>2 DEF connection_ready_handler, disconnected_handler,
                  shutdown_cb_handler
<1>3. CASE protocol_translator_registration_success
      BY <1>3 DEF protocol_translator_registration_success, ReleaseStart
<1>4. CASE protocol_translator_registration_failure
      BY <1>4 DEF protocol_translator_registration_failure
<1>5. CASE device_registration_failure
      BY <1>5 DEF device_registration_failure, ReleaseStart
<1>6. CASE device_registration_success \/ edge_register_device
      BY <1>6 DEF device_registration_success, edge_register_device
<1>7. CASE pt_ble_graceful_shutdown \/ ble_start \/ stop_lock
      BY <1>7 DEF pt_ble_graceful_shutdown, ble_start, stop_lock
<1>8. CASE stop_test
      BY <1>8 DEF stop_test
<1>9. CASE \/ stop_wake \/ stop_unlock \/ pt_client_shutdown
           \/ stop_protocol_translator_api_thread
      BY <1>9 DEF stop_wake, stop_unlock, pt_client_shutdown,
                  stop_protocol_translator_api_thread
<1>10. CASE stop_spurious_wake
      BY <1>10 DEF stop_spurious_wake
<1>11. CASE UNCHANGED vars
      BY <1>11 DEF vars
<1> QED
      BY <1>1, <1>2, <1>3, <1>4, <1>5, <1>6, <1>7, <1>8, <1>9, <1>10, <1>11
      DEF Next, PtNext, MainNext

(* Unless pthread_cond_wait returns without a signal, pt_client_shutdown     *)
(* is never called on NULL: not when the main thread is first at the mutex,  *)
(* not when a callback of a lost and regained connection releases a mutex    *)
(* that the main thread holds, and not when the start of the client failed.  *)
THEOREM ClientIsReady == Spec => []ClientReady
<1>1. Init => TypeFaults /\ ClientCreated
      BY DEF Init, TypeFaults, ClientCreated
<1>2. TypeFaults /\ ClientCreated /\ [Next]_vars => (TypeFaults /\ ClientCreated)'
      BY ClientStep
<1>3. ClientCreated => ClientReady BY DEF ClientCreated, ClientReady
<1> QED BY <1>1, <1>2, <1>3, PTL DEF Spec

(* Each step of either thread keeps the ownership of the mutex. *)
LEMMA OwnedStep ==
    StartOwned /\ NoLostWakeup /\ TypePt /\ [Next]_vars
      => (StartOwned /\ NoLostWakeup /\ TypePt)'
<1> SUFFICES ASSUME StartOwned, NoLostWakeup, TypePt, [Next]_vars
             PROVE  (StartOwned /\ NoLostWakeup /\ TypePt)'
    OBVIOUS
<1> USE DEF StartOwned, NoLostWakeup, TypePt, mainVars, edgeVars
<1>1. CASE start_lock \/ pt_client_create \/ pt_client_start
      BY <1>1 DEF start_lock, pt_client_create, pt_client_start
<1>2. CASE connection_ready_handler \/ disconnected_handler \/ shutdown_cb_handler
      BY <1>2 DEF connection_ready_handler, disconnected_handler,
                  shutdown_cb_handler
<1>3. CASE protocol_translator_registration_success
      BY <1>3 DEF protocol_translator_registration_success, ReleaseStart
<1>4. CASE protocol_translator_registration_failure
      BY <1>4 DEF protocol_translator_registration_failure
<1>5. CASE device_registration_failure
      BY <1>5 DEF device_registration_failure, ReleaseStart
<1>6. CASE device_registration_success \/ edge_register_device
      BY <1>6 DEF device_registration_success, edge_register_device
<1>7. CASE pt_ble_graceful_shutdown \/ ble_start \/ stop_lock
      BY <1>7 DEF pt_ble_graceful_shutdown, ble_start, stop_lock
<1>8. CASE stop_test \/ stop_spurious_wake
      BY <1>8 DEF stop_test, stop_spurious_wake
<1>9. CASE \/ stop_wake \/ stop_unlock \/ pt_client_shutdown
           \/ stop_protocol_translator_api_thread
      BY <1>9 DEF stop_wake, stop_unlock, pt_client_shutdown,
                  stop_protocol_translator_api_thread
<1>10. CASE UNCHANGED vars
      BY <1>10 DEF vars
<1> QED
      BY <1>1, <1>2, <1>3, <1>4, <1>5, <1>6, <1>7, <1>8, <1>9, <1>10
      DEF Next, PtNext, MainNext

(* The signal of the start is never given while the main thread is between  *)
(* its test of g_client and its wait, whatever fails and however the mutex   *)
(* is released, spurious wake-ups included.                                  *)
THEOREM WakeupsKept == Spec => []NoLostWakeup
<1>1. Init => StartOwned /\ NoLostWakeup /\ TypePt
      BY DEF Init, StartOwned, NoLostWakeup, TypePt
<1>2. StartOwned /\ NoLostWakeup /\ TypePt /\ [Next]_vars
        => (StartOwned /\ NoLostWakeup /\ TypePt)'
      BY OwnedStep
<1> QED BY <1>1, <1>2, PTL DEF Spec

-----------------------------------------------------------------------------
(* Unless a fault defeats the hand-over: the pt-client thread has let go of  *)
(* the mutex once the main thread had it, the client that the main thread    *)
(* stops exists, and the registration that lets go is still to come.         *)
HandedOver ==
    ~Happened("start") /\ ~Happened("spurious") =>
        /\ main \in {"test", "unlock", "shutdown", "join", "exit"} => mutex # "pt"
        /\ main \in {"join", "exit"} => client
        /\ stop => main \in {"join", "exit"}
        /\ pt \in {"begin", "create", "start"} => reg = "none"

PursuedInv ==
    /\ TypePt /\ TypeFaults /\ StartOwned /\ ClientCreated /\ NoLostWakeup
    /\ HandedOver /\ StopPursued

(* Each step of either thread keeps this up, or is a fault. *)
LEMMA PursuedStep ==
    ASSUME PursuedInv, [Next]_vars
    PROVE  (HandedOver /\ StopPursued)'
<1> USE DEF PursuedInv, TypePt, TypeFaults, StartOwned, ClientCreated, HandedOver,
            StopPursued, Kind, Fault, Happened, mainVars, edgeVars
<1>1. CASE start_lock
      BY <1>1 DEF start_lock
<1>2. CASE pt_client_create \/ pt_client_start
      BY <1>2 DEF pt_client_create, pt_client_start
<1>3. CASE connection_ready_handler \/ disconnected_handler
      BY <1>3 DEF connection_ready_handler, disconnected_handler
<1>4. CASE shutdown_cb_handler
      BY <1>4 DEF shutdown_cb_handler
<1>5. CASE protocol_translator_registration_success
      BY <1>5 DEF protocol_translator_registration_success, ReleaseStart
<1>6. CASE protocol_translator_registration_failure
      BY <1>6 DEF protocol_translator_registration_failure
<1>7. CASE device_registration_failure
      BY <1>7 DEF device_registration_failure, ReleaseStart
<1>8. CASE device_registration_success \/ edge_register_device
      BY <1>8 DEF device_registration_success, edge_register_device
<1>9. CASE pt_ble_graceful_shutdown \/ ble_start
      BY <1>9 DEF pt_ble_graceful_shutdown, ble_start
<1>10. CASE stop_lock \/ stop_test
      BY <1>10 DEF stop_lock, stop_test
<1>11. CASE stop_spurious_wake
      BY <1>11 DEF stop_spurious_wake
<1>12. CASE stop_wake \/ stop_unlock
      BY <1>12 DEF stop_wake, stop_unlock
<1>13. CASE pt_client_shutdown \/ stop_protocol_translator_api_thread
      BY <1>13 DEF pt_client_shutdown, stop_protocol_translator_api_thread
<1>14. CASE UNCHANGED vars
      BY <1>14 DEF vars
<1> QED
      BY <1>1, <1>2, <1>3, <1>4, <1>5, <1>6, <1>7, <1>8, <1>9, <1>10, <1>11, <1>12,
         <1>13, <1>14
      DEF Next, PtNext, MainNext

(* The safety part of ShutdownCompletes: without a failed start or a wake-up *)
(* without a signal, nobody waits for a mutex whose owner does not go on,    *)
(* and both threads end by pt_client_shutdown alone.                         *)
THEOREM ShutdownGoesOn == Spec => []StopPursued
<1>1. Init => PursuedInv
  <2> SUFFICES ASSUME Init PROVE PursuedInv OBVIOUS
  <2>1. TypePt /\ TypeFaults /\ StartOwned /\ ClientCreated /\ NoLostWakeup
        BY DEF Init, TypePt, TypeFaults, StartOwned, ClientCreated, NoLostWakeup
  <2>2. HandedOver /\ StopPursued
        BY DEF Init, HandedOver, StopPursued
  <2> QED BY <2>1, <2>2 DEF PursuedInv
<1>2. PursuedInv /\ [Next]_vars => PursuedInv'
  <2> SUFFICES ASSUME PursuedInv, [Next]_vars PROVE PursuedInv' OBVIOUS
  <2>1. (TypeFaults /\ ClientCreated)'
        BY ClientStep DEF PursuedInv
  <2>2. (StartOwned /\ NoLostWakeup /\ TypePt)'
        BY OwnedStep DEF PursuedInv
  <2>3. (HandedOver /\ StopPursued)'
        BY PursuedStep
  <2> QED BY <2>1, <2>2, <2>3 DEF PursuedInv
<1>3. PursuedInv => StopPursued BY DEF PursuedInv
<1> QED BY <1>1, <1>2, <1>3, PTL DEF Spec
=============================================================================
