----------------------------- MODULE PtExample -----------------------------
(***************************************************************************)
(* The protocol translator example (pt-example/client_example.c): how its  *)
(* main thread and the pt-client's event-loop thread start, run and stop   *)
(* together.                                                               *)
(*                                                                         *)
(* The main thread waits for the devices' registration, registers the CPU  *)
(* temperature device and loops until it is told to stop; then it          *)
(* unregisters the devices and waits for the answer, which a callback on   *)
(* the event loop signals.  Every callback is one action, unless it blocks *)
(* or other threads can run between its effects.  The pt-client is         *)
(* external.  The values written to the device are left out.               *)
(***************************************************************************)
EXTENDS Naturals

CONSTANTS
    MaxSignals,    \* bound on SIGTERM, SIGINT and SIGUSR2
    MaxFaults      \* bound on the faults of one kind

ASSUME PtExampleAssumption == MaxSignals \in Nat /\ MaxFaults \in Nat

VARIABLES
    at,         \* where each thread is
    mutex,      \* shutdown_wait_mutex: "free" or the thread that holds it
    keep,       \* g_keep_running
    sem,        \* value of g_shutdown_handler_called
    connected,  \* g_connected
    apiRunning, \* g_protocol_translator_api_running
    conn,       \* Edge has the connection g_connection_id
    reg,        \* the translator's registration: "none", "asked", "answered"
    devRegs,    \* pt_devices_register_devices is outstanding
    unregs,     \* outstanding calls of pt_devices_unregister_devices
    stop,       \* pt_client_shutdown has been called
    faults      \* history: the faults so far, by kind

vars == <<at, mutex, keep, sem, connected, apiRunning, conn, reg, devRegs, unregs,
          stop, faults>>
flagVars == <<keep, sem, connected, apiRunning>>
edgeVars == <<conn, reg, devRegs>>

Main == "main"
Pt == "pt"
Thread == {Main, Pt}

(* Thread t is at p; it goes on to q. *)
At(t, p) == at[t] = p
Go(t, q) == at' = [at EXCEPT ![t] = q]

(* The faults: pt_client_start fails, Edge refuses the translator,          *)
(* pthread_cond_wait returns without a signal, the unregistration cannot be *)
(* sent, the connection breaks or is shut down.                             *)
Kind == {"start", "refusal", "spurious", "send", "link"}

Fault(k) == faults[k] < MaxFaults /\ faults' = [faults EXCEPT ![k] = @ + 1]
Happened(k) == faults[k] > 0

-----------------------------------------------------------------------------
(* shutdown_and_cleanup, on the main thread or in a callback. *)

cleanup_lock(t) ==
    /\ At(t, "cleanup") /\ mutex = "free"
    /\ mutex' = t
    /\ Go(t, "unregister")
    /\ UNCHANGED <<flagVars, edgeVars, unregs, stop, faults>>

cleanup_unregister(t) ==
    /\ At(t, "unregister")
    /\ conn
    /\ unregs' = unregs + 1
    /\ Go(t, "requested")
    /\ UNCHANGED <<mutex, flagVars, edgeVars, stop, faults>>

(* Mutant: the client is left running when nothing can be unregistered. *)
cleanup_refused_no_shutdown(t) ==
    /\ At(t, "unregister")
    /\ Fault("send") \/ (~conn /\ UNCHANGED faults)
    /\ Go(t, "unlock")
    /\ UNCHANGED <<mutex, flagVars, edgeVars, unregs, stop>>

(* The request is refused: "shutting down immediately". *)
cleanup_refused(t) ==
    /\ At(t, "unregister")
    /\ Fault("send") \/ (~conn /\ UNCHANGED faults)
    /\ stop' = TRUE
    /\ Go(t, "unlock")
    /\ UNCHANGED <<mutex, flagVars, edgeVars, unregs>>

(* The answer may have come before the thread waits. *)
cleanup_wait(t) ==
    /\ At(t, "requested")
    /\ mutex' = "free"
    /\ Go(t, "waiting")
    /\ UNCHANGED <<flagVars, edgeVars, unregs, stop, faults>>

cleanup_spurious_wake(t) ==
    /\ At(t, "waiting") /\ Fault("spurious")
    /\ Go(t, "woken")
    /\ UNCHANGED <<mutex, flagVars, edgeVars, unregs, stop>>

cleanup_wake(t) ==
    /\ At(t, "woken") /\ mutex = "free"
    /\ mutex' = t
    /\ Go(t, "unlock")
    /\ UNCHANGED <<flagVars, edgeVars, unregs, stop, faults>>

cleanup_unlock(t) ==
    /\ At(t, "unlock")
    /\ mutex' = "free"
    /\ Go(t, IF t = Main THEN "join" ELSE "events")
    /\ UNCHANGED <<flagVars, edgeVars, unregs, stop, faults>>

shutdown_and_cleanup(t) ==
    \/ cleanup_lock(t) \/ cleanup_unregister(t) \/ cleanup_refused(t)
    \/ cleanup_wait(t) \/ cleanup_wake(t) \/ cleanup_unlock(t)

-----------------------------------------------------------------------------
(* The main thread. *)

(* The lock is held from the first line to the wait, so this is one step. *)
wait_until_connected ==
    /\ At(Main, "start")
    /\ Go(Main, "connecting")
    /\ UNCHANGED <<mutex, flagVars, edgeVars, unregs, stop, faults>>

connected_spurious_wake ==
    /\ At(Main, "connecting") /\ Fault("spurious")
    /\ Go(Main, "device")
    /\ UNCHANGED <<mutex, flagVars, edgeVars, unregs, stop>>

(* The CPU temperature device; its callbacks only log. *)
main_loop_start ==
    /\ At(Main, "device")
    /\ Go(Main, "loop")
    /\ UNCHANGED <<mutex, flagVars, edgeVars, unregs, stop, faults>>

is_shutdown_handler_called == sem = 1

main_loop_end ==
    /\ At(Main, "loop")
    /\ ~keep \/ is_shutdown_handler_called
    /\ Go(Main, "cleanup")
    /\ UNCHANGED <<mutex, flagVars, edgeVars, unregs, stop, faults>>

wait_for_protocol_translator_api_thread ==
    /\ At(Main, "join") /\ At(Pt, "done")
    /\ apiRunning' = FALSE
    /\ Go(Main, "exit")
    /\ UNCHANGED <<mutex, keep, sem, connected, edgeVars, unregs, stop, faults>>

shutdown_handler ==
    /\ ~At(Main, "exit") /\ sem < MaxSignals
    /\ sem' = sem + 1
    /\ UNCHANGED <<at, mutex, keep, connected, apiRunning, edgeVars, unregs,
                   stop, faults>>

-----------------------------------------------------------------------------
(* The pt-client's thread. *)

pt_client_start_fails ==
    /\ At(Pt, "events") /\ reg = "none" /\ ~conn
    /\ Fault("start")
    /\ keep' = FALSE
    /\ Go(Pt, "done")
    /\ UNCHANGED <<mutex, sem, connected, apiRunning, edgeVars, unregs, stop>>

connection_ready_handler ==
    /\ At(Pt, "events") /\ ~conn
    /\ conn' = TRUE /\ reg' = "asked"
    /\ UNCHANGED <<at, mutex, flagVars, devRegs, unregs, stop, faults>>

disconnected_handler ==
    /\ At(Pt, "events") /\ conn
    /\ Fault("link")
    /\ connected' = FALSE
    /\ conn' = FALSE /\ reg' = "none"
    /\ UNCHANGED <<at, mutex, keep, sem, apiRunning, devRegs, unregs, stop>>

protocol_translator_registration_success ==
    /\ At(Pt, "events") /\ reg = "asked"
    /\ reg' = "answered"
    /\ apiRunning' = TRUE
    /\ devRegs' = TRUE
    /\ UNCHANGED <<at, mutex, keep, sem, connected, conn, unregs, stop, faults>>

(* The callback goes on with shutdown_and_cleanup. *)
protocol_translator_registration_failure ==
    /\ At(Pt, "events") /\ reg = "asked"
    /\ Fault("refusal")
    /\ reg' = "answered"
    /\ keep' = FALSE
    /\ Go(Pt, "cleanup")
    /\ UNCHANGED <<mutex, sem, connected, apiRunning, conn, devRegs, unregs, stop>>

(* Success and failure of the devices' registration both end in             *)
(* set_connected, which wakes wait_until_connected if it waits already.     *)
set_connected ==
    /\ At(Pt, "events") /\ devRegs
    /\ devRegs' = FALSE
    /\ connected' = TRUE
    /\ at' = IF At(Main, "connecting") THEN [at EXCEPT ![Main] = "device"] ELSE at
    /\ UNCHANGED <<mutex, keep, sem, apiRunning, conn, reg, unregs, stop, faults>>

(* Mutant: the callbacks only stop the client when nobody waits for them. *)
devices_unregistration_answered_waiting ==
    /\ At(Pt, "events") /\ unregs > 0
    /\ unregs' = unregs - 1
    /\ at' = IF At(Main, "waiting") THEN [at EXCEPT ![Main] = "woken"]
             ELSE [at EXCEPT ![Pt] = "stopping"]
    /\ UNCHANGED <<mutex, flagVars, edgeVars, stop, faults>>

(* Success and failure of the unregistration are handled alike: signal,     *)
(* without the mutex, ...                                                   *)
devices_unregistration_answered ==
    /\ At(Pt, "events") /\ unregs > 0
    /\ unregs' = unregs - 1
    /\ at' = [at EXCEPT ![Pt] = "stopping",
                        ![Main] = IF @ = "waiting" THEN "woken" ELSE @]
    /\ UNCHANGED <<mutex, flagVars, edgeVars, stop, faults>>

(* ... then shut the client down. *)
pt_devices_unregistration_common ==
    /\ At(Pt, "stopping")
    /\ stop' = TRUE /\ keep' = FALSE
    /\ Go(Pt, "events")
    /\ UNCHANGED <<mutex, sem, connected, apiRunning, edgeVars, unregs, faults>>

(* The connection shuts down; with pt_client_shutdown the event loop ends. *)
shutdown_cb_handler ==
    /\ At(Pt, "events")
    /\ \/ stop /\ Go(Pt, "done") /\ UNCHANGED faults
       \/ Fault("link") /\ UNCHANGED at
    /\ keep' = FALSE
    /\ UNCHANGED <<mutex, sem, connected, apiRunning, edgeVars, unregs, stop>>

-----------------------------------------------------------------------------
Init ==
    /\ at = [t \in Thread |-> IF t = Main THEN "start" ELSE "events"]
    /\ mutex = "free"
    /\ keep = TRUE /\ sem = 0 /\ connected = FALSE /\ apiRunning = FALSE
    /\ conn = FALSE /\ reg = "none" /\ devRegs = FALSE /\ unregs = 0
    /\ stop = FALSE /\ faults = [k \in Kind |-> 0]

MainStep ==
    \/ wait_until_connected \/ main_loop_start \/ main_loop_end
    \/ wait_for_protocol_translator_api_thread

Callback ==
    \/ protocol_translator_registration_success
    \/ protocol_translator_registration_failure
    \/ set_connected \/ devices_unregistration_answered
    \/ pt_devices_unregistration_common

Next ==
    \/ MainStep \/ Callback
    \/ \E t \in Thread : shutdown_and_cleanup(t) \/ cleanup_spurious_wake(t)
    \/ connected_spurious_wake \/ shutdown_handler \/ pt_client_start_fails
    \/ connection_ready_handler \/ disconnected_handler \/ shutdown_cb_handler

Spec == Init /\ [][Next]_vars

(* Both threads run, and every request of the pt-client is answered.        *)
(* Edge Core need not be there, and neither signals nor faults need come.   *)
Fairness ==
    /\ WF_vars(MainStep)
    /\ \A t \in Thread : WF_vars(shutdown_and_cleanup(t))
    /\ WF_vars(devices_unregistration_answered)
    /\ WF_vars(pt_devices_unregistration_common)
    /\ WF_vars(stop /\ shutdown_cb_handler)

FairSpec == Spec /\ Fairness

-----------------------------------------------------------------------------
(* Properties. *)

(* The main thread leaves shutdown_and_cleanup, and goes to join the other  *)
(* thread, only when the pt-client is told to stop or the callback that     *)
(* tells it is running: whichever thread cleans up first, and whatever the  *)
(* pt-client refuses.  While it waits, and also after a wait that ended     *)
(* without a signal, at least the answer that leads to the callback is      *)
(* still to come.                                                           *)
StoppedBeforeJoin ==
    at[Main] \in {"requested", "waiting", "woken", "unlock", "join"} =>
        \/ stop \/ At(Pt, "stopping")
        \/ unregs > 0 /\ (at[Main] \in {"requested", "waiting"} \/ Happened("spurious"))

(* A single signal that finds the main loop running stops the pt-client,    *)
(* whatever Edge answers, and also when the connection breaks before or     *)
(* during the unregistration of the devices; only a callback that waits     *)
(* itself, after a refusal of the registration, keeps it going.             *)
GracefulStop ==
    At(Main, "loop") /\ sem = 1 ~> At(Pt, "done") \/ sem > 1 \/ At(Pt, "waiting")

(* The main thread never joins a thread that goes on: past the wait for the *)
(* unregistration, however it came out of it, the process ends, unless the  *)
(* other thread itself waits in a callback.                                 *)
JoinReturns == At(Main, "join") ~> At(Main, "exit") \/ At(Pt, "waiting")
=============================================================================
