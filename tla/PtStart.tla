------------------------------ MODULE PtStart ------------------------------
(***************************************************************************)
(* Start and stop of the BLE protocol translator (blept-example): how the  *)
(* main thread and the pt-client thread hand over g_client through         *)
(* pt_api_start_wait_mutex and pt_api_start_wait_cond.                     *)
(*                                                                         *)
(* The pt-client thread takes the mutex before it creates the client and   *)
(* keeps it while the event loop runs, until a callback releases it.  The  *)
(* main thread takes it when ble_start has returned, to stop the client.   *)
(* What ble_start does with devices is module BlePt; here it ends some     *)
(* time after it was asked to.  The pt-client library is external.         *)
(***************************************************************************)
EXTENDS Naturals

CONSTANT MaxFaults  \* bound on the faults of one kind

ASSUME PtStartAssumption == MaxFaults \in Nat

VARIABLES
    main,       \* where main() is
    pt,         \* where protocol_translator_api_start_func is
    mutex,      \* pt_api_start_wait_mutex: "free", or who locked it
    client,     \* g_client # NULL
    running,    \* global_keep_running
    idle,       \* pt_ble_graceful_shutdown is queued with g_idle_add
    stopping,   \* pt_ble_graceful_shutdown has run
    conn,       \* g_connection_id is valid
    reg,        \* the translator's registration: "none", "asked", "answered"
    devRegs,    \* a device registration is outstanding
    stop,       \* pt_client_shutdown has been called on the client
    faults      \* history: what has happened to the process, by kind

vars == <<main, pt, mutex, client, running, idle, stopping, conn, reg, devRegs,
          stop, faults>>
mainVars == <<main, stopping>>
edgeVars == <<conn, reg, devRegs>>

(* What may happen: creating, starting or registering the client fails,     *)
(* pthread_cond_wait returns without a signal, the connection breaks or is  *)
(* shut down, the user or a missing D-Bus ends ble_start.                   *)
Kind == {"start", "spurious", "link", "user"}

Fault(k) == faults[k] < MaxFaults /\ faults' = [faults EXCEPT ![k] = @ + 1]
Happened(k) == faults[k] > 0

-----------------------------------------------------------------------------
(* The pt-client thread. *)

start_lock ==
    /\ pt = "begin" /\ mutex = "free"
    /\ pt' = "create" /\ mutex' = "pt"
    /\ UNCHANGED <<mainVars, client, running, idle, edgeVars, stop, faults>>

(* A client that cannot be created ends the thread, the mutex locked. *)
pt_client_create ==
    /\ pt = "create"
    /\ \/ pt' = "start" /\ client' = TRUE /\ UNCHANGED <<running, faults>>
       \/ Fault("start") /\ pt' = "done" /\ running' = FALSE /\ UNCHANGED client
    /\ UNCHANGED <<mainVars, mutex, idle, edgeVars, stop>>

pt_client_start ==
    /\ pt = "start"
    /\ \/ pt' = "events" /\ UNCHANGED <<running, faults>>
       \/ Fault("start") /\ pt' = "done" /\ running' = FALSE
    /\ UNCHANGED <<mainVars, mutex, client, idle, edgeVars, stop>>

(* pthread_cond_signal, and pthread_mutex_unlock, whoever holds the mutex. *)
ReleaseStart ==
    /\ main' = IF main = "wait" THEN "relock" ELSE main
    /\ mutex' = "free"

connection_ready_handler ==
    /\ pt = "events" /\ ~conn
    /\ conn' = TRUE /\ reg' = "asked"
    /\ UNCHANGED <<mainVars, pt, mutex, client, running, idle, devRegs, stop,
                   faults>>

disconnected_handler ==
    /\ pt = "events" /\ conn
    /\ Fault("link")
    /\ conn' = FALSE /\ reg' = "none"
    /\ UNCHANGED <<mainVars, pt, mutex, client, running, idle, devRegs, stop>>

(* Mutant: the callback gives the signal and keeps the mutex. *)
registration_success_no_unlock ==
    /\ pt = "events" /\ reg = "asked"
    /\ reg' = "answered" /\ devRegs' \in BOOLEAN
    /\ main' = IF main = "wait" THEN "relock" ELSE main
    /\ UNCHANGED <<pt, mutex, client, running, idle, stopping, conn, stop, faults>>

(* Mutant: the callback only releases the mutex. *)
registration_success_no_signal ==
    /\ pt = "events" /\ reg = "asked"
    /\ reg' = "answered" /\ mutex' = "free" /\ devRegs' \in BOOLEAN
    /\ UNCHANGED <<mainVars, pt, client, running, idle, conn, stop, faults>>

(* The devices on the list, if any, are registered at once. *)
protocol_translator_registration_success ==
    /\ pt = "events" /\ reg = "asked"
    /\ reg' = "answered"
    /\ ReleaseStart
    /\ devRegs' \in {devRegs, TRUE}
    /\ UNCHANGED <<pt, client, running, idle, stopping, conn, stop, faults>>

protocol_translator_registration_failure ==
    /\ pt = "events" /\ reg = "asked"
    /\ Fault("start")
    /\ reg' = "answered"
    /\ running' = FALSE /\ idle' = TRUE
    /\ UNCHANGED <<mainVars, pt, mutex, client, conn, devRegs, stop>>

(* A device is registered when its services are resolved, too. *)
edge_register_device ==
    /\ main = "loop" /\ conn /\ ~devRegs
    /\ devRegs' = TRUE
    /\ UNCHANGED <<mainVars, pt, mutex, client, running, idle, conn, reg, stop,
                   faults>>

device_registration_success ==
    /\ pt = "events" /\ devRegs
    /\ devRegs' = FALSE
    /\ UNCHANGED <<mainVars, pt, mutex, client, running, idle, conn, reg, stop,
                   faults>>

device_registration_failure ==
    /\ pt = "events" /\ devRegs
    /\ devRegs' = FALSE
    /\ ReleaseStart
    /\ UNCHANGED <<pt, client, running, idle, stopping, conn, reg, stop, faults>>

(* The connection shuts down; with pt_client_shutdown the event loop ends   *)
(* and pt_client_start returns.                                             *)
shutdown_cb_handler ==
    /\ pt = "events"
    /\ \/ stop /\ pt' = "done" /\ UNCHANGED faults
       \/ Fault("link") /\ UNCHANGED pt
    /\ running' = FALSE
    /\ idle' = (idle \/ running)
    /\ UNCHANGED <<mainVars, mutex, client, edgeVars, stop>>

-----------------------------------------------------------------------------
(* The main thread. *)

(* From a Unix signal or from the idle source. *)
pt_ble_graceful_shutdown ==
    /\ main = "loop"
    /\ \/ Fault("user") /\ UNCHANGED idle
       \/ idle /\ idle' = FALSE /\ UNCHANGED faults
    /\ running' = FALSE /\ stopping' = TRUE
    /\ UNCHANGED <<main, pt, mutex, client, edgeVars, stop>>

(* ble_start returns: after a shutdown, or when there is no D-Bus. *)
ble_start ==
    /\ main = "loop"
    /\ (stopping /\ UNCHANGED faults) \/ Fault("user")
    /\ main' = "lock" /\ stopping' = TRUE
    /\ UNCHANGED <<pt, mutex, client, running, idle, edgeVars, stop>>

stop_lock ==
    /\ main = "lock" /\ mutex = "free"
    /\ main' = "test" /\ mutex' = "main"
    /\ UNCHANGED <<pt, client, running, idle, stopping, edgeVars, stop, faults>>

(* Mutant: the client is not waited for. *)
stop_test_no_wait ==
    /\ main = "test"
    /\ main' = "unlock"
    /\ UNCHANGED <<pt, mutex, client, running, idle, stopping, edgeVars, stop,
                   faults>>

(* pthread_cond_wait releases the mutex while it waits. *)
stop_test ==
    /\ main = "test"
    /\ IF client
       THEN main' = "unlock" /\ UNCHANGED mutex
       ELSE main' = "wait" /\ mutex' = "free"
    /\ UNCHANGED <<pt, client, running, idle, stopping, edgeVars, stop, faults>>

(* POSIX allows pthread_cond_wait to return without a signal. *)
stop_spurious_wake ==
    /\ main = "wait"
    /\ Fault("spurious")
    /\ main' = "relock"
    /\ UNCHANGED <<pt, mutex, client, running, idle, stopping, edgeVars, stop>>

(* The main thread has the mutex again and does not repeat the test. *)
stop_wake ==
    /\ main = "relock" /\ mutex = "free"
    /\ main' = "unlock" /\ mutex' = "main"
    /\ UNCHANGED <<pt, client, running, idle, stopping, edgeVars, stop, faults>>

stop_unlock ==
    /\ main = "unlock"
    /\ main' = "shutdown" /\ mutex' = "free"
    /\ UNCHANGED <<pt, client, running, idle, stopping, edgeVars, stop, faults>>

(* pt_client_shutdown(NULL) stops nothing. *)
pt_client_shutdown ==
    /\ main = "shutdown"
    /\ main' = "join" /\ stop' = client
    /\ UNCHANGED <<pt, mutex, client, running, idle, stopping, edgeVars, faults>>

stop_protocol_translator_api_thread ==
    /\ main = "join" /\ pt = "done"
    /\ main' = "exit"
    /\ UNCHANGED <<pt, mutex, client, running, idle, stopping, edgeVars, stop,
                   faults>>

-----------------------------------------------------------------------------
Init ==
    /\ main = "loop" /\ pt = "begin" /\ mutex = "free" /\ client = FALSE
    /\ running = TRUE /\ idle = FALSE /\ stopping = FALSE
    /\ conn = FALSE /\ reg = "none" /\ devRegs = FALSE
    /\ stop = FALSE /\ faults = [k \in Kind |-> 0]

PtNext ==
    \/ start_lock \/ pt_client_create \/ pt_client_start
    \/ connection_ready_handler \/ disconnected_handler
    \/ protocol_translator_registration_success
    \/ protocol_translator_registration_failure
    \/ device_registration_success \/ device_registration_failure
    \/ shutdown_cb_handler

MainNext ==
    \/ pt_ble_graceful_shutdown \/ ble_start \/ edge_register_device
    \/ stop_lock \/ stop_test \/ stop_spurious_wake \/ stop_wake \/ stop_unlock
    \/ pt_client_shutdown \/ stop_protocol_translator_api_thread

Next == PtNext \/ MainNext

Spec == Init /\ [][Next]_vars

(* Both threads run; the pt-client retries until Edge Core is there, and    *)
(* Edge Core answers a registration.                                        *)
Fairness ==
    /\ WF_vars(start_lock) /\ WF_vars(pt_client_create) /\ WF_vars(pt_client_start)
    /\ WF_vars(connection_ready_handler)
    /\ WF_vars(protocol_translator_registration_success
               \/ protocol_translator_registration_failure)
    /\ WF_vars(stop /\ shutdown_cb_handler)
    /\ WF_vars(idle /\ pt_ble_graceful_shutdown) /\ WF_vars(stopping /\ ble_start)
    /\ WF_vars(stop_lock) /\ WF_vars(stop_wake)
    /\ WF_vars(stop_test) /\ WF_vars(stop_unlock)
    /\ WF_vars(pt_client_shutdown) /\ WF_vars(stop_protocol_translator_api_thread)

FairSpec == Spec /\ Fairness

-----------------------------------------------------------------------------
(* Properties. *)

(* No wake-up is lost: while stop_protocol_translator_api waits on the       *)
(* condition variable the pt-client thread has not yet given its signal, it *)
(* is about to start or holds the mutex that goes with the signal.          *)
NoLostWakeup == main = "wait" => pt = "begin" \/ mutex = "pt"

(* stop_protocol_translator_api never hands NULL to pt_client_shutdown: the *)
(* signal of the start reaches it even when it came first, and the mutex    *)
(* keeps it away from a client that is being created.  Only a wait that     *)
(* returns without a signal defeats the test, which is made once.           *)
ClientReady == main = "shutdown" => client \/ Happened("spurious")

(* Where the start of the client does not fail and waits end when signalled, *)
(* nothing keeps the two threads from stopping: the mutex is held only by a  *)
(* main thread that goes on, or until a registration that is still to be     *)
(* answered; the pt-client thread ends only when it is told to, and the main *)
(* thread joins it only when it has been told, however often the connection  *)
(* breaks while either waits.                                                *)
StopPursued ==
    ~Happened("start") /\ ~Happened("spurious") =>
        /\ mutex = "main" => main \in {"test", "unlock"}
        /\ mutex = "pt" => \/ pt \in {"create", "start"}
                           \/ pt = "events" /\ reg # "answered"
        /\ pt = "done" \/ main = "join" => stop

(* Once ble_start is asked to stop the process exits, whichever thread is   *)
(* first at the mutex and however often the connection to Edge breaks,      *)
(* where the start of the client does not fail and waits end when signalled.*)
ShutdownCompletes ==
    stopping ~> main = "exit" \/ Happened("start") \/ Happened("spurious")

-----------------------------------------------------------------------------
(* Strengthening of NoLostWakeup: who holds the mutex while there is no     *)
(* client.                                                                  *)
StartOwned ==
    /\ pt = "begin" => ~client /\ mutex # "pt"
    /\ pt = "create" => ~client /\ mutex = "pt"
    /\ pt \in {"start", "events"} => client
    /\ pt = "done" /\ ~client => mutex = "pt"
    /\ main \in {"test", "unlock"} => client \/ mutex = "main"

(* Strengthening of ClientReady: the client exists once the event loop runs,*)
(* and the main thread is past the test only with a client or by a wake-up  *)
(* without a signal.                                                        *)
ClientCreated ==
    /\ pt \in {"start", "events"} => client
    /\ ~Happened("spurious") /\ main \in {"relock", "unlock", "shutdown"} => client
=============================================================================
