---------------------------- MODULE StressTester ----------------------------
(***************************************************************************)
(* The stress tester of the C API (c-api-stress-tester/stress_tester.c).   *)
(*                                                                         *)
(* Test threads register and unregister devices at random on the           *)
(* connections of a few protocol translators; each translator has a thread *)
(* with an event loop that runs its callbacks.  A signal starts a thread   *)
(* that waits for the test threads and shuts the connections down; a timer *)
(* thread may do the same, and the main thread joins them all.             *)
(*                                                                         *)
(* A step is what runs under one device-list mutex; an event loop that is  *)
(* blocked at a mutex is one that takes no answer.  The connection mutex   *)
(* is used (--parallel-connection-lock=1) and held for one call only.      *)
(* Values are left out.  Edge and the pt-client are external: requests on  *)
(* a connection are answered in their order.                               *)
(***************************************************************************)
EXTENDS Naturals, Sequences, SequencesExt

CONSTANTS
    Thread,        \* test threads
    Pt,            \* protocol translators
    PtOf,          \* per test thread: its translator
    Pt0,           \* the first translator, which the timer looks at
    Device,        \* device ids of one thread
    MaxDevices,    \* max_number_of_devices
    MinDevices,    \* min_number_of_devices
    MaxQueue,      \* bound on the requests outstanding at random
    MaxFaults      \* bound on the faults, each of another kind

ASSUME StressAssumption ==
    /\ PtOf \in [Thread -> Pt] /\ Pt0 \in Pt
    /\ MaxDevices \in Nat /\ MinDevices \in Nat /\ MaxQueue \in Nat /\ MaxFaults \in Nat

VARIABLES
    test,       \* where each test thread is
    list,       \* per test thread: its device list
    flag,       \* per test thread: the devices marked as registered
    leaked,     \* test threads whose device_list_mutex stays locked
    api,        \* where each event loop is
    up,         \* per translator: connected
    running,    \* per translator: protocol_translator_api_running
    keep,       \* per translator: keep_running
    down,       \* translators whose pt_client_shutdown was called
    queue,      \* per translator: requests without an answer
    edge,       \* per translator: the devices Edge has
    initiated,  \* shutdown_initiated
    cleaner,    \* the shutdown thread ("signal") and the timer thread
    main,       \* where the main thread is; its test_threads_exited
    crashed,    \* a device that is not listed, or a freed list, was used;
                \* what the model does from then on means nothing
    faults      \* history: the kinds of fault so far

vars == <<test, list, flag, leaked, api, up, running, keep, down, queue, edge,
          initiated, cleaner, main, crashed, faults>>
testVars == <<test, list, flag, leaked>>
ptVars == <<api, up, running, keep, down>>
edgeVars == <<queue, edge>>
endVars == <<initiated, cleaner, main, crashed>>

(* The faults: pt_client_start fails, Edge refuses a translator, the        *)
(* registration of a device, its unregistration, the pt-client refuses a    *)
(* call, the connection breaks, Edge writes to what the device lacks, Edge  *)
(* writes after a list was freed.  A shutdown before the connection exists  *)
(* ("early") is recorded with them.                                         *)
Kind == {"start", "translator", "registration", "unregistration", "send", "link",
         "badWrite", "lateWrite", "early"}
Fault(k) ==
    /\ k \notin faults /\ Cardinality(faults) < MaxFaults
    /\ faults' = faults \union {k}
Happened(k) == k \in faults

Lost == [register |-> "noRegister", unregister |-> "unregister", translator |-> "noTranslator",
         noRegister |-> "noRegister", noTranslator |-> "noTranslator"]
Ids == Thread \X Device
Request(op, t, d) == [op |-> op, dev |-> <<t, d>>]
Outstanding(t, d) == \E i \in 1..Len(queue[PtOf[t]]) : queue[PtOf[t]][i].dev = <<t, d>>

test_threads_exited == main # "tests"

-----------------------------------------------------------------------------
(* The test threads. *)

Ends(t) == initiated \/ ~keep[PtOf[t]]

(* The test at the head of the loop; the action comes after it. *)
test_thread_goes_on(t) ==
    /\ test[t] = "run" /\ ~Ends(t) /\ up[PtOf[t]]
    /\ test' = [test EXCEPT ![t] = "act"]
    /\ UNCHANGED <<list, flag, leaked, ptVars, edgeVars, endVars, faults>>

Acts(t) == test[t] = "act" /\ t \notin leaked /\ test' = [test EXCEPT ![t] = "run"]
Able(t) == up[PtOf[t]] /\ running[PtOf[t]] /\ Len(queue[PtOf[t]]) < MaxQueue

(* Mutant: the limit is tested after it was passed. *)
register_random_device_past(t) ==
    /\ Acts(t) /\ Able(t)
    /\ Cardinality(list[t]) <= MaxDevices
    /\ \E d \in Device \ list[t] :
       /\ ~Outstanding(t, d)
       /\ list' = [list EXCEPT ![t] = @ \union {d}]
       /\ \/ /\ queue' = [queue EXCEPT ![PtOf[t]] = Append(@, Request("register", t, d))]
             /\ UNCHANGED faults
          \/ Fault("send") /\ UNCHANGED queue
    /\ UNCHANGED <<flag, leaked, ptVars, edge, endVars>>

(* rand() gives no id that is listed or still asked about.  An error of     *)
(* pt_register_device is ignored.                                           *)
register_random_device(t) ==
    /\ Acts(t) /\ Able(t)
    /\ Cardinality(list[t]) < MaxDevices
    /\ \E d \in Device \ list[t] :
       /\ ~Outstanding(t, d)
       /\ list' = [list EXCEPT ![t] = @ \union {d}]
       /\ \/ /\ queue' = [queue EXCEPT ![PtOf[t]] = Append(@, Request("register", t, d))]
             /\ UNCHANGED faults
          \/ Fault("send") /\ UNCHANGED queue
    /\ UNCHANGED <<flag, leaked, ptVars, edge, endVars>>

(* Mutant: a device is taken off the list when its unregistration is asked. *)
unregister_device_entry_common_removed(t, S) ==
    /\ queue' = [queue EXCEPT ![PtOf[t]] =
                     @ \o SetToSeq({Request("unregister", t, d) : d \in S})]
    /\ list' = [list EXCEPT ![t] = @ \ S]
    /\ flag' = [flag EXCEPT ![t] = @ \ S]
    /\ UNCHANGED faults

(* The devices of S are asked to be unregistered; one whose request is      *)
(* refused is removed by force, and all are when the connection is lost.    *)
unregister_device_entry_common(t, S) ==
    \E F \in SUBSET S :
        /\ \/ F = {} /\ up[PtOf[t]] /\ UNCHANGED faults
           \/ F = S /\ ~up[PtOf[t]] /\ UNCHANGED faults
           \/ F # {} /\ up[PtOf[t]] /\ Fault("send")
        /\ queue' = [queue EXCEPT ![PtOf[t]] =
                         @ \o SetToSeq({Request("unregister", t, d) : d \in S \ F})]
        /\ list' = [list EXCEPT ![t] = @ \ F]
        /\ flag' = [flag EXCEPT ![t] = @ \ F]

unregister_random_device(t) ==
    /\ Acts(t) /\ Able(t)
    /\ Cardinality(list[t]) > MinDevices
    /\ \E d \in list[t] : unregister_device_entry_common(t, {d})
    /\ UNCHANGED <<leaked, ptVars, edge, endVars>>

(* A random value, or nothing to do. *)
other_action(t) ==
    /\ Acts(t)
    /\ UNCHANGED <<list, flag, leaked, ptVars, edgeVars, endVars, faults>>

(* Mutant: the devices whose registration is not answered yet are left out. *)
unregister_devices_flagged(t) ==
    /\ test[t] = "run" /\ Ends(t) /\ t \notin leaked
    /\ test' = [test EXCEPT ![t] = "waiting"]
    /\ queue' = [queue EXCEPT ![PtOf[t]] =
                     @ \o SetToSeq({Request("unregister", t, d) : d \in flag[t]})]
    /\ UNCHANGED <<list, flag, leaked, ptVars, edge, endVars, faults>>

unregister_devices(t) ==
    /\ test[t] = "run" /\ Ends(t) /\ t \notin leaked
    /\ test' = [test EXCEPT ![t] = "waiting"]
    /\ unregister_device_entry_common(t, list[t])
    /\ UNCHANGED <<leaked, ptVars, edge, endVars>>

(* Mutant: only the devices marked as registered are waited for. *)
test_thread_exits_unflagged(t) ==
    /\ test[t] = "waiting" /\ t \notin leaked
    /\ flag[t] = {}
    /\ test' = [test EXCEPT ![t] = "exited"]
    /\ UNCHANGED <<list, flag, leaked, ptVars, edgeVars, endVars, faults>>

(* The list is freed and its mutex destroyed. *)
test_thread_exits(t) ==
    /\ test[t] = "waiting" /\ t \notin leaked
    /\ list[t] = {} /\ flag[t] = {}
    /\ test' = [test EXCEPT ![t] = "exited"]
    /\ UNCHANGED <<list, flag, leaked, ptVars, edgeVars, endVars, faults>>

-----------------------------------------------------------------------------
(* The event loops. *)

(* pt_client_start makes the connection and enters the loop, or fails. *)
protocol_translator_api_start(p) ==
    /\ api[p] = "start"
    /\ \/ api' = [api EXCEPT ![p] = "events"] /\ UNCHANGED <<keep, faults>>
       \/ /\ Fault("start")
          /\ api' = [api EXCEPT ![p] = "ended"] /\ keep' = [keep EXCEPT ![p] = FALSE]
    /\ UNCHANGED <<up, running, down, testVars, edgeVars, endVars>>

(* The connection is freed when the loop ends. *)
protocol_translator_api_ends(p) ==
    /\ api[p] = "events" /\ p \in down
    /\ api' = [api EXCEPT ![p] = "ended"] /\ keep' = [keep EXCEPT ![p] = FALSE]
    /\ UNCHANGED <<up, running, down, testVars, edgeVars, endVars, faults>>

(* The request to register the translator is answered first.  Where it      *)
(* cannot be sent, the event loop itself runs shutdown_and_cleanup, and the *)
(* connection counts as made only after that.                               *)
connection_ready_handler(p) ==
    /\ api[p] = "events" /\ ~up[p]
    /\ \/ /\ up' = [up EXCEPT ![p] = TRUE]
          /\ queue' = [queue EXCEPT ![p] = Append(@, [op |-> "translator", dev |-> <<>>])]
          /\ UNCHANGED <<api, faults>>
       \/ /\ Fault("send")
          /\ api' = [api EXCEPT ![p] = "connecting"]
          /\ UNCHANGED <<up, queue>>
    /\ UNCHANGED <<running, keep, down, edge, testVars, endVars>>

(* Requests that are outstanding fail: Edge has no device any more, and the *)
(* registrations are lost.                                                  *)
disconnected_handler(p) ==
    /\ api[p] = "events" /\ up[p]
    /\ Fault("link")
    /\ up' = [up EXCEPT ![p] = FALSE]
    /\ edge' = [edge EXCEPT ![p] = {}]
    /\ LET q == queue[p] IN
       queue' = [queue EXCEPT ![p] =
                     [i \in 1..Len(q) |-> [q[i] EXCEPT !.op = Lost[q[i].op]]]]
    /\ UNCHANGED <<api, running, keep, down, testVars, endVars>>

(* The answer to the oldest request, of kind op. *)
Answer(p, op) ==
    /\ api[p] = "events" /\ queue[p] # <<>> /\ Head(queue[p]).op = op
    /\ queue' = [queue EXCEPT ![p] = Tail(@)]

protocol_translator_registration_success(p) ==
    /\ Answer(p, "translator")
    /\ running' = [running EXCEPT ![p] = TRUE]
    /\ UNCHANGED <<api, up, keep, down, edge, testVars, endVars, faults>>

protocol_translator_registration_failure(p) ==
    /\ \/ Answer(p, "translator") /\ Fault("translator")
       \/ Answer(p, "noTranslator") /\ UNCHANGED faults
    /\ keep' = [keep EXCEPT ![p] = FALSE]
    /\ api' = [api EXCEPT ![p] = "cleaning"]
    /\ UNCHANGED <<up, running, down, edge, testVars, endVars>>

(* A device that is not on the list is dereferenced all the same. *)
Uses(t, d) == crashed' = (crashed \/ d \notin list[t])

device_registration_success(p) ==
    /\ Answer(p, "register")
    /\ LET t == Head(queue[p]).dev[1]  d == Head(queue[p]).dev[2] IN
       /\ t \notin leaked
       /\ Uses(t, d)
       /\ flag' = [flag EXCEPT ![t] = @ \union ({d} \cap list[t])]
       /\ edge' = [edge EXCEPT ![p] = @ \union {<<t, d>>}]
    /\ UNCHANGED <<test, list, leaked, ptVars, initiated, cleaner, main, faults>>

device_registration_failure(p) ==
    /\ \/ Answer(p, "register") /\ Fault("registration")
       \/ Answer(p, "noRegister") /\ UNCHANGED faults
    /\ keep' = [keep EXCEPT ![p] = FALSE]
    /\ UNCHANGED <<api, up, running, down, edge, testVars, endVars>>

device_unregistration_success(p) ==
    /\ Answer(p, "unregister") /\ Head(queue[p]).dev \in edge[p]
    /\ LET t == Head(queue[p]).dev[1]  d == Head(queue[p]).dev[2] IN
       /\ t \notin leaked
       /\ Uses(t, d)
       /\ list' = [list EXCEPT ![t] = @ \ {d}]
       /\ flag' = [flag EXCEPT ![t] = @ \ {d}]
       /\ edge' = [edge EXCEPT ![p] = @ \ {<<t, d>>}]
    /\ UNCHANGED <<test, leaked, ptVars, initiated, cleaner, main, faults>>

(* A device Edge does not have, or any; only a message is written. *)
device_unregistration_failure(p) ==
    /\ Answer(p, "unregister")
    /\ \/ Head(queue[p]).dev \notin edge[p] /\ UNCHANGED faults
       \/ Fault("unregistration")
    /\ UNCHANGED <<edge, ptVars, testVars, endVars>>

(* Edge writes to a device: the lists of all threads are searched, freed    *)
(* ones too, and one stays locked when the resource is not found.           *)
received_write_handler(p) ==
    /\ api[p] = "events" /\ up[p]
    /\ \/ /\ \E t \in Thread : test[t] = "exited"
          /\ Fault("lateWrite")
          /\ crashed' = TRUE /\ UNCHANGED leaked
       \/ /\ Fault("badWrite")
          /\ \E t \in Thread : list[t] # {} /\ leaked' = leaked \union {t}
          /\ UNCHANGED crashed
    /\ UNCHANGED <<test, list, flag, ptVars, edgeVars, initiated, cleaner, main>>

-----------------------------------------------------------------------------
(* Shutdown. *)

(* Mutant: the connections are shut down without waiting. *)
shutdown_and_cleanup_at_once ==
    /\ down' = down \union {p \in Pt : api[p] \notin {"start", "ended"}}
    /\ keep' = [p \in Pt |-> FALSE]
    /\ faults' = faults \union (IF \E p \in Pt : api[p] = "start" THEN {"early"} ELSE {})

(* shutdown_and_cleanup, after its wait; a connection that does not exist   *)
(* yet is passed over.                                                      *)
shutdown_and_cleanup ==
    /\ test_threads_exited
    /\ down' = down \union {p \in Pt : api[p] \notin {"start", "ended"}}
    /\ keep' = [p \in Pt |-> FALSE]
    /\ faults' = faults \union (IF \E p \in Pt : api[p] = "start" THEN {"early"} ELSE {})

(* On the event loop itself. *)
api_cleanup(p) ==
    /\ api[p] \in {"connecting", "cleaning"}
    /\ shutdown_and_cleanup
    /\ api' = [api EXCEPT ![p] = "events"]
    /\ up' = [up EXCEPT ![p] = @ \/ api[p] = "connecting"]
    /\ UNCHANGED <<running, testVars, edgeVars, endVars>>

shutdown_handler ==
    /\ ~initiated /\ cleaner["signal"] = "none" /\ main # "exit"
    /\ initiated' = TRUE
    /\ cleaner' = [cleaner EXCEPT !["signal"] = "cleaning"]
    /\ UNCHANGED <<main, crashed, testVars, ptVars, edgeVars, faults>>

shutdown_thread_func ==
    /\ cleaner["signal"] = "cleaning"
    /\ shutdown_and_cleanup
    /\ cleaner' = [cleaner EXCEPT !["signal"] = "ended"]
    /\ UNCHANGED <<initiated, main, crashed, api, up, running, testVars, edgeVars>>

(* The test duration is over: the timer thread looks at the flag ... *)
timer_expires ==
    /\ cleaner["timer"] = "none" /\ keep[Pt0] /\ ~initiated
    /\ cleaner' = [cleaner EXCEPT !["timer"] = "expired"]
    /\ UNCHANGED <<initiated, main, crashed, testVars, ptVars, edgeVars, faults>>

(* ... and sets it; a signal may have come in between. *)
timer_initiates ==
    /\ cleaner["timer"] = "expired"
    /\ initiated' = TRUE
    /\ cleaner' = [cleaner EXCEPT !["timer"] = "cleaning"]
    /\ UNCHANGED <<main, crashed, testVars, ptVars, edgeVars, faults>>

timer_cleanup ==
    /\ cleaner["timer"] = "cleaning"
    /\ shutdown_and_cleanup
    /\ cleaner' = [cleaner EXCEPT !["timer"] = "none"]
    /\ UNCHANGED <<initiated, main, crashed, api, up, running, testVars, edgeVars>>

(* The loop of the timer thread depends on the first translator only. *)
timer_thread_ends ==
    /\ cleaner["timer"] = "none" /\ ~keep[Pt0]
    /\ cleaner' = [cleaner EXCEPT !["timer"] = "ended"]
    /\ UNCHANGED <<initiated, main, crashed, testVars, ptVars, edgeVars, faults>>

wait_for_test_threads ==
    /\ main = "tests" /\ \A t \in Thread : test[t] = "exited"
    /\ main' = "apis"
    /\ UNCHANGED <<initiated, cleaner, crashed, testVars, ptVars, edgeVars, faults>>

wait_for_protocol_translator_api_threads ==
    /\ main = "apis" /\ \A p \in Pt : api[p] = "ended"
    /\ main' = "threads"
    /\ UNCHANGED <<initiated, cleaner, crashed, testVars, ptVars, edgeVars, faults>>

main_ends ==
    /\ main = "threads"
    /\ cleaner["signal"] # "cleaning" /\ cleaner["timer"] = "ended"
    /\ main' = "exit"
    /\ UNCHANGED <<initiated, cleaner, crashed, testVars, ptVars, edgeVars, faults>>

-----------------------------------------------------------------------------
Init ==
    /\ test = [t \in Thread |-> "run"]
    /\ list = [t \in Thread |-> {}] /\ flag = [t \in Thread |-> {}] /\ leaked = {}
    /\ api = [p \in Pt |-> "start"] /\ up = [p \in Pt |-> FALSE]
    /\ running = [p \in Pt |-> FALSE] /\ keep = [p \in Pt |-> TRUE] /\ down = {}
    /\ queue = [p \in Pt |-> <<>>] /\ edge = [p \in Pt |-> {}]
    /\ initiated = FALSE /\ cleaner = [c \in {"signal", "timer"} |-> "none"]
    /\ main = "tests" /\ crashed = FALSE /\ faults = {}

TestStep(t) ==
    \/ test_thread_goes_on(t)
    \/ register_random_device(t) \/ unregister_random_device(t) \/ other_action(t)
    \/ unregister_devices(t) \/ test_thread_exits(t)

AnswerStep(p) ==
    \/ protocol_translator_registration_success(p)
    \/ protocol_translator_registration_failure(p)
    \/ device_registration_success(p) \/ device_registration_failure(p)
    \/ device_unregistration_success(p) \/ device_unregistration_failure(p)

ApiStep(p) ==
    protocol_translator_api_start(p) \/ protocol_translator_api_ends(p) \/ api_cleanup(p)

EndStep ==
    \/ shutdown_thread_func \/ timer_initiates \/ timer_cleanup \/ timer_thread_ends
    \/ wait_for_test_threads \/ wait_for_protocol_translator_api_threads \/ main_ends

Next ==
    \/ \E t \in Thread : TestStep(t)
    \/ \E p \in Pt : AnswerStep(p) \/ ApiStep(p)
    \/ \E p \in Pt : connection_ready_handler(p) \/ disconnected_handler(p)
                     \/ received_write_handler(p)
    \/ shutdown_handler \/ timer_expires \/ EndStep

Spec == Init /\ [][Next]_vars

(* Every thread runs and every request is answered; Edge need not be there. *)
Fairness ==
    /\ \A t \in Thread : WF_vars(TestStep(t))
    /\ \A p \in Pt : WF_vars(AnswerStep(p)) /\ WF_vars(ApiStep(p))
    /\ WF_vars(shutdown_thread_func)
    /\ WF_vars(timer_initiates \/ timer_cleanup \/ timer_thread_ends)
    /\ WF_vars((wait_for_test_threads \/ main_ends
                            \/ wait_for_protocol_translator_api_threads))

FairSpec == Spec /\ Fairness

-----------------------------------------------------------------------------
(* Properties. *)

TypeOK ==
    /\ test \in [Thread -> {"run", "act", "waiting", "exited"}]
    /\ list \in [Thread -> SUBSET Device] /\ flag \in [Thread -> SUBSET Device]
    /\ \A t \in Thread : flag[t] \subseteq list[t] /\ Cardinality(list[t]) <= MaxDevices
    /\ leaked \subseteq Thread
    /\ api \in [Pt -> {"start", "events", "connecting", "cleaning", "ended"}]
    /\ up \in [Pt -> BOOLEAN] /\ running \in [Pt -> BOOLEAN] /\ keep \in [Pt -> BOOLEAN]
    /\ down \subseteq Pt
    /\ \A p \in Pt : queue[p] \in Seq([op : {"register", "unregister", "translator",
                                             "noRegister", "noTranslator"},
                                       dev : Ids \union {<<>>}])
    /\ edge \in [Pt -> SUBSET Ids]
    /\ initiated \in BOOLEAN /\ crashed \in BOOLEAN
    /\ cleaner \in [{"signal", "timer"} -> {"none", "expired", "cleaning", "ended"}]
    /\ main \in {"tests", "apis", "threads", "exit"}
    /\ faults \in SUBSET Kind

(* "find_device" is never tested for NULL: an answer finds its device on    *)
(* the list of its thread, whatever the thread did to its devices since it  *)
(* asked, unless a device was removed by force or a list was freed.         *)
AnswersFindDevices == crashed => Happened("send") \/ Happened("lateWrite")

(* shutdown_and_cleanup, "Wait for the test threads to exit so we can       *)
(* unregister all devices robustly": when a connection is shut down no test *)
(* thread holds a device, and, unless something failed, Edge has none.      *)
ShutDownDrained ==
    down # {} => /\ \A t \in Thread : test[t] = "exited" /\ list[t] = {}
                 /\ faults \subseteq {"early", "start"} => \A p \in Pt : edge[p] = {}

(* A test thread, on its own, ends in order: devices are taken on while it  *)
(* tests, unregistered when it is told to end, and it exits with an empty   *)
(* list.                                                                    *)
Phase ==
    [run |-> "running", act |-> "running", waiting |-> "draining", exited |-> "stopped"]

D == INSTANCE Drain WITH
         Owner <- Thread, Thing <- Device,
         phase <- [t \in Thread |-> Phase[test[t]]], held <- list

Drains == D!Spec

(* main, "runs them until the user interrupts or the test duration has      *)
(* expired": once the shutdown is initiated, by whichever of the two or by  *)
(* both at once, the process ends.  It may not when a device could not be   *)
(* unregistered or a mutex was left locked, and a shutdown that finds no    *)
(* connection does not stop it.                                             *)
ShutdownEnds ==
    initiated ~> \/ main = "exit" \/ crashed
                 \/ faults \cap {"registration", "unregistration", "send", "link",
                                 "badWrite", "early"} # {}
=============================================================================
