------------------------------- MODULE MqttPt -------------------------------
(***************************************************************************)
(* The MQTT translator (mqttpt-example/mqttpt_example.c).                  *)
(*                                                                         *)
(* The main thread runs the mosquitto loop and, inside it, one handler per *)
(* MQTT message; the first message that needs it starts the thread of the  *)
(* pt-client, whose callbacks extend the list of known devices and publish *)
(* the answers to requests.  No lock is shared: the threads meet in two    *)
(* semaphores, in the list and in the order of what they publish.          *)
(*                                                                         *)
(* A message is one step up to its last call of the pt-client or its last  *)
(* look at the list, and one step for what follows.  Resources and values  *)
(* are left out.  The pt-client, Edge and the broker are external.         *)
(***************************************************************************)
EXTENDS Naturals, Sequences, FiniteSets

CONSTANTS
    Device,        \* deveui of the nodes behind the MQTT gateway
    Request,       \* request_id of the requests on topic MQTT/Evt
    MaxSignals,    \* bound on SIGTERM and SIGINT
    MaxAsked,      \* bound on registrations of one device under way
    MaxFaults      \* bound on the faults, each of another kind

ASSUME MqttPtAssumption ==
    MaxSignals \in Nat /\ MaxAsked \in Nat /\ MaxFaults \in Nat

VARIABLES
    at,         \* where each thread is
    cur,        \* what the main thread is about to send or publish
    adding,     \* the device the pt-client's thread is about to list
    started,    \* value of mqttpt_translator_started
    mosqStop,   \* value of mosquitto_stop
    link,       \* g_connection_id names a live connection
    reg,        \* the translator's registration: "none", "asked", "answered"
    asked,      \* per device: registrations sent and not answered
    listed,     \* per device: entries in mqttpt_devices
    pend,       \* per request: the kind of call that is not answered yet
    pub,        \* history, per request: what was published about it
    unreg,      \* pt_devices_unregister_devices is outstanding
    shutdown,   \* pt_client_shutdown has been called
    threads,    \* history: threads created
    signals,    \* history: signals so far
    faults      \* history: the kinds of fault so far

vars == <<at, cur, adding, started, mosqStop, link, reg, asked, listed, pend,
          pub, unreg, shutdown, threads, signals, faults>>
semVars == <<started, mosqStop, threads, signals>>
deviceVars == <<asked, listed, adding>>
requestVars == <<pend, pub>>
edgeVars == <<link, reg, unreg, shutdown>>

Main == "main"
Pt == "pt"
Thread == {Main, Pt}
At(t, p) == at[t] = p
Go(t, q) == at' = [at EXCEPT ![t] = q]

(* The faults: pt_client_start fails, Edge refuses the translator or the    *)
(* device, a call of the pt-client is refused, memory runs out, the         *)
(* connection breaks, the broker cannot be reached.                         *)
Kind == {"start", "refusal", "send", "memory", "link", "broker"}
Fault(k) ==
    /\ k \notin faults /\ Cardinality(faults) < MaxFaults
    /\ faults' = faults \union {k}
Happened(k) == k \in faults

Nothing == [op |-> "nothing", of |-> "nothing"]

-----------------------------------------------------------------------------
(* The main thread: start. *)

(* sem_init resets what a signal has posted since setup_signals. *)
mosquitto_connect ==
    /\ At(Main, "start")
    /\ \/ mosqStop' = 0 /\ Go(Main, "loop") /\ UNCHANGED faults
       \/ Fault("broker") /\ Go(Main, "failed") /\ UNCHANGED mosqStop
    /\ UNCHANGED <<cur, started, threads, signals, deviceVars, requestVars, edgeVars>>

shutdown_handler ==
    /\ signals < MaxSignals
    /\ at[Main] \notin {"exit", "failed", "crashed"}
    /\ signals' = signals + 1 /\ mosqStop' = mosqStop + 1
    /\ UNCHANGED <<at, cur, started, threads, deviceVars, requestVars, edgeVars,
                   faults>>

(* Mutant: the semaphore is left to the callback that reports success. *)
mqttpt_start_translator_no_post(q) ==
    /\ started = 0
    /\ threads' = threads + 1
    /\ at' = [at EXCEPT ![Pt] = "events", ![Main] = q]
    /\ UNCHANGED <<started, mosqStop, signals>>

(* The main thread starts the other one and goes on to q. *)
mqttpt_start_translator(q) ==
    /\ started = 0
    /\ threads' = threads + 1
    /\ at' = [at EXCEPT ![Pt] = "events", ![Main] = q]
    /\ started' = started + 1
    /\ UNCHANGED <<mosqStop, signals>>

-----------------------------------------------------------------------------
(* The main thread: messages that come to nothing. *)

(* Dropped: no JSON, no payload_field, no device object, no value at all.   *)
(* What is reported of a request without request_id names no request.       *)
message_dropped ==
    /\ At(Main, "loop")
    /\ Go(Main, "check")
    /\ UNCHANGED <<cur, semVars, deviceVars, requestVars, edgeVars, faults>>

(* What is not there is dereferenced. *)
Crash == at' = [t \in Thread |-> "crashed"] /\ cur' = Nothing /\ UNCHANGED <<pend, faults>>

(* A method, or a value of a device, that is not a string. *)
message_crashes ==
    /\ At(Main, "loop")
    /\ Crash
    /\ UNCHANGED <<pub, semVars, deviceVars, edgeVars>>

-----------------------------------------------------------------------------
(* The main thread: value messages of a device. *)

(* Mutant: the result of strcmp is taken for a truth value. *)
mqttpt_device_exists_strcmp(d) == \E e \in Device \ {d} : listed[e] > 0

mqttpt_device_exists(d) == listed[d] > 0

(* The message that starts the translator is itself dropped. *)
value_message_starts ==
    /\ At(Main, "loop")
    /\ mqttpt_start_translator("check")
    /\ UNCHANGED <<cur, deviceVars, requestVars, edgeVars, faults>>

(* The device object is created unless there is one (a failure ends the     *)
(* message), then the list decides what to do with the values.              *)
value_message_decide(d) ==
    /\ At(Main, "loop") /\ started > 0 /\ link /\ asked[d] < MaxAsked
    /\ cur' = [op |-> IF mqttpt_device_exists(d) THEN "write" ELSE "register", of |-> d]
    /\ Go(Main, "send")
    /\ UNCHANGED <<asked, listed, adding, semVars, requestVars, edgeVars, faults>>

mqttpt_translate_node_value_message(d) ==
    value_message_starts \/ value_message_decide(d)

(* pt_device_register and pt_device_write_values; the answer to a write     *)
(* only frees its context.                                                  *)
value_message_send ==
    /\ At(Main, "send")
    /\ LET d == cur.of IN
       \/ /\ link /\ cur.op = "register"
          /\ asked' = [asked EXCEPT ![d] = @ + 1]
          /\ UNCHANGED faults
       \/ link /\ cur.op = "write" /\ UNCHANGED <<asked, faults>>
       \/ (Fault("send") \/ (~link /\ UNCHANGED faults)) /\ UNCHANGED asked
    /\ cur' = Nothing
    /\ Go(Main, "check")
    /\ UNCHANGED <<listed, adding, semVars, requestVars, edgeVars>>

-----------------------------------------------------------------------------
(* The main thread: requests on topic MQTT/Evt.  A request carries all its  *)
(* parameters ("full"), not all of them ("partial") or no object ("none").  *)

Status(r, s) == cur' = [op |-> s, of |-> r] /\ Go(Main, "publish")

Refuse(r) == Status(r, "refused") /\ UNCHANGED <<pend, faults>>

(* A call of the pt-client: accepted, and answered later, or refused. *)
Ask(r, k) ==
    \/ /\ link
       /\ pend' = [pend EXCEPT ![r] = k]
       /\ Status(r, "handled")
       /\ UNCHANGED faults
    \/ ~link /\ Refuse(r)
    \/ Fault("send") /\ Status(r, "refused") /\ UNCHANGED pend

(* Parameters that are tested, and parameters that are not. *)
Tested(r, k, p) == (p = "full" /\ Ask(r, k)) \/ (p = "partial" /\ Refuse(r))
Untested(r, k, p) == (p = "full" /\ Ask(r, k)) \/ (p = "partial" /\ Crash)

(* A missing list is an empty one. *)
set_certificates_list(r, p) == p # "none" /\ Ask(r, "list")

renew_certificate(r, p) == Untested(r, "renew", p)
get_certificate(r, p) == Tested(r, "item", p)
get_public_key(r, p) == Tested(r, "item", p)
generate_random(r, p) == Tested(r, "crypto", p)

(* The name is tested after the data has been decoded. *)
asymmetric_sign(r, p) == Untested(r, "crypto", p) \/ (p = "partial" /\ Refuse(r))
asymmetric_verify(r, p) == Untested(r, "crypto", p) \/ (p = "partial" /\ Refuse(r))
ecdh_key_agreement(r, p) == Untested(r, "crypto", p) \/ (p = "partial" /\ Refuse(r))

(* The test jumps over the initialisation of req_id, which is then freed:   *)
(* what that does is undefined.                                             *)
device_renew_certificate(r, p) ==
    Tested(r, "device", p) \/ (p = "partial" /\ Crash)

(* Unknown methods, none, and start_pt with a translator that is started. *)
unknown_method(r) == Refuse(r)

start_pt(r) ==
    /\ mqttpt_start_translator("publish")
    /\ cur' = [op |-> "handled", of |-> r]
    /\ UNCHANGED <<pend, faults>>

(* Mutant: the else before the last branch is missing: a request that was   *)
(* sent is reported as an unknown one.                                      *)
gw_status_method_falls_through(r, p) ==
    /\ \/ \/ p # "none" /\ link /\ pend' = [pend EXCEPT ![r] = "list"] /\ Status(r, "refused")
       \/ get_certificate(r, p) \/ unknown_method(r)
    /\ UNCHANGED <<semVars, faults>>

gw_status_method(r, p) ==
    \/ /\ \/ set_certificates_list(r, p) \/ renew_certificate(r, p)
          \/ get_certificate(r, p) \/ get_public_key(r, p) \/ generate_random(r, p)
          \/ asymmetric_sign(r, p) \/ asymmetric_verify(r, p)
          \/ ecdh_key_agreement(r, p) \/ device_renew_certificate(r, p)
          \/ unknown_method(r)
       /\ UNCHANGED semVars
    \/ p = "none" /\ start_pt(r)

mqttpt_translate_gw_status_message(r, p) ==
    /\ At(Main, "loop") /\ pub[r] = <<>> /\ pend[r] = "none"
    /\ gw_status_method(r, p)
    /\ UNCHANGED <<pub, deviceVars, edgeVars>>

(* The last lines of the handler; without memory the report is lost.  The   *)
(* answer may have been published before, by the other thread.              *)
gw_status_publish ==
    /\ At(Main, "publish")
    /\ \/ pub' = [pub EXCEPT ![cur.of] = Append(@, cur.op)] /\ UNCHANGED faults
       \/ Fault("memory") /\ UNCHANGED pub
    /\ cur' = Nothing
    /\ Go(Main, "check")
    /\ UNCHANGED <<pend, deviceVars, semVars, edgeVars>>

-----------------------------------------------------------------------------
(* The main thread: shutdown. *)

(* The semaphore is read after each message, and when none comes. *)
mosquitto_loop ==
    /\ \/ At(Main, "check") /\ mosqStop = 0 /\ Go(Main, "loop")
       \/ at[Main] \in {"loop", "check"} /\ mosqStop > 0 /\ Go(Main, "cleanup")
    /\ UNCHANGED <<cur, semVars, deviceVars, requestVars, edgeVars, faults>>

shutdown_and_cleanup ==
    /\ At(Main, "cleanup")
    /\ \/ started = 0 /\ UNCHANGED <<unreg, shutdown, faults>>
       \/ started > 0 /\ link /\ unreg' = TRUE /\ UNCHANGED <<shutdown, faults>>
       \/ /\ started > 0
          /\ Fault("send") \/ (~link /\ UNCHANGED faults)
          /\ shutdown' = TRUE /\ UNCHANGED unreg
    /\ Go(Main, "join")
    /\ UNCHANGED <<cur, link, reg, semVars, deviceVars, requestVars>>

(* The client is freed at the end. *)
join_and_free ==
    /\ At(Main, "join")
    /\ started = 0 \/ At(Pt, "ended")
    /\ Go(Main, "exit")
    /\ UNCHANGED <<cur, semVars, deviceVars, requestVars, edgeVars, faults>>

-----------------------------------------------------------------------------
(* The pt-client's thread. *)

(* Before the first connection.  The semaphore stays posted. *)
pt_client_start_fails ==
    /\ At(Pt, "events") /\ ~link /\ ~Happened("link")
    /\ Fault("start")
    /\ Go(Pt, "ended")
    /\ UNCHANGED <<cur, semVars, deviceVars, requestVars, edgeVars>>

mqttpt_connection_ready_handler ==
    /\ At(Pt, "events") /\ ~link
    /\ link' = TRUE /\ reg' = "asked"
    /\ UNCHANGED <<at, cur, unreg, shutdown, semVars, deviceVars, requestVars, faults>>

(* The connection is lost; its answers come as failures.  The list of       *)
(* devices is kept.                                                         *)
mqttpt_disconnected_handler ==
    /\ At(Pt, "events") /\ link
    /\ Fault("link")
    /\ link' = FALSE /\ reg' = "none"
    /\ UNCHANGED <<at, cur, unreg, shutdown, semVars, deviceVars, requestVars>>

(* Posted once more at every reconnection. *)
mqttpt_protocol_translator_registration_success_handler ==
    /\ At(Pt, "events") /\ reg = "asked"
    /\ reg' = "answered"
    /\ started' = started + 1
    /\ UNCHANGED <<at, cur, mosqStop, threads, signals, link, unreg, shutdown,
                   deviceVars, requestVars, faults>>

mqttpt_protocol_translator_registration_failure_handler ==
    /\ At(Pt, "events") /\ reg = "asked"
    /\ Fault("refusal")
    /\ reg' = "answered"
    /\ mosqStop' = mosqStop + 1
    /\ UNCHANGED <<at, cur, started, threads, signals, link, unreg, shutdown,
                   deviceVars, requestVars>>

(* Success is published first, ... *)
mqttpt_device_register_success_handler(d) ==
    /\ At(Pt, "events") /\ asked[d] > 0
    /\ asked' = [asked EXCEPT ![d] = @ - 1]
    /\ adding' = {d}
    /\ Go(Pt, "adding")
    /\ UNCHANGED <<cur, listed, semVars, requestVars, edgeVars, faults>>

(* ... then the device is listed, unless memory runs out. *)
mqttpt_add_device(d) ==
    /\ At(Pt, "adding") /\ d \in adding
    /\ \/ listed' = [listed EXCEPT ![d] = @ + 1] /\ UNCHANGED faults
       \/ Fault("memory") /\ UNCHANGED listed
    /\ adding' = {}
    /\ Go(Pt, "events")
    /\ UNCHANGED <<cur, asked, semVars, requestVars, edgeVars>>

mqttpt_device_register_failure_handler(d) ==
    /\ At(Pt, "events") /\ asked[d] > 0
    /\ Fault("refusal")
    /\ asked' = [asked EXCEPT ![d] = @ - 1]
    /\ UNCHANGED <<at, cur, listed, adding, semVars, requestVars, edgeVars>>

(* The answer to a request of kind k is published, or lost. *)
Answered(r, k) ==
    /\ At(Pt, "events") /\ pend[r] = k
    /\ pend' = [pend EXCEPT ![r] = "none"]
    /\ UNCHANGED <<at, cur, semVars, deviceVars, edgeVars>>

Published(r) == pub' = [pub EXCEPT ![r] = Append(@, "answer")] /\ UNCHANGED faults
Lost == Fault("memory") /\ UNCHANGED pub

certificate_renew_handler(r) == Answered(r, "renew") /\ (Published(r) \/ Lost)

(* Mutant: the failure handler of an item reports nothing. *)
get_item_handler_silent(r) ==
    Answered(r, "item") /\ (Published(r) \/ UNCHANGED <<pub, faults>>)

get_item_handler(r) == Answered(r, "item") /\ (Published(r) \/ Lost)
crypto_handler(r) == Answered(r, "crypto") /\ (Published(r) \/ Lost)
certificates_set_handler(r) == Answered(r, "list") /\ (Published(r) \/ Lost)
device_certificate_renew_handler(r) == Answered(r, "device") /\ (Published(r) \/ Lost)

request_handler(r) ==
    \/ certificate_renew_handler(r) \/ get_item_handler(r) \/ crypto_handler(r)
    \/ certificates_set_handler(r) \/ device_certificate_renew_handler(r)

(* Mutant: only success shuts the client down, and success needs a link. *)
mqttpt_devices_unregister_handler_success ==
    /\ At(Pt, "events") /\ unreg
    /\ unreg' = FALSE /\ shutdown' = (shutdown \/ link)
    /\ UNCHANGED <<at, cur, link, reg, semVars, deviceVars, requestVars, faults>>

(* Success and failure alike. *)
mqttpt_devices_unregister_handler ==
    /\ At(Pt, "events") /\ unreg
    /\ unreg' = FALSE /\ shutdown' = TRUE
    /\ UNCHANGED <<at, cur, link, reg, semVars, deviceVars, requestVars, faults>>

(* pt_client_start returns. *)
translator_thread_ends ==
    /\ At(Pt, "events") /\ shutdown
    /\ Go(Pt, "ended")
    /\ UNCHANGED <<cur, semVars, deviceVars, requestVars, edgeVars, faults>>

-----------------------------------------------------------------------------
Init ==
    /\ at = [t \in Thread |-> IF t = Main THEN "start" ELSE "none"]
    /\ cur = Nothing /\ adding = {}
    /\ started = 0 /\ mosqStop = 0 /\ threads = 0 /\ signals = 0
    /\ link = FALSE /\ reg = "none" /\ unreg = FALSE /\ shutdown = FALSE
    /\ asked = [d \in Device |-> 0] /\ listed = [d \in Device |-> 0]
    /\ pend = [r \in Request |-> "none"] /\ pub = [r \in Request |-> <<>>]
    /\ faults = {}

Message ==
    \/ message_dropped \/ message_crashes
    \/ \E d \in Device : mqttpt_translate_node_value_message(d)
    \/ \E r \in Request, p \in {"full", "partial", "none"} :
           mqttpt_translate_gw_status_message(r, p)

MainStep ==
    \/ mosquitto_connect \/ value_message_send \/ gw_status_publish
    \/ mosquitto_loop \/ shutdown_and_cleanup \/ join_and_free

Callback ==
    \/ mqttpt_protocol_translator_registration_success_handler
    \/ mqttpt_protocol_translator_registration_failure_handler
    \/ \E d \in Device : \/ mqttpt_device_register_success_handler(d)
                         \/ mqttpt_device_register_failure_handler(d)
                         \/ mqttpt_add_device(d)
    \/ \E r \in Request : request_handler(r)
    \/ mqttpt_devices_unregister_handler

(* The process is over. *)
Over == at[Main] \in {"exit", "failed", "crashed"}

Next ==
    \/ Message \/ shutdown_handler \/ MainStep \/ Callback
    \/ pt_client_start_fails \/ mqttpt_connection_ready_handler
    \/ mqttpt_disconnected_handler \/ translator_thread_ends

Spec == Init /\ [][Next]_vars

(* Both threads run (mosquitto_loop returns after a second when nothing     *)
(* comes), and the pt-client answers whatever it accepted.  Nothing obliges *)
(* Edge, the broker's clients or the user to do anything.                   *)
Fairness ==
    /\ WF_vars(MainStep)
    /\ \A d \in Device : WF_vars(mqttpt_add_device(d))
    /\ \A r \in Request : WF_vars(request_handler(r))
    /\ WF_vars(mqttpt_devices_unregister_handler)
    /\ WF_vars(translator_thread_ends)

FairSpec == Spec /\ Fairness

-----------------------------------------------------------------------------
(* Properties. *)

TypeOK ==
    /\ at[Main] \in {"start", "loop", "check", "send", "publish", "cleanup", "join",
                     "exit", "failed", "crashed"}
    /\ at[Pt] \in {"none", "events", "adding", "ended", "crashed"}
    /\ cur \in [op : {"nothing", "register", "write", "handled", "refused"},
                of : Device \union Request \union {"nothing"}]
    /\ adding \in SUBSET Device
    /\ started \in Nat /\ mosqStop \in Nat /\ threads \in Nat /\ signals \in 0..MaxSignals
    /\ link \in BOOLEAN /\ unreg \in BOOLEAN /\ shutdown \in BOOLEAN
    /\ reg \in {"none", "asked", "answered"}
    /\ asked \in [Device -> 0..MaxAsked] /\ listed \in [Device -> 0..(MaxAsked + 1)]
    /\ pend \in [Request -> {"none", "list", "renew", "item", "crypto", "device"}]
    /\ \A r \in Request : Len(pub[r]) <= 2
    /\ faults \in SUBSET Kind

(* mqttpt_thread is one variable, and pt_client_free takes no care of       *)
(* callbacks: whatever messages come, the translator is started at most     *)
(* once, and the main thread frees the client only when the thread it       *)
(* started, if any, has ended.                                              *)
ThreadJoined ==
    /\ threads <= 1
    /\ At(Main, "exit") => at[Pt] \in {"none", "ended"}

(* What is published about a request agrees with what became of it: a       *)
(* request that was refused is not waiting for an answer and gets none, one *)
(* that was answered waits no longer, and an answer published first is      *)
(* followed by the main thread's own report, whichever thread is faster,    *)
(* unless the memory for a report was missing.                              *)
PublishedAgrees ==
    \A r \in Request :
        LET P == {pub[r][i] : i \in 1..Len(pub[r])} IN
        /\ "refused" \in P => P = {"refused"} /\ Len(pub[r]) = 1 /\ pend[r] = "none"
        /\ "answer" \in P => pend[r] = "none"
        /\ "answer" \in P /\ Len(pub[r]) = 1
              => cur = [op |-> "handled", of |-> r] \/ Happened("memory")

(* Before the main thread joins the other one it has made sure that it ends: *)
(* the thread was never started, it has ended, its client is shut down or    *)
(* the answer that shuts it down is still to come, whatever became of the    *)
(* connection since the devices were to be unregistered.                     *)
ShutdownPursued ==
    At(Main, "join") =>
        \/ started = 0 /\ At(Pt, "none")
        \/ started > 0 /\ (At(Pt, "ended") \/ shutdown \/ unreg)

(* setup_signals, "shutting down the protocol translator client             *)
(* gracefully": once the semaphore is posted in the mosquitto loop, by a    *)
(* signal or by a refused registration, the process ends, wherever the      *)
(* pt-client's thread is and whatever connection it has.                    *)
ShutdownEnds == mosqStop > 0 /\ ~At(Main, "start") ~> Over

(* A request that was handled is answered, unless the client is shut down,  *)
(* the process crashes or memory runs out.                                  *)
RequestsAnswered ==
    \A r \in Request :
        pend[r] # "none" ~> \/ "answer" \in {pub[r][i] : i \in 1..Len(pub[r])}
                            \/ Happened("memory") \/ shutdown \/ Over
=============================================================================
