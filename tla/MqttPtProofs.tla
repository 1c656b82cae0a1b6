---------------------------- MODULE MqttPtProofs ----------------------------
(***************************************************************************)
(* Proofs about MqttPt, for all devices, all requests and every bound.     *)
(***************************************************************************)
EXTENDS MqttPt, SequenceTheorems, TLAPS

MainAt == {"start", "loop", "check", "send", "publish", "cleanup", "join",
           "exit", "failed", "crashed"}
PtAt == {"none", "events", "adding", "ended", "crashed"}
Call == {"list", "renew", "item", "crypto", "device"}

(* What can have been published about one request. *)
Log == {<<>>, <<"refused">>, <<"handled">>, <<"answer">>,
        <<"handled", "answer">>, <<"answer", "handled">>}

(* The main thread is about to publish s about r. *)
Reporting(r, s) == cur = [op |-> s, of |-> r]

TypeInv ==
    /\ at \in [Thread -> MainAt \union PtAt] /\ at[Main] \in MainAt /\ at[Pt] \in PtAt
    /\ cur \in [op : {"nothing", "register", "write", "handled", "refused"},
                of : Device \union Request \union {"nothing"}]
    /\ adding \in SUBSET Device
    /\ started \in Nat /\ mosqStop \in Nat /\ threads \in Nat /\ signals \in 0..MaxSignals
    /\ reg \in {"none", "asked", "answered"}
    /\ asked \in [Device -> Nat] /\ listed \in [Device -> Nat]
    /\ pend \in [Request -> Call \union {"none"}]
    /\ pub \in [Request -> Log]
    /\ faults \in SUBSET Kind

Flags == link \in BOOLEAN /\ unreg \in BOOLEAN /\ shutdown \in BOOLEAN

(* What the main thread carries from one step to the next. *)
Carried ==
    /\ At(Main, "send") => cur.op \in {"register", "write"} /\ cur.of \in Device
    /\ At(Main, "publish") => cur.op \in {"handled", "refused"} /\ cur.of \in Request
    /\ at[Main] \notin {"send", "publish"} => cur = Nothing

-----------------------------------------------------------------------------
(* The two handlers with many variants. *)

(* A request on MQTT/Evt is asked, refused, crashes or starts the thread. *)
LEMMA GwStatusCases ==
    ASSUME NEW r \in Request, NEW p, mqttpt_translate_gw_status_message(r, p)
    PROVE  /\ At(Main, "loop") /\ pub[r] = <<>> /\ pend[r] = "none"
           /\ UNCHANGED <<pub, deviceVars, edgeVars>>
           /\ \/ /\ link /\ \E k \in Call : pend' = [pend EXCEPT ![r] = k]
                 /\ Status(r, "handled") /\ UNCHANGED <<semVars, faults>>
              \/ /\ Status(r, "refused") /\ UNCHANGED <<pend, semVars>>
                 /\ faults' = faults \/ faults' = faults \union {"send"}
              \/ Crash /\ UNCHANGED semVars
              \/ start_pt(r)
<1> DEFINE Asked == /\ link /\ \E k \in Call : pend' = [pend EXCEPT ![r] = k]
                    /\ Status(r, "handled") /\ UNCHANGED faults
           Refused == /\ Status(r, "refused") /\ UNCHANGED pend
                      /\ faults' = faults \/ faults' = faults \union {"send"}
<1>1. ASSUME NEW k \in Call, Ask(r, k) PROVE Asked \/ Refused
      BY <1>1 DEF Ask, Refuse, Fault
<1>2. ASSUME Refuse(r) PROVE Refused
      BY <1>2 DEF Refuse
<1>3. ASSUME NEW k \in Call, Tested(r, k, p) PROVE Asked \/ Refused
      BY <1>1, <1>2, <1>3 DEF Tested
<1>4. ASSUME NEW k \in Call, Untested(r, k, p) PROVE Asked \/ Refused \/ Crash
      BY <1>1, <1>4 DEF Untested
<1> HIDE DEF Asked, Refused
<1>5. /\ set_certificates_list(r, p) => Asked \/ Refused
      /\ renew_certificate(r, p) => Asked \/ Refused \/ Crash
      /\ get_certificate(r, p) \/ get_public_key(r, p) => Asked \/ Refused
      /\ generate_random(r, p) => Asked \/ Refused
      /\ asymmetric_sign(r, p) \/ asymmetric_verify(r, p) => Asked \/ Refused \/ Crash
      /\ ecdh_key_agreement(r, p) => Asked \/ Refused \/ Crash
      /\ device_renew_certificate(r, p) => Asked \/ Refused \/ Crash
      /\ unknown_method(r) => Refused
  <2>1. {"list", "renew", "item", "crypto", "device"} \subseteq Call
        BY DEF Call
  <2> QED BY <2>1, <1>1, <1>2, <1>3, <1>4
          DEF set_certificates_list, renew_certificate, get_certificate, get_public_key,
              generate_random, asymmetric_sign, asymmetric_verify, ecdh_key_agreement,
              device_renew_certificate, unknown_method
<1>6. gw_status_method(r, p) => \/ (Asked \/ Refused \/ Crash) /\ UNCHANGED semVars
                                \/ start_pt(r)
      BY <1>5 DEF gw_status_method
<1> QED BY <1>6 DEF mqttpt_translate_gw_status_message, Asked, Refused

(* The answer to a request is published or lost. *)
LEMMA AnswerCases ==
    ASSUME NEW r \in Request, request_handler(r)
    PROVE  /\ At(Pt, "events") /\ pend[r] \in Call
           /\ pend' = [pend EXCEPT ![r] = "none"]
           /\ UNCHANGED <<at, cur, semVars, deviceVars, edgeVars>>
           /\ \/ pub' = [pub EXCEPT ![r] = Append(@, "answer")] /\ UNCHANGED faults
              \/ faults' = faults \union {"memory"} /\ UNCHANGED pub
BY DEF request_handler, certificate_renew_handler, get_item_handler, crypto_handler,
       certificates_set_handler, device_certificate_renew_handler, Answered, Published,
       Lost, Fault, Call
-----------------------------------------------------------------------------
(* The requests. *)

(* What is published, the call that is not answered and what the main      *)
(* thread is about to report fit together.                                 *)
RequestInv(r) ==
    /\ pub[r] = <<>> /\ pend[r] # "none" => Reporting(r, "handled") \/ Happened("memory")
    /\ pub[r] \notin {<<>>, <<"handled">>} => pend[r] = "none"
    /\ pub[r] = <<"answer">> => Reporting(r, "handled") \/ Happened("memory")
    /\ Reporting(r, "refused") => pub[r] = <<>> /\ pend[r] = "none"
    /\ Reporting(r, "handled") => pub[r] \in {<<>>, <<"answer">>}

Requests == \A r \in Request : RequestInv(r)

(* The logs differ, and grow as the threads publish. *)
LEMMA Logs ==
    /\ <<>> # <<"refused">> /\ <<>> # <<"handled">> /\ <<>> # <<"answer">>
    /\ <<"refused">> # <<"handled">> /\ <<"refused">> # <<"answer">>
    /\ <<"handled">> # <<"answer">>
    /\ \A x \in {<<>>, <<"refused">>, <<"handled">>, <<"answer">>} :
        x # <<"handled", "answer">> /\ x # <<"answer", "handled">>
    /\ Append(<<>>, "refused") = <<"refused">> /\ Append(<<>>, "handled") = <<"handled">>
    /\ Append(<<>>, "answer") = <<"answer">>
    /\ Append(<<"handled">>, "answer") = <<"handled", "answer">>
    /\ Append(<<"answer">>, "handled") = <<"answer", "handled">>
<1>1. /\ <<>> # <<"refused">> /\ <<>> # <<"handled">> /\ <<>> # <<"answer">>
      /\ <<"refused">> # <<"handled">> /\ <<"refused">> # <<"answer">>
      /\ <<"handled">> # <<"answer">>
      OBVIOUS
<1>2. \A x \in {<<>>, <<"refused">>, <<"handled">>, <<"answer">>} :
        x # <<"handled", "answer">> /\ x # <<"answer", "handled">>
      OBVIOUS
<1>3. /\ Append(<<>>, "refused") = <<"refused">> /\ Append(<<>>, "handled") = <<"handled">>
      /\ Append(<<>>, "answer") = <<"answer">>
      OBVIOUS
<1>4. ASSUME NEW a \in {"handled", "answer"}, NEW b \in {"handled", "answer"}
      PROVE  Append(<<a>>, b) = <<a, b>>
  <2>1. <<a>> \in Seq({"handled", "answer"}) /\ Len(<<a>>) = 1 /\ <<a>>[1] = a
        OBVIOUS
  <2>2. Append(<<a>>, b) \in Seq({"handled", "answer"}) /\ Len(Append(<<a>>, b)) = 2
        BY <2>1
  <2>3. Append(<<a>>, b)[1] = a /\ Append(<<a>>, b)[2] = b
        BY <2>1
  <2>4. <<a, b>> \in Seq({"handled", "answer"}) /\ Len(<<a, b>>) = 2
        OBVIOUS
  <2>5. \A i \in 1..Len(<<a, b>>) : Append(<<a>>, b)[i] = <<a, b>>[i]
        BY <2>3, <2>4
  <2> QED BY <2>2, <2>4, <2>5, SeqEqual
<1> QED BY <1>1, <1>2, <1>3, <1>4

(* A log has at most two entries, and these contents. *)
LEMMA LogContents ==
    ASSUME NEW x \in Log
    PROVE  LET P == {x[i] : i \in 1..Len(x)} IN
           /\ Len(x) <= 2
           /\ "refused" \in P => P = {"refused"} /\ Len(x) = 1 /\ x = <<"refused">>
           /\ "answer" \in P => x \notin {<<>>, <<"refused">>, <<"handled">>}
           /\ "answer" \in P /\ Len(x) = 1 => x = <<"answer">>
<1> DEFINE P == {x[i] : i \in 1..Len(x)}
<1>1. CASE x = <<>>
      BY <1>1
<1>2. CASE x = <<"refused">>
  <2>1. Len(x) = 1 /\ x[1] = "refused" /\ 1..Len(x) = {1} /\ x # <<>> /\ x # <<"handled">>
        BY <1>2
  <2> QED BY <2>1, <1>2
<1>3. CASE x = <<"handled">>
  <2>1. Len(x) = 1 /\ x[1] = "handled" /\ 1..Len(x) = {1}
        BY <1>3
  <2> QED BY <2>1, <1>3
<1>4. CASE x = <<"answer">>
  <2>1. Len(x) = 1 /\ x[1] = "answer" /\ 1..Len(x) = {1}
        BY <1>4
  <2> QED BY <2>1, <1>4, Logs
<1>5. CASE x = <<"handled", "answer">>
  <2>1. Len(x) = 2 /\ x[1] = "handled" /\ x[2] = "answer"
        BY <1>5
  <2>2. \A i \in 1..Len(x) : i = 1 \/ i = 2
        BY <2>1
  <2> QED BY <2>1, <2>2, <1>5, Logs
<1>6. CASE x = <<"answer", "handled">>
  <2>1. Len(x) = 2 /\ x[1] = "answer" /\ x[2] = "handled"
        BY <1>6
  <2>2. \A i \in 1..Len(x) : i = 1 \/ i = 2
        BY <2>1
  <2> QED BY <2>1, <2>2, <1>6, Logs
<1> QED BY <1>1, <1>2, <1>3, <1>4, <1>5, <1>6 DEF Log

-----------------------------------------------------------------------------
(* Types. *)

(* The flags of the connection stay truth values. *)
LEMMA FlagsStep == Flags /\ [Next]_vars => Flags'
<1> SUFFICES ASSUME Flags, [Next]_vars PROVE Flags'
    OBVIOUS
<1> USE DEF Flags
<1>1. CASE UNCHANGED edgeVars
      BY <1>1 DEF edgeVars
<1>2. CASE shutdown_and_cleanup
      BY <1>2, Zenon DEF shutdown_and_cleanup
<1>3. CASE mqttpt_connection_ready_handler
      BY <1>3, Zenon DEF mqttpt_connection_ready_handler
<1>4. CASE mqttpt_disconnected_handler
      BY <1>4, Zenon DEF mqttpt_disconnected_handler
<1>5. CASE \/ mqttpt_protocol_translator_registration_success_handler
           \/ mqttpt_protocol_translator_registration_failure_handler
      BY <1>5 DEF mqttpt_protocol_translator_registration_success_handler,
                  mqttpt_protocol_translator_registration_failure_handler
<1>6. CASE mqttpt_devices_unregister_handler
      BY <1>6, Zenon DEF mqttpt_devices_unregister_handler
<1>7. ASSUME NEW d \in Device,
             \/ mqttpt_translate_node_value_message(d) \/ mqttpt_add_device(d)
             \/ mqttpt_device_register_success_handler(d)
             \/ mqttpt_device_register_failure_handler(d)
      PROVE  UNCHANGED edgeVars
      BY <1>7 DEF mqttpt_translate_node_value_message, value_message_starts,
                  value_message_decide, mqttpt_device_register_success_handler,
                  mqttpt_device_register_failure_handler, mqttpt_add_device
<1>8. ASSUME NEW r \in Request,
             \/ \E p : mqttpt_translate_gw_status_message(r, p)
             \/ request_handler(r)
      PROVE  UNCHANGED edgeVars
      BY <1>8, AnswerCases DEF mqttpt_translate_gw_status_message
<1>9. CASE \/ mosquitto_connect \/ value_message_send \/ gw_status_publish
           \/ mosquitto_loop \/ join_and_free \/ shutdown_handler
           \/ message_dropped \/ message_crashes
           \/ pt_client_start_fails \/ translator_thread_ends
      BY <1>9, <1>1 DEF message_dropped, message_crashes, mosquitto_connect, value_message_send, gw_status_publish,
                  mosquitto_loop, join_and_free, shutdown_handler,
                  pt_client_start_fails, translator_thread_ends
<1>10. CASE UNCHANGED vars
      BY <1>10 DEF vars
<1> QED BY <1>1, <1>2, <1>3, <1>4, <1>5, <1>6, <1>7, <1>8, <1>9, <1>10
        DEF Next, Message, MainStep, Callback
-----------------------------------------------------------------------------
(* The inductive invariant. *)

(* The semaphore counts from the creation of the thread on. *)
Threads ==
    /\ threads <= 1 /\ (started = 0 <=> threads = 0)
    /\ threads = 0 => at[Pt] \in {"none", "crashed"}
    /\ threads > 0 => at[Pt] # "none"
    /\ At(Main, "crashed") <=> At(Pt, "crashed")
    /\ At(Main, "exit") => at[Pt] \in {"none", "ended"}

Sending(d) == IF cur.op = "register" /\ cur.of = d THEN 1 ELSE 0
Adding(d) == IF d \in adding THEN 1 ELSE 0

(* Registrations of one device on their way: about to be sent, sent and    *)
(* not answered, about to be listed.                                       *)
Counts ==
    /\ at[Pt] \in {"none", "events", "ended"} => adding = {}
    /\ \A d \in Device :
        /\ asked[d] + Sending(d) <= MaxAsked
        /\ listed[d] + asked[d] + Adding(d) + Sending(d) <= MaxAsked + 1

Inv == TypeInv /\ Flags /\ Carried /\ Requests /\ Threads /\ Counts

(* It implies the types and what is published about a request. *)
LEMMA InvImplies == Inv => TypeOK /\ ThreadJoined /\ PublishedAgrees
<1> SUFFICES ASSUME Inv PROVE TypeOK /\ ThreadJoined /\ PublishedAgrees
    OBVIOUS
<1>1. asked \in [Device -> 0..MaxAsked] /\ listed \in [Device -> 0..(MaxAsked + 1)]
  <2>1. ASSUME NEW d \in Device
        PROVE  asked[d] \in 0..MaxAsked /\ listed[d] \in 0..(MaxAsked + 1)
        BY MqttPtAssumption DEF Inv, TypeInv, Counts, Sending, Adding
  <2> QED BY <2>1 DEF Inv, TypeInv
<1>2. \A r \in Request : pub[r] \in Log
      BY DEF Inv, TypeInv
<1>3. \A r \in Request : Len(pub[r]) <= 2
      BY <1>2, LogContents
<1>4. TypeOK
      BY <1>1, <1>3 DEF Inv, TypeInv, Flags, TypeOK, MainAt, PtAt, Call
<1>5. ThreadJoined
      BY DEF Inv, Threads, ThreadJoined
<1>6. PublishedAgrees
  <2> SUFFICES ASSUME NEW r \in Request
               PROVE  LET P == {pub[r][i] : i \in 1..Len(pub[r])} IN
                      /\ "refused" \in P => /\ P = {"refused"} /\ Len(pub[r]) = 1
                                            /\ pend[r] = "none"
                      /\ "answer" \in P => pend[r] = "none"
                      /\ "answer" \in P /\ Len(pub[r]) = 1
                            => cur = [op |-> "handled", of |-> r] \/ Happened("memory")
      BY DEF PublishedAgrees
  <2>1. RequestInv(r)
        BY DEF Inv, Requests
  <2>2. pub[r] = <<"refused">> => pub[r] \notin {<<>>, <<"handled">>}
        BY Logs
  <2> QED BY <1>2, <2>1, <2>2, LogContents DEF RequestInv, Reporting
<1> QED BY <1>4, <1>5, <1>6

-----------------------------------------------------------------------------
(* The main thread carries what it will publish or send. *)
LEMMA CarriedStep == Inv /\ [Next]_vars => Carried'
<1> SUFFICES ASSUME Inv, [Next]_vars PROVE Carried'
    OBVIOUS
<1> USE DEF Inv, TypeInv, Carried, At, Go, Main, Pt, Thread
<1>1. ASSUME UNCHANGED <<cur, at>> PROVE Carried'
      BY <1>1
<1>2. ASSUME UNCHANGED cur, NEW q, Go(Pt, q) PROVE Carried'
      BY <1>2
<1>3. ASSUME cur' = Nothing, at'[Main] \notin {"send", "publish"} PROVE Carried'
      BY <1>3
<1>4. CASE \/ mosquitto_connect \/ mosquitto_loop \/ shutdown_and_cleanup
           \/ join_and_free \/ message_dropped
  <2>1. UNCHANGED cur /\ at[Main] \notin {"send", "publish"}
        BY <1>4 DEF mosquitto_connect, mosquitto_loop, shutdown_and_cleanup, join_and_free,
                    message_dropped
  <2>2. at'[Main] \notin {"send", "publish"}
        BY <1>4 DEF mosquitto_connect, mosquitto_loop, shutdown_and_cleanup, join_and_free,
                    message_dropped
  <2> QED BY <2>1, <2>2, <1>3
<1>5. CASE value_message_send \/ gw_status_publish \/ message_crashes
      BY <1>5, <1>3 DEF value_message_send, gw_status_publish, message_crashes, Crash
<1>6. ASSUME NEW d \in Device, mqttpt_translate_node_value_message(d) PROVE Carried'
  <2>1. CASE value_message_starts
        BY <2>1 DEF value_message_starts, mqttpt_start_translator
  <2>2. CASE value_message_decide(d)
        BY <2>2 DEF value_message_decide
  <2> QED BY <1>6, <2>1, <2>2 DEF mqttpt_translate_node_value_message
<1>7. ASSUME NEW r \in Request, NEW p, mqttpt_translate_gw_status_message(r, p)
      PROVE  Carried'
  <2>1. CASE Status(r, "handled") \/ Status(r, "refused")
        BY <2>1 DEF Status
  <2>2. CASE Crash
        BY <2>2 DEF Crash
  <2>3. CASE start_pt(r)
        BY <2>3 DEF start_pt, mqttpt_start_translator
  <2> QED BY <1>7, <2>1, <2>2, <2>3, GwStatusCases
<1>8. ASSUME NEW d \in Device,
             \/ mqttpt_add_device(d) \/ mqttpt_device_register_success_handler(d)
             \/ mqttpt_device_register_failure_handler(d)
      PROVE  Carried'
      BY <1>8, <1>1, <1>2 DEF mqttpt_device_register_success_handler,
                  mqttpt_device_register_failure_handler, mqttpt_add_device
<1>9. ASSUME NEW r \in Request, request_handler(r) PROVE Carried'
      BY <1>9, <1>1, AnswerCases
<1>10. CASE \/ shutdown_handler \/ mqttpt_connection_ready_handler
            \/ mqttpt_disconnected_handler \/ mqttpt_devices_unregister_handler
            \/ mqttpt_protocol_translator_registration_success_handler
            \/ mqttpt_protocol_translator_registration_failure_handler
      BY <1>10, <1>1 DEF shutdown_handler, mqttpt_connection_ready_handler,
            mqttpt_disconnected_handler, mqttpt_devices_unregister_handler,
            mqttpt_protocol_translator_registration_success_handler,
            mqttpt_protocol_translator_registration_failure_handler
<1>11. CASE pt_client_start_fails \/ translator_thread_ends
      BY <1>11, <1>2 DEF pt_client_start_fails, translator_thread_ends
<1>12. CASE UNCHANGED vars
      BY <1>12, <1>1 DEF vars
<1> QED BY <1>4, <1>5, <1>6, <1>7, <1>8, <1>9, <1>10, <1>11, <1>12
        DEF Next, Message, MainStep, Callback

(* The thread of the pt-client is created once. *)
LEMMA ThreadsStep == Inv /\ [Next]_vars => Threads'
<1> SUFFICES ASSUME Inv, [Next]_vars PROVE Threads'
    OBVIOUS
<1> USE DEF Inv, TypeInv, Threads, At, Go, Main, Pt, Thread, semVars
<1>1. ASSUME UNCHANGED <<at, started, threads>> PROVE Threads'
      BY <1>1
<1>2. ASSUME UNCHANGED <<started, threads>>, NEW q \in {"events", "adding", "ended"},
             at[Pt] \in {"events", "adding"}, Go(Pt, q)
      PROVE  Threads'
      BY <1>2
<1>3. ASSUME UNCHANGED <<started, threads>>, ~Over, NEW q, q \notin {"exit", "crashed"},
             Go(Main, q)
      PROVE  Threads'
      BY <1>3 DEF Over
<1>4. ASSUME NEW q, q \notin {"exit", "crashed"}, At(Main, "loop"), mqttpt_start_translator(q)
      PROVE  Threads'
      BY <1>4 DEF mqttpt_start_translator
<1>5. CASE mosquitto_connect \/ mosquitto_loop \/ shutdown_and_cleanup \/ message_dropped
      BY <1>5, <1>3 DEF mosquitto_connect, mosquitto_loop, shutdown_and_cleanup,
                        message_dropped, Over
<1>6. CASE value_message_send \/ gw_status_publish
      BY <1>6, <1>3 DEF value_message_send, gw_status_publish, Over
<1>7. CASE join_and_free \/ message_crashes
      BY <1>7 DEF join_and_free, message_crashes, Crash
<1>8. ASSUME NEW d \in Device, mqttpt_translate_node_value_message(d) PROVE Threads'
  <2>1. CASE value_message_starts
        BY <2>1, <1>4 DEF value_message_starts
  <2>2. CASE value_message_decide(d)
        BY <2>2, <1>3 DEF value_message_decide, Over
  <2> QED BY <1>8, <2>1, <2>2 DEF mqttpt_translate_node_value_message
<1>9. ASSUME NEW r \in Request, NEW p, mqttpt_translate_gw_status_message(r, p)
      PROVE  Threads'
  <2>0. At(Main, "loop")
        BY <1>9, GwStatusCases
  <2>1. CASE (Status(r, "handled") \/ Status(r, "refused")) /\ UNCHANGED semVars
        BY <2>0, <2>1, <1>3 DEF Status, Over
  <2>2. CASE Crash /\ UNCHANGED semVars
        BY <2>0, <2>2 DEF Crash
  <2>3. CASE start_pt(r)
        BY <2>0, <2>3, <1>4 DEF start_pt
  <2> QED BY <1>9, <2>1, <2>2, <2>3, GwStatusCases
<1>10. ASSUME NEW d \in Device,
             \/ mqttpt_add_device(d) \/ mqttpt_device_register_success_handler(d)
             \/ mqttpt_device_register_failure_handler(d)
      PROVE  Threads'
      BY <1>10, <1>1, <1>2 DEF mqttpt_device_register_success_handler,
                  mqttpt_device_register_failure_handler, mqttpt_add_device
<1>11. ASSUME NEW r \in Request, request_handler(r) PROVE Threads'
      BY <1>11, <1>1, AnswerCases
<1>12. CASE \/ shutdown_handler \/ mqttpt_connection_ready_handler
            \/ mqttpt_disconnected_handler \/ mqttpt_devices_unregister_handler
            \/ mqttpt_protocol_translator_registration_failure_handler
      BY <1>12, <1>1 DEF shutdown_handler, mqttpt_connection_ready_handler,
            mqttpt_disconnected_handler, mqttpt_devices_unregister_handler,
            mqttpt_protocol_translator_registration_failure_handler
<1>13. CASE mqttpt_protocol_translator_registration_success_handler
      BY <1>13 DEF mqttpt_protocol_translator_registration_success_handler
<1>14. CASE pt_client_start_fails \/ translator_thread_ends
      BY <1>14, <1>2 DEF pt_client_start_fails, translator_thread_ends
<1>15. CASE UNCHANGED vars
      BY <1>15, <1>1 DEF vars
<1> QED BY <1>5, <1>6, <1>7, <1>8, <1>9, <1>10, <1>11, <1>12, <1>13, <1>14, <1>15
        DEF Next, Message, MainStep, Callback

(* What has happened stays in faults. *)
LEMMA FaultsGrow == [Next]_vars => faults \subseteq faults'
<1> SUFFICES ASSUME [Next]_vars PROVE faults \subseteq faults'
    OBVIOUS
<1>1. CASE \/ mosquitto_connect \/ value_message_send \/ gw_status_publish
           \/ mosquitto_loop \/ shutdown_and_cleanup \/ join_and_free
           \/ message_dropped \/ message_crashes
      BY <1>1 DEF mosquitto_connect, value_message_send, gw_status_publish,
                  mosquitto_loop, shutdown_and_cleanup, join_and_free,
                  message_dropped, message_crashes, Crash, Fault
<1>2. ASSUME NEW d \in Device,
             \/ mqttpt_translate_node_value_message(d) \/ mqttpt_add_device(d)
             \/ mqttpt_device_register_success_handler(d)
             \/ mqttpt_device_register_failure_handler(d)
      PROVE  faults \subseteq faults'
      BY <1>2 DEF mqttpt_translate_node_value_message, value_message_starts,
                  value_message_decide, mqttpt_device_register_success_handler,
                  mqttpt_device_register_failure_handler, mqttpt_add_device, Fault
<1>3. ASSUME NEW r \in Request, NEW p, mqttpt_translate_gw_status_message(r, p)
      PROVE  faults \subseteq faults'
      BY <1>3, GwStatusCases DEF Crash, start_pt
<1>4. ASSUME NEW r \in Request, request_handler(r) PROVE faults \subseteq faults'
      BY <1>4, AnswerCases
<1>5. CASE \/ shutdown_handler \/ mqttpt_connection_ready_handler
           \/ mqttpt_disconnected_handler \/ mqttpt_devices_unregister_handler
           \/ pt_client_start_fails \/ translator_thread_ends
      BY <1>5 DEF shutdown_handler, mqttpt_connection_ready_handler,
                  mqttpt_disconnected_handler, mqttpt_devices_unregister_handler,
                  pt_client_start_fails, translator_thread_ends, Fault
<1>6. CASE \/ mqttpt_protocol_translator_registration_success_handler
           \/ mqttpt_protocol_translator_registration_failure_handler
      BY <1>6 DEF mqttpt_protocol_translator_registration_success_handler,
                  mqttpt_protocol_translator_registration_failure_handler, Fault
<1>7. CASE UNCHANGED vars
      BY <1>7 DEF vars
<1> QED BY <1>1, <1>2, <1>3, <1>4, <1>5, <1>6, <1>7 DEF Next, Message, MainStep, Callback

(* What is published stays a log, and agrees with the calls under way. *)
LEMMA RequestsStep == Inv /\ [Next]_vars => pub' \in [Request -> Log] /\ Requests'
<1> SUFFICES ASSUME Inv, [Next]_vars PROVE pub' \in [Request -> Log] /\ Requests'
    OBVIOUS
<1> DEFINE Kept == pub' \in [Request -> Log] /\ Requests'
<1>p. pub \in [Request -> Log] /\ pend \in [Request -> Call \union {"none"}]
      BY DEF Inv, TypeInv
<1>q. \A r \in Request : RequestInv(r)
      BY DEF Inv, Requests
<1>l. {<<>>, <<"refused">>, <<"handled">>, <<"answer">>,
       <<"handled", "answer">>, <<"answer", "handled">>} \subseteq Log
      BY DEF Log
<1>m. Happened("memory") => Happened("memory")'
      BY FaultsGrow DEF Happened
<1>0. ASSUME UNCHANGED requestVars,
             \A r \in Request, o \in {"handled", "refused"} : ~Reporting(r, o),
             \A r \in Request, o \in {"handled", "refused"} : ~Reporting(r, o)'
      PROVE  Kept
      BY <1>0, <1>p, <1>q, <1>m DEF Requests, RequestInv, requestVars
<1>1. ASSUME UNCHANGED <<cur, requestVars>> PROVE Kept
      BY <1>1, <1>p, <1>q, <1>m DEF Requests, RequestInv, Reporting, requestVars
<1>n. \A r, o : at[Main] \notin {"publish"} /\ o \in {"handled", "refused"} => ~Reporting(r, o)
      BY DEF Inv, Carried, At, Reporting, Nothing
<1>2. CASE \/ mosquitto_connect \/ mosquitto_loop \/ shutdown_and_cleanup
           \/ join_and_free \/ message_dropped
      BY <1>2, <1>1 DEF mosquitto_connect, mosquitto_loop, shutdown_and_cleanup,
                        join_and_free, message_dropped
<1>3. CASE value_message_send \/ message_crashes
      BY <1>3, <1>0, <1>n DEF value_message_send, message_crashes, Crash, At, Reporting,
                              Nothing, requestVars
<1>o. CASE gw_status_publish /\ Fault("memory") /\ UNCHANGED pub
  <2>1. "memory" \in faults' /\ UNCHANGED pend /\ cur' = Nothing
        BY <1>o DEF gw_status_publish, Fault
  <2>2. \A r \in Request, o \in {"handled", "refused"} : ~Reporting(r, o)'
        BY <2>1 DEF Reporting, Nothing
  <2> QED BY <1>o, <1>p, <1>q, <2>1, <2>2 DEF Requests, RequestInv, Happened
<1>4. CASE /\ gw_status_publish
           /\ pub' = [pub EXCEPT ![cur.of] = Append(pub[cur.of], cur.op)]
  <2>1. PICK r \in Request : r = cur.of
        BY <1>4 DEF gw_status_publish, Inv, Carried
  <2>2. Reporting(r, "handled") \/ Reporting(r, "refused")
        BY <1>4, <2>1 DEF gw_status_publish, Inv, TypeInv, Carried, Reporting
  <2>3. pub' = [pub EXCEPT ![r] = Append(pub[r], cur.op)] /\ UNCHANGED pend
        BY <1>4, <2>1 DEF gw_status_publish
  <2>4. \A x \in Request, o \in {"handled", "refused"} : ~Reporting(x, o)'
        BY <1>4 DEF gw_status_publish, Reporting, Nothing
  <2>5. ASSUME NEW x \in Request, x # r PROVE RequestInv(x)' /\ pub'[x] \in Log
    <3>1. \A o : ~Reporting(x, o)
          BY <2>2, <2>5 DEF Reporting
    <3> QED BY <1>p, <1>q, <1>m, <2>3, <2>4, <2>5, <3>1 DEF RequestInv
  <2>6. ASSUME Reporting(r, "handled") PROVE RequestInv(r)' /\ pub'[r] \in Log
    <3>1. cur.op = "handled" /\ pub[r] \in {<<>>, <<"answer">>}
          BY <1>q, <2>6 DEF RequestInv, Reporting
    <3>2. /\ pub[r] = <<>> => pub'[r] = <<"handled">>
          /\ pub[r] = <<"answer">> => pub'[r] = <<"answer", "handled">>
          BY <1>p, <2>3, <3>1, Logs
    <3>3. pend'[r] = pend[r] /\ (pub[r] = <<"answer">> => pend[r] = "none")
          BY <1>q, <2>3, Logs DEF RequestInv
    <3> QED BY <3>1, <3>2, <3>3, <2>4, Logs, <1>l DEF RequestInv
  <2>7. ASSUME Reporting(r, "refused") PROVE RequestInv(r)' /\ pub'[r] \in Log
    <3>1. cur.op = "refused" /\ pub[r] = <<>> /\ pend[r] = "none"
          BY <1>q, <2>7 DEF RequestInv, Reporting
    <3>2. pub'[r] = <<"refused">> /\ pend'[r] = "none"
          BY <1>p, <2>3, <3>1, Logs
    <3> QED BY <3>2, <2>4, Logs, <1>l DEF RequestInv
  <2>8. \A x \in Request : RequestInv(x)' /\ pub'[x] \in Log
        BY <2>2, <2>5, <2>6, <2>7
  <2> QED BY <1>p, <2>3, <2>8 DEF Requests
<1>5. ASSUME NEW d \in Device, mqttpt_translate_node_value_message(d) PROVE Kept
  <2>1. CASE value_message_starts
        BY <2>1, <1>1 DEF value_message_starts
  <2>2. CASE value_message_decide(d)
        BY <2>2, <1>0, <1>n DEF value_message_decide, At, Reporting
  <2> QED BY <1>5, <2>1, <2>2 DEF mqttpt_translate_node_value_message
<1>6. ASSUME NEW r \in Request, NEW p, mqttpt_translate_gw_status_message(r, p)
      PROVE  Kept
  <2>1. /\ at[Main] = "loop" /\ pub[r] = <<>> /\ pend[r] = "none" /\ pub' = pub
        BY <1>6, GwStatusCases DEF At
  <2>2. \A x \in Request, o \in {"handled", "refused"} : ~Reporting(x, o)
        BY <2>1, <1>n
  <2>3. CASE \E k \in Call : pend' = [pend EXCEPT ![r] = k] /\ Status(r, "handled")
    <3>1. PICK k \in Call : pend' = [pend EXCEPT ![r] = k] /\ Status(r, "handled")
          BY <2>3
    <3>2. RequestInv(r)'
          BY <3>1, <2>1, Logs DEF RequestInv, Reporting, Status
    <3>3. \A x \in Request \ {r} : RequestInv(x)'
          BY <3>1, <2>1, <2>2, <1>p, <1>q, <1>m DEF RequestInv, Reporting, Status
    <3> QED BY <3>2, <3>3, <2>1, <1>p DEF Requests
  <2>4. CASE pend' = pend /\ (Status(r, "refused") \/ start_pt(r))
    <3>1. \/ cur' = [op |-> "refused", of |-> r]
          \/ cur' = [op |-> "handled", of |-> r]
          BY <2>4 DEF Status, start_pt
    <3>2. RequestInv(r)'
          BY <3>1, <2>4, <2>1, Logs DEF RequestInv, Reporting
    <3>3. \A x \in Request \ {r} : RequestInv(x)'
          BY <3>1, <2>4, <2>1, <2>2, <1>p, <1>q, <1>m DEF RequestInv, Reporting
    <3> QED BY <3>2, <3>3, <2>1, <1>p DEF Requests
  <2>5. CASE Crash
        BY <2>5, <2>1, <2>2, <1>0 DEF Crash, requestVars, Reporting, Nothing
  <2> QED BY <1>6, <2>3, <2>4, <2>5, GwStatusCases DEF start_pt
<1>7. ASSUME NEW d \in Device,
             \/ mqttpt_add_device(d) \/ mqttpt_device_register_success_handler(d)
             \/ mqttpt_device_register_failure_handler(d)
      PROVE  Kept
      BY <1>7, <1>1 DEF mqttpt_device_register_success_handler,
                  mqttpt_device_register_failure_handler, mqttpt_add_device
<1>8. ASSUME NEW r \in Request, request_handler(r) PROVE Kept
  <2>1. /\ pend[r] # "none" /\ pend' = [pend EXCEPT ![r] = "none"] /\ UNCHANGED cur
        /\ pub' = [pub EXCEPT ![r] = Append(pub[r], "answer")] \/ UNCHANGED pub
        BY <1>8, AnswerCases DEF Call
  <2>2. \/ pub[r] = <<>> /\ (Reporting(r, "handled") \/ Happened("memory"))
           /\ ~Reporting(r, "refused")
        \/ pub[r] = <<"handled">> /\ ~Reporting(r, "handled") /\ ~Reporting(r, "refused")
        BY <2>1, <1>q, Logs DEF RequestInv
  <2>3. \A x \in Request \ {r} : RequestInv(x)' /\ pub'[x] \in Log
        BY <2>1, <1>p, <1>q, <1>m DEF RequestInv, Reporting
  <2>4. pend'[r] = "none" /\ \A o : Reporting(r, o)' <=> Reporting(r, o)
        BY <2>1, <1>p DEF Reporting
  <2>5. CASE pub[r] = <<>> /\ (Reporting(r, "handled") \/ Happened("memory"))
             /\ ~Reporting(r, "refused")
    <3>1. pub'[r] = <<>> \/ pub'[r] = <<"answer">>
          BY <2>1, <2>5, <1>p, Logs
    <3>3. RequestInv(r)' /\ pub'[r] \in Log
          BY <3>1, <2>4, <2>5, Logs, <1>l, <1>m DEF RequestInv
    <3> QED BY <3>3, <2>3, <2>1, <1>p DEF Requests
  <2>6. CASE pub[r] = <<"handled">> /\ ~Reporting(r, "handled") /\ ~Reporting(r, "refused")
    <3>1. pub'[r] = <<"handled">> \/ pub'[r] = <<"handled", "answer">>
          BY <2>1, <2>6, <1>p, Logs
    <3>2. RequestInv(r)' /\ pub'[r] \in Log
          BY <3>1, <2>4, <2>6, Logs, <1>l DEF RequestInv
    <3> QED BY <3>2, <2>3, <2>1, <1>p DEF Requests
  <2> QED BY <2>2, <2>5, <2>6
<1>9. CASE \/ shutdown_handler \/ mqttpt_connection_ready_handler
           \/ mqttpt_disconnected_handler \/ mqttpt_devices_unregister_handler
           \/ mqttpt_protocol_translator_registration_success_handler
           \/ mqttpt_protocol_translator_registration_failure_handler
           \/ pt_client_start_fails \/ translator_thread_ends
      BY <1>9, <1>1 DEF shutdown_handler, mqttpt_connection_ready_handler,
            mqttpt_disconnected_handler, mqttpt_devices_unregister_handler,
            mqttpt_protocol_translator_registration_success_handler,
            mqttpt_protocol_translator_registration_failure_handler,
            pt_client_start_fails, translator_thread_ends
<1>10. CASE UNCHANGED vars
      BY <1>10, <1>1 DEF vars, requestVars
<1>g. gw_status_publish => Kept
      BY <1>o, <1>4 DEF gw_status_publish
<1> QED BY <1>2, <1>3, <1>g, <1>5, <1>6, <1>7, <1>8, <1>9, <1>10
        DEF Next, Message, MainStep, Callback

(* A registration moves from one place to the next; only a device that is  *)
(* not listed gets a new one.                                              *)
LEMMA CountsStep == Inv /\ [Next]_vars => Counts'
<1> SUFFICES ASSUME Inv, [Next]_vars PROVE Counts'
    OBVIOUS
<1> USE MqttPtAssumption
    DEF Inv, TypeInv, Counts, Sending, Adding, At, Go, Main, Pt, Thread, deviceVars
<1>1. ASSUME UNCHANGED deviceVars, at'[Pt] \in {"none", "events", "ended"} => adding = {},
             cur' = cur \/ cur'.op # "register"
      PROVE  Counts'
      BY <1>1
<1>2. CASE \/ mosquitto_connect \/ mosquitto_loop \/ shutdown_and_cleanup
           \/ join_and_free \/ message_dropped
      BY <1>2, <1>1 DEF mosquitto_connect, mosquitto_loop, shutdown_and_cleanup,
                        join_and_free, message_dropped
<1>3. CASE gw_status_publish \/ message_crashes
      BY <1>3, <1>1 DEF gw_status_publish, message_crashes, Crash, Nothing
<1>4. CASE value_message_send
  <2>1. /\ UNCHANGED <<listed, adding>> /\ at'[Pt] = at[Pt] /\ cur'.op # "register"
        /\ \/ /\ cur.op = "register" /\ cur.of \in Device
              /\ asked' = [asked EXCEPT ![cur.of] = @ + 1]
           \/ UNCHANGED asked
        BY <1>4 DEF value_message_send, Carried, Nothing
  <2> QED BY <2>1
<1>5. ASSUME NEW d \in Device, mqttpt_translate_node_value_message(d) PROVE Counts'
  <2>1. CASE value_message_starts
        BY <2>1, <1>1 DEF value_message_starts, mqttpt_start_translator, Threads
  <2>2. CASE value_message_decide(d)
    <3>1. /\ UNCHANGED deviceVars /\ at'[Pt] = at[Pt] /\ asked[d] < MaxAsked
          /\ cur' = [op |-> "write", of |-> d] \/ (cur' = [op |-> "register", of |-> d]
                                                     /\ listed[d] = 0)
          BY <2>2 DEF value_message_decide, mqttpt_device_exists
    <3> QED BY <3>1
  <2> QED BY <1>5, <2>1, <2>2 DEF mqttpt_translate_node_value_message
<1>6. ASSUME NEW r \in Request, NEW p, mqttpt_translate_gw_status_message(r, p)
      PROVE  Counts'
  <2>1. UNCHANGED deviceVars /\ at[Main] = "loop"
        BY <1>6, GwStatusCases
  <2>2. CASE Status(r, "handled") \/ Status(r, "refused")
        BY <2>1, <2>2, <1>1 DEF Status
  <2>3. CASE Crash
        BY <2>1, <2>3, <1>1 DEF Crash, Nothing
  <2>4. CASE start_pt(r)
        BY <2>1, <2>4, <1>1 DEF start_pt, mqttpt_start_translator, Threads
  <2> QED BY <1>6, <2>2, <2>3, <2>4, GwStatusCases
<1>7. ASSUME NEW d \in Device, mqttpt_device_register_success_handler(d) PROVE Counts'
  <2>1. /\ asked[d] > 0 /\ asked' = [asked EXCEPT ![d] = @ - 1] /\ adding = {}
        /\ adding' = {d} /\ UNCHANGED <<listed, cur>> /\ at'[Pt] = "adding"
        BY <1>7 DEF mqttpt_device_register_success_handler
  <2> QED BY <2>1
<1>8. ASSUME NEW d \in Device, mqttpt_add_device(d) PROVE Counts'
  <2>1. /\ d \in adding /\ adding' = {} /\ UNCHANGED <<asked, cur>>
        /\ listed' = [listed EXCEPT ![d] = @ + 1] \/ UNCHANGED listed
        BY <1>8 DEF mqttpt_add_device
  <2> QED BY <2>1
<1>9. ASSUME NEW d \in Device, mqttpt_device_register_failure_handler(d) PROVE Counts'
  <2>1. /\ asked[d] > 0 /\ asked' = [asked EXCEPT ![d] = @ - 1]
        /\ UNCHANGED <<listed, cur, adding, at>>
        BY <1>9 DEF mqttpt_device_register_failure_handler
  <2> QED BY <2>1
<1>10. ASSUME NEW r \in Request, request_handler(r) PROVE Counts'
      BY <1>10, <1>1, AnswerCases
<1>11. CASE \/ shutdown_handler \/ mqttpt_connection_ready_handler
            \/ mqttpt_disconnected_handler \/ mqttpt_devices_unregister_handler
            \/ mqttpt_protocol_translator_registration_success_handler
            \/ mqttpt_protocol_translator_registration_failure_handler
            \/ pt_client_start_fails \/ translator_thread_ends
      BY <1>11, <1>1 DEF shutdown_handler, mqttpt_connection_ready_handler,
            mqttpt_disconnected_handler, mqttpt_devices_unregister_handler,
            mqttpt_protocol_translator_registration_success_handler,
            mqttpt_protocol_translator_registration_failure_handler,
            pt_client_start_fails, translator_thread_ends
<1>12. CASE UNCHANGED vars
      BY <1>12, <1>1 DEF vars
<1> QED BY <1>2, <1>3, <1>4, <1>5, <1>6, <1>7, <1>8, <1>9, <1>10, <1>11, <1>12
        DEF Next, Message, MainStep, Callback

(* The rest of the types. *)
LEMMA TypeInvStep == Inv /\ [Next]_vars => TypeInv'
<1> SUFFICES ASSUME Inv, [Next]_vars PROVE TypeInv'
    OBVIOUS
<1>p. pub' \in [Request -> Log]
      BY RequestsStep
<1> USE MqttPtAssumption, <1>p
    DEF Inv, TypeInv, At, Go, Main, Pt, Thread, MainAt, PtAt, deviceVars, semVars,
        edgeVars, requestVars, Fault, Kind, Call
<1>n. Nothing \in [op : {"nothing", "register", "write", "handled", "refused"},
                   of : Device \union Request \union {"nothing"}]
      BY DEF Nothing
<1>1. CASE mosquitto_connect
  <2>1. /\ mosqStop' \in Nat /\ faults' \in SUBSET Kind
        /\ Go(Main, "loop") \/ Go(Main, "failed")
    <3>1. mosqStop' = 0 \/ mosqStop' = mosqStop
          BY <1>1 DEF mosquitto_connect
    <3>2. faults' = faults \/ faults' = faults \union {"broker"}
          BY <1>1 DEF mosquitto_connect
    <3>3. Go(Main, "loop") \/ Go(Main, "failed")
          BY <1>1 DEF mosquitto_connect
    <3>4. mosqStop' \in Nat
          BY <3>1
    <3>5. faults' \in SUBSET Kind
          BY <3>2
    <3> QED BY <3>3, <3>4, <3>5
  <2> QED BY <1>1, <2>1 DEF mosquitto_connect
<1>2. CASE mosquitto_loop \/ join_and_free \/ message_dropped \/ message_crashes
  <2>1. CASE mosquitto_loop \/ join_and_free \/ message_dropped
        BY <2>1 DEF mosquitto_loop, join_and_free, message_dropped
  <2>2. CASE message_crashes
        BY <2>2, <1>n DEF message_crashes, Crash
  <2> QED BY <1>2, <2>1, <2>2
<1>3. CASE shutdown_and_cleanup
      BY <1>3 DEF shutdown_and_cleanup
<1>4. CASE gw_status_publish
  <2>1. faults' \in SUBSET Kind
    <3>1. faults' = faults \/ faults' = faults \union {"memory"}
          BY <1>4 DEF gw_status_publish
    <3> QED BY <3>1
  <2> QED BY <1>4, <1>n, <2>1 DEF gw_status_publish
<1>5. CASE value_message_send
  <2>1. asked' \in [Device -> Nat]
        BY <1>5 DEF value_message_send, Carried
  <2> QED BY <1>5, <1>n, <2>1 DEF value_message_send
<1>6. ASSUME NEW d \in Device, mqttpt_translate_node_value_message(d) PROVE TypeInv'
  <2>1. CASE value_message_starts
        BY <2>1 DEF value_message_starts, mqttpt_start_translator
  <2>2. CASE value_message_decide(d)
        BY <2>2 DEF value_message_decide
  <2> QED BY <1>6, <2>1, <2>2 DEF mqttpt_translate_node_value_message
<1>7. ASSUME NEW r \in Request, NEW p, mqttpt_translate_gw_status_message(r, p)
      PROVE  TypeInv'
  <2>1. UNCHANGED <<deviceVars, edgeVars>>
        BY <1>7, GwStatusCases
  <2>2. CASE /\ \E k \in Call : pend' = [pend EXCEPT ![r] = k]
             /\ Status(r, "handled") /\ UNCHANGED <<semVars, faults>>
        BY <2>1, <2>2 DEF Status
  <2>3. CASE /\ Status(r, "refused") /\ UNCHANGED <<pend, semVars>>
             /\ faults' = faults \/ faults' = faults \union {"send"}
        BY <2>1, <2>3 DEF Status
  <2>4. CASE Crash /\ UNCHANGED semVars
        BY <2>1, <2>4, <1>n DEF Crash
  <2>5. CASE start_pt(r)
        BY <2>1, <2>5 DEF start_pt, mqttpt_start_translator
  <2> QED BY <1>7, <2>2, <2>3, <2>4, <2>5, GwStatusCases
<1>8. ASSUME NEW d \in Device, mqttpt_device_register_success_handler(d) PROVE TypeInv'
      BY <1>8 DEF mqttpt_device_register_success_handler
<1>9. ASSUME NEW d \in Device, mqttpt_add_device(d) PROVE TypeInv'
  <2>1. listed' \in [Device -> Nat] /\ faults' \in SUBSET Kind /\ adding' = {}
    <3>1. listed' = listed \/ listed' = [listed EXCEPT ![d] = @ + 1]
          BY <1>9 DEF mqttpt_add_device
    <3>2. faults' = faults \/ faults' = faults \union {"memory"}
          BY <1>9 DEF mqttpt_add_device
    <3>3. adding' = {}
          BY <1>9 DEF mqttpt_add_device
    <3>4. listed' \in [Device -> Nat]
          BY <3>1
    <3>5. faults' \in SUBSET Kind
          BY <3>2
    <3> QED BY <3>3, <3>4, <3>5
  <2> QED BY <1>9, <2>1 DEF mqttpt_add_device
<1>10. ASSUME NEW d \in Device, mqttpt_device_register_failure_handler(d) PROVE TypeInv'
      BY <1>10 DEF mqttpt_device_register_failure_handler
<1>11. ASSUME NEW r \in Request, request_handler(r) PROVE TypeInv'
      BY <1>11, AnswerCases
<1>12. CASE shutdown_handler
      BY <1>12 DEF shutdown_handler
<1>13. CASE mqttpt_connection_ready_handler \/ mqttpt_devices_unregister_handler
      BY <1>13 DEF mqttpt_connection_ready_handler, mqttpt_devices_unregister_handler
<1>14. CASE mqttpt_disconnected_handler
      BY <1>14 DEF mqttpt_disconnected_handler
<1>15. CASE mqttpt_protocol_translator_registration_success_handler
      BY <1>15 DEF mqttpt_protocol_translator_registration_success_handler
<1>16. CASE mqttpt_protocol_translator_registration_failure_handler
      BY <1>16 DEF mqttpt_protocol_translator_registration_failure_handler
<1>17. CASE pt_client_start_fails
      BY <1>17 DEF pt_client_start_fails
<1>18. CASE translator_thread_ends
      BY <1>18 DEF translator_thread_ends
<1>19. CASE UNCHANGED vars
      BY <1>19 DEF vars
<1> QED BY <1>1, <1>2, <1>3, <1>4, <1>5, <1>6, <1>7, <1>8, <1>9, <1>10, <1>11, <1>12,
           <1>13, <1>14, <1>15, <1>16, <1>17, <1>18, <1>19
        DEF Next, Message, MainStep, Callback

-----------------------------------------------------------------------------
(* The invariant holds initially ... *)
LEMMA InvInit == Init => Inv
<1> SUFFICES ASSUME Init PROVE Inv
    OBVIOUS
<1>1. Flags
      BY Zenon DEF Init, Flags
<1>2. pub \in [Request -> Log] /\ \A r \in Request : pub[r] = <<>> /\ pend[r] = "none"
      BY DEF Init, Log
<1>3. TypeInv
      BY <1>2, MqttPtAssumption
      DEF Init, TypeInv, Thread, Main, Pt, MainAt, PtAt, Call, Nothing, Kind
<1>4. Carried /\ Threads
      BY DEF Init, Carried, Threads, At, Thread, Main, Pt
<1>5. Requests
      BY <1>2, Logs DEF Init, Requests, RequestInv, Reporting, Nothing
<1>6. Counts
      BY MqttPtAssumption DEF Init, Counts, Sending, Adding, Nothing
<1> QED BY <1>1, <1>3, <1>4, <1>5, <1>6 DEF Inv

(* ... and always. *)
LEMMA Invariance == Spec => []Inv
<1>1. Inv /\ [Next]_vars => Inv'
      BY TypeInvStep, FlagsStep, CarriedStep, RequestsStep, ThreadsStep, CountsStep DEF Inv
<1> QED BY <1>1, InvInit, PTL DEF Spec

(* The types, and with them the bound on the entries of one device in      *)
(* mqttpt_devices: a device is listed again only for registrations that    *)
(* were sent before it was listed the first time.                          *)
THEOREM TypeCorrect == Spec => []TypeOK
BY Invariance, InvImplies, PTL

(* The translator is started at most once, whichever of the two kinds of   *)
(* message comes first, and the client is freed when its thread is over.   *)
THEOREM StartedOnceAndJoined == Spec => []ThreadJoined
BY Invariance, InvImplies, PTL

(* What is published about a request agrees with what became of it,        *)
(* whichever thread publishes first.                                       *)
THEOREM ReportsAgree == Spec => []PublishedAgrees
BY Invariance, InvImplies, PTL

-----------------------------------------------------------------------------
(* The way to the end. *)

LEMMA PursuedStep ==
    ASSUME Inv, ShutdownPursued, [Next]_vars
    PROVE  ShutdownPursued'
<1> USE DEF Inv, TypeInv, Threads, ShutdownPursued, At, Go, Main, Pt, Thread, semVars, edgeVars
<1>1. ASSUME UNCHANGED <<at, unreg, shutdown, started>> PROVE ShutdownPursued'
      BY <1>1
<1>2. ASSUME NEW q, q # "join", Go(Main, q) PROVE ShutdownPursued'
      BY <1>2
<1>3. ASSUME UNCHANGED <<unreg, shutdown, started>>, at[Pt] \in {"events", "adding"},
             NEW q \in {"events", "adding", "ended"}, Go(Pt, q)
      PROVE  ShutdownPursued'
      BY <1>3
<1>4. ASSUME NEW q, q # "join", mqttpt_start_translator(q) PROVE ShutdownPursued'
      BY <1>4 DEF mqttpt_start_translator
<1>5. CASE \/ mosquitto_connect \/ value_message_send \/ gw_status_publish
           \/ mosquitto_loop \/ join_and_free \/ message_dropped \/ message_crashes
      BY <1>5, <1>2 DEF mosquitto_connect, value_message_send, gw_status_publish,
                  mosquitto_loop, join_and_free, message_dropped, message_crashes, Crash
<1>6. CASE shutdown_and_cleanup
      BY <1>6 DEF shutdown_and_cleanup
<1>7. ASSUME NEW d \in Device, mqttpt_translate_node_value_message(d)
      PROVE  ShutdownPursued'
      BY <1>7, <1>2, <1>4 DEF mqttpt_translate_node_value_message, value_message_starts,
                  value_message_decide
<1>8. ASSUME NEW r \in Request, NEW p, mqttpt_translate_gw_status_message(r, p)
      PROVE  ShutdownPursued'
  <2>1. CASE Status(r, "handled") \/ Status(r, "refused")
        BY <2>1, <1>2 DEF Status
  <2>2. CASE Crash
        BY <2>2 DEF Crash
  <2>3. CASE start_pt(r)
        BY <2>3, <1>4 DEF start_pt
  <2> QED BY <1>8, <2>1, <2>2, <2>3, GwStatusCases
<1>9. ASSUME NEW d \in Device,
             \/ mqttpt_add_device(d) \/ mqttpt_device_register_success_handler(d)
             \/ mqttpt_device_register_failure_handler(d)
      PROVE  ShutdownPursued'
      BY <1>9, <1>1, <1>3 DEF mqttpt_device_register_success_handler,
                  mqttpt_device_register_failure_handler, mqttpt_add_device
<1>10. ASSUME NEW r \in Request, request_handler(r) PROVE ShutdownPursued'
      BY <1>10, <1>1, AnswerCases
<1>11. CASE \/ shutdown_handler \/ mqttpt_connection_ready_handler
            \/ mqttpt_disconnected_handler
            \/ mqttpt_protocol_translator_registration_failure_handler
      BY <1>11, <1>1 DEF shutdown_handler, mqttpt_connection_ready_handler,
            mqttpt_disconnected_handler,
            mqttpt_protocol_translator_registration_failure_handler
<1>12. CASE mqttpt_protocol_translator_registration_success_handler
      BY <1>12 DEF mqttpt_protocol_translator_registration_success_handler
<1>13. CASE mqttpt_devices_unregister_handler
      BY <1>13 DEF mqttpt_devices_unregister_handler
<1>14. CASE pt_client_start_fails \/ translator_thread_ends
      BY <1>14, <1>3 DEF pt_client_start_fails, translator_thread_ends
<1>15. CASE UNCHANGED vars
      BY <1>15, <1>1 DEF vars
<1> QED BY <1>5, <1>6, <1>7, <1>8, <1>9, <1>10, <1>11, <1>12, <1>13, <1>14, <1>15
        DEF Next, Message, MainStep, Callback

(* The safety part of ShutdownEnds: the main thread joins the other one only *)
(* when nothing but the answer of the pt-client is missing for its end.      *)
THEOREM ShutdownGoesOn == Spec => []ShutdownPursued
<1>1. Init => ShutdownPursued
      BY DEF Init, ShutdownPursued, At, Main, Pt, Thread
<1>2. Inv /\ ShutdownPursued /\ [Next]_vars => ShutdownPursued'
      BY PursuedStep
<1> QED BY <1>1, <1>2, Invariance, PTL DEF Spec

(* Somebody is there to answer: a connection, and what waits for an answer,  *)
(* need the thread, which ends without pt_client_shutdown only if it never   *)
(* had a connection.                                                         *)
Served ==
    at[Pt] \notin {"events", "adding"} /\ ~shutdown /\ ~Over
        => ~link /\ ~unreg /\ \A r \in Request : pend[r] = "none"

NeverLinked ==
    ~link /\ ~Happened("link") => ~unreg /\ \A r \in Request : pend[r] = "none"

LEMMA ServedStep ==
    ASSUME Inv, Served, NeverLinked, [Next]_vars
    PROVE  (Served /\ NeverLinked)'
<1> USE DEF Inv, TypeInv, Threads, Served, NeverLinked, Over, Happened, At, Go, Main, Pt,
            Thread, semVars, edgeVars, requestVars
<1>0. "link" \in faults => "link" \in faults'
      BY FaultsGrow
<1>1. ASSUME UNCHANGED <<at, link, unreg, shutdown, pend>> PROVE (Served /\ NeverLinked)'
      BY <1>0, <1>1
<1>2. ASSUME NEW q, Go(Main, q), ~Over, UNCHANGED <<link, unreg, shutdown, pend>>
      PROVE  (Served /\ NeverLinked)'
      BY <1>0, <1>2
<1>3. ASSUME NEW q \in {"events", "adding"}, at[Pt] \in {"events", "adding"}, Go(Pt, q),
             UNCHANGED <<link, unreg, shutdown, pend>>
      PROVE  (Served /\ NeverLinked)'
      BY <1>0, <1>3
<1>4. ASSUME NEW q, ~Over, mqttpt_start_translator(q),
             UNCHANGED <<link, unreg, shutdown, pend>>
      PROVE  (Served /\ NeverLinked)'
      BY <1>0, <1>4 DEF mqttpt_start_translator
<1>5. CASE \/ mosquitto_connect \/ value_message_send \/ mosquitto_loop \/ join_and_free
           \/ message_dropped
      BY <1>5, <1>2 DEF mosquitto_connect, value_message_send, mosquitto_loop, join_and_free,
                        message_dropped
<1>6. CASE gw_status_publish
      BY <1>6, <1>2 DEF gw_status_publish
<1>c. CASE message_crashes
      BY <1>0, <1>c DEF message_crashes, Crash
<1>7. CASE shutdown_and_cleanup
      BY <1>0, <1>7 DEF shutdown_and_cleanup
<1>8. ASSUME NEW d \in Device, mqttpt_translate_node_value_message(d)
      PROVE  (Served /\ NeverLinked)'
      BY <1>8, <1>2, <1>4 DEF mqttpt_translate_node_value_message, value_message_starts,
                  value_message_decide
<1>9. ASSUME NEW r \in Request, NEW p, mqttpt_translate_gw_status_message(r, p)
      PROVE  (Served /\ NeverLinked)'
  <2>1. At(Main, "loop") /\ ~Over /\ UNCHANGED <<link, unreg, shutdown>>
        BY <1>9, GwStatusCases DEF mqttpt_translate_gw_status_message
  <2>2. ASSUME NEW k \in Call, NEW s, link, pend' = [pend EXCEPT ![r] = k], Status(r, s)
        PROVE  (Served /\ NeverLinked)'
        BY <1>0, <2>1, <2>2 DEF Status
  <2>3. ASSUME NEW s, Status(r, s), UNCHANGED pend
        PROVE  (Served /\ NeverLinked)'
        BY <1>2, <2>1, <2>3 DEF Status
  <2>4. CASE Crash
        BY <1>0, <2>1, <2>4 DEF Crash
  <2>5. CASE start_pt(r)
        BY <1>4, <2>1, <2>5 DEF start_pt
  <2> QED BY <1>9, <2>2, <2>3, <2>4, <2>5, GwStatusCases
<1>10. ASSUME NEW d \in Device,
             \/ mqttpt_add_device(d) \/ mqttpt_device_register_success_handler(d)
             \/ mqttpt_device_register_failure_handler(d)
      PROVE  (Served /\ NeverLinked)'
      BY <1>10, <1>1, <1>3 DEF mqttpt_device_register_success_handler,
                  mqttpt_device_register_failure_handler, mqttpt_add_device
<1>11. ASSUME NEW r \in Request, request_handler(r) PROVE (Served /\ NeverLinked)'
  <2>1. /\ At(Pt, "events") /\ pend' = [pend EXCEPT ![r] = "none"]
        /\ UNCHANGED <<at, link, unreg, shutdown>>
        BY <1>11, AnswerCases
  <2> QED BY <1>0, <2>1
<1>12. CASE \/ shutdown_handler
            \/ mqttpt_protocol_translator_registration_success_handler
            \/ mqttpt_protocol_translator_registration_failure_handler
      BY <1>12, <1>1 DEF shutdown_handler,
            mqttpt_protocol_translator_registration_success_handler,
            mqttpt_protocol_translator_registration_failure_handler
<1>13. CASE mqttpt_connection_ready_handler
      BY <1>13 DEF mqttpt_connection_ready_handler
<1>14. CASE mqttpt_disconnected_handler
      BY <1>14 DEF mqttpt_disconnected_handler, Fault
<1>15. CASE mqttpt_devices_unregister_handler
      BY <1>0, <1>15 DEF mqttpt_devices_unregister_handler
<1>16. CASE pt_client_start_fails
      BY <1>0, <1>16 DEF pt_client_start_fails
<1>17. CASE translator_thread_ends
      BY <1>0, <1>17 DEF translator_thread_ends
<1>18. CASE UNCHANGED vars
      BY <1>18, <1>1 DEF vars
<1> QED BY <1>5, <1>6, <1>c, <1>7, <1>8, <1>9, <1>10, <1>11, <1>12, <1>13, <1>14, <1>15,
           <1>16, <1>17, <1>18
        DEF Next, Message, MainStep, Callback

(* The safety part of RequestsAnswered: unless the client is shut down or    *)
(* the process is over, a request that waits for its answer, and the         *)
(* unregistration that main waits for, have a thread that brings it.         *)
THEOREM AnswersCanCome == Spec => []Served
<1>1. Init => Served /\ NeverLinked
      BY DEF Init, Served, NeverLinked
<1>2. Inv /\ Served /\ NeverLinked /\ [Next]_vars => (Served /\ NeverLinked)'
      BY ServedStep
<1> QED BY <1>1, <1>2, Invariance, PTL DEF Spec
=============================================================================
