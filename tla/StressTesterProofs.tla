------------------------- MODULE StressTesterProofs -------------------------
(***************************************************************************)
(* Proofs about StressTester, for all test threads, translators, devices   *)
(* and bounds.                                                             *)
(***************************************************************************)
EXTENDS StressTester, FiniteSetTheorems, TLAPS

-----------------------------------------------------------------------------
(* Finite sets as sequences *)

(* The requests for a finite set of devices are finitely many. *)
LEMMA RequestsFinite ==
    ASSUME NEW S, IsFiniteSet(S), NEW op, NEW t
    PROVE  IsFiniteSet({Request(op, t, d) : d \in S})
<1> DEFINE T == {Request(op, t, d) : d \in S}
           f == [d \in S |-> Request(op, t, d)]
<1>1. f \in Surjection(S, T)
      BY DEF Surjection
<1> QED BY <1>1, FS_Surjection

(* SetToSeq lists elements of its set. *)
LEMMA SetToSeqTyped ==
    ASSUME NEW S, IsFiniteSet(S)
    PROVE  SetToSeq(S) \in Seq(S)
<1>1. Cardinality(S) \in Nat /\ ExistsBijection(1..Cardinality(S), S)
      BY FS_CardinalityType
<1>2. \E f \in [1..Cardinality(S) -> S] : IsInjective(f)
      BY <1>1 DEF ExistsBijection, Bijection, Injection
<1>3. SetToSeq(S) \in [1..Cardinality(S) -> S]
      BY <1>2 DEF SetToSeq
<1> QED BY <1>1, <1>3

-----------------------------------------------------------------------------
(* Types *)

(* Requests about a device, and about the translator. *)
DeviceOp == {"register", "unregister", "noRegister"}
Req == [op : DeviceOp, dev : Ids]
       \union [op : {"translator", "noTranslator"}, dev : {<<>>}]

(* Where an event loop is. *)
ApiAt == {"start", "events", "connecting", "cleaning", "ended"}

TypeInv ==
    /\ test \in [Thread -> {"run", "act", "waiting", "exited"}]
    /\ list \in [Thread -> SUBSET Device] /\ flag \in [Thread -> SUBSET Device]
    /\ leaked \subseteq Thread
    /\ api \in [Pt -> ApiAt]
    /\ down \subseteq Pt
    /\ queue \in [Pt -> Seq(Req)]
    /\ edge \in [Pt -> SUBSET Ids]
    /\ cleaner \in [{"signal", "timer"} -> {"none", "expired", "cleaning", "ended"}]
    /\ main \in {"tests", "apis", "threads", "exit"}
    /\ faults \in SUBSET Kind

Flags ==
    /\ up \in [Pt -> BOOLEAN] /\ running \in [Pt -> BOOLEAN] /\ keep \in [Pt -> BOOLEAN]
    /\ initiated \in BOOLEAN /\ crashed \in BOOLEAN

(* The lists: finite, within the limit, and with the marks. *)
Lists ==
    \A t \in Thread : /\ IsFiniteSet(list[t]) /\ Cardinality(list[t]) <= MaxDevices
                      /\ flag[t] \subseteq list[t]

(* The oldest request, when it is about a device. *)
LEMMA HeadRequest ==
    ASSUME NEW q \in Seq(Req), q # <<>>
    PROVE  /\ Tail(q) \in Seq(Req) /\ Len(q) \in Nat /\ Len(Tail(q)) = Len(q) - 1 /\ Len(q) > 0
           /\ Head(q) = q[1] /\ \A i \in 1..Len(Tail(q)) : Tail(q)[i] = q[i + 1]
           /\ Head(q).op \in DeviceOp =>
                \E t \in Thread, d \in Device :
                    Head(q).dev = <<t, d>> /\ Head(q) = Request(Head(q).op, t, d)
<1>1. /\ Tail(q) \in Seq(Req) /\ Len(q) \in Nat /\ Len(Tail(q)) = Len(q) - 1 /\ Len(q) > 0
      /\ Head(q) = q[1] /\ \A i \in 1..Len(Tail(q)) : Tail(q)[i] = q[i + 1]
      /\ Head(q) \in Req
      OBVIOUS
<1>2. ASSUME Head(q).op \in DeviceOp
      PROVE  \E t \in Thread, d \in Device :
                    Head(q).dev = <<t, d>> /\ Head(q) = Request(Head(q).op, t, d)
  <2>1. Head(q) \in [op : DeviceOp, dev : Ids]
        BY <1>1, <1>2 DEF Req, DeviceOp
  <2>2. PICK t \in Thread, d \in Device : Head(q).dev = <<t, d>>
        BY <2>1 DEF Ids
  <2>3. Head(q) = Request(Head(q).op, t, d)
        BY <2>1, <2>2 DEF Request
  <2> QED BY <2>2, <2>3
<1> QED BY <1>1, <1>2

(* The requests that unregister a set of devices. *)
LEMMA Unregistrations ==
    ASSUME NEW q \in Seq(Req), NEW t \in Thread, NEW S \in SUBSET Device, IsFiniteSet(S)
    PROVE  LET u == SetToSeq({Request("unregister", t, d) : d \in S}) IN
           /\ q \o u \in Seq(Req) /\ Len(q \o u) \in Nat /\ Len(q) <= Len(q \o u)
           /\ \A i \in 1..Len(q) : (q \o u)[i] = q[i]
           /\ \A i \in 1..Len(q \o u) : i > Len(q) => (q \o u)[i].op = "unregister"
<1> DEFINE R == {Request("unregister", t, d) : d \in S}
           u == SetToSeq(R)
<1>1. u \in Seq(R)
      BY RequestsFinite, SetToSeqTyped
<1>2. R \subseteq Req /\ \A r \in R : r.op = "unregister"
      BY DEF Request, Req, DeviceOp, Ids
<1> HIDE DEF R, u
<1>3. u \in Seq(Req) /\ Len(u) \in Nat /\ \A i \in 1..Len(u) : u[i].op = "unregister"
      BY <1>1, <1>2
<1>4. q \o u \in Seq(Req) /\ Len(q) \in Nat /\ Len(q \o u) = Len(q) + Len(u)
      BY <1>3
<1>5. \A i \in 1..Len(q) : (q \o u)[i] = q[i]
      BY <1>3
<1>6. ASSUME NEW i \in 1..Len(q \o u), i > Len(q) PROVE (q \o u)[i].op = "unregister"
      BY <1>3, <1>4, <1>6
<1> QED BY <1>3, <1>4, <1>5, <1>6 DEF u, R

(* What becomes of the requests when the connection is lost. *)
LEMMA LostRequests ==
    ASSUME NEW q \in Seq(Req)
    PROVE  LET l == [i \in 1..Len(q) |-> [q[i] EXCEPT !.op = Lost[q[i].op]]] IN
           /\ l \in Seq(Req) /\ Len(l) = Len(q)
           /\ \A i \in 1..Len(l) : l[i].op # "register"
<1>1. ASSUME NEW r \in Req
      PROVE  /\ [r EXCEPT !.op = Lost[r.op]] \in Req
             /\ [r EXCEPT !.op = Lost[r.op]].op # "register"
  <2>1. CASE r \in [op : DeviceOp, dev : Ids]
        BY <2>1 DEF Req, DeviceOp, Lost
  <2>2. CASE r \in [op : {"translator", "noTranslator"}, dev : {<<>>}]
        BY <2>2 DEF Req, DeviceOp, Lost
  <2> QED BY <2>1, <2>2 DEF Req
<1>2. Len(q) \in Nat /\ \A i \in 1..Len(q) : q[i] \in Req
      OBVIOUS
<1> DEFINE l == [i \in 1..Len(q) |-> [q[i] EXCEPT !.op = Lost[q[i].op]]]
<1>3. \A i \in 1..Len(q) : l[i] \in Req /\ l[i].op # "register"
      BY <1>1, <1>2
<1>4. l \in Seq(Req) /\ Len(l) = Len(q)
      BY <1>2, <1>3
<1> QED BY <1>3, <1>4

-----------------------------------------------------------------------------
(* The inductive invariant *)

(* Who has ended: the threads before the main thread goes on, and that     *)
(* before a connection is shut down.                                       *)
Ending ==
    /\ \A t \in Thread : test[t] = "exited" => list[t] = {}
    /\ main # "tests" => \A t \in Thread : test[t] = "exited"
    /\ down # {} => main # "tests"

(* A device of Edge is on the list of a thread of this translator, which   *)
(* is connected.                                                           *)
Known(p) ==
    \A t \in Thread, d \in Device :
        <<t, d>> \in edge[p] => d \in list[t] /\ PtOf[t] = p /\ up[p]

Asks(p, i, t, d) == queue[p][i] = Request("register", t, d)

(* So is a device whose registration is not answered; Edge does not have   *)
(* it, and it was asked for once.                                          *)
Asked(p) ==
    \A i \in 1..Len(queue[p]), t \in Thread, d \in Device : Asks(p, i, t, d) =>
        /\ d \in list[t] /\ PtOf[t] = p /\ up[p]
        /\ <<t, d>> \notin edge[p]
        /\ \A j \in 1..Len(queue[p]) : Asks(p, j, t, d) => j = i

(* Until a call of the pt-client is refused. *)
Tracked == ~Happened("send") => \A p \in Pt : Known(p) /\ Asked(p)

Inv == TypeInv /\ Flags /\ Lists /\ Ending /\ Tracked /\ AnswersFindDevices

-----------------------------------------------------------------------------
(* The steps of the test threads and of the event loops, in the form that  *)
(* the proofs use *)

(* Devices of S are asked to be unregistered, F is removed by force. *)
Unregistered(t, F, n) ==
    /\ list' = [list EXCEPT ![t] = @ \ F] /\ flag' = [flag EXCEPT ![t] = @ \ F]
    /\ queue' = [queue EXCEPT ![PtOf[t]] = n]
    /\ faults' = faults \/ faults' = faults \union {"send"}
    /\ F = {} \/ ~up[PtOf[t]] \/ Happened("send")'
    /\ Len(n) \in Nat /\ Len(queue[PtOf[t]]) <= Len(n)
    /\ \A i \in 1..Len(queue[PtOf[t]]) : n[i] = queue[PtOf[t]][i]
    /\ \A i \in 1..Len(n) : i > Len(queue[PtOf[t]]) => n[i].op = "unregister"

LEMMA UnregisterCases ==
    ASSUME TypeInv, Lists, NEW t \in Thread, NEW S \in SUBSET list[t],
           unregister_device_entry_common(t, S)
    PROVE  \E F \in SUBSET S, n \in Seq(Req) : Unregistered(t, F, n)
<1>1. PICK F \in SUBSET S :
        /\ \/ F = {} /\ up[PtOf[t]] /\ UNCHANGED faults
           \/ F = S /\ ~up[PtOf[t]] /\ UNCHANGED faults
           \/ F # {} /\ up[PtOf[t]] /\ Fault("send")
        /\ queue' = [queue EXCEPT ![PtOf[t]] =
                         @ \o SetToSeq({Request("unregister", t, d) : d \in S \ F})]
        /\ list' = [list EXCEPT ![t] = @ \ F]
        /\ flag' = [flag EXCEPT ![t] = @ \ F]
      BY DEF unregister_device_entry_common
<1> DEFINE q == queue[PtOf[t]]
           n == q \o SetToSeq({Request("unregister", t, d) : d \in S \ F})
<1>2. q \in Seq(Req) /\ PtOf[t] \in Pt
      BY StressAssumption DEF TypeInv
<1>3. S \ F \in SUBSET Device /\ IsFiniteSet(S \ F)
      BY FS_Subset DEF TypeInv, Lists
<1>4. /\ n \in Seq(Req) /\ Len(n) \in Nat /\ Len(q) <= Len(n)
      /\ \A i \in 1..Len(q) : n[i] = q[i]
      /\ \A i \in 1..Len(n) : i > Len(q) => n[i].op = "unregister"
      BY <1>2, <1>3, Unregistrations
<1>5. queue' = [queue EXCEPT ![PtOf[t]] = n]
      BY <1>1
<1>6. /\ faults' = faults \/ faults' = faults \union {"send"}
      /\ F = {} \/ ~up[PtOf[t]] \/ Happened("send")'
      BY <1>1 DEF Fault, Happened
<1> HIDE DEF n
<1>7. Unregistered(t, F, n)
      BY <1>1, <1>4, <1>5, <1>6 DEF Unregistered
<1> QED BY <1>4, <1>7

(* A device is taken on, with its request or without. *)
LEMMA RegisterCases ==
    ASSUME TypeInv, NEW t \in Thread, register_random_device(t)
    PROVE  /\ test[t] = "act" /\ test' = [test EXCEPT ![t] = "run"] /\ up[PtOf[t]]
           /\ Cardinality(list[t]) < MaxDevices /\ UNCHANGED <<flag, leaked, ptVars, edge, endVars>>
           /\ \E d \in Device \ list[t] :
                /\ ~Outstanding(t, d)
                /\ list' = [list EXCEPT ![t] = @ \union {d}]
                /\ \/ /\ queue' = [queue EXCEPT ![PtOf[t]] =
                                        Append(@, Request("register", t, d))]
                      /\ UNCHANGED faults
                   \/ faults' = faults \union {"send"} /\ UNCHANGED queue
BY DEF register_random_device, Acts, Able, Fault

(* A thread asks for unregistrations, while it tests or when it ends. *)
LEMMA UnregisterSteps ==
    ASSUME TypeInv, NEW t \in Thread,
           unregister_random_device(t) \/ unregister_devices(t)
    PROVE  /\ \E S \in SUBSET list[t] : unregister_device_entry_common(t, S)
           /\ test[t] \in {"run", "act"}
           /\ \/ test' = [test EXCEPT ![t] = "run"]
              \/ test' = [test EXCEPT ![t] = "waiting"]
           /\ UNCHANGED <<leaked, ptVars, edge, endVars>>
<1>1. CASE unregister_random_device(t)
  <2>1. PICK d \in list[t] : unregister_device_entry_common(t, {d})
        BY <1>1 DEF unregister_random_device
  <2> QED BY <1>1, <2>1 DEF unregister_random_device, Acts
<1>2. CASE unregister_devices(t)
      BY <1>2 DEF unregister_devices
<1> QED BY <1>1, <1>2

(* The answers: those that leave the lists alone, and those that mark and  *)
(* remove a device.                                                        *)
Leaves(p) ==
    /\ UNCHANGED <<list, flag, edge, crashed>>
    /\ \/ UNCHANGED faults
       \/ \E k \in {"translator", "registration", "unregistration"} :
              faults' = faults \union {k}
    /\ api' = api \/ api' = [api EXCEPT ![p] = "cleaning"]

Marks(p, t, d) ==
    /\ Head(queue[p]) = Request("register", t, d)
    /\ Uses(t, d)
    /\ flag' = [flag EXCEPT ![t] = @ \union ({d} \cap list[t])]
    /\ edge' = [edge EXCEPT ![p] = @ \union {<<t, d>>}]
    /\ UNCHANGED <<list, faults, api>>

Removes(p, t, d) ==
    /\ Head(queue[p]) = Request("unregister", t, d) /\ <<t, d>> \in edge[p]
    /\ Uses(t, d)
    /\ list' = [list EXCEPT ![t] = @ \ {d}]
    /\ flag' = [flag EXCEPT ![t] = @ \ {d}]
    /\ edge' = [edge EXCEPT ![p] = @ \ {<<t, d>>}]
    /\ UNCHANGED <<faults, api>>

LEMMA AnswerCases ==
    ASSUME TypeInv, NEW p \in Pt, AnswerStep(p)
    PROVE  /\ queue[p] # <<>> /\ queue' = [queue EXCEPT ![p] = Tail(@)]
           /\ UNCHANGED <<test, leaked, up, down, initiated, cleaner, main>>
           /\ Leaves(p) \/ \E t \in Thread, d \in Device : Marks(p, t, d) \/ Removes(p, t, d)
<1>q. queue[p] \in Seq(Req)
      BY DEF TypeInv
<1> USE DEF Answer, ptVars, testVars, endVars, edgeVars
<1>1. CASE protocol_translator_registration_success(p)
      BY <1>1 DEF protocol_translator_registration_success, Leaves
<1>2. CASE protocol_translator_registration_failure(p)
      BY <1>2 DEF protocol_translator_registration_failure, Fault, Leaves
<1>3. CASE device_registration_success(p)
  <2>1. PICK t \in Thread, d \in Device : Head(queue[p]).dev = <<t, d>>
                                          /\ Head(queue[p]) = Request("register", t, d)
        BY <1>3, <1>q, HeadRequest DEF device_registration_success, DeviceOp
  <2>2. Head(queue[p]).dev[1] = t /\ Head(queue[p]).dev[2] = d
        BY <2>1
  <2> QED BY <1>3, <2>1, <2>2 DEF device_registration_success, Marks
<1>4. CASE device_registration_failure(p)
      BY <1>4 DEF device_registration_failure, Fault, Leaves
<1>5. CASE device_unregistration_success(p)
  <2>1. PICK t \in Thread, d \in Device : Head(queue[p]).dev = <<t, d>>
                                          /\ Head(queue[p]) = Request("unregister", t, d)
        BY <1>5, <1>q, HeadRequest DEF device_unregistration_success, DeviceOp
  <2>2. Head(queue[p]).dev[1] = t /\ Head(queue[p]).dev[2] = d
        BY <2>1
  <2> QED BY <1>5, <2>1, <2>2 DEF device_unregistration_success, Removes
<1>6. CASE device_unregistration_failure(p)
      BY <1>6 DEF device_unregistration_failure, Fault, Leaves
<1> QED BY <1>1, <1>2, <1>3, <1>4, <1>5, <1>6 DEF AnswerStep

(* What concerns the test threads alone. *)
LEMMA TestCases ==
    ASSUME TypeInv, NEW t \in Thread,
           test_thread_goes_on(t) \/ other_action(t) \/ test_thread_exits(t)
    PROVE  /\ UNCHANGED <<list, flag, leaked, ptVars, edgeVars, endVars, faults>>
           /\ test[t] # "exited"
           /\ \/ test' = [test EXCEPT ![t] = "run"] \/ test' = [test EXCEPT ![t] = "act"]
              \/ test' = [test EXCEPT ![t] = "exited"] /\ list[t] = {} /\ test[t] = "waiting"
BY DEF test_thread_goes_on, other_action, Acts, test_thread_exits

(* What concerns the start and the end of the translators alone. *)
Managing == \/ \E p \in Pt : ApiStep(p)
            \/ shutdown_handler \/ timer_expires \/ EndStep

LEMMA ManagingCases ==
    ASSUME TypeInv, Managing
    PROVE  /\ UNCHANGED <<testVars, edgeVars, running, crashed>>
           /\ api' \in [Pt -> ApiAt] /\ down' \subseteq Pt
           /\ cleaner' \in [{"signal", "timer"} -> {"none", "expired", "cleaning", "ended"}]
           /\ main' \in {"tests", "apis", "threads", "exit"}
           /\ faults' \in SUBSET Kind
           /\ \E k \in {"early", "start"} : faults' \in {faults, faults \union {k}}
           /\ down' = down \/ main # "tests"
           /\ main' = main \/ main # "tests" \/ \A t \in Thread : test[t] = "exited"
           /\ main' = "tests" => main = "tests"
<1> USE DEF TypeInv, ApiAt, testVars, edgeVars, ptVars, endVars, Fault, Kind, Happened
<1>1. ASSUME shutdown_and_cleanup
      PROVE  /\ down' \subseteq Pt /\ faults' \in SUBSET Kind /\ main # "tests"
             /\ faults' = faults \/ faults' = faults \union {"early"}
      BY <1>1 DEF shutdown_and_cleanup, test_threads_exited
<1>2. ASSUME NEW p \in Pt, protocol_translator_api_start(p)
      PROVE  /\ api' \in [Pt -> ApiAt]
             /\ faults' = faults \/ faults' = faults \union {"start"}
             /\ UNCHANGED <<up, running, down, testVars, edgeVars, endVars>>
      BY <1>2 DEF protocol_translator_api_start
<1>3. CASE \E p \in Pt : protocol_translator_api_start(p)
  <2>1. /\ api' \in [Pt -> ApiAt]
        /\ faults' = faults \/ faults' = faults \union {"start"}
        /\ UNCHANGED <<up, running, down, testVars, edgeVars, endVars>>
        BY <1>2, <1>3
  <2> QED BY <2>1
<1>4. CASE \E p \in Pt : protocol_translator_api_ends(p)
      BY <1>4 DEF protocol_translator_api_ends
<1>5. CASE \E p \in Pt : api_cleanup(p)
  <2>1. shutdown_and_cleanup /\ UNCHANGED <<running, testVars, edgeVars, endVars>>
        BY <1>5 DEF api_cleanup
  <2>2. api' \in [Pt -> ApiAt]
        BY <1>5 DEF api_cleanup
  <2> QED BY <1>1, <2>1, <2>2
<1>6. CASE shutdown_handler
      BY <1>6 DEF shutdown_handler
<1>7. CASE timer_expires
      BY <1>7 DEF timer_expires
<1>8. CASE shutdown_thread_func
  <2>1. /\ shutdown_and_cleanup /\ UNCHANGED <<api, up, running, testVars, edgeVars, main, crashed>>
        /\ cleaner' = [cleaner EXCEPT !["signal"] = "ended"]
        BY <1>8 DEF shutdown_thread_func
  <2> QED BY <1>1, <2>1
<1>9. CASE timer_initiates
      BY <1>9 DEF timer_initiates
<1>10. CASE timer_cleanup
  <2>1. /\ shutdown_and_cleanup /\ UNCHANGED <<api, up, running, testVars, edgeVars, main, crashed>>
        /\ cleaner' = [cleaner EXCEPT !["timer"] = "none"]
        BY <1>10 DEF timer_cleanup
  <2> QED BY <1>1, <2>1
<1>11. CASE timer_thread_ends
      BY <1>11 DEF timer_thread_ends
<1>12. CASE wait_for_test_threads
      BY <1>12 DEF wait_for_test_threads
<1>13. CASE wait_for_protocol_translator_api_threads \/ main_ends
      BY <1>13 DEF wait_for_protocol_translator_api_threads, main_ends
<1> QED BY <1>3, <1>4, <1>5, <1>6, <1>7, <1>8, <1>9, <1>10, <1>11, <1>12, <1>13
        DEF Managing, ApiStep, EndStep

-----------------------------------------------------------------------------
(* Each part of the invariant is preserved *)

(* None of these steps takes a connection away. *)
LEMMA ConnectionsStay ==
    ASSUME Flags, Managing, NEW p \in Pt
    PROVE  up[p] => up'[p]
<1> USE DEF Flags, ptVars
<1>1. CASE \E o \in Pt : api_cleanup(o)
      BY <1>1 DEF api_cleanup
<1>2. CASE UNCHANGED up
      BY <1>2
<1> QED BY <1>1, <1>2 DEF Managing, ApiStep, protocol_translator_api_start,
           protocol_translator_api_ends, shutdown_handler, timer_expires, EndStep,
           shutdown_thread_func, timer_initiates, timer_cleanup, timer_thread_ends,
           wait_for_test_threads, wait_for_protocol_translator_api_threads, main_ends

LEMMA TypeInvStep == TypeInv /\ Lists /\ [Next]_vars => TypeInv'
<1> SUFFICES ASSUME TypeInv, Lists, [Next]_vars PROVE TypeInv'
    OBVIOUS
<1> USE StressAssumption DEF ptVars, edgeVars, endVars, testVars
<1>1. ASSUME NEW t \in Thread, register_random_device(t) PROVE TypeInv'
  <2>1. PICK d \in Device \ list[t] :
          /\ list' = [list EXCEPT ![t] = @ \union {d}]
          /\ \/ /\ queue' = [queue EXCEPT ![PtOf[t]] = Append(@, Request("register", t, d))]
                /\ UNCHANGED faults
             \/ faults' = faults \union {"send"} /\ UNCHANGED queue
        BY <1>1, RegisterCases
  <2>2. Request("register", t, d) \in Req
        BY DEF Request, Req, DeviceOp, Ids
  <2>3. Append(queue[PtOf[t]], Request("register", t, d)) \in Seq(Req)
        BY <2>2 DEF TypeInv
  <2>4. queue' \in [Pt -> Seq(Req)]
        BY <2>1, <2>3 DEF TypeInv
  <2>6. faults' \in SUBSET Kind
        BY <2>1 DEF TypeInv, Kind
  <2>5. list' \in [Thread -> SUBSET Device]
        BY <2>1 DEF TypeInv
  <2> QED BY <1>1, <2>4, <2>5, <2>6, RegisterCases DEF TypeInv
<1>2. ASSUME NEW t \in Thread, unregister_random_device(t) \/ unregister_devices(t)
      PROVE  TypeInv'
  <2>1. PICK S \in SUBSET list[t] : unregister_device_entry_common(t, S)
        BY <1>2, UnregisterSteps
  <2>u. PICK F \in SUBSET S, n \in Seq(Req) : Unregistered(t, F, n)
        BY <2>1, UnregisterCases
  <2>2. /\ list' = [list EXCEPT ![t] = @ \ F] /\ flag' = [flag EXCEPT ![t] = @ \ F]
        /\ queue' = [queue EXCEPT ![PtOf[t]] = n]
        /\ faults' = faults \/ faults' = faults \union {"send"}
        BY <2>u DEF Unregistered
  <2>3. queue' \in [Pt -> Seq(Req)] /\ faults' \in SUBSET Kind
        BY <2>2 DEF TypeInv, Kind
  <2>4. list' \in [Thread -> SUBSET Device] /\ flag' \in [Thread -> SUBSET Device]
        BY <2>2 DEF TypeInv
  <2>5. test' \in [Thread -> {"run", "act", "waiting", "exited"}]
        /\ UNCHANGED <<leaked, ptVars, edge, endVars>>
        BY <1>2, UnregisterSteps DEF TypeInv
  <2> QED BY <2>3, <2>4, <2>5 DEF TypeInv
<1>3. ASSUME NEW t \in Thread,
             test_thread_goes_on(t) \/ other_action(t) \/ test_thread_exits(t)
      PROVE  TypeInv'
      BY <1>3, TestCases DEF TypeInv
<1>4. ASSUME NEW p \in Pt, AnswerStep(p) PROVE TypeInv'
  <2>1. Tail(queue[p]) \in Seq(Req) /\ queue' = [queue EXCEPT ![p] = Tail(@)]
        BY <1>4, AnswerCases, HeadRequest DEF TypeInv
  <2>2. queue' \in [Pt -> Seq(Req)]
        BY <2>1 DEF TypeInv
  <2>3. UNCHANGED <<test, leaked, up, down, initiated, cleaner, main>>
        BY <1>4, AnswerCases
  <2>4. CASE Leaves(p)
        BY <2>2, <2>3, <2>4 DEF TypeInv, ApiAt, Kind, Leaves
  <2>5. ASSUME NEW t \in Thread, NEW d \in Device, Marks(p, t, d) PROVE TypeInv'
    <3>1. <<t, d>> \in Ids
          BY DEF Ids
    <3> QED BY <2>2, <2>3, <2>5, <3>1 DEF TypeInv, Marks
  <2>6. ASSUME NEW t \in Thread, NEW d \in Device, Removes(p, t, d) PROVE TypeInv'
        BY <2>2, <2>3, <2>6 DEF TypeInv, Removes
  <2> QED BY <1>4, <2>4, <2>5, <2>6, AnswerCases
<1>5. ASSUME NEW p \in Pt, connection_ready_handler(p) PROVE TypeInv'
  <2>1. [op |-> "translator", dev |-> <<>>] \in Req
        BY DEF Req
  <2>2. queue' \in [Pt -> Seq(Req)]
    <3>1. CASE queue' = [queue EXCEPT ![p] = Append(@, [op |-> "translator", dev |-> <<>>])]
          BY <2>1, <3>1 DEF TypeInv
    <3> QED BY <1>5, <3>1 DEF TypeInv, connection_ready_handler
  <2>3. api' \in [Pt -> ApiAt]
        BY <1>5 DEF TypeInv, ApiAt, connection_ready_handler
  <2>4. faults' \in SUBSET Kind
        BY <1>5 DEF TypeInv, connection_ready_handler, Fault, Kind
  <2> QED BY <1>5, <2>2, <2>3, <2>4 DEF TypeInv, connection_ready_handler, testVars, endVars
<1>6. ASSUME NEW p \in Pt, disconnected_handler(p) PROVE TypeInv'
  <2> DEFINE l == [i \in 1..Len(queue[p]) |->
                       [queue[p][i] EXCEPT !.op = Lost[queue[p][i].op]]]
  <2>1. l \in Seq(Req)
        BY LostRequests DEF TypeInv
  <2>2. queue' = [queue EXCEPT ![p] = l]
        BY <1>6 DEF disconnected_handler
  <2> HIDE DEF l
  <2>3. queue' \in [Pt -> Seq(Req)]
        BY <2>1, <2>2 DEF TypeInv
  <2>4. edge' \in [Pt -> SUBSET Ids] /\ faults' \in SUBSET Kind
        BY <1>6 DEF TypeInv, disconnected_handler, Fault, Kind
  <2> QED BY <1>6, <2>3, <2>4 DEF TypeInv, disconnected_handler
<1>7. ASSUME NEW p \in Pt, received_write_handler(p) PROVE TypeInv'
  <2>1. leaked' \subseteq Thread
        BY <1>7 DEF TypeInv, received_write_handler
  <2>2. faults' \in SUBSET Kind
        BY <1>7 DEF TypeInv, received_write_handler, Fault, Kind
  <2> QED BY <1>7, <2>1, <2>2 DEF TypeInv, received_write_handler
<1>8. CASE Managing
      BY <1>8, ManagingCases DEF TypeInv
<1>9. CASE UNCHANGED vars
      BY <1>9 DEF TypeInv, vars
<1> QED BY <1>1, <1>2, <1>3, <1>4, <1>5, <1>6, <1>7, <1>8, <1>9
        DEF Next, TestStep, Managing

(* The flags stay truth values. *)
LEMMA FlagsStep == TypeInv /\ Flags /\ [Next]_vars => Flags'
<1> SUFFICES ASSUME TypeInv, Flags, [Next]_vars PROVE Flags'
    OBVIOUS
<1> USE DEF Flags
<1>0. ASSUME UNCHANGED <<up, running, keep, initiated, crashed>> PROVE Flags'
      BY <1>0
<1>1. ASSUME NEW t \in Thread, TestStep(t) PROVE Flags'
  <2>1. UNCHANGED <<ptVars, endVars>>
        BY <1>1, TestCases, RegisterCases, UnregisterSteps DEF TestStep
  <2> QED BY <2>1, <1>0 DEF ptVars, endVars
<1>2. ASSUME NEW p \in Pt, AnswerStep(p) PROVE Flags'
  <2>1. crashed' \in BOOLEAN
        BY <1>2, AnswerCases, Zenon DEF Leaves, Marks, Removes, Uses
  <2>2. UNCHANGED <<up, initiated>>
        BY <1>2, AnswerCases
  <2>3. /\ running' = running \/ running' = [running EXCEPT ![p] = TRUE]
        /\ keep' = keep \/ keep' = [keep EXCEPT ![p] = FALSE]
        BY <1>2 DEF AnswerStep, protocol_translator_registration_success,
            protocol_translator_registration_failure, device_registration_success,
            device_registration_failure, device_unregistration_success,
            device_unregistration_failure, ptVars
  <2>4. running' \in [Pt -> BOOLEAN] /\ keep' \in [Pt -> BOOLEAN]
        BY <2>3
  <2> QED BY <2>1, <2>2, <2>4
<1>3. ASSUME NEW p \in Pt, connection_ready_handler(p) PROVE Flags'
  <2>1. up' \in [Pt -> BOOLEAN]
        BY <1>3 DEF connection_ready_handler
  <2> QED BY <1>3, <2>1 DEF connection_ready_handler, endVars
<1>4. ASSUME NEW p \in Pt, disconnected_handler(p) PROVE Flags'
  <2>1. up' \in [Pt -> BOOLEAN]
        BY <1>4 DEF disconnected_handler
  <2> QED BY <1>4, <2>1 DEF disconnected_handler, endVars
<1>5. ASSUME NEW p \in Pt, received_write_handler(p) PROVE Flags'
  <2>1. crashed' \in BOOLEAN
        BY <1>5, Zenon DEF received_write_handler
  <2> QED BY <1>5, <2>1 DEF received_write_handler, ptVars
<1>6. ASSUME shutdown_and_cleanup PROVE keep' \in [Pt -> BOOLEAN]
      BY <1>6 DEF shutdown_and_cleanup
<1>7. ASSUME NEW p \in Pt, ApiStep(p) PROVE Flags'
  <2>1. CASE protocol_translator_api_start(p) \/ protocol_translator_api_ends(p)
    <3>1. /\ keep' = keep \/ keep' = [keep EXCEPT ![p] = FALSE]
          /\ UNCHANGED <<up, running, initiated, crashed>>
          BY <2>1 DEF protocol_translator_api_start, protocol_translator_api_ends, endVars
    <3> QED BY <3>1
  <2>2. CASE api_cleanup(p)
    <3>1. up' \in [Pt -> BOOLEAN]
          BY <2>2, Zenon DEF api_cleanup
    <3> QED BY <2>2, <3>1, <1>6 DEF api_cleanup, endVars
  <2> QED BY <1>7, <2>1, <2>2 DEF ApiStep
<1>8. CASE shutdown_handler \/ timer_initiates
  <2>1. initiated' \in BOOLEAN
        BY <1>8, Zenon DEF shutdown_handler, timer_initiates
  <2> QED BY <1>8, <2>1 DEF shutdown_handler, timer_initiates, ptVars
<1>9. CASE shutdown_thread_func \/ timer_cleanup
      BY <1>9, <1>6 DEF shutdown_thread_func, timer_cleanup
<1>10. CASE \/ timer_expires \/ timer_thread_ends \/ wait_for_test_threads
            \/ wait_for_protocol_translator_api_threads \/ main_ends
      BY <1>10, <1>0 DEF timer_expires, timer_thread_ends, wait_for_test_threads,
            wait_for_protocol_translator_api_threads, main_ends, ptVars
<1>11. CASE UNCHANGED vars
      BY <1>11, <1>0 DEF vars
<1> QED BY <1>1, <1>2, <1>3, <1>4, <1>5, <1>7, <1>8, <1>9, <1>10, <1>11
        DEF Next, EndStep

(* The lists stay finite, within the limit and around the marks. *)
LEMMA ListsStep == TypeInv /\ Lists /\ [Next]_vars => Lists'
<1> SUFFICES ASSUME TypeInv, Lists, [Next]_vars PROVE Lists'
    OBVIOUS
<1>0. ASSUME UNCHANGED <<list, flag>> PROVE Lists'
      BY <1>0 DEF Lists
<1>c. \A t \in Thread : IsFiniteSet(list[t]) /\ Cardinality(list[t]) \in Nat
                        /\ Cardinality(list[t]) <= MaxDevices /\ flag[t] \subseteq list[t]
      BY FS_CardinalityType DEF Lists
<1>1. ASSUME NEW t \in Thread, register_random_device(t) PROVE Lists'
  <2>1. PICK d \in Device \ list[t] : list' = [list EXCEPT ![t] = @ \union {d}]
        BY <1>1, RegisterCases
  <2>2. UNCHANGED flag /\ Cardinality(list[t]) < MaxDevices
        BY <1>1, RegisterCases
  <2>3. /\ IsFiniteSet(list[t] \union {d})
        /\ Cardinality(list[t] \union {d}) = Cardinality(list[t]) + 1
        BY <1>c, <2>1, FS_AddElement
  <2>4. list'[t] = list[t] \union {d} /\ \A x \in Thread \ {t} : list'[x] = list[x]
        BY <2>1 DEF TypeInv
  <2>5. ASSUME NEW x \in Thread
        PROVE  /\ IsFiniteSet(list'[x]) /\ Cardinality(list'[x]) <= MaxDevices
               /\ flag'[x] \subseteq list'[x]
    <3>1. CASE x = t
      <4>1. Cardinality(list[t]) + 1 <= MaxDevices
            BY <1>c, <2>2, StressAssumption
      <4>2. flag'[t] \subseteq list'[t]
            BY <1>c, <2>2, <2>4
      <4> QED BY <2>3, <2>4, <3>1, <4>1, <4>2
    <3>2. CASE x # t
          BY <1>c, <2>2, <2>4, <3>2
    <3> QED BY <3>1, <3>2
  <2> QED BY <2>5 DEF Lists
<1>2. ASSUME NEW t \in Thread, NEW F,
             list' = [list EXCEPT ![t] = @ \ F], flag' = [flag EXCEPT ![t] = @ \ F]
      PROVE  Lists'
  <2>1. /\ list'[t] = list[t] \ F /\ flag'[t] = flag[t] \ F
        /\ \A x \in Thread \ {t} : list'[x] = list[x] /\ flag'[x] = flag[x]
        BY <1>2 DEF TypeInv
  <2>2. /\ IsFiniteSet(list[t] \ F) /\ Cardinality(list[t] \ F) \in Nat
        /\ Cardinality(list[t] \ F) <= Cardinality(list[t])
        BY <1>c, FS_Subset, FS_CardinalityType
  <2>3. Cardinality(list[t] \ F) <= MaxDevices
        BY <1>c, <2>2, StressAssumption
  <2>4. ASSUME NEW x \in Thread
        PROVE  /\ IsFiniteSet(list'[x]) /\ Cardinality(list'[x]) <= MaxDevices
               /\ flag'[x] \subseteq list'[x]
    <3>1. CASE x = t
          BY <1>c, <2>1, <2>2, <2>3, <3>1
    <3>2. CASE x # t
          BY <1>c, <2>1, <3>2
    <3> QED BY <3>1, <3>2
  <2> QED BY <2>4 DEF Lists
<1>3. ASSUME NEW t \in Thread, unregister_random_device(t) \/ unregister_devices(t)
      PROVE  Lists'
  <2>1. PICK S \in SUBSET list[t] : unregister_device_entry_common(t, S)
        BY <1>3, UnregisterSteps
  <2>2. PICK F \in SUBSET S : /\ list' = [list EXCEPT ![t] = @ \ F]
                              /\ flag' = [flag EXCEPT ![t] = @ \ F]
        BY <2>1 DEF unregister_device_entry_common
  <2> QED BY <2>2, <1>2
<1>4. ASSUME NEW t \in Thread,
             test_thread_goes_on(t) \/ other_action(t) \/ test_thread_exits(t)
      PROVE  Lists'
      BY <1>4, <1>0, TestCases
<1>5. ASSUME NEW p \in Pt, AnswerStep(p) PROVE Lists'
  <2>1. CASE Leaves(p)
        BY <2>1, <1>0 DEF Leaves
  <2>2. ASSUME NEW t \in Thread, NEW d \in Device, Marks(p, t, d) PROVE Lists'
    <3>1. /\ UNCHANGED list /\ flag'[t] = flag[t] \union ({d} \cap list[t])
          /\ \A x \in Thread \ {t} : flag'[x] = flag[x]
          BY <2>2 DEF Marks, TypeInv
    <3> QED BY <3>1 DEF Lists
  <2>3. ASSUME NEW t \in Thread, NEW d \in Device, Removes(p, t, d) PROVE Lists'
        BY <2>3, <1>2 DEF Removes
  <2> QED BY <1>5, <2>1, <2>2, <2>3, AnswerCases
<1>6. ASSUME NEW p \in Pt,
             \/ connection_ready_handler(p) \/ disconnected_handler(p)
             \/ received_write_handler(p)
      PROVE  Lists'
      BY <1>6, <1>0 DEF connection_ready_handler, disconnected_handler,
                        received_write_handler, testVars
<1>7. CASE Managing
      BY <1>7, <1>0, ManagingCases DEF testVars
<1>8. CASE UNCHANGED vars
      BY <1>8, <1>0 DEF vars
<1> QED BY <1>1, <1>3, <1>4, <1>5, <1>6, <1>7, <1>8 DEF Next, TestStep, Managing

(* Threads exit with an empty list, and take nothing on afterwards. *)
LEMMA EndingStep == TypeInv /\ Lists /\ Ending /\ [Next]_vars => Ending'
<1> SUFFICES ASSUME TypeInv, Lists, Ending, [Next]_vars PROVE Ending'
    OBVIOUS
<1> USE DEF Ending
<1>0. ASSUME UNCHANGED <<test, list, main, down>> PROVE Ending'
      BY <1>0
<1>1. ASSUME NEW t \in Thread, register_random_device(t) PROVE Ending'
  <2>1. /\ test[t] = "act" /\ test' = [test EXCEPT ![t] = "run"] /\ UNCHANGED <<main, down>>
        /\ \A x \in Thread \ {t} : list'[x] = list[x]
        BY <1>1, RegisterCases DEF ptVars, endVars, TypeInv
  <2> QED BY <2>1 DEF TypeInv
<1>2. ASSUME NEW t \in Thread, unregister_random_device(t) \/ unregister_devices(t)
      PROVE  Ending'
  <2>1. \A x \in Thread \ {t} : list'[x] = list[x]
    <3>1. PICK S \in SUBSET list[t] : unregister_device_entry_common(t, S)
          BY <1>2, UnregisterSteps
    <3>2. PICK F \in SUBSET S : list' = [list EXCEPT ![t] = @ \ F]
          BY <3>1 DEF unregister_device_entry_common
    <3> QED BY <3>2 DEF TypeInv
  <2>2. /\ test[t] \in {"run", "act"} /\ test'[t] # "exited"
        /\ \A x \in Thread \ {t} : test'[x] = test[x]
        /\ UNCHANGED <<main, down>>
        BY <1>2, UnregisterSteps DEF ptVars, endVars, TypeInv
  <2> QED BY <2>1, <2>2
<1>3. ASSUME NEW t \in Thread,
             test_thread_goes_on(t) \/ other_action(t) \/ test_thread_exits(t)
      PROVE  Ending'
  <2>1. /\ test[t] # "exited" /\ UNCHANGED <<list, main, down>>
        /\ test'[t] = "exited" => list[t] = {}
        /\ \A x \in Thread \ {t} : test'[x] = test[x]
        BY <1>3, TestCases DEF ptVars, endVars, TypeInv
  <2> QED BY <2>1
<1>4. ASSUME NEW p \in Pt, AnswerStep(p) PROVE Ending'
  <2>1. \A x \in Thread : list'[x] \subseteq list[x]
    <3>1. Leaves(p) => UNCHANGED list
          BY DEF Leaves
    <3>2. \A t \in Thread, d \in Device : Marks(p, t, d) => UNCHANGED list
          BY DEF Marks
    <3>3. ASSUME NEW t \in Thread, NEW d \in Device, Removes(p, t, d)
          PROVE  \A x \in Thread : list'[x] \subseteq list[x]
          BY <3>3 DEF Removes, TypeInv
    <3> QED BY <1>4, <3>1, <3>2, <3>3, AnswerCases
  <2> QED BY <1>4, <2>1, AnswerCases
<1>5. ASSUME NEW p \in Pt,
             \/ connection_ready_handler(p) \/ disconnected_handler(p)
             \/ received_write_handler(p)
      PROVE  Ending'
      BY <1>5, <1>0 DEF connection_ready_handler, disconnected_handler,
                        received_write_handler, testVars, ptVars, endVars
<1>6. CASE Managing
  <2>1. /\ UNCHANGED <<test, list>>
        /\ down' = down \/ main # "tests"
        /\ main' = main \/ main # "tests" \/ \A t \in Thread : test[t] = "exited"
        /\ main' = "tests" => main = "tests"
        BY <1>6, ManagingCases DEF testVars
  <2> QED BY <2>1
<1>7. CASE UNCHANGED vars
      BY <1>7, <1>0 DEF vars
<1> QED BY <1>1, <1>2, <1>3, <1>4, <1>5, <1>6, <1>7 DEF Next, TestStep, Managing

(* The devices of Edge and those asked for stay on their list. *)
LEMMA TrackedStep == TypeInv /\ Flags /\ Lists /\ Tracked /\ [Next]_vars => Tracked'
<1> SUFFICES ASSUME TypeInv, Flags, Lists, Tracked, [Next]_vars, ~Happened("send")',
                    NEW p \in Pt
             PROVE  Known(p)' /\ Asked(p)'
    BY DEF Tracked
<1>a. StressAssumption /\ \A t \in Thread : PtOf[t] \in Pt
      BY StressAssumption
<1>0. ASSUME UNCHANGED <<list, queue, edge>>, up[p] => up'[p], ~Happened("send")
      PROVE  Known(p)' /\ Asked(p)'
  <2>1. Known(p) /\ Asked(p)
        BY <1>0 DEF Tracked
  <2> QED BY <1>0, <2>1 DEF Known, Asked, Asks
<1>s. ASSUME NEW k, faults' = faults \/ faults' = faults \union {k} PROVE ~Happened("send")
      BY <1>s DEF Happened
<1>1. ASSUME NEW t \in Thread, register_random_device(t) PROVE Known(p)' /\ Asked(p)'
  <2>1. PICK d \in Device \ list[t] :
          /\ ~Outstanding(t, d)
          /\ list' = [list EXCEPT ![t] = @ \union {d}]
          /\ \/ /\ queue' = [queue EXCEPT ![PtOf[t]] = Append(@, Request("register", t, d))]
                /\ UNCHANGED faults
             \/ faults' = faults \union {"send"} /\ UNCHANGED queue
        BY <1>1, RegisterCases
  <2>2. /\ queue' = [queue EXCEPT ![PtOf[t]] = Append(@, Request("register", t, d))]
        /\ ~Happened("send")
        BY <2>1 DEF Happened
  <2>3. UNCHANGED <<up, edge>> /\ up[PtOf[t]]
        BY <1>1, RegisterCases DEF ptVars
  <2>4. Known(p) /\ Asked(p) /\ Known(PtOf[t])
        BY <2>2, <1>a DEF Tracked
  <2>5. list'[t] = list[t] \union {d} /\ \A x \in Thread \ {t} : list'[x] = list[x]
        BY <2>1 DEF TypeInv
  <2>6. Known(p)'
        BY <2>3, <2>4, <2>5 DEF Known
  <2>7. CASE p # PtOf[t]
    <3>1. queue'[p] = queue[p]
          BY <2>2, <2>7 DEF TypeInv
    <3> QED BY <2>3, <2>4, <2>5, <2>6, <3>1 DEF Asked, Asks
  <2>8. CASE p = PtOf[t]
    <3> DEFINE q == queue[p]  n == queue'[p]
    <3>1. q \in Seq(Req) /\ n = Append(q, Request("register", t, d))
          BY <2>2, <2>8 DEF TypeInv
    <3>2. /\ Len(q) \in Nat /\ Len(n) = Len(q) + 1 /\ n[Len(q) + 1] = Request("register", t, d)
          /\ \A i \in 1..Len(q) : n[i] = q[i]
          BY <3>1
    <3>3. \A i \in 1..Len(q) : q[i].dev # <<t, d>>
          BY <2>1, <2>8 DEF Outstanding
    <3>4. <<t, d>> \notin edge[p]
          BY <2>1, <2>4, <2>8 DEF Known
    <3>5. ASSUME NEW i \in 1..Len(n), NEW x \in Thread, NEW e \in Device,
                 n[i] = Request("register", x, e)
          PROVE  /\ e \in list'[x] /\ PtOf[x] = p /\ up[p] /\ <<x, e>> \notin edge[p]
                 /\ \A j \in 1..Len(n) : n[j] = Request("register", x, e) => j = i
      <4>1. CASE i \in 1..Len(q)
        <5>1. Asks(p, i, x, e)
              BY <3>2, <3>5, <4>1 DEF Asks
        <5>2. /\ e \in list[x] /\ PtOf[x] = p /\ up[p] /\ <<x, e>> \notin edge[p]
              /\ \A j \in 1..Len(q) : q[j] = Request("register", x, e) => j = i
              BY <2>4, <4>1, <5>1 DEF Asked, Asks
        <5>3. Request("register", x, e) # Request("register", t, d)
              BY <3>3, <4>1, <5>1 DEF Asks, Request
        <5> QED BY <2>5, <3>2, <5>2, <5>3
      <4>2. CASE i = Len(q) + 1
        <5>1. x = t /\ e = d
              BY <3>2, <3>5, <4>2 DEF Request
        <5>2. \A j \in 1..Len(q) : n[j] # Request("register", t, d)
              BY <3>2, <3>3 DEF Request
        <5> QED BY <2>3, <2>5, <2>8, <3>2, <3>4, <4>2, <5>1, <5>2
      <4> QED BY <3>2, <4>1, <4>2
    <3>6. Asked(p)'
          BY <2>3, <3>5 DEF Asked, Asks
    <3> QED BY <2>6, <3>6
  <2> QED BY <2>7, <2>8
<1>2. ASSUME NEW t \in Thread, unregister_random_device(t) \/ unregister_devices(t)
      PROVE  Known(p)' /\ Asked(p)'
  <2>1. PICK S \in SUBSET list[t] : unregister_device_entry_common(t, S)
        BY <1>2, UnregisterSteps
  <2>u. PICK F \in SUBSET S, n \in Seq(Req) : Unregistered(t, F, n)
        BY <2>1, UnregisterCases
  <2>2. /\ list' = [list EXCEPT ![t] = @ \ F] /\ flag' = [flag EXCEPT ![t] = @ \ F]
        /\ queue' = [queue EXCEPT ![PtOf[t]] = n]
        /\ faults' = faults \/ faults' = faults \union {"send"}
        /\ F = {} \/ ~up[PtOf[t]] \/ Happened("send")'
        /\ Len(n) \in Nat /\ Len(queue[PtOf[t]]) <= Len(n)
        /\ \A i \in 1..Len(queue[PtOf[t]]) : n[i] = queue[PtOf[t]][i]
        /\ \A i \in 1..Len(n) : i > Len(queue[PtOf[t]]) => n[i].op = "unregister"
        BY <2>u DEF Unregistered
  <2>3. UNCHANGED <<up, edge>>
        BY <1>2, UnregisterSteps DEF ptVars
  <2>4. Known(p) /\ Asked(p)
        BY <2>2, <1>s DEF Tracked
  <2>5. list'[t] = list[t] \ F /\ \A x \in Thread \ {t} : list'[x] = list[x]
        BY <2>2 DEF TypeInv
  <2>6. F = {} \/ ~up[PtOf[t]]
        BY <2>2
  <2>7. Known(p)'
        BY <2>3, <2>4, <2>5, <2>6 DEF Known
  <2>8. CASE p # PtOf[t]
    <3>1. queue'[p] = queue[p]
          BY <2>2, <2>8 DEF TypeInv
    <3>2. Asked(p)'
          BY <2>3, <2>4, <2>5, <2>8, <3>1 DEF Asked, Asks
    <3> QED BY <2>7, <3>2
  <2>9. CASE p = PtOf[t]
    <3> DEFINE q == queue[p]
    <3>1. queue'[p] = n /\ q \in Seq(Req) /\ Len(q) \in Nat
          BY <2>2, <2>9 DEF TypeInv
    <3>2. ASSUME NEW i \in 1..Len(n), NEW x \in Thread, NEW e \in Device,
                 n[i] = Request("register", x, e)
          PROVE  i \in 1..Len(q) /\ Asks(p, i, x, e)
      <4>1. n[i].op = "register"
            BY <3>2 DEF Request
      <4>2. i <= Len(q)
            BY <2>2, <2>9, <3>1, <4>1
      <4> QED BY <2>2, <2>9, <3>1, <3>2, <4>2 DEF Asks
    <3>3. Asked(p)'
      <4> SUFFICES ASSUME NEW i \in 1..Len(n), NEW x \in Thread, NEW e \in Device,
                          n[i] = Request("register", x, e)
                   PROVE  /\ e \in list'[x] /\ PtOf[x] = p /\ up[p] /\ <<x, e>> \notin edge[p]
                          /\ \A j \in 1..Len(n) : n[j] = Request("register", x, e) => j = i
          BY <2>3, <3>1 DEF Asked, Asks
      <4>1. i \in 1..Len(q) /\ Asks(p, i, x, e)
            BY <3>2
      <4>2. /\ e \in list[x] /\ PtOf[x] = p /\ up[p] /\ <<x, e>> \notin edge[p]
            /\ \A j \in 1..Len(q) : Asks(p, j, x, e) => j = i
            BY <2>4, <4>1 DEF Asked
      <4>3. e \in list'[x]
            BY <2>5, <2>6, <2>9, <4>2
      <4> QED BY <3>2, <4>2, <4>3
    <3> QED BY <2>7, <3>3
  <2> QED BY <2>8, <2>9
<1>3. ASSUME NEW t \in Thread,
             test_thread_goes_on(t) \/ other_action(t) \/ test_thread_exits(t)
      PROVE  Known(p)' /\ Asked(p)'
  <2>1. UNCHANGED <<list, up, queue, edge, faults>>
        BY <1>3, TestCases DEF ptVars, edgeVars
  <2> QED BY <2>1, <1>0, <1>s
<1>4. ASSUME NEW o \in Pt, AnswerStep(o) PROVE Known(p)' /\ Asked(p)'
  <2>1. queue[o] # <<>> /\ queue' = [queue EXCEPT ![o] = Tail(@)] /\ UNCHANGED up
        BY <1>4, AnswerCases
  <2>2. ~Happened("send")
        BY <1>4, <1>s, AnswerCases DEF Leaves, Marks, Removes
  <2>3. Known(p) /\ Asked(p) /\ Known(o) /\ Asked(o)
        BY <2>2 DEF Tracked
  <2>4. p # o => queue'[p] = queue[p]
        BY <2>1 DEF TypeInv
  <2> DEFINE q == queue[o]
  <2>5. /\ queue'[o] = Tail(q) /\ Len(q) \in Nat /\ Len(Tail(q)) = Len(q) - 1 /\ Len(q) > 0
        /\ Head(q) = q[1] /\ \A i \in 1..Len(Tail(q)) : Tail(q)[i] = q[i + 1]
        BY <2>1, HeadRequest DEF TypeInv
  <2>6. ASSUME p = o, NEW i \in 1..Len(queue'[p]), NEW x \in Thread, NEW e \in Device,
               Asks(p, i, x, e)'
        PROVE  /\ i + 1 \in 2..Len(queue[p]) /\ Asks(p, i + 1, x, e)
               /\ e \in list[x] /\ PtOf[x] = p /\ up[p] /\ <<x, e>> \notin edge[p]
               /\ Head(q) # Request("register", x, e)
               /\ \A j \in 1..Len(queue'[p]) : Asks(p, j, x, e)' => j = i
    <3>0. /\ queue'[p] = Tail(q) /\ queue[p] = q /\ i \in 1..Len(Tail(q))
          /\ Tail(q)[i] = q[i + 1]
          BY <2>5, <2>6
    <3>1. i + 1 \in 2..Len(q) /\ Asks(p, i + 1, x, e)
      <4>1. i \in Nat /\ i + 1 \in 2..Len(q)
            BY <2>5, <3>0
      <4>2. Asks(p, i + 1, x, e)
            BY <2>6, <3>0, Zenon DEF Asks
      <4> QED BY <4>1, <4>2
    <3>2. /\ e \in list[x] /\ PtOf[x] = p /\ up[p] /\ <<x, e>> \notin edge[p]
          /\ \A j \in 1..Len(q) : Asks(p, j, x, e) => j = i + 1
          BY <2>3, <2>5, <2>6, <3>1 DEF Asked
    <3>3. \A j \in 1..Len(queue'[p]) : Asks(p, j, x, e)' => j = i
      <4> SUFFICES ASSUME NEW j \in 1..Len(Tail(q)), Tail(q)[j] = Request("register", x, e)
                   PROVE  j = i
          BY <3>0 DEF Asks
      <4>1. j + 1 \in 1..Len(q) /\ Asks(p, j + 1, x, e)
            BY <2>5, <3>0 DEF Asks
      <4> QED BY <3>2, <4>1
    <3>4. ~Asks(p, 1, x, e)
          BY <2>5, <3>1, <3>2
    <3> QED BY <2>5, <2>6, <3>1, <3>2, <3>3, <3>4 DEF Asks
  <2>7. CASE Leaves(o)
    <3>1. UNCHANGED <<list, edge>>
          BY <2>7 DEF Leaves
    <3>2. Known(p)'
          BY <2>1, <2>3, <3>1 DEF Known
    <3>3. CASE p = o
          BY <2>1, <2>6, <3>1, <3>2, <3>3 DEF Asked
    <3>4. CASE p # o
          BY <2>1, <2>3, <2>4, <3>1, <3>2, <3>4 DEF Asked, Asks
    <3> QED BY <3>3, <3>4
  <2>8. ASSUME NEW t \in Thread, NEW d \in Device, Marks(o, t, d)
        PROVE  Known(p)' /\ Asked(p)'
    <3>1. UNCHANGED list /\ Head(q) = Request("register", t, d)
          BY <2>8 DEF Marks
    <3>2. /\ edge'[o] = edge[o] \union {<<t, d>>} /\ (p # o => edge'[p] = edge[p])
          BY <2>8 DEF Marks, TypeInv
    <3>3. d \in list[t] /\ PtOf[t] = o /\ up[o]
      <4>1. 1 \in 1..Len(q) /\ Asks(o, 1, t, d)
            BY <2>5, <3>1 DEF Asks
      <4> QED BY <2>3, <4>1 DEF Asked
    <3>4. CASE p = o
      <4>1. Known(p)'
            BY <2>1, <2>3, <3>1, <3>2, <3>3, <3>4 DEF Known
      <4>2. ASSUME NEW i \in 1..Len(queue'[p]), NEW x \in Thread, NEW e \in Device,
                   Asks(p, i, x, e)'
            PROVE  <<x, e>> \notin edge'[p]
        <5>1. <<x, e>> \notin edge[p] /\ Head(q) # Request("register", x, e)
              BY <2>6, <3>4, <4>2
        <5> QED BY <3>1, <3>2, <3>4, <5>1
      <4>3. Asked(p)'
            BY <2>1, <2>6, <3>1, <3>4, <4>2 DEF Asked
      <4> QED BY <4>1, <4>3
    <3>5. CASE p # o
          BY <2>1, <2>3, <2>4, <3>1, <3>2, <3>5 DEF Known, Asked, Asks
    <3> QED BY <3>4, <3>5
  <2>9. ASSUME NEW t \in Thread, NEW d \in Device, Removes(o, t, d)
        PROVE  Known(p)' /\ Asked(p)'
    <3>1. /\ <<t, d>> \in edge[o] /\ list'[t] = list[t] \ {d}
          /\ \A x \in Thread \ {t} : list'[x] = list[x]
          BY <2>9 DEF Removes, TypeInv
    <3>2. edge'[o] = edge[o] \ {<<t, d>>} /\ (p # o => edge'[p] = edge[p])
          BY <2>9 DEF Removes, TypeInv
    <3>3. PtOf[t] = o
          BY <2>3, <3>1 DEF Known
    <3>4. CASE p = o
      <4>1. Known(p)'
        <5> SUFFICES ASSUME NEW x \in Thread, NEW e \in Device, <<x, e>> \in edge'[p]
                     PROVE  e \in list'[x] /\ PtOf[x] = p /\ up'[p]
            BY DEF Known
        <5>1. <<x, e>> \in edge[p] /\ <<x, e>> # <<t, d>>
              BY <3>2, <3>4
        <5>2. x # t \/ e # d
              BY <5>1
        <5>3. e \in list[x] /\ PtOf[x] = p /\ up[p]
              BY <2>3, <5>1 DEF Known
        <5> QED BY <2>1, <3>1, <5>2, <5>3
      <4>2. ASSUME NEW i \in 1..Len(queue'[p]), NEW x \in Thread, NEW e \in Device,
                   Asks(p, i, x, e)'
            PROVE  <<x, e>> \notin edge'[p] /\ e \in list'[x]
        <5>1. <<x, e>> \notin edge[p] /\ e \in list[x]
              BY <2>6, <3>4, <4>2
        <5>2. x # t \/ e # d
              BY <3>1, <3>4, <5>1
        <5> QED BY <3>1, <3>2, <3>4, <5>1, <5>2
      <4>3. Asked(p)'
            BY <2>1, <2>6, <3>4, <4>2 DEF Asked
      <4> QED BY <4>1, <4>3
    <3>5. CASE p # o
      <4>1. \A x \in Thread : PtOf[x] = p => list'[x] = list[x]
            BY <3>1, <3>3, <3>5
      <4>2. Known(p)'
            BY <2>1, <2>3, <3>2, <3>5, <4>1 DEF Known
      <4>3. Asked(p)'
            BY <2>1, <2>3, <2>4, <3>2, <3>5, <4>1 DEF Asked, Asks
      <4> QED BY <4>2, <4>3
    <3> QED BY <3>4, <3>5
  <2> QED BY <1>4, <2>7, <2>8, <2>9, AnswerCases
<1>5. ASSUME NEW o \in Pt, connection_ready_handler(o) PROVE Known(p)' /\ Asked(p)'
  <2>1. /\ ~up[o] /\ UNCHANGED <<list, edge, faults>>
        /\ up' = [up EXCEPT ![o] = TRUE]
        /\ queue' = [queue EXCEPT ![o] = Append(@, [op |-> "translator", dev |-> <<>>])]
        BY <1>5 DEF connection_ready_handler, testVars, Fault, Happened
  <2>2. Known(p) /\ Asked(p)
        BY <2>1, <1>s DEF Tracked
  <2>3. CASE p # o
    <3>1. queue'[p] = queue[p] /\ UNCHANGED <<list, edge>>
          BY <2>1, <2>3 DEF TypeInv
    <3>2. up[p] => up'[p]
          BY <2>1, <2>3 DEF Flags
    <3>3. Known(p)'
          BY <2>2, <3>1, <3>2 DEF Known
    <3>4. Asked(p)'
          BY <2>2, <3>1, <3>2 DEF Asked, Asks
    <3> QED BY <3>3, <3>4
  <2>4. CASE p = o
    <3> DEFINE q == queue[p]  n == Append(q, [op |-> "translator", dev |-> <<>>])
    <3>1. q \in Seq(Req) /\ queue'[p] = n
          BY <2>1, <2>4 DEF TypeInv
    <3>2. /\ Len(q) \in Nat /\ Len(n) = Len(q) + 1 /\ \A i \in 1..Len(q) : n[i] = q[i]
          /\ n[Len(q) + 1].op = "translator"
          BY <3>1
    <3>3. \A i \in 1..Len(q), x \in Thread, e \in Device : q[i] # Request("register", x, e)
          BY <2>1, <2>2, <2>4 DEF Asked, Asks
    <3>4. ASSUME NEW i \in 1..Len(n), NEW x \in Thread, NEW e \in Device
          PROVE  n[i] # Request("register", x, e)
      <4>1. CASE i \in 1..Len(q)
            BY <3>2, <3>3, <4>1
      <4>2. CASE i = Len(q) + 1
            BY <3>2, <4>2 DEF Request
      <4> QED BY <3>2, <4>1, <4>2
    <3>5. Asked(p)'
          BY <3>1, <3>4 DEF Asked, Asks
    <3>6. Known(p)'
          BY <2>1, <2>2, <2>4 DEF Known
    <3> QED BY <3>5, <3>6
  <2> QED BY <2>3, <2>4
<1>6. ASSUME NEW o \in Pt, disconnected_handler(o) PROVE Known(p)' /\ Asked(p)'
  <2> DEFINE l == [i \in 1..Len(queue[o]) |->
                       [queue[o][i] EXCEPT !.op = Lost[queue[o][i].op]]]
  <2>1. /\ UNCHANGED list /\ faults' = faults \union {"link"}
        /\ up' = [up EXCEPT ![o] = FALSE] /\ edge' = [edge EXCEPT ![o] = {}]
        /\ queue' = [queue EXCEPT ![o] = l]
        BY <1>6 DEF disconnected_handler, Fault, testVars
  <2>2. \A i \in 1..Len(l) : l[i].op # "register"
        BY LostRequests DEF TypeInv
  <2> HIDE DEF l
  <2>3. Known(p) /\ Asked(p)
        BY <2>1, <1>s DEF Tracked
  <2>4. CASE p # o
    <3>1. queue'[p] = queue[p] /\ edge'[p] = edge[p]
          BY <2>1, <2>4 DEF TypeInv
    <3>2. up[p] => up'[p]
          BY <2>1, <2>4 DEF Flags
    <3>3. Known(p)'
          BY <2>1, <2>3, <3>1, <3>2 DEF Known
    <3>4. Asked(p)'
          BY <2>1, <2>3, <3>1, <3>2 DEF Asked, Asks
    <3> QED BY <3>3, <3>4
  <2>5. CASE p = o
    <3>1. queue'[p] = l /\ edge'[p] = {}
          BY <2>1, <2>5 DEF TypeInv
    <3> QED BY <2>2, <3>1 DEF Known, Asked, Asks, Request
  <2> QED BY <2>4, <2>5
<1>7. ASSUME NEW o \in Pt, received_write_handler(o) PROVE Known(p)' /\ Asked(p)'
  <2>1. UNCHANGED <<list, up, queue, edge>>
        BY <1>7 DEF received_write_handler, ptVars, edgeVars
  <2>2. faults' = faults \union {"lateWrite"} \/ faults' = faults \union {"badWrite"}
        BY <1>7 DEF received_write_handler, Fault
  <2> QED BY <2>1, <2>2, <1>0, <1>s
<1>8. CASE Managing
  <2>1. UNCHANGED <<list, queue, edge>> /\ (up[p] => up'[p])
        BY <1>8, ManagingCases, ConnectionsStay DEF testVars, edgeVars
  <2>2. \E k : faults' = faults \/ faults' = faults \union {k}
        BY <1>8, ManagingCases
  <2> QED BY <2>1, <2>2, <1>0, <1>s
<1>9. CASE UNCHANGED vars
      BY <1>9, <1>0, <1>s DEF vars
<1> QED BY <1>1, <1>2, <1>3, <1>4, <1>5, <1>6, <1>7, <1>8, <1>9 DEF Next, TestStep, Managing

(* An answer is used while its device is listed. *)
LEMMA AnswersStep ==
    TypeInv /\ Lists /\ Tracked /\ AnswersFindDevices /\ [Next]_vars => AnswersFindDevices'
<1> SUFFICES ASSUME TypeInv, Lists, Tracked, AnswersFindDevices, [Next]_vars
             PROVE  AnswersFindDevices'
    OBVIOUS
<1>0. ASSUME UNCHANGED crashed, faults \subseteq faults' PROVE AnswersFindDevices'
      BY <1>0 DEF AnswersFindDevices, Happened
<1>1. ASSUME NEW t \in Thread, TestStep(t) PROVE AnswersFindDevices'
  <2>1. CASE test_thread_goes_on(t) \/ other_action(t) \/ test_thread_exits(t)
        BY <2>1, <1>0, TestCases DEF endVars
  <2>2. CASE register_random_device(t)
        BY <2>2, <1>0, RegisterCases DEF endVars
  <2>3. CASE unregister_random_device(t) \/ unregister_devices(t)
    <3>1. UNCHANGED crashed
          BY <2>3, UnregisterSteps DEF endVars
    <3>2. PICK S \in SUBSET list[t] : unregister_device_entry_common(t, S)
          BY <2>3, UnregisterSteps
    <3>3. faults \subseteq faults'
          BY <3>2 DEF unregister_device_entry_common, Fault
    <3> QED BY <3>1, <3>3, <1>0
  <2> QED BY <1>1, <2>1, <2>2, <2>3 DEF TestStep
<1>2. ASSUME NEW p \in Pt, AnswerStep(p) PROVE AnswersFindDevices'
  <2>1. CASE Leaves(p)
        BY <2>1, <1>0 DEF Leaves
  <2>2. ASSUME NEW t \in Thread, NEW d \in Device, Marks(p, t, d) \/ Removes(p, t, d)
        PROVE  AnswersFindDevices'
    <3>1. Uses(t, d) /\ UNCHANGED faults
          BY <2>2 DEF Marks, Removes
    <3>2. CASE Happened("send")
          BY <3>1, <3>2 DEF AnswersFindDevices, Happened
    <3>3. CASE ~Happened("send")
      <4>1. Known(p) /\ Asked(p)
            BY <3>3 DEF Tracked
      <4>2. queue[p] # <<>> /\ queue[p] \in Seq(Req)
            BY <1>2, AnswerCases DEF TypeInv
      <4>3. Head(queue[p]) = queue[p][1] /\ 1 \in 1..Len(queue[p])
            BY <4>2
      <4>4. d \in list[t]
        <5>1. CASE Marks(p, t, d)
              BY <4>1, <4>3, <5>1 DEF Marks, Asked, Asks
        <5>2. CASE Removes(p, t, d)
              BY <4>1, <5>2 DEF Removes, Known
        <5> QED BY <2>2, <5>1, <5>2
      <4>5. crashed' => crashed
            BY <3>1, <4>4 DEF Uses
      <4> QED BY <3>1, <4>5 DEF AnswersFindDevices, Happened
    <3> QED BY <3>2, <3>3
  <2> QED BY <1>2, <2>1, <2>2, AnswerCases
<1>3. ASSUME NEW p \in Pt, connection_ready_handler(p) \/ disconnected_handler(p)
      PROVE  AnswersFindDevices'
      BY <1>3, <1>0 DEF connection_ready_handler, disconnected_handler, endVars, Fault
<1>4. ASSUME NEW p \in Pt, received_write_handler(p) PROVE AnswersFindDevices'
  <2>1. \/ faults' = faults \union {"lateWrite"}
        \/ faults' = faults \union {"badWrite"} /\ UNCHANGED crashed
        BY <1>4 DEF received_write_handler, Fault
  <2> QED BY <2>1, <1>0 DEF AnswersFindDevices, Happened
<1>5. CASE Managing
      BY <1>5, <1>0, ManagingCases
<1>6. CASE UNCHANGED vars
      BY <1>6, <1>0 DEF vars
<1> QED BY <1>1, <1>2, <1>3, <1>4, <1>5, <1>6 DEF Next, Managing

-----------------------------------------------------------------------------
(* The invariant holds initially ... *)
LEMMA InvInit == Init => Inv
<1> SUFFICES ASSUME Init PROVE Inv
    OBVIOUS
<1>1. Flags
  <2>1. initiated \in BOOLEAN /\ crashed \in BOOLEAN
        BY Zenon DEF Init
  <2> QED BY <2>1 DEF Init, Flags
<1>2. TypeInv
  <2>1. queue \in [Pt -> Seq(Req)]
        BY DEF Init
  <2> QED BY <2>1 DEF Init, TypeInv, ApiAt
<1>3. Lists
      BY FS_EmptySet, StressAssumption DEF Init, Lists
<1>4. Ending /\ AnswersFindDevices
      BY DEF Init, Ending, AnswersFindDevices
<1>5. Tracked
      BY DEF Init, Tracked, Known, Asked
<1> QED BY <1>1, <1>2, <1>3, <1>4, <1>5 DEF Inv

(* ... and is preserved. *)
LEMMA InvStep == Inv /\ [Next]_vars => Inv'
BY TypeInvStep, FlagsStep, ListsStep, EndingStep, TrackedStep, AnswersStep DEF Inv

LEMMA Invariance == Spec => []Inv
BY InvInit, InvStep, PTL DEF Spec

(* The types, and with them max_number_of_devices as the limit of every    *)
(* list and marks only on listed devices.                                  *)
THEOREM TypeCorrect == Spec => []TypeOK
<1>1. Inv => TypeOK
  <2> SUFFICES ASSUME Inv PROVE TypeOK
      OBVIOUS
  <2> DEFINE AnyReq == [op : {"register", "unregister", "translator", "noRegister",
                              "noTranslator"}, dev : Ids \union {<<>>}]
  <2>1. Req \subseteq AnyReq
        BY DEF Req, DeviceOp
  <2> HIDE DEF AnyReq
  <2>2. \A q \in Seq(Req) : q \in Seq(AnyReq)
        BY <2>1
  <2>3. \A p \in Pt : queue[p] \in Seq(AnyReq)
        BY <2>2 DEF Inv, TypeInv
  <2> QED BY <2>3 DEF Inv, TypeInv, Flags, Lists, TypeOK, AnyReq, ApiAt
<1> QED BY <1>1, Invariance, PTL

(* An answer finds its device on the list unless a device was removed by   *)
(* force or Edge wrote to a freed list: losing and making the connection   *)
(* anew, refusals and unanswered requests never lead to the NULL that      *)
(* find_device would return.                                               *)
THEOREM DevicesAreFound == Spec => []AnswersFindDevices
<1>1. Inv => AnswersFindDevices
      BY DEF Inv
<1> QED BY <1>1, Invariance, PTL

(* A connection is shut down when every test thread has ended with an      *)
(* empty list; and if nothing failed, Edge has no device by then.          *)
THEOREM DrainedBeforeShutdown == Spec => []ShutDownDrained
<1>1. ASSUME Inv PROVE ShutDownDrained
  <2> SUFFICES ASSUME down # {}
               PROVE  /\ \A t \in Thread : test[t] = "exited" /\ list[t] = {}
                      /\ faults \subseteq {"early", "start"} => \A p \in Pt : edge[p] = {}
      BY DEF ShutDownDrained
  <2>1. \A t \in Thread : test[t] = "exited" /\ list[t] = {}
        BY <1>1 DEF Inv, Ending
  <2>2. ASSUME faults \subseteq {"early", "start"}, NEW p \in Pt PROVE edge[p] = {}
    <3>1. Known(p)
          BY <1>1, <2>2 DEF Inv, Tracked, Happened
    <3>2. edge[p] \subseteq Thread \X Device
          BY <1>1 DEF Inv, TypeInv, Ids
    <3>3. \A t \in Thread, d \in Device : <<t, d>> \notin edge[p]
          BY <2>1, <3>1 DEF Known
    <3> QED BY <3>2, <3>3
  <2> QED BY <2>1, <2>2
<1> QED BY <1>1, Invariance, PTL

-----------------------------------------------------------------------------
(* The refinement of Drain *)

(* One thread, in one step: it takes devices on while it tests, only loses *)
(* some from then on, and exits when it has none.                          *)
Orderly(t) ==
    \/ test'[t] = test[t] /\ list'[t] = list[t]
    \/ test[t] \in {"run", "act"} /\ test'[t] \in {"run", "act"}
    \/ test[t] \in {"run", "act"} /\ test'[t] = "waiting" /\ list'[t] \subseteq list[t]
    \/ test'[t] = test[t] /\ test[t] = "waiting" /\ list'[t] \subseteq list[t]
    \/ test[t] = "waiting" /\ test'[t] = "exited" /\ list[t] = {} /\ list'[t] = {}

LEMMA OrderlyStep ==
    ASSUME Inv, [Next]_vars, NEW o \in Thread
    PROVE  Orderly(o)
<1>0. ASSUME UNCHANGED <<test, list>> PROVE Orderly(o)
      BY <1>0 DEF Orderly
<1>i. TypeInv /\ Lists /\ Ending /\ test[o] \in {"run", "act", "waiting", "exited"}
      BY DEF Inv, TypeInv
<1> USE <1>i
<1>1. ASSUME NEW t \in Thread, register_random_device(t) PROVE Orderly(o)
  <2>1. /\ test[t] = "act" /\ test'[t] = "run"
        /\ \A x \in Thread \ {t} : list'[x] = list[x] /\ test'[x] = test[x]
        BY <1>1, RegisterCases DEF TypeInv
  <2> QED BY <2>1 DEF Orderly
<1>2. ASSUME NEW t \in Thread, unregister_random_device(t) \/ unregister_devices(t)
      PROVE  Orderly(o)
  <2>1. PICK S \in SUBSET list[t] : unregister_device_entry_common(t, S)
        BY <1>2, UnregisterSteps
  <2>2. PICK F \in SUBSET S : list' = [list EXCEPT ![t] = @ \ F]
        BY <2>1 DEF unregister_device_entry_common
  <2>3. list'[t] \subseteq list[t] /\ \A x \in Thread \ {t} : list'[x] = list[x]
        BY <2>2 DEF TypeInv
  <2>4. /\ test[t] \in {"run", "act"} /\ test'[t] \in {"run", "waiting"}
        /\ \A x \in Thread \ {t} : test'[x] = test[x]
        BY <1>2, UnregisterSteps DEF TypeInv
  <2> QED BY <2>3, <2>4 DEF Orderly
<1>3. ASSUME NEW t \in Thread,
             test_thread_goes_on(t) \/ other_action(t) \/ test_thread_exits(t)
      PROVE  Orderly(o)
  <2>1. /\ UNCHANGED list /\ \A x \in Thread \ {t} : test'[x] = test[x]
        /\ \/ test[t] \in {"run", "act"} /\ test'[t] \in {"run", "act"}
           \/ test[t] = "waiting" /\ test'[t] = "exited" /\ list[t] = {}
        BY <1>3 DEF test_thread_goes_on, other_action, Acts, test_thread_exits, TypeInv
  <2> QED BY <2>1 DEF Orderly
<1>4. ASSUME NEW p \in Pt, AnswerStep(p) PROVE Orderly(o)
  <2>1. CASE Leaves(p)
        BY <1>4, <2>1, <1>0, AnswerCases DEF Leaves
  <2>2. ASSUME NEW t \in Thread, NEW d \in Device, Marks(p, t, d) PROVE Orderly(o)
        BY <1>4, <2>2, <1>0, AnswerCases DEF Marks
  <2>3. ASSUME NEW t \in Thread, NEW d \in Device, Removes(p, t, d) PROVE Orderly(o)
    <3>1. list'[o] \subseteq list[o] /\ test'[o] = test[o]
          BY <1>4, <2>3, AnswerCases DEF Removes, TypeInv
    <3>2. test[o] = "exited" => list[o] = {}
          BY DEF Ending
    <3> QED BY <3>1, <3>2 DEF Orderly
  <2> QED BY <1>4, <2>1, <2>2, <2>3, AnswerCases
<1>5. ASSUME NEW p \in Pt,
             \/ connection_ready_handler(p) \/ disconnected_handler(p)
             \/ received_write_handler(p)
      PROVE  Orderly(o)
      BY <1>5, <1>0 DEF connection_ready_handler, disconnected_handler,
                        received_write_handler, testVars
<1>6. CASE Managing
      BY <1>6, <1>0, ManagingCases DEF testVars
<1>7. CASE UNCHANGED vars
      BY <1>7, <1>0 DEF vars
<1> QED BY <1>1, <1>2, <1>3, <1>4, <1>5, <1>6, <1>7 DEF Next, TestStep, Managing

(* The test threads implement module Drain: each takes devices on while it *)
(* tests, gives them back when it is told to end, whatever the event loops *)
(* do meanwhile, and stops with none.                                      *)
THEOREM ThreadsDrain == Spec => Drains
<1>1. Init => D!Init
      BY DEF Init, D!Init, Phase
<1>2. ASSUME Inv, Inv', [Next]_vars PROVE D!Next
  <2> SUFFICES ASSUME NEW o \in Thread
               PROVE  \/ D!Same(o) \/ D!Take(o) \/ D!Close(o) \/ D!Give(o)
                      \/ D!Stop(o) \/ D!Abort(o)
      BY DEF D!Next
  <2>1. Orderly(o) /\ list'[o] \in SUBSET Device
        BY <1>2, OrderlyStep DEF Inv, TypeInv
  <2>2. CASE test'[o] = test[o] /\ list'[o] = list[o]
        BY <2>2 DEF D!Same
  <2>3. CASE test[o] \in {"run", "act"} /\ test'[o] \in {"run", "act"}
        BY <2>1, <2>3 DEF D!Take, Phase
  <2>4. CASE test[o] \in {"run", "act"} /\ test'[o] = "waiting" /\ list'[o] \subseteq list[o]
        BY <2>4 DEF D!Close, Phase
  <2>5. CASE test'[o] = test[o] /\ test[o] = "waiting" /\ list'[o] \subseteq list[o]
        BY <2>5 DEF D!Give, Phase
  <2>6. CASE test[o] = "waiting" /\ test'[o] = "exited" /\ list[o] = {} /\ list'[o] = {}
        BY <2>6 DEF D!Stop, Phase
  <2> QED BY <2>1, <2>2, <2>3, <2>4, <2>5, <2>6 DEF Orderly
<1> QED BY <1>1, <1>2, Invariance, PTL DEF Spec, Drains, D!Spec

-----------------------------------------------------------------------------
(* Waiting for the lists to empty *)

(* No request failed and no connection was lost.  Edge's writes to what a  *)
(* device lacks, translators that did not start or were refused, and an    *)
(* early shutdown are not excluded.                                        *)
Smooth == faults \cap {"registration", "unregistration", "send", "link"} = {}

(* Edge has the device, or its registration is among the oldest n requests *)
(* of the translator.                                                      *)
Held(p, n, t, d) == <<t, d>> \in edge[p] \/ \E j \in 1..n : Asks(p, j, t, d)

Unasks(p, i, t, d) == queue[p][i] = Request("unregister", t, d)

(* What a thread has on its list is known to Edge or asked for, and what   *)
(* a thread waits for has been asked to be unregistered, behind that.      *)
Listed(t) == \A d \in list[t] : Held(PtOf[t], Len(queue[PtOf[t]]), t, d)
Pending(t) ==
    test[t] = "waiting" =>
        \A d \in list[t] : \E i \in 1..Len(queue[PtOf[t]]) :
            Unasks(PtOf[t], i, t, d) /\ Held(PtOf[t], i - 1, t, d)

WaitInv == Smooth => \A t \in Thread : Listed(t) /\ Pending(t)

(* While no request fails, the list of a thread is what Edge has of it and *)
(* what it has asked for.                                                  *)
ListsAgree ==
    Smooth => \A t \in Thread, d \in Device :
        d \in list[t] <=> Held(PtOf[t], Len(queue[PtOf[t]]), t, d)

(* test_thread waits until its list is empty, without a timeout.  While no *)
(* request fails it waits only for devices of which an unregistration is   *)
(* outstanding, and that answer will find the device at Edge.              *)
WaitsForAnswers == Smooth => \A t \in Thread : Pending(t)

(* SetToSeq lists every element of its set. *)
LEMMA SetToSeqComplete ==
    ASSUME NEW S, IsFiniteSet(S), NEW x \in S
    PROVE  \E k \in 1..Len(SetToSeq(S)) : SetToSeq(S)[k] = x
<1> DEFINE n == Cardinality(S)  f == SetToSeq(S)
<1>1. n \in Nat /\ ExistsBijection(1..n, S)
      BY FS_CardinalityType
<1>2. \E g \in [1..n -> S] : IsInjective(g)
      BY <1>1 DEF ExistsBijection, Bijection, Injection
<1>3. f \in [1..n -> S] /\ IsInjective(f)
      BY <1>2 DEF SetToSeq
<1>4. f \in Injection(1..n, S)
      BY <1>3 DEF Injection, IsInjective
<1>5. Cardinality(1..n) = n /\ IsFiniteSet(1..n)
      BY <1>1, FS_Interval
<1>6. f \in Surjection(1..n, S)
      BY <1>4, <1>5, FS_Injection
<1>7. Len(f) = n
      BY <1>1, <1>3
<1> QED BY <1>6, <1>7 DEF Surjection

(* Requests stay where they are when others follow them. *)
LEMMA HeldGrows ==
    ASSUME NEW p, NEW t, NEW d, NEW n \in Nat, NEW m \in Nat, n <= m,
           \A i \in 1..n : queue'[p][i] = queue[p][i],
           edge'[p] = edge[p], Held(p, n, t, d)
    PROVE  Held(p, m, t, d)'
<1>1. CASE <<t, d>> \in edge[p]
      BY <1>1 DEF Held
<1>2. CASE \E j \in 1..n : Asks(p, j, t, d)
  <2>1. PICK j \in 1..n : Asks(p, j, t, d)
        BY <1>2
  <2>2. j \in 1..m /\ Asks(p, j, t, d)'
        BY <2>1 DEF Asks
  <2> QED BY <2>2 DEF Held
<1> QED BY <1>1, <1>2 DEF Held

(* A thread that takes on nothing and does not begin to wait, while its    *)
(* translator gets more requests, or none.                                 *)
LEMMA GrowFrame ==
    ASSUME NEW t \in Thread, Listed(t), Pending(t),
           LET q == queue[PtOf[t]]  n == queue'[PtOf[t]] IN
             /\ Len(q) \in Nat /\ Len(n) \in Nat /\ Len(q) <= Len(n)
             /\ \A i \in 1..Len(q) : n[i] = q[i],
           edge'[PtOf[t]] = edge[PtOf[t]], list'[t] \subseteq list[t],
           test'[t] = "waiting" => test[t] = "waiting"
    PROVE  Listed(t)' /\ Pending(t)'
<1> DEFINE p == PtOf[t]  q == queue[p]
<1>1. Listed(t)'
      BY HeldGrows DEF Listed
<1>2. ASSUME test'[t] = "waiting", NEW d \in list'[t]
      PROVE  \E i \in 1..Len(queue'[p]) : Unasks(p, i, t, d)' /\ Held(p, i - 1, t, d)'
  <2>1. PICK i \in 1..Len(q) : Unasks(p, i, t, d) /\ Held(p, i - 1, t, d)
        BY <1>2 DEF Pending
  <2>2. i \in 1..Len(queue'[p]) /\ Unasks(p, i, t, d)'
        BY <2>1 DEF Unasks
  <2>3. i - 1 \in Nat /\ \A j \in 1..(i - 1) : queue'[p][j] = q[j]
        BY <2>1
  <2>4. Held(p, i - 1, t, d)'
        BY <2>1, <2>3, HeldGrows
  <2> QED BY <2>2, <2>4
<1> QED BY <1>1, <1>2 DEF Pending

(* One request fewer, for a device that stays on the list. *)
LEMMA HeldShrinks ==
    ASSUME NEW p, NEW t, NEW d, queue[p] \in Seq(Req), queue[p] # <<>>,
           queue'[p] = Tail(queue[p]),
           <<t, d>> \in edge[p] => <<t, d>> \in edge'[p],
           Head(queue[p]) = Request("register", t, d) => <<t, d>> \in edge'[p],
           NEW n \in Nat, n <= Len(queue[p]), n # 0, Held(p, n, t, d)
    PROVE  Held(p, n - 1, t, d)'
<1> DEFINE q == queue[p]
<1>1. /\ Len(q) \in Nat /\ Len(Tail(q)) = Len(q) - 1
      /\ Head(q) = q[1] /\ \A i \in 1..Len(Tail(q)) : Tail(q)[i] = q[i + 1]
      BY HeadRequest
<1>2. CASE <<t, d>> \in edge'[p]
      BY <1>2 DEF Held
<1>3. CASE <<t, d>> \notin edge'[p]
  <2>1. PICK j \in 1..n : q[j] = Request("register", t, d)
        BY <1>3 DEF Held, Asks
  <2>2. j # 1
        BY <1>1, <1>3, <2>1
  <2>3. j - 1 \in 1..(n - 1) /\ j - 1 \in 1..Len(Tail(q)) /\ (j - 1) + 1 = j
        BY <1>1, <2>1, <2>2
  <2>4. Asks(p, j - 1, t, d)'
        BY <1>1, <2>1, <2>3 DEF Asks
  <2> QED BY <2>3, <2>4 DEF Held
<1> QED BY <1>2, <1>3

LEMMA ShrinkFrame ==
    ASSUME NEW t \in Thread, Listed(t), Pending(t),
           queue[PtOf[t]] \in Seq(Req), queue[PtOf[t]] # <<>>,
           queue'[PtOf[t]] = Tail(queue[PtOf[t]]), test'[t] = test[t],
           list'[t] \subseteq list[t],
           \A d \in list'[t] :
              /\ <<t, d>> \in edge[PtOf[t]] => <<t, d>> \in edge'[PtOf[t]]
              /\ Head(queue[PtOf[t]]) = Request("register", t, d)
                    => <<t, d>> \in edge'[PtOf[t]]
              /\ Head(queue[PtOf[t]]) = Request("unregister", t, d)
                    => <<t, d>> \notin edge[PtOf[t]]
    PROVE  Listed(t)' /\ Pending(t)'
<1> DEFINE p == PtOf[t]  q == queue[p]
<1>1. /\ Len(q) \in Nat /\ Len(Tail(q)) = Len(q) - 1 /\ Len(q) > 0
      /\ Head(q) = q[1] /\ \A i \in 1..Len(Tail(q)) : Tail(q)[i] = q[i + 1]
      BY HeadRequest
<1>2. ASSUME NEW d \in list'[t] PROVE Held(p, Len(queue[p]), t, d)'
  <2>1. ASSUME NEW n \in Nat, n = Len(q) PROVE Held(p, n - 1, t, d)'
    <3>1. Held(p, n, t, d) /\ n <= Len(q) /\ n # 0
          BY <1>1, <1>2, <2>1 DEF Listed
    <3> QED BY <1>2, <3>1, HeldShrinks
  <2>2. ASSUME NEW m \in Nat, m = Len(queue'[p]) PROVE Held(p, m, t, d)'
    <3>1. m + 1 \in Nat /\ m + 1 = Len(q) /\ (m + 1) - 1 = m
          BY <1>1, <2>2
    <3>2. Held(p, (m + 1) - 1, t, d)'
          BY <2>1, <3>1
    <3> QED BY <3>1, <3>2
  <2>3. Len(queue'[p]) \in Nat
        BY <1>1
  <2> QED BY <2>2, <2>3
<1>3. ASSUME test'[t] = "waiting", NEW d \in list'[t]
      PROVE  \E i \in 1..Len(queue'[p]) : Unasks(p, i, t, d)' /\ Held(p, i - 1, t, d)'
  <2>1. PICK i \in 1..Len(q) : Unasks(p, i, t, d) /\ Held(p, i - 1, t, d)
        BY <1>3 DEF Pending
  <2>2. i # 1
    <3> SUFFICES ASSUME i = 1 PROVE FALSE
        OBVIOUS
    <3>1. <<t, d>> \in edge[p]
          BY <2>1 DEF Held
    <3>2. Head(q) = Request("unregister", t, d)
          BY <1>1, <2>1 DEF Unasks
    <3> QED BY <1>3, <3>1, <3>2
  <2>3. i - 1 \in 1..Len(Tail(q)) /\ (i - 1) + 1 = i /\ i - 1 <= Len(q) /\ i - 1 # 0
        /\ i - 1 \in Nat
        BY <1>1, <2>1, <2>2
  <2>4. Unasks(p, i - 1, t, d)'
        BY <1>1, <2>1, <2>3 DEF Unasks
  <2>5. Held(p, (i - 1) - 1, t, d)'
        BY <1>3, <2>1, <2>3, HeldShrinks
  <2> QED BY <2>3, <2>4, <2>5
<1> QED BY <1>2, <1>3 DEF Listed, Pending

(* While no request fails, an answer that leaves the lists alone is none   *)
(* about a device, or one about a device that Edge does not have.          *)
LEMMA AnswerSmooth ==
    ASSUME TypeInv, NEW p \in Pt, AnswerStep(p), Smooth'
    PROVE  \/ /\ Leaves(p)
              /\ \A t \in Thread, d \in Device :
                    /\ Head(queue[p]) # Request("register", t, d)
                    /\ Head(queue[p]) = Request("unregister", t, d)
                          => <<t, d>> \notin edge[p]
           \/ \E t \in Thread, d \in Device : Marks(p, t, d) \/ Removes(p, t, d)
<1>q. queue[p] \in Seq(Req)
      BY DEF TypeInv
<1>1. /\ "registration" \notin faults' /\ "unregistration" \notin faults'
      BY DEF Smooth
<1>r. ASSUME NEW op, NEW t, NEW d, Head(queue[p]) = Request(op, t, d)
      PROVE  Head(queue[p]).op = op /\ Head(queue[p]).dev = <<t, d>>
      BY <1>r DEF Request
<1> USE DEF Answer, ptVars, testVars, endVars, edgeVars
<1>2. CASE protocol_translator_registration_success(p)
  <2>1. Leaves(p) /\ Head(queue[p]).op = "translator"
        BY <1>2 DEF protocol_translator_registration_success, Leaves
  <2> QED BY <2>1, <1>r
<1>3. CASE protocol_translator_registration_failure(p)
  <2>1. Leaves(p) /\ Head(queue[p]).op \in {"translator", "noTranslator"}
        BY <1>3 DEF protocol_translator_registration_failure, Fault, Leaves
  <2> QED BY <2>1, <1>r
<1>4. CASE device_registration_success(p) \/ device_unregistration_success(p)
  <2>1. Head(queue[p]).op \in {"register", "unregister"}
        BY <1>4 DEF device_registration_success, device_unregistration_success
  <2>2. PICK t \in Thread, d \in Device : Head(queue[p]).dev = <<t, d>>
                /\ Head(queue[p]) = Request(Head(queue[p]).op, t, d)
        BY <1>4, <1>q, <2>1, HeadRequest
        DEF DeviceOp, device_registration_success, device_unregistration_success
  <2>3. Head(queue[p]).dev[1] = t /\ Head(queue[p]).dev[2] = d
        BY <2>2
  <2>4. CASE device_registration_success(p)
        BY <2>2, <2>3, <2>4 DEF device_registration_success, Marks
  <2>5. CASE device_unregistration_success(p)
        BY <2>2, <2>3, <2>5 DEF device_unregistration_success, Removes
  <2> QED BY <1>4, <2>4, <2>5
<1>5. CASE device_registration_failure(p)
  <2>1. Leaves(p) /\ Head(queue[p]).op = "noRegister"
        BY <1>1, <1>5 DEF device_registration_failure, Fault, Leaves
  <2> QED BY <2>1, <1>r
<1>6. CASE device_unregistration_failure(p)
  <2>1. Leaves(p) /\ Head(queue[p]).op = "unregister" /\ Head(queue[p]).dev \notin edge[p]
        BY <1>1, <1>6 DEF device_unregistration_failure, Fault, Leaves
  <2> QED BY <2>1, <1>r
<1> QED BY <1>2, <1>3, <1>4, <1>5, <1>6 DEF AnswerStep

(* A thread that begins to wait has asked for everything on its list. *)
LEMMA BeginsToWait ==
    ASSUME TypeInv, Flags, Lists, NEW t \in Thread, Listed(t), Smooth',
           unregister_devices(t)
    PROVE  Listed(t)' /\ Pending(t)'
<1> DEFINE p == PtOf[t]  q == queue[p]
           R == {Request("unregister", t, d) : d \in list[t]}
           u == SetToSeq(R)
<1>a. p \in Pt /\ q \in Seq(Req)
      BY StressAssumption DEF TypeInv
<1>b. unregister_device_entry_common(t, list[t]) /\ UNCHANGED <<up, edge>>
      BY DEF unregister_devices, ptVars
<1>0. /\ unregister_device_entry_common(t, list[t]) /\ UNCHANGED <<up, edge>>
      /\ p \in Pt /\ q \in Seq(Req) /\ Len(q) \in Nat
      BY <1>a, <1>b
<1>1. PICK F \in SUBSET list[t] :
        /\ \/ F = {} /\ up[p] /\ UNCHANGED faults
           \/ F = list[t] /\ ~up[p] /\ UNCHANGED faults
           \/ F # {} /\ up[p] /\ Fault("send")
        /\ queue' = [queue EXCEPT ![p] =
                         @ \o SetToSeq({Request("unregister", t, d) : d \in list[t] \ F})]
        /\ list' = [list EXCEPT ![t] = @ \ F]
      BY <1>0 DEF unregister_device_entry_common
<1>2. F = {} \/ F = list[t]
      BY <1>1 DEF Fault, Smooth
<1>3. list'[t] = list[t] \ F
      BY <1>1 DEF TypeInv
<1>4. CASE F = list[t]
      BY <1>3, <1>4 DEF Listed, Pending
<1>5. CASE F = {}
  <2>1. queue'[p] = q \o u /\ list'[t] = list[t]
        BY <1>0, <1>1, <1>3, <1>5 DEF TypeInv
  <2>2. IsFiniteSet(list[t]) /\ list[t] \in SUBSET Device
        BY DEF TypeInv, Lists
  <2>3. IsFiniteSet(R)
        BY <2>2, RequestsFinite
  <2>4. R \subseteq Req
        BY <2>2 DEF Request, Req, DeviceOp, Ids
  <2>5. u \in Seq(Req)
        BY <2>3, <2>4, SetToSeqTyped
  <2>6. \A d \in list[t] : \E k \in 1..Len(u) : u[k] = Request("unregister", t, d)
        BY <2>3, SetToSeqComplete
  <2> HIDE DEF R, u
  <2>7. /\ Len(u) \in Nat /\ Len(q \o u) = Len(q) + Len(u)
        /\ \A i \in 1..Len(q) : (q \o u)[i] = q[i]
        /\ \A k \in 1..Len(u) : (q \o u)[Len(q) + k] = u[k]
        BY <1>0, <2>5
  <2>8. ASSUME NEW d \in list[t], NEW m \in Nat, m >= Len(q) PROVE Held(p, m, t, d)'
    <3>1. ASSUME NEW n \in Nat, n = Len(q) PROVE Held(p, m, t, d)'
      <4>1. Held(p, n, t, d)
            BY <3>1 DEF Listed
      <4>2. n <= m /\ \A i \in 1..n : queue'[p][i] = queue[p][i]
            BY <2>1, <2>7, <2>8, <3>1
      <4> QED BY <1>0, <4>1, <4>2, HeldGrows
    <3> QED BY <1>0, <3>1
  <2>9. ASSUME NEW d \in list[t]
        PROVE  \E i \in 1..Len(queue'[p]) : Unasks(p, i, t, d)' /\ Held(p, i - 1, t, d)'
    <3>1. PICK k \in 1..Len(u) : u[k] = Request("unregister", t, d)
          BY <2>6
    <3>2. PICK i \in Nat : i = Len(q) + k
          BY <1>0
    <3>3. i \in 1..Len(queue'[p]) /\ i - 1 \in Nat /\ i - 1 >= Len(q)
          BY <1>0, <2>1, <2>7, <3>2
    <3>4. Unasks(p, i, t, d)'
          BY <2>1, <2>7, <3>1, <3>2 DEF Unasks
    <3>5. Held(p, i - 1, t, d)'
          BY <2>8, <3>3
    <3> QED BY <3>3, <3>4, <3>5
  <2>10. ASSUME NEW d \in list'[t] PROVE Held(p, Len(queue[p]), t, d)'
    <3>1. ASSUME NEW m \in Nat, m = Len(queue'[p]) PROVE Held(p, m, t, d)'
          BY <1>0, <2>1, <2>7, <2>8, <2>10, <3>1
    <3>2. Len(queue'[p]) \in Nat
          BY <1>0, <2>1, <2>7
    <3> QED BY <3>1, <3>2
  <2> QED BY <2>1, <2>9, <2>10 DEF Listed, Pending
<1> QED BY <1>2, <1>4, <1>5

(* Every step keeps what the threads wait for on its way. *)
LEMMA WaitStep == TypeInv /\ Flags /\ Lists /\ WaitInv /\ [Next]_vars => WaitInv'
<1> SUFFICES ASSUME TypeInv, Flags, Lists, WaitInv, [Next]_vars, Smooth', NEW t \in Thread
             PROVE  Listed(t)' /\ Pending(t)'
    BY DEF WaitInv
<1>a. \A x \in Thread : PtOf[x] \in Pt /\ queue[PtOf[x]] \in Seq(Req)
                        /\ Len(queue[PtOf[x]]) \in Nat
      BY StressAssumption DEF TypeInv
<1>s. ASSUME faults \subseteq faults' PROVE Listed(t) /\ Pending(t)
      BY <1>s DEF Smooth, WaitInv
<1>0. ASSUME faults \subseteq faults', list'[t] \subseteq list[t],
             UNCHANGED <<queue[PtOf[t]], edge[PtOf[t]]>>,
             test'[t] = "waiting" => test[t] = "waiting"
      PROVE  Listed(t)' /\ Pending(t)'
  <2>1. Listed(t) /\ Pending(t)
        BY <1>0, <1>s
  <2>2. queue'[PtOf[t]] = queue[PtOf[t]] /\ edge'[PtOf[t]] = edge[PtOf[t]]
        BY <1>0
  <2> QED BY <1>0, <1>a, <2>1, <2>2, GrowFrame
<1>1. ASSUME NEW o \in Thread, register_random_device(o) PROVE Listed(t)' /\ Pending(t)'
  <2>1. PICK e \in Device \ list[o] :
          /\ list' = [list EXCEPT ![o] = @ \union {e}]
          /\ \/ /\ queue' = [queue EXCEPT ![PtOf[o]] = Append(@, Request("register", o, e))]
                /\ UNCHANGED faults
             \/ faults' = faults \union {"send"} /\ UNCHANGED queue
        BY <1>1, RegisterCases
  <2>2. /\ queue' = [queue EXCEPT ![PtOf[o]] = Append(@, Request("register", o, e))]
        /\ UNCHANGED faults
        BY <2>1 DEF Smooth
  <2>3. /\ UNCHANGED edge
        /\ test'[o] = "run" /\ \A x \in Thread \ {o} : test'[x] = test[x]
        BY <1>1, RegisterCases DEF TypeInv
  <2>4. list'[o] = list[o] \union {e} /\ \A x \in Thread \ {o} : list'[x] = list[x]
        BY <2>1 DEF TypeInv
  <2>5. Listed(t) /\ Pending(t)
        BY <2>2, <1>s
  <2>6. CASE PtOf[t] # PtOf[o]
    <3>1. queue'[PtOf[t]] = queue[PtOf[t]] /\ t # o
          BY <1>a, <2>2, <2>6 DEF TypeInv
    <3> QED BY <1>0, <2>2, <2>3, <2>4, <3>1
  <2>7. CASE PtOf[t] = PtOf[o]
    <3> DEFINE p == PtOf[t]  q == queue[p]  n == Append(q, Request("register", o, e))
    <3>0. Request("register", o, e) \in Req
          BY DEF Request, Req, DeviceOp, Ids
    <3>1. /\ queue'[p] = n /\ Len(n) = Len(q) + 1 /\ n[Len(q) + 1] = Request("register", o, e)
          /\ Len(q) \in Nat /\ \A i \in 1..Len(q) : n[i] = q[i]
      <4>1. queue'[p] = n
            BY <1>a, <2>2, <2>7 DEF TypeInv
      <4> QED BY <1>a, <3>0, <4>1
    <3> HIDE DEF n
    <3>2. CASE t # o
      <4>1. LET a == queue[PtOf[t]]  b == queue'[PtOf[t]] IN
              /\ Len(a) \in Nat /\ Len(b) \in Nat /\ Len(a) <= Len(b)
              /\ \A i \in 1..Len(a) : b[i] = a[i]
            BY <3>1
      <4>2. list'[t] \subseteq list[t] /\ test'[t] = test[t]
            BY <2>3, <2>4, <3>2
      <4> QED BY <2>3, <2>5, <4>1, <4>2, GrowFrame
    <3>3. CASE t = o
      <4>1. ASSUME NEW m \in Nat, m = Len(queue'[p]), NEW d \in list'[t]
            PROVE  Held(p, m, t, d)'
        <5>1. m = Len(q) + 1 /\ m \in 1..m
              BY <3>1, <4>1
        <5>2. CASE d = e
          <6>1. Asks(p, m, t, d)'
                BY <3>1, <3>3, <5>1, <5>2 DEF Asks
          <6> QED BY <5>1, <6>1 DEF Held
        <5>3. CASE d # e
          <6>1. ASSUME NEW k \in Nat, k = Len(q) PROVE Held(p, m, t, d)'
            <7>1. Held(p, k, t, d)
                  BY <2>4, <2>5, <3>3, <4>1, <5>3, <6>1 DEF Listed
            <7>2. k <= m /\ \A i \in 1..k : queue'[p][i] = queue[p][i]
                  BY <3>1, <5>1, <6>1
            <7> QED BY <2>3, <7>1, <7>2, HeldGrows
          <6> QED BY <3>1, <6>1
        <5> QED BY <5>2, <5>3
      <4>2. ASSUME NEW d \in list'[t] PROVE Held(p, Len(queue[p]), t, d)'
            BY <3>1, <4>1, <4>2
      <4>3. test'[t] # "waiting"
            BY <2>3, <3>3
      <4> QED BY <4>2, <4>3 DEF Listed, Pending
    <3> QED BY <3>2, <3>3
  <2> QED BY <2>6, <2>7
<1>2. ASSUME NEW o \in Thread, unregister_random_device(o) \/ unregister_devices(o)
      PROVE  Listed(t)' /\ Pending(t)'
  <2>1. PICK S \in SUBSET list[o] : unregister_device_entry_common(o, S)
        BY <1>2, UnregisterSteps
  <2>u. PICK F \in SUBSET S, n \in Seq(Req) : Unregistered(o, F, n)
        BY <2>1, UnregisterCases
  <2>2. /\ list' = [list EXCEPT ![o] = @ \ F] /\ flag' = [flag EXCEPT ![o] = @ \ F]
        /\ queue' = [queue EXCEPT ![PtOf[o]] = n]
        /\ faults' = faults \/ faults' = faults \union {"send"}
        /\ F = {} \/ ~up[PtOf[o]] \/ Happened("send")'
        /\ Len(n) \in Nat /\ Len(queue[PtOf[o]]) <= Len(n)
        /\ \A i \in 1..Len(queue[PtOf[o]]) : n[i] = queue[PtOf[o]][i]
        /\ \A i \in 1..Len(n) : i > Len(queue[PtOf[o]]) => n[i].op = "unregister"
        BY <2>u DEF Unregistered
  <2>3. Listed(t) /\ Pending(t)
        BY <2>2, <1>s
  <2>4. /\ UNCHANGED edge /\ \A x \in Thread \ {o} : test'[x] = test[x]
        BY <1>2, UnregisterSteps DEF TypeInv
  <2>5. list'[t] \subseteq list[t]
        BY <2>2 DEF TypeInv
  <2>6. ASSUME t # o \/ unregister_random_device(o) PROVE Listed(t)' /\ Pending(t)'
    <3>1. test'[t] = "waiting" => test[t] = "waiting"
          BY <2>4, <2>6 DEF unregister_random_device, Acts, TypeInv
    <3>2. CASE PtOf[t] # PtOf[o]
      <4>1. queue'[PtOf[t]] = queue[PtOf[t]]
            BY <1>a, <2>2, <3>2 DEF TypeInv
      <4> QED BY <1>0, <2>2, <2>4, <2>5, <3>1, <4>1
    <3>3. CASE PtOf[t] = PtOf[o]
      <4>1. queue'[PtOf[t]] = n
            BY <1>a, <2>2, <3>3 DEF TypeInv
      <4>2. LET q == queue[PtOf[t]]  m == queue'[PtOf[t]] IN
              /\ Len(q) \in Nat /\ Len(m) \in Nat /\ Len(q) <= Len(m)
              /\ \A i \in 1..Len(q) : m[i] = q[i]
            BY <1>a, <2>2, <3>3, <4>1
      <4> QED BY <2>3, <2>4, <2>5, <3>1, <4>2, GrowFrame
    <3> QED BY <3>2, <3>3
  <2>7. CASE t = o /\ unregister_devices(o)
        BY <2>3, <2>7, BeginsToWait
  <2> QED BY <1>2, <2>6, <2>7
<1>3. ASSUME NEW o \in Thread,
             test_thread_goes_on(o) \/ other_action(o) \/ test_thread_exits(o)
      PROVE  Listed(t)' /\ Pending(t)'
  <2>1. UNCHANGED <<list, queue, edge, faults>>
        BY <1>3, TestCases DEF edgeVars
  <2>2. test'[t] = "waiting" => test[t] = "waiting"
        BY <1>3, TestCases DEF TypeInv
  <2> QED BY <2>1, <2>2, <1>0
<1>4. ASSUME NEW o \in Pt, AnswerStep(o) PROVE Listed(t)' /\ Pending(t)'
  <2>1. /\ queue[o] # <<>> /\ queue' = [queue EXCEPT ![o] = Tail(@)] /\ UNCHANGED test
        /\ faults \subseteq faults'
        BY <1>4, AnswerCases DEF Leaves, Marks, Removes
  <2>2. Listed(t) /\ Pending(t)
        BY <2>1, <1>s
  <2>3. /\ list'[t] \subseteq list[t]
        /\ \A p \in Pt : p # o => edge'[p] = edge[p]
    <3>1. CASE Leaves(o)
          BY <3>1 DEF Leaves
    <3>2. ASSUME NEW x \in Thread, NEW e \in Device, Marks(o, x, e)
          PROVE  /\ list'[t] \subseteq list[t]
                 /\ \A p \in Pt : p # o => edge'[p] = edge[p]
          BY <3>2 DEF Marks, TypeInv
    <3>3. ASSUME NEW x \in Thread, NEW e \in Device, Removes(o, x, e)
          PROVE  /\ list'[t] \subseteq list[t]
                 /\ \A p \in Pt : p # o => edge'[p] = edge[p]
          BY <3>3 DEF Removes, TypeInv
    <3> QED BY <1>4, <3>1, <3>2, <3>3, AnswerCases
  <2>4. CASE PtOf[t] # o
    <3>1. queue'[PtOf[t]] = queue[PtOf[t]] /\ edge'[PtOf[t]] = edge[PtOf[t]]
          BY <1>a, <2>1, <2>3, <2>4 DEF TypeInv
    <3> QED BY <1>0, <2>1, <2>3, <3>1
  <2>5. CASE PtOf[t] = o
    <3>1. queue'[o] = Tail(queue[o]) /\ queue[o] \in Seq(Req)
          BY <2>1 DEF TypeInv
    <3>2. ASSUME NEW d \in list'[t]
          PROVE  /\ <<t, d>> \in edge[o] => <<t, d>> \in edge'[o]
                 /\ Head(queue[o]) = Request("register", t, d) => <<t, d>> \in edge'[o]
                 /\ Head(queue[o]) = Request("unregister", t, d) => <<t, d>> \notin edge[o]
      <4>0. d \in Device
            BY <2>3, <3>2 DEF TypeInv
      <4>1. CASE /\ Leaves(o)
                 /\ \A x \in Thread, e \in Device :
                      /\ Head(queue[o]) # Request("register", x, e)
                      /\ Head(queue[o]) = Request("unregister", x, e)
                            => <<x, e>> \notin edge[o]
            BY <4>0, <4>1 DEF Leaves
      <4>2. ASSUME NEW x \in Thread, NEW e \in Device, Marks(o, x, e)
            PROVE  /\ <<t, d>> \in edge[o] => <<t, d>> \in edge'[o]
                   /\ Head(queue[o]) = Request("register", t, d) => <<t, d>> \in edge'[o]
                   /\ Head(queue[o]) # Request("unregister", t, d)
        <5>1. Head(queue[o]) = Request("register", x, e)
              /\ edge'[o] = edge[o] \union {<<x, e>>}
              BY <4>2 DEF Marks, TypeInv
        <5> QED BY <5>1 DEF Request
      <4>3. ASSUME NEW x \in Thread, NEW e \in Device, Removes(o, x, e)
            PROVE  /\ <<t, d>> \in edge[o] => <<t, d>> \in edge'[o]
                   /\ Head(queue[o]) # Request("register", t, d)
                   /\ Head(queue[o]) # Request("unregister", t, d)
        <5>1. /\ Head(queue[o]) = Request("unregister", x, e)
              /\ edge'[o] = edge[o] \ {<<x, e>>} /\ list'[x] = list[x] \ {e}
              BY <4>3 DEF Removes, TypeInv
        <5>2. x # t \/ e # d
              BY <3>2, <5>1
        <5> QED BY <5>1, <5>2 DEF Request
      <4> QED BY <1>4, <4>1, <4>2, <4>3, AnswerSmooth
    <3> QED BY <2>1, <2>2, <2>3, <2>5, <3>1, <3>2, ShrinkFrame
  <2> QED BY <2>4, <2>5
<1>5. ASSUME NEW o \in Pt, connection_ready_handler(o) PROVE Listed(t)' /\ Pending(t)'
  <2> DEFINE m == [op |-> "translator", dev |-> <<>>]
  <2>1. /\ UNCHANGED <<test, list, edge, faults>>
        /\ queue' = [queue EXCEPT ![o] = Append(@, m)]
        BY <1>5 DEF connection_ready_handler, testVars, Fault, Smooth
  <2>2. Listed(t) /\ Pending(t)
        BY <2>1, <1>s
  <2>3. CASE PtOf[t] # o
    <3>1. queue'[PtOf[t]] = queue[PtOf[t]]
          BY <1>a, <2>1, <2>3 DEF TypeInv
    <3> QED BY <1>0, <2>1, <3>1
  <2>4. CASE PtOf[t] = o
    <3>1. queue'[o] = Append(queue[o], m) /\ queue[o] \in Seq(Req) /\ m \in Req
          BY <2>1 DEF TypeInv, Req
    <3> HIDE DEF m
    <3>2. LET q == queue[PtOf[t]]  n == queue'[PtOf[t]] IN
              /\ Len(q) \in Nat /\ Len(n) \in Nat /\ Len(q) <= Len(n)
              /\ \A i \in 1..Len(q) : n[i] = q[i]
          BY <2>4, <3>1
    <3> QED BY <2>1, <2>2, <3>2, GrowFrame
  <2> QED BY <2>3, <2>4
<1>6. ASSUME NEW o \in Pt, disconnected_handler(o) PROVE FALSE
      BY <1>6 DEF disconnected_handler, Fault, Smooth
<1>7. ASSUME NEW o \in Pt, received_write_handler(o) PROVE Listed(t)' /\ Pending(t)'
  <2>1. UNCHANGED <<test, list, queue, edge>> /\ faults \subseteq faults'
        BY <1>7 DEF received_write_handler, edgeVars, Fault
  <2> QED BY <2>1, <1>0
<1>8. CASE Managing
  <2>1. UNCHANGED <<test, list, queue, edge>> /\ faults \subseteq faults'
        BY <1>8, ManagingCases DEF testVars, edgeVars
  <2> QED BY <2>1, <1>0
<1>9. CASE UNCHANGED vars
      BY <1>9, <1>0 DEF vars
<1> QED BY <1>1, <1>2, <1>3, <1>4, <1>5, <1>6, <1>7, <1>8, <1>9 DEF Next, TestStep, Managing

LEMMA Waiting == Spec => [](Inv /\ WaitInv)
<1>1. Init => Inv /\ WaitInv
  <2>1. ASSUME Init PROVE WaitInv
        BY <2>1 DEF Init, WaitInv, Listed, Pending
  <2> QED BY <2>1, InvInit
<1>2. (Inv /\ WaitInv) /\ [Next]_vars => (Inv /\ WaitInv)'
      BY InvStep, WaitStep DEF Inv
<1> QED BY <1>1, <1>2, PTL DEF Spec

(* Whatever is lost to a thread is lost to Edge: while no request failed   *)
(* and no connection was lost, a device is on the list of its thread       *)
(* exactly when Edge has it or its registration is still to be answered,   *)
(* on any number of translators and in any order of calls and answers.     *)
THEOREM ListsAgreeWithEdge == Spec => []ListsAgree
<1>1. ASSUME Inv, WaitInv PROVE ListsAgree
  <2> SUFFICES ASSUME Smooth, NEW t \in Thread, NEW d \in Device
               PROVE  d \in list[t] <=> Held(PtOf[t], Len(queue[PtOf[t]]), t, d)
      BY DEF ListsAgree
  <2>1. d \in list[t] => Held(PtOf[t], Len(queue[PtOf[t]]), t, d)
        BY <1>1 DEF WaitInv, Listed
  <2>2. Known(PtOf[t]) /\ Asked(PtOf[t])
        BY <1>1, StressAssumption DEF Inv, Tracked, Happened, Smooth
  <2>3. Held(PtOf[t], Len(queue[PtOf[t]]), t, d) => d \in list[t]
        BY <2>2 DEF Held, Known, Asked
  <2> QED BY <2>1, <2>3
<1> QED BY <1>1, Waiting, PTL

(* A test thread that waits for its list to empty waits for answers that   *)
(* are to come: while no request failed, each of its devices has an        *)
(* unregistration outstanding that will find it at Edge, or behind its     *)
(* registration.                                                           *)
THEOREM ThreadsWaitForAnswers == Spec => []WaitsForAnswers
<1>1. WaitInv => WaitsForAnswers
      BY DEF WaitInv, WaitsForAnswers
<1> QED BY <1>1, Waiting, PTL
=============================================================================
