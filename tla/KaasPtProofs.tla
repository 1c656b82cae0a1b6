---------------------------- MODULE KaasPtProofs ----------------------------
(***************************************************************************)
(* Proofs about KaasPt, for all rows, names, clients, states, capacities   *)
(* and bounds.                                                             *)
(***************************************************************************)
EXTENDS KaasPt, FiniteSetTheorems, TLAPS

-----------------------------------------------------------------------------
(* Types *)

ToMsg == [kind : {"ok"}, event : Event]
         \cup [kind : {"request"}, id : Nat, op : Op, name : Name, data : Data]
FromMsg == [kind : {"write"}, event : Event] \cup [kind : {"response"}, id : Nat]
ClientAt == {"idle", "lock", "await", "answered", "failed", "delete"}
MainAt == {"connect", "await", "answered", "failed", "init", "serving"}

TypeInv ==
    /\ db \in [Row -> JsonState \cup {NoRow}]
    /\ edge \in [Name -> Data \cup {NoDevice}]
    /\ conn \in {"none", "open", "closed"}
    /\ toEdge \in Seq(ToMsg) /\ fromEdge \in Seq(FromMsg)
    /\ reader \in [at : {"none", "reading", "forwarding", "ended"}, event : Event]
    /\ events \in Seq(Event) /\ Len(events) <= Capacity
    /\ nextId \in Nat \ {0} /\ pending \in SUBSET (1..nextId)
    /\ lock \in Task \cup {NoTask}
    /\ at \in [Task -> ClientAt \cup MainAt]
    /\ at[Main] \in MainAt /\ \A c \in Client : at[c] \in ClientAt
    /\ job \in [Task -> Job]
    /\ todo \subseteq Row /\ mixed \subseteq Name
    /\ requests \in 0..MaxRequests /\ writes \in 0..MaxWrites
    /\ faults \in 0..MaxFaults

(* What main has yet to announce: rows that it found, or those it creates. *)
(* No handler runs before it serves.                                       *)
Starting ==
    /\ again \in BOOLEAN
    /\ again => \A r \in todo : Live(r)
    /\ ~again => todo \subseteq DOMAIN Default
    /\ ~Serving => \A c \in Client : at[c] = "idle"
    /\ Serving => todo = {}

(* The states of all rows. *)
LEMMA States ==
    /\ JsonState = {"on", "off", "usual", "measured"} /\ NoRow \notin JsonState
    /\ FieldOf["light"] = {"on", "off"} /\ FieldOf["sensor"] = {"usual", "measured"}
    /\ \A r \in Row : /\ KindOf[r] \in {"light", "sensor"}
                      /\ default_state(KindOf[r]) \in JsonState
    /\ \A r \in DOMAIN Default : r \in Row /\ Default[r] \in JsonState
    /\ \A b : decode(b) \in JsonState
    /\ Put \subseteq JsonState
<1>1. /\ FieldOf["light"] = {"on", "off"} /\ FieldOf["sensor"] = {"usual", "measured"}
      /\ DOMAIN FieldOf = {"light", "sensor"}
      BY DEF FieldOf
<1>2. JsonState = {"on", "off", "usual", "measured"}
      BY <1>1 DEF JsonState
<1>3. \A r \in Row : /\ KindOf[r] \in {"light", "sensor"}
                     /\ default_state(KindOf[r]) \in JsonState
      BY <1>2, KaasPtAssumption DEF default_state
<1>4. \A r \in DOMAIN Default : r \in Row /\ Default[r] \in JsonState
      BY <1>1, <1>2, <1>3, KaasPtAssumption
<1> QED BY <1>1, <1>2, <1>3, <1>4, KaasPtAssumption DEF decode, NoRow

(* What is sent about a device. *)
LEMMA ParamsTyped ==
    ASSUME NEW r \in Row, NEW s \in JsonState
    PROVE  create_device_params(r, s) \in Data
<1> DEFINE m == map_device_type_to_lwm2m(KindOf[r], s)
<1>1. KindOf[r] \in {"light", "sensor"}
      BY States
<1>2. m.object \in {"LightControl", "Sensor"} /\ m.value \in JsonState
  <2>1. default_state(KindOf[r]) \in JsonState
        BY States
  <2> QED BY <2>1 DEF map_device_type_to_lwm2m
<1>3. FieldOf.sensor = {"usual", "measured"}
      BY DEF FieldOf
<1>4. \A v \in JsonState : encode_value(v) \in Bytes
      BY <1>3, States DEF encode_value, Bytes
<1> HIDE DEF m
<1>5. [object |-> m.object, bytes |-> encode_value(m.value)] \in Data
      BY <1>2, <1>4 DEF Data
<1> QED BY <1>5 DEF create_device_params, m

(* The tasks differ. *)
LEMMA Tasks ==
    /\ Main \in Task /\ Main \notin Client /\ NoTask \notin Task
    /\ Task = Client \cup {Main} /\ \A c \in Client : c \in Task /\ c # Main /\ c # NoTask
BY KaasPtAssumption DEF Task, Main, NoTask

(* What a process starts with. *)
LEMMA FreshTyped ==
    /\ NoJob \in Job /\ NoJob.row \in Row /\ NoJob.st \in JsonState /\ NoEvent \in Event
    /\ Fresh.conn = "none" /\ Fresh.nextId = 1 /\ Fresh.lock = Main
    /\ Fresh.reader = [at |-> "none", event |-> NoEvent]
    /\ Fresh.at = [t \in Task |-> IF t = Main THEN "connect" ELSE "idle"]
    /\ Fresh.job = [t \in Task |-> NoJob]
<1>1. (CHOOSE r \in Row : TRUE) \in Row
      BY KaasPtAssumption
<1>2. NoJob \in Job /\ NoJob.row \in Row /\ NoJob.st \in JsonState
      BY <1>1, States DEF NoJob, Job, Op
<1>3. NoEvent \in Event
      BY <1>2 DEF NoEvent, Event, Name, Bytes
<1> QED BY <1>2, <1>3 DEF Fresh

(* Sequences of messages: one is added or taken off. *)
LEMMA Queues ==
    ASSUME NEW S, NEW q \in Seq(S)
    PROVE  /\ Len(q) \in Nat /\ \A i \in DOMAIN q : q[i] \in S
           /\ \A m \in S : /\ Append(q, m) \in Seq(S) /\ Len(Append(q, m)) = Len(q) + 1
                           /\ DOMAIN Append(q, m) = DOMAIN q \cup {Len(q) + 1}
                           /\ Append(q, m)[Len(q) + 1] = m
                           /\ \A i \in DOMAIN q : Append(q, m)[i] = q[i]
           /\ q # <<>> => /\ Head(q) \in S /\ Head(q) = q[1] /\ Tail(q) \in Seq(S)
                          /\ Len(Tail(q)) = Len(q) - 1 /\ Len(q) > 0 /\ 1 \in DOMAIN q
                          /\ \A i \in DOMAIN Tail(q) : /\ Tail(q)[i] = q[i + 1]
                                                       /\ i + 1 \in DOMAIN q
                          /\ \A i \in DOMAIN q : i # 1 => i - 1 \in DOMAIN Tail(q)
           /\ DOMAIN q = 1..Len(q)
<1>1. Len(q) \in Nat /\ DOMAIN q = 1..Len(q) /\ \A i \in DOMAIN q : q[i] \in S
      OBVIOUS
<1>2. ASSUME NEW m \in S
      PROVE  /\ Append(q, m) \in Seq(S) /\ Len(Append(q, m)) = Len(q) + 1
             /\ DOMAIN Append(q, m) = DOMAIN q \cup {Len(q) + 1}
             /\ Append(q, m)[Len(q) + 1] = m
             /\ \A i \in DOMAIN q : Append(q, m)[i] = q[i]
      BY <1>1
<1>3. ASSUME q # <<>>
      PROVE  /\ Head(q) \in S /\ Head(q) = q[1] /\ Tail(q) \in Seq(S)
             /\ Len(Tail(q)) = Len(q) - 1 /\ Len(q) > 0 /\ 1 \in DOMAIN q
      BY <1>1, <1>3
<1>4. ASSUME q # <<>>, NEW i \in DOMAIN Tail(q)
      PROVE  Tail(q)[i] = q[i + 1] /\ i + 1 \in DOMAIN q
  <2>1. i \in 1..(Len(q) - 1)
        BY <1>3, <1>4
  <2> QED BY <1>1, <1>4, <2>1
<1>5. ASSUME q # <<>>, NEW i \in DOMAIN q, i # 1 PROVE i - 1 \in DOMAIN Tail(q)
  <2>1. DOMAIN Tail(q) = 1..(Len(q) - 1)
        BY <1>3, <1>5
  <2> QED BY <1>1, <1>5, <2>1
<1> QED BY <1>1, <1>2, <1>3, <1>4, <1>5

(* A request, up to its writing to the socket. *)
LEMMA SendTyped ==
    ASSUME TypeInv, NEW t \in Task, NEW op \in Op, NEW r \in Row, NEW s \in JsonState,
           send_request(t, op, r, s)
    PROVE  /\ nextId' = nextId + 1 /\ nextId' \in Nat \ {0}
           /\ pending' = pending \cup {nextId'} /\ pending' \in SUBSET (1..nextId')
           /\ job' \in [Task -> Job] /\ toEdge' \in Seq(ToMsg)
           /\ at' = [at EXCEPT ![t] = IF conn' = "open" THEN "await" ELSE "failed"]
           /\ at' \in [Task -> ClientAt \cup MainAt]
           /\ t = Main => at'[Main] \in MainAt /\ \A c \in Client : at'[c] = at[c]
           /\ t # Main => at'[Main] = at[Main] /\ \A c \in Client : at'[c] \in ClientAt
<1>1. [op |-> op, row |-> r, st |-> s, id |-> nextId + 1] \in Job
      BY DEF Job, TypeInv
<1>2. [kind |-> "request", id |-> nextId + 1, op |-> op, name |-> NameOf[r],
       data |-> create_device_params(r, s)] \in ToMsg
      BY ParamsTyped DEF ToMsg, Name, TypeInv
<1>3. /\ nextId' = nextId + 1 /\ nextId' \in Nat \ {0}
      /\ pending' = pending \cup {nextId'}
      BY DEF send_request, TypeInv
<1>4. pending' \in SUBSET (1..nextId')
      BY <1>3 DEF TypeInv
<1>5. job' \in [Task -> Job]
      BY <1>1, <1>3 DEF send_request, TypeInv
<1> DEFINE m == [kind |-> "request", id |-> nextId + 1, op |-> op, name |-> NameOf[r],
                 data |-> create_device_params(r, s)]
<1>a. toEdge' = toEdge \/ toEdge' = Append(toEdge, m)
      BY <1>3 DEF send_request
<1> HIDE DEF m
<1>b. m \in ToMsg
      BY <1>2 DEF m
<1>6. toEdge' \in Seq(ToMsg)
      BY <1>a, <1>b, Queues DEF TypeInv
<1>7. at' = [at EXCEPT ![t] = IF conn' = "open" THEN "await" ELSE "failed"]
      BY DEF send_request, Go
<1>8. /\ at' \in [Task -> ClientAt \cup MainAt]
      /\ t = Main => at'[Main] \in MainAt /\ \A c \in Client : at'[c] = at[c]
      /\ t # Main => at'[Main] = at[Main] /\ \A c \in Client : at'[c] \in ClientAt
      BY <1>7, Tasks DEF TypeInv, ClientAt, MainAt
<1> QED BY <1>3, <1>4, <1>5, <1>6, <1>7, <1>8

(* What the messages hold. *)
LEMMA ToTyped ==
    ASSUME NEW m \in ToMsg
    PROVE  /\ m.kind \in {"ok", "request"}
           /\ m.kind = "request" => /\ m.id \in Nat /\ m.op \in Op
                                    /\ m.name \in Name /\ m.data \in Data
           /\ m.kind = "ok" => m.event \in Event
BY DEF ToMsg

LEMMA FromTyped ==
    ASSUME NEW m \in FromMsg
    PROVE  /\ m.kind \in {"write", "response"}
           /\ m.kind = "response" => m.id \in Nat
           /\ m.kind = "write" => m.event \in Event
BY DEF FromMsg

LEMMA EventTyped ==
    ASSUME NEW e \in Event
    PROVE  /\ e.name \in Name /\ e.bytes \in Bytes
           /\ [kind |-> "ok", event |-> e] \in ToMsg
           /\ [kind |-> "write", event |-> e] \in FromMsg
<1>1. e.name \in Name /\ e.bytes \in Bytes
      BY DEF Event
<1>2. [kind |-> "ok", event |-> e] \in ToMsg /\ [kind |-> "write", event |-> e] \in FromMsg
      BY DEF ToMsg, FromMsg
<1> QED BY <1>1, <1>2

LEMMA ResponseTyped == \A i \in Nat : [kind |-> "response", id |-> i] \in FromMsg
BY DEF FromMsg

(* A client's handler goes on. *)
LEMMA ClientGoes ==
    ASSUME TypeInv, NEW c \in Client, NEW p \in ClientAt, at' = [at EXCEPT ![c] = p]
    PROVE  /\ at' \in [Task -> ClientAt \cup MainAt]
           /\ at'[Main] \in MainAt /\ at'[Main] = at[Main] /\ at'[c] = p
           /\ \A d \in Client : at'[d] \in ClientAt
           /\ \A t \in Task : t # c => at'[t] = at[t]
BY Tasks DEF TypeInv

(* A handler starts. *)
LEMMA WantsTyped ==
    ASSUME TypeInv, NEW c \in Client, NEW op \in Op, NEW r \in Row, NEW s \in JsonState,
           Wants(c, op, r, s), db' \in [Row -> JsonState \cup {NoRow}],
           mixed' \subseteq Name
    PROVE  TypeInv'
<1>1. at' = [at EXCEPT ![c] = "lock"] /\ "lock" \in ClientAt
      BY DEF Wants, Go, ClientAt
<1>2. /\ at' \in [Task -> ClientAt \cup MainAt] /\ at'[Main] \in MainAt
      /\ \A d \in Client : at'[d] \in ClientAt
      BY <1>1, ClientGoes
<1>3. [op |-> op, row |-> r, st |-> s, id |-> 0] \in Job
      BY DEF Job
<1>4. job' \in [Task -> Job]
      BY <1>3 DEF Wants, TypeInv
<1>5. requests' \in 0..MaxRequests
      BY KaasPtAssumption DEF Wants, TypeInv
<1> QED BY <1>2, <1>4, <1>5 DEF Wants, TypeInv, readerVars, sendVars, mainVars

LEMMA TypeInvStep == TypeInv /\ Starting /\ [Next]_vars => TypeInv'
<1> SUFFICES ASSUME TypeInv, Starting, [Next]_vars PROVE TypeInv'
    OBVIOUS
<1> USE KaasPtAssumption
    DEF readerVars, sendVars, mainVars, boundVars, Fault, Go
<1>p. Op = {"hello", "device_register", "write", "device_unregister"}
      BY DEF Op
<1>j. \A t \in Task : job[t] \in Job /\ job[t].row \in Row /\ job[t].st \in JsonState
                      /\ job[t].op \in Op
      BY DEF TypeInv, Job
<1>1. CASE connect_and_register
  <2>1. send_request(Main, "hello", NoJob.row, NoJob.st)
        BY <1>1 DEF connect_and_register
  <2>2. /\ nextId' \in Nat \ {0} /\ pending' \in SUBSET (1..nextId')
        /\ job' \in [Task -> Job] /\ toEdge' \in Seq(ToMsg)
        /\ at' \in [Task -> ClientAt \cup MainAt] /\ at'[Main] \in MainAt
        /\ \A c \in Client : at'[c] = at[c]
        BY <2>1, <1>p, SendTyped, FreshTyped, Tasks
  <2>3. fromEdge' \in Seq(FromMsg)
        BY <1>1 DEF connect_and_register
  <2>4. reader' \in [at : {"none", "reading", "forwarding", "ended"}, event : Event]
        BY <1>1, FreshTyped DEF connect_and_register
  <2> QED BY <1>1, <2>2, <2>3, <2>4 DEF TypeInv, connect_and_register
<1>2. CASE ensure_pt_connected
  <2>1. nextId' \in Nat \ {0} /\ pending' \in SUBSET (1..nextId')
    <3>1. CASE UNCHANGED <<nextId, pending>>
          BY <3>1 DEF TypeInv
    <3>2. CASE nextId' = nextId + 1 /\ pending' = pending \cup {nextId'}
          BY <3>2 DEF TypeInv
    <3> QED BY <1>2, <3>1, <3>2 DEF ensure_pt_connected
  <2>2. faults' \in Nat
        BY <1>2 DEF ensure_pt_connected, Fault, TypeInv
  <2> QED BY <1>2, <2>1, <2>2 DEF TypeInv, ensure_pt_connected
<1>3. CASE initialize_counts
  <2>1. todo' \subseteq Row
        BY <1>3 DEF initialize_counts
  <2>2. at' \in [Task -> ClientAt \cup MainAt] /\ at'[Main] \in MainAt
        /\ \A c \in Client : at'[c] = at[c]
        BY <1>3, Tasks DEF initialize_counts, TypeInv, MainAt
  <2> QED BY <1>3, <2>1, <2>2 DEF TypeInv, initialize_counts
<1>4. CASE initialize_device
  <2>1. PICK r \in todo :
        /\ UNCHANGED conn
        /\ db' = IF again THEN db ELSE [db EXCEPT ![r] = Default[r]]
        /\ todo' = todo \ {r}
        /\ register_device(Main, r, db'[r])
        /\ mixed' = IF again THEN mixed
                    ELSE mixed \cup {NameOf[x] : x \in {y \in Row \ {r} :
                                         Live(y) /\ NameOf[y] = NameOf[r]}}
        BY <1>4 DEF initialize_device
  <2>2. r \in Row /\ db'[r] \in JsonState /\ db' \in [Row -> JsonState \cup {NoRow}]
    <3>1. CASE again
          BY <2>1, <3>1 DEF TypeInv, Starting, Live
    <3>2. CASE ~again
          BY <2>1, <3>2, States DEF TypeInv, Starting
    <3> QED BY <3>1, <3>2
  <2>3. send_request(Main, "device_register", r, db'[r])
        BY <2>1 DEF register_device
  <2>4. /\ nextId' \in Nat \ {0} /\ pending' \in SUBSET (1..nextId')
        /\ job' \in [Task -> Job] /\ toEdge' \in Seq(ToMsg)
        /\ at' \in [Task -> ClientAt \cup MainAt] /\ at'[Main] \in MainAt
        /\ \A c \in Client : at'[c] = at[c]
        BY <2>2, <2>3, <1>p, SendTyped, Tasks
  <2>5. mixed' \subseteq Name /\ todo' \subseteq Row
        BY <2>1 DEF TypeInv, Name
  <2> QED BY <1>4, <2>1, <2>2, <2>4, <2>5 DEF TypeInv, initialize_device
<1>5. CASE initialize_publishes
  <2>1. send_request(Main, "write", job[Main].row, job[Main].st)
        BY <1>5 DEF initialize_publishes, write_device_state
  <2>2. /\ nextId' \in Nat \ {0} /\ pending' \in SUBSET (1..nextId')
        /\ job' \in [Task -> Job] /\ toEdge' \in Seq(ToMsg)
        /\ at' \in [Task -> ClientAt \cup MainAt] /\ at'[Main] \in MainAt
        /\ \A c \in Client : at'[c] = at[c]
        BY <2>1, <1>j, <1>p, SendTyped, Tasks
  <2> QED BY <1>5, <2>2 DEF TypeInv, initialize_publishes
<1>6. CASE initialize_next
  <2>1. at' \in [Task -> ClientAt \cup MainAt] /\ at'[Main] \in MainAt
        /\ \A c \in Client : at'[c] = at[c]
        BY <1>6, Tasks DEF initialize_next, TypeInv, MainAt
  <2> QED BY <1>6, <2>1 DEF TypeInv, initialize_next
<1>7. CASE main_serves
  <2>1. at' \in [Task -> ClientAt \cup MainAt] /\ at'[Main] \in MainAt
        /\ \A c \in Client : at'[c] = at[c]
        BY <1>7, Tasks DEF main_serves, TypeInv, MainAt
  <2> QED BY <1>7, <2>1 DEF TypeInv, main_serves
<1>n. \A r \in Row : NameOf[r] \in Name
      BY DEF Name
<1>8. ASSUME NEW c \in Client, NEW r \in Row, create_device(c, r) PROVE TypeInv'
  <2>1. db' \in [Row -> JsonState \cup {NoRow}] /\ db'[r] \in JsonState
        BY <1>8, States DEF create_device, TypeInv
  <2>2. mixed' \subseteq Name
        BY <1>8, <1>n DEF create_device, MixesIf, TypeInv
  <2>3. Wants(c, "device_register", r, db'[r])
        BY <1>8 DEF create_device
  <2> QED BY <2>1, <2>2, <2>3, <1>p, WantsTyped
<1>9. ASSUME NEW c \in Client, NEW r \in Row, delete_device(c, r) PROVE TypeInv'
  <2>1. db' \in [Row -> JsonState \cup {NoRow}] /\ db[r] \in JsonState
        BY <1>9 DEF delete_device, TypeInv, Live
  <2>2. mixed' \subseteq Name
        BY <1>9, <1>n DEF delete_device, MixesIf, TypeInv
  <2>3. Wants(c, "device_unregister", r, db[r])
        BY <1>9 DEF delete_device
  <2> QED BY <2>1, <2>2, <2>3, <1>p, WantsTyped
<1>10. ASSUME NEW c \in Client, NEW r \in Row, NEW s \in Put, update_device_state(c, r, s)
       PROVE  TypeInv'
  <2>1. db' \in [Row -> JsonState \cup {NoRow}] /\ s \in JsonState
        BY <1>10, States DEF update_device_state, TypeInv
  <2>2. mixed' \subseteq Name
        BY <1>10, <1>n DEF update_device_state, MixesIf, TypeInv
  <2>3. Wants(c, "write", r, s)
        BY <1>10 DEF update_device_state
  <2> QED BY <2>1, <2>2, <2>3, <1>p, WantsTyped
<1>11. ASSUME NEW c \in Client, handler_locks(c) PROVE TypeInv'
  <2>1. send_request(c, job[c].op, job[c].row, job[c].st)
        BY <1>11 DEF handler_locks
  <2>2. /\ nextId' \in Nat \ {0} /\ pending' \in SUBSET (1..nextId')
        /\ job' \in [Task -> Job] /\ toEdge' \in Seq(ToMsg)
        /\ at' \in [Task -> ClientAt \cup MainAt] /\ at'[Main] = at[Main]
        /\ \A d \in Client : at'[d] \in ClientAt
        BY <2>1, <1>j, SendTyped, Tasks
  <2>3. lock' \in Task \cup {NoTask}
        BY <1>11, Tasks DEF handler_locks
  <2> QED BY <1>11, <2>2, <2>3 DEF TypeInv, handler_locks
<1>12. ASSUME NEW c \in Client, handler_unlocks(c) PROVE TypeInv'
  <2>1. PICK p \in ClientAt : at' = [at EXCEPT ![c] = p]
        BY <1>12 DEF handler_unlocks, ClientAt
  <2>2. /\ at' \in [Task -> ClientAt \cup MainAt] /\ at'[Main] \in MainAt
        /\ \A d \in Client : at'[d] \in ClientAt
        BY <2>1, ClientGoes
  <2> QED BY <1>12, <2>2 DEF TypeInv, handler_unlocks
<1>13. ASSUME NEW c \in Client, delete_device_row(c) PROVE TypeInv'
  <2>1. at' = [at EXCEPT ![c] = "idle"] /\ "idle" \in ClientAt
        BY <1>13 DEF delete_device_row, ClientAt
  <2>2. /\ at' \in [Task -> ClientAt \cup MainAt] /\ at'[Main] \in MainAt
        /\ \A d \in Client : at'[d] \in ClientAt
        BY <2>1, ClientGoes
  <2>3. db' \in [Row -> JsonState \cup {NoRow}]
        BY <1>13, <1>j, Tasks DEF delete_device_row, TypeInv
  <2> QED BY <1>13, <2>2, <2>3 DEF TypeInv, delete_device_row
<1>14. ASSUME NEW c \in Client, delete_device_fails(c) PROVE TypeInv'
  <2>1. at' = [at EXCEPT ![c] = "idle"] /\ "idle" \in ClientAt
        BY <1>14 DEF delete_device_fails, ClientAt
  <2>2. /\ at' \in [Task -> ClientAt \cup MainAt] /\ at'[Main] \in MainAt
        /\ \A d \in Client : at'[d] \in ClientAt
        BY <2>1, ClientGoes
  <2>3. mixed' \subseteq Name
        BY <1>14, <1>n, <1>j, Tasks DEF delete_device_fails, Mixes, TypeInv
  <2>4. faults' \in 0..MaxFaults
        BY <1>14 DEF delete_device_fails, TypeInv
  <2> QED BY <1>14, <2>2, <2>3, <2>4 DEF TypeInv, delete_device_fails
<1>15. ASSUME NEW c \in Client, client_disconnects(c) PROVE TypeInv'
  <2>1. at' = [at EXCEPT ![c] = "idle"] /\ "idle" \in ClientAt
        BY <1>15 DEF client_disconnects, ClientAt
  <2>2. /\ at' \in [Task -> ClientAt \cup MainAt] /\ at'[Main] \in MainAt
        /\ \A d \in Client : at'[d] \in ClientAt
        BY <2>1, ClientGoes
  <2>3. mixed' \subseteq Name
        BY <1>15, <1>n, <1>j, Tasks DEF client_disconnects, Mixes, TypeInv
  <2>4. faults' \in 0..MaxFaults /\ lock' \in Task \cup {NoTask}
        BY <1>15 DEF client_disconnects, TypeInv
  <2> QED BY <1>15, <2>2, <2>3, <2>4 DEF TypeInv, client_disconnects
<1>16. CASE reader_routes
  <2>1. at' \in [Task -> ClientAt \cup MainAt] /\ at'[Main] \in MainAt
        /\ \A c \in Client : at'[c] \in ClientAt
        BY <1>16, Tasks DEF reader_routes, TypeInv, ClientAt, MainAt
  <2>2. fromEdge' \in Seq(FromMsg)
        BY <1>16, Queues DEF reader_routes, Head1, TypeInv
  <2>3. pending' \in SUBSET (1..nextId')
        BY <1>16 DEF reader_routes, TypeInv
  <2> QED BY <1>16, <2>1, <2>2, <2>3 DEF TypeInv, reader_routes
<1>17. CASE reader_confirms
  <2>1. fromEdge # <<>> /\ Head(fromEdge).kind = "write" /\ fromEdge' = Tail(fromEdge)
        BY <1>17 DEF reader_confirms, Head1
  <2>2. Head(fromEdge) \in FromMsg /\ fromEdge' \in Seq(FromMsg)
        BY <2>1, Queues DEF TypeInv
  <2>3. Head(fromEdge).event \in Event
        BY <2>1, <2>2, FromTyped
  <2> DEFINE m == [kind |-> "ok", event |-> Head(fromEdge).event]
  <2>4. m \in ToMsg
        BY <2>3, EventTyped
  <2>5. toEdge' = toEdge \/ toEdge' = Append(toEdge, m)
        BY <1>17 DEF reader_confirms
  <2> HIDE DEF m
  <2>a. toEdge \in Seq(ToMsg)
        BY DEF TypeInv
  <2>b. Append(toEdge, m) \in Seq(ToMsg)
        BY <2>4, <2>a, Queues
  <2>6. toEdge' \in Seq(ToMsg)
        BY <2>5, <2>a, <2>b
  <2>7. reader' \in [at : {"none", "reading", "forwarding", "ended"}, event : Event]
        BY <1>17, <2>3 DEF reader_confirms
  <2> QED BY <1>17, <2>2, <2>6, <2>7 DEF TypeInv, reader_confirms
<1>18. CASE reader_forwards
  <2>1. reader.event \in Event
        BY DEF TypeInv
  <2>2. events' = Append(events, reader.event) /\ Len(events) < Capacity
        BY <1>18 DEF reader_forwards
  <2>3. events' \in Seq(Event) /\ Len(events') = Len(events) + 1 /\ Len(events) \in Nat
        BY <2>1, <2>2, Queues DEF TypeInv
  <2>4. Len(events') <= Capacity
        BY <2>2, <2>3
  <2>5. reader' \in [at : {"none", "reading", "forwarding", "ended"}, event : Event]
        BY <1>18 DEF reader_forwards, TypeInv
  <2> QED BY <1>18, <2>3, <2>4, <2>5 DEF TypeInv, reader_forwards
<1>19. CASE reader_breaks
  <2>1. reader' \in [at : {"none", "reading", "forwarding", "ended"}, event : Event]
        BY <1>19 DEF reader_breaks, TypeInv
  <2> QED BY <1>19, <2>1 DEF TypeInv, reader_breaks
<1>e. ASSUME events # <<>>, events' = Tail(events)
      PROVE  /\ Head(events).name \in Name
             /\ events' \in Seq(Event) /\ Len(events') <= Capacity
  <2>1. /\ Head(events) \in Event /\ events' \in Seq(Event)
        /\ Len(events') = Len(events) - 1 /\ Len(events) \in Nat
        BY <1>e, Queues DEF TypeInv
  <2>2. Len(events') <= Capacity
        BY <2>1 DEF TypeInv
  <2> QED BY <2>1, <2>2, EventTyped
<1>20. CASE consumer_applies
  <2>1. events # <<>> /\ events' = Tail(events)
        BY <1>20 DEF consumer_applies
  <2>2. db' \in [Row -> JsonState \cup {NoRow}]
        BY <1>20, States DEF consumer_applies, TypeInv
  <2>3. mixed' \subseteq Name
        BY <1>20, <1>e, <2>1 DEF consumer_applies, MixesIf, TypeInv
  <2> QED BY <1>20, <1>e, <2>1, <2>2, <2>3 DEF TypeInv, consumer_applies
<1>21. CASE consumer_fails
  <2>1. events # <<>> /\ events' = Tail(events)
        BY <1>21 DEF consumer_fails
  <2>2. mixed' \subseteq Name /\ faults' \in 0..MaxFaults
        BY <1>21, <1>e, <2>1 DEF consumer_fails, Mixes, TypeInv
  <2> QED BY <1>21, <1>e, <2>1, <2>2 DEF TypeInv, consumer_fails
<1>d. \A n \in Name : edge[n] \in Data \cup {NoDevice}
      BY DEF TypeInv
<1>q. ASSUME toEdge # <<>>, toEdge' = Tail(toEdge)
      PROVE  Head(toEdge) \in ToMsg /\ toEdge' \in Seq(ToMsg)
      BY <1>q, Queues DEF TypeInv
<1>22. CASE edge_answers
  <2>1. toEdge # <<>> /\ toEdge' = Tail(toEdge)
        BY <1>22 DEF edge_answers
  <2> DEFINE m == Head(toEdge)
  <2>2. m \in ToMsg /\ toEdge' \in Seq(ToMsg)
        BY <2>1, <1>q
  <2>3. CASE m.kind = "request"
    <3>1. m.id \in Nat /\ m.name \in Name /\ m.data \in Data
          BY <2>2, <2>3, ToTyped
    <3>2. [kind |-> "response", id |-> m.id] \in FromMsg
          BY <3>1, ResponseTyped
    <3>3. fromEdge' = Append(fromEdge, [kind |-> "response", id |-> m.id])
          BY <1>22, <2>3 DEF edge_answers, Answer
    <3>4. fromEdge' \in Seq(FromMsg)
          BY <3>2, <3>3, Queues DEF TypeInv
    <3>5. edge' = IF m.op = "hello" THEN edge
                  ELSE [edge EXCEPT ![m.name] =
                        CASE m.op = "device_register" /\ @ = NoDevice -> m.data
                          [] m.op = "write" /\ @ # NoDevice -> m.data
                          [] m.op = "device_unregister" -> NoDevice
                          [] OTHER -> @]
          BY <1>22, <2>3 DEF edge_answers
    <3>6. edge' \in [Name -> Data \cup {NoDevice}]
          BY <3>1, <3>5, <1>d DEF TypeInv
    <3> QED BY <1>22, <2>2, <3>4, <3>6 DEF TypeInv, edge_answers
  <2>4. CASE m.kind = "ok"
    <3>1. m.event.name \in Name /\ m.event.bytes \in Bytes
          BY <2>2, <2>4, ToTyped, EventTyped
    <3>2. /\ edge' = IF edge[m.event.name] = NoDevice THEN edge
                      ELSE [edge EXCEPT ![m.event.name].bytes = m.event.bytes]
          /\ UNCHANGED fromEdge
          BY <1>22, <2>4 DEF edge_answers
    <3>3. edge' \in [Name -> Data \cup {NoDevice}]
      <4>1. CASE edge[m.event.name] = NoDevice
            BY <3>2, <4>1 DEF TypeInv
      <4>2. CASE edge[m.event.name] # NoDevice
        <5>1. [edge[m.event.name] EXCEPT !.bytes = m.event.bytes] \in Data
              BY <4>2, <3>1, <1>d DEF Data
        <5>2. edge' = [edge EXCEPT ![m.event.name] =
                            [edge[m.event.name] EXCEPT !.bytes = m.event.bytes]]
              BY <3>1, <3>2, <4>2 DEF TypeInv
        <5> QED BY <5>1, <5>2, <3>1 DEF TypeInv
      <4> QED BY <4>1, <4>2
    <3> QED BY <1>22, <2>2, <3>2, <3>3 DEF TypeInv, edge_answers
  <2> QED BY <2>2, <2>3, <2>4, ToTyped
<1>23. CASE edge_refuses
  <2>1. toEdge # <<>> /\ toEdge' = Tail(toEdge) /\ Head(toEdge).kind = "request"
        BY <1>23 DEF edge_refuses
  <2>2. toEdge' \in Seq(ToMsg) /\ Head(toEdge).id \in Nat /\ Head(toEdge).name \in Name
        BY <2>1, <1>q, ToTyped
  <2>3. [kind |-> "response", id |-> Head(toEdge).id] \in FromMsg
        BY <2>2, ResponseTyped
  <2>4. fromEdge' = Append(fromEdge, [kind |-> "response", id |-> Head(toEdge).id])
        BY <1>23 DEF edge_refuses, Answer
  <2>5. fromEdge' \in Seq(FromMsg)
        BY <2>3, <2>4, Queues DEF TypeInv
  <2>6. mixed' \subseteq Name /\ faults' \in 0..MaxFaults
        BY <1>23, <2>2 DEF edge_refuses, TypeInv
  <2> QED BY <1>23, <2>2, <2>5, <2>6 DEF TypeInv, edge_refuses
<1>24. ASSUME NEW n \in Name, NEW b \in Payload, cloud_writes(n, b) PROVE TypeInv'
  <2> DEFINE e == [object |-> "LightControl", name |-> n, bytes |-> b]
  <2>1. e \in Event
        BY DEF Event, Bytes
  <2>2. [kind |-> "write", event |-> e] \in FromMsg
        BY <2>1, EventTyped
  <2>3. fromEdge' = Append(fromEdge, [kind |-> "write", event |-> e])
        BY <1>24 DEF cloud_writes
  <2>4. fromEdge' \in Seq(FromMsg)
        BY <2>2, <2>3, Queues DEF TypeInv
  <2>5. mixed' \subseteq Name /\ writes' \in 0..MaxWrites
        BY <1>24 DEF cloud_writes, MixesIf, TypeInv
  <2> QED BY <1>24, <2>4, <2>5 DEF TypeInv, cloud_writes
<1>25. CASE connection_closes
  <2>1. edge' \in [Name -> Data \cup {NoDevice}] /\ toEdge' \in Seq(ToMsg)
        BY <1>25 DEF connection_closes
  <2>2. faults' \in 0..MaxFaults
        BY <1>25 DEF connection_closes, TypeInv
  <2> QED BY <1>25, <2>1, <2>2 DEF TypeInv, connection_closes
<1>26. CASE process_restarts
  <2>1. edge' \in [Name -> Data \cup {NoDevice}] /\ toEdge' \in Seq(ToMsg)
        BY <1>26 DEF process_restarts
  <2>2. faults' \in 0..MaxFaults /\ mixed' \subseteq Name
        BY <1>26 DEF process_restarts, TypeInv, Shared
  <2>3. /\ at' \in [Task -> ClientAt \cup MainAt] /\ at'[Main] \in MainAt
        /\ \A c \in Client : at'[c] \in ClientAt
        BY <1>26, FreshTyped, Tasks DEF process_restarts, ClientAt, MainAt
  <2>4. /\ job' \in [Task -> Job]
        /\ reader' \in [at : {"none", "reading", "forwarding", "ended"}, event : Event]
        BY <1>26, FreshTyped DEF process_restarts
  <2>5. nextId' \in Nat \ {0} /\ pending' \in SUBSET (1..nextId')
        BY <1>26, FreshTyped DEF process_restarts
  <2>6. conn' \in {"none", "open", "closed"} /\ lock' \in Task \cup {NoTask}
        BY <1>26, FreshTyped, Tasks DEF process_restarts
  <2>7. /\ fromEdge' \in Seq(FromMsg) /\ events' \in Seq(Event) /\ Len(events') <= Capacity
        BY <1>26 DEF process_restarts
  <2>8. UNCHANGED <<db, requests, writes>> /\ todo' \subseteq Row
        BY <1>26 DEF process_restarts
  <2> QED BY <2>1, <2>2, <2>3, <2>4, <2>5, <2>6, <2>7, <2>8 DEF TypeInv
<1>27. CASE UNCHANGED vars
       BY <1>27 DEF TypeInv, vars
<1>28. ASSUME NEW c \in Client, Handler(c) PROVE TypeInv'
       BY <1>28, <1>8, <1>9, <1>10, <1>11, <1>12, <1>13, <1>14, <1>15 DEF Handler
<1> QED BY <1>1, <1>2, <1>3, <1>4, <1>5, <1>6, <1>7, <1>16, <1>17, <1>18, <1>19, <1>20,
           <1>21, <1>22, <1>23, <1>24, <1>25, <1>26, <1>27, <1>28 DEF Next

LEMMA TypeInvInit == Init => TypeInv /\ Starting
<1> SUFFICES ASSUME Init PROVE TypeInv /\ Starting
    OBVIOUS
<1>1. /\ at \in [Task -> ClientAt \cup MainAt] /\ at[Main] = "connect"
      /\ \A c \in Client : at[c] = "idle"
      BY FreshTyped, Tasks DEF Init, ClientAt, MainAt
<1>2. /\ job \in [Task -> Job]
      /\ reader \in [at : {"none", "reading", "forwarding", "ended"}, event : Event]
      BY FreshTyped DEF Init
<1>3. nextId \in Nat \ {0} /\ pending \in SUBSET (1..nextId)
      BY FreshTyped DEF Init
<1>4. conn \in {"none", "open", "closed"} /\ lock \in Task \cup {NoTask}
      BY FreshTyped, Tasks DEF Init
<1>5. /\ toEdge \in Seq(ToMsg) /\ fromEdge \in Seq(FromMsg)
      /\ events \in Seq(Event) /\ Len(events) <= Capacity
      BY KaasPtAssumption DEF Init
<1>6. /\ db \in [Row -> JsonState \cup {NoRow}] /\ edge \in [Name -> Data \cup {NoDevice}]
      /\ todo = {} /\ mixed = {} /\ again = FALSE
      BY DEF Init
<1>7. requests \in 0..MaxRequests /\ writes \in 0..MaxWrites /\ faults \in 0..MaxFaults
      BY KaasPtAssumption DEF Init
<1>8. TypeInv
      BY <1>1, <1>2, <1>3, <1>4, <1>5, <1>6, <1>7 DEF TypeInv, ClientAt, MainAt
<1>9. Starting
      BY <1>1, <1>6 DEF Starting
<1> QED BY <1>8, <1>9

(* Rows are announced while they live, and handlers start after main has   *)
(* announced them all.                                                     *)
LEMMA StartingStep == TypeInv /\ Starting /\ [Next]_vars => Starting'
<1> SUFFICES ASSUME TypeInv, Starting, [Next]_vars PROVE Starting'
    OBVIOUS
<1> USE DEF mainVars
<1>1. CASE connect_and_register
  <2>1. at' = [at EXCEPT ![Main] = "await"]
        BY <1>1 DEF connect_and_register, send_request, Go
  <2>2. at'[Main] = "await" /\ \A c \in Client : at'[c] = at[c]
        BY <2>1, Tasks DEF TypeInv
  <2> QED BY <1>1, <2>2 DEF connect_and_register, Starting, Live, Serving
<1>3. CASE initialize_counts
  <2>1. at' = [at EXCEPT ![Main] = "init"] /\ again' \in BOOLEAN
        BY <1>3 DEF initialize_counts, Go
  <2>2. /\ again' => \A r \in todo' : Live(r)'
        /\ ~again' => todo' \subseteq DOMAIN Default
        BY <1>3 DEF initialize_counts, Live
  <2>3. at'[Main] = "init" /\ \A c \in Client : at'[c] = "idle"
        BY <1>3, <2>1, Tasks DEF initialize_counts, Starting, TypeInv, Serving
  <2> QED BY <2>1, <2>2, <2>3 DEF Starting, Serving
<1>4. CASE initialize_device
  <2>1. PICK r \in todo : /\ db' = IF again THEN db ELSE [db EXCEPT ![r] = Default[r]]
                          /\ todo' = todo \ {r}
                          /\ register_device(Main, r, db'[r])
        BY <1>4 DEF initialize_device
  <2>2. ~Serving' /\ \A c \in Client : at'[c] = "idle"
        BY <1>4, <2>1, Tasks
        DEF initialize_device, register_device, send_request, Go, Starting, TypeInv, Serving
  <2> QED BY <1>4, <2>1, <2>2 DEF initialize_device, Starting, Live
<1>5. CASE initialize_publishes
  <2>2. ~Serving' /\ \A c \in Client : at'[c] = "idle"
        BY <1>5, Tasks
        DEF initialize_publishes, write_device_state, send_request, Go, Starting, TypeInv,
            Serving
  <2> QED BY <1>5, <2>2 DEF initialize_publishes, Starting, Live
<1>6. CASE initialize_next
  <2>1. ~Serving' /\ \A c \in Client : at'[c] = "idle"
        BY <1>6, Tasks DEF initialize_next, Finished, Go, Starting, TypeInv, Serving
  <2> QED BY <1>6, <2>1 DEF initialize_next, Starting, Live
<1>7. CASE main_serves
  <2>1. Serving' /\ todo' = {} /\ UNCHANGED again
        BY <1>7, Tasks DEF main_serves, Go, TypeInv, Serving
  <2> QED BY <2>1 DEF Starting
<1>8. ASSUME NEW c \in Client, Handler(c) PROVE Starting'
  <2>1. Serving
    <3>1. at[c] # "idle" \/ Serving
          BY <1>8 DEF Handler, create_device, delete_device, update_device_state,
             handler_locks, handler_unlocks, delete_device_row, delete_device_fails,
             client_disconnects, Finished
    <3> QED BY <3>1 DEF Starting
  <2>2. UNCHANGED <<todo, again>>
        BY <1>8 DEF Handler, create_device, delete_device, update_device_state, Wants,
           handler_locks, handler_unlocks, delete_device_row, delete_device_fails,
           client_disconnects
  <2>3. \E p : at' = [at EXCEPT ![c] = p]
        BY <1>8 DEF Handler, create_device, delete_device, update_device_state, Wants,
           handler_locks, send_request, handler_unlocks, delete_device_row,
           delete_device_fails, client_disconnects, Go
  <2>4. Serving'
        BY <2>1, <2>3, Tasks DEF Serving, TypeInv
  <2> QED BY <2>1, <2>2, <2>4 DEF Starting
<1>9. CASE reader_routes
  <2>1. \A t \in Task : at[t] # "await" => at'[t] = at[t]
        BY <1>9 DEF reader_routes, TypeInv
  <2>2. Serving' = Serving
        BY <1>9, Tasks DEF reader_routes, TypeInv, Serving
  <2>3. ~Serving => \A c \in Client : at'[c] = "idle"
        BY <2>1, Tasks DEF Starting
  <2> QED BY <1>9, <2>2, <2>3 DEF Starting, reader_routes, Live
<1>10. CASE process_restarts
  <2>1. at'[Main] = "connect" /\ \A c \in Client : at'[c] = "idle"
        BY <1>10, FreshTyped, Tasks DEF process_restarts
  <2>2. todo' = {} /\ again' = FALSE
        BY <1>10 DEF process_restarts
  <2> QED BY <2>1, <2>2 DEF Starting
<1>11. CASE consumer_applies
       BY <1>11 DEF Starting, consumer_applies, Serving
<1>12. ASSUME UNCHANGED <<at, db, todo, again>> PROVE Starting'
       BY <1>12 DEF Starting, Live, Serving
<1>13. CASE UNCHANGED vars
       BY <1>12, <1>13 DEF vars
<1>14. CASE \/ ensure_pt_connected \/ reader_confirms \/ reader_forwards \/ reader_breaks
            \/ consumer_fails \/ edge_answers \/ edge_refuses \/ connection_closes
       BY <1>12, <1>14 DEF ensure_pt_connected, reader_confirms, reader_forwards,
          reader_breaks, consumer_fails, edge_answers, edge_refuses, connection_closes
<1>15. ASSUME NEW n \in Name, NEW b \in Payload, cloud_writes(n, b) PROVE Starting'
       BY <1>12, <1>15 DEF cloud_writes
<1> QED BY <1>1, <1>3, <1>4, <1>5, <1>6, <1>7, <1>8, <1>9, <1>10, <1>11, <1>13, <1>14,
           <1>15 DEF Next

LEMMA TypesFollow == TypeInv /\ Starting => TypeOK
<1> SUFFICES ASSUME TypeInv, Starting PROVE TypeOK
    OBVIOUS
<1>1. \A i \in DOMAIN toEdge : toEdge[i] \in ToMsg
      BY DEF TypeInv
<1>2. \A i \in DOMAIN fromEdge : fromEdge[i] \in FromMsg
      BY DEF TypeInv
<1>3. at \in [Task -> {"idle", "lock", "await", "answered", "failed", "delete",
                       "connect", "init", "serving"}]
      BY DEF TypeInv, ClientAt, MainAt
<1>4. again \in BOOLEAN
      BY DEF Starting
<1> QED BY <1>1, <1>2, <1>3, <1>4 DEF TypeOK, TypeInv, ToMsg, FromMsg

(* Every variable keeps its type; in particular the channel of events never *)
(* exceeds its capacity, and every id in pending_requests was given out.   *)
THEOREM TypeCorrect == Spec => []TypeOK
<1>1. Init => TypeInv /\ Starting
      BY TypeInvInit
<1>2. TypeInv /\ Starting /\ [Next]_vars => (TypeInv /\ Starting)'
      BY TypeInvStep, StartingStep
<1> QED BY <1>1, <1>2, TypesFollow, PTL DEF Spec
-----------------------------------------------------------------------------
(* Answers *)

Has(q, kind, i) == \E k \in DOMAIN q : q[k].kind = kind /\ q[k].id = i
Once(q, kind) ==
    \A j, k \in DOMAIN q :
        q[j].kind = kind /\ q[k].kind = kind /\ q[j].id = q[k].id => j = k

(* A task that has the translator is the owner of the mutex, main until it *)
(* serves.                                                                 *)
Locks ==
    /\ \A c \in Client : at[c] \in {"await", "answered", "failed"} => lock = c
    /\ ~Serving => lock = Main

(* An id is on the way at most once, and while a task waits for it it is   *)
(* pending and, unless the connection is lost, on the way.                 *)
Ids ==
    /\ Once(toEdge, "request") /\ Once(fromEdge, "response")
    /\ \A i \in Nat : Has(toEdge, "request", i) => i <= nextId
    /\ \A i \in Nat : Has(fromEdge, "response", i) => i <= nextId
    /\ \A i \in Nat : ~(Has(toEdge, "request", i) /\ Has(fromEdge, "response", i))
Awaited ==
    \A t \in Task : at[t] = "await" =>
        /\ job[t].id \in pending
        /\ conn = "open" => \/ Has(toEdge, "request", job[t].id)
                            \/ Has(fromEdge, "response", job[t].id)

LEMMA HasAppend ==
    ASSUME NEW S, NEW q \in Seq(S), NEW m \in S, NEW kind, NEW i
    PROVE  Has(Append(q, m), kind, i) <=> Has(q, kind, i) \/ (m.kind = kind /\ m.id = i)
<1>1. /\ DOMAIN Append(q, m) = DOMAIN q \cup {Len(q) + 1}
      /\ Append(q, m)[Len(q) + 1] = m /\ \A k \in DOMAIN q : Append(q, m)[k] = q[k]
      BY Queues
<1> QED BY <1>1 DEF Has

LEMMA HasTail ==
    ASSUME NEW S, NEW q \in Seq(S), q # <<>>, NEW kind, NEW i
    PROVE  /\ Has(Tail(q), kind, i) => Has(q, kind, i)
           /\ Has(q, kind, i) /\ ~(Head(q).kind = kind /\ Head(q).id = i)
              => Has(Tail(q), kind, i)
<1>1. /\ Head(q) = q[1]
      /\ \A k \in DOMAIN Tail(q) : Tail(q)[k] = q[k + 1] /\ k + 1 \in DOMAIN q
      /\ \A k \in DOMAIN q : k # 1 => k - 1 \in DOMAIN Tail(q)
      BY Queues
<1>2. Has(Tail(q), kind, i) => Has(q, kind, i)
      BY <1>1 DEF Has
<1>3. ASSUME Has(q, kind, i), ~(Head(q).kind = kind /\ Head(q).id = i)
      PROVE  Has(Tail(q), kind, i)
  <2>1. PICK k \in DOMAIN q : q[k].kind = kind /\ q[k].id = i
        BY <1>3 DEF Has
  <2>2. k # 1
        BY <2>1, <1>1, <1>3
  <2>3. k \in Nat /\ (k - 1) + 1 = k
        BY <2>1, Queues
  <2>4. Tail(q)[k - 1] = q[k] /\ k - 1 \in DOMAIN Tail(q)
        BY <1>1, <2>2, <2>3
  <2> QED BY <2>1, <2>4 DEF Has
<1> QED BY <1>2, <1>3

LEMMA OnceAppend ==
    ASSUME NEW S, NEW q \in Seq(S), NEW m \in S, NEW kind, Once(q, kind),
           m.kind = kind => ~Has(q, kind, m.id)
    PROVE  Once(Append(q, m), kind)
<1>1. /\ DOMAIN Append(q, m) = DOMAIN q \cup {Len(q) + 1}
      /\ Append(q, m)[Len(q) + 1] = m /\ \A k \in DOMAIN q : Append(q, m)[k] = q[k]
      BY Queues
<1> QED BY <1>1 DEF Has, Once

LEMMA OnceTail ==
    ASSUME NEW S, NEW q \in Seq(S), q # <<>>, NEW kind, Once(q, kind)
    PROVE  /\ Once(Tail(q), kind)
           /\ Head(q).kind = kind => ~Has(Tail(q), kind, Head(q).id)
<1>1. /\ Head(q) = q[1] /\ 1 \in DOMAIN q
      /\ \A k \in DOMAIN Tail(q) : Tail(q)[k] = q[k + 1] /\ k + 1 \in DOMAIN q
      BY Queues
<1>2. \A k \in DOMAIN Tail(q) : k \in Nat /\ k > 0
  <2>1. Tail(q) \in Seq(S)
        BY Queues
  <2>2. DOMAIN Tail(q) = 1..Len(Tail(q)) /\ Len(Tail(q)) \in Nat
        BY <2>1, Queues
  <2> QED BY <2>2
<1>3. \A j, k \in DOMAIN Tail(q) : j + 1 = k + 1 => j = k
      BY <1>2
<1>4. \A k \in DOMAIN Tail(q) : k + 1 # 1
      BY <1>2
<1>5. Once(Tail(q), kind)
      BY <1>1, <1>3 DEF Once
<1>6. Head(q).kind = kind => ~Has(Tail(q), kind, Head(q).id)
      BY <1>1, <1>4 DEF Once, Has
<1> QED BY <1>5, <1>6

LEMMA OnceCounts ==
    ASSUME NEW q, NEW kind, NEW i, Once(q, kind)
    PROVE  Cardinality({k \in DOMAIN q : q[k].kind = kind /\ q[k].id = i})
           = IF Has(q, kind, i) THEN 1 ELSE 0
<1> DEFINE K == {k \in DOMAIN q : q[k].kind = kind /\ q[k].id = i}
<1>1. CASE Has(q, kind, i)
  <2>1. PICK k \in DOMAIN q : q[k].kind = kind /\ q[k].id = i
        BY <1>1 DEF Has
  <2>2. K = {k}
        BY <2>1 DEF Once
  <2> QED BY <1>1, <2>2, FS_Singleton
<1>2. CASE ~Has(q, kind, i)
  <2>1. K = {}
        BY <1>2 DEF Has
  <2> QED BY <1>2, <2>1, FS_EmptySet
<1> QED BY <1>1, <1>2

LEMMA AnswersFollow == TypeInv /\ Starting /\ Locks /\ Ids /\ Awaited => AnswerComes
<1> SUFFICES ASSUME TypeInv, Starting, Locks, Ids, Awaited, NEW t \in Task, at[t] = "await"
             PROVE  /\ lock = t /\ job[t].id \in pending
                    /\ conn = "open" => OnTheWay(job[t].id) = 1
    BY DEF AnswerComes
<1>1. lock = t
      BY Tasks DEF Locks, Serving
<1>2. job[t].id \in pending
      BY DEF Awaited
<1>3. ASSUME conn = "open" PROVE OnTheWay(job[t].id) = 1
  <2> DEFINE i == job[t].id
  <2>1. i \in Nat
        BY DEF TypeInv, Job
  <2>2. /\ Has(toEdge, "request", i) \/ Has(fromEdge, "response", i)
        /\ ~(Has(toEdge, "request", i) /\ Has(fromEdge, "response", i))
        BY <1>3, <2>1 DEF Awaited, Ids
  <2> HIDE DEF i
  <2>3. Cardinality({k \in DOMAIN toEdge : toEdge[k].kind = "request" /\ toEdge[k].id = i})
        = IF Has(toEdge, "request", i) THEN 1 ELSE 0
        BY OnceCounts DEF Ids
  <2>4. Cardinality({k \in DOMAIN fromEdge : fromEdge[k].kind = "response"
                                             /\ fromEdge[k].id = i})
        = IF Has(fromEdge, "response", i) THEN 1 ELSE 0
        BY OnceCounts DEF Ids
  <2>5. OnTheWay(i) = 1
        BY <2>2, <2>3, <2>4 DEF OnTheWay
  <2> QED BY <2>5 DEF i
<1> QED BY <1>1, <1>2, <1>3

LEMMA LocksStep == TypeInv /\ Starting /\ Locks /\ [Next]_vars => Locks'
<1> SUFFICES ASSUME TypeInv, Starting, Locks, [Next]_vars PROVE Locks'
    OBVIOUS
<1>1. ASSUME ~Serving, UNCHANGED lock, \A c \in Client : at'[c] = at[c] PROVE Locks'
      BY <1>1 DEF Locks, Starting, Serving
<1>2. ASSUME UNCHANGED <<at, lock>> PROVE Locks'
      BY <1>2 DEF Locks, Serving
<1>3. CASE connect_and_register
  <2>1. ~Serving /\ UNCHANGED lock /\ \A c \in Client : at'[c] = at[c]
        BY <1>3, Tasks DEF connect_and_register, send_request, Go, TypeInv, Serving
  <2> QED BY <1>1, <2>1
<1>4. CASE initialize_counts
  <2>1. ~Serving /\ UNCHANGED lock /\ \A c \in Client : at'[c] = at[c]
        BY <1>4, Tasks DEF initialize_counts, Go, TypeInv, Serving
  <2> QED BY <1>1, <2>1
<1>5. CASE initialize_device
  <2>1. ~Serving /\ UNCHANGED lock /\ \A c \in Client : at'[c] = at[c]
        BY <1>5, Tasks DEF initialize_device, register_device, send_request, Go, TypeInv,
           Serving
  <2> QED BY <1>1, <2>1
<1>6. CASE initialize_publishes
  <2>1. ~Serving /\ UNCHANGED lock /\ \A c \in Client : at'[c] = at[c]
        BY <1>6, Tasks DEF initialize_publishes, write_device_state, send_request, Go,
           TypeInv, Serving
  <2> QED BY <1>1, <2>1
<1>7. CASE initialize_next
  <2>1. ~Serving /\ UNCHANGED lock /\ \A c \in Client : at'[c] = at[c]
        BY <1>7, Tasks DEF initialize_next, Finished, Go, TypeInv, Serving
  <2> QED BY <1>1, <2>1
<1>8. CASE main_serves
  <2>1. Serving' /\ \A c \in Client : at'[c] = "idle"
        BY <1>8, Tasks DEF main_serves, Go, TypeInv, Serving, Starting
  <2> QED BY <2>1 DEF Locks
<1>9. ASSUME NEW c \in Client, Handler(c) PROVE Locks'
  <2>1. Serving
    <3>1. at[c] # "idle" \/ Serving
          BY <1>9 DEF Handler, create_device, delete_device, update_device_state,
             handler_locks, handler_unlocks, delete_device_row, delete_device_fails,
             client_disconnects, Finished
    <3> QED BY <3>1 DEF Starting
  <2>2. \E p : at' = [at EXCEPT ![c] = p]
        BY <1>9 DEF Handler, create_device, delete_device, update_device_state, Wants,
           handler_locks, send_request, handler_unlocks, delete_device_row,
           delete_device_fails, client_disconnects, Go
  <2>3. Serving' /\ \A t \in Task : t # c => at'[t] = at[t]
        BY <2>1, <2>2, Tasks DEF Serving, TypeInv
  <2>4. ASSUME at'[c] \in {"idle", "lock"}, UNCHANGED lock PROVE Locks'
        BY <2>3, <2>4, Tasks DEF Locks
  <2>5. ASSUME NEW r \in Row, \/ create_device(c, r) \/ delete_device(c, r)
                              \/ \E s \in Put : update_device_state(c, r, s)
        PROVE  Locks'
    <3>1. at'[c] = "lock" /\ UNCHANGED lock
          BY <2>5, Tasks DEF create_device, delete_device, update_device_state, Wants, Go,
             TypeInv
    <3> QED BY <2>4, <3>1
  <2>6. CASE handler_locks(c)
    <3>1. lock = NoTask /\ lock' = c
          BY <2>6 DEF handler_locks
    <3>2. \A d \in Client : d # c => at'[d] \notin {"await", "answered", "failed"}
          BY <2>3, <3>1, Tasks DEF Locks
    <3> QED BY <2>3, <3>1, <3>2 DEF Locks
  <2>7. CASE handler_unlocks(c)
    <3>1. lock = c
          BY <2>7 DEF handler_unlocks, Finished, Locks
    <3>2. at'[c] \in {"idle", "delete"}
          BY <2>7, Tasks DEF handler_unlocks, Go, TypeInv
    <3>3. \A d \in Client : d # c => at'[d] \notin {"await", "answered", "failed"}
          BY <2>3, <3>1, Tasks DEF Locks
    <3> QED BY <2>3, <3>2, <3>3 DEF Locks
  <2>8. CASE delete_device_row(c) \/ delete_device_fails(c)
    <3>1. at'[c] = "idle" /\ UNCHANGED lock
          BY <2>8, Tasks DEF delete_device_row, delete_device_fails, Go, TypeInv
    <3> QED BY <2>4, <3>1
  <2>9. CASE client_disconnects(c)
    <3>1. at'[c] = "idle"
          BY <2>9, Tasks DEF client_disconnects, Go, TypeInv
    <3>2. lock' = IF lock = c THEN NoTask ELSE lock
          BY <2>9 DEF client_disconnects
    <3> QED BY <2>3, <3>1, <3>2, Tasks DEF Locks
  <2> QED BY <1>9, <2>5, <2>6, <2>7, <2>8, <2>9 DEF Handler
<1>10. CASE reader_routes
  <2>1. \A t \in Task : at'[t] = at[t] \/ (at[t] = "await" /\ at'[t] = "answered")
        BY <1>10 DEF reader_routes, TypeInv
  <2>2. Serving' = Serving /\ UNCHANGED lock
        BY <1>10, <2>1, Tasks DEF reader_routes, Serving
  <2> QED BY <2>1, <2>2, Tasks DEF Locks
<1>11. CASE process_restarts
  <2>1. lock' = Main /\ \A c \in Client : at'[c] = "idle"
        BY <1>11, FreshTyped, Tasks DEF process_restarts
  <2> QED BY <2>1 DEF Locks
<1>12. CASE UNCHANGED vars
       BY <1>2, <1>12 DEF vars
<1>13. CASE \/ ensure_pt_connected \/ reader_confirms \/ reader_forwards \/ reader_breaks
            \/ consumer_applies \/ consumer_fails \/ edge_answers \/ edge_refuses
            \/ connection_closes
       BY <1>2, <1>13 DEF ensure_pt_connected, reader_confirms, reader_forwards,
          reader_breaks, consumer_applies, consumer_fails, edge_answers, edge_refuses,
          connection_closes
<1>14. ASSUME NEW n \in Name, NEW b \in Payload, cloud_writes(n, b) PROVE Locks'
       BY <1>2, <1>14 DEF cloud_writes
<1> QED BY <1>3, <1>4, <1>5, <1>6, <1>7, <1>8, <1>9, <1>10, <1>11, <1>12, <1>13, <1>14
        DEF Next

(* A request that is sent has an id that is nowhere yet. *)
LEMMA SendIds ==
    ASSUME TypeInv, Ids, NEW t \in Task, NEW op \in Op, NEW r \in Row, NEW s \in JsonState,
           send_request(t, op, r, s), fromEdge' \in {fromEdge, <<>>}
    PROVE  /\ Ids'
           /\ job'[t].id = nextId' /\ nextId' \in pending' /\ pending \subseteq pending'
           /\ \A u \in Task : u # t => job'[u] = job[u] /\ at'[u] = at[u]
           /\ at'[t] = IF conn' = "open" THEN "await" ELSE "failed"
           /\ conn' = "open" => Has(toEdge', "request", nextId')
           /\ \A i \in Nat : Has(toEdge, "request", i) => Has(toEdge', "request", i)
<1> DEFINE m == [kind |-> "request", id |-> nextId + 1, op |-> op, name |-> NameOf[r],
                 data |-> create_device_params(r, s)]
<1>1. /\ nextId' = nextId + 1 /\ nextId \in Nat
      /\ pending' = pending \cup {nextId'}
      BY DEF send_request, TypeInv
<1>2. /\ toEdge' = IF conn' = "open" THEN Append(toEdge, m) ELSE toEdge
      /\ m.kind = "request" /\ m.id = nextId + 1
      BY <1>1 DEF send_request
<1>3. m \in ToMsg
      BY <1>1, ParamsTyped DEF ToMsg, Name
<1>4. toEdge \in Seq(ToMsg)
      BY DEF TypeInv
<1> HIDE DEF m
<1>5. ASSUME NEW i
      PROVE  Has(toEdge', "request", i)
             <=> Has(toEdge, "request", i) \/ (conn' = "open" /\ i = nextId + 1)
      BY <1>2, <1>3, <1>4, HasAppend
<1>6. ~Has(toEdge, "request", nextId + 1) /\ ~Has(fromEdge, "response", nextId + 1)
  <2>1. nextId + 1 \in Nat /\ ~(nextId + 1 <= nextId)
        BY <1>1
  <2> QED BY <2>1 DEF Ids
<1>7. Once(toEdge', "request")
      BY <1>2, <1>3, <1>4, <1>6, OnceAppend DEF Ids
<1>8. /\ Once(fromEdge', "response")
      /\ \A i : Has(fromEdge', "response", i) => Has(fromEdge, "response", i)
      BY DEF Ids, Once, Has
<1>9. Ids'
  <2>1. \A i \in Nat : Has(toEdge', "request", i) => i <= nextId'
        BY <1>1, <1>5 DEF Ids
  <2>2. \A i \in Nat : Has(fromEdge', "response", i) => i <= nextId'
        BY <1>1, <1>8 DEF Ids
  <2>3. \A i \in Nat : ~(Has(toEdge', "request", i) /\ Has(fromEdge', "response", i))
        BY <1>5, <1>6, <1>8 DEF Ids
  <2> QED BY <1>7, <1>8, <2>1, <2>2, <2>3 DEF Ids
<1>10. /\ job'[t].id = nextId'
       /\ \A u \in Task : u # t => job'[u] = job[u]
       BY DEF send_request, TypeInv
<1>11. /\ \A u \in Task : u # t => at'[u] = at[u]
       /\ at'[t] = IF conn' = "open" THEN "await" ELSE "failed"
       BY SendTyped DEF TypeInv
<1> QED BY <1>1, <1>5, <1>9, <1>10, <1>11

LEMMA SendAwaited ==
    ASSUME TypeInv, Ids, Awaited,
           NEW t \in Task, NEW op \in Op, NEW r \in Row, NEW s \in JsonState,
           send_request(t, op, r, s), UNCHANGED <<conn, fromEdge>>
    PROVE  (Ids /\ Awaited)'
<1>1. Ids'
      BY SendIds
<1>2. ASSUME NEW u \in Task, at'[u] = "await"
      PROVE  /\ job'[u].id \in pending'
             /\ conn' = "open" => \/ Has(toEdge', "request", job'[u].id)
                                  \/ Has(fromEdge', "response", job'[u].id)
  <2>1. CASE u = t
        BY <1>2, <2>1, SendIds
  <2>2. CASE u # t
    <3>1. at[u] = "await" /\ job'[u] = job[u] /\ pending \subseteq pending'
          BY <1>2, <2>2, SendIds
    <3>2. job[u].id \in Nat
          BY DEF TypeInv, Job
    <3>3. Has(toEdge, "request", job[u].id) => Has(toEdge', "request", job[u].id)
          BY <3>2, SendIds
    <3> QED BY <3>1, <3>3 DEF Awaited
  <2> QED BY <2>1, <2>2
<1> QED BY <1>1, <1>2 DEF Awaited

(* The answer of a request takes its place. *)
LEMMA AnswerIds ==
    ASSUME TypeInv, Ids, Awaited, toEdge # <<>>, toEdge' = Tail(toEdge),
           UNCHANGED <<nextId, pending, conn, at, job>>,
           \/ Head(toEdge).kind = "request" /\ Answer(Head(toEdge))
           \/ Head(toEdge).kind = "ok" /\ UNCHANGED fromEdge
    PROVE  (Ids /\ Awaited)'
<1> DEFINE h == Head(toEdge)
           m == [kind |-> "response", id |-> h.id]
<1>1. toEdge \in Seq(ToMsg) /\ fromEdge \in Seq(FromMsg) /\ h \in ToMsg
      BY Queues DEF TypeInv
<1>2. Once(toEdge', "request") /\ (h.kind = "request" => ~Has(toEdge', "request", h.id))
      BY <1>1, OnceTail DEF Ids
<1>3. \A i : /\ Has(toEdge', "request", i) => Has(toEdge, "request", i)
             /\ Has(toEdge, "request", i) /\ ~(h.kind = "request" /\ h.id = i)
                => Has(toEdge', "request", i)
      BY <1>1, HasTail
<1>4. CASE h.kind = "request" /\ Answer(h)
  <2>1. h.id \in Nat
        BY <1>1, <1>4, ToTyped
  <2>2. m \in FromMsg
        BY <2>1, ResponseTyped
  <2>3. fromEdge' = Append(fromEdge, m) /\ m.kind = "response" /\ m.id = h.id
        BY <1>4 DEF Answer
  <2>4. Has(toEdge, "request", h.id)
    <3>1. 1 \in DOMAIN toEdge /\ toEdge[1] = h
          BY <1>1, Queues
    <3> QED BY <1>4, <3>1 DEF Has
  <2>5. ~Has(fromEdge, "response", h.id) /\ h.id <= nextId
        BY <2>1, <2>4 DEF Ids
  <2> HIDE DEF m, h
  <2>6. \A i : Has(fromEdge', "response", i) <=> Has(fromEdge, "response", i) \/ i = h.id
        BY <1>1, <2>2, <2>3, HasAppend
  <2>7. Once(fromEdge', "response")
        BY <1>1, <2>2, <2>3, <2>5, OnceAppend DEF Ids
  <2>8. Ids'
        BY <1>2, <1>3, <1>4, <2>5, <2>6, <2>7 DEF Ids
  <2>9. Awaited'
        BY <1>3, <2>6 DEF Awaited
  <2> QED BY <2>8, <2>9
<1>5. CASE h.kind = "ok" /\ UNCHANGED fromEdge
  <2>1. \A i : Has(toEdge', "request", i) <=> Has(toEdge, "request", i)
        BY <1>3, <1>5
  <2>2. Ids'
        BY <1>2, <1>5, <2>1 DEF Ids
  <2>3. Awaited'
        BY <1>5, <2>1 DEF Awaited
  <2> QED BY <2>2, <2>3
<1> QED BY <1>4, <1>5

LEMMA IdsStep == TypeInv /\ Starting /\ Ids /\ Awaited /\ [Next]_vars => (Ids /\ Awaited)'
<1> SUFFICES ASSUME TypeInv, Starting, Ids, Awaited, [Next]_vars PROVE (Ids /\ Awaited)'
    OBVIOUS
<1> USE DEF sendVars, readerVars
<1>p. "hello" \in Op /\ "device_register" \in Op /\ "write" \in Op
      BY DEF Op
<1>j. \A t \in Task : job[t] \in Job /\ job[t].row \in Row /\ job[t].st \in JsonState
                      /\ job[t].op \in Op /\ job[t].id \in Nat
      BY DEF TypeInv, Job
<1>s. toEdge \in Seq(ToMsg) /\ fromEdge \in Seq(FromMsg)
      BY DEF TypeInv
<1>1. ASSUME UNCHANGED <<sendVars, fromEdge, conn>>,
             \A t \in Task : at'[t] = "await" => at[t] = "await" /\ job'[t] = job[t]
      PROVE  (Ids /\ Awaited)'
      BY <1>1 DEF Ids, Awaited
<1>2. CASE connect_and_register
  <2>1. /\ send_request(Main, "hello", NoJob.row, NoJob.st) /\ fromEdge' = <<>>
        /\ ~Serving
        BY <1>2 DEF connect_and_register, Serving
  <2>2. /\ Ids' /\ job'[Main].id = nextId' /\ nextId' \in pending'
        /\ conn' = "open" => Has(toEdge', "request", nextId')
        /\ \A u \in Task : u # Main => at'[u] = at[u]
        BY <2>1, <1>p, SendIds, FreshTyped, Tasks
  <2>3. \A u \in Task : u # Main => at'[u] = "idle"
        BY <2>1, <2>2, Tasks DEF Starting
  <2>4. Awaited'
        BY <2>2, <2>3 DEF Awaited
  <2> QED BY <2>2, <2>4
<1>3. CASE initialize_device
  <2>1. PICK r \in todo : /\ register_device(Main, r, db'[r])
                          /\ db' = IF again THEN db ELSE [db EXCEPT ![r] = Default[r]]
        BY <1>3 DEF initialize_device
  <2>2. r \in Row /\ db'[r] \in JsonState
    <3>1. CASE again
          BY <2>1, <3>1 DEF TypeInv, Starting, Live
    <3>2. CASE ~again
          BY <2>1, <3>2, States DEF TypeInv, Starting
    <3> QED BY <3>1, <3>2
  <2>3. send_request(Main, "device_register", r, db'[r]) /\ UNCHANGED <<conn, fromEdge>>
        BY <1>3, <2>1 DEF register_device, initialize_device
  <2> QED BY <2>2, <2>3, <1>p, SendAwaited, Tasks
<1>4. CASE initialize_publishes
  <2>1. /\ send_request(Main, "write", job[Main].row, job[Main].st)
        /\ UNCHANGED <<conn, fromEdge>>
        BY <1>4 DEF initialize_publishes, write_device_state
  <2> QED BY <2>1, <1>p, <1>j, SendAwaited, Tasks
<1>5. CASE initialize_counts \/ initialize_next \/ main_serves
  <2>1. \A t \in Task : at'[t] = "await" => at[t] = "await" /\ job'[t] = job[t]
        BY <1>5 DEF initialize_counts, initialize_next, main_serves, Go, TypeInv
  <2>2. UNCHANGED <<sendVars, fromEdge, conn>>
        BY <1>5 DEF initialize_counts, initialize_next, main_serves
  <2> QED BY <1>1, <2>1, <2>2
<1>6. ASSUME NEW c \in Client, NEW r \in Row, \/ create_device(c, r) \/ delete_device(c, r)
                              \/ \E s \in Put : update_device_state(c, r, s)
      PROVE  (Ids /\ Awaited)'
  <2>1. /\ UNCHANGED <<sendVars, fromEdge, conn>> /\ Go(c, "lock")
        /\ \E x : job' = [job EXCEPT ![c] = x]
        BY <1>6 DEF create_device, delete_device, update_device_state, Wants
  <2>2. \A t \in Task : at'[t] = "await" => at[t] = "await" /\ job'[t] = job[t]
        BY <2>1 DEF Go, TypeInv
  <2> QED BY <1>1, <2>1, <2>2
<1>7. ASSUME NEW c \in Client, handler_locks(c) PROVE (Ids /\ Awaited)'
  <2>1. /\ send_request(c, job[c].op, job[c].row, job[c].st)
        /\ UNCHANGED <<conn, fromEdge>>
        BY <1>7 DEF handler_locks
  <2> QED BY <2>1, <1>j, SendAwaited, Tasks
<1>8. ASSUME NEW c \in Client, \/ handler_unlocks(c) \/ delete_device_row(c)
                               \/ delete_device_fails(c) \/ client_disconnects(c)
      PROVE  (Ids /\ Awaited)'
  <2>1. \A t \in Task : at'[t] = "await" => at[t] = "await"
        BY <1>8 DEF handler_unlocks, delete_device_row, delete_device_fails,
           client_disconnects, Go, TypeInv
  <2>2. UNCHANGED <<sendVars, fromEdge, conn, job>>
        BY <1>8 DEF handler_unlocks, delete_device_row, delete_device_fails,
           client_disconnects
  <2> QED BY <1>1, <2>1, <2>2
<1>9. CASE reader_routes
  <2> DEFINE h == Head(fromEdge)
  <2>1. fromEdge # <<>> /\ h.kind = "response" /\ fromEdge' = Tail(fromEdge)
        BY <1>9 DEF reader_routes, Head1
  <2>2. h \in FromMsg /\ h.id \in Nat
        BY <2>1, <1>s, Queues, FromTyped
  <2>3. /\ Once(fromEdge', "response") /\ ~Has(fromEdge', "response", h.id)
        BY <2>1, <1>s, OnceTail DEF Ids
  <2>4. \A i : /\ Has(fromEdge', "response", i) => Has(fromEdge, "response", i)
               /\ Has(fromEdge, "response", i) /\ i # h.id => Has(fromEdge', "response", i)
        BY <2>1, <1>s, HasTail
  <2>5. UNCHANGED <<toEdge, nextId, conn, job>> /\ pending' = pending \ {h.id}
        BY <1>9 DEF reader_routes
  <2>6. \A t \in Task : at'[t] = "await" =>
            at[t] = "await" /\ ~(h.id \in pending /\ job[t].id = h.id)
        BY <1>9 DEF reader_routes
  <2> HIDE DEF h
  <2>7. Ids'
        BY <2>3, <2>4, <2>5 DEF Ids
  <2>8. Awaited'
    <3>1. ASSUME NEW t \in Task, at'[t] = "await"
          PROVE  /\ job'[t].id \in pending'
                 /\ conn' = "open" => \/ Has(toEdge', "request", job'[t].id)
                                      \/ Has(fromEdge', "response", job'[t].id)
      <4>1. at[t] = "await" /\ job[t].id \in pending /\ job[t].id # h.id
            BY <3>1, <2>6 DEF Awaited
      <4> QED BY <4>1, <2>4, <2>5 DEF Awaited
    <3> QED BY <3>1 DEF Awaited
  <2> QED BY <2>7, <2>8
<1>10. CASE reader_confirms
  <2> DEFINE h == Head(fromEdge)
             m == [kind |-> "ok", event |-> h.event]
  <2>1. fromEdge # <<>> /\ h.kind = "write" /\ fromEdge' = Tail(fromEdge)
        BY <1>10 DEF reader_confirms, Head1
  <2>2. h \in FromMsg
        BY <2>1, <1>s, Queues
  <2>3. m \in ToMsg /\ m.kind = "ok"
        BY <2>1, <2>2, FromTyped, EventTyped
  <2>4. Once(fromEdge', "response")
        BY <2>1, <1>s, OnceTail DEF Ids
  <2>5. \A i : Has(fromEdge', "response", i) <=> Has(fromEdge, "response", i)
        BY <2>1, <1>s, HasTail
  <2>6. UNCHANGED <<nextId, pending, conn, at, job>>
        /\ (toEdge' = toEdge \/ toEdge' = Append(toEdge, m))
        BY <1>10 DEF reader_confirms
  <2> HIDE DEF m, h
  <2>a. \A i : Has(Append(toEdge, m), "request", i) <=> Has(toEdge, "request", i)
        BY <2>3, <1>s, HasAppend
  <2>7. \A i : Has(toEdge', "request", i) <=> Has(toEdge, "request", i)
        BY <2>6, <2>a
  <2>8. Once(toEdge', "request")
        BY <2>3, <2>6, <1>s, OnceAppend DEF Ids
  <2>9. Ids'
        BY <2>4, <2>5, <2>6, <2>7, <2>8 DEF Ids
  <2>10. Awaited'
         BY <2>5, <2>6, <2>7 DEF Awaited
  <2> QED BY <2>9, <2>10
<1>11. CASE edge_answers
  <2>1. /\ toEdge # <<>> /\ toEdge' = Tail(toEdge)
        /\ UNCHANGED <<nextId, pending, conn, at, job>>
        BY <1>11 DEF edge_answers
  <2>2. \/ Head(toEdge).kind = "request" /\ Answer(Head(toEdge))
        \/ Head(toEdge).kind = "ok" /\ UNCHANGED fromEdge
        BY <1>11 DEF edge_answers
  <2> QED BY <2>1, <2>2, AnswerIds
<1>12. CASE edge_refuses
  <2>1. /\ toEdge # <<>> /\ toEdge' = Tail(toEdge)
        /\ UNCHANGED <<nextId, pending, conn, at, job>>
        BY <1>12 DEF edge_refuses
  <2>2. Head(toEdge).kind = "request" /\ Answer(Head(toEdge))
        BY <1>12 DEF edge_refuses
  <2> QED BY <2>1, <2>2, AnswerIds
<1>13. ASSUME NEW n \in Name, NEW b \in Payload, cloud_writes(n, b) PROVE (Ids /\ Awaited)'
  <2> DEFINE e == [object |-> "LightControl", name |-> n, bytes |-> b]
             m == [kind |-> "write", event |-> e]
  <2>1. e \in Event
        BY KaasPtAssumption DEF Event, Bytes
  <2>2. m \in FromMsg /\ m.kind = "write"
        BY <2>1, EventTyped
  <2>3. fromEdge' = Append(fromEdge, m) /\ UNCHANGED <<toEdge, nextId, pending, conn, at, job>>
        BY <1>13 DEF cloud_writes
  <2> HIDE DEF m
  <2>4. \A i : Has(fromEdge', "response", i) <=> Has(fromEdge, "response", i)
        BY <2>2, <2>3, <1>s, HasAppend
  <2>5. Once(fromEdge', "response")
        BY <2>2, <2>3, <1>s, OnceAppend DEF Ids
  <2>6. Ids'
        BY <2>3, <2>4, <2>5 DEF Ids
  <2>7. Awaited'
        BY <2>3, <2>4 DEF Awaited
  <2> QED BY <2>6, <2>7
<1>14. CASE connection_closes
  <2>1. /\ conn' = "closed" /\ toEdge' = <<>>
        /\ UNCHANGED <<fromEdge, nextId, pending, at, job>>
        BY <1>14 DEF connection_closes
  <2>2. Ids'
        BY <2>1 DEF Ids, Once, Has
  <2>3. Awaited'
        BY <2>1 DEF Awaited
  <2> QED BY <2>2, <2>3
<1>15. CASE process_restarts
  <2>1. toEdge' = <<>> /\ fromEdge' = <<>>
        BY <1>15 DEF process_restarts
  <2>2. \A t \in Task : at'[t] # "await"
        BY <1>15, FreshTyped DEF process_restarts
  <2> QED BY <2>1, <2>2 DEF Ids, Once, Has, Awaited
<1>16. CASE UNCHANGED vars
       BY <1>1, <1>16 DEF vars
<1>17. CASE \/ reader_forwards \/ reader_breaks
            \/ consumer_applies \/ consumer_fails
       BY <1>1, <1>17 DEF reader_forwards, reader_breaks,
          consumer_applies, consumer_fails
<1>18. CASE ensure_pt_connected
  <2>1. /\ UNCHANGED <<toEdge, fromEdge, conn, at, job>>
        /\ nextId' >= nextId /\ pending \subseteq pending'
        /\ nextId \in Nat /\ nextId' \in Nat
        BY <1>18 DEF ensure_pt_connected, TypeInv
  <2>2. Ids'
    <3>1. /\ \A i \in Nat : Has(toEdge, "request", i) => i =< nextId'
          /\ \A i \in Nat : Has(fromEdge, "response", i) => i =< nextId'
          BY <2>1 DEF Ids
    <3> QED BY <2>1, <3>1 DEF Ids
  <2>3. Awaited'
        BY <2>1 DEF Awaited
  <2> QED BY <2>2, <2>3
<1>19. ASSUME NEW c \in Client, Handler(c) PROVE (Ids /\ Awaited)'
       BY <1>6, <1>7, <1>8, <1>19 DEF Handler
<1> QED BY <1>2, <1>3, <1>4, <1>5, <1>9, <1>10, <1>11, <1>12, <1>13, <1>14, <1>15, <1>16,
           <1>17, <1>18, <1>19 DEF Next

AnswerInv == TypeInv /\ Starting /\ Locks /\ Ids /\ Awaited

LEMMA AnswerInvariant ==
    /\ Init => AnswerInv
    /\ AnswerInv /\ [Next]_vars => AnswerInv'
<1>1. ASSUME Init PROVE Locks /\ Ids /\ Awaited
  <2>1. /\ lock = Main /\ \A t \in Task : at[t] = IF t = Main THEN "connect" ELSE "idle"
        /\ toEdge = <<>> /\ fromEdge = <<>>
        BY <1>1, FreshTyped DEF Init
  <2>2. Locks /\ Awaited
        BY <2>1, Tasks DEF Locks, Awaited
  <2>3. Ids
        BY <2>1 DEF Ids, Once, Has
  <2> QED BY <2>2, <2>3
<1> QED BY <1>1, TypeInvInit, TypeInvStep, StartingStep, LocksStep, IdsStep DEF AnswerInv

(* A task that waits for an answer owns the translator, its request is     *)
(* pending, and while the connection lives exactly one message of its id   *)
(* is on the way, whatever clients that hung up have left behind.          *)
THEOREM AnswersArrive == Spec => []AnswerComes
<1>1. AnswerInv => AnswerComes
      BY AnswersFollow DEF AnswerInv
<1> QED BY <1>1, AnswerInvariant, PTL DEF Spec

(* A handler runs while the application serves, and touches no other.      *)
LEMMA HandlerSteps ==
    ASSUME TypeInv, Starting, NEW c \in Client, Handler(c)
    PROVE  /\ Serving /\ Serving'
           /\ \A t \in Task : t # c => at'[t] = at[t] /\ job'[t] = job[t]
           /\ UNCHANGED <<edge, conn, fromEdge, reader, events, todo, again>>
<1> USE DEF readerVars, mainVars
<1>1. Serving
  <2>1. at[c] # "idle" \/ Serving
        BY DEF Handler, create_device, delete_device, update_device_state,
           handler_locks, handler_unlocks, delete_device_row, delete_device_fails,
           client_disconnects, Finished
  <2> QED BY <2>1 DEF Starting
<1>2. UNCHANGED <<edge, conn, fromEdge, reader, events, todo, again>>
      BY DEF Handler, create_device, delete_device, update_device_state, Wants,
         handler_locks, handler_unlocks, delete_device_row, delete_device_fails,
         client_disconnects
<1>3. \E p : at' = [at EXCEPT ![c] = p]
      BY DEF Handler, create_device, delete_device, update_device_state, Wants,
         handler_locks, send_request, handler_unlocks, delete_device_row,
         delete_device_fails, client_disconnects, Go
<1>4. job' = job \/ \E x : job' = [job EXCEPT ![c] = x]
      BY DEF Handler, create_device, delete_device, update_device_state, Wants,
         handler_locks, send_request, handler_unlocks, delete_device_row,
         delete_device_fails, client_disconnects
<1>5. \A t \in Task : t # c => at'[t] = at[t]
      BY <1>3 DEF TypeInv
<1>6. \A t \in Task : t # c => job'[t] = job[t]
      BY <1>4 DEF TypeInv
<1>7. Serving'
      BY <1>1, <1>5, Tasks DEF Serving
<1> QED BY <1>1, <1>2, <1>5, <1>6, <1>7

(* The mutex is free exactly when no handler is between its request and the *)
(* end of it, and main is not starting: a handler that fails or is dropped  *)
(* at any await never leaves it taken, and no two have it.                  *)
MutexHeld ==
    /\ \A c \in Client : lock = c <=> at[c] \in {"await", "answered", "failed"}
    /\ lock = Main <=> ~Serving

LEMMA MutexHeldStep == TypeInv /\ Starting /\ Locks /\ MutexHeld /\ [Next]_vars => MutexHeld'
<1> SUFFICES ASSUME TypeInv, Starting, Locks, MutexHeld, [Next]_vars PROVE MutexHeld'
    OBVIOUS
<1>0. Locks'
      BY LocksStep
<1>1. ASSUME ~Serving' PROVE MutexHeld'
  <2>1. Starting'
        BY StartingStep
  <2> QED BY <1>0, <1>1, <2>1, Tasks DEF MutexHeld, Locks, Starting, Serving
<1>2. ASSUME UNCHANGED <<at, lock>> PROVE MutexHeld'
      BY <1>2 DEF MutexHeld, Serving
<1>3. CASE main_serves
  <2>1. lock' = NoTask /\ Serving' /\ \A c \in Client : at'[c] = at[c]
        BY <1>3, Tasks DEF main_serves, Go, TypeInv, Serving
  <2>2. \A c \in Client : at[c] = "idle"
        BY <1>3 DEF main_serves, Serving, Starting
  <2> QED BY <2>1, <2>2, Tasks DEF MutexHeld
<1>4. CASE \/ connect_and_register \/ initialize_counts \/ initialize_device
           \/ initialize_publishes \/ initialize_next
  <2>1. \E p \in {"await", "failed", "init"} : at' = [at EXCEPT ![Main] = p]
        BY <1>4 DEF connect_and_register, initialize_counts, initialize_device,
           initialize_publishes, initialize_next, register_device, write_device_state,
           send_request, Go
  <2>2. ~Serving'
        BY <2>1, Tasks DEF Serving, TypeInv
  <2> QED BY <1>1, <2>2
<1>5. ASSUME NEW c \in Client, Handler(c) PROVE MutexHeld'
  <2>1. /\ Serving /\ Serving'
        /\ \A t \in Task : t # c => at'[t] = at[t]
        BY <1>5, HandlerSteps
  <2>2. ASSUME UNCHANGED lock, at[c] \notin {"await", "answered", "failed"},
               at'[c] \notin {"await", "answered", "failed"}
        PROVE  MutexHeld'
        BY <2>1, <2>2, Tasks DEF MutexHeld
  <2>3. ASSUME lock' = NoTask, lock = c, at'[c] \notin {"await", "answered", "failed"}
        PROVE  MutexHeld'
        BY <2>1, <2>3, Tasks DEF MutexHeld
  <2>4. ASSUME NEW r \in Row, \/ create_device(c, r) \/ delete_device(c, r)
                              \/ \E s \in Put : update_device_state(c, r, s)
        PROVE  MutexHeld'
    <3>1. at[c] = "idle" /\ at'[c] = "lock" /\ UNCHANGED lock
          BY <2>4, Tasks DEF create_device, delete_device, update_device_state, Wants, Go,
             TypeInv
    <3> QED BY <2>2, <3>1
  <2>5. CASE handler_locks(c)
    <3>1. lock = NoTask /\ lock' = c /\ at'[c] \in {"await", "failed"}
          BY <2>5, Tasks DEF handler_locks, send_request, Go, TypeInv
    <3> QED BY <2>1, <3>1, Tasks DEF MutexHeld
  <2>6. CASE handler_unlocks(c)
    <3>1. /\ at[c] \in {"answered", "failed"} /\ lock' = NoTask
          /\ at'[c] \in {"idle", "delete"}
          BY <2>6, Tasks DEF handler_unlocks, Finished, Go, TypeInv
    <3>2. lock = c
          BY <3>1 DEF Locks
    <3> QED BY <2>3, <3>1, <3>2
  <2>7. CASE delete_device_row(c) \/ delete_device_fails(c)
    <3>1. at[c] = "delete" /\ at'[c] = "idle" /\ UNCHANGED lock
          BY <2>7, Tasks DEF delete_device_row, delete_device_fails, Go, TypeInv
    <3> QED BY <2>2, <3>1
  <2>8. CASE client_disconnects(c)
    <3>1. at'[c] = "idle" /\ lock' = IF lock = c THEN NoTask ELSE lock
          BY <2>8, Tasks DEF client_disconnects, Go, TypeInv
    <3>2. CASE lock = c
          BY <2>3, <3>1, <3>2
    <3>3. CASE lock # c
          BY <2>2, <3>1, <3>3 DEF Locks
    <3> QED BY <3>2, <3>3
  <2> QED BY <1>5, <2>4, <2>5, <2>6, <2>7, <2>8 DEF Handler
<1>6. CASE reader_routes
  <2>1. \A t \in Task : at'[t] = at[t] \/ (at[t] = "await" /\ at'[t] = "answered")
        BY <1>6 DEF reader_routes, TypeInv
  <2>2. Serving' = Serving /\ UNCHANGED lock
        BY <1>6, <2>1, Tasks DEF reader_routes, Serving
  <2> QED BY <2>1, <2>2, Tasks DEF MutexHeld
<1>7. CASE process_restarts
  <2>1. at'[Main] = "connect"
        BY <1>7, FreshTyped, Tasks DEF process_restarts
  <2> QED BY <1>1, <2>1 DEF Serving
<1>8. CASE \/ UNCHANGED vars
           \/ ensure_pt_connected \/ reader_confirms \/ reader_forwards \/ reader_breaks
           \/ consumer_applies \/ consumer_fails \/ edge_answers \/ edge_refuses
           \/ connection_closes
       BY <1>2, <1>8 DEF vars, ensure_pt_connected, reader_confirms, reader_forwards,
          reader_breaks, consumer_applies, consumer_fails, edge_answers, edge_refuses,
          connection_closes
<1>9. ASSUME NEW n \in Name, NEW b \in Payload, cloud_writes(n, b) PROVE MutexHeld'
       BY <1>2, <1>9 DEF cloud_writes
<1> QED BY <1>3, <1>4, <1>5, <1>6, <1>7, <1>8, <1>9 DEF Next

(* No handler waits for a mutex that nobody will free: its owner is a task  *)
(* that still has a request under way, however the others ended.            *)
THEOREM MutexNeverLeft == Spec => []MutexHeld
<1>1. Init => MutexHeld
  <2>1. ASSUME Init
        PROVE  lock = Main /\ \A t \in Task : at[t] = IF t = Main THEN "connect" ELSE "idle"
        BY <2>1, FreshTyped DEF Init
  <2> QED BY <2>1, Tasks DEF MutexHeld, Serving
<1>2. AnswerInv /\ MutexHeld /\ [Next]_vars => MutexHeld'
      BY MutexHeldStep DEF AnswerInv
<1> QED BY <1>1, <1>2, AnswerInvariant, PTL DEF Spec
-----------------------------------------------------------------------------
(* Agreement *)

(* Main has not been answered to the translator's own registration.        *)
Early ==
    \/ at[Main] = "connect"
    \/ at[Main] \in {"await", "answered", "failed"} /\ job[Main].op = "hello"

(* Until then nothing is known to Edge. *)
Quiet == Early =>
    /\ \A n \in Name : edge[n] = NoDevice
    /\ \A k \in DOMAIN toEdge : toEdge[k].kind = "request" /\ toEdge[k].op = "hello"
    /\ \A k \in DOMAIN fromEdge : fromEdge[k].kind = "response"
    /\ reader.at # "forwarding" /\ events = <<>> /\ todo = {}

(* A first start announces rows that it has not inserted; a request fails  *)
(* only over a lost connection.                                            *)
FirstRows == ~again => \A r \in todo : ~Live(r)
Fails == \A t \in Task : at[t] = "failed" => conn # "open"

(* Only a deletion has a row to delete, and main deletes nothing.          *)
Jobs ==
    /\ \A t \in Task : at[t] = "delete" => job[t].op = "device_unregister"
    /\ job[Main].op # "device_unregister"

(* A request on its way is the one its task waits for, or was left behind  *)
(* by a client that hung up.                                               *)
Own(t) == at[t] = "await" =>
    \A k \in DOMAIN toEdge : toEdge[k].kind = "request" /\ toEdge[k].id = job[t].id =>
        /\ toEdge[k].op = job[t].op /\ toEdge[k].name = NameOf[job[t].row]
        /\ toEdge[k].data = create_device_params(job[t].row, job[t].st)
Stale ==
    \A k \in DOMAIN toEdge : toEdge[k].kind = "request" /\ toEdge[k].op # "hello" =>
        \/ toEdge[k].name \in mixed
        \/ \E t \in Task : at[t] = "await" /\ job[t].id = toEdge[k].id
Owners == Stale /\ \A t \in Task : Own(t)

(* Of a name whose activities have not overlapped there is one row at most *)
(* and one task at most works on it.                                       *)
WorksOn(t, n) == /\ at[t] \notin {"idle", "serving", "connect", "init"}
                 /\ job[t].op # "hello" /\ NameOf[job[t].row] = n
OneRow(n) ==
    \A r, x \in Row : Live(r) /\ Live(x) /\ NameOf[r] = n /\ NameOf[x] = n => r = x
Sole(n) == \A t, u \in Task : WorksOn(t, n) /\ WorksOn(u, n) => t = u

(* A row that was found and is not announced is unknown to Edge. *)
Waits(n) == again /\ \E r \in todo : NameOf[r] = n
Apart(n) ==
    /\ Waits(n) => edge[n] = NoDevice /\ ~Busy(n) /\ ~CloudWriting(n)
    /\ Busy(n) => ~CloudWriting(n)

(* What a task has made of its row and of its device. *)
Undone(t) ==
    \/ at[t] = "lock"
    \/ at[t] = "await" /\ Has(toEdge, "request", job[t].id)
ObjectOf(r) == IF KindOf[r] = "light" THEN "LightControl" ELSE "Sensor"
Carries(t, n) == WorksOn(t, n) =>
    /\ Live(job[t].row)
    /\ job[t].op # "device_unregister" => db[job[t].row] = job[t].st
    /\ Undone(t) => /\ (job[t].op = "device_register") = (edge[n] = NoDevice)
                    /\ edge[n] # NoDevice => edge[n].object = ObjectOf(job[t].row)
    /\ ~Undone(t) => edge[n] = IF job[t].op = "device_unregister" THEN NoDevice
                               ELSE create_device_params(job[t].row, job[t].st)

(* Of the messages R in a queue the last is one of V. *)
None(q, R) == \A k \in DOMAIN q : q[k] \notin R
Last(q, R, V) ==
    \E k \in DOMAIN q : q[k] \in V /\ \A j \in DOMAIN q : j > k => q[j] \notin R

OksOn(n) == {m \in ToMsg : m.kind = "ok" /\ m.event.name = n}
OksTo(n, v) == {m \in OksOn(n) : decode(m.event.bytes) = v}
WritesOn(n) == {m \in FromMsg : m.kind = "write" /\ m.event.name = n}
EventsOn(n) == {e \in Event : e.name = n}
EventsTo(n, v) == {e \in EventsOn(n) : decode(e.bytes) = v}

(* What Edge and the database will say of a name when the writes that have *)
(* been confirmed are done: the same.                                      *)
EdgeWill(n, v) ==
    IF None(toEdge, OksOn(n)) THEN Means(edge[n]) = v
    ELSE Last(toEdge, OksOn(n), OksTo(n, v))
RowsSay(n, v) ==
    \A r \in Row : Live(r) /\ NameOf[r] = n => Means(create_device_params(r, db[r])) = v
DbWill(n, v) ==
    IF reader.at = "forwarding" /\ reader.event.name = n
    THEN decode(reader.event.bytes) = v
    ELSE IF None(events, EventsOn(n)) THEN RowsSay(n, v)
         ELSE Last(events, EventsOn(n), EventsTo(n, v))
HasRow(n) == \E r \in Row : Live(r) /\ NameOf[r] = n
Meet(n) == \E v \in JsonState : EdgeWill(n, v) /\ DbWill(n, v)

Settled(n) == ~Early /\ ~Busy(n) /\ ~Waits(n) =>
    /\ HasRow(n) <=> edge[n] # NoDevice
    /\ CloudWriting(n) => edge[n].object = "LightControl"
    /\ \A r \in Row : Live(r) /\ NameOf[r] = n => edge[n].object = ObjectOf(r)
    /\ HasRow(n) => Meet(n)

NameInv(n) ==
    /\ OneRow(n) /\ Sole(n)
    /\ conn = "open" => /\ Apart(n) /\ Settled(n)
                        /\ \A t \in Task : Carries(t, n)

LEMMA LastAppend ==
    ASSUME NEW S, NEW q \in Seq(S), NEW m \in S, NEW R, NEW V, V \subseteq R
    PROVE  /\ None(Append(q, m), R) <=> None(q, R) /\ m \notin R
           /\ m \notin R => (Last(Append(q, m), R, V) <=> Last(q, R, V))
           /\ m \in V => Last(Append(q, m), R, V)
<1>1. /\ DOMAIN Append(q, m) = DOMAIN q \cup {Len(q) + 1}
      /\ Append(q, m)[Len(q) + 1] = m /\ \A k \in DOMAIN q : Append(q, m)[k] = q[k]
      BY Queues
<1>2. Len(q) \in Nat /\ DOMAIN q = 1..Len(q)
      BY Queues
<1>3. \A k \in DOMAIN Append(q, m) : ~(k > Len(q) + 1)
      BY <1>1, <1>2
<1>4. None(Append(q, m), R) <=> None(q, R) /\ m \notin R
      BY <1>1 DEF None
<1>5. ASSUME m \notin R PROVE Last(Append(q, m), R, V) <=> Last(q, R, V)
      BY <1>1, <1>5 DEF Last
<1>6. ASSUME m \in V PROVE Last(Append(q, m), R, V)
      BY <1>1, <1>3, <1>6 DEF Last
<1> QED BY <1>4, <1>5, <1>6

LEMMA LastTail ==
    ASSUME NEW S, NEW q \in Seq(S), q # <<>>, NEW R, NEW V, V \subseteq R
    PROVE  /\ None(q, R) => None(Tail(q), R)
           /\ Head(q) \notin R => (None(q, R) <=> None(Tail(q), R))
           /\ Head(q) \in R => ~None(q, R)
           /\ Last(q, R, V) => Last(Tail(q), R, V) \/ (Head(q) \in V /\ None(Tail(q), R))
<1>1. /\ Head(q) = q[1] /\ 1 \in DOMAIN q
      /\ \A k \in DOMAIN Tail(q) : Tail(q)[k] = q[k + 1] /\ k + 1 \in DOMAIN q
      /\ \A k \in DOMAIN q : k # 1 => k - 1 \in DOMAIN Tail(q)
      BY Queues
<1>2. \A k \in DOMAIN q : k \in Nat /\ k >= 1 /\ (k - 1) + 1 = k
  <2>1. Len(q) \in Nat /\ DOMAIN q = 1..Len(q)
        BY Queues
  <2> QED BY <2>1
<1>3. \A k \in DOMAIN Tail(q) : k \in Nat /\ k >= 1
  <2>1. Tail(q) \in Seq(S)
        BY Queues
  <2>2. DOMAIN Tail(q) = 1..Len(Tail(q)) /\ Len(Tail(q)) \in Nat
        BY <2>1, Queues
  <2> QED BY <2>2
<1>4. None(q, R) => None(Tail(q), R)
      BY <1>1 DEF None
<1>5. ASSUME Head(q) \notin R, None(Tail(q), R) PROVE None(q, R)
  <2>1. ASSUME NEW k \in DOMAIN q, k # 1 PROVE q[k] \notin R
    <3>1. k - 1 \in DOMAIN Tail(q) /\ Tail(q)[k - 1] = q[k]
          BY <1>1, <1>2, <2>1
    <3> QED BY <1>5, <3>1 DEF None
  <2> QED BY <1>1, <1>5, <2>1 DEF None
<1>6. ASSUME Last(q, R, V), ~Last(Tail(q), R, V)
      PROVE  Head(q) \in V /\ None(Tail(q), R)
  <2>1. PICK k \in DOMAIN q : q[k] \in V /\ \A j \in DOMAIN q : j > k => q[j] \notin R
        BY <1>6 DEF Last
  <2>2. \A j \in DOMAIN Tail(q) : j > k - 1 => Tail(q)[j] \notin R
    <3>1. \A j \in DOMAIN Tail(q) : j > k - 1 => j + 1 > k
          BY <1>2, <1>3, <2>1
    <3> QED BY <1>1, <2>1, <3>1
  <2>3. k = 1
    <3>1. ASSUME k # 1 PROVE FALSE
      <4>1. k - 1 \in DOMAIN Tail(q) /\ Tail(q)[k - 1] = q[k]
            BY <1>1, <1>2, <2>1, <3>1
      <4> QED BY <1>6, <2>1, <2>2, <4>1 DEF Last
    <3> QED BY <3>1
  <2>4. \A j \in DOMAIN Tail(q) : j > k - 1
        BY <2>3, <1>3
  <2> QED BY <1>1, <2>1, <2>2, <2>3, <2>4 DEF None
<1>7. Head(q) \in R => ~None(q, R)
      BY <1>1 DEF None
<1>8. Last(q, R, V) => Last(Tail(q), R, V) \/ (Head(q) \in V /\ None(Tail(q), R))
      BY <1>6, Zenon
<1>9. Head(q) \notin R => (None(q, R) <=> None(Tail(q), R))
      BY <1>4, <1>5, Zenon
<1> QED BY <1>4, <1>7, <1>8, <1>9

(* What a request changes of its task and of the others. *)
LEMMA SendTask ==
    ASSUME TypeInv, NEW t \in Task, NEW op, NEW r, NEW s, send_request(t, op, r, s)
    PROVE  /\ at'[t] = IF conn' = "open" THEN "await" ELSE "failed"
           /\ job'[t] = [op |-> op, row |-> r, st |-> s, id |-> nextId + 1]
           /\ \A u \in Task : u # t => at'[u] = at[u] /\ job'[u] = job[u]
           /\ toEdge' = IF conn' = "open"
                        THEN Append(toEdge, [kind |-> "request", id |-> nextId + 1,
                                             op |-> op, name |-> NameOf[r],
                                             data |-> create_device_params(r, s)])
                        ELSE toEdge
BY DEF send_request, Go, TypeInv

LEMMA QuietStep == TypeInv /\ Starting /\ Quiet /\ [Next]_vars => Quiet'
<1> SUFFICES ASSUME TypeInv, Starting, Quiet, [Next]_vars, Early' PROVE
        /\ \A n \in Name : edge'[n] = NoDevice
        /\ \A k \in DOMAIN toEdge' : toEdge'[k].kind = "request" /\ toEdge'[k].op = "hello"
        /\ \A k \in DOMAIN fromEdge' : fromEdge'[k].kind = "response"
        /\ reader'.at # "forwarding" /\ events' = <<>> /\ todo' = {}
    BY DEF Quiet
<1> USE DEF readerVars, mainVars, sendVars
<1>s. toEdge \in Seq(ToMsg) /\ fromEdge \in Seq(FromMsg)
      BY DEF TypeInv
<1>1. ~Serving'
      BY DEF Early, Serving
<1>2. ASSUME Early, UNCHANGED <<edge, toEdge, fromEdge, reader, events, todo>>
      PROVE  /\ \A n \in Name : edge'[n] = NoDevice
             /\ \A k \in DOMAIN toEdge' : toEdge'[k].kind = "request" /\ toEdge'[k].op = "hello"
             /\ \A k \in DOMAIN fromEdge' : fromEdge'[k].kind = "response"
             /\ reader'.at # "forwarding" /\ events' = <<>> /\ todo' = {}
      BY <1>2 DEF Quiet
<1>3. ASSUME UNCHANGED <<at, job>> PROVE Early
      BY <1>3 DEF Early
<1>4. CASE connect_and_register
  <2>1. /\ Early /\ send_request(Main, "hello", NoJob.row, NoJob.st)
        BY <1>4 DEF connect_and_register, Early
  <2> DEFINE m == [kind |-> "request", id |-> nextId + 1, op |-> "hello",
                   name |-> NameOf[NoJob.row],
                   data |-> create_device_params(NoJob.row, NoJob.st)]
  <2>2. toEdge' = toEdge \/ toEdge' = Append(toEdge, m)
        BY <2>1 DEF send_request
  <2>3. m.kind = "request" /\ m.op = "hello"
        OBVIOUS
  <2>4. m \in ToMsg
        BY ParamsTyped, FreshTyped, <1>s DEF ToMsg, Name, Op, TypeInv
  <2> HIDE DEF m
  <2>5. /\ DOMAIN Append(toEdge, m) = DOMAIN toEdge \cup {Len(toEdge) + 1}
        /\ Append(toEdge, m)[Len(toEdge) + 1] = m
        /\ \A k \in DOMAIN toEdge : Append(toEdge, m)[k] = toEdge[k]
        BY <2>4, <1>s, Queues
  <2>6. \A k \in DOMAIN toEdge' : toEdge'[k].kind = "request" /\ toEdge'[k].op = "hello"
        BY <2>1, <2>2, <2>3, <2>5 DEF Quiet
  <2> QED BY <1>4, <2>1, <2>6 DEF connect_and_register, Quiet
<1>5. CASE initialize_counts \/ initialize_next \/ main_serves
  <2>1. at'[Main] \in {"init", "serving"}
        BY <1>5, Tasks DEF initialize_counts, initialize_next, main_serves, Go, TypeInv
  <2> QED BY <2>1 DEF Early
<1>6. CASE initialize_device \/ initialize_publishes
  <2>1. ASSUME NEW op \in Op, NEW r, NEW st, op # "hello", send_request(Main, op, r, st)
        PROVE  at'[Main] \in {"await", "failed"} /\ job'[Main].op # "hello"
        BY <2>1, Tasks DEF send_request, Go, TypeInv
  <2>2. at'[Main] \in {"await", "failed"} /\ job'[Main].op # "hello"
        BY <1>6, <2>1 DEF initialize_device, initialize_publishes, register_device,
           write_device_state, Op
  <2> QED BY <2>2 DEF Early
<1>7. ASSUME NEW c \in Client, Handler(c) PROVE FALSE
      BY <1>1, <1>7, HandlerSteps
<1>8. CASE reader_routes
  <2>1. Early
    <3>1. job' = job /\ (at'[Main] = at[Main] \/ (at[Main] = "await" /\ at'[Main] = "answered"))
          BY <1>8, Tasks DEF reader_routes
    <3> QED BY <3>1 DEF Early
  <2>2. fromEdge # <<>> /\ fromEdge' = Tail(fromEdge)
        BY <1>8 DEF reader_routes, Head1
  <2>3. \A k \in DOMAIN fromEdge' : fromEdge'[k].kind = "response"
        BY <1>s, <2>1, <2>2, Queues DEF Quiet
  <2> QED BY <1>8, <2>1, <2>3 DEF reader_routes, Quiet
<1>9. CASE reader_confirms
  <2>1. Early /\ fromEdge # <<>> /\ Head(fromEdge).kind = "write"
        BY <1>9, <1>3 DEF reader_confirms, Head1
  <2>2. 1 \in DOMAIN fromEdge /\ Head(fromEdge) = fromEdge[1]
        BY <1>s, <2>1, Queues
  <2> QED BY <2>1, <2>2 DEF Quiet
<1>10. CASE reader_forwards
       BY <1>10, <1>3 DEF reader_forwards, Quiet
<1>11. CASE reader_breaks
       BY <1>11, <1>3 DEF reader_breaks, Quiet
<1>12. CASE consumer_applies \/ consumer_fails
       BY <1>12, <1>1 DEF consumer_applies, consumer_fails, Serving
<1>13. CASE edge_answers \/ edge_refuses
  <2> DEFINE h == Head(toEdge)
             m == [kind |-> "response", id |-> h.id]
  <2>1. /\ Early /\ toEdge # <<>> /\ toEdge' = Tail(toEdge)
        /\ UNCHANGED <<reader, events, todo>>
        BY <1>13, <1>3 DEF edge_answers, edge_refuses
  <2>2. 1 \in DOMAIN toEdge /\ h = toEdge[1] /\ h \in ToMsg
        BY <1>s, <2>1, Queues
  <2>3. h.kind = "request" /\ h.op = "hello"
        BY <2>1, <2>2 DEF Quiet
  <2>4. edge' = edge /\ fromEdge' = Append(fromEdge, m)
        BY <1>13, <2>3 DEF edge_answers, edge_refuses, Answer
  <2>5. \A k \in DOMAIN toEdge' : toEdge'[k].kind = "request" /\ toEdge'[k].op = "hello"
        BY <1>s, <2>1, Queues DEF Quiet
  <2>6. m \in FromMsg /\ m.kind = "response"
        BY <2>2, <2>3, ToTyped, ResponseTyped
  <2> HIDE DEF m, h
  <2>7. /\ DOMAIN Append(fromEdge, m) = DOMAIN fromEdge \cup {Len(fromEdge) + 1}
        /\ Append(fromEdge, m)[Len(fromEdge) + 1] = m
        /\ \A k \in DOMAIN fromEdge : Append(fromEdge, m)[k] = fromEdge[k]
        BY <2>6, <1>s, Queues
  <2>8. \A k \in DOMAIN fromEdge' : fromEdge'[k].kind = "response"
        BY <2>1, <2>4, <2>6, <2>7 DEF Quiet
  <2> QED BY <2>1, <2>4, <2>5, <2>8 DEF Quiet
<1>14. ASSUME NEW n \in Name, NEW b \in Payload, cloud_writes(n, b) PROVE FALSE
  <2>1. Early /\ edge[n].object = "LightControl"
        BY <1>14, <1>3 DEF cloud_writes
  <2> QED BY <2>1 DEF Quiet, NoDevice
<1>15. CASE connection_closes
  <2>1. Early /\ toEdge' = <<>> /\ edge' = [n \in Name |-> NoDevice]
        /\ UNCHANGED <<fromEdge, reader, events, todo>>
        BY <1>15, <1>3 DEF connection_closes
  <2> QED BY <2>1 DEF Quiet
<1>16. CASE process_restarts
       BY <1>16, FreshTyped DEF process_restarts
<1>17. CASE ensure_pt_connected \/ UNCHANGED vars
       BY <1>17, <1>2, <1>3 DEF ensure_pt_connected, vars
<1> QED BY <1>4, <1>5, <1>6, <1>7, <1>8, <1>9, <1>10, <1>11, <1>12, <1>13, <1>14, <1>15,
           <1>16, <1>17 DEF Next

LEMMA AnnouncedTyped ==
    ASSUME TypeInv, Starting, NEW r \in todo,
           db' = IF again THEN db ELSE [db EXCEPT ![r] = Default[r]]
    PROVE  r \in Row /\ db'[r] \in JsonState
<1>1. CASE again
      BY <1>1 DEF TypeInv, Starting, Live
<1>2. CASE ~again
      BY <1>2, States DEF TypeInv, Starting
<1> QED BY <1>1, <1>2

LEMMA FirstRowsStep == TypeInv /\ Starting /\ FirstRows /\ [Next]_vars => FirstRows'
<1> SUFFICES ASSUME TypeInv, Starting, FirstRows, [Next]_vars PROVE FirstRows'
    OBVIOUS
<1> USE DEF mainVars
<1>1. ASSUME UNCHANGED <<db, todo, again>> PROVE FirstRows'
      BY <1>1 DEF FirstRows, Live
<1>2. ASSUME todo' = {} PROVE FirstRows'
      BY <1>2 DEF FirstRows
<1>3. CASE initialize_counts
  <2>1. UNCHANGED db /\ (~again' => \A r \in Row : ~Live(r))
        BY <1>3 DEF initialize_counts
  <2>2. ~again' => todo' \subseteq Row
        BY <1>3, KaasPtAssumption DEF initialize_counts
  <2> QED BY <2>1, <2>2 DEF FirstRows, Live
<1>4. CASE initialize_device
  <2>1. PICK r \in todo : /\ db' = IF again THEN db ELSE [db EXCEPT ![r] = Default[r]]
                          /\ todo' = todo \ {r} /\ UNCHANGED again
        BY <1>4 DEF initialize_device
  <2>2. \A x \in todo' : x \in Row /\ x # r /\ x \in todo
        BY <2>1 DEF TypeInv
  <2>3. \A x \in todo' : db'[x] = db[x]
        BY <2>1, <2>2 DEF TypeInv
  <2> QED BY <2>1, <2>2, <2>3 DEF FirstRows, Live
<1>5. ASSUME NEW c \in Client, Handler(c) PROVE FirstRows'
      BY <1>2, <1>5, HandlerSteps DEF Starting
<1>6. CASE consumer_applies
      BY <1>2, <1>6 DEF consumer_applies, Starting
<1>7. CASE process_restarts
      BY <1>2, <1>7 DEF process_restarts
<1>8. CASE \/ connect_and_register \/ ensure_pt_connected \/ initialize_publishes
           \/ initialize_next \/ main_serves \/ reader_routes \/ reader_confirms
           \/ reader_forwards \/ reader_breaks \/ consumer_fails \/ edge_answers
           \/ edge_refuses \/ connection_closes \/ UNCHANGED vars
      BY <1>1, <1>8 DEF connect_and_register, ensure_pt_connected, initialize_publishes,
         initialize_next, main_serves, reader_routes, reader_confirms, reader_forwards,
         reader_breaks, consumer_fails, edge_answers, edge_refuses, connection_closes, vars
<1>9. ASSUME NEW n \in Name, NEW b \in Payload, cloud_writes(n, b) PROVE FirstRows'
      BY <1>1, <1>9 DEF cloud_writes
<1> QED BY <1>3, <1>4, <1>5, <1>6, <1>7, <1>8, <1>9 DEF Next

LEMMA FailsStep == TypeInv /\ Starting /\ Fails /\ [Next]_vars => Fails'
<1> SUFFICES ASSUME TypeInv, Starting, Fails, [Next]_vars PROVE Fails'
    OBVIOUS
<1>1. ASSUME conn' = "open" => conn = "open",
             \A t \in Task : at'[t] = "failed" => at[t] = "failed"
      PROVE  Fails'
      BY <1>1 DEF Fails
<1>2. ASSUME NEW t \in Task, NEW op, NEW r, NEW s, send_request(t, op, r, s), UNCHANGED conn
      PROVE  Fails'
  <2>1. /\ at'[t] = IF conn' = "open" THEN "await" ELSE "failed"
        /\ \A u \in Task : u # t => at'[u] = at[u]
        BY <1>2 DEF send_request, Go, TypeInv
  <2> QED BY <1>2, <2>1 DEF Fails
<1>3. CASE connect_and_register
  <2>1. /\ at'[Main] = IF conn' = "open" THEN "await" ELSE "failed"
        /\ \A u \in Task : u # Main => at'[u] = at[u]
        BY <1>3, Tasks DEF connect_and_register, send_request, Go, TypeInv
  <2>2. conn' = "open" /\ \A c \in Client : at[c] = "idle"
        BY <1>3 DEF connect_and_register, Starting, Serving
  <2> QED BY <2>1, <2>2, Tasks DEF Fails
<1>4. CASE initialize_device
      BY <1>2, <1>4, Tasks DEF initialize_device, register_device
<1>5. CASE initialize_publishes
      BY <1>2, <1>5, Tasks DEF initialize_publishes, write_device_state
<1>6. CASE initialize_counts \/ initialize_next \/ main_serves
  <2>1. UNCHANGED conn
        BY <1>6 DEF initialize_counts, initialize_next, main_serves
  <2>2. \A t \in Task : at'[t] = "failed" => at[t] = "failed"
        BY <1>6 DEF initialize_counts, initialize_next, main_serves, Go, TypeInv
  <2> QED BY <1>1, <2>1, <2>2
<1>7. ASSUME NEW c \in Client, Handler(c) PROVE Fails'
  <2>1. CASE handler_locks(c)
        BY <1>2, <2>1, Tasks DEF handler_locks
  <2>2. CASE \/ handler_unlocks(c) \/ delete_device_row(c)
             \/ delete_device_fails(c) \/ client_disconnects(c)
    <3>1. UNCHANGED conn
          BY <1>7, HandlerSteps
    <3>2. \A t \in Task : at'[t] = "failed" => at[t] = "failed"
          BY <2>2 DEF handler_unlocks, delete_device_row, delete_device_fails,
             client_disconnects, Go, TypeInv
    <3> QED BY <1>1, <3>1, <3>2
  <2>3. ASSUME NEW r \in Row, \/ create_device(c, r) \/ delete_device(c, r)
                              \/ \E s \in Put : update_device_state(c, r, s)
        PROVE  Fails'
    <3>1. UNCHANGED conn
          BY <1>7, HandlerSteps
    <3>2. \A t \in Task : at'[t] = "failed" => at[t] = "failed"
          BY <2>3 DEF create_device, delete_device, update_device_state, Wants, Go, TypeInv
    <3> QED BY <1>1, <3>1, <3>2
  <2> QED BY <1>7, <2>1, <2>2, <2>3 DEF Handler
<1>8. CASE reader_routes
  <2>1. UNCHANGED conn /\ \A t \in Task : at'[t] = "failed" => at[t] = "failed"
        BY <1>8 DEF reader_routes
  <2> QED BY <1>1, <2>1
<1>9. CASE process_restarts
      BY <1>9, FreshTyped DEF process_restarts, Fails
<1>10. CASE \/ ensure_pt_connected \/ reader_confirms \/ reader_forwards \/ reader_breaks
            \/ consumer_applies \/ consumer_fails \/ edge_answers \/ edge_refuses
            \/ connection_closes \/ UNCHANGED vars
       BY <1>1, <1>10 DEF ensure_pt_connected, reader_confirms, reader_forwards,
          reader_breaks, consumer_applies, consumer_fails, edge_answers, edge_refuses,
          connection_closes, vars
<1>11. ASSUME NEW n \in Name, NEW b \in Payload, cloud_writes(n, b) PROVE Fails'
       BY <1>1, <1>11 DEF cloud_writes
<1> QED BY <1>3, <1>4, <1>5, <1>6, <1>7, <1>8, <1>9, <1>10, <1>11 DEF Next

LEMMA JobsStep == TypeInv /\ Starting /\ Jobs /\ [Next]_vars => Jobs'
<1> SUFFICES ASSUME TypeInv, Starting, Jobs, [Next]_vars PROVE Jobs'
    OBVIOUS
<1>1. ASSUME job' = job, \A t \in Task : at'[t] = "delete" => at[t] = "delete" PROVE Jobs'
      BY <1>1 DEF Jobs
<1>2. ASSUME NEW op \in Op, NEW r, NEW s, op # "device_unregister",
             send_request(Main, op, r, s)
      PROVE  Jobs'
      BY <1>2, Tasks DEF send_request, Go, TypeInv, Jobs
<1>3. CASE connect_and_register \/ initialize_device \/ initialize_publishes
      BY <1>2, <1>3 DEF connect_and_register, initialize_device, register_device,
         initialize_publishes, write_device_state, Op
<1>4. CASE initialize_counts \/ initialize_next \/ main_serves
  <2>1. job' = job /\ \A t \in Task : at'[t] = "delete" => at[t] = "delete"
        BY <1>4 DEF initialize_counts, initialize_next, main_serves, Go, TypeInv
  <2> QED BY <1>1, <2>1
<1>5. ASSUME NEW c \in Client, Handler(c) PROVE Jobs'
  <2>1. /\ \A t \in Task : t # c => at'[t] = at[t] /\ job'[t] = job[t]
        /\ Main # c /\ c \in Task
        BY <1>5, HandlerSteps, Tasks
  <2>2. ASSUME at'[c] = "delete" PROVE job'[c].op = "device_unregister"
    <3>1. CASE handler_unlocks(c)
          BY <2>1, <2>2, <3>1 DEF handler_unlocks, Go, TypeInv
    <3>2. CASE delete_device_row(c) \/ delete_device_fails(c) \/ client_disconnects(c)
          BY <2>1, <2>2, <3>2 DEF delete_device_row, delete_device_fails,
             client_disconnects, Go, TypeInv
    <3>3. CASE handler_locks(c)
          BY <2>1, <2>2, <3>3 DEF handler_locks, send_request, Go, TypeInv
    <3>4. ASSUME NEW r \in Row, \/ create_device(c, r) \/ delete_device(c, r)
                                \/ \E s \in Put : update_device_state(c, r, s)
          PROVE  FALSE
          BY <2>1, <2>2, <3>4 DEF create_device, delete_device, update_device_state, Wants,
             Go, TypeInv
    <3> QED BY <1>5, <3>1, <3>2, <3>3, <3>4 DEF Handler
  <2> QED BY <2>1, <2>2, Tasks DEF Jobs
<1>6. CASE reader_routes
  <2>1. job' = job /\ \A t \in Task : at'[t] = "delete" => at[t] = "delete"
        BY <1>6 DEF reader_routes
  <2> QED BY <1>1, <2>1
<1>7. CASE process_restarts
      BY <1>7, FreshTyped, Tasks DEF process_restarts, Jobs, NoJob
<1>8. CASE \/ ensure_pt_connected \/ reader_confirms \/ reader_forwards \/ reader_breaks
           \/ consumer_applies \/ consumer_fails \/ edge_answers \/ edge_refuses
           \/ connection_closes \/ UNCHANGED vars
      BY <1>1, <1>8 DEF ensure_pt_connected, reader_confirms, reader_forwards,
         reader_breaks, consumer_applies, consumer_fails, edge_answers, edge_refuses,
         connection_closes, vars
<1>9. ASSUME NEW n \in Name, NEW b \in Payload, cloud_writes(n, b) PROVE Jobs'
      BY <1>1, <1>9 DEF cloud_writes
<1> QED BY <1>3, <1>4, <1>5, <1>6, <1>7, <1>8, <1>9 DEF Next

LEMMA OwnersKept ==
    ASSUME Owners, UNCHANGED toEdge, mixed \subseteq mixed',
           \A t \in Task : at'[t] = "await" <=> at[t] = "await",
           \A t \in Task : at[t] = "await" => job'[t] = job[t]
    PROVE  Owners'
BY DEF Owners, Own, Stale

LEMMA SendOwners ==
    ASSUME TypeInv, Ids, Awaited, Owners, mixed \subseteq mixed',
           NEW t \in Task, NEW op \in Op, NEW r \in Row, NEW s \in JsonState,
           send_request(t, op, r, s), at[t] # "await"
    PROVE  Owners'
<1> DEFINE m == [kind |-> "request", id |-> nextId + 1, op |-> op, name |-> NameOf[r],
                 data |-> create_device_params(r, s)]
<1>1. /\ at'[t] = IF conn' = "open" THEN "await" ELSE "failed"
      /\ job'[t] = [op |-> op, row |-> r, st |-> s, id |-> nextId + 1]
      /\ \A u \in Task : u # t => at'[u] = at[u] /\ job'[u] = job[u]
      /\ toEdge' = IF conn' = "open" THEN Append(toEdge, m) ELSE toEdge
      BY DEF send_request, Go, TypeInv
<1>2. m \in ToMsg
      BY ParamsTyped DEF ToMsg, Name, TypeInv
<1>3. /\ m.kind = "request" /\ m.id = nextId + 1 /\ m.op = op /\ m.name = NameOf[r]
      /\ m.data = create_device_params(r, s)
      OBVIOUS
<1> HIDE DEF m
<1>4. toEdge \in Seq(ToMsg) /\ nextId \in Nat
      BY DEF TypeInv
<1>5. /\ DOMAIN Append(toEdge, m) = DOMAIN toEdge \cup {Len(toEdge) + 1}
      /\ Append(toEdge, m)[Len(toEdge) + 1] = m
      /\ \A k \in DOMAIN toEdge : Append(toEdge, m)[k] = toEdge[k]
      BY <1>2, <1>4, Queues
<1>6. \A k \in DOMAIN toEdge' :
            \/ k \in DOMAIN toEdge /\ toEdge'[k] = toEdge[k]
            \/ conn' = "open" /\ toEdge'[k] = m
      BY <1>1, <1>5
<1>7. \A k \in DOMAIN toEdge : toEdge[k].kind = "request" => toEdge[k].id # nextId + 1
  <2>1. ASSUME NEW k \in DOMAIN toEdge, toEdge[k].kind = "request", toEdge[k].id = nextId + 1
        PROVE  FALSE
    <3>1. Has(toEdge, "request", nextId + 1) /\ nextId + 1 \in Nat
          BY <2>1, <1>4 DEF Has
    <3> QED BY <3>1, <1>4 DEF Ids
  <2> QED BY <2>1
<1>8. \A u \in Task : at[u] = "await" => job[u].id # nextId + 1
      BY <1>4 DEF Awaited, TypeInv
<1>9. ASSUME NEW u \in Task PROVE Own(u)'
  <2>1. CASE u = t
        BY <2>1, <1>1, <1>3, <1>6, <1>7 DEF Own
  <2>2. CASE u # t
    <3>1. at'[u] = at[u] /\ job'[u] = job[u]
          BY <1>1, <2>2
    <3>2. at[u] = "await" => job[u].id # m.id
          BY <1>3, <1>8
    <3> QED BY <3>1, <3>2, <1>6 DEF Own, Owners
  <2> QED BY <2>1, <2>2
<1>10. Stale'
  <2>1. ASSUME NEW k \in DOMAIN toEdge', toEdge'[k].kind = "request", toEdge'[k].op # "hello"
        PROVE  \/ toEdge'[k].name \in mixed'
               \/ \E u \in Task : at'[u] = "await" /\ job'[u].id = toEdge'[k].id
    <3>1. CASE k \in DOMAIN toEdge /\ toEdge'[k] = toEdge[k]
      <4>1. \/ toEdge[k].name \in mixed
            \/ \E u \in Task : at[u] = "await" /\ job[u].id = toEdge[k].id
            BY <2>1, <3>1 DEF Owners, Stale
      <4> QED BY <3>1, <4>1, <1>1
    <3>2. CASE conn' = "open" /\ toEdge'[k] = m
          BY <3>2, <1>1, <1>3
    <3> QED BY <3>1, <3>2, <1>6
  <2> QED BY <2>1 DEF Stale
<1> QED BY <1>9, <1>10 DEF Owners

LEMMA OwnersStep ==
    TypeInv /\ Starting /\ Ids /\ Awaited /\ Owners /\ [Next]_vars => Owners'
<1> SUFFICES ASSUME TypeInv, Starting, Ids, Awaited, Owners, [Next]_vars PROVE Owners'
    OBVIOUS
<1> USE DEF readerVars, mainVars, sendVars
<1>p. "hello" \in Op /\ "device_register" \in Op /\ "write" \in Op
      BY DEF Op
<1>j. \A t \in Task : job[t] \in Job /\ job[t].row \in Row /\ job[t].st \in JsonState
                      /\ job[t].op \in Op /\ job[t].id \in Nat
      BY DEF TypeInv, Job
<1>s. toEdge \in Seq(ToMsg) /\ fromEdge \in Seq(FromMsg)
      BY DEF TypeInv
<1>1. CASE connect_and_register
  <2>1. /\ send_request(Main, "hello", NoJob.row, NoJob.st) /\ UNCHANGED mixed
        /\ at[Main] # "await"
        BY <1>1 DEF connect_and_register
  <2> QED BY <2>1, <1>p, FreshTyped, Tasks, SendOwners
<1>2. CASE initialize_device
  <2>1. PICK r \in todo : /\ db' = IF again THEN db ELSE [db EXCEPT ![r] = Default[r]]
                          /\ register_device(Main, r, db'[r])
                          /\ mixed \subseteq mixed'
        BY <1>2 DEF initialize_device
  <2>2. send_request(Main, "device_register", r, db'[r]) /\ at[Main] # "await"
        BY <1>2, <2>1 DEF initialize_device, register_device
  <2>3. r \in Row /\ db'[r] \in JsonState
        BY <2>1, AnnouncedTyped
  <2> QED BY <2>1, <2>2, <2>3, <1>p, Tasks, SendOwners
<1>3. CASE initialize_publishes
  <2>1. /\ send_request(Main, "write", job[Main].row, job[Main].st)
        /\ UNCHANGED mixed /\ at[Main] # "await"
        BY <1>3 DEF initialize_publishes, write_device_state
  <2> QED BY <2>1, <1>p, <1>j, Tasks, SendOwners
<1>4. CASE initialize_counts \/ initialize_next \/ main_serves
  <2>1. UNCHANGED <<toEdge, mixed, job>>
        BY <1>4 DEF initialize_counts, initialize_next, main_serves
  <2>2. \A t \in Task : at'[t] = "await" <=> at[t] = "await"
        BY <1>4 DEF initialize_counts, initialize_next, main_serves, Finished, Go, TypeInv
  <2> QED BY <2>1, <2>2, OwnersKept
<1>5. ASSUME NEW c \in Client, Handler(c) PROVE Owners'
  <2>1. CASE handler_locks(c)
    <3>1. /\ send_request(c, job[c].op, job[c].row, job[c].st)
          /\ UNCHANGED mixed /\ at[c] # "await"
          BY <2>1 DEF handler_locks
    <3> QED BY <3>1, <1>j, Tasks, SendOwners
  <2>2. CASE handler_unlocks(c) \/ delete_device_row(c) \/ delete_device_fails(c)
    <3>1. UNCHANGED <<toEdge, job>> /\ mixed \subseteq mixed'
          BY <2>2 DEF handler_unlocks, delete_device_row, delete_device_fails, Mixes
    <3>2. \A t \in Task : at'[t] = "await" <=> at[t] = "await"
          BY <2>2 DEF handler_unlocks, delete_device_row, delete_device_fails, Finished, Go,
             TypeInv
    <3> QED BY <3>1, <3>2, OwnersKept
  <2>3. CASE client_disconnects(c)
    <3>1. UNCHANGED <<toEdge, job>> /\ mixed' = mixed \cup {NameOf[job[c].row]}
          BY <2>3 DEF client_disconnects, Mixes
    <3>2. at'[c] = "idle" /\ \A t \in Task : t # c => at'[t] = at[t]
          BY <2>3, Tasks DEF client_disconnects, Go, TypeInv
    <3>3. ASSUME NEW t \in Task PROVE Own(t)'
          BY <3>1, <3>2 DEF Own, Owners
    <3>4. Stale'
      <4>1. ASSUME NEW k \in DOMAIN toEdge, toEdge[k].kind = "request",
                   toEdge[k].op # "hello", toEdge[k].name \notin mixed'
            PROVE  \E t \in Task : at'[t] = "await" /\ job[t].id = toEdge[k].id
        <5>1. PICK t \in Task : at[t] = "await" /\ job[t].id = toEdge[k].id
              BY <3>1, <4>1 DEF Owners, Stale
        <5>2. toEdge[k].name = NameOf[job[t].row]
              BY <4>1, <5>1 DEF Owners, Own
        <5>3. t # c
              BY <3>1, <4>1, <5>2
        <5> QED BY <5>1, <5>3, <3>2
      <4> QED BY <3>1, <4>1 DEF Stale
    <3> QED BY <3>3, <3>4 DEF Owners
  <2>4. ASSUME NEW r \in Row, \/ create_device(c, r) \/ delete_device(c, r)
                              \/ \E s \in Put : update_device_state(c, r, s)
        PROVE  Owners'
    <3>1. UNCHANGED toEdge /\ mixed \subseteq mixed' /\ at[c] = "idle" /\ Go(c, "lock")
          BY <2>4 DEF create_device, delete_device, update_device_state, Wants, MixesIf
    <3>2. \A t \in Task : at'[t] = "await" <=> at[t] = "await"
          BY <3>1 DEF Go, TypeInv
    <3>3. \A t \in Task : at[t] = "await" => job'[t] = job[t]
          BY <3>1, <1>5, HandlerSteps
    <3> QED BY <3>1, <3>2, <3>3, OwnersKept
  <2> QED BY <1>5, <2>1, <2>2, <2>3, <2>4 DEF Handler
<1>6. CASE reader_routes
  <2> DEFINE i == Head(fromEdge).id
  <2>1. /\ fromEdge # <<>> /\ Head(fromEdge).kind = "response"
        /\ UNCHANGED <<toEdge, mixed, job>>
        BY <1>6 DEF reader_routes, Head1
  <2>2. \A t \in Task : at'[t] = at[t] \/ (at'[t] = "answered" /\ job[t].id = i)
        BY <1>6 DEF reader_routes
  <2>3. Head(fromEdge) \in FromMsg /\ 1 \in DOMAIN fromEdge /\ Head(fromEdge) = fromEdge[1]
        BY <2>1, <1>s, Queues
  <2>4. i \in Nat /\ Has(fromEdge, "response", i)
        BY <2>1, <2>3, FromTyped DEF Has
  <2> HIDE DEF i
  <2>5. ~Has(toEdge, "request", i)
        BY <2>4 DEF Ids
  <2>6. ASSUME NEW t \in Task PROVE Own(t)'
        BY <2>1, <2>2 DEF Own, Owners
  <2>7. Stale'
    <3>1. ASSUME NEW k \in DOMAIN toEdge, toEdge[k].kind = "request",
                 toEdge[k].op # "hello", toEdge[k].name \notin mixed
          PROVE  \E t \in Task : at'[t] = "await" /\ job[t].id = toEdge[k].id
      <4>1. PICK t \in Task : at[t] = "await" /\ job[t].id = toEdge[k].id
            BY <3>1 DEF Owners, Stale
      <4>2. toEdge[k].id # i
            BY <3>1, <2>5 DEF Has
      <4> QED BY <4>1, <4>2, <2>2
    <3> QED BY <2>1, <3>1 DEF Stale
  <2> QED BY <2>6, <2>7 DEF Owners
<1>7. CASE reader_confirms
  <2> DEFINE h == Head(fromEdge)
             m == [kind |-> "ok", event |-> h.event]
  <2>1. fromEdge # <<>> /\ h.kind = "write" /\ UNCHANGED <<mixed, at, job>>
        BY <1>7 DEF reader_confirms, Head1
  <2>2. h \in FromMsg
        BY <2>1, <1>s, Queues
  <2>3. m \in ToMsg /\ m.kind = "ok"
        BY <2>1, <2>2, FromTyped, EventTyped
  <2>4. toEdge' = toEdge \/ toEdge' = Append(toEdge, m)
        BY <1>7 DEF reader_confirms
  <2> HIDE DEF m, h
  <2>5. /\ DOMAIN Append(toEdge, m) = DOMAIN toEdge \cup {Len(toEdge) + 1}
        /\ Append(toEdge, m)[Len(toEdge) + 1] = m
        /\ \A k \in DOMAIN toEdge : Append(toEdge, m)[k] = toEdge[k]
        BY <2>3, <1>s, Queues
  <2>6. \A k \in DOMAIN toEdge' : toEdge'[k].kind = "request" =>
            k \in DOMAIN toEdge /\ toEdge'[k] = toEdge[k]
        BY <2>3, <2>4, <2>5
  <2> QED BY <2>1, <2>6 DEF Owners, Own, Stale
<1>8. CASE edge_answers \/ edge_refuses
  <2>1. /\ toEdge # <<>> /\ toEdge' = Tail(toEdge) /\ UNCHANGED <<at, job>>
        BY <1>8 DEF edge_answers, edge_refuses
  <2>2. mixed \subseteq mixed'
        BY <1>8 DEF edge_answers, edge_refuses, TypeInv
  <2>3. \A k \in DOMAIN toEdge' : k + 1 \in DOMAIN toEdge /\ toEdge'[k] = toEdge[k + 1]
        BY <2>1, <1>s, Queues
  <2>4. ASSUME NEW t \in Task PROVE Own(t)'
        BY <2>1, <2>3 DEF Own, Owners
  <2>5. Stale'
        BY <2>1, <2>2, <2>3 DEF Stale, Owners
  <2> QED BY <2>4, <2>5 DEF Owners
<1>9. CASE connection_closes
      BY <1>9 DEF connection_closes, Owners, Own, Stale
<1>10. CASE process_restarts
       BY <1>10 DEF process_restarts, Owners, Own, Stale
<1>11. CASE \/ ensure_pt_connected \/ reader_forwards \/ reader_breaks
            \/ consumer_applies \/ consumer_fails \/ UNCHANGED vars
  <2>1. UNCHANGED <<toEdge, at, job>> /\ mixed \subseteq mixed'
        BY <1>11 DEF ensure_pt_connected, reader_forwards, reader_breaks,
          consumer_applies, consumer_fails, Mixes, MixesIf, vars
  <2> QED BY <2>1, OwnersKept
<1>12. ASSUME NEW n \in Name, NEW b \in Payload, cloud_writes(n, b) PROVE Owners'
  <2>1. UNCHANGED <<toEdge, at, job>> /\ mixed \subseteq mixed'
        BY <1>12 DEF cloud_writes, MixesIf
  <2> QED BY <2>1, OwnersKept
<1> QED BY <1>1, <1>2, <1>3, <1>4, <1>5, <1>6, <1>7, <1>8, <1>9, <1>10, <1>11, <1>12
        DEF Next

(* What is sent of a row and what it means. *)
LEMMA ParamsMean ==
    ASSUME NEW r \in Row, NEW s \in JsonState
    PROVE  /\ create_device_params(r, s).object = ObjectOf(r)
           /\ create_device_params(r, s) # NoDevice
           /\ Means(create_device_params(r, s)) \in JsonState
           /\ ObjectOf(r) = "LightControl" /\ s \in {"on", "off"}
              => Means(create_device_params(r, s)) = s
<1> DEFINE m == map_device_type_to_lwm2m(KindOf[r], s)
<1>1. create_device_params(r, s) = [object |-> m.object, bytes |-> encode_value(m.value)]
      BY DEF create_device_params
<1>2. KindOf[r] \in {"light", "sensor"}
      BY States
<1>3. m.object = ObjectOf(r) /\ ObjectOf(r) \in {"LightControl", "Sensor"}
      BY <1>2 DEF map_device_type_to_lwm2m, ObjectOf
<1>4. /\ ObjectOf(r) = "LightControl" => m.value = IF s \in {"on", "off"} THEN s ELSE "off"
      /\ ObjectOf(r) = "Sensor" => m.value \in {"usual", "measured"}
      BY <1>2, States DEF map_device_type_to_lwm2m, ObjectOf, default_state
<1> HIDE DEF m
<1>5. /\ create_device_params(r, s).object = ObjectOf(r)
      /\ create_device_params(r, s).bytes = encode_value(m.value)
      BY <1>1, <1>3
<1>6. create_device_params(r, s) # NoDevice
      BY <1>3, <1>5 DEF NoDevice
<1>7. CASE ObjectOf(r) = "LightControl"
  <2>1. m.value \in {"on", "off"} /\ (s \in {"on", "off"} => m.value = s)
        BY <1>4, <1>7
  <2>2. decode(encode_value(m.value)) = m.value
        BY <2>1 DEF decode, encode_value
  <2>3. Means(create_device_params(r, s)) = m.value
        BY <1>5, <1>7, <2>2 DEF Means
  <2> QED BY <1>5, <1>6, <2>1, <2>3, States
<1>8. CASE ObjectOf(r) = "Sensor"
  <2>1. encode_value(m.value) \in {"usual", "measured"}
        BY <1>4, <1>8 DEF encode_value
  <2>2. Means(create_device_params(r, s)) \in {"usual", "measured"}
        BY <1>5, <1>8, <2>1 DEF Means
  <2> QED BY <1>5, <1>6, <1>8, <2>2, States
<1> QED BY <1>3, <1>7, <1>8

Forwards(n) == reader.at = "forwarding" /\ reader.event.name = n

(* Where a write from the cloud can be. *)
LEMMA CloudParts ==
    ASSUME TypeInv, NEW n \in Name
    PROVE  CloudWriting(n) <=> \/ ~None(fromEdge, WritesOn(n)) \/ Forwards(n)
                               \/ ~None(events, EventsOn(n)) \/ ~None(toEdge, OksOn(n))
<1>1. /\ \A i \in DOMAIN fromEdge : fromEdge[i] \in FromMsg
      /\ \A i \in DOMAIN toEdge : toEdge[i] \in ToMsg
      /\ \A i \in DOMAIN events : events[i] \in Event
      BY DEF TypeInv
<1>2. ~None(fromEdge, WritesOn(n)) <=>
        \E i \in DOMAIN fromEdge : fromEdge[i].kind = "write" /\ fromEdge[i].event.name = n
      BY <1>1 DEF None, WritesOn
<1>3. ~None(toEdge, OksOn(n)) <=>
        \E i \in DOMAIN toEdge : toEdge[i].kind = "ok" /\ toEdge[i].event.name = n
      BY <1>1 DEF None, OksOn
<1>4. ~None(events, EventsOn(n)) <=> \E i \in DOMAIN events : events[i].name = n
      BY <1>1 DEF None, EventsOn
<1> QED BY <1>2, <1>3, <1>4 DEF CloudWriting, Forwards

LEMMA CloudPartsNext ==
    ASSUME TypeInv', NEW n \in Name
    PROVE  CloudWriting(n)' <=> \/ ~None(fromEdge', WritesOn(n)) \/ Forwards(n)'
                                \/ ~None(events', EventsOn(n)) \/ ~None(toEdge', OksOn(n))
<1>1. /\ \A i \in DOMAIN fromEdge' : fromEdge'[i] \in FromMsg
      /\ \A i \in DOMAIN toEdge' : toEdge'[i] \in ToMsg
      /\ \A i \in DOMAIN events' : events'[i] \in Event
      BY DEF TypeInv
<1>2. ~None(fromEdge', WritesOn(n)) <=>
        \E i \in DOMAIN fromEdge' : fromEdge'[i].kind = "write" /\ fromEdge'[i].event.name = n
      BY <1>1 DEF None, WritesOn
<1>3. ~None(toEdge', OksOn(n)) <=>
        \E i \in DOMAIN toEdge' : toEdge'[i].kind = "ok" /\ toEdge'[i].event.name = n
      BY <1>1 DEF None, OksOn
<1>4. ~None(events', EventsOn(n)) <=> \E i \in DOMAIN events' : events'[i].name = n
      BY <1>1 DEF None, EventsOn
<1> QED BY <1>2, <1>3, <1>4 DEF CloudWriting, Forwards

LEMMA BusyWorks == \A n : Busy(n) <=> \E t \in Task : WorksOn(t, n)
BY DEF Busy, WorksOn

(* A name at rest, whatever else is going on: Agreement.                   *)
LEMMA AgreementFollows ==
    ASSUME TypeInv, Starting, \A n \in Name \ mixed : NameInv(n)
    PROVE  Agreement
<1> SUFFICES ASSUME Serving, conn = "open", NEW n \in Name \ mixed,
                    ~Busy(n), ~CloudWriting(n)
             PROVE  LET rows == {r \in Row : Live(r) /\ NameOf[r] = n}
                    IN  /\ (rows = {}) = (edge[n] = NoDevice)
                        /\ \A r \in rows :
                             Means(edge[n]) = Means(create_device_params(r, db[r]))
    BY DEF Agreement
<1> DEFINE rows == {r \in Row : Live(r) /\ NameOf[r] = n}
<1>1. NameInv(n)
      OBVIOUS
<1>2. ~Early /\ ~Waits(n)
      BY DEF Serving, Early, Waits, Starting
<1>3. /\ HasRow(n) <=> edge[n] # NoDevice
      /\ HasRow(n) => Meet(n)
      BY <1>1, <1>2 DEF NameInv, Settled
<1>4. rows = {} <=> ~HasRow(n)
      BY DEF HasRow
<1>5. None(toEdge, OksOn(n)) /\ ~Forwards(n) /\ None(events, EventsOn(n))
      BY CloudParts
<1>6. ASSUME NEW r \in rows PROVE Means(edge[n]) = Means(create_device_params(r, db[r]))
  <2>1. HasRow(n)
        BY <1>6 DEF HasRow
  <2>2. PICK v \in JsonState : EdgeWill(n, v) /\ DbWill(n, v)
        BY <2>1, <1>3 DEF Meet
  <2>3. Means(edge[n]) = v
        BY <2>2, <1>5 DEF EdgeWill
  <2>4. RowsSay(n, v)
        BY <2>2, <1>5 DEF DbWill, Forwards
  <2> QED BY <1>6, <2>3, <2>4 DEF RowsSay
<1>7. (rows = {}) = (edge[n] = NoDevice)
      BY <1>3, <1>4
<1> QED BY <1>6, <1>7
-----------------------------------------------------------------------------
(* Steps that leave a name as it is *)

WorkKept(n) == \A t \in Task :
    /\ WorksOn(t, n)' <=> WorksOn(t, n)
    /\ WorksOn(t, n) => /\ job'[t].op = job[t].op /\ job'[t].row = job[t].row
                        /\ job'[t].st = job[t].st
                        /\ conn = "open" => (Undone(t)' <=> Undone(t))
RowsKept(n) == \A r \in Row : NameOf[r] = n => db'[r] = db[r]
OksKept(n) ==
    /\ None(toEdge', OksOn(n)) <=> None(toEdge, OksOn(n))
    /\ \A v : Last(toEdge, OksOn(n), OksTo(n, v)) => Last(toEdge', OksOn(n), OksTo(n, v))
EventsKept(n) ==
    /\ None(events', EventsOn(n)) <=> None(events, EventsOn(n))
    /\ \A v : Last(events, EventsOn(n), EventsTo(n, v))
              => Last(events', EventsOn(n), EventsTo(n, v))
WritesKept(n) == None(fromEdge, WritesOn(n)) => None(fromEdge', WritesOn(n))
ReaderKept(n) ==
    /\ Forwards(n)' <=> Forwards(n)
    /\ Forwards(n) => reader'.event = reader.event

(* The row and the device stay, with other values perhaps if no task works *)
(* on the name; so does the value that both will have.                     *)
Keeps(n) ==
    /\ conn' = "open" => conn = "open"
    /\ \A r \in Row : NameOf[r] = n => (Live(r)' <=> Live(r))
    /\ Busy(n) => RowsKept(n)
    /\ edge'[n] = NoDevice <=> edge[n] = NoDevice
    /\ edge'[n].object = edge[n].object
    /\ Busy(n) => edge'[n] = edge[n]
    /\ WorkKept(n)
    /\ conn = "open" /\ CloudWriting(n)' =>
            CloudWriting(n) \/ (~Busy(n) /\ edge[n].object = "LightControl")
    /\ Early' <=> Early
    /\ Waits(n)' <=> Waits(n)
    /\ conn = "open" /\ Meet(n) /\ HasRow(n) /\ ~Early /\ ~Busy(n) /\ ~Waits(n) => Meet(n)'

LEMMA Frame ==
    ASSUME TypeInv, NEW n \in Name, NameInv(n), Keeps(n) PROVE NameInv(n)'
<1>1. \A r \in Row : NameOf[r] = n => (Live(r)' <=> Live(r))
      BY DEF Keeps
<1>2. \A t \in Task : WorksOn(t, n)' <=> WorksOn(t, n)
      BY DEF Keeps, WorkKept
<1>3. Busy(n)' <=> Busy(n)
  <2>1. Busy(n)' <=> \E t \in Task : WorksOn(t, n)'
        BY DEF Busy, WorksOn
  <2> QED BY <2>1, <1>2, BusyWorks
<1>4. OneRow(n)'
      BY <1>1 DEF NameInv, OneRow
<1>5. Sole(n)'
      BY <1>2 DEF NameInv, Sole
<1>6. ASSUME conn' = "open" PROVE Apart(n)' /\ Settled(n)' /\ \A t \in Task : Carries(t, n)'
  <2>1. conn = "open" /\ Apart(n) /\ Settled(n) /\ \A t \in Task : Carries(t, n)
        BY <1>6 DEF Keeps, NameInv
  <2>2. /\ edge'[n] = NoDevice <=> edge[n] = NoDevice
        /\ edge'[n].object = edge[n].object
        /\ Waits(n)' <=> Waits(n)
        /\ Early' <=> Early
        /\ CloudWriting(n)' =>
            CloudWriting(n) \/ (~Busy(n) /\ edge[n].object = "LightControl")
        BY <2>1 DEF Keeps
  <2>3. edge[n] = NoDevice => edge[n].object # "LightControl"
        BY DEF NoDevice
  <2>4. Apart(n)'
        BY <1>3, <2>1, <2>2, <2>3 DEF Apart
  <2>5. Settled(n)'
    <3> SUFFICES ASSUME ~Early', ~Busy(n)', ~Waits(n)'
                 PROVE  /\ HasRow(n)' <=> edge'[n] # NoDevice
                        /\ CloudWriting(n)' => edge'[n].object = "LightControl"
                        /\ \A r \in Row : Live(r)' /\ NameOf[r] = n
                                           => edge'[n].object = ObjectOf(r)
                        /\ HasRow(n)' => Meet(n)'
        BY DEF Settled
    <3>1. ~Early /\ ~Busy(n) /\ ~Waits(n)
          BY <1>3, <2>2
    <3>2. /\ HasRow(n) <=> edge[n] # NoDevice
          /\ CloudWriting(n) => edge[n].object = "LightControl"
          /\ \A r \in Row : Live(r) /\ NameOf[r] = n => edge[n].object = ObjectOf(r)
          /\ HasRow(n) => Meet(n)
          BY <2>1, <3>1 DEF Settled
    <3>3. HasRow(n)' <=> HasRow(n)
          BY <1>1 DEF HasRow
    <3>4. HasRow(n)' => Meet(n)'
          BY <2>1, <3>1, <3>2, <3>3 DEF Keeps
    <3>5. \A r \in Row : Live(r)' /\ NameOf[r] = n => edge'[n].object = ObjectOf(r)
          BY <1>1, <2>2, <3>2
    <3> QED BY <2>2, <3>2, <3>3, <3>4, <3>5
  <2>6. ASSUME NEW t \in Task PROVE Carries(t, n)'
    <3> SUFFICES ASSUME WorksOn(t, n)' PROVE Carries(t, n)'
        BY DEF Carries
    <3>1. WorksOn(t, n) /\ Busy(n) /\ job[t].row \in Row /\ NameOf[job[t].row] = n
          BY <1>2, BusyWorks DEF WorksOn, TypeInv, Job
    <3>2. /\ job'[t].op = job[t].op /\ job'[t].row = job[t].row
          /\ job'[t].st = job[t].st
          /\ Undone(t)' <=> Undone(t)
          BY <2>1, <3>1 DEF Keeps, WorkKept
    <3>3. edge'[n] = edge[n] /\ db'[job[t].row] = db[job[t].row]
          BY <3>1 DEF Keeps, RowsKept
    <3>4. Carries(t, n)
          BY <2>1
    <3> QED BY <3>1, <3>2, <3>3, <3>4 DEF Carries, Live
  <2> QED BY <2>4, <2>5, <2>6
<1> QED BY <1>4, <1>5, <1>6 DEF NameInv

LEMMA MeetKept ==
    ASSUME NEW n, RowsKept(n), edge'[n] = edge[n], OksKept(n), EventsKept(n), ReaderKept(n),
           Meet(n)
    PROVE  Meet(n)'
<1>1. PICK v \in JsonState : EdgeWill(n, v) /\ DbWill(n, v)
      BY DEF Meet
<1>2. EdgeWill(n, v)'
      BY <1>1 DEF EdgeWill, OksKept
<1>3. RowsSay(n, v) => RowsSay(n, v)'
      BY DEF RowsSay, RowsKept, Live
<1>4. DbWill(n, v)'
  <2>1. CASE Forwards(n)
        BY <1>1, <2>1 DEF DbWill, ReaderKept, Forwards
  <2>2. CASE ~Forwards(n)
        BY <1>1, <1>3, <2>2 DEF DbWill, ReaderKept, Forwards, EventsKept
  <2> QED BY <2>1, <2>2
<1> QED BY <1>1, <1>2, <1>4 DEF Meet

LEMMA StateKept ==
    ASSUME TypeInv, TypeInv', NEW n \in Name, conn' = "open" => conn = "open",
           RowsKept(n), edge'[n] = edge[n], WorkKept(n), OksKept(n), EventsKept(n),
           WritesKept(n), ReaderKept(n), Early' <=> Early, Waits(n)' <=> Waits(n)
    PROVE  Keeps(n)
<1>1. \A r \in Row : NameOf[r] = n => (Live(r)' <=> Live(r))
      BY DEF RowsKept, Live
<1>2. CloudWriting(n)' => CloudWriting(n)
      BY CloudParts, CloudPartsNext DEF OksKept, EventsKept, WritesKept, ReaderKept
<1>3. Meet(n) => Meet(n)'
      BY MeetKept
<1> QED BY <1>1, <1>2, <1>3 DEF Keeps

LEMMA OksAppended ==
    ASSUME TypeInv, NEW n, NEW m \in ToMsg, m \notin OksOn(n),
           toEdge' = toEdge \/ toEdge' = Append(toEdge, m)
    PROVE  OksKept(n)
<1>1. toEdge \in Seq(ToMsg) /\ \A v : OksTo(n, v) \subseteq OksOn(n)
      BY DEF TypeInv, OksTo
<1>2. CASE toEdge' = toEdge
      BY <1>2 DEF OksKept
<1>3. CASE toEdge' = Append(toEdge, m)
  <2>1. None(Append(toEdge, m), OksOn(n)) <=> None(toEdge, OksOn(n))
        BY <1>1, LastAppend
  <2>2. \A v : Last(Append(toEdge, m), OksOn(n), OksTo(n, v)) <=>
               Last(toEdge, OksOn(n), OksTo(n, v))
        BY <1>1, LastAppend
  <2> QED BY <1>3, <2>1, <2>2 DEF OksKept
<1> QED BY <1>2, <1>3

LEMMA OksTailed ==
    ASSUME TypeInv, NEW n, toEdge # <<>>, toEdge' = Tail(toEdge), Head(toEdge) \notin OksOn(n)
    PROVE  OksKept(n)
<1>1. toEdge \in Seq(ToMsg) /\ \A v : OksTo(n, v) \subseteq OksOn(n)
      BY DEF TypeInv, OksTo
<1>2. None(toEdge, OksOn(n)) <=> None(Tail(toEdge), OksOn(n))
      BY <1>1, LastTail
<1>3. ASSUME NEW v, Last(toEdge, OksOn(n), OksTo(n, v))
      PROVE  Last(Tail(toEdge), OksOn(n), OksTo(n, v))
  <2>1. Head(toEdge) \notin OksTo(n, v)
        BY <1>1
  <2> QED BY <1>1, <1>3, <2>1, LastTail
<1> QED BY <1>2, <1>3 DEF OksKept

LEMMA EventsAppended ==
    ASSUME TypeInv, NEW n, NEW e \in Event, e \notin EventsOn(n), events' = Append(events, e)
    PROVE  EventsKept(n)
<1>1. events \in Seq(Event) /\ \A v : EventsTo(n, v) \subseteq EventsOn(n)
      BY DEF TypeInv, EventsTo
<1>2. None(Append(events, e), EventsOn(n)) <=> None(events, EventsOn(n))
      BY <1>1, LastAppend
<1>3. \A v : Last(Append(events, e), EventsOn(n), EventsTo(n, v)) <=>
             Last(events, EventsOn(n), EventsTo(n, v))
      BY <1>1, LastAppend
<1> QED BY <1>2, <1>3 DEF EventsKept

LEMMA EventsTailed ==
    ASSUME TypeInv, NEW n, events # <<>>, events' = Tail(events), Head(events) \notin EventsOn(n)
    PROVE  EventsKept(n)
<1>1. events \in Seq(Event) /\ \A v : EventsTo(n, v) \subseteq EventsOn(n)
      BY DEF TypeInv, EventsTo
<1>2. None(events, EventsOn(n)) <=> None(Tail(events), EventsOn(n))
      BY <1>1, LastTail
<1>3. ASSUME NEW v, Last(events, EventsOn(n), EventsTo(n, v))
      PROVE  Last(Tail(events), EventsOn(n), EventsTo(n, v))
  <2>1. Head(events) \notin EventsTo(n, v)
        BY <1>1
  <2> QED BY <1>1, <1>3, <2>1, LastTail
<1> QED BY <1>2, <1>3 DEF EventsKept

LEMMA QueuesSame ==
    ASSUME NEW n
    PROVE  /\ UNCHANGED toEdge => OksKept(n)
           /\ UNCHANGED events => EventsKept(n)
           /\ UNCHANGED fromEdge => WritesKept(n)
           /\ UNCHANGED reader => ReaderKept(n)
           /\ UNCHANGED db => RowsKept(n)
           /\ UNCHANGED <<todo, again>> => (Waits(n)' <=> Waits(n))
           /\ UNCHANGED <<at, job>> => (Early' <=> Early)
<1>1. UNCHANGED toEdge => OksKept(n)
      BY DEF OksKept
<1>2. UNCHANGED events => EventsKept(n)
      BY DEF EventsKept
<1>3. UNCHANGED fromEdge => WritesKept(n)
      BY DEF WritesKept
<1>4. UNCHANGED reader => ReaderKept(n)
      BY DEF ReaderKept, Forwards
<1>5. UNCHANGED db => RowsKept(n)
      BY DEF RowsKept
<1>6. UNCHANGED <<todo, again>> => (Waits(n)' <=> Waits(n))
      BY DEF Waits
<1>7. UNCHANGED <<at, job>> => (Early' <=> Early)
      BY DEF Early
<1> QED BY <1>1, <1>2, <1>3, <1>4, <1>5, <1>6, <1>7

(* No task changes, or one that does not work on the name.                 *)
LEMMA WorkSame ==
    ASSUME NEW n, UNCHANGED <<at, job>>,
           \A t \in Task : WorksOn(t, n) /\ at[t] = "await" =>
                (Has(toEdge', "request", job[t].id) <=> Has(toEdge, "request", job[t].id))
    PROVE  WorkKept(n)
<1> SUFFICES ASSUME NEW t \in Task
             PROVE  /\ WorksOn(t, n)' <=> WorksOn(t, n)
                    /\ WorksOn(t, n) => (Undone(t)' <=> Undone(t))
    BY DEF WorkKept
<1>1. WorksOn(t, n)' <=> WorksOn(t, n)
      BY DEF WorksOn
<1>2. WorksOn(t, n) => (Undone(t)' <=> Undone(t))
      BY DEF Undone
<1> QED BY <1>1, <1>2

LEMMA WorkElse ==
    ASSUME NEW n, NEW t \in Task, ~WorksOn(t, n), ~WorksOn(t, n)',
           \A u \in Task : u # t =>
                /\ at'[u] = at[u] /\ job'[u] = job[u]
                /\ at[u] = "await" =>
                    (Has(toEdge', "request", job[u].id) <=> Has(toEdge, "request", job[u].id))
    PROVE  WorkKept(n)
<1> SUFFICES ASSUME NEW u \in Task, u # t
             PROVE  /\ WorksOn(u, n)' <=> WorksOn(u, n)
                    /\ job'[u] = job[u] /\ (Undone(u)' <=> Undone(u))
    BY DEF WorkKept
<1>1. WorksOn(u, n)' <=> WorksOn(u, n)
      BY DEF WorksOn
<1>2. Undone(u)' <=> Undone(u)
      BY DEF Undone
<1> QED BY <1>1, <1>2

LEMMA SendFacts ==
    ASSUME TypeInv, NEW t \in Task, NEW op \in Op, NEW r \in Row, NEW s \in JsonState,
           send_request(t, op, r, s)
    PROVE  /\ \A n : OksKept(n)
           /\ conn' = "open" => /\ at'[t] = "await"
                               /\ Has(toEdge', "request", job'[t].id)
           /\ at'[t] \in {"await", "failed"}
           /\ job'[t].op = op /\ job'[t].row = r /\ job'[t].st = s
           /\ \A u \in Task : u # t => at'[u] = at[u] /\ job'[u] = job[u]
<1> DEFINE m == [kind |-> "request", id |-> nextId + 1, op |-> op, name |-> NameOf[r],
                 data |-> create_device_params(r, s)]
<1>1. /\ at'[t] = IF conn' = "open" THEN "await" ELSE "failed"
      /\ job'[t] = [op |-> op, row |-> r, st |-> s, id |-> nextId + 1]
      /\ \A u \in Task : u # t => at'[u] = at[u] /\ job'[u] = job[u]
      /\ toEdge' = IF conn' = "open" THEN Append(toEdge, m) ELSE toEdge
      BY DEF send_request, Go, TypeInv
<1>2. m \in ToMsg
      BY ParamsTyped DEF ToMsg, Name, TypeInv
<1>3. m.kind = "request" /\ m.id = nextId + 1
      OBVIOUS
<1> HIDE DEF m
<1>4. \A n : m \notin OksOn(n)
      BY <1>3 DEF OksOn
<1>5. \A n : OksKept(n)
      BY <1>1, <1>2, <1>4, OksAppended
<1>6. Has(Append(toEdge, m), "request", nextId + 1)
  <2>1. toEdge \in Seq(ToMsg)
        BY DEF TypeInv
  <2> QED BY <2>1, <1>2, <1>3, HasAppend
<1> QED BY <1>1, <1>5, <1>6

LEMMA WorkingName ==
    ASSUME NEW n, NEW t \in Task, WorksOn(t, n)', \A u \in Task : u # t => ~WorksOn(u, n)',
           OneRow(n)',
           conn' = "open" => ~CloudWriting(n)' /\ ~Waits(n)' /\ Carries(t, n)'
    PROVE  NameInv(n)'
<1>1. Busy(n)'
      BY DEF Busy, WorksOn
<1>2. Sole(n)'
      BY DEF Sole
<1>3. ASSUME conn' = "open" PROVE Apart(n)' /\ Settled(n)' /\ \A u \in Task : Carries(u, n)'
  <2>1. Apart(n)' /\ Settled(n)'
        BY <1>1, <1>3 DEF Apart, Settled
  <2>2. \A u \in Task : Carries(u, n)'
        BY <1>3 DEF Carries
  <2> QED BY <2>1, <2>2
<1> QED BY <1>2, <1>3 DEF NameInv

LEMMA WaitingName ==
    ASSUME NEW n, \A u \in Task : ~WorksOn(u, n)', OneRow(n)', Waits(n)',
           conn' = "open" => edge'[n] = NoDevice /\ ~CloudWriting(n)'
    PROVE  NameInv(n)'
<1>1. ~Busy(n)'
      BY DEF Busy, WorksOn
<1>2. Sole(n)'
      BY DEF Sole
<1>3. ASSUME conn' = "open" PROVE Apart(n)' /\ Settled(n)' /\ \A u \in Task : Carries(u, n)'
      BY <1>1, <1>3 DEF Apart, Settled, Carries
<1> QED BY <1>2, <1>3 DEF NameInv

LEMMA RestingName ==
    ASSUME TypeInv', NEW n \in Name, \A u \in Task : ~WorksOn(u, n)', OneRow(n)',
           conn' = "open" =>
             /\ ~CloudWriting(n)' /\ ~Waits(n)'
             /\ HasRow(n)' <=> edge'[n] # NoDevice
             /\ \A r \in Row : Live(r)' /\ NameOf[r] = n =>
                    /\ edge'[n].object = ObjectOf(r)
                    /\ Means(edge'[n]) = Means(create_device_params(r, db'[r]))
    PROVE  NameInv(n)'
<1>1. ~Busy(n)'
      BY DEF Busy, WorksOn
<1>2. Sole(n)'
      BY DEF Sole
<1>3. ASSUME conn' = "open" PROVE Apart(n)' /\ Settled(n)' /\ \A u \in Task : Carries(u, n)'
  <2>1. Apart(n)' /\ \A u \in Task : Carries(u, n)'
        BY <1>1, <1>3 DEF Apart, Carries
  <2>2. ASSUME HasRow(n)' PROVE Meet(n)'
    <3>1. PICK x \in Row : Live(x)' /\ NameOf[x] = n
          BY <2>2 DEF HasRow
    <3>2. db'[x] \in JsonState
          BY <3>1 DEF TypeInv, Live
    <3>3. PICK v \in JsonState : v = Means(create_device_params(x, db'[x]))
          BY <3>2, ParamsMean
    <3>4. Means(edge'[n]) = v
          BY <1>3, <3>1, <3>3
    <3>5. RowsSay(n, v)'
          BY <1>3, <3>4 DEF RowsSay
    <3>6. None(toEdge', OksOn(n)) /\ ~Forwards(n)' /\ None(events', EventsOn(n))
          BY <1>3, CloudPartsNext
    <3>7. EdgeWill(n, v)'
          BY <3>4, <3>6 DEF EdgeWill
    <3>8. DbWill(n, v)'
          BY <3>5, <3>6 DEF DbWill, Forwards
    <3> QED BY <3>3, <3>7, <3>8 DEF Meet
  <2>3. Settled(n)'
        BY <1>3, <2>2 DEF Settled
  <2> QED BY <2>1, <2>3
<1> QED BY <1>2, <1>3 DEF NameInv

LEMMA EarlyName ==
    ASSUME Starting', Quiet', Early', NEW n, OneRow(n)'
    PROVE  NameInv(n)'
<1>1. \A t \in Task : ~WorksOn(t, n)'
  <2>1. ~WorksOn(Main, n)'
        BY DEF Early, WorksOn
  <2>2. \A c \in Client : at'[c] = "idle"
        BY DEF Early, Starting, Serving
  <2>3. \A c \in Client : ~WorksOn(c, n)'
        BY <2>2 DEF WorksOn
  <2> QED BY <2>1, <2>3, Tasks
<1>2. ~Busy(n)'
      BY <1>1 DEF Busy, WorksOn
<1>3. ~Waits(n)'
      BY DEF Quiet, Waits
<1>4. Sole(n)'
      BY <1>1 DEF Sole
<1>5. Apart(n)' /\ Settled(n)' /\ \A t \in Task : Carries(t, n)'
      BY <1>1, <1>2, <1>3 DEF Apart, Settled, Carries
<1> QED BY <1>4, <1>5 DEF NameInv
-----------------------------------------------------------------------------
(* Each step and each name *)

Around == AnswerInv /\ Quiet /\ FirstRows /\ Fails /\ Jobs /\ Owners

LEMMA HandlerKeeps ==
    ASSUME TypeInv, TypeInv', Starting, NEW c \in Client, Handler(c), NEW n \in Name,
           RowsKept(n), WorkKept(n), OksKept(n)
    PROVE  Keeps(n)
<1>1. /\ Serving /\ Serving'
      /\ UNCHANGED <<edge, conn, fromEdge, reader, events, todo, again>>
      BY HandlerSteps
<1>2. Early' <=> Early
      BY <1>1 DEF Early, Serving
<1>3. EventsKept(n) /\ WritesKept(n) /\ ReaderKept(n) /\ (Waits(n)' <=> Waits(n))
      BY <1>1, QueuesSame
<1> QED BY <1>1, <1>2, <1>3, StateKept

(* A handler starts on a name that nobody works on. *)
LEMMA StartsName ==
    ASSUME Around, TypeInv', NEW n \in Name \ mixed', NameInv(n),
           NEW c \in Client, NEW r \in Row,
           \/ create_device(c, r) \/ delete_device(c, r)
           \/ \E s \in Put : update_device_state(c, r, s)
    PROVE  NameInv(n)'
<1> USE DEF readerVars, sendVars, mainVars
<1>1. TypeInv /\ Starting
      BY DEF Around, AnswerInv
<1>2. Handler(c)
      BY DEF Handler
<1>3. /\ Serving /\ Serving'
      /\ \A t \in Task : t # c => at'[t] = at[t] /\ job'[t] = job[t]
      /\ UNCHANGED <<edge, conn, fromEdge, reader, events, todo, again>>
      /\ c \in Task
      BY <1>1, <1>2, HandlerSteps, Tasks
<1>4. PICK op \in {"device_register", "device_unregister", "write"}, s \in JsonState :
        /\ Wants(c, op, r, s) /\ at[c] = "idle"
        /\ MixesIf(NameOf[r], Busy(NameOf[r]) \/ CloudWriting(NameOf[r])
             \/ (op = "device_register" /\ \E x \in Row : Live(x) /\ NameOf[x] = NameOf[r]))
        /\ (op = "device_register") = ~Live(r)
        /\ op = "device_unregister" => s = db[r] /\ db' = db
        /\ op # "device_unregister" => db' = [db EXCEPT ![r] = s]
  <2>1. CASE create_device(c, r)
    <3>1. db'[r] = default_state(KindOf[r]) /\ default_state(KindOf[r]) \in JsonState
          BY <2>1, <1>1, States DEF create_device, TypeInv
    <3> QED BY <2>1, <3>1 DEF create_device
  <2>2. CASE delete_device(c, r)
    <3>1. db[r] \in JsonState
          BY <2>2, <1>1 DEF delete_device, TypeInv, Live
    <3> QED BY <2>2, <3>1 DEF delete_device
  <2>3. ASSUME NEW s \in Put, update_device_state(c, r, s)
        PROVE  /\ Wants(c, "write", r, s) /\ at[c] = "idle"
               /\ MixesIf(NameOf[r], Busy(NameOf[r]) \/ CloudWriting(NameOf[r]))
               /\ Live(r) /\ db' = [db EXCEPT ![r] = s] /\ s \in JsonState
        BY <2>3, States DEF update_device_state
  <2> QED BY <2>1, <2>2, <2>3
<1>5. /\ at'[c] = "lock" /\ job'[c].op = op /\ job'[c].row = r /\ job'[c].st = s
      /\ toEdge' = toEdge
      BY <1>1, <1>3, <1>4 DEF Wants, Go, TypeInv
<1>6. ~WorksOn(c, n)
      BY <1>4 DEF WorksOn
<1>7. OksKept(n) /\ EventsKept(n) /\ WritesKept(n) /\ ReaderKept(n)
      BY <1>3, <1>5, QueuesSame
<1>8. CASE NameOf[r] # n
  <2>1. RowsKept(n)
        BY <1>1, <1>4, <1>8 DEF RowsKept, TypeInv
  <2>2. ~WorksOn(c, n)'
        BY <1>5, <1>8 DEF WorksOn
  <2>3. WorkKept(n)
        BY <1>3, <1>5, <1>6, <2>2, WorkElse
  <2>4. Keeps(n)
        BY <1>1, <1>2, <1>7, <2>1, <2>3, HandlerKeeps
  <2> QED BY <1>1, <2>4, Frame
<1>9. CASE NameOf[r] = n
  <2>1. /\ ~Busy(n) /\ ~CloudWriting(n)
        /\ op = "device_register" => \A x \in Row : NameOf[x] = n => ~Live(x)
        BY <1>4, <1>9 DEF MixesIf
  <2>2. WorksOn(c, n)'
        BY <1>4, <1>5, <1>9 DEF WorksOn
  <2>3. \A u \in Task : u # c => ~WorksOn(u, n)'
        BY <1>3, <2>1, BusyWorks DEF WorksOn
  <2>4. db'[r] = s /\ \A x \in Row : x # r => db'[x] = db[x]
        BY <1>1, <1>4 DEF TypeInv
  <2>5. s # NoRow
        BY States
  <2>6. OneRow(n)'
    <3>1. \A x \in Row : Live(x)' /\ NameOf[x] = n => x = r \/ Live(x)
          BY <2>4 DEF Live
    <3>2. CASE op = "device_register"
          BY <3>1, <3>2, <2>1 DEF OneRow
    <3>3. CASE op # "device_register"
          BY <3>1, <3>3, <1>4, <1>9 DEF OneRow, NameInv
    <3> QED BY <3>2, <3>3
  <2>7. ASSUME conn' = "open" PROVE ~CloudWriting(n)' /\ ~Waits(n)' /\ Carries(c, n)'
    <3>1. ~CloudWriting(n)'
          BY <1>1, <1>7, <2>1, CloudParts, CloudPartsNext
          DEF OksKept, EventsKept, WritesKept, ReaderKept
    <3>2. ~Waits(n) /\ ~Waits(n)' /\ ~Early
          BY <1>1, <1>3 DEF Starting, Waits, Early, Serving
    <3>3. Settled(n)
          BY <2>7, <1>3 DEF NameInv
    <3>4. /\ HasRow(n) <=> edge[n] # NoDevice
          /\ \A x \in Row : Live(x) /\ NameOf[x] = n => edge[n].object = ObjectOf(x)
          BY <3>2, <3>3, <2>1 DEF Settled
    <3>5. (op = "device_register") <=> edge[n] = NoDevice
          BY <3>4, <2>1, <1>4, <1>9 DEF HasRow
    <3>6. edge[n] # NoDevice => edge[n].object = ObjectOf(r)
          BY <3>4, <3>5, <1>4, <1>9
    <3>7. Undone(c)' /\ Live(r)'
          BY <1>5, <2>4, <2>5 DEF Undone, Live
    <3>8. Carries(c, n)'
          BY <1>3, <1>5, <2>4, <3>5, <3>6, <3>7 DEF Carries
    <3> QED BY <3>1, <3>2, <3>8
  <2> QED BY <1>3, <2>2, <2>3, <2>6, <2>7, WorkingName
<1> QED BY <1>8, <1>9

(* A handler takes the mutex: no other task waits for an answer then.      *)
LEMMA LocksName ==
    ASSUME Around, TypeInv', NEW n \in Name, NameInv(n), NEW c \in Client, handler_locks(c)
    PROVE  NameInv(n)'
<1>1. TypeInv /\ Starting /\ Locks
      BY DEF Around, AnswerInv
<1>2. Handler(c)
      BY DEF Handler
<1>3. Serving /\ c \in Task /\ conn' = conn /\ RowsKept(n)
      BY <1>1, <1>2, HandlerSteps, Tasks, QueuesSame DEF handler_locks
<1>4. /\ send_request(c, job[c].op, job[c].row, job[c].st) /\ lock = NoTask /\ at[c] = "lock"
      /\ job[c].op \in Op /\ job[c].row \in Row /\ job[c].st \in JsonState
      BY <1>1, <1>3 DEF handler_locks, TypeInv, Job
<1>5. /\ OksKept(n)
      /\ conn' = "open" => /\ at'[c] = "await"
                          /\ Has(toEdge', "request", job'[c].id)
      /\ at'[c] \in {"await", "failed"}
      /\ job'[c].op = job[c].op /\ job'[c].row = job[c].row /\ job'[c].st = job[c].st
      /\ \A u \in Task : u # c => at'[u] = at[u] /\ job'[u] = job[u]
      BY <1>1, <1>3, <1>4, SendFacts
<1>6. \A u \in Task : at[u] # "await"
      BY <1>1, <1>3, <1>4, Tasks DEF Locks, Serving
<1>7. WorksOn(c, n)' <=> WorksOn(c, n)
      BY <1>4, <1>5 DEF WorksOn
<1>8. conn = "open" => (Undone(c)' <=> Undone(c))
      BY <1>3, <1>4, <1>5 DEF Undone
<1>9. ASSUME NEW u \in Task, u # c
      PROVE  (WorksOn(u, n)' <=> WorksOn(u, n)) /\ (Undone(u)' <=> Undone(u))
      BY <1>5, <1>6, <1>9 DEF WorksOn, Undone
<1>10. WorkKept(n)
       BY <1>5, <1>7, <1>8, <1>9 DEF WorkKept
<1>11. Keeps(n)
       BY <1>1, <1>2, <1>3, <1>5, <1>10, HandlerKeeps
<1> QED BY <1>1, <1>11, Frame

(* A handler ends, with its work done or with the name given up. *)
LEMMA EndsName ==
    ASSUME Around, TypeInv', NEW n \in Name \ mixed', NameInv(n), NEW c \in Client,
           \/ handler_unlocks(c) \/ delete_device_row(c) \/ delete_device_fails(c)
           \/ client_disconnects(c)
    PROVE  NameInv(n)'
<1> USE DEF readerVars, sendVars, mainVars
<1>1. TypeInv /\ Starting
      BY DEF Around, AnswerInv
<1>2. Handler(c)
      BY DEF Handler
<1>3. /\ Serving /\ Serving' /\ c \in Task
      /\ \A t \in Task : t # c => at'[t] = at[t] /\ job'[t] = job[t]
      /\ UNCHANGED <<edge, conn, fromEdge, reader, events, todo, again>>
      BY <1>1, <1>2, HandlerSteps, Tasks
<1>4. /\ UNCHANGED <<toEdge, job>> /\ (~delete_device_row(c) => db' = db)
      /\ delete_device_row(c) => at[c] = "delete" /\ db' = [db EXCEPT ![job[c].row] = NoRow]
      BY DEF handler_unlocks, delete_device_row, delete_device_fails, client_disconnects
<1>5. OksKept(n) /\ EventsKept(n) /\ WritesKept(n) /\ ReaderKept(n)
      BY <1>3, <1>4, QueuesSame
<1>6. at'[c] \in {"idle", "delete"}
      BY <1>1, <1>3 DEF handler_unlocks, delete_device_row, delete_device_fails,
         client_disconnects, Go, TypeInv
<1>7. at'[c] = "delete" => handler_unlocks(c) /\ job[c].op = "device_unregister"
      BY <1>1, <1>3 DEF handler_unlocks, delete_device_row, delete_device_fails,
         client_disconnects, Go, TypeInv
<1>r. job[c].row \in Row
      BY <1>1, <1>3 DEF TypeInv, Job
<1>8. CASE ~WorksOn(c, n)
  <2>1. ~WorksOn(c, n)'
    <3>1. CASE at'[c] = "idle"
          BY <3>1 DEF WorksOn
    <3>2. CASE at'[c] = "delete"
      <4>1. at[c] \in {"answered", "failed"}
            BY <3>2, <1>7 DEF handler_unlocks, Finished
      <4> QED BY <1>4, <1>8, <4>1 DEF WorksOn
    <3> QED BY <1>6, <3>1, <3>2
  <2>2. WorkKept(n)
        BY <1>3, <1>4, <1>8, <2>1, WorkElse
  <2>3. RowsKept(n)
    <3>1. CASE delete_device_row(c)
      <4>1. job[c].op # "hello"
            BY <1>3, <1>4, <3>1 DEF Around, Jobs
      <4>2. NameOf[job[c].row] # n
            BY <1>4, <1>8, <3>1, <4>1 DEF WorksOn
      <4> QED BY <1>1, <1>4, <3>1, <4>2 DEF RowsKept, TypeInv
    <3>2. CASE ~delete_device_row(c)
          BY <1>4, <3>2 DEF RowsKept
    <3> QED BY <3>1, <3>2
  <2>4. Keeps(n)
        BY <1>1, <1>2, <1>5, <2>2, <2>3, HandlerKeeps
  <2> QED BY <1>1, <2>4, Frame
<1>9. CASE WorksOn(c, n) /\ at'[c] = "delete"
  <2>1. at[c] \in {"answered", "failed"} /\ db' = db
        BY <1>4, <1>7, <1>9 DEF handler_unlocks, Finished, delete_device_row
  <2>2. WorksOn(c, n)' /\ ~Undone(c) /\ ~Undone(c)'
        BY <1>4, <1>9, <2>1 DEF WorksOn, Undone
  <2>3. ASSUME NEW u \in Task, u # c
        PROVE  (WorksOn(u, n)' <=> WorksOn(u, n)) /\ (Undone(u)' <=> Undone(u))
        BY <1>3, <1>4, <2>3 DEF WorksOn, Undone
  <2>4. WorkKept(n) /\ RowsKept(n)
        BY <1>4, <1>9, <2>1, <2>2, <2>3 DEF WorkKept, RowsKept
  <2>5. Keeps(n)
        BY <1>1, <1>2, <1>5, <2>4, HandlerKeeps
  <2> QED BY <1>1, <2>5, Frame
<1>10. CASE WorksOn(c, n) /\ at'[c] = "idle"
  <2>1. handler_unlocks(c) \/ delete_device_row(c)
        BY <1>10 DEF delete_device_fails, client_disconnects, Mixes, WorksOn
  <2>2. \A u \in Task : ~WorksOn(u, n)'
    <3>1. ~WorksOn(c, n)'
          BY <1>10 DEF WorksOn
    <3>2. \A u \in Task : u # c => ~WorksOn(u, n)
          BY <1>3, <1>10 DEF NameInv, Sole
    <3>3. \A u \in Task : u # c => (WorksOn(u, n)' <=> WorksOn(u, n))
          BY <1>3 DEF WorksOn
    <3> QED BY <3>1, <3>2, <3>3
  <2>3. \A x \in Row : Live(x)' => Live(x) /\ db'[x] = db[x]
        BY <1>1, <1>4, <1>r DEF Live, TypeInv
  <2>4. OneRow(n)'
        BY <2>3 DEF NameInv, OneRow
  <2>5. ASSUME conn' = "open"
        PROVE  /\ ~CloudWriting(n)' /\ ~Waits(n)'
               /\ HasRow(n)' <=> edge'[n] # NoDevice
               /\ \A x \in Row : Live(x)' /\ NameOf[x] = n =>
                     /\ edge'[n].object = ObjectOf(x)
                     /\ Means(edge'[n]) = Means(create_device_params(x, db'[x]))
    <3>1. conn = "open" /\ Apart(n) /\ Carries(c, n) /\ Busy(n)
          BY <1>3, <1>10, <2>5, BusyWorks DEF NameInv
    <3>2. ~CloudWriting(n)'
          BY <1>1, <1>5, <3>1, CloudParts, CloudPartsNext
          DEF Apart, OksKept, EventsKept, WritesKept, ReaderKept
    <3>3. ~Waits(n)'
          BY <1>1, <1>3 DEF Starting, Waits
    <3>4. ~Undone(c)
          BY <2>1 DEF Undone, handler_unlocks, delete_device_row, Finished
    <3>5. /\ Live(job[c].row) /\ NameOf[job[c].row] = n
          /\ \A x \in Row : Live(x) /\ NameOf[x] = n => x = job[c].row
          BY <1>10, <1>r, <3>1 DEF Carries, WorksOn, NameInv, OneRow
    <3>6. CASE delete_device_row(c)
      <4>1. edge[n] = NoDevice
            BY <1>3, <1>4, <1>10, <3>1, <3>4, <3>6 DEF Carries, Around, Jobs
      <4>2. db'[job[c].row] = NoRow
            BY <1>1, <1>4, <1>r, <3>6 DEF TypeInv
      <4>3. \A x \in Row : NameOf[x] = n => ~Live(x)'
            BY <2>3, <3>5, <4>2 DEF Live
      <4> QED BY <1>3, <3>2, <3>3, <4>1, <4>3 DEF HasRow
    <3>7. CASE handler_unlocks(c) /\ ~delete_device_row(c)
      <4>1. db' = db /\ edge' = edge
            BY <1>3, <1>4, <3>7
      <4>2. job[c].op # "device_unregister"
        <5>1. at' = [at EXCEPT ![c] = IF job[c].op = "device_unregister" THEN "delete" ELSE "idle"]
              BY <3>7 DEF handler_unlocks, Go
        <5> QED BY <1>1, <1>3, <1>10, <5>1 DEF TypeInv
      <4>3. /\ edge[n] = create_device_params(job[c].row, job[c].st)
            /\ db[job[c].row] = job[c].st /\ job[c].st \in JsonState
            BY <1>1, <1>3, <1>10, <3>1, <3>4, <4>2 DEF Carries, TypeInv, Job
      <4>4. edge[n] # NoDevice /\ edge[n].object = ObjectOf(job[c].row)
            BY <1>r, <4>3, ParamsMean
      <4>5. HasRow(n)' /\ \A x \in Row : Live(x)' /\ NameOf[x] = n => x = job[c].row
            BY <1>r, <2>3, <3>5, <4>1 DEF HasRow, Live
      <4> QED BY <3>2, <3>3, <4>1, <4>3, <4>4, <4>5
    <3> QED BY <2>1, <3>6, <3>7
  <2> QED BY <2>2, <2>4, <2>5, RestingName
<1> QED BY <1>6, <1>8, <1>9, <1>10

LEMMA HandlerName ==
    ASSUME Around, TypeInv', NEW n \in Name \ mixed', NameInv(n), NEW c \in Client, Handler(c)
    PROVE  NameInv(n)'
BY StartsName, LocksName, EndsName DEF Handler

(* Nothing is known to Edge when the rows are counted. *)
LEMMA CountsName ==
    ASSUME Around, TypeInv', NEW n \in Name, OneRow(n), initialize_counts
    PROVE  NameInv(n)'
<1> USE DEF readerVars, sendVars
<1>1. TypeInv /\ Starting /\ Quiet
      BY DEF Around, AnswerInv
<1>2. Early /\ ~Serving
      BY DEF initialize_counts, Early, Serving
<1>3. /\ at'[Main] = "init" /\ \A c \in Client : at'[c] = "idle"
      /\ UNCHANGED <<db, edge, fromEdge, reader, events, toEdge>>
      BY <1>1, <1>2, Tasks DEF initialize_counts, Go, TypeInv, Starting
<1>4. \A u \in Task : ~WorksOn(u, n)'
      BY <1>3, Tasks DEF WorksOn
<1>5. OneRow(n)'
      BY <1>3 DEF OneRow, Live
<1>6. edge'[n] = NoDevice
      BY <1>1, <1>2, <1>3 DEF Quiet
<1>7. ~CloudWriting(n)'
  <2>1. None(fromEdge, WritesOn(n)) /\ None(toEdge, OksOn(n))
        BY <1>1, <1>2 DEF Quiet, None, WritesOn, OksOn
  <2>2. None(events, EventsOn(n)) /\ ~Forwards(n)'
        BY <1>1, <1>2, <1>3 DEF Quiet, None, Forwards
  <2> QED BY <1>3, <2>1, <2>2, CloudPartsNext
<1>8. CASE Waits(n)'
      BY <1>4, <1>5, <1>6, <1>7, <1>8, WaitingName
<1>9. CASE ~Waits(n)'
  <2>1. \A r \in Row : NameOf[r] = n => ~Live(r)'
    <3>1. ASSUME NEW r \in Row, NameOf[r] = n, Live(r) PROVE FALSE
      <4>1. again' /\ r \in todo'
            BY <3>1 DEF initialize_counts
      <4> QED BY <3>1, <4>1, <1>9 DEF Waits
    <3> QED BY <3>1, <1>3 DEF Live
  <2> QED BY <1>4, <1>5, <1>6, <1>7, <1>9, <2>1, RestingName DEF HasRow
<1> QED BY <1>8, <1>9

(* A row is announced. *)
LEMMA AnnouncesName ==
    ASSUME Around, TypeInv', NEW n \in Name \ mixed', NameInv(n), initialize_device
    PROVE  NameInv(n)'
<1> USE DEF readerVars, sendVars
<1>1. TypeInv /\ Starting /\ FirstRows
      BY DEF Around, AnswerInv
<1>2. PICK r \in todo :
        /\ db' = IF again THEN db ELSE [db EXCEPT ![r] = Default[r]]
        /\ todo' = todo \ {r}
        /\ register_device(Main, r, db'[r])
        /\ mixed' = IF again THEN mixed
                    ELSE mixed \cup {NameOf[x] : x \in {y \in Row \ {r} :
                                         Live(y) /\ NameOf[y] = NameOf[r]}}
      BY DEF initialize_device
<1>3. r \in Row /\ db'[r] \in JsonState
      BY <1>1, <1>2, AnnouncedTyped
<1>4. UNCHANGED <<conn, edge, fromEdge, reader, events, again>> /\ at[Main] = "init" /\ ~Serving
      BY DEF initialize_device, Serving
<1>5. /\ OksKept(n)
      /\ conn' = "open" => /\ at'[Main] = "await"
                          /\ Has(toEdge', "request", job'[Main].id)
      /\ at'[Main] \in {"await", "failed"}
      /\ job'[Main].op = "device_register" /\ job'[Main].row = r /\ job'[Main].st = db'[r]
      /\ \A u \in Task : u # Main => at'[u] = at[u] /\ job'[u] = job[u]
  <2>1. send_request(Main, "device_register", r, db'[r]) /\ "device_register" \in Op
        BY <1>2 DEF register_device, Op
  <2> QED BY <1>1, <1>3, <2>1, Tasks, SendFacts
<1>6. EventsKept(n) /\ WritesKept(n) /\ ReaderKept(n)
      BY <1>4, QueuesSame
<1>7. \A u \in Task : u # Main => at[u] = "idle"
      BY <1>1, <1>4, Tasks DEF Starting
<1>8. \A u \in Task : ~WorksOn(u, n)
      BY <1>4, <1>7 DEF WorksOn
<1>9. ~Early /\ ~Early'
      BY <1>4, <1>5 DEF Early
<1>10. CASE NameOf[r] # n
  <2>1. ~WorksOn(Main, n)'
        BY <1>5, <1>10 DEF WorksOn
  <2>2. WorkKept(n)
        BY <1>5, <1>7, <1>8, <2>1, Tasks, WorkElse
  <2>3. RowsKept(n)
        BY <1>1, <1>2, <1>10 DEF RowsKept, TypeInv
  <2>4. Waits(n)' <=> Waits(n)
        BY <1>2, <1>4, <1>10 DEF Waits
  <2>5. Keeps(n)
        BY <1>1, <1>4, <1>5, <1>6, <1>9, <2>2, <2>3, <2>4, StateKept
  <2> QED BY <1>1, <2>5, Frame
<1>11. CASE NameOf[r] = n
  <2>1. WorksOn(Main, n)' /\ \A u \in Task : u # Main => ~WorksOn(u, n)'
        BY <1>5, <1>7, <1>11 DEF WorksOn
  <2>2. ~again => /\ \A x \in Row : NameOf[x] = n => ~Live(x)
                  /\ \A x \in Row : x # r => db'[x] = db[x]
    <3>1. ASSUME ~again, NEW x \in Row, NameOf[x] = n, Live(x) PROVE FALSE
      <4>1. ~Live(r)
            BY <1>1, <3>1 DEF FirstRows
      <4>2. x \in {y \in Row \ {r} : Live(y) /\ NameOf[y] = NameOf[r]}
            BY <1>11, <3>1, <4>1
      <4>3. n \in {NameOf[y] : y \in {z \in Row \ {r} : Live(z) /\ NameOf[z] = NameOf[r]}}
            BY <3>1, <4>2
      <4>4. mixed' = mixed \cup {NameOf[y] : y \in {z \in Row \ {r} :
                                         Live(z) /\ NameOf[z] = NameOf[r]}}
            BY <1>2, <3>1
      <4> QED BY <4>3, <4>4
    <3>2. ~again => \A x \in Row : x # r => db'[x] = db[x]
          BY <1>1, <1>2 DEF TypeInv
    <3> QED BY <3>1, <3>2
  <2>3. OneRow(n)'
    <3>1. CASE again
          BY <1>2, <3>1 DEF NameInv, OneRow, Live
    <3>2. CASE ~again
      <4>1. \A x \in Row : NameOf[x] = n /\ Live(x)' => x = r
            BY <2>2, <3>2 DEF Live
      <4> QED BY <4>1 DEF OneRow
    <3> QED BY <3>1, <3>2
  <2>4. ~Waits(n)'
    <3>1. ASSUME again, NEW x \in todo, x # r, NameOf[x] = n PROVE FALSE
      <4>1. Live(x) /\ Live(r) /\ x \in Row
            BY <1>1, <1>2, <3>1 DEF Starting, TypeInv
      <4> QED BY <3>1, <4>1, <1>3, <1>11 DEF NameInv, OneRow
    <3> QED BY <1>2, <1>4, <3>1 DEF Waits
  <2>5. ASSUME conn' = "open" PROVE ~CloudWriting(n)' /\ Carries(Main, n)'
    <3>1. Apart(n) /\ Settled(n) /\ conn = "open"
          BY <1>4, <2>5 DEF NameInv
    <3>2. edge[n] = NoDevice /\ ~CloudWriting(n)
      <4>1. CASE again
        <5>1. Waits(n)
              BY <1>11, <4>1 DEF Waits
        <5> QED BY <3>1, <5>1 DEF Apart
      <4>2. CASE ~again
        <5>1. ~HasRow(n) /\ ~Waits(n) /\ ~Busy(n)
              BY <1>8, <2>2, <4>2, BusyWorks DEF HasRow, Waits
        <5>2. edge[n] = NoDevice /\ (CloudWriting(n) => edge[n].object = "LightControl")
              BY <1>9, <3>1, <5>1 DEF Settled
        <5> QED BY <5>2 DEF NoDevice
      <4> QED BY <4>1, <4>2
    <3>3. ~CloudWriting(n)'
          BY <1>1, <1>5, <1>6, <3>2, CloudParts, CloudPartsNext
          DEF OksKept, EventsKept, WritesKept, ReaderKept
    <3>4. Undone(Main)'
          BY <1>5, <2>5 DEF Undone
    <3>5. Live(r)'
          BY <1>3, States DEF Live
    <3>6. Carries(Main, n)'
          BY <1>4, <1>5, <3>2, <3>4, <3>5 DEF Carries, Live
    <3> QED BY <3>3, <3>6
  <2> QED BY <2>1, <2>3, <2>4, <2>5, Tasks, WorkingName
<1> QED BY <1>10, <1>11

(* A row that was found is registered, and published next. *)
LEMMA PublishesName ==
    ASSUME Around, TypeInv', NEW n \in Name, NameInv(n), initialize_publishes
    PROVE  NameInv(n)'
<1> USE DEF readerVars, mainVars
<1>1. TypeInv /\ Starting
      BY DEF Around, AnswerInv
<1>2. /\ at[Main] = "answered" /\ job[Main].op = "device_register" /\ ~Serving
      /\ UNCHANGED <<db, conn, edge, fromEdge, reader, events, todo, again>>
      BY DEF initialize_publishes, Serving
<1>3. job[Main].row \in Row /\ job[Main].st \in JsonState /\ "write" \in Op
      BY <1>1, Tasks DEF TypeInv, Job, Op
<1>4. /\ OksKept(n)
      /\ conn' = "open" => /\ at'[Main] = "await"
                          /\ Has(toEdge', "request", job'[Main].id)
      /\ at'[Main] \in {"await", "failed"} /\ job'[Main].op = "write"
      /\ job'[Main].row = job[Main].row /\ job'[Main].st = job[Main].st
      /\ \A u \in Task : u # Main => at'[u] = at[u] /\ job'[u] = job[u]
  <2>1. send_request(Main, "write", job[Main].row, job[Main].st)
        BY DEF initialize_publishes, write_device_state
  <2> QED BY <1>1, <1>3, <2>1, Tasks, SendFacts
<1>5. EventsKept(n) /\ WritesKept(n) /\ ReaderKept(n) /\ RowsKept(n) /\ (Waits(n)' <=> Waits(n))
      BY <1>2, QueuesSame
<1>6. \A u \in Task : u # Main => at[u] = "idle"
      BY <1>1, <1>2, Tasks DEF Starting
<1>7. \A u \in Task : u # Main => ~WorksOn(u, n)'
      BY <1>4, <1>6 DEF WorksOn
<1>8. ~Early /\ ~Early'
      BY <1>2, <1>4 DEF Early
<1>9. CASE NameOf[job[Main].row] # n
  <2>1. ~WorksOn(Main, n) /\ ~WorksOn(Main, n)'
        BY <1>4, <1>9 DEF WorksOn
  <2>2. WorkKept(n)
        BY <1>4, <1>6, <2>1, Tasks, WorkElse
  <2>3. Keeps(n)
        BY <1>1, <1>2, <1>4, <1>5, <1>8, <2>2, StateKept
  <2> QED BY <1>1, <2>3, Frame
<1>10. CASE NameOf[job[Main].row] = n
  <2>1. WorksOn(Main, n) /\ WorksOn(Main, n)'
        BY <1>2, <1>4, <1>10 DEF WorksOn
  <2>2. OneRow(n)'
        BY <1>2 DEF NameInv, OneRow, Live
  <2>3. ASSUME conn' = "open" PROVE ~CloudWriting(n)' /\ ~Waits(n)' /\ Carries(Main, n)'
    <3>1. Apart(n) /\ Carries(Main, n) /\ Busy(n)
          BY <1>2, <2>1, <2>3, Tasks, BusyWorks DEF NameInv
    <3>2. ~CloudWriting(n) /\ ~Waits(n)
          BY <3>1 DEF Apart
    <3>3. ~CloudWriting(n)'
          BY <1>1, <1>4, <1>5, <3>2, CloudParts, CloudPartsNext
          DEF OksKept, EventsKept, WritesKept, ReaderKept
    <3>4. ~Undone(Main) /\ Undone(Main)'
          BY <1>2, <1>4, <2>3 DEF Undone
    <3>5. /\ Live(job[Main].row) /\ db[job[Main].row] = job[Main].st
          /\ edge[n] = create_device_params(job[Main].row, job[Main].st)
          BY <1>2, <2>1, <3>1, <3>4 DEF Carries
    <3>6. edge[n] # NoDevice /\ edge[n].object = ObjectOf(job[Main].row)
          BY <1>3, <3>5, ParamsMean
    <3>7. Carries(Main, n)'
          BY <1>2, <1>4, <3>4, <3>5, <3>6 DEF Carries, Live
    <3> QED BY <1>5, <3>2, <3>3, <3>7
  <2> QED BY <1>7, <2>1, <2>2, <2>3, Tasks, WorkingName
<1> QED BY <1>9, <1>10

(* Main has announced a row. *)
LEMMA NextName ==
    ASSUME Around, TypeInv', NEW n \in Name, NameInv(n), initialize_next
    PROVE  NameInv(n)'
<1> USE DEF readerVars, sendVars, mainVars
<1>1. TypeInv /\ Starting
      BY DEF Around, AnswerInv
<1>2. /\ at[Main] \in {"answered", "failed"} /\ job[Main].op # "hello" /\ ~Serving
      /\ UNCHANGED <<db, conn, edge, fromEdge, toEdge, reader, events, todo, again, job>>
      BY DEF initialize_next, Serving, Finished
<1>3. at'[Main] = "init" /\ \A u \in Task : u # Main => at'[u] = at[u] /\ at[u] = "idle"
      BY <1>1, <1>2, Tasks DEF initialize_next, Go, TypeInv, Starting
<1>4. \A u \in Task : ~WorksOn(u, n)'
      BY <1>3 DEF WorksOn
<1>5. ~Early /\ ~Early'
      BY <1>2, <1>3 DEF Early
<1>6. /\ EventsKept(n) /\ WritesKept(n) /\ ReaderKept(n) /\ RowsKept(n) /\ OksKept(n)
      /\ Waits(n)' <=> Waits(n)
      BY <1>2, QueuesSame
<1>7. CASE ~WorksOn(Main, n)
  <2>1. WorkKept(n)
        BY <1>2, <1>3, <1>4, <1>7, Tasks, WorkElse
  <2>2. Keeps(n)
        BY <1>1, <1>2, <1>5, <1>6, <2>1, StateKept
  <2> QED BY <1>1, <2>2, Frame
<1>8. CASE WorksOn(Main, n)
  <2>1. OneRow(n)'
        BY <1>2 DEF NameInv, OneRow, Live
  <2>2. ASSUME conn' = "open"
        PROVE  /\ ~CloudWriting(n)' /\ ~Waits(n)'
               /\ HasRow(n)' <=> edge'[n] # NoDevice
               /\ \A x \in Row : Live(x)' /\ NameOf[x] = n =>
                     /\ edge'[n].object = ObjectOf(x)
                     /\ Means(edge'[n]) = Means(create_device_params(x, db'[x]))
    <3>1. conn = "open" /\ Apart(n) /\ Carries(Main, n) /\ Busy(n) /\ OneRow(n)
          BY <1>2, <1>8, <2>2, Tasks, BusyWorks DEF NameInv
    <3>2. ~CloudWriting(n) /\ ~Waits(n)
          BY <3>1 DEF Apart
    <3>3. ~CloudWriting(n)'
          BY <1>1, <1>6, <3>2, CloudParts, CloudPartsNext
          DEF OksKept, EventsKept, WritesKept, ReaderKept
    <3>4. at[Main] = "answered" /\ job[Main].op # "device_unregister"
          BY <1>2, <3>1, Tasks DEF Around, Fails, Jobs
    <3>5. ~Undone(Main)
          BY <3>4 DEF Undone
    <3>6. job[Main].row \in Row /\ job[Main].st \in JsonState /\ NameOf[job[Main].row] = n
          BY <1>1, <1>8, Tasks DEF TypeInv, Job, WorksOn
    <3>7. /\ Live(job[Main].row) /\ db[job[Main].row] = job[Main].st
          /\ edge[n] = create_device_params(job[Main].row, job[Main].st)
          BY <1>8, <3>1, <3>4, <3>5 DEF Carries
    <3>8. edge[n] # NoDevice /\ edge[n].object = ObjectOf(job[Main].row)
          BY <3>6, <3>7, ParamsMean
    <3>9. \A x \in Row : Live(x) /\ NameOf[x] = n => x = job[Main].row
          BY <3>1, <3>6, <3>7 DEF OneRow
    <3>10. HasRow(n)' /\ \A x \in Row : Live(x)' /\ NameOf[x] = n => x = job[Main].row
          BY <1>2, <3>6, <3>7, <3>9 DEF HasRow, Live
    <3> QED BY <1>2, <1>6, <3>2, <3>3, <3>7, <3>8, <3>10
  <2> QED BY <1>4, <2>1, <2>2, RestingName
<1> QED BY <1>7, <1>8

(* Main begins to serve, or nothing happens to rows and devices. *)
LEMMA ServesName ==
    ASSUME Around, TypeInv', NEW n \in Name, NameInv(n),
           main_serves \/ ensure_pt_connected \/ reader_breaks \/ UNCHANGED vars
    PROVE  NameInv(n)'
<1> USE DEF readerVars, sendVars, mainVars
<1>1. TypeInv /\ Starting
      BY DEF Around, AnswerInv
<1>2. UNCHANGED <<db, conn, edge, fromEdge, toEdge, events, todo, again, job>>
      BY DEF main_serves, ensure_pt_connected, reader_breaks, vars
<1>3. EventsKept(n) /\ WritesKept(n) /\ RowsKept(n) /\ OksKept(n) /\ (Waits(n)' <=> Waits(n))
      BY <1>2, QueuesSame
<1>4. ReaderKept(n)
  <2>1. UNCHANGED reader \/ (reader.at = "reading" /\ reader' = [reader EXCEPT !.at = "ended"])
        BY DEF main_serves, ensure_pt_connected, reader_breaks, vars
  <2>2. reader'.at # "forwarding" \/ UNCHANGED reader
        BY <1>1, <2>1 DEF TypeInv
  <2> QED BY <2>1, <2>2 DEF ReaderKept, Forwards
<1>5. WorkKept(n) /\ (Early' <=> Early)
  <2>1. CASE main_serves
    <3>1. /\ at[Main] = "init" /\ at'[Main] = "serving"
          /\ \A u \in Task : u # Main => at'[u] = at[u] /\ job'[u] = job[u]
          BY <1>1, <1>2, <2>1, Tasks DEF main_serves, Go, TypeInv
    <3>2. ~WorksOn(Main, n) /\ ~WorksOn(Main, n)' /\ ~Early /\ ~Early'
          BY <3>1 DEF WorksOn, Early
    <3>3. WorkKept(n)
          BY <1>2, <3>1, <3>2, Tasks, WorkElse
    <3> QED BY <3>2, <3>3
  <2>2. CASE ensure_pt_connected \/ reader_breaks \/ UNCHANGED vars
    <3>1. UNCHANGED <<at, job>>
          BY <2>2 DEF ensure_pt_connected, reader_breaks, vars
    <3> QED BY <1>2, <3>1, WorkSame, QueuesSame
  <2> QED BY <2>1, <2>2
<1>6. Keeps(n)
      BY <1>1, <1>2, <1>3, <1>4, <1>5, StateKept
<1> QED BY <1>1, <1>6, Frame

(* Main connects: no request has been answered yet. *)
LEMMA ConnectsName ==
    ASSUME Around, Starting', Quiet', NEW n \in Name, NameInv(n), connect_and_register
    PROVE  NameInv(n)'
<1>1. TypeInv
      BY DEF Around, AnswerInv
<1>2. /\ at'[Main] \in {"await", "failed"} /\ job'[Main].op = "hello"
  <2>1. /\ send_request(Main, "hello", NoJob.row, NoJob.st) /\ "hello" \in Op
        /\ NoJob.row \in Row /\ NoJob.st \in JsonState
        BY FreshTyped DEF connect_and_register, Op
  <2> QED BY <1>1, <2>1, Tasks, SendFacts
<1>3. Early'
      BY <1>2 DEF Early
<1>4. OneRow(n)'
      BY DEF connect_and_register, NameInv, OneRow, Live
<1> QED BY <1>3, <1>4, EarlyName

(* An answer is passed on: what it answers has been done before. *)
LEMMA RoutesName ==
    ASSUME Around, TypeInv', NEW n \in Name, NameInv(n), reader_routes
    PROVE  NameInv(n)'
<1> USE DEF mainVars
<1>1. TypeInv /\ Ids
      BY DEF Around, AnswerInv
<1>2. UNCHANGED <<db, conn, edge, toEdge, reader, events, todo, again, job>>
      BY DEF reader_routes
<1> DEFINE i == Head(fromEdge).id
<1>3. /\ fromEdge # <<>> /\ Head(fromEdge).kind = "response" /\ fromEdge' = Tail(fromEdge)
      /\ at' = [t \in Task |-> IF i \in pending /\ at[t] = "await" /\ job[t].id = i
                               THEN "answered" ELSE at[t]]
      BY DEF reader_routes, Head1
<1>4. fromEdge \in Seq(FromMsg) /\ Head(fromEdge) \in FromMsg
      BY <1>1, <1>3, Queues DEF TypeInv
<1>5. ~Has(toEdge, "request", i)
  <2>1. i \in Nat
        BY <1>3, <1>4, FromTyped
  <2>2. Has(fromEdge, "response", i)
    <3>1. 1 \in DOMAIN fromEdge /\ fromEdge[1] = Head(fromEdge)
          BY <1>3, <1>4, Queues
    <3> QED BY <1>3, <3>1 DEF Has
  <2> QED BY <1>1, <2>1, <2>2 DEF Ids
<1> HIDE DEF i
<1>6. WorkKept(n)
  <2> SUFFICES ASSUME NEW t \in Task
               PROVE  (WorksOn(t, n)' <=> WorksOn(t, n)) /\ (Undone(t)' <=> Undone(t))
      BY <1>2 DEF WorkKept
  <2>1. CASE at'[t] = at[t]
        BY <1>2, <2>1 DEF WorksOn, Undone
  <2>2. CASE at[t] = "await" /\ job[t].id = i /\ at'[t] = "answered"
        BY <1>2, <1>5, <2>2 DEF WorksOn, Undone
  <2> QED BY <1>3, <2>1, <2>2
<1>7. Early' <=> Early
      BY <1>2, <1>3, Tasks DEF Early
<1>8. WritesKept(n)
  <2>1. None(fromEdge, WritesOn(n)) => None(Tail(fromEdge), WritesOn(n))
        BY <1>3, <1>4, LastTail
  <2> QED BY <1>3, <2>1 DEF WritesKept
<1>9. /\ EventsKept(n) /\ ReaderKept(n) /\ RowsKept(n) /\ OksKept(n)
      /\ Waits(n)' <=> Waits(n)
      BY <1>2, QueuesSame
<1>10. Keeps(n)
       BY <1>1, <1>2, <1>6, <1>7, <1>8, <1>9, StateKept
<1> QED BY <1>1, <1>10, Frame

(* A write is confirmed, and will come to Edge and to the consumer alike. *)
LEMMA ConfirmsName ==
    ASSUME Around, TypeInv', NEW n \in Name, NameInv(n), reader_confirms
    PROVE  NameInv(n)'
<1> USE DEF mainVars
<1>1. TypeInv
      BY DEF Around, AnswerInv
<1>2. UNCHANGED <<db, conn, edge, events, todo, again, at, job>> /\ reader.at = "reading"
      BY DEF reader_confirms
<1> DEFINE e == Head(fromEdge).event
           m == [kind |-> "ok", event |-> e]
<1>3. /\ fromEdge # <<>> /\ Head(fromEdge).kind = "write" /\ fromEdge' = Tail(fromEdge)
      /\ toEdge' = IF conn = "open" THEN Append(toEdge, m) ELSE toEdge
      /\ reader' = [at |-> "forwarding", event |-> e]
      BY DEF reader_confirms, Head1
<1>4. /\ fromEdge \in Seq(FromMsg) /\ Head(fromEdge) \in FromMsg /\ toEdge \in Seq(ToMsg)
      /\ events \in Seq(Event)
      BY <1>1, <1>3, Queues DEF TypeInv
<1>5. e \in Event
      BY <1>3, <1>4, FromTyped
<1>6. e.name \in Name /\ m \in ToMsg
      BY <1>5, EventTyped
<1>7. m.kind = "ok" /\ m.event = e /\ reader'.at = "forwarding" /\ reader'.event = e
      BY <1>3
<1>8. e.name = n => Head(fromEdge) \in WritesOn(n)
      BY <1>3, <1>4 DEF WritesOn
<1> HIDE DEF m, e
<1>9. \A i : Has(toEdge', "request", i) <=> Has(toEdge, "request", i)
  <2>1. CASE conn = "open"
        BY <1>3, <1>4, <1>6, <1>7, <2>1, HasAppend
  <2>2. CASE conn # "open"
        BY <1>3, <2>2
  <2> QED BY <2>1, <2>2
<1>10. /\ WorkKept(n) /\ RowsKept(n) /\ EventsKept(n) /\ (Waits(n)' <=> Waits(n))
       /\ Early' <=> Early
       BY <1>2, <1>9, WorkSame, QueuesSame
<1>11. None(fromEdge, WritesOn(n)) => None(Tail(fromEdge), WritesOn(n))
       BY <1>3, <1>4, LastTail
<1>12. CASE e.name # n
  <2>1. m \notin OksOn(n)
        BY <1>7, <1>12 DEF OksOn
  <2>2. OksKept(n)
        BY <1>1, <1>3, <1>6, <2>1, OksAppended
  <2>3. ReaderKept(n)
        BY <1>2, <1>7, <1>12 DEF ReaderKept, Forwards
  <2>4. WritesKept(n)
        BY <1>3, <1>11 DEF WritesKept
  <2>5. Keeps(n)
        BY <1>1, <1>2, <1>10, <2>2, <2>3, <2>4, StateKept
  <2> QED BY <1>1, <2>5, Frame
<1>13. CASE e.name = n
  <2>1. \A r \in Row : NameOf[r] = n => (Live(r)' <=> Live(r))
        BY <1>2 DEF Live
  <2>2. CloudWriting(n)
    <3>1. ~None(fromEdge, WritesOn(n))
          BY <1>3, <1>4, <1>8, <1>13, LastTail
    <3> QED BY <1>1, <3>1, CloudParts
  <2>3. ASSUME conn = "open" PROVE Meet(n)'
    <3>1. PICK v \in JsonState : v = decode(e.bytes)
          BY States
    <3>2. m \in OksTo(n, v) /\ OksTo(n, v) \subseteq OksOn(n)
          BY <1>6, <1>7, <1>13, <3>1 DEF OksTo, OksOn
    <3>3. Last(toEdge', OksOn(n), OksTo(n, v)) /\ ~None(toEdge', OksOn(n))
      <4>1. Last(Append(toEdge, m), OksOn(n), OksTo(n, v))
            BY <1>4, <1>6, <3>2, LastAppend
      <4>2. ~None(Append(toEdge, m), OksOn(n))
            BY <1>4, <1>6, <3>2, LastAppend
      <4> QED BY <1>3, <2>3, <4>1, <4>2
    <3>4. EdgeWill(n, v)'
          BY <3>3 DEF EdgeWill
    <3>5. DbWill(n, v)'
          BY <1>7, <1>13, <3>1 DEF DbWill
    <3> QED BY <3>1, <3>4, <3>5 DEF Meet
  <2>4. Keeps(n)
        BY <1>2, <1>10, <2>1, <2>2, <2>3 DEF Keeps
  <2> QED BY <1>1, <2>4, Frame
<1> QED BY <1>12, <1>13

(* A write goes into the channel. *)
LEMMA ForwardsName ==
    ASSUME Around, TypeInv', NEW n \in Name, NameInv(n), reader_forwards
    PROVE  NameInv(n)'
<1> USE DEF sendVars, mainVars
<1>1. TypeInv
      BY DEF Around, AnswerInv
<1>2. /\ UNCHANGED <<db, conn, edge, fromEdge, toEdge, todo, again, at, job>>
      /\ reader.at = "forwarding" /\ events' = Append(events, reader.event)
      /\ reader' = [reader EXCEPT !.at = "reading"]
      BY DEF reader_forwards
<1>3. reader.event \in Event /\ events \in Seq(Event)
      BY <1>1 DEF TypeInv
<1>4. ~Forwards(n)'
  <2>1. reader'.at = "reading"
        BY <1>1, <1>2 DEF TypeInv
  <2> QED BY <2>1 DEF Forwards
<1>5. /\ WorkKept(n) /\ RowsKept(n) /\ OksKept(n) /\ WritesKept(n) /\ (Waits(n)' <=> Waits(n))
      /\ Early' <=> Early
      BY <1>2, WorkSame, QueuesSame
<1>6. CASE reader.event.name # n
  <2>1. EventsKept(n)
    <3>1. reader.event \notin EventsOn(n)
          BY <1>6 DEF EventsOn
    <3> QED BY <1>1, <1>2, <1>3, <3>1, EventsAppended
  <2>2. ReaderKept(n)
        BY <1>4, <1>6 DEF ReaderKept, Forwards
  <2>3. Keeps(n)
        BY <1>1, <1>2, <1>5, <2>1, <2>2, StateKept
  <2> QED BY <1>1, <2>3, Frame
<1>7. CASE reader.event.name = n
  <2>1. \A r \in Row : NameOf[r] = n => (Live(r)' <=> Live(r))
        BY <1>2 DEF Live
  <2>2. CloudWriting(n)
        BY <1>2, <1>7 DEF CloudWriting
  <2>3. ASSUME Meet(n) PROVE Meet(n)'
    <3>1. PICK v \in JsonState : EdgeWill(n, v) /\ DbWill(n, v)
          BY <2>3 DEF Meet
    <3>2. decode(reader.event.bytes) = v
          BY <1>2, <1>7, <3>1 DEF DbWill
    <3>3. reader.event \in EventsTo(n, v) /\ EventsTo(n, v) \subseteq EventsOn(n)
          BY <1>3, <1>7, <3>2 DEF EventsTo, EventsOn
    <3>4. Last(events', EventsOn(n), EventsTo(n, v)) /\ ~None(events', EventsOn(n))
      <4>1. Last(Append(events, reader.event), EventsOn(n), EventsTo(n, v))
            BY <1>3, <3>3, LastAppend
      <4>2. ~None(Append(events, reader.event), EventsOn(n))
            BY <1>3, <3>3, LastAppend
      <4> QED BY <1>2, <4>1, <4>2
    <3>5. DbWill(n, v)'
          BY <1>4, <3>4 DEF DbWill, Forwards
    <3>6. EdgeWill(n, v)'
          BY <1>2, <3>1 DEF EdgeWill
    <3> QED BY <3>5, <3>6 DEF Meet
  <2>4. Keeps(n)
        BY <1>2, <1>5, <2>1, <2>2, <2>3 DEF Keeps
  <2> QED BY <1>1, <2>4, Frame
<1> QED BY <1>6, <1>7

(* The consumer stores a write, which Edge has taken or is to take. *)
LEMMA AppliesName ==
    ASSUME Around, TypeInv', NEW n \in Name \ mixed', NameInv(n), consumer_applies
    PROVE  NameInv(n)'
<1> USE DEF sendVars, mainVars
<1>1. TypeInv
      BY DEF Around, AnswerInv
<1> DEFINE e == Head(events)
           rows == {r \in Row : Live(r) /\ NameOf[r] = e.name}
<1>2. /\ UNCHANGED <<conn, edge, fromEdge, toEdge, reader, todo, again, at, job>>
      /\ events # <<>> /\ events' = Tail(events)
      /\ db' = [r \in Row |-> IF r \in rows \cap Recovered /\ e.object = "LightControl"
                              THEN decode(e.bytes) ELSE db[r]]
      /\ mixed' = IF ~(rows \subseteq Recovered) THEN mixed \cup {e.name} ELSE mixed
      BY DEF consumer_applies, MixesIf
<1>3. events \in Seq(Event) /\ e \in Event
      BY <1>1, <1>2, Queues DEF TypeInv
<1>4. /\ WorkKept(n) /\ OksKept(n) /\ WritesKept(n) /\ ReaderKept(n)
      /\ Waits(n)' <=> Waits(n)
      /\ Early' <=> Early
      BY <1>2, WorkSame, QueuesSame
<1>5. \A r \in Row : Live(r)' <=> Live(r)
  <2>1. decode(e.bytes) # NoRow
        BY States
  <2> QED BY <1>2, <2>1 DEF Live
<1>6. CASE e.name # n
  <2>1. RowsKept(n)
        BY <1>2, <1>6 DEF RowsKept
  <2>2. e \notin EventsOn(n)
        BY <1>6 DEF EventsOn
  <2>3. EventsKept(n)
        BY <1>1, <1>2, <2>2, EventsTailed
  <2>4. Keeps(n)
        BY <1>1, <1>2, <1>4, <2>1, <2>3, StateKept
  <2> QED BY <1>1, <2>4, Frame
<1>7. CASE e.name = n /\ conn = "open"
  <2>1. rows \subseteq Recovered
        BY <1>2, <1>7
  <2>2. e \in EventsOn(n) /\ ~None(events, EventsOn(n))
    <3>1. e \in EventsOn(n)
          BY <1>3, <1>7 DEF EventsOn
    <3> QED BY <1>2, <1>3, <3>1, LastTail
  <2>3. CloudWriting(n)
        BY <1>1, <2>2, CloudParts
  <2>4. ~Busy(n)
        BY <1>7, <2>3 DEF NameInv, Apart
  <2>5. ASSUME Meet(n), HasRow(n), ~Early, ~Waits(n) PROVE Meet(n)'
    <3>1. PICK v \in JsonState : EdgeWill(n, v) /\ DbWill(n, v)
          BY <2>5 DEF Meet
    <3>2. EdgeWill(n, v)'
          BY <1>2, <3>1 DEF EdgeWill
    <3>3. CASE Forwards(n)
          BY <1>2, <3>1, <3>2, <3>3 DEF Meet, DbWill, Forwards
    <3>4. CASE ~Forwards(n)
      <4>1. Last(events, EventsOn(n), EventsTo(n, v))
            BY <2>2, <3>1, <3>4 DEF DbWill, Forwards
      <4>2. EventsTo(n, v) \subseteq EventsOn(n)
            BY DEF EventsTo
      <4>3. \/ Last(Tail(events), EventsOn(n), EventsTo(n, v))
            \/ e \in EventsTo(n, v) /\ None(Tail(events), EventsOn(n))
            BY <1>2, <1>3, <4>1, <4>2, LastTail
      <4>4. CASE Last(Tail(events), EventsOn(n), EventsTo(n, v))
        <5>1. ~None(Tail(events), EventsOn(n))
              BY <4>2, <4>4 DEF Last, None
        <5> QED BY <1>2, <3>1, <3>2, <3>4, <4>4, <5>1 DEF Meet, DbWill, Forwards
      <4>5. CASE e \in EventsTo(n, v) /\ None(Tail(events), EventsOn(n))
        <5>1. v = decode(e.bytes) /\ v \in {"on", "off"} /\ e.object = "LightControl"
              BY <1>3, <4>5 DEF EventsTo, decode, Event
        <5>2. \A r \in Row : Live(r) /\ NameOf[r] = n => ObjectOf(r) = "LightControl"
              BY <1>7, <2>3, <2>4, <2>5 DEF NameInv, Settled
        <5>3. ASSUME NEW r \in Row, Live(r)', NameOf[r] = n
              PROVE  Means(create_device_params(r, db'[r])) = v
          <6>1. Live(r) /\ r \in rows /\ r \in Recovered
                BY <1>5, <1>7, <2>1, <5>3
          <6>2. db'[r] = v
                BY <1>2, <5>1, <6>1
          <6> QED BY <5>1, <5>2, <5>3, <6>1, <6>2, <3>1, ParamsMean
        <5>4. RowsSay(n, v)'
              BY <5>3 DEF RowsSay
        <5> QED BY <1>2, <3>1, <3>2, <3>4, <4>5, <5>4 DEF Meet, DbWill, Forwards
      <4> QED BY <4>3, <4>4, <4>5
    <3> QED BY <3>3, <3>4
  <2>6. Keeps(n)
        BY <1>2, <1>4, <1>5, <2>3, <2>4, <2>5 DEF Keeps
  <2> QED BY <1>1, <2>6, Frame
<1>8. CASE conn # "open"
  <2>1. OneRow(n)'
        BY <1>5 DEF NameInv, OneRow
  <2>2. Sole(n)'
        BY <1>2 DEF NameInv, Sole, WorksOn
  <2> QED BY <1>2, <1>8, <2>1, <2>2 DEF NameInv
<1> QED BY <1>6, <1>7, <1>8

LEMMA FailsName ==
    ASSUME Around, TypeInv', NEW n \in Name \ mixed', NameInv(n), consumer_fails
    PROVE  NameInv(n)'
<1> USE DEF sendVars, mainVars
<1>1. TypeInv
      BY DEF Around, AnswerInv
<1>2. /\ UNCHANGED <<db, conn, edge, fromEdge, toEdge, reader, todo, again, at, job>>
      /\ events # <<>> /\ events' = Tail(events) /\ Head(events).name \in mixed'
      BY DEF consumer_fails, Mixes
<1>3. /\ WorkKept(n) /\ OksKept(n) /\ WritesKept(n) /\ ReaderKept(n) /\ RowsKept(n)
      /\ Waits(n)' <=> Waits(n)
      /\ Early' <=> Early
      BY <1>2, WorkSame, QueuesSame
<1>4. EventsKept(n)
  <2>1. Head(events) \notin EventsOn(n)
        BY <1>2 DEF EventsOn
  <2> QED BY <1>1, <1>2, <2>1, EventsTailed
<1>5. Keeps(n)
      BY <1>1, <1>2, <1>3, <1>4, StateKept
<1> QED BY <1>1, <1>5, Frame

(* The cloud writes to a light on which nobody works. *)
LEMMA WritesName ==
    ASSUME Around, TypeInv', NEW n \in Name \ mixed', NameInv(n),
           NEW x \in Name, NEW b \in Payload, cloud_writes(x, b)
    PROVE  NameInv(n)'
<1> USE DEF sendVars, mainVars
<1>1. TypeInv
      BY DEF Around, AnswerInv
<1> DEFINE e == [object |-> "LightControl", name |-> x, bytes |-> b]
           m == [kind |-> "write", event |-> e]
<1>2. /\ UNCHANGED <<db, conn, edge, events, toEdge, reader, todo, again, at, job>>
      /\ conn = "open" /\ edge[x].object = "LightControl" /\ fromEdge' = Append(fromEdge, m)
      /\ mixed' = IF Busy(x) THEN mixed \cup {x} ELSE mixed
      BY DEF cloud_writes, MixesIf
<1>3. /\ WorkKept(n) /\ OksKept(n) /\ EventsKept(n) /\ ReaderKept(n) /\ RowsKept(n)
      /\ Waits(n)' <=> Waits(n)
      /\ Early' <=> Early
      BY <1>2, WorkSame, QueuesSame
<1>4. CASE x # n
  <2>1. e \in Event /\ m.event.name = x
        BY KaasPtAssumption DEF Event, Bytes
  <2>2. m \in FromMsg /\ fromEdge \in Seq(FromMsg)
        BY <1>1, <2>1, EventTyped DEF TypeInv
  <2>3. m \notin WritesOn(n)
        BY <1>4 DEF WritesOn
  <2> HIDE DEF m
  <2>4. WritesKept(n)
        BY <1>2, <2>2, <2>3, LastAppend DEF WritesKept
  <2>5. Keeps(n)
        BY <1>1, <1>2, <1>3, <2>4, StateKept
  <2> QED BY <1>1, <2>5, Frame
<1>5. CASE x = n
  <2>1. ~Busy(n)
        BY <1>2, <1>5
  <2>2. Meet(n) => Meet(n)'
        BY <1>2, <1>3, MeetKept
  <2>3. Keeps(n)
        BY <1>2, <1>3, <1>5, <2>1, <2>2 DEF Keeps, Live
  <2> QED BY <1>1, <2>3, Frame
<1> QED BY <1>4, <1>5

(* Without a connection nothing is promised but that names stay apart. *)
LEMMA ClosesName ==
    ASSUME NEW n, NameInv(n), connection_closes
    PROVE  NameInv(n)'
<1>1. conn' # "open" /\ UNCHANGED <<db, at, job>>
      BY DEF connection_closes
<1>2. OneRow(n)' /\ Sole(n)'
      BY <1>1 DEF NameInv, OneRow, Sole, WorksOn, Live
<1> QED BY <1>1, <1>2 DEF NameInv

(* After a crash a name is apart again unless two rows share it. *)
LEMMA RestartsName ==
    ASSUME NEW n \in Name \ mixed', process_restarts
    PROVE  NameInv(n)'
<1>1. /\ db' = db /\ conn' # "open" /\ mixed' = Shared
      /\ \A t \in Task : at'[t] \in {"connect", "idle"}
      BY FreshTyped DEF process_restarts
<1>2. Sole(n)'
      BY <1>1 DEF Sole, WorksOn
<1> DEFINE R == {r \in Row : Live(r) /\ NameOf[r] = n}
<1>3. ASSUME NEW r \in R, NEW x \in R, r # x PROVE FALSE
  <2>1. IsFiniteSet(R)
        BY KaasPtAssumption, FS_Subset
  <2>2. IsFiniteSet({r, x}) /\ Cardinality({r, x}) = 2
    <3>1. IsFiniteSet({r}) /\ Cardinality({r}) = 1 /\ x \notin {r}
          BY <1>3, FS_Singleton
    <3>2. IsFiniteSet({r} \cup {x}) /\ Cardinality({r} \cup {x}) = 2
          BY <3>1, FS_AddElement
    <3>3. {r, x} = {r} \cup {x}
          OBVIOUS
    <3> QED BY <3>2, <3>3
  <2>3. Cardinality({r, x}) <= Cardinality(R)
        BY <2>1, FS_Subset
  <2>4. Cardinality(R) \in Nat
        BY <2>1, FS_CardinalityType
  <2>5. Cardinality(R) > 1
        BY <2>2, <2>3, <2>4
  <2> QED BY <1>1, <2>5 DEF Shared
<1>4. OneRow(n)'
      BY <1>1, <1>3 DEF OneRow, Live
<1> QED BY <1>1, <1>2, <1>4 DEF NameInv

(* Edge answers a request about another name, or about none. *)
LEMMA AnsweredElse ==
    ASSUME Around, TypeInv', NEW n \in Name, NameInv(n), edge'[n] = edge[n],
           toEdge # <<>>, toEdge' = Tail(toEdge), Head(toEdge).kind = "request",
           Answer(Head(toEdge)), Head(toEdge).op = "hello" \/ Head(toEdge).name # n,
           UNCHANGED <<db, conn, reader, events, todo, again, at, job>>
    PROVE  NameInv(n)'
<1>1. TypeInv /\ Owners
      BY DEF Around, AnswerInv
<1> DEFINE m == Head(toEdge)
           a == [kind |-> "response", id |-> m.id]
<1>2. /\ toEdge \in Seq(ToMsg) /\ fromEdge \in Seq(FromMsg) /\ m \in ToMsg
      /\ 1 \in DOMAIN toEdge /\ toEdge[1] = m
      BY <1>1, Queues DEF TypeInv
<1>3. a \in FromMsg /\ fromEdge' = Append(fromEdge, a)
  <2>1. m.id \in Nat
        BY <1>2, ToTyped
  <2> QED BY <2>1, ResponseTyped DEF Answer
<1>4. a \notin WritesOn(n) /\ m \notin OksOn(n)
      BY DEF WritesOn, OksOn
<1> HIDE DEF m, a
<1>5. OksKept(n)
      BY <1>1, <1>4, OksTailed DEF m
<1>6. WritesKept(n)
      BY <1>2, <1>3, <1>4, LastAppend DEF WritesKept
<1>7. ASSUME NEW t \in Task, WorksOn(t, n), at[t] = "await" PROVE job[t].id # m.id
      BY <1>1, <1>2, <1>7 DEF WorksOn, Owners, Own, m
<1>8. ASSUME NEW t \in Task, WorksOn(t, n), at[t] = "await"
      PROVE  Has(toEdge', "request", job[t].id) <=> Has(toEdge, "request", job[t].id)
  <2>1. /\ Has(Tail(toEdge), "request", job[t].id) => Has(toEdge, "request", job[t].id)
        /\ Has(toEdge, "request", job[t].id)
           /\ ~(Head(toEdge).kind = "request" /\ Head(toEdge).id = job[t].id)
              => Has(Tail(toEdge), "request", job[t].id)
        BY <1>2, HasTail
  <2> QED BY <1>7, <1>8, <2>1 DEF m
<1>9. WorkKept(n)
      BY <1>8, WorkSame
<1>10. /\ EventsKept(n) /\ ReaderKept(n) /\ RowsKept(n) /\ (Waits(n)' <=> Waits(n))
       /\ Early' <=> Early
       BY QueuesSame
<1>11. Keeps(n)
       BY <1>1, <1>5, <1>6, <1>9, <1>10, StateKept
<1> QED BY <1>1, <1>11, Frame

(* Edge does what it is asked, and so does the name come to rest. *)
LEMMA AnsweredName ==
    ASSUME Around, TypeInv', NEW n \in Name \ mixed', NameInv(n), edge_answers,
           Head(toEdge).kind = "request", Head(toEdge).op # "hello", Head(toEdge).name = n
    PROVE  NameInv(n)'
<1> USE DEF mainVars
<1>1. TypeInv /\ Owners /\ Ids
      BY DEF Around, AnswerInv
<1> DEFINE m == Head(toEdge)
           a == [kind |-> "response", id |-> m.id]
<1>2. /\ UNCHANGED <<db, conn, reader, events, todo, again, at, job, mixed>>
      /\ conn = "open" /\ toEdge # <<>> /\ toEdge' = Tail(toEdge) /\ Answer(m)
      /\ edge' = [edge EXCEPT ![n] =
                    CASE m.op = "device_register" /\ @ = NoDevice -> m.data
                      [] m.op = "write" /\ @ # NoDevice -> m.data
                      [] m.op = "device_unregister" -> NoDevice
                      [] OTHER -> @]
      BY DEF edge_answers
<1>3. /\ toEdge \in Seq(ToMsg) /\ fromEdge \in Seq(FromMsg) /\ m \in ToMsg
      /\ 1 \in DOMAIN toEdge /\ toEdge[1] = m
      BY <1>1, <1>2, Queues DEF TypeInv
<1>4. m.kind = "request" /\ m.op # "hello" /\ m.name = n /\ n \notin mixed /\ m.id \in Nat
      BY <1>2, <1>3, ToTyped
<1>5. a \in FromMsg /\ fromEdge' = Append(fromEdge, a) /\ a \notin WritesOn(n)
      BY <1>2, <1>4, ResponseTyped DEF Answer, WritesOn
<1>6. PICK t \in Task : at[t] = "await" /\ job[t].id = m.id
      BY <1>1, <1>3, <1>4 DEF Owners, Stale
<1>7. /\ m.op = job[t].op /\ m.name = NameOf[job[t].row]
      /\ m.data = create_device_params(job[t].row, job[t].st)
      BY <1>1, <1>3, <1>4, <1>6 DEF Owners, Own
<1>8. WorksOn(t, n) /\ WorksOn(t, n)'
      BY <1>2, <1>4, <1>6, <1>7 DEF WorksOn
<1>9. \A u \in Task : u # t => ~WorksOn(u, n)'
      BY <1>2, <1>8 DEF NameInv, Sole, WorksOn
<1>10. OneRow(n)'
       BY <1>2 DEF NameInv, OneRow, Live
<1>11. Apart(n) /\ Carries(t, n) /\ Busy(n)
       BY <1>2, <1>8, BusyWorks DEF NameInv
<1>12. Undone(t) /\ ~Undone(t)'
  <2>1. Has(toEdge, "request", m.id)
        BY <1>3, <1>4 DEF Has
  <2>2. ~Has(toEdge', "request", m.id)
        BY <1>1, <1>2, <1>3, <1>4, OnceTail DEF Ids
  <2> QED BY <1>2, <1>6, <2>1, <2>2 DEF Undone
<1>13. ~CloudWriting(n)'
  <2>1. m \notin OksOn(n)
        BY <1>4 DEF OksOn
  <2>2. OksKept(n)
        BY <1>1, <1>2, <2>1, OksTailed
  <2> HIDE DEF a
  <2>3. WritesKept(n)
        BY <1>3, <1>5, LastAppend DEF WritesKept
  <2>4. EventsKept(n) /\ ReaderKept(n)
        BY <1>2, QueuesSame
  <2>5. ~CloudWriting(n)
        BY <1>11 DEF Apart
  <2> QED BY <1>1, <2>2, <2>3, <2>4, <2>5, CloudParts, CloudPartsNext
      DEF OksKept, EventsKept, WritesKept, ReaderKept
<1>14. ~Waits(n)'
       BY <1>2, <1>11 DEF Apart, Waits
<1>15. /\ Live(job[t].row) /\ (m.op = "device_register") = (edge[n] = NoDevice)
       /\ m.op # "device_unregister" => db[job[t].row] = job[t].st
       BY <1>7, <1>8, <1>11, <1>12 DEF Carries
<1>16. edge'[n] = IF m.op = "device_unregister" THEN NoDevice ELSE m.data
  <2>1. m.op \in {"device_register", "write", "device_unregister"}
        BY <1>3, <1>4, ToTyped DEF Op
  <2>2. edge'[n] = CASE m.op = "device_register" /\ edge[n] = NoDevice -> m.data
                     [] m.op = "write" /\ edge[n] # NoDevice -> m.data
                     [] m.op = "device_unregister" -> NoDevice
                     [] OTHER -> edge[n]
        BY <1>1, <1>2 DEF TypeInv
  <2> HIDE DEF m
  <2>3. CASE m.op = "device_register"
        BY <1>15, <2>2, <2>3
  <2>4. CASE m.op = "write"
        BY <1>15, <2>2, <2>4
  <2>5. CASE m.op = "device_unregister"
        BY <2>2, <2>5
  <2> QED BY <2>1, <2>3, <2>4, <2>5
<1> HIDE DEF m
<1>17. Carries(t, n)'
       BY <1>2, <1>7, <1>12, <1>15, <1>16 DEF Carries, Live
<1> QED BY <1>8, <1>9, <1>10, <1>13, <1>14, <1>17, WorkingName

(* Edge takes a value that the cloud wrote and the reader confirmed. *)
LEMMA TakenName ==
    ASSUME Around, TypeInv', NEW n \in Name, NameInv(n), edge_answers,
           Head(toEdge).kind = "ok"
    PROVE  NameInv(n)'
<1> USE DEF mainVars
<1>1. TypeInv
      BY DEF Around, AnswerInv
<1> DEFINE m == Head(toEdge)
<1>2. /\ UNCHANGED <<db, conn, fromEdge, reader, events, todo, again, at, job>>
      /\ conn = "open" /\ toEdge # <<>> /\ toEdge' = Tail(toEdge)
      /\ edge' = IF edge[m.event.name] = NoDevice THEN edge
                 ELSE [edge EXCEPT ![m.event.name].bytes = m.event.bytes]
      BY DEF edge_answers
<1>3. toEdge \in Seq(ToMsg) /\ m \in ToMsg /\ m.kind = "ok"
      BY <1>1, <1>2, Queues DEF TypeInv
<1>4. m.event \in Event /\ m.event.name \in Name
      BY <1>3, ToTyped, EventTyped
<1>5. \A i : Has(toEdge', "request", i) <=> Has(toEdge, "request", i)
      BY <1>2, <1>3, HasTail
<1>6. /\ WorkKept(n) /\ EventsKept(n) /\ ReaderKept(n) /\ RowsKept(n) /\ WritesKept(n)
      /\ Waits(n)' <=> Waits(n)
      /\ Early' <=> Early
      BY <1>2, <1>5, WorkSame, QueuesSame
<1>7. CASE m.event.name # n
  <2>1. edge'[n] = edge[n]
        BY <1>1, <1>2, <1>7 DEF TypeInv
  <2>2. m \notin OksOn(n)
        BY <1>7 DEF OksOn
  <2>3. OksKept(n)
        BY <1>1, <1>2, <2>2, OksTailed
  <2>4. Keeps(n)
        BY <1>1, <1>2, <1>6, <2>1, <2>3, StateKept
  <2> QED BY <1>1, <2>4, Frame
<1>8. CASE m.event.name = n
  <2>1. m \in OksOn(n) /\ ~None(toEdge, OksOn(n))
    <3>1. m \in OksOn(n)
          BY <1>3, <1>8 DEF OksOn
    <3> QED BY <1>2, <1>3, <3>1, LastTail
  <2>2. CloudWriting(n)
        BY <1>1, <2>1, CloudParts
  <2>3. ~Busy(n)
        BY <1>2, <2>2 DEF NameInv, Apart
  <2>4. /\ edge[n] = NoDevice => edge'[n] = edge[n]
        /\ edge[n] # NoDevice => /\ edge[n] \in Data
                                 /\ edge'[n] = [edge[n] EXCEPT !.bytes = m.event.bytes]
        BY <1>1, <1>2, <1>8 DEF TypeInv
  <2>5. /\ edge'[n].object = edge[n].object
        /\ edge[n] # NoDevice => /\ edge'[n] # NoDevice
                                 /\ edge'[n].bytes = m.event.bytes
        BY <2>4 DEF Data, NoDevice
  <2>6. ASSUME Meet(n), HasRow(n), ~Early, ~Waits(n) PROVE Meet(n)'
    <3>1. edge[n].object = "LightControl" /\ edge[n] # NoDevice
          BY <1>2, <2>2, <2>3, <2>6 DEF NameInv, Settled
    <3>2. PICK v \in JsonState : EdgeWill(n, v) /\ DbWill(n, v)
          BY <2>6 DEF Meet
    <3>3. DbWill(n, v)'
          BY <1>2, <3>2 DEF DbWill, RowsSay, Live
    <3>4. Last(toEdge, OksOn(n), OksTo(n, v)) /\ OksTo(n, v) \subseteq OksOn(n)
          BY <2>1, <3>2 DEF EdgeWill, OksTo
    <3>5. \/ Last(Tail(toEdge), OksOn(n), OksTo(n, v))
          \/ m \in OksTo(n, v) /\ None(Tail(toEdge), OksOn(n))
          BY <1>2, <1>3, <3>4, LastTail
    <3>6. EdgeWill(n, v)'
      <4>1. CASE Last(Tail(toEdge), OksOn(n), OksTo(n, v))
        <5>1. ~None(Tail(toEdge), OksOn(n))
              BY <3>4, <4>1 DEF Last, None
        <5> QED BY <1>2, <4>1, <5>1 DEF EdgeWill
      <4>2. CASE m \in OksTo(n, v) /\ None(Tail(toEdge), OksOn(n))
        <5>1. Means(edge'[n]) = v
              BY <2>5, <3>1, <4>2 DEF OksTo, Means
        <5> QED BY <1>2, <4>2, <5>1 DEF EdgeWill
      <4> QED BY <3>5, <4>1, <4>2
    <3> QED BY <3>2, <3>3, <3>6 DEF Meet
  <2>7. Keeps(n)
        BY <1>2, <1>6, <2>2, <2>3, <2>4, <2>5, <2>6 DEF Keeps, Live
  <2> QED BY <1>1, <2>7, Frame
<1> QED BY <1>7, <1>8

LEMMA AnswersName ==
    ASSUME Around, TypeInv', NEW n \in Name \ mixed', NameInv(n), edge_answers \/ edge_refuses
    PROVE  NameInv(n)'
<1> USE DEF mainVars
<1> DEFINE m == Head(toEdge)
<1>1. TypeInv
      BY DEF Around, AnswerInv
<1>2. /\ UNCHANGED <<db, conn, reader, events, todo, again, at, job>>
      /\ toEdge # <<>> /\ toEdge' = Tail(toEdge)
      BY DEF edge_answers, edge_refuses
<1>3. CASE edge_refuses
  <2>1. /\ m.kind = "request" /\ Answer(m) /\ edge' = edge
        /\ mixed' = IF m.op = "hello" THEN Name ELSE mixed \cup {m.name}
        BY <1>3 DEF edge_refuses
  <2>2. m.name # n
        BY <2>1
  <2> QED BY <1>2, <2>1, <2>2, AnsweredElse
<1>4. CASE edge_answers /\ m.kind = "request"
  <2>1. /\ Answer(m)
        /\ edge' = IF m.op = "hello" THEN edge
                   ELSE [edge EXCEPT ![m.name] =
                            CASE m.op = "device_register" /\ @ = NoDevice -> m.data
                              [] m.op = "write" /\ @ # NoDevice -> m.data
                              [] m.op = "device_unregister" -> NoDevice
                              [] OTHER -> @]
        BY <1>4 DEF edge_answers
  <2>2. CASE m.op # "hello" /\ m.name = n
        BY <1>4, <2>2, AnsweredName
  <2>3. CASE m.op = "hello" \/ m.name # n
    <3>1. edge'[n] = edge[n]
          BY <1>1, <2>1, <2>3 DEF TypeInv
    <3> QED BY <1>2, <1>4, <2>1, <2>3, <3>1, AnsweredElse
  <2> QED BY <2>2, <2>3
<1>5. CASE edge_answers /\ m.kind # "request"
  <2>1. m.kind = "ok"
        BY <1>5 DEF edge_answers
  <2> QED BY <1>5, <2>1, TakenName
<1> QED BY <1>3, <1>4, <1>5

-----------------------------------------------------------------------------
(* Names whose activities have not overlapped. *)
AgreeInv == Around /\ \A n \in Name \ mixed : NameInv(n)

LEMMA AroundInvariant ==
    /\ Init => Around
    /\ Around /\ [Next]_vars => Around'
<1>1. ASSUME Init PROVE Quiet /\ FirstRows /\ Fails /\ Jobs /\ Owners
  <2>1. /\ \A t \in Task : at[t] = IF t = Main THEN "connect" ELSE "idle"
        /\ \A t \in Task : job[t] = NoJob
        /\ toEdge = <<>> /\ fromEdge = <<>> /\ events = <<>> /\ todo = {} /\ again = FALSE
        /\ reader = [at |-> "none", event |-> NoEvent] /\ edge = [n \in Name |-> NoDevice]
        BY <1>1, FreshTyped DEF Init
  <2>2. Quiet /\ FirstRows
        BY <2>1 DEF Quiet, FirstRows
  <2>3. Fails /\ Owners
        BY <2>1 DEF Fails, Owners, Own, Stale
  <2>4. Jobs
    <3>1. NoJob.op = "hello"
          BY DEF NoJob
    <3>2. job[Main] = NoJob
          BY <2>1, Tasks
    <3>3. \A t \in Task : at[t] # "delete"
          BY <2>1
    <3> QED BY <3>1, <3>2, <3>3 DEF Jobs
  <2> QED BY <2>2, <2>3, <2>4
<1>2. ASSUME Around, [Next]_vars PROVE Around'
  <2>1. TypeInv /\ Starting /\ Ids /\ Awaited
        BY <1>2 DEF Around, AnswerInv
  <2>2. AnswerInv'
        BY <1>2, AnswerInvariant DEF Around
  <2>3. Quiet' /\ FirstRows'
        BY <1>2, <2>1, QuietStep, FirstRowsStep DEF Around
  <2>4. Fails' /\ Jobs' /\ Owners'
        BY <1>2, <2>1, FailsStep, JobsStep, OwnersStep DEF Around
  <2> QED BY <2>2, <2>3, <2>4 DEF Around
<1> QED BY <1>1, <1>2, AnswerInvariant DEF Around

LEMMA AgreeStep == AgreeInv /\ [Next]_vars => AgreeInv'
<1> SUFFICES ASSUME Around, [Next]_vars, \A x \in Name \ mixed : NameInv(x) PROVE AgreeInv'
    BY DEF AgreeInv
<1>1. Around' /\ TypeInv' /\ Starting' /\ Quiet'
      BY AroundInvariant DEF Around, AnswerInv
<1>2. CASE process_restarts
  <2>1. \A n \in Name \ mixed' : NameInv(n)'
        BY <1>2, RestartsName
  <2>2. Name' = Name
        BY DEF Name
  <2> QED BY <1>1, <2>1, <2>2 DEF AgreeInv
<1>3. CASE ~process_restarts
  <2> SUFFICES ASSUME NEW n \in Name \ mixed' PROVE NameInv(n)'
      BY <1>1 DEF AgreeInv, Name
  <2>1. mixed \subseteq mixed'
    <3>1. ASSUME NEW c \in Client, Handler(c) PROVE mixed \subseteq mixed'
          BY <3>1 DEF Handler, create_device, delete_device, update_device_state,
             handler_locks, handler_unlocks, delete_device_row, delete_device_fails,
             client_disconnects, Mixes, MixesIf
    <3>2. ASSUME NEW x \in Name, NEW b \in Payload, cloud_writes(x, b)
          PROVE  mixed \subseteq mixed'
          BY <3>2 DEF cloud_writes, MixesIf
    <3>3. CASE \/ connect_and_register \/ ensure_pt_connected \/ initialize_counts
               \/ initialize_publishes \/ initialize_next \/ main_serves
               \/ reader_routes \/ reader_confirms \/ reader_forwards \/ reader_breaks
               \/ edge_answers \/ connection_closes \/ UNCHANGED vars
          BY <3>3 DEF connect_and_register, ensure_pt_connected, initialize_counts,
             initialize_publishes, initialize_next, main_serves, reader_routes,
             reader_confirms, reader_forwards, reader_breaks, edge_answers,
             connection_closes, vars
    <3>4. CASE initialize_device
          BY <3>4 DEF initialize_device
    <3>5. CASE consumer_applies \/ consumer_fails
          BY <3>5 DEF consumer_applies, consumer_fails, Mixes, MixesIf
    <3>6. CASE edge_refuses
      <4>1. TypeInv
            BY DEF Around, AnswerInv
      <4> QED BY <3>6, <4>1 DEF edge_refuses, TypeInv
    <3> QED BY <1>3, <3>1, <3>2, <3>3, <3>4, <3>5, <3>6 DEF Next
  <2>2. NameInv(n)
        BY <2>1
  <2>3. ASSUME NEW c \in Client, Handler(c) PROVE NameInv(n)'
        BY <1>1, <2>2, <2>3, HandlerName
  <2>4. ASSUME NEW x \in Name, NEW b \in Payload, cloud_writes(x, b) PROVE NameInv(n)'
        BY <1>1, <2>2, <2>4, WritesName
  <2>5. CASE connect_and_register
        BY <1>1, <2>2, <2>5, ConnectsName
  <2>6. CASE initialize_counts
        BY <1>1, <2>2, <2>6, CountsName DEF NameInv
  <2>7. CASE initialize_device \/ initialize_publishes \/ initialize_next
        BY <1>1, <2>2, <2>7, AnnouncesName, PublishesName, NextName
  <2>8. CASE main_serves \/ ensure_pt_connected \/ reader_breaks \/ UNCHANGED vars
        BY <1>1, <2>2, <2>8, ServesName
  <2>9. CASE reader_routes \/ reader_confirms \/ reader_forwards
        BY <1>1, <2>2, <2>9, RoutesName, ConfirmsName, ForwardsName
  <2>10. CASE consumer_applies \/ consumer_fails
         BY <1>1, <2>2, <2>10, AppliesName, FailsName
  <2>11. CASE edge_answers \/ edge_refuses
         BY <1>1, <2>2, <2>11, AnswersName
  <2>12. CASE connection_closes
         BY <2>2, <2>12, ClosesName
  <2> QED BY <1>3, <2>3, <2>4, <2>5, <2>6, <2>7, <2>8, <2>9, <2>10, <2>11, <2>12 DEF Next
<1> QED BY <1>2, <1>3

(* A name at rest is known to Edge exactly when it has a row, and with the *)
(* value of that row: through starts, handlers, writes of the cloud, lost  *)
(* connections and crashes, and whatever happens to the other names.  As   *)
(* in the property, nothing is said of a name in `mixed`: one for which    *)
(* two activities overlapped or something was refused, failed or lost.     *)
THEOREM RestAgrees == Spec => []Agreement
<1>1. Init => AgreeInv
  <2> SUFFICES ASSUME Init PROVE AgreeInv
      OBVIOUS
  <2>1. Around
        BY AroundInvariant
  <2>2. ASSUME NEW n \in Name PROVE NameInv(n)
    <3>1. /\ conn # "open" /\ db = [r \in Row |-> NoRow]
          /\ \A t \in Task : at[t] \in {"connect", "idle"}
          BY FreshTyped DEF Init
    <3> QED BY <3>1 DEF NameInv, OneRow, Sole, WorksOn, Live
  <2> QED BY <2>1, <2>2 DEF AgreeInv
<1>2. AgreeInv => Agreement
      BY AgreementFollows DEF AgreeInv, Around, AnswerInv
<1> QED BY <1>1, <1>2, AgreeStep, PTL DEF Spec
====
