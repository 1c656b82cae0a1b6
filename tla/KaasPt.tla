------------------------------- MODULE KaasPt -------------------------------
(***************************************************************************)
(* The device application of the Kubernetes example                        *)
(* (kaas-example/dummy-device-app/src/main.rs).                            *)
(*                                                                         *)
(* HTTP handlers change a row of the database and then tell Edge, one at a *)
(* time behind a mutex that is held until Edge has answered.  A reader     *)
(* task routes the answers by their id, confirms the writes that come from *)
(* the cloud and queues them for a consumer task that stores them.  The    *)
(* database outlives a crash; Edge forgets the devices of a lost           *)
(* connection, and the next start announces every row again.               *)
(*                                                                         *)
(* A step runs from one await to the next.  A client may vanish at any     *)
(* await, which drops its handler there.  GET requests change nothing and  *)
(* are left out; Edge, the cloud and the database are external.            *)
(***************************************************************************)
EXTENDS Naturals, Sequences, FiniteSets

CONSTANTS
    Row,            \* identities of rows (Uuid)
    NameOf,         \* per row: its deviceId, the name with what is neither a
                    \* letter nor a digit replaced by an underscore
    Recovered,      \* the rows whose name is their deviceId, or is it with
                    \* spaces for underscores
    KindOf,         \* per row: "light" (LightBulb, Switch) or "sensor"
    Default,        \* per row that a first start creates: its state
    Client,         \* HTTP requests served at the same time
    Put,            \* states that clients send
    Payload,        \* values that the cloud writes
    Capacity,       \* of the channel of write events (32)
    MaxRequests,    \* bound on HTTP requests
    MaxWrites,      \* bound on writes from the cloud
    MaxFaults       \* bound on faults

(* What the JSON state of a row can say: the field of a light or that of a *)
(* sensor.  A PUT stores either in any row.                                *)
FieldOf == [light |-> {"on", "off"}, sensor |-> {"usual", "measured"}]

ASSUME KaasPtAssumption ==
    /\ Row # {} /\ IsFiniteSet(Row)
    /\ KindOf \in [Row -> {"light", "sensor"}]
    /\ Recovered \subseteq Row
    /\ DOMAIN Default \subseteq Row
    /\ \A r \in DOMAIN Default : Default[r] \in FieldOf[KindOf[r]]
    /\ Put \subseteq {"on", "off", "usual", "measured"}
    /\ Payload \subseteq {"00", "01", "empty"}
    /\ {"main", "none"} \cap Client = {}
    /\ Capacity \in Nat \ {0}
    /\ MaxRequests \in Nat /\ MaxWrites \in Nat /\ MaxFaults \in Nat

VARIABLES
    db,         \* per row: its state, or NoRow
    edge,       \* per name: what Edge holds of it, or NoDevice
    conn,       \* the socket: "none", "open", "closed"
    toEdge,     \* messages to Edge that it has not handled
    fromEdge,   \* messages from Edge that the reader has not read
    reader,     \* the reader task: where it is, and the event it forwards
    events,     \* the channel of write events
    nextId,     \* message_id
    pending,    \* ids in pending_requests
    lock,       \* who owns the ProtocolTranslator
    at,         \* per task: where it is
    job,        \* per task: the request it makes of Edge
    todo,       \* rows that main has yet to announce
    again,      \* main found rows in the database
    mixed,      \* history: names whose row and device may have come apart
    requests,   \* history: HTTP requests so far
    writes,     \* history: writes from the cloud so far
    faults      \* history: faults so far

vars == <<db, edge, conn, toEdge, fromEdge, reader, events, nextId, pending,
          lock, at, job, todo, again, mixed, requests, writes, faults>>
readerVars == <<fromEdge, reader, events>>
sendVars == <<toEdge, nextId, pending>>
mainVars == <<todo, again>>
boundVars == <<requests, writes, faults>>

Name == {NameOf[r] : r \in Row}
Main == "main"
Task == Client \cup {Main}
NoRow == "none"
NoDevice == [object |-> "none", bytes |-> "none"]
NoTask == "none"

-----------------------------------------------------------------------------
(* States and values *)

JsonState == UNION {FieldOf[k] : k \in DOMAIN FieldOf}

default_state(k) == IF k = "light" THEN "off" ELSE "usual"

(* A state without the field of the device's type is published as if it    *)
(* held the default.                                                       *)
map_device_type_to_lwm2m(k, s) ==
    [object |-> IF k = "light" THEN "LightControl" ELSE "Sensor",
     value |-> IF s \in FieldOf[k] THEN s ELSE default_state(k)]

encode_value(v) == CASE v = "on" -> "01" [] v = "off" -> "00" [] OTHER -> v

create_device_params(r, s) ==
    LET m == map_device_type_to_lwm2m(KindOf[r], s)
    IN  [object |-> m.object, bytes |-> encode_value(m.value)]

(* The first byte decides, and no byte is 0. *)
decode(bytes) == IF bytes \in {"00", "empty"} THEN "off" ELSE "on"

Bytes == {"00", "01", "empty"} \cup FieldOf.sensor
Data == [object : {"LightControl", "Sensor"}, bytes : Bytes]
Event == [object : {"LightControl"}, name : Name, bytes : Bytes]
Op == {"hello", "device_register", "write", "device_unregister"}
Job == [op : Op, row : Row, st : JsonState, id : Nat]

Live(r) == db[r] # NoRow

-----------------------------------------------------------------------------
(* Which activities of a name overlap *)

Busy(n) == \E t \in Task : at[t] \notin {"idle", "serving", "connect", "init"}
                           /\ job[t].op # "hello" /\ NameOf[job[t].row] = n

CloudWriting(n) ==
    \/ \E i \in DOMAIN fromEdge : fromEdge[i].kind = "write"
                                  /\ fromEdge[i].event.name = n
    \/ reader.at = "forwarding" /\ reader.event.name = n
    \/ \E i \in DOMAIN events : events[i].name = n
    \/ \E i \in DOMAIN toEdge : toEdge[i].kind = "ok" /\ toEdge[i].event.name = n

Mixes(n) == mixed' = mixed \cup {n}
MixesIf(n, c) == mixed' = IF c THEN mixed \cup {n} ELSE mixed

Shared == {n \in Name : Cardinality({r \in Row : Live(r) /\ NameOf[r] = n}) > 1}

-----------------------------------------------------------------------------
NoJob == [op |-> "hello", row |-> CHOOSE r \in Row : TRUE,
          st |-> "off", id |-> 0]
NoEvent == [object |-> "LightControl", name |-> NameOf[NoJob.row],
            bytes |-> "00"]

(* What a process holds in memory when it starts. *)
Fresh ==
    [conn |-> "none", reader |-> [at |-> "none", event |-> NoEvent],
     nextId |-> 1, lock |-> Main,
     at |-> [t \in Task |-> IF t = Main THEN "connect" ELSE "idle"],
     job |-> [t \in Task |-> NoJob]]

Init ==
    /\ db = [r \in Row |-> NoRow]
    /\ edge = [n \in Name |-> NoDevice]
    /\ conn = Fresh.conn /\ toEdge = <<>> /\ fromEdge = <<>>
    /\ reader = Fresh.reader /\ events = <<>>
    /\ nextId = Fresh.nextId /\ pending = {} /\ lock = Fresh.lock
    /\ at = Fresh.at /\ job = Fresh.job
    /\ todo = {} /\ again = FALSE /\ mixed = {}
    /\ requests = 0 /\ writes = 0 /\ faults = 0

Fault == faults < MaxFaults /\ faults' = faults + 1
Go(t, p) == at' = [at EXCEPT ![t] = p]

(* Mutant: the id is not increased. *)
send_request_same_id(t, op, r, s) ==
    /\ UNCHANGED nextId
    /\ pending' = pending \cup {nextId}
    /\ job' = [job EXCEPT ![t] = [op |-> op, row |-> r, st |-> s, id |-> nextId]]
    /\ \/ /\ conn' = "open"
          /\ toEdge' = Append(toEdge, [kind |-> "request", id |-> nextId, op |-> op,
                                       name |-> NameOf[r],
                                       data |-> create_device_params(r, s)])
          /\ Go(t, "await")
       \/ /\ conn' # "open"
          /\ Go(t, "failed") /\ UNCHANGED toEdge

(* A request gets the next id and a place in pending_requests; then it is  *)
(* written to the socket, or the write fails and its place stays behind.   *)
send_request(t, op, r, s) ==
    /\ nextId' = nextId + 1
    /\ pending' = pending \cup {nextId'}
    /\ job' = [job EXCEPT ![t] = [op |-> op, row |-> r, st |-> s, id |-> nextId']]
    /\ \/ /\ conn' = "open"
          /\ toEdge' = Append(toEdge, [kind |-> "request", id |-> nextId', op |-> op,
                                       name |-> NameOf[r],
                                       data |-> create_device_params(r, s)])
          /\ Go(t, "await")
       \/ /\ conn' # "open"
          /\ Go(t, "failed") /\ UNCHANGED toEdge

register_device(t, r, s) == send_request(t, "device_register", r, s)
write_device_state(t, r, s) == send_request(t, "write", r, s)
unregister_device(t, r, s) == send_request(t, "device_unregister", r, s)

-----------------------------------------------------------------------------
(* Start: main connects, announces the rows, then serves *)

connect_and_register ==
    /\ at[Main] = "connect"
    /\ conn' = "open"
    /\ reader' = [at |-> "reading", event |-> NoEvent]
    /\ fromEdge' = <<>>
    /\ send_request(Main, "hello", NoJob.row, NoJob.st)
    /\ UNCHANGED <<db, edge, events, lock, mainVars, mixed, boundVars>>

(* ensure_pt_connected: the connection is refused, or it breaks before the *)
(* translator's own request is written and its id stays behind; it is tried *)
(* again after a pause.  The reader of the broken one has nothing to route: *)
(* Edge answers and writes to a registered translator only.                *)
ensure_pt_connected ==
    /\ at[Main] = "connect" /\ Fault
    /\ \/ UNCHANGED <<nextId, pending>>
       \/ nextId' = nextId + 1 /\ pending' = pending \cup {nextId'}
    /\ UNCHANGED <<db, edge, conn, readerVars, toEdge, lock, at, job, mainVars,
                   mixed, requests, writes>>

Finished(t) == at[t] \in {"answered", "failed"}

(* The answer to the translator's own registration, whatever it says; the  *)
(* rows of the database are counted.                                       *)
initialize_counts ==
    /\ at[Main] = "answered" /\ job[Main].op = "hello"
    /\ again' = \E r \in Row : Live(r)
    /\ todo' = IF again' THEN {r \in Row : Live(r)} ELSE DOMAIN Default
    /\ Go(Main, "init")
    /\ UNCHANGED <<db, edge, conn, readerVars, sendVars, lock, job, mixed, boundVars>>

(* Mutant: a row that was found is announced with the default state. *)
initialize_device_default ==
    /\ at[Main] = "init"
    /\ \E r \in todo :
        /\ UNCHANGED conn
        /\ db' = IF again THEN db ELSE [db EXCEPT ![r] = Default[r]]
        /\ todo' = todo \ {r}
        /\ register_device(Main, r, IF again THEN default_state(KindOf[r])
                                     ELSE Default[r])
        /\ UNCHANGED mixed
    /\ UNCHANGED <<edge, readerVars, lock, again, boundVars>>

(* A default device is inserted first; a row that was found is not. *)
initialize_device ==
    /\ at[Main] = "init"
    /\ \E r \in todo :
        /\ UNCHANGED conn
        /\ db' = IF again THEN db ELSE [db EXCEPT ![r] = Default[r]]
        /\ todo' = todo \ {r}
        /\ register_device(Main, r, db'[r])
        /\ mixed' = IF again THEN mixed
                    ELSE mixed \cup {NameOf[x] : x \in {y \in Row \ {r} :
                                         Live(y) /\ NameOf[y] = NameOf[r]}}
    /\ UNCHANGED <<edge, readerVars, lock, again, boundVars>>

(* A row that was found and registered is published too. *)
initialize_publishes ==
    /\ at[Main] = "answered" /\ job[Main].op = "device_register" /\ again
    /\ UNCHANGED conn
    /\ write_device_state(Main, job[Main].row, job[Main].st)
    /\ UNCHANGED <<db, edge, readerVars, lock, mainVars, mixed, boundVars>>

initialize_next ==
    /\ Finished(Main) /\ job[Main].op # "hello"
    /\ ~(at[Main] = "answered" /\ job[Main].op = "device_register" /\ again)
    /\ Go(Main, "init")
    /\ UNCHANGED <<db, edge, conn, readerVars, sendVars, lock, job, mainVars,
                   mixed, boundVars>>

(* The translator goes behind its mutex, the consumer is spawned and the   *)
(* HTTP server starts.                                                     *)
main_serves ==
    /\ at[Main] = "init" /\ todo = {}
    /\ Go(Main, "serving") /\ lock' = NoTask
    /\ UNCHANGED <<db, edge, conn, readerVars, sendVars, job, mainVars, mixed,
                   boundVars>>

Serving == at[Main] = "serving"

-----------------------------------------------------------------------------
(* HTTP handlers: the database first, then Edge *)

Wants(c, op, r, s) ==
    /\ Go(c, "lock")
    /\ job' = [job EXCEPT ![c] = [op |-> op, row |-> r, st |-> s, id |-> 0]]
    /\ requests < MaxRequests /\ requests' = requests + 1
    /\ UNCHANGED <<edge, conn, readerVars, sendVars, lock, mainVars, writes, faults>>

(* The identity of a new row is one that nobody has seen. *)
create_device(c, r) ==
    /\ Serving /\ at[c] = "idle" /\ ~Live(r)
    /\ \A t \in Client : at[t] # "idle" => job[t].row # r
    /\ db' = [db EXCEPT ![r] = default_state(KindOf[r])]
    /\ Wants(c, "device_register", r, db'[r])
    /\ MixesIf(NameOf[r], Busy(NameOf[r]) \/ CloudWriting(NameOf[r])
                          \/ \E x \in Row : Live(x) /\ NameOf[x] = NameOf[r])

(* The row is only read here. *)
delete_device(c, r) ==
    /\ Serving /\ at[c] = "idle" /\ Live(r)
    /\ Wants(c, "device_unregister", r, db[r])
    /\ MixesIf(NameOf[r], Busy(NameOf[r]) \/ CloudWriting(NameOf[r]))
    /\ UNCHANGED db

update_device_state(c, r, s) ==
    /\ Serving /\ at[c] = "idle" /\ Live(r)
    /\ db' = [db EXCEPT ![r] = s]
    /\ Wants(c, "write", r, s)
    /\ MixesIf(NameOf[r], Busy(NameOf[r]) \/ CloudWriting(NameOf[r]))

(* The mutex is free: it is taken, and kept until the request has ended. *)
handler_locks(c) ==
    /\ at[c] = "lock" /\ lock = NoTask
    /\ lock' = c
    /\ UNCHANGED conn
    /\ send_request(c, job[c].op, job[c].row, job[c].st)
    /\ UNCHANGED <<db, edge, readerVars, mainVars, mixed, boundVars>>

(* Mutant: the mutex is kept when the request failed. *)
handler_unlocks_on_success(c) ==
    /\ Finished(c)
    /\ lock' = IF at[c] = "answered" THEN NoTask ELSE lock
    /\ Go(c, IF job[c].op = "device_unregister" THEN "delete" ELSE "idle")
    /\ UNCHANGED <<db, edge, conn, readerVars, sendVars, job, mainVars, mixed,
                   boundVars>>

(* Success or not, the handler goes on: only a deletion has more to do. *)
handler_unlocks(c) ==
    /\ Finished(c)
    /\ lock' = NoTask
    /\ Go(c, IF job[c].op = "device_unregister" THEN "delete" ELSE "idle")
    /\ UNCHANGED <<db, edge, conn, readerVars, sendVars, job, mainVars, mixed,
                   boundVars>>

delete_device_row(c) ==
    /\ at[c] = "delete"
    /\ Go(c, "idle")
    /\ db' = [db EXCEPT ![job[c].row] = NoRow]
    /\ UNCHANGED <<edge, conn, readerVars, sendVars, lock, job, mainVars, mixed,
                   boundVars>>

(* The query fails, or the client hangs up before it. *)
delete_device_fails(c) ==
    /\ at[c] = "delete" /\ Fault
    /\ Go(c, "idle") /\ Mixes(NameOf[job[c].row])
    /\ UNCHANGED <<db, edge, conn, readerVars, sendVars, lock, job, mainVars,
                   requests, writes>>

(* The client hangs up: the server drops the handler where it waits, and   *)
(* with it the mutex and the receiving end of the answer.                  *)
client_disconnects(c) ==
    /\ at[c] \in {"lock", "await", "answered", "failed"} /\ Fault
    /\ Go(c, "idle") /\ Mixes(NameOf[job[c].row])
    /\ lock' = IF lock = c THEN NoTask ELSE lock
    /\ UNCHANGED <<db, edge, conn, readerVars, sendVars, job, mainVars,
                   requests, writes>>

-----------------------------------------------------------------------------
(* The reader task *)

Head1(kind) == fromEdge # <<>> /\ Head(fromEdge).kind = kind

(* An answer wakes the task that waits for its id, if there is one. *)
reader_routes ==
    /\ reader.at = "reading" /\ Head1("response")
    /\ LET i == Head(fromEdge).id IN
        /\ pending' = pending \ {i}
        /\ at' = [t \in Task |-> IF i \in pending /\ at[t] = "await" /\ job[t].id = i
                                 THEN "answered" ELSE at[t]]
    /\ fromEdge' = Tail(fromEdge)
    /\ UNCHANGED <<db, edge, conn, toEdge, reader, events, nextId, lock, job,
                   mainVars, mixed, boundVars>>

(* A write is confirmed before it is passed on. *)
reader_confirms ==
    /\ reader.at = "reading" /\ Head1("write")
    /\ LET e == Head(fromEdge).event IN
        /\ toEdge' = IF conn = "open" THEN Append(toEdge, [kind |-> "ok", event |-> e])
                     ELSE toEdge
        /\ reader' = [at |-> "forwarding", event |-> e]
    /\ fromEdge' = Tail(fromEdge)
    /\ UNCHANGED <<db, edge, conn, events, nextId, pending, lock, at, job,
                   mainVars, mixed, boundVars>>

(* Mutant: the channel is unbounded. *)
reader_forwards_always ==
    /\ reader.at = "forwarding"
    /\ events' = Append(events, reader.event)
    /\ reader' = [reader EXCEPT !.at = "reading"]
    /\ UNCHANGED <<db, edge, conn, fromEdge, sendVars, lock, at, job, mainVars,
                   mixed, boundVars>>

(* Mutant: the reader leaves its loop after a write. *)
reader_forwards_breaks ==
    /\ reader.at = "forwarding" /\ Len(events) < Capacity
    /\ events' = Append(events, reader.event)
    /\ reader' = [reader EXCEPT !.at = "ended"]
    /\ UNCHANGED <<db, edge, conn, fromEdge, sendVars, lock, at, job, mainVars,
                   mixed, boundVars>>

(* The channel is bounded: the reader waits for room in it. *)
reader_forwards ==
    /\ reader.at = "forwarding" /\ Len(events) < Capacity
    /\ events' = Append(events, reader.event)
    /\ reader' = [reader EXCEPT !.at = "reading"]
    /\ UNCHANGED <<db, edge, conn, fromEdge, sendVars, lock, at, job, mainVars,
                   mixed, boundVars>>

reader_breaks ==
    /\ reader.at = "reading" /\ fromEdge = <<>> /\ conn = "closed"
    /\ reader' = [reader EXCEPT !.at = "ended"]
    /\ UNCHANGED <<db, edge, conn, fromEdge, events, sendVars, lock, at, job,
                   mainVars, mixed, boundVars>>

-----------------------------------------------------------------------------
(* The consumer task *)

(* Every row that the deviceId leads back to is updated, whatever its type; *)
(* the write is lost for a row whose name has another character.           *)
consumer_applies ==
    /\ Serving /\ events # <<>>
    /\ LET e == Head(events) IN
        LET rows == {r \in Row : Live(r) /\ NameOf[r] = e.name} IN
        /\ db' = [r \in Row |-> IF r \in rows \cap Recovered /\ e.object = "LightControl"
                                THEN decode(e.bytes) ELSE db[r]]
        /\ MixesIf(e.name, ~(rows \subseteq Recovered))
    /\ events' = Tail(events)
    /\ UNCHANGED <<edge, conn, fromEdge, reader, sendVars, lock, at, job,
                   mainVars, boundVars>>

consumer_fails ==
    /\ Serving /\ events # <<>> /\ Fault
    /\ events' = Tail(events) /\ Mixes(Head(events).name)
    /\ UNCHANGED <<db, edge, conn, fromEdge, reader, sendVars, lock, at, job,
                   mainVars, requests, writes>>

-----------------------------------------------------------------------------
(* Edge, the cloud and the operator *)

Answer(m) == fromEdge' = Append(fromEdge, [kind |-> "response", id |-> m.id])

edge_answers ==
    /\ conn = "open" /\ toEdge # <<>>
    /\ LET m == Head(toEdge) IN
        \/ /\ m.kind = "request" /\ Answer(m)
           /\ edge' = IF m.op = "hello" THEN edge
                      ELSE [edge EXCEPT ![m.name] =
                        CASE m.op = "device_register" /\ @ = NoDevice -> m.data
                          [] m.op = "write" /\ @ # NoDevice -> m.data
                          [] m.op = "device_unregister" -> NoDevice
                          [] OTHER -> @]
        \/ /\ m.kind = "ok" /\ UNCHANGED fromEdge
           /\ edge' = IF edge[m.event.name] = NoDevice THEN edge
                      ELSE [edge EXCEPT ![m.event.name].bytes = m.event.bytes]
    /\ toEdge' = Tail(toEdge)
    /\ UNCHANGED <<db, conn, reader, events, nextId, pending, lock, at, job,
                   mainVars, mixed, boundVars>>

(* An error is an answer like any other for the application. *)
edge_refuses ==
    /\ conn = "open" /\ toEdge # <<>> /\ Head(toEdge).kind = "request" /\ Fault
    /\ Answer(Head(toEdge))
    /\ toEdge' = Tail(toEdge)
    /\ mixed' = IF Head(toEdge).op = "hello" THEN Name
                ELSE mixed \cup {Head(toEdge).name}
    /\ UNCHANGED <<db, edge, conn, reader, events, nextId, pending, lock, at, job,
                   mainVars, requests, writes>>

cloud_writes(n, b) ==
    /\ conn = "open" /\ edge[n].object = "LightControl" /\ writes < MaxWrites
    /\ writes' = writes + 1
    /\ fromEdge' = Append(fromEdge, [kind |-> "write",
            event |-> [object |-> "LightControl", name |-> n, bytes |-> b]])
    /\ MixesIf(n, Busy(n))
    /\ UNCHANGED <<db, edge, conn, reader, events, sendVars, lock, at, job,
                   mainVars, requests, faults>>

connection_closes ==
    /\ conn = "open" /\ Fault
    /\ conn' = "closed" /\ toEdge' = <<>>
    /\ edge' = [n \in Name |-> NoDevice]
    /\ UNCHANGED <<db, readerVars, nextId, pending, lock, at, job, mainVars, mixed,
                   requests, writes>>

(* The process ends, or an error ends main, and it is started again. *)
process_restarts ==
    /\ Fault
    /\ conn' = Fresh.conn /\ toEdge' = <<>> /\ fromEdge' = <<>>
    /\ reader' = Fresh.reader /\ events' = <<>>
    /\ nextId' = Fresh.nextId /\ pending' = {} /\ lock' = Fresh.lock
    /\ at' = Fresh.at /\ job' = Fresh.job
    /\ todo' = {} /\ again' = FALSE
    /\ edge' = [n \in Name |-> NoDevice]
    /\ mixed' = Shared
    /\ UNCHANGED <<db, requests, writes>>

-----------------------------------------------------------------------------
Handler(c) ==
    \/ \E r \in Row : create_device(c, r)
    \/ \E r \in Row : delete_device(c, r)
    \/ \E r \in Row, s \in Put : update_device_state(c, r, s)
    \/ handler_locks(c)
    \/ handler_unlocks(c)
    \/ delete_device_row(c)
    \/ delete_device_fails(c)
    \/ client_disconnects(c)

Next ==
    \/ connect_and_register \/ ensure_pt_connected \/ initialize_counts
    \/ initialize_device \/ initialize_publishes \/ initialize_next \/ main_serves
    \/ \E c \in Client : Handler(c)
    \/ reader_routes \/ reader_confirms \/ reader_forwards \/ reader_breaks
    \/ consumer_applies \/ consumer_fails
    \/ edge_answers \/ edge_refuses
    \/ \E n \in Name, b \in Payload : cloud_writes(n, b)
    \/ connection_closes \/ process_restarts

Spec == Init /\ [][Next]_vars

(* Tasks run when they can, and Edge answers while it is connected; the    *)
(* clients, the cloud and the faults owe nothing.                          *)
FairSpec ==
    /\ Spec
    /\ WF_vars(connect_and_register) /\ WF_vars(initialize_counts)
    /\ WF_vars(initialize_device) /\ WF_vars(initialize_publishes)
    /\ WF_vars(initialize_next) /\ WF_vars(main_serves)
    /\ \A c \in Client : /\ SF_vars(handler_locks(c))
                         /\ WF_vars(handler_unlocks(c))
                         /\ WF_vars(delete_device_row(c))
    /\ WF_vars(reader_routes) /\ WF_vars(reader_confirms)
    /\ WF_vars(reader_forwards) /\ WF_vars(reader_breaks)
    /\ WF_vars(consumer_applies) /\ WF_vars(edge_answers)
-----------------------------------------------------------------------------
TypeOK ==
    /\ db \in [Row -> JsonState \cup {NoRow}]
    /\ edge \in [Name -> Data \cup {NoDevice}]
    /\ conn \in {"none", "open", "closed"}
    /\ \A i \in DOMAIN toEdge :
        toEdge[i] \in [kind : {"ok"}, event : Event]
                      \cup [kind : {"request"}, id : Nat, op : Op, name : Name, data : Data]
    /\ \A i \in DOMAIN fromEdge :
        fromEdge[i] \in [kind : {"write"}, event : Event] \cup [kind : {"response"}, id : Nat]
    /\ reader \in [at : {"none", "reading", "forwarding", "ended"}, event : Event]
    /\ events \in Seq(Event) /\ Len(events) <= Capacity
    /\ nextId \in Nat \ {0} /\ pending \in SUBSET (1..nextId)
    /\ lock \in Task \cup {NoTask}
    /\ at \in [Task -> {"idle", "lock", "await", "answered", "failed", "delete",
                        "connect", "init", "serving"}]
    /\ job \in [Task -> Job]
    /\ todo \subseteq Row /\ again \in BOOLEAN /\ mixed \subseteq Name
    /\ requests \in 0..MaxRequests /\ writes \in 0..MaxWrites
    /\ faults \in 0..MaxFaults

(* A task that waits for an answer owns the translator alone, its place in *)
(* pending_requests is still there, and while the connection lives exactly *)
(* one message of its id is on the way, as a request or as its answer:     *)
(* what a vanished client or a failed send leaves behind is never taken    *)
(* for it.                                                                 *)
OnTheWay(i) ==
    Cardinality({k \in DOMAIN toEdge : toEdge[k].kind = "request" /\ toEdge[k].id = i})
    + Cardinality({k \in DOMAIN fromEdge : fromEdge[k].kind = "response"
                                           /\ fromEdge[k].id = i})
AnswerComes ==
    \A t \in Task : at[t] = "await" =>
        /\ lock = t
        /\ job[t].id \in pending
        /\ conn = "open" => OnTheWay(job[t].id) = 1

(* While the application serves over a live connection, a name at rest is  *)
(* known to Edge exactly when it has a row, and with the value of that     *)
(* row; also after a crash at any point of any handler.  The exceptions    *)
(* are the names for which two activities overlapped, a request was        *)
(* refused or dropped, a query failed, two rows share the name, or a write *)
(* was lost because the name does not come back from the deviceId.         *)
Means(d) == IF d.object = "LightControl" THEN decode(d.bytes) ELSE d.bytes
Agreement ==
    Serving /\ conn = "open" =>
        \A n \in Name \ mixed :
            ~Busy(n) /\ ~CloudWriting(n) =>
                LET rows == {r \in Row : Live(r) /\ NameOf[r] = n}
                IN  /\ (rows = {}) = (edge[n] = NoDevice)
                    /\ \A r \in rows :
                        Means(edge[n]) = Means(create_device_params(r, db[r]))

(* Every handler ends, refused and failed requests included, unless some   *)
(* task waits for an answer that the reader can no longer deliver.         *)
Hung == reader.at = "ended" /\ \E t \in Task : at[t] = "await"
HandlersReturn == \A c \in Client : at[c] # "idle" ~> at[c] = "idle" \/ Hung

(* A start ends in service, unless the connection is lost or the cloud has *)
(* filled the channel of events before there is a consumer.                *)
Full == reader.at = "forwarding" /\ Len(events) = Capacity
StartEnds == at[Main] = "connect" ~> Serving \/ conn = "closed" \/ Full
=============================================================================
