------------------------------- MODULE BleGatt -------------------------------
(***************************************************************************)
(* The lights of a registered BLE device (blept-example: devices.c,        *)
(* pt_ble.c, pt_edge.c, pt_ble_translations.c and                          *)
(* pt_ble_supported_translations.c).                                       *)
(*                                                                         *)
(* One Automation IO characteristic, readable and writable, is a byte with *)
(* a field of two bits per light.  The translator keeps the byte in four   *)
(* forms: the buffer of the characteristic, the resource of the service    *)
(* object, a light control per field, and what was last sent to Edge.  The *)
(* main loop polls the device; writes from Edge come on the thread of the  *)
(* pt-client, which holds the devices mutex while BlueZ performs them, so  *)
(* that no handler of the main loop runs meanwhile.                        *)
(*                                                                         *)
(* The context of the device is listed and registered; how it comes and    *)
(* goes is the subject of module BlePt.  BlueZ, the device and the         *)
(* pt-client are external.  An error of BlueZ has a code other than 0.     *)
(***************************************************************************)
EXTENDS Naturals, Sequences

CONSTANTS
    Field,          \* positions of the lights, from 0 (digital_count many)
    Switch,         \* values that Edge writes to a light control
    Raw,            \* bytes that Edge writes to the service object
    Held,           \* bytes that the device may hold by itself
    MaxWrites,      \* bound on writes from Edge
    MaxReads,       \* bound on ReadValue calls under way
    MaxChanges,     \* bound on changes that the device makes by itself
    MaxFaults       \* bound on failing calls and lost links

Byte == 0..255

ASSUME BleGattAssumption ==
    /\ Field \subseteq 0..3
    /\ Switch \subseteq Byte /\ Raw \subseteq Byte
    /\ Held \subseteq Byte /\ Held # {}
    /\ MaxWrites \in Nat /\ MaxReads \in Nat /\ MaxChanges \in Nat /\ MaxFaults \in Nat

VARIABLES
    char,       \* the characteristic in the device
    link,       \* the device is connected
    keep,       \* global_keep_running
    value,      \* first byte of the buffer of the characteristic
    service,    \* first byte of the resource of the service object
    light,      \* per field: the resource of the light control
    edge,       \* the values last sent with pt_device_write_values
    reads,      \* ReadValue calls under way, with the byte once it is read
    writer,     \* the pt-client's thread: the write it performs
    fresh,      \* history: the buffer was last set to what the device holds
    writes, changes, faults     \* history: how many so far

vars == <<char, link, keep, value, service, light, edge, reads, writer, fresh,
          writes, changes, faults>>
deviceVars == <<char, link>>
localVars == <<value, service, light>>
boundVars == <<writes, changes, faults>>

Fault == faults < MaxFaults /\ faults' = faults + 1

(* devices_mutex *)
Free == writer.at = "none"
NotRead == 256
Service == 256      \* the target of a write to the service object
NoWrite == [at |-> "none", to |-> Service, new |-> 0, byte |-> 0]

-----------------------------------------------------------------------------
(* Translations *)

ble_services_decode_2bit_bitfield_value(byte, f) == (byte \div 4^f) % 4

(* Mutant: the two bits are not cleared. *)
ble_services_encode_2bit_bitfield_value_or(byte, f, new) ==
    LET old == ble_services_decode_2bit_bitfield_value(byte, f)
    IN  byte + (IF new # 0 /\ old % 2 = 0 THEN 4^f ELSE 0)

(* Mutant: the mask is subtracted. *)
ble_services_encode_2bit_bitfield_value_minus(byte, f, new) ==
    byte - 3 * 4^f + (IF new # 0 THEN 4^f ELSE 0)

(* Any value but 0 is active; the other fields are those of the buffer. *)
ble_services_encode_2bit_bitfield_value(byte, f, new) ==
    byte - ble_services_decode_2bit_bitfield_value(byte, f) * 4^f
         + (IF new # 0 THEN 4^f ELSE 0)

(* A light control is encoded into the byte of the buffer. *)
ble_services_encode_characteristic_value(f, new) ==
    ble_services_encode_2bit_bitfield_value(value, f, new)

(* All translations of the characteristic. *)
ble_services_decode_and_write_characteristic_translation(byte) ==
    light' = [f \in Field |-> ble_services_decode_2bit_bitfield_value(byte, f)]

(* Each light control starts as 0, whatever the device holds. *)
ble_services_construct_lightcontrol_from_characteristic ==
    light = [f \in Field |-> 0]

(* A buffer of zeros, and a resource with a copy of it. *)
add_char_to_service == value = 0
device_add_resources_from_gatt == service = value

set_local_characteristic_value(new) == value' = new /\ service' = new

device_update_characteristic_resource_value(byte) == service' = byte

-----------------------------------------------------------------------------
Init ==
    /\ char \in Held /\ link = TRUE /\ keep = TRUE
    /\ add_char_to_service /\ device_add_resources_from_gatt
    /\ ble_services_construct_lightcontrol_from_characteristic
    /\ edge = [service |-> service, light |-> light]
    /\ reads = <<>> /\ writer = NoWrite /\ fresh = FALSE
    /\ writes = 0 /\ changes = 0 /\ faults = 0

-----------------------------------------------------------------------------
(* The main loop: polling *)

ble_read_characteristic_async == reads' = Append(reads, NotRead)

edge_write_values == edge' = [service |-> service, light |-> light]

(* The reads are started; what they will bring is not sent before the next *)
(* poll.                                                                   *)
ble_read_everything ==
    /\ keep /\ link /\ Free /\ Len(reads) < MaxReads
    /\ ble_read_characteristic_async /\ edge_write_values
    /\ UNCHANGED <<deviceVars, keep, localVars, writer, fresh, boundVars>>

(* Mutant: the translations are forgotten. *)
ble_read_characteristic_callback_raw ==
    /\ Free /\ reads # <<>> /\ Head(reads) # NotRead
    /\ reads' = Tail(reads)
    /\ value' = Head(reads) /\ service' = value'
    /\ fresh' = (value' = char)
    /\ UNCHANGED <<deviceVars, keep, light, edge, writer, boundVars>>

(* The oldest read comes back: buffer, translations, service object. *)
ble_read_characteristic_callback ==
    /\ Free /\ reads # <<>> /\ Head(reads) # NotRead
    /\ reads' = Tail(reads)
    /\ value' = Head(reads)
    /\ device_update_characteristic_resource_value(value')
    /\ ble_services_decode_and_write_characteristic_translation(value')
    /\ fresh' = (value' = char)
    /\ UNCHANGED <<deviceVars, keep, edge, writer, boundVars>>

(* It comes back as an error, and nothing is done. *)
ble_read_characteristic_callback_error ==
    /\ reads # <<>> /\ Fault
    /\ reads' = Tail(reads)
    /\ UNCHANGED <<deviceVars, keep, localVars, edge, writer, fresh, writes, changes>>

(* pt_ble_graceful_shutdown, as far as it concerns the lights. *)
pt_ble_graceful_shutdown ==
    /\ keep /\ keep' = FALSE
    /\ UNCHANGED <<deviceVars, localVars, edge, reads, writer, fresh, boundVars>>

-----------------------------------------------------------------------------
(* The pt-client's thread: a write from Edge *)

(* resource_callback_handler: the devices mutex is taken. *)
Writes(to, new, byte) ==
    /\ keep /\ Free /\ writes < MaxWrites
    /\ writes' = writes + 1
    /\ writer' = [at |-> "calling", to |-> to, new |-> new, byte |-> byte]
    /\ UNCHANGED <<deviceVars, keep, localVars, edge, reads, fresh, changes, faults>>

(* device_write_characteristic: a light control is translated, ... *)
device_write_light(f, new) ==
    Writes(f, new, ble_services_encode_characteristic_value(f, new))

(* ... the resource of the service object is written as it is. *)
device_write_service(new) == Writes(Service, new, new)

(* WriteValue has succeeded.  The value from Edge becomes the byte of the  *)
(* buffer, also for a light control, whose other form it is; the pt-client *)
(* may keep the new value of the light control by itself.                  *)
light_written ==
    /\ writer.at = "written" /\ writer.to \in Field
    /\ set_local_characteristic_value(writer.new)
    /\ \/ light' = [light EXCEPT ![writer.to] = writer.new]
       \/ UNCHANGED light
    /\ fresh' = FALSE
    /\ writer' = NoWrite
    /\ UNCHANGED <<deviceVars, keep, edge, reads, boundVars>>

service_written ==
    /\ writer.at = "written" /\ writer.to = Service
    /\ set_local_characteristic_value(writer.new)
    /\ ble_services_decode_and_write_characteristic_translation(writer.new)
    /\ fresh' = (writer.new = char)
    /\ writer' = NoWrite
    /\ UNCHANGED <<deviceVars, keep, edge, reads, boundVars>>

(* WriteValue fails, or its answer is lost after the device has obeyed. *)
ble_write_characteristic_error ==
    /\ writer.at \in {"calling", "written"} /\ Fault
    /\ writer' = NoWrite
    /\ UNCHANGED <<deviceVars, keep, localVars, edge, reads, fresh, writes, changes>>

(* There is no link to write over. *)
ble_write_characteristic_unlinked ==
    /\ writer.at = "calling" /\ ~link
    /\ writer' = NoWrite
    /\ UNCHANGED <<deviceVars, keep, localVars, edge, reads, fresh, boundVars>>

-----------------------------------------------------------------------------
(* BlueZ and the device *)

Holds(byte) == char' = byte /\ fresh' = (fresh /\ byte = char)

WriteValue ==
    /\ writer.at = "calling" /\ link
    /\ Holds(writer.byte)
    /\ writer' = [writer EXCEPT !.at = "written"]
    /\ UNCHANGED <<link, keep, localVars, edge, reads, boundVars>>

(* A read is served at some time between its call and its reply. *)
ReadValue ==
    /\ link
    /\ \E i \in DOMAIN reads :
        /\ reads[i] = NotRead
        /\ \A j \in 1..(i - 1) : reads[j] # NotRead
        /\ reads' = [reads EXCEPT ![i] = char]
    /\ UNCHANGED <<deviceVars, keep, localVars, edge, writer, fresh, boundVars>>

(* Somebody uses the switch at the device. *)
device_changes ==
    /\ changes < MaxChanges
    /\ changes' = changes + 1
    /\ \E byte \in Held \ {char} : Holds(byte)
    /\ UNCHANGED <<link, keep, localVars, edge, reads, writer, writes, faults>>

(* The reads under way fail. *)
link_lost ==
    /\ link /\ Fault
    /\ link' = FALSE /\ reads' = <<>>
    /\ UNCHANGED <<char, keep, localVars, edge, writer, fresh, writes, changes>>

link_back ==
    /\ ~link /\ link' = TRUE
    /\ UNCHANGED <<char, keep, localVars, edge, reads, writer, fresh, boundVars>>

-----------------------------------------------------------------------------
Next ==
    \/ ble_read_everything
    \/ ble_read_characteristic_callback \/ ble_read_characteristic_callback_error
    \/ pt_ble_graceful_shutdown
    \/ \E f \in Field, new \in Switch : device_write_light(f, new)
    \/ \E new \in Raw : device_write_service(new)
    \/ light_written \/ service_written
    \/ ble_write_characteristic_error \/ ble_write_characteristic_unlinked
    \/ WriteValue \/ ReadValue
    \/ device_changes \/ link_lost \/ link_back

Spec == Init /\ [][Next]_vars

(* The poll comes every 5 seconds, D-Bus answers each call and the         *)
(* callbacks run.  Nobody owes a write, a change or a link.                *)
FairSpec ==
    /\ Spec
    /\ WF_vars(ble_read_everything) /\ WF_vars(ble_read_characteristic_callback)
    /\ WF_vars(light_written \/ service_written \/ ble_write_characteristic_unlinked)
    /\ WF_vars(WriteValue) /\ WF_vars(ReadValue)
-----------------------------------------------------------------------------
(* The byte in all its forms. *)
Forms(byte) ==
    [service |-> byte,
     light |-> [f \in Field |-> ble_services_decode_2bit_bitfield_value(byte, f)]]

TypeOK ==
    /\ char \in Byte /\ value \in Byte /\ service \in Byte
    /\ link \in BOOLEAN /\ keep \in BOOLEAN /\ fresh \in BOOLEAN
    /\ light \in [Field -> Byte]
    /\ edge \in [service : Byte, light : [Field -> Byte]]
    /\ reads \in Seq(Byte \cup {NotRead}) /\ Len(reads) <= MaxReads
    /\ writer \in [at : {"none", "calling", "written"}, to : Field \cup {Service},
                   new : Byte, byte : Byte]
    /\ writes \in 0..MaxWrites /\ changes \in 0..MaxChanges /\ faults \in 0..MaxFaults

Applies(f) ==
    writer.at = "calling" /\ writer.to = f /\ writer'.at = "written"

(* ble_services_encode_2bit_bitfield_value, "Change only the 2 bits we're  *)
(* working with": where the last thing that set the buffer, a poll or a    *)
(* write to the service object, set it to what the device still holds, a   *)
(* write to a light switches that light and leaves the others as they are. *)
OnlyItsField ==
    [][\A f \in Field : Applies(f) /\ fresh =>
        \A g \in Field :
            ble_services_decode_2bit_bitfield_value(char', g) =
                IF g # f THEN ble_services_decode_2bit_bitfield_value(char, g)
                ELSE IF writer.new # 0 THEN 1 ELSE 0]_vars

(* A buffer that was last set to what the device still holds, by a poll or *)
(* a write, is shown so by the service object and by every light control:  *)
(* the three copies are never set from different reads or writes.          *)
ShowsDevice == fresh => [service |-> service, light |-> light] = Forms(char)

(* Whatever writes, changes, crossing reads and lost answers came before:  *)
(* when they end and the link stays, the light controls, the service       *)
(* object and what Edge was sent come to show what the device holds, and   *)
(* stay so.                                                                *)
Settles ==
    <>[](keep /\ link) =>
        <>[](/\ [service |-> service, light |-> light] = Forms(char)
             /\ edge = Forms(char))

(* The same comment, without the condition: no write to a light changes    *)
(* another one.                                                            *)
OthersKept ==
    [][\A f \in Field : Applies(f) =>
        \A g \in Field \ {f} :
            ble_services_decode_2bit_bitfield_value(char', g)
                = ble_services_decode_2bit_bitfield_value(char, g)]_vars
=============================================================================
