---------------------------- MODULE BleGattProofs ----------------------------
(***************************************************************************)
(* Proofs about BleGatt, for every set of lights, all values and every     *)
(* bound.                                                                  *)
(***************************************************************************)
EXTENDS BleGatt, TLAPS

-----------------------------------------------------------------------------
(* The translations *)

(* The weight of a field, and two bits of a byte by their weight. *)
Weight == {1, 4, 16, 64}
Bits(x, w) == (x \div w) % 4
Replaced(x, w, n) == x - Bits(x, w) * w + n * w

(* Each field has its weight. *)
LEMMA Weights ==
    ASSUME NEW f \in 0..3, NEW g \in 0..3
    PROVE  4^f \in Weight /\ (4^f = 4^g <=> f = g)
<1>1. 4^0 = 1 /\ 4^1 = 4 /\ 4^2 = 16 /\ 4^3 = 64
      OBVIOUS
<1>2. /\ f = 0 \/ f = 1 \/ f = 2 \/ f = 3
      /\ g = 0 \/ g = 1 \/ g = 2 \/ g = 3
      OBVIOUS
<1>3. /\ 4^f = IF f = 0 THEN 1 ELSE IF f = 1 THEN 4 ELSE IF f = 2 THEN 16 ELSE 64
      /\ 4^g = IF g = 0 THEN 1 ELSE IF g = 1 THEN 4 ELSE IF g = 2 THEN 16 ELSE 64
      BY <1>1, <1>2, Zenon
<1> QED BY <1>2, <1>3 DEF Weight

(* Two bits of a byte are a number below four. *)
LEMMA TwoBits ==
    ASSUME NEW x \in Byte, NEW w \in Weight
    PROVE  Bits(x, w) \in 0..3
BY DEF Byte, Weight, Bits

(* Replacing two bits of a byte leaves a byte and its other bits. *)
LEMMA ReplacedBits ==
    ASSUME NEW x \in Byte, NEW n \in {0, 1}, NEW w \in Weight, NEW v \in Weight
    PROVE  /\ Replaced(x, w, n) \in Byte
           /\ Bits(Replaced(x, w, n), v) = IF v = w THEN n ELSE Bits(x, v)
<1> USE DEF Byte, Bits, Replaced, Weight
<1>1. CASE w = 1
  <2>0. x \div 1 = x OBVIOUS
  <2>1. CASE v = 1 BY <1>1, <2>1, <2>0
  <2>2. CASE v = 4 BY <1>1, <2>2, <2>0
  <2>3. CASE v = 16 BY <1>1, <2>3, <2>0
  <2>4. CASE v = 64 BY <1>1, <2>4, <2>0
  <2> QED BY <2>1, <2>2, <2>3, <2>4
<1>2. CASE w = 4
  <2>1. CASE v = 1 BY <1>2, <2>1
  <2>2. CASE v = 4 BY <1>2, <2>2
  <2>3. CASE v = 16 BY <1>2, <2>3
  <2>4. CASE v = 64 BY <1>2, <2>4
  <2> QED BY <2>1, <2>2, <2>3, <2>4
<1>3. CASE w = 16
  <2>1. CASE v = 1 BY <1>3, <2>1
  <2>2. CASE v = 4 BY <1>3, <2>2
  <2>3. CASE v = 16 BY <1>3, <2>3
  <2>4. CASE v = 64 BY <1>3, <2>4
  <2> QED BY <2>1, <2>2, <2>3, <2>4
<1>4. CASE w = 64
  <2>1. CASE v = 1 BY <1>4, <2>1
  <2>2. CASE v = 4 BY <1>4, <2>2
  <2>3. CASE v = 16 BY <1>4, <2>3
  <2>4. CASE v = 64 BY <1>4, <2>4
  <2> QED BY <2>1, <2>2, <2>3, <2>4
<1> QED BY <1>1, <1>2, <1>3, <1>4

(* A decoded field is two bits. *)
LEMMA DecodedField ==
    ASSUME NEW b \in Byte, NEW f \in 0..3
    PROVE  ble_services_decode_2bit_bitfield_value(b, f) \in 0..3
BY TwoBits, Weights DEF ble_services_decode_2bit_bitfield_value, Bits

(* Encoding a field gives a byte, with the field switched and every other  *)
(* field as it was.                                                        *)
LEMMA EncodedField ==
    ASSUME NEW b \in Byte, NEW f \in 0..3, NEW g \in 0..3, NEW new
    PROVE  LET c == ble_services_encode_2bit_bitfield_value(b, f, new)
           IN  /\ c \in Byte
               /\ ble_services_decode_2bit_bitfield_value(c, g) =
                    IF g # f THEN ble_services_decode_2bit_bitfield_value(b, g)
                    ELSE IF new # 0 THEN 1 ELSE 0
<1> DEFINE n == IF new # 0 THEN 1 ELSE 0
<1>1. 4^f \in Weight /\ 4^g \in Weight /\ (4^f = 4^g <=> f = g)
      BY Weights, Zenon
<1>2. \A x : ble_services_decode_2bit_bitfield_value(x, g) = Bits(x, 4^g)
      BY DEF ble_services_decode_2bit_bitfield_value, Bits
<1>3. ble_services_encode_2bit_bitfield_value(b, f, new) = Replaced(b, 4^f, n)
  <2>1. 4^f \in Nat
        BY <1>1 DEF Weight
  <2>2. n * 4^f = IF new # 0 THEN 4^f ELSE 0
        BY <2>1
  <2> QED BY <2>2 DEF ble_services_encode_2bit_bitfield_value, Replaced, Bits,
                      ble_services_decode_2bit_bitfield_value
<1>4. n \in {0, 1} OBVIOUS
<1> HIDE DEF n
<1>5. /\ Replaced(b, 4^f, n) \in Byte
      /\ Bits(Replaced(b, 4^f, n), 4^g) = IF 4^g = 4^f THEN n ELSE Bits(b, 4^g)
      BY <1>1, <1>4, ReplacedBits
<1> QED BY <1>1, <1>2, <1>3, <1>5 DEF n

-----------------------------------------------------------------------------
(* Types *)

Reply == Byte \cup {NotRead}

(* The calls under way: one is added, served or taken off. *)
LEMMA ReadsTyped ==
    ASSUME NEW s \in Seq(Reply)
    PROVE  /\ Len(s) \in Nat
           /\ Append(s, NotRead) \in Seq(Reply) /\ Len(Append(s, NotRead)) = Len(s) + 1
           /\ s # <<>> => /\ Head(s) \in Reply /\ Tail(s) \in Seq(Reply)
                          /\ Len(Tail(s)) = Len(s) - 1 /\ Len(s) > 0
           /\ \A i \in DOMAIN s, b \in Byte :
                [s EXCEPT ![i] = b] \in Seq(Reply) /\ Len([s EXCEPT ![i] = b]) = Len(s)
<1>1. NotRead \in Reply BY DEF Reply
<1>2. ASSUME NEW i \in DOMAIN s, NEW b \in Byte
      PROVE  [s EXCEPT ![i] = b] \in Seq(Reply) /\ Len([s EXCEPT ![i] = b]) = Len(s)
      BY DEF Reply
<1> QED BY <1>1, <1>2

(* Every light control is a decoded field. *)
LEMMA LightsTyped ==
    ASSUME NEW b \in Byte, ble_services_decode_and_write_characteristic_translation(b)
    PROVE  light' \in [Field -> Byte]
<1>1. \A f \in Field : ble_services_decode_2bit_bitfield_value(b, f) \in Byte
      BY DecodedField, BleGattAssumption DEF Byte
<1> QED BY <1>1 DEF ble_services_decode_and_write_characteristic_translation

(* The mutex is released. *)
LEMMA NoWriteTyped ==
    NoWrite \in [at : {"none", "calling", "written"}, to : Field \cup {Service},
                 new : Byte, byte : Byte]
<1>1. 0 \in Byte BY DEF Byte
<1> QED BY <1>1 DEF NoWrite

(* Each step keeps the types.  The byte of a write to a light is a byte    *)
(* because the encoding clears the field before it sets it.                *)
LEMMA TypeStep == TypeOK /\ [Next]_vars => TypeOK'
<1> SUFFICES ASSUME TypeOK, [Next]_vars PROVE TypeOK'
    OBVIOUS
<1> USE BleGattAssumption
    DEF TypeOK, deviceVars, localVars, boundVars, Fault, Reply
<1>r. reads \in Seq(Reply) /\ Len(reads) \in Nat
      BY ReadsTyped
<1>1. CASE ble_read_everything
  <2>1. reads' \in Seq(Reply) /\ Len(reads') <= MaxReads
        BY <1>1, <1>r, ReadsTyped DEF ble_read_everything, ble_read_characteristic_async
  <2> QED BY <1>1, <2>1 DEF ble_read_everything, edge_write_values
<1>2. CASE ble_read_characteristic_callback
  <2>1. /\ reads' \in Seq(Reply) /\ Len(reads') <= MaxReads /\ Head(reads) \in Byte
        BY <1>2, <1>r, ReadsTyped DEF ble_read_characteristic_callback
  <2>2. light' \in [Field -> Byte]
        BY <1>2, <2>1, LightsTyped DEF ble_read_characteristic_callback
  <2>3. fresh' \in BOOLEAN
        BY <1>2 DEF ble_read_characteristic_callback
  <2> QED BY <1>2, <2>1, <2>2, <2>3
          DEF ble_read_characteristic_callback, device_update_characteristic_resource_value
<1>3. CASE ble_read_characteristic_callback_error
  <2>1. reads' \in Seq(Reply) /\ Len(reads') <= MaxReads
        BY <1>3, <1>r, ReadsTyped DEF ble_read_characteristic_callback_error
  <2> QED BY <1>3, <2>1 DEF ble_read_characteristic_callback_error
<1>4. CASE pt_ble_graceful_shutdown
      BY <1>4 DEF pt_ble_graceful_shutdown
<1>5. ASSUME NEW f \in Field, NEW new \in Switch, device_write_light(f, new)
      PROVE  TypeOK'
  <2>1. ble_services_encode_characteristic_value(f, new) \in Byte
        BY EncodedField DEF ble_services_encode_characteristic_value
  <2> QED BY <1>5, <2>1 DEF device_write_light, Writes
<1>6. ASSUME NEW new \in Raw, device_write_service(new) PROVE TypeOK'
      BY <1>6 DEF device_write_service, Writes
<1>7. CASE light_written
  <2>1. writer' = NoWrite /\ value' = writer.new /\ service' = writer.new /\ writer.new \in Byte
        BY <1>7 DEF light_written, set_local_characteristic_value
  <2>2. light' \in [Field -> Byte]
        BY <1>7, <2>1 DEF light_written
  <2>3. fresh' \in BOOLEAN
        BY <1>7, Zenon DEF light_written
  <2> QED BY <1>7, <2>1, <2>2, <2>3, NoWriteTyped DEF light_written
<1>8. CASE service_written
  <2>1. light' \in [Field -> Byte]
        BY <1>8, LightsTyped DEF service_written
  <2>2. fresh' \in BOOLEAN
        BY <1>8, Zenon DEF service_written
  <2> QED BY <1>8, <2>1, <2>2, NoWriteTyped DEF service_written, set_local_characteristic_value
<1>9. CASE ble_write_characteristic_error
      BY <1>9, NoWriteTyped DEF ble_write_characteristic_error
<1>10. CASE ble_write_characteristic_unlinked
      BY <1>10, NoWriteTyped DEF ble_write_characteristic_unlinked
<1>11. CASE WriteValue
      BY <1>11 DEF WriteValue, Holds
<1>12. CASE ReadValue
  <2>1. reads' \in Seq(Reply) /\ Len(reads') = Len(reads)
        BY <1>12, <1>r, ReadsTyped DEF ReadValue
  <2> QED BY <1>12, <2>1 DEF ReadValue
<1>13. CASE device_changes
      BY <1>13 DEF device_changes, Holds
<1>14. CASE link_lost
  <2>1. reads' \in Seq(Reply) /\ Len(reads') <= MaxReads
        BY <1>14 DEF link_lost
  <2>2. link' \in BOOLEAN
        BY <1>14, Zenon DEF link_lost
  <2> QED BY <1>14, <2>1, <2>2 DEF link_lost
<1>16. CASE link_back
  <2>1. link' \in BOOLEAN
        BY <1>16, Zenon DEF link_back
  <2> QED BY <1>16, <2>1 DEF link_back
<1>15. CASE UNCHANGED vars
      BY <1>15 DEF vars
<1> QED BY <1>1, <1>2, <1>3, <1>4, <1>5, <1>6, <1>7, <1>8, <1>9, <1>10, <1>11, <1>12,
           <1>13, <1>14, <1>15, <1>16 DEF Next

(* The initial states are typed. *)
LEMMA InitTyped == Init => TypeOK
<1> SUFFICES ASSUME Init PROVE TypeOK
    OBVIOUS
<1>1. link \in BOOLEAN /\ keep \in BOOLEAN /\ fresh \in BOOLEAN
      BY Zenon DEF Init
<1>2. value = 0 /\ service = 0 /\ light = [f \in Field |-> 0] /\ 0 \in Byte
      BY DEF Init, Byte, add_char_to_service, device_add_resources_from_gatt,
             ble_services_construct_lightcontrol_from_characteristic
<1>3. reads \in Seq(Reply) /\ Len(reads) <= MaxReads
      BY BleGattAssumption DEF Init
<1> QED BY <1>1, <1>2, <1>3, NoWriteTyped, BleGattAssumption DEF Init, TypeOK, Reply

(* Every form of the value stays a byte: whatever Edge writes to a light   *)
(* control, the translation never sends the device a value that does not   *)
(* fit the characteristic.                                                 *)
THEOREM TypeCorrect == Spec => []TypeOK
BY InitTyped, TypeStep, PTL DEF Spec

-----------------------------------------------------------------------------
(* A write to a light *)

(* A fresh buffer holds what the device holds, and so does what is shown. *)
FreshIsHeld == fresh => value = char /\ ShowsDevice

(* While WriteValue is under way, with the devices mutex taken, the byte   *)
(* on its way is still the encoding of the light into the buffer.          *)
ByteEncoded ==
    writer.at = "calling" /\ writer.to \in Field =>
        writer.byte = ble_services_encode_2bit_bitfield_value(value, writer.to, writer.new)

WriteInv == TypeOK /\ FreshIsHeld /\ ByteEncoded

(* The buffer is not touched between the encoding and WriteValue: what     *)
(* sets it needs the devices mutex or is the end of the write itself.      *)
LEMMA WriteStep == WriteInv /\ [Next]_vars => WriteInv'
<1> SUFFICES ASSUME WriteInv, [Next]_vars PROVE WriteInv'
    OBVIOUS
<1>t. TypeOK'
      BY TypeStep DEF WriteInv
<1> SUFFICES FreshIsHeld' /\ ByteEncoded'
    BY <1>t DEF WriteInv
<1>s. Service \notin Field
      BY BleGattAssumption DEF Service
<1> USE DEF WriteInv, FreshIsHeld, ShowsDevice, Forms, ByteEncoded, deviceVars, localVars,
            boundVars, Fault
<1>1. CASE ble_read_everything
      BY <1>1 DEF ble_read_everything
<1>2. CASE ble_read_characteristic_callback
      BY <1>2 DEF ble_read_characteristic_callback, Free,
                  device_update_characteristic_resource_value,
                  ble_services_decode_and_write_characteristic_translation
<1>3. CASE ble_read_characteristic_callback_error
      BY <1>3 DEF ble_read_characteristic_callback_error
<1>4. CASE pt_ble_graceful_shutdown
      BY <1>4 DEF pt_ble_graceful_shutdown
<1>5. ASSUME NEW f \in Field, NEW new \in Switch, device_write_light(f, new)
      PROVE  FreshIsHeld' /\ ByteEncoded'
      BY <1>5 DEF device_write_light, Writes, ble_services_encode_characteristic_value
<1>6. ASSUME NEW new \in Raw, device_write_service(new)
      PROVE  FreshIsHeld' /\ ByteEncoded'
      BY <1>6, <1>s DEF device_write_service, Writes
<1>7. CASE light_written
      BY <1>7 DEF light_written, NoWrite
<1>8. CASE service_written
      BY <1>8 DEF service_written, set_local_characteristic_value, NoWrite,
                  ble_services_decode_and_write_characteristic_translation
<1>9. CASE ble_write_characteristic_error
      BY <1>9 DEF ble_write_characteristic_error, NoWrite
<1>10. CASE ble_write_characteristic_unlinked
      BY <1>10 DEF ble_write_characteristic_unlinked, NoWrite
<1>11. CASE WriteValue
  <2>1. writer'.at = "written"
        BY <1>11 DEF WriteValue, TypeOK
  <2> QED BY <1>11, <2>1 DEF WriteValue, Holds
<1>12. CASE ReadValue
      BY <1>12 DEF ReadValue
<1>13. CASE device_changes
      BY <1>13 DEF device_changes, Holds
<1>14. CASE link_lost
      BY <1>14 DEF link_lost
<1>15. CASE link_back
      BY <1>15 DEF link_back
<1>16. CASE UNCHANGED vars
      BY <1>16 DEF vars
<1> QED BY <1>1, <1>2, <1>3, <1>4, <1>5, <1>6, <1>7, <1>8, <1>9, <1>10, <1>11, <1>12,
           <1>13, <1>14, <1>15, <1>16 DEF Next

LEMMA WriteHolds == Spec => []WriteInv
<1>1. Init => WriteInv
  <2>1. Init => TypeOK
        BY InitTyped
  <2> QED BY <2>1 DEF Init, WriteInv, FreshIsHeld, ByteEncoded, NoWrite
<1> QED BY <1>1, WriteStep, PTL DEF Spec

(* The safety part of Settles: once a poll or a write has brought what the *)
(* device holds, all the forms of the value agree with it until the device *)
(* or Edge changes it, whatever reads and writes cross.                    *)
THEOREM FormsAgree == Spec => []ShowsDevice
<1>1. WriteInv => ShowsDevice
      BY DEF WriteInv, FreshIsHeld, ShowsDevice
<1> QED BY <1>1, WriteHolds, PTL

(* What reaches the device is the encoding into the buffer. *)
LEMMA AppliedByte ==
    ASSUME WriteInv, [Next]_vars, NEW f \in Field, Applies(f)
    PROVE  char' = ble_services_encode_2bit_bitfield_value(value, f, writer.new)
<1> USE DEF Applies
<1>1. CASE WriteValue
      BY <1>1 DEF WriteValue, Holds, WriteInv, ByteEncoded
<1>2. CASE UNCHANGED writer
      BY <1>2
<1>3. CASE writer' = NoWrite
      BY <1>3 DEF NoWrite
<1>4. CASE Free
      BY <1>4 DEF Free
<1>5. WriteValue \/ UNCHANGED writer \/ writer' = NoWrite \/ Free
  <2>1. CASE \/ ble_read_everything \/ ble_read_characteristic_callback
             \/ ble_read_characteristic_callback_error \/ pt_ble_graceful_shutdown
        BY <2>1 DEF ble_read_everything, ble_read_characteristic_callback,
                    ble_read_characteristic_callback_error, pt_ble_graceful_shutdown
  <2>2. CASE \/ \E g \in Field, new \in Switch : device_write_light(g, new)
             \/ \E new \in Raw : device_write_service(new)
        BY <2>2 DEF device_write_light, device_write_service, Writes
  <2>3. CASE \/ light_written \/ service_written
             \/ ble_write_characteristic_error \/ ble_write_characteristic_unlinked
        BY <2>3 DEF light_written, service_written, ble_write_characteristic_error,
                    ble_write_characteristic_unlinked
  <2>4. CASE ReadValue \/ device_changes \/ link_lost \/ link_back
        BY <2>4 DEF ReadValue, device_changes, link_lost, link_back
  <2>5. CASE UNCHANGED vars
        BY <2>5 DEF vars
  <2> QED BY <2>1, <2>2, <2>3, <2>4, <2>5 DEF Next
<1> QED BY <1>1, <1>2, <1>3, <1>4, <1>5

(* Where the buffer was last set to what the device still holds, a write   *)
(* to a light switches that light and leaves every other one as it is: the *)
(* encoding changes two bits, and nothing comes between it and WriteValue. *)
THEOREM LightSwitchesAlone == Spec => OnlyItsField
<1> DEFINE Alone == \A f \in Field : Applies(f) /\ fresh =>
                \A g \in Field :
                    ble_services_decode_2bit_bitfield_value(char', g) =
                        IF g # f THEN ble_services_decode_2bit_bitfield_value(char, g)
                        ELSE IF writer.new # 0 THEN 1 ELSE 0
<1>2. ASSUME WriteInv, [Next]_vars PROVE Alone
  <2> SUFFICES ASSUME NEW f \in Field, Applies(f), fresh, NEW g \in Field
               PROVE  ble_services_decode_2bit_bitfield_value(char', g) =
                        IF g # f THEN ble_services_decode_2bit_bitfield_value(char, g)
                        ELSE IF writer.new # 0 THEN 1 ELSE 0
      OBVIOUS
  <2>1. char' = ble_services_encode_2bit_bitfield_value(char, f, writer.new)
        BY <1>2, AppliedByte DEF WriteInv, FreshIsHeld
  <2>2. char \in Byte /\ f \in 0..3 /\ g \in 0..3
        BY <1>2, BleGattAssumption DEF WriteInv, TypeOK
  <2> QED BY <2>1, <2>2, EncodedField
<1>3. WriteInv /\ [Next]_vars => [Alone]_vars
      BY <1>2
<1> QED BY <1>3, WriteHolds, PTL DEF Spec, OnlyItsField
=============================================================================
