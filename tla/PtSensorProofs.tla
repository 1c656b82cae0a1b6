--------------------------- MODULE PtSensorProofs ---------------------------
(***************************************************************************)
(* Proofs about PtSensor, for every range of temperatures, every set of    *)
(* campaigns and every bound, and about PtExample.                         *)
(***************************************************************************)
EXTENDS PtSensor, TLAPS

MainAt == {"start", "loop", "get", "compare", "set", "extreme_exists",
           "extreme_get", "extreme_compare", "extreme_set", "done"}
LoopAt == {"idle", "reset_max", "create", "sensor", "fields", "version"}

(* TypeOK, with the domains of the two functions. *)
TypeInv ==
    /\ TypeOK
    /\ at \in [{Main, Loop} -> MainAt \cup LoopAt]
    /\ res \in [Resource -> Float \cup {NoRes}]

(* The numbers that stand for floats; none of them means "no value". *)
LEMMA Floats ==
    /\ FltMax \in Int /\ FltMax > 0 /\ NoRes \in Int
    /\ FltMax \in Float /\ -FltMax \in Float /\ 0 \in Float /\ NoRes \notin Float
    /\ Temp \subseteq Float
    /\ \A x \in Float : x \in Int
BY PtSensorAssumption DEF FltMax, Float, NoRes, Temp

(* What a write to a resource leaves: a device that has the resource takes *)
(* the value, any other keeps what it has.                                 *)
LEMMA SetTyped ==
    ASSUME res \in [Resource -> Float \cup {NoRes}], NEW w \in Resource, NEW x \in Float,
           Set(w, x)
    PROVE  res' \in [Resource -> Float \cup {NoRes}]
BY DEF Set

(* Where a thread goes it is, and the other one stays. *)
LEMMA GoTyped ==
    ASSUME at \in [{Main, Loop} -> MainAt \cup LoopAt], NEW t \in {Main, Loop},
           NEW p \in MainAt \cup LoopAt, Go(t, p)
    PROVE  /\ at' \in [{Main, Loop} -> MainAt \cup LoopAt]
           /\ at'[t] = p
           /\ \A u \in {Main, Loop} \ {t} : at'[u] = at[u]
BY DEF Go

-----------------------------------------------------------------------------
(* Types *)

(* Each step of the main thread keeps the types. *)
LEMMA MainTyped == TypeInv /\ (MainNext \/ update_extreme_fails) => TypeInv'
<1> SUFFICES ASSUME TypeInv, MainNext \/ update_extreme_fails PROVE TypeInv'
    OBVIOUS
<1> USE PtSensorAssumption, Floats
    DEF TypeInv, TypeOK, MainAt, LoopAt, Main, Loop, Resource, At, Go, mainVars,
        deviceVars, edgeVars, boundVars, Version
<1>1. CASE client_config_create_cpu_temperature_device
      BY <1>1 DEF client_config_create_cpu_temperature_device,
                  client_config_create_device_with_parameters
<1>2. CASE main_loop
      BY <1>2 DEF main_loop
<1>3. CASE update_gets
      BY <1>3 DEF update_gets
<1>4. CASE update_compares
      BY <1>4 DEF update_compares
<1>5. CASE update_sets
  <2>1. res' \in [Resource -> Float \cup {NoRes}]
        BY <1>5, SetTyped DEF update_sets
  <2> QED BY <1>5, <2>1 DEF update_sets
<1>6. CASE update_extreme_exists
      BY <1>6 DEF update_extreme_exists, After, Turns
<1>7. CASE update_extreme_gets
      BY <1>7 DEF update_extreme_gets
<1>8. CASE update_extreme_compares
      BY <1>8 DEF update_extreme_compares, After, Turns
<1>9. CASE update_extreme_sets
  <2>1. res' \in [Resource -> Float \cup {NoRes}]
        BY <1>9, SetTyped DEF update_extreme_sets
  <2> QED BY <1>9, <2>1 DEF update_extreme_sets, After, Turns
<1>10. CASE update_ends \/ update_extreme_fails
      BY <1>10 DEF update_ends, update_extreme_fails, After, Turns, Fault, Disturbs
<1> QED BY <1>1, <1>2, <1>3, <1>4, <1>5, <1>6, <1>7, <1>8, <1>9, <1>10 DEF MainNext

(* Each step of the event loop, of Edge and of the processor keeps the types. *)
LEMMA LoopTyped ==
    TypeInv /\ Next /\ ~(MainNext \/ update_extreme_fails) => TypeInv'
<1> SUFFICES ASSUME TypeInv, Next, ~(MainNext \/ update_extreme_fails) PROVE TypeInv'
    OBVIOUS
<1> USE PtSensorAssumption, Floats
    DEF TypeInv, TypeOK, MainAt, LoopAt, Main, Loop, Resource, At, Go, mainVars,
        deviceVars, edgeVars, boundVars, Version, Fault, Idle, Disturbs
<1>1. CASE ipso_reset_max
  <2>1. res' \in [Resource -> Float \cup {NoRes}]
        BY <1>1, SetTyped DEF ipso_reset_max
  <2> QED BY <1>1, <2>1 DEF ipso_reset_max, Frees, Reading
<1>2. CASE ipso_reset_min_max_object
  <2>1. res' \in [Resource -> Float \cup {NoRes}]
        BY <1>2, SetTyped DEF ipso_reset_min_max_object
  <2> QED BY <1>2, <2>1 DEF ipso_reset_min_max_object, Frees, Reading
<1>3. CASE ipso_reset_fails
      BY <1>3 DEF ipso_reset_fails
<1>4. CASE unregister_success_creates
      BY <1>4 DEF unregister_success_creates, client_config_create_device_with_parameters
<1>5. CASE unregister_success_sensor
      BY <1>5 DEF unregister_success_sensor, ipso_create_sensor_object
<1>6. CASE unregister_success_fields
      BY <1>6 DEF unregister_success_fields, ipso_add_min_max_fields
<1>7. ASSUME NEW a \in Asset, unregister_success_registers(a) PROVE TypeInv'
      BY <1>7 DEF unregister_success_registers
<1>8. ASSUME NEW a \in Asset, manifest_meta_data_handle(a) PROVE TypeInv'
      BY <1>8 DEF manifest_meta_data_handle
<1>9. ASSUME NEW a \in Asset,
             asset_download_success_handler(a) \/ asset_download_failure_handler(a)
      PROVE  TypeInv'
      BY <1>9 DEF asset_download_success_handler, asset_download_failure_handler
<1>10. ASSUME NEW a \in Asset, unregister_success_handler(a) PROVE TypeInv'
      BY <1>10 DEF unregister_success_handler, FreesAll, Bare
<1>11. ASSUME NEW a \in Asset, unregister_failure_handler(a) PROVE TypeInv'
      BY <1>11 DEF unregister_failure_handler
<1>12. CASE device_register_success_handler
      BY <1>12 DEF device_register_success_handler
<1>13. CASE device_register_failure_handler
  <2>1. asking' \in BOOLEAN
        BY <1>13, Zenon DEF device_register_failure_handler
  <2> QED BY <1>13, <2>1 DEF device_register_failure_handler
<1>14. CASE temperature_changes
      BY <1>14 DEF temperature_changes
<1> QED
      BY <1>1, <1>2, <1>3, <1>4, <1>5, <1>6, <1>7, <1>8, <1>9, <1>10, <1>11, <1>12, <1>13,
         <1>14
      DEF Next, Building

(* The types hold at the start. *)
LEMMA InitTyped == Init => TypeInv
<1> SUFFICES ASSUME Init PROVE TypeInv
    OBVIOUS
<1>1. /\ at \in [{Main, Loop} -> MainAt \cup LoopAt]
      /\ at[Main] = "start" /\ at[Loop] = "idle"
      BY DEF Init, MainAt, LoopAt, Main, Loop
<1>2. /\ res \in [Resource -> Float \cup {NoRes}]
      /\ \A w \in Resource : res[w] = NoRes
      BY DEF Init, Bare
<1>3. /\ stale \in BOOLEAN /\ copied \in BOOLEAN /\ exists \in BOOLEAN
      /\ asking \in BOOLEAN
      BY Zenon DEF Init
<1>4. /\ temp \in Temp /\ read \in Temp /\ extreme \in {"min", "max"}
      /\ version \in Version /\ known \in Version \cup {NoVersion}
      /\ trust \in {"no", "trying", "yes"}
      BY DEF Init, Version
<1>5. /\ asset \in [Asset -> {"none", "rejected", "download", "unregister", "reboot",
                              "freed", "leaked"}]
      /\ changes \in 0..MaxChanges /\ resets \in 0..MaxResets /\ faults \in 0..MaxFaults
      BY PtSensorAssumption DEF Init
<1> QED BY <1>1, <1>2, <1>3, <1>4, <1>5 DEF TypeInv, TypeOK

(* The variables of PtSensor keep their types, for every range of          *)
(* temperatures and every bound: in particular no update leaves a value    *)
(* that is no float in a resource of the sensor.                           *)
THEOREM TypeCorrect == Spec => []TypeOK
<1>1. Init => TypeInv BY InitTyped
<1>2. TypeInv /\ [Next]_vars => TypeInv'
  <2>1. CASE Next BY <2>1, MainTyped, LoopTyped
  <2>2. CASE UNCHANGED vars BY <2>2 DEF vars, TypeInv, TypeOK
  <2> QED BY <2>1, <2>2
<1>3. TypeInv => TypeOK BY DEF TypeInv
<1> QED BY <1>1, <1>2, <1>3, PTL DEF Spec

-----------------------------------------------------------------------------
(* The extremes *)

(* An update that is trusted so far has a whole device and a buffer of its *)
(* own; no resource of a device that is being rebuilt is complete; before  *)
(* the device is first registered the event loop has nothing to do.        *)
Undisturbed ==
    /\ ~exists => res = Bare
    /\ trust # "no" => exists /\ \A w \in Resource : res[w] # NoRes
    /\ at[Loop] \in {"create", "sensor", "fields"} => res["min"] = NoRes
    /\ at[Loop] \in {"sensor", "fields"} => exists
    /\ at[Main] = "start" => at[Loop] = "idle" /\ known = NoVersion /\ ~asking

(* How far the update is says which of the extremes encloses the value. *)
Progress ==
    /\ trust = "trying" =>
        /\ at[Main] \in {"extreme_exists", "extreme_get", "extreme_compare",
                         "extreme_set", "done"}
        /\ ~copied
        /\ at[Main] = "extreme_compare" => ~stale
        /\ res["value"] = read
        /\ extreme = "max" \/ at[Main] = "done" => res["min"] <= read
        /\ at[Main] = "done" => read <= res["max"]
    /\ trust = "yes" =>
        /\ at[Main] \in {"loop", "get", "compare", "set", "done"}
        /\ res["min"] <= res["value"] /\ res["value"] <= res["max"]

EnclosedInv == TypeInv /\ Undisturbed /\ Progress

(* The steps of an update keep it in order: what was compared with the     *)
(* temperature is still there when the extreme is set.                     *)
LEMMA UpdateEncloses ==
    EnclosedInv /\ (MainNext \/ update_extreme_fails) => (Undisturbed /\ Progress)'
<1> SUFFICES ASSUME EnclosedInv, MainNext \/ update_extreme_fails
             PROVE  (Undisturbed /\ Progress)'
    OBVIOUS
<1> USE Floats
    DEF EnclosedInv, TypeInv, Undisturbed, Progress, MainAt, LoopAt, Main, Loop,
        Resource, At, Go, mainVars, deviceVars, edgeVars, boundVars
<1>t. TypeOK OBVIOUS
<1>1. CASE client_config_create_cpu_temperature_device
  <2>1. trust = "no" /\ trust' = trust
        BY <1>1, <1>t DEF client_config_create_cpu_temperature_device, TypeOK
  <2>2. exists' /\ at'[Loop] = "idle" /\ at'[Main] = "loop"
        BY <1>1 DEF client_config_create_cpu_temperature_device,
                    client_config_create_device_with_parameters
  <2> QED BY <2>1, <2>2
<1>2. CASE main_loop
      BY <1>2 DEF main_loop
<1>3. CASE update_gets
      BY <1>3 DEF update_gets
<1>4. CASE update_compares
      BY <1>4 DEF update_compares
<1>5. CASE update_sets
  <2>1. trust' # "no" => exists /\ res' = [res EXCEPT !["value"] = read]
        BY <1>5 DEF update_sets, Set, Bare
  <2> QED BY <1>5, <1>t, <2>1 DEF update_sets, Set, TypeOK
<1>6. CASE update_extreme_exists
      BY <1>6, <1>t DEF update_extreme_exists, After, Turns, TypeOK
<1>7. CASE update_extreme_gets
      BY <1>7, <1>t DEF update_extreme_gets, TypeOK
<1>8. CASE update_extreme_compares
  <2>1. PICK current \in Seen(extreme) :
            \/ Beyond(extreme, current) /\ Go(Main, "extreme_set") /\ UNCHANGED extreme
            \/ ~Beyond(extreme, current) /\ Go(Main, After(extreme)) /\ Turns
        BY <1>8 DEF update_extreme_compares
  <2>2. trust = "trying" => current = res[extreme]
        BY <1>8 DEF update_extreme_compares, Seen
  <2>3. /\ UNCHANGED <<read, stale, copied, exists, res, trust>>
        /\ at'[Loop] = at[Loop] /\ at'[Main] # "start"
        BY <1>8, <2>1 DEF update_extreme_compares, After
  <2>4. Undisturbed'
        BY <2>3
  <2>5. read \in Int /\ extreme \in {"min", "max"}
        BY <1>t DEF TypeOK
  <2>6. CASE Beyond(extreme, current) /\ Go(Main, "extreme_set") /\ UNCHANGED extreme
        BY <1>8, <2>3, <2>6 DEF update_extreme_compares
  <2>7. CASE ~Beyond(extreme, current) /\ Go(Main, After(extreme)) /\ Turns
    <3>1. CASE trust # "trying"
          BY <1>8, <2>3, <3>1 DEF update_extreme_compares
    <3>2. extreme' = "max" /\ at'[Main] = IF extreme = "min" THEN "extreme_exists" ELSE "done"
          BY <2>7 DEF After, Turns
    <3>3. res["min"] \in Int /\ res["max"] \in Int
          BY DEF NoRes
    <3>4. CASE trust = "trying" /\ extreme = "min"
      <4>1. res["min"] <= read
            BY <2>2, <2>5, <2>7, <3>3, <3>4 DEF Beyond
      <4> QED BY <2>3, <3>2, <3>4, <4>1
    <3>5. CASE trust = "trying" /\ extreme = "max"
      <4>1. read <= res["max"]
            BY <2>2, <2>5, <2>7, <3>3, <3>5 DEF Beyond
      <4> QED BY <2>3, <3>2, <3>5, <4>1
    <3> QED BY <2>5, <3>1, <3>4, <3>5
  <2> QED BY <2>1, <2>4, <2>6, <2>7
<1>9. CASE update_extreme_sets
  <2>1. PICK x \in IF copied THEN Float ELSE {read} : Set(extreme, x)
        BY <1>9 DEF update_extreme_sets
  <2>2. trust = "trying" => res' = [res EXCEPT ![extreme] = read]
        BY <2>1, <1>t DEF Set, TypeOK
  <2> QED BY <1>9, <1>t, <2>1, <2>2
          DEF update_extreme_sets, After, Turns, Set, TypeOK, Temp
<1>10. CASE update_ends
      BY <1>10, <1>t DEF update_ends, TypeOK
<1>11. CASE update_extreme_fails
      BY <1>11 DEF update_extreme_fails, After, Turns, Disturbs
<1> QED
      BY <1>1, <1>2, <1>3, <1>4, <1>5, <1>6, <1>7, <1>8, <1>9, <1>10, <1>11 DEF MainNext

(* The steps of the event loop either leave the resources alone or take    *)
(* the trust away.                                                         *)
LEMMA LoopEncloses ==
    EnclosedInv /\ Next /\ ~(MainNext \/ update_extreme_fails)
      => (Undisturbed /\ Progress)'
<1> SUFFICES ASSUME EnclosedInv, Next, ~(MainNext \/ update_extreme_fails)
             PROVE  (Undisturbed /\ Progress)'
    OBVIOUS
<1> USE Floats
    DEF EnclosedInv, TypeInv, Undisturbed, Progress, MainAt, LoopAt, Main, Loop,
        Resource, At, Go, mainVars, deviceVars, edgeVars, boundVars, Idle, Disturbs
<1>t. TypeOK OBVIOUS
<1>1. CASE ipso_reset_max
      BY <1>1 DEF ipso_reset_max, Set
<1>2. CASE ipso_reset_min_max_object
      BY <1>2 DEF ipso_reset_min_max_object, Set
<1>3. CASE ipso_reset_fails
      BY <1>3 DEF ipso_reset_fails
<1>4. CASE unregister_success_creates
      BY <1>4 DEF unregister_success_creates, client_config_create_device_with_parameters
<1>5. CASE unregister_success_sensor
  <2>1. trust = "no" BY <1>5 DEF unregister_success_sensor
  <2> QED BY <1>5, <2>1 DEF unregister_success_sensor, ipso_create_sensor_object
<1>6. CASE unregister_success_fields
  <2>1. trust = "no" BY <1>6 DEF unregister_success_fields
  <2> QED BY <1>6, <2>1 DEF unregister_success_fields, ipso_add_min_max_fields
<1>7. ASSUME NEW a \in Asset, unregister_success_registers(a)
      PROVE  (Undisturbed /\ Progress)'
      BY <1>7 DEF unregister_success_registers
<1>8. ASSUME NEW a \in Asset, manifest_meta_data_handle(a)
      PROVE  (Undisturbed /\ Progress)'
      BY <1>8 DEF manifest_meta_data_handle
<1>9. ASSUME NEW a \in Asset,
             asset_download_success_handler(a) \/ asset_download_failure_handler(a)
      PROVE  (Undisturbed /\ Progress)'
      BY <1>9 DEF asset_download_success_handler, asset_download_failure_handler
<1>10. ASSUME NEW a \in Asset, unregister_success_handler(a)
      PROVE  (Undisturbed /\ Progress)'
      BY <1>10 DEF unregister_success_handler, Bare
<1>11. ASSUME NEW a \in Asset, unregister_failure_handler(a)
      PROVE  (Undisturbed /\ Progress)'
      BY <1>11 DEF unregister_failure_handler
<1>12. CASE device_register_success_handler
      BY <1>12 DEF device_register_success_handler
<1>13. CASE device_register_failure_handler
      BY <1>13 DEF device_register_failure_handler
<1>14. CASE temperature_changes
      BY <1>14 DEF temperature_changes
<1> QED
      BY <1>1, <1>2, <1>3, <1>4, <1>5, <1>6, <1>7, <1>8, <1>9, <1>10, <1>11, <1>12, <1>13,
         <1>14
      DEF Next, Building

(* update_temperature_to_device against ipso_reset_min_max_object and the  *)
(* firmware campaigns: an update that ends undisturbed leaves a minimum    *)
(* and a maximum that enclose the value, for every range of temperatures,  *)
(* any number of resets and campaigns, and whatever is read from buffers   *)
(* that the other thread has freed.                                        *)
THEOREM ExtremesEnclose == Spec => []Enclosed
<1>1. Init => EnclosedInv
  <2>1. Init => TypeInv BY InitTyped
  <2> QED BY <2>1 DEF Init, EnclosedInv, Undisturbed, Progress, Main, Loop
<1>2. EnclosedInv /\ [Next]_vars => EnclosedInv'
  <2>1. ASSUME EnclosedInv, Next PROVE EnclosedInv'
        BY <2>1, MainTyped, LoopTyped, UpdateEncloses, LoopEncloses DEF EnclosedInv
  <2>2. ASSUME EnclosedInv, UNCHANGED vars PROVE EnclosedInv'
        BY <2>2 DEF vars, EnclosedInv, TypeInv, TypeOK, Undisturbed, Progress
  <2> QED BY <2>1, <2>2
<1>3. EnclosedInv => Enclosed BY DEF EnclosedInv, Progress, Enclosed
<1> QED BY <1>1, <1>2, <1>3, PTL DEF Spec

-----------------------------------------------------------------------------
(* The campaigns *)

Complete == \A w \in Resource : res[w] # NoRes

(* A device that Edge knows or is asked to know is whole and left alone; one *)
(* that is being built has what was built before.                            *)
Whole ==
    /\ known # NoVersion \/ asking => exists /\ Complete /\ ~Rebuilding
    /\ known # NoVersion => known = version /\ ~asking
    /\ At(Loop, "fields") => res["value"] # NoRes
    /\ At(Loop, "version") => exists /\ Complete

CampaignInv == EnclosedInv /\ Whole /\ CampaignPursued

(* A write takes no resource away. *)
LEMMA SetKeeps ==
    ASSUME res \in [Resource -> Float \cup {NoRes}], NEW w \in Resource, NEW x \in Float,
           Set(w, x)
    PROVE  \A v \in Resource : res[v] # NoRes => res'[v] # NoRes
BY Floats DEF Set

(* A step that leaves Edge, the campaigns and the event loop alone. *)
LEMMA OthersKeep ==
    ASSUME CampaignInv, UNCHANGED <<exists, version, known, asking, asset>>,
           at'[Loop] = at[Loop], \A v \in Resource : res[v] # NoRes => res'[v] # NoRes
    PROVE  (Whole /\ CampaignPursued)'
BY DEF CampaignInv, Whole, CampaignPursued, Rebuilding, Complete, At, Resource

LEMMA MainCampaign ==
    ASSUME CampaignInv, MainNext \/ update_extreme_fails
    PROVE  (Whole /\ CampaignPursued)'
<1>1. /\ TypeOK /\ res \in [Resource -> Float \cup {NoRes}]
      /\ at \in [{Main, Loop} -> MainAt \cup LoopAt]
      BY DEF CampaignInv, EnclosedInv, TypeInv
<1>2. CASE client_config_create_cpu_temperature_device
  <2>1. /\ at[Loop] = "idle" /\ known = NoVersion /\ ~asking
        /\ \A a \in Asset : asset[a] # "reboot"
        BY <1>2 DEF client_config_create_cpu_temperature_device, CampaignInv, EnclosedInv,
                    Undisturbed, CampaignPursued, Rebuilding, At
  <2>2. at'[Loop] = "idle" /\ known' = NoVersion /\ exists' /\ asset' = asset
        BY <1>1, <1>2, <2>1 DEF client_config_create_cpu_temperature_device, edgeVars,
                    client_config_create_device_with_parameters, Go, Main, Loop
  <2>3. \A w \in Resource : res'[w] # NoRes
        BY <1>2, Floats DEF client_config_create_cpu_temperature_device, Resource
  <2> QED BY <2>1, <2>2, <2>3 DEF Whole, CampaignPursued, Rebuilding, Complete, At
<1>3. CASE ~client_config_create_cpu_temperature_device
  <2> USE DEF mainVars, deviceVars, edgeVars, boundVars
  <2>1. UNCHANGED <<exists, version, known, asking, asset>>
        BY <1>3 DEF MainNext, main_loop, update_gets, update_compares, update_sets,
               update_extreme_exists, update_extreme_gets, update_extreme_compares,
               update_extreme_sets, update_extreme_fails, update_ends
  <2>2. at'[Loop] = at[Loop]
        BY <1>1, <1>3 DEF MainNext, main_loop, update_gets, update_compares, update_sets,
               update_extreme_exists, update_extreme_gets, update_extreme_compares,
               update_extreme_sets, update_extreme_fails, update_ends, Go, Main, Loop
  <2>3. \A v \in Resource : res[v] # NoRes => res'[v] # NoRes
    <3>1. CASE update_sets
          BY <1>1, <3>1, SetKeeps, Floats DEF update_sets, TypeOK, Resource
    <3>2. CASE update_extreme_sets
      <4>1. PICK x \in Float : Set(extreme, x)
            BY <1>1, <3>2, Floats DEF update_extreme_sets, TypeOK
      <4> QED BY <1>1, <4>1, SetKeeps DEF TypeOK, Resource
    <3>3. CASE ~update_sets /\ ~update_extreme_sets
          BY <1>3, <3>3 DEF MainNext, main_loop, update_gets, update_compares,
               update_extreme_exists, update_extreme_gets, update_extreme_compares,
               update_extreme_fails, update_ends
    <3> QED BY <3>1, <3>2, <3>3
  <2> QED BY <2>1, <2>2, <2>3, OthersKeep
<1> QED BY <1>2, <1>3

LEMMA LoopCampaign ==
    ASSUME CampaignInv, Next, ~(MainNext \/ update_extreme_fails)
    PROVE  (Whole /\ CampaignPursued)'
<1>1. /\ TypeOK /\ res \in [Resource -> Float \cup {NoRes}]
      /\ at \in [{Main, Loop} -> MainAt \cup LoopAt]
      BY DEF CampaignInv, EnclosedInv, TypeInv
<1> USE DEF CampaignInv, Whole, CampaignPursued, Rebuilding, At, Go, Idle, Main, Loop,
            mainVars, deviceVars, edgeVars, boundVars
<1>2. CASE ipso_reset_max \/ ipso_reset_min_max_object
  <2>1. \A v \in Resource : res[v] # NoRes => res'[v] # NoRes
        BY <1>1, <1>2, SetKeeps, Floats
        DEF ipso_reset_max, ipso_reset_min_max_object, Resource
  <2>2. /\ UNCHANGED <<exists, version, known, asking, asset>>
        /\ at[Loop] \in {"idle", "reset_max"} /\ at'[Loop] \in {"idle", "reset_max"}
        BY <1>1, <1>2 DEF ipso_reset_max, ipso_reset_min_max_object
  <2> QED BY <2>1, <2>2 DEF Complete, Resource
<1>3. CASE ipso_reset_fails
      BY <1>1, <1>3 DEF ipso_reset_fails, Complete
<1>4. CASE unregister_success_creates
      BY <1>1, <1>4 DEF unregister_success_creates,
                        client_config_create_device_with_parameters, Complete
<1>5. CASE unregister_success_sensor
      BY <1>1, <1>5, Floats DEF unregister_success_sensor, ipso_create_sensor_object,
                        Complete, Resource
<1>6. CASE unregister_success_fields
  <2>1. /\ exists' /\ at'[Loop] = "version" /\ at[Loop] = "fields"
        /\ UNCHANGED <<known, asking, asset>>
        BY <1>1, <1>6 DEF unregister_success_fields, EnclosedInv, Undisturbed
  <2>2. Complete'
        BY <1>1, <1>6, Floats DEF unregister_success_fields, ipso_add_min_max_fields,
                        Complete, Resource
  <2> QED BY <2>1, <2>2
<1>7. ASSUME NEW a \in Asset, unregister_success_registers(a)
      PROVE  (Whole /\ CampaignPursued)'
      BY <1>1, <1>7 DEF unregister_success_registers, Complete, TypeOK
<1>8. ASSUME NEW a \in Asset, manifest_meta_data_handle(a)
      PROVE  (Whole /\ CampaignPursued)'
      BY <1>1, <1>8 DEF manifest_meta_data_handle, Complete, TypeOK
<1>9. ASSUME NEW a \in Asset,
             asset_download_success_handler(a) \/ asset_download_failure_handler(a)
      PROVE  (Whole /\ CampaignPursued)'
      BY <1>1, <1>9 DEF asset_download_success_handler, asset_download_failure_handler,
                        Complete, TypeOK
<1>10. ASSUME NEW a \in Asset, unregister_success_handler(a)
      PROVE  (Whole /\ CampaignPursued)'
      BY <1>1, <1>10 DEF unregister_success_handler, Complete, TypeOK
<1>11. ASSUME NEW a \in Asset, unregister_failure_handler(a)
      PROVE  (Whole /\ CampaignPursued)'
      BY <1>1, <1>11 DEF unregister_failure_handler, Complete, TypeOK
<1>12. CASE device_register_success_handler
      BY <1>1, <1>12 DEF device_register_success_handler, Complete
<1>13. CASE device_register_failure_handler
      BY <1>1, <1>13 DEF device_register_failure_handler, Complete
<1>14. CASE temperature_changes
      BY <1>14 DEF temperature_changes, Complete
<1> QED
      BY <1>2, <1>3, <1>4, <1>5, <1>6, <1>7, <1>8, <1>9, <1>10, <1>11, <1>12, <1>13, <1>14
      DEF Next, Building

LEMMA CampaignsHold == Spec => []CampaignInv
<1>1. Init => EnclosedInv
  <2>1. Init => TypeInv BY InitTyped
  <2> QED BY <2>1 DEF Init, EnclosedInv, Undisturbed, Progress, Main, Loop
<1>2. Init => CampaignInv
  <2> SUFFICES ASSUME Init PROVE Whole /\ CampaignPursued
      BY <1>1 DEF CampaignInv
  <2>1. at[Loop] = "idle"
        BY DEF Init, Main, Loop
  <2> QED BY <2>1 DEF Init, Whole, CampaignPursued, Rebuilding, At
<1>3. ASSUME CampaignInv, [Next]_vars PROVE CampaignInv'
  <2>1. CASE Next
    <3>1. EnclosedInv'
          BY <1>3, <2>1, MainTyped, LoopTyped, UpdateEncloses, LoopEncloses
          DEF EnclosedInv, CampaignInv
    <3>2. (Whole /\ CampaignPursued)'
          BY <1>3, <2>1, MainCampaign, LoopCampaign
    <3> QED BY <3>1, <3>2 DEF CampaignInv
  <2>2. CASE UNCHANGED vars
    <3>1. EnclosedInv'
          BY <1>3, <2>2 DEF CampaignInv, vars, EnclosedInv, TypeInv, TypeOK, Undisturbed,
                            Progress
    <3>2. (Whole /\ CampaignPursued)'
          BY <1>3, <2>2, OthersKeep DEF vars
    <3> QED BY <3>1, <3>2 DEF CampaignInv
  <2> QED BY <1>3, <2>1, <2>2
<1> QED BY <1>2, <1>3, PTL DEF Spec

(* Whatever the campaigns, the resets and the update do at the same time,    *)
(* what Edge has registered is the whole device with its present version.    *)
THEOREM EdgeKnowsTheDevice == Spec => []EdgeKnowsDevice
<1>1. CampaignInv => EdgeKnowsDevice
      BY DEF CampaignInv, Whole, Complete, EdgeKnowsDevice
<1> QED BY <1>1, CampaignsHold, PTL

(* The safety part of CampaignEnds: a device that was unregistered is being  *)
(* built by its campaign alone, however many there are.                      *)
THEOREM CampaignsGoOn == Spec => []CampaignPursued
<1>1. CampaignInv => CampaignPursued
      BY DEF CampaignInv
<1> QED BY <1>1, CampaignsHold, PTL

-----------------------------------------------------------------------------
(* How the two threads of the same program stop, which PtExample specifies:  *)
(* what holds when the main thread goes to join.                             *)
CONSTANT MaxSignals
VARIABLES threadAt, mutex, keep, sem, connected, apiRunning, conn, reg, devRegs,
          unregs, stop, failures

E == INSTANCE PtExample WITH at <- threadAt, faults <- failures

(* The places of the two threads. *)
Place ==
    {"start", "connecting", "device", "loop", "cleanup", "unregister", "requested",
     "waiting", "woken", "unlock", "join", "exit", "events", "stopping", "done"}

(* The inductive invariant: both threads are somewhere, the counts of the   *)
(* faults, and the property.                                                *)
StopInv ==
    /\ threadAt \in [E!Thread -> Place] /\ stop \in BOOLEAN /\ unregs \in Nat
    /\ failures \in [E!Kind -> Nat]
    /\ E!StoppedBeforeJoin

(* Each step of shutdown_and_cleanup keeps it, on either thread: the main   *)
(* thread gets past the call only where the request is refused, and the     *)
(* client is stopped then.                                                  *)
LEMMA CleanupStep ==
    ASSUME StopInv, NEW t \in E!Thread,
           E!shutdown_and_cleanup(t) \/ E!cleanup_spurious_wake(t)
    PROVE  StopInv'
<1> USE DEF StopInv, E!StoppedBeforeJoin, E!At, E!Go, E!Main, E!Pt, E!Thread, Place,
            E!Kind, E!Fault, E!Happened, E!edgeVars, E!flagVars
<1>1. CASE E!cleanup_lock(t) BY <1>1 DEF E!cleanup_lock
<1>2. CASE E!cleanup_unregister(t) BY <1>2 DEF E!cleanup_unregister
<1>3. CASE E!cleanup_refused(t) BY <1>3 DEF E!cleanup_refused
<1>4. CASE E!cleanup_wait(t) BY <1>4 DEF E!cleanup_wait
<1>5. CASE E!cleanup_wake(t) BY <1>5 DEF E!cleanup_wake
<1>6. CASE E!cleanup_unlock(t) BY <1>6 DEF E!cleanup_unlock
<1>7. CASE E!cleanup_spurious_wake(t) BY <1>7 DEF E!cleanup_spurious_wake
<1> QED BY <1>1, <1>2, <1>3, <1>4, <1>5, <1>6, <1>7 DEF E!shutdown_and_cleanup

(* So does every other step: only the answer to the unregistration wakes    *)
(* the main thread, and it is the callback that stops the client.           *)
LEMMA StopStep ==
    ASSUME StopInv, [E!Next]_(E!vars)
    PROVE  StopInv'
<1> USE DEF StopInv, E!StoppedBeforeJoin, E!At, E!Go, E!Main, E!Pt, E!Thread, Place,
            E!Kind, E!Fault, E!Happened, E!edgeVars, E!flagVars
<1>1. CASE E!MainStep
      BY <1>1 DEF E!MainStep, E!wait_until_connected, E!main_loop_start, E!main_loop_end,
                  E!wait_for_protocol_translator_api_thread
<1>2. CASE E!protocol_translator_registration_success
           \/ E!protocol_translator_registration_failure
      BY <1>2 DEF E!protocol_translator_registration_success,
                  E!protocol_translator_registration_failure
<1>3. CASE E!set_connected BY <1>3 DEF E!set_connected
<1>4. CASE E!devices_unregistration_answered
      BY <1>4 DEF E!devices_unregistration_answered
<1>5. CASE E!pt_devices_unregistration_common
      BY <1>5 DEF E!pt_devices_unregistration_common
<1>6. CASE E!connected_spurious_wake \/ E!shutdown_handler \/ E!pt_client_start_fails
      BY <1>6 DEF E!connected_spurious_wake, E!shutdown_handler, E!pt_client_start_fails
<1>7. CASE E!connection_ready_handler \/ E!disconnected_handler
      BY <1>7 DEF E!connection_ready_handler, E!disconnected_handler
<1>8. CASE E!shutdown_cb_handler BY <1>8 DEF E!shutdown_cb_handler
<1>9. CASE UNCHANGED E!vars BY <1>9 DEF E!vars
<1> QED BY <1>1, <1>2, <1>3, <1>4, <1>5, <1>6, <1>7, <1>8, <1>9, CleanupStep
        DEF E!Next, E!Callback

(* Unless its wait ends without a signal the main thread goes to join only  *)
(* a client that is told to stop, however the start, the registrations and  *)
(* the requests of either thread fail; and even then, as while it waits,    *)
(* the answer that leads to the stop is on its way.                         *)
THEOREM StopsBeforeJoin == E!Spec => []E!StoppedBeforeJoin
<1>1. E!Init => StopInv
  <2> SUFFICES ASSUME E!Init PROVE StopInv OBVIOUS
  <2>1. threadAt \in [E!Thread -> Place] BY DEF E!Init, E!Thread, Place
  <2>2. failures \in [E!Kind -> Nat] BY DEF E!Init
  <2>3. threadAt[E!Main] = "start" BY DEF E!Init, E!Main, E!Thread
  <2> QED BY <2>1, <2>2, <2>3 DEF E!Init, StopInv, E!StoppedBeforeJoin
<1>2. StopInv /\ [E!Next]_(E!vars) => StopInv' BY StopStep
<1>3. StopInv => E!StoppedBeforeJoin BY DEF StopInv
<1> QED BY <1>1, <1>2, <1>3, PTL DEF E!Spec
=============================================================================
