------------------------------ MODULE PtSensor ------------------------------
(***************************************************************************)
(* The CPU temperature device of the protocol translator example           *)
(* (pt-example/client_example.c with examples-common-2).                   *)
(*                                                                         *)
(* The main thread writes the measured temperature and moves the minimum   *)
(* and the maximum.  The event-loop thread resets both when Edge asks, and *)
(* runs firmware campaigns, which remove the device and build it again.    *)
(* Every call of the pt-client is one step, since only the pt-client       *)
(* locks.  It hands out pointers into its own buffers: a buffer that is    *)
(* replaced before it is read gives any value.                             *)
(*                                                                         *)
(* Temperatures are small numbers; conversion to network byte order and    *)
(* back keeps them.  The pt-client and Edge are external; the connection   *)
(* is the subject of module PtExample.                                     *)
(***************************************************************************)
EXTENDS Integers

CONSTANTS
    MaxTemp,       \* temperatures are 0..MaxTemp
    Asset,         \* firmware campaigns, named by the version they bring
    MaxChanges,    \* bound on changes of the temperature
    MaxResets,     \* bound on resets
    MaxFaults      \* bound on faults

ASSUME PtSensorAssumption ==
    MaxTemp \in Nat /\ MaxChanges \in Nat /\ MaxResets \in Nat /\ MaxFaults \in Nat

VARIABLES
    at,         \* where each thread is
    temp,       \* the temperature of the processor
    read,       \* main: the temperature it writes
    extreme,    \* main: the extreme it moves, "min" or "max"
    stale,      \* main: the buffer it is about to read has been freed
    copied,     \* main: the buffer it copies the temperature from has been freed
    exists,     \* the pt-client knows the device
    res,        \* its resources: "value", "min", "max"
    version,    \* its firmware version
    known,      \* the version that Edge has registered, or NoVersion
    asking,     \* pt_device_register is outstanding
    asset,      \* per campaign: how far it is
    trust,      \* history: the extremes after the last change of the value
    changes, resets, faults     \* history: how many so far

vars == <<at, temp, read, extreme, stale, copied, exists, res, version, known,
          asking, asset, trust, changes, resets, faults>>
mainVars == <<read, extreme, stale, copied>>
deviceVars == <<exists, version>>
edgeVars == <<known, asking, asset>>
boundVars == <<temp, changes, resets>>

Main == "main"
Loop == "events"
FltMax == MaxTemp + 1
Temp == 0..MaxTemp
Float == -FltMax..FltMax
NoRes == FltMax + 1     \* no value: the resource does not exist
NoVersion == "none"
First == "first"
Version == Asset \cup {First}
Resource == {"value", "min", "max"}
Bare == [w \in Resource |-> NoRes]

At(t, p) == at[t] = p
Go(t, p) == at' = [at EXCEPT ![t] = p]
Fault == faults < MaxFaults /\ faults' = faults + 1

-----------------------------------------------------------------------------
Init ==
    /\ at = [t \in {Main, Loop} |-> IF t = Main THEN "start" ELSE "idle"]
    /\ temp \in Temp
    /\ read = temp /\ extreme = "min" /\ stale = FALSE /\ copied = FALSE
    /\ exists = FALSE /\ res = Bare /\ version = First
    /\ known = NoVersion /\ asking = FALSE
    /\ asset = [a \in Asset |-> "none"]
    /\ trust = "no"
    /\ changes = 0 /\ resets = 0 /\ faults = 0

(* What replacing the buffer of resource w does to the pointers that the   *)
(* main thread holds: to the resource it is reading, and to the value that *)
(* it has handed over and still copies from.                               *)
Reading(w) ==
    \/ At(Main, "compare") /\ w = "value"
    \/ At(Main, "extreme_compare") /\ w = extreme
Frees(w) ==
    /\ stale' = (stale \/ Reading(w))
    /\ copied' = (copied \/ w = "value")
FreesAll ==
    /\ stale' = (stale \/ At(Main, "compare") \/ At(Main, "extreme_compare"))
    /\ copied' = TRUE

(* Disturbed: a reset or a new device; the extremes start again. *)
Disturbs == trust' = "no"

(* pt_device_set_resource_value does nothing for a resource that is gone. *)
Set(w, x) == res' = IF exists /\ res[w] # NoRes THEN [res EXCEPT ![w] = x] ELSE res

-----------------------------------------------------------------------------
(* The device is built by calls of the pt-client, one after the other. *)

client_config_create_device_with_parameters(v) ==
    exists' = TRUE /\ version' = v

ipso_create_sensor_object == res' = [res EXCEPT !["value"] = 0]

ipso_add_min_max_fields == res' = [res EXCEPT !["min"] = FltMax, !["max"] = -FltMax]

-----------------------------------------------------------------------------
(* The main thread *)

(* Nobody else knows the device before it is registered. *)
client_config_create_cpu_temperature_device ==
    /\ At(Main, "start")
    /\ client_config_create_device_with_parameters(First)
    /\ res' = [value |-> 0, min |-> FltMax, max |-> -FltMax]
    /\ asking' = TRUE
    /\ Go(Main, "loop")
    /\ UNCHANGED <<mainVars, known, asset, trust, boundVars, faults>>

(* A pass of the loop begins if the device exists. *)
main_loop ==
    /\ At(Main, "loop") /\ exists
    /\ read' = temp
    /\ Go(Main, "get")
    /\ UNCHANGED <<extreme, stale, copied, deviceVars, res, edgeVars, trust,
                   boundVars, faults>>

(* update_temperature_to_device: the device may be gone again. *)
update_gets ==
    /\ At(Main, "get")
    /\ stale' = FALSE
    /\ Go(Main, IF exists /\ res["value"] # NoRes THEN "compare" ELSE "done")
    /\ UNCHANGED <<read, extreme, copied, deviceVars, res, edgeVars, trust,
                   boundVars, faults>>

Seen(w) == IF stale THEN Float ELSE {res[w]}

(* Mutant: a rise is no change. *)
update_compares_falls ==
    /\ At(Main, "compare")
    /\ \E current \in Seen("value") :
        Go(Main, IF current > read THEN "set" ELSE "done")
    /\ UNCHANGED <<mainVars, deviceVars, res, edgeVars, trust, boundVars, faults>>

(* Nothing is done for a value that has not changed. *)
update_compares ==
    /\ At(Main, "compare")
    /\ \E current \in Seen("value") :
        Go(Main, IF current # read THEN "set" ELSE "done")
    /\ UNCHANGED <<mainVars, deviceVars, res, edgeVars, trust, boundVars, faults>>

(* Mutant: the value is stored in the byte order of the host. *)
update_sets_host_order ==
    /\ At(Main, "set")
    /\ Set("value", read * 2^24)
    /\ extreme' = "min" /\ copied' = FALSE
    /\ trust' = "no"
    /\ Go(Main, "extreme_exists")
    /\ UNCHANGED <<read, stale, deviceVars, edgeVars, boundVars, faults>>

update_sets ==
    /\ At(Main, "set")
    /\ Set("value", read)
    /\ extreme' = "min" /\ copied' = FALSE
    /\ trust' = IF NoRes \in {res[w] : w \in Resource} THEN "no" ELSE "trying"
    /\ Go(Main, "extreme_exists")
    /\ UNCHANGED <<read, stale, deviceVars, edgeVars, boundVars, faults>>

After(w) == IF w = "min" THEN "extreme_exists" ELSE "done"
Turns == extreme' = "max"

update_extreme_exists ==
    /\ At(Main, "extreme_exists")
    /\ \/ exists /\ res[extreme] # NoRes /\ Go(Main, "extreme_get") /\ UNCHANGED extreme
       \/ ~(exists /\ res[extreme] # NoRes) /\ Go(Main, After(extreme)) /\ Turns
    /\ UNCHANGED <<read, stale, copied, deviceVars, res, edgeVars, trust,
                   boundVars, faults>>

update_extreme_gets ==
    /\ At(Main, "extreme_get")
    /\ stale' = FALSE
    /\ Go(Main, IF exists /\ res[extreme] # NoRes THEN "extreme_compare" ELSE "done")
    /\ UNCHANGED <<read, extreme, copied, deviceVars, res, edgeVars, trust,
                   boundVars, faults>>

Beyond(w, current) == IF w = "min" THEN read < current ELSE read > current

(* Mutant: the maximum is compared like the minimum. *)
update_extreme_compares_less ==
    /\ At(Main, "extreme_compare")
    /\ \E current \in Seen(extreme) :
        \/ read < current /\ Go(Main, "extreme_set") /\ UNCHANGED extreme
        \/ ~(read < current) /\ Go(Main, After(extreme)) /\ Turns
    /\ UNCHANGED <<read, stale, copied, deviceVars, res, edgeVars, trust,
                   boundVars, faults>>

update_extreme_compares ==
    /\ At(Main, "extreme_compare")
    /\ \E current \in Seen(extreme) :
        \/ Beyond(extreme, current) /\ Go(Main, "extreme_set") /\ UNCHANGED extreme
        \/ ~Beyond(extreme, current) /\ Go(Main, After(extreme)) /\ Turns
    /\ UNCHANGED <<read, stale, copied, deviceVars, res, edgeVars, trust,
                   boundVars, faults>>

(* The new extreme is copied from the buffer of the value. *)
update_extreme_sets ==
    /\ At(Main, "extreme_set")
    /\ \E x \in IF copied THEN Float ELSE {read} : Set(extreme, x)
    /\ Go(Main, After(extreme)) /\ Turns
    /\ UNCHANGED <<read, stale, copied, deviceVars, edgeVars, trust, boundVars,
                   faults>>

update_extreme_fails ==
    /\ At(Main, "extreme_set") /\ Fault
    /\ Go(Main, After(extreme)) /\ Turns
    /\ Disturbs
    /\ UNCHANGED <<read, stale, copied, deviceVars, res, edgeVars, boundVars>>

(* pt_devices_update, then the loop sleeps. *)
update_ends ==
    /\ At(Main, "done")
    /\ trust' = IF trust = "trying" THEN "yes" ELSE trust
    /\ Go(Main, "loop")
    /\ UNCHANGED <<mainVars, deviceVars, res, edgeVars, boundVars, faults>>

-----------------------------------------------------------------------------
(* The event loop: a reset *)

Idle == At(Loop, "idle")

ipso_reset_min_max_object ==
    /\ Idle /\ known # NoVersion /\ resets < MaxResets
    /\ resets' = resets + 1
    /\ Set("min", FltMax) /\ Frees("min") /\ Disturbs
    /\ Go(Loop, "reset_max")
    /\ UNCHANGED <<read, extreme, deviceVars, edgeVars, temp, changes, faults>>

ipso_reset_max ==
    /\ At(Loop, "reset_max")
    /\ Set("max", -FltMax) /\ Frees("max") /\ Disturbs
    /\ Go(Loop, "idle")
    /\ UNCHANGED <<read, extreme, deviceVars, edgeVars, boundVars, faults>>

(* There is no memory for the second buffer. *)
ipso_reset_fails ==
    /\ At(Loop, "reset_max") /\ Fault
    /\ Go(Loop, "idle")
    /\ UNCHANGED <<mainVars, deviceVars, res, edgeVars, trust, boundVars>>

-----------------------------------------------------------------------------
(* The event loop: a firmware campaign *)

(* Edge announces a version; another vendor's is turned down, and so is    *)
(* one that cannot be downloaded.                                          *)
manifest_meta_data_handle(a) ==
    /\ Idle /\ known # NoVersion /\ asset[a] = "none"
    /\ \/ asset' = [asset EXCEPT ![a] = "download"] /\ UNCHANGED faults
       \/ asset' = [asset EXCEPT ![a] = "rejected"] /\ Fault
       \/ asset' = [asset EXCEPT ![a] = "leaked"] /\ Fault
    /\ UNCHANGED <<at, mainVars, deviceVars, res, known, asking, trust, boundVars>>

(* The device is unregistered; the request is refused for a device that    *)
(* the pt-client does not know, and the context is lost.                   *)
asset_download_success_handler(a) ==
    /\ Idle /\ asset[a] = "download"
    /\ asset' = [asset EXCEPT ![a] = IF exists THEN "unregister" ELSE "leaked"]
    /\ UNCHANGED <<at, mainVars, deviceVars, res, known, asking, trust, boundVars,
                   faults>>

asset_download_failure_handler(a) ==
    /\ Idle /\ asset[a] = "download" /\ Fault
    /\ asset' = [asset EXCEPT ![a] = "freed"]
    /\ UNCHANGED <<at, mainVars, deviceVars, res, known, asking, trust, boundVars>>

(* Mutant: two campaigns answer for the unregistered device. *)
unregister_success_for_all(a) ==
    /\ Idle /\ asset[a] = "unregister" /\ known # NoVersion
    /\ known' = NoVersion
    /\ exists' = FALSE /\ res' = Bare /\ FreesAll /\ Disturbs
    /\ asset' = [b \in Asset |-> IF asset[b] = "unregister" THEN "reboot" ELSE asset[b]]
    /\ Go(Loop, "create")
    /\ UNCHANGED <<read, extreme, version, asking, boundVars, faults>>

(* Edge has unregistered the device: the pt-client drops it and calls the  *)
(* handler, which sleeps.                                                  *)
unregister_success_handler(a) ==
    /\ Idle /\ asset[a] = "unregister" /\ known # NoVersion
    /\ known' = NoVersion
    /\ exists' = FALSE /\ res' = Bare /\ FreesAll /\ Disturbs
    /\ asset' = [asset EXCEPT ![a] = "reboot"]
    /\ Go(Loop, "create")
    /\ UNCHANGED <<read, extreme, version, asking, boundVars, faults>>

(* Edge does not know the device any more, or refuses. *)
unregister_failure_handler(a) ==
    /\ Idle /\ asset[a] = "unregister"
    /\ (known = NoVersion /\ UNCHANGED faults) \/ Fault
    /\ asset' = [asset EXCEPT ![a] = "freed"]
    /\ UNCHANGED <<at, mainVars, deviceVars, res, known, asking, trust, boundVars>>

(* The device is built again, with the version of the campaign, ... *)
unregister_success_creates ==
    /\ At(Loop, "create")
    /\ client_config_create_device_with_parameters(First)
    /\ Go(Loop, "sensor")
    /\ UNCHANGED <<mainVars, res, edgeVars, trust, boundVars, faults>>

unregister_success_sensor ==
    /\ At(Loop, "sensor")
    /\ ipso_create_sensor_object
    /\ Go(Loop, "fields")
    /\ UNCHANGED <<mainVars, deviceVars, edgeVars, trust, boundVars, faults>>

unregister_success_fields ==
    /\ At(Loop, "fields")
    /\ ipso_add_min_max_fields
    /\ Go(Loop, "version")
    /\ UNCHANGED <<mainVars, deviceVars, edgeVars, trust, boundVars, faults>>

(* Mutant: the version is not set. *)
unregister_success_registers_old(a) ==
    /\ At(Loop, "version") /\ asset[a] = "reboot"
    /\ UNCHANGED version
    /\ asset' = [asset EXCEPT ![a] = "freed"]
    /\ asking' = TRUE
    /\ Go(Loop, "idle")
    /\ UNCHANGED <<mainVars, exists, res, known, trust, boundVars, faults>>

(* ... and registered. *)
unregister_success_registers(a) ==
    /\ At(Loop, "version") /\ asset[a] = "reboot"
    /\ version' = a
    /\ asset' = [asset EXCEPT ![a] = "freed"]
    /\ asking' = TRUE
    /\ Go(Loop, "idle")
    /\ UNCHANGED <<mainVars, exists, res, known, trust, boundVars, faults>>

-----------------------------------------------------------------------------
(* Edge answers a registration; both handlers only log. *)

device_register_success_handler ==
    /\ Idle /\ asking
    /\ asking' = FALSE
    /\ known' = version
    /\ UNCHANGED <<at, mainVars, deviceVars, res, asset, trust, boundVars, faults>>

device_register_failure_handler ==
    /\ Idle /\ asking /\ Fault
    /\ asking' = FALSE
    /\ UNCHANGED <<at, mainVars, deviceVars, res, known, asset, trust, boundVars>>

temperature_changes ==
    /\ changes < MaxChanges
    /\ changes' = changes + 1
    /\ temp' \in Temp \ {temp}
    /\ UNCHANGED <<at, mainVars, deviceVars, res, edgeVars, trust, resets, faults>>

-----------------------------------------------------------------------------
MainNext ==
    \/ client_config_create_cpu_temperature_device \/ main_loop
    \/ update_gets \/ update_compares \/ update_sets
    \/ update_extreme_exists \/ update_extreme_gets \/ update_extreme_compares
    \/ update_extreme_sets \/ update_ends

Building ==
    \/ ipso_reset_max
    \/ unregister_success_creates \/ unregister_success_sensor
    \/ unregister_success_fields
    \/ \E a \in Asset : unregister_success_registers(a)

Next ==
    \/ MainNext \/ Building
    \/ update_extreme_fails \/ ipso_reset_min_max_object \/ ipso_reset_fails
    \/ \E a \in Asset : manifest_meta_data_handle(a)
    \/ \E a \in Asset : asset_download_success_handler(a)
    \/ \E a \in Asset : asset_download_failure_handler(a)
    \/ \E a \in Asset : unregister_success_handler(a)
    \/ \E a \in Asset : unregister_failure_handler(a)
    \/ device_register_success_handler \/ device_register_failure_handler
    \/ temperature_changes

Spec == Init /\ [][Next]_vars

(* Both threads go on, and Edge answers a registration. *)
FairSpec ==
    /\ Spec
    /\ WF_vars(MainNext) /\ WF_vars(Building)
    /\ WF_vars(device_register_success_handler)
-----------------------------------------------------------------------------
TypeOK ==
    /\ at[Main] \in {"start", "loop", "get", "compare", "set", "extreme_exists",
                     "extreme_get", "extreme_compare", "extreme_set", "done"}
    /\ at[Loop] \in {"idle", "reset_max", "create", "sensor", "fields", "version"}
    /\ temp \in Temp /\ read \in Temp /\ extreme \in {"min", "max"}
    /\ stale \in BOOLEAN /\ copied \in BOOLEAN
    /\ exists \in BOOLEAN
    /\ \A w \in Resource : res[w] = NoRes \/ res[w] \in Float
    /\ version \in Version /\ known \in Version \cup {NoVersion}
    /\ asking \in BOOLEAN
    /\ asset \in [Asset -> {"none", "rejected", "download", "unregister", "reboot",
                        "freed", "leaked"}]
    /\ trust \in {"no", "trying", "yes"}
    /\ changes \in 0..MaxChanges /\ resets \in 0..MaxResets /\ faults \in 0..MaxFaults

(* After an update that changed the value, with no reset and no new device *)
(* since it wrote it, the minimum and the maximum enclose the value,       *)
(* whatever earlier updates read from freed buffers.                       *)
Enclosed ==
    trust = "yes" => res["min"] <= res["value"] /\ res["value"] <= res["max"]

(* The device comes to show the temperature, or the temperature changes:   *)
(* no comparison with a freed buffer and no update that found the device   *)
(* gone keeps it from that.                                                *)
ValueCatchesUp ==
    \A x \in Temp : temp = x ~> res["value"] = x \/ temp # x

(* What Edge has registered is the device that exists: it is complete, has *)
(* the version that Edge knows, and no other registration is on its way.   *)
EdgeKnowsDevice ==
    known # NoVersion =>
        /\ exists /\ NoRes \notin {res[w] : w \in Resource}
        /\ known = version /\ ~asking

(* The device that a campaign has unregistered is being built again, by    *)
(* that campaign alone: other campaigns on their way, the update and the   *)
(* resets do not come between, and Edge hears of it only when it is whole. *)
Rebuilding == at[Loop] \in {"create", "sensor", "fields", "version"}
CampaignPursued ==
    /\ \A a \in Asset : asset[a] = "reboot" =>
          Rebuilding /\ \A b \in Asset : asset[b] = "reboot" => b = a
    /\ Rebuilding => known = NoVersion /\ ~asking
                     /\ \E a \in Asset : asset[a] = "reboot"

(* A campaign that has unregistered the device ends with a device that     *)
(* Edge knows by the version of that campaign, unless Edge refuses it.     *)
Refused == Idle /\ known = NoVersion /\ ~asking
CampaignEnds ==
    \A a \in Asset : asset[a] = "reboot" ~> known = a \/ Refused
=============================================================================
