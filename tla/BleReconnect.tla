---------------------------- MODULE BleReconnect ----------------------------
(***************************************************************************)
(* Reconnection of one BLE device (blept-example/pt_ble.c), with the time  *)
(* that BlePt leaves out: the back-off delays, the time since the last     *)
(* connection that the code measures and the time the device has really    *)
(* been away.  Times are seconds.                                          *)
(*                                                                         *)
(* The link comes up with a signal of its own, which the reply of Connect  *)
(* may follow or not: a link can be lost again before the reply, a call    *)
(* can fail after the link came up or while a timer runs, and a timer can  *)
(* go off with a call outstanding.                                         *)
(***************************************************************************)
EXTENDS Naturals

CONSTANTS
    InitialSleep,    \* BLE_RETRY_SLEEP_TIME_INITIAL_SECS
    Multiplier,      \* BLE_SLEEP_TIME_MULTIPLIER
    MaxBackOff,      \* BLE_MAX_BACK_OFF_TIME_SECS
    MaxRetryTime,    \* MAX_CONNECTION_RETRY_TIME_SECONDS
    MaxRetries,      \* BLE_MAX_CONNECTION_RETRIES
    LinkTimes,       \* lengths of time for which links last
    ReplyTimes,      \* lengths of time that pass before the reply of a Connect
    MaxCalls,        \* bound on outstanding Connect calls
    MaxLosses        \* bound on the links that are lost

ASSUME BleReconnectAssumption ==
    /\ InitialSleep \in Nat \ {0} /\ Multiplier \in Nat \ {0}
    /\ MaxBackOff \in Nat /\ MaxRetryTime \in Nat /\ MaxBackOff <= MaxRetryTime
    /\ MaxRetries \in Nat \ {0}
    /\ LinkTimes \subseteq Nat /\ ReplyTimes \subseteq Nat
    /\ MaxCalls \in Nat \ {0} /\ MaxLosses \in Nat

VARIABLES
    tracked,     \* the context is on the list
    registered,  \* the device is registered with Edge
    link,        \* the device is connected
    calls,       \* outstanding Connect calls
    timer,       \* delay of the running retry timer, 0 if there is none
    rest,        \* time until it goes off
    retries,     \* connection_retries
    since,       \* time since last_connected_timestamp_secs
    reached,     \* a Connect call succeeded, and since then no link was lost
                 \* and no call failed
    away,        \* time since that ended
    losses       \* links lost so far

vars == <<tracked, registered, link, calls, timer, rest, retries, since,
          reached, away, losses>>

-----------------------------------------------------------------------------
(* One round of the loop, and sleep_time after n - 1 rounds. *)
Round == [s \in Nat |-> IF s < MaxBackOff THEN s + s * Multiplier ELSE s]
Sleep[n \in 1..MaxRetries] == IF n = 1 THEN InitialSleep ELSE Round[Sleep[n - 1]]

(* Mutant: the loop has no limit. *)
ble_back_off_time_unlimited(n) == InitialSleep * (1 + Multiplier)^(n - 1)

(* The delay before retry n: the loop of ble_back_off_time_in_ms grows it   *)
(* n - 1 times, unless it has reached the maximum before.                   *)
ble_back_off_time(n) == Sleep[n]

(* Elapsed time, up to the largest limit the code compares it with. *)
After(t, by) == IF t + by > MaxRetryTime THEN MaxRetryTime ELSE t + by

(* Time t, or as much of it as there is until the timer goes off, and what  *)
(* it leaves of that.                                                       *)
Until(t) == IF timer > 0 /\ t > rest THEN rest ELSE t
Left(t) == IF timer > 0 THEN rest - Until(t) ELSE 0

Passes(t) ==
    /\ since' = After(since, Until(t))
    /\ away' = IF reached THEN away ELSE After(away, Until(t))

(* Mutant: the retry is not counted. *)
start_reconnection_uncounted(t) ==
    /\ UNCHANGED <<tracked, registered>>
    /\ retries' = IF retries = 0 THEN 1 ELSE retries
    /\ IF timer > 0 THEN rest' = Left(t) /\ UNCHANGED timer
                    ELSE timer' = ble_back_off_time(retries') /\ rest' = timer'

(* A running timer is left alone. *)
timer_already_running(t) ==
    /\ timer > 0
    /\ rest' = Left(t)
    /\ UNCHANGED <<tracked, registered, timer, retries>>

next_retry == IF retries < MaxRetries THEN retries + 1 ELSE retries

(* The next retry is counted.  The device is unregistered when the delay is *)
(* beyond the maximum and the last connection, as the code measures it, has *)
(* been over for that long; the context goes after a day.  Edge may refuse  *)
(* the unregistration; the context is removed nevertheless.                 *)
retry_or_unregister ==
    LET delay == ble_back_off_time(next_retry)
        Beyond(limit) == delay > MaxBackOff /\ since' >= limit
    IN  /\ retries' = next_retry
        /\ registered' \in {registered, registered /\ ~Beyond(MaxBackOff)}
        /\ tracked' = ~Beyond(MaxRetryTime)
        /\ timer' = IF Beyond(MaxRetryTime) THEN 0 ELSE delay
        /\ rest' = timer'

(* Mutant: nobody asks whether a timer is running. *)
start_reconnection_untested(t) == retry_or_unregister

(* ble_start_reconnection_timer_or_unregister_device, time t having passed. *)
start_reconnection(t) ==
    timer_already_running(t) \/ (timer = 0 /\ retry_or_unregister)

-----------------------------------------------------------------------------
ble_on_connect ==
    /\ tracked /\ ~link
    /\ link' = TRUE
    /\ UNCHANGED <<tracked, registered, calls, timer, rest, retries, since,
                   reached, away, losses>>

ble_on_disconnect ==
    /\ tracked /\ link
    /\ losses < MaxLosses
    /\ losses' = losses + 1
    /\ link' = FALSE /\ reached' = FALSE
    /\ \E t \in LinkTimes : Passes(t) /\ start_reconnection(t)
    /\ UNCHANGED calls

ble_retry_connect ==
    /\ tracked /\ timer > 0
    /\ calls < MaxCalls
    /\ Passes(rest)
    /\ timer' = 0 /\ rest' = 0 /\ calls' = calls + 1
    /\ UNCHANGED <<tracked, registered, link, retries, reached, losses>>

ble_connect_done_error ==
    /\ tracked /\ calls > 0
    /\ calls' = calls - 1
    /\ reached' = FALSE
    /\ \E t \in ReplyTimes : Passes(t) /\ start_reconnection(t)
    /\ UNCHANGED <<link, losses>>

(* With Edge there the device is registered again.  A timer goes on. *)
ble_connect_done ==
    /\ tracked /\ calls > 0 /\ link
    /\ calls' = calls - 1
    /\ \E t \in ReplyTimes : rest' = Left(t)
    /\ reached' = TRUE
    /\ registered' \in {registered, TRUE}
    /\ retries' = 0 /\ since' = 0 /\ away' = 0
    /\ UNCHANGED <<tracked, link, timer, losses>>

-----------------------------------------------------------------------------
(* A context that was just created, with its first Connect call. *)
Init ==
    /\ tracked = TRUE /\ registered = FALSE /\ link = FALSE /\ calls = 1
    /\ timer = 0 /\ rest = 0 /\ retries = 0
    /\ since = 0 /\ reached = FALSE /\ away = 0 /\ losses = 0

Next ==
    \/ ble_on_connect \/ ble_on_disconnect \/ ble_retry_connect
    \/ ble_connect_done_error \/ ble_connect_done

Spec == Init /\ [][Next]_vars

(* Timers go off and BlueZ answers every call; links need not come up. *)
FairSpec ==
    Spec /\ WF_vars(ble_retry_connect)
         /\ WF_vars(ble_connect_done \/ ble_connect_done_error)

-----------------------------------------------------------------------------
(* Properties. *)

(* The delays as the macros describe them: the initial one, each of the      *)
(* others 1 + Multiplier times the one before; and how long the first k of   *)
(* them last together.                                                       *)
DelaySteps == 12
Delay[k \in 0..DelaySteps] ==
    IF k = 0 THEN InitialSleep ELSE Delay[k - 1] * (1 + Multiplier)
Waited[k \in 0..DelaySteps] ==
    IF k = 0 THEN 0 ELSE Waited[k - 1] + Delay[k - 1]
Delays == {Delay[k] : k \in 0..DelaySteps}

(* The largest int32_t. *)
MaxInt32 == 2147483647

(* What the values of the macros have to satisfy: the first delay is within  *)
(* the maximum, the milliseconds of the longest one fit an int32_t, the time *)
(* for retries is longer than the delays, and DelaySteps is large enough.    *)
ASSUME MacroAssumption ==
    /\ InitialSleep <= MaxBackOff
    /\ ((1 + Multiplier) * MaxBackOff) * 1000 <= MaxInt32
    /\ (1 + Multiplier) * MaxBackOff <= Multiplier * MaxRetryTime
    /\ MaxBackOff < Delay[DelaySteps]

(* A retry timer has one of these delays, with at most one step beyond the  *)
(* maximum, and its milliseconds fit the int32_t they are computed in,      *)
(* however many retries there were.                                         *)
DelayInRange ==
    timer > 0 => /\ timer \in Delays
                 /\ timer < (1 + Multiplier) * MaxBackOff
                 /\ timer * 1000 <= MaxInt32

(* devices.h, "it stays registered until max backoff time is reached": a     *)
(* device is unregistered only after every delay within the maximum has been *)
(* waited for since it was last reached, however long the lost connection    *)
(* had lasted and however links come and go while calls are made.            *)
StaysRegistered ==
    [][registered /\ ~registered'
         => \A k \in 1..DelaySteps : Delay[k - 1] <= MaxBackOff => away' >= Waited[k]]_vars

(* A device that stays away does not keep its context for ever. *)
GivenUp == []<>(link \/ ~tracked)
=============================================================================
