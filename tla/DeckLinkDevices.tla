---------------------------- MODULE DeckLinkDevices ----------------------------
(* DeckLink devices as an output node gets to know them: the SDK's discovery    *)
(* calls the registry back when one arrives or is removed, each has a monitor   *)
(* that the SDK notifies of changes and the statistics thread polls, and the    *)
(* node, on the render thread, shows the names, the device's status and its     *)
(* display modes whenever a version says that they have changed.                *)
(*                                                                              *)
(* src/src/nodes/decklink/registry.cpp, detail/device_monitor.cpp, and prepare  *)
(* of output.cpp. An input does the same but for the modes. Of what a device    *)
(* reports there is one value the SDK notifies of, the signal, and one that is  *)
(* polled. Life and death of a playback are in DeckLinkOutput.                  *)
EXTENDS Integers

CONSTANTS
    Devices,      \* IDeckLink objects; what is plugged in again may be another one
    Names,        \* what get_decklink_name makes of a device
    Outputs,      \* devices with an output
    Signals, Temperatures, \* what a device may report
    Unknown,      \* std::nullopt: it reports nothing
    NoDevice,     \* no such object
    Scenarios,    \* which nodes are to play, devices report and have which names
    ChangeBound   \* bound: arrivals, removals, changes of a device and of the options

ASSUME DevicesAssumption ==
    /\ Outputs \subseteq Devices /\ ChangeBound \in Nat
    /\ Scenarios \subseteq [enabled : BOOLEAN, reporting : SUBSET Devices,
                            name_of : [Devices -> Names], option : Names]
    /\ NoDevice \notin Devices \cup Names
    /\ Unknown \notin Signals \cup Temperatures

VARIABLES
    enabled,      \* whether the node is to play
    reporting,    \* devices with a status and statistics
    name_of,      \* name and persistent id of a device; two that have no id may share one
    actual,       \* what a device would report
    attached,     \* devices the SDK has told of
    callback,     \* the discovery callback in progress
    names, outputs, monitors, list_version, \* the registry's; outputs and monitors by name
    monitor,      \* the device_monitor_s objects with their snapshots
    notified,     \* devices with a notification under way
    copies,       \* monitors that the statistics thread has yet to poll
    reading,      \* the one it polls and what it has read
    place,        \* where prepare is
    option,       \* device_name as the frame has it
    selected,     \* the name selection_ holds
    device_version, list_changed, status_key, modes_key,
    session,      \* callback_, the node's playback
    shown,        \* what the node has written to the status registry
    source,       \* history: the monitor whose status is shown
    missed,       \* history: devices whose monitor was not told of their device's last change
    kept,         \* history: modes_key is of a playback that has been dropped
    changes

lists    == <<names, outputs, monitors, list_version>>
worker   == <<copies, reading>>
view     == <<place, option, selected, device_version, list_changed, status_key, modes_key,
              session, shown, kept>>
fixed    == <<enabled, reporting, name_of>>
world    == <<fixed, actual, attached, changes>>
device_vars == <<world, callback, lists, monitor, notified, worker, view, source, missed>>

Fields == [signal : Signals \cup {Unknown}, temperature : Temperatures \cup {Unknown}]
NoStatus   == [signal |-> Unknown, temperature |-> Unknown]
NoMonitor  == [version |-> 0, status |-> NoStatus, subscribed |-> FALSE]
NoCallback == [op |-> "none", device |-> NoDevice]
NoReading  == [monitor |-> NoDevice, temperature |-> Unknown]
NoSession  == [device |-> NoDevice, phase |-> "none", modes |-> NoDevice, version |-> 0]
NoKey      == [name |-> NoDevice, version |-> 0]
Unobserved == -1   \* an observed_value_s without a value

Listed == {n \in Names : outputs[n] # NoDevice}

-----------------------------------------------------------------------------
(* Monitors. One is known by its device: of a monitor that has been replaced    *)
(* nobody sees anything any more, whoever refers to it.                         *)

(* assign_if_changed: another value makes another snapshot with a version of   *)
(* its own.                                                                    *)
Assigned(m, field, value) ==
    IF m.status[field] = value THEN m
    ELSE [m EXCEPT !.status[field] = value, !.version = @ + 1]

\* Fault: what is polled is taken into the snapshot as it is.
AssignedUnversioned(m, field, value) ==
    IF field = "temperature" THEN [m EXCEPT !.status[field] = value]
    ELSE Assigned(m, field, value)

Reads(m, field, value) == Assigned(m, field, value)

(* The constructor reads everything there is, and subscribes afterwards.       *)
Made(d) ==
    Reads(Reads(NoMonitor, "signal", actual[d].signal), "temperature", actual[d].temperature)

(* refresh_status, called by the SDK some time after the change.               *)
Notify(d) ==
    /\ d \in notified
    /\ notified' = notified \ {d} /\ missed' = missed \ {d}
    /\ monitor' = [monitor EXCEPT ![d] = Reads(@, "signal", actual[d].signal)]
    /\ UNCHANGED <<world, callback, lists, worker, view, source>>

(* The statistics thread, every two seconds; it reads before it locks.         *)
StartPolling ==
    /\ copies = {}
    /\ copies' = {d \in reporting : monitors[name_of[d]] = d}
    /\ UNCHANGED <<world, callback, lists, monitor, notified, reading, view, source, missed>>

ReadTemperature(d) ==
    /\ d \in copies /\ reading = NoReading
    /\ reading' = [monitor |-> d, temperature |-> actual[d].temperature]
    /\ UNCHANGED <<world, callback, lists, monitor, notified, copies, view, source, missed>>

PollStatistics ==
    /\ reading # NoReading
    /\ copies' = copies \ {reading.monitor} /\ reading' = NoReading
    /\ monitor' = [monitor EXCEPT ![reading.monitor] =
                      Reads(@, "temperature", reading.temperature)]
    /\ UNCHANGED <<world, callback, lists, notified, view, source, missed>>

-----------------------------------------------------------------------------
(* discovery_callback. *)

DeviceArrived(d) ==
    /\ callback.op = "none" /\ d \notin attached /\ changes < ChangeBound
    /\ changes' = changes + 1 /\ attached' = attached \cup {d}
    /\ callback' = [op |-> "made", device |-> d]
    /\ monitor' = [monitor EXCEPT ![d] = Made(d)]
    /\ copies' = copies \ {d}
    /\ reading' = (IF reading.monitor = d THEN NoReading ELSE reading)
    /\ notified' = notified \ {d} /\ missed' = missed \ {d}
    /\ source' = (IF source = d THEN NoDevice ELSE source)
    /\ UNCHANGED <<fixed, actual, lists, view>>

Subscribe ==
    /\ callback.op = "made" /\ callback' = [callback EXCEPT !.op = "arrived"]
    /\ \E subscribed \in BOOLEAN :
          /\ subscribed => callback.device \in reporting
          /\ monitor' = [monitor EXCEPT ![callback.device].subscribed = subscribed]
    /\ UNCHANGED <<world, lists, notified, worker, view, source, missed>>

(* An exception on the way leaves the device unknown.                          *)
ArrivalFails ==
    /\ callback.op \in {"made", "arrived"} /\ callback' = NoCallback
    /\ UNCHANGED <<world, lists, monitor, notified, worker, view, source, missed>>

(* Under the lock, in the place of whatever has the name.                      *)
List ==
    /\ callback.op = "arrived" /\ callback' = [callback EXCEPT !.op = "counting"]
    /\ LET d == callback.device  n == name_of[d]
       IN  /\ names' = names \cup {d}
           /\ monitors' = [monitors EXCEPT ![n] = d]
           /\ outputs' = (IF d \in Outputs THEN [outputs EXCEPT ![n] = d] ELSE outputs)
    /\ UNCHANGED <<world, list_version, monitor, notified, worker, view, source, missed>>

DeviceRemoved(d) ==
    /\ callback.op = "none" /\ d \in attached /\ changes < ChangeBound
    /\ changes' = changes + 1 /\ attached' = attached \ {d}
    /\ callback' = [op |-> "removed", device |-> d]
    /\ UNCHANGED <<fixed, actual, lists, monitor, notified, worker, view, source, missed>>

(* Under the lock, whatever has the device's name goes.                        *)
Unlist ==
    /\ callback.op = "removed"
    /\ LET d == callback.device  n == name_of[d]
       IN  IF d \in names
           THEN /\ names' = names \ {d}
                /\ outputs' = [outputs EXCEPT ![n] = NoDevice]
                /\ monitors' = [monitors EXCEPT ![n] = NoDevice]
                /\ callback' = [callback EXCEPT !.op = "counting"]
           ELSE callback' = NoCallback /\ UNCHANGED <<names, outputs, monitors>>
    /\ UNCHANGED <<world, list_version, monitor, notified, worker, view, source, missed>>

(* device_list_version_ is counted after the lock.                             *)
Count ==
    /\ callback.op = "counting" /\ callback' = NoCallback
    /\ list_version' = list_version + 1
    /\ UNCHANGED <<world, names, outputs, monitors, monitor, notified, worker, view, source,
                   missed>>

-----------------------------------------------------------------------------
(* prepare of an output node. *)

\* Fault: the list that is shown is not looked at again.
ObserveOnce ==
    /\ place = "idle"
    /\ list_changed' = (device_version = Unobserved) /\ device_version' = list_version
    /\ place' = (IF list_changed' THEN "listing" ELSE "status")
    /\ UNCHANGED <<world, callback, lists, monitor, notified, worker, option, selected,
                   status_key, modes_key, session, shown, kept, source, missed>>

ObserveList ==
    /\ place = "idle"
    /\ list_changed' = (device_version # list_version) /\ device_version' = list_version
    /\ place' = (IF list_changed' THEN "listing" ELSE "status")
    /\ UNCHANGED <<world, callback, lists, monitor, notified, worker, option, selected,
                   status_key, modes_key, session, shown, kept, source, missed>>

(* get_output_options *)
ShowNames ==
    /\ place = "listing" /\ place' = "status"
    /\ shown' = [shown EXCEPT !.names = Listed]
    /\ UNCHANGED <<world, callback, lists, monitor, notified, worker, option, selected,
                   device_version, list_changed, status_key, modes_key, session, kept,
                   source, missed>>

(* get_device_status *)
MonitorOf(name) == IF monitors[name] = NoDevice THEN NoMonitor ELSE monitor[monitors[name]]

(* publish_device_status: the snapshot of the monitor of that name is shown if *)
(* it has another name or version than the one before. (The monitor is found   *)
(* under one lock and read under another: one replaced in between is like one  *)
(* replaced afterwards.)                                                       *)
ShowStatus ==
    /\ place = "status" /\ place' = "selection"
    /\ LET found == monitors[option]
           key == [name |-> option, version |-> MonitorOf(option).version]
       IN  /\ status_key' = key
           /\ IF key # status_key
              THEN shown' = [shown EXCEPT !.status = MonitorOf(option).status] /\ source' = found
              ELSE UNCHANGED <<shown, source>>
    /\ UNCHANGED <<world, callback, lists, monitor, notified, worker, option, selected,
                   device_version, list_changed, modes_key, session, kept, missed>>

(* stop_playback, for settings that have changed, of which the name is one, or *)
(* for a device that is not listed any more.                                   *)
Reselect ==
    /\ place = "selection" /\ place' = "modes"
    /\ selected' = option
    /\ LET gone == list_changed /\ session # NoSession /\ outputs[option] = NoDevice
       IN  \/ /\ selected' = selected /\ ~gone
              /\ UNCHANGED <<modes_key, session, kept>>
           \/ session' = NoSession /\ modes_key' = NoKey /\ kept' = FALSE
    /\ UNCHANGED <<world, callback, lists, monitor, notified, worker, option, device_version,
                   list_changed, status_key, shown, source, missed>>

(* publish_callback_status reads the version of the modes,                     *)
ObserveModes ==
    /\ place = "modes"
    /\ LET key == [name |-> option, version |-> session.version]
       IN  IF session # NoSession /\ key # modes_key
           THEN modes_key' = key /\ kept' = FALSE /\ place' = "showing"
           ELSE place' = "existing" /\ UNCHANGED <<modes_key, kept>>
    /\ UNCHANGED <<world, callback, lists, monitor, notified, worker, option, selected,
                   device_version, list_changed, status_key, session, shown, source,
                   missed>>

(* and then the modes. (And writes the keyer's status and, every second, what  *)
(* it counts.)                                                                 *)
ShowModes ==
    /\ place = "showing" /\ place' = "existing"
    /\ shown' = [shown EXCEPT !.modes = session.modes]
    /\ UNCHANGED <<world, callback, lists, monitor, notified, worker, option, selected,
                   device_version, list_changed, status_key, modes_key, session, kept,
                   source, missed>>

(* prepare_existing_playback: a playback that has failed is dropped, but what  *)
(* has been observed of it is not.                                             *)
Existing ==
    /\ place = "existing" /\ session # NoSession /\ place' = "idle"
    /\ IF session.phase = "failed" THEN session' = NoSession /\ kept' = (modes_key # NoKey)
       ELSE UNCHANGED <<session, kept>>
    /\ UNCHANGED <<world, callback, lists, monitor, notified, worker, option, selected,
                   device_version, list_changed, status_key, modes_key, shown, source,
                   missed>>

(* A playback is started on a listed device, unless it is not time yet or the  *)
(* device is in use.                                                           *)
StartPlayback ==
    /\ place = "existing" /\ session = NoSession /\ place' = "idle"
    /\ \/ /\ enabled /\ outputs[option] # NoDevice
          /\ session' = [device |-> outputs[option], phase |-> "starting", modes |-> NoDevice,
                         version |-> 0]
       \/ UNCHANGED session
    /\ UNCHANGED <<world, callback, lists, monitor, notified, worker, option, selected,
                   device_version, list_changed, status_key, modes_key, shown, kept,
                   source, missed>>

-----------------------------------------------------------------------------
(* The control executor, for the node's playback: publish_mode_options sets    *)
(* the modes under the lock and counts their version afterwards.               *)
SetModes ==
    /\ session.phase = "starting"
    /\ session' = [session EXCEPT !.phase = "publishing", !.modes = session.device]
    /\ UNCHANGED <<world, callback, lists, monitor, notified, worker, place, option,
                   selected, device_version, list_changed, status_key, modes_key,
                   shown, kept, source, missed>>

CountModes ==
    /\ session.phase = "publishing"
    /\ session' = [session EXCEPT !.phase = "started", !.version = @ + 1]
    /\ UNCHANGED <<world, callback, lists, monitor, notified, worker, place, option,
                   selected, device_version, list_changed, status_key, modes_key,
                   shown, kept, source, missed>>

SessionFails ==
    /\ session.phase \in {"starting", "started"}
    /\ session' = [session EXCEPT !.phase = "failed"]
    /\ UNCHANGED <<world, callback, lists, monitor, notified, worker, place, option,
                   selected, device_version, list_changed, status_key, modes_key,
                   shown, kept, source, missed>>

-----------------------------------------------------------------------------
(* What devices and users do. *)

(* The SDK notifies who has subscribed.                                        *)
SignalChanges(d, signal) ==
    /\ changes < ChangeBound /\ changes' = changes + 1
    /\ d \in reporting /\ signal # actual[d].signal
    /\ actual' = [actual EXCEPT ![d].signal = signal]
    /\ IF monitor[d].subscribed THEN notified' = notified \cup {d} /\ UNCHANGED missed
       ELSE missed' = missed \cup {d} /\ UNCHANGED notified
    /\ UNCHANGED <<fixed, attached, callback, lists, monitor, worker, view, source>>

TemperatureChanges(d, temperature) ==
    /\ changes < ChangeBound /\ changes' = changes + 1
    /\ d \in reporting /\ temperature # actual[d].temperature
    /\ actual' = [actual EXCEPT ![d].temperature = temperature]
    /\ UNCHANGED <<fixed, attached, callback, lists, monitor, notified, worker, view,
                   source, missed>>

OptionChanges(name) ==
    /\ place = "idle" /\ option # name /\ option' = name
    /\ changes < ChangeBound /\ changes' = changes + 1
    /\ UNCHANGED <<fixed, actual, attached, callback, lists, monitor, notified, worker,
                   place, selected, device_version, list_changed, status_key, modes_key,
                   session, shown, kept, source, missed>>

-----------------------------------------------------------------------------
DevicesInit ==
    /\ \E s \in Scenarios :
          /\ enabled = s.enabled /\ reporting = s.reporting
          /\ name_of = s.name_of /\ option = s.option
    /\ attached = {} /\ changes = 0
    /\ actual \in [Devices -> Fields]
    /\ \A d \in Devices : IF d \in reporting THEN actual[d].temperature = Unknown
                           ELSE actual[d] = NoStatus
    /\ callback = NoCallback
    /\ names = {} /\ list_version = 0
    /\ outputs = [n \in Names |-> NoDevice] /\ monitors = [n \in Names |-> NoDevice]
    /\ monitor = [d \in Devices |-> NoMonitor] /\ notified = {}
    /\ copies = {} /\ reading = NoReading
    /\ place = "idle" /\ selected = NoDevice
    /\ device_version = Unobserved /\ list_changed = FALSE
    /\ status_key = NoKey /\ modes_key = NoKey
    /\ session = NoSession /\ shown = [names |-> {}, status |-> NoStatus, modes |-> NoDevice]
    /\ source = NoDevice /\ missed = {} /\ kept = FALSE

Discovery == \/ \E d \in Devices : DeviceArrived(d) \/ DeviceRemoved(d)
             \/ Subscribe \/ ArrivalFails \/ List \/ Unlist \/ Count

Monitoring == \/ \E d \in Devices : Notify(d) \/ ReadTemperature(d)
              \/ StartPolling \/ PollStatistics

Preparing == \/ ObserveList \/ ShowNames \/ ShowStatus \/ Reselect
             \/ ObserveModes \/ ShowModes \/ Existing \/ StartPlayback

Playing == SetModes \/ CountModes \/ SessionFails

Changing == \/ \E d \in Devices, s \in Signals \cup {Unknown} : SignalChanges(d, s)
            \/ \E d \in Devices, t \in Temperatures \cup {Unknown} : TemperatureChanges(d, t)
            \/ \E n \in Names : OptionChanges(n)

DevicesNext == Discovery \/ Monitoring \/ Preparing \/ Playing \/ Changing
DevicesSpec == DevicesInit /\ [][DevicesNext]_device_vars

-----------------------------------------------------------------------------
StatusKeys == [name : Names \cup {NoDevice}, version : Nat]
Places == {"idle", "listing", "status", "selection", "modes", "showing", "existing"}
SessionPhases == {"none", "starting", "publishing", "started", "failed"}

DevicesTypeOK ==
    /\ enabled \in BOOLEAN /\ reporting \subseteq Devices
    /\ name_of \in [Devices -> Names] /\ attached \subseteq Devices /\ changes \in Nat
    /\ actual \in [Devices -> Fields]
    /\ callback \in [op : {"none", "made", "arrived", "removed", "counting"},
                     device : Devices \cup {NoDevice}]
    /\ names \subseteq Devices /\ outputs \in [Names -> Devices \cup {NoDevice}]
    /\ monitors \in [Names -> Devices \cup {NoDevice}] /\ list_version \in Nat
    /\ monitor \in [Devices -> [version : Nat, status : Fields, subscribed : BOOLEAN]]
    /\ notified \subseteq Devices /\ copies \subseteq Devices
    /\ reading \in [monitor : Devices \cup {NoDevice},
                    temperature : Temperatures \cup {Unknown}]
    /\ place \in Places /\ option \in Names /\ selected \in Names \cup {NoDevice}
    /\ device_version \in Nat \cup {Unobserved} /\ list_changed \in BOOLEAN
    /\ status_key \in StatusKeys /\ modes_key \in StatusKeys
    /\ session \in [device : Devices \cup {NoDevice}, phase : SessionPhases,
                    modes : Devices \cup {NoDevice}, version : Nat]
    /\ shown \in [names : SUBSET Names, status : Fields, modes : Devices \cup {NoDevice}]
    /\ source \in Devices \cup {NoDevice} /\ missed \subseteq Devices /\ kept \in BOOLEAN

(* A change of the lists that the node has not looked at yet, or is to be      *)
(* counted.                                                                    *)
ListsChange == callback.op = "counting" \/ device_version # list_version

(* The names shown are those of the devices there are, unless a change of them *)
(* is still to be noticed.                                                     *)
NamesFollowTheLists == shown.names = Listed \/ ListsChange \/ place = "listing"

(* A playback whose device has gone is stopped: by this frame, or by one that  *)
(* will notice.                                                                *)
PlaybacksHaveADevice ==
    session # NoSession /\ outputs[selected] = NoDevice =>
        ListsChange \/ (list_changed /\ place \in {"listing", "status", "selection"})

(* A status shown with its monitor's version is the monitor's, whatever the    *)
(* SDK and the statistics thread have written since; with no monitor it is     *)
(* empty.                                                                      *)
StatusIsOfItsVersion ==
    /\ source # NoDevice /\ status_key.version = monitor[source].version =>
           shown.status = monitor[source].status
    /\ status_key.version = 0 => shown.status = NoStatus

(* A monitor has the signal of its device, but for a notification under way    *)
(* and for what changed when it had read and not yet subscribed.               *)
MonitorsFollowTheirDevices ==
    \A d \in Devices \ (notified \cup missed) :
        d \in names => monitor[d].status.signal = actual[d].signal

(* The modes shown with a playback's version are its modes.                    *)
ModesAreOfTheirVersion ==
    session.version = 1 /\ modes_key = [name |-> selected, version |-> 1] =>
        kept \/ shown.modes = session.modes \/ place = "showing"

(* A device that shares its name with no other is listed from its arrival to   *)
(* its removal.                                                                *)
DevicesOfTheirOwnAreListed ==
    \A d \in names \cap Outputs :
        (\A e \in Devices \ {d} : name_of[e] # name_of[d]) => outputs[name_of[d]] = d

(* What a node shows of its device and of all devices is what the registry has, *)
(* or is about to be noticed: the versions the render thread compares change    *)
(* with what they stand for, whichever of the SDK, the statistics thread and    *)
(* the control executor changes it, and whenever the node looks.                *)
DevicesAreShown ==
    /\ DevicesTypeOK
    /\ NamesFollowTheLists /\ PlaybacksHaveADevice
    /\ StatusIsOfItsVersion /\ MonitorsFollowTheirDevices
    /\ ModesAreOfTheirVersion /\ DevicesOfTheirOwnAreListed

(* Refuted: the persistent id makes names unique, says get_decklink_name; a    *)
(* device without one has -1, and goes from the lists with any of its name.    *)
EveryDeviceIsListed == \A d \in names \cap Outputs : outputs[name_of[d]] # NoDevice

(* Refuted: a device replaced between two frames by one of its name has a      *)
(* monitor that may have come to the same version with another status.         *)
ShownStatusIsCurrent ==
    place = "idle" /\ monitors[option] # NoDevice /\
    status_key = [name |-> option, version |-> monitor[monitors[option]].version] =>
        shown.status = monitor[monitors[option]].status

(* Refuted likewise, and the playback goes on with the device that has gone.   *)
PlaybacksRunOnTheListedDevice ==
    session # NoSession /\ place = "idle" /\ ~ListsChange /\ selected = option =>
        session.device = outputs[selected]

(* Refuted: modes_key outlives a playback that failed, so that the modes of    *)
(* the next one are not shown when it has them by the next frame.              *)
ShownModesAreCurrent ==
    session.version = 1 /\ modes_key = [name |-> selected, version |-> 1] /\ place = "idle" =>
        shown.modes = session.modes
=============================================================================
