-------------------------- MODULE OperationProfiles --------------------------
(***************************************************************************)
(* The configuration and the operation profiles, in memory and on flash,   *)
(* with the write guard between them and a power failure at any moment     *)
(* (Configuration.cpp, OperationProfiles.cpp and their callers).           *)
(*                                                                         *)
(* Settings stand for the parts of the configuration a profile holds.  The *)
(* web server's task changes them field by field under the guard, writes   *)
(* the configuration file and then the profile store; the MQTT task sets   *)
(* one field and writes the file under the guard.  A file on LittleFS gets *)
(* its new contents when it is closed.                                     *)
(***************************************************************************)
EXTENDS ConfigGuard, Sequences, SequencesExt

CONSTANTS
    Web, Mqtt,    \* the two other tasks
    Settings,     \* values of the settings
    Default,      \* those of a new device
    Torn,         \* half old, half new
    Ids,          \* profile ids
    DefaultId,    \* DefaultProfileId
    Missing,      \* no such file
    MaxProfiles,  \* bound: profiles in a store
    MaxCrashes    \* bound: power failures

ASSUME ProfilesAssumption ==
    /\ Tasks = {Web, Mqtt, Loop} /\ Cardinality(Tasks) = 3
    /\ Default \in Settings /\ Torn # Missing /\ {Torn, Missing} \cap Settings = {}
    /\ DefaultId \in Ids /\ MaxProfiles \in Nat \ {0} /\ MaxCrashes \in Nat

VARIABLES
    cfg,          \* the configuration in memory
    file,         \* CONFIG_FILENAME
    saving,       \* what each task is writing to it
    store,        \* OPERATION_PROFILES_FILENAME
    tmp,          \* TemporaryFilename
    doc,          \* the store document of the operation in progress
    op,           \* that operation: [kind, id]
    at,           \* where the web task is in it
    mqtt,         \* where the MQTT task is in its command
    booted,       \* setup() has ended
    crashes,
    events        \* history: what happened that a property excuses

files == <<cfg, file, saving, store, tmp>>
vars  == <<guardVars, files, doc, op, at, mqtt, booted, crashes, events>>

Profile == [id : Ids, val : Settings]
ASSUME MissingAssumption == Missing \notin [active : Ids, list : Seq(Profile)]
IdsOf(d) == {d.list[n].id : n \in DOMAIN d.list}
ValOf(d, i) == d.list[CHOOSE n \in DOMAIN d.list : d.list[n].id = i].val
WithVal(d, i, v) == [d EXCEPT !.list =
    [n \in DOMAIN @ |-> IF @[n].id = i THEN [@[n] EXCEPT !.val = v] ELSE @[n]]]

Kinds == {"ensure", "status", "create", "apply", "sync", "rename", "delete", "save"}
Idle  == [kind |-> "ensure", id |-> DefaultId]

IsStore(d) == /\ d.active \in Ids /\ d.list \in Seq(Profile)
              /\ Len(d.list) \in 1 .. MaxProfiles
TypeOK ==
    /\ GuardTypeOK
    /\ cfg \in Settings \cup {Torn} /\ file \in Settings \cup {Torn, Missing}
    /\ saving \in [{Web, Mqtt} -> Settings \cup {Torn, Missing}]
    /\ \A d \in {store, tmp, doc} \ {Missing} : IsStore(d)
    /\ op \in [kind : Kinds, id : Ids]
    /\ at \in {"idle", "load", "operate", "enter", "wait", "write", "leave", "open",
               "close", "tmp", "remove", "rename", "made", "madeRemove", "madeRename"}
    /\ mqtt \in {"idle", "wait", "open", "close", "leave"}
    /\ booted \in BOOLEAN /\ crashes \in 0 .. MaxCrashes
    /\ events \subseteq {"late", "drift", "unsaved"}

(* A new device: no profiles, and the default configuration just written.  *)
Init ==
    /\ GuardInit
    /\ cfg = Default /\ file = Default /\ saving = [t \in {Web, Mqtt} |-> Missing]
    /\ store = Missing /\ tmp = Missing /\ doc = Missing
    /\ op = Idle /\ at = "load" /\ mqtt = "idle"
    /\ booted = FALSE /\ crashes = 0 /\ events = {}
-----------------------------------------------------------------------------
(***************************************************************************)
(* The guard, entered by a task.  Late: the main loop already waits for    *)
(* the count to reach zero, or the main loop itself is the writer.         *)
(***************************************************************************)
EnterAs(t) ==
    /\ booted /\ Enter(t)
    /\ events' = IF main # "run" \/ t = Loop THEN events \cup {"late"} ELSE events

MainLoop ==
    /\ booted /\ (Serve \/ Resume)
    /\ events' = IF main' = "run" THEN events \ {"late"} ELSE events
    /\ UNCHANGED <<files, doc, op, at, mqtt, booted, crashes>>

(* NetworkSettingsClass::rememberPreferredWifiAp, in the main loop.        *)
RememberWifiAp ==
    /\ EnterAs(Loop)
    /\ UNCHANGED <<files, doc, op, at, mqtt, booted, crashes>>

(* ConfigurationClass::write: open and serialise, then close.  It fails    *)
(* before the file is open, or with an empty file for want of memory.      *)
OpenFileMutant(t) ==
    /\ saving' = [saving EXCEPT ![t] = file]
    /\ events' = IF \A u \in DOMAIN saving \ {t} : saving[u] = Missing
                 THEN events \ {"unsaved"} ELSE events \cup {"unsaved"}
OpenFile(t) ==
    /\ saving' = [saving EXCEPT ![t] = cfg]
    /\ events' = IF \A u \in DOMAIN saving \ {t} : saving[u] = Missing
                 THEN events \ {"unsaved"} ELSE events \cup {"unsaved"}
CloseFile(t) ==
    /\ file' = saving[t] /\ saving' = [saving EXCEPT ![t] = Missing]
FailFile == file' \in {file, Missing}
-----------------------------------------------------------------------------
(***************************************************************************)
(* MqttHandlePowerLimiterClass::onMqttCmd, for every command but the mode. *)
(***************************************************************************)
MqttEnter ==
    /\ mqtt = "idle" /\ EnterAs(Mqtt) /\ mqtt' = "wait"
    /\ UNCHANGED <<files, doc, op, at, booted, crashes>>

MqttSet(v) ==
    /\ mqtt = "wait" /\ Take(Mqtt) /\ cfg' = v
    /\ IF cfg = v
       THEN mqtt' = "leave" /\ UNCHANGED events
       ELSE mqtt' = "open" /\ events' = events \cup {"drift"}
    /\ UNCHANGED <<file, saving, store, tmp, doc, op, at, booted, crashes>>

MqttOpen ==
    /\ mqtt = "open"
    /\ \/ OpenFile(Mqtt) /\ mqtt' = "close" /\ UNCHANGED file
       \/ /\ FailFile /\ mqtt' = "leave"
          /\ events' = events \cup {"unsaved"} /\ UNCHANGED saving
    /\ UNCHANGED <<guardVars, cfg, store, tmp, doc, op, at, booted, crashes>>

MqttClose ==
    /\ mqtt = "close" /\ CloseFile(Mqtt) /\ mqtt' = "leave"
    /\ UNCHANGED <<guardVars, cfg, store, tmp, doc, op, at, booted, crashes, events>>

MqttLeave ==
    /\ mqtt = "leave" /\ Leave(Mqtt) /\ mqtt' = "idle"
    /\ UNCHANGED <<files, doc, op, at, booted, crashes, events>>
-----------------------------------------------------------------------------
(***************************************************************************)
(* The web server's task.  save is a POST of power limiter or grid charger *)
(* settings, which ends with syncActiveProfileFromCurrentConfig; ensure is *)
(* init() during setup().                                                  *)
(***************************************************************************)
Requests ==
    [kind : {"status", "save"}, id : {DefaultId}] \cup
    [kind : {"create", "apply", "rename", "delete"}, id : Ids]

Request(r) ==
    /\ booted /\ at = "idle" /\ op' = r
    /\ at' = IF r.kind = "save" THEN "enter" ELSE "load"
    /\ UNCHANGED <<guardVars, files, doc, mqtt, booted, crashes, events>>

End == at' = "idle" /\ doc' = Missing /\ op' = Idle /\ booted' = TRUE

(* createDefaultStore                                                      *)
DefaultStore == [active |-> DefaultId, list |-> <<[id |-> DefaultId, val |-> cfg]>>]

(* loadStore, with ensureValidActiveProfile                                *)
Load ==
    /\ at = "load"
    /\ IF store = Missing
       THEN doc' = DefaultStore /\ at' = "made" /\ events' = events \ {"drift"}
       ELSE IF store.active \in IdsOf(store)
       THEN doc' = store /\ at' = "operate" /\ UNCHANGED events
       ELSE /\ doc' = [store EXCEPT !.active = store.list[1].id]
            /\ at' = "made" /\ events' = events \cup {"drift"}
    /\ UNCHANGED <<guardVars, files, op, mqtt, booted, crashes>>

(* createFromCurrentConfig; createProfileId finds an id not in use.        *)
Create ==
    /\ at = "operate" /\ op.kind = "create"
    /\ op.id \notin IdsOf(doc) /\ Len(doc.list) < MaxProfiles
    /\ doc' = [active |-> op.id, list |-> Append(doc.list, [id |-> op.id, val |-> cfg])]
    /\ at' = "tmp" /\ events' = events \ {"drift"}
    /\ UNCHANGED <<guardVars, files, op, mqtt, booted, crashes>>

(* syncActiveProfileFromCurrentConfig                                      *)
SyncMutant ==
    /\ at = "operate" /\ op.kind = "sync"
    /\ doc' = doc /\ at' = "tmp" /\ events' = events \ {"drift"}
    /\ UNCHANGED <<guardVars, files, op, mqtt, booted, crashes>>
Sync ==
    /\ at = "operate" /\ op.kind = "sync"
    /\ doc' = WithVal(doc, doc.active, cfg)
    /\ at' = "tmp" /\ events' = events \ {"drift"}
    /\ UNCHANGED <<guardVars, files, op, mqtt, booted, crashes>>

(* renameProfile: names are left out, the store is written again.          *)
Rename ==
    /\ at = "operate" /\ op.kind = "rename" /\ op.id \in IdsOf(doc)
    /\ at' = "tmp"
    /\ UNCHANGED <<guardVars, files, doc, op, mqtt, booted, crashes, events>>

(* deleteProfile: the first profile becomes active, its settings do not.   *)
IsFirst(n, i) == doc.list[n].id = i /\ \A k \in 1 .. n - 1 : doc.list[k].id # i
DeleteMutant ==
    /\ at = "operate" /\ op.kind = "delete"
    /\ \E n \in DOMAIN doc.list :
         IsFirst(n, op.id) /\ doc' = [doc EXCEPT !.list = RemoveAt(@, n)]
    /\ events' = IF doc.active = op.id THEN events \cup {"drift"} ELSE events
    /\ at' = "tmp"
    /\ UNCHANGED <<guardVars, files, op, mqtt, booted, crashes>>
Delete ==
    /\ at = "operate" /\ op.kind = "delete" /\ Len(doc.list) > 1
    /\ \E n \in DOMAIN doc.list :
         LET rest == [doc EXCEPT !.list = RemoveAt(@, n)]
         IN  /\ IsFirst(n, op.id)
             /\ doc' = IF doc.active \in IdsOf(rest) THEN rest
                       ELSE [rest EXCEPT !.active = rest.list[1].id]
    /\ events' = IF doc'.active # doc.active THEN events \cup {"drift"} ELSE events
    /\ at' = "tmp"
    /\ UNCHANGED <<guardVars, files, op, mqtt, booted, crashes>>

(* applyProfile, up to applyProfileSettings                                *)
Apply ==
    /\ at = "operate" /\ op.kind = "apply" /\ op.id \in IdsOf(doc)
    /\ at' = "enter"
    /\ UNCHANGED <<guardVars, files, doc, op, mqtt, booted, crashes, events>>

(* Init is done, a status was asked for, or the operation was refused:     *)
(* profile not found, the last profile, no room in the model.              *)
Refused ==
    /\ at = "operate" /\ End
    /\ \/ op.kind \in {"ensure", "status"}
       \/ op.kind \in {"rename", "apply", "delete"} /\ op.id \notin IdsOf(doc)
       \/ op.kind = "delete" /\ Len(doc.list) = 1
       \/ op.kind = "create" /\ (op.id \in IdsOf(doc) \/ Len(doc.list) = MaxProfiles)
    /\ UNCHANGED <<guardVars, files, mqtt, crashes, events>>

(* The settings of a save or of an applied profile, under the guard.       *)
WebEnter ==
    /\ at = "enter" /\ EnterAs(Web) /\ at' = "wait"
    /\ UNCHANGED <<files, doc, op, mqtt, booted, crashes>>
WebBegin ==
    /\ at = "wait" /\ Take(Web) /\ cfg' = Torn /\ at' = "leave"
    /\ UNCHANGED <<file, saving, store, tmp, doc, op, mqtt, booted, crashes, events>>
WebLeave ==
    /\ at = "leave" /\ Leave(Web) /\ at' = "open"
    /\ \/ /\ op.kind = "apply"
          /\ cfg' = ValOf(doc, op.id) /\ events' = events \ {"drift"}
       \/ /\ op.kind = "save"
          /\ cfg' \in Settings /\ events' = events \cup {"drift"}
    /\ UNCHANGED <<file, saving, store, tmp, doc, op, mqtt, booted, crashes>>

(* Then Configuration.write(), without the guard.                          *)
WebOpen ==
    /\ at = "open"
    /\ \/ OpenFile(Web) /\ at' = "close" /\ UNCHANGED <<file, doc, op, booted>>
       \/ /\ FailFile /\ End
          /\ events' = events \cup {"unsaved", "drift"} /\ UNCHANGED saving
    /\ UNCHANGED <<guardVars, cfg, store, tmp, mqtt, crashes>>
WebClose ==
    /\ at = "close" /\ CloseFile(Web)
    /\ \/ /\ op.kind = "apply" /\ doc' = [doc EXCEPT !.active = op.id]
          /\ at' = "tmp" /\ UNCHANGED op
       \/ /\ op.kind = "save" /\ op' = [op EXCEPT !.kind = "sync"]
          /\ at' = "load" /\ UNCHANGED doc
    /\ UNCHANGED <<guardVars, cfg, store, tmp, mqtt, booted, crashes, events>>

(***************************************************************************)
(* writeStore: after an operation, or for the store loadStore made ("made" *)
(* places), with which the operation then goes on.                         *)
(***************************************************************************)
WriteTmpMutant ==
    /\ at \in {"tmp", "made"} /\ tmp' \in {tmp, doc}
    /\ at' = (IF at = "tmp" THEN "remove" ELSE "madeRemove")
    /\ UNCHANGED <<guardVars, cfg, file, saving, store, doc, op, mqtt, booted, crashes, events>>
WriteTmp ==
    /\ at \in {"tmp", "made"}
    /\ \/ /\ tmp' = doc /\ at' = (IF at = "tmp" THEN "remove" ELSE "madeRemove")
          /\ UNCHANGED <<doc, op, booted, events>>
       \/ End /\ tmp' \in {tmp, Missing} /\ events' = events \cup {"drift"}
    /\ UNCHANGED <<guardVars, cfg, file, saving, store, mqtt, crashes>>

RemoveStore ==
    /\ at \in {"remove", "madeRemove"} /\ store' = Missing
    /\ at' = (IF at = "remove" THEN "rename" ELSE "madeRename")
    /\ UNCHANGED <<guardVars, cfg, file, saving, tmp, doc, op, mqtt, booted, crashes, events>>

RenameTmp ==
    /\ at \in {"rename", "madeRename"} /\ tmp' = Missing
    /\ \/ /\ store' = tmp /\ UNCHANGED events
          /\ \/ at = "rename" /\ End
             \/ at = "madeRename" /\ at' = "operate" /\ UNCHANGED <<doc, op, booted>>
       \/ UNCHANGED store /\ End /\ events' = events \cup {"drift"}
    /\ UNCHANGED <<guardVars, cfg, file, saving, mqtt, crashes>>
-----------------------------------------------------------------------------
(* Power failure and boot: setup() reads the configuration, or writes the  *)
(* default one over an empty file, and makes sure of the profile store     *)
(* before any other task runs.                                             *)
Crash ==
    /\ crashes < MaxCrashes /\ crashes' = crashes + 1
    /\ lock' = Free /\ writers' = {} /\ asleep' = {} /\ woken' = {} /\ main' = "run"
    /\ cfg' = (IF file = Missing THEN Default ELSE file) /\ file' = cfg'
    /\ saving' = [t \in {Web, Mqtt} |-> Missing]
    /\ doc' = Missing /\ op' = Idle /\ at' = "load" /\ booted' = FALSE /\ mqtt' = "idle"
    /\ events' = IF at = "idle" /\ mqtt = "idle" /\ "unsaved" \notin events
                 THEN events \ {"late"} ELSE {"drift"}
    /\ UNCHANGED <<store, tmp>>

WebStep ==
    \/ Load \/ Create \/ Sync \/ Rename \/ Delete \/ Apply \/ Refused
    \/ WebEnter \/ WebBegin \/ WebLeave \/ WebOpen \/ WebClose
    \/ WriteTmp \/ RemoveStore \/ RenameTmp
MqttStep == (\E v \in Settings : MqttSet(v)) \/ MqttOpen \/ MqttClose \/ MqttLeave

Next ==
    \/ MainLoop \/ RememberWifiAp \/ WebStep \/ MqttEnter \/ MqttStep \/ Crash
    \/ \E r \in Requests : Request(r)

(* Each task goes on when it can; nothing is assumed of requests, and a    *)
(* power failure need not come.                                            *)
Fairness == WF_vars(MainLoop) /\ WF_vars(WebStep) /\ WF_vars(MqttStep)

Spec == Init /\ [][Next]_vars /\ Fairness
-----------------------------------------------------------------------------
(* The main loop, a file and a profile never see settings of which only a  *)
(* part is set: whoever could read them is kept out while a task writes.   *)
NoTornSettings ==
    /\ cfg = Torn => main = "serve" /\ lock = Web
    /\ file # Torn /\ \A t \in DOMAIN saving : saving[t] # Torn
    /\ \A d \in {store, tmp, doc} \ {Missing} : \A n \in DOMAIN d.list : d.list[n].val # Torn

(* The guard does what it promises, but for a power failure: it goes from  *)
(* the main loop to nobody, to one writer, to nobody, and back.            *)
OwnedInTurn == Access!Init /\ [][Access!Next \/ crashes' # crashes]_Owner

(* The guard hangs the main loop for good in two cases only: a task asks   *)
(* for the guard while the main loop still waits for the writers before    *)
(* it, or the main loop asks for the guard itself.                         *)
HangsOnlyIfLate == Stuck => "late" \in events

(* Whoever waits for the guard gets it, but in those two cases.            *)
WriterServed == \A t \in {Web, Mqtt} : t \in asleep ~> (t \notin asleep \/ "late" \in events)

(* A profile that is on flash, in the store or, while there is none, in    *)
(* the temporary file, leaves it in three ways only: it is deleted; the    *)
(* renaming of the temporary file fails; power failed between the removal  *)
(* of the old store and the renaming, and loadStore makes a default store. *)
OnFlash == IF store # Missing THEN IdsOf(store)
           ELSE IF tmp # Missing THEN IdsOf(tmp) ELSE {}
ProfilesKept ==
    [][ OnFlash \subseteq OnFlash'
        \/ (op.kind = "delete" /\ OnFlash \ OnFlash' = {op.id})
        \/ (at \in {"rename", "madeRename"} /\ store' = Missing)
        \/ (at = "made" /\ store = Missing) ]_vars

(* The store always names an active profile that it has.                   *)
ActiveExists == store # Missing => store.active \in IdsOf(store)

Quiet == booted /\ at = "idle" /\ mqtt = "idle"

(* When nothing is in progress, the configuration file holds what is in    *)
(* force, unless the last write of it failed or ran into another task's.   *)
SavedIsCurrent == Quiet => file = cfg \/ "unsaved" \in events

(* When nothing is in progress, the active profile holds what is in force, *)
(* unless, since the last create, apply or save, MQTT changed a setting,   *)
(* the active profile was deleted, or a write or the power failed.         *)
ActiveInForce ==
    Quiet /\ store # Missing => ValOf(store, store.active) = cfg \/ "drift" \in events
=============================================================================
