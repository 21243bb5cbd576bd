----------------------- MODULE OperationProfilesProofs -----------------------
(***************************************************************************)
(* Proofs about OperationProfiles: the write guard in the system that uses  *)
(* it, for any settings, profiles and number of power failures.             *)
(***************************************************************************)
EXTENDS OperationProfiles, ConfigGuardProofs, FiniteSetTheorems, SequenceTheorems

(* The steps of a power failure and boot for the guard.                     *)
LEMMA CrashGuardInv == ASSUME Crash PROVE GuardInv'
BY GuardAssumption DEF Crash, GuardInv, GuardTypeOK, Exclusive

(* Every other step takes one step of the guard, or none.                   *)
LEMMA GuardStep ==
    ASSUME [Next]_vars, ~Crash
    PROVE  [GuardNext]_guardVars
<1>1. Web \in Tasks /\ Mqtt \in Tasks /\ Loop \in Tasks
  BY ProfilesAssumption
<1> USE DEF EnterAs, OpenFile, CloseFile
<1>2. CASE MainLoop
  BY <1>2 DEF MainLoop, GuardNext
<1>3. CASE RememberWifiAp
  BY <1>1, <1>3 DEF RememberWifiAp, GuardNext
<1>4. CASE MqttEnter
  BY <1>1, <1>4 DEF MqttEnter, GuardNext
<1>5. CASE MqttStep
  BY <1>1, <1>5 DEF MqttStep, MqttSet, MqttOpen, MqttClose, MqttLeave, GuardNext
<1>6. CASE WebStep
  <2>1. CASE WebEnter \/ WebBegin \/ WebLeave
    BY <1>1, <2>1 DEF WebEnter, WebBegin, WebLeave, GuardNext
  <2>2. CASE ~(WebEnter \/ WebBegin \/ WebLeave)
    BY <1>6, <2>2 DEF WebStep, Load, Create, Sync, Rename, Delete, Apply, Refused,
       WebOpen, WebClose, WriteTmp, RemoveStore, RenameTmp
  <2> QED
    BY <2>1, <2>2
<1>7. CASE \E r \in Requests : Request(r)
  BY <1>7 DEF Request
<1>8. CASE UNCHANGED vars
  BY <1>8 DEF vars, guardVars
<1> QED
  BY <1>2, <1>3, <1>4, <1>5, <1>6, <1>7, <1>8 DEF Next

LEMMA NextGuardInv == GuardInv /\ [Next]_vars => GuardInv'
BY GuardStep, CrashGuardInv, StepKeepsGuardInv

LEMMA GuardInvAlways == Spec => []GuardInv
<1>1. Init => GuardInv
  BY InitGuardInv DEF Init
<1> QED
  BY <1>1, NextGuardInv, PTL DEF Spec

(* In the whole system, too, the configuration goes from the main loop to  *)
(* nobody, to one writer, to nobody, and back, but for power failures.     *)
THEOREM ConfigOwnedInTurn == Spec => OwnedInTurn
<1>1. Init => Access!Init
  BY DEF Init, GuardInit, Owner, Access!Init
<1>2. GuardInv /\ [Next]_vars => [Access!Next \/ crashes' # crashes]_Owner
  <2>1. ASSUME Crash PROVE crashes' # crashes
    BY <2>1, ProfilesAssumption DEF Crash
  <2> QED
    BY <2>1, GuardStep, StepIsAccessStep
<1> QED
  BY <1>1, <1>2, GuardInvAlways, PTL DEF Spec, OwnedInTurn
-----------------------------------------------------------------------------
(***************************************************************************)
(* When the guard hangs.                                                    *)
(***************************************************************************)
(* Without a late writer the main loop never waits for the guard; while it  *)
(* serves, only the main loop itself sleeps, and not after the last writer. *)
InTime(late) ==
    ~late => /\ main # "guard"
             /\ main = "serve" => asleep \subseteq {Loop} /\ (writers = {} => Loop \in woken)
WritersTracked == writers \subseteq asleep \cup woken \cup {lock}
Late    == "late" \in events
HangInv == GuardInv /\ InTime(Late) /\ WritersTracked

(* A step of the guard keeps it, when a writer that enters late is noted.   *)
LEMMA GuardHangInv ==
    ASSUME HangInv, Serve \/ Resume \/ \E t \in Tasks : Take(t) \/ Leave(t),
           Late' \/ main' = "run" \/ ~Late
    PROVE  InTime(Late)' /\ WritersTracked'
<1> USE GuardAssumption DEF HangInv, GuardInv, GuardTypeOK, Exclusive, InTime, WritersTracked
<1>1. CASE Serve
  BY <1>1 DEF Serve
<1>2. CASE Resume
  BY <1>2 DEF Resume
<1>3. ASSUME NEW t \in Tasks, Take(t) PROVE InTime(Late)' /\ WritersTracked'
  BY <1>3 DEF Take
<1>4. ASSUME NEW t \in Tasks, Leave(t) PROVE InTime(Late)' /\ WritersTracked'
  BY <1>4 DEF Leave
<1> QED
  BY <1>1, <1>2, <1>3, <1>4

LEMMA EnterHangInv ==
    ASSUME HangInv, NEW t \in Tasks, EnterAs(t)
    PROVE  InTime(Late)' /\ WritersTracked'
BY GuardAssumption DEF HangInv, GuardInv, GuardTypeOK, Exclusive, InTime, WritersTracked,
   EnterAs, Enter, Late

(* Nothing but the main loop, coming back, and a boot forgets a late writer, *)
(* and only who enters is noted.                                            *)
LEMMA LateKept ==
    ASSUME Next, ~Crash, ~MainLoop, ~(\E t \in Tasks : EnterAs(t))
    PROVE  /\ Late' <=> Late
           /\ UNCHANGED guardVars \/ \E t \in Tasks : Take(t) \/ Leave(t)
<1> USE ProfilesAssumption DEF Late
<1>1. ~RememberWifiAp /\ ~MqttEnter /\ ~WebEnter
  BY DEF RememberWifiAp, MqttEnter, WebEnter
<1>2. CASE MqttStep
  BY <1>2 DEF MqttStep, MqttSet, MqttOpen, MqttClose, MqttLeave, OpenFile
<1>3. CASE WebStep
  <2>1. CASE Load \/ Create \/ Sync \/ Rename \/ Delete \/ Apply \/ Refused
    BY <2>1 DEF Load, Create, Sync, Rename, Delete, Apply, Refused
  <2>2. CASE WebBegin \/ WebLeave \/ WebOpen \/ WebClose
    BY <2>2 DEF WebBegin, WebLeave, WebOpen, WebClose, OpenFile
  <2>3. CASE WriteTmp \/ RemoveStore \/ RenameTmp
    BY <2>3 DEF WriteTmp, RemoveStore, RenameTmp
  <2> QED
    BY <1>1, <1>3, <2>1, <2>2, <2>3 DEF WebStep
<1>4. CASE \E r \in Requests : Request(r)
  BY <1>4 DEF Request
<1> QED
  BY <1>1, <1>2, <1>3, <1>4 DEF Next

LEMMA NextHangInv == HangInv /\ [Next]_vars => HangInv'
<1> SUFFICES ASSUME HangInv, [Next]_vars PROVE HangInv'
  OBVIOUS
<1>1. GuardInv'
  BY NextGuardInv DEF HangInv
<1>2. CASE UNCHANGED vars
  BY <1>1, <1>2 DEF HangInv, InTime, WritersTracked, Late, vars, guardVars
<1>3. CASE Crash
  BY <1>1, <1>3 DEF HangInv, InTime, WritersTracked, Crash
<1>4. CASE MainLoop
  <2>1. Late' \/ main' = "run" \/ ~Late
    BY <1>4 DEF MainLoop, Late
  <2> QED
    BY <1>1, <1>4, <2>1, GuardHangInv DEF MainLoop, HangInv
<1>5. ASSUME NEW t \in Tasks, EnterAs(t) PROVE HangInv'
  BY <1>1, <1>5, EnterHangInv DEF HangInv
<1>6. CASE Next /\ ~Crash /\ ~MainLoop /\ ~(\E t \in Tasks : EnterAs(t))
  <2>1. /\ Late' <=> Late
        /\ UNCHANGED guardVars \/ \E t \in Tasks : Take(t) \/ Leave(t)
    BY <1>6, LateKept
  <2>2. CASE UNCHANGED guardVars
    BY <1>1, <2>1, <2>2 DEF HangInv, InTime, WritersTracked, guardVars
  <2>3. CASE \E t \in Tasks : Take(t) \/ Leave(t)
    BY <1>1, <2>1, <2>3, GuardHangInv DEF HangInv
  <2> QED
    BY <2>1, <2>2, <2>3
<1> QED
  BY <1>2, <1>3, <1>4, <1>5, <1>6

LEMMA HangInvAlways == Spec => []HangInv
<1>1. Init => HangInv
  <2>1. Init => GuardInv
    BY InitGuardInv DEF Init
  <2>2. Init => InTime(Late) /\ WritersTracked
    BY DEF Init, GuardInit, InTime, Late, WritersTracked
  <2> QED
    BY <2>1, <2>2 DEF HangInv
<1> QED
  BY <1>1, NextHangInv, PTL DEF Spec

(* The firmware hangs in the write guard in no other case than that a      *)
(* writer enters while the main loop waits for those before it, or the     *)
(* main loop itself enters.                                                *)
THEOREM HangNeedsLateWriter == Spec => []HangsOnlyIfLate
<1>1. HangInv => HangsOnlyIfLate
  <2> SUFFICES ASSUME HangInv, Stuck, ~Late PROVE FALSE
    BY DEF HangsOnlyIfLate, Late
  <2>1. main = "serve" /\ asleep \subseteq {Loop} /\ writers # {}
    BY DEF HangInv, GuardInv, GuardTypeOK, InTime, Stuck
  <2>2. writers \subseteq {Loop, Free} /\ Loop \notin writers /\ Free \notin writers
    BY <2>1, GuardAssumption DEF HangInv, GuardInv, GuardTypeOK, WritersTracked, Stuck
  <2> QED
    BY <2>1, <2>2
<1> QED
  BY <1>1, HangInvAlways, PTL
-----------------------------------------------------------------------------
(***************************************************************************)
(* What the tasks read and write while they have the configuration.         *)
(***************************************************************************)
Sound(d) == /\ d \in [active : Ids, list : Seq(Profile)]
            /\ IsStore(d) /\ d.active \in IdsOf(d)
WebHas   == at = "leave" <=> lock = Web
MqttHas  == mqtt \in {"open", "close", "leave"} <=> lock = Mqtt
TornOnlyInside ==
    /\ cfg = Torn => at = "leave"
    /\ file # Torn /\ saving[Web] # Torn /\ saving[Mqtt] # Torn
StoresSound == \A d \in {store, tmp, doc} \ {Missing} : Sound(d)
DocumentLoaded ==
    /\ at \in {"operate", "tmp", "remove", "rename", "made", "madeRemove", "madeRename"}
          => Sound(doc)
    /\ at \in {"enter", "wait", "leave", "open", "close"} /\ op.kind = "apply"
          => Sound(doc) /\ op.id \in IdsOf(doc)

(* The types of what is no store.                                           *)
PlacesOK ==
    /\ cfg \in Settings \cup {Torn} /\ file \in Settings \cup {Torn, Missing}
    /\ saving \in [{Web, Mqtt} -> Settings \cup {Torn, Missing}]
    /\ op \in [kind : Kinds, id : Ids]
    /\ at \in {"idle", "load", "operate", "enter", "wait", "write", "leave", "open",
               "close", "tmp", "remove", "rename", "made", "madeRemove", "madeRename"}
    /\ mqtt \in {"idle", "wait", "open", "close", "leave"}
    /\ booted \in BOOLEAN /\ crashes \in 0 .. MaxCrashes
    /\ events \subseteq {"late", "drift", "unsaved"}

ProfilesInv ==
    /\ GuardInv /\ PlacesOK
    /\ WebHas /\ MqttHas /\ TornOnlyInside /\ StoresSound /\ DocumentLoaded

(* What a sound store is made of.                                           *)
LEMMA SoundFields ==
    ASSUME NEW d, Sound(d)
    PROVE  /\ d = [active |-> d.active, list |-> d.list]
           /\ d.active \in Ids /\ d.list \in Seq(Profile)
           /\ Len(d.list) \in Nat /\ Len(d.list) \in 1 .. MaxProfiles
           /\ DOMAIN d.list = 1 .. Len(d.list)
           /\ \A n \in DOMAIN d.list : d.list[n] \in Profile
           /\ \A n \in DOMAIN d.list : d.list[n].id \in Ids /\ d.list[n].val \in Settings
<1>1. d \in [active : Ids, list : Seq(Profile)] /\ Len(d.list) \in 1 .. MaxProfiles
  BY DEF Sound, IsStore
<1>2. d = [active |-> d.active, list |-> d.list] /\ d.active \in Ids /\ d.list \in Seq(Profile)
  BY <1>1
<1>3. /\ Len(d.list) \in Nat /\ DOMAIN d.list = 1 .. Len(d.list)
      /\ \A n \in DOMAIN d.list : d.list[n] \in Profile
  BY <1>2
<1> QED
  BY <1>1, <1>2, <1>3 DEF Profile

LEMMA SoundFrom ==
    ASSUME NEW active \in Ids, NEW list \in Seq(Profile), Len(list) \in 1 .. MaxProfiles,
           NEW n \in DOMAIN list, list[n].id = active
    PROVE  Sound([active |-> active, list |-> list])
<1> DEFINE d == [active |-> active, list |-> list]
<1>1. d \in [active : Ids, list : Seq(Profile)] /\ d.active = active /\ d.list = list
  OBVIOUS
<1> HIDE DEF d
<1>2. d.active \in IdsOf(d)
  BY <1>1 DEF IdsOf
<1>3. Sound(d)
  BY <1>1, <1>2 DEF Sound, IsStore
<1> QED
  BY <1>3 DEF d

(* What the operations make of a sound store.                               *)
LEMMA DefaultStoreSound == cfg \in Settings => Sound(DefaultStore)
<1> SUFFICES ASSUME cfg \in Settings PROVE Sound(DefaultStore)
  OBVIOUS
<1> DEFINE first == [id |-> DefaultId, val |-> cfg]
           list  == <<first>>
<1>1. first \in Profile /\ first.id = DefaultId /\ DefaultId \in Ids
  BY ProfilesAssumption DEF Profile
<1>2. DefaultStore = [active |-> DefaultId, list |-> list]
  BY DEF DefaultStore
<1> HIDE DEF first
<1>3. list \in Seq(Profile) /\ Len(list) = 1 /\ list[1] = first /\ 1 \in DOMAIN list
  BY <1>1
<1> HIDE DEF list
<1>4. Len(list) \in 1 .. MaxProfiles
  BY <1>3, ProfilesAssumption
<1> QED
  BY <1>1, <1>2, <1>3, <1>4, SoundFrom

LEMMA AppendSound ==
    ASSUME NEW d, Sound(d), Len(d.list) < MaxProfiles, NEW i \in Ids, NEW v \in Settings
    PROVE  Sound([active |-> i, list |-> Append(d.list, [id |-> i, val |-> v])])
<1> DEFINE new  == [id |-> i, val |-> v]
           list == Append(d.list, new)
<1>1. new \in Profile /\ new.id = i
  BY DEF Profile
<1>2. d.list \in Seq(Profile) /\ Len(d.list) \in Nat
  BY SoundFields
<1> HIDE DEF new
<1>3. /\ list \in Seq(Profile) /\ Len(list) = Len(d.list) + 1
      /\ Len(list) \in DOMAIN list /\ list[Len(list)] = new
  BY <1>1, <1>2
<1> HIDE DEF list
<1>4. Len(list) \in 1 .. MaxProfiles
  BY <1>2, <1>3, ProfilesAssumption
<1>5. Sound([active |-> i, list |-> list])
  BY <1>1, <1>3, <1>4, SoundFrom
<1> QED
  BY <1>5 DEF list, new

LEMMA WithValSound ==
    ASSUME NEW d, Sound(d), NEW i, NEW v \in Settings
    PROVE  Sound(WithVal(d, i, v))
<1> DEFINE list == [n \in DOMAIN d.list |->
                      IF d.list[n].id = i THEN [d.list[n] EXCEPT !.val = v] ELSE d.list[n]]
<1>1. /\ d.list \in Seq(Profile) /\ DOMAIN d.list = 1 .. Len(d.list)
      /\ Len(d.list) \in Nat /\ Len(d.list) \in 1 .. MaxProfiles
      /\ d = [active |-> d.active, list |-> d.list] /\ d.active \in Ids
  BY SoundFields
<1>2. ASSUME NEW n \in DOMAIN d.list
      PROVE  list[n] \in Profile /\ list[n].id = d.list[n].id
  <2> DEFINE q == d.list[n]
  <2>1. q \in Profile
    BY <1>1
  <2>2. list[n] = IF q.id = i THEN [q EXCEPT !.val = v] ELSE q
    OBVIOUS
  <2> HIDE DEF q, list
  <2>3. [q EXCEPT !.val = v] \in Profile /\ [q EXCEPT !.val = v].id = q.id
    BY <2>1 DEF Profile
  <2>4. list[n] \in Profile /\ list[n].id = q.id
    BY <2>1, <2>2, <2>3
  <2> QED
    BY <2>4 DEF q
<1>3. WithVal(d, i, v) = [d EXCEPT !.list = list]
  BY DEF WithVal
<1>4. list = [n \in 1 .. Len(d.list) |-> list[n]] /\ DOMAIN list = 1 .. Len(d.list)
  BY <1>1
<1> HIDE DEF list
<1>5. list \in Seq(Profile) /\ Len(list) = Len(d.list)
  <2>1. list \in [1 .. Len(d.list) -> Profile]
    BY <1>1, <1>2, <1>4
  <2> QED
    BY <1>1, <1>4, <2>1
<1>6. WithVal(d, i, v) = [active |-> d.active, list |-> list]
  BY <1>1, <1>3
<1>7. PICK n \in DOMAIN d.list : d.list[n].id = d.active
  BY DEF Sound, IdsOf
<1>8. n \in DOMAIN list /\ list[n].id = d.active
  BY <1>1, <1>2, <1>4, <1>7
<1> QED
  BY <1>1, <1>5, <1>6, <1>8, SoundFrom

LEMMA RemoveAtProperties ==
    ASSUME NEW S, NEW q \in Seq(S), NEW n \in 1 .. Len(q)
    PROVE  RemoveAt(q, n) \in Seq(S) /\ Len(RemoveAt(q, n)) = Len(q) - 1
<1> DEFINE a == SubSeq(q, 1, n - 1)
           b == SubSeq(q, n + 1, Len(q))
<1>1. a \in Seq(S) /\ Len(a) = n - 1
  OBVIOUS
<1>2. b \in Seq(S) /\ Len(b) = Len(q) - n
  OBVIOUS
<1> HIDE DEF a, b
<1>3. a \o b \in Seq(S) /\ Len(a \o b) = Len(a) + Len(b)
  BY <1>1, <1>2
<1>4. Len(q) \in Nat /\ (n - 1) + (Len(q) - n) = Len(q) - 1
  OBVIOUS
<1>5. RemoveAt(q, n) = a \o b
  BY DEF RemoveAt, a, b
<1> QED
  BY <1>1, <1>2, <1>3, <1>4, <1>5

LEMMA ActiveSound ==
    ASSUME NEW d, Sound(d), NEW i \in IdsOf(d)
    PROVE  Sound([d EXCEPT !.active = i])
<1>1. PICK n \in DOMAIN d.list : d.list[n].id = i
  BY DEF IdsOf
<1>2. i \in Ids
  BY <1>1, SoundFields
<1>3. [d EXCEPT !.active = i] = [active |-> i, list |-> d.list]
  BY SoundFields
<1> QED
  BY <1>1, <1>2, <1>3, SoundFields, SoundFrom

LEMMA ValOfTypes ==
    ASSUME NEW d, Sound(d), NEW i \in IdsOf(d)
    PROVE  ValOf(d, i) \in Settings
<1> DEFINE n == CHOOSE k \in DOMAIN d.list : d.list[k].id = i
<1>1. n \in DOMAIN d.list
  BY DEF IdsOf
<1>2. ValOf(d, i) = d.list[n].val
  BY DEF ValOf
<1> HIDE DEF n
<1> QED
  BY <1>1, <1>2, SoundFields

LEMMA DeleteSound ==
    ASSUME Sound(doc), Delete
    PROVE  Sound(doc')
<1>1. PICK n \in DOMAIN doc.list :
        LET rest == [doc EXCEPT !.list = RemoveAt(@, n)]
        IN  doc' = IF doc.active \in IdsOf(rest) THEN rest
                   ELSE [rest EXCEPT !.active = rest.list[1].id]
  BY DEF Delete
<1> DEFINE list == RemoveAt(doc.list, n)
           rest == [doc EXCEPT !.list = list]
<1>2. /\ doc.list \in Seq(Profile) /\ n \in 1 .. Len(doc.list) /\ doc.active \in Ids
      /\ doc = [active |-> doc.active, list |-> doc.list]
      /\ Len(doc.list) \in 1 .. MaxProfiles /\ Len(doc.list) > 1
  BY SoundFields DEF Delete
<1>3. list \in Seq(Profile) /\ Len(list) = Len(doc.list) - 1
  BY <1>2, RemoveAtProperties
<1>4. Len(list) \in 1 .. MaxProfiles
  BY <1>2, <1>3, ProfilesAssumption
<1> HIDE DEF list
<1>5. rest = [active |-> doc.active, list |-> list] /\ rest.list = list
  BY <1>2
<1>6. doc' = IF doc.active \in IdsOf(rest) THEN rest ELSE [rest EXCEPT !.active = list[1].id]
  BY <1>1, <1>5 DEF list
<1> HIDE DEF rest
<1>7. list[1] \in Profile /\ 1 \in DOMAIN list
  BY <1>3, <1>4
<1>8. CASE doc.active \in IdsOf(rest)
  <2>1. PICK k \in DOMAIN list : list[k].id = doc.active
    BY <1>5, <1>8 DEF IdsOf
  <2> QED
    BY <1>2, <1>3, <1>4, <1>5, <1>6, <1>8, <2>1, SoundFrom
<1>9. CASE doc.active \notin IdsOf(rest)
  <2> DEFINE first == list[1].id
  <2>1. first \in Ids
    BY <1>7 DEF Profile
  <2>2. doc' = [active |-> first, list |-> list]
    BY <1>5, <1>6, <1>9
  <2> QED
    BY <1>3, <1>4, <1>7, <2>1, <2>2, SoundFrom
<1> QED
  BY <1>8, <1>9
-----------------------------------------------------------------------------
(***************************************************************************)
(* Every step keeps ProfilesInv.                                            *)
(***************************************************************************)
Places == PlacesOK /\ WebHas /\ MqttHas /\ TornOnlyInside /\ StoresSound /\ DocumentLoaded

LEMMA GuardPlaces ==
    ASSUME ProfilesInv, MainLoop \/ RememberWifiAp \/ MqttEnter
    PROVE  Places'
<1> USE DEF ProfilesInv, Places, PlacesOK, WebHas, MqttHas, TornOnlyInside, StoresSound,
            DocumentLoaded, files
<1>1. CASE MainLoop
  BY <1>1 DEF MainLoop, Serve, Resume
<1>2. CASE RememberWifiAp
  BY <1>2, GuardAssumption DEF RememberWifiAp, EnterAs, Enter
<1>3. CASE MqttEnter
  BY <1>3, GuardAssumption DEF MqttEnter, EnterAs, Enter
<1> QED
  BY <1>1, <1>2, <1>3

LEMMA ThreeTasks ==
    /\ Web \in Tasks /\ Mqtt \in Tasks /\ Loop \in Tasks
    /\ Web # Mqtt /\ Web # Loop /\ Mqtt # Loop /\ Web # Free /\ Mqtt # Free
<1>1. Web \in Tasks /\ Mqtt \in Tasks /\ Loop \in Tasks /\ Tasks = {Web, Mqtt, Loop}
  BY ProfilesAssumption
<1>2. \A x, y : Cardinality({x, y}) # 3
  <2>1. SUFFICES ASSUME NEW x, NEW y PROVE Cardinality({x, y}) # 3
    OBVIOUS
  <2>2. IsFiniteSet({x}) /\ Cardinality({x}) = 1
    BY FS_Singleton
  <2>3. Cardinality({x} \cup {y}) = 1 \/ Cardinality({x} \cup {y}) = 2
    BY <2>2, FS_AddElement
  <2>4. {x} \cup {y} = {x, y}
    OBVIOUS
  <2> QED
    BY <2>3, <2>4
<1>3. Web # Mqtt /\ Web # Loop /\ Mqtt # Loop
  <2>1. ASSUME Web = Mqtt \/ Web = Loop \/ Mqtt = Loop PROVE FALSE
    <3>1. Tasks = {Web, Loop} \/ Tasks = {Web, Mqtt}
      BY <1>1, <2>1
    <3> QED
      BY <1>2, <3>1, ProfilesAssumption
  <2> QED
    BY <2>1
<1> QED
  BY <1>1, <1>3, GuardAssumption

(* Writing the file, and closing it.                                        *)
LEMMA OpenFileTypes ==
    ASSUME PlacesOK, TornOnlyInside, NEW t \in {Web, Mqtt}, OpenFile(t), at # "leave"
    PROVE  /\ saving' \in [{Web, Mqtt} -> Settings \cup {Torn, Missing}]
           /\ saving'[Web] # Torn /\ saving'[Mqtt] # Torn
           /\ events' \subseteq {"late", "drift", "unsaved"}
<1>1. cfg \in Settings /\ cfg # Torn
  BY ProfilesAssumption DEF PlacesOK, TornOnlyInside
<1>2. saving' = [saving EXCEPT ![t] = cfg] /\ events' \in {events \ {"unsaved"}, events \cup {"unsaved"}}
  BY DEF OpenFile
<1> QED
  BY <1>1, <1>2 DEF PlacesOK, TornOnlyInside

LEMMA CloseFileTypes ==
    ASSUME PlacesOK, TornOnlyInside, NEW t \in {Web, Mqtt}, CloseFile(t)
    PROVE  /\ saving' \in [{Web, Mqtt} -> Settings \cup {Torn, Missing}]
           /\ saving'[Web] # Torn /\ saving'[Mqtt] # Torn
           /\ file' \in Settings \cup {Torn, Missing} /\ file' # Torn
BY ProfilesAssumption DEF PlacesOK, TornOnlyInside, CloseFile

LEMMA MqttPlaces ==
    ASSUME ProfilesInv, MqttStep
    PROVE  Places'
<1> USE ThreeTasks, ProfilesAssumption
    DEF ProfilesInv, Places, PlacesOK, WebHas, MqttHas, TornOnlyInside, StoresSound,
        DocumentLoaded, files, guardVars
<1>1. ASSUME NEW v \in Settings, MqttSet(v) PROVE Places'
  BY <1>1 DEF MqttSet, Take
<1>2. CASE MqttOpen
  <2>1. at # "leave"
    BY <1>2 DEF MqttOpen
  <2>2. CASE OpenFile(Mqtt) /\ file' = file
    BY <1>2, <2>1, <2>2, OpenFileTypes DEF MqttOpen
  <2>3. CASE FailFile /\ saving' = saving /\ mqtt' = "leave"
    BY <1>2, <2>3 DEF MqttOpen, FailFile
  <2> QED
    BY <1>2, <2>2, <2>3 DEF MqttOpen
<1>3. CASE MqttClose
  BY <1>3, CloseFileTypes DEF MqttClose
<1>4. CASE MqttLeave
  BY <1>4 DEF MqttLeave, Leave
<1> QED
  BY <1>1, <1>2, <1>3, <1>4 DEF MqttStep

(* The operations on the store document; none of them is inside the guard.  *)
LEMMA OperationPlaces ==
    ASSUME ProfilesInv, Load \/ Create \/ Sync \/ Rename \/ Delete \/ Apply \/ Refused
    PROVE  Places'
<1>1. at \in {"load", "operate"} /\ cfg \in Settings /\ cfg # Torn
  <2>1. at \in {"load", "operate"}
    BY DEF Load, Create, Sync, Rename, Delete, Apply, Refused
  <2> QED
    BY <2>1, ProfilesAssumption DEF ProfilesInv, PlacesOK, TornOnlyInside
<1>2. op.id \in Ids /\ (at = "operate" => Sound(doc))
  BY DEF ProfilesInv, PlacesOK, DocumentLoaded
<1> USE <1>1, ThreeTasks, ProfilesAssumption
    DEF ProfilesInv, Places, PlacesOK, WebHas, MqttHas, TornOnlyInside, StoresSound,
        DocumentLoaded, files, guardVars
<1>3. CASE Load
  <2>1. CASE store = Missing
    BY <1>3, <2>1, DefaultStoreSound DEF Load
  <2>2. CASE store # Missing
    <3>1. Sound(store) /\ store.active \in IdsOf(store)
      BY <2>2 DEF Sound
    <3> QED
      BY <1>3, <2>2, <3>1 DEF Load
  <2> QED
    BY <2>1, <2>2
<1>4. CASE Create
  <2>1. Sound(doc')
    BY <1>2, <1>4, AppendSound DEF Create
  <2> QED
    BY <1>4, <2>1 DEF Create
<1>5. CASE Sync
  <2>1. Sound(doc')
    BY <1>2, <1>5, WithValSound DEF Sync
  <2> QED
    BY <1>5, <2>1 DEF Sync
<1>6. CASE Rename
  BY <1>2, <1>6 DEF Rename
<1>7. CASE Delete
  <2>1. Sound(doc')
    BY <1>2, <1>7, DeleteSound DEF Delete
  <2> QED
    BY <1>7, <2>1 DEF Delete
<1>8. CASE Apply
  BY <1>2, <1>8 DEF Apply
<1>9. CASE Refused
  BY <1>9 DEF Refused, End, Idle, Kinds
<1> QED
  BY <1>3, <1>4, <1>5, <1>6, <1>7, <1>8, <1>9

(* The settings under the guard, and the file after it.                     *)
LEMMA SettingsPlaces ==
    ASSUME ProfilesInv, WebEnter \/ WebBegin \/ WebLeave \/ WebOpen \/ WebClose
    PROVE  Places'
<1> USE ThreeTasks, ProfilesAssumption
    DEF ProfilesInv, Places, PlacesOK, WebHas, MqttHas, TornOnlyInside, StoresSound,
        DocumentLoaded, files, guardVars
<1>1. CASE WebEnter
  BY <1>1 DEF WebEnter, EnterAs, Enter
<1>2. CASE WebBegin
  BY <1>2 DEF WebBegin, Take
<1>3. CASE WebLeave
  <2>1. cfg' \in Settings
    BY <1>3, ValOfTypes DEF WebLeave
  <2> QED
    BY <1>3, <2>1 DEF WebLeave, Leave
<1>4. CASE WebOpen
  <2>1. at = "open"
    BY <1>4 DEF WebOpen
  <2>2. CASE OpenFile(Web) /\ at' = "close" /\ UNCHANGED <<file, doc, op, booted>>
    BY <1>4, <2>1, <2>2, OpenFileTypes DEF WebOpen
  <2>3. CASE FailFile /\ End /\ events' = events \cup {"unsaved", "drift"} /\ UNCHANGED saving
    BY <1>4, <2>1, <2>3 DEF WebOpen, FailFile, End, Idle, Kinds
  <2> QED
    BY <1>4, <2>2, <2>3 DEF WebOpen
<1>5. CASE WebClose
  <2>1. at = "close" /\ CloseFile(Web)
    BY <1>5 DEF WebClose
  <2>2. CASE op.kind = "apply"
    <3>1. doc' = [doc EXCEPT !.active = op.id] /\ at' = "tmp" /\ op' = op
      BY <1>5, <2>2 DEF WebClose
    <3>2. Sound(doc')
      BY <2>1, <2>2, <3>1, ActiveSound
    <3> QED
      BY <1>5, <2>1, <3>1, <3>2, CloseFileTypes DEF WebClose
  <2>3. CASE op.kind # "apply"
    <3>1. op' = [op EXCEPT !.kind = "sync"] /\ at' = "load" /\ doc' = doc
      BY <1>5, <2>3 DEF WebClose
    <3>2. op' \in [kind : Kinds, id : Ids]
      BY <3>1 DEF Kinds
    <3> QED
      BY <1>5, <2>1, <3>1, <3>2, CloseFileTypes DEF WebClose
  <2> QED
    BY <2>2, <2>3
<1> QED
  BY <1>1, <1>2, <1>3, <1>4, <1>5

LEMMA IdleTypes == Idle \in [kind : Kinds, id : Ids]
BY ProfilesAssumption DEF Idle, Kinds

(* The profile store on flash.                                              *)
LEMMA StorePlaces ==
    ASSUME ProfilesInv, WriteTmp \/ RemoveStore \/ RenameTmp
    PROVE  Places'
<1> USE ThreeTasks, ProfilesAssumption
    DEF ProfilesInv, Places, PlacesOK, WebHas, MqttHas, TornOnlyInside, StoresSound,
        DocumentLoaded, files, guardVars
<1>1. CASE WriteTmp
  <2>1. Sound(doc) /\ at \in {"tmp", "made"}
    BY <1>1 DEF WriteTmp
  <2>2. CASE /\ tmp' = doc /\ UNCHANGED <<doc, op, booted, events>>
             /\ at' = IF at = "tmp" THEN "remove" ELSE "madeRemove"
    BY <1>1, <2>1, <2>2 DEF WriteTmp
  <2>3. CASE End /\ tmp' \in {tmp, Missing} /\ events' = events \cup {"drift"}
    BY <1>1, <2>1, <2>3, IdleTypes DEF WriteTmp, End
  <2> QED
    BY <1>1, <2>2, <2>3 DEF WriteTmp
<1>2. CASE RemoveStore
  BY <1>2 DEF RemoveStore
<1>3. CASE RenameTmp
  <2>1. at \in {"rename", "madeRename"} /\ tmp' = Missing /\ store' \in {store, tmp}
        /\ events' \in {events, events \cup {"drift"}}
    BY <1>3 DEF RenameTmp
  <2>2. CASE End
    BY <1>3, <2>1, <2>2, IdleTypes DEF RenameTmp, End
  <2>3. CASE at' = "operate" /\ UNCHANGED <<doc, op, booted>>
    BY <1>3, <2>1, <2>3 DEF RenameTmp
  <2> QED
    BY <1>3, <2>2, <2>3 DEF RenameTmp
<1> QED
  BY <1>1, <1>2, <1>3

LEMMA OtherPlaces ==
    ASSUME ProfilesInv,
           Crash \/ (\E r \in Requests : Request(r)) \/ UNCHANGED vars
    PROVE  Places'
<1> USE ThreeTasks, ProfilesAssumption
    DEF ProfilesInv, Places, PlacesOK, WebHas, MqttHas, TornOnlyInside, StoresSound,
        DocumentLoaded, files, guardVars
<1>1. CASE Crash
  <2>1. op' \in [kind : Kinds, id : Ids] /\ at' = "load"
    BY <1>1, IdleTypes DEF Crash
  <2>2. /\ saving' \in [{Web, Mqtt} -> Settings \cup {Torn, Missing}]
        /\ saving'[Web] # Torn /\ saving'[Mqtt] # Torn
    BY <1>1 DEF Crash
  <2>3. cfg' \in Settings /\ cfg' # Torn /\ file' = cfg'
    BY <1>1 DEF Crash
  <2>4. crashes' \in 0 .. MaxCrashes /\ events' \subseteq {"late", "drift", "unsaved"}
    BY <1>1 DEF Crash
  <2> QED
    BY <1>1, <2>1, <2>2, <2>3, <2>4 DEF Crash
<1>2. ASSUME NEW r \in Requests, Request(r) PROVE Places'
  BY <1>2 DEF Request, Requests, Kinds
<1>3. CASE UNCHANGED vars
  BY <1>3 DEF vars
<1> QED
  BY <1>1, <1>2, <1>3

LEMMA NextProfilesInv == ProfilesInv /\ [Next]_vars => ProfilesInv'
<1> SUFFICES ASSUME ProfilesInv, [Next]_vars PROVE ProfilesInv'
  OBVIOUS
<1>1. GuardInv'
  BY NextGuardInv DEF ProfilesInv
<1>2. Places'
  BY GuardPlaces, MqttPlaces, OperationPlaces, SettingsPlaces, StorePlaces, OtherPlaces
     DEF Next, WebStep
<1> QED
  BY <1>1, <1>2 DEF ProfilesInv, Places

LEMMA ProfilesInvAlways == Spec => []ProfilesInv
<1>1. Init => ProfilesInv
  <2>1. Init => GuardInv
    BY InitGuardInv DEF Init
  <2>2. Init => PlacesOK /\ WebHas /\ MqttHas /\ TornOnlyInside
    <3> SUFFICES ASSUME Init PROVE PlacesOK /\ WebHas /\ MqttHas /\ TornOnlyInside
      OBVIOUS
    <3> USE ThreeTasks, ProfilesAssumption DEF Init, GuardInit
    <3>1. /\ saving \in [{Web, Mqtt} -> Settings \cup {Torn, Missing}]
          /\ saving[Web] # Torn /\ saving[Mqtt] # Torn
      OBVIOUS
    <3>2. cfg \in Settings /\ file \in Settings /\ cfg # Torn /\ file # Torn
      OBVIOUS
    <3>3. op \in [kind : Kinds, id : Ids] /\ crashes \in 0 .. MaxCrashes /\ booted \in BOOLEAN
      <4>1. op \in [kind : Kinds, id : Ids]
        BY IdleTypes
      <4>2. crashes \in 0 .. MaxCrashes
        OBVIOUS
      <4>3. booted \in BOOLEAN
        OBVIOUS
      <4> QED
        BY <4>1, <4>2, <4>3
    <3>4. PlacesOK
      BY <3>1, <3>2, <3>3 DEF PlacesOK
    <3> QED
      BY <3>1, <3>2, <3>4 DEF WebHas, MqttHas, TornOnlyInside
  <2>3. Init => StoresSound /\ DocumentLoaded
    BY DEF Init, StoresSound, DocumentLoaded
  <2> QED
    BY <2>1, <2>2, <2>3 DEF ProfilesInv
<1> QED
  BY <1>1, NextProfilesInv, PTL DEF Spec

(* The types of the configuration, the files and the tasks' places.         *)
THEOREM ProfilesTypeCorrect == Spec => []TypeOK
<1>1. ProfilesInv => TypeOK
  BY DEF ProfilesInv, GuardInv, PlacesOK, StoresSound, Sound, TypeOK
<1> QED
  BY <1>1, ProfilesInvAlways, PTL

(* Nobody but the task that holds the guard sees half-changed settings, in  *)
(* memory, in the file or in a profile, whoever takes turns and whenever    *)
(* the power fails.                                                         *)
THEOREM SettingsNeverTorn == Spec => []NoTornSettings
<1>1. ProfilesInv => NoTornSettings
  <2> SUFFICES ASSUME ProfilesInv PROVE NoTornSettings
    OBVIOUS
  <2>1. cfg = Torn => main = "serve" /\ lock = Web
    BY ThreeTasks DEF ProfilesInv, TornOnlyInside, WebHas, GuardInv, Exclusive
  <2>2. file # Torn /\ \A t \in DOMAIN saving : saving[t] # Torn
    BY DEF ProfilesInv, TornOnlyInside, PlacesOK
  <2>3. ASSUME NEW d \in {store, tmp, doc} \ {Missing}, NEW n \in DOMAIN d.list
        PROVE  d.list[n].val # Torn
    <3>1. Sound(d)
      BY DEF ProfilesInv, StoresSound
    <3>2. d.list[n].val \in Settings
      BY <3>1, SoundFields
    <3> QED
      BY <3>2, ProfilesAssumption
  <2> QED
    BY <2>1, <2>2, <2>3 DEF NoTornSettings
<1> QED
  BY <1>1, ProfilesInvAlways, PTL

(* The store on flash always names an active profile that it has, also      *)
(* after the active profile was deleted.                                    *)
THEOREM ActiveProfileExists == Spec => []ActiveExists
<1>1. ProfilesInv => ActiveExists
  BY DEF ProfilesInv, StoresSound, Sound, ActiveExists
<1> QED
  BY <1>1, ProfilesInvAlways, PTL
-----------------------------------------------------------------------------
(***************************************************************************)
(* The configuration file and what is in force.                             *)
(***************************************************************************)
Unsaved == "unsaved" \in events
Clean   == Unsaved \/ file = cfg

(* Whoever has the file open is at its place; MQTT writes what is in force, *)
(* since it keeps the guard; the web task may write what MQTT has changed   *)
(* since, but then MQTT has its own writing before it; and two at a time    *)
(* are noted.  With nobody about to write, the file is what is in force.    *)
SavedInv ==
    /\ at = "close" <=> saving[Web] # Missing
    /\ mqtt = "close" <=> saving[Mqtt] # Missing
    /\ mqtt = "close" => saving[Mqtt] = cfg
    /\ at = "close" => Unsaved \/ saving[Web] = cfg \/ mqtt = "open"
    /\ at = "close" /\ mqtt = "close" => Unsaved
    /\ Clean \/ at \in {"leave", "open", "close"} \/ mqtt \in {"open", "close"}

(* A step that touches neither the file nor what is in force, and leaves    *)
(* the places of writing to nobody, keeps it.                               *)
LEMMA SavedUntouched ==
    ASSUME SavedInv, UNCHANGED <<cfg, file, saving>>, Unsaved' <=> Unsaved,
           at' = at \/ {at, at'} \cap {"leave", "open", "close"} = {},
           mqtt' = mqtt \/ {mqtt, mqtt'} \cap {"open", "close"} = {}
    PROVE  SavedInv'
BY DEF SavedInv, Clean

LEMMA MqttSaved ==
    ASSUME ProfilesInv, SavedInv, MqttStep
    PROVE  SavedInv'
<1>1. /\ saving \in [{Web, Mqtt} -> Settings \cup {Torn, Missing}] /\ Web # Mqtt
      /\ cfg # Missing /\ DOMAIN saving \ {Mqtt} = {Web}
  BY ThreeTasks, ProfilesAssumption DEF ProfilesInv, PlacesOK
<1>2. ASSUME NEW v \in Settings, MqttSet(v) PROVE SavedInv'
  <2>1. at # "leave" /\ mqtt = "wait"
    BY <1>2, ThreeTasks DEF ProfilesInv, WebHas, MqttSet, Take
  <2>2. UNCHANGED <<file, saving, at>> /\ (Unsaved' <=> Unsaved)
    BY <1>2 DEF MqttSet, Unsaved
  <2>3. (cfg' = cfg /\ mqtt' = "leave") \/ mqtt' = "open"
    BY <1>2 DEF MqttSet
  <2> QED
    BY <2>1, <2>2, <2>3 DEF SavedInv, Clean
<1>3. CASE MqttOpen
  <2>1. mqtt = "open" /\ UNCHANGED <<cfg, at>>
    BY <1>3 DEF MqttOpen
  <2>2. CASE OpenFile(Mqtt) /\ mqtt' = "close" /\ UNCHANGED file
    <3>1. saving'[Web] = saving[Web] /\ saving'[Mqtt] = cfg
      BY <1>1, <2>2 DEF OpenFile
    <3>2. Unsaved' <=> saving[Web] # Missing
      BY <1>1, <2>2 DEF OpenFile, Unsaved
    <3> QED
      BY <1>1, <2>1, <2>2, <3>1, <3>2 DEF SavedInv, Clean
  <2>3. CASE mqtt' = "leave" /\ events' = events \cup {"unsaved"} /\ UNCHANGED saving
    BY <1>1, <2>1, <2>3 DEF SavedInv, Clean, Unsaved
  <2> QED
    BY <1>3, <2>2, <2>3 DEF MqttOpen
<1>4. CASE MqttClose
  <2>1. /\ mqtt = "close" /\ mqtt' = "leave" /\ file' = saving[Mqtt]
        /\ UNCHANGED <<cfg, at>> /\ (Unsaved' <=> Unsaved)
        /\ saving'[Web] = saving[Web] /\ saving'[Mqtt] = Missing
    BY <1>1, <1>4 DEF MqttClose, CloseFile, Unsaved
  <2> QED
    BY <1>1, <2>1 DEF SavedInv, Clean
<1>5. CASE MqttLeave
  BY <1>5, SavedUntouched DEF MqttLeave, files, Unsaved
<1> QED
  BY <1>2, <1>3, <1>4, <1>5 DEF MqttStep

LEMMA WebSaved ==
    ASSUME ProfilesInv, SavedInv, WebEnter \/ WebBegin \/ WebLeave \/ WebOpen \/ WebClose
    PROVE  SavedInv'
<1>1. /\ saving \in [{Web, Mqtt} -> Settings \cup {Torn, Missing}] /\ Web # Mqtt
      /\ cfg # Missing /\ DOMAIN saving \ {Web} = {Mqtt}
  BY ThreeTasks, ProfilesAssumption DEF ProfilesInv, PlacesOK
<1>2. CASE WebEnter
  <2>1. Unsaved' <=> Unsaved
    BY <1>2 DEF WebEnter, EnterAs, Unsaved
  <2> QED
    BY <1>2, <2>1, SavedUntouched DEF WebEnter, files
<1>3. CASE WebBegin \/ WebLeave
  <2>1. mqtt \notin {"open", "close"}
    <3>1. lock # Mqtt
      BY <1>3, ThreeTasks DEF ProfilesInv, WebHas, WebBegin, WebLeave, Take, Leave
    <3> QED
      BY <3>1 DEF ProfilesInv, MqttHas
  <2>2. at \in {"wait", "leave"} /\ at' \in {"leave", "open"} /\ UNCHANGED <<saving, mqtt>>
    BY <1>3 DEF WebBegin, WebLeave
  <2> QED
    BY <2>1, <2>2 DEF SavedInv
<1>4. CASE WebOpen
  <2>1. at = "open" /\ UNCHANGED <<cfg, mqtt>>
    BY <1>4 DEF WebOpen
  <2>2. CASE OpenFile(Web) /\ at' = "close" /\ UNCHANGED file
    <3>1. saving'[Web] = cfg /\ saving'[Mqtt] = saving[Mqtt]
      BY <1>1, <2>2 DEF OpenFile
    <3>2. Unsaved' <=> saving[Mqtt] # Missing
      BY <1>1, <2>2 DEF OpenFile, Unsaved
    <3> QED
      BY <1>1, <2>1, <2>2, <3>1, <3>2 DEF SavedInv, Clean
  <2>3. CASE at' = "idle" /\ Unsaved' /\ UNCHANGED saving
    BY <1>1, <2>1, <2>3 DEF SavedInv, Clean
  <2> QED
    BY <1>4, <2>2, <2>3 DEF WebOpen, End, Unsaved
<1>5. CASE WebClose
  <2>1. /\ at = "close" /\ at' \in {"tmp", "load"} /\ file' = saving[Web]
        /\ UNCHANGED <<cfg, mqtt>> /\ (Unsaved' <=> Unsaved)
        /\ saving'[Web] = Missing /\ saving'[Mqtt] = saving[Mqtt]
    BY <1>1, <1>5 DEF WebClose, CloseFile, Unsaved
  <2> QED
    BY <1>1, <2>1 DEF SavedInv, Clean
<1> QED
  BY <1>2, <1>3, <1>4, <1>5

LEMMA NextSavedInv == ProfilesInv /\ SavedInv /\ [Next]_vars => SavedInv'
<1> SUFFICES ASSUME ProfilesInv, SavedInv, [Next]_vars PROVE SavedInv'
  OBVIOUS
<1>1. CASE MainLoop \/ RememberWifiAp \/ MqttEnter
  <2>1. (Unsaved' <=> Unsaved) /\ UNCHANGED <<files, at>>
        /\ (mqtt' = mqtt \/ (mqtt = "idle" /\ mqtt' = "wait"))
    BY <1>1 DEF MainLoop, RememberWifiAp, MqttEnter, EnterAs, Unsaved
  <2> QED
    BY <2>1, SavedUntouched DEF files
<1>2. CASE Load \/ Create \/ Sync \/ Rename \/ Delete \/ Apply \/ Refused
  <2>1. (Unsaved' <=> Unsaved) /\ UNCHANGED <<files, mqtt>>
        /\ at \in {"load", "operate"}
        /\ at' \in {"made", "operate", "tmp", "enter", "idle"}
    BY <1>2 DEF Load, Create, Sync, Rename, Delete, Apply, Refused, End, Unsaved
  <2> QED
    BY <2>1, SavedUntouched DEF files
<1>3. CASE WriteTmp \/ RemoveStore \/ RenameTmp
  <2>1. (Unsaved' <=> Unsaved) /\ UNCHANGED <<cfg, file, saving, mqtt>>
        /\ at \in {"tmp", "made", "remove", "madeRemove", "rename", "madeRename"}
        /\ at' \in {"remove", "madeRemove", "rename", "madeRename", "operate", "idle"}
    BY <1>3 DEF WriteTmp, RemoveStore, RenameTmp, End, Unsaved
  <2> QED
    BY <2>1, SavedUntouched
<1>4. CASE Crash
  BY <1>4, ThreeTasks DEF Crash, SavedInv, Clean
<1>5. ASSUME NEW r \in Requests, Request(r) PROVE SavedInv'
  BY <1>5, SavedUntouched DEF Request, files, Unsaved
<1>6. CASE UNCHANGED vars
  BY <1>6, SavedUntouched DEF vars, files, Unsaved
<1> QED
  BY <1>1, <1>2, <1>3, <1>4, <1>5, <1>6, MqttSaved, WebSaved DEF Next, WebStep

LEMMA SavedInvAlways == Spec => []SavedInv
<1>1. Init => SavedInv
  BY ThreeTasks DEF Init, SavedInv, Clean
<1> QED
  BY <1>1, NextSavedInv, ProfilesInvAlways, PTL DEF Spec

(* With nothing in progress, the configuration file holds the settings in   *)
(* force, for any turns the web server, MQTT and power failures take, but   *)
(* when the last write of it failed or ran into another.                    *)
THEOREM SavedIsCurrentCorrect == Spec => []SavedIsCurrent
<1>1. SavedInv => SavedIsCurrent
  BY DEF SavedInv, Clean, Unsaved, SavedIsCurrent, Quiet
<1> QED
  BY <1>1, SavedInvAlways, PTL
-----------------------------------------------------------------------------
(***************************************************************************)
(* The ids of a store and the settings of a profile, after the operations.  *)
(***************************************************************************)
Unique(d) == \A m, n \in DOMAIN d.list : d.list[m].id = d.list[n].id => m = n

(* What a profile holds, when its id is used once.                          *)
LEMMA ValOfUnique ==
    ASSUME NEW d, Unique(d), NEW n \in DOMAIN d.list
    PROVE  ValOf(d, d.list[n].id) = d.list[n].val
<1> DEFINE k == CHOOSE m \in DOMAIN d.list : d.list[m].id = d.list[n].id
<1>1. k \in DOMAIN d.list /\ d.list[k].id = d.list[n].id
  OBVIOUS
<1>2. ValOf(d, d.list[n].id) = d.list[k].val
  BY DEF ValOf
<1> HIDE DEF k
<1> QED
  BY <1>1, <1>2 DEF Unique

(* Only the list matters.                                                   *)
LEMMA SameList ==
    ASSUME NEW d, NEW e, e.list = d.list
    PROVE  /\ IdsOf(e) = IdsOf(d) /\ (Unique(e) <=> Unique(d))
           /\ \A i : ValOf(e, i) = ValOf(d, i)
BY DEF IdsOf, Unique, ValOf

LEMMA WithValProperties ==
    ASSUME NEW d, Sound(d), Unique(d), NEW i \in IdsOf(d), NEW v \in Settings
    PROVE  LET e == WithVal(d, i, v)
           IN  /\ IdsOf(e) = IdsOf(d) /\ Unique(e)
               /\ e.active = d.active /\ ValOf(e, i) = v
<1> DEFINE list == [n \in DOMAIN d.list |->
                      IF d.list[n].id = i THEN [d.list[n] EXCEPT !.val = v] ELSE d.list[n]]
           e == WithVal(d, i, v)
<1>1. d = [active |-> d.active, list |-> d.list] /\ \A n \in DOMAIN d.list : d.list[n] \in Profile
  BY SoundFields
<1>2. ASSUME NEW n \in DOMAIN d.list
      PROVE  /\ list[n].id = d.list[n].id
             /\ d.list[n].id = i => list[n].val = v
  <2> DEFINE q == d.list[n]
  <2>1. q \in Profile
    BY <1>1
  <2>2. list[n] = IF q.id = i THEN [q EXCEPT !.val = v] ELSE q
    OBVIOUS
  <2> HIDE DEF q, list
  <2>3. [q EXCEPT !.val = v].id = q.id /\ [q EXCEPT !.val = v].val = v
    BY <2>1 DEF Profile
  <2>4. list[n].id = q.id /\ (q.id = i => list[n].val = v)
    BY <2>2, <2>3
  <2> QED
    BY <2>4 DEF q
<1>3. e = [d EXCEPT !.list = list]
  BY DEF WithVal
<1>4. DOMAIN list = DOMAIN d.list
  OBVIOUS
<1> HIDE DEF list, e
<1>5. e.list = list /\ e.active = d.active
  BY <1>1, <1>3
<1>6. IdsOf(e) = IdsOf(d) /\ Unique(e)
  BY <1>2, <1>4, <1>5 DEF IdsOf, Unique
<1>7. PICK n \in DOMAIN d.list : d.list[n].id = i
  BY DEF IdsOf
<1>8. ValOf(e, i) = v
  BY <1>2, <1>4, <1>5, <1>6, <1>7, ValOfUnique
<1> QED
  BY <1>5, <1>6, <1>8 DEF e

LEMMA AppendProfileProperties ==
    ASSUME NEW d, Sound(d), Unique(d), NEW i \in Ids, i \notin IdsOf(d), NEW v \in Settings,
           NEW e, e.list = Append(d.list, [id |-> i, val |-> v])
    PROVE  IdsOf(d) \subseteq IdsOf(e) /\ Unique(e) /\ ValOf(e, i) = v
<1> DEFINE new  == [id |-> i, val |-> v]
           list == Append(d.list, new)
           size == Len(d.list) + 1
<1>1. d.list \in Seq(Profile) /\ Len(d.list) \in Nat /\ DOMAIN d.list = 1 .. Len(d.list)
  BY SoundFields
<1>2. new \in Profile /\ new.id = i /\ new.val = v
  BY DEF Profile
<1>3. e.list = list
  OBVIOUS
<1> HIDE DEF new
<1>4. /\ DOMAIN list = 1 .. size /\ list[size] = new
      /\ \A n \in 1 .. Len(d.list) : list[n] = d.list[n]
  BY <1>1, <1>2
<1> HIDE DEF list
<1>5. \A n \in DOMAIN d.list : d.list[n].id # i
  BY DEF IdsOf
<1>6. IdsOf(d) \subseteq IdsOf(e)
  BY <1>1, <1>4, <1>3 DEF IdsOf
<1>7. Unique(e)
  BY <1>1, <1>2, <1>4, <1>3, <1>5 DEF Unique
<1>8. ValOf(e, i) = v
  <2>1. size \in DOMAIN e.list /\ e.list[size].id = i /\ e.list[size].val = v
    BY <1>1, <1>2, <1>4, <1>3
  <2> QED
    BY <1>7, <2>1, ValOfUnique
<1> QED
  BY <1>6, <1>7, <1>8

LEMMA RemoveAtElements ==
    ASSUME NEW S, NEW q \in Seq(S), NEW n \in 1 .. Len(q)
    PROVE  /\ DOMAIN RemoveAt(q, n) = 1 .. Len(q) - 1
           /\ \A k \in 1 .. Len(q) - 1 :
                RemoveAt(q, n)[k] = q[IF k < n THEN k ELSE k + 1]
<1> DEFINE a == SubSeq(q, 1, n - 1)
           b == SubSeq(q, n + 1, Len(q))
<1>1. a \in Seq(S) /\ Len(a) = n - 1 /\ \A k \in 1 .. n - 1 : a[k] = q[k]
  OBVIOUS
<1>2. b \in Seq(S) /\ Len(b) = Len(q) - n /\ \A k \in 1 .. Len(q) - n : b[k] = q[n + k]
  OBVIOUS
<1> HIDE DEF a, b
<1>3. RemoveAt(q, n) = a \o b
  BY DEF RemoveAt, a, b
<1>4. /\ Len(a \o b) = Len(a) + Len(b) /\ DOMAIN (a \o b) = 1 .. Len(a) + Len(b)
      /\ \A k \in 1 .. Len(a) + Len(b) :
           (a \o b)[k] = IF k <= Len(a) THEN a[k] ELSE b[k - Len(a)]
  <2>1. /\ Len(a \o b) = Len(a) + Len(b)
        /\ \A k \in 1 .. Len(a) + Len(b) :
             (a \o b)[k] = IF k <= Len(a) THEN a[k] ELSE b[k - Len(a)]
    BY <1>1, <1>2, ConcatProperties
  <2>2. a \o b \in Seq(S)
    BY <1>1, <1>2
  <2> QED
    BY <2>1, <2>2
<1>5. Len(q) \in Nat /\ (n - 1) + (Len(q) - n) = Len(q) - 1
  OBVIOUS
<1>6. ASSUME NEW k \in 1 .. Len(q) - 1
      PROVE  (a \o b)[k] = q[IF k < n THEN k ELSE k + 1]
  <2>1. CASE k < n
    BY <1>1, <1>2, <1>4, <1>5, <2>1
  <2>2. CASE ~(k < n)
    <3>1. k - (n - 1) \in 1 .. Len(q) - n /\ n + (k - (n - 1)) = k + 1
      BY <1>5, <2>2
    <3>2. b[k - (n - 1)] = q[k + 1]
      BY <1>2, <3>1
    <3> QED
      BY <1>1, <1>2, <1>4, <1>5, <2>2, <3>2
  <2> QED
    BY <2>1, <2>2
<1> QED
  BY <1>1, <1>2, <1>3, <1>4, <1>5, <1>6

(* Deleting a profile takes no other with it; while the same profile stays *)
(* active, it stays what it was.                                            *)
LEMMA DeleteProperties ==
    ASSUME Sound(doc), Unique(doc), Delete
    PROVE  /\ IdsOf(doc) \ IdsOf(doc') \subseteq {op.id} /\ Unique(doc')
           /\ doc'.active = doc.active => ValOf(doc', doc.active) = ValOf(doc, doc.active)
<1>1. PICK n \in DOMAIN doc.list :
        LET rest == [doc EXCEPT !.list = RemoveAt(@, n)]
        IN  /\ IsFirst(n, op.id)
            /\ doc' = IF doc.active \in IdsOf(rest) THEN rest
                      ELSE [rest EXCEPT !.active = rest.list[1].id]
  BY DEF Delete
<1> DEFINE list == RemoveAt(doc.list, n)
           from(k) == IF k < n THEN k ELSE k + 1
           size == Len(doc.list)
<1>2. /\ doc.list \in Seq(Profile) /\ n \in 1 .. size /\ size \in Nat
      /\ doc = [active |-> doc.active, list |-> doc.list]
      /\ DOMAIN doc.list = 1 .. size /\ doc.list[n].id = op.id
  BY <1>1, SoundFields DEF IsFirst
<1>3. DOMAIN list = 1 .. size - 1 /\ \A k \in 1 .. size - 1 : list[k] = doc.list[from(k)]
  BY <1>2, RemoveAtElements
<1>4. doc'.list = list
  BY <1>1, <1>2
<1> HIDE DEF list
<1>5. \A m, k \in 1 .. size - 1 : from(m) \in 1 .. size /\ (from(m) = from(k) => m = k)
  BY <1>2
<1>6. \A m \in 1 .. size : m = n \/ \E k \in 1 .. size - 1 : from(k) = m
  <2> SUFFICES ASSUME NEW m \in 1 .. size, m # n PROVE \E k \in 1 .. size - 1 : from(k) = m
    OBVIOUS
  <2>1. CASE m < n
    <3>1. m \in 1 .. size - 1 /\ from(m) = m
      BY <1>2, <2>1
    <3> QED
      BY <3>1
  <2>2. CASE m > n
    <3>1. m - 1 \in 1 .. size - 1 /\ from(m - 1) = m
      BY <1>2, <2>2
    <3> QED
      BY <3>1
  <2> QED
    BY <1>2, <2>1, <2>2
<1> HIDE DEF from
<1>7. IdsOf(doc) \ IdsOf(doc') \subseteq {op.id}
  BY <1>2, <1>3, <1>4, <1>6 DEF IdsOf
<1>8. Unique(doc')
  BY <1>2, <1>3, <1>4, <1>5 DEF Unique
<1>9. ASSUME doc'.active = doc.active
      PROVE  ValOf(doc', doc.active) = ValOf(doc, doc.active)
  <2>1. doc'.active \in IdsOf(doc')
    BY DeleteSound DEF Sound
  <2>2. PICK k \in DOMAIN list : list[k].id = doc.active
    BY <1>4, <1>9, <2>1 DEF IdsOf
  <2>3. from(k) \in DOMAIN doc.list /\ list[k] = doc.list[from(k)]
    BY <1>2, <1>3, <1>5, <2>2
  <2>4. ValOf(doc, doc.active) = list[k].val
    BY <2>2, <2>3, ValOfUnique
  <2>5. ValOf(doc', doc.active) = list[k].val
    BY <1>4, <1>8, <2>2, ValOfUnique
  <2> QED
    BY <2>4, <2>5
<1> QED
  BY <1>7, <1>8, <1>9
-----------------------------------------------------------------------------
(***************************************************************************)
(* The store on flash and the document of the operation in progress.        *)
(***************************************************************************)
(* Until it is changed, the document is the store on flash.                 *)
Applying == at \in {"enter", "wait", "leave", "open", "close"} /\ op.kind = "apply"
Loaded   == at = "operate" \/ Applying => doc = store

(* What is about to be written has every profile of the store, but the      *)
(* deleted one; a store that loadStore made replaces none.                  *)
Ahead ==
    at \in {"tmp", "remove"} =>
      /\ store # Missing
      /\ \/ IdsOf(store) \subseteq IdsOf(doc)
         \/ op.kind = "delete" /\ IdsOf(store) \ IdsOf(doc) \subseteq {op.id}
Gone    == at \in {"rename", "made", "madeRemove", "madeRename"} => store = Missing
Written == at \in {"remove", "rename", "madeRemove", "madeRename"} => tmp = doc

AllUnique == \A d \in {store, tmp, doc} \ {Missing} : Unique(d)
StoreInv  == Loaded /\ Ahead /\ Gone /\ Written /\ AllUnique

LEMMA SoundIsThere == \A d : Sound(d) => d # Missing
BY MissingAssumption DEF Sound

LEMMA OperationStore ==
    ASSUME ProfilesInv, StoreInv, Load \/ Create \/ Sync \/ Rename \/ Delete \/ Apply \/ Refused
    PROVE  StoreInv'
<1>1. at \in {"load", "operate"} /\ cfg \in Settings /\ op.id \in Ids
  <2>1. at \in {"load", "operate"}
    BY DEF Load, Create, Sync, Rename, Delete, Apply, Refused
  <2> QED
    BY <2>1 DEF ProfilesInv, PlacesOK, TornOnlyInside
<1>2. at = "operate" => /\ Sound(doc) /\ doc = store /\ store # Missing
                        /\ Unique(doc)
  BY SoundIsThere DEF ProfilesInv, DocumentLoaded, StoreInv, Loaded, AllUnique
<1> USE DEF StoreInv, Loaded, Applying, Ahead, Gone, Written, AllUnique, files
<1>3. CASE Load
  <2>1. CASE store = Missing
    <3>1. doc' = DefaultStore /\ at' = "made" /\ UNCHANGED <<store, tmp, op>>
      BY <1>3, <2>1 DEF Load
    <3>2. Unique(DefaultStore)
      BY DEF Unique, DefaultStore
    <3> QED
      BY <2>1, <3>1, <3>2
  <2>2. CASE store # Missing
    <3>1. store.active \in IdsOf(store)
      BY <2>2 DEF ProfilesInv, StoresSound, Sound
    <3> QED
      BY <1>3, <2>2, <3>1 DEF Load
  <2> QED
    BY <2>1, <2>2
<1>4. CASE Create
  <2>1. IdsOf(doc) \subseteq IdsOf(doc') /\ Unique(doc')
    <3>1. doc'.list = Append(doc.list, [id |-> op.id, val |-> cfg])
      BY <1>4 DEF Create
    <3> QED
      BY <1>1, <1>2, <1>4, <3>1, AppendProfileProperties DEF Create
  <2> QED
    BY <1>2, <1>4, <2>1 DEF Create
<1>5. CASE Sync
  <2>1. IdsOf(doc') = IdsOf(doc) /\ Unique(doc')
    <3>1. doc.active \in IdsOf(doc)
      BY <1>2, <1>5 DEF Sync, Sound
    <3> QED
      BY <1>1, <1>2, <1>5, <3>1, WithValProperties DEF Sync
  <2> QED
    BY <1>2, <1>5, <2>1 DEF Sync
<1>6. CASE Rename
  BY <1>2, <1>6 DEF Rename
<1>7. CASE Delete
  <2>1. IdsOf(doc) \ IdsOf(doc') \subseteq {op.id} /\ Unique(doc')
    BY <1>2, <1>7, DeleteProperties DEF Delete
  <2> QED
    BY <1>2, <1>7, <2>1 DEF Delete
<1>8. CASE Apply
  BY <1>2, <1>8 DEF Apply
<1>9. CASE Refused
  BY <1>9 DEF Refused, End
<1> QED
  BY <1>3, <1>4, <1>5, <1>6, <1>7, <1>8, <1>9

LEMMA SettingsStore ==
    ASSUME ProfilesInv, StoreInv, WebEnter \/ WebBegin \/ WebLeave \/ WebOpen \/ WebClose
    PROVE  StoreInv'
<1> USE DEF StoreInv, Loaded, Applying, Ahead, Gone, Written, AllUnique, files
<1>1. CASE WebEnter
  BY <1>1 DEF WebEnter
<1>2. CASE WebBegin
  BY <1>2 DEF WebBegin
<1>3. CASE WebLeave
  BY <1>3 DEF WebLeave
<1>4. CASE WebOpen
  <2>1. CASE at' = "close" /\ UNCHANGED <<doc, op>>
    BY <1>4, <2>1 DEF WebOpen
  <2>2. CASE End
    BY <1>4, <2>2 DEF WebOpen, End
  <2> QED
    BY <1>4, <2>1, <2>2 DEF WebOpen
<1>5. CASE WebClose
  <2>1. CASE op.kind = "apply"
    <3>1. /\ doc' = [doc EXCEPT !.active = op.id] /\ at' = "tmp" /\ op' = op
          /\ UNCHANGED <<store, tmp>> /\ at = "close"
      BY <1>5, <2>1 DEF WebClose
    <3>2. Sound(doc) /\ doc = store /\ store # Missing /\ Unique(doc)
      BY <2>1, <3>1, SoundIsThere DEF ProfilesInv, DocumentLoaded
    <3>3. doc'.list = doc.list
      BY <3>1, <3>2, SoundFields
    <3>4. IdsOf(doc') = IdsOf(doc) /\ Unique(doc')
      BY <3>2, <3>3, SameList
    <3> QED
      BY <3>1, <3>2, <3>4
  <2>2. CASE op.kind # "apply"
    BY <1>5, <2>2 DEF WebClose
  <2> QED
    BY <2>1, <2>2
<1> QED
  BY <1>1, <1>2, <1>3, <1>4, <1>5

LEMMA WritingStore ==
    ASSUME ProfilesInv, StoreInv, WriteTmp \/ RemoveStore \/ RenameTmp
    PROVE  StoreInv'
<1>1. /\ at \in {"tmp", "made", "remove", "madeRemove", "rename", "madeRename"}
      /\ Sound(doc) /\ doc # Missing /\ Unique(doc)
  <2>1. at \in {"tmp", "made", "remove", "madeRemove", "rename", "madeRename"}
    BY DEF WriteTmp, RemoveStore, RenameTmp
  <2> QED
    BY <2>1, SoundIsThere DEF ProfilesInv, DocumentLoaded, StoreInv, AllUnique
<1> USE DEF StoreInv, Loaded, Applying, Ahead, Gone, Written, AllUnique, files
<1>2. CASE WriteTmp
  <2>1. CASE /\ tmp' = doc /\ UNCHANGED <<doc, op, booted, events>>
             /\ at' = IF at = "tmp" THEN "remove" ELSE "madeRemove"
    BY <1>1, <1>2, <2>1 DEF WriteTmp
  <2>2. CASE End /\ tmp' \in {tmp, Missing}
    BY <1>2, <2>2 DEF WriteTmp, End
  <2> QED
    BY <1>2, <2>1, <2>2 DEF WriteTmp
<1>3. CASE RemoveStore
  BY <1>3 DEF RemoveStore
<1>4. CASE RenameTmp
  <2>1. tmp = doc /\ tmp' = Missing /\ store' \in {store, tmp}
    BY <1>4 DEF RenameTmp
  <2>2. CASE End
    BY <2>1, <2>2 DEF End
  <2>3. CASE at' = "operate" /\ store' = tmp /\ UNCHANGED <<doc, op, booted>>
    BY <1>1, <2>1, <2>3
  <2> QED
    BY <1>4, <2>2, <2>3 DEF RenameTmp
<1> QED
  BY <1>2, <1>3, <1>4

LEMMA NextStoreInv == ProfilesInv /\ StoreInv /\ [Next]_vars => StoreInv'
<1> SUFFICES ASSUME ProfilesInv, StoreInv, [Next]_vars PROVE StoreInv'
  OBVIOUS
<1> USE DEF StoreInv, Loaded, Applying, Ahead, Gone, Written, AllUnique, files
<1>1. CASE UNCHANGED <<store, tmp, doc, op, at>>
  BY <1>1
<1>2. CASE MainLoop \/ RememberWifiAp \/ MqttEnter \/ MqttStep \/ UNCHANGED vars
  BY <1>1, <1>2 DEF MainLoop, RememberWifiAp, MqttEnter, MqttStep, MqttSet, MqttOpen,
     MqttClose, MqttLeave, vars
<1>3. CASE Crash
  BY <1>3 DEF Crash
<1>4. ASSUME NEW r \in Requests, Request(r) PROVE StoreInv'
  BY <1>4 DEF Request
<1> QED
  BY <1>2, <1>3, <1>4, OperationStore, SettingsStore, WritingStore DEF Next, WebStep

LEMMA StoreInvAlways == Spec => []StoreInv
<1>1. Init => StoreInv
  BY DEF Init, StoreInv, Loaded, Applying, Ahead, Gone, Written, AllUnique
<1> QED
  BY <1>1, NextStoreInv, ProfilesInvAlways, PTL DEF Spec
(* The steps that write nothing of the store.                               *)
LEMMA FlashUntouched ==
    ASSUME [Next]_vars, ~WriteTmp, ~RemoveStore, ~RenameTmp
    PROVE  UNCHANGED <<store, tmp>>
<1>1. CASE Load \/ Create \/ Sync \/ Rename \/ Delete \/ Apply \/ Refused
  BY <1>1 DEF Load, Create, Sync, Rename, Delete, Apply, Refused, files
<1>2. CASE WebEnter \/ WebBegin \/ WebLeave \/ WebOpen \/ WebClose
  BY <1>2 DEF WebEnter, WebBegin, WebLeave, WebOpen, WebClose, files
<1>3. CASE MainLoop \/ RememberWifiAp \/ MqttEnter \/ MqttStep \/ UNCHANGED vars
  BY <1>3 DEF MainLoop, RememberWifiAp, MqttEnter, MqttStep, MqttSet, MqttOpen,
     MqttClose, MqttLeave, vars, files
<1>4. CASE Crash \/ \E r \in Requests : Request(r)
  BY <1>4 DEF Crash, Request, files
<1> QED
  BY <1>1, <1>2, <1>3, <1>4 DEF Next, WebStep

(* A profile leaves the flash only when it is deleted, when the renaming of *)
(* the temporary file fails, or when loadStore found no store after a power *)
(* failure at that point; writing the store loses none otherwise, whatever  *)
(* operation it is for and wherever the power fails.                        *)
THEOREM ProfilesKeptCorrect == Spec => ProfilesKept
<1> DEFINE Kept ==
      \/ OnFlash \subseteq OnFlash'
      \/ op.kind = "delete" /\ OnFlash \ OnFlash' = {op.id}
      \/ at \in {"rename", "madeRename"} /\ store' = Missing
      \/ at = "made" /\ store = Missing
<1>1. ASSUME ProfilesInv, StoreInv, [Next]_vars PROVE Kept
  <2> USE DEF StoreInv, Ahead, Gone, Written
  <2>1. CASE WriteTmp
    <3>1. (at = "tmp" /\ store # Missing) \/ (at = "made" /\ store = Missing)
      BY <1>1, <2>1 DEF WriteTmp
    <3>2. store' = store
      BY <1>1, <2>1 DEF WriteTmp
    <3> QED
      BY <3>1, <3>2 DEF OnFlash, IdsOf
  <2>2. CASE RemoveStore
    <3>1. tmp = doc /\ tmp' = tmp /\ tmp # Missing /\ store' = Missing
      BY <1>1, <2>2, SoundIsThere DEF RemoveStore, ProfilesInv, DocumentLoaded
    <3>2. OnFlash' = IdsOf(doc)
      BY <3>1 DEF OnFlash, IdsOf
    <3>3. CASE at = "remove"
      <4>1. OnFlash = IdsOf(store)
        BY <1>1, <3>3 DEF OnFlash
      <4> QED
        BY <1>1, <3>2, <3>3, <4>1
    <3>4. CASE at = "madeRemove"
      BY <1>1, <3>1, <3>2, <3>4 DEF OnFlash
    <3> QED
      BY <1>1, <2>2, <3>3, <3>4 DEF RemoveStore
  <2>3. CASE RenameTmp
    <3>1. /\ at \in {"rename", "madeRename"} /\ store = Missing
          /\ store' = tmp \/ store' = Missing
      BY <1>1, <2>3 DEF RenameTmp
    <3> QED
      BY <3>1 DEF OnFlash, IdsOf
  <2>4. CASE UNCHANGED <<store, tmp>>
    BY <2>4 DEF OnFlash, IdsOf
  <2> QED
    BY <1>1, <2>1, <2>2, <2>3, <2>4, FlashUntouched
<1>2. ProfilesInv /\ StoreInv /\ [Next]_vars => [Kept]_vars
  BY <1>1
<1> QED
  BY <1>2, ProfilesInvAlways, StoreInvAlways, PTL DEF Spec, ProfilesKept
-----------------------------------------------------------------------------
(***************************************************************************)
(* The active profile and what is in force.                                 *)
(***************************************************************************)
Drift      == "drift" \in events
Current(d) == ValOf(d, d.active) = cfg

(* The active profile holds what is in force, or "drift" is noted: that of  *)
(* the store while nothing changes, that of the document when it is about   *)
(* to be written; and so does the profile being applied, once it is.        *)
StoreCurrent ==
    at \in {"idle", "load", "operate", "enter", "wait"} /\ store # Missing
      => Drift \/ Current(store)
AppliedCurrent ==
    at \in {"open", "close"} => Drift \/ (op.kind = "apply" /\ ValOf(doc, op.id) = cfg)
DocCurrent ==
    at \in {"tmp", "remove", "rename", "made", "madeRemove", "madeRename"}
      => Drift \/ Current(doc)
ForceInv == StoreCurrent /\ AppliedCurrent /\ DocCurrent

(* A step that leaves all of them alone, or notes a drift.                  *)
LEMMA ForceUntouched ==
    ASSUME ForceInv, Drift' \/ (UNCHANGED <<cfg, store, doc, op>> /\ (Drift => Drift')),
           Drift' \/ at' = at
    PROVE  ForceInv'
BY DEF ForceInv, StoreCurrent, AppliedCurrent, DocCurrent, Current, ValOf

LEMMA OperationForce ==
    ASSUME ProfilesInv, StoreInv, ForceInv,
           Load \/ Create \/ Sync \/ Rename \/ Delete \/ Apply \/ Refused
    PROVE  ForceInv'
<1>1. /\ at \in {"load", "operate"} /\ cfg \in Settings /\ op.id \in Ids
      /\ UNCHANGED <<store, cfg>>
  <2>1. at \in {"load", "operate"} /\ UNCHANGED <<store, cfg>>
    BY DEF Load, Create, Sync, Rename, Delete, Apply, Refused, files
  <2> QED
    BY <2>1 DEF ProfilesInv, PlacesOK, TornOnlyInside
<1>2. at = "operate" => /\ Sound(doc) /\ doc = store /\ store # Missing
                        /\ Unique(doc) /\ doc.active \in IdsOf(doc)
                        /\ (Drift \/ Current(doc))
  BY SoundIsThere DEF ProfilesInv, DocumentLoaded, StoreInv, Loaded, AllUnique, Sound,
     ForceInv, StoreCurrent
<1> USE DEF ForceInv, StoreCurrent, AppliedCurrent, DocCurrent
<1>3. CASE Load
  <2>1. CASE store = Missing
    <3>1. doc' = DefaultStore /\ at' = "made"
      BY <1>3, <2>1 DEF Load
    <3>2. ValOf(DefaultStore, DefaultStore.active) = cfg
      <4>1. /\ DefaultStore.active = DefaultId /\ DOMAIN DefaultStore.list = {1}
            /\ DefaultStore.list[1].id = DefaultId /\ DefaultStore.list[1].val = cfg
        BY DEF DefaultStore
      <4> QED
        BY <4>1 DEF ValOf
    <3>3. Current(doc)'
      BY <1>1, <3>1, <3>2 DEF Current
    <3> QED
      BY <3>1, <3>3
  <2>2. CASE store # Missing
    <3>1. store.active \in IdsOf(store)
      BY <2>2 DEF ProfilesInv, StoresSound, Sound
    <3>2. at' = "operate" /\ (Drift' <=> Drift) /\ (Drift \/ Current(store))
      BY <1>1, <1>3, <2>2, <3>1 DEF Load, Drift
    <3> QED
      BY <1>1, <3>2 DEF Current
  <2> QED
    BY <2>1, <2>2
<1>4. ASSUME Create \/ Sync PROVE Current(doc)'
  <2>1. ASSUME Create PROVE Current(doc)'
    <3>1. doc'.list = Append(doc.list, [id |-> op.id, val |-> cfg]) /\ doc'.active = op.id
      BY <2>1 DEF Create
    <3>2. at = "operate" /\ op.id \notin IdsOf(doc)
      BY <2>1 DEF Create
    <3>3. ValOf(doc', op.id) = cfg
      BY <1>1, <1>2, <3>1, <3>2, AppendProfileProperties
    <3> QED
      BY <1>1, <3>1, <3>3 DEF Current
  <2>2. ASSUME Sync PROVE Current(doc)'
    <3>1. ValOf(doc', doc.active) = cfg /\ doc'.active = doc.active
      BY <1>1, <1>2, <2>2, WithValProperties DEF Sync
    <3> QED
      BY <1>1, <3>1 DEF Current
  <2> QED
    BY <1>4, <2>1, <2>2
<1>5. CASE Create \/ Sync
  BY <1>4, <1>5 DEF Create, Sync
<1>6. CASE Rename
  BY <1>1, <1>2, <1>6 DEF Rename, Current, Drift
<1>7. CASE Delete
  <2>1. at' = "tmp" /\ (Drift => Drift') /\ (doc'.active # doc.active => Drift')
    BY <1>7 DEF Delete, Drift
  <2>2. doc'.active = doc.active => ValOf(doc', doc.active) = ValOf(doc, doc.active)
    BY <1>2, <1>7, DeleteProperties DEF Delete
  <2>3. Drift' \/ Current(doc)'
    BY <1>1, <1>2, <1>7, <2>1, <2>2 DEF Delete, Current
  <2> QED
    BY <2>1, <2>3
<1>8. CASE Apply \/ Refused
  <2>1. at' \in {"enter", "idle"} /\ (Drift' <=> Drift) /\ (Drift \/ Current(store))
    BY <1>2, <1>8 DEF Apply, Refused, End, Drift
  <2> QED
    BY <1>1, <2>1 DEF Current
<1> QED
  BY <1>3, <1>5, <1>6, <1>7, <1>8

LEMMA SettingsForce ==
    ASSUME ProfilesInv, StoreInv, ForceInv,
           WebEnter \/ WebBegin \/ WebLeave \/ WebOpen \/ WebClose
    PROVE  ForceInv'
<1> USE DEF ForceInv, StoreCurrent, AppliedCurrent, DocCurrent
<1>1. CASE WebEnter
  <2>1. at = "enter" /\ at' = "wait" /\ UNCHANGED <<store, cfg>> /\ (Drift' <=> Drift)
    BY <1>1 DEF WebEnter, EnterAs, Drift, files
  <2> QED
    BY <2>1 DEF Current
<1>2. CASE WebBegin
  BY <1>2 DEF WebBegin
<1>3. CASE WebLeave
  <2>1. at' = "open" /\ UNCHANGED <<doc, op>>
    BY <1>3 DEF WebLeave
  <2>2. Drift' \/ (op.kind = "apply" /\ cfg' = ValOf(doc, op.id))
    BY <1>3 DEF WebLeave, Drift
  <2> QED
    BY <2>1, <2>2
<1>4. CASE WebOpen
  <2>1. CASE OpenFile(Web) /\ at' = "close" /\ UNCHANGED <<file, doc, op, booted>>
    <3>1. at = "open" /\ cfg' = cfg /\ (Drift' <=> Drift)
      BY <1>4, <2>1 DEF WebOpen, OpenFile, Drift
    <3> QED
      BY <2>1, <3>1
  <2>2. CASE Drift'
    BY <2>2
  <2> QED
    BY <1>4, <2>1, <2>2 DEF WebOpen, Drift
<1>5. CASE WebClose
  <2>1. at = "close" /\ UNCHANGED <<cfg, store>> /\ (Drift' <=> Drift)
    BY <1>5 DEF WebClose, Drift
  <2>2. CASE op.kind = "apply"
    <3>1. Sound(doc) /\ doc' = [doc EXCEPT !.active = op.id] /\ at' = "tmp"
      BY <1>5, <2>1, <2>2 DEF WebClose, ProfilesInv, DocumentLoaded
    <3>2. doc'.list = doc.list /\ doc'.active = op.id
      BY <3>1, SoundFields
    <3>3. ValOf(doc', op.id) = ValOf(doc, op.id)
      BY <3>2, SameList
    <3> QED
      BY <2>1, <3>1, <3>2, <3>3 DEF Current
  <2>3. CASE op.kind # "apply"
    <3>1. Drift /\ at' = "load"
      BY <1>5, <2>1, <2>3 DEF WebClose
    <3> QED
      BY <2>1, <3>1
  <2> QED
    BY <2>2, <2>3
<1> QED
  BY <1>1, <1>2, <1>3, <1>4, <1>5

LEMMA WritingForce ==
    ASSUME StoreInv, ForceInv, WriteTmp \/ RemoveStore \/ RenameTmp
    PROVE  ForceInv'
<1> USE DEF ForceInv, StoreCurrent, AppliedCurrent, DocCurrent
<1>1. CASE Drift'
  BY <1>1
<1>2. CASE ~Drift'
  <2>1. /\ (Drift' <=> Drift) /\ cfg' = cfg /\ Current(doc)
        /\ \/ /\ at' \in {"remove", "rename", "madeRemove", "madeRename"} /\ doc' = doc
           \/ /\ at \in {"rename", "madeRename"} /\ at' \in {"idle", "operate"} /\ store' = tmp
    BY <1>2 DEF WriteTmp, RemoveStore, RenameTmp, End, Drift
  <2> QED
    BY <2>1 DEF StoreInv, Written, Current
<1> QED
  BY <1>1, <1>2

(* A power failure with nothing in progress loses no setting in force: the  *)
(* file has it.                                                             *)
LEMMA CrashForce ==
    ASSUME ProfilesInv, SavedInv, ForceInv, Crash
    PROVE  ForceInv'
<1> USE DEF ForceInv, StoreCurrent, AppliedCurrent, DocCurrent
<1>1. CASE Drift'
  BY <1>1
<1>2. CASE ~Drift'
  <2>1. at = "idle" /\ mqtt = "idle" /\ ~Unsaved /\ (Drift' <=> Drift)
    BY <1>2 DEF Crash, Drift, Unsaved
  <2>2. file = cfg /\ cfg # Missing
    BY <2>1, ProfilesAssumption DEF SavedInv, Clean, ProfilesInv, PlacesOK
  <2>3. cfg' = cfg /\ store' = store /\ at' = "load"
    BY <2>2 DEF Crash
  <2> QED
    BY <1>2, <2>1, <2>3 DEF Current
<1> QED
  BY <1>1, <1>2

LEMMA NextForceInv ==
    ProfilesInv /\ SavedInv /\ StoreInv /\ ForceInv /\ [Next]_vars => ForceInv'
<1> SUFFICES ASSUME ProfilesInv, SavedInv, StoreInv, ForceInv, [Next]_vars PROVE ForceInv'
  OBVIOUS
<1>1. CASE MainLoop \/ RememberWifiAp \/ MqttEnter
  <2>1. UNCHANGED <<cfg, store, doc, op, at>> /\ (Drift' <=> Drift)
    BY <1>1 DEF MainLoop, RememberWifiAp, MqttEnter, EnterAs, files, Drift
  <2> QED
    BY <2>1, ForceUntouched
<1>2. CASE MqttStep
  <2>1. /\ Drift' \/ (UNCHANGED <<cfg, store, doc, op>> /\ (Drift => Drift'))
        /\ at' = at
    BY <1>2 DEF MqttStep, MqttSet, MqttOpen, MqttClose, MqttLeave, OpenFile, files, Drift
  <2> QED
    BY <2>1, ForceUntouched
<1>3. ASSUME NEW r \in Requests, Request(r) PROVE ForceInv'
  <2>1. /\ at = "idle" /\ at' \in {"enter", "load"} /\ UNCHANGED <<cfg, store>>
        /\ (Drift' <=> Drift)
    BY <1>3 DEF Request, files, Drift
  <2> QED
    BY <2>1 DEF ForceInv, StoreCurrent, AppliedCurrent, DocCurrent, Current
<1>4. CASE UNCHANGED vars
  BY <1>4, ForceUntouched DEF vars, files, Drift
<1> QED
  BY <1>1, <1>2, <1>3, <1>4, OperationForce, SettingsForce, WritingForce, CrashForce
     DEF Next, WebStep

LEMMA ForceInvAlways == Spec => []ForceInv
<1>1. Init => ForceInv
  BY DEF Init, ForceInv, StoreCurrent, AppliedCurrent, DocCurrent
<1> QED
  BY <1>1, NextForceInv, ProfilesInvAlways, SavedInvAlways, StoreInvAlways, PTL DEF Spec

(* With nothing in progress, the active profile holds what is in force, but *)
(* where the code lets them part: MQTT changed a setting, the active        *)
(* profile was deleted, or a write or the power failed since the last       *)
(* create, apply or save.                                                   *)
THEOREM ActiveInForceCorrect == Spec => []ActiveInForce
<1>1. ForceInv => ActiveInForce
  BY DEF ForceInv, StoreCurrent, Drift, Current, ActiveInForce, Quiet
<1> QED
  BY <1>1, ForceInvAlways, PTL
=============================================================================
