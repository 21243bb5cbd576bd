------------------------ MODULE HoymilesRadioProofs ------------------------
(***************************************************************************)
(* Theorems about HoymilesRadio, for any number of commands, inverters and *)
(* tasks, whatever the tasks send, on either radio.                        *)
(***************************************************************************)
EXTENDS HoymilesRadio, CommandQueueTheorems

(* The variables' types, part by part, as the proofs use them.             *)
LEMMA ObjectTypes ==
    ASSUME TypeOK
    PROVE  /\ Unused \in Objects
           /\ \A alive : Destroy(obj, alive) \in [Cmds -> Objects]
           /\ \A c \in Cmds : obj[c].inv \in Inverters \cup {NoCmd}
           /\ queue # <<>> => Head(queue) \in Cmds
           /\ Pop(queue) \in Seq(Cmds)
           /\ \A t \in Tasks : call[t] # Idle => call[t].cmd \in Cmds
<1>1. Unused \in Objects
  BY DEF Unused, Objects
<1>2. \A alive : Destroy(obj, alive) \in [Cmds -> Objects]
  BY <1>1 DEF TypeOK, Destroy
<1>3. \A c \in Cmds : obj[c].inv \in Inverters \cup {NoCmd}
  BY DEF TypeOK, Objects
<1>4. queue # <<>> => Head(queue) \in Cmds
  BY HeadTailProperties DEF TypeOK
<1>5. Pop(queue) \in Seq(Cmds)
  BY HeadTailProperties, EmptySeq DEF TypeOK, Pop
<1>6. \A t \in Tasks : call[t] # Idle => call[t].cmd \in Cmds
  BY DEF TypeOK, Calls
<1> QED BY <1>1, <1>2, <1>3, <1>4, <1>5, <1>6

(* Both removals turn a queue of commands into a queue of commands.        *)
LEMMA RemoveTypes ==
    ASSUME NEW q \in Seq(Cmds), NEW cs, NEW preserveFront
    PROVE  /\ RemoveDuplicatedEntries(q, cs, preserveFront) \in Seq(Cmds)
           /\ RemoveAllEntries(q, cs) \in Seq(Cmds)
  BY KeepAtProperties DEF RemoveDuplicatedEntries, RemoveAllEntries

(* The types hold at the start.                                            *)
LEMMA InitTypeOK == Init => TypeOK
<1> SUFFICES ASSUME Init PROVE TypeOK
  OBVIOUS
<1>1. queue \in Seq(Cmds)
  BY EmptySeq DEF Init
<1>2. obj \in [Cmds -> Objects]
  BY DEF Init, Objects, Unused
<1>3. call \in [Tasks -> Calls]
  BY DEF Init, Calls
<1>4. /\ limitStatus \in [Inverters -> Statuses]
      /\ powerStatus \in [Inverters -> Statuses]
      /\ rx \in [Inverters -> {"none", "part", "mixed", "data", "dev"}]
      /\ owed \in [Inverters -> SUBSET {"data", "dev"}]
  BY DEF Init, Statuses
<1>5. retransmits \in [Inverters -> 0 .. MaxRetransmit]
  BY RadioAssumption DEF Init
<1>6. /\ busy \in BOOLEAN /\ pc = "idle" /\ cur = NoCmd /\ known = Inverters
      /\ removing \in Removals
  BY DEF Init, Removals
<1> QED BY <1>1, <1>2, <1>3, <1>4, <1>5, <1>6 DEF TypeOK

(* A command that succeeds or fails writes a status, of a known value.     *)
LEMMA StatusTypes ==
    ASSUME TypeOK, NEW c, HandleSuccess(c) \/ GotTimeout(c)
    PROVE  /\ limitStatus' \in [Inverters -> Statuses]
           /\ powerStatus' \in [Inverters -> Statuses]
  BY DEF TypeOK, HandleSuccess, GotTimeout, ApplyLimit, ApplyPowerState, Statuses

(* A transmission keeps the types of what it changes.                      *)
LEMMA TransmitTypes ==
    ASSUME TypeOK, NEW c, Transmit(c)
    PROVE  /\ obj' \in [Cmds -> Objects]
           /\ owed' \in [Inverters -> SUBSET {"data", "dev"}]
<1>1. obj' \in [Cmds -> Objects]
  <2>1. obj \in [Cmds -> Objects]
    BY DEF TypeOK
  <2>2. ASSUME NEW o \in Objects, NEW n \in Nat
        PROVE  [o EXCEPT !.sends = n] \in Objects
    BY DEF Objects
  <2> DEFINE n == IF obj[c].sends > MaxResend[obj[c].kind]
                  THEN obj[c].sends ELSE obj[c].sends + 1
  <2>3. obj' = [obj EXCEPT ![c].sends = n]
    BY DEF Transmit
  <2>4. c \in Cmds => n \in Nat
    BY <2>1 DEF Objects
  <2> HIDE DEF n
  <2> QED BY <2>1, <2>2, <2>3, <2>4
<1>2. owed' \in [Inverters -> SUBSET {"data", "dev"}]
  BY DEF TypeOK, Transmit, AnswerOf
<1> QED BY <1>1, <1>2
-----------------------------------------------------------------------------
(* A request that begins keeps the types.                                  *)
LEMMA RequestTypeOK ==
    ASSUME TypeOK, NEW t \in Tasks, NEW r \in MaySend[t], Request(t, r[1], r[2])
    PROVE  TypeOK'
<1>1. r[1] \in Kinds /\ r[2] \in Inverters
  BY RadioAssumption
<1>2. PICK c \in Cmds :
        /\ obj' = [obj EXCEPT ![c] = [kind |-> r[1], inv |-> r[2], sends |-> 0]]
        /\ call' = [call EXCEPT ![t] =
              [step |-> IF r[1] \in RemoveNewest THEN "insert" ELSE "status",
               cmd |-> c, front |-> FALSE]]
  BY DEF Request
<1>3. obj' \in [Cmds -> Objects]
  BY <1>1, <1>2 DEF TypeOK, Objects
<1>4. call' \in [Tasks -> Calls]
  BY <1>2 DEF TypeOK, Calls
<1> QED BY <1>3, <1>4 DEF TypeOK, Request, radioVars, inverterVars

(* Each step of enqueCommand keeps the types.                              *)
LEMMA TaskStepTypeOK ==
    ASSUME TypeOK, NEW t \in Tasks, TaskStep(t)
    PROVE  TypeOK'
<1> DEFINE c == call[t].cmd
<1>1. call[t] \in [step : {"status", "insert", "remove", "push", "place"},
                    cmd : Cmds, front : BOOLEAN]
  BY DEF TypeOK, Calls, TaskStep, SetPending, ReadBusy, InsertRemoveOldest,
         InsertRemoveNewest, Push, Idle
<1>2. c \in Cmds /\ call[t].front \in BOOLEAN
  BY <1>1
<1>3. \A s \in {"insert", "push"} : [call EXCEPT ![t].step = s] \in [Tasks -> Calls]
  BY <1>1 DEF TypeOK, Calls
<1>4. [call EXCEPT ![t] = Idle] \in [Tasks -> Calls]
  BY DEF TypeOK, Calls
<1>9. CASE ReadBusy(t)
  <2>1. \A s \in {"remove", "place"} :
           [call EXCEPT ![t] = [step |-> s, cmd |-> c, front |-> busy]] \in [Tasks -> Calls]
    BY <1>2 DEF TypeOK, Calls
  <2>2. call' \in [Tasks -> Calls]
    BY <1>9, <2>1 DEF ReadBusy
  <2> QED BY <1>9, <2>2 DEF ReadBusy, TypeOK, radioVars, inverterVars
<1>5. CASE SetPending(t)
  <2>1. /\ limitStatus' \in [Inverters -> Statuses]
        /\ powerStatus' \in [Inverters -> Statuses]
    BY <1>5 DEF SetPending, TypeOK, Statuses
  <2>2. call' \in [Tasks -> Calls]
    BY <1>3, <1>5 DEF SetPending
  <2> QED BY <1>5, <2>1, <2>2 DEF SetPending, TypeOK, radioVars
<1>6. CASE InsertRemoveOldest(t)
  <2>1. queue' \in Seq(Cmds) /\ obj' \in [Cmds -> Objects]
    BY <1>6, RemoveTypes, ObjectTypes DEF InsertRemoveOldest, TypeOK
  <2>2. call' \in [Tasks -> Calls]
    BY <1>3, <1>6 DEF InsertRemoveOldest
  <2> QED BY <1>6, <2>1, <2>2 DEF InsertRemoveOldest, TypeOK, radioVars, inverterVars
<1>7. CASE InsertRemoveNewest(t)
  <2>1. obj' \in [Cmds -> Objects]
    BY <1>7, ObjectTypes DEF InsertRemoveNewest, TypeOK
  <2>2. call' \in [Tasks -> Calls]
    BY <1>3, <1>4, <1>7 DEF InsertRemoveNewest
  <2> QED BY <1>7, <2>1, <2>2 DEF InsertRemoveNewest, TypeOK, radioVars, inverterVars
<1>8. CASE Push(t)
  <2> DEFINE front == call[t].front
  <2>1. queue \in Seq(Cmds) /\ front \in BOOLEAN
    BY <1>2 DEF TypeOK
  <2> HIDE DEF c, front
  <2>2. InsertPosition(queue, Highs, front) \in 1 .. Len(queue) + 1
    BY <2>1, InsertPositionProperties, LenProperties DEF FirstFree
  <2>3. PushPriority(queue, c, Highs, front) \in Seq(Cmds)
    BY <1>2, <2>1, <2>2, InsertAtProperties DEF PushPriority
  <2>4. Append(queue, c) \in Seq(Cmds)
    BY <1>2, <2>1, AppendProperties
  <2>5. queue' \in Seq(Cmds)
    BY <1>8, <2>3, <2>4 DEF Push, c, front
  <2>6. call' \in [Tasks -> Calls]
    BY <1>4, <1>8 DEF Push
  <2> QED BY <1>8, <2>5, <2>6 DEF Push, TypeOK, radioVars, inverterVars
<1> QED BY <1>5, <1>6, <1>7, <1>8, <1>9 DEF TaskStep

(* Each step of the main loop up to the end of a transmission keeps them.  *)
LEMMA RadioStepTypeOK ==
    ASSUME TypeOK, CheckQueue \/ Tx \/ EndTxAgain \/ Removal
    PROVE  TypeOK'
<1>1. CASE CheckQueue
  BY <1>1 DEF CheckQueue, TypeOK, inverterVars
<1>2. CASE TxInvalidInverter
  BY <1>2, ObjectTypes DEF TxInvalidInverter, TypeOK, inverterVars
<1>3. CASE BeginTx
  <2> DEFINE c == Head(queue)  i == obj[c].inv
  <2>1. c \in Cmds
    BY <1>3, ObjectTypes DEF BeginTx
  <2>2. /\ obj' \in [Cmds -> Objects]
        /\ owed' \in [Inverters -> SUBSET {"data", "dev"}]
    BY <1>3, TransmitTypes DEF BeginTx
  <2>3. /\ rx' \in [Inverters -> {"none", "part", "mixed", "data", "dev"}]
        /\ retransmits' \in [Inverters -> 0 .. MaxRetransmit]
    BY <1>3, RadioAssumption DEF BeginTx, TypeOK
  <2> QED BY <1>3, <2>1, <2>2, <2>3 DEF BeginTx, TypeOK
<1>4. CASE EndTxAwaitAnswer
  BY <1>4, ObjectTypes DEF EndTxAwaitAnswer, TypeOK, inverterVars
<1>5. CASE EndTxAgain
  BY <1>5, TransmitTypes DEF EndTxAgain, TypeOK, radioVars
<1>6. CASE EndTxComplete
  BY <1>6, StatusTypes DEF EndTxComplete, TypeOK
<1>7. CASE PopFinished
  BY <1>7, ObjectTypes DEF PopFinished, PopFront, TypeOK, inverterVars
<1>8. CASE ClearBusy
  BY <1>8 DEF ClearBusy, TypeOK, inverterVars
<1>9. CASE Removal
  <2>1. removing \in [step : {"clear", "erase"}, inv : Inverters]
    BY <1>9 DEF Removal, RemovedFront, EraseInverter, TypeOK, Removals, NoRemoval
  <2>2. removing' \in Removals
    BY <1>9, <2>1 DEF Removal, RemovedFront, EraseInverter, Removals
  <2> QED BY <1>9, <2>2 DEF Removal, RemovedFront, EraseInverter, TypeOK, radioVars
<1> QED BY <1>1, <1>2, <1>3, <1>4, <1>5, <1>6, <1>7, <1>8, <1>9 DEF Tx

(* The end of an rx period keeps them, with each of its outcomes.          *)
LEMMA RxEndTypeOK ==
    ASSUME TypeOK, RxEnd
    PROVE  TypeOK'
<1>1. PICK c \in Cmds : \/ RxInvalidInverter(c) \/ RxResend(c) \/ RxRetransmit(c)
                         \/ RxFail(c) \/ RxSuccess(c)
  BY DEF RxEnd
<1>2. ASSUME Finish(c), /\ limitStatus' \in [Inverters -> Statuses]
                        /\ powerStatus' \in [Inverters -> Statuses]
      PROVE  TypeOK'
  BY <1>2 DEF Finish, TypeOK
<1>3. CASE RxInvalidInverter(c)
  <2>1. UNCHANGED <<limitStatus, powerStatus>> /\ Finish(c)
    BY <1>3 DEF RxInvalidInverter
  <2> QED BY <1>2, <2>1 DEF TypeOK
<1>4. CASE RxResend(c)
  BY <1>4, TransmitTypes DEF RxResend, TypeOK, radioVars
<1>5. CASE RxRetransmit(c)
  <2> DEFINE i == obj[c].inv
  <2>1. i \in Inverters /\ retransmits[i] \in 0 .. MaxRetransmit
        /\ retransmits[i] < MaxRetransmit
    BY <1>5 DEF RxRetransmit, MayRetransmit, TypeOK
  <2>2. retransmits[i] + 1 \in 0 .. MaxRetransmit
    BY <2>1, RadioAssumption
  <2> HIDE DEF i
  <2>3. retransmits' = [retransmits EXCEPT ![i] = retransmits[i] + 1]
    BY <1>5 DEF RxRetransmit, i
  <2>4. retransmits' \in [Inverters -> 0 .. MaxRetransmit]
    BY <2>1, <2>2, <2>3 DEF TypeOK
  <2>5. owed' \in [Inverters -> SUBSET {"data", "dev"}]
    BY <1>5 DEF RxRetransmit, TypeOK
  <2> QED BY <1>5, <2>4, <2>5 DEF RxRetransmit, TypeOK, radioVars
<1>6. CASE RxFail(c)
  BY <1>2, <1>6, StatusTypes DEF RxFail
<1>7. CASE RxSuccess(c)
  BY <1>2, <1>7, StatusTypes DEF RxSuccess
<1> QED BY <1>1, <1>3, <1>4, <1>5, <1>6, <1>7

(* Received frames and the removal of an inverter keep them.               *)
LEMMA InverterStepTypeOK ==
    ASSUME TypeOK, NEW i \in Inverters,
           ReceivePart(i) \/ RemoveCommands(i) \/ \E a \in owed[i] : ReceiveAll(i, a)
    PROVE  TypeOK'
<1>1. CASE ReceivePart(i)
  <2>1. rx' \in [Inverters -> {"none", "part", "mixed", "data", "dev"}]
    BY <1>1 DEF ReceivePart, TypeOK
  <2> QED BY <1>1, <2>1 DEF ReceivePart, TypeOK, radioVars
<1>2. CASE RemoveCommands(i)
  <2>1. queue' \in Seq(Cmds) /\ obj' \in [Cmds -> Objects]
    BY <1>2, RemoveTypes, ObjectTypes DEF RemoveCommands, TypeOK
  <2>2. removing' \in Removals
    BY <1>2 DEF RemoveCommands, Removals
  <2> QED BY <1>2, <2>1, <2>2 DEF RemoveCommands, TypeOK, radioVars
<1>3. ASSUME NEW a \in owed[i], ReceiveAll(i, a) PROVE TypeOK'
  <2>1. a \in {"data", "dev"}
    BY <1>3 DEF TypeOK
  <2>2. /\ rx' \in [Inverters -> {"none", "part", "mixed", "data", "dev"}]
        /\ owed' \in [Inverters -> SUBSET {"data", "dev"}]
    BY <1>3, <2>1 DEF ReceiveAll, TypeOK
  <2> QED BY <1>3, <2>2 DEF ReceiveAll, TypeOK, radioVars
<1> QED BY <1>1, <1>2, <1>3

(* A stuttering step keeps them.                                           *)
LEMMA StutterTypeOK == TypeOK /\ UNCHANGED vars => TypeOK'
  BY DEF TypeOK, vars

(* Every variable of the radio keeps its type: no pointer leaves the heap, *)
(* no status or buffer takes a value the code does not know, and the       *)
(* retransmission count stays within its limit.                            *)
THEOREM TypeCorrect == Spec => []TypeOK
<1>1. TypeOK /\ [Next]_vars => TypeOK'
  BY RequestTypeOK, TaskStepTypeOK, RadioStepTypeOK, RxEndTypeOK,
     InverterStepTypeOK, StutterTypeOK
  DEF Next
<1> QED BY <1>1, InitTypeOK, PTL DEF Spec
-----------------------------------------------------------------------------
(***************************************************************************)
(* Who holds which command.                                                *)
(***************************************************************************)
Calling == {t \in Tasks : call[t] # Idle}
Called == {call[t].cmd : t \in Calling}

(* A command is in the queue once, or in one task's hands, or neither; and *)
(* where it is held it is one of the kinds the program sends, for an       *)
(* inverter.                                                               *)
OwnedInv ==
    /\ \A t \in Calling : call[t].cmd \notin Queued /\ call[t].cmd # cur
    /\ \A t, u \in Calling : call[t].cmd = call[u].cmd => t = u
    /\ Distinct(queue)
    /\ \A c \in Queued \cup Called : obj[c].kind \in Kinds /\ obj[c].inv \in Inverters
    /\ \A t \in Calling :
          /\ call[t].step = "status" => obj[call[t].cmd].kind # "poll"
          /\ call[t].step \in {"remove", "place"} => obj[call[t].cmd].kind \in HighPriority

(* Where the main loop is.                                                 *)
PlaceInv ==
    /\ pc # "idle" => call[Loop] = Idle /\ removing = NoRemoval
    /\ pc \in {"front", "drop", "tx"} => ~busy
    /\ pc \in {"drop", "tx", "pop"} <=> cur # NoCmd
    /\ pc = "pop" => busy \/ CompletesOnTx(cur)

(* A step that hands out nothing new: the queue and the calls only lose    *)
(* commands, and what they keep stays what it is and stays sent.           *)
SameObject(c) ==
    /\ obj'[c].kind = obj[c].kind /\ obj'[c].inv = obj[c].inv
    /\ obj[c].sends > 0 => obj'[c].sends > 0
Keeps ==
    /\ Queued' \subseteq Queued /\ Distinct(queue')
    /\ \A t \in Calling' :
          /\ t \in Calling /\ call'[t].cmd = call[t].cmd
          /\ call'[t].step = "status" => call[t].step = "status"
          /\ call'[t].step \in {"remove", "place"} =>
                \/ call[t].step = call'[t].step
                \/ obj[call[t].cmd].kind \in HighPriority
    /\ \A c \in Queued' \cup Called' \cup {cur'} : c \in Cmds => SameObject(c)
    /\ cur' \in {cur, NoCmd} \cup Queued

(* The commands somebody holds are addresses.                              *)
LEMMA HeldTypes ==
    ASSUME TypeOK
    PROVE  /\ Queued \subseteq Cmds /\ Called \subseteq Cmds
           /\ \A t \in Calling :
                 /\ call[t].cmd \in Cmds /\ call[t].cmd # NoCmd
                 /\ call[t].cmd \in Called /\ call[t].front \in BOOLEAN
                 /\ call[t].step \in {"status", "insert", "remove", "push", "place"}
           /\ queue # <<>> => Head(queue) \in Queued
           /\ NoCmd \notin Cmds
<1>1. Queued \subseteq Cmds /\ (queue # <<>> => Head(queue) \in Queued)
  BY RangeMembers DEF TypeOK, Queued
<1>2. \A t \in Calling :
         /\ call[t].cmd \in Cmds /\ call[t].front \in BOOLEAN
         /\ call[t].step \in {"status", "insert", "remove", "push", "place"}
  BY DEF TypeOK, Calls, Calling
<1>3. \A t \in Calling : call[t].cmd \in Called
  BY DEF Called
<1>4. Called \subseteq Cmds
  BY <1>2 DEF Called
<1> QED BY <1>1, <1>2, <1>3, <1>4, RadioAssumption

(* A task at a step of a request is in a request.                          *)
LEMMA AtStep ==
    ASSUME NEW t \in Tasks,
           call[t].step \in {"status", "insert", "remove", "push", "place"}
    PROVE  t \in Calling
  BY DEF Calling, Idle

(* Objects that are alive are left alone when the others are destroyed.    *)
LEMMA DestroyKeeps ==
    ASSUME NEW alive, NEW c \in Cmds, c \in alive, obj' = Destroy(obj, alive)
    PROVE  obj'[c] = obj[c] /\ SameObject(c)
  BY DEF Destroy, SameObject

(* A transmission changes the number of transmissions of its command only. *)
LEMMA TransmitKeeps ==
    ASSUME TypeOK, NEW c, Transmit(c)
    PROVE  /\ \A d \in Cmds : SameObject(d)
           /\ c \in Cmds /\ obj[c].kind \in Kinds => obj'[c].sends > 0
<1> DEFINE n == IF obj[c].sends > MaxResend[obj[c].kind]
                THEN obj[c].sends ELSE obj[c].sends + 1
<1>1. obj' = [obj EXCEPT ![c].sends = n]
  BY DEF Transmit
<1>2. obj \in [Cmds -> Objects]
  BY DEF TypeOK
<1>3. \A d \in Cmds : obj[d].sends \in Nat
  BY <1>2 DEF Objects
<1>5. \A d \in Cmds : d # c => obj'[d] = obj[d]
  BY <1>1, <1>2
<1>6. \A d \in Cmds : obj'[d].kind = obj[d].kind /\ obj'[d].inv = obj[d].inv
  BY DEF Transmit, TypeOK, Objects
<1>7. c \in Cmds => obj'[c].sends = n
  BY DEF Transmit, TypeOK, Objects
<1>8. ASSUME c \in Cmds PROVE obj[c].sends > 0 => n > 0
  BY <1>3, <1>8
<1>9. ASSUME c \in Cmds, obj[c].kind \in Kinds PROVE n > 0
  BY <1>3, <1>9, RadioAssumption
<1> HIDE DEF n
<1> QED BY <1>5, <1>6, <1>7, <1>8, <1>9 DEF SameObject

-----------------------------------------------------------------------------
(* Who holds which command.                                                *)

(* A step that hands out nothing new keeps commands apart.                 *)
LEMMA KeepsOwned ==
    ASSUME TypeOK, TypeOK', OwnedInv, Keeps
    PROVE  OwnedInv'
<1>1. /\ Called' \subseteq Called
      /\ \A t \in Calling' : t \in Calling /\ call'[t].cmd = call[t].cmd
                             /\ call'[t].cmd \in Cmds /\ call'[t].cmd \in Called'
  BY HeldTypes DEF Keeps, TypeOK, Calls, Calling, Called
<1>2. Queued' \subseteq Cmds /\ Called' \subseteq Cmds
  BY <1>1, HeldTypes DEF Keeps
<1>3. \A c \in Queued' \cup Called' :
         obj'[c].kind = obj[c].kind /\ obj'[c].inv = obj[c].inv
  BY <1>2 DEF Keeps, SameObject
<1>4. \A t \in Calling' : call'[t].cmd \notin Queued' /\ call'[t].cmd # cur'
  BY <1>1, HeldTypes DEF OwnedInv, Keeps
<1>5. \A t, u \in Calling' : call'[t].cmd = call'[u].cmd => t = u
  BY <1>1 DEF OwnedInv
<1>6. \A c \in Queued' \cup Called' : obj'[c].kind \in Kinds /\ obj'[c].inv \in Inverters
  BY <1>1, <1>3 DEF OwnedInv, Keeps
<1>7. ASSUME NEW t \in Calling'
      PROVE  /\ call'[t].step = "status" => obj'[call'[t].cmd].kind # "poll"
             /\ call'[t].step \in {"remove", "place"} =>
                   obj'[call'[t].cmd].kind \in HighPriority
  <2>1. t \in Calling /\ obj'[call'[t].cmd].kind = obj[call[t].cmd].kind
    BY <1>1, <1>3
  <2>2. call'[t].step = "status" => call[t].step = "status"
    BY DEF Keeps
  <2>3. call'[t].step \in {"remove", "place"} => obj[call[t].cmd].kind \in HighPriority
    BY <2>1 DEF Keeps, OwnedInv
  <2> QED BY <2>1, <2>2, <2>3 DEF OwnedInv
<1>8. Distinct(queue')
  BY DEF Keeps
<1> QED BY <1>4, <1>5, <1>6, <1>7, <1>8 DEF OwnedInv

(* A step that changes neither queue nor calls, nor what a command is,     *)
(* hands out nothing new.                                                  *)
LEMMA QuietKeeps ==
    ASSUME TypeOK, OwnedInv, UNCHANGED <<queue, call>>,
           \A c \in Queued \cup Called \cup {cur'} : c \in Cmds => SameObject(c),
           cur' \in {cur, NoCmd} \cup Queued
    PROVE  Keeps
  BY DEF Keeps, OwnedInv, Queued, Called, Calling

(* Neither does a step that takes commands off the queue and destroys what *)
(* nobody refers to any more.                                              *)
LEMMA DropKeeps ==
    ASSUME TypeOK, OwnedInv, UNCHANGED call, NEW p, cur' = p, p \in {cur, NoCmd},
           Queued' \subseteq Queued, Distinct(queue'),
           obj' = Destroy(obj, Alive(queue', p))
    PROVE  Keeps
<1>1. Called' = Called /\ Calling' = Calling
  BY DEF Called, Calling
<1>2. Called \subseteq Alive(queue', p) /\ Queued' \subseteq Alive(queue', p)
      /\ p \in Alive(queue', p)
  BY DEF Alive, Called, Calling, Queued
<1>3. \A c \in Queued' \cup Called' \cup {cur'} : c \in Cmds => SameObject(c)
  BY <1>1, <1>2, DestroyKeeps
<1> QED BY <1>1, <1>3 DEF Keeps

(* pop() takes the front off and nothing else.                             *)
LEMMA PopFrontDrops ==
    ASSUME TypeOK, OwnedInv, PopFront
    PROVE  /\ Queued' = IF queue = <<>> THEN {} ELSE Queued \ {Head(queue)}
           /\ Distinct(queue')
           /\ Queued' \subseteq Queued
<1>1. queue \in Seq(Cmds) /\ Distinct(queue) /\ queue' = Pop(queue)
  BY DEF TypeOK, OwnedInv, PopFront
<1>2. /\ Distinct(queue')
      /\ Range(queue') = IF queue = <<>> THEN {} ELSE Range(queue) \ {Head(queue)}
  BY <1>1, PopMembers
<1> QED BY <1>2 DEF Queued

(* The main loop's steps hand out nothing new.                             *)
LEMMA RadioStepKeeps ==
    ASSUME TypeOK, OwnedInv, PlaceInv, CheckQueue \/ Tx \/ EndTxAgain \/ Removal
    PROVE  Keeps
<1>1. CASE CheckQueue
  BY <1>1, QuietKeeps DEF CheckQueue, SameObject
<1>2. CASE TxInvalidInverter
  BY <1>2, HeldTypes, QuietKeeps DEF TxInvalidInverter, SameObject
<1>3. CASE BeginTx
  <2>1. cur' \in Queued /\ UNCHANGED <<queue, call>>
    BY <1>3, HeldTypes DEF BeginTx
  <2>2. \A c \in Cmds : SameObject(c)
    BY <1>3, TransmitKeeps DEF BeginTx
  <2> QED BY <2>1, <2>2, QuietKeeps
<1>4. CASE EndTxAwaitAnswer
  <2>1. queue' = queue /\ obj' = Destroy(obj, Alive(queue', NoCmd)) /\ cur' = NoCmd
    BY <1>4 DEF EndTxAwaitAnswer
  <2>2. Queued' \subseteq Queued /\ Distinct(queue') /\ UNCHANGED call
    BY <1>4, <2>1 DEF EndTxAwaitAnswer, OwnedInv, Queued
  <2> QED BY <2>1, <2>2, DropKeeps
<1>5. CASE EndTxAgain
  BY <1>5, TransmitKeeps, QuietKeeps DEF EndTxAgain, radioVars
<1>6. CASE EndTxComplete
  BY <1>6, QuietKeeps DEF EndTxComplete, SameObject
<1>7. CASE PopFinished
  <2>1. /\ PopFront /\ UNCHANGED call /\ cur' = NoCmd
        /\ obj' = Destroy(obj, Alive(queue', NoCmd))
    BY <1>7 DEF PopFinished
  <2> QED BY <2>1, PopFrontDrops, DropKeeps
<1>8. CASE ClearBusy \/ Removal
  BY <1>8, QuietKeeps
  DEF ClearBusy, Removal, RemovedFront, EraseInverter, radioVars, SameObject
<1> QED BY <1>1, <1>2, <1>3, <1>4, <1>5, <1>6, <1>7, <1>8 DEF Tx

(* Nor does the end of an rx period.                                       *)
LEMMA RxEndKeeps ==
    ASSUME TypeOK, OwnedInv, RxEnd
    PROVE  Keeps
<1>1. PICK c \in Cmds : \/ RxInvalidInverter(c) \/ RxResend(c) \/ RxRetransmit(c)
                         \/ RxFail(c) \/ RxSuccess(c)
  BY DEF RxEnd
<1>2. RxPeriodEnd(c)
  BY <1>1 DEF RxInvalidInverter, RxResend, RxRetransmit, RxFail, RxSuccess
<1>3. CASE Finish(c)
  <2>1. cur' \in Queued
    BY <1>2, <1>3, HeldTypes DEF Finish, RxPeriodEnd
  <2> QED BY <1>3, <2>1, QuietKeeps DEF Finish, SameObject
<1>4. CASE RxResend(c)
  BY <1>4, TransmitKeeps, QuietKeeps DEF RxResend, radioVars
<1>5. CASE RxRetransmit(c)
  BY <1>5, QuietKeeps DEF RxRetransmit, radioVars, SameObject
<1> QED BY <1>1, <1>3, <1>4, <1>5 DEF RxInvalidInverter, RxFail, RxSuccess

(* Nor do received frames and the removal of an inverter's commands.       *)
LEMMA InverterStepKeeps ==
    ASSUME TypeOK, OwnedInv, NEW i \in Inverters,
           ReceivePart(i) \/ RemoveCommands(i) \/ \E a \in owed[i] : ReceiveAll(i, a)
    PROVE  Keeps
<1>1. CASE ReceivePart(i)
  BY <1>1, QuietKeeps DEF ReceivePart, radioVars, SameObject
<1>2. CASE RemoveCommands(i)
  <2>1. /\ queue \in Seq(Cmds) /\ Distinct(queue)
        /\ queue' = RemoveAllEntries(queue, Mine(i))
        /\ UNCHANGED <<call, cur>> /\ obj' = Destroy(obj, Alive(queue', cur))
    BY <1>2 DEF TypeOK, OwnedInv, RemoveCommands, radioVars
  <2>2. Range(queue') = Range(queue) \ Mine(i) /\ Distinct(queue')
    BY <2>1, RemoveAllMembers
  <2>3. Queued' \subseteq Queued
    BY <2>2 DEF Queued
  <2> QED BY <2>1, <2>2, <2>3, DropKeeps
<1>3. ASSUME NEW a \in owed[i], ReceiveAll(i, a) PROVE Keeps
  BY <1>3, QuietKeeps DEF ReceiveAll, radioVars, SameObject
<1> QED BY <1>1, <1>2, <1>3

(* What a task's step changes in its own request, and in no other.         *)
LEMMA StepOfRequest ==
    ASSUME TypeOK, NEW t \in Tasks, TaskStep(t)
    PROVE  /\ t \in Calling
           /\ \A u \in Tasks \ {t} : call'[u] = call[u]
           /\ UNCHANGED <<pc, cur, busy, known, removing>>
<1>1. /\ t \in Calling
      /\ \E x : call' = [call EXCEPT ![t] = x]
      /\ UNCHANGED <<pc, cur, busy, known, removing>>
  BY AtStep DEF TaskStep, SetPending, ReadBusy, InsertRemoveOldest, InsertRemoveNewest,
     Push, radioVars, inverterVars
<1> QED BY <1>1 DEF TypeOK

(* removeDuplicatedEntries takes off commands of the same parameter and    *)
(* inverter, but not the front when the task has read the flag set.        *)
LEMMA InsertDrops ==
    ASSUME TypeOK, OwnedInv, NEW t \in Tasks, InsertRemoveOldest(t)
    PROVE  LET c == call[t].cmd  front == call[t].front
           IN  /\ Queued' \subseteq Queued /\ Distinct(queue')
               /\ \A d \in Queued : d \notin SameParameter(c) => d \in Queued'
               /\ \A d \in Queued' : d \in SameParameter(c) => front /\ d = Head(queue)
               /\ queue # <<>> /\ (front \/ Head(queue) \notin SameParameter(c)) =>
                     queue' # <<>> /\ Head(queue') = Head(queue)
<1> DEFINE c == call[t].cmd  front == call[t].front
<1>1. queue \in Seq(Cmds) /\ Distinct(queue)
  BY DEF TypeOK, OwnedInv
<1>2. queue' = RemoveDuplicatedEntries(queue, SameParameter(c), front)
  BY DEF InsertRemoveOldest
<1>3. front \in BOOLEAN
  BY AtStep, HeldTypes DEF InsertRemoveOldest
<1> HIDE DEF c, front
<1> QED BY <1>1, <1>2, <1>3, RemoveDuplicatedMembers DEF Queued, c, front

(* Up to the push itself, a request hands out nothing new.                 *)
LEMMA TaskStepKeeps ==
    ASSUME TypeOK, OwnedInv, NEW t \in Tasks,
           SetPending(t) \/ ReadBusy(t) \/ InsertRemoveOldest(t) \/ InsertRemoveNewest(t)
    PROVE  Keeps
<1> DEFINE c == call[t].cmd
<1>1. /\ t \in Calling /\ \A u \in Tasks \ {t} : call'[u] = call[u]
      /\ cur' = cur
  BY StepOfRequest DEF TaskStep
<1>2. ASSUME call'[t].cmd = c, call'[t].step # "status",
             call'[t].step \in {"remove", "place"} => obj[c].kind \in HighPriority
      PROVE  /\ \A u \in Calling' :
                   /\ u \in Calling /\ call'[u].cmd = call[u].cmd
                   /\ call'[u].step = "status" => call[u].step = "status"
                   /\ call'[u].step \in {"remove", "place"} =>
                         \/ call[u].step = call'[u].step
                         \/ obj[call[u].cmd].kind \in HighPriority
             /\ Called' \subseteq Called
  <2>1. ASSUME NEW u \in Calling'
        PROVE  /\ u \in Calling /\ call'[u].cmd = call[u].cmd
               /\ call'[u].step = "status" => call[u].step = "status"
               /\ call'[u].step \in {"remove", "place"} =>
                     \/ call[u].step = call'[u].step
                     \/ obj[call[u].cmd].kind \in HighPriority
    BY <1>1, <1>2 DEF Calling
  <2> QED BY <2>1 DEF Called
<1>3. ASSUME NEW s \in {"insert", "push"}, call' = [call EXCEPT ![t].step = s]
      PROVE  call'[t].cmd = c /\ call'[t].step = s
  <2>1. call[t] \in [step : {"status", "insert", "remove", "push", "place"},
                      cmd : Cmds, front : BOOLEAN]
    BY <1>1 DEF TypeOK, Calls, Calling
  <2> QED BY <1>3, <2>1 DEF TypeOK
<1>4. ASSUME UNCHANGED <<queue, obj>>
      PROVE  Queued' = Queued /\ Distinct(queue') /\ \A d : SameObject(d)
  BY <1>4 DEF Queued, OwnedInv, SameObject
<1>5. CASE SetPending(t)
  <2>1. PICK s \in {"insert", "push"} : call' = [call EXCEPT ![t].step = s]
    BY <1>5 DEF SetPending
  <2>2. UNCHANGED <<queue, obj>>
    BY <1>5 DEF SetPending
  <2> QED BY <1>1, <1>2, <1>3, <1>4, <2>1, <2>2 DEF Keeps
<1>6. CASE ReadBusy(t)
  <2>1. /\ call'[t].cmd = c /\ call'[t].step # "status"
        /\ obj[c].kind \in HighPriority
    BY <1>6 DEF ReadBusy, TypeOK, RemoveOldest, HighPriority, Highs
  <2>2. UNCHANGED <<queue, obj>>
    BY <1>6 DEF ReadBusy
  <2> QED BY <1>1, <1>2, <1>4, <2>1, <2>2 DEF Keeps
<1>7. CASE InsertRemoveOldest(t)
  <2>1. call' = [call EXCEPT ![t].step = "push"] /\ obj' = Destroy(obj, Alive(queue', cur))
    BY <1>7 DEF InsertRemoveOldest
  <2>2. Queued' \subseteq Queued /\ Distinct(queue')
    BY <1>7, InsertDrops
  <2>3. Called \subseteq Alive(queue', cur) /\ Queued' \subseteq Alive(queue', cur)
        /\ cur \in Alive(queue', cur)
    BY DEF Alive, Called, Calling, Queued
  <2>4. call'[t].cmd = c /\ call'[t].step = "push"
    BY <1>3, <2>1
  <2>5. \A d \in Queued' \cup Called' \cup {cur'} : d \in Cmds => SameObject(d)
    BY <1>1, <1>2, <2>1, <2>3, <2>4, DestroyKeeps
  <2> QED BY <1>1, <1>2, <2>2, <2>4, <2>5 DEF Keeps
<1>8. CASE InsertRemoveNewest(t)
  <2>0. UNCHANGED queue /\ Queued' = Queued /\ Distinct(queue')
    BY <1>8 DEF InsertRemoveNewest, OwnedInv, Queued
  <2>1. CASE call' = [call EXCEPT ![t].step = "push"] /\ UNCHANGED obj
    <3>1. call'[t].cmd = c /\ call'[t].step = "push"
      BY <1>3, <2>1
    <3> QED BY <1>1, <1>2, <1>4, <2>0, <2>1, <3>1 DEF Keeps
  <2>2. CASE call' = [call EXCEPT ![t] = Idle] /\ obj' = [obj EXCEPT ![c] = Unused]
    <3>1. call'[t] = Idle
      BY <2>2 DEF TypeOK
    <3>2. \A u \in Calling' : u \in Calling /\ u # t /\ call'[u] = call[u]
      BY <1>1, <3>1 DEF Calling
    <3>3. \A d \in Called' : d # c
      BY <1>1, <3>2 DEF OwnedInv, Called
    <3>4. \A d \in Queued' : d # c
      BY <1>1, <2>0 DEF OwnedInv
    <3>5. cur # c
      BY <1>1 DEF OwnedInv
    <3>6. \A d \in Cmds : d # c => SameObject(d)
      BY <2>2 DEF TypeOK, SameObject
    <3> QED BY <1>1, <2>0, <3>2, <3>3, <3>4, <3>5, <3>6 DEF Keeps
  <2> QED BY <1>8, <2>1, <2>2 DEF InsertRemoveNewest
<1> QED BY <1>5, <1>6, <1>7, <1>8

(* A new command is held by its task alone, until it is pushed.            *)
LEMMA RequestFacts ==
    ASSUME TypeOK, OwnedInv, NEW t \in Tasks, NEW r \in MaySend[t],
           Request(t, r[1], r[2])
    PROVE  \E c \in Cmds :
              /\ r[1] \in Kinds /\ r[2] \in Inverters
              /\ c \notin Queued /\ c \notin Called /\ c # cur
              /\ t \notin Calling /\ Calling' = Calling \cup {t}
              /\ \A u \in Calling : call'[u] = call[u]
              /\ call'[t] = [step |-> IF r[1] \in RemoveNewest THEN "insert" ELSE "status",
                             cmd |-> c, front |-> FALSE]
              /\ obj'[c] = [kind |-> r[1], inv |-> r[2], sends |-> 0]
              /\ \A d \in Cmds \ {c} : obj'[d] = obj[d]
              /\ UNCHANGED <<queue, busy, pc, cur, limitStatus, powerStatus, known, removing>>
              /\ t = Loop => pc = "idle"
<1>1. PICK c \in Cmds \ Alive(queue, cur) :
        /\ obj' = [obj EXCEPT ![c] = [kind |-> r[1], inv |-> r[2], sends |-> 0]]
        /\ call' = [call EXCEPT ![t] =
              [step |-> IF r[1] \in RemoveNewest THEN "insert" ELSE "status", cmd |-> c, front |-> FALSE]]
  BY DEF Request
<1>2. r[1] \in Kinds /\ r[2] \in Inverters
  BY RadioAssumption
<1>3. c \notin Queued /\ c \notin Called /\ c # cur
  BY <1>1 DEF Alive, Called, Calling, Queued
<1>4. /\ t \notin Calling /\ \A u \in Tasks \ {t} : call'[u] = call[u]
      /\ call'[t] = [step |-> IF r[1] \in RemoveNewest THEN "insert" ELSE "status",
                     cmd |-> c, front |-> FALSE]
  BY <1>1 DEF Request, Calling, TypeOK
<1>5. call'[t] # Idle
  <2>1. call'[t].step # "idle"
    BY <1>4
  <2> QED BY <2>1 DEF Idle
<1>6. Calling' = Calling \cup {t}
  BY <1>4, <1>5 DEF Calling
<1>7. /\ obj'[c] = [kind |-> r[1], inv |-> r[2], sends |-> 0]
      /\ \A d \in Cmds \ {c} : obj'[d] = obj[d]
  BY <1>1 DEF TypeOK
<1>8. /\ UNCHANGED <<queue, busy, pc, cur, limitStatus, powerStatus, known, removing>>
      /\ t = Loop => pc = "idle"
  BY DEF Request, radioVars, inverterVars
<1>9. \A u \in Calling : call'[u] = call[u]
  BY <1>4 DEF Calling
<1> QED BY <1>1, <1>2, <1>3, <1>4, <1>6, <1>7, <1>8, <1>9

(* A push moves one command from its task to the queue, and the front      *)
(* stays where it is when the task has read the flag set, when it has      *)
(* priority itself or when the new command has none.                       *)
LEMMA PushFacts ==
    ASSUME TypeOK, OwnedInv, NEW t \in Tasks, Push(t)
    PROVE  LET c == call[t].cmd
           IN  /\ t \in Calling /\ c \in Cmds
               /\ Queued' = Queued \cup {c} /\ Distinct(queue')
               /\ Calling' = Calling \ {t} /\ Called' = Called \ {c}
               /\ \A u \in Calling' : call'[u] = call[u]
               /\ queue' # <<>>
               /\ queue # <<>> /\ (call[t].front \/ Head(queue) \in Highs \/ c \notin Highs)
                     => Head(queue') = Head(queue)
               /\ UNCHANGED <<obj, busy, pc, cur, limitStatus, powerStatus, known, removing>>
<1> DEFINE c == call[t].cmd  front == call[t].front
<1>1. t \in Calling /\ c \in Cmds /\ c \notin Queued
  BY AtStep, HeldTypes DEF Push, OwnedInv
<1>2. queue \in Seq(Cmds) /\ Distinct(queue) /\ front \in BOOLEAN
  BY <1>1, HeldTypes DEF TypeOK, OwnedInv
<1>3. \/ c \in Highs /\ queue' = PushPriority(queue, c, Highs, front)
      \/ c \notin Highs /\ queue' = Append(queue, c)
  BY <1>1 DEF Push, OwnedInv, Highs
<1>4. /\ \A u \in Tasks \ {t} : call'[u] = call[u]
      /\ call'[t] = Idle
      /\ UNCHANGED <<obj, busy, pc, cur, limitStatus, powerStatus, known, removing>>
  BY DEF Push, TypeOK, radioVars, inverterVars
<1>5. Calling' = Calling \ {t}
  BY <1>4 DEF Calling
<1>6. \A u \in Calling' : call'[u] = call[u] /\ u \in Calling /\ u # t
  BY <1>4, <1>5 DEF Calling
<1>7. Called' = Called \ {c}
  <2>1. ASSUME NEW d \in Called' PROVE d \in Called \ {c}
    <3>1. PICK u \in Calling' : d = call'[u].cmd
      BY DEF Called
    <3>2. u \in Calling /\ u # t /\ d = call[u].cmd
      BY <1>6, <3>1
    <3>3. d # c
      BY <1>1, <3>2 DEF OwnedInv
    <3> QED BY <3>2, <3>3 DEF Called
  <2>2. \A d \in Called \ {c} : \E u \in Calling' : call[u].cmd = d
    BY <1>5 DEF Called
  <2>3. \A d \in Called \ {c} : d \in Called'
    BY <1>6, <2>2 DEF Called
  <2> QED BY <2>1, <2>3
<1> HIDE DEF c, front
<1>8. CASE c \in Highs
  <2>1. queue' = PushPriority(queue, c, Highs, front)
    BY <1>3, <1>8
  <2>2. /\ Range(queue') = Range(queue) \cup {c}
        /\ c \notin Range(queue) => Distinct(queue')
        /\ queue' # <<>>
        /\ queue # <<>> /\ (front \/ Head(queue) \in Highs) => Head(queue') = Head(queue)
    BY <1>1, <1>2, <2>1, PushPriorityMembers
  <2> QED BY <1>1, <1>4, <1>5, <1>6, <1>7, <1>8, <2>2 DEF Queued, c, front
<1>9. CASE c \notin Highs
  <2>1. queue' = Append(queue, c)
    BY <1>3, <1>9
  <2>2. /\ Range(queue') = Range(queue) \cup {c}
        /\ c \notin Range(queue) => Distinct(queue')
        /\ queue' # <<>>
        /\ queue # <<>> => Head(queue') = Head(queue)
    BY <1>1, <1>2, <2>1, AppendMembers
  <2> QED BY <1>1, <1>4, <1>5, <1>6, <1>7, <2>2 DEF Queued, c, front
<1> QED BY <1>8, <1>9

-----------------------------------------------------------------------------
(* A request and a push keep commands apart, too.                          *)
LEMMA RequestOwned ==
    ASSUME TypeOK, OwnedInv, NEW t \in Tasks, NEW r \in MaySend[t],
           Request(t, r[1], r[2])
    PROVE  OwnedInv'
<1>1. PICK c \in Cmds :
         /\ r[1] \in Kinds /\ r[2] \in Inverters
         /\ c \notin Queued /\ c \notin Called /\ c # cur
         /\ t \notin Calling /\ Calling' = Calling \cup {t}
         /\ \A u \in Calling : call'[u] = call[u]
         /\ call'[t] = [step |-> IF r[1] \in RemoveNewest THEN "insert" ELSE "status",
                        cmd |-> c, front |-> FALSE]
         /\ obj'[c] = [kind |-> r[1], inv |-> r[2], sends |-> 0]
         /\ \A d \in Cmds \ {c} : obj'[d] = obj[d]
         /\ UNCHANGED <<queue, cur>>
  BY RequestFacts
<1>2. Queued' = Queued
  BY <1>1 DEF Queued
<1>3. /\ call'[t].cmd = c
      /\ call'[t].step = "status" => r[1] # "poll"
      /\ call'[t].step \notin {"remove", "place"}
      /\ obj'[c].kind = r[1] /\ obj'[c].inv = r[2]
  BY <1>1 DEF RemoveNewest
<1>4. \A u \in Calling : call[u].cmd \in Called /\ call[u].cmd # c
  BY <1>1, HeldTypes
<1>5. Called' = Called \cup {c}
  BY <1>1, <1>3 DEF Called
<1>6. \A d \in Queued \cup Called : d \in Cmds /\ d # c /\ obj'[d] = obj[d]
  BY <1>1, HeldTypes
<1>7. \A u \in Calling' : call'[u].cmd \notin Queued' /\ call'[u].cmd # cur'
  BY <1>1, <1>2, <1>3 DEF OwnedInv
<1>8. \A u, v \in Calling' : call'[u].cmd = call'[v].cmd => u = v
  BY <1>1, <1>3, <1>4 DEF OwnedInv
<1>9. \A d \in Queued' \cup Called' : obj'[d].kind \in Kinds /\ obj'[d].inv \in Inverters
  BY <1>1, <1>2, <1>3, <1>5, <1>6 DEF OwnedInv
<1>10. \A u \in Calling' :
          /\ call'[u].step = "status" => obj'[call'[u].cmd].kind # "poll"
          /\ call'[u].step \in {"remove", "place"} => obj'[call'[u].cmd].kind \in HighPriority
  BY <1>1, <1>3, <1>4, <1>6 DEF OwnedInv
<1>11. Distinct(queue')
  BY <1>1 DEF OwnedInv
<1> QED BY <1>7, <1>8, <1>9, <1>10, <1>11 DEF OwnedInv

LEMMA PushOwned ==
    ASSUME TypeOK, OwnedInv, NEW t \in Tasks, Push(t)
    PROVE  OwnedInv'
<1> DEFINE c == call[t].cmd
<1>1. /\ t \in Calling /\ c \in Cmds
      /\ Queued' = Queued \cup {c} /\ Distinct(queue')
      /\ Calling' = Calling \ {t} /\ Called' = Called \ {c}
      /\ \A u \in Calling' : call'[u] = call[u]
      /\ UNCHANGED <<obj, cur>>
  BY PushFacts
<1>2. \A u \in Calling' : call'[u].cmd \notin Queued' /\ call'[u].cmd # cur'
  BY <1>1 DEF OwnedInv
<1>3. \A u, v \in Calling' : call'[u].cmd = call'[v].cmd => u = v
  BY <1>1 DEF OwnedInv
<1>4. Queued' \cup Called' \subseteq Queued \cup Called
  BY <1>1, HeldTypes
<1>5. \A d \in Queued' \cup Called' : obj'[d].kind \in Kinds /\ obj'[d].inv \in Inverters
  BY <1>1, <1>4 DEF OwnedInv
<1>6. \A u \in Calling' :
         /\ call'[u].step = "status" => obj'[call'[u].cmd].kind # "poll"
         /\ call'[u].step \in {"remove", "place"} => obj'[call'[u].cmd].kind \in HighPriority
  BY <1>1 DEF OwnedInv
<1> QED BY <1>1, <1>2, <1>3, <1>5, <1>6 DEF OwnedInv

(* The main loop requests nothing while it is in handleReceivedPackage,    *)
(* holds a command from the transmission or the finding to the pop, and    *)
(* pops on its own account only what its transmission or the end of an rx  *)
(* period completed.                                                       *)
LEMMA NextPlace ==
    ASSUME TypeOK, OwnedInv, PlaceInv, Next
    PROVE  PlaceInv'
<1>1. ASSUME NEW t \in Tasks, NEW r \in MaySend[t], Request(t, r[1], r[2])
      PROVE  PlaceInv'
  <2>1. PICK c \in Cmds :
           /\ c # cur /\ Calling' = Calling \cup {t}
           /\ \A d \in Cmds \ {c} : obj'[d] = obj[d]
           /\ UNCHANGED <<busy, pc, cur, removing>>
           /\ t = Loop => pc = "idle"
    BY <1>1, RequestFacts
  <2>2. Loop \in Calling <=> call[Loop] # Idle
    BY RadioAssumption DEF Calling
  <2>3. Loop \in Calling' <=> call'[Loop] # Idle
    BY RadioAssumption DEF Calling
  <2>4. pc = "pop" => cur \in Cmds
    BY DEF PlaceInv, TypeOK
  <2> QED BY <2>1, <2>2, <2>3, <2>4 DEF PlaceInv, CompletesOnTx
<1>2. ASSUME NEW t \in Tasks, TaskStep(t) PROVE PlaceInv'
  <2>1. /\ t \in Calling /\ UNCHANGED <<pc, cur, busy, removing>>
        /\ \A u \in Tasks \ {t} : call'[u] = call[u]
    BY <1>2, StepOfRequest
  <2>2. pc # "idle" => t # Loop
    BY <2>1 DEF PlaceInv, Calling
  <2>3. pc # "idle" => call'[Loop] = Idle
    BY <2>1, <2>2, RadioAssumption DEF PlaceInv
  <2>4. ASSUME pc = "pop" PROVE cur \in Cmds /\ SameObject(cur)
    <3>1. cur \in Cmds
      BY <2>4 DEF PlaceInv, TypeOK
    <3>2. CASE SetPending(t) \/ ReadBusy(t) \/ InsertRemoveOldest(t)
               \/ InsertRemoveNewest(t)
      <4>1. cur' = cur /\ Keeps
        BY <2>1, <3>2, TaskStepKeeps
      <4> QED BY <3>1, <4>1 DEF Keeps
    <3>3. CASE Push(t)
      BY <3>1, <3>3 DEF Push, SameObject
    <3> QED BY <1>2, <3>1, <3>2, <3>3 DEF TaskStep
  <2> QED BY <2>1, <2>3, <2>4 DEF PlaceInv, CompletesOnTx, SameObject
<1>3. CASE CheckQueue \/ Tx \/ EndTxAgain \/ Removal
  <2>1. CASE CheckQueue
    BY <2>1 DEF CheckQueue, PlaceInv, LoopFree, inverterVars
  <2>2. CASE TxInvalidInverter
    <3>1. cur' # NoCmd
      BY <2>2, HeldTypes DEF TxInvalidInverter
    <3> QED BY <2>2, <3>1 DEF TxInvalidInverter, PlaceInv, inverterVars
  <2>3. CASE BeginTx
    <3>1. cur' # NoCmd
      BY <2>3, HeldTypes DEF BeginTx
    <3> QED BY <2>3, <3>1 DEF BeginTx, PlaceInv
  <2>4. CASE EndTxAwaitAnswer
    BY <2>4 DEF EndTxAwaitAnswer, PlaceInv, inverterVars
  <2>5. CASE EndTxAgain
    BY <2>5 DEF EndTxAgain, PlaceInv, radioVars
  <2>6. CASE EndTxComplete
    BY <2>6 DEF EndTxComplete, PlaceInv, CompletesOnTx
  <2>7. CASE PopFinished
    BY <2>7 DEF PopFinished, PlaceInv, inverterVars
  <2>8. CASE ClearBusy
    BY <2>8 DEF ClearBusy, PlaceInv, inverterVars
  <2>9. CASE Removal
    <3>1. removing # NoRemoval
      BY <2>9 DEF Removal, RemovedFront, EraseInverter, NoRemoval
    <3>2. pc = "idle" /\ UNCHANGED <<pc, cur>>
      BY <2>9, <3>1 DEF Removal, RemovedFront, EraseInverter, PlaceInv, radioVars
    <3> QED BY <3>2 DEF PlaceInv
  <2> QED BY <1>3, <2>1, <2>2, <2>3, <2>4, <2>5, <2>6, <2>7, <2>8, <2>9 DEF Tx
<1>4. CASE RxEnd
  <2>1. PICK c \in Cmds : \/ RxInvalidInverter(c) \/ RxResend(c) \/ RxRetransmit(c)
                           \/ RxFail(c) \/ RxSuccess(c)
    BY <1>4 DEF RxEnd
  <2>2. RxPeriodEnd(c)
    BY <2>1 DEF RxInvalidInverter, RxResend, RxRetransmit, RxFail, RxSuccess
  <2>3. CASE Finish(c)
    <3>1. c # NoCmd /\ pc' = "pop" /\ cur' = c
      BY <2>3, RadioAssumption DEF Finish
    <3>2. busy' /\ call'[Loop] = Idle /\ removing' = NoRemoval
      BY <2>2, <2>3 DEF Finish, RxPeriodEnd, LoopFree
    <3> QED BY <3>1, <3>2 DEF PlaceInv
  <2>4. CASE RxResend(c) \/ RxRetransmit(c)
    <3>1. pc = "idle" /\ UNCHANGED <<pc, cur>>
      BY <2>2, <2>4 DEF RxResend, RxRetransmit, RxPeriodEnd, LoopFree, radioVars
    <3> QED BY <3>1 DEF PlaceInv
  <2> QED BY <2>1, <2>3, <2>4 DEF RxInvalidInverter, RxFail, RxSuccess
<1>5. ASSUME NEW i \in Inverters,
             ReceivePart(i) \/ RemoveCommands(i) \/ \E a \in owed[i] : ReceiveAll(i, a)
      PROVE  PlaceInv'
  <2>1. pc = "idle" /\ UNCHANGED <<pc, cur>>
    BY <1>5 DEF ReceivePart, RemoveCommands, ReceiveAll, Listening, LoopFree,
                HoymilesMutexFree, radioVars
  <2> QED BY <2>1 DEF PlaceInv
<1> QED BY <1>1, <1>2, <1>3, <1>4, <1>5 DEF Next

(* Every step keeps the commands apart.                                    *)
LEMMA NextOwned ==
    ASSUME TypeOK, TypeOK', OwnedInv, PlaceInv, Next
    PROVE  OwnedInv'
<1>1. ASSUME NEW t \in Tasks, TaskStep(t) PROVE OwnedInv'
  BY <1>1, TaskStepKeeps, PushOwned, KeepsOwned DEF TaskStep
<1>2. CASE CheckQueue \/ Tx \/ EndTxAgain \/ Removal
  BY <1>2, RadioStepKeeps, KeepsOwned
<1>3. CASE RxEnd
  BY <1>3, RxEndKeeps, KeepsOwned
<1>4. ASSUME NEW i \in Inverters,
             ReceivePart(i) \/ RemoveCommands(i) \/ \E a \in owed[i] : ReceiveAll(i, a)
      PROVE  OwnedInv'
  BY <1>4, InverterStepKeeps, KeepsOwned
<1> QED BY <1>1, <1>2, <1>3, <1>4, RequestOwned DEF Next

(* No command object is queued twice, held by two requests, or queued      *)
(* while a request still holds it; and the main loop is where it says.     *)
THEOREM CommandsApart == Spec => [](OwnedInv /\ PlaceInv)
<1>1. Init => OwnedInv /\ PlaceInv
  <2> SUFFICES ASSUME Init PROVE OwnedInv /\ PlaceInv
    OBVIOUS
  <2>1. Calling = {} /\ Called = {} /\ Queued = {}
    BY DEF Init, Calling, Called, Queued, Range
  <2>2. Distinct(queue) /\ call[Loop] = Idle
    BY RadioAssumption DEF Init, Distinct
  <2> QED BY <2>1, <2>2 DEF Init, OwnedInv, PlaceInv
<1>2. TypeOK /\ TypeOK' /\ OwnedInv /\ PlaceInv /\ [Next]_vars => (OwnedInv /\ PlaceInv)'
  <2>1. OwnedInv /\ PlaceInv /\ UNCHANGED vars => (OwnedInv /\ PlaceInv)'
    BY DEF OwnedInv, PlaceInv, Calling, Called, Queued, CompletesOnTx, vars
  <2> QED BY <2>1, NextOwned, NextPlace
<1> QED BY <1>1, <1>2, TypeCorrect, PTL DEF Spec

-----------------------------------------------------------------------------
(* The order of the queue.                                                 *)

(* Commands that are still referred to keep their kind when others are     *)
(* destroyed, so the order of a queue of such commands stays what it is.   *)
LEMMA DestroyKeepsOrder ==
    ASSUME TypeOK, NEW q \in Seq(Cmds), NEW alive, Range(q) \subseteq alive,
           FewBefore(q, Highs), obj' = Destroy(obj, alive)
    PROVE  FewBefore(q, Highs')
<1>1. \A c \in Range(q) : c \in Cmds /\ obj'[c] = obj[c]
  BY RangeOfSeq DEF Destroy
<1>2. \A c \in Range(q) : c \in Highs <=> c \in Highs'
  BY <1>1 DEF Highs
<1> HIDE DEF Highs
<1> QED BY <1>2, FewBeforeCongruent

(* The same when kinds do not change at all.                               *)
LEMMA TransmitKeepsHighs ==
    ASSUME TypeOK, NEW c, Transmit(c)
    PROVE  Highs' = Highs
<1>1. \A d \in Cmds : obj'[d].kind = obj[d].kind
  BY DEF Transmit, TypeOK, Objects
<1> QED BY <1>1 DEF Highs

(* Whatever is in the queue is alive.                                      *)
LEMMA AliveKeepsQueue ==
    ASSUME NEW q, NEW p
    PROVE  Range(q) \subseteq Alive(q, p)
  BY DEF Alive

(* A request that begins does not touch the order.                         *)
LEMMA RequestKeepsOrder ==
    ASSUME TypeOK, WaitsForOneOnly, NEW t \in Tasks, NEW r \in MaySend[t],
           Request(t, r[1], r[2])
    PROVE  WaitsForOneOnly'
<1>1. PICK c \in Cmds \ Alive(queue, cur) :
        obj' = [obj EXCEPT ![c] = [kind |-> r[1], inv |-> r[2], sends |-> 0]]
  BY DEF Request
<1>2. \A d \in Range(queue) : d \in Cmds /\ d # c
  BY <1>1, RangeOfSeq DEF TypeOK, Alive
<1>3. \A d \in Range(queue) : obj'[d] = obj[d]
  BY <1>1, <1>2 DEF TypeOK
<1>4. \A d \in Range(queue) : d \in Highs <=> d \in Highs'
  BY <1>2, <1>3 DEF Highs
<1>5. queue \in Seq(Cmds) /\ queue' = queue /\ FewBefore(queue, Highs)
  BY DEF TypeOK, Request, WaitsForOneOnly
<1>6. FewBefore(queue, Highs')
  BY <1>4, <1>5, FewBeforeCongruent
<1> QED BY <1>5, <1>6 DEF WaitsForOneOnly

(* Each step of enqueCommand keeps it, whatever flag the task has read.    *)
LEMMA TaskStepKeepsOrder ==
    ASSUME TypeOK, OwnedInv, WaitsForOneOnly, NEW t \in Tasks, TaskStep(t)
    PROVE  WaitsForOneOnly'
<1> DEFINE c == call[t].cmd  front == call[t].front
<1>1. queue \in Seq(Cmds) /\ FewBefore(queue, Highs)
  BY DEF TypeOK, WaitsForOneOnly
<1>2. CASE SetPending(t) \/ ReadBusy(t)
  <2>1. UNCHANGED <<queue, obj>>
    BY <1>2 DEF SetPending, ReadBusy
  <2> QED BY <2>1 DEF WaitsForOneOnly, Highs
<1>3. CASE InsertRemoveOldest(t)
  <2>1. queue' = RemoveDuplicatedEntries(queue, SameParameter(c), front)
    BY <1>3 DEF InsertRemoveOldest
  <2>2. queue' \in Seq(Cmds) /\ FewBefore(queue', Highs)
    BY <1>1, <2>1, KeepAtFewBefore, RemoveTypes DEF RemoveDuplicatedEntries
  <2>3. FewBefore(queue', Highs')
    BY <1>3, <2>2, DestroyKeepsOrder, AliveKeepsQueue DEF InsertRemoveOldest, Alive
  <2> QED BY <2>3 DEF WaitsForOneOnly
<1>4. CASE InsertRemoveNewest(t)
  <2>1. obj[c].kind \notin HighPriority /\ Unused.kind \notin HighPriority
    BY <1>4 DEF InsertRemoveNewest, RemoveNewest, HighPriority, Unused
  <2>2. obj' = obj \/ obj' = [obj EXCEPT ![c] = Unused]
    BY <1>4 DEF InsertRemoveNewest
  <2> HIDE DEF c
  <2>3. \A d \in Cmds : obj'[d].kind \in HighPriority <=> obj[d].kind \in HighPriority
    BY <2>1, <2>2 DEF TypeOK
  <2>4. Highs' = Highs
    BY <2>3 DEF Highs
  <2> QED BY <1>1, <1>4, <2>4 DEF InsertRemoveNewest, WaitsForOneOnly
<1>5. CASE Push(t)
  <2>1. c \in Cmds /\ front \in BOOLEAN
    BY <1>5, AtStep, HeldTypes DEF Push
  <2>2. Highs' = Highs
    BY <1>5 DEF Push, Highs
  <2>3. \/ c \in Highs /\ queue' = PushPriority(queue, c, Highs, front)
        \/ c \notin Highs /\ queue' = Append(queue, c)
    BY <1>5, <2>1, AtStep DEF Push, OwnedInv, Highs
  <2>4. CASE c \in Highs
    <3>1. FewBefore(PushPriority(queue, c, Highs, front), Highs)
      BY <1>1, <2>1, <2>4, PushPriorityProperties
    <3>2. queue' = PushPriority(queue, c, Highs, front)
      BY <2>3, <2>4
    <3> QED BY <2>2, <3>1, <3>2 DEF WaitsForOneOnly
  <2>5. CASE c \notin Highs
    <3>1. queue' = Append(queue, c)
      BY <2>3, <2>5
    <3>2. FewBefore(Append(queue, c), Highs)
      BY <1>1, <2>1, <2>5, PushFewBefore
    <3> QED BY <2>2, <3>1, <3>2 DEF WaitsForOneOnly
  <2> QED BY <2>4, <2>5
<1> QED BY <1>2, <1>3, <1>4, <1>5 DEF TaskStep

(* A step that keeps the queue and the objects keeps it.                   *)
LEMMA SameKeepsOrder ==
    ASSUME WaitsForOneOnly, UNCHANGED <<queue, obj>>
    PROVE  WaitsForOneOnly'
  BY DEF WaitsForOneOnly, Highs

(* Each step of the main loop keeps it: a pop shortens the queue only.     *)
LEMMA RadioStepKeepsOrder ==
    ASSUME TypeOK, WaitsForOneOnly, CheckQueue \/ Tx \/ EndTxAgain \/ Removal
    PROVE  WaitsForOneOnly'
<1>1. CASE CheckQueue \/ TxInvalidInverter \/ EndTxComplete \/ ClearBusy \/ Removal
  BY <1>1, SameKeepsOrder
  DEF CheckQueue, TxInvalidInverter, EndTxComplete, ClearBusy, Removal, RemovedFront,
      EraseInverter
<1>2. CASE BeginTx \/ EndTxAgain
  BY <1>2, TransmitKeepsHighs DEF BeginTx, EndTxAgain, WaitsForOneOnly
<1>3. CASE EndTxAwaitAnswer
  <2>1. queue \in Seq(Cmds) /\ FewBefore(queue, Highs) /\ queue' = queue
    BY <1>3 DEF TypeOK, WaitsForOneOnly, EndTxAwaitAnswer
  <2>2. FewBefore(queue, Highs')
    BY <1>3, <2>1, DestroyKeepsOrder, AliveKeepsQueue DEF EndTxAwaitAnswer
  <2> QED BY <2>1, <2>2 DEF WaitsForOneOnly
<1>4. CASE PopFinished
  <2>1. queue' \in Seq(Cmds) /\ FewBefore(queue', Highs)
    BY <1>4, PopProperties DEF PopFinished, PopFront, TypeOK, WaitsForOneOnly
  <2>2. FewBefore(queue', Highs')
    BY <1>4, <2>1, DestroyKeepsOrder, AliveKeepsQueue DEF PopFinished, Alive
  <2> QED BY <2>2 DEF WaitsForOneOnly
<1> QED BY <1>1, <1>2, <1>3, <1>4 DEF Tx

(* The end of an rx period keeps it.                                       *)
LEMMA RxEndKeepsOrder ==
    ASSUME TypeOK, WaitsForOneOnly, RxEnd
    PROVE  WaitsForOneOnly'
<1>1. PICK c \in Cmds : \/ RxInvalidInverter(c) \/ RxResend(c) \/ RxRetransmit(c)
                         \/ RxFail(c) \/ RxSuccess(c)
  BY DEF RxEnd
<1>2. CASE Finish(c) \/ RxRetransmit(c)
  BY <1>2, SameKeepsOrder DEF Finish, RxRetransmit
<1>3. CASE RxResend(c)
  BY <1>3, TransmitKeepsHighs DEF RxResend, WaitsForOneOnly
<1> QED BY <1>1, <1>2, <1>3 DEF RxInvalidInverter, RxFail, RxSuccess

(* Received frames and the removal of an inverter's commands keep it.      *)
LEMMA InverterStepKeepsOrder ==
    ASSUME TypeOK, WaitsForOneOnly, NEW i \in Inverters,
           ReceivePart(i) \/ RemoveCommands(i) \/ \E a \in owed[i] : ReceiveAll(i, a)
    PROVE  WaitsForOneOnly'
<1>1. CASE ReceivePart(i) \/ \E a \in owed[i] : ReceiveAll(i, a)
  BY <1>1, SameKeepsOrder DEF ReceivePart, ReceiveAll
<1>2. CASE RemoveCommands(i)
  <2>1. queue \in Seq(Cmds) /\ FewBefore(queue, Highs)
        /\ queue' = RemoveAllEntries(queue, Mine(i))
    BY <1>2 DEF TypeOK, WaitsForOneOnly, RemoveCommands
  <2>2. queue' \in Seq(Cmds) /\ FewBefore(queue', Highs)
    BY <2>1, KeepAtFewBefore, RemoveTypes DEF RemoveAllEntries
  <2>3. FewBefore(queue', Highs')
    BY <1>2, <2>2, DestroyKeepsOrder, AliveKeepsQueue DEF RemoveCommands, Alive
  <2> QED BY <2>3 DEF WaitsForOneOnly
<1> QED BY <1>1, <1>2

(* However the tasks' requests interleave with each other, with the main   *)
(* loop's pops and with its setting and clearing of _busyFlag, a limit or  *)
(* a power-off never has two ordinary commands in front of it.             *)
THEOREM WaitsForOneOnlyCorrect == Spec => []WaitsForOneOnly
<1>1. Init => WaitsForOneOnly
  BY DEF Init, WaitsForOneOnly, FewBefore
<1>2. TypeOK /\ OwnedInv /\ WaitsForOneOnly /\ [Next]_vars => WaitsForOneOnly'
  <2>1. WaitsForOneOnly /\ UNCHANGED vars => WaitsForOneOnly'
    BY DEF WaitsForOneOnly, Highs, vars
  <2> QED
    BY <2>1, RequestKeepsOrder, TaskStepKeepsOrder, RadioStepKeepsOrder,
       RxEndKeepsOrder, InverterStepKeepsOrder DEF Next
<1> QED BY <1>1, <1>2, TypeCorrect, CommandsApart, PTL DEF Spec

-----------------------------------------------------------------------------
(***************************************************************************)
(* The front of the queue.  handleReceivedPackage reads it when it begins  *)
(* to send, when the write has ended, when the answer has arrived and when *)
(* it pops, and does not hold the queue's lock in between.  Nothing in the *)
(* code makes these the same command; what does is which task issues which *)
(* requests.  The two disciplines below say so, and the theorems hold for  *)
(* every number of commands, inverters and tasks under one or the other.   *)
(***************************************************************************)

(* Only the main loop issues requests that remove older ones and push      *)
(* before the front (ActivePowerControl, PowerControl with                 *)
(* completeOnTxSuccess): the power limiter sets limits and switches, users *)
(* switch and restart inverters through the web interface or MQTT, but set *)
(* no limit.                                                               *)
OthersAppend == \A t \in Tasks \ {Loop} : \A r \in MaySend[t] : r[1] \notin RemoveOldest

(* Weaker: another task may set limits, of inverters nobody else sets the  *)
(* limit of.                                                               *)
OnlySender ==
    \A t \in Tasks \ {Loop} : \A r \in MaySend[t] :
        r[1] \in RemoveOldest =>
            r[1] = "limit" /\ \A u \in Tasks \ {t} : r \notin MaySend[u]

(* From the check of the queue to the pop the front is one command, sent   *)
(* from the first transmission on; and what the main loop has read of      *)
(* _busyFlag for a request of its own is not out of date when it uses it.  *)
FrontSent == queue # <<>> /\ obj[Head(queue)].sends > 0
OnAir == busy /\ pc # "clear" /\ removing.step # "clear"
OthersHold == \A t \in Calling \ {Loop} : obj[call[t].cmd].kind \notin RemoveOldest
LoopSawBusy == busy /\ call[Loop].step \in {"remove", "place"} => call[Loop].front
FrontInv ==
    /\ pc \in {"front", "drop"} => queue # <<>>
    /\ pc \in {"drop", "tx", "pop"} => Head(queue) = cur
    /\ pc \in {"tx", "pop"} => FrontSent
    /\ OnAir => FrontSent
    /\ OthersHold
    /\ LoopSawBusy

(* What a task other than the main loop holds was requested by it.         *)
LEMMA RequestFront ==
    ASSUME TypeOK, OwnedInv, PlaceInv, FrontInv, OthersAppend,
           NEW t \in Tasks, NEW r \in MaySend[t], Request(t, r[1], r[2])
    PROVE  FrontInv'
<1>1. PICK c \in Cmds :
         /\ c \notin Queued /\ c \notin Called /\ c # cur
         /\ t \notin Calling /\ Calling' = Calling \cup {t}
         /\ \A u \in Calling : call'[u] = call[u]
         /\ call'[t] = [step |-> IF r[1] \in RemoveNewest THEN "insert" ELSE "status",
                        cmd |-> c, front |-> FALSE]
         /\ obj'[c] = [kind |-> r[1], inv |-> r[2], sends |-> 0]
         /\ \A d \in Cmds \ {c} : obj'[d] = obj[d]
         /\ UNCHANGED <<queue, busy, pc, cur, removing>>
  BY RequestFacts
<1>2. call'[t].cmd = c /\ obj'[c].kind = r[1]
  BY <1>1
<1>3. \A u \in Calling : call[u].cmd \in Cmds \ {c}
  BY <1>1, HeldTypes
<1>4. OthersHold'
  BY <1>1, <1>2, <1>3 DEF FrontInv, OthersHold, OthersAppend
<1>5. queue # <<>> => Head(queue) \in Cmds \ {c}
  BY <1>1, HeldTypes
<1>6. FrontSent => FrontSent'
  BY <1>1, <1>5 DEF FrontSent
<1>7. LoopSawBusy'
  <2>1. call'[t].step \notin {"remove", "place"}
    BY <1>1
  <2>2. t # Loop => call'[Loop] = call[Loop]
    BY RadioAssumption DEF Request, TypeOK
  <2> QED BY <1>1, <2>1, <2>2 DEF FrontInv, LoopSawBusy
<1> QED BY <1>1, <1>4, <1>6, <1>7 DEF FrontInv, OnAir

(* The steps of another task's request leave the front alone; so do those  *)
(* of the main loop's own while the radio is busy.                         *)
LEMMA TaskStepFront ==
    ASSUME TypeOK, OwnedInv, PlaceInv, FrontInv, NEW t \in Tasks, TaskStep(t)
    PROVE  FrontInv'
<1> DEFINE c == call[t].cmd
<1>1. /\ t \in Calling /\ UNCHANGED <<pc, cur, busy, removing>>
      /\ \A u \in Tasks \ {t} : call'[u] = call[u]
  BY StepOfRequest
<1>2. t = Loop => pc = "idle"
  BY <1>1 DEF PlaceInv, Calling
<1>3. t # Loop => obj[c].kind \notin RemoveOldest
  BY <1>1 DEF FrontInv, OthersHold
<1>4. call[t].step \in {"remove", "place"} => t = Loop /\ pc = "idle" /\ (busy => call[t].front)
  BY <1>1, <1>2, <1>3 DEF OwnedInv, RemoveOldest, HighPriority, FrontInv, LoopSawBusy
<1>5. LoopSawBusy'
  <2>1. CASE t # Loop
    BY <1>1, <2>1, RadioAssumption DEF FrontInv, LoopSawBusy
  <2>2. CASE t = Loop /\ ReadBusy(t)
    <3>1. call'[t].front = busy
      BY <2>2 DEF ReadBusy, TypeOK
    <3> QED BY <1>1, <2>2, <3>1 DEF LoopSawBusy
  <2>3. CASE t = Loop /\ ~ ReadBusy(t)
    <3>1. call'[t].step \notin {"remove", "place"}
      BY <2>3 DEF TaskStep, SetPending, InsertRemoveOldest, InsertRemoveNewest, Push,
         TypeOK, Calls, Idle
    <3> QED BY <2>3, <3>1 DEF LoopSawBusy
  <2> QED BY <2>1, <2>2, <2>3
<1>6. queue # <<>> /\ (busy \/ pc # "idle") => queue' # <<>> /\ Head(queue') = Head(queue)
  <2> SUFFICES ASSUME queue # <<>>, busy \/ pc # "idle"
               PROVE  queue' # <<>> /\ Head(queue') = Head(queue)
    OBVIOUS
  <2>1. CASE UNCHANGED queue
    BY <2>1
  <2>2. CASE InsertRemoveOldest(t)
    <3>1. call[t].front
      BY <1>4, <2>2 DEF InsertRemoveOldest
    <3> QED BY <2>2, <3>1, InsertDrops
  <2>3. CASE Push(t)
    <3>1. call[t].front \/ c \notin Highs
      BY <1>4, <2>3 DEF Push
    <3> QED BY <2>3, <3>1, PushFacts
  <2> QED BY <2>1, <2>2, <2>3 DEF TaskStep, SetPending, ReadBusy, InsertRemoveNewest
<1>7. ASSUME FrontSent, busy \/ pc # "idle" PROVE FrontSent'
  <2>1. queue' # <<>> /\ Head(queue') = Head(queue)
    BY <1>6, <1>7 DEF FrontSent
  <2>2. Head(queue') \in Queued' /\ Head(queue') \in Cmds
    BY <2>1, RangeMembers, TaskStepTypeOK DEF TypeOK, Queued
  <2>3. SameObject(Head(queue))
    <3>1. CASE Push(t)
      BY <3>1 DEF Push, SameObject
    <3>2. CASE ~ Push(t)
      <4>1. Keeps
        BY <3>2, TaskStepKeeps DEF TaskStep
      <4> QED BY <2>1, <2>2, <4>1 DEF Keeps
    <3> QED BY <3>1, <3>2
  <2> QED BY <1>7, <2>1, <2>3 DEF FrontSent, SameObject
<1>8. OthersHold'
  <2> SUFFICES ASSUME NEW u \in Calling' \ {Loop}
               PROVE  obj'[call'[u].cmd].kind \notin RemoveOldest
    BY DEF OthersHold
  <2>1. CASE Push(t)
    BY <2>1, PushFacts DEF FrontInv, OthersHold
  <2>2. CASE ~ Push(t)
    <3>0. Keeps
      BY <2>2, TaskStepKeeps DEF TaskStep
    <3>1. u \in Calling /\ call'[u].cmd = call[u].cmd /\ call[u].cmd \in Cmds
      BY <3>0, HeldTypes DEF Keeps
    <3>2. call[u].cmd \in Called'
      BY <3>1 DEF Called
    <3>3. obj'[call[u].cmd].kind = obj[call[u].cmd].kind
      BY <3>0, <3>1, <3>2 DEF Keeps, SameObject
    <3> QED BY <3>1, <3>3 DEF FrontInv, OthersHold
  <2> QED BY <2>1, <2>2
<1>9. pc # "idle" /\ queue # <<>> => queue' # <<>> /\ Head(queue') = Head(queue)
  BY <1>6
<1>10. /\ pc' \in {"front", "drop"} => queue' # <<>>
       /\ pc' \in {"drop", "tx", "pop"} => Head(queue') = cur'
  BY <1>1, <1>9 DEF FrontInv, FrontSent
<1>11. /\ pc' \in {"tx", "pop"} => FrontSent'
       /\ OnAir' => FrontSent'
  BY <1>1, <1>7 DEF FrontInv, OnAir
<1> QED BY <1>5, <1>8, <1>10, <1>11 DEF FrontInv

(* A step that asks for nothing new leaves the others' requests as they    *)
(* were, and the front's command sent when the queue stays.                *)
LEMMA KeepsOthers ==
    ASSUME TypeOK, FrontInv, Keeps, UNCHANGED call
    PROVE  /\ OthersHold'
           /\ (busy' => busy) => LoopSawBusy'
           /\ UNCHANGED queue /\ FrontSent => FrontSent'
<1>1. \A t \in Calling' : /\ t \in Calling /\ call'[t].cmd = call[t].cmd
                          /\ call[t].cmd \in Called' /\ call[t].cmd \in Cmds
  BY HeldTypes DEF Keeps, Called
<1>2. \A t \in Calling' : obj'[call[t].cmd].kind = obj[call[t].cmd].kind
  BY <1>1 DEF Keeps, SameObject
<1>3. ASSUME UNCHANGED queue, FrontSent PROVE FrontSent'
  <2>1. Head(queue') = Head(queue) /\ Head(queue) \in Cmds /\ Head(queue) \in Queued'
    BY <1>3, HeldTypes DEF FrontSent, Queued
  <2>2. SameObject(Head(queue))
    BY <2>1 DEF Keeps
  <2> QED BY <1>3, <2>1, <2>2 DEF FrontSent, SameObject
<1> QED BY <1>1, <1>2, <1>3 DEF FrontInv, OthersHold, LoopSawBusy

(* The main loop's steps: what begins to be sent is the front, what is on  *)
(* the air stays the front, and what is popped was.                        *)
LEMMA RadioStepFront ==
    ASSUME TypeOK, OwnedInv, PlaceInv, FrontInv, CheckQueue \/ Tx \/ EndTxAgain \/ Removal
    PROVE  FrontInv'
<1>1. Keeps
  BY RadioStepKeeps
<1>2. UNCHANGED call
  BY DEF CheckQueue, Tx, TxInvalidInverter, BeginTx, EndTxAwaitAnswer, EndTxComplete,
         PopFinished, ClearBusy, EndTxAgain, Removal, RemovedFront, EraseInverter
<1>3. /\ OthersHold'
      /\ (busy' => busy) => LoopSawBusy'
      /\ UNCHANGED queue /\ FrontSent => FrontSent'
  BY <1>1, <1>2, KeepsOthers
<1>4. busy' /\ pc = "idle" => LoopSawBusy'
  <2>1. busy' /\ pc = "idle" => busy
    BY DEF CheckQueue, Tx, TxInvalidInverter, BeginTx, EndTxAwaitAnswer, EndTxComplete,
       PopFinished, ClearBusy, EndTxAgain, Removal, RemovedFront, EraseInverter, radioVars
  <2> QED BY <1>3, <2>1
<1>5. pc # "idle" => LoopSawBusy'
  <2>1. pc # "idle" => call'[Loop].step = "idle"
    BY <1>2 DEF PlaceInv, Idle
  <2> QED BY <2>1 DEF LoopSawBusy
<1>6. LoopSawBusy'
  BY <1>4, <1>5 DEF LoopSawBusy
<1>7. CASE CheckQueue
  BY <1>3, <1>6, <1>7 DEF CheckQueue, FrontInv, OnAir, inverterVars
<1>8. CASE TxInvalidInverter
  BY <1>3, <1>6, <1>8 DEF TxInvalidInverter, FrontInv, PlaceInv, OnAir, inverterVars
<1>9. CASE BeginTx
  <2>1. queue # <<>> /\ UNCHANGED queue /\ Transmit(Head(queue)) /\ cur' = Head(queue)
        /\ pc' = "tx" /\ ~busy' /\ pc = "front"
    BY <1>9 DEF BeginTx, PlaceInv
  <2>2. Head(queue) \in Cmds /\ obj[Head(queue)].kind \in Kinds
    BY <2>1, HeldTypes DEF OwnedInv
  <2>3. obj'[Head(queue)].sends > 0
    BY <2>1, <2>2, TransmitKeeps
  <2> QED BY <1>3, <1>6, <2>1, <2>3 DEF FrontInv, FrontSent
<1>10. CASE EndTxAwaitAnswer
  BY <1>3, <1>6, <1>10 DEF EndTxAwaitAnswer, FrontInv
<1>11. CASE EndTxAgain
  BY <1>3, <1>6, <1>11 DEF EndTxAgain, FrontInv, OnAir, radioVars
<1>12. CASE EndTxComplete
  BY <1>3, <1>6, <1>12 DEF EndTxComplete, FrontInv
<1>13. CASE PopFinished
  <2>1. \/ pc' = "clear"
        \/ pc' = "idle" /\ ~busy'
    BY <1>13 DEF PopFinished, PlaceInv
  <2> QED BY <1>3, <1>6, <2>1 DEF FrontInv, OnAir
<1>14. CASE ClearBusy
  BY <1>3, <1>6, <1>14 DEF ClearBusy, FrontInv, OnAir
<1>15. CASE Removal
  <2>1. removing # NoRemoval
    BY <1>15 DEF Removal, RemovedFront, EraseInverter, NoRemoval
  <2>2. pc = "idle" /\ pc' = "idle" /\ UNCHANGED queue
    BY <1>15, <2>1 DEF Removal, RemovedFront, EraseInverter, PlaceInv, radioVars
  <2>3. OnAir' => OnAir
    BY <1>15, <2>2 DEF Removal, RemovedFront, EraseInverter, OnAir, radioVars
  <2> QED BY <1>3, <1>6, <2>2, <2>3 DEF FrontInv
<1> QED BY <1>7, <1>8, <1>9, <1>10, <1>11, <1>12, <1>13, <1>14, <1>15 DEF Tx

(* The end of an rx period finishes the front, which has been sent.        *)
LEMMA RxEndFront ==
    ASSUME TypeOK, OwnedInv, PlaceInv, FrontInv, RxEnd
    PROVE  FrontInv'
<1>1. PICK c \in Cmds : \/ RxInvalidInverter(c) \/ RxResend(c) \/ RxRetransmit(c)
                         \/ RxFail(c) \/ RxSuccess(c)
  BY DEF RxEnd
<1>2. RxPeriodEnd(c) /\ Keeps /\ UNCHANGED call
  BY <1>1, RxEndKeeps DEF RxInvalidInverter, RxResend, RxRetransmit, RxFail,
                          RxSuccess, Finish
<1>3. /\ OthersHold'
      /\ (busy' => busy) => LoopSawBusy'
      /\ UNCHANGED queue /\ FrontSent => FrontSent'
  BY <1>2, KeepsOthers
<1>4. /\ pc = "idle" /\ removing.step # "clear" /\ c = Head(queue)
      /\ busy
  BY <1>2 DEF RxPeriodEnd, LoopFree, NoRemoval
<1>5. FrontSent
  BY <1>4 DEF FrontInv, OnAir
<1>6. CASE Finish(c)
  BY <1>3, <1>4, <1>5, <1>6 DEF Finish, FrontInv
<1>7. CASE RxResend(c) \/ RxRetransmit(c)
  BY <1>3, <1>4, <1>5, <1>7 DEF RxResend, RxRetransmit, radioVars, FrontInv
<1> QED BY <1>1, <1>6, <1>7 DEF RxInvalidInverter, RxFail, RxSuccess

(* Frames that arrive change no command; removing an inverter's commands   *)
(* leaves the front or announces that the radio is freed.                  *)
LEMMA InverterStepFront ==
    ASSUME TypeOK, OwnedInv, PlaceInv, FrontInv, NEW i \in Inverters,
           ReceivePart(i) \/ RemoveCommands(i) \/ \E a \in owed[i] : ReceiveAll(i, a)
    PROVE  FrontInv'
<1>1. Keeps /\ UNCHANGED <<call, busy, pc, cur>>
  BY InverterStepKeeps DEF ReceivePart, ReceiveAll, RemoveCommands, radioVars
<1>2. /\ OthersHold'
      /\ LoopSawBusy'
      /\ UNCHANGED queue /\ FrontSent => FrontSent'
  BY <1>1, KeepsOthers DEF LoopSawBusy
<1>3. CASE ReceivePart(i) \/ \E a \in owed[i] : ReceiveAll(i, a)
  BY <1>1, <1>2, <1>3 DEF ReceivePart, ReceiveAll, radioVars, FrontInv, OnAir
<1>4. CASE RemoveCommands(i)
  <2>1. /\ pc' = "idle" /\ queue \in Seq(Cmds) /\ removing.step # "clear"
        /\ queue' = RemoveAllEntries(queue, Mine(i))
        /\ removing'.step # "clear" => ~ (queue # <<>> /\ obj[Head(queue)].inv = i)
    BY <1>4 DEF RemoveCommands, HoymilesMutexFree, TypeOK, radioVars, NoRemoval
  <2>2. ASSUME OnAir' PROVE FrontSent'
    <3>1. OnAir /\ FrontSent /\ Head(queue) \notin Mine(i)
      BY <1>1, <2>1, <2>2 DEF FrontInv, FrontSent, Mine, OnAir
    <3>2. queue' # <<>> /\ Head(queue') = Head(queue)
      BY <2>1, <3>1, RemoveAllMembers DEF FrontSent
    <3>3. queue' \in Seq(Cmds)
      BY <1>4, InverterStepTypeOK DEF TypeOK
    <3>4. Head(queue) \in Queued' /\ Head(queue) \in Cmds
      BY <3>2, <3>3, RangeMembers DEF Queued
    <3>5. SameObject(Head(queue))
      BY <1>1, <3>4 DEF Keeps
    <3> QED BY <3>1, <3>2, <3>5 DEF FrontSent, SameObject
  <2> QED BY <1>2, <2>1, <2>2 DEF FrontInv
<1> QED BY <1>3, <1>4

(* The reads of the front agree, and what they agree on was sent.          *)
LEMMA FrontCorrect ==
    ASSUME OthersAppend
    PROVE  Spec => []FrontInv
<1>1. Init => FrontInv
  <2> SUFFICES ASSUME Init PROVE FrontInv
    OBVIOUS
  <2>1. Calling = {}
    BY DEF Init, Calling
  <2> QED BY <2>1 DEF Init, FrontInv, OthersHold, LoopSawBusy, OnAir
<1>2. TypeOK /\ OwnedInv /\ PlaceInv /\ FrontInv /\ [Next]_vars => FrontInv'
  <2>1. FrontInv /\ UNCHANGED vars => FrontInv'
    BY DEF FrontInv, FrontSent, OthersHold, LoopSawBusy, OnAir, Calling, vars
  <2> QED
    BY <2>1, RequestFront, TaskStepFront, RadioStepFront, RxEndFront, InverterStepFront
    DEF Next
<1> QED BY <1>1, <1>2, TypeCorrect, CommandsApart, PTL DEF Spec

(* A busy radio waits for the answer to the command at the front, and that *)
(* command has been sent: an answer is never booked on another command.    *)
THEOREM InFlightIsFrontCorrect ==
    ASSUME OthersAppend
    PROVE  Spec => []InFlightIsFront
<1>1. FrontInv => InFlightIsFront
  BY DEF FrontInv, FrontSent, OnAir, InFlightIsFront
<1> QED BY <1>1, FrontCorrect, PTL

(* The command the main loop transmits through its raw pointer is owned by *)
(* the queue the whole time, and pop() takes off the one that finished.    *)
THEOREM SentCommandIsQueuedCorrect ==
    ASSUME OthersAppend
    PROVE  Spec => []SentCommandIsQueued
<1>1. TypeOK /\ FrontInv => SentCommandIsQueued
  BY HeldTypes DEF FrontInv, FrontSent, SentCommandIsQueued
<1> QED BY <1>1, FrontCorrect, TypeCorrect, PTL

(* What turns a status OK: the end of a transmission, or an answer or a    *)
(* timeout while the radio is busy.                                        *)
LEMMA OkSources ==
    ASSUME TypeOK, OwnedInv, PlaceInv, FrontInv, Next, NEW i \in Inverters,
           \/ limitStatus[i] # "OK" /\ limitStatus'[i] = "OK"
           \/ powerStatus[i] # "OK" /\ powerStatus'[i] = "OK"
    PROVE  FrontSent
<1>1. ~ (UNCHANGED <<limitStatus, powerStatus>>)
  OBVIOUS
<1>2. ASSUME NEW t \in Tasks, TaskStep(t) PROVE FALSE
  <2>1. SetPending(t)
    BY <1>1, <1>2 DEF TaskStep, ReadBusy, InsertRemoveOldest, InsertRemoveNewest, Push,
       inverterVars
  <2> QED BY <2>1 DEF SetPending, TypeOK
<1>3. CASE CheckQueue \/ Tx \/ EndTxAgain \/ Removal
  <2>1. pc = "tx"
    BY <1>1, <1>3 DEF CheckQueue, Tx, TxInvalidInverter, BeginTx, EndTxAwaitAnswer,
       EndTxComplete, PopFinished, ClearBusy, EndTxAgain, Removal, RemovedFront,
       EraseInverter, inverterVars
  <2> QED BY <2>1 DEF FrontInv
<1>4. CASE RxEnd
  <2>1. busy /\ pc = "idle" /\ removing = NoRemoval
    BY <1>4 DEF RxEnd, RxInvalidInverter, RxResend, RxRetransmit, RxFail, RxSuccess,
                RxPeriodEnd, LoopFree
  <2> QED BY <2>1 DEF FrontInv, OnAir, NoRemoval
<1> QED
  BY <1>1, <1>2, <1>3, <1>4 DEF Next, Request, inverterVars, ReceivePart, ReceiveAll,
     RemoveCommands

(* An inverter's status turns OK only for a command that was transmitted.  *)
THEOREM OkOnlyAfterSendCorrect ==
    ASSUME OthersAppend
    PROVE  Spec => OkOnlyAfterSend
<1> DEFINE Turns == \A i \in Inverters :
              \/ limitStatus[i] # "OK" /\ limitStatus'[i] = "OK"
              \/ powerStatus[i] # "OK" /\ powerStatus'[i] = "OK"
              => queue # <<>> /\ obj[Head(queue)].sends > 0
<1>1. TypeOK /\ OwnedInv /\ PlaceInv /\ FrontInv /\ [Next]_vars => [Turns]_vars
  BY OkSources DEF FrontSent
<1> HIDE DEF Turns
<1>2. Spec => [][Turns]_vars
  BY <1>1, FrontCorrect, TypeCorrect, CommandsApart, PTL DEF Spec
<1> QED BY <1>2 DEF OkOnlyAfterSend, Turns

-----------------------------------------------------------------------------
(* A PENDING status has a command underway.                                *)

(* The command a status waits for is not the one that has just finished   *)
(* and is about to be popped.                                              *)
Leaving == IF pc = "pop" THEN {cur} ELSE {}
Waiting == (Queued \ Leaving) \cup Called
Present == known \ {removing.inv}
Answers(c, i, kinds) == obj[c].inv = i /\ obj[c].kind \in kinds
PowerKinds == {"powerTx", "power", "restart"}
LimitPending(i) == limitStatus[i] = "PENDING" => \E c \in Waiting : Answers(c, i, {"limit"})
PowerPending(i) == powerStatus[i] = "PENDING" => \E c \in Waiting : Answers(c, i, PowerKinds)
PendInv == \A i \in Present : LimitPending(i) /\ PowerPending(i)

(* What is popped without having been sent is of no known inverter.        *)
DropsUnknown == pc = "drop" => obj[cur].inv \notin known

(* After the step another command (or the same) stands for c, as far as    *)
(* the two statuses of an inverter are concerned.                          *)
StandsFor(d, c) ==
    /\ obj'[d].inv = obj[c].inv
    /\ obj[c].kind = "limit" => obj'[d].kind = "limit"
    /\ obj[c].kind \in PowerKinds => obj'[d].kind \in PowerKinds
Resolved(c) ==
    \/ obj[c].kind = "limit" /\ limitStatus'[obj[c].inv] # "PENDING"
    \/ obj[c].kind \in PowerKinds /\ powerStatus'[obj[c].inv] # "PENDING"
    \/ obj[c].kind \notin {"limit"} \cup PowerKinds
    \/ obj[c].inv \notin Present'

(* What it takes for a step: every waiting command finds a stand-in or is  *)
(* resolved, and what becomes PENDING has a command.                       *)
LEMMA PendInvKept ==
    ASSUME PendInv, Present' \subseteq Present,
           \A c \in Waiting : Resolved(c) \/ \E d \in Waiting' : StandsFor(d, c),
           \A i \in Present' :
              /\ limitStatus'[i] = "PENDING" =>
                    limitStatus[i] = "PENDING"
                    \/ \E d \in Waiting' : obj'[d].inv = i /\ obj'[d].kind = "limit"
              /\ powerStatus'[i] = "PENDING" =>
                    powerStatus[i] = "PENDING"
                    \/ \E d \in Waiting' : obj'[d].inv = i /\ obj'[d].kind \in PowerKinds
    PROVE  PendInv'
<1> SUFFICES ASSUME NEW i \in Present' PROVE LimitPending(i)' /\ PowerPending(i)'
  BY DEF PendInv
<1>1. "limit" \notin PowerKinds
  BY DEF PowerKinds
<1>2. LimitPending(i)'
  <2> SUFFICES ASSUME limitStatus'[i] = "PENDING"
               PROVE  \E d \in Waiting' : obj'[d].inv = i /\ obj'[d].kind = "limit"
    BY DEF LimitPending, Answers
  <2>1. CASE limitStatus[i] = "PENDING"
    <3>1. PICK c \in Waiting : obj[c].inv = i /\ obj[c].kind = "limit"
      BY <2>1 DEF PendInv, LimitPending, Answers
    <3>2. ~ Resolved(c)
      BY <1>1, <3>1 DEF Resolved
    <3> QED BY <3>1, <3>2 DEF StandsFor
  <2> QED BY <2>1
<1>3. PowerPending(i)'
  <2> SUFFICES ASSUME powerStatus'[i] = "PENDING"
               PROVE  \E d \in Waiting' : obj'[d].inv = i /\ obj'[d].kind \in PowerKinds
    BY DEF PowerPending, Answers
  <2>1. CASE powerStatus[i] = "PENDING"
    <3>1. PICK c \in Waiting : obj[c].inv = i /\ obj[c].kind \in PowerKinds
      BY <2>1 DEF PendInv, PowerPending, Answers
    <3>2. ~ Resolved(c)
      BY <1>1, <3>1 DEF Resolved
    <3> QED BY <3>1, <3>2 DEF StandsFor
  <2> QED BY <2>1
<1> QED BY <1>2, <1>3

(* A command that is still held stands for itself.                         *)
LEMMA SelfStandsFor ==
    ASSUME TypeOK, Keeps, NEW c \in Waiting, c \in Waiting'
    PROVE  StandsFor(c, c)
<1>1. c \in Cmds /\ c \in Queued' \cup Called'
  BY HeldTypes DEF Waiting
<1> QED BY <1>1 DEF Keeps, SameObject, StandsFor

(* A request that begins, and a push, lose no command.                     *)
LEMMA RequestPending ==
    ASSUME TypeOK, OwnedInv, PlaceInv, PendInv,
           NEW t \in Tasks, NEW r \in MaySend[t], Request(t, r[1], r[2])
    PROVE  PendInv'
<1>1. PICK c \in Cmds :
         /\ c \notin Queued /\ c \notin Called
         /\ Calling' = Calling \cup {t} /\ \A u \in Calling : call'[u] = call[u]
         /\ \A d \in Cmds \ {c} : obj'[d] = obj[d]
         /\ UNCHANGED <<queue, pc, cur, limitStatus, powerStatus, known, removing>>
  BY RequestFacts
<1>2. Called \subseteq Called' /\ Queued' = Queued /\ Leaving' = Leaving
      /\ Present' = Present
  BY <1>1 DEF Called, Queued, Leaving, Present
<1>3. \A d \in Waiting : d \in Waiting' /\ d \in Cmds \ {c}
  BY <1>1, <1>2, HeldTypes DEF Waiting
<1>4. \A d \in Waiting : StandsFor(d, d)
  BY <1>1, <1>3 DEF StandsFor
<1> QED BY <1>1, <1>2, <1>3, <1>4, PendInvKept

LEMMA PushPending ==
    ASSUME TypeOK, OwnedInv, PendInv, NEW t \in Tasks, Push(t)
    PROVE  PendInv'
<1> DEFINE c == call[t].cmd
<1>1. /\ t \in Calling /\ c \in Cmds
      /\ Queued' = Queued \cup {c} /\ Called' = Called \ {c}
      /\ UNCHANGED <<obj, pc, cur, limitStatus, powerStatus, known, removing>>
  BY PushFacts
<1>2. Leaving' = Leaving /\ c \notin Leaving /\ Present' = Present
  BY <1>1 DEF Leaving, OwnedInv, Present
<1>3. \A d \in Waiting : d \in Waiting' /\ StandsFor(d, d)
  BY <1>1, <1>2 DEF Waiting, StandsFor
<1> QED BY <1>1, <1>2, <1>3, PendInvKept

(* Setting PENDING, the command is at hand; removing similar commands, the *)
(* new one takes their place; dropping a new poll loses nobody's command.  *)
LEMMA TaskStepPending ==
    ASSUME TypeOK, OwnedInv, PlaceInv, PendInv, NEW t \in Tasks,
           SetPending(t) \/ ReadBusy(t) \/ InsertRemoveOldest(t) \/ InsertRemoveNewest(t)
    PROVE  PendInv'
<1> DEFINE c == call[t].cmd  i == obj[c].inv
<1>1. /\ t \in Calling /\ UNCHANGED <<pc, cur, known, removing>> /\ Present' = Present
      /\ \A u \in Tasks \ {t} : call'[u] = call[u]
  BY StepOfRequest DEF TaskStep, Present
<1>2. c \in Cmds /\ c \in Called /\ obj[c].kind \in Kinds /\ Keeps /\ Leaving' = Leaving
      /\ c \in Waiting
  BY <1>1, HeldTypes, TaskStepKeeps DEF OwnedInv, Leaving, Waiting
<1>3. ASSUME call'[t].cmd = c, call'[t] # Idle PROVE Called' = Called
  <2>1. Calling' = Calling
    BY <1>1, <1>3 DEF Calling
  <2>2. \A u \in Calling : call'[u].cmd = call[u].cmd
    BY <1>1, <1>3 DEF Calling
  <2> QED BY <2>1, <2>2 DEF Called
<1>4. ASSUME NEW s \in {"insert", "push"}, call' = [call EXCEPT ![t].step = s]
      PROVE  Called' = Called
  <2>1. call[t] \in [step : {"status", "insert", "remove", "push", "place"},
                      cmd : Cmds, front : BOOLEAN]
    BY <1>1 DEF TypeOK, Calls, Calling
  <2>2. call'[t].cmd = c /\ call'[t].step = s
    BY <1>4, <2>1 DEF TypeOK
  <2>3. call'[t] # Idle
    BY <2>2 DEF Idle
  <2> QED BY <1>3, <2>2, <2>3
<1>5. CASE SetPending(t)
  <2>1. Called' = Called /\ UNCHANGED <<queue, obj>> /\ Waiting' = Waiting
    BY <1>2, <1>4, <1>5 DEF SetPending, Waiting, Queued
  <2>2. \A d \in Waiting : StandsFor(d, d)
    BY <2>1 DEF StandsFor
  <2>3. obj[c].kind \in {"limit"} \cup PowerKinds
    BY <1>1, <1>2, <1>5 DEF OwnedInv, SetPending, Kinds, PowerKinds
  <2>0. /\ limitStatus \in [Inverters -> Statuses] /\ powerStatus \in [Inverters -> Statuses]
        /\ Present' \subseteq Inverters
    BY <1>1 DEF TypeOK, Present
  <2>4. \A j \in Present' : limitStatus'[j] = "PENDING" =>
           limitStatus[j] = "PENDING" \/ (j = i /\ obj[c].kind = "limit")
    BY <1>5, <2>0 DEF SetPending
  <2>5. \A j \in Present' : powerStatus'[j] = "PENDING" =>
           powerStatus[j] = "PENDING" \/ (j = i /\ obj[c].kind # "limit")
    BY <1>5, <2>0 DEF SetPending
  <2> HIDE DEF c, i
  <2>6. \A j \in Present' :
           /\ limitStatus'[j] = "PENDING" =>
                 limitStatus[j] = "PENDING"
                 \/ \E d \in Waiting' : obj'[d].inv = j /\ obj'[d].kind = "limit"
           /\ powerStatus'[j] = "PENDING" =>
                 powerStatus[j] = "PENDING"
                 \/ \E d \in Waiting' : obj'[d].inv = j /\ obj'[d].kind \in PowerKinds
    BY <1>2, <2>1, <2>3, <2>4, <2>5 DEF i
  <2> QED BY <1>1, <2>1, <2>2, <2>6, PendInvKept
<1>6. CASE InsertRemoveOldest(t)
  <2>1. Called' = Called /\ UNCHANGED <<limitStatus, powerStatus>>
    BY <1>4, <1>6 DEF InsertRemoveOldest, inverterVars
  <2>2. \A d \in Queued : d \notin SameParameter(c) => d \in Queued'
    BY <1>6, InsertDrops
  <2>3. c \in Waiting' /\ StandsFor(c, c)
    BY <1>2, <2>1, SelfStandsFor DEF Waiting
  <2> HIDE DEF c
  <2>4. ASSUME NEW d \in Waiting PROVE \E e \in Waiting' : StandsFor(e, d)
    <3>1. CASE d \in Waiting'
      BY <1>2, <3>1, SelfStandsFor
    <3>2. CASE d \notin Waiting'
      <4>1. d \in SameParameter(c)
        BY <1>2, <2>1, <2>2, <3>2 DEF Waiting
      <4>2. obj[d].inv = obj[c].inv /\ ParameterOf(obj[d].kind) = ParameterOf(obj[c].kind)
        BY <4>1 DEF SameParameter
      <4>3. obj[d].kind = "limit" => obj[c].kind = "limit"
        BY <1>2, <4>2 DEF ParameterOf, Kinds
      <4>4. obj[d].kind \in PowerKinds => obj[c].kind \in PowerKinds
        BY <1>1, <1>6, <1>2, <4>2 DEF InsertRemoveOldest, OwnedInv, HighPriority,
           ParameterOf, Kinds, PowerKinds, c
      <4>5. StandsFor(c, d)
        BY <2>3, <4>2, <4>3, <4>4 DEF StandsFor
      <4> QED BY <2>3, <4>5
    <3> QED BY <3>1, <3>2
  <2> QED BY <1>1, <2>1, <2>4, PendInvKept
<1>8. CASE ReadBusy(t)
  <2>1. call'[t].cmd = c /\ call'[t].step \in {"remove", "place"}
        /\ UNCHANGED <<queue, obj, limitStatus, powerStatus>>
    BY <1>8 DEF ReadBusy, TypeOK, inverterVars
  <2>2. call'[t] # Idle
    BY <2>1 DEF Idle
  <2>3. Called' = Called
    BY <1>3, <2>1, <2>2
  <2>4. Waiting' = Waiting
    BY <1>2, <2>1, <2>3 DEF Waiting, Queued
  <2>5. \A d \in Waiting : StandsFor(d, d)
    BY <2>1 DEF StandsFor
  <2> QED BY <1>1, <2>1, <2>4, <2>5, PendInvKept
<1>7. CASE InsertRemoveNewest(t)
  <2>1. UNCHANGED <<queue, limitStatus, powerStatus>> /\ Queued' = Queued
    BY <1>7 DEF InsertRemoveNewest, inverterVars, Queued
  <2>2. obj[c].kind = "poll"
    BY <1>7 DEF InsertRemoveNewest, RemoveNewest
  <2>3. \A d \in Called : d = c \/ d \in Called'
    BY <1>1 DEF Called, Calling
  <2> HIDE DEF c
  <2>4. ASSUME NEW d \in Waiting, d # c PROVE StandsFor(d, d) /\ d \in Waiting'
    BY <1>2, <2>1, <2>3, <2>4, SelfStandsFor DEF Waiting
  <2>5. Resolved(c)
    BY <2>2 DEF Resolved, PowerKinds
  <2> QED BY <1>1, <2>1, <2>4, <2>5, PendInvKept
<1> QED BY <1>5, <1>6, <1>7, <1>8

(* A command that finishes resolves its status, or another one of the same *)
(* parameter is queued for it; and nothing becomes PENDING.                *)
LEMMA FinishResolves ==
    ASSUME TypeOK, OwnedInv, Present' = Present, NEW c \in Queued,
           HandleSuccess(c) \/ GotTimeout(c)
    PROVE  /\ \/ Resolved(c)
              \/ \E d \in Queued \ {c} : obj[d].kind = "limit" /\ obj[c].kind = "limit"
                                         /\ obj[d].inv = obj[c].inv
           /\ \A i \in Present' :
                 /\ limitStatus'[i] = "PENDING" => limitStatus[i] = "PENDING"
                 /\ powerStatus'[i] = "PENDING" => powerStatus[i] = "PENDING"
<1> DEFINE i == obj[c].inv
<1>1. /\ limitStatus \in [Inverters -> Statuses] /\ powerStatus \in [Inverters -> Statuses]
      /\ Present' \subseteq Inverters /\ c \in Cmds /\ i \in Inverters
  BY HeldTypes DEF TypeOK, OwnedInv, Present
<1>2. CASE HandleSuccess(c)
  <2>1. CASE obj[c].kind = "limit"
    <3>1. ApplyLimit(c) /\ UNCHANGED powerStatus
      BY <1>2, <2>1 DEF HandleSuccess, Kinds
    <3>2. CASE Cardinality(SameParameter(c) \cap Queued) = 1
      <4>1. limitStatus' = [limitStatus EXCEPT ![i] = "OK"]
        BY <3>1, <3>2 DEF ApplyLimit
      <4>2. limitStatus'[i] # "PENDING"
        BY <1>1, <4>1
      <4>3. Resolved(c)
        BY <2>1, <4>2 DEF Resolved
      <4> QED BY <1>1, <3>1, <4>1, <4>3
    <3>3. CASE Cardinality(SameParameter(c) \cap Queued) # 1
      <4>1. UNCHANGED limitStatus
        BY <3>1, <3>3 DEF ApplyLimit
      <4>2. SameParameter(c) \cap Queued # {c}
        BY <3>3, FS_Singleton
      <4>3. c \in SameParameter(c) \cap Queued
        BY <1>1 DEF SameParameter
      <4>4. PICK d \in SameParameter(c) \cap Queued : d # c
        BY <4>2, <4>3
      <4>5. obj[d].inv = i /\ obj[d].kind = "limit"
        BY <2>1, <4>4 DEF SameParameter, ParameterOf
      <4> QED BY <2>1, <3>1, <4>1, <4>4, <4>5
    <3> QED BY <3>2, <3>3
  <2>2. CASE obj[c].kind \in PowerKinds
    <3>1. powerStatus' = [powerStatus EXCEPT ![i] = "OK"] /\ UNCHANGED limitStatus
      BY <1>2, <2>2 DEF HandleSuccess, ApplyPowerState, PowerKinds, Kinds
    <3>2. powerStatus'[i] # "PENDING"
      BY <1>1, <3>1
    <3>3. Resolved(c)
      BY <2>2, <3>2 DEF Resolved
    <3> QED BY <1>1, <3>1, <3>3
  <2>3. CASE obj[c].kind \notin {"limit"} \cup PowerKinds
    <3>1. Resolved(c)
      BY <2>3 DEF Resolved
    <3>2. UNCHANGED <<limitStatus, powerStatus>>
      BY <1>2, <2>3 DEF HandleSuccess, PowerKinds
    <3> QED BY <3>1, <3>2
  <2> QED BY <2>1, <2>2, <2>3
<1>3. CASE GotTimeout(c)
  <2>1. CASE obj[c].kind = "limit"
    <3>1. limitStatus' = [limitStatus EXCEPT ![i] = "NOK"] /\ UNCHANGED powerStatus
      BY <1>3, <2>1 DEF GotTimeout, Kinds
    <3>2. limitStatus'[i] # "PENDING"
      BY <1>1, <3>1
    <3>3. Resolved(c)
      BY <2>1, <3>2 DEF Resolved
    <3> QED BY <1>1, <3>1, <3>3
  <2>2. CASE obj[c].kind \in PowerKinds
    <3>1. /\ UNCHANGED limitStatus
          /\ \/ powerStatus' = [powerStatus EXCEPT ![i] = "OK"]
             \/ powerStatus' = [powerStatus EXCEPT ![i] = "NOK"]
      BY <1>3, <2>2 DEF GotTimeout, ApplyPowerState, PowerKinds, Kinds
    <3>2. powerStatus'[i] # "PENDING"
      BY <1>1, <3>1
    <3>3. Resolved(c)
      BY <2>2, <3>2 DEF Resolved
    <3> QED BY <1>1, <3>1, <3>3
  <2>3. CASE obj[c].kind \notin {"limit"} \cup PowerKinds
    <3>1. Resolved(c)
      BY <2>3 DEF Resolved
    <3>2. UNCHANGED <<limitStatus, powerStatus>>
      BY <1>3, <2>3 DEF GotTimeout, ApplyPowerState, PowerKinds
    <3> QED BY <3>1, <3>2
  <2> QED BY <2>1, <2>2, <2>3
<1> QED BY <1>2, <1>3

(* So a step in which c finishes, and c alone leaves, loses nothing.       *)
LEMMA FinishPending ==
    ASSUME TypeOK, OwnedInv, PendInv, Keeps, Present' = Present, NEW c \in Queued,
           HandleSuccess(c) \/ GotTimeout(c),
           \A d \in Waiting : d # c => d \in Waiting',
           Queued \ {c} \subseteq Waiting'
    PROVE  PendInv'
<1>1. \A d \in Waiting : d # c => StandsFor(d, d)
  BY SelfStandsFor
<1>2. Resolved(c) \/ \E e \in Waiting' : StandsFor(e, c)
  <2>1. CASE Resolved(c)
    BY <2>1
  <2>2. CASE \E d \in Queued \ {c} : obj[d].kind = "limit" /\ obj[c].kind = "limit"
                                      /\ obj[d].inv = obj[c].inv
    <3>1. PICK d \in Queued \ {c} : obj[d].kind = "limit" /\ obj[c].kind = "limit"
                                    /\ obj[d].inv = obj[c].inv
      BY <2>2
    <3>2. d \in Waiting' /\ d \in Cmds
      BY HeldTypes
    <3>3. SameObject(d)
      BY <3>2 DEF Waiting, Keeps
    <3>4. StandsFor(d, c)
      BY <3>1, <3>3 DEF SameObject, StandsFor, PowerKinds
    <3> QED BY <3>2, <3>4
  <2> QED BY <2>1, <2>2, FinishResolves
<1>3. \A i \in Present' :
         /\ limitStatus'[i] = "PENDING" => limitStatus[i] = "PENDING"
         /\ powerStatus'[i] = "PENDING" => powerStatus[i] = "PENDING"
  BY FinishResolves
<1> QED BY <1>1, <1>2, <1>3, PendInvKept

(* A step of the radio that resolves nothing and lets go of no command of  *)
(* an inverter that stays.                                                 *)
LEMMA QuietPending ==
    ASSUME TypeOK, PendInv, Keeps, Present' \subseteq Present,
           UNCHANGED <<call, limitStatus, powerStatus>>,
           \A c \in Queued \ Leaving :
               obj[c].inv \in Present' => c \in Queued' /\ c \notin Leaving'
    PROVE  PendInv'
<1>1. Called' = Called
  BY DEF Called, Calling
<1>2. ASSUME NEW c \in Waiting PROVE Resolved(c) \/ (c \in Waiting' /\ StandsFor(c, c))
  <2>1. CASE c \in Called \/ obj[c].inv \in Present'
    <3>1. c \in Waiting'
      BY <1>1, <2>1 DEF Waiting
    <3> QED BY <3>1, SelfStandsFor
  <2>2. CASE obj[c].inv \notin Present'
    BY <2>2 DEF Resolved
  <2> QED BY <2>1, <2>2
<1> QED BY <1>2, PendInvKept

(* The main loop's steps: what is popped has finished or is of nobody.     *)
LEMMA RadioStepPending ==
    ASSUME TypeOK, OwnedInv, PlaceInv, PendInv, FrontInv, DropsUnknown,
           CheckQueue \/ Tx \/ EndTxAgain \/ Removal
    PROVE  PendInv'
<1>1. Keeps /\ UNCHANGED call
  BY RadioStepKeeps DEF CheckQueue, Tx, TxInvalidInverter, BeginTx, EndTxAwaitAnswer,
     EndTxComplete, PopFinished, ClearBusy, EndTxAgain, Removal, RemovedFront, EraseInverter
<1>2. Called' = Called
  BY <1>1 DEF Called, Calling
<1>3. CASE CheckQueue \/ TxInvalidInverter \/ BeginTx \/ EndTxAwaitAnswer \/ EndTxAgain
           \/ ClearBusy
  <2>1. /\ Leaving' = {} /\ UNCHANGED <<limitStatus, powerStatus>> /\ Queued' = Queued
        /\ Present' = Present
    BY <1>3 DEF CheckQueue, TxInvalidInverter, BeginTx, EndTxAwaitAnswer, EndTxAgain,
       ClearBusy, Leaving, Queued, Present, inverterVars, radioVars
  <2> QED BY <1>1, <2>1, QuietPending
<1>4. CASE EndTxComplete
  <2>1. /\ HandleSuccess(cur) /\ cur \in Queued /\ Queued' = Queued
        /\ Leaving = {} /\ Leaving' = {cur} /\ Present' = Present
    BY <1>4, HeldTypes DEF EndTxComplete, FrontInv, FrontSent, Leaving, Queued, Present
  <2>2. \A d \in Waiting : d # cur => d \in Waiting'
    BY <1>2, <2>1 DEF Waiting
  <2>3. Queued \ {cur} \subseteq Waiting'
    BY <2>1 DEF Waiting
  <2> QED BY <1>1, <2>1, <2>2, <2>3, FinishPending
<1>5. CASE PopFinished
  <2>1. /\ queue # <<>> /\ Head(queue) = cur /\ PopFront /\ Leaving' = {}
        /\ UNCHANGED <<limitStatus, powerStatus>> /\ Present' = Present
        /\ pc = "pop" => Leaving = {cur}
        /\ pc # "pop" => obj[cur].inv \notin Present'
    BY <1>5 DEF PopFinished, FrontInv, FrontSent, Leaving, Present, DropsUnknown,
       inverterVars
  <2>2. Queued' = Queued \ {cur}
    BY <2>1, PopFrontDrops
  <2> QED BY <1>1, <2>1, <2>2, QuietPending
<1>6. CASE Removal
  <2>1. Leaving' = Leaving /\ UNCHANGED <<limitStatus, powerStatus>> /\ Queued' = Queued
    BY <1>6 DEF Removal, RemovedFront, EraseInverter, Leaving, Queued, radioVars
  <2>2. Present' \subseteq Present
    <3>1. CASE RemovedFront
      <4>1. removing \in [step : {"clear", "erase"}, inv : Inverters]
        BY <3>1 DEF RemovedFront, TypeOK, Removals, NoRemoval
      <4>2. removing'.inv = removing.inv /\ UNCHANGED known
        BY <3>1, <4>1 DEF RemovedFront
      <4> QED BY <4>2 DEF Present
    <3>2. CASE EraseInverter
      BY <3>2 DEF EraseInverter, Present
    <3> QED BY <1>6, <3>1, <3>2 DEF Removal
  <2> QED BY <1>1, <2>1, <2>2, QuietPending
<1> QED BY <1>3, <1>4, <1>5, <1>6 DEF Tx

(* The end of an rx period: what finishes has its status resolved.         *)
LEMMA RxEndPending ==
    ASSUME TypeOK, OwnedInv, PlaceInv, PendInv, RxEnd
    PROVE  PendInv'
<1>1. PICK c \in Cmds : \/ RxInvalidInverter(c) \/ RxResend(c) \/ RxRetransmit(c)
                         \/ RxFail(c) \/ RxSuccess(c)
  BY DEF RxEnd
<1>2. RxPeriodEnd(c)
  BY <1>1 DEF RxInvalidInverter, RxResend, RxRetransmit, RxFail, RxSuccess
<1>3. /\ Keeps /\ UNCHANGED <<queue, call, known, removing>> /\ pc = "idle"
      /\ c \in Queued
  BY <1>1, <1>2, RxEndKeeps, HeldTypes DEF RxInvalidInverter, RxResend, RxRetransmit,
     RxFail, RxSuccess, Finish, RxPeriodEnd, LoopFree
<1>4. Called' = Called /\ Leaving = {} /\ Queued' = Queued /\ Present' = Present
  BY <1>3 DEF Called, Calling, Leaving, Queued, Present
<1>5. Finish(c) => Leaving' = {c}
  BY DEF Finish, Leaving
<1>6. CASE RxInvalidInverter(c)
  <2>1. /\ Finish(c) /\ UNCHANGED <<limitStatus, powerStatus>>
        /\ obj[c].inv \notin Present'
    BY <1>4, <1>6 DEF RxInvalidInverter, Present
  <2> QED BY <1>3, <1>4, <1>5, <2>1, QuietPending
<1>7. CASE RxResend(c) \/ RxRetransmit(c)
  <2>1. UNCHANGED <<limitStatus, powerStatus>> /\ Leaving' = {}
    BY <1>3, <1>7 DEF RxResend, RxRetransmit, Leaving, radioVars
  <2> QED BY <1>3, <1>4, <2>1, QuietPending
<1>8. CASE RxFail(c) \/ RxSuccess(c)
  <2>1. (HandleSuccess(c) \/ GotTimeout(c)) /\ Finish(c)
    BY <1>8 DEF RxFail, RxSuccess
  <2>2. \A d \in Waiting : d # c => d \in Waiting'
    BY <1>4, <1>5, <2>1 DEF Waiting
  <2>3. Queued \ {c} \subseteq Waiting'
    BY <1>4, <1>5, <2>1 DEF Waiting
  <2> QED BY <1>3, <1>4, <2>1, <2>2, <2>3, FinishPending
<1> QED BY <1>1, <1>6, <1>7, <1>8

(* Removing an inverter's commands, it is on its way out.                  *)
LEMMA InverterStepPending ==
    ASSUME TypeOK, OwnedInv, PlaceInv, PendInv, NEW i \in Inverters,
           ReceivePart(i) \/ RemoveCommands(i) \/ \E a \in owed[i] : ReceiveAll(i, a)
    PROVE  PendInv'
<1>1. Keeps /\ UNCHANGED <<call, pc, cur, limitStatus, powerStatus>> /\ Leaving' = Leaving
  BY InverterStepKeeps DEF ReceivePart, ReceiveAll, RemoveCommands, radioVars, Leaving
<1>2. CASE ReceivePart(i) \/ \E a \in owed[i] : ReceiveAll(i, a)
  <2>1. Present' = Present /\ Queued' = Queued
    BY <1>2 DEF ReceivePart, ReceiveAll, Queued, Present
  <2> QED BY <1>1, <2>1, QuietPending
<1>3. CASE RemoveCommands(i)
  <2>1. /\ queue \in Seq(Cmds) /\ queue' = RemoveAllEntries(queue, Mine(i))
        /\ known' = known /\ removing'.inv = i /\ removing = NoRemoval
    BY <1>3 DEF RemoveCommands, TypeOK
  <2>2. Queued' = Queued \ Mine(i)
    BY <2>1, RemoveAllMembers DEF Queued
  <2>3. Present' = Present \ {i}
    BY <2>1, RadioAssumption DEF Present, NoRemoval, TypeOK
  <2>4. \A c \in Queued \ Leaving :
           obj[c].inv \in Present' => c \in Queued' /\ c \notin Leaving'
    BY <1>1, <2>2, <2>3 DEF Mine
  <2> QED BY <1>1, <2>3, <2>4, QuietPending
<1> QED BY <1>2, <1>3

(* Every step keeps a command for each PENDING status.                     *)
LEMMA NextPending ==
    ASSUME TypeOK, OwnedInv, PlaceInv, PendInv, FrontInv, DropsUnknown, Next
    PROVE  PendInv'
  BY RequestPending, TaskStepPending, PushPending, RadioStepPending, RxEndPending,
     InverterStepPending DEF Next, TaskStep

(* An inverter that is not found is not found again.                       *)
LEMMA NextDropsUnknown ==
    ASSUME TypeOK, OwnedInv, PlaceInv, DropsUnknown, Next
    PROVE  DropsUnknown'
<1> SUFFICES ASSUME pc' = "drop" PROVE obj'[cur'].inv \notin known'
  BY DEF DropsUnknown
<1>1. CASE TxInvalidInverter
  BY <1>1 DEF TxInvalidInverter, inverterVars
<1>2. CASE ~TxInvalidInverter
  <2>1. pc = "drop" /\ cur \in Cmds /\ removing = NoRemoval
    <3>1. pc = "drop"
      BY <1>2 DEF Next, TaskStep, SetPending, ReadBusy, InsertRemoveOldest,
         InsertRemoveNewest, Push, Request, CheckQueue, Tx, BeginTx, EndTxAwaitAnswer,
         EndTxComplete, PopFinished, ClearBusy, EndTxAgain, RxEnd, RxInvalidInverter,
         RxResend, RxRetransmit, RxFail, RxSuccess, Finish, Removal, RemovedFront,
         EraseInverter, ReceivePart, ReceiveAll, RemoveCommands, radioVars
    <3> QED BY <3>1 DEF PlaceInv, TypeOK
  <2>2. obj[cur].inv \notin known
    BY <2>1 DEF DropsUnknown
  <2>3. ASSUME NEW t \in Tasks, NEW r \in MaySend[t], Request(t, r[1], r[2])
        PROVE  obj'[cur'].inv \notin known'
    <3>1. PICK c \in Cmds :
             /\ c # cur /\ \A d \in Cmds \ {c} : obj'[d] = obj[d]
             /\ UNCHANGED <<cur, known>>
      BY <2>3, RequestFacts
    <3> QED BY <2>1, <2>2, <3>1
  <2>4. ASSUME NEW t \in Tasks, TaskStep(t) PROVE obj'[cur'].inv \notin known'
    <3>1. UNCHANGED <<cur, known>>
      BY <2>4, StepOfRequest
    <3>2. CASE Push(t)
      BY <2>2, <3>1, <3>2 DEF Push
    <3>3. CASE ~ Push(t)
      <4>1. Keeps
        BY <2>4, <3>3, TaskStepKeeps DEF TaskStep
      <4> QED BY <2>1, <2>2, <3>1, <4>1 DEF Keeps, SameObject
    <3> QED BY <3>2, <3>3
  <2>5. CASE ~ \E t \in Tasks : TaskStep(t) \/ \E r \in MaySend[t] : Request(t, r[1], r[2])
    <3>1. FALSE
      BY <1>2, <2>1, <2>5 DEF Next, CheckQueue, Tx, BeginTx, EndTxAwaitAnswer,
         EndTxComplete, PopFinished, ClearBusy, EndTxAgain, RxEnd, RxInvalidInverter,
         RxResend, RxRetransmit, RxFail, RxSuccess, RxPeriodEnd, LoopFree, Removal,
         RemovedFront, EraseInverter, ReceivePart, ReceiveAll, Listening,
         RemoveCommands, HoymilesMutexFree, NoRemoval
    <3> QED BY <3>1
  <2> QED BY <2>3, <2>4, <2>5
<1> QED BY <1>1, <1>2

(* A PENDING status, which refuses every further request of its inverter,  *)
(* always has a command that will end it, as long as only the main loop    *)
(* removes older commands and pushes before the front.                     *)
THEOREM PendingHasCommandCorrect ==
    ASSUME OthersAppend
    PROVE  Spec => []PendingHasCommand
<1>1. Init => PendInv /\ DropsUnknown
  BY DEF Init, PendInv, LimitPending, PowerPending, DropsUnknown, Present
<1>2. /\ TypeOK /\ OwnedInv /\ PlaceInv /\ FrontInv
      /\ PendInv /\ DropsUnknown /\ [Next]_vars
      => (PendInv /\ DropsUnknown)'
  <2>1. PendInv /\ DropsUnknown /\ UNCHANGED vars => (PendInv /\ DropsUnknown)'
    BY DEF PendInv, LimitPending, PowerPending, Answers, Waiting, Leaving, Queued, Called,
           Calling, Present, DropsUnknown, vars
  <2> QED BY <2>1, NextPending, NextDropsUnknown
<1>3. TypeOK /\ PendInv => PendingHasCommand
  <2> SUFFICES ASSUME TypeOK, PendInv, NEW i \in Present
               PROVE  /\ limitStatus[i] = "PENDING" => Underway(i, {"limit"})
                      /\ powerStatus[i] = "PENDING" => Underway(i, PowerKinds)
    BY DEF PendingHasCommand, PowerKinds, Present
  <2>1. Waiting \subseteq Queued \cup ({call[t].cmd : t \in Tasks} \ {NoCmd})
    BY HeldTypes DEF Waiting, Called, Calling
  <2> QED BY <2>1 DEF PendInv, LimitPending, PowerPending, Answers, Underway
<1> QED BY <1>1, <1>2, <1>3, TypeCorrect, CommandsApart, FrontCorrect, PTL DEF Spec

-----------------------------------------------------------------------------
(* The front, when another task may set limits of inverters of its own.    *)

(* The limits of an inverter that are still to be resolved, and a task     *)
(* that is about to add one.                                               *)
Limits(i) == {c \in Queued \ Leaving : obj[c].kind = "limit" /\ obj[c].inv = i}
Asks(t, i) == t \in Calling /\ obj[call[t].cmd].kind = "limit" /\ obj[call[t].cmd].inv = i

(* The PENDING status of an inverter whose limit only t sets works as t's  *)
(* lock: while a limit of it is queued, and not yet finished, t is not     *)
(* asking for another one, so t removes none from under the main loop.     *)
SoleLimit(t, i) ==
    /\ \A c, d \in Limits(i) : c = d
    /\ Limits(i) # {} => limitStatus[i] = "PENDING" /\ ~ Asks(t, i)
    /\ Asks(t, i) /\ call[t].step # "status" => limitStatus[i] = "PENDING"

(* What is asked for was asked for by a task that may.                     *)
MayAsk == \A t \in Calling : <<obj[call[t].cmd].kind, obj[call[t].cmd].inv>> \in MaySend[t]

(* What the main loop relies on.                                           *)
LoopPart ==
    /\ pc = "front" \/ Awaiting => queue # <<>>
    /\ pc = "tx" => cur \in Queued
    /\ pc \in {"tx", "pop"} /\ cur \in Queued /\ obj[cur].kind \in HighPriority =>
          Head(queue) = cur
    /\ LoopSawBusy

SoleInv ==
    /\ MayAsk
    /\ LoopPart
    /\ \A t \in Tasks \ {Loop}, i \in Inverters :
          <<"limit", i>> \in MaySend[t] => SoleLimit(t, i)

(* Steps that hand out nothing new leave what each task asks for.          *)
LEMMA KeepsRequests ==
    ASSUME TypeOK, Keeps
    PROVE  /\ \A t \in Calling' :
                 /\ t \in Calling
                 /\ obj'[call'[t].cmd].kind = obj[call[t].cmd].kind
                 /\ obj'[call'[t].cmd].inv = obj[call[t].cmd].inv
                 /\ call'[t].step = "status" => call[t].step = "status"
           /\ \A c \in Queued' : c \in Queued /\ c \in Cmds /\ SameObject(c)
           /\ \A t, i : Asks(t, i)' => Asks(t, i)
           /\ MayAsk => MayAsk'
<1>1. \A t \in Calling' : /\ t \in Calling /\ call'[t].cmd = call[t].cmd
                          /\ call'[t].step = "status" => call[t].step = "status"
                          /\ call[t].cmd \in Cmds /\ call[t].cmd \in Called'
  BY HeldTypes DEF Keeps, Called
<1>2. \A t \in Calling' : SameObject(call[t].cmd)
  BY <1>1 DEF Keeps
<1>3. \A c \in Queued' : c \in Queued /\ c \in Cmds /\ SameObject(c)
  BY HeldTypes DEF Keeps
<1>4. \A t, i : Asks(t, i)' => Asks(t, i)
  BY <1>1, <1>2 DEF Asks, SameObject
<1>5. MayAsk => MayAsk'
  BY <1>1, <1>2 DEF MayAsk, SameObject
<1> QED BY <1>1, <1>2, <1>3, <1>4, <1>5 DEF SameObject

(* The limits to be resolved get fewer unless a finished one is forgotten. *)
LEMMA LimitsShrink ==
    ASSUME TypeOK, Keeps, NEW i, \A c \in Queued' : c \in Leaving => c \in Leaving'
    PROVE  Limits(i)' \subseteq Limits(i)
  BY KeepsRequests DEF Limits, SameObject

(* The lock is kept by steps that neither resolve the limit nor let t go   *)
(* on.                                                                     *)
LEMMA SoleLimitKept ==
    ASSUME NEW t, NEW i, SoleLimit(t, i),
           Limits(i)' \subseteq Limits(i),
           Asks(t, i)' => Asks(t, i) /\ (call'[t].step # "status" => call[t].step # "status"),
           Limits(i)' = {} \/ limitStatus'[i] = limitStatus[i],
           Asks(t, i) => limitStatus'[i] = limitStatus[i]
    PROVE  SoleLimit(t, i)'
<1> HIDE DEF Asks, Limits
<1> QED BY DEF SoleLimit

(* What a removal by another task can hit: nothing, but for the command    *)
(* that is about to be popped.                                             *)
LEMMA OtherRemovesNothing ==
    ASSUME TypeOK, OwnedInv, SoleInv, OnlySender, NEW t \in Tasks \ {Loop},
           InsertRemoveOldest(t)
    PROVE  \A d \in Queued : d \in SameParameter(call[t].cmd) => pc = "pop" /\ d = cur
<1> DEFINE c == call[t].cmd  i == obj[c].inv
<1>1. t \in Calling /\ call[t].step = "remove" /\ obj[c].kind \in RemoveOldest
  BY AtStep DEF InsertRemoveOldest, OwnedInv, RemoveOldest, HighPriority
<1>2. <<obj[c].kind, i>> \in MaySend[t] /\ i \in Inverters
  BY <1>1, HeldTypes DEF SoleInv, MayAsk, OwnedInv
<1>3. obj[c].kind = "limit"
  BY <1>1, <1>2 DEF OnlySender
<1>4. SoleLimit(t, i) /\ Asks(t, i)
  BY <1>1, <1>2, <1>3 DEF SoleInv, Asks
<1>5. \A d \in Queued : d \in SameParameter(c) => obj[d].kind = "limit" /\ obj[d].inv = i
  BY <1>3, HeldTypes DEF SameParameter, ParameterOf, OwnedInv, Kinds
<1> HIDE DEF c, i
<1>6. \A d \in Queued : d \in SameParameter(c) => d \in Leaving
  BY <1>4, <1>5 DEF SoleLimit, Limits
<1> QED BY <1>6 DEF c, Leaving

(* The part of SoleInv about the main loop, for a step of a request.       *)
LEMMA TaskStepLoopPart ==
    ASSUME TypeOK, OwnedInv, PlaceInv, SoleInv, OnlySender, NEW t \in Tasks, TaskStep(t)
    PROVE  LoopPart'
<1> DEFINE c == call[t].cmd
<1>1. /\ t \in Calling /\ UNCHANGED <<pc, cur, busy, removing>>
      /\ \A u \in Tasks \ {t} : call'[u] = call[u]
  BY StepOfRequest
<1>2. t = Loop => pc = "idle"
  BY <1>1 DEF PlaceInv, Calling
<1>3. pc \in {"tx", "pop"} => cur \in Cmds
  BY DEF PlaceInv, TypeOK
<1>4. LoopSawBusy'
  <2>1. CASE t # Loop
    BY <1>1, <2>1, RadioAssumption DEF SoleInv, LoopPart, LoopSawBusy
  <2>2. CASE t = Loop /\ ReadBusy(t)
    <3>1. call'[t].front = busy
      BY <2>2 DEF ReadBusy, TypeOK
    <3> QED BY <1>1, <2>2, <3>1 DEF LoopSawBusy
  <2>3. CASE t = Loop /\ ~ ReadBusy(t)
    <3>1. call'[t].step \notin {"remove", "place"}
      BY <2>3 DEF TaskStep, SetPending, InsertRemoveOldest, InsertRemoveNewest, Push,
         TypeOK, Calls, Idle
    <3> QED BY <2>3, <3>1 DEF LoopSawBusy
  <2> QED BY <2>1, <2>2, <2>3
<1>5. CASE SetPending(t) \/ ReadBusy(t) \/ InsertRemoveNewest(t)
  <2>1. UNCHANGED queue /\ Keeps /\ Queued' = Queued
    BY <1>5, TaskStepKeeps DEF SetPending, ReadBusy, InsertRemoveNewest, Queued
  <2>2. pc \in {"tx", "pop"} => obj'[cur].kind = obj[cur].kind
    BY <1>1, <1>3, <2>1 DEF Keeps, SameObject
  <2> QED BY <1>1, <1>4, <2>1, <2>2 DEF SoleInv, LoopPart, Awaiting
<1>6. CASE InsertRemoveOldest(t)
  <2>1. /\ Keeps
        /\ \A d \in Queued : d \notin SameParameter(c) => d \in Queued'
        /\ \A d \in Queued' : d \in SameParameter(c) => call[t].front /\ d = Head(queue)
        /\ queue # <<>> /\ (call[t].front \/ Head(queue) \notin SameParameter(c)) =>
              queue' # <<>> /\ Head(queue') = Head(queue)
    BY <1>6, TaskStepKeeps, InsertDrops
  <2>2. t # Loop => \A d \in Queued : d \in SameParameter(c) => pc = "pop" /\ d = cur
    BY <1>6, OtherRemovesNothing
  <2>3. t = Loop /\ busy => call[t].front
    BY <1>6 DEF InsertRemoveOldest, SoleInv, LoopPart, LoopSawBusy
  <2>4. queue # <<>> => Head(queue) \in Queued
    BY HeldTypes
  <2>5. pc \in {"tx", "pop"} => obj'[cur].kind = obj[cur].kind
    BY <1>1, <1>3, <2>1 DEF Keeps, SameObject
  <2>6. ASSUME pc' = "front" \/ Awaiting' PROVE queue' # <<>>
    <3>1. pc = "front" \/ Awaiting
      BY <1>1, <2>6 DEF Awaiting
    <3>2. queue # <<>> /\ pc # "pop"
      BY <3>1 DEF SoleInv, LoopPart, Awaiting
    <3>3. call[t].front \/ Head(queue) \notin SameParameter(c)
      BY <1>2, <2>2, <2>3, <2>4, <3>1, <3>2 DEF Awaiting
    <3> QED BY <2>1, <3>2, <3>3
  <2>7. pc' = "tx" => cur' \in Queued'
    BY <1>1, <1>2, <2>1, <2>2 DEF SoleInv, LoopPart
  <2>8. ASSUME pc' \in {"tx", "pop"}, cur' \in Queued', obj'[cur'].kind \in HighPriority
        PROVE  Head(queue') = cur'
    <3>1. cur \in Queued /\ obj[cur].kind \in HighPriority /\ pc \in {"tx", "pop"}
      BY <1>1, <2>1, <2>5, <2>8 DEF Keeps
    <3>2. Head(queue) = cur /\ queue # <<>>
      BY <3>1, RangeMembers, EmptySeq DEF SoleInv, LoopPart, Queued, TypeOK, Range
    <3>3. cur \notin SameParameter(c) \/ call[t].front
      BY <1>1, <2>1, <2>8
    <3> QED BY <1>1, <2>1, <3>2, <3>3
  <2> QED BY <1>4, <2>6, <2>7, <2>8 DEF LoopPart
<1>7. CASE Push(t)
  <2>1. /\ t \in Calling /\ Queued' = Queued \cup {c} /\ queue' # <<>>
        /\ queue # <<>> /\ (call[t].front \/ Head(queue) \in Highs \/ c \notin Highs)
               => Head(queue') = Head(queue)
        /\ UNCHANGED obj
    BY <1>7, PushFacts
  <2>2. c # cur
    BY <1>1 DEF OwnedInv
  <2>3. ASSUME pc' \in {"tx", "pop"}, cur' \in Queued', obj'[cur'].kind \in HighPriority
        PROVE  Head(queue') = cur'
    <3>1. cur \in Queued /\ cur \in Highs
      BY <1>1, <1>3, <2>1, <2>2, <2>3 DEF Highs
    <3>2. Head(queue) = cur /\ queue # <<>>
      BY <1>1, <2>1, <2>3, <3>1, RangeMembers, EmptySeq
      DEF SoleInv, LoopPart, Queued, TypeOK, Range
    <3> QED BY <1>1, <2>1, <3>1, <3>2
  <2> QED BY <1>1, <1>4, <2>1, <2>3 DEF SoleInv, LoopPart
<1> QED BY <1>5, <1>6, <1>7 DEF TaskStep

(* Only t asks for limits of an inverter whose limit is t's.               *)
LEMMA OnlyOneAsks ==
    ASSUME MayAsk, OnlySender, NEW t \in Tasks \ {Loop}, NEW i \in Inverters,
           <<"limit", i>> \in MaySend[t], NEW u \in Tasks, Asks(u, i)
    PROVE  u = t
<1>1. <<"limit", i>> \in MaySend[u]
  BY DEF Asks, MayAsk
<1>2. <<"limit", i>>[1] = "limit" /\ "limit" \in RemoveOldest
  BY DEF RemoveOldest
<1> QED BY <1>1, <1>2 DEF OnlySender

(* A new limit is asked for only when none is pending: none is queued.     *)
LEMMA RequestSole ==
    ASSUME TypeOK, OwnedInv, PlaceInv, SoleInv, NEW u \in Tasks, NEW r \in MaySend[u],
           Request(u, r[1], r[2])
    PROVE  SoleInv'
<1>1. PICK c \in Cmds :
         /\ r[1] \in Kinds /\ r[2] \in Inverters
         /\ c \notin Queued /\ c \notin Called /\ c # cur
         /\ u \notin Calling /\ Calling' = Calling \cup {u}
         /\ \A v \in Calling : call'[v] = call[v]
         /\ call'[u] = [step |-> IF r[1] \in RemoveNewest THEN "insert" ELSE "status",
                        cmd |-> c, front |-> FALSE]
         /\ obj'[c] = [kind |-> r[1], inv |-> r[2], sends |-> 0]
         /\ \A d \in Cmds \ {c} : obj'[d] = obj[d]
         /\ UNCHANGED <<queue, busy, pc, cur, limitStatus, removing>>
  BY RequestFacts
<1>2. /\ call'[u].cmd = c /\ obj'[c].kind = r[1] /\ obj'[c].inv = r[2]
      /\ r[1] = "limit" => call'[u].step = "status"
      /\ call'[u].step \notin {"remove", "place"}
  BY <1>1 DEF RemoveNewest
<1>3. \A v \in Calling : call[v].cmd \in Cmds \ {c}
  BY <1>1, HeldTypes
<1>4. Queued' = Queued /\ Queued \subseteq Cmds \ {c} /\ Leaving' = Leaving
  BY <1>1, HeldTypes DEF Queued, Leaving
<1>5. \A i : Limits(i)' = Limits(i)
  BY <1>1, <1>4 DEF Limits
<1>6. r = <<r[1], r[2]>>
  <2>1. MaySend[u] \subseteq Kinds \X Inverters
    BY RadioAssumption
  <2> QED BY <2>1
<1>7. MayAsk'
  BY <1>1, <1>2, <1>3, <1>6 DEF MayAsk, SoleInv
<1>8. pc \in {"tx", "pop"} => cur \in Cmds \ {c}
  BY <1>1 DEF PlaceInv, TypeOK
<1>9. LoopPart'
  <2>1. u # Loop => call'[Loop] = call[Loop]
    BY RadioAssumption DEF Request, TypeOK
  <2>2. LoopSawBusy'
    BY <1>1, <1>2, <2>1 DEF SoleInv, LoopPart, LoopSawBusy
  <2> QED BY <1>1, <1>4, <1>8, <2>2 DEF LoopPart, SoleInv, Awaiting
<1>10. ASSUME NEW t \in Tasks \ {Loop}, NEW i \in Inverters, <<"limit", i>> \in MaySend[t]
       PROVE  SoleLimit(t, i)'
  <2>1. SoleLimit(t, i)
    BY <1>10 DEF SoleInv
  <2>2. CASE t = u /\ r[1] = "limit" /\ r[2] = i
    <3>1. limitStatus[i] # "PENDING"
      BY <1>10, <2>2 DEF Request, StatusOf
    <3>2. Limits(i)' = {} /\ call'[t].step = "status"
      BY <1>2, <1>5, <2>1, <2>2, <3>1 DEF SoleLimit
    <3> QED BY <3>2 DEF SoleLimit
  <2>3. CASE ~ (t = u /\ r[1] = "limit" /\ r[2] = i)
    <3>1. Asks(t, i)' <=> Asks(t, i)
      BY <1>1, <1>2, <1>3, <2>3 DEF Asks
    <3>2. Asks(t, i)' => call'[t].step = call[t].step
      BY <1>1, <3>1 DEF Asks
    <3> QED BY <1>1, <1>5, <2>1, <3>1, <3>2 DEF SoleLimit
  <2> QED BY <2>2, <2>3
<1> QED BY <1>7, <1>9, <1>10 DEF SoleInv

(* The steps of a request take the lock before the limit is queued.        *)
LEMMA TaskStepSole ==
    ASSUME TypeOK, OwnedInv, PlaceInv, SoleInv, OnlySender, NEW u \in Tasks, TaskStep(u)
    PROVE  SoleInv'
<1> DEFINE c == call[u].cmd
<1>0. MayAsk
  BY DEF SoleInv
<1>1. /\ u \in Calling /\ UNCHANGED <<pc, cur, busy>> /\ c \in Cmds /\ c \in Called
      /\ Leaving' = Leaving
      /\ \A v \in Tasks \ {u} : call'[v] = call[v]
  BY StepOfRequest, HeldTypes DEF Leaving
<1>2. LoopPart'
  BY TaskStepLoopPart
<1>3. CASE SetPending(u)
  <2>1. Keeps /\ UNCHANGED <<queue, obj>>
    BY <1>3, TaskStepKeeps DEF SetPending
  <2>2. call[u].step = "status" /\ obj[c].kind \in Kinds /\ obj[c].inv \in Inverters
    BY <1>1, <1>3 DEF SetPending, OwnedInv
  <2>5. \A i \in Inverters :
           /\ obj[c].kind = "limit" /\ obj[c].inv = i => limitStatus'[i] = "PENDING"
           /\ limitStatus'[i] # limitStatus[i] => limitStatus'[i] = "PENDING"
    BY <1>3 DEF SetPending, TypeOK
  <2>6. ASSUME NEW t \in Tasks \ {Loop}, NEW i \in Inverters, <<"limit", i>> \in MaySend[t]
        PROVE  SoleLimit(t, i)'
    <3>1. SoleLimit(t, i)
      BY <2>6 DEF SoleInv
    <3>2. Limits(i)' = Limits(i)
      BY <1>1, <2>1 DEF Limits, Queued
    <3>3. Asks(t, i)' => Asks(t, i)
      BY <2>1, KeepsRequests
    <3>4. limitStatus[i] = "PENDING" => limitStatus'[i] = "PENDING"
      BY <2>5
    <3>5. Asks(t, i) /\ call'[t].step # "status" => limitStatus'[i] = "PENDING"
      <4>1. CASE t = u
        BY <2>5, <4>1 DEF Asks
      <4>2. CASE t # u
        BY <1>1, <3>1, <3>4, <4>2 DEF SoleLimit
      <4> QED BY <4>1, <4>2
    <3> HIDE DEF Asks, Limits
    <3> QED BY <3>1, <3>2, <3>3, <3>4, <3>5 DEF SoleLimit
  <2> QED BY <1>0, <1>2, <2>1, <2>6, KeepsRequests DEF SoleInv
<1>4. CASE ReadBusy(u) \/ InsertRemoveOldest(u) \/ InsertRemoveNewest(u)
  <2>1. Keeps /\ UNCHANGED limitStatus /\ call[u].step # "status"
    BY <1>4, TaskStepKeeps DEF ReadBusy, InsertRemoveOldest, InsertRemoveNewest, inverterVars
  <2>2. ASSUME NEW t \in Tasks \ {Loop}, NEW i \in Inverters, <<"limit", i>> \in MaySend[t]
        PROVE  SoleLimit(t, i)'
    <3>1. SoleLimit(t, i)
      BY <2>2 DEF SoleInv
    <3>2. Limits(i)' \subseteq Limits(i)
      BY <1>1, <2>1, LimitsShrink
    <3>3. Asks(t, i)' => Asks(t, i) /\ (call'[t].step # "status" => call[t].step # "status")
      BY <1>1, <2>1, KeepsRequests
    <3> QED BY <2>1, <3>1, <3>2, <3>3, SoleLimitKept
  <2> QED BY <1>0, <1>2, <2>1, <2>2, KeepsRequests DEF SoleInv
<1>6. CASE Push(u)
  <2>1. /\ Queued' = Queued \cup {c} /\ Calling' = Calling \ {u}
        /\ \A v \in Calling' : call'[v] = call[v]
        /\ UNCHANGED <<obj, limitStatus>>
    BY <1>6, PushFacts
  <2>2. MayAsk'
    BY <1>0, <2>1 DEF MayAsk
  <2>3. ASSUME NEW t \in Tasks \ {Loop}, NEW i \in Inverters, <<"limit", i>> \in MaySend[t]
        PROVE  SoleLimit(t, i)'
    <3>1. SoleLimit(t, i)
      BY <2>3 DEF SoleInv
    <3>2. CASE Asks(u, i)
      <4>1. u = t
        BY <1>0, <2>3, <3>2, OnlyOneAsks
      <4>2. Limits(i) = {} /\ limitStatus[i] = "PENDING"
        BY <1>6, <3>1, <3>2, <4>1 DEF Push, SoleLimit
      <4>3. Limits(i)' \subseteq {c}
        BY <1>1, <2>1, <3>2, <4>2 DEF Limits, Asks
      <4>4. ~ Asks(t, i)'
        BY <2>1, <4>1 DEF Asks
      <4> QED BY <2>1, <4>2, <4>3, <4>4 DEF SoleLimit
    <3>3. CASE ~ Asks(u, i)
      <4>1. Limits(i)' = Limits(i)
        BY <1>1, <2>1, <3>3 DEF Limits, Asks
      <4>3. Asks(t, i)' => Asks(t, i) /\ call'[t].step = call[t].step
        BY <2>1 DEF Asks
      <4> QED BY <2>1, <3>1, <4>1, <4>3 DEF SoleLimit
    <3> QED BY <3>2, <3>3
  <2> QED BY <1>2, <2>2, <2>3 DEF SoleInv
<1> QED BY <1>3, <1>4, <1>6 DEF TaskStep

(* A limit that finishes is no longer to be resolved, and t was not asking *)
(* for another one; what finishes of another kind leaves t's lock alone.   *)
LEMMA FinishSole ==
    ASSUME TypeOK, OwnedInv, NEW t, NEW i \in Inverters, SoleLimit(t, i),
           Keeps, UNCHANGED <<queue, call>>, Leaving = {},
           NEW c \in Queued, Leaving' = {c}, HandleSuccess(c) \/ GotTimeout(c)
    PROVE  SoleLimit(t, i)'
<1>1. Asks(t, i)' => Asks(t, i) /\ call'[t].step = call[t].step
  BY KeepsRequests
<1>2. Limits(i)' \subseteq Limits(i) /\ c \notin Limits(i)'
  BY LimitsShrink DEF Limits
<1>3. CASE c \in Limits(i)
  <2>1. ~ Asks(t, i) /\ Limits(i)' = {}
    BY <1>2, <1>3 DEF SoleLimit
  <2> QED BY <1>1, <1>2, <2>1, SoleLimitKept
<1>4. CASE c \notin Limits(i)
  <2>1. ~ (obj[c].kind = "limit" /\ obj[c].inv = i)
    BY <1>4 DEF Limits
  <2>2. limitStatus'[i] = limitStatus[i]
    BY <2>1 DEF HandleSuccess, GotTimeout, ApplyLimit, ApplyPowerState, Kinds, TypeOK
  <2> QED BY <1>1, <1>2, <2>2, SoleLimitKept
<1> QED BY <1>3, <1>4

(* A step that resolves no limit and forgets none that has finished keeps  *)
(* every lock.                                                             *)
LEMMA QuietSole ==
    ASSUME TypeOK, Keeps, UNCHANGED <<call, limitStatus>>, SoleInv, LoopPart',
           \A i : Limits(i)' \subseteq Limits(i)
    PROVE  SoleInv'
<1>1. MayAsk'
  BY KeepsRequests DEF SoleInv
<1>2. \A t, i : Asks(t, i)' => Asks(t, i) /\ call'[t].step = call[t].step
  BY KeepsRequests
<1>3. ASSUME NEW t \in Tasks \ {Loop}, NEW i \in Inverters, <<"limit", i>> \in MaySend[t]
      PROVE  SoleLimit(t, i)'
  BY <1>2, <1>3, SoleLimitKept DEF SoleInv
<1> QED BY <1>1, <1>3 DEF SoleInv

(* The main loop's steps: the limit it completes is off the queue when t   *)
(* may ask again, or is just about to be.                                  *)
LEMMA RadioStepSole ==
    ASSUME TypeOK, OwnedInv, PlaceInv, SoleInv, CheckQueue \/ Tx \/ EndTxAgain \/ Removal
    PROVE  SoleInv'
<1>1. Keeps /\ UNCHANGED call
  BY RadioStepKeeps DEF CheckQueue, Tx, TxInvalidInverter, BeginTx, EndTxAwaitAnswer,
     EndTxComplete, PopFinished, ClearBusy, EndTxAgain, Removal, RemovedFront, EraseInverter
<1>2. cur' \in Cmds => obj'[cur'].kind = obj[cur'].kind
  BY <1>1 DEF Keeps, SameObject
<1>3. pc # "idle" => LoopSawBusy'
  BY <1>1 DEF PlaceInv, Idle, LoopSawBusy
<1>4. CASE CheckQueue
  <2>1. LoopPart'
    BY <1>4 DEF CheckQueue, LoopPart, LoopSawBusy, SoleInv, Awaiting
  <2>2. UNCHANGED limitStatus /\ Leaving = {}
    BY <1>4 DEF CheckQueue, LoopFree, Leaving, inverterVars
  <2> QED BY <1>1, <2>1, <2>2, LimitsShrink, QuietSole
<1>5. CASE TxInvalidInverter \/ BeginTx
  <2>1. /\ Head(queue) \in Queued /\ queue' = queue /\ cur' = Head(queue)
        /\ pc' \in {"drop", "tx"} /\ pc = "front" /\ UNCHANGED limitStatus
    BY <1>5, HeldTypes DEF BeginTx, TxInvalidInverter, inverterVars
  <2>2. LoopPart' /\ Leaving = {}
    BY <1>3, <2>1 DEF LoopPart, Queued, Awaiting, Leaving
  <2> QED BY <1>1, <2>1, <2>2, LimitsShrink, QuietSole
<1>6. CASE EndTxAwaitAnswer
  <2>1. queue # <<>>
    BY <1>6, RangeMembers, EmptySeq
    DEF EndTxAwaitAnswer, SoleInv, LoopPart, Queued, TypeOK, Range
  <2>2. LoopPart' /\ UNCHANGED limitStatus /\ Leaving = {}
    BY <1>3, <1>6, <2>1 DEF EndTxAwaitAnswer, LoopPart, Leaving, inverterVars
  <2> QED BY <1>1, <2>2, LimitsShrink, QuietSole
<1>7. CASE EndTxAgain \/ EndTxComplete
  <2>1. UNCHANGED <<queue, cur, busy>> /\ pc = "tx" /\ pc' \in {"tx", "pop"}
    BY <1>7 DEF EndTxAgain, EndTxComplete, radioVars
  <2>2. cur \in Cmds
    BY <2>1 DEF PlaceInv, TypeOK
  <2>3. LoopPart' /\ Leaving = {}
    BY <1>2, <1>3, <2>1, <2>2 DEF SoleInv, LoopPart, PlaceInv, Queued, Awaiting, Leaving
  <2>4. CASE EndTxAgain
    <3>1. UNCHANGED limitStatus
      BY <2>4 DEF EndTxAgain
    <3> QED BY <1>1, <2>3, <3>1, LimitsShrink, QuietSole
  <2>5. CASE EndTxComplete
    <3>1. HandleSuccess(cur) /\ cur \in Queued /\ Leaving' = {cur}
      BY <2>1, <2>5 DEF EndTxComplete, SoleInv, LoopPart, Leaving
    <3>2. ASSUME NEW t \in Tasks \ {Loop}, NEW i \in Inverters, <<"limit", i>> \in MaySend[t]
          PROVE  SoleLimit(t, i)'
      BY <1>1, <2>1, <2>3, <3>1, <3>2, FinishSole DEF SoleInv
    <3> QED BY <1>1, <2>3, <3>2, KeepsRequests DEF SoleInv
  <2> QED BY <1>7, <2>4, <2>5
<1>8. CASE PopFinished
  <2>1. PopFront /\ UNCHANGED limitStatus /\ pc \in {"pop", "drop"}
        /\ Leaving' = {} /\ pc' \in {"clear", "idle"} /\ (pc' = "idle" => pc = "drop")
        /\ UNCHANGED busy
    BY <1>8 DEF PopFinished, Leaving, inverterVars
  <2>2. LoopPart'
    BY <1>3, <2>1 DEF LoopPart, Awaiting, PlaceInv
  <2>3. ASSUME NEW i, NEW d \in Limits(i)' PROVE d \in Limits(i)
    <3>1. /\ d \in Queued' /\ d \in Queued /\ SameObject(d)
          /\ obj'[d].kind = "limit" /\ obj'[d].inv = i
      BY <1>1, <2>3, KeepsRequests DEF Limits
    <3>2. d \notin Leaving
      <4> SUFFICES ASSUME d = cur, pc = "pop" PROVE FALSE
        BY DEF Leaving
      <4>1. Head(queue) = cur
        BY <3>1 DEF SoleInv, LoopPart, SameObject, HighPriority
      <4> QED BY <2>1, <3>1, <4>1, PopFrontDrops
    <3> QED BY <3>1, <3>2 DEF Limits, SameObject
  <2> QED BY <1>1, <2>1, <2>2, <2>3, QuietSole
<1>9. CASE ClearBusy
  <2>1. LoopPart' /\ UNCHANGED limitStatus /\ Leaving = {}
    BY <1>9 DEF ClearBusy, LoopPart, Awaiting, LoopSawBusy, Leaving, inverterVars
  <2> QED BY <1>1, <2>1, LimitsShrink, QuietSole
<1>10. CASE Removal
  <2>1. removing # NoRemoval
    BY <1>10 DEF Removal, RemovedFront, EraseInverter, NoRemoval
  <2>2. /\ pc = "idle" /\ UNCHANGED <<pc, queue, limitStatus>> /\ (busy' => busy)
        /\ Awaiting' => Awaiting
    BY <1>10, <2>1 DEF Removal, RemovedFront, EraseInverter, PlaceInv, radioVars, Awaiting
  <2>3. LoopPart' /\ Leaving = {}
    BY <1>1, <2>2 DEF SoleInv, LoopPart, LoopSawBusy, Leaving
  <2> QED BY <1>1, <2>2, <2>3, LimitsShrink, QuietSole
<1> QED BY <1>4, <1>5, <1>6, <1>7, <1>8, <1>9, <1>10 DEF Tx

(* So does the end of an rx period.                                        *)
LEMMA RxEndSole ==
    ASSUME TypeOK, OwnedInv, PlaceInv, SoleInv, RxEnd
    PROVE  SoleInv'
<1>1. PICK c \in Cmds : \/ RxInvalidInverter(c) \/ RxResend(c) \/ RxRetransmit(c)
                         \/ RxFail(c) \/ RxSuccess(c)
  BY DEF RxEnd
<1>2. RxPeriodEnd(c)
  BY <1>1 DEF RxInvalidInverter, RxResend, RxRetransmit, RxFail, RxSuccess
<1>3. /\ Keeps /\ UNCHANGED <<queue, call, busy, removing>> /\ pc = "idle"
      /\ queue # <<>> /\ c = Head(queue) /\ c \in Queued /\ Leaving = {}
  BY <1>1, <1>2, RxEndKeeps, HeldTypes DEF RxInvalidInverter, RxResend, RxRetransmit,
     RxFail, RxSuccess, Finish, RxPeriodEnd, LoopFree, radioVars, Leaving
<1>4. LoopSawBusy'
  BY <1>3 DEF SoleInv, LoopPart, LoopSawBusy
<1>5. \A i : Limits(i)' \subseteq Limits(i)
  BY <1>3, LimitsShrink
<1>6. CASE Finish(c)
  <2>1. LoopPart' /\ Leaving' = {c}
    BY <1>3, <1>4, <1>6 DEF Finish, LoopPart, Awaiting, Leaving
  <2>2. CASE UNCHANGED limitStatus
    BY <1>3, <1>5, <2>1, <2>2, QuietSole
  <2>3. CASE HandleSuccess(c) \/ GotTimeout(c)
    <3>1. ASSUME NEW t \in Tasks \ {Loop}, NEW i \in Inverters, <<"limit", i>> \in MaySend[t]
          PROVE  SoleLimit(t, i)'
      BY <1>3, <2>1, <2>3, <3>1, FinishSole DEF SoleInv
    <3> QED BY <1>3, <2>1, <3>1, KeepsRequests DEF SoleInv
  <2> QED BY <1>1, <2>2, <2>3 DEF RxInvalidInverter, RxFail, RxSuccess, RxResend, RxRetransmit
<1>7. CASE RxResend(c) \/ RxRetransmit(c)
  <2>1. UNCHANGED <<pc, cur, limitStatus>>
    BY <1>7 DEF RxResend, RxRetransmit, radioVars
  <2>2. LoopPart'
    BY <1>3, <1>4, <2>1 DEF LoopPart
  <2> QED BY <1>3, <1>5, <2>1, <2>2, QuietSole
<1> QED BY <1>1, <1>6, <1>7 DEF RxInvalidInverter, RxFail, RxSuccess

(* And received frames and the removal of an inverter's commands.          *)
LEMMA InverterStepSole ==
    ASSUME TypeOK, OwnedInv, PlaceInv, SoleInv, NEW j \in Inverters,
           ReceivePart(j) \/ RemoveCommands(j) \/ \E a \in owed[j] : ReceiveAll(j, a)
    PROVE  SoleInv'
<1>1. /\ Keeps /\ UNCHANGED <<call, busy, pc, cur, limitStatus>> /\ pc = "idle"
      /\ Leaving = {}
  BY InverterStepKeeps DEF ReceivePart, ReceiveAll, RemoveCommands, Listening, LoopFree,
     HoymilesMutexFree, radioVars, Leaving
<1>2. LoopPart'
  <2>1. CASE RemoveCommands(j)
    <3>1. /\ queue \in Seq(Cmds) /\ queue' = RemoveAllEntries(queue, Mine(j))
          /\ removing.step # "clear"
          /\ removing'.step # "clear" => ~ (queue # <<>> /\ obj[Head(queue)].inv = j)
      BY <2>1 DEF RemoveCommands, TypeOK, NoRemoval
    <3>2. ASSUME Awaiting' PROVE queue' # <<>>
      <4>1. queue # <<>> /\ Head(queue) \notin Mine(j)
        BY <1>1, <3>1, <3>2 DEF SoleInv, LoopPart, Awaiting, Mine
      <4> QED BY <3>1, <4>1, RemoveAllMembers
    <3> QED BY <1>1, <3>2 DEF LoopPart, SoleInv, LoopSawBusy
  <2>2. CASE ~ RemoveCommands(j)
    BY <1>1, <2>2 DEF ReceivePart, ReceiveAll, LoopPart, SoleInv, Awaiting, LoopSawBusy
  <2> QED BY <2>1, <2>2
<1> QED BY <1>1, <1>2, LimitsShrink, QuietSole

(* front() is never called on an empty queue, where it would be undefined: *)
(* not after isQueueEmpty() said no, and not when an rx period ends.  So   *)
(* it is also when the web interface sets limits, of inverters the main    *)
(* loop leaves alone.                                                      *)
THEOREM FrontExistsCorrect ==
    ASSUME OnlySender
    PROVE  Spec => []FrontExists
<1>1. Init => SoleInv
  <2> SUFFICES ASSUME Init PROVE SoleInv
    OBVIOUS
  <2>1. Calling = {} /\ \A i : Limits(i) = {}
    BY DEF Init, Calling, Limits, Queued, Range
  <2> QED BY <2>1 DEF Init, SoleInv, MayAsk, LoopPart, LoopSawBusy, Awaiting, SoleLimit, Asks
<1>2. TypeOK /\ OwnedInv /\ PlaceInv /\ SoleInv /\ [Next]_vars => SoleInv'
  <2>1. SoleInv /\ UNCHANGED vars => SoleInv'
    BY DEF SoleInv, MayAsk, LoopPart, LoopSawBusy, Awaiting, SoleLimit, Limits, Leaving,
           Asks, Queued, Calling, vars
  <2> QED
    BY <2>1, RequestSole, TaskStepSole, RadioStepSole, RxEndSole, InverterStepSole DEF Next
<1>3. SoleInv => FrontExists
  BY DEF SoleInv, LoopPart, FrontExists
<1> QED BY <1>1, <1>2, <1>3, TypeCorrect, CommandsApart, PTL DEF Spec
=============================================================================
