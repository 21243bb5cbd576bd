--------------------------- MODULE HoymilesRadio ---------------------------
(***************************************************************************)
(* The request/answer engine of lib/Hoymiles: one radio, the queue of      *)
(* commands it works off, and the tasks that add to the queue.             *)
(*                                                                         *)
(* Loop is the Arduino main loop.  It runs HoymilesRadio_NRF::loop or      *)
(* HoymilesRadio_CMT::loop, hence handleReceivedPackage, and is also the   *)
(* task in which the power limiter and pollInverter issue requests.  The   *)
(* other tasks (async web server, MQTT client) issue requests too, while   *)
(* the main loop is anywhere in its own code: enqueCommand takes no lock   *)
(* but that of the single queue operations.  Whatever lies between two of  *)
(* these is a step of its own: a blocking radio write is BeginTx and       *)
(* EndTx, taking a command off is Pop and ClearBusy, and _busyFlag is read *)
(* (ReadBusy) before the queue is locked.                                  *)
(*                                                                         *)
(* A command object is an address of the set Cmds; obj says what is stored *)
(* at an address.  The address is free again when no shared_ptr owns it.   *)
(***************************************************************************)
EXTENDS CommandQueue

CONSTANTS
    Cmds,          \* addresses of command objects
    Inverters,
    Tasks,         \* the tasks that issue requests
    Loop,          \* the main loop, one of them
    MaySend,       \* [Tasks -> set of <<kind, inverter>>] requests of a task
    TxCompletes,   \* txSuccessCompletesCommand(): TRUE on NRF, FALSE on CMT
    MaxResend,     \* [Kinds -> Nat] getMaxResendCount()
    MaxRetransmit, \* getMaxRetransmitCount()
    NoCmd          \* the null pointer

(***************************************************************************)
(* Command kinds: ActivePowerControl; PowerControl with and without        *)
(* completeOnTxSuccess; PowerControl as a restart; every other request of  *)
(* pollInverter (RealTimeRunData, SystemConfigPara, ...), which differ     *)
(* only in their data.                                                     *)
(***************************************************************************)
Kinds == {"limit", "powerTx", "power", "restart", "poll"}

HighPriority == {"limit", "powerTx"}      \* isHighPriority()
CompleteOnTxSuccess == {"limit", "powerTx"}
RemoveOldest == {"limit", "powerTx"}      \* getQueueInsertType()
RemoveNewest == {"poll"}
AllowMultiple == {"power", "restart"}

(* The frames an inverter answers a kind with, told apart by mainCmd.      *)
AnswerOf(k) == IF k = "poll" THEN "data" ELSE "dev"

Unused == [kind |-> "unused", inv |-> NoCmd, sends |-> 0]

ASSUME RadioAssumption ==
    /\ Loop \in Tasks
    /\ MaySend \in [Tasks -> SUBSET (Kinds \X Inverters)]
    /\ TxCompletes \in BOOLEAN
    /\ MaxResend \in [Kinds -> Nat]
    /\ MaxRetransmit \in Nat
    /\ NoCmd \notin Cmds /\ NoCmd \notin Inverters

VARIABLES
    queue,        \* _commandQueue
    obj,          \* the command objects
    busy,         \* _busyFlag
    pc,           \* where the main loop is in handleReceivedPackage
    cur,          \* its local pointer cmd, from the front() to the pop()
    call,         \* where each task is in a request: [step, cmd, front]
    limitStatus,  \* SystemConfigPara()->getLastLimitCommandSuccess()
    powerStatus,  \* PowerCommand()->getLastPowerCommandSuccess()
    rx,           \* _rxFragmentBuffer of each inverter, as verifyAllFragments sees it
    retransmits,  \* _rxFragmentRetransmitCnt of each inverter
    owed,         \* answers an inverter may still send
    known,        \* the inverters getInverterBySerial finds
    removing      \* where removeInverterBySerial is: [step, inv]

vars == <<queue, obj, busy, pc, cur, call, limitStatus, powerStatus,
          rx, retransmits, owed, known, removing>>
radioVars == <<busy, pc, cur>>
inverterVars == <<limitStatus, powerStatus, rx, retransmits, owed, known, removing>>

Idle == [step |-> "idle", cmd |-> NoCmd, front |-> FALSE]
NoRemoval == [step |-> "none", inv |-> NoCmd]

Init ==
    /\ queue = <<>>
    /\ obj = [c \in Cmds |-> Unused]
    /\ busy = FALSE
    /\ pc = "idle"
    /\ cur = NoCmd
    /\ call = [t \in Tasks |-> Idle]
    /\ limitStatus = [i \in Inverters |-> "OK"]
    /\ powerStatus = [i \in Inverters |-> "OK"]
    /\ rx = [i \in Inverters |-> "none"]
    /\ retransmits = [i \in Inverters |-> 0]
    /\ owed = [i \in Inverters |-> {}]
    /\ known = Inverters
    /\ removing = NoRemoval
-----------------------------------------------------------------------------
(* Helpers.                                                                *)

Queued == Range(queue)
Highs == {c \in Cmds : obj[c].kind \in HighPriority}
Mine(i) == {c \in Cmds : obj[c].inv = i}

(* Command name, without the flag: restart is a PowerControl too.          *)
ParameterOf(k) == IF k = "restart" THEN "power" ELSE k

(* The commands c->areSameParameter(other) holds for.                      *)
SameParameterMutant(c) == {d \in Cmds : obj[d].inv = obj[c].inv}
SameParameter(c) ==
    {d \in Cmds : /\ obj[d].inv = obj[c].inv
                  /\ ParameterOf(obj[d].kind) = ParameterOf(obj[c].kind)}

(* Objects somebody refers to: the queue q, a task in a request, and the   *)
(* main loop's raw pointer p, which still reads what was there.            *)
Alive(q, p) == Range(q) \cup {p} \cup {call[t].cmd : t \in Tasks}
Destroy(o, alive) == [c \in Cmds |-> IF c \in alive THEN o[c] ELSE Unused]

(* The main loop runs handleReceivedPackage only between its own requests, *)
(* and under Hoymiles._mutex, which removeInverterBySerial holds.          *)
LoopFree == pc = "idle" /\ call[Loop] = Idle /\ removing = NoRemoval

(* What a finished command writes into its inverter.                       *)
ApplyLimit(c) ==      \* applyLimitFromCommand
    limitStatus' = IF Cardinality(SameParameter(c) \cap Queued) = 1
                   THEN [limitStatus EXCEPT ![obj[c].inv] = "OK"]
                   ELSE limitStatus
ApplyPowerState(c) == powerStatus' = [powerStatus EXCEPT ![obj[c].inv] = "OK"]

HandleSuccess(c) ==   \* handleResponse on a matching answer; handleTxResult
    \/ obj[c].kind = "limit" /\ ApplyLimit(c) /\ UNCHANGED powerStatus
    \/ /\ obj[c].kind \in {"powerTx", "power", "restart"}
       /\ ApplyPowerState(c) /\ UNCHANGED limitStatus
    \/ obj[c].kind \notin Kinds \ {"poll"} /\ UNCHANGED <<limitStatus, powerStatus>>

GotTimeoutMutant(c) == UNCHANGED <<limitStatus, powerStatus>>
GotTimeout(c) ==
    \/ /\ obj[c].kind = "limit"
       /\ limitStatus' = [limitStatus EXCEPT ![obj[c].inv] = "NOK"]
       /\ UNCHANGED powerStatus
    \/ obj[c].kind = "powerTx" /\ ApplyPowerState(c) /\ UNCHANGED limitStatus
    \/ /\ obj[c].kind \in {"power", "restart"}
       /\ powerStatus' = [powerStatus EXCEPT ![obj[c].inv] = "NOK"]
       /\ UNCHANGED limitStatus
    \/ obj[c].kind \notin Kinds \ {"poll"} /\ UNCHANGED <<limitStatus, powerStatus>>

(* sendEsbPacket: count the transmission; the inverter may answer it.  The *)
(* count is only compared with getMaxResendCount(), so counting ends one   *)
(* above it.                                                               *)
Transmit(c) ==
    /\ obj' = [obj EXCEPT ![c].sends =
                  IF @ > MaxResend[obj[c].kind] THEN @ ELSE @ + 1]
    /\ owed' = [owed EXCEPT ![obj[c].inv] = @ \cup {AnswerOf(obj[c].kind)}]

PopFront == queue' = Pop(queue)
-----------------------------------------------------------------------------
(* A request: HM_Abstract::send...Request, then enqueCommand, in steps.    *)

StatusOfMutant(k, i) == "OK"
StatusOf(k, i) ==
    IF k = "limit" THEN limitStatus[i]
    ELSE IF k \in {"powerTx", "power"} THEN powerStatus[i]
    ELSE "OK"             \* restart and poll requests are not refused

(* The PENDING check passes and the command object is made.  A task finds  *)
(* the inverter first (getInverterBySerial).  pollInverter runs under      *)
(* Hoymiles._mutex; the limiter's requests do not.                         *)
Request(t, k, i) ==
    /\ call[t] = Idle
    /\ t = Loop => pc = "idle" /\ (k = "poll" => removing = NoRemoval)
    /\ i \in known
    /\ StatusOf(k, i) # "PENDING"
    /\ \E c \in Cmds \ Alive(queue, cur) :
          /\ c = CHOOSE d \in Cmds \ Alive(queue, cur) : TRUE
          /\ obj' = [obj EXCEPT ![c] = [kind |-> k, inv |-> i, sends |-> 0]]
          /\ call' = [call EXCEPT ![t] =
                [step |-> IF k \in RemoveNewest THEN "insert" ELSE "status",
                 cmd |-> c, front |-> FALSE]]
    /\ UNCHANGED <<queue, radioVars, inverterVars>>

SetPending(t) ==
    LET c == call[t].cmd  i == obj[c].inv IN
    /\ call[t].step = "status"
    /\ \/ /\ obj[c].kind = "limit"
          /\ limitStatus' = [limitStatus EXCEPT ![i] = "PENDING"]
          /\ UNCHANGED powerStatus
       \/ /\ obj[c].kind # "limit"
          /\ powerStatus' = [powerStatus EXCEPT ![i] = "PENDING"]
          /\ UNCHANGED limitStatus
    /\ call' = [call EXCEPT ![t].step =
                  IF obj[c].kind \in AllowMultiple THEN "push" ELSE "insert"]
    /\ UNCHANGED <<queue, obj, radioVars, rx, retransmits, owed, known, removing>>

(* _busyFlag is read as the argument of removeDuplicatedEntries and again  *)
(* of pushPriority; either locks the queue only afterwards.                *)
ReadBusy(t) ==
    LET c == call[t].cmd IN
    /\ \/ /\ call[t].step = "insert" /\ obj[c].kind \in RemoveOldest
          /\ call' = [call EXCEPT ![t] = [step |-> "remove", cmd |-> c, front |-> busy]]
       \/ /\ call[t].step = "push" /\ c \in Highs
          /\ call' = [call EXCEPT ![t] = [step |-> "place", cmd |-> c, front |-> busy]]
    /\ UNCHANGED <<queue, obj, radioVars, inverterVars>>

(* The switch over getQueueInsertType().                                   *)
InsertRemoveOldest(t) ==
    LET c == call[t].cmd IN
    /\ call[t].step = "remove"
    /\ queue' = RemoveDuplicatedEntries(queue, SameParameter(c), call[t].front)
    /\ obj' = Destroy(obj, Alive(queue', cur))
    /\ call' = [call EXCEPT ![t].step = "push"]
    /\ UNCHANGED <<radioVars, inverterVars>>

InsertRemoveNewest(t) ==
    LET c == call[t].cmd IN
    /\ call[t].step = "insert"
    /\ obj[c].kind \in RemoveNewest
    /\ IF SameParameter(c) \cap Queued # {}
       THEN /\ call' = [call EXCEPT ![t] = Idle]
            /\ obj' = [obj EXCEPT ![c] = Unused]
       ELSE call' = [call EXCEPT ![t].step = "push"] /\ UNCHANGED obj
    /\ UNCHANGED <<queue, radioVars, inverterVars>>

Push(t) ==
    LET c == call[t].cmd IN
    /\ \/ /\ call[t].step = "place"
          /\ queue' = PushPriority(queue, c, Highs, call[t].front)
       \/ /\ call[t].step = "push" /\ c \notin Highs
          /\ queue' = Append(queue, c)
    /\ call' = [call EXCEPT ![t] = Idle]
    /\ UNCHANGED <<obj, radioVars, inverterVars>>
-----------------------------------------------------------------------------
(* handleReceivedPackage, idle branch.                                     *)

(* !_busyFlag && !isQueueEmpty(); front() is called only afterwards.       *)
CheckQueue ==
    /\ LoopFree /\ ~busy /\ queue # <<>>
    /\ pc' = "front"
    /\ UNCHANGED <<queue, obj, busy, cur, call, inverterVars>>

(* The inverter is not found; what is then popped is whatever is in front. *)
TxInvalidInverter ==
    /\ pc = "front" /\ queue # <<>> /\ obj[Head(queue)].inv \notin known
    /\ cur' = Head(queue)
    /\ pc' = "drop"
    /\ UNCHANGED <<queue, obj, busy, call, inverterVars>>

(* clearRxFragmentBuffer, then sendEsbPacket starts its blocking write.    *)
BeginTx ==
    /\ pc = "front" /\ queue # <<>>
    /\ LET c == Head(queue)  i == obj[c].inv IN
       /\ i \in known
       /\ rx' = [rx EXCEPT ![i] = "none"]
       /\ retransmits' = [retransmits EXCEPT ![i] = 0]
       /\ cur' = c
       /\ Transmit(c)
    /\ pc' = "tx"
    /\ UNCHANGED <<queue, busy, call, limitStatus, powerStatus, known, removing>>

CompletesOnTx(c) == TxCompletes /\ obj[c].kind \in CompleteOnTxSuccess

(* The write ends and an answer is awaited: the radio is busy from here.   *)
EndTxAwaitAnswer ==
    /\ pc = "tx" /\ ~CompletesOnTx(cur)
    /\ busy' = TRUE
    /\ pc' = "idle"
    /\ cur' = NoCmd
    /\ obj' = Destroy(obj, Alive(queue, NoCmd))
    /\ UNCHANGED <<queue, call, inverterVars>>

(* The write ends without the hardware acknowledge and is tried again.     *)
EndTxAgain ==
    /\ pc = "tx" /\ CompletesOnTx(cur)
    /\ obj[cur].sends <= MaxResend[obj[cur].kind]
    /\ Transmit(cur)
    /\ UNCHANGED <<queue, radioVars, call, limitStatus, powerStatus, rx, retransmits,
                   known, removing>>

(* The write was acknowledged, or was tried often enough: handleTxResult.  *)
EndTxComplete ==
    /\ pc = "tx" /\ CompletesOnTx(cur)
    /\ HandleSuccess(cur)
    /\ pc' = "pop"
    /\ UNCHANGED <<queue, obj, busy, cur, call, rx, retransmits, owed, known, removing>>

(* A finished command, and one without its inverter, leaves by pop(): the  *)
(* front of that moment does.  After a finished one _busyFlag is cleared.  *)
PopFinished ==
    /\ pc \in {"pop", "drop"}
    /\ PopFront
    /\ pc' = IF pc = "pop" THEN "clear" ELSE "idle"
    /\ cur' = NoCmd
    /\ obj' = Destroy(obj, Alive(queue', NoCmd))
    /\ UNCHANGED <<busy, call, inverterVars>>

ClearBusy ==
    /\ pc = "clear"
    /\ busy' = FALSE
    /\ pc' = "idle"
    /\ UNCHANGED <<queue, obj, cur, call, inverterVars>>
-----------------------------------------------------------------------------
(* handleReceivedPackage, busy branch: the rx timeout occurred.  Time is   *)
(* not modelled; any number of fragments is received before it.            *)

MayRetransmitMutant(i) == retransmits[i] <= MaxRetransmit
MayRetransmit(i) == retransmits[i] < MaxRetransmit

RxPeriodEnd(c) == LoopFree /\ busy /\ queue # <<>> /\ c = Head(queue)

(* What ends an exchange goes on to pop() and to _busyFlag = false.        *)
Finish(c) ==
    /\ cur' = c
    /\ pc' = "pop"
    /\ UNCHANGED <<queue, obj, busy, call, rx, retransmits, owed, known, removing>>

RxInvalidInverter(c) ==
    /\ RxPeriodEnd(c) /\ obj[c].inv \notin known
    /\ Finish(c)
    /\ UNCHANGED <<limitStatus, powerStatus>>

(* FRAGMENT_ALL_MISSING_RESEND: sendLastPacketAgain.                       *)
RxResend(c) ==
    /\ RxPeriodEnd(c) /\ obj[c].inv \in known
    /\ rx[obj[c].inv] = "none"
    /\ obj[c].sends <= MaxResend[obj[c].kind]
    /\ Transmit(c)
    /\ UNCHANGED <<queue, radioVars, call, limitStatus, powerStatus, rx, retransmits,
                   known, removing>>

(* A fragment is missing and requested: sendRetransmitPacket, which sends  *)
(* nothing for commands without a request frame.                           *)
RxRetransmit(c) ==
    LET i == obj[c].inv IN
    /\ RxPeriodEnd(c) /\ i \in known
    /\ rx[i] = "part"
    /\ MayRetransmit(i)
    /\ retransmits' = [retransmits EXCEPT ![i] = @ + 1]
    /\ owed' = IF AnswerOf(obj[c].kind) = "data"
               THEN [owed EXCEPT ![i] = @ \cup {"data"}] ELSE owed
    /\ UNCHANGED <<queue, obj, radioVars, call, limitStatus, powerStatus, rx, known,
                   removing>>

(* FRAGMENT_ALL_MISSING_TIMEOUT, FRAGMENT_RETRANSMIT_TIMEOUT and           *)
(* FRAGMENT_HANDLE_ERROR (the answer is of another command or corrupt).    *)
RxFail(c) ==
    LET i == obj[c].inv IN
    /\ RxPeriodEnd(c) /\ i \in known
    /\ \/ rx[i] = "none" /\ obj[c].sends > MaxResend[obj[c].kind]
       \/ rx[i] = "part" /\ ~MayRetransmit(i)
       \/ rx[i] \notin {"none", "part", AnswerOf(obj[c].kind)}
    /\ GotTimeout(c)
    /\ Finish(c)

(* FRAGMENT_OK: handleResponse accepted what is in the buffer.             *)
RxSuccess(c) ==
    /\ RxPeriodEnd(c) /\ obj[c].inv \in known
    /\ rx[obj[c].inv] = AnswerOf(obj[c].kind)
    /\ HandleSuccess(c)
    /\ Finish(c)

RxEnd == \E c \in Cmds : \/ RxInvalidInverter(c) \/ RxResend(c) \/ RxRetransmit(c)
                         \/ RxFail(c) \/ RxSuccess(c)
-----------------------------------------------------------------------------
(* Fragments that arrive are parsed by the main loop: addRxFragment.  A    *)
(* DevControl answer is one frame and takes the place of the first; a data *)
(* answer has several, of which some may be missing.  NRF parses only      *)
(* while it waits for an answer or has nothing to send.                    *)
Listening == LoopFree /\ (TxCompletes => busy \/ queue = <<>>)

ReceiveAll(i, a) ==
    /\ Listening /\ i \in known /\ a \in owed[i]
    /\ rx' = [rx EXCEPT ![i] = a]
    /\ owed' = [owed EXCEPT ![i] = @ \ {a}]
    /\ UNCHANGED <<queue, obj, radioVars, call, limitStatus, powerStatus, retransmits,
                   known, removing>>

ReceivePart(i) ==
    /\ Listening /\ i \in known /\ "data" \in owed[i]
    /\ rx' = [rx EXCEPT ![i] = CASE @ = "none" -> "part"
                                 [] @ = "dev"  -> "mixed"
                                 [] OTHER      -> @]
    /\ UNCHANGED <<queue, obj, radioVars, call, limitStatus, powerStatus, retransmits,
                   owed, known, removing>>

(* Hoymiles.loop() holds Hoymiles._mutex while it sends and polls.          *)
HoymilesMutexFreeMutant == TRUE
HoymilesMutexFree ==
    pc = "idle" /\ (call[Loop] # Idle => obj[call[Loop].cmd].kind # "poll")

(* removeInverterBySerial: waits until the main loop is not in             *)
(* Hoymiles.loop(); then, with the mutex held but no other lock,           *)
(* removeCommands drops the inverter's commands and clears _busyFlag when  *)
(* the front was one of them, and the inverter is erased.                  *)
RemoveCommands(i) ==
    /\ removing = NoRemoval /\ HoymilesMutexFree /\ i \in known
    /\ queue' = RemoveAllEntries(queue, Mine(i))
    /\ removing' = [step |-> IF queue # <<>> /\ obj[Head(queue)].inv = i
                             THEN "clear" ELSE "erase", inv |-> i]
    /\ obj' = Destroy(obj, Alive(queue', cur))
    /\ UNCHANGED <<radioVars, call, limitStatus, powerStatus, rx, retransmits, owed, known>>

RemovedFront ==
    /\ removing.step = "clear"
    /\ busy' = FALSE
    /\ removing' = [removing EXCEPT !.step = "erase"]
    /\ UNCHANGED <<queue, obj, pc, cur, call, limitStatus, powerStatus, rx, retransmits,
                   owed, known>>

EraseInverter ==
    /\ removing.step = "erase"
    /\ known' = known \ {removing.inv}
    /\ removing' = NoRemoval
    /\ UNCHANGED <<queue, obj, radioVars, call, limitStatus, powerStatus, rx, retransmits,
                   owed>>
-----------------------------------------------------------------------------
TaskStep(t) ==
    \/ SetPending(t) \/ ReadBusy(t)
    \/ InsertRemoveOldest(t) \/ InsertRemoveNewest(t) \/ Push(t)

Tx == \/ TxInvalidInverter \/ BeginTx \/ EndTxAwaitAnswer \/ EndTxComplete
      \/ PopFinished \/ ClearBusy

Removal == RemovedFront \/ EraseInverter

Next ==
    \/ \E t \in Tasks : TaskStep(t) \/ \E r \in MaySend[t] : Request(t, r[1], r[2])
    \/ CheckQueue \/ Tx \/ EndTxAgain
    \/ RxEnd \/ Removal
    \/ \E i \in Inverters :
          ReceivePart(i) \/ RemoveCommands(i) \/ \E a \in owed[i] : ReceiveAll(i, a)

(* Every task finishes what it has begun.  The scheduler calls the radio's *)
(* loop once per round whatever else the main loop does, so its turns come *)
(* again and again although requests of the main loop lie between them.    *)
Fairness ==
    /\ \A t \in Tasks : WF_vars(TaskStep(t))
    /\ WF_vars(Tx)
    /\ WF_vars(Removal)
    /\ SF_vars(CheckQueue)
    /\ SF_vars(RxEnd)

Spec == Init /\ [][Next]_vars /\ Fairness
-----------------------------------------------------------------------------
(* Properties.                                                             *)

Statuses == {"OK", "NOK", "PENDING"}
Objects == [kind : Kinds \cup {"unused"}, inv : Inverters \cup {NoCmd}, sends : Nat]
Calls == {Idle} \cup
    [step : {"status", "insert", "remove", "push", "place"}, cmd : Cmds, front : BOOLEAN]
Removals == {NoRemoval} \cup [step : {"clear", "erase"}, inv : Inverters]

(* Every variable has its type.                                            *)
TypeOK ==
    /\ queue \in Seq(Cmds)
    /\ obj \in [Cmds -> Objects]
    /\ busy \in BOOLEAN
    /\ pc \in {"idle", "front", "drop", "tx", "pop", "clear"}
    /\ cur \in Cmds \cup {NoCmd}
    /\ call \in [Tasks -> Calls]
    /\ limitStatus \in [Inverters -> Statuses]
    /\ powerStatus \in [Inverters -> Statuses]
    /\ rx \in [Inverters -> {"none", "part", "mixed", "data", "dev"}]
    /\ retransmits \in [Inverters -> 0 .. MaxRetransmit]
    /\ owed \in [Inverters -> SUBSET {"data", "dev"}]
    /\ known \in SUBSET Inverters
    /\ removing \in Removals

(* A limit or a power-off waits for one other command at most, whoever     *)
(* puts what into the queue and however the reading of _busyFlag, the      *)
(* queue operations and the main loop's pops interleave.  (It may wait for *)
(* one that is not even on the air: the flag is cleared after the pop.)    *)
WaitsForOneOnly == FewBefore(queue, Highs)

(* front() is never called on an empty queue: not after isQueueEmpty()     *)
(* said no, and not when an rx period ends.                                *)
Awaiting == busy /\ pc = "idle" /\ removing.step # "clear"
FrontExists == pc = "front" \/ Awaiting => queue # <<>>

(* While the main loop sends through its raw pointer the command stays     *)
(* owned by the queue, and a finished command is the one pop() takes off.  *)
SentCommandIsQueued ==
    /\ pc = "tx" => cur \in Queued
    /\ pc = "pop" => queue # <<>> /\ Head(queue) = cur

(* A PENDING status refuses every further request, so it must have an end: *)
(* the command it waits for is in the queue or about to be put there.      *)
Underway(i, kinds) ==
    \E c \in Queued \cup ({call[t].cmd : t \in Tasks} \ {NoCmd}) :
        obj[c].inv = i /\ obj[c].kind \in kinds
PendingHasCommand ==
    \A i \in known \ {removing.inv} :
        /\ limitStatus[i] = "PENDING" => Underway(i, {"limit"})
        /\ powerStatus[i] = "PENDING" => Underway(i, {"powerTx", "power", "restart"})

(* A busy radio waits for the answer to the command at the front, so that  *)
(* command has been sent; the flag may outlive the command only until the  *)
(* next assignment of whoever took it off.                                 *)
InFlightIsFront ==
    busy /\ pc # "clear" /\ removing.step # "clear"
        => queue # <<>> /\ obj[Head(queue)].sends > 0

(* An inverter status turns OK only for a command that was transmitted.    *)
OkOnlyAfterSend ==
    [][\A i \in Inverters :
          \/ limitStatus[i] # "OK" /\ limitStatus'[i] = "OK"
          \/ powerStatus[i] # "OK" /\ powerStatus'[i] = "OK"
          => queue # <<>> /\ obj[Head(queue)].sends > 0]_vars

(* Every limit of an inverter is resolved, OK or not, unless the inverter  *)
(* is removed; and so is every other request with a status, unless limits  *)
(* keep coming, which are put before it.                                   *)
PendingResolves ==
    \A i \in Inverters :
        /\ limitStatus[i] = "PENDING" ~> limitStatus[i] # "PENDING" \/ i \notin known
        /\ \/ []<>(Highs \cap Queued # {})
           \/ powerStatus[i] = "PENDING" ~> powerStatus[i] # "PENDING" \/ i \notin known
=============================================================================
