---------------------------- MODULE HuaweiCharger ----------------------------
(***************************************************************************)
(* The Huawei grid charger: the provider, which decides whether and with    *)
(* which current the PSU charges, the task of the hardware interface, which *)
(* finds the PSU and hands the queued commands to the CAN driver, the       *)
(* driver, and the PSU.  The provider is called by the main task, whose     *)
(* loop takes the provider's lock and whose power limiter does not, and by  *)
(* the tasks of MQTT and the web server, with the lock.                     *)
(*                                                                         *)
(* A current is zero or one of a few values; voltages, limits and fans are  *)
(* "settings", whose values nothing here depends on.  Whether a time has    *)
(* run out is a choice.  What the PSU is told is followed for one of its    *)
(* settings, whichever: the current, or whether it produces.                *)
(***************************************************************************)
EXTENDS Naturals, Sequences

CONSTANTS
    MaxCurrent,   \* the current of AutoPowerUpperPowerLimit
    None,         \* std::nullopt
    Tries,        \* how often a parameter is sent (3)
    MaxQueue,     \* bound: commands in the send queue
    MaxFrames     \* frames the driver keeps until the bus has taken them

ASSUME ChargerAssumption ==
    /\ MaxCurrent \in Nat \ {0} /\ Tries \in Nat \ {0}
    /\ MaxQueue \in Nat /\ MaxFrames \in Nat
    /\ None \notin Nat \cup {"OFF", "ON", "EXT", "INT"}

VARIABLES
    p,      \* the provider
    main,   \* the main task's call: of the loop, or of the power limiter
    task,   \* the call of MQTT or the web server
    hw,     \* the hardware interface
    wire,   \* frames in the driver
    kind,   \* the setting that is followed
    psu,    \* what the PSU was told of it since it has power
    last    \* history: what the PSU was asked for last, None when unsure

vars == <<p, main, task, hw, wire, kind, psu, last>>

Currents == 0 .. MaxCurrent
Modes    == {"OFF", "ON", "EXT", "INT"}
Kinds    == {"production", "current"}

(* A command for the setting that is followed, or for another one, or a     *)
(* request.                                                                 *)
Command(what, value, tries) ==
    [ours |-> what = kind, value |-> IF what = kind THEN value ELSE 0, tries |-> tries]
Commands == [ours : BOOLEAN, value : Currents, tries : 1 .. Tries]
Frame(c) == [ours |-> c.ours, value |-> c.value]

(* A call in progress, at its next step: it may switch the output, send a   *)
(* current and set the mode.                                                *)
Steps == {"idle", "check", "test", "production", "flag", "current", "mode"}
Calls == [at : Steps, locked : BOOLEAN, on : {0, 1},
          value : Currents \cup {None}, mode : Modes \cup {None}]
Idle  == [at |-> "idle", locked |-> FALSE, on |-> 0, value |-> None, mode |-> None]

TypeOK ==
    /\ p \in [mode : Modes, enabled : {None, 0, 1}]
    /\ main \in Calls /\ task \in Calls
    /\ hw \in [queue : Seq(Commands), left : 0 .. MaxQueue, multiplier : BOOLEAN,
               known : BOOLEAN, settled : BOOLEAN]
    /\ Len(hw.queue) <= MaxQueue
    /\ wire \in Seq([ours : BOOLEAN, value : Currents]) /\ Len(wire) <= MaxFrames
    /\ kind \in Kinds /\ psu \in Currents \cup {None} /\ last \in Currents \cup {None}

(* After init(): the PSU was not found yet, and does what it did before.    *)
Init ==
    /\ p \in [mode : {"EXT", "INT"}, enabled : {None}]
    /\ main = Idle /\ task = Idle
    /\ hw = [queue |-> <<>>, left |-> 0, multiplier |-> FALSE,
             known |-> FALSE, settled |-> FALSE]
    /\ wire = <<>> /\ kind \in Kinds /\ psu = None /\ last = None
-----------------------------------------------------------------------------
(***************************************************************************)
(* A call's steps.  The power limiter's go on between those of a call that  *)
(* has the lock.                                                            *)
(***************************************************************************)
Busy(c)      == c.at # "idle"
Switching(c) == c.at \in {"test", "production", "flag", "mode"}
AutoMode     == p.mode \in {"EXT", "INT"}

(* The output is switched by two at once, or on after the mode was tested   *)
(* and is another one now: what the PSU was asked for is anybody's guess.   *)
Raced == Switching(main) /\ (Switching(task) \/ ~(main.locked \/ AutoMode))

Asked(what, value) == last' = IF what = kind THEN value ELSE last
Guess == Asked("production", IF Raced THEN None ELSE last)

(* enableOutput and disableOutput return at once when _oOutputEnabled says  *)
(* so, and set it after the command was queued.                             *)
AfterSwitch(c) ==
    IF c.mode # None THEN [c EXCEPT !.at = "mode"]
    ELSE IF c.value # None THEN [c EXCEPT !.at = "current"]
    ELSE Idle

(* HardwareInterface::setParameter, while its task does not have the lock.  *)
Enqueue(c) ==
    /\ hw.left = 0 /\ Len(hw.queue) < MaxQueue
    /\ hw' = [hw EXCEPT !.queue = Append(@, c)]

(* A current needs the PSU's multiplier, and is dropped without it.         *)
EnqueueCurrent(value) ==
    IF hw.multiplier
    THEN Enqueue(Command("current", value, Tries)) /\ Asked("current", value)
    ELSE hw.left = 0 /\ UNCHANGED hw /\ Asked("current", None)

(* A current starts the PSU if needed; the lock keeps the mode until then.  *)
Start(value) == IF value > 0 /\ AutoMode THEN "test" ELSE "current"

(* c is a call, and then the same call after its next step.                 *)
Check(c, then) ==
    /\ c.at = "check" /\ then = [c EXCEPT !.at = Start(c.value)]
    /\ UNCHANGED <<p, hw, last>>

Test(c, then) ==
    /\ c.at = "test"
    /\ then = IF p.enabled = c.on THEN AfterSwitch(c) ELSE [c EXCEPT !.at = "production"]
    /\ Guess /\ UNCHANGED <<p, hw>>

SwitchOutput(c, then) ==
    /\ c.at = "production" /\ then = [c EXCEPT !.at = "flag"]
    /\ Enqueue(Command("production", c.on, Tries))
    /\ Asked("production", IF Raced THEN None ELSE c.on)
    /\ UNCHANGED p

NoteOutputMutant(c, then) ==
    /\ c.at = "flag" /\ then = AfterSwitch(c)
    /\ p' = [p EXCEPT !.enabled = IF c.on = 0 THEN c.on ELSE @]
    /\ Guess /\ UNCHANGED hw
NoteOutput(c, then) ==
    /\ c.at = "flag" /\ then = AfterSwitch(c)
    /\ p' = [p EXCEPT !.enabled = c.on]
    /\ Guess /\ UNCHANGED hw

SendCurrent(c, then) ==
    /\ c.at = "current"
    /\ then = IF c.mode = None THEN Idle ELSE [c EXCEPT !.at = "mode"]
    /\ EnqueueCurrent(c.value) /\ UNCHANGED p

SwitchMode(c, then) ==
    /\ c.at = "mode" /\ then = Idle
    /\ p' = [p EXCEPT !.mode = c.mode]
    /\ Guess /\ UNCHANGED hw

Step(c, then) ==
    \/ Check(c, then) \/ Test(c, then) \/ SwitchOutput(c, then)
    \/ NoteOutput(c, then) \/ SendCurrent(c, then) \/ SwitchMode(c, then)

MainStep == Step(main, main') /\ UNCHANGED <<task, wire, kind, psu>>
TaskStep == Step(task, task') /\ UNCHANGED <<main, wire, kind, psu>>
-----------------------------------------------------------------------------
(***************************************************************************)
(* The tasks of MQTT and the web server.                                    *)
(***************************************************************************)
LockFree == ~Busy(task) /\ ~(Busy(main) /\ main.locked)

TaskCalls(at, on, value, mode) ==
    /\ LockFree
    /\ task' = [at |-> at, locked |-> TRUE, on |-> on, value |-> value, mode |-> mode]
    /\ UNCHANGED <<p, main, hw, wire, kind, psu, last>>

(* setMode.  Only a change from internal to external control stops the      *)
(* current: when the PSU is switched off or on the mode has changed already. *)
SetMode(mode) ==
    CASE mode = "OFF" -> TaskCalls("test", 0, None, "OFF")
      [] mode = "ON"  -> TaskCalls("test", 1, None, "ON")
      [] mode = "EXT" /\ p.mode = "INT" -> TaskCalls("current", 1, 0, "EXT")
      [] OTHER        -> TaskCalls("mode", 1, None, mode)

(* setParameter: a current from outside, but under internal control.        *)
SetParameter(value) == p.mode # "INT" /\ TaskCalls(Start(value), 1, value, None)

(* setProduction, which does not tell the provider's loop.                  *)
SetProduction(on) ==
    /\ LockFree /\ Enqueue(Command("production", on, Tries)) /\ Asked("production", None)
    /\ UNCHANGED <<p, main, task, wire, kind, psu>>

(* setFan, setParameter for what is no online current, and the voltage      *)
(* limit that the provider's loop sends periodically                        *)
SetSetting ==
    /\ LockFree /\ Enqueue(Command("settings", 0, Tries))
    /\ UNCHANGED <<p, main, task, wire, kind, psu, last>>
-----------------------------------------------------------------------------
(***************************************************************************)
(* The main task.                                                           *)
(***************************************************************************)
MainCalls(at, locked, on, value) ==
    /\ ~Busy(main)
    /\ main' = [at |-> at, locked |-> locked, on |-> on, value |-> value, mode |-> None]
    /\ UNCHANGED <<p, task, hw, wire, kind, psu, last>>

(* The loop switches the output off when no current flowed for a while, in  *)
(* a pass of its own here.                                                  *)
Shutdown == p.mode = "INT" /\ LockFree /\ MainCalls("test", TRUE, 0, None)

(* Emergency charging at the upper limit, when the battery asks for it, and *)
(* its end, in every mode; otherwise automatic control chooses a current    *)
(* from the meter's value.                                                  *)
Loop(value) ==
    /\ p.mode = "INT" \/ value \in {0, MaxCurrent}
    /\ LockFree /\ MainCalls(Start(value), TRUE, 1, value)

(* setPowerLimiterInputPowerWatts, without the lock.  The target is neither *)
(* zero nor unchanged only in internal control.                             *)
Limiter(value) ==
    /\ p.mode = "INT" \/ value = 0
    /\ MainCalls("check", FALSE, 1, value)
-----------------------------------------------------------------------------
(***************************************************************************)
(* The task of the hardware interface: a pass reads the answers, finds what *)
(* to request, and processQueue sends what is in the queue.  Answers may    *)
(* come at any time, late or in part; those of the board properties may     *)
(* start again after they were complete, so that each pass has them in any  *)
(* state.                                                                   *)
(***************************************************************************)
Reads == {[hw EXCEPT !.multiplier = config, !.known = complete] :
              config \in {hw.multiplier, TRUE}, complete \in {hw.known, TRUE}}

RequestMutant(r) == [r EXCEPT !.queue = Append(@, Command("request", 0, 0))]
Request(r) == [r EXCEPT !.queue = Append(@, Command("request", 0, 1))]
ProcessMutant(r) == [r EXCEPT !.left = Len(r.queue) + 1]
Process(r) == [r EXCEPT !.left = Len(r.queue)]

Unreachable(r) ==
    [r EXCEPT !.multiplier = FALSE, !.known = FALSE, !.settled = FALSE]

(* sendSettings.                                                            *)
Settle(r) == [r EXCEPT !.settled = TRUE, !.queue = Append(@, Command("settings", 0, Tries))]

(* Without an answer the device config is requested again, or the PSU is    *)
(* taken for unreachable.                                                   *)
PassesOf(r, board) ==
    IF ~r.known THEN {r, Process(Request(r))}
    ELSE {Unreachable(r)} \cup
         (IF ~r.settled THEN {Process(Settle(r))}
          ELSE IF board = "Reading" THEN {r, Process(Request(r))}
          ELSE IF board # "Complete" THEN {Process(Request(r))}
          ELSE IF r.queue # <<>> THEN {Process(r)}
          ELSE {r, Process(Request(Request(r)))})

Pass ==
    /\ hw.left = 0
    /\ \E r \in Reads, board \in {"Unknown", "Reading", "Complete"} : hw' \in PassesOf(r, board)
    /\ Len(hw'.queue) <= MaxQueue
    /\ UNCHANGED <<p, main, task, wire, kind, psu, last>>

(* A command counts as sent once the driver has the frame.                  *)
Sent ==
    /\ hw.left > 0 /\ Len(wire) < MaxFrames
    /\ hw' = [hw EXCEPT !.left = @ - 1, !.queue = Tail(@)]
    /\ wire' = Append(wire, Frame(Head(hw.queue)))
    /\ UNCHANGED <<p, main, task, kind, psu, last>>

(* The driver did not take the frame: the command stays in front, or is     *)
(* dropped after its tries.                                                 *)
AfterFailureMutant(queue) ==
    IF Head(queue).tries = 1 THEN Tail(queue)
    ELSE Append(Tail(queue), [Head(queue) EXCEPT !.tries = @ - 1])
AfterFailure(queue) ==
    IF Head(queue).tries = 1 THEN Tail(queue)
    ELSE <<[Head(queue) EXCEPT !.tries = @ - 1]>> \o Tail(queue)

NotSent ==
    LET c == Head(hw.queue)
    IN  /\ hw.left > 0
        /\ hw' = [hw EXCEPT !.left = @ - 1, !.queue = AfterFailure(@)]
        /\ last' = IF c.ours /\ c.tries = 1 THEN None ELSE last
        /\ UNCHANGED <<p, main, task, wire, kind, psu>>

(* The PSU acknowledges a frame, now or when it has power again.            *)
Deliver ==
    /\ wire # <<>> /\ wire' = Tail(wire)
    /\ psu' = IF Head(wire).ours THEN Head(wire).value ELSE psu
    /\ UNCHANGED <<p, main, task, hw, kind, last>>

(* The PSU loses its power, and comes back with its default values.         *)
PowerLoss == psu' = None /\ UNCHANGED <<p, main, task, hw, wire, kind, last>>

Next ==
    \/ \E mode \in Modes : SetMode(mode)
    \/ \E on \in {0, 1} : SetProduction(on)
    \/ \E value \in Currents : SetParameter(value) \/ Loop(value) \/ Limiter(value)
    \/ SetSetting \/ Shutdown \/ TaskStep \/ MainStep
    \/ Pass \/ Sent \/ NotSent \/ Deliver \/ PowerLoss

Spec == Init /\ [][Next]_vars
-----------------------------------------------------------------------------
OnItsWay ==
    \/ \E i \in DOMAIN hw.queue : hw.queue[i].ours
    \/ \E i \in DOMAIN wire : wire[i].ours

(* processQueue, which goes by the length the queue had, never looks at the *)
(* front of an empty one.                                                   *)
FrontExists == hw.left <= Len(hw.queue)

(* Of all currents from three tasks, through failed sends, retries and a    *)
(* driver that holds them while the PSU is away, the PSU ends with the one  *)
(* queued last, unless one was dropped or the PSU lost its power since.     *)
CurrentFollows ==
    kind = "current" /\ ~OnItsWay /\ last # None => psu \in {last, None}

(* In mode OFF, when no call is in progress and nothing is on its way, the  *)
(* PSU's output is off.  The exceptions are: it lost its power since, the   *)
(* last command was dropped or one of setProduction's, or the power limiter *)
(* and setMode switched the output at the same time.                        *)
OffIsOff ==
    kind = "production" /\ ~OnItsWay /\ last # None /\ p.mode = "OFF" /\ ~Busy(task)
        => psu \in {0, None}
=============================================================================
