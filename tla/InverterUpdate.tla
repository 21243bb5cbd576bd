---------------------------- MODULE InverterUpdate ----------------------------
(***************************************************************************)
(* How the power limiter gets one inverter to its target: update() and     *)
(* retire() of PowerLimiterInverter, called by every pass of the power     *)
(* limiter's loop, against the statuses the Hoymiles library keeps of the  *)
(* last limit and the last power command (OK, NOK or PENDING).             *)
(*                                                                         *)
(* Watts are kept where they are compared: the limits.  An output is zero  *)
(* or not.  An answer is "new" when it came after the start of the update  *)
(* cycle.  Time passes in ticks.                                           *)
(***************************************************************************)
EXTENDS Integers, Sequences

CONSTANTS
    Limits,        \* limits in watts that the planner asks for
    LowerLimit,    \* LowerPowerLimit
    None,          \* std::nullopt
    Restart,       \* the restart command, among on (TRUE) and off (FALSE)
    Battery,       \* isBatteryPowered()
    Solar,         \* isSolarPowered()
    Timeout,       \* ticks an update cycle may last (30 s)
    Backoff,       \* ticks without commands after a failure (3 s)
    RestartAfter,  \* timeouts before the inverter is restarted (10)
    RebootAfter,   \* timeouts before this system is restarted (20)
    MaxQueued      \* bound: power commands in the radio's queue

ASSUME InverterAssumption ==
    /\ None \notin Limits \cup {LowerLimit} /\ None \notin Nat
    /\ None \notin BOOLEAN \cup {Restart} /\ Restart \notin BOOLEAN
    /\ Battery \in BOOLEAN /\ Solar \in BOOLEAN /\ ~(Battery /\ Solar)
    /\ Timeout \in Nat /\ Backoff \in Nat \ {0}
    /\ RestartAfter \in Nat /\ RebootAfter \in Nat /\ RestartAfter < RebootAfter
    /\ MaxQueued \in Nat \ {0}

VARIABLES
    u,          \* the PowerLimiterInverter, and what update() last returned
    h,          \* the statuses of the Hoymiles library
    mode,       \* governed, about to be reloaded, retired, or gone
    producing   \* isProducing(), as the statistics say

vars == <<u, h, mode, producing>>

Acts     == {TRUE, FALSE, Restart}
Statuses == {"OK", "NOK", "PENDING"}

(* Where getCurrentLimitWatts() has a limit from: nowhere, what the         *)
(* inverter reported, or the last target, which is kept for good.           *)
Known    == {"no", "reported", "set"}

TypeOK ==
    /\ u \in [power : BOOLEAN \cup {None}, limit : Limits \cup {LowerLimit, None},
              force : BOOLEAN, parallel : BOOLEAN,
              started : (0 .. Timeout + 1) \cup {None},
              inLimit : Limits \cup {LowerLimit, None}, inPower : BOOLEAN \cup {None},
              timeouts : 0 .. RebootAfter, backoff : 0 .. Backoff,
              assumed : {None, 0, 1}, known : Known, reboot : BOOLEAN, busy : {FALSE}]
    /\ h \in [lim : Statuses, limNew : BOOLEAN, pow : Statuses, powNew : BOOLEAN,
              act : BOOLEAN \cup {None}, queue : Seq(Acts)]
    /\ Len(h.queue) <= MaxQueued
    /\ mode \in {"governed", "reload", "retired", "gone"}
    /\ producing \in BOOLEAN

(* A new object has no last target; the library may know a limit.           *)
NewInverter(known) ==
    [power |-> None, limit |-> None, force |-> FALSE, parallel |-> FALSE,
     started |-> None, inLimit |-> None, inPower |-> None, timeouts |-> 0,
     backoff |-> 0, assumed |-> None, known |-> known, reboot |-> FALSE, busy |-> FALSE]

NewLibrary ==
    [lim |-> "OK", limNew |-> FALSE, pow |-> "OK", powNew |-> FALSE, act |-> None, queue |-> <<>>]

Init ==
    /\ u \in {NewInverter(known) : known \in Known \ {"set"}} /\ h = NewLibrary
    /\ mode = "governed" /\ producing \in BOOLEAN
-----------------------------------------------------------------------------
(***************************************************************************)
(* update() as steps on its state s: u, h and, in u.busy, what the step    *)
(* returns.  A reset clears what makes an answer new: so does the start of *)
(* the next cycle, for every answer up to then.                            *)
(***************************************************************************)
Busy(s) == [s EXCEPT !.u.busy = TRUE]
Done(s) == [s EXCEPT !.u.busy = FALSE]

Reset(s) == Done([s EXCEPT !.h.limNew = FALSE, !.h.powNew = FALSE, !.u =
    [@ EXCEPT !.power = None, !.limit = None, !.force = FALSE, !.parallel = FALSE,
              !.started = None, !.inLimit = None, !.inPower = None]])

(* _oUpdateStartMillis = millis(): every answer so far is an old one.      *)
Start(s) == [s EXCEPT !.u.started = 0, !.h.limNew = FALSE, !.h.powNew = FALSE]

(* A power command is queued; its status hides that of an earlier one.     *)
Queued(lib, act) == [lib EXCEPT !.pow = "PENDING", !.powNew = FALSE, !.queue = Append(@, act),
                                !.act = IF act = Restart THEN @ ELSE None]

(* updateFailure: back off; restart the inverter after many failures, and  *)
(* then the system (triggerRestart).                                       *)
Fail(s) ==
    LET n == s.u.timeouts + 1
        counted == [s EXCEPT !.u.timeouts = n, !.u.backoff = Backoff,
                             !.u.reboot = (n = RebootAfter)]
    IN  Reset(IF n \in RestartAfter .. RebootAfter - 1
              THEN [counted EXCEPT !.h = Queued(@, Restart)]
              ELSE counted)

(* recordSuccessfulTargetCommand                                           *)
Succeed(s, output) == [s EXCEPT !.u.backoff = 0, !.u.assumed = output]

(* The answer of the power command in flight, if there is one to read.     *)
PowerAnsweredMutant(s) ==
    LET answer == s.u.inPower
        read   == [s EXCEPT !.u.inPower = None]
    IN  IF ~s.h.powNew \/ answer = None THEN s
        ELSE IF s.h.pow # "OK" THEN read
        ELSE [Succeed(read, IF answer THEN 1 ELSE 0) EXCEPT !.u.power = None]
PowerAnswered(s) ==
    LET answer == s.u.inPower
        read   == [s EXCEPT !.u.inPower = None]
    IN  IF ~s.h.powNew \/ answer = None THEN s
        ELSE IF s.h.pow # "OK" THEN read
        ELSE IF s.u.power = answer
        THEN [Succeed(read, IF answer THEN 1 ELSE 0) EXCEPT !.u.power = None]
        ELSE Start(Succeed(read, IF answer THEN 1 ELSE 0))

(* startupFromAssumedStandby                                               *)
AssumedStandby(s) == s.u.power = TRUE /\ s.u.assumed = 0

ShouldSend(s, on) ==
    \/ producing # on \/ s.u.force
    \/ on /\ AssumedStandby(s)
    \/ ~on /\ Battery /\ s.u.assumed # None

(* switchPowerState(on)                                                    *)
SwitchPower(s, on, allow) ==
    LET r == PowerAnswered(s)
    IN  IF s.u.power # on THEN Done(s)
        ELSE IF s.h.pow = "PENDING" THEN Busy(s)
        ELSE IF r.u.power = None THEN Done(r)
        ELSE IF ~ShouldSend(r, on) THEN Done([r EXCEPT !.u.power = None])
        ELSE IF ~allow THEN Busy(r)
        ELSE Busy([r EXCEPT !.u.inPower = on, !.h = Queued(@, on)])

(* The answer of the limit command in flight.  A failure ends the cycle.   *)
LimitRead(s) == s.h.limNew /\ s.u.inLimit # None
LimitAnsweredMutant(s, output) ==
    LET read == [s EXCEPT !.u.inLimit = None,
                          !.u.limit = IF @ = s.u.inLimit THEN None ELSE @]
    IN  IF ~LimitRead(s) THEN s
        ELSE IF s.h.lim # "OK" THEN Fail(read)
        ELSE IF read.u.limit = None THEN Succeed(read, output)
        ELSE Start(read)
LimitAnswered(s, output) ==
    LET read == [s EXCEPT !.u.inLimit = None,
                          !.u.limit = IF @ = s.u.inLimit THEN None ELSE @]
    IN  IF ~LimitRead(s) THEN s
        ELSE IF s.h.lim # "OK" THEN Fail(read)
        ELSE IF read.u.limit = None THEN Succeed(read, output)
        ELSE Start(Succeed(read, output))

(* updateLimit                                                             *)
UpdateLimit(s, allow, output) ==
    LET r == LimitAnswered(s, output)
    IN  IF s.u.limit = None THEN Done(s)
        ELSE IF s.h.lim = "PENDING" THEN Busy(s)
        ELSE IF r.u.limit = None THEN Done(r)
        ELSE IF ~allow THEN Busy(r)
        ELSE Busy([r EXCEPT !.u.inLimit = r.u.limit, !.h.lim = "PENDING", !.h.limNew = FALSE])

(* The end of update().                                                    *)
Finish(s) == [Reset(s) EXCEPT !.u.timeouts = 0]

(* Off first, then the limit, then on; both at once when starting up from  *)
(* standby.  A failed limit leaves nothing pending, so that the cycle ends *)
(* like a successful one.                                                  *)
WorkMutant(s, allow, output) ==
    LET off   == SwitchPower(s, FALSE, allow)
        on    == SwitchPower(off, TRUE, allow)
        limit == UpdateLimit(on, allow, output)
    IN  IF off.u.busy THEN off
        ELSE IF on.u.busy THEN on
        ELSE IF limit.u.busy THEN limit
        ELSE Finish(limit)
Work(s, allow, output) ==
    LET off   == SwitchPower(s, FALSE, allow)
        limit == UpdateLimit(off, allow, output)
        both  == \/ AssumedStandby(off)
                 \/ (off.u.parallel /\ off.u.power = TRUE /\ ~producing)
        on    == SwitchPower(limit, TRUE, allow)
    IN  IF off.u.busy THEN off
        ELSE IF limit.u.busy /\ ~both THEN limit
        ELSE IF on.u.busy \/ limit.u.busy THEN Busy(on)
        ELSE Finish(on)

State == [u |-> u, h |-> h]

(* With an unknown limit, the lower limit is set to wake up the inverter.  *)
Cycle ==
    LET target == IF u.known = "no" /\ u.limit = None
                  THEN [State EXCEPT !.u.limit = LowerLimit] ELSE State
    IN  IF u.started = None THEN Start(target) ELSE target

UpdateToMutant(s) ==
    /\ mode # "gone" /\ h' = s.h /\ Len(h'.queue) <= MaxQueued
    /\ u' = Done(s).u
    /\ mode' = IF mode = "retired" /\ ~s.u.busy THEN "gone" ELSE mode
    /\ UNCHANGED producing
UpdateTo(s) ==
    /\ mode # "gone" /\ ~u.reboot
    /\ h' = s.h /\ Len(h'.queue) <= MaxQueued
    /\ IF mode = "reload" /\ ~s.u.busy
       THEN \/ \E known \in Known \ {"set"} : u' = NewInverter(known) /\ mode' = "governed"
            \/ u' = [s.u EXCEPT !.power = FALSE] /\ mode' = "retired"
       ELSE /\ u' = Done(s).u
            /\ mode' = IF mode = "retired" /\ ~s.u.busy THEN "gone" ELSE mode
    /\ UNCHANGED producing

(* updateInverters: update() or, for a retiree, retire(); reloadConfig     *)
(* waits until nothing is pending, and makes new inverters or retirees.    *)
(* The inverter may be unusable (not reachable, its commands disabled, off *)
(* the grid, or a solar one at night) at any pass.                         *)
Waits    == u.power = None /\ h.pow = "PENDING"
TimedOutMutant == u.started # None /\ u.started > Timeout /\ h.lim # "PENDING"
TimedOut == u.started # None /\ u.started > Timeout
HasWork  == u.backoff = 0 /\ ~(u.known # "no" /\ u.power = None /\ u.limit = None)

Wait    == Waits /\ UpdateTo(Busy(State))
Skip    == ~Waits /\ UpdateTo(Reset(State))
GiveUp  == ~Waits /\ HasWork /\ TimedOut /\ UpdateTo(Fail(State))
Proceed == /\ ~Waits /\ HasWork /\ ~TimedOut
           /\ \E allow \in BOOLEAN, output \in {0, 1} : UpdateTo(Work(Cycle, allow, output))
Update  == Wait \/ Skip \/ GiveUp \/ Proceed
-----------------------------------------------------------------------------
(***************************************************************************)
(* The planner sets targets, also while older ones are pending.            *)
(***************************************************************************)
Eligible == u.backoff = 0 /\ u.known # "no"

Target(t) ==
    /\ mode = "governed" /\ ~u.reboot
    /\ u' = t /\ UNCHANGED <<h, mode, producing>>

(* setAcOutputAndLimit, with reassertTargetPowerState from zero output.    *)
SetOutput(l, force) ==
    /\ Eligible
    /\ Target([u EXCEPT !.power = TRUE, !.limit = l, !.known = "set",
                        !.force = @ \/ force])

(* setMaxOutput, with fastStart or without                                 *)
SetMaxOutput(l, fast) ==
    Target([u EXCEPT !.power = TRUE, !.limit = l, !.known = "set",
                     !.parallel = fast])

(* standby, with reassertTargetPowerState or without                       *)
Standby(force) ==
    Target([u EXCEPT !.power = FALSE, !.force = @ \/ force])

(* refreshStaleLimit and applyConfiguredLimitBounds                        *)
RefreshLimit(l) ==
    /\ Eligible /\ u.power = None /\ u.limit = None
    /\ Target([u EXCEPT !.limit = l, !.known = "set"])

RequestReload ==
    /\ mode = "governed" /\ ~u.reboot /\ mode' = "reload"
    /\ UNCHANGED <<u, h, producing>>

(* autoRestartInverters: once a day the loop restarts every inverter that  *)
(* is not solar powered, whatever is pending, and nothing is reset.        *)
ScheduledRestart ==
    /\ mode = "governed" /\ ~u.reboot /\ ~Solar
    /\ h' = Queued(h, Restart) /\ Len(h'.queue) <= MaxQueued
    /\ UNCHANGED <<u, mode, producing>>
-----------------------------------------------------------------------------
(***************************************************************************)
(* The radio, the inverter's statistics, the clock.  A power state counts  *)
(* as delivered whatever happens; a limit and a restart may fail.          *)
(***************************************************************************)
AnswerLimit(status) ==
    /\ h.lim = "PENDING"
    /\ h' = [h EXCEPT !.lim = status, !.limNew = u.started # None]
    /\ u' = [u EXCEPT !.known = IF @ = "no" /\ status = "OK" THEN "reported" ELSE @]
    /\ UNCHANGED <<mode, producing>>

(* A restart makes the inverter's limit unknown to the library.            *)
AnswerPower ==
    /\ h.queue # <<>>
    /\ LET act == Head(h.queue)
       IN  \E status \in IF act = Restart THEN {"OK", "NOK"} ELSE {"OK"} :
             /\ h' = [h EXCEPT !.queue = Tail(@), !.act = IF act = Restart THEN @ ELSE act,
                               !.pow = status, !.powNew = u.started # None]
             /\ u' = IF act = Restart /\ status = "OK" /\ u.known = "reported"
                     THEN [u EXCEPT !.known = "no"] ELSE u
    /\ UNCHANGED <<mode, producing>>

(* New statistics; those from after the settling time end the assumption.  *)
Stats ==
    /\ producing' \in BOOLEAN /\ u' \in {u, [u EXCEPT !.assumed = None]}
    /\ UNCHANGED <<h, mode>>

Tick ==
    /\ u' = [u EXCEPT !.started = IF @ = None \/ @ > Timeout THEN @ ELSE @ + 1,
                      !.backoff = IF @ = 0 THEN 0 ELSE @ - 1]
    /\ u' # u /\ UNCHANGED <<h, mode, producing>>

(* RestartHelper.triggerRestart, and the system starts again.              *)
Reboot ==
    /\ u.reboot
    /\ \E known \in Known \ {"set"} : u' = NewInverter(known)
    /\ h' = NewLibrary /\ mode' = "governed"
    /\ UNCHANGED <<producing>>

Next ==
    \/ Update \/ RequestReload \/ ScheduledRestart \/ AnswerPower \/ Stats \/ Tick \/ Reboot
    \/ \E status \in {"OK", "NOK"} : AnswerLimit(status)
    \/ \E l \in Limits, b \in BOOLEAN : SetOutput(l, b) \/ SetMaxOutput(l, b)
    \/ \E b \in BOOLEAN : Standby(b)
    \/ \E l \in Limits : RefreshLimit(l)

(* The loop runs: a pass with nothing to do ends what there was, a cycle    *)
(* begins, and one that lasted too long is given up; what happens between   *)
(* needs no fairness, and the inverter need not become unusable.  Time      *)
(* passes, and the radio gets every power command off; a limit may stay     *)
(* without an answer.                                                       *)
Fairness ==
    /\ WF_vars(~HasWork /\ Skip) /\ WF_vars(u.started = None /\ Proceed) /\ WF_vars(GiveUp)
    /\ WF_vars(Tick) /\ WF_vars(AnswerPower) /\ WF_vars(Reboot)

Spec == Init /\ [][Next]_vars /\ Fairness
-----------------------------------------------------------------------------
(* update() counts the commands that "timed out *or* failed".              *)
FailuresCounted ==
    [][ u.inLimit # None /\ h.limNew /\ h.lim = "NOK" /\ u.backoff = 0 /\ u'.backoff > 0
        => u'.timeouts = u.timeouts + 1 ]_vars

(* "Enable power production only after setting the desired limit": when    *)
(* the on command is sent no limit is pending, but for startups that send  *)
(* both at once.                                                           *)
LimitBeforeOn ==
    [][ u.inPower # TRUE /\ u'.inPower = TRUE
        => u'.limit = None \/ u.parallel \/ u.assumed = 0 ]_vars

(* The answer to the limit command in flight does not become old before the *)
(* backoff ends and an output is assumed: that of the limit, or that of the *)
(* power command when its answer, read first, moves the start of the cycle. *)
(* But not when the inverter cannot be used, when the cycle timed out       *)
(* before update() read the answer, or when a reload replaced the object in *)
(* the same step.                                                           *)
FreshAnswer == u.inLimit # None /\ h.lim = "OK" /\ h.limNew
AnswerBooked ==
    [][ FreshAnswer /\ ~FreshAnswer'
        => \/ u'.assumed # None /\ u'.backoff = 0
           \/ mode = "reload" /\ mode' # "reload"
           \/ Skip \/ GiveUp ]_vars

(* The newest on/off command that the radio has or had: after it there are *)
(* only restarts in the queue.                                             *)
Newest(lib, on) ==
    \/ \E n \in 1 .. Len(lib.queue) :
          /\ lib.queue[n] = on
          /\ \A m \in n + 1 .. Len(lib.queue) : lib.queue[m] = Restart
    \/ /\ lib.act = on
       /\ \A m \in 1 .. Len(lib.queue) : lib.queue[m] = Restart

(* A stop is forgotten only when the inverter does not produce, when the    *)
(* stop was delivered or is the newest on/off command on its way, when the  *)
(* inverter cannot be used, or when the cycle timed out: not for a limit    *)
(* that failed, a reload, or an answer to something else.  The answer of a  *)
(* restart beside it may be taken for that of the stop, but no start can    *)
(* come to the inverter after the stop then.                                *)
StopKept ==
    [][ u.power = FALSE /\ u'.power = None
        => ~producing \/ Newest(h, FALSE) \/ Skip \/ GiveUp \/ Reboot ]_vars

(* A reload does not wait for ever for pending commands, though limits may *)
(* stay without an answer.                                                 *)
ReloadHappens == mode = "reload" ~> mode # "reload"
=============================================================================
