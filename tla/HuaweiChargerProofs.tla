------------------------- MODULE HuaweiChargerProofs -------------------------
(***************************************************************************)
(* Proofs about HuaweiCharger: for any currents, numbers of tries, and      *)
(* bounds of queue and driver, the PSU gets what was asked for last, and    *)
(* mode OFF asks for the output to be off.                                  *)
(***************************************************************************)
EXTENDS HuaweiCharger, TLAPS

(* The last command of q for the setting that is followed carries "value".  *)
Final(q, value) ==
    \A i \in DOMAIN q :
        q[i].ours /\ (\A j \in DOMAIN q : j > i => ~q[j].ours) => q[i].value = value
Within(q) == \E i \in DOMAIN q : q[i].ours

(* What was asked for last is the last in the queue, or the last in the     *)
(* driver, or was told.                                                     *)
Follows(q, w, actual, value) ==
    value # None =>
        \/ Within(q) /\ Final(q, value)
        \/ ~Within(q) /\ Within(w) /\ Final(w, value)
        \/ ~Within(q) /\ ~Within(w) /\ actual \in {value, None}

LEMMA AppendOurs ==
    ASSUME NEW S, NEW q \in Seq(S), NEW c \in S, c.ours
    PROVE  Within(Append(q, c)) /\ Final(Append(q, c), c.value)
<1> DEFINE r == Append(q, c)
<1>1. /\ DOMAIN r = 1 .. Len(q) + 1 /\ Len(q) \in Nat /\ r[Len(q) + 1] = c
  OBVIOUS
<1> HIDE DEF r
<1>2. ASSUME NEW i \in DOMAIN r, \A j \in DOMAIN r : j > i => ~r[j].ours
      PROVE  r[i].value = c.value
  <2>1. i = Len(q) + 1
    BY <1>1, <1>2
  <2> QED
    BY <1>1, <2>1
<1>3. Within(r)
  BY <1>1 DEF Within
<1> QED
  BY <1>2, <1>3 DEF Final, r

LEMMA AppendOther ==
    ASSUME NEW S, NEW q \in Seq(S), NEW c \in S, ~c.ours
    PROVE  /\ Within(Append(q, c)) <=> Within(q)
           /\ \A value : Final(q, value) => Final(Append(q, c), value)
<1> DEFINE r == Append(q, c)
<1>1. /\ DOMAIN q = 1 .. Len(q) /\ DOMAIN r = 1 .. Len(q) + 1 /\ Len(q) \in Nat
      /\ r[Len(q) + 1] = c /\ \A i \in 1 .. Len(q) : r[i] = q[i]
  OBVIOUS
<1> HIDE DEF r
<1>2. ASSUME NEW i \in DOMAIN r, r[i].ours
      PROVE  i \in DOMAIN q /\ r[i] = q[i]
  BY <1>1, <1>2
<1>3. \A i \in DOMAIN q : i \in DOMAIN r /\ r[i] = q[i]
  BY <1>1
<1>4. Within(r) <=> Within(q)
  BY <1>2, <1>3 DEF Within
<1>5. \A value : Final(q, value) => Final(r, value)
  BY <1>2, <1>3 DEF Final
<1> QED
  BY <1>4, <1>5 DEF r

(* Taking a command from the front.                                         *)
LEMMA TailOurs ==
    ASSUME NEW S, NEW q \in Seq(S), q # <<>>
    PROVE  /\ Within(Tail(q)) => Within(q)
           /\ ~Head(q).ours /\ Within(q) => Within(Tail(q))
           /\ Head(q).ours => Within(q)
           /\ \A value : Final(q, value) => Final(Tail(q), value)
           /\ \A value : Final(q, value) /\ Head(q).ours /\ ~Within(Tail(q))
                           => Head(q).value = value
<1> DEFINE r == Tail(q)
<1>1. /\ DOMAIN q = 1 .. Len(q) /\ DOMAIN r = 1 .. Len(q) - 1 /\ Len(q) \in Nat \ {0}
      /\ \A i \in 1 .. Len(q) - 1 : r[i] = q[i + 1]
      /\ Head(q) = q[1]
  OBVIOUS
<1> HIDE DEF r
<1>2. \A i \in DOMAIN r : i + 1 \in DOMAIN q /\ r[i] = q[i + 1]
  BY <1>1
<1>3. \A j \in DOMAIN q : j # 1 => j - 1 \in DOMAIN r /\ r[j - 1] = q[j]
  BY <1>1
<1>4. 1 \in DOMAIN q
  BY <1>1
<1>5. ASSUME NEW value, Final(q, value)  PROVE Final(r, value)
  <2>1. SUFFICES ASSUME NEW i \in DOMAIN r, r[i].ours,
                        \A j \in DOMAIN r : j > i => ~r[j].ours
                 PROVE  r[i].value = value
    BY DEF Final
  <2>2. ASSUME NEW j \in DOMAIN q, j > i + 1  PROVE ~q[j].ours
    <3>1. j - 1 \in DOMAIN r /\ j - 1 > i /\ r[j - 1] = q[j]
      BY <1>1, <2>1, <2>2
    <3> QED
      BY <2>1, <3>1
  <2> QED
    BY <1>2, <1>5, <2>1, <2>2 DEF Final
<1>6. ASSUME NEW value, Final(q, value), q[1].ours, ~Within(r)  PROVE q[1].value = value
  <2>1. ASSUME NEW j \in DOMAIN q, j > 1  PROVE ~q[j].ours
    BY <1>1, <1>3, <1>6, <2>1 DEF Within
  <2> QED
    BY <1>4, <1>6, <2>1 DEF Final
<1>7. Within(r) => Within(q)
  BY <1>2 DEF Within
<1>8. ~q[1].ours /\ Within(q) => Within(r)
  BY <1>3 DEF Within
<1>9. q[1].ours => Within(q)
  BY <1>4 DEF Within
<1> QED
  BY <1>1, <1>5, <1>6, <1>7, <1>8, <1>9 DEF r

(* A command that was not taken stays in front with a try less.             *)
LEMMA RepeatOurs ==
    ASSUME NEW S, NEW q \in Seq(S), q # <<>>, NEW c \in S,
           c.ours = Head(q).ours, c.value = Head(q).value
    PROVE  LET r == <<c>> \o Tail(q)
           IN  /\ Within(r) <=> Within(q)
               /\ \A value : Final(q, value) => Final(r, value)
<1> DEFINE r == <<c>> \o Tail(q)
<1>1. Len(q) \in Nat \ {0} /\ Tail(q) \in Seq(S) /\ Len(Tail(q)) = Len(q) - 1 /\ Head(q) = q[1]
  OBVIOUS
<1>2. <<c>> \in Seq(S) /\ Len(<<c>>) = 1 /\ <<c>>[1] = c
  OBVIOUS
<1>3. /\ DOMAIN q = 1 .. Len(q) /\ DOMAIN r = 1 .. Len(q) /\ r[1] = c
      /\ \A i \in 2 .. Len(q) : r[i] = q[i]
  BY <1>1, <1>2
<1> HIDE DEF r
<1>4. \A i \in DOMAIN q : r[i].ours = q[i].ours /\ r[i].value = q[i].value
  BY <1>1, <1>3
<1>5. DOMAIN r = DOMAIN q
  BY <1>3
<1>6. Within(r) <=> Within(q)
  BY <1>4, <1>5 DEF Within
<1>7. \A value : Final(q, value) => Final(r, value)
  BY <1>4, <1>5 DEF Final
<1> QED
  BY <1>6, <1>7 DEF r
-----------------------------------------------------------------------------
Frames == [ours : BOOLEAN, value : Currents]

(* The step of a command from the queue to the driver.                      *)
LEMMA SentFollows ==
    ASSUME NEW q \in Seq(Commands), q # <<>>, NEW w \in Seq(Frames),
           NEW actual, NEW value, Follows(q, w, actual, value)
    PROVE  Follows(Tail(q), Append(w, Frame(Head(q))), actual, value)
<1> DEFINE f == Frame(Head(q))
<1>1. Head(q) \in Commands
  OBVIOUS
<1>2. f \in Frames /\ f.ours = Head(q).ours /\ f.value = Head(q).value
  BY <1>1 DEF Frame, Frames, Commands
<1> HIDE DEF f
<1>3. CASE Head(q).ours
  BY <1>2, <1>3, TailOurs, AppendOurs DEF Follows, f
<1>4. CASE ~Head(q).ours
  BY <1>2, <1>4, TailOurs, AppendOther DEF Follows, f
<1> QED
  BY <1>3, <1>4

(* The step of a frame from the driver to the PSU.                          *)
LEMMA DeliveredFollows ==
    ASSUME NEW q, NEW w \in Seq(Frames), w # <<>>,
           NEW actual, NEW value, Follows(q, w, actual, value)
    PROVE  Follows(q, Tail(w), IF Head(w).ours THEN Head(w).value ELSE actual, value)
<1>1. CASE Head(w).ours
  BY <1>1, TailOurs DEF Follows
<1>2. CASE ~Head(w).ours
  BY <1>2, TailOurs DEF Follows
<1> QED
  BY <1>1, <1>2

LEMMA QueuedFollows ==
    ASSUME NEW q \in Seq(Commands), NEW w, NEW actual, NEW value, NEW c \in Commands
    PROVE  /\ c.ours /\ c.value = value => Follows(Append(q, c), w, actual, value)
           /\ ~c.ours /\ Follows(q, w, actual, value)
                => Follows(Append(q, c), w, actual, value)
<1>1. ASSUME c.ours, c.value = value  PROVE Follows(Append(q, c), w, actual, value)
  BY <1>1, AppendOurs DEF Follows
<1>2. ASSUME ~c.ours, Follows(q, w, actual, value)
      PROVE  Follows(Append(q, c), w, actual, value)
  BY <1>2, AppendOther DEF Follows
<1> QED
  BY <1>1, <1>2
-----------------------------------------------------------------------------
(***************************************************************************)
(* The inductive invariant.                                                 *)
(***************************************************************************)
Turning == {"test", "production", "flag"}

(* A call that is about to send a current or set a mode has one.            *)
Sound(c) ==
    /\ c.at \in {"check", "current"} => c.value \in Currents
    /\ c.at = "mode" => c.mode \in Modes

(* What the lock keeps: the loop turns the output in automatic modes only,  *)
(* and so do the tasks, unless they turn it off or set mode ON.             *)
LockKept ==
    /\ main.mode = None /\ task.at # "check"
    /\ task.at = "current" => task.mode # "OFF"
    /\ Busy(main) /\ main.locked => ~Busy(task)
    /\ main.at \in Turning /\ main.locked => AutoMode
    /\ task.at \in Turning =>
          /\ task.on = 0 \/ task.mode = "ON" \/ AutoMode
          /\ task.mode = "OFF" => task.on = 0

(* What the provider believes is what it asked for last, and in mode OFF it *)
(* asked for the output to be off, unless mode ON is being set.             *)
SwitchKept ==
    kind = "production" /\ last # None =>
        /\ main.at = "flag" => last = main.on
        /\ task.at = "flag" => last = task.on
        /\ main.at # "flag" /\ task.at # "flag" => p.enabled = last
        /\ p.mode = "OFF" =>
              last = 0 \/ (task.at \in {"flag", "mode"} /\ task.mode = "ON")
        /\ task.at = "mode" /\ task.mode = "OFF" => last = 0

Inv ==
    /\ TypeOK /\ FrontExists /\ Follows(hw.queue, wire, psu, last)
    /\ Sound(main) /\ Sound(task) /\ LockKept /\ SwitchKept
-----------------------------------------------------------------------------
(* The types of the parts.                                                  *)
Providers == [mode : Modes, enabled : {None, 0, 1}]
Hardware  == [queue : Seq(Commands), left : 0 .. MaxQueue, multiplier : BOOLEAN,
              known : BOOLEAN, settled : BOOLEAN]
Values    == Currents \cup {None}

LEMMA CommandType ==
    ASSUME NEW what, NEW value \in Currents, NEW n \in 1 .. Tries
    PROVE  LET c == Command(what, value, n)
           IN  /\ c \in Commands /\ c.ours = (what = kind)
               /\ c.ours => c.value = value
<1>1. 0 \in Currents
  BY ChargerAssumption DEF Currents
<1> QED
  BY <1>1 DEF Command, Commands

LEMMA Numbers == {0, 1} \subseteq Currents /\ Tries \in 1 .. Tries /\ 1 \in 1 .. Tries
BY ChargerAssumption DEF Currents

(* Taking a command into the queue.                                         *)
LEMMA EnqueueKeeps ==
    ASSUME Inv, NEW c \in Commands, Enqueue(c)
    PROVE  /\ hw' \in Hardware /\ Len(hw'.queue) <= MaxQueue /\ FrontExists'
           /\ hw'.queue = Append(hw.queue, c)
<1>1. hw \in Hardware /\ hw.queue \in Seq(Commands)
  BY DEF Inv, TypeOK, Hardware
<1>2. hw.left = 0 /\ Len(hw.queue) < MaxQueue /\ hw' = [hw EXCEPT !.queue = Append(@, c)]
  BY DEF Enqueue
<1>3. Append(hw.queue, c) \in Seq(Commands) /\ Len(Append(hw.queue, c)) = Len(hw.queue) + 1
      /\ Len(hw.queue) \in Nat
  BY <1>1
<1>4. hw' \in Hardware /\ hw'.queue = Append(hw.queue, c) /\ hw'.left = 0
  BY <1>1, <1>2, <1>3 DEF Hardware
<1>5. Len(hw'.queue) <= MaxQueue /\ hw'.left <= Len(hw'.queue)
  BY <1>2, <1>3, <1>4, ChargerAssumption
<1> QED
  BY <1>4, <1>5 DEF FrontExists

(* What a call leaves of hardware, driver and PSU, and what was asked for.  *)
Kept == /\ hw' \in Hardware /\ Len(hw'.queue) <= MaxQueue /\ FrontExists'
        /\ last' \in Values /\ Follows(hw'.queue, wire, psu, last')

LEMMA SameKept ==
    ASSUME Inv, UNCHANGED hw, last' = last \/ last' = None
    PROVE  Kept
BY DEF Inv, TypeOK, Hardware, Values, FrontExists, Kept, Follows

LEMMA GuessKept ==
    ASSUME Inv, UNCHANGED hw, Guess
    PROVE  Kept
<1>1. last' = last \/ last' = None
  BY DEF Guess, Asked
<1> QED
  BY <1>1, SameKept

(* A command queued and asked for, or asked for with an unsure result.      *)
LEMMA QueuedKept ==
    ASSUME Inv, NEW what, NEW value \in Currents, NEW asked \in {value, None},
           Enqueue(Command(what, value, Tries)), Asked(what, asked)
    PROVE  Kept
<1> DEFINE c == Command(what, value, Tries)
<1>1. c \in Commands /\ c.ours = (what = kind) /\ (c.ours => c.value = value)
  BY CommandType, Numbers
<1> HIDE DEF c
<1>2. /\ hw' \in Hardware /\ Len(hw'.queue) <= MaxQueue /\ FrontExists'
      /\ hw'.queue = Append(hw.queue, c)
  BY <1>1, EnqueueKeeps DEF c
<1>3. hw.queue \in Seq(Commands) /\ last \in Values /\ Follows(hw.queue, wire, psu, last)
  BY DEF Inv, TypeOK, Values
<1>4. CASE last' = None
  BY <1>2, <1>4 DEF Kept, Follows, Values
<1>5. CASE last' # None /\ what = kind
  <2>1. last' = value
    BY <1>5 DEF Asked
  <2> QED
    BY <1>1, <1>2, <1>3, <1>5, <2>1, QueuedFollows DEF Kept, Values
<1>6. CASE what # kind
  <2>1. last' = last
    BY <1>6 DEF Asked
  <2> QED
    BY <1>1, <1>2, <1>3, <1>6, <2>1, QueuedFollows DEF Kept
<1> QED
  BY <1>4, <1>5, <1>6

(* setProduction and the settings: a command for something else, or one     *)
(* that leaves what the PSU does unsure.                                    *)
LEMMA SettingKept ==
    ASSUME Inv, Enqueue(Command("settings", 0, Tries)), UNCHANGED last
    PROVE  Kept
<1>1. kind # "settings" /\ 0 \in Currents
  BY Numbers DEF Inv, TypeOK, Kinds
<1>2. Asked("settings", 0)
  BY <1>1 DEF Asked
<1> QED
  BY <1>1, <1>2, QueuedKept

(* A step of a call.                                                        *)
LEMMA StepKept ==
    ASSUME Inv, NEW c \in Calls, Sound(c), NEW then, Step(c, then)
    PROVE  Kept
<1>1. CASE Check(c, then)
  BY <1>1, SameKept DEF Check
<1>2. CASE Test(c, then)
  BY <1>2, GuessKept DEF Test
<1>3. CASE SwitchOutput(c, then)
  <2>1. c.on \in Currents
    BY Numbers DEF Calls
  <2>2. PICK asked \in {c.on, None} : Asked("production", asked)
    BY <1>3 DEF SwitchOutput
  <2> QED
    BY <1>3, <2>1, <2>2, QueuedKept DEF SwitchOutput
<1>4. CASE NoteOutput(c, then)
  BY <1>4, GuessKept DEF NoteOutput
<1>5. CASE SendCurrent(c, then)
  <2>1. c.value \in Currents /\ EnqueueCurrent(c.value)
    BY <1>5 DEF SendCurrent, Sound
  <2>2. CASE hw.multiplier
    <3>1. Enqueue(Command("current", c.value, Tries)) /\ Asked("current", c.value)
      BY <2>1, <2>2 DEF EnqueueCurrent
    <3> QED
      BY <2>1, <3>1, QueuedKept
  <2>3. CASE ~hw.multiplier
    <3>1. UNCHANGED hw /\ Asked("current", None)
      BY <2>1, <2>3 DEF EnqueueCurrent
    <3> QED
      BY <3>1, SameKept DEF Asked
  <2> QED
    BY <2>2, <2>3
<1>6. CASE SwitchMode(c, then)
  BY <1>6, GuessKept DEF SwitchMode
<1> QED
  BY <1>1, <1>2, <1>3, <1>4, <1>5, <1>6 DEF Step
-----------------------------------------------------------------------------
(* A call after its step, and what it did to the provider.                  *)
LEMMA StepCall ==
    ASSUME Inv, NEW c \in Calls, Sound(c), NEW then, Step(c, then)
    PROVE  /\ then \in Calls /\ Sound(then) /\ then.at # "check"
           /\ \/ then = Idle
              \/ then.locked = c.locked /\ then.on = c.on /\ then.mode = c.mode
           /\ then.at \in Turning =>
                 then # Idle /\ (c.at \in Turning \/ (c.at = "check" /\ AutoMode))
           /\ then.at = "mode" => then # Idle /\ c.mode # None
           /\ p' \in Providers
<1>1. p \in Providers /\ None \notin Modes
  BY ChargerAssumption DEF Inv, TypeOK, Providers, Modes
<1>2. AfterSwitch(c) \in {Idle, [c EXCEPT !.at = "mode"], [c EXCEPT !.at = "current"]}
  BY DEF AfterSwitch
<1>3. ASSUME NEW at \in Steps
      PROVE  LET d == [c EXCEPT !.at = at]
             IN  d \in Calls /\ d.at = at /\ d.locked = c.locked /\ d.on = c.on
                 /\ d.mode = c.mode /\ d.value = c.value
  BY DEF Calls
<1>4. Idle \in Calls /\ Sound(Idle) /\ Idle.at = "idle"
  BY DEF Idle, Calls, Steps, Sound
<1>5. c.value \in Currents \cup {None} /\ c.mode \in Modes \cup {None} /\ c.on \in {0, 1}
  BY DEF Calls
<1>6. then = AfterSwitch(c) => /\ then \in Calls /\ Sound(then) /\ then.at # "check"
                               /\ then.at \notin Turning
                               /\ then.at = "mode" => then # Idle /\ c.mode # None
                               /\ \/ then = Idle
                                  \/ then.locked = c.locked /\ then.on = c.on
                                     /\ then.mode = c.mode
  <2>1. CASE c.mode # None
    <3> DEFINE d == [c EXCEPT !.at = "mode"]
    <3>1. then = AfterSwitch(c) => then = d
      BY <2>1 DEF AfterSwitch
    <3>2. "mode" \in Steps
      BY DEF Steps
    <3>3. d \in Calls /\ d.at = "mode" /\ d.locked = c.locked /\ d.on = c.on /\ d.mode = c.mode
      BY <1>3, <3>2
    <3> HIDE DEF d
    <3>4. d # Idle
      BY <1>4, <3>3
    <3> QED
      BY <1>5, <2>1, <3>1, <3>3, <3>4 DEF Sound, Turning
  <2>2. CASE c.mode = None /\ c.value # None
    <3>1. then = AfterSwitch(c) => then = [c EXCEPT !.at = "current"]
      BY <2>2 DEF AfterSwitch
    <3> QED
      BY <1>3, <1>4, <1>5, <2>2, <3>1 DEF Steps, Sound, Turning
  <2>3. CASE c.mode = None /\ c.value = None
    <3>1. then = AfterSwitch(c) => then = Idle
      BY <2>3 DEF AfterSwitch
    <3> QED
      BY <1>4, <3>1 DEF Turning
  <2> QED
    BY <2>1, <2>2, <2>3
<1>7. CASE Check(c, then)
  <2>1. c.at = "check" /\ then = [c EXCEPT !.at = Start(c.value)] /\ UNCHANGED p
    BY <1>7 DEF Check
  <2>2. Start(c.value) \in {"test", "current"} /\ (Start(c.value) = "test" => AutoMode)
    BY DEF Start
  <2>3. Start(c.value) \in Steps
    BY <2>2 DEF Steps
  <2> QED
    BY <1>1, <1>3, <1>4, <2>1, <2>2, <2>3 DEF Sound, Turning
<1>8. CASE Test(c, then)
  <2>1. c.at = "test" /\ UNCHANGED p
        /\ (then = AfterSwitch(c) \/ then = [c EXCEPT !.at = "production"])
    BY <1>8 DEF Test
  <2> QED
    BY <1>1, <1>3, <1>4, <1>6, <2>1 DEF Sound, Turning, Steps
<1>9. CASE SwitchOutput(c, then)
  <2>1. c.at = "production" /\ UNCHANGED p /\ then = [c EXCEPT !.at = "flag"]
    BY <1>9 DEF SwitchOutput
  <2> QED
    BY <1>1, <1>3, <1>4, <2>1 DEF Sound, Turning, Steps
<1>10. CASE NoteOutput(c, then)
  <2>1. c.at = "flag" /\ p' = [p EXCEPT !.enabled = c.on] /\ then = AfterSwitch(c)
    BY <1>10 DEF NoteOutput
  <2>2. p' \in Providers
    BY <1>1, <1>5, <2>1 DEF Providers
  <2> QED
    BY <1>6, <2>1, <2>2 DEF Turning
<1>11. CASE SendCurrent(c, then)
  <2>1. c.at = "current" /\ UNCHANGED p
        /\ then = IF c.mode = None THEN Idle ELSE [c EXCEPT !.at = "mode"]
    BY <1>11 DEF SendCurrent
  <2>2. CASE c.mode = None
    BY <1>1, <1>4, <2>1, <2>2 DEF Turning
  <2>3. CASE c.mode # None
    BY <1>1, <1>3, <1>4, <1>5, <2>1, <2>3 DEF Sound, Turning, Steps
  <2> QED
    BY <2>2, <2>3
<1>12. CASE SwitchMode(c, then)
  <2>1. c.at = "mode" /\ p' = [p EXCEPT !.mode = c.mode] /\ then = Idle
    BY <1>12 DEF SwitchMode
  <2>2. p' \in Providers
    BY <1>1, <2>1 DEF Providers, Sound
  <2> QED
    BY <1>4, <2>1, <2>2 DEF Turning
<1> QED
  BY <1>7, <1>8, <1>9, <1>10, <1>11, <1>12 DEF Step

(* The mode changes in a step of that name only.                            *)
LEMMA StepMode ==
    ASSUME Inv, NEW c \in Calls, Sound(c), NEW then, Step(c, then)
    PROVE  /\ c.at # "mode" => p'.mode = p.mode
           /\ c.at = "mode" => p'.mode = c.mode /\ then = Idle /\ Guess
           /\ c.at # "flag" => p'.enabled = p.enabled
           /\ c.at = "flag" => p'.enabled = c.on /\ then = AfterSwitch(c) /\ Guess
           /\ c.at = "production" =>
                 then.at = "flag" /\ then.on = c.on /\ then.mode = c.mode
                 /\ Asked("production", IF Raced THEN None ELSE c.on)
           /\ c.at = "test" =>
                 /\ Guess /\ (then = AfterSwitch(c) \/ then.at = "production")
                 /\ then = AfterSwitch(c) => p.enabled = c.on
           /\ c.at = "flag" /\ c.mode # None => then.at = "mode" /\ then.mode = c.mode
           /\ then.at = "flag" => c.at = "production"
           /\ then.at = "current" => c.at = "check" \/ c.mode = None
           /\ c.at # "idle"
           /\ c.at \in {"check", "current"} /\ kind = "production" => last' = last
<1>1. p \in Providers
  BY DEF Inv, TypeOK, Providers
<1>2. ASSUME NEW at \in Steps
      PROVE  LET d == [c EXCEPT !.at = at]
             IN  d.at = at /\ d.on = c.on /\ d.mode = c.mode
  BY DEF Calls
<1>3. Idle.at = "idle"
  BY DEF Idle
<1>4. /\ AfterSwitch(c).at # "flag"
      /\ AfterSwitch(c).at = "current" => c.mode = None
      /\ c.mode # None => AfterSwitch(c).at = "mode" /\ AfterSwitch(c).mode = c.mode
  BY <1>2, <1>3 DEF AfterSwitch, Steps
<1>5. CASE Check(c, then)
  <2>1. Start(c.value) \in Steps /\ Start(c.value) # "flag"
    BY DEF Start, Steps
  <2> QED
    BY <1>2, <1>5, <2>1 DEF Check
<1>6. CASE Test(c, then)
  <2>1. [c EXCEPT !.at = "production"].at = "production"
    BY <1>2 DEF Steps
  <2>2. c.at = "test" /\ UNCHANGED p /\ Guess
        /\ then = IF p.enabled = c.on THEN AfterSwitch(c) ELSE [c EXCEPT !.at = "production"]
    BY <1>6 DEF Test
  <2>3. AfterSwitch(c).at # "production"
    BY <1>2, <1>3 DEF AfterSwitch, Steps
  <2> QED
    BY <1>4, <2>1, <2>2, <2>3
<1>7. CASE SwitchOutput(c, then)
  BY <1>2, <1>7 DEF SwitchOutput, Steps
<1>8. CASE NoteOutput(c, then)
  BY <1>1, <1>4, <1>8 DEF NoteOutput, Providers
<1>9. CASE SendCurrent(c, then)
  <2>1. then.at # "flag" /\ then.at # "current"
    BY <1>2, <1>3, <1>9 DEF SendCurrent, Steps
  <2>2. kind = "production" => last' = last
    BY <1>9 DEF SendCurrent, EnqueueCurrent, Asked
  <2> QED
    BY <1>9, <2>1, <2>2 DEF SendCurrent
<1>10. CASE SwitchMode(c, then)
  BY <1>1, <1>3, <1>10 DEF SwitchMode, Providers
<1> QED
  BY <1>5, <1>6, <1>7, <1>8, <1>9, <1>10 DEF Step
-----------------------------------------------------------------------------
(* Switching while nobody else does: what was asked for is known.           *)
LEMMA NotRaced ==
    ASSUME NEW asked, Asked("production", IF Raced THEN None ELSE asked),
           kind = "production", last' # None
    PROVE  ~Raced /\ last' = asked
BY DEF Asked

LEMMA MainLock ==
    ASSUME Inv, MainStep
    PROVE  LockKept' /\ main.at # "mode"
<1>1. PICK c : c = main
  OBVIOUS
<1>2. PICK then : then = main'
  OBVIOUS
<1>3. Step(c, then) /\ task' = task
  BY <1>1, <1>2 DEF MainStep
<1>4. c \in Calls /\ Sound(c) /\ c.mode = None /\ c.at # "mode"
  BY <1>1, ChargerAssumption DEF Inv, TypeOK, Sound, LockKept, Modes
<1>5. p'.mode = p.mode /\ c.at # "idle"
  BY <1>3, <1>4, StepMode
<1>6. /\ then = Idle \/ (then.locked = c.locked /\ then.on = c.on /\ then.mode = c.mode)
      /\ then.at \in Turning =>
            then # Idle /\ (c.at \in Turning \/ (c.at = "check" /\ AutoMode))
  BY <1>3, <1>4, StepCall
<1>7. Idle.mode = None /\ ~Busy(Idle)
  BY DEF Idle, Busy
<1>8. AutoMode' = AutoMode
  BY <1>5 DEF AutoMode
<1>9. then.mode = None /\ (Busy(then) /\ then.locked => ~Busy(task))
  BY <1>1, <1>4, <1>5, <1>6, <1>7 DEF Inv, LockKept, Busy
<1>10. then.at \in Turning /\ then.locked => AutoMode
  BY <1>1, <1>6 DEF Inv, LockKept
<1> QED
  BY <1>1, <1>2, <1>3, <1>4, <1>8, <1>9, <1>10 DEF Inv, LockKept, Busy

LEMMA TaskLock ==
    ASSUME Inv, TaskStep
    PROVE  LockKept'
<1>1. PICK c : c = task
  OBVIOUS
<1>2. PICK then : then = task'
  OBVIOUS
<1>3. Step(c, then) /\ main' = main
  BY <1>1, <1>2 DEF TaskStep
<1>4. c \in Calls /\ Sound(c) /\ c.at # "check"
  BY <1>1 DEF Inv, TypeOK, LockKept
<1>5. /\ c.at # "mode" => p'.mode = p.mode
      /\ c.at # "idle"
      /\ then.at = "current" => c.mode = None
  BY <1>3, <1>4, StepMode
<1>6. /\ then.at # "check"
      /\ then = Idle \/ (then.locked = c.locked /\ then.on = c.on /\ then.mode = c.mode)
      /\ then.at \in Turning => then # Idle /\ c.at \in Turning
  BY <1>3, <1>4, StepCall
<1>7. Idle.at = "idle"
  BY DEF Idle
<1>8. ~(Busy(main) /\ main.locked)
  BY <1>1, <1>5 DEF Inv, LockKept, Busy
<1>9. then.at \in Turning =>
          /\ then.on = 0 \/ then.mode = "ON" \/ AutoMode'
          /\ then.mode = "OFF" => then.on = 0
  <2>1. SUFFICES ASSUME then.at \in Turning
                 PROVE  /\ then.on = 0 \/ then.mode = "ON" \/ AutoMode'
                        /\ then.mode = "OFF" => then.on = 0
    OBVIOUS
  <2>2. c.at \in Turning /\ then.on = c.on /\ then.mode = c.mode /\ p'.mode = p.mode
    BY <1>5, <1>6, <2>1 DEF Turning
  <2> QED
    BY <1>1, <2>2 DEF Inv, LockKept, AutoMode
<1>10. main.at \in Turning => Busy(main)
  BY DEF Turning, Busy
<1>11. then.at = "current" => then.mode # "OFF"
  BY <1>5, <1>6, <1>7, ChargerAssumption
<1> QED
  BY <1>1, <1>2, <1>3, <1>6, <1>8, <1>9, <1>10, <1>11 DEF Inv, LockKept, Busy

LEMMA MainSwitch ==
    ASSUME Inv, MainStep
    PROVE  SwitchKept'
<1>1. PICK c : c = main
  OBVIOUS
<1>2. PICK then : then = main'
  OBVIOUS
<1>3. Step(c, then) /\ task' = task /\ kind' = kind
  BY <1>1, <1>2 DEF MainStep
<1>4. c \in Calls /\ Sound(c) /\ c.at # "mode"
  BY <1>1, MainLock DEF Inv, TypeOK
<1>5. SUFFICES ASSUME kind = "production", last' # None
               PROVE  SwitchKept'
  BY <1>3 DEF SwitchKept
<1>6. p'.mode = p.mode /\ c.at # "idle"
  BY <1>3, <1>4, StepMode
<1>7. CASE c.at \in Turning
  <2>1. PICK asked : /\ Asked("production", IF Raced THEN None ELSE asked)
                     /\ c.at \in {"test", "flag"} => asked = last
                     /\ c.at = "production" => asked = c.on
    BY <1>3, <1>4, <1>7, StepMode DEF Turning, Guess
  <2>2. ~Raced /\ last' = asked
    BY <1>5, <2>1, NotRaced
  <2>3. ~Switching(task) /\ (main.locked \/ AutoMode)
    BY <1>1, <1>7, <2>2 DEF Raced, Switching, Turning
  <2>4. task.at # "flag" /\ task.at # "mode"
    BY <2>3 DEF Switching
  <2>5. p.mode # "OFF"
    BY <1>1, <1>7, <2>3 DEF Inv, LockKept, AutoMode
  <2>6. /\ then.at = "flag" => last' = then.on
        /\ then.at # "flag" => p'.enabled = last'
    <3>1. CASE c.at = "test"
      <4>1. p'.enabled = p.enabled /\ then.at # "flag" /\ last' = last
        BY <1>3, <1>4, <2>1, <2>2, <3>1, StepMode
      <4> QED
        BY <1>1, <1>5, <2>4, <3>1, <4>1 DEF Inv, SwitchKept
    <3>2. CASE c.at = "production"
      <4>1. then.at = "flag" /\ then.on = c.on
        BY <1>3, <1>4, <3>2, StepMode
      <4> QED
        BY <2>1, <2>2, <3>2, <4>1
    <3>3. CASE c.at = "flag"
      <4>1. p'.enabled = c.on /\ then.at # "flag" /\ last' = last
        BY <1>3, <1>4, <2>1, <2>2, <3>3, StepMode
      <4> QED
        BY <1>1, <1>5, <3>3, <4>1 DEF Inv, SwitchKept
    <3> QED
      BY <1>7, <3>1, <3>2, <3>3 DEF Turning
  <2> QED
    BY <1>2, <1>3, <1>6, <2>4, <2>5, <2>6 DEF SwitchKept
<1>8. CASE c.at \in {"check", "current"}
  <2>1. last' = last /\ p'.enabled = p.enabled /\ then.at # "flag"
    BY <1>3, <1>4, <1>5, <1>8, StepMode
  <2> QED
    BY <1>1, <1>2, <1>3, <1>5, <1>6, <1>8, <2>1 DEF Inv, SwitchKept
<1> QED
  BY <1>4, <1>6, <1>7, <1>8 DEF Calls, Steps, Turning

LEMMA TaskSwitch ==
    ASSUME Inv, TaskStep
    PROVE  SwitchKept'
<1>1. PICK c : c = task
  OBVIOUS
<1>2. PICK then : then = task'
  OBVIOUS
<1>3. Step(c, then) /\ main' = main /\ kind' = kind
  BY <1>1, <1>2 DEF TaskStep
<1>4. c \in Calls /\ Sound(c) /\ c.at # "check"
  BY <1>1 DEF Inv, TypeOK, LockKept
<1>5. SUFFICES ASSUME kind = "production", last' # None
               PROVE  SwitchKept'
  BY <1>3 DEF SwitchKept
<1>6. then = Idle \/ (then.on = c.on /\ then.mode = c.mode)
  BY <1>3, <1>4, StepCall
<1>7. Idle.at = "idle" /\ c.at # "idle"
  BY <1>3, <1>4, StepMode DEF Idle
<1>8. CASE c.at \in Turning \cup {"mode"}
  <2>1. PICK asked : /\ Asked("production", IF Raced THEN None ELSE asked)
                     /\ c.at \in {"test", "flag", "mode"} => asked = last
                     /\ c.at = "production" => asked = c.on
    BY <1>3, <1>4, <1>8, StepMode DEF Turning, Guess
  <2>2. ~Raced /\ last' = asked
    BY <1>5, <2>1, NotRaced
  <2>3. main.at # "flag"
    BY <1>1, <1>8, <2>2 DEF Raced, Switching, Turning
  <2>4. CASE c.at = "test"
    <3>1. p'.enabled = p.enabled /\ p'.mode = p.mode /\ then.at # "flag" /\ last' = last
      BY <1>3, <1>4, <2>1, <2>2, <2>4, StepMode
    <3>2. p.enabled = last /\ (p.mode = "OFF" => last = 0)
      BY <1>1, <1>5, <2>3, <2>4, <3>1 DEF Inv, SwitchKept
    <3>3. then.at = "mode" /\ then.mode = "OFF" => last = 0
      <4>1. SUFFICES ASSUME then.at = "mode", then.mode = "OFF"  PROVE last = 0
        OBVIOUS
      <4>2. then.at # "production" /\ c.mode = "OFF"
        BY <1>6, <1>7, <4>1
      <4>3. p.enabled = c.on
        BY <1>3, <1>4, <2>4, <4>2, StepMode
      <4>4. c.on = 0
        BY <1>1, <2>4, <4>2 DEF Inv, LockKept, Turning
      <4> QED
        BY <3>2, <4>3, <4>4
    <3> QED
      BY <1>2, <1>3, <2>3, <3>1, <3>2, <3>3 DEF SwitchKept
  <2>5. CASE c.at = "production"
    <3>1. p'.mode = p.mode /\ then.at = "flag" /\ then.on = c.on /\ then.mode = c.mode
          /\ last' = c.on
      BY <1>3, <1>4, <2>1, <2>2, <2>5, StepMode
    <3>2. p.mode = "OFF" => c.on = 0 \/ c.mode = "ON"
      BY <1>1, <2>5 DEF Inv, LockKept, Turning, AutoMode
    <3> QED
      BY <1>2, <1>3, <2>3, <3>1, <3>2 DEF SwitchKept
  <2>6. CASE c.at = "flag"
    <3>1. /\ p'.enabled = c.on /\ p'.mode = p.mode /\ then.at # "flag" /\ last' = last
          /\ c.mode # None => then.at = "mode" /\ then.mode = c.mode
      BY <1>3, <1>4, <2>1, <2>2, <2>6, StepMode
    <3>2. /\ last = c.on
          /\ p.mode = "OFF" => last = 0 \/ c.mode = "ON"
          /\ c.mode = "OFF" => c.on = 0
      BY <1>1, <1>5, <2>6, <3>1 DEF Inv, SwitchKept, LockKept, Turning
    <3>3. c.mode = "ON" => then.at = "mode" /\ then.mode = "ON"
      BY <3>1, ChargerAssumption
    <3>4. then.at = "mode" /\ then.mode = "OFF" => last = 0
      BY <1>6, <1>7, <3>2
    <3> QED
      BY <1>2, <1>3, <2>3, <3>1, <3>2, <3>3, <3>4 DEF SwitchKept
  <2>7. CASE c.at = "mode"
    <3>1. p'.enabled = p.enabled /\ p'.mode = c.mode /\ then = Idle /\ last' = last
      BY <1>3, <1>4, <2>1, <2>2, <2>7, StepMode
    <3>2. p.enabled = last /\ (c.mode = "OFF" => last = 0)
      BY <1>1, <1>5, <2>3, <2>7, <3>1 DEF Inv, SwitchKept
    <3> QED
      BY <1>2, <1>3, <1>7, <2>3, <3>1, <3>2 DEF SwitchKept
  <2> QED
    BY <1>8, <2>4, <2>5, <2>6, <2>7 DEF Turning
<1>9. CASE c.at = "current"
  <2>1. last' = last /\ p'.enabled = p.enabled /\ p'.mode = p.mode /\ then.at # "flag"
    BY <1>3, <1>4, <1>5, <1>9, StepMode
  <2>2. c.mode # "OFF"
    BY <1>1, <1>9 DEF Inv, LockKept
  <2>3. ~(then.at = "mode" /\ then.mode = "OFF")
    BY <1>6, <1>7, <2>2
  <2> QED
    BY <1>1, <1>2, <1>3, <1>5, <1>9, <2>1, <2>3 DEF Inv, SwitchKept
<1> QED
  BY <1>4, <1>7, <1>8, <1>9 DEF Calls, Steps, Turning

(* The steps of a call keep the invariant.                                  *)
LEMMA TypeKept ==
    ASSUME Inv, Kept, p' \in Providers, main' \in Calls, task' \in Calls,
           UNCHANGED <<wire, kind, psu>>
    PROVE  TypeOK' /\ FrontExists' /\ Follows(hw.queue, wire, psu, last)'
BY DEF Inv, TypeOK, Kept, Providers, Hardware, Values

LEMMA MainStepInv ==
    ASSUME Inv, MainStep
    PROVE  Inv'
<1>1. PICK c : c = main
  OBVIOUS
<1>2. PICK then : then = main'
  OBVIOUS
<1>3. Step(c, then) /\ UNCHANGED <<task, wire, kind, psu>>
  BY <1>1, <1>2 DEF MainStep
<1>4. c \in Calls /\ Sound(c) /\ task \in Calls /\ Sound(task)
  BY <1>1 DEF Inv, TypeOK
<1>5. then \in Calls /\ Sound(then) /\ p' \in Providers /\ Kept
  BY <1>3, <1>4, StepCall, StepKept
<1>6. TypeOK' /\ FrontExists' /\ Follows(hw.queue, wire, psu, last)'
  BY <1>2, <1>3, <1>4, <1>5, TypeKept
<1> QED
  BY <1>2, <1>3, <1>4, <1>5, <1>6, MainLock, MainSwitch DEF Inv, Sound

LEMMA TaskStepInv ==
    ASSUME Inv, TaskStep
    PROVE  Inv'
<1>1. PICK c : c = task
  OBVIOUS
<1>2. PICK then : then = task'
  OBVIOUS
<1>3. Step(c, then) /\ UNCHANGED <<main, wire, kind, psu>>
  BY <1>1, <1>2 DEF TaskStep
<1>4. c \in Calls /\ Sound(c) /\ main \in Calls /\ Sound(main)
  BY <1>1 DEF Inv, TypeOK
<1>5. then \in Calls /\ Sound(then) /\ p' \in Providers /\ Kept
  BY <1>3, <1>4, StepCall, StepKept
<1>6. TypeOK' /\ FrontExists' /\ Follows(hw.queue, wire, psu, last)'
  BY <1>2, <1>3, <1>4, <1>5, TypeKept
<1> QED
  BY <1>2, <1>3, <1>4, <1>5, <1>6, TaskLock, TaskSwitch DEF Inv, Sound
-----------------------------------------------------------------------------
(* A call begins.                                                           *)
LEMMA TaskCallsInv ==
    ASSUME Inv, NEW at \in {"test", "current", "mode"}, NEW on \in {0, 1},
           NEW value \in Currents \cup {None}, NEW mode \in Modes \cup {None},
           TaskCalls(at, on, value, mode),
           at = "test" => /\ on = 0 \/ mode = "ON" \/ AutoMode
                          /\ mode = "OFF" => on = 0,
           at = "current" => value \in Currents /\ mode # "OFF",
           at = "mode" => mode \in Modes /\ mode # "OFF"
    PROVE  Inv'
<1>1. PICK d : d = [at |-> at, locked |-> TRUE, on |-> on, value |-> value, mode |-> mode]
  OBVIOUS
<1>2. /\ LockFree /\ task' = d
      /\ UNCHANGED <<p, main, hw, wire, kind, psu, last>>
  BY <1>1 DEF TaskCalls
<1>3. /\ d \in Calls /\ d.at = at /\ d.on = on /\ d.value = value /\ d.mode = mode
  BY <1>1 DEF Calls, Steps
<1>4. TypeOK' /\ FrontExists' /\ Follows(hw.queue, wire, psu, last)' /\ Sound(main)' /\ Sound(task)'
  BY <1>2, <1>3 DEF Inv, TypeOK, FrontExists, Follows, Sound
<1>5. LockKept'
  BY <1>2, <1>3 DEF Inv, LockKept, LockFree, Busy, Turning, AutoMode
<1>6. task.at = "idle"
  BY <1>2 DEF LockFree, Busy
<1>7. SwitchKept'
  BY <1>2, <1>3, <1>6 DEF Inv, SwitchKept
<1> QED
  BY <1>4, <1>5, <1>7 DEF Inv

LEMMA SetModeInv ==
    ASSUME Inv, NEW mode \in Modes, SetMode(mode)
    PROVE  Inv'
<1>1. 0 \in Currents
  BY Numbers
<1>2. CASE mode = "OFF"
  <2>1. TaskCalls("test", 0, None, "OFF")
    BY <1>2 DEF SetMode
  <2> QED
    BY <2>1, TaskCallsInv DEF Modes
<1>3. CASE mode = "ON"
  <2>1. TaskCalls("test", 1, None, "ON")
    BY <1>3 DEF SetMode
  <2> QED
    BY <2>1, TaskCallsInv DEF Modes
<1>4. CASE mode = "EXT" /\ p.mode = "INT"
  <2>1. TaskCalls("current", 1, 0, "EXT")
    BY <1>4 DEF SetMode
  <2> QED
    BY <1>1, <2>1, TaskCallsInv DEF Modes
<1>5. CASE mode \in {"EXT", "INT"} /\ ~(mode = "EXT" /\ p.mode = "INT")
  <2>1. TaskCalls("mode", 1, None, mode)
    BY <1>5 DEF SetMode
  <2> QED
    BY <1>5, <2>1, TaskCallsInv DEF Modes
<1> QED
  BY <1>2, <1>3, <1>4, <1>5 DEF Modes

LEMMA SetParameterInv ==
    ASSUME Inv, NEW value \in Currents, SetParameter(value)
    PROVE  Inv'
<1>1. /\ Start(value) \in {"test", "current"}
      /\ Start(value) = "test" => AutoMode
      /\ TaskCalls(Start(value), 1, value, None)
  BY DEF SetParameter, Start
<1>2. None # "OFF"
  BY ChargerAssumption
<1>3. CASE Start(value) = "test"
  BY <1>1, <1>2, <1>3, TaskCallsInv
<1>4. CASE Start(value) = "current"
  BY <1>1, <1>2, <1>4, TaskCallsInv
<1> QED
  BY <1>1, <1>3, <1>4

LEMMA MainCallsInv ==
    ASSUME Inv, NEW at \in {"check", "test", "current"}, NEW locked \in BOOLEAN,
           NEW on \in {0, 1}, NEW value \in Currents \cup {None},
           MainCalls(at, locked, on, value),
           at # "test" => value \in Currents,
           locked => LockFree,
           at = "test" => AutoMode
    PROVE  Inv'
<1>1. PICK d : d = [at |-> at, locked |-> locked, on |-> on, value |-> value, mode |-> None]
  OBVIOUS
<1>2. /\ ~Busy(main) /\ main' = d
      /\ UNCHANGED <<p, task, hw, wire, kind, psu, last>>
  BY <1>1 DEF MainCalls
<1>3. /\ d \in Calls /\ d.at = at /\ d.on = on /\ d.value = value /\ d.mode = None
      /\ d.locked = locked
  BY <1>1 DEF Calls, Steps
<1>4. TypeOK' /\ FrontExists' /\ Follows(hw.queue, wire, psu, last)' /\ Sound(main)' /\ Sound(task)'
  BY <1>2, <1>3 DEF Inv, TypeOK, FrontExists, Follows, Sound
<1>5. LockKept'
  BY <1>2, <1>3 DEF Inv, LockKept, LockFree, Busy, Turning, AutoMode
<1>6. main.at = "idle"
  BY <1>2 DEF Busy
<1>7. SwitchKept'
  BY <1>2, <1>3, <1>6 DEF Inv, SwitchKept
<1> QED
  BY <1>4, <1>5, <1>7 DEF Inv

LEMMA LoopInv ==
    ASSUME Inv, NEW value \in Currents, Loop(value)
    PROVE  Inv'
<1>1. /\ Start(value) \in {"test", "current"} /\ (Start(value) = "test" => AutoMode)
      /\ LockFree /\ MainCalls(Start(value), TRUE, 1, value)
  BY DEF Loop, Start
<1>2. CASE Start(value) = "test"
  BY <1>1, <1>2, MainCallsInv
<1>3. CASE Start(value) = "current"
  BY <1>1, <1>3, MainCallsInv
<1> QED
  BY <1>1, <1>2, <1>3

LEMMA ShutdownInv ==
    ASSUME Inv, Shutdown
    PROVE  Inv'
<1>1. AutoMode /\ LockFree /\ MainCalls("test", TRUE, 0, None)
  BY DEF Shutdown, AutoMode
<1> QED
  BY <1>1, MainCallsInv

LEMMA LimiterInv ==
    ASSUME Inv, NEW value \in Currents, Limiter(value)
    PROVE  Inv'
<1>1. MainCalls("check", FALSE, 1, value)
  BY DEF Limiter
<1> QED
  BY <1>1, MainCallsInv

(* What neither calls nor the provider have a part in.                      *)
LEMMA OthersKept ==
    ASSUME Inv, UNCHANGED <<p, main, task, kind>>, last' \in {last, None},
           hw' \in Hardware, Len(hw'.queue) <= MaxQueue, FrontExists',
           wire' \in Seq(Frames), Len(wire') <= MaxFrames, psu' \in Values,
           Follows(hw.queue, wire, psu, last)'
    PROVE  Inv'
<1>1. TypeOK'
  BY DEF Inv, TypeOK, Hardware, Frames, Values
<1>2. Sound(main)' /\ Sound(task)' /\ LockKept' /\ SwitchKept'
  BY DEF Inv, Sound, LockKept, SwitchKept, Busy, AutoMode
<1> QED
  BY <1>1, <1>2 DEF Inv

LEMMA SetProductionInv ==
    ASSUME Inv, NEW on \in {0, 1}, SetProduction(on)
    PROVE  Inv'
<1>1. /\ Enqueue(Command("production", on, Tries)) /\ Asked("production", None)
      /\ UNCHANGED <<p, main, task, wire, kind, psu>>
  BY DEF SetProduction
<1>2. Kept
  BY <1>1, Numbers, QueuedKept
<1>3. last' \in {last, None}
  BY <1>1 DEF Asked
<1> QED
  BY <1>1, <1>2, <1>3, OthersKept DEF Kept, Inv, TypeOK, Frames, Values

LEMMA SetSettingInv ==
    ASSUME Inv, SetSetting
    PROVE  Inv'
<1>1. /\ Enqueue(Command("settings", 0, Tries))
      /\ UNCHANGED <<p, main, task, wire, kind, psu, last>>
  BY DEF SetSetting
<1>2. Kept
  BY <1>1, SettingKept
<1> QED
  BY <1>1, <1>2, OthersKept DEF Kept, Inv, TypeOK, Frames, Values
-----------------------------------------------------------------------------
(***************************************************************************)
(* The task of the hardware interface.                                      *)
(***************************************************************************)
(* A hardware interface whose queue may have grown too long, and whose      *)
(* commands left to send are none or all.                                   *)
Loose == [queue : Seq(Commands), left : Nat, multiplier : BOOLEAN,
          known : BOOLEAN, settled : BOOLEAN]
Even(r) == r \in Loose /\ r.left <= Len(r.queue)

(* Appending commands for something else only.                              *)
Grown(q, r) ==
    /\ r \in Seq(Commands)
    /\ \A w, actual, value : Follows(q, w, actual, value) => Follows(r, w, actual, value)

LEMMA OtherCommand ==
    ASSUME Inv, NEW what \in {"settings", "request"}, NEW n \in 1 .. Tries
    PROVE  Command(what, 0, n) \in Commands /\ ~Command(what, 0, n).ours
<1>1. what # kind /\ 0 \in Currents
  BY Numbers DEF Inv, TypeOK, Kinds
<1> QED
  BY <1>1, CommandType

LEMMA AppendGrown ==
    ASSUME NEW q \in Seq(Commands), NEW c \in Commands, ~c.ours
    PROVE  Grown(q, Append(q, c)) /\ Len(Append(q, c)) = Len(q) + 1
<1>1. Append(q, c) \in Seq(Commands) /\ Len(Append(q, c)) = Len(q) + 1
  OBVIOUS
<1>2. ASSUME NEW w, NEW actual, NEW value, Follows(q, w, actual, value)
      PROVE  Follows(Append(q, c), w, actual, value)
  BY <1>2, QueuedFollows
<1> QED
  BY <1>1, <1>2 DEF Grown

LEMMA RequestKeeps ==
    ASSUME Inv, NEW r, Even(r)
    PROVE  Even(Request(r)) /\ Grown(r.queue, Request(r).queue)
<1> DEFINE c == Command("request", 0, 1)
           q == Append(r.queue, c)
<1>1. c \in Commands /\ ~c.ours
  BY OtherCommand, Numbers
<1>2. r \in Loose /\ r.queue \in Seq(Commands) /\ Len(r.queue) \in Nat /\ r.left \in Nat
      /\ r.left <= Len(r.queue)
  BY DEF Even, Loose
<1>3. Grown(r.queue, q) /\ Len(q) = Len(r.queue) + 1 /\ q \in Seq(Commands)
  BY <1>1, <1>2, AppendGrown DEF Grown
<1>4. Request(r) = [r EXCEPT !.queue = q]
  BY DEF Request
<1> HIDE DEF q
<1>5. Request(r) \in Loose /\ Request(r).queue = q /\ Request(r).left = r.left
  BY <1>2, <1>3, <1>4 DEF Loose
<1>6. r.left <= Len(q)
  BY <1>2, <1>3
<1> QED
  BY <1>3, <1>5, <1>6 DEF Even

LEMMA SettleKeeps ==
    ASSUME Inv, NEW r, Even(r)
    PROVE  Even(Settle(r)) /\ Grown(r.queue, Settle(r).queue)
<1> DEFINE c == Command("settings", 0, Tries)
           q == Append(r.queue, c)
<1>1. c \in Commands /\ ~c.ours
  BY OtherCommand, Numbers
<1>2. r \in Loose /\ r.queue \in Seq(Commands) /\ Len(r.queue) \in Nat /\ r.left \in Nat
      /\ r.left <= Len(r.queue)
  BY DEF Even, Loose
<1>3. Grown(r.queue, q) /\ Len(q) = Len(r.queue) + 1 /\ q \in Seq(Commands)
  BY <1>1, <1>2, AppendGrown DEF Grown
<1>4. Settle(r) = [r EXCEPT !.settled = TRUE, !.queue = q]
  BY DEF Settle
<1> HIDE DEF q
<1>5. Settle(r) \in Loose /\ Settle(r).queue = q /\ Settle(r).left = r.left
  BY <1>2, <1>3, <1>4 DEF Loose
<1>6. r.left <= Len(q)
  BY <1>2, <1>3
<1> QED
  BY <1>3, <1>5, <1>6 DEF Even

LEMMA ProcessKeeps ==
    ASSUME NEW r, Even(r)
    PROVE  Even(Process(r)) /\ Process(r).queue = r.queue
<1>1. r \in Loose /\ Len(r.queue) \in Nat
  BY DEF Even, Loose
<1> DEFINE n == Len(r.queue)
<1>2. Process(r) = [r EXCEPT !.left = n]
  BY DEF Process
<1>3. n \in Nat /\ n <= n
  BY <1>1
<1> HIDE DEF n
<1>4. Process(r) \in Loose /\ Process(r).queue = r.queue /\ Process(r).left = n
  BY <1>1, <1>2, <1>3 DEF Loose
<1> QED
  BY <1>3, <1>4 DEF Even, n

LEMMA UnreachableKeeps ==
    ASSUME NEW r, Even(r)
    PROVE  Even(Unreachable(r)) /\ Unreachable(r).queue = r.queue
BY DEF Even, Loose, Unreachable

LEMMA ReadsKeep ==
    ASSUME Inv, NEW r \in Reads
    PROVE  Even(r) /\ r.queue = hw.queue
<1>1. hw \in Hardware /\ hw.left <= Len(hw.queue) /\ hw.left \in Nat
  BY ChargerAssumption DEF Inv, TypeOK, FrontExists, Hardware
<1>2. hw.multiplier \in BOOLEAN /\ hw.known \in BOOLEAN
  BY <1>1 DEF Hardware
<1>3. PICK config \in {hw.multiplier, TRUE}, complete \in {hw.known, TRUE} :
        r = [hw EXCEPT !.multiplier = config, !.known = complete]
  BY DEF Reads
<1>4. config \in BOOLEAN /\ complete \in BOOLEAN
  BY <1>2, <1>3
<1> QED
  BY <1>1, <1>3, <1>4 DEF Even, Loose, Hardware

(* A pass appends requests and settings only, and looks at no more commands *)
(* than the queue has.                                                      *)
LEMMA PassesKeep ==
    ASSUME Inv, NEW r, Even(r), NEW board, NEW x \in PassesOf(r, board)
    PROVE  Even(x) /\ Grown(r.queue, x.queue)
<1>1. r.queue \in Seq(Commands) /\ Grown(r.queue, r.queue)
  BY DEF Even, Loose, Grown
<1>2. \/ x \in {r, Process(r), Unreachable(r), Process(Request(r)), Process(Settle(r))}
      \/ x = Process(Request(Request(r)))
  BY DEF PassesOf
<1>3. CASE x = r
  BY <1>1, <1>3
<1>4. CASE x = Process(r)
  BY <1>1, <1>4, ProcessKeeps
<1>5. CASE x = Unreachable(r)
  BY <1>1, <1>5, UnreachableKeeps
<1>6. CASE x = Process(Request(r))
  BY <1>6, RequestKeeps, ProcessKeeps
<1>7. CASE x = Process(Settle(r))
  BY <1>7, SettleKeeps, ProcessKeeps
<1>8. CASE x = Process(Request(Request(r)))
  <2> DEFINE s == Request(r)
  <2>1. Even(s) /\ Grown(r.queue, s.queue)
    BY RequestKeeps
  <2> HIDE DEF s
  <2>2. Even(Request(s)) /\ Grown(s.queue, Request(s).queue)
    BY <2>1, RequestKeeps
  <2>3. Grown(r.queue, Request(s).queue)
    BY <2>1, <2>2 DEF Grown
  <2>4. x = Process(Request(s))
    BY <1>8 DEF s
  <2> QED
    BY <2>2, <2>3, <2>4, ProcessKeeps
<1> QED
  BY <1>2, <1>3, <1>4, <1>5, <1>6, <1>7, <1>8

LEMMA PassInv ==
    ASSUME Inv, Pass
    PROVE  Inv'
<1>1. PICK r \in Reads, board \in {"Unknown", "Reading", "Complete"} : hw' \in PassesOf(r, board)
  BY DEF Pass
<1>2. Len(hw'.queue) <= MaxQueue /\ UNCHANGED <<p, main, task, wire, kind, psu, last>>
  BY DEF Pass
<1>3. Even(r) /\ r.queue = hw.queue
  BY ReadsKeep
<1>4. Even(hw') /\ Grown(hw.queue, hw'.queue)
  BY <1>1, <1>3, PassesKeep
<1>5. hw' \in Loose /\ hw'.left \in Nat /\ Len(hw'.queue) \in Nat
      /\ hw'.left <= Len(hw'.queue)
  BY <1>4 DEF Even, Loose
<1>6. hw'.left \in 0 .. MaxQueue
  BY <1>2, <1>5, ChargerAssumption
<1>7. hw' \in Hardware /\ FrontExists'
  BY <1>5, <1>6 DEF Loose, Hardware, FrontExists
<1>8. Follows(hw.queue, wire, psu, last)'
  BY <1>2, <1>4 DEF Inv, Grown
<1> QED
  BY <1>2, <1>7, <1>8, OthersKept DEF Inv, TypeOK, Frames, Values

LEMMA InvQueue ==
    ASSUME Inv, hw.left > 0
    PROVE  /\ hw \in Hardware /\ hw.queue \in Seq(Commands) /\ hw.queue # <<>>
           /\ Head(hw.queue) \in Commands /\ hw.left \in 1 .. Len(hw.queue)
<1>1. hw \in Hardware /\ hw.queue \in Seq(Commands) /\ hw.left \in Nat
  BY ChargerAssumption DEF Inv, TypeOK, Hardware
<1>2. hw.left \in 1 .. Len(hw.queue)
  BY <1>1 DEF Inv, FrontExists
<1>3. hw.queue # <<>> /\ Head(hw.queue) \in Commands
  BY <1>1, <1>2
<1> QED
  BY <1>1, <1>2, <1>3

(* A step of processQueue: one command less to look at.                     *)
LEMMA QueueStep ==
    ASSUME Inv, hw.left > 0, NEW q \in Seq(Commands),
           hw' = [hw EXCEPT !.left = @ - 1, !.queue = q],
           Len(q) \in Len(hw.queue) - 1 .. Len(hw.queue)
    PROVE  /\ hw' \in Hardware /\ hw'.queue = q
           /\ Len(hw'.queue) <= MaxQueue /\ FrontExists'
<1> DEFINE n == hw.left - 1
<1>1. hw \in Hardware /\ hw.left \in 1 .. Len(hw.queue) /\ hw.queue \in Seq(Commands)
  BY InvQueue
<1>2. Len(hw.queue) \in 0 .. MaxQueue
  BY <1>1, ChargerAssumption DEF Inv, TypeOK
<1>3. n \in 0 .. MaxQueue /\ n <= Len(q) /\ Len(q) <= MaxQueue
  <2>1. ASSUME NEW l \in 0 .. MaxQueue, NEW k \in 1 .. l, NEW m \in l - 1 .. l
        PROVE  k - 1 \in 0 .. MaxQueue /\ k - 1 <= m /\ m <= MaxQueue
    BY ChargerAssumption
  <2> QED
    BY <1>1, <1>2, <2>1
<1>4. hw' = [hw EXCEPT !.left = n, !.queue = q]
  OBVIOUS
<1> HIDE DEF n
<1>5. hw' \in Hardware /\ hw'.queue = q /\ hw'.left = n
  BY <1>1, <1>3, <1>4 DEF Hardware
<1> QED
  BY <1>3, <1>5 DEF FrontExists

LEMMA SentInv ==
    ASSUME Inv, Sent
    PROVE  Inv'
<1>1. PICK q : q = Tail(hw.queue)
  OBVIOUS
<1>2. PICK w : w = Append(wire, Frame(Head(hw.queue)))
  OBVIOUS
<1>3. /\ hw.left > 0 /\ Len(wire) < MaxFrames
      /\ hw' = [hw EXCEPT !.left = @ - 1, !.queue = q] /\ wire' = w
      /\ UNCHANGED <<p, main, task, kind, psu, last>>
  BY <1>1, <1>2 DEF Sent
<1>4. hw.queue \in Seq(Commands) /\ hw.queue # <<>> /\ Head(hw.queue) \in Commands
  BY <1>3, InvQueue
<1>5. q \in Seq(Commands) /\ Len(q) \in Len(hw.queue) - 1 .. Len(hw.queue)
  BY <1>1, <1>4
<1>6. hw' \in Hardware /\ hw'.queue = q /\ Len(hw'.queue) <= MaxQueue /\ FrontExists'
  BY <1>3, <1>5, QueueStep
<1>7. wire \in Seq(Frames) /\ Frame(Head(hw.queue)) \in Frames
  BY <1>4 DEF Inv, TypeOK, Frame, Frames, Commands
<1>8. w \in Seq(Frames) /\ Len(w) = Len(wire) + 1 /\ Len(wire) \in Nat
  BY <1>2, <1>7
<1>9. Len(w) <= MaxFrames
  BY <1>3, <1>8, ChargerAssumption
<1>10. Follows(q, w, psu, last)
  BY <1>1, <1>2, <1>4, <1>7, SentFollows DEF Inv
<1>11. Follows(hw.queue, wire, psu, last)'
  BY <1>3, <1>6, <1>10
<1> QED
  BY <1>3, <1>6, <1>8, <1>9, <1>11, OthersKept DEF Inv, TypeOK, Values

(* A failed command: what is left in the queue ends as before, unless it    *)
(* was dropped.                                                             *)
LEMMA FailureFollows ==
    ASSUME NEW q \in Seq(Commands), q # <<>>, NEW w, NEW actual, NEW value,
           Follows(q, w, actual, value)
    PROVE  LET r == AfterFailure(q)
           IN  /\ r \in Seq(Commands) /\ Len(r) \in Len(q) - 1 .. Len(q)
               /\ (Head(q).ours /\ Head(q).tries = 1) \/ Follows(r, w, actual, value)
<1>1. Head(q) \in Commands /\ Len(q) \in Nat \ {0} /\ Len(Tail(q)) = Len(q) - 1
      /\ Tail(q) \in Seq(Commands)
  OBVIOUS
<1>2. CASE Head(q).tries = 1
  <2>1. AfterFailure(q) = Tail(q)
    BY <1>2 DEF AfterFailure
  <2>2. Head(q).ours \/ Follows(Tail(q), w, actual, value)
    BY TailOurs DEF Follows
  <2> QED
    BY <1>1, <1>2, <2>1, <2>2
<1>3. CASE Head(q).tries # 1
  <2> DEFINE n == Head(q).tries - 1
             d == [Head(q) EXCEPT !.tries = n]
             r == <<d>> \o Tail(q)
  <2>1. AfterFailure(q) = r
    BY <1>3 DEF AfterFailure
  <2>2. n \in 1 .. Tries
    BY <1>1, <1>3, ChargerAssumption DEF Commands
  <2> HIDE DEF n
  <2>3. d \in Commands /\ d.ours = Head(q).ours /\ d.value = Head(q).value
    BY <1>1, <2>2 DEF Commands
  <2> HIDE DEF d
  <2>4. <<d>> \in Seq(Commands) /\ Len(<<d>>) = 1
    BY <2>3
  <2>5. r \in Seq(Commands) /\ Len(r) = Len(q)
    BY <1>1, <2>4
  <2>6. (Within(r) <=> Within(q)) /\ (Final(q, value) => Final(r, value))
    BY <2>3, RepeatOurs
  <2> HIDE DEF r
  <2>7. Follows(r, w, actual, value)
    BY <2>6 DEF Follows
  <2> QED
    BY <1>1, <2>1, <2>5, <2>7
<1> QED
  BY <1>2, <1>3

LEMMA NotSentInv ==
    ASSUME Inv, NotSent
    PROVE  Inv'
<1>1. PICK q : q = AfterFailure(hw.queue)
  OBVIOUS
<1>2. /\ hw.left > 0 /\ hw' = [hw EXCEPT !.left = @ - 1, !.queue = q]
      /\ last' = IF Head(hw.queue).ours /\ Head(hw.queue).tries = 1 THEN None ELSE last
      /\ UNCHANGED <<p, main, task, wire, kind, psu>>
  BY <1>1 DEF NotSent
<1>3. hw.queue \in Seq(Commands) /\ hw.queue # <<>> /\ Follows(hw.queue, wire, psu, last)
  BY <1>2, InvQueue DEF Inv
<1>4. /\ q \in Seq(Commands) /\ Len(q) \in Len(hw.queue) - 1 .. Len(hw.queue)
      /\ (Head(hw.queue).ours /\ Head(hw.queue).tries = 1) \/ Follows(q, wire, psu, last)
  BY <1>1, <1>3, FailureFollows
<1>5. hw' \in Hardware /\ hw'.queue = q /\ Len(hw'.queue) <= MaxQueue /\ FrontExists'
  BY <1>2, <1>4, QueueStep
<1>6. Follows(hw.queue, wire, psu, last)'
  BY <1>2, <1>4, <1>5 DEF Follows
<1> QED
  BY <1>2, <1>5, <1>6, OthersKept DEF Inv, TypeOK, Frames, Values

LEMMA DeliverInv ==
    ASSUME Inv, Deliver
    PROVE  Inv'
<1>1. /\ wire # <<>> /\ wire' = Tail(wire)
      /\ psu' = IF Head(wire).ours THEN Head(wire).value ELSE psu
      /\ UNCHANGED <<p, main, task, hw, kind, last>>
  BY DEF Deliver
<1>2. wire \in Seq(Frames) /\ Len(wire) <= MaxFrames /\ psu \in Values
      /\ Follows(hw.queue, wire, psu, last)
  BY DEF Inv, TypeOK, Frames, Values
<1>3. Head(wire) \in Frames /\ Tail(wire) \in Seq(Frames) /\ Len(Tail(wire)) = Len(wire) - 1
      /\ Len(wire) \in Nat
  BY <1>1, <1>2
<1>4. Len(wire') <= MaxFrames
  BY <1>1, <1>2, <1>3, ChargerAssumption
<1>5. Follows(hw.queue, wire, psu, last)'
  BY <1>1, <1>2, DeliveredFollows
<1>6. psu' \in Values
  BY <1>1, <1>2, <1>3 DEF Frames, Values
<1>7. hw' \in Hardware /\ Len(hw'.queue) <= MaxQueue /\ FrontExists'
  BY <1>1 DEF Inv, TypeOK, FrontExists, Hardware
<1> QED
  BY <1>1, <1>3, <1>4, <1>5, <1>6, <1>7, OthersKept

LEMMA PowerLossInv ==
    ASSUME Inv, PowerLoss
    PROVE  Inv'
<1>1. psu' = None /\ UNCHANGED <<p, main, task, hw, wire, kind, last>>
  BY DEF PowerLoss
<1>2. Follows(hw.queue, wire, psu, last)'
  BY <1>1 DEF Inv, Follows
<1> QED
  BY <1>1, <1>2, OthersKept DEF Inv, TypeOK, FrontExists, Hardware, Frames, Values
-----------------------------------------------------------------------------
(* Every step keeps the invariant.                                          *)
LEMMA InitInv ==
    ASSUME Init
    PROVE  Inv
<1>1. <<>> \in Seq(Commands) /\ Len(<<>>) = 0 /\ <<>> \in Seq(Frames)
  OBVIOUS
<1>2. TypeOK /\ FrontExists
  BY <1>1, ChargerAssumption
     DEF Init, TypeOK, FrontExists, Idle, Calls, Steps, Modes, Frames
<1>3. Follows(hw.queue, wire, psu, last)
  BY DEF Init, Follows
<1>4. Sound(main) /\ Sound(task) /\ LockKept /\ SwitchKept
  BY DEF Init, Idle, Sound, LockKept, SwitchKept, Busy, Turning
<1> QED
  BY <1>2, <1>3, <1>4 DEF Inv

LEMMA NextInv ==
    ASSUME Inv, [Next]_vars
    PROVE  Inv'
<1>1. CASE \E mode \in Modes : SetMode(mode)
  BY <1>1, SetModeInv
<1>2. CASE \E on \in {0, 1} : SetProduction(on)
  BY <1>2, SetProductionInv
<1>3. CASE \E value \in Currents : SetParameter(value) \/ Loop(value) \/ Limiter(value)
  BY <1>3, SetParameterInv, LoopInv, LimiterInv
<1>4. CASE SetSetting \/ Shutdown
  BY <1>4, SetSettingInv, ShutdownInv
<1>5. CASE TaskStep \/ MainStep
  BY <1>5, TaskStepInv, MainStepInv
<1>6. CASE Pass
  BY <1>6, PassInv
<1>7. CASE Sent \/ NotSent
  BY <1>7, SentInv, NotSentInv
<1>8. CASE Deliver \/ PowerLoss
  BY <1>8, DeliverInv, PowerLossInv
<1>9. CASE UNCHANGED vars
  BY <1>9 DEF vars, Inv, TypeOK, FrontExists, Follows, Sound, LockKept, SwitchKept,
              Busy, AutoMode
<1> QED
  BY <1>1, <1>2, <1>3, <1>4, <1>5, <1>6, <1>7, <1>8, <1>9 DEF Next

LEMMA InvAlways == Spec => []Inv
BY InitInv, NextInv, PTL DEF Spec

(* The charger's state has its types (HuaweiCharger: the provider, the      *)
(* calls in progress, the hardware interface, the driver).                  *)
THEOREM ChargerTypeCorrect == Spec => []TypeOK
<1>1. Inv => TypeOK
  BY DEF Inv
<1> QED
  BY <1>1, InvAlways, PTL

(* processQueue never looks at the front of an empty queue, though commands *)
(* are repeated, dropped and added while it goes through it.                *)
THEOREM QueueFrontCorrect == Spec => []FrontExists
<1>1. Inv => FrontExists
  BY DEF Inv
<1> QED
  BY <1>1, InvAlways, PTL

(* Once no current is in the queue or the driver, the PSU was told the one  *)
(* queued last, unless one was dropped or it lost its power: for any number *)
(* of tries, currents, frames in the driver and interleaving of the tasks.  *)
THEOREM CurrentFollowsCorrect == Spec => []CurrentFollows
<1>1. Inv => CurrentFollows
  BY DEF Inv, Follows, Within, CurrentFollows, OnItsWay
<1> QED
  BY <1>1, InvAlways, PTL

(* In mode OFF, with no call in progress and nothing on its way, the output *)
(* is off, apart from the exceptions that the definition names: setMode's   *)
(* steps, the lock and the power limiter that does not take it.             *)
THEOREM OffModeCorrect == Spec => []OffIsOff
<1>1. ASSUME Inv  PROVE OffIsOff
  <2>1. kind = "production" /\ last # None /\ p.mode = "OFF" /\ ~Busy(task) => last = 0
    BY <1>1 DEF Inv, SwitchKept, Busy
  <2> QED
    BY <1>1, <2>1 DEF Inv, Follows, Within, OffIsOff, OnItsWay
<1> QED
  BY <1>1, InvAlways, PTL
=============================================================================
