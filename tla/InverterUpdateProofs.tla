------------------------- MODULE InverterUpdateProofs -------------------------
(***************************************************************************)
(* InverterUpdate for all limits, time limits and thresholds of restart    *)
(* and reboot: types, and that update() books the answers to limit         *)
(* commands, sends on after the limit, and does not forget a stop.         *)
(*                                                                         *)
(* update() is a composition of operators on states.  Each has a lemma for *)
(* every fact that is followed through it: Good (types, and which command  *)
(* is in flight), Same and Fewer (targets), Books (answers).               *)
(***************************************************************************)
EXTENDS InverterUpdate, TLAPS

Fields ==
    [power : BOOLEAN \cup {None}, limit : Limits \cup {LowerLimit, None},
     force : BOOLEAN, parallel : BOOLEAN,
     started : (0 .. Timeout + 1) \cup {None},
     inLimit : Limits \cup {LowerLimit, None}, inPower : BOOLEAN \cup {None},
     timeouts : 0 .. RebootAfter, backoff : 0 .. Backoff,
     assumed : {None, 0, 1}, known : Known, reboot : BOOLEAN, busy : BOOLEAN]
Objects == {o \in Fields : o.timeouts = RebootAfter => o.reboot}
Libraries ==
    [lim : Statuses, limNew : BOOLEAN, pow : Statuses, powNew : BOOLEAN,
     act : BOOLEAN \cup {None}, queue : Seq(Acts)]
States == [u : Objects, h : Libraries]

(* The power command in flight is the newest on/off command the radio has   *)
(* or had: whatever answer is taken for its own, no other comes after it.   *)
Ours(o, lib) == o.inPower # None => Newest(lib, o.inPower)

Good == {s \in States : Ours(s.u, s.h)}
-----------------------------------------------------------------------------
(***************************************************************************)
(* The parts of update() keep both, and all but a failure keep the counter. *)
(***************************************************************************)
LEMMA Parts ==
    ASSUME NEW s \in Good
    PROVE  /\ s.u \in Objects /\ s.h \in Libraries /\ Ours(s.u, s.h)
           /\ s \in States
BY DEF Good, States

LEMMA Whole ==
    ASSUME NEW s \in States, Ours(s.u, s.h)
    PROVE  s \in Good
BY DEF Good

LEMMA BusyGood ==
    ASSUME NEW s \in Good
    PROVE  /\ Busy(s) \in Good /\ Done(s) \in Good
           /\ Busy(s).u.reboot = s.u.reboot /\ Done(s).u.reboot = s.u.reboot
           /\ Done(s).u = [s.u EXCEPT !.busy = FALSE] /\ Done(s).h = s.h
<1>1. s.u \in Objects /\ s.h \in Libraries /\ Ours(s.u, s.h) /\ s \in States
  BY Parts
<1>2. ASSUME NEW b \in BOOLEAN
      PROVE  LET o == [s.u EXCEPT !.busy = b]
             IN  o \in Objects /\ Ours(o, s.h) /\ o.reboot = s.u.reboot
  BY <1>1 DEF Objects, Fields, Ours
<1>3. /\ Busy(s).u = [s.u EXCEPT !.busy = TRUE] /\ Busy(s).h = s.h
      /\ Done(s).u = [s.u EXCEPT !.busy = FALSE] /\ Done(s).h = s.h
  BY <1>1 DEF Busy, Done, States
<1>4. Busy(s) \in States /\ Done(s) \in States
  BY <1>1, <1>2 DEF Busy, Done, States
<1> QED
  BY <1>2, <1>3, <1>4, Whole

LEMMA StartGood ==
    ASSUME NEW s \in Good
    PROVE  /\ Start(s) \in Good /\ Start(s).u.reboot = s.u.reboot
<1> DEFINE o == [s.u EXCEPT !.started = 0]
           l == [s.h EXCEPT !.limNew = FALSE, !.powNew = FALSE]
<1>1. s.u \in Objects /\ s.h \in Libraries /\ Ours(s.u, s.h) /\ s \in States
  BY Parts
<1>2. 0 \in 0 .. Timeout + 1
  BY InverterAssumption
<1>3. o \in Objects /\ o.inPower = s.u.inPower /\ o.reboot = s.u.reboot
  BY <1>1, <1>2 DEF Objects, Fields
<1>4. l \in Libraries /\ l.queue = s.h.queue /\ l.act = s.h.act
  BY <1>1 DEF Libraries
<1>5. Start(s) \in States
  BY <1>1, <1>3, <1>4 DEF Start, States
<1>6. Start(s).u = o
  BY <1>1 DEF Start, States
<1>7. Start(s).h = l
  BY <1>1 DEF Start, States
<1>8. Ours(o, l)
  BY <1>1, <1>3, <1>4 DEF Ours, Newest
<1> QED
  BY <1>3, <1>5, <1>6, <1>7, <1>8, Whole

LEMMA ResetGood ==
    ASSUME NEW s \in States
    PROVE  /\ Reset(s) \in Good /\ Reset(s).u.inPower = None
           /\ Reset(s).u.reboot = s.u.reboot
<1> DEFINE o == [s.u EXCEPT !.power = None, !.limit = None, !.force = FALSE,
                     !.parallel = FALSE, !.started = None, !.inLimit = None,
                     !.inPower = None]
           l == [s.h EXCEPT !.limNew = FALSE, !.powNew = FALSE]
           r == [s EXCEPT !.h.limNew = FALSE, !.h.powNew = FALSE, !.u = o]
<1>1. s.u \in Objects /\ s.h \in Libraries
  BY DEF States
<1>2. o \in Objects /\ o.inPower = None /\ o.reboot = s.u.reboot
  BY <1>1 DEF Objects, Fields
<1>3. l \in Libraries
  BY <1>1 DEF Libraries
<1>4. Reset(s) = Done(r)
  BY DEF Reset
<1> HIDE DEF o
<1>5. r \in States /\ r.u = o
  BY <1>2, <1>3 DEF States
<1> HIDE DEF r
<1>6. r \in Good
  BY <1>2, <1>5 DEF Ours, Good
<1>7. Done(r).u.inPower = None
  <2>1. [o EXCEPT !.busy = FALSE].inPower = None
    BY <1>2 DEF Objects, Fields
  <2> QED
    BY <2>1, <1>5, <1>6, BusyGood
<1> QED
  BY <1>2, <1>4, <1>5, <1>6, <1>7, BusyGood

LEMMA QueuedLibrary ==
    ASSUME NEW lib \in Libraries, NEW act \in Acts
    PROVE  Queued(lib, act) \in Libraries /\ (act # Restart => Newest(Queued(lib, act), act))
<1> DEFINE q    == Append(lib.queue, act)
           last == IF act = Restart THEN lib.act ELSE None
<1>1. q \in Seq(Acts) /\ Len(q) \in Nat \ {0} /\ q[Len(q)] = act
  BY DEF Libraries
<1>2. Queued(lib, act) = [lib EXCEPT !.pow = "PENDING", !.powNew = FALSE, !.queue = q,
                                     !.act = last]
  BY DEF Queued, Libraries
<1>3. last \in BOOLEAN \cup {None}
  BY DEF Libraries
<1> HIDE DEF q, last
<1>4. Queued(lib, act) \in Libraries /\ Queued(lib, act).queue = q
  BY <1>1, <1>2, <1>3 DEF Libraries, Statuses
<1>5. Len(q) \in 1 .. Len(q) /\ Len(q) + 1 .. Len(q) = {}
  BY <1>1
<1> QED
  BY <1>1, <1>4, <1>5 DEF Newest

(* A restart beside a power command, or an answer, leaves the newest one.   *)
LEMMA RestartNewest ==
    ASSUME NEW lib \in Libraries, NEW on \in BOOLEAN, Newest(lib, on)
    PROVE  Newest(Queued(lib, Restart), on)
<1> DEFINE q == Append(lib.queue, Restart)
<1>1. /\ Len(lib.queue) \in Nat /\ Len(q) = Len(lib.queue) + 1
      /\ \A m \in 1 .. Len(lib.queue) : q[m] = lib.queue[m]
      /\ q[Len(lib.queue) + 1] = Restart
  BY DEF Libraries, Acts
<1>2. Queued(lib, Restart).queue = q /\ Queued(lib, Restart).act = lib.act
  BY DEF Queued, Libraries
<1> HIDE DEF q
<1>3. CASE lib.act = on /\ \A m \in 1 .. Len(lib.queue) : lib.queue[m] = Restart
  <2>1. \A m \in 1 .. Len(q) : q[m] = Restart
    BY <1>1, <1>3
  <2> QED
    BY <1>2, <1>3, <2>1 DEF Newest
<1>4. CASE \E n \in 1 .. Len(lib.queue) :
              /\ lib.queue[n] = on
              /\ \A m \in n + 1 .. Len(lib.queue) : lib.queue[m] = Restart
  <2>1. PICK n \in 1 .. Len(lib.queue) :
              /\ lib.queue[n] = on
              /\ \A m \in n + 1 .. Len(lib.queue) : lib.queue[m] = Restart
    BY <1>4
  <2>2. n \in 1 .. Len(q) /\ q[n] = on
    BY <1>1, <2>1
  <2>3. \A m \in n + 1 .. Len(q) : q[m] = Restart
    BY <1>1, <2>1
  <2> QED
    BY <1>2, <2>2, <2>3 DEF Newest
<1> QED
  BY <1>3, <1>4 DEF Newest

LEMMA TailNewest ==
    ASSUME NEW lib \in Libraries, NEW on \in BOOLEAN, Newest(lib, on), lib.queue # <<>>,
           NEW next \in Libraries, next.queue = Tail(lib.queue),
           next.act = IF Head(lib.queue) = Restart THEN lib.act ELSE Head(lib.queue)
    PROVE  Newest(next, on)
<1> DEFINE q == lib.queue
           t == Tail(lib.queue)
<1>1. /\ Len(q) \in Nat \ {0} /\ Len(t) = Len(q) - 1 /\ Head(q) = q[1]
      /\ \A m \in 1 .. Len(q) - 1 : t[m] = q[m + 1]
  BY DEF Libraries
<1> HIDE DEF q, t
<1>2. CASE lib.act = on /\ \A m \in 1 .. Len(q) : q[m] = Restart
  <2>1. Head(q) = Restart /\ next.act = on
    BY <1>1, <1>2 DEF q
  <2>2. \A m \in 1 .. Len(t) : t[m] = Restart
    BY <1>1, <1>2
  <2> QED
    BY <2>1, <2>2 DEF Newest, t
<1>3. CASE \E n \in 1 .. Len(q) : q[n] = on /\ \A m \in n + 1 .. Len(q) : q[m] = Restart
  <2>1. PICK n \in 1 .. Len(q) : q[n] = on /\ \A m \in n + 1 .. Len(q) : q[m] = Restart
    BY <1>3
  <2>2. CASE n = 1
    <3>1. next.act = on
      BY <1>1, <2>1, <2>2, InverterAssumption DEF q
    <3>2. \A m \in 1 .. Len(t) : t[m] = Restart
      BY <1>1, <2>1, <2>2
    <3> QED
      BY <3>1, <3>2 DEF Newest, t
  <2>3. CASE n # 1
    <3>1. n - 1 \in 1 .. Len(t) /\ t[n - 1] = on
      BY <1>1, <2>1, <2>3
    <3>2. \A m \in (n - 1) + 1 .. Len(t) : t[m] = Restart
      BY <1>1, <2>1, <2>3
    <3> QED
      BY <3>1, <3>2 DEF Newest, t
  <2> QED
    BY <2>2, <2>3
<1> QED
  BY <1>2, <1>3 DEF Newest, q

(* The counter ends at RebootAfter, when the reboot is due.                 *)
LEMMA CountedObject ==
    ASSUME NEW o \in Objects, ~o.reboot
    PROVE  [o EXCEPT !.timeouts = o.timeouts + 1, !.backoff = Backoff,
                     !.reboot = (o.timeouts + 1 = RebootAfter)] \in Objects
<1>1. o \in Fields /\ o.timeouts # RebootAfter
  BY DEF Objects, Fields
<1>2. o.timeouts + 1 \in 0 .. RebootAfter /\ Backoff \in 0 .. Backoff
  BY <1>1, InverterAssumption DEF Fields
<1>3. (o.timeouts + 1 = RebootAfter) \in BOOLEAN
  OBVIOUS
<1> DEFINE n == o.timeouts + 1
           d == (n = RebootAfter)
           x == [o EXCEPT !.timeouts = n, !.backoff = Backoff, !.reboot = d]
<1>4. n \in 0 .. RebootAfter /\ d \in BOOLEAN /\ (n = RebootAfter => d)
  BY <1>2, <1>3
<1> HIDE DEF n, d
<1>5. x \in Fields /\ x.timeouts = n /\ x.reboot = d
  BY <1>1, <1>2, <1>4 DEF Fields
<1> QED
  BY <1>4, <1>5 DEF Objects, Fields, n, d

LEMMA FailGood ==
    ASSUME NEW s \in Good, ~s.u.reboot
    PROVE  Fail(s) \in Good
<1> DEFINE due     == (s.u.timeouts + 1 = RebootAfter)
           o       == [s.u EXCEPT !.timeouts = s.u.timeouts + 1, !.backoff = Backoff,
                                  !.reboot = due]
           counted == [s EXCEPT !.u.timeouts = s.u.timeouts + 1, !.u.backoff = Backoff,
                                !.u.reboot = due]
           more    == [counted EXCEPT !.h = Queued(counted.h, Restart)]
<1>1. s.u \in Objects /\ s.h \in Libraries /\ s \in States
  BY Parts
<1>2. o \in Objects
  BY <1>1, CountedObject
<1>4. Restart \in Acts
  BY DEF Acts
<1>5. counted \in States
  BY <1>1, <1>2 DEF States
<1>6. Queued(counted.h, Restart) \in Libraries
  BY <1>4, <1>5, QueuedLibrary DEF States
<1>7. more \in States
  BY <1>5, <1>6 DEF States
<1>8. Fail(s) = Reset(counted) \/ Fail(s) = Reset(more)
  BY DEF Fail
<1> HIDE DEF counted, more
<1> QED
  BY <1>5, <1>7, <1>8, ResetGood

LEMMA SucceedGood ==
    ASSUME NEW s \in Good, NEW output \in {0, 1}
    PROVE  /\ Succeed(s, output) \in Good
           /\ Succeed(s, output).u.reboot = s.u.reboot
<1> DEFINE o == [s.u EXCEPT !.backoff = 0, !.assumed = output]
<1>1. s.u \in Objects /\ s.h \in Libraries /\ Ours(s.u, s.h) /\ s \in States
  BY Parts
<1>2. 0 \in 0 .. Backoff
  BY InverterAssumption
<1>3. o \in Objects /\ o.inPower = s.u.inPower /\ o.reboot = s.u.reboot
  BY <1>1, <1>2 DEF Objects, Fields
<1>4. Succeed(s, output) \in States
  BY <1>1, <1>3 DEF Succeed, States
<1>5. Succeed(s, output).u = o /\ Succeed(s, output).h = s.h
  BY <1>1 DEF Succeed, States
<1> QED
  BY <1>1, <1>3, <1>4, <1>5, Whole DEF Ours

(* A target is dropped: its command stays in flight.                        *)
LEMMA NoPowerGood ==
    ASSUME NEW s \in Good
    PROVE  /\ [s EXCEPT !.u.power = None] \in Good
           /\ [s EXCEPT !.u.power = None].u.reboot = s.u.reboot
<1> DEFINE o == [s.u EXCEPT !.power = None]
           r == [s EXCEPT !.u.power = None]
<1>1. s.u \in Objects /\ s.h \in Libraries /\ Ours(s.u, s.h) /\ s \in States
  BY Parts
<1>2. o \in Objects /\ o.inPower = s.u.inPower /\ o.reboot = s.u.reboot
  BY <1>1 DEF Objects, Fields
<1>3. r \in States
  BY <1>1, <1>2 DEF States
<1>4. r.u = o /\ r.h = s.h
  BY <1>1 DEF States
<1> QED
  BY <1>1, <1>2, <1>3, <1>4, Whole DEF Ours

LEMMA PowerAnsweredGood ==
    ASSUME NEW s \in Good
    PROVE  /\ PowerAnswered(s) \in Good
           /\ PowerAnswered(s).u.reboot = s.u.reboot
<1> DEFINE o    == [s.u EXCEPT !.inPower = None]
           read == [s EXCEPT !.u.inPower = None]
           won  == Succeed(read, IF s.u.inPower THEN 1 ELSE 0)
           done == [won EXCEPT !.u.power = None]
<1>1. s.u \in Objects /\ s.h \in Libraries /\ s \in States
  BY Parts
<1>2. o \in Objects /\ o.inPower = None /\ o.reboot = s.u.reboot
  BY <1>1 DEF Objects, Fields
<1>3. read \in States
  BY <1>1, <1>2 DEF States
<1>4. read.u = o
  BY <1>1 DEF States
<1>5. read \in Good /\ read.u.reboot = s.u.reboot
  BY <1>2, <1>3, <1>4, Whole DEF Ours
<1>6. PowerAnswered(s) \in {s, read, done, Start(won)}
  BY DEF PowerAnswered
<1> HIDE DEF read
<1>7. won \in Good /\ won.u.reboot = s.u.reboot
  BY <1>5, SucceedGood
<1> HIDE DEF won
<1>8. /\ done \in Good /\ done.u.reboot = s.u.reboot
      /\ Start(won) \in Good /\ Start(won).u.reboot = s.u.reboot
  BY <1>7, NoPowerGood, StartGood
<1> QED
  BY <1>5, <1>6, <1>8

(* The power command sent is the last one queued.                           *)
LEMMA SendPowerGood ==
    ASSUME NEW s \in Good, NEW on \in BOOLEAN
    PROVE  LET sent == [s EXCEPT !.u.inPower = on, !.h = Queued(s.h, on)]
           IN  sent \in Good /\ sent.u.reboot = s.u.reboot
<1> DEFINE o    == [s.u EXCEPT !.inPower = on]
           lib  == Queued(s.h, on)
           sent == [s EXCEPT !.u.inPower = on, !.h = Queued(s.h, on)]
<1>1. s.u \in Objects /\ s.h \in Libraries /\ s \in States
  BY Parts
<1>2. o \in Objects /\ o.inPower = on /\ o.reboot = s.u.reboot
  BY <1>1 DEF Objects, Fields
<1>3. lib \in Libraries /\ Newest(lib, on)
  BY <1>1, QueuedLibrary, InverterAssumption DEF Acts
<1> HIDE DEF lib
<1>4. [s EXCEPT !.u.inPower = on, !.h = lib] \in States
  BY <1>1, <1>2, <1>3 DEF States
<1>5. /\ [s EXCEPT !.u.inPower = on, !.h = lib].u = o
      /\ [s EXCEPT !.u.inPower = on, !.h = lib].h = lib
  BY <1>1 DEF States
<1>6. Ours(o, lib)
  BY <1>2, <1>3 DEF Ours
<1> QED
  BY <1>2, <1>4, <1>5, <1>6, Whole DEF lib

LEMMA SwitchPowerGood ==
    ASSUME NEW s \in Good, NEW on \in BOOLEAN, NEW allow \in BOOLEAN
    PROVE  /\ SwitchPower(s, on, allow) \in Good
           /\ SwitchPower(s, on, allow).u.reboot = s.u.reboot
<1> DEFINE r    == PowerAnswered(s)
           none == [r EXCEPT !.u.power = None]
           sent == [r EXCEPT !.u.inPower = on, !.h = Queued(r.h, on)]
<1>1. r \in Good /\ r.u.reboot = s.u.reboot
  BY PowerAnsweredGood
<1>2. SwitchPower(s, on, allow) \in
          {Done(s), Busy(s), Done(r), Done(none), Busy(r), Busy(sent)}
  BY DEF SwitchPower
<1> HIDE DEF r
<1>3. /\ none \in Good /\ none.u.reboot = s.u.reboot
      /\ sent \in Good /\ sent.u.reboot = s.u.reboot
  BY <1>1, NoPowerGood, SendPowerGood
<1> HIDE DEF none, sent
<1> QED
  BY <1>1, <1>2, <1>3, BusyGood

LEMMA LimitAnsweredGood ==
    ASSUME NEW s \in Good, NEW output \in {0, 1}, ~s.u.reboot
    PROVE  LimitAnswered(s, output) \in Good
<1> DEFINE limit == IF s.u.limit = s.u.inLimit THEN None ELSE s.u.limit
           o     == [s.u EXCEPT !.inLimit = None, !.limit = limit]
           read  == [s EXCEPT !.u.inLimit = None,
                         !.u.limit = IF @ = s.u.inLimit THEN None ELSE @]
<1>1. s.u \in Objects /\ s.h \in Libraries /\ Ours(s.u, s.h) /\ s \in States
  BY Parts
<1>2. limit \in Limits \cup {LowerLimit, None}
  BY <1>1 DEF Objects, Fields
<1> HIDE DEF limit
<1>3. o \in Objects /\ o.inPower = s.u.inPower /\ o.reboot = s.u.reboot
  BY <1>1, <1>2 DEF Objects, Fields
<1>4. read = [s EXCEPT !.u.inLimit = None, !.u.limit = limit]
  BY <1>1 DEF limit, States, Objects, Fields
<1>5. [s EXCEPT !.u.inLimit = None, !.u.limit = limit] \in States
  BY <1>1, <1>3 DEF States
<1>6. /\ [s EXCEPT !.u.inLimit = None, !.u.limit = limit].u = o
      /\ [s EXCEPT !.u.inLimit = None, !.u.limit = limit].h = s.h
  BY <1>1 DEF States
<1>7. LimitAnswered(s, output) \in
          {s, Fail(read), Succeed(read, output), Start(Succeed(read, output))}
  BY DEF LimitAnswered
<1> HIDE DEF read
<1>8. read \in Good /\ ~read.u.reboot
  BY <1>1, <1>3, <1>4, <1>5, <1>6, Whole DEF Ours
<1> QED
  BY <1>7, <1>8, FailGood, SucceedGood, StartGood

LEMMA UpdateLimitGood ==
    ASSUME NEW s \in Good, NEW allow \in BOOLEAN, NEW output \in {0, 1},
           ~s.u.reboot
    PROVE  UpdateLimit(s, allow, output) \in Good
<1> DEFINE r    == LimitAnswered(s, output)
           o    == [r.u EXCEPT !.inLimit = r.u.limit]
           l    == [r.h EXCEPT !.lim = "PENDING", !.limNew = FALSE]
           sent == [r EXCEPT !.u.inLimit = r.u.limit, !.h.lim = "PENDING", !.h.limNew = FALSE]
<1>1. r \in Good
  BY LimitAnsweredGood
<1>2. UpdateLimit(s, allow, output) \in {Done(s), Busy(s), Done(r), Busy(r), Busy(sent)}
  BY DEF UpdateLimit
<1> HIDE DEF r
<1>3. r.u \in Objects /\ r.h \in Libraries /\ Ours(r.u, r.h) /\ r \in States
  BY <1>1, Parts
<1>4. o \in Objects /\ o.inPower = r.u.inPower
  BY <1>3 DEF Objects, Fields
<1>5. l \in Libraries /\ l.queue = r.h.queue /\ l.act = r.h.act
  BY <1>3 DEF Libraries, Statuses
<1>6. sent \in States
  BY <1>3, <1>4, <1>5 DEF States
<1>7. sent.u = o /\ sent.h = l
  BY <1>3 DEF States
<1>8. Ours(o, l)
  BY <1>3, <1>4, <1>5 DEF Ours, Newest
<1>9. sent \in Good
  BY <1>6, <1>7, <1>8, Whole
<1> HIDE DEF sent
<1> QED
  BY <1>1, <1>2, <1>9, BusyGood

LEMMA FinishGood ==
    ASSUME NEW s \in Good
    PROVE  Finish(s) \in Good
<1> DEFINE r == Reset(s)
           o == [r.u EXCEPT !.timeouts = 0]
           f == [r EXCEPT !.u.timeouts = 0]
<1>1. r \in Good /\ r.u.inPower = None
  BY ResetGood DEF Good
<1>2. Finish(s) = f
  BY DEF Finish
<1> HIDE DEF r
<1>3. r.u \in Objects /\ r.h \in Libraries /\ r \in States
  BY <1>1, Parts
<1>4. 0 \in 0 .. RebootAfter
  BY InverterAssumption
<1>5. o \in Objects /\ o.inPower = None
  BY <1>1, <1>3, <1>4 DEF Objects, Fields
<1>6. f \in States
  BY <1>3, <1>5 DEF States
<1>7. f.u = o
  BY <1>3 DEF States
<1> QED
  BY <1>2, <1>5, <1>6, <1>7, Whole DEF Ours

LEMMA WorkGood ==
    ASSUME NEW s \in Good, NEW allow \in BOOLEAN, NEW output \in {0, 1},
           ~s.u.reboot
    PROVE  Work(s, allow, output) \in Good
<1> DEFINE off   == SwitchPower(s, FALSE, allow)
           limit == UpdateLimit(off, allow, output)
           on    == SwitchPower(limit, TRUE, allow)
<1>1. off \in Good /\ ~off.u.reboot
  BY SwitchPowerGood
<1>2. Work(s, allow, output) \in {off, limit, Busy(on), Finish(on)}
  BY DEF Work
<1> HIDE DEF off
<1>3. limit \in Good
  BY <1>1, UpdateLimitGood
<1> HIDE DEF limit
<1>4. on \in Good
  BY <1>3, SwitchPowerGood
<1> HIDE DEF on
<1> QED
  BY <1>1, <1>2, <1>3, <1>4, BusyGood, FinishGood
-----------------------------------------------------------------------------
(***************************************************************************)
(* The inductive invariant.                                                 *)
(***************************************************************************)
Inv == TypeOK /\ u \in Objects /\ Ours(u, h)

LEMMA InvParts ==
    ASSUME Inv
    PROVE  /\ u \in Objects /\ h \in Libraries /\ u.busy = FALSE /\ Ours(u, h)
           /\ producing \in BOOLEAN /\ Len(h.queue) <= MaxQueued
           /\ mode \in {"governed", "reload", "retired", "gone"}
<1>1. u \in Objects
  BY DEF Inv
<1>2. h \in Libraries
  BY DEF Inv, TypeOK, Libraries
<1>3. u.busy \in {FALSE}
  BY DEF Inv, TypeOK
<1> QED
  BY <1>1, <1>2, <1>3 DEF Inv, TypeOK

LEMMA StateGood ==
    ASSUME Inv
    PROVE  State \in Good /\ State.u = u /\ State.h = h
BY InvParts DEF State, Good, States

LEMMA NewGood ==
    ASSUME NEW known \in Known \ {"set"}
    PROVE  /\ NewInverter(known) \in Objects /\ NewInverter(known).inPower = None
           /\ ~NewInverter(known).busy
<1>1. 0 \in 0 .. RebootAfter /\ 0 \in 0 .. Backoff /\ 0 # RebootAfter
  BY InverterAssumption
<1> QED
  BY <1>1 DEF NewInverter, Objects, Fields

LEMMA NewLibraryTypes ==
    /\ NewLibrary \in Libraries /\ NewLibrary.queue = <<>>
BY DEF NewLibrary, Libraries, Statuses

LEMMA InitInv ==
    ASSUME Init
    PROVE  Inv
<1>1. PICK known \in Known \ {"set"} : u = NewInverter(known)
  BY DEF Init
<1>2. u \in Objects /\ u.inPower = None /\ u.busy = FALSE
  BY <1>1, NewGood DEF NewInverter
<1>3. h \in Libraries /\ Len(h.queue) <= MaxQueued
  BY NewLibraryTypes, InverterAssumption DEF Init
<1>4. mode = "governed" /\ producing \in BOOLEAN
  BY DEF Init
<1>5. TypeOK
  BY <1>2, <1>3, <1>4 DEF TypeOK, Objects, Fields, Libraries
<1> QED
  BY <1>2, <1>5 DEF Inv, Ours

(* What TypeOK asks of the next state.                                      *)
LEMMA InvNext ==
    ASSUME u' \in Objects, u'.busy = FALSE, h' \in Libraries, Len(h'.queue) <= MaxQueued,
           mode' \in {"governed", "reload", "retired", "gone"}, producing' \in BOOLEAN,
           Ours(u', h')
    PROVE  Inv'
BY DEF Inv, TypeOK, Objects, Fields, Libraries, Ours, Newest

(* update() and reloadConfig() keep what the update kept.                   *)
LEMMA UpdateToInv ==
    ASSUME Inv, NEW s \in Good, UpdateTo(s)
    PROVE  Inv'
<1> DEFINE retiree == [s.u EXCEPT !.power = FALSE]
<1>1. s.u \in Objects /\ s.h \in Libraries /\ Ours(s.u, s.h)
  BY Parts
<1>2. h' = s.h /\ Len(h'.queue) <= MaxQueued /\ producing' = producing
  BY DEF UpdateTo
<1>3. producing' \in BOOLEAN /\ mode' \in {"governed", "reload", "retired", "gone"}
  BY <1>2 DEF UpdateTo, Inv, TypeOK
<1>4. u' \in Objects /\ u'.busy = FALSE /\ (u'.inPower = None \/ u'.inPower = s.u.inPower)
  <2>1. CASE u' = Done(s).u
    BY <1>1, <2>1, BusyGood DEF Objects, Fields
  <2>2. CASE \E known \in Known \ {"set"} : u' = NewInverter(known)
    BY <2>2, NewGood DEF NewInverter
  <2>3. CASE u' = retiree /\ ~s.u.busy
    BY <1>1, <2>3 DEF Objects, Fields
  <2> QED
    BY <2>1, <2>2, <2>3 DEF UpdateTo
<1>5. Ours(u', h')
  BY <1>1, <1>2, <1>4 DEF Ours
<1> QED
  BY <1>1, <1>2, <1>3, <1>4, <1>5, InvNext

LEMMA UpdateInv ==
    ASSUME Inv, Update
    PROVE  Inv'
<1> USE StateGood
<1>1. CASE Wait
  BY <1>1, BusyGood, UpdateToInv DEF Wait
<1>2. CASE Skip
  BY <1>2, ResetGood, UpdateToInv DEF Skip, Good
<1>3. CASE GiveUp
  <2>1. UpdateTo(Fail(State)) /\ ~u.reboot
    BY <1>3 DEF GiveUp, UpdateTo
  <2> QED
    BY <2>1, FailGood, UpdateToInv
<1>4. CASE Proceed
  <2>1. PICK allow \in BOOLEAN, output \in {0, 1} : UpdateTo(Work(Cycle, allow, output))
    BY <1>4 DEF Proceed
  <2>2. ~u.reboot
    BY <2>1 DEF UpdateTo
  <2> DEFINE low    == [State EXCEPT !.u.limit = LowerLimit]
             target == IF u.known = "no" /\ u.limit = None THEN low ELSE State
  <2>3. low \in Good /\ low.u.reboot = u.reboot
    <3> DEFINE o == [u EXCEPT !.limit = LowerLimit]
    <3>1. u \in Objects /\ h \in Libraries /\ Ours(u, h) /\ State \in States
      BY Parts
    <3>2. o \in Objects /\ o.inPower = u.inPower /\ o.reboot = u.reboot
      BY <3>1 DEF Objects, Fields
    <3>3. low \in States
      BY <3>1, <3>2 DEF States
    <3>4. low.u = o /\ low.h = h
      BY <3>1 DEF States
    <3> QED
      BY <3>1, <3>2, <3>3, <3>4, Whole DEF Ours
  <2>4. Cycle \in {target, Start(target)}
    BY DEF Cycle
  <2> HIDE DEF low
  <2>5. target \in Good /\ ~target.u.reboot
    BY <2>2, <2>3
  <2> HIDE DEF target
  <2>6. Cycle \in Good /\ ~Cycle.u.reboot
    BY <2>4, <2>5, StartGood
  <2> HIDE DEF Cycle
  <2>7. Work(Cycle, allow, output) \in Good
    BY <2>6, WorkGood
  <2> QED
    BY <2>1, <2>7, UpdateToInv
<1> QED
  BY <1>1, <1>2, <1>3, <1>4 DEF Update

(* A target of the planner, and whatever else leaves commands alone.        *)
LEMMA OtherInv ==
    ASSUME Inv, u' \in Objects, u'.busy = FALSE, u'.inPower = u.inPower,
           h' \in Libraries, h'.queue = h.queue, h'.act = h.act,
           mode' \in {"governed", "reload", "retired", "gone"}, producing' \in BOOLEAN
    PROVE  Inv'
<1>1. Len(h'.queue) <= MaxQueued /\ Ours(u', h')
  BY DEF Inv, TypeOK, Ours, Newest
<1> QED
  BY <1>1, InvNext

LEMMA NextInv ==
    ASSUME Inv, [Next]_vars
    PROVE  Inv'
<1>1. /\ u \in Objects /\ h \in Libraries /\ u.busy = FALSE /\ producing \in BOOLEAN
      /\ mode \in {"governed", "reload", "retired", "gone"}
      /\ Len(h.queue) <= MaxQueued /\ Ours(u, h)
  BY InvParts
<1>2. CASE Update
  BY <1>2, UpdateInv
<1>3. CASE RequestReload
  BY <1>1, <1>3, OtherInv DEF RequestReload
<1>4. ASSUME NEW status \in {"OK", "NOK"}, AnswerLimit(status)
      PROVE  Inv'
  <2>1. u' \in Objects /\ u'.busy = FALSE /\ u'.inPower = u.inPower
    <3> DEFINE known == IF u.known = "no" /\ status = "OK" THEN "reported" ELSE u.known
    <3>1. u' = [u EXCEPT !.known = known]
      BY <1>1, <1>4 DEF AnswerLimit, Objects, Fields
    <3>2. known \in Known
      BY <1>1 DEF Objects, Fields, Known
    <3> HIDE DEF known
    <3> QED
      BY <1>1, <3>1, <3>2 DEF Objects, Fields
  <2>2. h' \in Libraries /\ h'.queue = h.queue /\ h'.act = h.act
    BY <1>1, <1>4 DEF AnswerLimit, Libraries, Statuses
  <2> QED
    BY <1>1, <1>4, <2>1, <2>2, OtherInv DEF AnswerLimit
<1>5. CASE AnswerPower
  <2> DEFINE act  == Head(h.queue)
             last == IF act = Restart THEN h.act ELSE act
  <2>1. PICK status \in {"OK", "NOK"} :
            /\ h' = [h EXCEPT !.queue = Tail(h.queue), !.act = last,
                              !.pow = status, !.powNew = u.started # None]
            /\ u' = u \/ u' = [u EXCEPT !.known = "no"]
    BY <1>1, <1>5 DEF AnswerPower, Libraries
  <2>2. /\ h.queue # <<>> /\ h.queue \in Seq(Acts)
        /\ UNCHANGED <<mode, producing>>
    BY <1>1, <1>5 DEF AnswerPower, Libraries
  <2>3. /\ act \in Acts /\ Tail(h.queue) \in Seq(Acts)
        /\ Len(h.queue) \in Nat \ {0} /\ Len(Tail(h.queue)) = Len(h.queue) - 1
    BY <2>2
  <2>4. last \in BOOLEAN \cup {None}
    BY <1>1, <2>3 DEF Acts, Libraries
  <2>5. u' \in Objects /\ u'.busy = FALSE /\ u'.inPower = u.inPower
    BY <1>1, <2>1 DEF Objects, Fields, Known
  <2> HIDE DEF last
  <2>6. h' \in Libraries /\ h'.queue = Tail(h.queue) /\ h'.act = last
    BY <1>1, <2>1, <2>3, <2>4 DEF Libraries, Statuses
  <2>7. Ours(u', h')
    <3>1. SUFFICES ASSUME u.inPower # None
                   PROVE  Newest(h', u.inPower)
      BY <2>5 DEF Ours
    <3>2. u.inPower \in BOOLEAN /\ Newest(h, u.inPower)
      BY <1>1, <3>1 DEF Ours, Objects, Fields
    <3>3. h'.act = IF Head(h.queue) = Restart THEN h.act ELSE Head(h.queue)
      BY <2>6 DEF last
    <3> QED
      BY <1>1, <2>2, <2>6, <3>2, <3>3, TailNewest
  <2>8. Len(h'.queue) <= MaxQueued
    BY <1>1, <2>3, <2>6, InverterAssumption
  <2> QED
    BY <1>1, <2>2, <2>5, <2>6, <2>7, <2>8, InvNext
<1>13. CASE ScheduledRestart
  <2>1. /\ h' = Queued(h, Restart) /\ Len(h'.queue) <= MaxQueued
        /\ UNCHANGED <<u, mode, producing>>
    BY <1>13 DEF ScheduledRestart
  <2>2. h' \in Libraries
    BY <1>1, <2>1, QueuedLibrary DEF Acts
  <2>3. Ours(u', h')
    BY <1>1, <2>1, RestartNewest DEF Ours, Objects, Fields
  <2> QED
    BY <1>1, <2>1, <2>2, <2>3, InvNext
<1>6. CASE Stats
  <2>1. u' \in Objects /\ u'.busy = FALSE /\ u'.inPower = u.inPower
    BY <1>1, <1>6 DEF Stats, Objects, Fields
  <2> QED
    BY <1>1, <1>6, <2>1, OtherInv DEF Stats
<1>7. CASE Tick
  <2> DEFINE started == IF u.started = None \/ u.started > Timeout
                        THEN u.started ELSE u.started + 1
             backoff == IF u.backoff = 0 THEN 0 ELSE u.backoff - 1
  <2>1. started \in (0 .. Timeout + 1) \cup {None}
    BY <1>1, InverterAssumption DEF Objects, Fields
  <2>2. backoff \in 0 .. Backoff
    BY <1>1, InverterAssumption DEF Objects, Fields
  <2>3. u' = [u EXCEPT !.started = started, !.backoff = backoff]
    BY <1>1, <1>7 DEF Tick, Objects, Fields
  <2> HIDE DEF started, backoff
  <2>4. u' \in Objects /\ u'.busy = FALSE /\ u'.inPower = u.inPower
    BY <1>1, <2>1, <2>2, <2>3 DEF Objects, Fields
  <2> QED
    BY <1>1, <1>7, <2>4, OtherInv DEF Tick
<1>8. CASE Reboot
  <2>1. u' \in Objects /\ u'.inPower = None /\ u'.busy = FALSE
    BY <1>8, NewGood DEF Reboot, NewInverter
  <2>2. h' \in Libraries /\ Len(h'.queue) <= MaxQueued
    BY <1>8, NewLibraryTypes, InverterAssumption DEF Reboot
  <2>3. mode' = "governed" /\ producing' \in BOOLEAN
    BY <1>1, <1>8 DEF Reboot
  <2>4. Ours(u', h')
    BY <2>1, InverterAssumption DEF Ours
  <2> QED
    BY <2>1, <2>2, <2>3, <2>4, InvNext
<1>9. ASSUME NEW l \in Limits, NEW b \in BOOLEAN, SetOutput(l, b) \/ SetMaxOutput(l, b)
      PROVE  Inv'
  <2>1. u' \in Objects /\ u'.busy = FALSE /\ u'.inPower = u.inPower
    <3> DEFINE force == IF SetOutput(l, b) THEN u.force \/ b ELSE u.force
               fast  == IF SetOutput(l, b) THEN u.parallel ELSE b
    <3>1. force \in BOOLEAN /\ fast \in BOOLEAN
      BY <1>1 DEF Objects, Fields
    <3>2. u' = [u EXCEPT !.power = TRUE, !.limit = l, !.known = "set",
                         !.force = force, !.parallel = fast]
      BY <1>1, <1>9 DEF SetOutput, SetMaxOutput, Target, Objects, Fields
    <3> HIDE DEF force, fast
    <3> QED
      BY <1>1, <3>1, <3>2 DEF Objects, Fields, Known
  <2> QED
    BY <1>1, <1>9, <2>1, OtherInv DEF SetOutput, SetMaxOutput, Target
<1>10. ASSUME NEW b \in BOOLEAN, Standby(b)
       PROVE  Inv'
  <2>1. u' \in Objects /\ u'.busy = FALSE /\ u'.inPower = u.inPower
    BY <1>1, <1>10 DEF Standby, Target, Objects, Fields, Known
  <2> QED
    BY <1>1, <1>10, <2>1, OtherInv DEF Standby, Target
<1>11. ASSUME NEW l \in Limits, RefreshLimit(l)
       PROVE  Inv'
  <2>1. u' \in Objects /\ u'.busy = FALSE /\ u'.inPower = u.inPower
    BY <1>1, <1>11 DEF RefreshLimit, Target, Objects, Fields, Known
  <2> QED
    BY <1>1, <1>11, <2>1, OtherInv DEF RefreshLimit, Target
<1>12. CASE UNCHANGED vars
  BY <1>1, <1>12, OtherInv DEF vars
<1> QED
  BY <1>2, <1>3, <1>4, <1>5, <1>6, <1>7, <1>8, <1>9, <1>10, <1>11, <1>12, <1>13 DEF Next

LEMMA InvAlways == Spec => []Inv
<1>1. Init => Inv
  BY InitInv
<1>2. Inv /\ [Next]_vars => Inv'
  BY NextInv
<1> QED
  BY <1>1, <1>2, PTL DEF Spec

(* Types, for any limits, times, thresholds and bound of the queue.         *)
THEOREM InverterTypeCorrect == Spec => []TypeOK
<1>1. Inv => TypeOK
  BY DEF Inv
<1> QED
  BY <1>1, InvAlways, PTL

-----------------------------------------------------------------------------
(***************************************************************************)
(* On is sent after the limit: what the parts of update() do to the power   *)
(* command in flight and to the targets.                                    *)
(***************************************************************************)
Same(r, s) ==
    r.u.limit = s.u.limit /\ r.u.inPower = s.u.inPower /\ r.u.power = s.u.power
Fewer(r, s) ==
    r.u.inPower \in {s.u.inPower, None} /\ r.u.power \in {s.u.power, None}

LEMMA BusyFields ==
    ASSUME NEW s \in Good
    PROVE  /\ Same(Busy(s), s) /\ Busy(s).u.busy = TRUE
           /\ Same(Done(s), s) /\ Done(s).u.busy = FALSE
           /\ Done(s).u.parallel = s.u.parallel /\ Done(s).u.assumed = s.u.assumed
<1>1. s.u \in Objects /\ s \in States
  BY Parts
<1>2. ASSUME NEW b \in BOOLEAN
      PROVE  LET o == [s.u EXCEPT !.busy = b]
             IN  /\ o.limit = s.u.limit /\ o.inPower = s.u.inPower
                 /\ o.power = s.u.power /\ o.busy = b
                 /\ o.parallel = s.u.parallel /\ o.assumed = s.u.assumed
  BY <1>1 DEF Objects, Fields
<1>3. Busy(s).u = [s.u EXCEPT !.busy = TRUE] /\ Done(s).u = [s.u EXCEPT !.busy = FALSE]
  BY <1>1 DEF Busy, Done, States
<1> QED
  BY <1>2, <1>3 DEF Same

LEMMA StartFields ==
    ASSUME NEW s \in Good
    PROVE  /\ Same(Start(s), s)
           /\ Start(s).u.parallel = s.u.parallel /\ Start(s).u.assumed = s.u.assumed
<1>1. s.u \in Objects /\ s \in States
  BY Parts
<1>2. Start(s).u = [s.u EXCEPT !.started = 0]
  BY <1>1 DEF Start, States
<1> QED
  BY <1>1, <1>2 DEF Objects, Fields, Same

LEMMA SucceedFields ==
    ASSUME NEW s \in Good, NEW output
    PROVE  Same(Succeed(s, output), s)
<1>1. s.u \in Objects /\ s \in States
  BY Parts
<1>2. Succeed(s, output).u = [s.u EXCEPT !.backoff = 0, !.assumed = output]
  BY <1>1 DEF Succeed, States
<1> QED
  BY <1>1, <1>2 DEF Objects, Fields, Same

(* No target and no command in flight is left.                              *)
Cleared(s) == s.u.inPower = None /\ s.u.limit = None /\ s.u.power = None

LEMMA ResetFields ==
    ASSUME NEW s \in States
    PROVE  Cleared(Reset(s))
<1> DEFINE o == [s.u EXCEPT !.power = None, !.limit = None, !.force = FALSE,
                     !.parallel = FALSE, !.started = None, !.inLimit = None,
                     !.inPower = None]
           r == [s EXCEPT !.h.limNew = FALSE, !.h.powNew = FALSE, !.u = o]
<1>1. s.u \in Objects /\ Reset(s) = Done(r)
  BY DEF Reset, States
<1>2. o \in Objects /\ o.limit = None /\ o.power = None /\ o.inPower = None
  BY <1>1 DEF Objects, Fields
<1> HIDE DEF o
<1>3. r.u = o
  BY DEF States
<1>4. Done(r).u = [r.u EXCEPT !.busy = FALSE]
  BY DEF Done, States
<1> HIDE DEF r
<1> QED
  BY <1>1, <1>2, <1>3, <1>4 DEF Objects, Fields, Cleared

LEMMA FailFields ==
    ASSUME NEW s \in Good, ~s.u.reboot
    PROVE  Cleared(Fail(s))
<1> DEFINE due     == (s.u.timeouts + 1 = RebootAfter)
           o       == [s.u EXCEPT !.timeouts = s.u.timeouts + 1, !.backoff = Backoff,
                                  !.reboot = due]
           counted == [s EXCEPT !.u.timeouts = s.u.timeouts + 1, !.u.backoff = Backoff,
                                !.u.reboot = due]
           more    == [counted EXCEPT !.h = Queued(counted.h, Restart)]
<1>1. s.u \in Objects /\ s \in States /\ Restart \in Acts
  BY Parts DEF Acts
<1>3. o \in Objects
  BY <1>1, CountedObject
<1>4. counted \in States
  BY <1>1, <1>3 DEF States
<1>5. Queued(counted.h, Restart) \in Libraries
  BY <1>1, <1>4, QueuedLibrary DEF States
<1>6. more \in States
  BY <1>4, <1>5 DEF States
<1>7. Fail(s) = Reset(counted) \/ Fail(s) = Reset(more)
  BY DEF Fail
<1> HIDE DEF counted, more
<1> QED
  BY <1>4, <1>6, <1>7, ResetFields

LEMMA PowerAnsweredFields ==
    ASSUME NEW s \in Good
    PROVE  PowerAnswered(s).u.limit = s.u.limit /\ Fewer(PowerAnswered(s), s)
<1> DEFINE o    == [s.u EXCEPT !.inPower = None]
           read == [s EXCEPT !.u.inPower = None]
           won  == Succeed(read, IF s.u.inPower THEN 1 ELSE 0)
           done == [won EXCEPT !.u.power = None]
<1>1. s.u \in Objects /\ s.h \in Libraries /\ s \in States
  BY Parts
<1>2. /\ o \in Objects /\ o.inPower = None /\ o.limit = s.u.limit
      /\ o.power = s.u.power
  BY <1>1 DEF Objects, Fields
<1>3. read \in States
  BY <1>1, <1>2 DEF States
<1>4. read.u = o
  BY <1>1 DEF States
<1>5. /\ read \in Good /\ read.u.limit = s.u.limit /\ read.u.inPower = None
      /\ read.u.power = s.u.power
  BY <1>2, <1>3, <1>4, Whole DEF Ours
<1>6. PowerAnswered(s) \in {s, read, done, Start(won)}
  BY DEF PowerAnswered
<1> HIDE DEF read
<1>7. /\ won \in Good /\ won.u.limit = s.u.limit /\ won.u.inPower = None
      /\ won.u.power = s.u.power
  BY <1>5, SucceedGood, SucceedFields DEF Same
<1> HIDE DEF won
<1>8. done.u.limit = s.u.limit /\ done.u.inPower = None /\ done.u.power = None
  <2>1. won.u \in Objects /\ won \in States
    BY <1>7, Parts
  <2>2. done.u = [won.u EXCEPT !.power = None]
    BY <2>1 DEF States
  <2> QED
    BY <1>7, <2>1, <2>2 DEF Objects, Fields
<1> HIDE DEF done
<1> QED
  BY <1>5, <1>6, <1>7, <1>8, StartFields DEF Fewer, Same

LEMMA SwitchPowerFields ==
    ASSUME NEW s \in Good, NEW on \in BOOLEAN, NEW allow \in BOOLEAN
    PROVE  /\ SwitchPower(s, on, allow).u.limit = s.u.limit
           /\ SwitchPower(s, on, allow).u.inPower \in {s.u.inPower, None, on}
           /\ SwitchPower(s, on, allow).u.power \in {s.u.power, None}
           /\ s.u.power # on => SwitchPower(s, on, allow) = Done(s)
<1> DEFINE w    == SwitchPower(s, on, allow)
           r    == PowerAnswered(s)
           none == [r EXCEPT !.u.power = None]
           lib  == Queued(r.h, on)
           sent == [r EXCEPT !.u.inPower = on, !.h = lib]
<1>1. r \in Good /\ r.u.limit = s.u.limit /\ Fewer(r, s)
  BY PowerAnsweredGood, PowerAnsweredFields
<1>2. w \in {Done(s), Busy(s), Done(r), Done(none), Busy(r), Busy(sent)}
  BY DEF SwitchPower
<1>3. s.u.power # on => w = Done(s)
  BY DEF SwitchPower
<1> HIDE DEF r, w
<1>4. r.u \in Objects /\ r \in States
  BY <1>1, Parts
<1>5. none \in Good /\ sent \in Good
  BY <1>1, NoPowerGood, SendPowerGood
<1> HIDE DEF lib
<1>6. none.u = [r.u EXCEPT !.power = None] /\ sent.u = [r.u EXCEPT !.inPower = on]
  BY <1>4 DEF States
<1>7. /\ none.u.limit = r.u.limit /\ none.u.inPower = r.u.inPower /\ none.u.power = None
      /\ sent.u.limit = r.u.limit /\ sent.u.inPower = on /\ sent.u.power = r.u.power
  BY <1>4, <1>6 DEF Objects, Fields
<1> HIDE DEF none, sent
<1>8. /\ Same(Done(s), s) /\ Same(Busy(s), s) /\ Same(Done(r), r) /\ Same(Busy(r), r)
      /\ Same(Done(none), none) /\ Same(Busy(sent), sent)
  BY <1>1, <1>5, BusyFields
<1>9. /\ w.u.limit = s.u.limit
      /\ w.u.inPower \in {s.u.inPower, None, on} /\ w.u.power \in {s.u.power, None}
  BY <1>1, <1>2, <1>7, <1>8 DEF Same, Fewer
<1> QED
  BY <1>3, <1>9 DEF w

(* It ends without a limit to set, or it is busy.                           *)
LEMMA UpdateLimitFields ==
    ASSUME NEW s \in Good, NEW allow \in BOOLEAN, NEW output \in {0, 1},
           ~s.u.reboot
    PROVE  /\ Fewer(UpdateLimit(s, allow, output), s)
           /\ \/ UpdateLimit(s, allow, output).u.busy = TRUE
              \/ UpdateLimit(s, allow, output).u.limit = None
<1> DEFINE w     == UpdateLimit(s, allow, output)
           limit == IF s.u.limit = s.u.inLimit THEN None ELSE s.u.limit
           o     == [s.u EXCEPT !.inLimit = None, !.limit = limit]
           read  == [s EXCEPT !.u.inLimit = None,
                         !.u.limit = IF @ = s.u.inLimit THEN None ELSE @]
           r     == LimitAnswered(s, output)
           sent  == [r EXCEPT !.u.inLimit = r.u.limit, !.h.lim = "PENDING", !.h.limNew = FALSE]
<1>1. s.u \in Objects /\ s.h \in Libraries /\ Ours(s.u, s.h) /\ s \in States
  BY Parts
<1>2. limit \in Limits \cup {LowerLimit, None}
  BY <1>1 DEF Objects, Fields
<1> HIDE DEF limit
<1>3. /\ o \in Objects /\ o.inPower = s.u.inPower /\ o.power = s.u.power
      /\ o.reboot = s.u.reboot
  BY <1>1, <1>2 DEF Objects, Fields
<1>4. read = [s EXCEPT !.u.inLimit = None, !.u.limit = limit]
  BY <1>1 DEF limit, States, Objects, Fields
<1>5. [s EXCEPT !.u.inLimit = None, !.u.limit = limit] \in States
  BY <1>1, <1>3 DEF States
<1>6. /\ [s EXCEPT !.u.inLimit = None, !.u.limit = limit].u = o
      /\ [s EXCEPT !.u.inLimit = None, !.u.limit = limit].h = s.h
  BY <1>1 DEF States
<1>7. r \in {s, Fail(read), Succeed(read, output), Start(Succeed(read, output))}
  BY DEF LimitAnswered
<1>8. \/ w \in {Busy(s), Busy(r), Busy(sent)}
      \/ w = Done(s) /\ s.u.limit = None
      \/ w = Done(r) /\ r.u.limit = None
  BY DEF UpdateLimit
<1> HIDE DEF read, w
<1>9. /\ read \in Good /\ read.u.inPower = s.u.inPower /\ read.u.power = s.u.power
      /\ ~read.u.reboot
  BY <1>1, <1>3, <1>4, <1>5, <1>6, Whole DEF Ours
<1>10. r \in Good
  BY LimitAnsweredGood
<1> HIDE DEF r
<1>11. Fewer(r, s)
  BY <1>7, <1>9, FailFields, SucceedGood, SucceedFields, StartFields
     DEF Fewer, Same, Cleared
<1>12. sent \in Good /\ sent.u.inPower = r.u.inPower /\ sent.u.power = r.u.power
  <2> DEFINE p == [r.u EXCEPT !.inLimit = r.u.limit]
             l == [r.h EXCEPT !.lim = "PENDING", !.limNew = FALSE]
  <2>1. r.u \in Objects /\ r.h \in Libraries /\ Ours(r.u, r.h) /\ r \in States
    BY <1>10, Parts
  <2>2. p \in Objects /\ p.inPower = r.u.inPower /\ p.power = r.u.power
    BY <2>1 DEF Objects, Fields
  <2>3. l \in Libraries /\ l.queue = r.h.queue /\ l.act = r.h.act
    BY <2>1 DEF Libraries, Statuses
  <2>4. sent \in States
    BY <2>1, <2>2, <2>3 DEF States
  <2>5. sent.u = p /\ sent.h = l
    BY <2>1 DEF States
  <2>6. Ours(p, l)
    BY <2>1, <2>2, <2>3 DEF Ours, Newest
  <2> QED
    BY <2>2, <2>4, <2>5, <2>6, Whole
<1> HIDE DEF sent
<1>13. /\ Same(Done(s), s) /\ Same(Busy(s), s) /\ Same(Done(r), r) /\ Same(Busy(r), r)
       /\ Same(Busy(sent), sent)
       /\ Busy(s).u.busy = TRUE /\ Busy(r).u.busy = TRUE /\ Busy(sent).u.busy = TRUE
  BY <1>10, <1>12, BusyFields
<1>14. Fewer(w, s) /\ (w.u.busy = TRUE \/ w.u.limit = None)
  BY <1>8, <1>11, <1>12, <1>13 DEF Same, Fewer
<1> QED
  BY <1>14 DEF w

LEMMA WorkSendsOn ==
    ASSUME NEW s \in Good, NEW allow \in BOOLEAN, NEW output \in {0, 1},
           ~s.u.reboot, s.u.inPower # TRUE,
           Work(s, allow, output).u.inPower = TRUE
    PROVE  \/ Work(s, allow, output).u.limit = None
           \/ s.u.parallel \/ s.u.assumed = 0
<1> DEFINE w     == Work(s, allow, output)
           off   == SwitchPower(s, FALSE, allow)
           limit == UpdateLimit(off, allow, output)
           on    == SwitchPower(limit, TRUE, allow)
           both  == off.u.assumed = 0 \/ off.u.parallel
<1>1. None # TRUE
  BY InverterAssumption
<1>2. /\ off \in Good /\ ~off.u.reboot
      /\ off.u.inPower # TRUE /\ off.u.power \in {s.u.power, None}
      /\ s.u.power # FALSE => off = Done(s)
  BY <1>1, SwitchPowerGood, SwitchPowerFields
<1>3. w \in {off, limit, Finish(on), Busy(on)}
      /\ (w = Busy(on) /\ w # off /\ w # limit /\ w # Finish(on) /\ limit.u.busy => both)
  BY DEF Work, AssumedStandby
<1> HIDE DEF off, w
<1>4. /\ limit \in Good /\ limit.u.inPower # TRUE
      /\ limit.u.power \in {off.u.power, None}
      /\ limit.u.busy = TRUE \/ limit.u.limit = None
  BY <1>1, <1>2, UpdateLimitGood, UpdateLimitFields DEF Fewer
<1> HIDE DEF limit
<1>5. /\ on \in Good /\ on.u.limit = limit.u.limit
      /\ limit.u.power # TRUE => on = Done(limit)
  BY <1>4, SwitchPowerGood, SwitchPowerFields
<1> HIDE DEF on
<1>6. Finish(on).u.inPower = None
  <2> DEFINE r == Reset(on)
  <2>1. r \in States /\ r.u \in Objects /\ r.u.inPower = None
    BY <1>5, ResetGood, Parts DEF Good
  <2>2. Finish(on) = [r EXCEPT !.u.timeouts = 0]
    BY DEF Finish
  <2> HIDE DEF r
  <2>3. Finish(on).u = [r.u EXCEPT !.timeouts = 0]
    BY <2>1, <2>2 DEF States
  <2> QED
    BY <2>1, <2>3 DEF Objects, Fields
<1>7. w = Busy(on) /\ w # off /\ w # limit /\ w # Finish(on)
  BY <1>1, <1>2, <1>3, <1>4, <1>6 DEF w
<1>8. w.u.limit = on.u.limit /\ on.u.inPower = TRUE
  BY <1>5, <1>7, BusyFields DEF Same, w
<1>9. limit.u.power = TRUE
  BY <1>4, <1>5, <1>8, BusyFields DEF Same
<1>10. s.u.power = TRUE
  BY <1>1, <1>2, <1>4, <1>9
<1>11. off.u.parallel = s.u.parallel /\ off.u.assumed = s.u.assumed
  BY <1>2, <1>10, BusyFields
<1>12. CASE limit.u.limit = None
  BY <1>5, <1>8, <1>12 DEF w
<1>13. CASE limit.u.busy = TRUE
  BY <1>3, <1>7, <1>11, <1>13
<1> QED
  BY <1>4, <1>12, <1>13

(* What update() works on has the targets and the commands of the object.   *)
LEMMA CycleFields ==
    ASSUME Inv, ~u.reboot
    PROVE  /\ Cycle \in Good /\ ~Cycle.u.reboot
           /\ Cycle.u.inPower = u.inPower /\ Cycle.u.power = u.power
           /\ Cycle.u.parallel = u.parallel /\ Cycle.u.assumed = u.assumed
           /\ Cycle.h.pow = h.pow /\ Cycle.h.act = h.act /\ Cycle.h.queue = h.queue
<1> DEFINE low    == [State EXCEPT !.u.limit = LowerLimit]
           o      == [u EXCEPT !.limit = LowerLimit]
           target == IF u.known = "no" /\ u.limit = None THEN low ELSE State
<1>1. u \in Objects /\ h \in Libraries /\ Ours(u, h) /\ State \in States
      /\ State \in Good /\ State.u = u /\ State.h = h
  BY StateGood, Parts
<1>2. /\ o \in Objects /\ o.inPower = u.inPower /\ o.reboot = u.reboot
      /\ o.power = u.power /\ o.parallel = u.parallel /\ o.assumed = u.assumed
  BY <1>1 DEF Objects, Fields
<1>3. low \in States
  BY <1>1, <1>2 DEF States
<1>4. low.u = o /\ low.h = h
  BY <1>1 DEF States
<1>5. low \in Good
  BY <1>1, <1>2, <1>3, <1>4, Whole DEF Ours
<1>6. Cycle \in {target, Start(target)}
  BY DEF Cycle
<1> HIDE DEF low
<1>7. /\ target \in Good /\ ~target.u.reboot
      /\ target.u.inPower = u.inPower /\ target.u.power = u.power
      /\ target.u.parallel = u.parallel /\ target.u.assumed = u.assumed
      /\ target.h = h
  BY <1>1, <1>2, <1>4, <1>5
<1> HIDE DEF target
<1>8. Start(target).h = [h EXCEPT !.limNew = FALSE, !.powNew = FALSE]
  <2>1. target \in States
    BY <1>7, Parts
  <2> QED
    BY <1>7, <2>1 DEF Start, States
<1>9. Start(target).h.pow = h.pow /\ Start(target).h.act = h.act
      /\ Start(target).h.queue = h.queue
  BY <1>1, <1>8 DEF Libraries
<1> QED
  BY <1>6, <1>7, <1>9, StartGood, StartFields DEF Same

(* A stop that update() is done with: the inverter does not produce, or     *)
(* the stop is the newest command.                                          *)
Stopped(s) == ~producing \/ Newest(s.h, FALSE)

LEMMA AnsweredStop ==
    ASSUME NEW s \in Good, s.u.power = FALSE
    PROVE  PowerAnswered(s).u.power = FALSE
           \/ (PowerAnswered(s).u.power = None /\ Stopped(s))
<1> DEFINE o    == [s.u EXCEPT !.inPower = None]
           read == [s EXCEPT !.u.inPower = None]
           won  == Succeed(read, IF s.u.inPower THEN 1 ELSE 0)
           done == [won EXCEPT !.u.power = None]
<1>1. s.u \in Objects /\ s.h \in Libraries /\ Ours(s.u, s.h) /\ s \in States
  BY Parts
<1>2. o \in Objects /\ o.inPower = None /\ o.power = FALSE
  BY <1>1 DEF Objects, Fields
<1>3. read \in States /\ read.u = o
  BY <1>1, <1>2 DEF States
<1>4. read \in Good /\ read.u.power = FALSE
  BY <1>2, <1>3, Whole DEF Ours
<1>5. \/ PowerAnswered(s) \in {s, read, Start(won)}
      \/ /\ PowerAnswered(s) = done /\ s.u.inPower # None
         /\ s.h.pow = "OK" /\ s.u.power = s.u.inPower
  BY DEF PowerAnswered
<1> HIDE DEF read
<1>6. won \in Good /\ won.u.power = FALSE
  BY <1>4, SucceedGood, SucceedFields DEF Same
<1> HIDE DEF won
<1>7. Start(won).u.power = FALSE
  BY <1>6, StartFields DEF Same
<1>8. done.u.power = None
  <2>1. won.u \in Objects /\ won \in States
    BY <1>6, Parts
  <2>2. done.u = [won.u EXCEPT !.power = None]
    BY <2>1 DEF States
  <2> QED
    BY <2>1, <2>2 DEF Objects, Fields
<1> HIDE DEF done
<1>9. ASSUME s.u.inPower # None, s.h.pow = "OK", s.u.power = s.u.inPower
      PROVE  Stopped(s)
  BY <1>1, <1>9 DEF Ours, Stopped
<1> QED
  BY <1>4, <1>5, <1>7, <1>8, <1>9

LEMMA SwitchedOff ==
    ASSUME NEW s \in Good, NEW allow \in BOOLEAN, s.u.power = FALSE
    PROVE  \/ Stopped(s)
           \/ /\ SwitchPower(s, FALSE, allow).u.busy = TRUE
              /\ SwitchPower(s, FALSE, allow).u.power = FALSE
<1> DEFINE w    == SwitchPower(s, FALSE, allow)
           r    == PowerAnswered(s)
           lib  == Queued(r.h, FALSE)
           sent == [r EXCEPT !.u.inPower = FALSE, !.h = lib]
<1> SUFFICES ASSUME ~Stopped(s)
             PROVE  w.u.busy = TRUE /\ w.u.power = FALSE
  OBVIOUS
<1>1. r \in Good /\ r.u.power = FALSE
  BY PowerAnsweredGood, AnsweredStop
<1>2. r.u.power # None
  BY <1>1, InverterAssumption
<1>3. producing # FALSE
  BY DEF Stopped
<1>4. w \in {Busy(s), Busy(r), Busy(sent)}
  BY <1>2, <1>3 DEF SwitchPower, ShouldSend
<1> HIDE DEF r, w
<1>5. r.u \in Objects /\ r \in States
  BY <1>1, Parts
<1>6. sent \in Good
  BY <1>1, SendPowerGood
<1> HIDE DEF lib
<1>7. sent.u = [r.u EXCEPT !.inPower = FALSE]
  BY <1>5 DEF States
<1>8. sent.u.power = FALSE
  BY <1>1, <1>5, <1>7 DEF Objects, Fields
<1> HIDE DEF sent
<1>9. w.u.busy = TRUE /\ w.u.power = FALSE
  <2>1. ASSUME NEW x \in Good, x.u.power = FALSE
        PROVE  Busy(x).u.busy = TRUE /\ Busy(x).u.power = FALSE
    BY <2>1, BusyFields DEF Same
  <2>2. Busy(s).u.busy = TRUE /\ Busy(s).u.power = FALSE
    BY <2>1
  <2>3. Busy(r).u.busy = TRUE /\ Busy(r).u.power = FALSE
    BY <1>1, <2>1
  <2>4. Busy(sent).u.busy = TRUE /\ Busy(sent).u.power = FALSE
    BY <1>6, <1>8, <2>1
  <2> QED
    BY <1>4, <2>2, <2>3, <2>4
<1> QED
  BY <1>9 DEF w

LEMMA WorkStops ==
    ASSUME NEW s \in Good, NEW allow \in BOOLEAN, NEW output \in {0, 1}, s.u.power = FALSE
    PROVE  \/ Stopped(s)
           \/ Work(s, allow, output).u.busy = TRUE /\ Work(s, allow, output).u.power = FALSE
<1> SUFFICES ASSUME ~Stopped(s)
             PROVE  /\ Work(s, allow, output).u.busy = TRUE
                    /\ Work(s, allow, output).u.power = FALSE
  OBVIOUS
<1> DEFINE off == SwitchPower(s, FALSE, allow)
<1>1. off.u.busy = TRUE /\ off.u.power = FALSE
  BY SwitchedOff
<1>2. off.u.busy => Work(s, allow, output) = off
  BY DEF Work
<1> QED
  BY <1>1, <1>2

(* What a step of update() leaves of what it computed.                      *)
LEMMA UpdateToFields ==
    ASSUME NEW s \in Good, UpdateTo(s)
    PROVE  /\ ~u.reboot
           /\ \/ u'.inPower = s.u.inPower /\ u'.limit = s.u.limit
              \/ u'.inPower = None
           /\ s.u.busy = TRUE => u'.power = s.u.power
<1>1. s.u \in Objects
  BY Parts
<1>2. ~u.reboot
  BY DEF UpdateTo
<1>3. CASE u' = Done(s).u
  BY <1>2, <1>3, BusyFields DEF Same
<1>4. CASE \E known \in Known \ {"set"} : u' = NewInverter(known) /\ ~s.u.busy
  BY <1>2, <1>4 DEF NewInverter
<1>5. CASE u' = [s.u EXCEPT !.power = FALSE] /\ ~s.u.busy
  BY <1>1, <1>2, <1>5 DEF Objects, Fields
<1> QED
  BY <1>3, <1>4, <1>5 DEF UpdateTo

(* Whatever is not a call of update() leaves the command in flight alone,   *)
(* and drops no stop, but for the reboot.                                   *)
LEMMA OtherFields ==
    ASSUME Inv, [Next]_vars, ~Update, ~Reboot
    PROVE  u'.inPower = u.inPower /\ (u.power = FALSE => u'.power # None)
<1>0. u \in Objects /\ None \notin BOOLEAN
  BY InvParts, InverterAssumption
<1>1. CASE RequestReload
  BY <1>0, <1>1 DEF RequestReload
<1>2. ASSUME NEW status, AnswerLimit(status)
      PROVE  u'.inPower = u.inPower /\ (u.power = FALSE => u'.power # None)
  BY <1>0, <1>2 DEF AnswerLimit, Objects, Fields
<1>3. CASE AnswerPower
  BY <1>0, <1>3 DEF AnswerPower, Objects, Fields
<1>4. CASE Stats
  BY <1>0, <1>4 DEF Stats, Objects, Fields
<1>5. CASE Tick
  BY <1>0, <1>5 DEF Tick, Objects, Fields
<1>6. ASSUME NEW l, NEW b \in BOOLEAN, SetOutput(l, b) \/ SetMaxOutput(l, b)
      PROVE  u'.inPower = u.inPower /\ (u.power = FALSE => u'.power # None)
  BY <1>0, <1>6 DEF SetOutput, SetMaxOutput, Target, Objects, Fields
<1>7. ASSUME NEW b \in BOOLEAN, Standby(b)
      PROVE  u'.inPower = u.inPower /\ (u.power = FALSE => u'.power # None)
  BY <1>0, <1>7 DEF Standby, Target, Objects, Fields
<1>8. ASSUME NEW l, RefreshLimit(l)
      PROVE  u'.inPower = u.inPower /\ (u.power = FALSE => u'.power # None)
  BY <1>0, <1>8 DEF RefreshLimit, Target, Objects, Fields
<1>9. CASE ScheduledRestart
  BY <1>0, <1>9 DEF ScheduledRestart
<1>10. CASE UNCHANGED vars
  BY <1>0, <1>10 DEF vars
<1> QED
  BY <1>1, <1>2, <1>3, <1>4, <1>5, <1>6, <1>7, <1>8, <1>9, <1>10 DEF Next

SendsOn == u.inPower # TRUE /\ u'.inPower = TRUE
Allowed == u'.limit = None \/ u.parallel \/ u.assumed = 0

LEMMA SendsOnAllowed ==
    ASSUME Inv, [Next]_vars, SendsOn
    PROVE  Allowed
<1>1. None # TRUE /\ State \in Good /\ State.u = u
  BY StateGood, InverterAssumption
<1>2. CASE Wait
  <2>1. Busy(State) \in Good /\ Busy(State).u.inPower = u.inPower
    BY <1>1, BusyGood, BusyFields DEF Same
  <2> QED
    BY <1>1, <1>2, <2>1, UpdateToFields DEF Wait, SendsOn
<1>3. CASE Skip
  <2>1. Reset(State) \in Good /\ Reset(State).u.inPower = None
    BY <1>1, ResetGood, Parts
  <2> QED
    BY <1>1, <1>3, <2>1, UpdateToFields DEF Skip, SendsOn
<1>4. CASE GiveUp
  <2>1. ~u.reboot /\ UpdateTo(Fail(State))
    BY <1>4 DEF GiveUp, UpdateTo
  <2>2. Fail(State) \in Good /\ Fail(State).u.inPower = None
    BY <1>1, <2>1, FailGood, FailFields DEF Cleared
  <2> QED
    BY <1>1, <2>1, <2>2, UpdateToFields DEF SendsOn
<1>5. CASE Proceed
  <2>1. PICK allow \in BOOLEAN, output \in {0, 1} : UpdateTo(Work(Cycle, allow, output))
    BY <1>5 DEF Proceed
  <2> DEFINE w == Work(Cycle, allow, output)
  <2>2. ~u.reboot
    BY <2>1 DEF UpdateTo
  <2>3. /\ Cycle \in Good /\ ~Cycle.u.reboot
        /\ Cycle.u.inPower # TRUE
        /\ Cycle.u.parallel = u.parallel /\ Cycle.u.assumed = u.assumed
    BY <2>2, CycleFields DEF SendsOn
  <2> HIDE DEF Cycle
  <2>4. w \in Good /\ (w.u.inPower = TRUE => w.u.limit = None \/ u.parallel \/ u.assumed = 0)
    BY <2>3, WorkGood, WorkSendsOn
  <2> HIDE DEF w
  <2>5. UpdateTo(w)
    BY <2>1 DEF w
  <2>6. w.u.inPower = TRUE /\ u'.limit = w.u.limit
    BY <1>1, <2>4, <2>5, UpdateToFields DEF SendsOn
  <2> QED
    BY <2>4, <2>6 DEF Allowed
<1>6. CASE Reboot
  BY <1>1, <1>6 DEF Reboot, NewInverter, SendsOn
<1>7. CASE ~Update /\ ~Reboot
  BY <1>7, OtherFields DEF SendsOn
<1> QED
  BY <1>2, <1>3, <1>4, <1>5, <1>6, <1>7 DEF Update

Forgets == u.power = FALSE /\ u'.power = None
Excused == ~producing \/ Newest(h, FALSE) \/ Skip \/ GiveUp \/ Reboot

LEMMA ForgetsExcused ==
    ASSUME Inv, [Next]_vars, Forgets
    PROVE  Excused
<1>1. None \notin BOOLEAN /\ State \in Good /\ State.u = u
  BY StateGood, InverterAssumption
<1>2. ~Wait
  BY <1>1 DEF Wait, Waits, Forgets
<1>3. CASE Proceed
  <2>1. PICK allow \in BOOLEAN, output \in {0, 1} : UpdateTo(Work(Cycle, allow, output))
    BY <1>3 DEF Proceed
  <2> DEFINE w == Work(Cycle, allow, output)
  <2>2. ~u.reboot
    BY <2>1 DEF UpdateTo
  <2>3. /\ Cycle \in Good /\ ~Cycle.u.reboot /\ Cycle.u.power = FALSE
        /\ Cycle.h.pow = h.pow /\ Cycle.h.act = h.act /\ Cycle.h.queue = h.queue
    BY <2>2, CycleFields DEF Forgets
  <2> HIDE DEF Cycle
  <2>4. w \in Good /\ (Stopped(Cycle) \/ (w.u.busy = TRUE /\ w.u.power = FALSE))
    BY <2>3, WorkGood, WorkStops
  <2> HIDE DEF w
  <2>5. UpdateTo(w)
    BY <2>1 DEF w
  <2>6. Stopped(Cycle)
    BY <1>1, <2>4, <2>5, UpdateToFields DEF Forgets
  <2> QED
    BY <2>3, <2>6 DEF Stopped, Excused, Newest
<1>4. CASE ~Update /\ ~Reboot
  BY <1>4, OtherFields DEF Forgets
<1> QED
  BY <1>2, <1>3, <1>4 DEF Update, Excused

(* Power production is enabled only after the desired limit was set, but    *)
(* for the startups that send both at once.                                 *)
THEOREM LimitBeforeOnCorrect == Spec => LimitBeforeOn
<1>1. Inv /\ [Next]_vars => [SendsOn => Allowed]_vars
  BY SendsOnAllowed
<1>2. [][SendsOn => Allowed]_vars => LimitBeforeOn
  BY PTL DEF LimitBeforeOn, SendsOn, Allowed
<1> QED
  BY <1>1, <1>2, InvAlways, PTL DEF Spec

(* A stop is not forgotten before it was delivered, but for the excuses     *)
(* StopKept names.                                                          *)
THEOREM StopKeptCorrect == Spec => StopKept
<1>1. Inv /\ [Next]_vars => [Forgets => Excused]_vars
  BY ForgetsExcused
<1>2. [][Forgets => Excused]_vars => StopKept
  BY PTL DEF StopKept, Forgets, Excused
<1> QED
  BY <1>1, <1>2, InvAlways, PTL DEF Spec
-----------------------------------------------------------------------------
(***************************************************************************)
(* The answer to a limit command is booked.                                 *)
(***************************************************************************)
Fresh(s)  == s.u.inLimit # None /\ s.h.lim = "OK" /\ s.h.limNew
Booked(s) == s.u.assumed # None /\ s.u.backoff = 0
Sure(s)   == Fresh(s) \/ (Booked(s) /\ ~s.h.limNew)

(* An answer is new in a cycle only; a limit in flight is still a target;   *)
(* none is when the system is about to restart.                             *)
Timed(s) ==
    /\ s.h.limNew => s.u.started # None
    /\ s.u.inLimit # None => s.u.limit # None
    /\ s.u.reboot => s.u.inLimit = None

Alike(r, s) ==
    /\ r.u.limit = s.u.limit /\ r.u.inLimit = s.u.inLimit /\ r.u.started = s.u.started
    /\ r.u.assumed = s.u.assumed /\ r.u.backoff = s.u.backoff
    /\ r.u.reboot = s.u.reboot
    /\ r.h.lim = s.h.lim /\ r.h.limNew = s.h.limNew

(* What is true of s is true of r.                                          *)
Books(r, s) ==
    /\ Timed(s) => Timed(r)
    /\ Sure(s) => Sure(r)
    /\ Booked(s) => Booked(r)

LEMMA AlikeBooks ==
    ASSUME NEW r, NEW s, Alike(r, s)
    PROVE  Books(r, s)
BY DEF Alike, Books, Timed, Sure, Fresh, Booked

LEMMA BooksTwice ==
    ASSUME NEW q, NEW r, NEW s, Books(q, r), Books(r, s)
    PROVE  Books(q, s)
BY DEF Books

LEMMA BusyAlike ==
    ASSUME NEW s \in Good
    PROVE  Alike(Busy(s), s) /\ Alike(Done(s), s)
<1>1. s.u \in Objects /\ s \in States
  BY Parts
<1>2. ASSUME NEW b \in BOOLEAN
      PROVE  LET o == [s.u EXCEPT !.busy = b]
             IN  /\ o.limit = s.u.limit /\ o.inLimit = s.u.inLimit
                 /\ o.started = s.u.started /\ o.assumed = s.u.assumed
                 /\ o.backoff = s.u.backoff /\ o.reboot = s.u.reboot
  BY <1>1 DEF Objects, Fields
<1>3. /\ Busy(s).u = [s.u EXCEPT !.busy = TRUE] /\ Busy(s).h = s.h
      /\ Done(s).u = [s.u EXCEPT !.busy = FALSE] /\ Done(s).h = s.h
  BY <1>1 DEF Busy, Done, States
<1> QED
  BY <1>2, <1>3 DEF Alike

LEMMA NoPowerAlike ==
    ASSUME NEW s \in Good
    PROVE  Alike([s EXCEPT !.u.power = None], s)
<1> DEFINE r == [s EXCEPT !.u.power = None]
<1>1. s.u \in Objects /\ s \in States
  BY Parts
<1>2. r.u = [s.u EXCEPT !.power = None] /\ r.h = s.h
  BY <1>1 DEF States
<1> HIDE DEF r
<1>3. Alike(r, s)
  BY <1>1, <1>2 DEF Objects, Fields, Alike
<1> QED
  BY <1>3 DEF r

LEMMA SendPowerAlike ==
    ASSUME NEW s \in Good, NEW on \in BOOLEAN
    PROVE  Alike([s EXCEPT !.u.inPower = on, !.h = Queued(s.h, on)], s)
<1> DEFINE lib == Queued(s.h, on)
           r   == [s EXCEPT !.u.inPower = on, !.h = lib]
<1>1. s.u \in Objects /\ s.h \in Libraries /\ s \in States
  BY Parts
<1>2. lib.lim = s.h.lim /\ lib.limNew = s.h.limNew
  BY <1>1 DEF Queued, Libraries
<1> HIDE DEF lib
<1>3. r.u = [s.u EXCEPT !.inPower = on] /\ r.h = lib
  BY <1>1 DEF States
<1> HIDE DEF r
<1>4. Alike(r, s)
  BY <1>1, <1>2, <1>3 DEF Objects, Fields, Alike
<1> QED
  BY <1>4 DEF r, lib

(* A new cycle makes an answer old: whoever starts it has to have booked.   *)
LEMMA StartBooks ==
    ASSUME NEW s \in Good
    PROVE  /\ Timed(s) => Timed(Start(s))
           /\ Booked(s) => Sure(Start(s)) /\ Booked(Start(s))
<1> DEFINE r == Start(s)
<1>1. s.u \in Objects /\ s.h \in Libraries /\ s \in States
  BY Parts
<1>2. r.u = [s.u EXCEPT !.started = 0]
  BY <1>1 DEF Start, States
<1>3. r.h = [s.h EXCEPT !.limNew = FALSE, !.powNew = FALSE]
  BY <1>1 DEF Start, States
<1> HIDE DEF r
<1>4. /\ r.u.limit = s.u.limit /\ r.u.inLimit = s.u.inLimit /\ r.u.assumed = s.u.assumed
      /\ r.u.backoff = s.u.backoff /\ r.u.reboot = s.u.reboot
  BY <1>1, <1>2 DEF Objects, Fields
<1>5. r.h.limNew = FALSE
  BY <1>1, <1>3 DEF Libraries
<1>6. (Timed(s) => Timed(r)) /\ (Booked(s) => Sure(r) /\ Booked(r))
  BY <1>4, <1>5 DEF Timed, Sure, Booked
<1> QED
  BY <1>6 DEF r

LEMMA SucceedBooks ==
    ASSUME NEW s \in Good, NEW output \in {0, 1}
    PROVE  Books(Succeed(s, output), s) /\ Booked(Succeed(s, output))
<1> DEFINE r == Succeed(s, output)
<1>1. s.u \in Objects /\ s \in States
  BY Parts
<1>2. r.u = [s.u EXCEPT !.backoff = 0, !.assumed = output] /\ r.h = s.h
  BY <1>1 DEF Succeed, States
<1>3. output # None
  BY InverterAssumption
<1> HIDE DEF r
<1>4. /\ r.u.limit = s.u.limit /\ r.u.inLimit = s.u.inLimit /\ r.u.started = s.u.started
      /\ r.u.reboot = s.u.reboot /\ r.u.backoff = 0 /\ r.u.assumed = output
  BY <1>1, <1>2 DEF Objects, Fields
<1>5. Books(r, s) /\ Booked(r)
  BY <1>2, <1>3, <1>4 DEF Books, Timed, Sure, Fresh, Booked
<1> QED
  BY <1>5 DEF r

(* After a reset no answer is new, and none is awaited.                     *)
LEMMA ResetBooks ==
    ASSUME NEW s \in States
    PROVE  /\ Reset(s).h.limNew = FALSE /\ Timed(Reset(s))
           /\ Booked(s) => Booked(Reset(s))
<1> DEFINE o == [s.u EXCEPT !.power = None, !.limit = None, !.force = FALSE,
                     !.parallel = FALSE, !.started = None, !.inLimit = None,
                     !.inPower = None]
           r == [s EXCEPT !.h.limNew = FALSE, !.h.powNew = FALSE, !.u = o]
<1>1. s.u \in Objects /\ s.h \in Libraries /\ Reset(s) = Done(r)
  BY DEF Reset, States
<1>2. /\ o \in Objects /\ o.inLimit = None /\ o.assumed = s.u.assumed
      /\ o.backoff = s.u.backoff
  BY <1>1 DEF Objects, Fields
<1> HIDE DEF o
<1>3. r.u = o /\ r.h = [s.h EXCEPT !.limNew = FALSE, !.powNew = FALSE]
  BY DEF States
<1>4. /\ Done(r).u = [r.u EXCEPT !.busy = FALSE]
      /\ Done(r).h = r.h
  BY DEF Done, States
<1> HIDE DEF r
<1>5. r.h.limNew = FALSE
  BY <1>1, <1>3 DEF Libraries
<1>6. /\ Done(r).u.inLimit = None /\ Done(r).u.assumed = s.u.assumed
      /\ Done(r).u.backoff = s.u.backoff
  BY <1>2, <1>3, <1>4 DEF Objects, Fields
<1> QED
  BY <1>1, <1>4, <1>5, <1>6 DEF Timed, Booked

LEMMA FailBooks ==
    ASSUME NEW s \in Good, ~s.u.reboot
    PROVE  Fail(s).h.limNew = FALSE /\ Timed(Fail(s))
<1> DEFINE due     == (s.u.timeouts + 1 = RebootAfter)
           o       == [s.u EXCEPT !.timeouts = s.u.timeouts + 1, !.backoff = Backoff,
                                  !.reboot = due]
           counted == [s EXCEPT !.u.timeouts = s.u.timeouts + 1, !.u.backoff = Backoff,
                                !.u.reboot = due]
           more    == [counted EXCEPT !.h = Queued(counted.h, Restart)]
<1>1. s.u \in Objects /\ s \in States /\ Restart \in Acts
  BY Parts DEF Acts
<1>3. o \in Objects
  BY <1>1, CountedObject
<1>4. counted \in States
  BY <1>1, <1>3 DEF States
<1>5. Queued(counted.h, Restart) \in Libraries
  BY <1>1, <1>4, QueuedLibrary DEF States
<1>6. more \in States
  BY <1>4, <1>5 DEF States
<1>7. Fail(s) = Reset(counted) \/ Fail(s) = Reset(more)
  BY DEF Fail
<1> HIDE DEF counted, more
<1> QED
  BY <1>4, <1>6, <1>7, ResetBooks

LEMMA PowerAnsweredBooks ==
    ASSUME NEW s \in Good
    PROVE  Books(PowerAnswered(s), s)
<1> DEFINE o    == [s.u EXCEPT !.inPower = None]
           read == [s EXCEPT !.u.inPower = None]
           won  == Succeed(read, IF s.u.inPower THEN 1 ELSE 0)
           done == [won EXCEPT !.u.power = None]
<1>1. s.u \in Objects /\ s.h \in Libraries /\ s \in States
  BY Parts
<1>2. o \in Objects /\ o.inPower = None
  BY <1>1 DEF Objects, Fields
<1>3. read \in States
  BY <1>1, <1>2 DEF States
<1>4. read.u = o /\ read.h = s.h
  BY <1>1 DEF States
<1>5. read \in Good
  BY <1>2, <1>3, <1>4, Whole DEF Ours
<1>6. PowerAnswered(s) \in {s, read, done, Start(won)}
  BY DEF PowerAnswered
<1> HIDE DEF read
<1>7. Alike(read, s)
  BY <1>1, <1>4 DEF Objects, Fields, Alike
<1>8. Books(read, s)
  BY <1>7, AlikeBooks
<1>9. won \in Good /\ Books(won, read) /\ Booked(won)
  BY <1>5, SucceedGood, SucceedBooks
<1> HIDE DEF won
<1>10. Books(won, s)
  BY <1>8, <1>9, BooksTwice
<1>11. Books(done, won)
  BY <1>9, NoPowerAlike, AlikeBooks
<1> HIDE DEF done
<1>12. Books(done, s)
  BY <1>10, <1>11, BooksTwice
<1>13. Books(Start(won), s)
  BY <1>9, <1>10, StartBooks DEF Books
<1>14. Books(s, s)
  BY DEF Books
<1> QED
  BY <1>6, <1>8, <1>12, <1>13, <1>14

LEMMA SwitchPowerBooks ==
    ASSUME NEW s \in Good, NEW on \in BOOLEAN, NEW allow \in BOOLEAN
    PROVE  Books(SwitchPower(s, on, allow), s)
<1> DEFINE r    == PowerAnswered(s)
           none == [r EXCEPT !.u.power = None]
           sent == [r EXCEPT !.u.inPower = on, !.h = Queued(r.h, on)]
<1>1. r \in Good /\ Books(r, s)
  BY PowerAnsweredGood, PowerAnsweredBooks
<1>2. SwitchPower(s, on, allow) \in
          {Done(s), Busy(s), Done(r), Done(none), Busy(r), Busy(sent)}
  BY DEF SwitchPower
<1> HIDE DEF r
<1>3. none \in Good /\ sent \in Good /\ Books(none, r) /\ Books(sent, r)
  BY <1>1, NoPowerGood, SendPowerGood, NoPowerAlike, SendPowerAlike, AlikeBooks
<1> HIDE DEF none, sent
<1>4. Books(none, s) /\ Books(sent, s)
  BY <1>1, <1>3, BooksTwice
<1>5. ASSUME NEW x \in Good, Books(x, s)
      PROVE  Books(Busy(x), s) /\ Books(Done(x), s)
  BY <1>5, BusyAlike, AlikeBooks, BooksTwice
<1>6. Books(s, s)
  BY DEF Books
<1> QED
  BY <1>1, <1>2, <1>3, <1>4, <1>5, <1>6

(* A limit command that was answered is booked.                             *)
LEMMA UpdateLimitBooks ==
    ASSUME NEW s \in Good, NEW allow \in BOOLEAN, NEW output \in {0, 1},
           ~s.u.reboot, Timed(s)
    PROVE  /\ Timed(UpdateLimit(s, allow, output))
           /\ Sure(s) => Booked(UpdateLimit(s, allow, output))
<1> DEFINE w     == UpdateLimit(s, allow, output)
           limit == IF s.u.limit = s.u.inLimit THEN None ELSE s.u.limit
           o     == [s.u EXCEPT !.inLimit = None, !.limit = limit]
           read  == [s EXCEPT !.u.inLimit = None,
                         !.u.limit = IF @ = s.u.inLimit THEN None ELSE @]
           r     == LimitAnswered(s, output)
           sent  == [r EXCEPT !.u.inLimit = r.u.limit, !.h.lim = "PENDING", !.h.limNew = FALSE]
<1>1. s.u \in Objects /\ s.h \in Libraries /\ Ours(s.u, s.h) /\ s \in States
  BY Parts
<1>2. limit \in Limits \cup {LowerLimit, None}
  BY <1>1 DEF Objects, Fields
<1> HIDE DEF limit
<1>3. /\ o \in Objects /\ o.inPower = s.u.inPower /\ o.inLimit = None
      /\ o.started = s.u.started /\ o.reboot = s.u.reboot
  BY <1>1, <1>2 DEF Objects, Fields
<1>4. read = [s EXCEPT !.u.inLimit = None, !.u.limit = limit]
  BY <1>1 DEF limit, States, Objects, Fields
<1>5. [s EXCEPT !.u.inLimit = None, !.u.limit = limit] \in States
  BY <1>1, <1>3 DEF States
<1>6. /\ [s EXCEPT !.u.inLimit = None, !.u.limit = limit].u = o
      /\ [s EXCEPT !.u.inLimit = None, !.u.limit = limit].h = s.h
  BY <1>1 DEF States
<1>7. /\ r \in {s, Fail(read), Succeed(read, output), Start(Succeed(read, output))}
      /\ ~LimitRead(s) => r = s
      /\ LimitRead(s) /\ s.h.lim = "OK"
            => r \in {Succeed(read, output), Start(Succeed(read, output))}
  BY DEF LimitAnswered
<1>8. \/ w = Busy(s) /\ s.h.lim = "PENDING"
      \/ w = Busy(r)
      \/ w = Busy(sent) /\ r.u.limit # None
      \/ w = Done(s) /\ s.u.limit = None
      \/ w = Done(r)
  BY DEF UpdateLimit
<1> HIDE DEF read, w
<1>9. /\ read \in Good /\ ~read.u.reboot /\ Timed(read)
  BY <1>1, <1>3, <1>4, <1>5, <1>6, Whole DEF Ours, Timed
<1>10. /\ Timed(Fail(read)) /\ Fail(read).u.limit = None
       /\ Timed(Succeed(read, output)) /\ Booked(Succeed(read, output))
       /\ ~Succeed(read, output).u.reboot
       /\ Succeed(read, output) \in Good
  BY <1>9, FailBooks, FailFields, SucceedBooks, SucceedGood DEF Books, Cleared
<1>11. /\ Timed(Start(Succeed(read, output))) /\ Booked(Start(Succeed(read, output)))
       /\ ~Start(Succeed(read, output)).u.reboot
  BY <1>10, StartBooks, StartGood
<1>12. r \in Good /\ Timed(r) /\ (r.u.limit = None \/ ~r.u.reboot)
  BY <1>7, <1>10, <1>11, LimitAnsweredGood
<1>13. ASSUME Sure(s)  PROVE Booked(r)
  <2>1. CASE Fresh(s)
    BY <1>7, <1>10, <1>11, <2>1 DEF LimitRead, Fresh
  <2>2. CASE Booked(s) /\ ~s.h.limNew
    BY <1>7, <2>2 DEF LimitRead
  <2> QED
    BY <1>13, <2>1, <2>2 DEF Sure
<1>14. ASSUME Sure(s), s.h.lim = "PENDING" \/ s.u.limit = None
       PROVE  Booked(s)
  BY <1>14 DEF Sure, Fresh, Timed
<1> HIDE DEF r
<1>15. ASSUME r.u.limit # None
       PROVE  sent \in Good /\ Timed(sent) /\ (Booked(r) => Booked(sent))
  <2> DEFINE p == [r.u EXCEPT !.inLimit = r.u.limit]
             l == [r.h EXCEPT !.lim = "PENDING", !.limNew = FALSE]
  <2>1. r.u \in Objects /\ r.h \in Libraries /\ Ours(r.u, r.h) /\ r \in States
    BY <1>12, Parts
  <2>2. /\ p \in Objects /\ p.inPower = r.u.inPower /\ p.limit = r.u.limit
        /\ p.started = r.u.started /\ p.reboot = r.u.reboot
        /\ p.assumed = r.u.assumed /\ p.backoff = r.u.backoff
    BY <2>1 DEF Objects, Fields
  <2>3. l \in Libraries /\ l.queue = r.h.queue /\ l.act = r.h.act /\ l.limNew = FALSE
    BY <2>1 DEF Libraries, Statuses
  <2>4. sent \in States
    BY <2>1, <2>2, <2>3 DEF States
  <2>5. sent.u = p /\ sent.h = l
    BY <2>1 DEF States
  <2>6. Ours(p, l)
    BY <2>1, <2>2, <2>3 DEF Ours, Newest
  <2>7. sent \in Good
    BY <2>4, <2>5, <2>6, Whole
  <2> HIDE DEF sent, p, l
  <2>8. ~sent.u.reboot
    BY <1>12, <1>15, <2>2, <2>5
  <2> QED
    BY <1>12, <1>15, <2>2, <2>3, <2>5, <2>7, <2>8 DEF Timed, Booked
<1> HIDE DEF sent
<1>16. ASSUME NEW x \in Good
       PROVE  /\ Timed(x) => Timed(Busy(x)) /\ Timed(Done(x))
              /\ Booked(x) => Booked(Busy(x)) /\ Booked(Done(x))
  BY BusyAlike, AlikeBooks DEF Books
<1>17. Timed(w) /\ (Sure(s) => Booked(w))
  BY <1>8, <1>12, <1>13, <1>14, <1>15, <1>16
<1> QED
  BY <1>17 DEF w

(* update() keeps a new answer or books it.  When it is done none is new.   *)
LEMMA WorkBooks ==
    ASSUME NEW s \in Good, NEW allow \in BOOLEAN, NEW output \in {0, 1},
           ~s.u.reboot, Timed(s)
    PROVE  /\ Timed(Work(s, allow, output))
           /\ Sure(s) => Fresh(Work(s, allow, output)) \/ Booked(Work(s, allow, output))
           /\ \/ Work(s, allow, output).u.busy = TRUE
              \/ Work(s, allow, output).h.limNew = FALSE
<1> DEFINE w     == Work(s, allow, output)
           off   == SwitchPower(s, FALSE, allow)
           limit == UpdateLimit(off, allow, output)
           on    == SwitchPower(limit, TRUE, allow)
           f     == Finish(on)
<1>1. off \in Good /\ ~off.u.reboot /\ Books(off, s)
  BY SwitchPowerGood, SwitchPowerBooks
<1>2. \/ w = off /\ off.u.busy
      \/ w = limit /\ limit.u.busy
      \/ w = Busy(on)
      \/ w = f
  BY DEF Work
<1> HIDE DEF off, w
<1>3. /\ limit \in Good /\ Timed(limit)
      /\ Sure(s) => Booked(limit)
  BY <1>1, UpdateLimitGood, UpdateLimitBooks DEF Books
<1> HIDE DEF limit
<1>4. on \in Good /\ Timed(on) /\ (Sure(s) => Booked(on))
  BY <1>3, SwitchPowerGood, SwitchPowerBooks DEF Books
<1>5. /\ Timed(Busy(on)) /\ Busy(on).u.busy = TRUE
      /\ Sure(s) => Booked(Busy(on))
  BY <1>4, BusyAlike, AlikeBooks, BusyFields DEF Books
<1>6. f.h.limNew = FALSE /\ Timed(f) /\ (Sure(s) => Booked(f))
  <2> DEFINE r == Reset(on)
  <2>1. /\ r \in Good /\ r.h.limNew = FALSE /\ (Sure(s) => Booked(r))
        /\ r.u.inLimit = None
    <3>1. on \in States
      BY <1>4, Parts
    <3>2. Reset(on).u.limit = None /\ Timed(Reset(on))
      BY <3>1, ResetFields, ResetBooks DEF Cleared
    <3> QED
      BY <1>4, <3>1, <3>2, ResetGood, ResetBooks DEF Timed
  <2>2. f = [r EXCEPT !.u.timeouts = 0]
    BY DEF Finish
  <2> HIDE DEF r
  <2>3. r.u \in Objects /\ r \in States
    BY <2>1, Parts
  <2>4. f.u = [r.u EXCEPT !.timeouts = 0] /\ f.h = r.h
    BY <2>2, <2>3 DEF States
  <2> HIDE DEF f
  <2>5. f.u.inLimit = None /\ f.u.assumed = r.u.assumed /\ f.u.backoff = r.u.backoff
    BY <2>1, <2>3, <2>4 DEF Objects, Fields
  <2> QED
    BY <2>1, <2>4, <2>5 DEF Timed, Booked
<1> HIDE DEF on, f
<1>7. off.u.busy \in BOOLEAN /\ limit.u.busy \in BOOLEAN
  BY <1>1, <1>3, Parts DEF Objects, Fields
<1>8. /\ Timed(w) /\ (Sure(s) => Fresh(w) \/ Booked(w))
      /\ w.u.busy = TRUE \/ w.h.limNew = FALSE
  BY <1>1, <1>2, <1>3, <1>5, <1>6, <1>7 DEF Books, Sure
<1> QED
  BY <1>8 DEF w

LEMMA NextTimed ==
    ASSUME Inv, Inv', Timed(State), [Next]_vars
    PROVE  Timed(State)'
<1>1. /\ u \in Objects /\ h \in Libraries /\ State \in Good /\ State \in States
      /\ State.u = u /\ State.h = h /\ State'.u = u' /\ State'.h = h'
  BY InvParts, StateGood, Parts DEF State
<1>2. /\ h.limNew => u.started # None
      /\ u.inLimit # None => u.limit # None
      /\ u.reboot => u.inLimit = None
  BY <1>1 DEF Timed
<1>3. SUFFICES /\ h'.limNew => u'.started # None
               /\ u'.inLimit # None => u'.limit # None
               /\ u'.reboot => u'.inLimit = None
  BY <1>1 DEF Timed
<1>4. ASSUME NEW s \in Good, Timed(s), s.u.busy = TRUE \/ s.h.limNew = FALSE, UpdateTo(s)
      PROVE  /\ h'.limNew => u'.started # None
             /\ u'.inLimit # None => u'.limit # None
             /\ u'.reboot => u'.inLimit = None
  <2>1. h' = s.h /\ s.u \in Objects
    BY <1>4, Parts DEF UpdateTo
  <2>2. CASE u' = Done(s).u
    BY <1>4, <2>1, <2>2, BusyAlike DEF Alike, Timed
  <2>3. CASE \E known \in Known \ {"set"} : u' = NewInverter(known) /\ ~s.u.busy
    BY <1>4, <2>1, <2>3 DEF NewInverter
  <2>4. CASE u' = [s.u EXCEPT !.power = FALSE] /\ ~s.u.busy
    BY <1>4, <2>1, <2>4 DEF Timed, Objects, Fields
  <2> QED
    BY <1>4, <2>2, <2>3, <2>4 DEF UpdateTo
<1>5. CASE Wait
  <2>1. Busy(State) \in Good /\ Timed(Busy(State)) /\ Busy(State).u.busy = TRUE
    BY <1>1, BusyGood, BusyAlike, AlikeBooks, BusyFields DEF Books
  <2> QED
    BY <1>4, <1>5, <2>1 DEF Wait
<1>6. CASE Skip
  <2>1. Reset(State) \in Good /\ Timed(Reset(State)) /\ Reset(State).h.limNew = FALSE
    BY <1>1, ResetGood, ResetBooks
  <2> QED
    BY <1>4, <1>6, <2>1 DEF Skip
<1>7. CASE GiveUp
  <2>1. ~u.reboot /\ UpdateTo(Fail(State))
    BY <1>7 DEF GiveUp, UpdateTo
  <2>2. Fail(State) \in Good /\ Timed(Fail(State)) /\ Fail(State).h.limNew = FALSE
    BY <1>1, <2>1, FailGood, FailBooks
  <2> QED
    BY <1>4, <2>1, <2>2
<1>8. CASE Proceed
  <2>1. PICK allow \in BOOLEAN, output \in {0, 1} : UpdateTo(Work(Cycle, allow, output))
    BY <1>8 DEF Proceed
  <2>2. ~u.reboot
    BY <2>1 DEF UpdateTo
  <2>3. Cycle \in Good /\ ~Cycle.u.reboot
    BY <2>2, CycleFields
  <2>4. Timed(Cycle)
    <3> DEFINE low    == [State EXCEPT !.u.limit = LowerLimit]
               o      == [u EXCEPT !.limit = LowerLimit]
               target == IF u.known = "no" /\ u.limit = None THEN low ELSE State
    <3>1. low.u = o /\ low.h = h
      BY <1>1 DEF States
    <3>2. /\ o \in Objects /\ o.inPower = u.inPower /\ o.started = u.started
          /\ o.inLimit = u.inLimit /\ o.reboot = u.reboot /\ o.limit = LowerLimit
      BY <1>1 DEF Objects, Fields
    <3>3. low \in States
      BY <1>1, <3>2 DEF States
    <3>4. low \in Good /\ Timed(low)
      BY <1>1, <1>2, <3>1, <3>2, <3>3, InvParts, Whole, InverterAssumption DEF Ours, Timed
    <3>5. Cycle \in {target, Start(target)}
      BY DEF Cycle
    <3> HIDE DEF low
    <3>6. target \in Good /\ Timed(target)
      BY <1>1, <3>4
    <3> HIDE DEF target
    <3> QED
      BY <3>5, <3>6, StartBooks
  <2> DEFINE w == Work(Cycle, allow, output)
  <2> HIDE DEF Cycle
  <2>5. w \in Good /\ Timed(w) /\ (w.u.busy = TRUE \/ w.h.limNew = FALSE)
    BY <2>3, <2>4, WorkGood, WorkBooks
  <2>6. UpdateTo(w)
    BY <2>1
  <2> HIDE DEF w
  <2> QED
    BY <1>4, <2>5, <2>6
<1>9. CASE RequestReload
  BY <1>2, <1>9 DEF RequestReload
<1>10. ASSUME NEW status, AnswerLimit(status)
       PROVE  /\ h'.limNew => u'.started # None
              /\ u'.inLimit # None => u'.limit # None
              /\ u'.reboot => u'.inLimit = None
  <2>1. h'.limNew = (u.started # None)
    BY <1>1, <1>10 DEF AnswerLimit, Libraries
  <2>2. u'.started = u.started /\ u'.inLimit = u.inLimit /\ u'.limit = u.limit
        /\ u'.reboot = u.reboot
    BY <1>1, <1>10 DEF AnswerLimit, Objects, Fields
  <2> QED
    BY <1>2, <2>1, <2>2
<1>11. CASE AnswerPower
  <2>1. h'.limNew = h.limNew
    BY <1>1, <1>11 DEF AnswerPower, Libraries
  <2>2. u'.started = u.started /\ u'.inLimit = u.inLimit /\ u'.limit = u.limit
        /\ u'.reboot = u.reboot
    BY <1>1, <1>11 DEF AnswerPower, Objects, Fields
  <2> QED
    BY <1>2, <2>1, <2>2
<1>12. CASE Stats
  BY <1>1, <1>2, <1>12 DEF Stats, Objects, Fields
<1>13. CASE Tick
  <2>1. /\ u'.started = IF u.started = None \/ u.started > Timeout
                        THEN u.started ELSE u.started + 1
        /\ u'.inLimit = u.inLimit /\ u'.limit = u.limit
        /\ u'.reboot = u.reboot /\ h' = h
    BY <1>1, <1>13 DEF Tick, Objects, Fields
  <2>2. u'.started # None \/ u.started = None
    <3>1. CASE u.started = None \/ u.started > Timeout
      BY <2>1, <3>1
    <3>2. CASE ~(u.started = None \/ u.started > Timeout)
      <4>1. u.started \in 0 .. Timeout + 1
        BY <1>1, <3>2 DEF Objects, Fields
      <4>2. u.started + 1 \in 0 .. Timeout + 1
        BY <3>2, <4>1, InverterAssumption
      <4>3. None \notin 0 .. Timeout + 1
        BY InverterAssumption
      <4> QED
        BY <2>1, <3>2, <4>2, <4>3
    <3> QED
      BY <3>1, <3>2
  <2> QED
    BY <1>2, <2>1, <2>2
<1>14. CASE Reboot
  <2>1. h'.limNew = FALSE /\ u'.inLimit = None
    BY <1>14 DEF Reboot, NewInverter, NewLibrary
  <2> QED
    BY <2>1
<1>15. ASSUME NEW l \in Limits, NEW b \in BOOLEAN, SetOutput(l, b) \/ SetMaxOutput(l, b)
       PROVE  /\ h'.limNew => u'.started # None
              /\ u'.inLimit # None => u'.limit # None
              /\ u'.reboot => u'.inLimit = None
  <2>1. /\ u'.started = u.started /\ u'.inLimit = u.inLimit /\ u'.limit = l
        /\ u'.reboot = u.reboot /\ h' = h
    BY <1>1, <1>15 DEF SetOutput, SetMaxOutput, Target, Objects, Fields
  <2> QED
    BY <1>2, <2>1, InverterAssumption
<1>16. ASSUME NEW b \in BOOLEAN, Standby(b)
       PROVE  /\ h'.limNew => u'.started # None
              /\ u'.inLimit # None => u'.limit # None
              /\ u'.reboot => u'.inLimit = None
  BY <1>1, <1>2, <1>16 DEF Standby, Target, Objects, Fields
<1>17. ASSUME NEW l \in Limits, RefreshLimit(l)
       PROVE  /\ h'.limNew => u'.started # None
              /\ u'.inLimit # None => u'.limit # None
              /\ u'.reboot => u'.inLimit = None
  <2>1. /\ u'.started = u.started /\ u'.inLimit = u.inLimit /\ u'.limit = l
        /\ u'.reboot = u.reboot /\ h' = h
    BY <1>1, <1>17 DEF RefreshLimit, Target, Objects, Fields
  <2> QED
    BY <1>2, <2>1, InverterAssumption
<1>18. CASE ScheduledRestart
  <2>1. h'.limNew = h.limNew /\ u' = u
    BY <1>1, <1>18 DEF ScheduledRestart, Queued, Libraries
  <2> QED
    BY <1>2, <2>1
<1>19. CASE UNCHANGED vars
  BY <1>2, <1>19 DEF vars
<1> QED
  BY <1>5, <1>6, <1>7, <1>8, <1>9, <1>10, <1>11, <1>12, <1>13, <1>14, <1>15, <1>16,
     <1>17, <1>18, <1>19 DEF Next, Update

LEMMA TimedAlways == Spec => []Timed(State)
<1>1. Init => Timed(State)
  BY DEF Init, NewInverter, NewLibrary, Timed, State
<1>2. Inv /\ Inv' /\ Timed(State) /\ [Next]_vars => Timed(State)'
  BY NextTimed
<1> QED
  BY <1>1, <1>2, InvAlways, PTL DEF Spec

Loses     == FreshAnswer /\ ~FreshAnswer'
Accounted == \/ u'.assumed # None /\ u'.backoff = 0
             \/ mode = "reload" /\ mode' # "reload"
             \/ Skip \/ GiveUp

LEMMA LosesAccounted ==
    ASSUME Inv, Timed(State), [Next]_vars, Loses
    PROVE  Accounted
<1>1. /\ u \in Objects /\ h \in Libraries /\ State \in Good /\ State \in States
      /\ State.u = u /\ State.h = h
  BY InvParts, StateGood, Parts
<1>2. /\ u.started # None /\ u.limit # None /\ ~u.reboot
      /\ u.inLimit # None /\ h.lim = "OK" /\ h.limNew
  BY <1>1 DEF Timed, Loses, FreshAnswer
<1>3. ASSUME u'.inLimit = u.inLimit, h'.lim = h.lim, h'.limNew = h.limNew  PROVE FALSE
  BY <1>2, <1>3 DEF Loses, FreshAnswer
<1>4. ASSUME NEW s \in Good, UpdateTo(s), Fresh(s) \/ Booked(s)
      PROVE  Accounted
  <2>1. CASE u' = Done(s).u /\ h' = s.h
    <3>1. /\ u'.inLimit = s.u.inLimit /\ u'.assumed = s.u.assumed
          /\ u'.backoff = s.u.backoff
      BY <2>1, BusyAlike DEF Alike
    <3>2. ~Fresh(s)
      BY <2>1, <3>1 DEF Loses, FreshAnswer, Fresh
    <3> QED
      BY <1>4, <3>1, <3>2 DEF Booked, Accounted
  <2>2. CASE mode = "reload" /\ mode' # "reload"
    BY <2>2 DEF Accounted
  <2> QED
    BY <1>4, <2>1, <2>2 DEF UpdateTo
<1>5. CASE Wait
  <2>1. Busy(State) \in Good /\ Fresh(Busy(State))
    <3>1. Fresh(State)
      BY <1>1, <1>2 DEF Fresh
    <3> QED
      BY <1>1, <3>1, BusyGood, BusyAlike DEF Alike, Fresh
  <2> QED
    BY <1>4, <1>5, <2>1 DEF Wait
<1>6. CASE Skip \/ GiveUp
  BY <1>6 DEF Accounted
<1>7. CASE Proceed
  <2>1. PICK allow \in BOOLEAN, output \in {0, 1} : UpdateTo(Work(State, allow, output))
    <3>1. Cycle = State
      BY <1>1, <1>2 DEF Cycle
    <3> QED
      BY <1>7, <3>1 DEF Proceed
  <2>2. ~u.reboot
    BY <2>1 DEF UpdateTo
  <2>3. Sure(State)
    BY <1>1, <1>2 DEF Sure, Fresh
  <2> DEFINE w == Work(State, allow, output)
  <2>4. w \in Good /\ (Fresh(w) \/ Booked(w))
    BY <1>1, <2>2, <2>3, WorkGood, WorkBooks
  <2>5. UpdateTo(w)
    BY <2>1
  <2> HIDE DEF w
  <2> QED
    BY <1>4, <2>4, <2>5
<1>8. CASE RequestReload
  BY <1>3, <1>8 DEF RequestReload
<1>9. ASSUME NEW status, AnswerLimit(status)  PROVE FALSE
  BY <1>2, <1>9 DEF AnswerLimit
<1>10. CASE AnswerPower
  <2>1. h'.lim = h.lim /\ h'.limNew = h.limNew
    BY <1>1, <1>10 DEF AnswerPower, Libraries
  <2>2. u'.inLimit = u.inLimit
    BY <1>1, <1>10 DEF AnswerPower, Objects, Fields
  <2> QED
    BY <1>3, <2>1, <2>2
<1>11. CASE Stats
  BY <1>1, <1>3, <1>11 DEF Stats, Objects, Fields
<1>12. CASE Tick
  BY <1>1, <1>3, <1>12 DEF Tick, Objects, Fields
<1>13. CASE Reboot
  BY <1>2, <1>13 DEF Reboot
<1>14. ASSUME NEW l, NEW b \in BOOLEAN, SetOutput(l, b) \/ SetMaxOutput(l, b)  PROVE FALSE
  BY <1>1, <1>3, <1>14 DEF SetOutput, SetMaxOutput, Target, Objects, Fields
<1>15. ASSUME NEW b \in BOOLEAN, Standby(b)  PROVE FALSE
  BY <1>1, <1>3, <1>15 DEF Standby, Target, Objects, Fields
<1>16. ASSUME NEW l, RefreshLimit(l)  PROVE FALSE
  BY <1>1, <1>3, <1>16 DEF RefreshLimit, Target, Objects, Fields
<1>17. CASE ScheduledRestart
  <2>1. h'.lim = h.lim /\ h'.limNew = h.limNew /\ u' = u
    BY <1>1, <1>17 DEF ScheduledRestart, Queued, Libraries
  <2> QED
    BY <1>3, <2>1
<1>18. CASE UNCHANGED vars
  BY <1>3, <1>18 DEF vars
<1> QED
  BY <1>5, <1>6, <1>7, <1>8, <1>9, <1>10, <1>11, <1>12, <1>13, <1>14, <1>15, <1>16,
     <1>17, <1>18 DEF Next, Update

(* The answer to a limit command is booked while it is new, but for the     *)
(* excuses AnswerBooked names.                                              *)
THEOREM AnswerBookedCorrect == Spec => AnswerBooked
<1>1. Inv /\ Timed(State) /\ [Next]_vars => [Loses => Accounted]_vars
  BY LosesAccounted
<1>2. [][Loses => Accounted]_vars => AnswerBooked
  BY PTL DEF AnswerBooked, Loses, Accounted
<1> QED
  BY <1>1, <1>2, InvAlways, TimedAlways, PTL DEF Spec
=============================================================================
