--------------------------- MODULE PredictiveLedger ---------------------------
(***************************************************************************)
(* The pending request ledger of the power limiter                         *)
(* (PowerLimiterPredictiveControl.cpp) for one inverter, together with     *)
(* what drives it: updateInverters(), the passes of                        *)
(* PowerLimiterClass::loop(), PowerLimiterInverter::update() for limit     *)
(* commands, the answer of the radio and the inverter itself.              *)
(*                                                                         *)
(* The limiter keeps, for each actuator, a safe setpoint, the setpoint it  *)
(* requested last and a ledger of requests whose effect may not have       *)
(* reached the meter.  Chains of different actuators never meet, so one    *)
(* actuator is the general case.  The inverter is one that is producing    *)
(* and reachable, its limit equals its output, and its power state is left *)
(* alone: every request is a deterministic Setpoint transition.            *)
(*                                                                         *)
(* Times are true times; the code sees Millis(t), which wraps.             *)
(***************************************************************************)
EXTENDS Integers, FiniteSets, FiniteSetsExt, Functions, Sequences

CONSTANTS
    Setpoints,    \* the setpoints the planner chooses from, in W
    Initial,      \* the inverter's setpoint and output when the limiter starts
    Effect,       \* TargetEffectAssumptionMillis
    UpdateLimit,  \* the 30 s of PowerLimiterInverter::update()
    StaleAge,     \* PredictiveQueuedRequestStaleMillis
    Wrap,         \* 2^32, where millis() starts again
    MaxTime,      \* bound: the model's last moment
    MaxRequests,  \* bound: requests recorded
    MaxComing,    \* bound: limits the inverter has yet to reach
    None          \* std::nullopt

ASSUME LedgerAssumption ==
    /\ Setpoints \subseteq Nat /\ Initial \in Setpoints
    /\ Effect \in Nat \ {0} /\ UpdateLimit \in Nat /\ StaleAge \in Nat
    /\ Wrap \in Nat \ {0} /\ MaxTime \in Nat /\ MaxRequests \in Nat /\ MaxComing \in Nat
    /\ None \notin Nat

VARIABLES
    (* PowerLimiterPredictiveControl::Model, for the one actuator *)
    ledger,       \* the requests, a function of their seq
    nextSeq,      \* _nextSeq
    safe,         \* safeSetpointWatts
    requested,    \* requestedSetpointWatts
    (* PowerLimiterInverter *)
    want,         \* _oTargetPowerLimitWatts, with its _expectedOutputAcWatts
    inflight,     \* _oInFlightPowerLimitWatts
    start,        \* _oUpdateStartMillis
    assumed,      \* _oAssumedOutputAcWatts while it is in use
    assumedUntil, \* _oAssumedOutputValidAfterMillis
    (* the radio and the parsers *)
    onAir,        \* the limit of the command the radio has, or had last
    answer,       \* getLastLimitCommandSuccess()
    measured,     \* the output in the latest inverter statistics
    sample,       \* the time of the latest meter sample
    seen,         \* the output that was in that sample
    (* the world *)
    now,
    output,       \* the inverter's output
    coming,       \* limits the inverter received and did not reach yet
    strayed,      \* history: one of the three ways out of step happened
    (* PowerLimiterClass::loop() *)
    at            \* where the loop stands

model  == <<ledger, nextSeq, safe, requested>>
target == <<want, inflight, start>>
assume == <<assumed, assumedUntil>>
radio  == <<onAir, answer>>
meter  == <<sample, seen>>
world  == <<output, coming, strayed>>
vars   == <<model, target, assume, radio, measured, meter, now, world, at>>

Times   == Nat
Request == [base : Setpoints, goal : Setpoints,
            state : {"queued", "sent", "discarded"}, dispatch : BOOLEAN,
            created : Times, sent : Times \cup {None}]

TypeOK ==
    /\ nextSeq \in Nat \ {0}
    /\ DOMAIN ledger \subseteq 1 .. nextSeq - 1
    /\ ledger \in [DOMAIN ledger -> Request]
    /\ safe \in Setpoints /\ requested \in Setpoints
    /\ want \in Setpoints \cup {None} /\ inflight \in Setpoints \cup {None}
    /\ start \in Times \cup {None}
    /\ assumed \in Setpoints \cup {None} /\ assumedUntil \in Times
    /\ onAir \in Setpoints \cup {None}
    /\ answer \in {"none", "pending", "ok", "failed"}
    /\ measured \in Setpoints /\ sample \in Times /\ seen \in Setpoints
    /\ now \in Times /\ output \in Setpoints
    /\ coming \in Seq([goal : Setpoints, by : Times]) /\ strayed \in BOOLEAN
    /\ at \in {"idle", "ledger", "plan"}

Init ==
    /\ ledger = << >> /\ nextSeq = 1
    /\ safe = Initial /\ requested = Initial
    /\ want = None /\ inflight = None /\ start = None
    /\ assumed = None /\ assumedUntil = 0
    /\ onAir = None /\ answer = "none"
    /\ measured = Initial /\ sample = 0 /\ seen = Initial
    /\ now = 0 /\ output = Initial /\ coming = << >> /\ strayed = FALSE
    /\ at = "idle"
-----------------------------------------------------------------------------
(***************************************************************************)
(* The ledger.                                                             *)
(***************************************************************************)
Millis(t) == t % Wrap

(* isPendingRequestedState *)
Pending(l) == {s \in DOMAIN l : l[s].state \in {"queued", "sent"}}
Queued(l)  == {s \in DOMAIN l : l[s].state = "queued"}

(* recomputeRequestedSetpoint: the target of the newest pending request.   *)
Newest(l, basis) == IF Pending(l) = {} THEN basis ELSE l[Max(Pending(l))].goal

(* markLatestQueuedRequestDispatchPending *)
Matching(l, w) == {s \in Queued(l) : l[s].goal = w}

MarkDispatched(l, w) ==
    IF Matching(l, w) = {} THEN l
    ELSE [l EXCEPT ![Max(Matching(l, w))].dispatch = TRUE]

(* markLatestQueuedRequestSent: the dispatched request rather than a newer *)
(* one with the same target.                                               *)
Booked(l, w) ==
    LET dispatched == {s \in Matching(l, w) : l[s].dispatch}
    IN  IF dispatched # {} THEN dispatched ELSE Matching(l, w)

MarkSent(l, w) ==
    IF Booked(l, w) = {} THEN l
    ELSE [l EXCEPT ![Max(Booked(l, w))] =
             [@ EXCEPT !.state = "sent", !.dispatch = FALSE, !.sent = now]]

(* discardQueuedRequests, with the output the inverter expects then.       *)
DiscardedMutant(l) ==
    [s \in DOMAIN l |-> [l[s] EXCEPT !.state = "discarded"]]
Discarded(l) ==
    [s \in DOMAIN l |-> IF s \in Queued(l)
                        THEN [l[s] EXCEPT !.state = "discarded"] ELSE l[s]]

DiscardQueuedMutant(l, current) ==
    IF Queued(l) = {}
    THEN ledger' = l /\ UNCHANGED <<safe, requested>>
    ELSE ledger' = Discarded(l) /\ safe' = current /\ UNCHANGED requested
DiscardQueued(l, current) ==
    IF Queued(l) = {}
    THEN ledger' = l /\ UNCHANGED <<safe, requested>>
    ELSE /\ ledger' = Discarded(l)
         /\ safe' = current
         /\ requested' = Newest(Discarded(l), current)
-----------------------------------------------------------------------------
(***************************************************************************)
(* PowerLimiterInverter::update() inside updateInverters(): the inverter's *)
(* events are booked in the ledger at once, and when the inverter has no   *)
(* target left, what is still queued is discarded.  A pass of the loop     *)
(* ends here or goes on to the ledger.                                     *)
(***************************************************************************)
Current  == IF assumed # None THEN assumed ELSE measured
Expected == IF want # None THEN want ELSE Current

TimedOut == start # None /\ now - start > UpdateLimit

Updating == at = "idle" /\ at' \in {"idle", "ledger"}

(* reset(), and the discard that follows because no target is pending.     *)
ResetMutant(l, current) ==
    /\ want' = None /\ inflight' = None /\ start' = None
    /\ ledger' = l /\ UNCHANGED <<safe, requested>>
Reset(l, current) ==
    /\ want' = None /\ inflight' = None /\ start' = None
    /\ DiscardQueued(l, current)

UpdateNothing ==
    /\ Updating /\ want = None
    /\ Reset(ledger, Current)
    /\ UNCHANGED <<nextSeq, assume, radio, measured, meter, now, world>>

(* The radio queue is congested, or the command is still pending.          *)
UpdateWait ==
    /\ Updating /\ want # None /\ ~ TimedOut
    /\ answer = "pending" \/ inflight = None
    /\ start' = IF start = None THEN now ELSE start
    /\ UNCHANGED <<model, want, inflight, assume, radio, measured, meter, now, world>>

(* updateFailure: after the time limit, or because the command failed.     *)
(* The time limit is tested first: an answer just arrived is not read.     *)
UpdateFailure ==
    /\ Updating /\ want # None
    /\ TimedOut \/ (answer = "failed" /\ inflight # None)
    /\ Reset(ledger, Current)
    /\ strayed' = (strayed \/ (inflight # None /\ answer = "ok"))
    /\ UNCHANGED <<nextSeq, assume, radio, measured, meter, now, output, coming>>

Dispatch(l) ==
    /\ inflight' = want /\ onAir' = want /\ answer' = "pending"
    /\ ledger' = MarkDispatched(l, want)

UpdateDispatch ==
    /\ Updating /\ want # None /\ ~ TimedOut
    /\ inflight = None /\ answer # "pending"
    /\ start' = IF start = None THEN now ELSE start
    /\ Dispatch(ledger)
    /\ UNCHANGED <<nextSeq, safe, requested, want, assume, measured, meter, now, world>>

(* History: a request is sent while an older one is still unsent.          *)
Overtakes(w) == Booked(ledger, w) # {} /\
                \E s \in Queued(ledger) : s < Max(Booked(ledger, w))

Acknowledge ==
    /\ Updating /\ want # None /\ ~ TimedOut
    /\ inflight # None /\ answer = "ok"
    /\ assumed' = inflight /\ assumedUntil' = now + Effect
    /\ strayed' = (strayed \/ Overtakes(inflight))

UpdateReached ==
    /\ Acknowledge /\ want = inflight
    /\ Reset(MarkSent(ledger, inflight), inflight)
    /\ UNCHANGED <<nextSeq, radio, measured, meter, now, output, coming>>

(* The target changed while the command was in flight.                     *)
UpdateNext ==
    /\ Acknowledge /\ want # inflight
    /\ start' = now
    /\ \/ Dispatch(MarkSent(ledger, inflight))
       \/ /\ inflight' = None /\ ledger' = MarkSent(ledger, inflight)
          /\ UNCHANGED radio
    /\ UNCHANGED <<nextSeq, safe, requested, want, measured, meter, now, output, coming>>
-----------------------------------------------------------------------------
(***************************************************************************)
(* The rest of the pass: the ledger, then the planner.                     *)
(***************************************************************************)
(* The meter sample is not older than the request's latestEffectMillis.    *)
DueMutant(r) == r.sent # None
Due(r) == r.sent # None /\ Millis(sample) >= Millis(r.sent + Effect)

(* advanceLedger: from the front, up to the first request not due.         *)
Settled == {s \in Pending(ledger) :
              \A r \in Pending(ledger) : r <= s => Due(ledger[r])}

(* discardStaleQueuedRequests *)
Age(r) == (Millis(now) - Millis(r.created)) % Wrap
Stale  == {s \in Queued(ledger) :
             /\ Millis(ledger[s].created) # 0
             /\ StaleAge < Age(ledger[s]) /\ Age(ledger[s]) < Wrap \div 2}

(* syncPredictiveActuators, advancePredictiveLedger with                   *)
(* pruneInactiveRequests, syncPredictiveActuators.  The first sync shows   *)
(* only when the ledger is empty, and then the second one repeats it.      *)
AdvanceLedger ==
    LET proved == IF Settled = {} THEN safe ELSE ledger[Max(Settled)].goal
        kept   == Restrict(ledger, Pending(ledger) \ (Settled \cup Stale))
    IN  /\ at = "ledger" /\ at' = "plan"
        /\ ledger' = kept
        /\ safe' = IF DOMAIN kept = {} THEN Expected ELSE proved
        /\ requested' = Newest(kept, safe')
        /\ strayed' = (strayed \/ Stale # {})
        /\ UNCHANGED <<nextSeq, target, assume, radio, measured, meter, now, output, coming>>

(* The planner gives the inverter a new target and records the request:    *)
(* updateInverterLimits, recordPredictiveInverterRequest, queueRequest.    *)
NewRequestMutant(w) ==
    [base |-> safe, goal |-> w, state |-> "queued", dispatch |-> FALSE,
     created |-> now, sent |-> None]
NewRequest(w) ==
    [base |-> requested, goal |-> w, state |-> "queued", dispatch |-> FALSE,
     created |-> now, sent |-> None]

(* queueRequest *)
QueueRequestMutant(w) ==
    /\ ledger' = [s \in DOMAIN ledger \cup {nextSeq} |->
                    IF s = nextSeq THEN NewRequest(w) ELSE ledger[s]]
    /\ requested' = w
    /\ UNCHANGED nextSeq
QueueRequest(w) ==
    /\ ledger' = [s \in DOMAIN ledger \cup {nextSeq} |->
                    IF s = nextSeq THEN NewRequest(w) ELSE ledger[s]]
    /\ requested' = w
    /\ nextSeq' = nextSeq + 1

Plan(w) ==
    /\ at = "plan" /\ at' = "idle" /\ w # Expected
    /\ want' = w
    /\ \/ w # requested /\ nextSeq <= MaxRequests /\ QueueRequest(w)
       \/ w = requested /\ UNCHANGED <<ledger, nextSeq, requested>>
    /\ UNCHANGED <<safe, inflight, start, assume, radio, measured, meter, now, world>>

NoPlan ==
    /\ at = "plan" /\ at' = "idle"
    /\ UNCHANGED <<model, target, assume, radio, measured, meter, now, world>>
-----------------------------------------------------------------------------
(***************************************************************************)
(* The radio, the meter and the inverter, between two passes of the loop.  *)
(* A command whose answer arrived, or failed to, may have reached the      *)
(* inverter; it reaches its limit before Effect has passed.                *)
(***************************************************************************)
Between == at = "idle" /\ UNCHANGED <<at, model, target>>

Received ==
    /\ Len(coming) < MaxComing
    /\ coming' = Append(coming, [goal |-> onAir, by |-> now + Effect])

AnswerOk ==
    /\ Between /\ answer = "pending" /\ answer' = "ok"
    /\ Received /\ strayed' = (strayed \/ inflight = None)
    /\ UNCHANGED <<assume, onAir, measured, meter, now, output>>

AnswerFailed ==
    /\ Between /\ answer = "pending" /\ answer' = "failed"
    /\ \/ Received /\ strayed' = TRUE
       \/ UNCHANGED <<coming, strayed>>
    /\ UNCHANGED <<assume, onAir, measured, meter, now, output>>

Reach ==
    /\ Between /\ coming # << >>
    /\ output' = Head(coming).goal /\ coming' = Tail(coming)
    /\ UNCHANGED <<assume, radio, measured, meter, now, strayed>>

MeterSample ==
    /\ Between
    /\ sample' = now /\ seen' = output
    /\ UNCHANGED <<assume, radio, measured, now, world>>

InverterStats ==
    /\ Between
    /\ measured' = output
    /\ assumed' = IF now >= assumedUntil THEN None ELSE assumed
    /\ UNCHANGED <<assumedUntil, radio, meter, now, world>>

(* The loop turns many times in one unit of time: it has taken up a target *)
(* and seen an answer.                                                     *)
Tick ==
    /\ Between /\ now < MaxTime
    /\ want # None => start # None
    /\ inflight # None => answer = "pending"
    /\ \A i \in DOMAIN coming : now + 1 < coming[i].by
    /\ now' = now + 1
    /\ UNCHANGED <<assume, radio, measured, meter, world>>
-----------------------------------------------------------------------------
Update == \/ UpdateNothing \/ UpdateWait \/ UpdateFailure
          \/ UpdateDispatch \/ UpdateReached \/ UpdateNext

Environment == \/ AnswerOk \/ AnswerFailed \/ Reach
               \/ MeterSample \/ InverterStats \/ Tick

Next == \/ Update \/ AdvanceLedger
        \/ \E w \in Setpoints : Plan(w)
        \/ NoPlan \/ Environment

Spec == Init /\ [][Next]_vars
-----------------------------------------------------------------------------
(***************************************************************************)
(* The forecast, made from the ledger after AdvanceLedger.  A chain is a   *)
(* set of seqs; what the meter may show already, and what it will show in  *)
(* the end, are prefixes of the chain of pending requests.                 *)
(***************************************************************************)
Prefixes == {{s \in Pending(ledger) : s < n} : n \in 1 .. nextSeq}

FrontOf(A) == {s \in Pending(ledger) :
                 \A r \in Pending(ledger) : r <= s => r \in A}

CouldBeVisible == {s \in Pending(ledger) :
    ledger[s].sent # None /\ Millis(sample) >= Millis(ledger[s].sent)}
MustBeVisible  == {s \in Pending(ledger) : Due(ledger[s])}

(* hasUncertainFinalEffect *)
UncertainMutant == {}
Uncertain == {s \in Queued(ledger) : ledger[s].dispatch}

(* possibleVisiblePrefixStates, possibleFinalPrefixStates *)
VisiblePrefixes == {P \in Prefixes : /\ FrontOf(MustBeVisible) \subseteq P
                                     /\ P \subseteq FrontOf(CouldBeVisible)}
FinalPrefixes   == {P \in Prefixes :
                      FrontOf(Pending(ledger) \ Uncertain) \subseteq P}

Change(P) == LET Delta(s) == ledger[s].goal - ledger[s].base
             IN  MapThenSumSet(Delta, P)

(* forecast: the outputs the inverter may have in the end.  (The meter     *)
(* shows the house minus the output; the corridor is their least and       *)
(* greatest.)                                                              *)
Forecast == {seen + Change(p[2]) - Change(p[1]) :
                p \in {q \in VisiblePrefixes \X FinalPrefixes : q[1] \subseteq q[2]}}
-----------------------------------------------------------------------------
(* The last requested setpoint, from which duplicates are suppressed and   *)
(* the next request starts, is the target of the newest request still      *)
(* pending, and the safe setpoint when there is none: no failed, discarded *)
(* or settled request keeps it (recomputeRequestedSetpoint and its calls). *)
RequestedFollowsLedger == requested = Newest(ledger, safe)

(* At most one queued request counts as dispatched, and it is the one whose *)
(* limit the inverter has in flight: an answer is booked on the request it *)
(* answers (markLatestQueuedRequestDispatchPending, ...Sent).              *)
DispatchedIsInFlight ==
    \A s \in Queued(ledger) : ledger[s].dispatch =>
        /\ inflight = ledger[s].goal
        /\ \A r \in Queued(ledger) : ledger[r].dispatch => r = s

(* A transmitted request stays in the ledger until the meter sample is     *)
(* past its latest effect: discarding queued requests, stale ones and      *)
(* pruning never forget a command that may still move the meter.           *)
TransmittedStays ==
    [][\A s \in DOMAIN ledger : ledger[s].state = "sent" =>
         \/ s \in DOMAIN ledger' /\ ledger'[s] = ledger[s]
         \/ sample >= ledger[s].sent + Effect]_vars

(* Each pending request starts where the one before it ends, and the first *)
(* at the safe setpoint while it is unsent, so that the deltas of a prefix *)
(* of the chain add up to one of its setpoints.  This holds until the      *)
(* history strays: a command takes effect that the limiter gave up, a      *)
(* request is sent before an older one, or one is discarded as stale.      *)
ChainConnected ==
    strayed \/ \A s \in Pending(ledger) :
        LET before == {r \in Pending(ledger) : r < s}
        IN  IF before = {}
            THEN ledger[s].state = "queued" => ledger[s].base = safe
            ELSE ledger[s].base = ledger[Max(before)].goal

(* Where the commands given so far may lead: the command in flight may     *)
(* still fail, and its failure ends the update, whatever is wanted next.   *)
Given == IF coming # << >> THEN coming[Len(coming)].goal ELSE output

Outcomes == IF inflight # None THEN {Given, inflight, want}
            ELSE {IF want # None THEN want ELSE Given}

(* The request in flight stands behind one that was replaced before it was *)
(* sent.  Its failure takes the older one with it, but the forecast counts *)
(* the older one as sure: only requests in flight are uncertain.           *)
Overtaking == \E s \in Queued(ledger) :
                 ledger[s].dispatch /\ \E r \in Queued(ledger) : r < s

(* Unless the history strayed or a request overtakes another, every outcome *)
(* of the commands is one the planner forecasts, and so lies within its    *)
(* corridor, however the meter, the answers and the inverter are timed: an *)
(* effect is neither forgotten nor counted twice.                          *)
ForecastSound ==
    at = "plan" /\ ~ strayed /\ ~ Overtaking => Outcomes \subseteq Forecast

(* docs/PowerLimiterPredictiveControl.md, Multiple Requests For One        *)
(* Actuator: adding the delta of a request without that of the one before  *)
(* it must not make up a setpoint nobody asked for.  Here for a meter      *)
(* sample from before any pending request was sent.                        *)
NoImpossibleState ==
    at = "plan" /\ CouldBeVisible = {} =>
        Forecast \subseteq {seen} \cup {ledger[s].goal : s \in DOMAIN ledger}
=============================================================================
