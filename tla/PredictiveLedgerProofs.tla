----------------------- MODULE PredictiveLedgerProofs -----------------------
(***************************************************************************)
(* Theorems about PredictiveLedger, for every set of setpoints, all time   *)
(* limits and any number of requests.                                      *)
(***************************************************************************)
EXTENDS PredictiveLedger, SequenceTheorems, WellFoundedInduction, TLAPS

-----------------------------------------------------------------------------
(* A nonempty set of sequence numbers has a greatest one, and Max is it.   *)
LEMMA MaxProperties ==
    ASSUME NEW n \in Nat, NEW S \in SUBSET (1 .. n), S # {}
    PROVE  Max(S) \in S /\ \A y \in S : y <= Max(S)
<1> DEFINE T == {n - x : x \in S}
<1>1. T \in SUBSET Nat /\ T # {}
  <2>1. \A x \in S : x \in Int /\ n - x \in Nat
    OBVIOUS
  <2>2. \E x \in S : n - x \in T
    OBVIOUS
  <2> QED BY <2>1, <2>2
<1>2. \E t \in T : \A u \in T : ~ (<<u, t>> \in OpToRel(<, Nat))
  BY <1>1, NatLessThanWellFounded, WFMin
<1>3. PICK t \in T : \A u \in T : ~ (u < t)
  BY <1>1, <1>2 DEF OpToRel
<1>4. PICK m \in S : t = n - m
  OBVIOUS
<1>5. \A y \in S : n - y \in T
  OBVIOUS
<1>6. \A y \in S : m >= y
  BY <1>3, <1>4, <1>5
<1>7. Max(S) \in S /\ \A y \in S : Max(S) >= y
  BY <1>6 DEF Max
<1>8. \A y \in S : y \in Int
  OBVIOUS
<1> HIDE DEF T
<1> QED BY <1>7, <1>8

(* What TypeOK says of the ledger, of any function l and next number n.    *)
IsLedger(l, n) ==
    DOMAIN l \subseteq 1 .. n - 1 /\ l \in [DOMAIN l -> Request]

(* The newest pending request is one, and none is newer.                   *)
LEMMA NewestIsPending ==
    ASSUME NEW n \in Nat \ {0}, NEW l, IsLedger(l, n), Pending(l) # {}
    PROVE  /\ Max(Pending(l)) \in Pending(l)
           /\ \A s \in Pending(l) : s <= Max(Pending(l))
<1>1. n - 1 \in Nat
  OBVIOUS
<1>2. Pending(l) \in SUBSET (1 .. n - 1)
  BY DEF Pending, IsLedger
<1> QED BY <1>1, <1>2, MaxProperties

(* The setpoint that Newest computes is a setpoint.                        *)
LEMMA NewestType ==
    ASSUME NEW n \in Nat \ {0}, NEW l, IsLedger(l, n), NEW basis \in Setpoints
    PROVE  Newest(l, basis) \in Setpoints
<1>1. CASE Pending(l) = {}
  BY <1>1 DEF Newest
<1>2. CASE Pending(l) # {}
  <2>1. Max(Pending(l)) \in DOMAIN l
    BY <1>2, NewestIsPending DEF Pending
  <2>2. l[Max(Pending(l))] \in Request
    BY <2>1 DEF IsLedger
  <2> QED BY <1>2, <2>2 DEF Newest, Request
<1> QED BY <1>1, <1>2

(* Two ledgers with the same pending requests have the same newest target. *)
LEMMA SameNewest ==
    ASSUME NEW n \in Nat \ {0}, NEW l, NEW k, IsLedger(l, n),
           Pending(l) = Pending(k),
           \A s \in Pending(l) : l[s].goal = k[s].goal, NEW basis
    PROVE  Newest(l, basis) = Newest(k, basis)
  BY NewestIsPending DEF Newest

(* One request of the ledger changes, and keeps its target.                *)
LEMMA ChangedRequest ==
    ASSUME NEW n \in Nat \ {0}, NEW l, IsLedger(l, n),
           NEW m \in Queued(l), NEW r \in Request,
           r.goal = l[m].goal, r.state \in {"queued", "sent"}
    PROVE  /\ IsLedger([l EXCEPT ![m] = r], n)
           /\ \A basis : Newest([l EXCEPT ![m] = r], basis) = Newest(l, basis)
<1> DEFINE k == [l EXCEPT ![m] = r]
<1>1. m \in DOMAIN l /\ l[m].state = "queued"
  BY DEF Queued
<1>2. DOMAIN k = DOMAIN l /\ k[m] = r /\ \A s \in DOMAIN l : s # m => k[s] = l[s]
  BY <1>1 DEF IsLedger
<1>3. k \in [DOMAIN k -> Request]
  BY <1>1 DEF IsLedger
<1> HIDE DEF k
<1>4. IsLedger(k, n)
  BY <1>2, <1>3 DEF IsLedger
<1>5. Pending(k) = Pending(l)
  BY <1>1, <1>2 DEF Pending
<1>6. \A s \in Pending(l) : l[s].goal = k[s].goal
  BY <1>2 DEF Pending
<1>7. \A basis : Newest(k, basis) = Newest(l, basis)
  BY <1>5, <1>6, SameNewest
<1> QED BY <1>4, <1>7 DEF k

(* Marking a dispatch changes neither the types nor the newest target.     *)
LEMMA MarkDispatchedProperties ==
    ASSUME NEW n \in Nat \ {0}, NEW l, IsLedger(l, n), NEW w, NEW basis
    PROVE  /\ IsLedger(MarkDispatched(l, w), n)
           /\ Newest(MarkDispatched(l, w), basis) = Newest(l, basis)
<1>1. CASE Matching(l, w) = {}
  BY <1>1 DEF MarkDispatched
<1>2. CASE Matching(l, w) # {}
  <2> DEFINE m == Max(Matching(l, w))
  <2>1. Matching(l, w) \in SUBSET (1 .. n - 1) /\ n - 1 \in Nat
    BY DEF Matching, Queued, IsLedger
  <2>2. m \in Matching(l, w)
    BY <1>2, <2>1, MaxProperties
  <2>3. m \in Queued(l) /\ m \in DOMAIN l /\ l[m].state = "queued"
    BY <2>2 DEF Matching, Queued
  <2> HIDE DEF m
  <2> DEFINE r == [l[m] EXCEPT !.dispatch = TRUE]
  <2>4. l[m] \in Request
    BY <2>3 DEF IsLedger
  <2>5. r \in Request /\ r.goal = l[m].goal /\ r.state = "queued"
    BY <2>3, <2>4 DEF Request
  <2>6. MarkDispatched(l, w) = [l EXCEPT ![m] = r]
    BY <1>2 DEF MarkDispatched, m
  <2> HIDE DEF r
  <2>7. r.state \in {"queued", "sent"}
    BY <2>5
  <2>8. /\ IsLedger([l EXCEPT ![m] = r], n)
        /\ \A b : Newest([l EXCEPT ![m] = r], b) = Newest(l, b)
    BY <2>3, <2>5, <2>7, ChangedRequest
  <2> QED BY <2>6, <2>8
<1> QED BY <1>1, <1>2

(* Neither does booking an answer.                                         *)
LEMMA MarkSentProperties ==
    ASSUME NEW n \in Nat \ {0}, NEW l, IsLedger(l, n), now \in Times,
           NEW w, NEW basis
    PROVE  /\ IsLedger(MarkSent(l, w), n)
           /\ Newest(MarkSent(l, w), basis) = Newest(l, basis)
<1>1. CASE Booked(l, w) = {}
  BY <1>1 DEF MarkSent
<1>2. CASE Booked(l, w) # {}
  <2> DEFINE m == Max(Booked(l, w))
  <2>1. Booked(l, w) \in SUBSET Queued(l)
    BY DEF Booked, Matching
  <2>2. Booked(l, w) \in SUBSET (1 .. n - 1) /\ n - 1 \in Nat
    BY <2>1 DEF Queued, IsLedger
  <2>3. m \in Booked(l, w)
    BY <1>2, <2>2, MaxProperties
  <2>4. m \in Queued(l) /\ m \in DOMAIN l
    BY <2>1, <2>3 DEF Queued
  <2> HIDE DEF m
  <2> DEFINE r == [l[m] EXCEPT !.state = "sent", !.dispatch = FALSE, !.sent = now]
  <2>5. l[m] \in Request
    BY <2>4 DEF IsLedger
  <2>6. r \in Request /\ r.goal = l[m].goal /\ r.state = "sent"
    BY <2>5 DEF Request
  <2>7. MarkSent(l, w) = [l EXCEPT ![m] = r]
    BY <1>2 DEF MarkSent, m
  <2> HIDE DEF r
  <2>8. r.state \in {"queued", "sent"}
    BY <2>6
  <2>9. /\ IsLedger([l EXCEPT ![m] = r], n)
        /\ \A b : Newest([l EXCEPT ![m] = r], b) = Newest(l, b)
    BY <2>4, <2>6, <2>8, ChangedRequest
  <2> QED BY <2>7, <2>9
<1> QED BY <1>1, <1>2

(* Discarding keeps the types.                                             *)
LEMMA DiscardedType ==
    ASSUME NEW n \in Nat \ {0}, NEW l, IsLedger(l, n)
    PROVE  IsLedger(Discarded(l), n)
<1>1. \A s \in DOMAIN l : l[s] \in Request
  BY DEF IsLedger
<1>2. \A r \in Request : [r EXCEPT !.state = "discarded"] \in Request
  BY DEF Request
<1>3. \A s \in DOMAIN l : (IF s \in Queued(l) THEN [l[s] EXCEPT !.state = "discarded"]
                                              ELSE l[s]) \in Request
  BY <1>1, <1>2
<1> QED BY <1>3 DEF Discarded, IsLedger
-----------------------------------------------------------------------------
(* TypeOK in two parts: the ledger with its setpoints, and the rest, which *)
(* also says that a command whose answer is pending carries a limit.       *)
ModelOK ==
    /\ nextSeq \in Nat \ {0} /\ IsLedger(ledger, nextSeq)
    /\ safe \in Setpoints /\ requested \in Setpoints

RestOK ==
    /\ want \in Setpoints \cup {None} /\ inflight \in Setpoints \cup {None}
    /\ start \in Times \cup {None}
    /\ assumed \in Setpoints \cup {None} /\ assumedUntil \in Times
    /\ onAir \in Setpoints \cup {None}
    /\ answer \in {"none", "pending", "ok", "failed"}
    /\ measured \in Setpoints /\ sample \in Times /\ seen \in Setpoints
    /\ now \in Times /\ output \in Setpoints
    /\ coming \in Seq([goal : Setpoints, by : Times]) /\ strayed \in BOOLEAN
    /\ at \in {"idle", "ledger", "plan"}
    /\ answer = "pending" => onAir \in Setpoints

(* The two parts give TypeOK.                                              *)
LEMMA TypeParts == ModelOK /\ RestOK => TypeOK
  BY DEF TypeOK, ModelOK, RestOK, IsLedger

(* The outputs update() falls back to are setpoints.                       *)
LEMMA OutputTypes ==
    ASSUME RestOK
    PROVE  Current \in Setpoints /\ Expected \in Setpoints
  BY DEF RestOK, Current, Expected

(* A discard leaves a typed ledger and recomputes the requested setpoint.  *)
LEMMA DiscardQueuedProperties ==
    ASSUME ModelOK, NEW l, IsLedger(l, nextSeq), requested = Newest(l, safe),
           NEW current \in Setpoints, DiscardQueued(l, current)
    PROVE  /\ IsLedger(ledger', nextSeq)
           /\ safe' \in Setpoints /\ requested' \in Setpoints
           /\ requested' = Newest(ledger', safe')
<1>1. CASE Queued(l) = {}
  BY <1>1 DEF DiscardQueued, ModelOK
<1>2. CASE Queued(l) # {}
  <2>1. ledger' = Discarded(l) /\ safe' = current
        /\ requested' = Newest(Discarded(l), current)
    BY <1>2 DEF DiscardQueued
  <2>2. IsLedger(Discarded(l), nextSeq)
    BY DiscardedType DEF ModelOK
  <2>3. Newest(Discarded(l), current) \in Setpoints
    BY <2>2, NewestType DEF ModelOK
  <2> QED BY <2>1, <2>2, <2>3
<1> QED BY <1>1, <1>2

(* So does the advance of the ledger, whatever it settles and discards.    *)
LEMMA AdvanceLedgerProperties ==
    ASSUME ModelOK, RestOK, AdvanceLedger
    PROVE  /\ IsLedger(ledger', nextSeq)
           /\ safe' \in Setpoints /\ requested' \in Setpoints
           /\ requested' = Newest(ledger', safe')
<1> DEFINE kept == Restrict(ledger, Pending(ledger) \ (Settled \cup Stale))
           proved == IF Settled = {} THEN safe ELSE ledger[Max(Settled)].goal
<1>1. /\ ledger' = kept
      /\ safe' = IF DOMAIN kept = {} THEN Expected ELSE proved
      /\ requested' = Newest(kept, safe')
  BY DEF AdvanceLedger
<1>2. IsLedger(kept, nextSeq)
  BY DEF ModelOK, IsLedger, Restrict, Pending
<1>3. proved \in Setpoints
  <2>1. CASE Settled = {}
    BY <2>1 DEF ModelOK
  <2>2. CASE Settled # {}
    <3>1. Settled \in SUBSET (1 .. nextSeq - 1) /\ nextSeq - 1 \in Nat
      BY DEF Settled, Pending, ModelOK, IsLedger
    <3>2. Max(Settled) \in Settled
      BY <2>2, <3>1, MaxProperties
    <3>3. Max(Settled) \in DOMAIN ledger
      BY <3>2 DEF Settled, Pending
    <3>4. ledger[Max(Settled)] \in Request
      BY <3>3 DEF ModelOK, IsLedger
    <3> QED BY <2>2, <3>4 DEF Request
  <2> QED BY <2>1, <2>2
<1> HIDE DEF kept, proved
<1>4. safe' \in Setpoints
  BY <1>1, <1>3, OutputTypes
<1>5. Newest(kept, safe') \in Setpoints
  BY <1>2, <1>4, NewestType DEF ModelOK
<1> QED BY <1>1, <1>2, <1>4, <1>5

(* A new request gets a fresh number and is the newest target.             *)
LEMMA QueueRequestProperties ==
    ASSUME ModelOK, RestOK, NEW w \in Setpoints, QueueRequest(w)
    PROVE  /\ nextSeq' \in Nat \ {0} /\ IsLedger(ledger', nextSeq')
           /\ requested' = w /\ requested' = Newest(ledger', safe)
<1> DEFINE D == DOMAIN ledger \cup {nextSeq}
<1>1. /\ ledger' = [s \in D |-> IF s = nextSeq THEN NewRequest(w) ELSE ledger[s]]
      /\ requested' = w /\ nextSeq' = nextSeq + 1
  BY DEF QueueRequest
<1>2. NewRequest(w) \in Request /\ NewRequest(w).state = "queued"
      /\ NewRequest(w).goal = w
  BY DEF ModelOK, RestOK, NewRequest, Request
<1>3. nextSeq \in Nat \ {0} /\ D \subseteq 1 .. nextSeq
  BY DEF ModelOK, IsLedger
<1>4. \A s \in DOMAIN ledger : ledger[s] \in Request
  BY DEF ModelOK, IsLedger
<1>5. ledger' \in [D -> Request] /\ DOMAIN ledger' = D
  BY <1>1, <1>2, <1>4
<1>6. nextSeq' \in Nat \ {0} /\ nextSeq' - 1 = nextSeq
  BY <1>1, <1>3
<1>7. IsLedger(ledger', nextSeq')
  BY <1>3, <1>5, <1>6 DEF IsLedger
<1>8. nextSeq \in Pending(ledger') /\ ledger'[nextSeq].goal = w
  BY <1>1, <1>2 DEF Pending
<1>9. Max(Pending(ledger')) = nextSeq
  <2>1. Max(Pending(ledger')) \in Pending(ledger') /\ nextSeq <= Max(Pending(ledger'))
    BY <1>6, <1>7, <1>8, NewestIsPending
  <2>2. Max(Pending(ledger')) \in 1 .. nextSeq
    BY <2>1, <1>3, <1>5 DEF Pending
  <2> QED BY <1>3, <2>1, <2>2
<1> QED BY <1>1, <1>6, <1>7, <1>8, <1>9 DEF Newest
-----------------------------------------------------------------------------
(* The inductive invariant.  The duplicate test of Plan and the base of a  *)
(* new request need the requested setpoint to be well typed, which follows *)
(* only together with the ledger's type: so the two are proved at once.    *)
LedgerInv == ModelOK /\ RestOK /\ RequestedFollowsLedger

(* The invariant holds at the start.                                       *)
LEMMA InitLedgerInv == Init => LedgerInv
<1> SUFFICES ASSUME Init PROVE LedgerInv
  OBVIOUS
<1>1. DOMAIN ledger = {} /\ ledger \in [DOMAIN ledger -> Request]
  BY DEF Init
<1>2. IsLedger(ledger, nextSeq)
  BY <1>1 DEF IsLedger
<1>3. ModelOK
  BY <1>2, LedgerAssumption DEF Init, ModelOK
<1>4. coming \in Seq([goal : Setpoints, by : Times])
  BY EmptySeq DEF Init
<1>5. RestOK
  BY <1>4, LedgerAssumption DEF Init, RestOK, Times
<1>6. Pending(ledger) = {}
  BY <1>1 DEF Pending
<1>7. RequestedFollowsLedger
  BY <1>6 DEF Init, RequestedFollowsLedger, Newest
<1> QED BY <1>3, <1>5, <1>7 DEF LedgerInv

(* The update, action by action: what it does to the ledger.               *)
LEMMA ResetStep ==
    ASSUME LedgerInv, NEW l, IsLedger(l, nextSeq), requested = Newest(l, safe),
           NEW current \in Setpoints, Reset(l, current), nextSeq' = nextSeq
    PROVE  /\ ModelOK' /\ RequestedFollowsLedger'
           /\ want' = None /\ inflight' = None /\ start' = None
<1>1. ModelOK
  BY DEF LedgerInv
<1>2. DiscardQueued(l, current) /\ want' = None /\ inflight' = None /\ start' = None
  BY DEF Reset
<1>3. /\ IsLedger(ledger', nextSeq)
      /\ safe' \in Setpoints /\ requested' \in Setpoints
      /\ requested' = Newest(ledger', safe')
  BY <1>1, <1>2, DiscardQueuedProperties
<1> QED BY <1>1, <1>2, <1>3 DEF ModelOK, RequestedFollowsLedger

(* A step that only marks or books a request keeps the model in order.     *)
LEMMA MarkedStep ==
    ASSUME LedgerInv, NEW l, IsLedger(l, nextSeq), Newest(l, safe) = Newest(ledger, safe),
           ledger' = l, UNCHANGED <<nextSeq, safe, requested>>
    PROVE  ModelOK' /\ RequestedFollowsLedger'
  BY DEF LedgerInv, ModelOK, RequestedFollowsLedger

(* So does a step that leaves the model alone.                             *)
LEMMA UnchangedModel ==
    ASSUME LedgerInv, UNCHANGED model
    PROVE  ModelOK' /\ RequestedFollowsLedger'
  BY DEF LedgerInv, ModelOK, RequestedFollowsLedger, model

(* Every outcome of update() keeps the invariant.                          *)
LEMMA UpdateLedgerInv ==
    ASSUME LedgerInv, Update
    PROVE  LedgerInv'
<1>1. /\ ModelOK /\ RestOK /\ RequestedFollowsLedger
      /\ nextSeq \in Nat \ {0} /\ IsLedger(ledger, nextSeq) /\ now \in Times
  BY DEF LedgerInv, ModelOK, RestOK
<1>2. requested = Newest(ledger, safe)
  BY <1>1 DEF RequestedFollowsLedger
<1>3. Current \in Setpoints
  BY <1>1, OutputTypes
<1>4. ASSUME NEW l, IsLedger(l, nextSeq), requested = Newest(l, safe),
             NEW w \in Setpoints, Dispatch(l), want = w,
             UNCHANGED <<nextSeq, safe, requested>>
      PROVE  /\ ModelOK' /\ RequestedFollowsLedger'
             /\ inflight' \in Setpoints /\ onAir' \in Setpoints /\ answer' = "pending"
  <2>1. ledger' = MarkDispatched(l, w) /\ inflight' = w /\ onAir' = w /\ answer' = "pending"
    BY <1>4 DEF Dispatch
  <2>2. IsLedger(MarkDispatched(l, w), nextSeq)
        /\ Newest(MarkDispatched(l, w), safe) = Newest(l, safe)
    BY <1>1, <1>4, MarkDispatchedProperties
  <2>3. ModelOK' /\ RequestedFollowsLedger'
    BY <1>2, <1>4, <2>1, <2>2, MarkedStep
  <2> QED BY <1>4, <2>1, <2>3
<1>5. IsLedger(MarkSent(ledger, inflight), nextSeq)
      /\ Newest(MarkSent(ledger, inflight), safe) = requested
  BY <1>1, <1>2, MarkSentProperties
<1>6. CASE UpdateNothing
  <2>1. ModelOK' /\ RequestedFollowsLedger'
        /\ want' = None /\ inflight' = None /\ start' = None
    BY <1>1, <1>2, <1>3, <1>6, ResetStep DEF UpdateNothing
  <2>2. RestOK'
    BY <1>1, <1>6, <2>1 DEF UpdateNothing, Updating, RestOK, assume, radio, meter, world
  <2> QED BY <2>1, <2>2 DEF LedgerInv
<1>7. CASE UpdateWait
  <2>1. ModelOK' /\ RequestedFollowsLedger'
    BY <1>7, UnchangedModel DEF UpdateWait
  <2>2. RestOK'
    BY <1>1, <1>7 DEF UpdateWait, Updating, RestOK, assume, radio, meter, world
  <2> QED BY <2>1, <2>2 DEF LedgerInv
<1>8. CASE UpdateFailure
  <2>1. ModelOK' /\ RequestedFollowsLedger'
        /\ want' = None /\ inflight' = None /\ start' = None
    BY <1>1, <1>2, <1>3, <1>8, ResetStep DEF UpdateFailure
  <2>2. strayed' \in BOOLEAN
    BY <1>8 DEF UpdateFailure
  <2>3. RestOK'
    BY <1>1, <1>8, <2>1, <2>2 DEF UpdateFailure, Updating, RestOK, assume, radio, meter
  <2> QED BY <2>1, <2>3 DEF LedgerInv
<1>9. CASE UpdateDispatch
  <2>1. want \in Setpoints
    BY <1>1, <1>9 DEF UpdateDispatch, RestOK
  <2>2. /\ ModelOK' /\ RequestedFollowsLedger'
        /\ inflight' \in Setpoints /\ onAir' \in Setpoints /\ answer' = "pending"
    BY <1>1, <1>2, <1>4, <1>9, <2>1 DEF UpdateDispatch
  <2>3. RestOK'
    BY <1>1, <1>9, <2>2 DEF UpdateDispatch, Updating, RestOK, assume, meter, world
  <2> QED BY <2>2, <2>3 DEF LedgerInv
<1>10. ASSUME Acknowledge
       PROVE  /\ inflight \in Setpoints /\ want \in Setpoints
              /\ assumed' \in Setpoints /\ assumedUntil' \in Times
              /\ strayed' \in BOOLEAN /\ at' \in {"idle", "ledger"}
  BY <1>1, <1>10, LedgerAssumption DEF Acknowledge, Updating, RestOK, Times
<1>11. CASE UpdateReached
  <2>1. /\ inflight \in Setpoints /\ want \in Setpoints
        /\ assumed' \in Setpoints /\ assumedUntil' \in Times
        /\ strayed' \in BOOLEAN /\ at' \in {"idle", "ledger"}
    BY <1>10, <1>11 DEF UpdateReached
  <2>2. ModelOK' /\ RequestedFollowsLedger'
        /\ want' = None /\ inflight' = None /\ start' = None
    BY <1>5, <1>11, <2>1, ResetStep DEF UpdateReached
  <2>3. RestOK'
    BY <1>1, <1>11, <2>1, <2>2 DEF UpdateReached, RestOK, radio, meter
  <2> QED BY <2>2, <2>3 DEF LedgerInv
<1>12. CASE UpdateNext
  <2>1. /\ inflight \in Setpoints /\ want \in Setpoints
        /\ assumed' \in Setpoints /\ assumedUntil' \in Times
        /\ strayed' \in BOOLEAN /\ at' \in {"idle", "ledger"}
    BY <1>10, <1>12 DEF UpdateNext
  <2>2. CASE Dispatch(MarkSent(ledger, inflight))
    <3>1. /\ ModelOK' /\ RequestedFollowsLedger'
          /\ inflight' \in Setpoints /\ onAir' \in Setpoints /\ answer' = "pending"
      BY <1>4, <1>5, <1>12, <2>1, <2>2 DEF UpdateNext
    <3>2. RestOK'
      BY <1>1, <1>12, <2>1, <3>1 DEF UpdateNext, RestOK, meter
    <3> QED BY <3>1, <3>2 DEF LedgerInv
  <2>3. CASE /\ inflight' = None /\ ledger' = MarkSent(ledger, inflight)
             /\ UNCHANGED radio
    <3>1. ModelOK' /\ RequestedFollowsLedger'
      BY <1>2, <1>5, <1>12, <2>3, MarkedStep DEF UpdateNext
    <3>2. RestOK'
      BY <1>1, <1>12, <2>1, <2>3 DEF UpdateNext, RestOK, radio, meter
    <3> QED BY <3>1, <3>2 DEF LedgerInv
  <2> QED BY <1>12, <2>2, <2>3 DEF UpdateNext
<1> QED BY <1>6, <1>7, <1>8, <1>9, <1>11, <1>12 DEF Update

(* The rest of the pass keeps it.                                          *)
LEMMA PlanningLedgerInv ==
    ASSUME LedgerInv, AdvanceLedger \/ NoPlan \/ \E w \in Setpoints : Plan(w)
    PROVE  LedgerInv'
<1>1. ModelOK /\ RestOK /\ RequestedFollowsLedger
  BY DEF LedgerInv
<1>2. CASE AdvanceLedger
  <2>1. nextSeq' = nextSeq /\ strayed' \in BOOLEAN /\ at' = "plan"
    BY <1>2 DEF AdvanceLedger
  <2>2. ModelOK' /\ RequestedFollowsLedger'
    BY <1>1, <1>2, <2>1, AdvanceLedgerProperties DEF ModelOK, RequestedFollowsLedger
  <2>3. RestOK'
    BY <1>1, <1>2, <2>1 DEF AdvanceLedger, RestOK, target, assume, radio, meter
  <2> QED BY <2>2, <2>3 DEF LedgerInv
<1>3. CASE NoPlan
  <2>1. ModelOK' /\ RequestedFollowsLedger'
    BY <1>3, UnchangedModel DEF NoPlan
  <2>2. RestOK'
    BY <1>1, <1>3 DEF NoPlan, RestOK, target, assume, radio, meter, world
  <2> QED BY <2>1, <2>2 DEF LedgerInv
<1>4. ASSUME NEW w \in Setpoints, Plan(w)
      PROVE  LedgerInv'
  <2>1. safe' = safe /\ want' = w /\ at' = "idle"
    BY <1>4 DEF Plan
  <2>2. ModelOK' /\ RequestedFollowsLedger'
    <3>1. CASE QueueRequest(w)
      BY <1>1, <2>1, <3>1, QueueRequestProperties DEF ModelOK, RequestedFollowsLedger
    <3>2. CASE UNCHANGED <<ledger, nextSeq, requested>>
      BY <2>1, <3>2, UnchangedModel DEF model
    <3> QED BY <1>4, <3>1, <3>2 DEF Plan
  <2>3. RestOK'
    BY <1>1, <1>4, <2>1 DEF Plan, RestOK, assume, radio, meter, world
  <2> QED BY <2>2, <2>3 DEF LedgerInv
<1> QED BY <1>2, <1>3, <1>4

(* The radio, the meter, the inverter and time keep it.                    *)
LEMMA EnvironmentLedgerInv ==
    ASSUME LedgerInv, Environment
    PROVE  LedgerInv'
<1>1. ModelOK /\ RestOK /\ RequestedFollowsLedger
  BY DEF LedgerInv
<1>2. Between
  BY DEF Environment, AnswerOk, AnswerFailed, Reach, MeterSample, InverterStats, Tick
<1>3. ModelOK' /\ RequestedFollowsLedger'
  BY <1>2, UnchangedModel DEF Between
<1>4. at' = at /\ UNCHANGED target
  BY <1>2 DEF Between
<1>5. ASSUME Received, answer = "pending"
      PROVE  coming' \in Seq([goal : Setpoints, by : Times])
  <2>1. onAir \in Setpoints
    BY <1>1, <1>5 DEF RestOK
  <2>2. [goal |-> onAir, by |-> now + Effect] \in [goal : Setpoints, by : Times]
    BY <1>1, <2>1, LedgerAssumption DEF RestOK, Times
  <2>3. coming \in Seq([goal : Setpoints, by : Times])
    BY <1>1 DEF RestOK
  <2> QED BY <1>5, <2>2, <2>3, AppendProperties DEF Received
<1>6. ASSUME AnswerOk PROVE RestOK'
  BY <1>1, <1>4, <1>5, <1>6 DEF AnswerOk, RestOK, target, assume, meter
<1>7. ASSUME AnswerFailed PROVE RestOK'
  BY <1>1, <1>4, <1>5, <1>7 DEF AnswerFailed, RestOK, target, assume, meter
<1>8. ASSUME Reach PROVE RestOK'
  <2>1. coming \in Seq([goal : Setpoints, by : Times]) /\ coming # << >>
    BY <1>1, <1>8 DEF Reach, RestOK
  <2>2. /\ Head(coming) \in [goal : Setpoints, by : Times]
        /\ Tail(coming) \in Seq([goal : Setpoints, by : Times])
    BY <2>1, HeadTailProperties
  <2>3. Head(coming).goal \in Setpoints
    BY <2>2
  <2> QED BY <1>1, <1>4, <1>8, <2>2, <2>3 DEF Reach, RestOK, target, assume, radio, meter
<1>9. ASSUME MeterSample PROVE RestOK'
  BY <1>1, <1>4, <1>9 DEF MeterSample, RestOK, target, assume, radio, world
<1>10. ASSUME InverterStats PROVE RestOK'
  BY <1>1, <1>4, <1>10 DEF InverterStats, RestOK, target, radio, meter, world
<1>11. ASSUME Tick PROVE RestOK'
  BY <1>1, <1>4, <1>11 DEF Tick, RestOK, Times, target, assume, radio, meter, world
<1>12. RestOK'
  BY <1>6, <1>7, <1>8, <1>9, <1>10, <1>11 DEF Environment
<1> QED BY <1>3, <1>12 DEF LedgerInv

(* The invariant is inductive.                                             *)
LEMMA NextLedgerInv == LedgerInv /\ [Next]_vars => LedgerInv'
<1> SUFFICES ASSUME LedgerInv, [Next]_vars PROVE LedgerInv'
  OBVIOUS
<1>1. CASE UNCHANGED vars
  BY <1>1 DEF vars, model, target, assume, radio, meter, world, LedgerInv,
              ModelOK, RestOK, RequestedFollowsLedger
<1>2. CASE Next
  BY <1>2, UpdateLedgerInv, PlanningLedgerInv, EnvironmentLedgerInv DEF Next
<1> QED BY <1>1, <1>2

(* In every behaviour the limiter's variables keep their types: sequence   *)
(* numbers stay below the next one, and each setpoint the model computes,  *)
(* commits or falls back to is one of those the planner may choose.        *)
THEOREM LedgerTypeCorrect == Spec => []TypeOK
<1>1. Init => LedgerInv
  BY InitLedgerInv
<1>2. LedgerInv /\ [Next]_vars => LedgerInv'
  BY NextLedgerInv
<1>3. LedgerInv => TypeOK
  BY TypeParts DEF LedgerInv
<1> QED BY <1>1, <1>2, <1>3, PTL DEF Spec

(* In every behaviour the setpoint that duplicates are tested against is   *)
(* the target of the newest pending request, or the safe setpoint          *)
(* (recomputeRequestedSetpoint, and every operation that must call it).    *)
THEOREM RequestedSetpointCorrect == Spec => []RequestedFollowsLedger
<1>1. Init => LedgerInv
  BY InitLedgerInv
<1>2. LedgerInv /\ [Next]_vars => LedgerInv'
  BY NextLedgerInv
<1>3. LedgerInv => RequestedFollowsLedger
  BY DEF LedgerInv
<1> QED BY <1>1, <1>2, <1>3, PTL DEF Spec
-----------------------------------------------------------------------------
(* Dispatched requests.  The invariant is inductive given the types: a     *)
(* command is only dispatched when none is in flight, and then no queued   *)
(* request is marked; an answer unmarks the one there is.                  *)
NoneDispatched(l) == \A s \in Queued(l) : ~ l[s].dispatch

OneDispatched(l, w) ==
    \A s \in Queued(l) : l[s].dispatch =>
        w = l[s].goal /\ \A r \in Queued(l) : l[r].dispatch => r = s

(* Discarding leaves no queued request, hence none that is marked.         *)
LEMMA DiscardedNone ==
    ASSUME NEW l
    PROVE  Queued(Discarded(l)) = {}
  BY DEF Discarded, Queued

(* With no command in flight, no queued request is marked as dispatched.   *)
LEMMA IdleNoneDispatched ==
    ASSUME LedgerInv, DispatchedIsInFlight, inflight = None
    PROVE  NoneDispatched(ledger)
<1>1. \A s \in Queued(ledger) : ledger[s].goal \in Setpoints
  BY DEF LedgerInv, ModelOK, IsLedger, Queued, Request
<1>2. None \notin Setpoints
  BY LedgerAssumption
<1> QED BY <1>1, <1>2 DEF DispatchedIsInFlight, NoneDispatched

(* Marking a ledger without a mark leaves one mark, on the right target.   *)
LEMMA MarkDispatchedOne ==
    ASSUME NEW n \in Nat \ {0}, NEW l, IsLedger(l, n), NEW w, NoneDispatched(l)
    PROVE  OneDispatched(MarkDispatched(l, w), w)
<1>1. CASE Matching(l, w) = {}
  BY <1>1 DEF MarkDispatched, NoneDispatched, OneDispatched
<1>2. CASE Matching(l, w) # {}
  <2> DEFINE m == Max(Matching(l, w))
             k == MarkDispatched(l, w)
  <2>1. Matching(l, w) \in SUBSET (1 .. n - 1) /\ n - 1 \in Nat
    BY DEF Matching, Queued, IsLedger
  <2>2. m \in Matching(l, w)
    BY <1>2, <2>1, MaxProperties
  <2>3. m \in DOMAIN l /\ l[m].state = "queued" /\ l[m].goal = w /\ l[m] \in Request
    BY <2>2 DEF Matching, Queued, IsLedger
  <2>4. k = [l EXCEPT ![m] = [l[m] EXCEPT !.dispatch = TRUE]]
    BY <1>2 DEF MarkDispatched
  <2> HIDE DEF m, k
  <2>5. k[m].goal = w
    BY <2>3, <2>4 DEF IsLedger, Request
  <2>6. DOMAIN k = DOMAIN l /\ \A s \in DOMAIN l : s # m => k[s] = l[s]
    BY <2>3, <2>4 DEF IsLedger
  <2>7. \A s \in Queued(k) : k[s].dispatch => s = m
    BY <2>6 DEF Queued, NoneDispatched
  <2>8. OneDispatched(k, w)
    BY <2>5, <2>7 DEF OneDispatched
  <2> QED BY <2>8 DEF k
<1> QED BY <1>1, <1>2

(* Booking the answer of the command in flight takes the one mark away.    *)
LEMMA MarkSentNone ==
    ASSUME NEW n \in Nat \ {0}, NEW l, IsLedger(l, n), NEW w, OneDispatched(l, w)
    PROVE  NoneDispatched(MarkSent(l, w))
<1>1. CASE Booked(l, w) = {}
  <2>1. MarkSent(l, w) = l
    BY <1>1 DEF MarkSent
  <2>2. \A s \in Queued(l) : l[s].dispatch => s \in Booked(l, w)
    BY DEF OneDispatched, Booked, Matching
  <2> QED BY <1>1, <2>1, <2>2 DEF NoneDispatched
<1>2. CASE Booked(l, w) # {}
  <2> DEFINE m == Max(Booked(l, w))
             k == MarkSent(l, w)
  <2>1. Booked(l, w) \in SUBSET Queued(l)
    BY DEF Booked, Matching
  <2>2. Booked(l, w) \in SUBSET (1 .. n - 1) /\ n - 1 \in Nat
    BY <2>1 DEF Queued, IsLedger
  <2>3. m \in Booked(l, w)
    BY <1>2, <2>2, MaxProperties
  <2>4. m \in DOMAIN l /\ l[m] \in Request
    BY <2>1, <2>3 DEF Queued, IsLedger
  <2>5. k = [l EXCEPT ![m] = [l[m] EXCEPT !.state = "sent", !.dispatch = FALSE, !.sent = now]]
    BY <1>2 DEF MarkSent
  <2>6. \A s \in Queued(l) : l[s].dispatch => s = m
    <3>1. SUFFICES ASSUME NEW s \in Queued(l), l[s].dispatch PROVE s = m
      OBVIOUS
    <3>2. s \in {r \in Matching(l, w) : l[r].dispatch}
      BY <3>1 DEF OneDispatched, Matching
    <3>3. l[m].dispatch /\ m \in Queued(l)
      BY <2>3, <3>2, <2>1 DEF Booked
    <3> QED BY <3>1, <3>3 DEF OneDispatched
  <2> HIDE DEF m, k
  <2>7. k[m].state = "sent"
    BY <2>4, <2>5 DEF Request
  <2>8. DOMAIN k = DOMAIN l /\ \A s \in DOMAIN l : s # m => k[s] = l[s]
    BY <2>4, <2>5 DEF IsLedger
  <2>9. NoneDispatched(k)
    BY <2>6, <2>7, <2>8 DEF Queued, NoneDispatched
  <2> QED BY <2>9 DEF k
<1> QED BY <1>1, <1>2

(* After reset() and the discard nothing is queued any more.               *)
LEMMA ResetNone ==
    ASSUME NEW l, NEW current, Reset(l, current)
    PROVE  DispatchedIsInFlight'
<1>1. Queued(ledger') = {}
  BY DiscardedNone DEF Reset, DiscardQueued
<1>2. Queued(ledger)' = {}
  BY <1>1 DEF Queued
<1> QED BY <1>2 DEF DispatchedIsInFlight

(* Every step keeps the marked request and the command in flight together. *)
LEMMA NextDispatched ==
    ASSUME LedgerInv, DispatchedIsInFlight, [Next]_vars
    PROVE  DispatchedIsInFlight'
<1>1. nextSeq \in Nat \ {0} /\ IsLedger(ledger, nextSeq) /\ now \in Times
  BY DEF LedgerInv, ModelOK, RestOK
<1>2. OneDispatched(ledger, inflight)
  BY DEF DispatchedIsInFlight, OneDispatched
<1>3. ASSUME UNCHANGED <<ledger, inflight>>
      PROVE  DispatchedIsInFlight'
  BY <1>3 DEF DispatchedIsInFlight, Queued
<1>4. ASSUME OneDispatched(ledger', inflight')
      PROVE  DispatchedIsInFlight'
  BY <1>4 DEF DispatchedIsInFlight, OneDispatched, Queued
<1>5. ASSUME NEW l, IsLedger(l, nextSeq), NoneDispatched(l), Dispatch(l)
      PROVE  DispatchedIsInFlight'
  <2>1. ledger' = MarkDispatched(l, want) /\ inflight' = want
    BY <1>5 DEF Dispatch
  <2>2. OneDispatched(MarkDispatched(l, want), want)
    BY <1>1, <1>5, MarkDispatchedOne
  <2> QED BY <1>4, <2>1, <2>2
<1>6. IsLedger(MarkSent(ledger, inflight), nextSeq)
      /\ NoneDispatched(MarkSent(ledger, inflight))
  BY <1>1, <1>2, MarkSentProperties, MarkSentNone
<1>7. CASE UpdateNothing
  BY <1>7, ResetNone DEF UpdateNothing
<1>8. CASE UpdateWait
  BY <1>3, <1>8 DEF UpdateWait, model
<1>9. CASE UpdateFailure
  BY <1>9, ResetNone DEF UpdateFailure
<1>10. CASE UpdateDispatch
  BY <1>1, <1>5, <1>10, IdleNoneDispatched DEF UpdateDispatch
<1>11. CASE UpdateReached
  BY <1>11, ResetNone DEF UpdateReached
<1>12. CASE UpdateNext
  <2>1. CASE Dispatch(MarkSent(ledger, inflight))
    BY <1>5, <1>6, <2>1
  <2>2. CASE inflight' = None /\ ledger' = MarkSent(ledger, inflight)
    <3>1. OneDispatched(ledger', inflight')
      BY <1>6, <2>2 DEF NoneDispatched, OneDispatched
    <3> QED BY <1>4, <3>1
  <2> QED BY <1>12, <2>1, <2>2 DEF UpdateNext
<1>13. CASE AdvanceLedger
  <2>1. PICK K \in SUBSET DOMAIN ledger : ledger' = Restrict(ledger, K)
    BY <1>13 DEF AdvanceLedger, Pending
  <2>2. \A s \in Queued(ledger') : s \in Queued(ledger) /\ ledger'[s] = ledger[s]
    BY <2>1 DEF Queued, Restrict
  <2>3. inflight' = inflight
    BY <1>13 DEF AdvanceLedger, target
  <2>4. OneDispatched(ledger', inflight')
    BY <1>2, <2>2, <2>3 DEF OneDispatched
  <2> QED BY <1>4, <2>4
<1>14. ASSUME NEW w \in Setpoints, Plan(w)
       PROVE  DispatchedIsInFlight'
  <2>1. CASE QueueRequest(w)
    <3>1. \A s \in Queued(ledger') : ledger'[s].dispatch =>
              s \in Queued(ledger) /\ ledger'[s] = ledger[s]
      BY <2>1 DEF QueueRequest, NewRequest, Queued
    <3>2. inflight' = inflight
      BY <1>14 DEF Plan
    <3>3. OneDispatched(ledger', inflight')
      BY <1>2, <3>1, <3>2 DEF OneDispatched
    <3> QED BY <1>4, <3>3
  <2>2. CASE UNCHANGED <<ledger, nextSeq, requested>>
    BY <1>3, <1>14, <2>2 DEF Plan
  <2> QED BY <1>14, <2>1, <2>2 DEF Plan
<1>15. CASE NoPlan
  BY <1>3, <1>15 DEF NoPlan, model, target
<1>16. CASE Environment
  <2>1. Between
    BY <1>16 DEF Environment, AnswerOk, AnswerFailed, Reach, MeterSample, InverterStats, Tick
  <2> QED BY <1>3, <2>1 DEF Between, model, target
<1>17. CASE UNCHANGED vars
  BY <1>3, <1>17 DEF vars, model, target
<1> QED BY <1>7, <1>8, <1>9, <1>10, <1>11, <1>12, <1>13, <1>14, <1>15, <1>16, <1>17
        DEF Next, Update

(* In every behaviour at most one queued request is marked as dispatched,  *)
(* and it has the limit in flight: the answer that arrives next is booked  *)
(* on the request it answers, whatever was planned in the meantime.        *)
THEOREM DispatchedRequestCorrect == Spec => []DispatchedIsInFlight
<1> DEFINE Inv == LedgerInv /\ DispatchedIsInFlight
<1>1. Init => Inv
  <2>1. Init => DispatchedIsInFlight
    BY DEF Init, DispatchedIsInFlight, Queued
  <2> QED BY <2>1, InitLedgerInv
<1>2. Inv /\ [Next]_vars => Inv'
  BY NextLedgerInv, NextDispatched
<1>3. Inv => DispatchedIsInFlight
  OBVIOUS
<1> QED BY <1>1, <1>2, <1>3, PTL DEF Spec
-----------------------------------------------------------------------------
(* Transmitted requests stay.  Before millis() starts again from zero the  *)
(* wrapped comparison of Due is the true one; the clocks' invariant says    *)
(* that no time in the ledger lies ahead of the model's last moment.        *)
Clocks ==
    /\ now <= MaxTime /\ sample <= now
    /\ \A s \in DOMAIN ledger : ledger[s].state = "sent" =>
          ledger[s].sent \in Times /\ ledger[s].sent <= now

(* k still has every transmitted request of l, as it was.                  *)
KeepsSent(l, k) ==
    \A s \in DOMAIN l : l[s].state = "sent" => s \in DOMAIN k /\ k[s] = l[s]

(* Every transmitted request of k was one of l, or was sent just now.       *)
SentInTime(l, k) ==
    \A s \in DOMAIN k : k[s].state = "sent" =>
        (s \in DOMAIN l /\ k[s] = l[s]) \/ k[s].sent = now

(* Marking a dispatch touches a queued request only.                       *)
LEMMA MarkDispatchedKeepsSent ==
    ASSUME NEW n \in Nat \ {0}, NEW l, IsLedger(l, n), NEW w
    PROVE  KeepsSent(l, MarkDispatched(l, w)) /\ SentInTime(l, MarkDispatched(l, w))
<1>1. CASE Matching(l, w) = {}
  BY <1>1 DEF MarkDispatched, KeepsSent, SentInTime
<1>2. CASE Matching(l, w) # {}
  <2> DEFINE m == Max(Matching(l, w))
             k == MarkDispatched(l, w)
  <2>1. Matching(l, w) \in SUBSET (1 .. n - 1) /\ n - 1 \in Nat
    BY DEF Matching, Queued, IsLedger
  <2>2. m \in Matching(l, w)
    BY <1>2, <2>1, MaxProperties
  <2>3. m \in DOMAIN l /\ l[m].state = "queued" /\ l[m] \in Request
    BY <2>2 DEF Matching, Queued, IsLedger
  <2>4. k = [l EXCEPT ![m] = [l[m] EXCEPT !.dispatch = TRUE]]
    BY <1>2 DEF MarkDispatched
  <2> HIDE DEF m, k
  <2>5. k[m].state = "queued"
    BY <2>3, <2>4 DEF IsLedger, Request
  <2>6. DOMAIN k = DOMAIN l /\ \A s \in DOMAIN l : s # m => k[s] = l[s]
    BY <2>3, <2>4 DEF IsLedger
  <2>7. KeepsSent(l, k) /\ SentInTime(l, k)
    BY <2>3, <2>5, <2>6 DEF KeepsSent, SentInTime
  <2> QED BY <2>7 DEF k
<1> QED BY <1>1, <1>2

(* What booking an answer does: one queued request becomes a sent one.     *)
LEMMA MarkSentOne ==
    ASSUME NEW n \in Nat \ {0}, NEW l, IsLedger(l, n), NEW w, Booked(l, w) # {}
    PROVE  LET m == Max(Booked(l, w))
               k == MarkSent(l, w)
           IN  /\ m \in Booked(l, w) /\ m \in Queued(l)
               /\ DOMAIN k = DOMAIN l /\ \A s \in DOMAIN l : s # m => k[s] = l[s]
               /\ k[m].state = "sent" /\ k[m].sent = now
               /\ k[m].goal = l[m].goal /\ k[m].base = l[m].base
<1> DEFINE m == Max(Booked(l, w))
           k == MarkSent(l, w)
<1>1. Booked(l, w) \in SUBSET Queued(l)
  BY DEF Booked, Matching
<1>2. Booked(l, w) \in SUBSET (1 .. n - 1) /\ n - 1 \in Nat
  BY <1>1 DEF Queued, IsLedger
<1>3. m \in Booked(l, w)
  BY <1>2, MaxProperties
<1>4. m \in Queued(l) /\ m \in DOMAIN l /\ l[m] \in Request
  BY <1>1, <1>3 DEF Queued, IsLedger
<1>5. k = [l EXCEPT ![m] = [l[m] EXCEPT !.state = "sent", !.dispatch = FALSE, !.sent = now]]
  BY DEF MarkSent
<1> HIDE DEF m, k
<1>6. /\ k[m].state = "sent" /\ k[m].sent = now
      /\ k[m].goal = l[m].goal /\ k[m].base = l[m].base
  BY <1>4, <1>5 DEF Request
<1>7. DOMAIN k = DOMAIN l /\ \A s \in DOMAIN l : s # m => k[s] = l[s]
  BY <1>4, <1>5 DEF IsLedger
<1> QED BY <1>3, <1>4, <1>6, <1>7 DEF m, k

(* Booking an answer keeps every request sent before.                      *)
LEMMA MarkSentKeepsSent ==
    ASSUME NEW n \in Nat \ {0}, NEW l, IsLedger(l, n), NEW w
    PROVE  KeepsSent(l, MarkSent(l, w)) /\ SentInTime(l, MarkSent(l, w))
<1>1. CASE Booked(l, w) = {}
  BY <1>1 DEF MarkSent, KeepsSent, SentInTime
<1>2. CASE Booked(l, w) # {}
  <2> DEFINE m == Max(Booked(l, w))
             k == MarkSent(l, w)
  <2>1. /\ m \in Queued(l)
        /\ DOMAIN k = DOMAIN l /\ \A s \in DOMAIN l : s # m => k[s] = l[s]
        /\ k[m].state = "sent" /\ k[m].sent = now
    BY <1>2, MarkSentOne
  <2> HIDE DEF m, k
  <2>2. KeepsSent(l, k) /\ SentInTime(l, k)
    BY <2>1 DEF KeepsSent, SentInTime, Queued
  <2> QED BY <2>2 DEF k
<1> QED BY <1>1, <1>2

(* Discarding touches queued requests only.                                *)
LEMMA DiscardQueuedKeepsSent ==
    ASSUME NEW l, NEW current, DiscardQueued(l, current)
    PROVE  KeepsSent(l, ledger') /\ SentInTime(l, ledger')
<1>1. KeepsSent(l, Discarded(l)) /\ SentInTime(l, Discarded(l))
  BY DEF KeepsSent, SentInTime, Discarded, Queued
<1>2. KeepsSent(l, l) /\ SentInTime(l, l)
  BY DEF KeepsSent, SentInTime
<1> QED BY <1>1, <1>2 DEF DiscardQueued

(* Both relations compose.                                                 *)
LEMMA KeepsSentTransitive ==
    ASSUME NEW l, NEW k, NEW j,
           KeepsSent(l, k), KeepsSent(k, j), SentInTime(l, k), SentInTime(k, j)
    PROVE  KeepsSent(l, j) /\ SentInTime(l, j)
  BY DEF KeepsSent, SentInTime

(* The history as a step sees it: update() only books, marks or discards,  *)
(* the planner only adds, and the environment leaves the ledger alone.      *)
LEMMA StepKeepsSent ==
    ASSUME LedgerInv, Next, ~ AdvanceLedger
    PROVE  KeepsSent(ledger, ledger') /\ SentInTime(ledger, ledger')
<1>1. nextSeq \in Nat \ {0} /\ IsLedger(ledger, nextSeq) /\ now \in Times
  BY DEF LedgerInv, ModelOK, RestOK
<1>2. ASSUME ledger' = ledger
      PROVE  KeepsSent(ledger, ledger') /\ SentInTime(ledger, ledger')
  BY <1>2 DEF KeepsSent, SentInTime
<1>3. DEFINE sentNow == MarkSent(ledger, inflight)
<1>4. /\ KeepsSent(ledger, sentNow) /\ SentInTime(ledger, sentNow)
      /\ IsLedger(sentNow, nextSeq)
  BY <1>1, MarkSentKeepsSent, MarkSentProperties
<1>5. CASE UpdateNothing
  BY <1>5, DiscardQueuedKeepsSent DEF UpdateNothing, Reset
<1>6. CASE UpdateWait
  BY <1>2, <1>6 DEF UpdateWait, model
<1>7. CASE UpdateFailure
  BY <1>7, DiscardQueuedKeepsSent DEF UpdateFailure, Reset
<1>8. CASE UpdateDispatch
  BY <1>1, <1>8, MarkDispatchedKeepsSent DEF UpdateDispatch, Dispatch
<1>9. CASE UpdateReached
  <2>1. DiscardQueued(sentNow, inflight)
    BY <1>9 DEF UpdateReached, Reset
  <2> HIDE DEF sentNow
  <2>2. KeepsSent(sentNow, ledger') /\ SentInTime(sentNow, ledger')
    BY <2>1, DiscardQueuedKeepsSent
  <2> QED BY <1>4, <2>2, KeepsSentTransitive
<1>10. CASE UpdateNext
  <2>1. ledger' = sentNow \/ ledger' = MarkDispatched(sentNow, want)
    BY <1>10 DEF UpdateNext, Dispatch
  <2> HIDE DEF sentNow
  <2>2. /\ KeepsSent(sentNow, MarkDispatched(sentNow, want))
        /\ SentInTime(sentNow, MarkDispatched(sentNow, want))
    BY <1>1, <1>4, MarkDispatchedKeepsSent
  <2>3. /\ KeepsSent(ledger, MarkDispatched(sentNow, want))
        /\ SentInTime(ledger, MarkDispatched(sentNow, want))
    BY <1>4, <2>2, KeepsSentTransitive
  <2> QED BY <1>4, <2>1, <2>3
<1>11. ASSUME NEW w \in Setpoints, Plan(w)
       PROVE  KeepsSent(ledger, ledger') /\ SentInTime(ledger, ledger')
  <2>1. CASE QueueRequest(w)
    <3>1. nextSeq \notin DOMAIN ledger
      BY <1>1 DEF IsLedger
    <3> QED BY <2>1, <3>1 DEF QueueRequest, NewRequest, KeepsSent, SentInTime
  <2> QED BY <1>2, <1>11, <2>1 DEF Plan
<1>12. CASE NoPlan
  BY <1>2, <1>12 DEF NoPlan, model
<1>13. CASE Environment
  <2>1. Between
    BY <1>13 DEF Environment, AnswerOk, AnswerFailed, Reach, MeterSample, InverterStats, Tick
  <2> QED BY <1>2, <2>1 DEF Between, model
<1> QED BY <1>5, <1>6, <1>7, <1>8, <1>9, <1>10, <1>11, <1>12, <1>13 DEF Next, Update

(* What the advance of the ledger keeps is unchanged.                      *)
LEMMA AdvanceKeeps ==
    ASSUME AdvanceLedger
    PROVE  /\ SentInTime(ledger, ledger')
           /\ \A s \in DOMAIN ledger : ledger[s].state = "sent" /\ s \notin Settled =>
                 s \in DOMAIN ledger' /\ ledger'[s] = ledger[s]
  BY DEF AdvanceLedger, Restrict, SentInTime, Pending, Stale, Queued

(* The clocks' invariant is inductive.                                     *)
LEMMA NextClocks ==
    ASSUME LedgerInv, Clocks, [Next]_vars
    PROVE  Clocks'
<1>1. now \in Nat /\ sample \in Nat /\ MaxTime \in Nat
  BY LedgerAssumption DEF LedgerInv, RestOK, Times
<1>2. CASE UNCHANGED vars
  BY <1>2 DEF vars, model, meter, Clocks
<1>3. CASE Next
  <2>1. SentInTime(ledger, ledger')
    BY <1>3, StepKeepsSent, AdvanceKeeps
  <2>2. \/ now' = now /\ sample' \in {sample, now}
        \/ now < MaxTime /\ now' = now + 1 /\ sample' = sample /\ ledger' = ledger
    BY <1>3 DEF Next, Update, UpdateNothing, UpdateWait, UpdateFailure, UpdateDispatch,
       UpdateReached, UpdateNext, AdvanceLedger, Plan, NoPlan, Environment, Between, model,
       AnswerOk, AnswerFailed, Reach, MeterSample, InverterStats, Tick, meter
  <2>3. \A s \in DOMAIN ledger' : ledger'[s].state = "sent" =>
           ledger'[s].sent \in Times /\ ledger'[s].sent <= now
    BY <1>1, <2>1 DEF Clocks, SentInTime, Times
  <2> QED BY <1>1, <2>2, <2>3 DEF Clocks, Times
<1> QED BY <1>2, <1>3

(* Until millis() starts again, no discard, no pruning and no settling     *)
(* forgets a transmitted request before the meter sample is past its       *)
(* latest effect (advanceLedger, discardQueuedRequests,                    *)
(* discardStaleQueuedRequests, pruneInactiveRequests).                     *)
THEOREM TransmittedRequestCorrect ==
    ASSUME MaxTime + Effect < Wrap
    PROVE  Spec => TransmittedStays
<1> DEFINE Kept == \A s \in DOMAIN ledger : ledger[s].state = "sent" =>
                     \/ s \in DOMAIN ledger' /\ ledger'[s] = ledger[s]
                     \/ sample >= ledger[s].sent + Effect
<1>1. Init => LedgerInv /\ Clocks
  BY InitLedgerInv, LedgerAssumption DEF Init, Clocks
<1>2. LedgerInv /\ Clocks /\ [Next]_vars => LedgerInv' /\ Clocks'
  BY NextLedgerInv, NextClocks
<1>3. LedgerInv /\ Clocks /\ [Next]_vars => [Kept]_vars
  <2> SUFFICES ASSUME LedgerInv, Clocks, Next PROVE Kept
    OBVIOUS
  <2>1. CASE ~ AdvanceLedger
    BY <2>1, StepKeepsSent DEF KeepsSent
  <2>2. CASE AdvanceLedger
    <3> SUFFICES ASSUME NEW s \in Settled, ledger[s].state = "sent"
                 PROVE  sample >= ledger[s].sent + Effect
      BY <2>2, AdvanceKeeps
    <3> DEFINE due == ledger[s].sent + Effect
    <3>0. DOMAIN ledger \subseteq Nat
      BY DEF LedgerInv, ModelOK, IsLedger
    <3>1. s \in DOMAIN ledger /\ Due(ledger[s])
      BY <3>0 DEF Settled, Pending
    <3>2. Millis(sample) >= Millis(due)
      BY <3>1 DEF Due
    <3>3. /\ sample \in Nat /\ now \in Nat /\ Wrap \in Nat \ {0} /\ Effect \in Nat /\ MaxTime \in Nat
          /\ ledger[s].sent \in Nat /\ ledger[s].sent <= now /\ sample <= now /\ now <= MaxTime
      BY <3>1, LedgerAssumption DEF Clocks, LedgerInv, RestOK, Times
    <3>4. due \in Nat /\ due < Wrap /\ sample < Wrap
      BY <3>3
    <3> HIDE DEF due
    <3>5. Millis(sample) = sample /\ Millis(due) = due
      BY <3>3, <3>4 DEF Millis
    <3>6. sample >= due
      BY <3>2, <3>5
    <3> QED BY <3>6 DEF due
  <2> QED BY <2>1, <2>2
<1> QED BY <1>1, <1>2, <1>3, PTL DEF Spec, TransmittedStays
-----------------------------------------------------------------------------
(* The chain of pending requests.  Its invariant needs one more fact: the  *)
(* transmitted requests are the older ones, so that a discard of the       *)
(* queued ones leaves no hole.                                             *)
Before(l, s) == {r \in Pending(l) : r < s}

Linked(l, basis) ==
    \A s \in Pending(l) :
        IF Before(l, s) = {}
        THEN l[s].state = "queued" => l[s].base = basis
        ELSE l[s].base = l[Max(Before(l, s))].goal

SentFirst(l) ==
    \A s, r \in Pending(l) : l[s].state = "sent" /\ l[r].state = "queued" => s < r

Chained(l, basis) == Linked(l, basis) /\ SentFirst(l)

ChainInv == strayed \/ Chained(ledger, safe)

(* Requests before a pending one: the newest of them is one.               *)
LEMMA BeforeProperties ==
    ASSUME NEW n \in Nat \ {0}, NEW l, IsLedger(l, n), NEW s \in Pending(l),
           Before(l, s) # {}
    PROVE  LET m == Max(Before(l, s))
           IN  m \in Pending(l) /\ m < s /\ \A r \in Before(l, s) : r <= m
<1>1. Before(l, s) \in SUBSET (1 .. n - 1) /\ n - 1 \in Nat
  BY DEF Before, Pending, IsLedger
<1>2. /\ Max(Before(l, s)) \in Before(l, s)
      /\ \A r \in Before(l, s) : r <= Max(Before(l, s))
  BY <1>1, MaxProperties
<1> QED BY <1>2 DEF Before

(* Changes that leave targets and bases alone and queue nothing again.     *)
LEMMA SameChain ==
    ASSUME NEW n \in Nat \ {0}, NEW l, NEW k, IsLedger(l, n), NEW basis,
           Pending(k) = Pending(l), Linked(l, basis),
           \A s \in Pending(l) : /\ k[s].goal = l[s].goal /\ k[s].base = l[s].base
                                 /\ k[s].state = "queued" => l[s].state = "queued"
    PROVE  Linked(k, basis)
<1> SUFFICES ASSUME NEW s \in Pending(k)
             PROVE  IF Before(k, s) = {}
                    THEN k[s].state = "queued" => k[s].base = basis
                    ELSE k[s].base = k[Max(Before(k, s))].goal
  BY DEF Linked
<1>1. Before(k, s) = Before(l, s)
  BY DEF Before
<1>2. CASE Before(l, s) = {}
  BY <1>1, <1>2 DEF Linked
<1>3. CASE Before(l, s) # {}
  BY <1>1, <1>3, BeforeProperties DEF Linked
<1> QED BY <1>2, <1>3

(* Marking a dispatch leaves the chain alone.                              *)
LEMMA MarkDispatchedChained ==
    ASSUME NEW n \in Nat \ {0}, NEW l, IsLedger(l, n), NEW w, NEW basis,
           Chained(l, basis)
    PROVE  Chained(MarkDispatched(l, w), basis)
<1>1. CASE Matching(l, w) = {}
  BY <1>1 DEF MarkDispatched
<1>2. CASE Matching(l, w) # {}
  <2> DEFINE m == Max(Matching(l, w))
             k == MarkDispatched(l, w)
  <2>1. Matching(l, w) \in SUBSET (1 .. n - 1) /\ n - 1 \in Nat
    BY DEF Matching, Queued, IsLedger
  <2>2. m \in Matching(l, w)
    BY <1>2, <2>1, MaxProperties
  <2>3. m \in DOMAIN l /\ l[m].state = "queued" /\ l[m] \in Request
    BY <2>2 DEF Matching, Queued, IsLedger
  <2>4. k = [l EXCEPT ![m] = [l[m] EXCEPT !.dispatch = TRUE]]
    BY <1>2 DEF MarkDispatched
  <2> HIDE DEF m, k
  <2>5. k[m].state = l[m].state /\ k[m].goal = l[m].goal /\ k[m].base = l[m].base
    BY <2>3, <2>4 DEF IsLedger, Request
  <2>6. DOMAIN k = DOMAIN l /\ \A s \in DOMAIN l : s # m => k[s] = l[s]
    BY <2>3, <2>4 DEF IsLedger
  <2>7. \A s \in DOMAIN l : /\ k[s].state = l[s].state
                            /\ k[s].goal = l[s].goal /\ k[s].base = l[s].base
    BY <2>5, <2>6
  <2>8. Pending(k) = Pending(l)
    BY <2>6, <2>7 DEF Pending
  <2>9. Linked(k, basis)
    BY <2>7, <2>8, SameChain DEF Chained, Pending
  <2>10. SentFirst(k)
    BY <2>7, <2>8 DEF Chained, SentFirst, Pending
  <2> QED BY <2>9, <2>10 DEF Chained, k
<1> QED BY <1>1, <1>2

(* So does booking an answer on the oldest unsent request.                 *)
LEMMA MarkSentChained ==
    ASSUME NEW n \in Nat \ {0}, NEW l, IsLedger(l, n), NEW w, NEW basis,
           Chained(l, basis),
           Booked(l, w) # {} => \A s \in Queued(l) : ~ (s < Max(Booked(l, w)))
    PROVE  Chained(MarkSent(l, w), basis)
<1>1. CASE Booked(l, w) = {}
  BY <1>1 DEF MarkSent
<1>2. CASE Booked(l, w) # {}
  <2> DEFINE m == Max(Booked(l, w))
             k == MarkSent(l, w)
  <2>1. /\ m \in Queued(l)
        /\ DOMAIN k = DOMAIN l /\ \A s \in DOMAIN l : s # m => k[s] = l[s]
        /\ k[m].state = "sent" /\ k[m].goal = l[m].goal /\ k[m].base = l[m].base
    BY <1>2, MarkSentOne
  <2>2. \A s \in Queued(l) : ~ (s < m)
    BY <1>2
  <2> HIDE DEF m, k
  <2>3. m \in DOMAIN l /\ l[m].state = "queued" /\ DOMAIN l \subseteq Nat
    BY <2>1 DEF Queued, IsLedger
  <2>4. Pending(k) = Pending(l)
    BY <2>1, <2>3 DEF Pending
  <2>5. Linked(k, basis)
    <3>1. \A s \in Pending(l) : /\ k[s].goal = l[s].goal /\ k[s].base = l[s].base
                                /\ k[s].state = "queued" => l[s].state = "queued"
      BY <2>1, <2>3 DEF Pending
    <3> QED BY <2>4, <3>1, SameChain DEF Chained
  <2>6. SentFirst(k)
    <3> SUFFICES ASSUME NEW s \in Pending(k), NEW r \in Pending(k),
                        k[s].state = "sent", k[r].state = "queued"
                 PROVE  s < r
      BY DEF SentFirst
    <3>1. s \in Pending(l) /\ r \in Pending(l) /\ s \in Nat /\ r \in Nat /\ m \in Nat
      BY <2>3, <2>4 DEF Pending
    <3>2. r # m /\ l[r].state = "queued" /\ r \in Queued(l)
      BY <2>1, <3>1 DEF Pending, Queued
    <3>3. CASE s = m
      BY <2>2, <3>1, <3>2, <3>3
    <3>4. CASE s # m
      <4>1. l[s].state = "sent"
        BY <2>1, <3>1, <3>4 DEF Pending
      <4> QED BY <3>1, <3>2, <4>1 DEF Chained, SentFirst
    <3> QED BY <3>3, <3>4
  <2> QED BY <2>5, <2>6 DEF Chained, k
<1> QED BY <1>1, <1>2

(* Discarding what is queued leaves the chain of the transmitted requests. *)
LEMMA DiscardedChained ==
    ASSUME NEW n \in Nat \ {0}, NEW l, IsLedger(l, n), NEW basis, NEW other,
           Chained(l, basis)
    PROVE  Chained(Discarded(l), other)
<1> DEFINE k == Discarded(l)
<1>1. DOMAIN k = DOMAIN l /\ \A s \in DOMAIN l : s \notin Queued(l) => k[s] = l[s]
  BY DEF Discarded
<1>2. Queued(k) = {}
  BY DiscardedNone
<1> HIDE DEF k
<1>3. \A s \in Pending(k) : s \notin Queued(l) /\ k[s].state = "sent"
  <2> SUFFICES ASSUME NEW s \in Pending(k) PROVE s \notin Queued(l) /\ k[s].state = "sent"
    OBVIOUS
  <2>1. s \in DOMAIN l /\ k[s].state = "sent"
    BY <1>1, <1>2 DEF Pending, Queued
  <2>2. s \in Queued(l) => k[s].state = "discarded"
    <3>1. s \in DOMAIN l => l[s] \in Request
      BY DEF IsLedger
    <3> QED BY <2>1, <3>1 DEF k, Discarded, Request
  <2> QED BY <2>1, <2>2
<1>4. Pending(k) = {s \in Pending(l) : l[s].state = "sent"}
      /\ \A s \in Pending(k) : k[s] = l[s]
  BY <1>1, <1>3 DEF Pending, Queued
<1>5. ASSUME NEW s \in Pending(k) PROVE Before(k, s) = Before(l, s)
  <2>0. DOMAIN l \subseteq Nat
    BY DEF IsLedger
  <2>1. ASSUME NEW r \in Pending(l), r < s PROVE l[r].state = "sent"
    <3>1. l[s].state = "sent" /\ s \in Pending(l)
      BY <1>4
    <3>2. l[r].state = "queued" => s < r
      BY <3>1 DEF Chained, SentFirst
    <3> QED BY <2>0, <2>1, <3>1, <3>2 DEF Pending
  <2> QED BY <1>4, <2>1 DEF Before
<1>6. Linked(k, other)
  <2> SUFFICES ASSUME NEW s \in Pending(k)
               PROVE  IF Before(k, s) = {}
                      THEN k[s].state = "queued" => k[s].base = other
                      ELSE k[s].base = k[Max(Before(k, s))].goal
    BY DEF Linked
  <2>1. CASE Before(k, s) = {}
    BY <1>3, <2>1
  <2>2. CASE Before(k, s) # {}
    <3>1. Max(Before(k, s)) \in Pending(k)
      <4>1. Before(k, s) \in SUBSET (1 .. n - 1) /\ n - 1 \in Nat
        BY <1>4 DEF Before, Pending, IsLedger
      <4>2. Max(Before(k, s)) \in Before(k, s)
        BY <2>2, <4>1, MaxProperties
      <4> QED BY <4>2 DEF Before
    <3>2. l[s].base = l[Max(Before(l, s))].goal
      BY <1>4, <1>5, <2>2 DEF Chained, Linked
    <3> QED BY <1>4, <1>5, <2>2, <3>1, <3>2
  <2> QED BY <2>1, <2>2
<1>7. SentFirst(k)
  BY <1>3 DEF SentFirst
<1> QED BY <1>6, <1>7 DEF Chained, k

(* discardQueuedRequests leaves a chain, whichever way it goes.            *)
LEMMA DiscardQueuedChained ==
    ASSUME NEW n \in Nat \ {0}, NEW l, IsLedger(l, n), Chained(l, safe),
           NEW current, DiscardQueued(l, current)
    PROVE  Chained(ledger', safe')
  BY DiscardedChained DEF DiscardQueued

(* A new request starts where the newest pending one ends.                 *)
LEMMA QueueRequestChained ==
    ASSUME LedgerInv, Chained(ledger, safe), NEW w \in Setpoints, QueueRequest(w)
    PROVE  Chained(ledger', safe)
<1> DEFINE l == ledger
           k == ledger'
           new == nextSeq
<1>1. /\ new \in Nat \ {0} /\ IsLedger(l, new) /\ requested = Newest(l, safe)
      /\ new \notin DOMAIN l /\ DOMAIN l \subseteq 1 .. new - 1
  BY DEF LedgerInv, ModelOK, RequestedFollowsLedger, IsLedger
<1>2. /\ DOMAIN k = DOMAIN l \cup {new} /\ \A s \in DOMAIN l : k[s] = l[s]
      /\ k[new].state = "queued" /\ k[new].base = requested
  BY <1>1 DEF QueueRequest, NewRequest
<1> HIDE DEF l, k, new
<1>3. Pending(k) = Pending(l) \cup {new}
  BY <1>1, <1>2 DEF Pending
<1>4. \A s \in Pending(l) : s \in DOMAIN l /\ s \in Nat /\ s < new /\ k[s] = l[s]
  BY <1>1, <1>2 DEF Pending
<1>5. \A s \in Pending(l) : Before(k, s) = Before(l, s)
  BY <1>1, <1>3, <1>4 DEF Before
<1>6. Before(k, new) = Pending(l)
  BY <1>1, <1>3, <1>4 DEF Before
<1>7. ASSUME NEW s \in Pending(k)
      PROVE  IF Before(k, s) = {}
             THEN k[s].state = "queued" => k[s].base = safe
             ELSE k[s].base = k[Max(Before(k, s))].goal
  <2>1. CASE s = new
    <3>1. CASE Pending(l) = {}
      BY <1>1, <1>2, <1>6, <2>1, <3>1 DEF Newest
    <3>2. CASE Pending(l) # {}
      <4>1. Max(Pending(l)) \in Pending(l)
        BY <1>1, <3>2, NewestIsPending
      <4>2. k[new].base = l[Max(Pending(l))].goal
        BY <1>1, <1>2, <3>2 DEF Newest
      <4> QED BY <1>4, <1>6, <2>1, <3>2, <4>1, <4>2
    <3> QED BY <3>1, <3>2
  <2>2. CASE s \in Pending(l)
    <3>1. CASE Before(l, s) = {}
      BY <1>4, <1>5, <2>2, <3>1 DEF Chained, Linked, l
    <3>2. CASE Before(l, s) # {}
      <4>1. Max(Before(l, s)) \in Pending(l)
        BY <1>1, <2>2, <3>2, BeforeProperties
      <4>2. l[s].base = l[Max(Before(l, s))].goal
        BY <2>2, <3>2 DEF Chained, Linked, l
      <4> QED BY <1>4, <1>5, <2>2, <3>2, <4>1, <4>2
    <3> QED BY <3>1, <3>2
  <2> QED BY <1>3, <2>1, <2>2
<1>8. Linked(k, safe)
  BY <1>7 DEF Linked
<1>9. SentFirst(k)
  <2> SUFFICES ASSUME NEW s \in Pending(k), NEW r \in Pending(k),
                      k[s].state = "sent", k[r].state = "queued"
               PROVE  s < r
    BY DEF SentFirst
  <2>1. s \in Pending(l) /\ l[s].state = "sent"
    BY <1>2, <1>3, <1>4
  <2>2. CASE r = new
    BY <1>4, <2>1, <2>2
  <2>3. CASE r \in Pending(l)
    BY <1>4, <2>1, <2>3 DEF Chained, SentFirst, l
  <2> QED BY <1>3, <2>2, <2>3
<1> QED BY <1>8, <1>9 DEF Chained, k

(* The advance settles a front of the chain and moves the safe setpoint to *)
(* where that front ends.                                                  *)
LEMMA AdvanceChained ==
    ASSUME LedgerInv, Chained(ledger, safe), AdvanceLedger, Stale = {}
    PROVE  Chained(ledger', safe')
<1> DEFINE l == ledger
           k == ledger'
           proved == IF Settled = {} THEN safe ELSE l[Max(Settled)].goal
<1>1. nextSeq \in Nat \ {0} /\ IsLedger(l, nextSeq) /\ DOMAIN l \subseteq Nat
  BY DEF LedgerInv, ModelOK, IsLedger
<1>2. /\ DOMAIN k = Pending(l) \ Settled
      /\ \A s \in DOMAIN k : k[s] = l[s]
      /\ safe' = IF DOMAIN k = {} THEN Expected ELSE proved
  BY DEF AdvanceLedger, Restrict, Pending
<1>3. /\ Settled \subseteq Pending(l)
      /\ \A s \in Pending(l), r \in Settled : s <= r => s \in Settled
  <2>1. Settled = {s \in Pending(l) : \A r \in Pending(l) : r <= s => Due(l[r])}
    BY DEF Settled
  <2>2. Pending(l) \subseteq Nat
    BY <1>1 DEF Pending
  <2> QED BY <2>1, <2>2
<1> HIDE DEF l, k, proved
<1>4. Pending(k) = Pending(l) \ Settled
  BY <1>2 DEF Pending
<1>5. \A s \in Pending(k) : k[s] = l[s] /\ s \in Pending(l) /\ s \in Nat
  BY <1>1, <1>2, <1>4 DEF Pending
<1>6. ASSUME NEW s \in Pending(k), NEW r \in Settled PROVE r < s
  <2>1. s \notin Settled /\ s \in Pending(l) /\ s \in Nat /\ r \in Nat
    BY <1>1, <1>3, <1>4, <1>5 DEF Pending
  <2> QED BY <1>3, <2>1
<1>7. ASSUME NEW s \in Pending(k) PROVE Before(l, s) = Settled \cup Before(k, s)
  BY <1>3, <1>4, <1>5, <1>6 DEF Before
<1>8. ASSUME NEW s \in Pending(k)
      PROVE  IF Before(k, s) = {}
             THEN k[s].state = "queued" => k[s].base = safe'
             ELSE k[s].base = k[Max(Before(k, s))].goal
  <2>1. DOMAIN k # {} /\ s \in Pending(l) /\ k[s] = l[s]
    BY <1>5 DEF Pending
  <2>2. safe' = proved
    BY <1>2, <2>1
  <2>3. CASE Before(k, s) = {}
    <3>1. Before(l, s) = Settled
      BY <1>7, <2>3
    <3>2. CASE Settled = {}
      BY <2>1, <2>2, <2>3, <3>1, <3>2 DEF Chained, Linked, l, proved
    <3>3. CASE Settled # {}
      BY <2>1, <2>2, <2>3, <3>1, <3>3 DEF Chained, Linked, l, proved
    <3> QED BY <3>2, <3>3
  <2>4. CASE Before(k, s) # {}
    <3>1. Before(l, s) # {}
      BY <1>7, <2>4
    <3> DEFINE m == Max(Before(l, s))
    <3>2. m \in Before(l, s) /\ \A r \in Before(l, s) : r <= m
      BY <1>1, <2>1, <3>1, BeforeProperties DEF Before
    <3>3. l[s].base = l[m].goal
      BY <2>1, <3>1 DEF Chained, Linked, l
    <3> DEFINE j == Max(Before(k, s))
    <3>4. Before(k, s) \in SUBSET (1 .. nextSeq - 1) /\ nextSeq - 1 \in Nat
      BY <1>1, <1>5 DEF Before, Pending, IsLedger
    <3>5. j \in Before(k, s) /\ \A r \in Before(k, s) : r <= j
      BY <2>4, <3>4, MaxProperties
    <3> HIDE DEF m, j
    <3>6. j \in Pending(k) /\ j \in Before(l, s) /\ j \in Nat /\ j <= m
      BY <1>5, <1>7, <3>2, <3>5 DEF Before
    <3>7. m \notin Settled /\ m \in Nat
      <4>1. m \in Pending(l) /\ m \in Nat
        BY <1>1, <3>2 DEF Before, Pending
      <4> QED BY <1>6, <3>6, <4>1
    <3>8. m \in Before(k, s)
      BY <1>7, <3>2, <3>7
    <3>9. m = j
      BY <3>5, <3>6, <3>7, <3>8
    <3> QED BY <1>5, <2>1, <2>4, <3>3, <3>6, <3>9 DEF j
  <2> QED BY <2>3, <2>4
<1>9. Linked(k, safe')
  BY <1>8 DEF Linked
<1>10. SentFirst(k)
  BY <1>5 DEF Chained, SentFirst, l
<1> QED BY <1>9, <1>10 DEF Chained, k

(* Every step keeps the chain, or strays.                                  *)
LEMMA NextChain ==
    ASSUME LedgerInv, ChainInv, [Next]_vars
    PROVE  ChainInv'
<1> SUFFICES ASSUME ~ strayed' PROVE Chained(ledger', safe')
  BY DEF ChainInv, Chained, Linked, SentFirst, Before, Pending
<1>1. strayed \in BOOLEAN /\ (strayed => strayed')
  BY DEF LedgerInv, RestOK, Next, Update, UpdateNothing, UpdateWait, UpdateFailure,
     UpdateDispatch, UpdateReached, UpdateNext, Acknowledge, AdvanceLedger, Plan, NoPlan,
     Environment, AnswerOk, AnswerFailed, Reach, MeterSample, InverterStats, Tick, world,
     vars
<1>2. Chained(ledger, safe)
  BY <1>1 DEF ChainInv
<1>3. nextSeq \in Nat \ {0} /\ IsLedger(ledger, nextSeq) /\ now \in Times
  BY DEF LedgerInv, ModelOK, RestOK
<1>4. ASSUME UNCHANGED <<ledger, safe>> PROVE Chained(ledger', safe')
  BY <1>2, <1>4
<1> DEFINE sentNow == MarkSent(ledger, inflight)
<1>5. ASSUME Acknowledge PROVE Chained(sentNow, safe) /\ IsLedger(sentNow, nextSeq)
  <2>1. ~ Overtakes(inflight)
    BY <1>5 DEF Acknowledge
  <2> QED BY <1>2, <1>3, <2>1, MarkSentChained, MarkSentProperties DEF Overtakes
<1>6. CASE UpdateNothing
  BY <1>2, <1>3, <1>6, DiscardQueuedChained DEF UpdateNothing, Reset
<1>7. CASE UpdateWait
  BY <1>4, <1>7 DEF UpdateWait, model
<1>8. CASE UpdateFailure
  BY <1>2, <1>3, <1>8, DiscardQueuedChained DEF UpdateFailure, Reset
<1>9. CASE UpdateDispatch
  BY <1>2, <1>3, <1>9, MarkDispatchedChained DEF UpdateDispatch, Dispatch
<1>10. CASE UpdateReached
  <2>1. DiscardQueued(sentNow, inflight) /\ Acknowledge
    BY <1>10 DEF UpdateReached, Reset
  <2> QED BY <1>3, <1>5, <2>1, DiscardQueuedChained
<1>11. CASE UpdateNext
  <2>1. /\ Acknowledge /\ safe' = safe
        /\ ledger' = sentNow \/ ledger' = MarkDispatched(sentNow, want)
    BY <1>11 DEF UpdateNext, Dispatch
  <2> QED BY <1>3, <1>5, <2>1, MarkDispatchedChained
<1>12. CASE AdvanceLedger
  <2>1. Stale = {}
    BY <1>12 DEF AdvanceLedger
  <2> QED BY <1>2, <1>12, <2>1, AdvanceChained
<1>13. ASSUME NEW w \in Setpoints, Plan(w) PROVE Chained(ledger', safe')
  <2>1. safe' = safe
    BY <1>13 DEF Plan
  <2>2. CASE QueueRequest(w)
    BY <1>2, <2>1, <2>2, QueueRequestChained
  <2> QED BY <1>4, <1>13, <2>1, <2>2 DEF Plan
<1>14. CASE NoPlan
  BY <1>4, <1>14 DEF NoPlan, model
<1>15. CASE Environment
  <2>1. Between
    BY <1>15 DEF Environment, AnswerOk, AnswerFailed, Reach, MeterSample, InverterStats, Tick
  <2> QED BY <1>4, <2>1 DEF Between, model
<1>16. CASE UNCHANGED vars
  BY <1>4, <1>16 DEF vars, model
<1> QED BY <1>6, <1>7, <1>8, <1>9, <1>10, <1>11, <1>12, <1>13, <1>14, <1>15, <1>16
        DEF Next, Update

(* In every behaviour the pending requests form one chain from the safe    *)
(* setpoint to the requested one, until a command takes effect that the    *)
(* limiter gave up, a request overtakes an older one or one grows stale:   *)
(* queueRequest, discardQueuedRequests and advanceLedger leave no hole.    *)
THEOREM ChainCorrect == Spec => []ChainConnected
<1>1. Init => LedgerInv /\ ChainInv
  <2>1. Init => ChainInv
    BY DEF Init, ChainInv, Chained, Linked, SentFirst, Pending
  <2> QED BY <2>1, InitLedgerInv
<1>2. LedgerInv /\ ChainInv /\ [Next]_vars => LedgerInv' /\ ChainInv'
  BY NextLedgerInv, NextChain
<1>3. ChainInv => ChainConnected
  BY DEF ChainInv, Chained, Linked, Before, ChainConnected
<1> QED BY <1>1, <1>2, <1>3, PTL DEF Spec
=============================================================================
