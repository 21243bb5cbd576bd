-------------------------- MODULE ConfigGuardProofs --------------------------
(***************************************************************************)
(* The write guard of the configuration gives exclusive access, for any    *)
(* number of writing tasks, and implements ExclusiveAccess.                *)
(***************************************************************************)
EXTENDS ConfigGuard, TLAPS

LEMMA InitGuardInv == GuardInit => GuardInv
BY GuardAssumption DEF GuardInit, GuardInv, GuardTypeOK, Exclusive

(* Serve and Resume, the two halves of ConfigurationClass::loop.           *)
LEMMA MainKeepsGuardInv == GuardInv /\ (Serve \/ Resume) => GuardInv'
<1>1. ASSUME GuardInv, Serve PROVE GuardInv'
  BY <1>1, GuardAssumption DEF GuardInv, GuardTypeOK, Exclusive, Serve
<1>2. ASSUME GuardInv, Resume PROVE GuardInv'
  BY <1>2, GuardAssumption DEF GuardInv, GuardTypeOK, Exclusive, Resume
<1> QED
  BY <1>1, <1>2

(* The three steps of a writer.  Take is where exclusion could break: only *)
(* a main loop that serves has woken the writer, and it is not the loop.   *)
LEMMA WriterKeepsGuardInv ==
    ASSUME GuardInv, NEW t \in Tasks, Enter(t) \/ Take(t) \/ Leave(t)
    PROVE  GuardInv'
<1>1. CASE Enter(t)
  BY <1>1, GuardAssumption DEF GuardInv, GuardTypeOK, Exclusive, Enter
<1>2. CASE Take(t)
  <2>1. main = "serve" /\ t # Loop
    BY <1>2 DEF GuardInv, Take
  <2> QED
    BY <1>2, <2>1, GuardAssumption DEF GuardInv, GuardTypeOK, Exclusive, Take
<1>3. CASE Leave(t)
  <2>1. main = "serve" /\ t # Loop /\ t \in writers /\ t \notin asleep \cup woken
    BY <1>3, GuardAssumption DEF GuardInv, Exclusive, Leave
  <2> QED
    BY <1>3, <2>1, GuardAssumption DEF GuardInv, GuardTypeOK, Exclusive, Leave
<1> QED
  BY <1>1, <1>2, <1>3

LEMMA StepKeepsGuardInv == GuardInv /\ [GuardNext]_guardVars => GuardInv'
<1> SUFFICES ASSUME GuardInv, [GuardNext]_guardVars PROVE GuardInv'
  OBVIOUS
<1>1. CASE GuardNext
  BY <1>1, MainKeepsGuardInv, WriterKeepsGuardInv DEF GuardNext
<1>2. CASE UNCHANGED guardVars
  BY <1>2 DEF GuardInv, GuardTypeOK, Exclusive, guardVars
<1> QED
  BY <1>1, <1>2

LEMMA GuardInvariant == GuardSpec => []GuardInv
BY InitGuardInv, StepKeepsGuardInv, PTL DEF GuardSpec

(* At most one task has the configuration, and none has it while the main  *)
(* loop runs (ConfigurationClass::loop and WriteGuard).                    *)
THEOREM GuardExclusive == GuardSpec => []Exclusive
<1>1. GuardInv => Exclusive
  BY DEF GuardInv
<1> QED
  BY <1>1, GuardInvariant, PTL
-----------------------------------------------------------------------------
(* Every step of the guard is a step of its owner, or leaves it.           *)
LEMMA StepIsAccessStep ==
    GuardInv /\ [GuardNext]_guardVars => [Access!Next]_Owner
<1> SUFFICES ASSUME GuardInv, [GuardNext]_guardVars PROVE [Access!Next]_Owner
  OBVIOUS
<1> USE GuardAssumption DEF Owner
<1>1. CASE Serve
  <2>1. Access!GiveUp
    BY <1>1 DEF Serve, Access!GiveUp
  <2> QED
    BY <2>1 DEF Access!Next
<1>2. CASE Resume
  BY <1>2 DEF Resume, Access!Next, Access!Return
<1>3. ASSUME NEW t \in Tasks, Enter(t) PROVE [Access!Next]_Owner
  BY <1>3 DEF Enter, Access!Next, Access!GiveUp
<1>4. ASSUME NEW t \in Tasks, Take(t) PROVE [Access!Next]_Owner
  <2>1. main = "serve" /\ t # Loop
    BY <1>4 DEF GuardInv, Take
  <2>2. Access!Take(t)
    BY <1>4, <2>1 DEF Take, Access!Take
  <2> QED
    BY <2>1, <2>2 DEF Access!Next
<1>5. ASSUME NEW t \in Tasks, Leave(t) PROVE [Access!Next]_Owner
  <2>1. main = "serve" /\ t # Loop /\ t # Free
    BY <1>5 DEF GuardInv, Exclusive, Leave
  <2>2. Access!Release
    BY <1>5, <2>1 DEF Leave, Access!Release
  <2> QED
    BY <2>2 DEF Access!Next
<1>6. CASE UNCHANGED guardVars
  BY <1>6 DEF guardVars
<1> QED
  BY <1>1, <1>2, <1>3, <1>4, <1>5, <1>6 DEF GuardNext

(* The write guard implements exclusive access: the configuration goes     *)
(* from the main loop to nobody, to one writer, to nobody, and back.       *)
THEOREM GuardImplementsAccess == GuardSpec => Access!Spec
<1>1. GuardInit => Access!Init
  BY DEF GuardInit, Owner, Access!Init
<1> QED
  BY <1>1, StepIsAccessStep, GuardInvariant, PTL DEF GuardSpec, Access!Spec
=============================================================================
