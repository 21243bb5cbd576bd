----------------------------- MODULE ConfigGuard -----------------------------
(***************************************************************************)
(* The write guard of the configuration (Configuration.cpp).  One mutex    *)
(* and one condition variable serve both sides: a writer counts itself and *)
(* sleeps until the main loop passes ConfigurationClass::loop(), which     *)
(* wakes every writer and sleeps until all counted writers have left.      *)
(* wait() of a writer has no predicate: it returns when it is notified.    *)
(*                                                                         *)
(* The tasks are the web server, the MQTT client and the main loop, which  *)
(* writes the preferred access point (NetworkSettings.cpp).                *)
(***************************************************************************)
EXTENDS Integers, FiniteSets

CONSTANTS
    Tasks,     \* the tasks that may write
    Loop,      \* the main loop
    Free       \* the mutex is free; nobody owns the configuration

ASSUME GuardAssumption == Loop \in Tasks /\ Free \notin Tasks

VARIABLES
    lock,      \* the owner of sWriterMutex, when it does not sleep
    writers,   \* the tasks counted in sWriterCount
    asleep,    \* the tasks in sWriterCv.wait
    woken,     \* notified, but without the mutex again
    main       \* the main loop runs, serves writers, or waits for the guard

guardVars == <<lock, writers, asleep, woken, main>>

GuardTypeOK ==
    /\ lock \in Tasks \cup {Free}
    /\ writers \subseteq Tasks /\ asleep \subseteq Tasks /\ woken \subseteq Tasks
    /\ main \in {"run", "serve", "guard"}

GuardInit ==
    /\ lock = Free /\ writers = {} /\ asleep = {} /\ woken = {} /\ main = "run"

(* ConfigurationClass::loop: with no writer it returns at once.            *)
ServeMutant ==
    /\ main = "run" /\ lock = Free /\ writers # {}
    /\ \E t \in asleep : woken' = woken \cup {t} /\ asleep' = (asleep \ {t}) \cup {Loop}
    /\ main' = "serve"
    /\ UNCHANGED <<lock, writers>>
Serve ==
    /\ main = "run" /\ lock = Free /\ writers # {}
    /\ woken' = woken \cup asleep /\ asleep' = {Loop} /\ main' = "serve"
    /\ UNCHANGED <<lock, writers>>

(* The second half of its wait: back to sleep unless all writers left.     *)
Resume ==
    /\ main = "serve" /\ Loop \in woken /\ lock = Free
    /\ woken' = woken \ {Loop}
    /\ \/ writers = {} /\ main' = "run" /\ UNCHANGED asleep
       \/ writers # {} /\ asleep' = asleep \cup {Loop} /\ UNCHANGED main
    /\ UNCHANGED <<lock, writers>>

(* WriteGuard::WriteGuard: count, then wait.                               *)
EnterMutant(t) ==
    /\ lock = Free /\ t \notin writers
    /\ t = Loop => main = "run"
    /\ writers' = writers \cup {t} /\ woken' = woken \cup {t}
    /\ main' = IF t = Loop THEN "guard" ELSE main
    /\ UNCHANGED <<lock, asleep>>
Enter(t) ==
    /\ lock = Free /\ t \notin writers
    /\ t = Loop => main = "run"
    /\ writers' = writers \cup {t} /\ asleep' = asleep \cup {t}
    /\ main' = IF t = Loop THEN "guard" ELSE main
    /\ UNCHANGED <<lock, woken>>

Take(t) ==
    /\ t \in woken \cap writers /\ lock = Free
    /\ lock' = t /\ woken' = woken \ {t}
    /\ UNCHANGED <<writers, asleep, main>>

(* WriteGuard::~WriteGuard: the last one notifies, then the mutex is freed. *)
LeaveMutant(t) ==
    /\ lock = t /\ lock' = Free
    /\ writers' = writers \ {t}
    /\ UNCHANGED <<asleep, woken, main>>
Leave(t) ==
    /\ lock = t /\ lock' = Free
    /\ writers' = writers \ {t}
    /\ \/ writers' = {} /\ woken' = woken \cup asleep /\ asleep' = {}
       \/ writers' # {} /\ UNCHANGED <<woken, asleep>>
    /\ UNCHANGED main

GuardNext ==
    \/ Serve \/ Resume
    \/ \E t \in Tasks : Enter(t) \/ Take(t) \/ Leave(t)

GuardSpec == GuardInit /\ [][GuardNext]_guardVars
-----------------------------------------------------------------------------
(* Whose turn it is to read and write the configuration.                   *)
Owner == IF lock # Free THEN lock
         ELSE IF main = "run" THEN Loop ELSE Free

Access == INSTANCE ExclusiveAccess WITH owner <- Owner, Nobody <- Free

(* Nobody is awake who could notify the others: the main loop, and with it *)
(* the whole firmware, has stopped.                                        *)
Stuck == main # "run" /\ lock = Free /\ woken = {}

(* A writer has the configuration only while the main loop sleeps in       *)
(* ConfigurationClass::loop, and never two writers at once.                *)
Exclusive == lock # Free => main = "serve" /\ lock \in writers /\ lock # Loop

(* The strengthening of Exclusive that every step keeps: nobody is awake   *)
(* but while the main loop serves, and whoever sleeps or wakes is counted. *)
GuardInv ==
    /\ GuardTypeOK
    /\ Exclusive
    /\ main # "serve" => woken = {}
    /\ main = "run" => Loop \notin writers \cup asleep
    /\ main = "serve" => Loop \in asleep \cup woken /\ Loop \notin writers
    /\ asleep \cup woken \subseteq writers \cup {Loop}
    /\ asleep \cap woken = {} /\ lock \notin asleep \cup woken
=============================================================================
