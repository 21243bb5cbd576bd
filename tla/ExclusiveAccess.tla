--------------------------- MODULE ExclusiveAccess ---------------------------
(***************************************************************************)
(* What the write guard of ConfigurationClass promises: the configuration  *)
(* belongs to the main loop, or to one writer, or to nobody.  A writer     *)
(* gets it only after the main loop has given it up.                       *)
(***************************************************************************)
CONSTANTS Tasks, Loop, Nobody

VARIABLE owner

Init == owner = Loop

GiveUp  == owner = Loop /\ owner' = Nobody
Take(t) == owner = Nobody /\ owner' = t
Release == owner # Loop /\ owner' = Nobody
Return  == owner = Nobody /\ owner' = Loop

Next == GiveUp \/ (\E t \in Tasks \ {Loop} : Take(t)) \/ Release \/ Return

Spec == Init /\ [][Next]_owner
=============================================================================
