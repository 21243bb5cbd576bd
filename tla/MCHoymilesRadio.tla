-------------------------- MODULE MCHoymilesRadio --------------------------
(* Model checking of HoymilesRadio: two inverters or one, a main loop and  *)
(* a second task.                                                          *)
EXTENDS HoymilesRadio

CONSTANTS a, b, web

(* The power limiter sets the limit of a, a user switches b.               *)
PowerByUser == [t \in Tasks |->
    IF t = Loop THEN {<<"limit", a>>, <<"poll", b>>} ELSE {<<"power", b>>}]

(* The power limiter controls a, a user switches it on and off as well.    *)
PowerByBoth == [t \in Tasks |->
    IF t = Loop THEN {"limit", "powerTx", "poll"} \X {a}
                ELSE {"power", "restart"} \X {a}]

(* The user sets the limit of a, the power limiter controls b.             *)
LimitByUser == [t \in Tasks |->
    IF t = Loop THEN {"poll", "powerTx"} \X {b} ELSE {<<"limit", a>>}]

(* The same with a user who switches b as well, ...                        *)
LimitAndPowerByUser == [t \in Tasks |->
    IF t = Loop THEN LimitByUser[t] ELSE {<<"limit", a>>, <<"power", b>>}]

(* ... and the same without polls.                                         *)
LimitUnpolled == [t \in Tasks |->
    IF t = Loop THEN {<<"powerTx", b>>} ELSE {<<"limit", a>>}]

(* Both tasks set the limit of one inverter.                               *)
LimitByBoth == [t \in Tasks |-> {<<"limit", a>>}]

Resends == [k \in Kinds |-> 1]
=============================================================================
