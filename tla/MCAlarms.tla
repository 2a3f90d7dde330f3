------------------------------ MODULE MCAlarms ------------------------------
(***************************************************************************)
(* Instance of Alarms for TLC: two round robin threads and one other.      *)
(* Programs at one priority and at two use alarms in all ways; one program *)
(* changes the parameters of its threads and uses only simple alarms.      *)
(***************************************************************************)
EXTENDS Alarms, TLC

CONSTANTS idle, r1, r2, f, h, rr, a1

Sym == Permutations({r1, r2})

MCWaitQ == {<<"alarm", a>> : a \in Alarm}

Flat == [t \in Program |-> 1]
Above == [t \in Program |-> IF t = f THEN 2 ELSE 1]
Below == [t \in Program |-> IF t = f THEN 1 ELSE 2]

Once == <<3, 0, "none">>
Periodic == <<1, 2, "thread">>
Disarmed == <<NULL, 0, "none">>

MCPrograms ==
    {[prio |-> Flat, delayers |-> {f}, requests |-> {r}, changes |-> {}] : r \in {Once, Periodic}}
    \cup {[prio |-> Above, delayers |-> {f}, requests |-> {Once, Periodic, Disarmed}, changes |-> {}],
          [prio |-> Below, delayers |-> {f}, requests |-> {Once, Periodic}, changes |-> {}]}
    \cup {[prio |-> Flat, delayers |-> {}, requests |-> {Once}, changes |-> {<<f, t, 2, 4>>}]
             : t \in {r1, r2}}
=============================================================================
