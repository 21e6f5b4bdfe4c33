----------------------------- MODULE TunnelSlot -----------------------------
(***************************************************************************)
(* What the keepers of one happd process id promise, seen from outside: a   *)
(* slot that holds at most one xray.  A keeper may try a bounded number of  *)
(* times to get an xray into it, every try is answered at most once, and a  *)
(* keeper that is over has nothing in the slot and nothing on the way.      *)
(***************************************************************************)
EXTENDS Naturals

CONSTANTS Keepers, MaxAttempts, Nobody

VARIABLES
  holder,  \* the keeper whose xray runs and has not been told to stop
  armed,   \* keepers with a try that is not answered yet
  tries,   \* tries each keeper has made
  over     \* keepers that have ended

vars == <<holder, armed, tries, over>>

Init ==
  /\ holder = Nobody
  /\ armed = {}
  /\ tries = [k \in Keepers |-> 0]
  /\ over = {}

\* A try; it is armed unless happd cannot be reached.
Try(k) ==
  /\ k \notin over
  /\ holder # k
  /\ k \notin armed
  /\ tries[k] < MaxAttempts
  /\ tries' = [tries EXCEPT ![k] = @ + 1]
  /\ armed' \in {armed, armed \union {k}}
  /\ UNCHANGED <<holder, over>>

\* A try is answered with an xray, which takes the slot from its holder.
Start(k) ==
  /\ k \in armed
  /\ armed' = armed \ {k}
  /\ holder' = k
  /\ UNCHANGED <<tries, over>>

\* A stop, a death, a refusal or the end of a session: things only go away.
Release ==
  /\ holder' \in {holder, Nobody}
  /\ armed' \subseteq armed
  /\ UNCHANGED <<tries, over>>

\* A keeper ends with nothing left in the slot or on the way to it.
End(k) ==
  /\ k \notin over
  /\ over' = over \union {k}
  /\ tries' = [tries EXCEPT ![k] = 0]
  /\ holder' = IF holder = k THEN Nobody ELSE holder
  /\ armed' = armed \ {k}

Next == Release \/ \E k \in Keepers : Try(k) \/ Start(k) \/ End(k)

Spec == Init /\ [][Next]_vars
=============================================================================
