------------------------------ MODULE Mailbox ------------------------------
(***************************************************************************)
(* What somebody who leaves an input at the daemon is promised, without     *)
(* pass, cursor, batch or failing call: it is queued on a session, is       *)
(* injected while it is queued and the terminal attends to that session, at *)
(* most once in a stay there, and becomes delivered after it was injected,  *)
(* for good.  What the terminal wrote itself is never touched.              *)
(***************************************************************************)
CONSTANTS
    Inputs,
    Steers,     \* those the terminal is to inject
    Sessions,
    None
VARIABLES
    of,         \* the session of each input, None before it is queued
    state,      \* "unborn", "queued" or "delivered"
    injected,   \* inputs injected at some time
    at,         \* the session attended to
    seen        \* inputs injected in the present stay there

vars == <<of, state, injected, at, seen>>

Init ==
    /\ of = [i \in Inputs |-> None]
    /\ state = [i \in Inputs |-> "unborn"]
    /\ injected = {}
    /\ at = None
    /\ seen = {}

Queue(i, s) ==
    /\ state[i] = "unborn"
    /\ of' = [of EXCEPT ![i] = s]
    /\ state' = [state EXCEPT ![i] = "queued"]
    /\ UNCHANGED <<injected, at, seen>>

Turn(s) ==
    /\ s # at
    /\ at' = s
    /\ seen' = {}
    /\ UNCHANGED <<of, state, injected>>

Injects(i) ==
    /\ state[i] = "queued" /\ of[i] = at /\ i \notin seen
    /\ injected' = injected \cup {i}
    /\ seen' = seen \cup {i}

Delivers(i) ==
    /\ i \in seen
    /\ state' = [state EXCEPT ![i] = "delivered"]

Inject(i) == Injects(i) /\ UNCHANGED <<of, state, at>>
Deliver(i) == Delivers(i) /\ UNCHANGED <<of, injected, at, seen>>
\* The one just injected is delivered and the next one injected.
DeliverAndInject(i, j) == Delivers(i) /\ Injects(j) /\ UNCHANGED <<of, at>>

Next ==
    \/ \E i \in Inputs, s \in Sessions : Queue(i, s)
    \/ \E s \in Sessions : Turn(s)
    \/ \E i \in Steers : Inject(i) \/ Deliver(i) \/ \E j \in Steers : DeliverAndInject(i, j)

Spec == Init /\ [][Next]_vars
=============================================================================
