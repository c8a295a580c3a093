----------------------------- MODULE BoundedGate -----------------------------
(***************************************************************************)
(* What the run service promises to whoever starts a run, and nothing of   *)
(* how it keeps the promise: a gate that lets every request in at most     *)
(* once, holds at most Limit of them at a time, turns a request away only  *)
(* when it is full or closed, and admits nobody once it has been closed.   *)
(***************************************************************************)
EXTENDS Naturals, FiniteSets

CONSTANTS
    Members,    \* the requests that may ask to be let in
    Limit       \* how many may be inside at once

VARIABLES
    inside,     \* admitted and not yet released
    past,       \* admitted once and released
    refused,    \* turned away
    closed      \* no more admissions

gateVars == <<inside, past, refused, closed>>

Fresh(m) == m \notin inside \cup past \cup refused

GateInit ==
    /\ inside = {}
    /\ past = {}
    /\ refused = {}
    /\ closed = FALSE

Enter(m) ==
    /\ ~closed
    /\ Fresh(m)
    /\ Cardinality(inside) < Limit
    /\ inside' = inside \cup {m}
    /\ UNCHANGED <<past, refused, closed>>

Refuse(m) ==
    /\ Fresh(m)
    /\ closed \/ Cardinality(inside) >= Limit
    /\ refused' = refused \cup {m}
    /\ UNCHANGED <<inside, past, closed>>

Leave(m) ==
    /\ m \in inside
    /\ inside' = inside \ {m}
    /\ past' = past \cup {m}
    /\ UNCHANGED <<refused, closed>>

Close ==
    /\ ~closed
    /\ closed' = TRUE
    /\ UNCHANGED <<inside, past, refused>>

GateNext ==
    \/ \E m \in Members : Enter(m) \/ Refuse(m) \/ Leave(m)
    \/ Close

GateSpec == GateInit /\ [][GateNext]_gateVars

=============================================================================
