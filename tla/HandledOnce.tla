----------------------------- MODULE HandledOnce -----------------------------
(***************************************************************************)
(* What an asynchronous inbound channel promises about one provider event, *)
(* however often the provider delivers it and whatever dies in between: it *)
(* is accepted once, at most one coordinator run is started for it, the    *)
(* run's outcome is settled once and for good, and the sender hears an     *)
(* answer only after the outcome is settled.  Nothing is promised about an *)
(* event whose process died: it may stay where it was for ever.            *)
(***************************************************************************)
CONSTANT Event          \* the provider's events

VARIABLES
    phase,              \* how far the handling of each event has come
    answered            \* the events whose sender has heard an answer

vars == <<phase, answered>>

Phase == {"new", "accepted", "started", "settled"}

Init ==
    /\ phase = [e \in Event |-> "new"]
    /\ answered = {}

Move(e, from, to) ==
    /\ phase[e] = from
    /\ phase' = [phase EXCEPT ![e] = to]
    /\ UNCHANGED answered

Accept(e) == Move(e, "new", "accepted")

Start(e) == Move(e, "accepted", "started")

Settle(e) == Move(e, "started", "settled")

Answer(e) ==
    /\ phase[e] = "settled"
    /\ answered' = answered \union {e}
    /\ UNCHANGED phase

Next ==
    \E e \in Event : Accept(e) \/ Start(e) \/ Settle(e) \/ Answer(e)

Spec == Init /\ [][Next]_vars
=============================================================================
