------------------------------- MODULE MCHook -------------------------------
\* One fiber reads and sleeps, one connects, and an unhooked thread opens and closes.
EXTENDS Hook

CONSTANTS f1, f2, u

MCIoCalls == [f \in Fibers |-> CASE f = f1 -> {"read", "sleep"} [] f = f2 -> {"connect"} [] f = u -> {}]
=============================================================================
