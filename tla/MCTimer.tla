------------------------------- MODULE MCTimer ------------------------------
\* Two timers, two callers and one poller on a clock of a few instants.
EXTENDS Timer
=============================================================================
