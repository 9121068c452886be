-------------------------------- MODULE MCCwIn --------------------------------
EXTENDS CwIn

(* What decides NoPhantomKey and NoStuckPort: no step changes one of these *)
(* by a part of the state that is not among them.                          *)
Keying == << edges, settings, parse, cstate, tick_events, pins >>
===============================================================================
