---------------------------- MODULE PeriodicTimers ----------------------------
(***************************************************************************)
(* What tick.c promises: a fixed set of periodic timers, one for each      *)
(* event.  A timer armed with period p fires p milliseconds later and then *)
(* every p milliseconds until it is armed again or cancelled.  Timers that *)
(* expire in the same millisecond fire in the order of their priority, all *)
(* of them before the next millisecond begins.                             *)
(***************************************************************************)
EXTENDS Integers

CONSTANTS Events,   (* event numbers, the lower the earlier in a pass      *)
          Freqs     (* periods, in milliseconds                            *)

VARIABLES armed,    (* the armed timers                                    *)
          period,   (* of an armed timer, 0 for the others                 *)
          left      (* milliseconds until it fires, 0 for the others       *)

vars == << armed, period, left >>

Expired(e) == e \in armed /\ left[e] = 0

Init ==
  /\ armed = {}
  /\ period = [e \in Events |-> 0]
  /\ left = [e \in Events |-> 0]

Arm(e, f) ==
  /\ armed' = armed \cup {e}
  /\ period' = [period EXCEPT ![e] = f]
  /\ left' = [left EXCEPT ![e] = f]

Cancel(e) ==
  /\ armed' = armed \ {e}
  /\ period' = [period EXCEPT ![e] = 0]
  /\ left' = [left EXCEPT ![e] = 0]

Elapse ==
  /\ \A e \in Events : ~Expired(e)
  /\ left' = [e \in Events |-> IF e \in armed THEN left[e] - 1 ELSE 0]
  /\ UNCHANGED << armed, period >>

Fire(e) ==
  /\ Expired(e)
  /\ \A d \in Events : d < e => ~Expired(d)
  /\ left' = [left EXCEPT ![e] = period[e]]
  /\ UNCHANGED << armed, period >>

Next ==
  \/ \E e \in Events, f \in Freqs : Arm(e, f)
  \/ \E e \in Events : Cancel(e) \/ Fire(e)
  \/ Elapse

Spec == Init /\ [][Next]_vars
===============================================================================
