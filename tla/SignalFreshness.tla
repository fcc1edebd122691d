---------------------------- MODULE SignalFreshness ----------------------------
(***************************************************************************)
(* What freshness monitoring promises, without the code's data structures: *)
(* a signal that has been heard is either fresh or lost; hearing it makes  *)
(* it fresh; a check at time now with threshold timeout loses exactly the  *)
(* fresh signals whose silence, as a mathematical integer, is longer than  *)
(* the threshold.  TimeoutMonitor is shown to implement this.              *)
(***************************************************************************)
EXTENDS Integers

CONSTANTS
    Signal,     \* names of signals
    Time,       \* the instants a caller can pass
    Threshold   \* the timeouts a caller can pass

VARIABLES
    fresh,      \* signals heard recently enough, as far as checks could tell
    lost,       \* signals found silent for too long and not heard since
    lastHeard   \* when each signal of fresh \cup lost was last heard

vars == <<fresh, lost, lastHeard>>

Init ==
    /\ fresh = {}
    /\ lost = {}
    /\ lastHeard = [s \in {} |-> 0]

Hear(s, now) ==
    /\ fresh' = fresh \cup {s}
    /\ lost' = lost \ {s}
    /\ lastHeard' = [x \in fresh \cup lost \cup {s} |->
                        IF x = s THEN now ELSE lastHeard[x]]

Overdue(now, timeout) == {s \in fresh : now - lastHeard[s] > timeout}

Check(now, timeout) ==
    /\ fresh' = fresh \ Overdue(now, timeout)
    /\ lost' = lost \cup Overdue(now, timeout)
    /\ UNCHANGED lastHeard

Next ==
    \/ \E s \in Signal, now \in Time : Hear(s, now)
    \/ \E now \in Time, timeout \in Threshold : Check(now, timeout)

Spec == Init /\ [][Next]_vars
================================================================================
