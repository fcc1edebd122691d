---------------------------- MODULE TimeoutMonitor -----------------------------
(***************************************************************************)
(* TimeoutMonitor (src/timeout_monitor.cpp): which signals are arriving    *)
(* within the expected interval.  The instants are the caller's: nothing   *)
(* in the class makes them monotonic, and their arithmetic is unsigned, so *)
(* a difference is taken modulo TimeModulus (2^64 in the code).            *)
(***************************************************************************)
EXTENDS Integers

CONSTANTS
    Signal,        \* names of signals
    TimeModulus,   \* number of values of the uint64_t instants
    Threshold      \* the timeout_ms values a caller may pass

Time == 0 .. TimeModulus - 1

ASSUME TimeAssumption == TimeModulus \in Nat \ {0} /\ Threshold \subseteq Time

VARIABLE states_   \* unordered_map: signal name -> SignalState, a partial function

STATUS_OK      == 0
STATUS_TIMEOUT == 1
STATUS_INITIAL == 2

SignalState ==
    [last_seen_ms : Time, status : {STATUS_OK, STATUS_TIMEOUT, STATUS_INITIAL}]

NewState == [last_seen_ms |-> 0, status |-> STATUS_INITIAL]

(* Mutant: insert_or_assign in the place of emplace.                       *)
register_signal_overwriting(s) ==
    states_' = [x \in DOMAIN states_ \cup {s} |->
                    IF x = s THEN NewState ELSE states_[x]]

(* emplace: an entry that is already there keeps its state.                *)
register_signal(s) ==
    states_' = [x \in DOMAIN states_ \cup {s} |->
                    IF x \in DOMAIN states_ THEN states_[x] ELSE NewState]

(* Mutant: a signal that is already known keeps its first instant.         *)
signal_received_once(s, now_ms) ==
    states_' = [x \in DOMAIN states_ \cup {s} |->
                    IF x \in DOMAIN states_ THEN [states_[x] EXCEPT !.status = STATUS_OK]
                    ELSE [last_seen_ms |-> now_ms, status |-> STATUS_OK]]

(* Refreshes s, registering it first if it is not known.                   *)
signal_received(s, now_ms) ==
    states_' = [x \in DOMAIN states_ \cup {s} |->
                    IF x = s THEN [last_seen_ms |-> now_ms, status |-> STATUS_OK]
                             ELSE states_[x]]

get_status(s) ==
    IF s \in DOMAIN states_ THEN states_[s].status ELSE STATUS_INITIAL

(* Mutant: the order of the two instants is not tested.                    *)
Expired_wrapping(state, now_ms, timeout_ms) ==
    /\ state.status = STATUS_OK
    /\ (now_ms - state.last_seen_ms) % TimeModulus > timeout_ms

(* The test of check_timeouts on one entry.  A signal never received is    *)
(* skipped; an instant at or before the last receipt never expires it,     *)
(* which is what keeps the unsigned difference from wrapping.              *)
Expired(state, now_ms, timeout_ms) ==
    /\ state.status = STATUS_OK
    /\ now_ms > state.last_seen_ms
    /\ (now_ms - state.last_seen_ms) % TimeModulus > timeout_ms

(* Mutant: the loop stops at the first signal that timed out.              *)
newly_timed_out_stops(now_ms, timeout_ms) ==
    LET late == {s \in DOMAIN states_ : Expired(states_[s], now_ms, timeout_ms)}
    IN  IF late = {} THEN {} ELSE {CHOOSE s \in late : TRUE}

newly_timed_out(now_ms, timeout_ms) ==
    {s \in DOMAIN states_ : Expired(states_[s], now_ms, timeout_ms)}

(* After check_timeouts, the map as it leaves it.                          *)
CheckedStates(now_ms, timeout_ms) ==
    [s \in DOMAIN states_ |->
        IF s \in newly_timed_out(now_ms, timeout_ms)
        THEN [states_[s] EXCEPT !.status = STATUS_TIMEOUT]
        ELSE states_[s]]

check_timeouts(now_ms, timeout_ms) == states_' = CheckedStates(now_ms, timeout_ms)

timed_out_signals == {s \in DOMAIN states_ : states_[s].status = STATUS_TIMEOUT}

MonitorInit == states_ = [s \in {} |-> NewState]

MonitorNext ==
    \/ \E s \in Signal : register_signal(s)
    \/ \E s \in Signal, now_ms \in Time : signal_received(s, now_ms)
    \/ \E now_ms \in Time, timeout_ms \in Threshold : check_timeouts(now_ms, timeout_ms)

MonitorSpec == MonitorInit /\ [][MonitorNext]_states_

--------------------------------------------------------------------------------
(* Type invariant: the map holds well-formed entries of known signals.     *)
MonitorTypeOK ==
    /\ DOMAIN states_ \subseteq Signal
    /\ states_ \in [DOMAIN states_ -> SignalState]

(* The life cycle documented on the class (timeout_monitor.hpp:15-17): an  *)
(* entry is never forgotten, never goes back to INITIAL, times out only    *)
(* from OK and keeps the instant of its last receipt when it does.         *)
EntryStep(old, new) ==
    \/ new = old
    \/ new.status = STATUS_OK
    \/ old.status = STATUS_OK /\ new = [old EXCEPT !.status = STATUS_TIMEOUT]

LifeCycle ==
    [][ /\ DOMAIN states_ \subseteq DOMAIN states_'
        /\ \A s \in DOMAIN states_ : EntryStep(states_[s], states_'[s]) ]_states_

(* The monitor implements the abstract specification of freshness: with    *)
(* OK read as fresh and TIMEOUT as lost, every operation of the class is a *)
(* step of SignalFreshness, whose differences are those of the integers.   *)
WithStatus(st) == {s \in DOMAIN states_ : states_[s].status = st}

Freshness == INSTANCE SignalFreshness WITH
    fresh <- WithStatus(STATUS_OK),
    lost <- WithStatus(STATUS_TIMEOUT),
    lastHeard <- [s \in WithStatus(STATUS_OK) \cup WithStatus(STATUS_TIMEOUT) |->
                     states_[s].last_seen_ms]

ImplementsFreshness == Freshness!Spec
================================================================================
