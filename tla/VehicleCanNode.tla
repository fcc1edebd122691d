---------------------------- MODULE VehicleCanNode -----------------------------
(***************************************************************************)
(* VehicleCanNode (src/vehicle_can_node.cpp) and its process (main.cpp):   *)
(* construction, then callbacks of a single-threaded executor: the CAN     *)
(* subscription, the diagnostics timer and the schema timer.  Between the  *)
(* steps of a callback only the clock moves and frames arrive.             *)
(***************************************************************************)
EXTENDS NodeParameters, TimeoutMonitor

CONSTANTS
    Configs,       \* parameter sets the node may be launched with
    CanMsgs,       \* can_msgs/Frame messages that may arrive
    Byte,          \* values of a byte of a payload
    Value,         \* values of a signal (double)
    QueueDepth,    \* depth of SensorDataQoS (5)
    MaxDelay,      \* ticks within which the executor serves a due timer
    MaxClock,      \* bound: last tick of a run
    MaxFrames      \* bound: frames that arrive in a run

CanMsg == [id : Nat, dlc : Nat, data : [1 .. NBytes -> Byte], stamp : Nat]
DbcSignal == [name : Signal, byte : 1 .. NBytes]
SignalRecord == [name_id : 0 .. MaxTableId, value : Value]

ParameterSpace ==
    [ diagnostics_rate_hz : Int, signal_timeout_ms : Int, schema_republish_interval_ms : Int,
      publish_all_signals : BOOLEAN, schema_publish_per_domain : BOOLEAN,
      dbc : [loads : BOOLEAN, messages : Seq([id : Nat, signals : Seq(DbcSignal)])],
      domains : Seq([name : STRING, topic : STRING, can_ids : SUBSET Int]),
      aliases : Seq([name : Signal, to : Signal]),
      transforms : Seq([name : Signal, expression : Expression \cup {""}]),
      promoted : Seq([name : Signal, topic_suffix : STRING]),
      schema : Seq([name : STRING, topic : STRING, signals : Seq(Signal)]),
      signal_id_names : Seq(Signal),
      signal_id_unit_names : Seq(STRING),
      unit_id_names : Seq(STRING) ]

ASSUME NodeAssumption ==
    /\ Configs \subseteq ParameterSpace
    /\ \A p \in Configs : ValidParameters(p) => p.signal_timeout_ms \in Threshold
    /\ CanMsgs \subseteq CanMsg
    /\ NBytes \in Nat /\ QueueDepth \in Nat \ {0} /\ MaxDelay \in Nat /\ MaxFrames \in Nat
    /\ MaxClock \in Time
    /\ 0 \in Byte

ASSUME DataAssumption ==
    /\ \A sig \in DbcSignal, data \in [1 .. NBytes -> Byte] : Physical(sig, data) \in Value
    /\ \A e \in Expression, v \in Value : Eval(e, v) \in Value
    /\ \A v \in Value : Float32(v) \in Value

VARIABLES
    pc,                 \* where the process is
    params,             \* the launch parameters
    members,            \* what load_parameters built
    domain_pubs_,       \* domain -> topic
    promoted_pubs_,     \* promoted signal -> topic suffix
    frames_received_, frames_decoded_, frames_unknown_, decode_errors_,
    frame_signals_,     \* buffer: domain -> signals of the frame
    all_sigs_,          \* buffer: signals of the frame, for the firehose
    msg,                \* message being processed, or the last one
    todo,               \* decoded signals that process_frame still has to handle
    clock,              \* steady clock, in ticks
    diag_due, schema_due,   \* next call of each timer
    rx_queue,           \* subscription queue; each frame with its arrival tick
    arrivals,           \* frames that have arrived
    groups_out,         \* SignalGroup messages published for msg
    promoted_out,       \* Float64 messages published for msg, in order
    diagnostic,         \* last SignalDiagnostic published
    schema_sample,      \* sample /vehicle/schema keeps for late subscribers
    failed,             \* history: places in the frame whose transform threw
    heard               \* history: tick at which each monitored signal was last handled

configVars == <<params, members, domain_pubs_, promoted_pubs_>>
counters == <<frames_received_, frames_decoded_, frames_unknown_, decode_errors_>>
buffers == <<frame_signals_, all_sigs_>>
frameVars == <<msg, todo, failed, groups_out, promoted_out>>
timers == <<diag_due, schema_due>>
queueVars == <<rx_queue, arrivals>>
monitorVars == <<states_, heard>>
vars == <<pc, configVars, counters, buffers, frameVars, clock, timers, queueVars,
          monitorVars, diagnostic, schema_sample>>

None == [none |-> TRUE]     \* nothing built, received or published yet
Never == -1                 \* no tick

Exited == {"stopped", "failed"}
Subscribed == {"setup_diagnostics_timer", "setup_schema_timer", "spin", "signals"}
DiagnosticsArmed == {"setup_schema_timer", "spin", "signals"}
SchemaArmed == {"spin", "signals"}

Init ==
    /\ pc = "load_parameters"
    /\ params \in Configs
    /\ members = None /\ domain_pubs_ = <<>> /\ promoted_pubs_ = <<>>
    /\ frames_received_ = 0 /\ frames_decoded_ = 0
    /\ frames_unknown_ = 0 /\ decode_errors_ = 0
    /\ frame_signals_ = <<>> /\ all_sigs_ = <<>>
    /\ msg = None /\ todo = <<>> /\ failed = {}
    /\ groups_out = {} /\ promoted_out = <<>>
    /\ clock = 0 /\ diag_due = Never /\ schema_due = Never
    /\ rx_queue = <<>> /\ arrivals = 0
    /\ diagnostic = None /\ schema_sample = None
    /\ MonitorInit
    /\ heard = [s \in Signal |-> Never]

now_ms == clock \div TicksPerMs

--------------------------------------------------------------------------------
(* Construction                                                            *)

(* An exception leaves the constructor; main logs it and returns 1.        *)
load_parameters ==
    /\ pc = "load_parameters"
    /\ \/ /\ ValidParameters(params)
          /\ members' = LoadedMembers(params)
          /\ pc' = "setup_publishers"
       \/ /\ ~ValidParameters(params)
          /\ pc' = "failed"
          /\ UNCHANGED members
    /\ UNCHANGED <<params, domain_pubs_, promoted_pubs_, counters, buffers, frameVars, clock,
                   timers, queueVars, monitorVars, diagnostic, schema_sample>>

setup_publishers ==
    /\ pc = "setup_publishers"
    /\ domain_pubs_' = DomainPublishers(params, members.router)
    /\ promoted_pubs_' = PromotedPublishers(params)
    /\ pc' = "publish_schema"
    /\ UNCHANGED <<params, members, counters, buffers, frameVars, clock, timers, queueVars,
                   monitorVars, diagnostic, schema_sample>>

SchemaMessage == [signal_table |-> SignalTable(members), unit_table |-> params.unit_id_names]

publish_schema == schema_sample' = SchemaMessage

FirstSchema ==
    /\ pc = "publish_schema"
    /\ publish_schema
    /\ pc' = "create_subscription"
    /\ UNCHANGED <<configVars, counters, buffers, frameVars, clock, timers, queueVars,
                   monitorVars, diagnostic>>

create_subscription ==
    /\ pc = "create_subscription"
    /\ pc' = "setup_diagnostics_timer"
    /\ UNCHANGED <<configVars, counters, buffers, frameVars, clock, timers, queueVars,
                   monitorVars, diagnostic, schema_sample>>

setup_diagnostics_timer ==
    /\ pc = "setup_diagnostics_timer"
    /\ diag_due' = clock + DiagnosticsPeriod(params)
    /\ pc' = "setup_schema_timer"
    /\ UNCHANGED <<configVars, counters, buffers, frameVars, clock, schema_due, queueVars,
                   monitorVars, diagnostic, schema_sample>>

setup_schema_timer ==
    /\ pc = "setup_schema_timer"
    /\ schema_due' = clock + SchemaPeriod(params)
    /\ pc' = "spin"
    /\ UNCHANGED <<configVars, counters, buffers, frameVars, clock, diag_due, queueVars,
                   monitorVars, diagnostic, schema_sample>>

--------------------------------------------------------------------------------
(* The CAN subscription                                                    *)

(* Mutant: the bytes beyond the dlc are not zeroed.                        *)
PayloadOf_whole(m) == m.data

(* on_can_frame: at most NBytes bytes are copied, the rest are zero.       *)
PayloadOf(m) ==
    LET dlc == IF m.dlc <= NBytes THEN m.dlc ELSE NBytes
    IN  [k \in 1 .. NBytes |-> IF k <= dlc THEN m.data[k] ELSE 0]

(* Mutant: the buffers keep what the previous frame left in them.          *)
ClearBuffers_forgotten == UNCHANGED buffers

ClearBuffers == frame_signals_' = <<>> /\ all_sigs_' = <<>>

(* on_can_frame and process_frame up to its loop.                          *)
on_can_frame ==
    /\ pc = "spin"
    /\ rx_queue # <<>>
    /\ LET m == Head(rx_queue).msg
       IN  /\ msg' = m
           /\ \/ /\ ~Decodable(members.msg_map, m.id)
                 /\ frames_unknown_' = frames_unknown_ + 1
                 /\ UNCHANGED <<pc, todo, frames_decoded_, buffers>>
              \/ /\ Decodable(members.msg_map, m.id)
                 /\ frames_decoded_' = frames_decoded_ + 1
                 /\ ClearBuffers
                 /\ todo' = decode(members.msg_map, m.id, PayloadOf(m))
                 /\ pc' = "signals"
                 /\ UNCHANGED frames_unknown_
    /\ rx_queue' = Tail(rx_queue)
    /\ frames_received_' = frames_received_ + 1
    /\ failed' = {} /\ groups_out' = {} /\ promoted_out' = <<>>
    /\ UNCHANGED <<configVars, decode_errors_, clock, timers, arrivals, monitorVars,
                   diagnostic, schema_sample>>

Resolution(raw) ==
    resolve_signal(raw.name, msg.id, members.router, members.signal_to_domain)

(* 1-based place of the signal at hand in its frame.                       *)
Place == Len(members.msg_map[msg.id]) - Len(todo) + 1

SignalMsg(name, value) ==
    [ name_id |-> IF name \in DOMAIN members.signal_name_to_id
                  THEN members.signal_name_to_id[name]
                  ELSE 0,
      value |-> Float32(value) ]

(* frame_signals_[domain].push_back(signal)                                *)
PushTo(domain, signal) ==
    frame_signals_' =
        [d \in DOMAIN frame_signals_ \cup {domain} |->
            IF d # domain THEN frame_signals_[d]
            ELSE IF d \in DOMAIN frame_signals_
                 THEN Append(frame_signals_[d], signal)
                 ELSE <<signal>>]

(* Only an assigned signal is monitored and grouped.                       *)
GroupSignal(name, domain, signal) ==
    \/ /\ domain # kUnassignedDomain
       /\ signal_received(name, now_ms)
       /\ heard' = [heard EXCEPT ![name] = clock]
       /\ PushTo(domain, signal)
       /\ all_sigs_' = IF params.publish_all_signals THEN Append(all_sigs_, signal) ELSE all_sigs_
    \/ /\ domain = kUnassignedDomain
       /\ UNCHANGED <<monitorVars, buffers>>

(* A promoted signal is published, as a double, whatever its domain.       *)
PromoteSignal(name, value) ==
    promoted_out' = IF name \in DOMAIN promoted_pubs_
                    THEN Append(promoted_out, [topic_suffix |-> promoted_pubs_[name], data |-> value])
                    ELSE promoted_out

(* One pass of the loop of process_frame.                                  *)
process_signal ==
    /\ pc = "signals"
    /\ todo # <<>>
    /\ LET raw == Head(todo)
           res == Resolution(raw)
           value == transform(members.exprs, res.name, raw.value)
       IN  /\ GroupSignal(res.name, res.domain, SignalMsg(res.name, value))
           /\ PromoteSignal(res.name, value)
    /\ todo' = Tail(todo)
    /\ UNCHANGED <<pc, configVars, counters, msg, failed, groups_out, clock, timers, queueVars,
                   diagnostic, schema_sample>>

(* The pass in which transform throws: the signal is skipped.              *)
transform_error ==
    /\ pc = "signals"
    /\ todo # <<>>
    /\ TransformMayThrow(members.exprs, Resolution(Head(todo)).name)
    /\ decode_errors_' = decode_errors_ + 1
    /\ failed' = failed \cup {Place}
    /\ todo' = Tail(todo)
    /\ UNCHANGED <<pc, configVars, frames_received_, frames_decoded_, frames_unknown_, buffers, msg,
                   groups_out, promoted_out, clock, timers, queueVars, monitorVars,
                   diagnostic, schema_sample>>

GroupMsg(topic, domain, signals) ==
    [topic |-> topic, domain |-> domain, stamp |-> msg.stamp, signals |-> signals]

DomainGroups ==
    {GroupMsg(domain_pubs_[d], d, frame_signals_[d]) : d \in DOMAIN frame_signals_ \cap DOMAIN domain_pubs_}

Firehose ==
    IF params.publish_all_signals /\ all_sigs_ # <<>>
    THEN {GroupMsg("all_signals_topic", "all", all_sigs_)}
    ELSE {}

(* The end of process_frame.  The vectors are moved into the messages,     *)
(* which leaves every buffered vector empty; the keys stay.                *)
publish_groups ==
    /\ pc = "signals"
    /\ todo = <<>>
    /\ groups_out' = DomainGroups \cup Firehose
    /\ frame_signals_' = [d \in DOMAIN frame_signals_ |-> <<>>]
    /\ all_sigs_' = IF Firehose = {} THEN all_sigs_ ELSE <<>>
    /\ pc' = "spin"
    /\ UNCHANGED <<configVars, counters, msg, todo, failed, promoted_out, clock, timers,
                   queueVars, monitorVars, diagnostic, schema_sample>>

--------------------------------------------------------------------------------
(* The timers                                                              *)

(* Mutant: the timer is a one-shot timer.                                  *)
NextCall_once(due, period) == 2 * MaxClock + 1

(* rcl: the next multiple of the period after the last call that is not    *)
(* already past; calls that were missed are not made up for.               *)
NextCall(due, period) ==
    LET next == due + period
    IN  IF next >= clock THEN next
        ELSE IF period = 0 THEN clock
        ELSE next + ((clock - next + period - 1) \div period) * period

on_diagnostics_timer ==
    /\ pc = "spin"
    /\ clock >= diag_due
    /\ diag_due' = NextCall(diag_due, DiagnosticsPeriod(params))
    /\ check_timeouts(now_ms, params.signal_timeout_ms)
    /\ diagnostic' = [ at |-> clock,
                       frames_received |-> frames_received_,
                       frames_decoded |-> frames_decoded_,
                       frames_unknown |-> frames_unknown_,
                       decode_errors |-> decode_errors_,
                       timed_out_signals |-> timed_out_signals' ]
    /\ UNCHANGED <<pc, configVars, counters, buffers, frameVars, clock, schema_due, queueVars,
                   heard, schema_sample>>

on_schema_timer ==
    /\ pc = "spin"
    /\ clock >= schema_due
    /\ schema_due' = NextCall(schema_due, SchemaPeriod(params))
    /\ publish_schema
    /\ UNCHANGED <<pc, configVars, counters, buffers, frameVars, clock, diag_due, queueVars,
                   monitorVars, diagnostic>>

--------------------------------------------------------------------------------
(* The process and its environment                                         *)

(* spin returns on a signal, between two callbacks; main returns 0.        *)
Shutdown ==
    /\ pc = "spin"
    /\ pc' = "stopped"
    /\ UNCHANGED <<configVars, counters, buffers, frameVars, clock, timers, queueVars,
                   monitorVars, diagnostic, schema_sample>>

(* Mutant: KEEP_ALL history.                                               *)
Enqueue_keep_all(queue, item) == Append(queue, item)

(* KEEP_LAST: a full queue loses its oldest frame.                         *)
Enqueue(queue, item) ==
    Append(IF Len(queue) = QueueDepth THEN Tail(queue) ELSE queue, item)

(* A frame reaches the subscription.                                       *)
Receive(m) ==
    /\ pc \in Subscribed
    /\ arrivals < MaxFrames
    /\ arrivals' = arrivals + 1
    /\ rx_queue' = Enqueue(rx_queue, [msg |-> m, at |-> clock])
    /\ UNCHANGED <<pc, configVars, counters, buffers, frameVars, clock, timers,
                   monitorVars, diagnostic, schema_sample>>

(* Time passes, but not so far that a due timer waits longer than MaxDelay. *)
Tick ==
    /\ pc \notin Exited
    /\ clock < MaxClock
    /\ pc \in DiagnosticsArmed => clock < diag_due + MaxDelay
    /\ pc \in SchemaArmed => clock < schema_due + MaxDelay
    /\ clock' = clock + 1
    /\ UNCHANGED <<pc, configVars, counters, buffers, frameVars, timers, queueVars,
                   monitorVars, diagnostic, schema_sample>>

Terminated == pc \in Exited /\ UNCHANGED vars

Construct ==
    \/ load_parameters \/ setup_publishers \/ FirstSchema
    \/ create_subscription \/ setup_diagnostics_timer \/ setup_schema_timer

Next ==
    \/ Construct
    \/ on_can_frame \/ process_signal \/ transform_error \/ publish_groups
    \/ on_diagnostics_timer \/ on_schema_timer
    \/ Shutdown
    \/ \E m \in CanMsgs : Receive(m)
    \/ Tick
    \/ Terminated

Spec == Init /\ [][Next]_vars

(* The process keeps running and the wait set of the executor serves every *)
(* ready entity before it waits again; frames and signals need not come.   *)
Fairness ==
    /\ WF_vars(Construct)
    /\ WF_vars(on_can_frame)
    /\ WF_vars(process_signal \/ transform_error)
    /\ WF_vars(publish_groups)
    /\ WF_vars(on_diagnostics_timer)
    /\ WF_vars(on_schema_timer)
    /\ WF_vars(Tick)

FairSpec == Spec /\ Fairness
================================================================================
