---------------------------- MODULE NodeProperties -----------------------------
(* What the node promises, stated over VehicleCanNode.                      *)
EXTENDS VehicleCanNode, FrameMeaning

Timeout == params.signal_timeout_ms
HeardSignals == {s \in Signal : heard[s] # Never}

(* Type invariant.  What load_parameters builds is pinned down as a        *)
(* function of the parameters, and refused parameters go no further.       *)
TypeOK ==
    /\ pc \in {"load_parameters", "setup_publishers", "publish_schema", "create_subscription"}
              \cup Subscribed \cup Exited
    /\ params \in Configs
    /\ pc \notin {"load_parameters", "failed"} =>
          ValidParameters(params) /\ members = LoadedMembers(params)
    /\ frames_received_ \in Nat /\ frames_decoded_ \in Nat
    /\ frames_unknown_ \in Nat /\ decode_errors_ \in Nat
    /\ frame_signals_ \in [DOMAIN frame_signals_ -> Seq(SignalRecord)]
    /\ all_sigs_ \in Seq(SignalRecord)
    /\ msg \in CanMsgs \cup {None}
    /\ todo \in Seq([name : Signal, value : Value])
    /\ pc = "signals" => msg \in CanMsgs
    /\ clock \in 0 .. MaxClock
    /\ diag_due \in Int /\ schema_due \in Int
    /\ rx_queue \in Seq([msg : CanMsgs, at : 0 .. MaxClock])
    /\ Len(rx_queue) <= QueueDepth
    /\ arrivals \in 0 .. MaxFrames
    /\ MonitorTypeOK
    /\ heard \in [Signal -> {Never} \cup 0 .. MaxClock]

--------------------------------------------------------------------------------
(* Timing                                                                  *)

(* Every diagnostic is exact when it is published (on_diagnostics_timer):  *)
(* it names no signal that was never handled, none that was handled within *)
(* the timeout, and every one that has been silent for a millisecond more. *)
(* The millisecond is the truncation of now_ms.  A signal handled again    *)
(* after the diagnostic is judged by the next one.                         *)
DiagnosticExact ==
    diagnostic # None =>
        /\ diagnostic.timed_out_signals \subseteq HeardSignals
        /\ \A s \in HeardSignals :
              LET silence == diagnostic.at - heard[s]
              IN  silence > 0 =>
                     /\ s \in diagnostic.timed_out_signals => silence > Timeout * TicksPerMs
                     /\ silence >= (Timeout + 1) * TicksPerMs => s \in diagnostic.timed_out_signals

(* A dead signal cannot look alive for long: while the node runs, a signal *)
(* whose status is OK was handled within the timeout, one diagnostics      *)
(* period, the delay of the executor and the millisecond of truncation.    *)
DetectionLatency ==
    \A s \in HeardSignals :
        pc \notin Exited /\ get_status(s) = STATUS_OK =>
            clock - heard[s] <
                (Timeout + 1) * TicksPerMs + DiagnosticsPeriod(params) + MaxDelay

(* The inductive invariant behind the two.  A check that runs at or after  *)
(* the deadline of a signal, in ticks, times it out; the timer is never    *)
(* due later than one period from now, so the first check after a receipt  *)
(* that can find the signal late comes less than a period after its        *)
(* deadline; and the executor serves that check within MaxDelay.           *)
Deadline(s) == (states_[s].last_seen_ms + Timeout + 1) * TicksPerMs

Running == {"spin", "signals", "stopped"}

ScheduleInv ==
    pc \in DiagnosticsArmed =>
        diag_due <= clock + DiagnosticsPeriod(params) /\ clock <= diag_due + MaxDelay

MonitorInv ==
    /\ DOMAIN states_ = HeardSignals
    /\ \A s \in HeardSignals :
          /\ pc \in Running
          /\ heard[s] <= clock
          /\ states_[s].last_seen_ms = heard[s] \div TicksPerMs
          /\ \/ /\ states_[s].status = STATUS_OK
                /\ diag_due < Deadline(s) + DiagnosticsPeriod(params)
             \/ /\ states_[s].status = STATUS_TIMEOUT
                /\ Deadline(s) <= clock

DiagnosticInv ==
    diagnostic # None =>
        /\ pc \in Running
        /\ diagnostic.at \in 0 .. clock
        /\ diagnostic.timed_out_signals \subseteq HeardSignals
        /\ \A s \in HeardSignals :
              heard[s] < diagnostic.at =>
                  (s \in diagnostic.timed_out_signals <=> Deadline(s) <= diagnostic.at)

TimingInv == ScheduleInv /\ MonitorInv /\ DiagnosticInv

(* A signal that has fallen silent is reported: it does not stay out of    *)
(* the diagnostics for ever, unless it is handled again or the process     *)
(* ends.  Receipts too close to the end of the bounded run to time out     *)
(* in it are left out.                                                     *)
Detectable(s) ==
    /\ heard[s] # Never
    /\ heard[s] + (Timeout + 1) * TicksPerMs + DiagnosticsPeriod(params) + MaxDelay <= MaxClock

Reported(s) == diagnostic # None /\ s \in diagnostic.timed_out_signals

SilenceReported ==
    \A s \in Signal : Detectable(s) ~> (~Detectable(s) \/ Reported(s) \/ pc \in Exited)

--------------------------------------------------------------------------------
(* What is published for a frame                                           *)

FrameDone == pc = "spin" /\ msg # None

(* Of a frame m, with parameters p: the firehose group, and all groups.    *)
FirehoseOf(p, m, skipped) ==
    IF p.publish_all_signals /\ InAny(p, m, skipped) # <<>>
    THEN {Group("all_signals_topic", "all", m.stamp, InAny(p, m, skipped))}
    ELSE {}

GroupsOf(p, m, skipped) ==
    GroupsOn(p, m, skipped, LAMBDA d : LiveTopicsOf(p, d)) \cup FirehoseOf(p, m, skipped)

(* After a frame has been processed, the groups published for it are       *)
(* exactly these: one per domain that has a topic and a signal in this     *)
(* frame, with the signals of this frame alone, in order, and the firehose *)
(* with those of all domains.  Nothing is left over from an earlier frame  *)
(* in the reused buffers, and no byte beyond the dlc matters               *)
(* (process_frame, on_can_frame).                                          *)
GroupsFaithful == FrameDone => groups_out = GroupsOf(params, msg, failed)

(* What is promoted of a frame.                                            *)
PromotedOf(p, m, skipped) ==
    LET ks == Places(p, m, skipped, LAMBDA n : PromotedAs(p, n) # {})
    IN  [i \in DOMAIN ks |->
            [ topic_suffix |-> p.promoted[Max(PromotedAs(p, NameAt(p, m, ks[i])))].topic_suffix,
              data |-> ValueAt(p, m, ks[i]) ]]

(* The promoted topics carry, in the order of the frame and in full        *)
(* precision, every promoted signal of the frame whose transform did not   *)
(* fail, whatever its domain, and nothing else (process_frame,             *)
(* docs/configuration.md:168).                                             *)
PromotedFaithful == FrameDone => promoted_out = PromotedOf(params, msg, failed)

(* Whatever the node publishes can be resolved from the schema sample that *)
(* a subscriber joining now receives: exactly one row has the name_id of a *)
(* published signal, it has the canonical name of the signal, and its      *)
(* unit_id, if any, points at the unit configured for it (publish_schema). *)
SchemaResolves ==
    FrameDone =>
        \A k \in DOMAIN Signals(params, msg) \ failed :
            LET id == SignalAt(params, msg, k).name_id
                table == schema_sample.signal_table
                rows == {i \in DOMAIN table : table[i].id = id}
                row == table[CHOOSE i \in rows : TRUE]
                unit == params.signal_id_unit_names[id]
            IN  id # 0 =>
                    /\ \E i \in rows : rows = {i}
                    /\ row.name = NameAt(params, msg, k)
                    /\ IF row.unit_id = 0
                       THEN unit \notin ToSet(params.unit_id_names)
                       ELSE schema_sample.unit_table[row.unit_id] = unit

(* The inductive invariant behind the three.  In the middle of a frame the *)
(* signals still to be handled are skipped, as those whose transform threw *)
(* are; what has been collected is then what the rest means.  The schema   *)
(* and the publishers are those of the parameters from the start.          *)
Skipped == failed \cup (Place .. Len(Signals(params, msg)))

FrameInv ==
    pc = "signals" =>
        /\ Decodable(members.msg_map, msg.id)
        /\ Len(todo) <= Len(Signals(params, msg))
        /\ \A k \in DOMAIN todo :
              todo[k] = decode(members.msg_map, msg.id, PayloadOf(msg))[Place - 1 + k]
        /\ failed \subseteq 1 .. Place - 1
        /\ frame_signals_ =
              [d \in {e \in DomainNames(params) : InDomain(params, msg, Skipped, e) # <<>>} |->
                  InDomain(params, msg, Skipped, d)]
        /\ all_sigs_ = IF params.publish_all_signals THEN InAny(params, msg, Skipped) ELSE <<>>
        /\ promoted_out = PromotedOf(params, msg, Skipped)

Unloaded == {"load_parameters", "setup_publishers", "failed"}
Unspun == Unloaded \cup {"publish_schema", "create_subscription", "setup_diagnostics_timer",
                       "setup_schema_timer"}

StartUpInv ==
    /\ pc \notin Unloaded =>
          /\ domain_pubs_ = DomainPublishers(params, members.router)
          /\ promoted_pubs_ = PromotedPublishers(params)
    /\ pc \notin Unloaded \cup {"publish_schema"} => schema_sample = SchemaMessage
    /\ pc \in Unspun => msg = None

DataInv == FrameInv /\ StartUpInv /\ GroupsFaithful /\ PromotedFaithful

--------------------------------------------------------------------------------
(* Statements of the documentation that the code does not keep             *)

(* docs/architecture.md:80, SignalDiagnostic.msg: decode_errors counts     *)
(* frames matched but not decoded, so it never exceeds the decoded frames. *)
DecodeErrorsAreFrames == decode_errors_ <= frames_decoded_

(* docs/architecture.md:41, VehicleSchema.msg: signal_table[name_id - 1]   *)
(* (1-based here: row name_id) resolves the name of a published signal.    *)
TableIndexedByNameId ==
    FrameDone =>
        \A k \in DOMAIN Signals(params, msg) \ failed :
            LET id == SignalAt(params, msg, k).name_id
            IN  id # 0 => /\ id \in DOMAIN schema_sample.signal_table
                          /\ schema_sample.signal_table[id].name = NameAt(params, msg, k)

(* docs/configuration.md:64: a non-empty schema_domain_names enables       *)
(* schema mode, in which only schema domains are published.                *)
SchemaListEnablesSchemaMode ==
    params.schema # <<>> =>
        \A g \in groups_out :
            g.domain = "all" \/ \E i \in DOMAIN params.schema : g.domain = params.schema[i].name
================================================================================
