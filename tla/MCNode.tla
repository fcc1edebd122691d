-------------------------------- MODULE MCNode ---------------------------------
(***************************************************************************)
(* VehicleCanNode for TLC: the shared parameter sets, those of the timing  *)
(* runs, and those of the counterexamples.                                 *)
(***************************************************************************)
EXTENDS NodeProperties, MCFrames

DataConfigs == {ModeA, ModeB, ModeBTwo, ModeBQuiet, FirehoseOnly} \cup Refused
DataMsgs == {Full, Short, Long, Unknown}

(* Timing: a message with both monitored signals and one with the second.  *)
Timing(rate, timeout) ==
    [ ModeA EXCEPT
        !.diagnostics_rate_hz = rate, !.signal_timeout_ms = timeout,
        !.dbc.messages = <<[id |-> 1, signals |-> <<[name |-> "a", byte |-> 1],
                                                     [name |-> "b", byte |-> 2]>>],
                           [id |-> 2, signals |-> <<[name |-> "b", byte |-> 1]>>]>>,
        !.aliases = <<>>, !.transforms = <<>>, !.promoted = <<>>,
        !.publish_all_signals = FALSE,
        !.signal_id_names = <<>>, !.signal_id_unit_names = <<>>, !.unit_id_names = <<>> ]

TimingConfigs == {Timing(500, 1), Timing(1500, 2)}
TimingMsgs == {CanFrame(1, 1, <<0, 0>>, 1), CanFrame(2, 1, <<0, 0>>, 1)}

(* Liveness: one signal, one message.                                      *)
LivenessConfigs ==
    {[Timing(1000, 1) EXCEPT !.dbc.messages =
        <<[id |-> 2, signals |-> <<[name |-> "b", byte |-> 1]>>]>>]}
LivenessMsgs == {CanFrame(2, 1, <<0, 0>>, 1)}

(* Counterexamples: ModeBQuiet gives both signals of message 1 the same    *)
(* name and lists that name twice; here a schema domain is listed without  *)
(* signals.                                                                *)
ErrorConfigs == {ModeBQuiet}
EmptySchemaConfigs == {[ModeA EXCEPT !.schema = <<Schema("dyn", "/dyn", <<>>)>>]}
FullFrame == {Full}
================================================================================
