------------------------------- MODULE MCFrames --------------------------------
(***************************************************************************)
(* Instances for TLC that the node and the converter share: a DBC file     *)
(* whose two messages share a signal name, CAN messages that are short,    *)
(* long, or unknown, and parameter sets that cover both routing modes and  *)
(* ambiguous lists.                                                        *)
(***************************************************************************)
EXTENDS NodeParameters

MCSignal == {"a", "b", "CAN1_a", "CAN1_b", "CAN2_a", "CAN2_b", "speed", "brake"}

MCCompoundKey(id, raw) ==
    CASE id = 1 /\ raw = "a" -> "CAN1_a" [] id = 1 /\ raw = "b" -> "CAN1_b"
      [] id = 2 /\ raw = "a" -> "CAN2_a" [] id = 2 /\ raw = "b" -> "CAN2_b"

(* Bytes are 0..3; a physical value is odd and 7 at most, a float is even. *)
MCPhysical(sig, data) == 2 * data[sig.byte] + 1
MCFloat32(v) == v - (v % 2)
MCEval(e, v) == IF e = "-x" THEN -v ELSE v
MCCompiles(e) == e # "x+"
MCMayThrow(e) == e = "risky"
MCExpression == {"-x", "risky", "x+"}
MCValue == -8 .. 8

Dbc == <<[id |-> 1, signals |-> <<[name |-> "a", byte |-> 1], [name |-> "b", byte |-> 2]>>],
         [id |-> 2, signals |-> <<[name |-> "a", byte |-> 1]>>],
         [id |-> 1, signals |-> <<[name |-> "b", byte |-> 1]>>]>>

CanFrame(id, dlc, data, stamp) == [id |-> id, dlc |-> dlc, data |-> data, stamp |-> stamp]
Full == CanFrame(1, 2, <<1, 2>>, 1)
Short == CanFrame(1, 1, <<3, 3>>, 2)
Long == CanFrame(2, 3, <<2, 1>>, 3)
Unknown == CanFrame(9, 0, <<0, 0>>, 4)

Domain(name, topic, ids) == [name |-> name, topic |-> topic, can_ids |-> ids]
Alias(from, to) == [name |-> from, to |-> to]
Schema(name, topic, signals) == [name |-> name, topic |-> topic, signals |-> signals]
Transform(name, expression) == [name |-> name, expression |-> expression]
Promoted(name, suffix) == [name |-> name, topic_suffix |-> suffix]

(* Mode A: routing by CAN id, id 1 claimed by two domains.                 *)
ModeA ==
    [ diagnostics_rate_hz |-> 500, signal_timeout_ms |-> 1, schema_republish_interval_ms |-> 2,
      publish_all_signals |-> TRUE, schema_publish_per_domain |-> TRUE,
      dbc |-> [loads |-> TRUE, messages |-> Dbc],
      domains |-> <<Domain("chassis", "/chassis", {1}), Domain("power", "/power", {1, 2})>>,
      aliases |-> <<Alias("a", "speed"), Alias("CAN2_a", "brake")>>,
      transforms |-> <<Transform("speed", "risky"), Transform("b", "-x")>>,
      promoted |-> <<Promoted("speed", "v")>>,
      schema |-> <<>>,
      signal_id_names |-> <<"speed", "brake">>,
      signal_id_unit_names |-> <<"m/s", "">>,
      unit_id_names |-> <<"", "m/s">> ]

(* Mode B: routing by schema, a signal listed by two domains, no entry for *)
(* a unit, a legacy domain beside the schema.                              *)
ModeB ==
    [ ModeA EXCEPT
        !.domains = <<Domain("chassis", "", {1}), Domain("dyn", "/legacy", {2})>>,
        !.schema = <<Schema("op", "/op", <<"brake", "speed">>), Schema("dyn", "/dyn", <<"speed">>)>>,
        !.aliases = <<Alias("CAN1_a", "speed"), Alias("a", "brake")>>,
        !.transforms = <<Transform("brake", "risky"), Transform("speed", "")>>,
        !.promoted = <<Promoted("brake", "bk"), Promoted("b", "raw_b")>>,
        !.signal_id_names = <<"brake", "b", "speed">>,
        !.signal_id_unit_names = <<"%", "m/s", "kph">>,
        !.unit_id_names = <<"m/s", "m/s", "%">> ]

(* Mode B with the two signals of message 1 in different domains.          *)
ModeBTwo ==
    [ ModeB EXCEPT
        !.schema = <<Schema("op", "/op", <<"brake", "b">>), Schema("dyn", "/dyn", <<"speed">>)>>,
        !.transforms = <<Transform("b", "risky")>> ]

(* Mode B without per-domain topics or firehose for a domain named like    *)
(* the sentinel, and both signals of message 1 under one name.             *)
ModeBQuiet ==
    [ ModeB EXCEPT
        !.schema_publish_per_domain = FALSE, !.publish_all_signals = FALSE,
        !.schema = <<Schema("unassigned", "/u", <<"speed">>), Schema("dyn", "/dyn", <<"brake">>)>>,
        !.aliases = <<Alias("a", "brake"), Alias("b", "brake"), Alias("CAN1_a", "CAN1_a")>>,
        !.signal_id_names = <<"brake", "speed", "brake">> ]

(* The firehose alone, and a table that is exactly full.                   *)
FirehoseOnly ==
    [ ModeB EXCEPT
        !.schema_publish_per_domain = FALSE, !.domains = <<>>,
        !.transforms = <<Transform("brake", "risky"), Transform("speed", "risky")>>,
        !.signal_id_names = <<"a", "b", "speed", "brake">>,
        !.signal_id_unit_names = <<"m/s", "%", "%", "m/s">> ]

Refused ==
    { [ModeA EXCEPT !.diagnostics_rate_hz = 0],
      [ModeA EXCEPT !.signal_timeout_ms = 0],
      [ModeA EXCEPT !.schema_republish_interval_ms = 0],
      [ModeA EXCEPT !.dbc.loads = FALSE],
      [ModeA EXCEPT !.domains = <<Domain("chassis", "/chassis", {-1})>>],
      [ModeA EXCEPT !.aliases = <<Alias("a", "speed"), Alias("a", "brake")>>],
      [ModeA EXCEPT !.transforms = <<Transform("b", "x+")>>],
      [ModeA EXCEPT !.signal_id_unit_names = <<"m/s">>],
      [ModeA EXCEPT !.signal_id_names = <<"a", "b", "speed", "CAN1_a", "brake">>,
                    !.signal_id_unit_names = <<"m/s", "m/s", "m/s", "m/s", "">>] }
================================================================================
