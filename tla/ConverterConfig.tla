---------------------------- MODULE ConverterConfig ----------------------------
(***************************************************************************)
(* The converter's counterpart of NodeParameters: build_config and the     *)
(* objects that main and convert_one configure with it                     *)
(* (tools/mcap_converter/src/mcap_converter.cpp).  A parameter set has the *)
(* shape NodeParameters gives it; the converter reads domains, aliases,    *)
(* transforms, schema and signal_id_names and ignores the rest.            *)
(***************************************************************************)
EXTENDS NodeParameters

CONSTANT CanIdRange   \* 2^32, the range of a CAN id

ASSUME CanIdAssumption == CanIdRange \in Nat /\ CanIdRange > MaxCanId

(* Unlike load_parameters, build_config checks the length of one table     *)
(* only; main then loads the DBC file and compiles the expressions.        *)
Accepted(p, dbc) ==
    /\ Len(p.signal_id_names) <= MaxTableId
    /\ dbc.loads
    /\ ConfigureSucceeds(
           ByName(p.transforms, [i \in DOMAIN p.transforms |-> p.transforms[i].expression]))

(* static_cast<uint32_t>, unchecked                                        *)
AsCanId(n) == n % CanIdRange

ConverterDomains(p) ==
    [i \in DOMAIN p.domains |->
        [p.domains[i] EXCEPT !.can_ids = {AsCanId(n) : n \in p.domains[i].can_ids}]]

(* Mutant: a legacy domain overrides the schema domain of the same name.   *)
domain_to_topic_legacy_wins(p) ==
    Over(ByName(p.domains, [i \in DOMAIN p.domains |-> p.domains[i].topic]),
         ByName(p.schema, [i \in DOMAIN p.schema |-> p.schema[i].topic]))

(* Mutant: only the schema gives domains topics.                           *)
domain_to_topic_schema_only(p) ==
    ByName(p.schema, [i \in DOMAIN p.schema |-> p.schema[i].topic])

(* Every domain has a topic, even an empty one; schema domains override    *)
(* legacy domains of the same name.  schema_publish_per_domain is not      *)
(* consulted.                                                              *)
domain_to_topic(p) ==
    Over(ByName(p.schema, [i \in DOMAIN p.schema |-> p.schema[i].topic]),
         ByName(p.domains, [i \in DOMAIN p.domains |-> p.domains[i].topic]))

(* Mutant: the ids are the places counted from 0.                          *)
build_config_zero_based(p, dbc) ==
    [ can_topic |-> p.can_topic,
      msg_map |-> build_map(dbc.messages),
      router |-> configure(ConverterDomains(p),
                           ByName(p.aliases, [i \in DOMAIN p.aliases |-> p.aliases[i].to])),
      exprs |-> CompiledExprs(
                    ByName(p.transforms, [i \in DOMAIN p.transforms |-> p.transforms[i].expression])),
      signal_to_domain |-> SignalToDomain(p.schema),
      signal_name_to_id |-> IdByPlace_zero_based(p.signal_id_names),
      domain_to_topic |-> domain_to_topic(p) ]

(* The settings and objects a conversion reads.                            *)
build_config(p, dbc) ==
    [ can_topic |-> p.can_topic,
      msg_map |-> build_map(dbc.messages),
      router |-> configure(ConverterDomains(p),
                           ByName(p.aliases, [i \in DOMAIN p.aliases |-> p.aliases[i].to])),
      exprs |-> CompiledExprs(
                    ByName(p.transforms, [i \in DOMAIN p.transforms |-> p.transforms[i].expression])),
      signal_to_domain |-> SignalToDomain(p.schema),
      signal_name_to_id |-> IdByPlace(p.signal_id_names),
      domain_to_topic |-> domain_to_topic(p) ]
================================================================================
