---------------------------- MODULE NodeParameters -----------------------------
(***************************************************************************)
(* VehicleCanNode::load_parameters and setup_publishers: when the node     *)
(* accepts its parameters, and the members and publishers it builds from   *)
(* them.  Nothing here changes after start-up.                             *)
(*                                                                         *)
(* A parameter set is a record.  Lists keep their order: domains, aliases, *)
(* transforms, promoted and schema hold one record per element of the      *)
(* corresponding *_names list, in the order of that list.  The rate is in  *)
(* Hz and the republish interval in ms.                                    *)
(***************************************************************************)
EXTENDS SignalPipeline, DbcDecoder, SignalTransformer, TLC

CONSTANTS
    TicksPerMs,    \* resolution of the steady clock (10^6 in the code)
    MaxCanId,      \* 0x1FFFFFFF
    MaxTableId,    \* 0xFFFF, the largest uint16_t
    NBytes,        \* length of a payload (8)
    Float32(_)     \* static_cast<float>

ASSUME ParameterAssumption ==
    /\ TicksPerMs \in Nat \ {0}
    /\ MaxCanId \in Nat
    /\ MaxTableId \in Nat

(* declare_parameter throws on a name that is already declared.            *)
DeclaredOnce(list) == IsInjective([i \in DOMAIN list |-> list[i].name])

(* Mutant: the limit of the tables is off by one.                          *)
TablesFit_one_more(p) ==
    /\ Len(p.unit_id_names) <= MaxTableId + 1
    /\ Len(p.signal_id_names) <= MaxTableId + 1

(* The 1-based places of both tables fit a uint16_t.                       *)
TablesFit(p) ==
    /\ Len(p.unit_id_names) <= MaxTableId
    /\ Len(p.signal_id_names) <= MaxTableId

(* Every check of load_parameters passes; otherwise it throws and the node *)
(* is not constructed.                                                     *)
ValidParameters(p) ==
    /\ p.diagnostics_rate_hz > 0
    /\ p.signal_timeout_ms > 0
    /\ p.schema_republish_interval_ms > 0
    /\ p.dbc.loads
    /\ DeclaredOnce(p.domains)
    /\ \A i \in DOMAIN p.domains : p.domains[i].can_ids \subseteq 0 .. MaxCanId
    /\ DeclaredOnce(p.aliases)
    /\ DeclaredOnce(p.transforms)
    /\ ConfigureSucceeds([i \in DOMAIN p.transforms |-> p.transforms[i].expression])
    /\ DeclaredOnce(p.promoted)
    /\ DeclaredOnce(p.schema)
    /\ p.signal_id_names # <<>> =>
          Len(p.signal_id_unit_names) = Len(p.signal_id_names)
    /\ TablesFit(p)

(* static_cast<uint16_t>                                                   *)
AsTableId(n) == n % (MaxTableId + 1)

(* The map a list of records with a name fills with one of their fields.   *)
ByName(list, vals) == WriteInOrder([i \in DOMAIN list |-> {list[i].name}], vals)

(* Mutant: the places are counted from 0.                                  *)
IdByPlace_zero_based(names) ==
    WriteInOrder([i \in DOMAIN names |-> {names[i]}],
                 [i \in DOMAIN names |-> AsTableId(i - 1)])

(* 1-based places of a list of names; a repeated name has its last place.  *)
IdByPlace(names) ==
    WriteInOrder([i \in DOMAIN names |-> {names[i]}],
                 [i \in DOMAIN names |-> AsTableId(i)])

(* Unit id of every signal id whose unit name has one.                     *)
UnitBySignalId(names, unit_names, unit_ids) ==
    LET known == {i \in DOMAIN names : unit_names[i] \in DOMAIN unit_ids}
    IN  [id \in {AsTableId(i) : i \in known} |->
            unit_ids[unit_names[Max({i \in known : AsTableId(i) = id})]]]

(* Mutant: a schema domain does not take a signal that already has one.    *)
SignalToDomain_first_wins(schema) ==
    [s \in UNION {ToSet(schema[i].signals) : i \in DOMAIN schema} |->
        schema[Min({i \in DOMAIN schema : s \in ToSet(schema[i].signals)})].name]

SignalToDomain(schema) ==
    WriteInOrder([i \in DOMAIN schema |-> ToSet(schema[i].signals)],
                 [i \in DOMAIN schema |-> schema[i].name])

(* The members of the node after load_parameters.                          *)
LoadedMembers(p) ==
    [ msg_map |-> build_map(p.dbc.messages),
      router |-> configure(p.domains,
                           ByName(p.aliases, [i \in DOMAIN p.aliases |-> p.aliases[i].to])),
      exprs |-> CompiledExprs(
                    ByName(p.transforms, [i \in DOMAIN p.transforms |-> p.transforms[i].expression])),
      signal_to_domain |-> SignalToDomain(p.schema),
      signal_name_to_id |-> IdByPlace(p.signal_id_names),
      signal_id_to_unit_id |-> UnitBySignalId(p.signal_id_names, p.signal_id_unit_names,
                                              IdByPlace(p.unit_id_names)) ]

--------------------------------------------------------------------------------
(* setup_publishers: topic of every domain publisher.  A legacy domain     *)
(* with an empty topic has none; a schema domain replaces a legacy one of  *)
(* the same name.                                                          *)
LegacyPublishers(p, router) ==
    LET withTopic == {i \in DOMAIN p.domains : topic_for_domain(router, p.domains[i].name) # ""}
    IN  [d \in {p.domains[i].name : i \in withTopic} |-> topic_for_domain(router, d)]

SchemaPublishers(p) ==
    IF p.schema_publish_per_domain
    THEN ByName(p.schema, [i \in DOMAIN p.schema |-> p.schema[i].topic])
    ELSE <<>>

DomainPublishers(p, router) == Over(SchemaPublishers(p), LegacyPublishers(p, router))

(* Topic suffix of every promoted signal's publisher.                      *)
PromotedPublishers(p) ==
    ByName(p.promoted, [i \in DOMAIN p.promoted |-> p.promoted[i].topic_suffix])

(* The numbers of a set, in ascending order.                               *)
InOrder(S) ==
    [k \in 1 .. Cardinality(S) |-> CHOOSE x \in S : Cardinality({y \in S : y < x}) = k - 1]

(* publish_schema: the signal table, ordered by id.                        *)
SignalTable(members) ==
    LET ids == InOrder(Range(members.signal_name_to_id))
        row(id) ==
            [ id |-> id,
              name |-> CHOOSE n \in DOMAIN members.signal_name_to_id :
                           members.signal_name_to_id[n] = id,
              unit_id |-> IF id \in DOMAIN members.signal_id_to_unit_id
                          THEN members.signal_id_to_unit_id[id]
                          ELSE 0 ]
    IN  [k \in DOMAIN ids |-> row(ids[k])]

(* Timer periods, in ticks.                                                *)
DiagnosticsPeriod(p) == (1000 * TicksPerMs) \div p.diagnostics_rate_hz
SchemaPeriod(p) == p.schema_republish_interval_ms * TicksPerMs
================================================================================
