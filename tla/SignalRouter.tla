----------------------------- MODULE SignalRouter ------------------------------
(***************************************************************************)
(* SignalRouter (src/signal_router.cpp): CAN id -> domain -> topic, and    *)
(* signal-name aliases.  The router is configured once, at start-up, and   *)
(* only read afterwards: a configured router is a record of its maps.      *)
(***************************************************************************)
EXTENDS Integers, Sequences, SequencesExt

kUnassignedDomain == "unassigned"

(* A map filled by a loop over a list: pass i writes vals[i] under every   *)
(* key of keys[i], so under each key the last pass that wrote it wins.     *)
WriteInOrder(keys, vals) ==
    [k \in UNION Range(keys) |-> vals[Max({i \in DOMAIN keys : k \in keys[i]})]]

(* The map old with the entries of new written over it.                    *)
Over(new, old) ==
    [k \in DOMAIN new \cup DOMAIN old |-> IF k \in DOMAIN new THEN new[k] ELSE old[k]]

(* Mutant: emplace alone, so the first domain that claims a CAN id has it. *)
configure_first_wins(domains, aliases) ==
    [ id_to_domain |->
        [id \in UNION {domains[i].can_ids : i \in DOMAIN domains} |->
            domains[Min({i \in DOMAIN domains : id \in domains[i].can_ids})].name],
      domain_to_topic |->
        WriteInOrder([i \in DOMAIN domains |-> {domains[i].name}],
                     [i \in DOMAIN domains |-> domains[i].topic]),
      aliases |-> aliases ]

(* domains is the list of DomainConfig; a CAN id of several domains goes   *)
(* to the last of them (with a warning, which is only logged).             *)
configure(domains, aliases) ==
    [ id_to_domain |->
        WriteInOrder([i \in DOMAIN domains |-> domains[i].can_ids],
                     [i \in DOMAIN domains |-> domains[i].name]),
      domain_to_topic |->
        WriteInOrder([i \in DOMAIN domains |-> {domains[i].name}],
                     [i \in DOMAIN domains |-> domains[i].topic]),
      aliases |-> aliases ]

domain_for_id(router, can_id) ==
    IF can_id \in DOMAIN router.id_to_domain
    THEN router.id_to_domain[can_id]
    ELSE kUnassignedDomain

topic_for_domain(router, domain) ==
    IF domain \in DOMAIN router.domain_to_topic
    THEN router.domain_to_topic[domain]
    ELSE ""

apply_alias(router, signal_name) ==
    IF signal_name \in DOMAIN router.aliases
    THEN router.aliases[signal_name]
    ELSE signal_name
================================================================================
