---------------------------- MODULE SignalPipeline -----------------------------
(***************************************************************************)
(* resolve_signal (include/vehicle_can_decoder/signal_pipeline.hpp): the   *)
(* canonical name and the domain of a raw DBC signal.                      *)
(***************************************************************************)
EXTENDS SignalRouter

CONSTANT CompoundKey(_, _)   \* (can_id, raw_name) |-> the name "CAN{can_id}_{raw_name}"

(* Mutant: the bare name is tried first, the compound key only without it. *)
resolve_signal_bare_first(raw_name, can_id, router, signal_to_domain) ==
    LET resolved == IF apply_alias(router, raw_name) # raw_name
                    THEN apply_alias(router, raw_name)
                    ELSE apply_alias(router, CompoundKey(can_id, raw_name))
        domain == IF DOMAIN signal_to_domain = {}
                  THEN domain_for_id(router, can_id)
                  ELSE IF resolved \in DOMAIN signal_to_domain
                       THEN signal_to_domain[resolved]
                       ELSE kUnassignedDomain
    IN  [name |-> resolved, domain |-> domain]

(* signal_to_domain is a partial function; it is empty when no schema      *)
(* domain lists a signal, and then the CAN id decides.                     *)
resolve_signal(raw_name, can_id, router, signal_to_domain) ==
    LET compound_key == CompoundKey(can_id, raw_name)
        compound_alias == apply_alias(router, compound_key)
        resolved == IF compound_alias # compound_key
                    THEN compound_alias
                    ELSE apply_alias(router, raw_name)
        domain == IF DOMAIN signal_to_domain = {}
                  THEN domain_for_id(router, can_id)
                  ELSE IF resolved \in DOMAIN signal_to_domain
                       THEN signal_to_domain[resolved]
                       ELSE kUnassignedDomain
    IN  [name |-> resolved, domain |-> domain]
================================================================================
