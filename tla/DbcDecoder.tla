------------------------------ MODULE DbcDecoder -------------------------------
(***************************************************************************)
(* DbcDecoder (src/dbc_decoder.cpp) once a file is loaded: the lookup map  *)
(* over the messages of the network, and decode.  The network is the list  *)
(* of messages dbcppp reads from the file, each with its signals in order. *)
(***************************************************************************)
EXTENDS Integers, Sequences, SequencesExt

CONSTANT Physical(_, _)   \* (signal, payload) |-> dbcppp's RawToPhys(Decode(payload))

(* Mutant: operator[] in the place of emplace keeps the last duplicate.    *)
build_map_last_kept(messages) ==
    [id \in {messages[i].id : i \in DOMAIN messages} |->
        messages[Max({i \in DOMAIN messages : messages[i].id = id})].signals]

(* Of several messages with one id the first is kept.                      *)
build_map(messages) ==
    [id \in {messages[i].id : i \in DOMAIN messages} |->
        messages[Min({i \in DOMAIN messages : messages[i].id = id})].signals]

(* decode returns nothing for an id the file does not define.              *)
Decodable(msg_map, can_id) == can_id \in DOMAIN msg_map

(* Every signal of the message, in order, from the whole payload: dlc is   *)
(* not consulted.                                                          *)
decode(msg_map, can_id, data) ==
    LET signals == msg_map[can_id]
    IN  [i \in DOMAIN signals |->
            [name |-> signals[i].name, value |-> Physical(signals[i], data)]]
================================================================================
