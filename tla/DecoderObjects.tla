----------------------------- MODULE DecoderObjects ----------------------------
(***************************************************************************)
(* The life of DbcDecoder objects (src/dbc_decoder.cpp): they load files,  *)
(* of which some do not open or do not parse, and are moved and destroyed. *)
(* The lookup map of an object points into the network it was built from,  *)
(* which the next network replaces; a network is known here by the number  *)
(* of the load that made it.                                               *)
(***************************************************************************)
EXTENDS DbcDecoder

CONSTANTS
    Decoder,
    File,        \* readable DBC files: lists of messages
    MaxLoads     \* bound: networks made

ASSUME ObjectsAssumption ==
    /\ MaxLoads \in Nat
    /\ \A file \in File : file \in Seq(Range(file))

VARIABLES
    decoders,   \* objects that are constructed and not destroyed
    impl_,      \* of each object; NoImpl when it is moved from
    loaded_,
    networks,   \* networks made so far
    loads       \* history: the file of the last load, if that succeeded

decoder_vars == <<decoders, impl_, loaded_, networks, loads>>

NoImpl == [null |-> TRUE]
NoFile == [none |-> TRUE]
NoNetwork == 0
NewImpl == [network |-> NoNetwork, msg_map |-> <<>>, points_into |-> NoNetwork]

DecoderInit ==
    /\ decoders = {}
    /\ impl_ = [o \in Decoder |-> NoImpl]
    /\ loaded_ = [o \in Decoder |-> FALSE]
    /\ networks = 0
    /\ loads = [o \in Decoder |-> NoFile]

ConstructDecoder(o) ==
    /\ o \notin decoders
    /\ decoders' = decoders \cup {o}
    /\ impl_' = [impl_ EXCEPT ![o] = NewImpl]
    /\ loaded_' = [loaded_ EXCEPT ![o] = FALSE]
    /\ loads' = [loads EXCEPT ![o] = NoFile]
    /\ UNCHANGED networks

(* Mutant: nothing deletes the implementation.                             *)
DestroyDecoder_leaking(o) ==
    /\ o \in decoders
    /\ decoders' = decoders \ {o}
    /\ UNCHANGED <<impl_, loaded_, networks, loads>>

DestroyDecoder(o) ==
    /\ o \in decoders
    /\ decoders' = decoders \ {o}
    /\ impl_' = [impl_ EXCEPT ![o] = NoImpl]
    /\ UNCHANGED <<loaded_, networks, loads>>

(* Mutant: the source of a move says it is still loaded.                   *)
MoveLoaded_kept(dst, src) == loaded_' = [loaded_ EXCEPT ![dst] = loaded_[src]]

MoveLoaded(dst, src) == loaded_' = [loaded_ EXCEPT ![dst] = loaded_[src], ![src] = FALSE]

TakeDecoder(dst, src) ==
    /\ impl_' = [impl_ EXCEPT ![dst] = impl_[src], ![src] = NoImpl]
    /\ MoveLoaded(dst, src)
    /\ loads' = [loads EXCEPT ![dst] = loads[src], ![src] = NoFile]
    /\ UNCHANGED networks

MoveConstructDecoder(dst, src) ==
    /\ dst \notin decoders /\ src \in decoders
    /\ decoders' = decoders \cup {dst}
    /\ TakeDecoder(dst, src)

(* The network of dst is destroyed with its impl; a self-move is nothing.  *)
MoveAssignDecoder(dst, src) ==
    /\ dst \in decoders /\ src \in decoders /\ dst # src
    /\ TakeDecoder(dst, src)
    /\ UNCHANGED decoders

--------------------------------------------------------------------------------
(* Mutant: loaded_ is only ever set.                                       *)
NotLoaded_unset(o) == UNCHANGED loaded_

NotLoaded(o) == loaded_' = [loaded_ EXCEPT ![o] = FALSE]

(* Mutant: the map of the file before is not cleared.                      *)
Rebuilt_uncleared(old, messages) == build_map(messages) @@ old

(* msg_map.clear(), then the messages of the network.                      *)
Rebuilt(old, messages) == build_map(messages)

(* The file does not open, or parsing it throws.                           *)
load_fails(o) ==
    /\ o \in decoders
    /\ NotLoaded(o)
    /\ loads' = [loads EXCEPT ![o] = NoFile]
    /\ UNCHANGED <<decoders, impl_, networks>>

(* The parser returns no network: the one there was is destroyed, the map  *)
(* into it stays.  Nothing guards a load into an object that is moved      *)
(* from.                                                                   *)
load_parses_nothing(o) ==
    /\ o \in decoders /\ impl_[o] # NoImpl
    /\ impl_' = [impl_ EXCEPT ![o].network = NoNetwork]
    /\ NotLoaded(o)
    /\ loads' = [loads EXCEPT ![o] = NoFile]
    /\ UNCHANGED <<decoders, networks>>

load(o, file) ==
    /\ o \in decoders /\ impl_[o] # NoImpl
    /\ networks < MaxLoads
    /\ networks' = networks + 1
    /\ impl_' = [impl_ EXCEPT ![o] = [ network |-> networks',
                                       msg_map |-> Rebuilt(impl_[o].msg_map, file),
                                       points_into |-> networks' ]]
    /\ loaded_' = [loaded_ EXCEPT ![o] = TRUE]
    /\ loads' = [loads EXCEPT ![o] = [messages |-> file]]
    /\ UNCHANGED decoders

(* What known_ids answers.                                                 *)
known_ids(o) == IF loaded_[o] THEN DOMAIN impl_[o].msg_map ELSE {}

DecoderNext ==
    \/ \E o \in Decoder :
          \/ ConstructDecoder(o) \/ DestroyDecoder(o)
          \/ load_fails(o) \/ load_parses_nothing(o)
          \/ \E file \in File : load(o, file)
    \/ \E dst, src \in Decoder : MoveConstructDecoder(dst, src) \/ MoveAssignDecoder(dst, src)

DecoderSpec == DecoderInit /\ [][DecoderNext]_decoder_vars

--------------------------------------------------------------------------------
(* Type invariant; only objects that are alive hold an implementation.     *)
DecoderTypeOK ==
    /\ decoders \subseteq Decoder
    /\ DOMAIN impl_ = Decoder
    /\ \A o \in Decoder : impl_[o] # NoImpl =>
          /\ o \in decoders
          /\ impl_[o].network \in 0 .. networks
          /\ impl_[o].points_into \in 0 .. networks
    /\ loaded_ \in [Decoder -> BOOLEAN]
    /\ DOMAIN loads = Decoder
    /\ networks \in 0 .. MaxLoads

(* An object that answers queries has its implementation, its network, and *)
(* a map into that network: neither a failed load, nor one that leaves no  *)
(* network, nor a move lets decode follow a pointer into what is gone      *)
(* (loaded_ of dbc_decoder.cpp).                                           *)
NoDangling ==
    \A o \in decoders : loaded_[o] =>
        /\ impl_[o] # NoImpl
        /\ impl_[o].network # NoNetwork
        /\ impl_[o].points_into = impl_[o].network

(* The ids are those of the messages; of duplicates the first counts.      *)
Knows(o, messages) ==
    /\ known_ids(o) = {messages[k].id : k \in DOMAIN messages}
    /\ \A k \in DOMAIN messages :
          (\A j \in 1 .. k - 1 : messages[j].id # messages[k].id) =>
              impl_[o].msg_map[messages[k].id] = messages[k].signals

(* An object knows the messages of the file that its last load read, of    *)
(* duplicates the first, and of no other; none after a load that failed,   *)
(* however it was moved meanwhile (load, decode, known_ids).               *)
DecodesLastLoad ==
    \A o \in decoders :
        Knows(o, IF loads[o] = NoFile THEN <<>> ELSE loads[o].messages)

(* The inductive invariant: a loaded object has the map of its last load.  *)
MadeFrom(last, msg_map) ==
    \E file \in File : last = [messages |-> file] /\ msg_map = build_map(file)

LoadInv ==
    \A o \in decoders :
        /\ loaded_[o] => MadeFrom(loads[o], impl_[o].msg_map)
        /\ ~ loaded_[o] => loads[o] = NoFile
================================================================================
