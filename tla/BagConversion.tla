----------------------------- MODULE BagConversion -----------------------------
(***************************************************************************)
(* A conversion of tools/mcap_converter from end to end: main reads the    *)
(* configuration files one after the other, convert_one takes one bag      *)
(* message by message.  CAN frames are decoded and their signals grouped   *)
(* by domain and serialized, everything else passes through.  What happens *)
(* to the files is McapConverter's subject.                                *)
(***************************************************************************)
EXTENDS ConverterConfig, FrameMeaning, YamlConfig, CdrBuffer

CONSTANTS
    Inputs,      \* what the tool is run on: [settings, configs, bag]
    NsPerSec     \* 10^9

GroupType == "vehicle_can_decoder/msg/SignalGroup"
Malformed == [malformed |-> TRUE]    \* data that is no can_msgs/Frame

(* A message of a bag is a record of its topic, time_stamp and data; every *)
(* message is in one of the topics of the bag.  The stamp of a frame has   *)
(* the types of builtin_interfaces/Time.                                   *)
ASSUME BagAssumption ==
    \A i \in Inputs :
        /\ i.configs \in Seq(Document)
        /\ IsSeq(i.bag.messages)
        /\ \A m \in Range(i.bag.messages) :
              /\ m.topic \in DOMAIN i.bag.topics
              /\ m.topic # i.settings.can_topic => "cdr" \notin DOMAIN m.data
              /\ m.topic = i.settings.can_topic /\ m.data # Malformed =>
                    m.data.stamp \in [sec : -(UInt32 \div 2) .. UInt32 \div 2 - 1,
                                      nanosec : 0 .. UInt32 - 1]

(* The lists of a parameter set and of the DBC file.                       *)
ASSUME SettingsAssumption ==
    \A i \in Inputs :
        LET p == i.settings
        IN  /\ IsSeq(p.domains) /\ IsSeq(p.aliases) /\ IsSeq(p.transforms) /\ IsSeq(p.schema)
            /\ IsSeq(p.signal_id_names) /\ IsSeq(p.dbc.messages)
            /\ \A s \in Range(p.schema) : IsSeq(s.signals)
            /\ \A m \in Range(p.dbc.messages) : IsSeq(m.signals) /\ Len(m.signals) < UInt32

(* What is written to a buffer fits it: strings are bytes and shorter than *)
(* a uint32 can tell, a float has 32 bits, and an id 16.  Different names  *)
(* have different codes.                                                   *)
ASSUME CodeAssumption ==
    /\ MaxTableId < UInt16
    /\ \A i \in Inputs :
          LET names == DomainNames(i.settings)
          IN  /\ \A s \in names \cup {""} :
                    Codes(s) \in Seq(0 .. Base - 1) /\ Len(Codes(s)) + 1 < UInt32
              /\ \A s, t \in names : Codes(s) = Codes(t) => s = t
              /\ \A m \in Range(i.bag.messages) :
                    m.topic = i.settings.can_topic /\ m.data # Malformed =>
                        \A k \in DOMAIN Signals(i.settings, m.data) :
                            FloatBits(SignalAt(i.settings, m.data, k).value) \in 0 .. UInt32 - 1

VARIABLES
    pc,           \* where the conversion is
    settings,     \* the parameter set that the files of --config write down, and the DBC file
    configs,      \* documents still to be loaded
    params,       \* merged so far: flat key -> leaf
    cfg,          \* what build_config and convert_one made of it
    bag,          \* the input bag
    reader,       \* messages read from it
    topics,       \* of the output bag: name -> type
    written,      \* messages written to it, in order
    ros_frame,    \* the frame at hand
    todo,         \* its decoded signals still to be handled
    groups,       \* domain -> SignalGroup, reused from frame to frame
    unwritten,    \* domains whose group is still to be written
    counters      \* of the summary

vars == <<pc, settings, configs, params, cfg, bag, reader, topics, written, ros_frame, todo, groups,
          unwritten, counters>>

None == [none |-> TRUE]
Exited == {"done", "failed"}

Init ==
    /\ pc = "load_config"
    /\ \E i \in Inputs : settings = i.settings /\ configs = i.configs /\ bag = i.bag
    /\ params = <<>>
    /\ cfg = None
    /\ reader = 0 /\ topics = <<>> /\ written = <<>>
    /\ ros_frame = None /\ todo = <<>> /\ groups = <<>> /\ unwritten = {}
    /\ counters = [frames_in |-> 0, frames_decoded |-> 0, frames_unknown |-> 0,
                   groups_out |-> 0, passthrough |-> 0]

(* The configuration, once it is loaded, and the input do not change.      *)
Given == <<settings, configs, params, bag>>

(* Files are loaded in the order of the command line; one that cannot be   *)
(* ends the program.                                                       *)
LoadConfig ==
    /\ pc = "load_config" /\ configs # <<>>
    /\ configs' = Tail(configs)
    /\ \/ /\ Head(configs) # Broken
          /\ params' = Merged(params, load_yaml(Head(configs)))
          /\ UNCHANGED pc
       \/ /\ Head(configs) = Broken
          /\ pc' = "failed"
          /\ UNCHANGED params
    /\ UNCHANGED <<settings, bag, cfg, reader, topics, written, ros_frame, todo, groups,
                   unwritten, counters>>

(* main: a table that is too long and an expression that does not compile  *)
(* are exceptions nothing catches, a DBC file that does not load is not.   *)
Configure ==
    /\ pc = "load_config" /\ configs = <<>>
    /\ \/ /\ Accepted(Lookups(params), settings.dbc)
          /\ cfg' = build_config(Lookups(params), settings.dbc)
          /\ pc' = "create_topics"
       \/ /\ ~Accepted(Lookups(params), settings.dbc)
          /\ pc' = "failed"
          /\ UNCHANGED cfg
    /\ UNCHANGED <<Given, reader, topics, written, ros_frame, todo, groups, unwritten, counters>>

InputTopics == [t \in DOMAIN bag.topics \ {cfg.can_topic} |-> bag.topics[t]]
DomainTopics == [t \in Range(cfg.domain_to_topic) |-> GroupType]

(* Mutant: the topics of the domains are created before those of the bag.  *)
OutputTopics_domains_first == Over(DomainTopics, InputTopics)

(* The writer ignores the creation of a topic that exists.                 *)
OutputTopics == Over(InputTopics, DomainTopics)

create_topics ==
    /\ pc = "create_topics"
    /\ topics' = OutputTopics
    /\ pc' = "next_message"
    /\ UNCHANGED <<Given, cfg, reader, written, ros_frame, todo, groups, unwritten, counters>>

Count(Fields) == [f \in DOMAIN counters |-> IF f \in Fields THEN counters[f] + 1 ELSE counters[f]]

(* The message read_next returns.                                          *)
bag_msg == bag.messages[reader + 1]

pass_through ==
    /\ pc = "next_message"
    /\ reader < Len(bag.messages)
    /\ bag_msg.topic # cfg.can_topic
    /\ reader' = reader + 1
    /\ written' = Append(written, bag_msg)
    /\ counters' = Count({"passthrough"})
    /\ UNCHANGED <<Given, pc, cfg, topics, ros_frame, todo, groups, unwritten>>

(* Mutant: the payload is decoded with its bytes beyond the dlc.           *)
data_arr_whole(m) == m.data

(* At most NBytes bytes are copied, the rest are zero.                     *)
data_arr(m) == [k \in 1 .. NBytes |-> IF k <= m.dlc THEN m.data[k] ELSE 0]

(* Mutant: groups is not cleared for the frame.                            *)
ClearGroups_forgotten == UNCHANGED groups

ClearGroups == groups' = <<>>

(* Mutant: frames_decoded is incremented before the result is tested.      *)
CountUnknown_decoded == counters' = Count({"frames_in", "frames_decoded", "frames_unknown"})

CountUnknown == counters' = Count({"frames_in", "frames_unknown"})

(* A CAN frame is read: unknown, or decoded into signals to group.         *)
read_frame ==
    /\ pc = "next_message"
    /\ reader < Len(bag.messages)
    /\ bag_msg.topic = cfg.can_topic /\ bag_msg.data # Malformed
    /\ reader' = reader + 1
    /\ ros_frame' = bag_msg.data
    /\ \/ /\ ~Decodable(cfg.msg_map, bag_msg.data.id)
          /\ CountUnknown
          /\ UNCHANGED <<pc, todo, groups>>
       \/ /\ Decodable(cfg.msg_map, bag_msg.data.id)
          /\ counters' = Count({"frames_in", "frames_decoded"})
          /\ ClearGroups
          /\ todo' = decode(cfg.msg_map, bag_msg.data.id, data_arr(bag_msg.data))
          /\ pc' = "signals"
    /\ UNCHANGED <<Given, cfg, topics, written, unwritten>>

Resolution(raw) == resolve_signal(raw.name, ros_frame.id, cfg.router, cfg.signal_to_domain)

SignalMsg(name, value) ==
    [ name_id |-> IF name \in DOMAIN cfg.signal_name_to_id THEN cfg.signal_name_to_id[name] ELSE 0,
      value |-> Float32(value) ]

(* groups[domain], created on first use with the stamp of the frame.       *)
GroupFor(domain) ==
    IF domain \in DOMAIN groups
    THEN groups[domain]
    ELSE [ header |-> [stamp |-> ros_frame.stamp, frame_id |-> ""], domain |-> domain,
           signals |-> <<>> ]

(* One pass of the loop over the signals.  A signal without a domain is    *)
(* skipped before its transform is evaluated.                              *)
process_signal ==
    /\ pc = "signals"
    /\ todo # <<>>
    /\ LET raw == Head(todo)
           res == Resolution(raw)
           value == transform(cfg.exprs, res.name, raw.value)
       IN  \/ /\ res.domain = kUnassignedDomain
              /\ UNCHANGED groups
           \/ /\ res.domain # kUnassignedDomain
              /\ LET sg == GroupFor(res.domain)
                 IN  groups' =
                        Over([d \in {res.domain} |->
                                 [sg EXCEPT !.signals = Append(@, SignalMsg(res.name, value))]],
                             groups)
    /\ todo' = Tail(todo)
    /\ UNCHANGED <<Given, pc, cfg, reader, topics, written, ros_frame, unwritten, counters>>

(* Mutant: what has been grouped so far of the frame is written out.       *)
TransformThrows_flushed ==
    pc' = "write_groups" /\ unwritten' = DOMAIN groups /\ todo' = <<>>

(* The exception ends the conversion loop, not only the signal.            *)
TransformThrows == pc' = "failed" /\ UNCHANGED <<unwritten, todo>>

transform_error ==
    /\ pc = "signals"
    /\ todo # <<>>
    /\ Resolution(Head(todo)).domain # kUnassignedDomain
    /\ TransformMayThrow(cfg.exprs, Resolution(Head(todo)).name)
    /\ TransformThrows
    /\ UNCHANGED <<Given, cfg, reader, topics, written, ros_frame, groups, counters>>

end_of_signals ==
    /\ pc = "signals"
    /\ todo = <<>>
    /\ unwritten' = DOMAIN groups
    /\ pc' = "write_groups"
    /\ UNCHANGED <<Given, cfg, reader, topics, written, ros_frame, todo, groups, counters>>

SerializedGroup(domain) == [cdr |-> serialize_signal_group(groups[domain], <<>>)]

(* Mutant: the group has the time at which the frame was recorded.         *)
out_msg_recording_time(domain) ==
    [ topic |-> cfg.domain_to_topic[domain],
      time_stamp |-> bag.messages[reader].time_stamp,
      data |-> SerializedGroup(domain) ]

Nanoseconds(stamp) == stamp.sec * NsPerSec + stamp.nanosec

(* time_stamp is the stamp of the frame, not the time it was recorded.     *)
out_msg(domain) ==
    [ topic |-> cfg.domain_to_topic[domain],
      time_stamp |-> Nanoseconds(ros_frame.stamp),
      data |-> SerializedGroup(domain) ]

(* The groups are written in the order of the hash map, which is any.      *)
write_group(domain) ==
    /\ pc = "write_groups"
    /\ domain \in unwritten
    /\ unwritten' = unwritten \ {domain}
    /\ IF domain \in DOMAIN cfg.domain_to_topic
       THEN written' = Append(written, out_msg(domain)) /\ counters' = Count({"groups_out"})
       ELSE UNCHANGED <<written, counters>>
    /\ UNCHANGED <<Given, pc, cfg, reader, topics, ros_frame, todo, groups>>

end_of_frame ==
    /\ pc = "write_groups"
    /\ unwritten = {}
    /\ pc' = "next_message"
    /\ UNCHANGED <<Given, cfg, reader, topics, written, ros_frame, todo, groups,
                   unwritten, counters>>

(* Any other exception of the loop, or no memory for a group.  Data that   *)
(* is no frame always raises one.                                          *)
io_error ==
    /\ pc \in {"next_message", "write_groups"}
    /\ pc' = "failed"
    /\ UNCHANGED <<Given, cfg, reader, topics, written, ros_frame, todo, groups,
                   unwritten, counters>>

(* The end of the input: the summary is printed, convert_one returns 0.    *)
finish ==
    /\ pc = "next_message"
    /\ reader = Len(bag.messages)
    /\ pc' = "done"
    /\ UNCHANGED <<Given, cfg, reader, topics, written, ros_frame, todo, groups,
                   unwritten, counters>>

Returned == pc \in Exited /\ UNCHANGED vars

Next ==
    \/ LoadConfig \/ Configure \/ create_topics
    \/ pass_through \/ read_frame
    \/ process_signal \/ transform_error \/ end_of_signals
    \/ \E domain \in DOMAIN groups : write_group(domain)
    \/ end_of_frame \/ io_error \/ finish
    \/ Returned

Spec == Init /\ [][Next]_vars

--------------------------------------------------------------------------------
(* Type invariant.  What is merged are leaves, and every domain that is    *)
(* grouped has a topic.                                                    *)
TypeOK ==
    /\ pc \in {"load_config", "create_topics", "next_message", "signals", "write_groups"}
              \cup Exited
    /\ configs \in Seq(Document)
    /\ \A k \in DOMAIN params : params[k] \in Leaf
    /\ pc = "failed" \/ (pc = "load_config" <=> cfg = None)
    /\ reader \in 0 .. Len(bag.messages)
    /\ IsSeq(written)
    /\ cfg # None => DOMAIN groups \subseteq DOMAIN cfg.domain_to_topic
    /\ cfg = None => groups = <<>>
    /\ unwritten \subseteq DOMAIN groups
    /\ counters \in [frames_in : Nat, frames_decoded : Nat, frames_unknown : Nat,
                     groups_out : Nat, passthrough : Nat]

(* However a parameter set is written down (nested or dotted keys, with or *)
(* without the node's namespace, in one file or in two in either order,    *)
(* defaults left out, elements in the lists that do not convert) and       *)
(* whatever an earlier file says, the converter reads that set (main,      *)
(* load_yaml, build_config; docs/mcap_conversion.md:130, 138).             *)
ReadsBack ==
    pc = "load_config" /\ configs = <<>> =>
        \A f \in DOMAIN Lookups(params) : Lookups(params)[f] = settings[f]

(* A message of the output as another program reads it.                    *)
AsRead(m) == IF "cdr" \in DOMAIN m.data THEN [m EXCEPT !.data = Read(m.data.cdr)] ELSE m

(* What a reader finds in a message for the group g, with no byte beyond.  *)
Meant(g) ==
    [ topic |-> g.topic,
      time_stamp |-> Nanoseconds(g.stamp),
      data |-> [ unread |-> 0,
                 message |-> [ header |-> [stamp |-> g.stamp, frame_id |-> Codes("")],
                               domain |-> Codes(g.domain),
                               signals |-> [ k \in DOMAIN g.signals |->
                                   [ name_id |-> g.signals[k].name_id,
                                     value |-> FloatBits(g.signals[k].value) ]] ] ] ]

(* What the converter makes of the k-th message of the bag: the message    *)
(* itself, or one SignalGroup per domain with a signal in the frame.       *)
Translation(k) ==
    LET m == bag.messages[k]
    IN  CASE m.topic # settings.can_topic -> {m}
          [] m.topic = settings.can_topic /\ m.data = Malformed -> {}
          [] OTHER -> {Meant(g) : g \in
                          GroupsOn(settings, m.data, {}, LAMBDA d : TopicsOf(settings, d))}

(* Messages of the output that come from the first k of the input.         *)
WrittenFor(k) == Cardinality(UNION {{j} \X Translation(j) : j \in 1 .. k})

(* What another program reads from one place of the output to another, and *)
(* what it reads of the message at hand.                                   *)
Output(from, to) == {AsRead(written[i]) : i \in from .. to}
Rest == Output(WrittenFor(reader - 1) + 1, Len(written))

(* The first k messages of the input are translated, one after the other.  *)
Translated(k) ==
    \A j \in 1 .. k : Output(WrittenFor(j - 1) + 1, WrittenFor(j)) = Translation(j)

IdsInRange == \A i \in DOMAIN settings.domains : settings.domains[i].can_ids \subseteq 0 .. MaxCanId

(* The output, as other programs read it, is the input, translated message *)
(* by message and in order.                                                *)
(* Whatever happens, it is exactly that up to the message at hand, and of  *)
(* this one a part without repetition, the whole once the loop goes on,    *)
(* and nothing before all its signals are transformed: when a transform    *)
(* throws, the output stops before the frame (convert_one).  CAN ids that  *)
(* the node refuses wrap around and are left out.                          *)
OutputFaithful ==
    reader > 0 /\ IdsInRange =>
        /\ Translated(reader - 1)
        /\ Rest \subseteq Translation(reader)
        /\ Len(written) = WrittenFor(reader - 1) + Cardinality(Rest)
        /\ pc \in {"next_message", "done"} => Rest = Translation(reader)
        /\ todo # <<>> => Rest = {}

(* The first k messages of the input that are CAN frames, and those of     *)
(* them whose id the DBC file does not define.                             *)
FramesUpTo(k) == {j \in 1 .. k : bag.messages[j].topic = settings.can_topic}
UnknownUpTo(k) ==
    {j \in FramesUpTo(k) : \A i \in DOMAIN settings.dbc.messages :
                              settings.dbc.messages[i].id # bag.messages[j].data.id}

(* The counters after k messages of the input.                             *)
Counted(k) ==
    /\ counters.frames_in = Cardinality(FramesUpTo(k))
    /\ counters.frames_unknown = Cardinality(UnknownUpTo(k))
    /\ counters.frames_decoded = Cardinality(FramesUpTo(k) \ UnknownUpTo(k))
    /\ counters.passthrough = Cardinality((1 .. k) \ FramesUpTo(k))
    /\ counters.groups_out = Len(written) - counters.passthrough

(* The summary is true of the two bags: every frame of the input was       *)
(* decoded or has an id the DBC file does not define, and every message of *)
(* the output is counted (convert_one).                                    *)
SummaryTrue == pc = "done" => Counted(Len(bag.messages))

(* A topic that passes through keeps its type, even when a domain has the  *)
(* same topic: the groups are then the ones under a foreign type.  No      *)
(* message is written to a topic that was not created (convert_one).       *)
TypesKept ==
    \A i \in DOMAIN written :
        LET t == written[i].topic
        IN  /\ t \in DOMAIN topics
            /\ topics[t] = IF t \in DOMAIN bag.topics \ {settings.can_topic} THEN bag.topics[t]
                           ELSE GroupType

--------------------------------------------------------------------------------
(* The objects that main makes are those of the parameter set, in which    *)
(* elements of one name agree, since what they say is read by that name.   *)
ConfigInv ==
    cfg # None =>
        /\ Accepted(settings, settings.dbc)
        /\ cfg = build_config(settings, settings.dbc)
        /\ \A q \in {settings.domains, settings.aliases, settings.transforms, settings.schema} :
              \A i, j \in DOMAIN q : q[i].name = q[j].name => q[i] = q[j]

(* Nothing is written before the topics are created, and then to them.     *)
TopicsInv ==
    /\ pc \in {"load_config", "create_topics"} => reader = 0 /\ written = <<>>
    /\ pc \in {"next_message", "signals", "write_groups", "done"} \/ written # <<>> =>
           cfg # None /\ topics = OutputTopics
    /\ \A i \in DOMAIN written : written[i].topic \in DOMAIN topics

GroupsWithout(places) ==
    [d \in {e \in DomainNames(settings) : InDomain(settings, ros_frame, places, e) # <<>>} |->
        [ header |-> [stamp |-> ros_frame.stamp, frame_id |-> ""], domain |-> d,
          signals |-> InDomain(settings, ros_frame, places, d) ]]

(* At a frame, todo is what is left of the decoded signals, and groups has *)
(* those before them.                                                      *)
FrameInv ==
    /\ pc \notin {"signals", "failed"} => todo = <<>>
    /\ pc \in {"signals", "write_groups"} =>
          LET decoded == decode(cfg.msg_map, ros_frame.id, data_arr(ros_frame))
              n == Len(decoded)
          IN  /\ reader \in DOMAIN bag.messages
              /\ bag.messages[reader].topic = settings.can_topic
              /\ bag.messages[reader].data = ros_frame /\ ros_frame # Malformed
              /\ Decodable(cfg.msg_map, ros_frame.id)
              /\ \E k \in 0 .. n :
                    /\ todo = SubSeq(decoded, k + 1, n)
                    /\ IdsInRange => groups = GroupsWithout(k + 1 .. n)

(* Between two messages all of the output is translated; in a frame, all   *)
(* that comes before it and the groups that have been written.             *)
WrittenInv ==
    /\ pc \in {"load_config", "create_topics", "next_message", "done"} =>
          Translated(reader) /\ Len(written) = WrittenFor(reader)
    /\ pc = "signals" => Translated(reader - 1) /\ Len(written) = WrittenFor(reader - 1)
    /\ pc = "write_groups" =>
          /\ Translated(reader - 1)
          /\ Len(written) = WrittenFor(reader - 1) + Cardinality(DOMAIN groups \ unwritten)
          /\ Rest = {AsRead(out_msg(d)) : d \in DOMAIN groups \ unwritten}

(* The inductive invariant: what holds at every point of the conversion,   *)
(* whatever document and bag it is run on (main, convert_one).             *)
ConversionInv ==
    /\ ConfigInv /\ TopicsInv /\ FrameInv
    /\ Counted(reader)
    /\ IdsInRange => WrittenInv
================================================================================
