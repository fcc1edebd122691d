---------------------------- MODULE MCBagConversion ----------------------------
(***************************************************************************)
(* BagConversion for TLC: the parameter sets of the node's runs in plain   *)
(* files, with bags of up to three messages, frames of every kind between  *)
(* messages that pass through, one of them in the topic of a domain; and   *)
(* these sets written down in every way, with a bag of one frame.          *)
(***************************************************************************)
EXTENDS BagConversion, YamlDocuments, MCFrames

(* Bytes of two bits, so that an int32 is -128 to 127: the least and the   *)
(* greatest stamps; names of every length modulo 4.                        *)
MCCodes(s) ==
    CASE s = "" -> <<>>
      [] s = "op" -> <<3>>
      [] s = "dyn" -> <<2, 2>>
      [] s = "chassis" -> <<3, 1, 2>>
      [] s = "power" -> <<1, 2, 3, 1>>
      [] OTHER -> <<1, 2, 3, 1, 2>>
MCFloatBits(v) == v % 256

Stamped(frame, sec, nanosec) == [frame EXCEPT !.stamp = [sec |-> sec, nanosec |-> nanosec]]

Message(topic, time, data) == [topic |-> topic, time_stamp |-> time, data |-> data]

Frames ==
    { Stamped(Full, -128, 255), Stamped(Short, 127, 0), Stamped(Long, -1, 1),
      Stamped(Unknown, 0, 0), Malformed }

BagMessages ==
    {Message("/can", 9, f) : f \in Frames} \cup
    {Message("/imu", 5, [opaque |-> "imu"]), Message("/dyn", 7, [opaque |-> "twist"])}

BagTopics == [t \in {"/can", "/imu", "/dyn"} |->
                  CASE t = "/can" -> "can_msgs/msg/Frame" [] t = "/imu" -> "sensor_msgs/msg/Imu"
                    [] t = "/dyn" -> "geometry_msgs/msg/Twist"]

Bag(ms) == [topics |-> BagTopics, messages |-> ms]
OneFrame == Bag(<<Message("/can", 9, Stamped(Full, -128, 255))>>)

WithTopic(p, topic) == p @@ [can_topic |-> topic]

(* A set whose topics and aliases are the defaults.                        *)
Defaults ==
    [ ModeB EXCEPT
        !.domains = <<Domain("chassis", "/vehicle/chassis", {1, 2})>>,
        !.schema = <<Schema("dyn", "/vehicle/dyn", <<"speed">>)>>,
        !.aliases = <<Alias("a", "a"), Alias("b", "speed")>> ]

MCSettings ==
    {WithTopic(p, "/can") : p \in
        {ModeA, ModeB, ModeBTwo, ModeBQuiet,
         [ModeA EXCEPT !.schema = <<Schema("power", "/op", <<>>)>>],
         [ModeA EXCEPT !.domains = <<Domain("chassis", "", {1}), Domain("power", "/dyn", {2})>>],
         [ModeA EXCEPT !.domains = <<Domain("chassis", "/chassis", {2}),
                                     Domain("power", "/op", {11})>>],
         [ModeA EXCEPT !.dbc.messages = @ \o <<[id |-> 9, signals |-> <<>>]>>],
         [ModeA EXCEPT !.dbc.loads = FALSE],
         [ModeA EXCEPT !.transforms = <<Transform("b", "x+")>>],
         [ModeA EXCEPT !.signal_id_names = <<"a", "b", "speed", "CAN1_a", "brake">>]}}

Rewritten ==
    {WithTopic(p, "/can") : p \in {ModeA, ModeB, ModeBQuiet, FirehoseOnly}}
    \cup {WithTopic(Defaults, "/default")}

Input(p, docs, b) == [settings |-> p, configs |-> docs, bag |-> b]
Plain(p) == Dotted(EntriesOf(p, <<>>))

MCInputs ==
    {Input(p, <<Plain(p)>>, Bag(ms)) :
        p \in MCSettings, ms \in UNION {[1 .. n -> BagMessages] : n \in 0 .. 3}}
    \cup UNION {{Input(p, docs, OneFrame) :
                    docs \in Documents(p, WithTopic(ModeBTwo, "/earlier"))} : p \in Rewritten}
    \cup {Input(p, <<Plain(p), Broken>>, OneFrame) : p \in Rewritten}

RECURSIVE NodesOf(_)
NodesOf(node) ==
    {node} \cup (IF node.kind = "map" THEN UNION {NodesOf(e[2]) : e \in Range(node.entries)} ELSE {})

MCNode == UNION {NodesOf(doc) : doc \in UNION {Range(i.configs) : i \in MCInputs} \ {Broken}}
================================================================================
