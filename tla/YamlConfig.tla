------------------------------- MODULE YamlConfig ------------------------------
(***************************************************************************)
(* How mcap_converter reads its --config files: every document is          *)
(* flattened to keys and leaves, later files override earlier ones key by  *)
(* key, and build_config looks up what the *_names lists name.             *)
(*                                                                         *)
(* A key is the sequence of its segments, so that a dotted key of one map  *)
(* and a key of nested maps are told apart in a document and are the same  *)
(* once flattened.  A scalar has its text, and a number if it is one.      *)
(***************************************************************************)
EXTENDS NodeParameters

CONSTANTS
    DefaultTopic,   \* of CAN frames, "/vehicle/from_can_bus"
    Node,           \* the YAML nodes of the documents
    MaxNesting      \* of maps in a document

Map(entries) == [kind |-> "map", entries |-> entries]   \* sequence of <<key, node>>
List(items) == [kind |-> "sequence", items |-> items]
Text(s) == [kind |-> "scalar", text |-> s, number |-> {}]
Number(n) == [kind |-> "scalar", text |-> ToString(n), number |-> {n}]
Broken == [kind |-> "broken"]    \* a file that does not parse, or is not there

Leaf == {node \in Node : node.kind # "map"}
Document == Node \cup {Broken}

IsSeq(q) == q \in Seq(Range(q))

ASSUME YamlAssumption ==
    /\ MaxNesting \in Nat
    /\ \A node \in Node \ Leaf : node.entries \in Seq(Seq(STRING) \X Node)
    /\ \A node \in Leaf : node.kind = "sequence" => IsSeq(node.items)

--------------------------------------------------------------------------------
(* Mutant: a nested map is read without the key it is under.               *)
Under_bare(prefix, key) == key

Under(prefix, key) == prefix \o key

(* An entry of a map, or the entries of the map that it holds.             *)
Spread(entry) ==
    IF entry[2].kind = "map"
    THEN [k \in DOMAIN entry[2].entries |->
             <<Under(entry[1], entry[2].entries[k][1]), entry[2].entries[k][2]>>]
    ELSE <<entry>>

Opened(entries) == FlattenSeq([j \in DOMAIN entries |-> Spread(entries[j])])

(* The entries of a node once every map in it is opened, in the order of   *)
(* the document, which is that of the recursion of flatten_yaml.           *)
Entries(node) ==
    LET open[n \in 0 .. MaxNesting] ==
            IF n = 0 THEN << <<<<>>, node>> >> ELSE Opened(open[n - 1])
    IN  open[MaxNesting]

(* No document is nested deeper than MaxNesting.                           *)
ASSUME NestingAssumption == \A node \in Node : Entries(node) \in Seq(Seq(STRING) \X Leaf)

(* Mutant: only the keys of the outermost map are read.                    *)
flatten_yaml_shallow(node) ==
    LET entries == Opened(<< <<<<>>, node>> >>)
    IN  WriteInOrder([j \in DOMAIN entries |-> {entries[j][1]}],
                     [j \in DOMAIN entries |-> entries[j][2]])

(* Only maps are descended into; a key met again replaces the earlier one. *)
flatten_yaml(node) ==
    LET entries == Entries(node)
    IN  WriteInOrder([j \in DOMAIN entries |-> {entries[j][1]}],
                     [j \in DOMAIN entries |-> entries[j][2]])

HasKey(node, key) == node.kind = "map" /\ \E k \in DOMAIN node.entries : node.entries[k][1] = key
At(node, key) == node.entries[CHOOSE k \in DOMAIN node.entries : node.entries[k][1] = key][2]

load_yaml(doc) ==
    LET namespaced == /\ HasKey(doc, <<"vehicle_can_node">>)
                      /\ HasKey(At(doc, <<"vehicle_can_node">>), <<"ros__parameters">>)
        root == IF namespaced THEN At(At(doc, <<"vehicle_can_node">>), <<"ros__parameters">>) ELSE doc
    IN  flatten_yaml(root)

(* Mutant: emplace keeps what an earlier file said.                        *)
Merged_earlier_wins(params, flat) == Over(params, flat)

(* params[kv.first] = kv.second, for every key of the file.                *)
Merged(params, flat) == Over(flat, params)

--------------------------------------------------------------------------------
(* A key that is absent, or no scalar, has the default.                    *)
get_s(p, k, def) == IF k \in DOMAIN p /\ p[k].kind = "scalar" THEN p[k].text ELSE def

Items(p, k) == IF k \in DOMAIN p /\ p[k].kind = "sequence" THEN p[k].items ELSE <<>>

(* Mutant: an element that is not a string ends the list.                  *)
get_sv_stops(p, k) ==
    LET items == Items(p, k)
        bad == {j \in DOMAIN items : items[j].kind # "scalar"}
        end == IF bad = {} THEN Len(items) ELSE Min(bad) - 1
    IN  [j \in 1 .. end |-> items[j].text]

(* Elements that do not convert are left out.                              *)
get_sv(p, k) ==
    LET items == Items(p, k)
        strings == InOrder({j \in DOMAIN items : items[j].kind = "scalar"})
    IN  [j \in DOMAIN strings |-> items[strings[j]].text]

get_iv(p, k) ==
    UNION {e.number : e \in {x \in ToSet(Items(p, k)) : x.kind = "scalar"}}

(* The look-ups of build_config; ConverterConfig makes the objects.        *)
Lookups(p) ==
    [ can_topic |-> get_s(p, <<"can_topic">>, DefaultTopic),
      domains |-> [j \in DOMAIN get_sv(p, <<"domain_names">>) |->
          LET name == get_sv(p, <<"domain_names">>)[j]
          IN  [ name |-> name,
                topic |-> get_s(p, <<"domains", name, "topic">>, "/vehicle/" \o name),
                can_ids |-> get_iv(p, <<"domains", name, "can_ids">>) ]],
      aliases |-> [j \in DOMAIN get_sv(p, <<"alias_names">>) |->
          LET src == get_sv(p, <<"alias_names">>)[j]
          IN  [name |-> src, to |-> get_s(p, <<"aliases", src>>, src)]],
      transforms |-> [j \in DOMAIN get_sv(p, <<"transform_names">>) |->
          LET sig == get_sv(p, <<"transform_names">>)[j]
          IN  [name |-> sig, expression |-> get_s(p, <<"transforms", sig, "expression">>, "")]],
      schema |-> [j \in DOMAIN get_sv(p, <<"schema_domain_names">>) |->
          LET name == get_sv(p, <<"schema_domain_names">>)[j]
          IN  [ name |-> name,
                topic |-> get_s(p, <<"schema", name, "topic">>, "/vehicle/" \o name),
                signals |-> get_sv(p, <<"schema", name, "signals">>) ]],
      signal_id_names |-> get_sv(p, <<"signal_id_names">>) ]
================================================================================
