------------------------------ MODULE YamlDocuments -----------------------------
(***************************************************************************)
(* How people write a parameter set of the converter down: in one file or  *)
(* two, with nested or dotted keys, with or without the node's namespace,  *)
(* with or without the defaults.                                           *)
(***************************************************************************)
EXTENDS YamlConfig

(* The entries of a set are flat keys with their values; noise is what may *)
(* stand in a list beside them.                                            *)
Texts(strings) == [j \in DOMAIN strings |-> Text(strings[j])]
Names(list) == [j \in DOMAIN list |-> Text(list[j].name)]

PerElement(list, EntriesFor(_)) == FlattenSeq([j \in DOMAIN list |-> EntriesFor(list[j])])

EntriesOf(p, noise) ==
    << <<<<"can_topic">>, Text(p.can_topic)>>,
       <<<<"domain_names">>, List(noise \o Names(p.domains))>>,
       <<<<"alias_names">>, List(Names(p.aliases) \o noise)>>,
       <<<<"transform_names">>, List(Names(p.transforms))>>,
       <<<<"schema_domain_names">>, List(Names(p.schema))>>,
       <<<<"signal_id_names">>, List(noise \o Texts(p.signal_id_names))>> >>
    \o PerElement(p.domains, LAMBDA d :
           << <<<<"domains", d.name, "topic">>, Text(d.topic)>>,
              <<<<"domains", d.name, "can_ids">>,
                List([j \in 1 .. Cardinality(d.can_ids) |-> Number(SetToSeq(d.can_ids)[j])]
                     \o noise \o <<Text("x")>>)>> >>)
    \o PerElement(p.aliases, LAMBDA a : << <<<<"aliases", a.name>>, Text(a.to)>> >>)
    \o PerElement(p.transforms, LAMBDA t :
           << <<<<"transforms", t.name, "expression">>, Text(t.expression)>> >>)
    \o PerElement(p.schema, LAMBDA s :
           << <<<<"schema", s.name, "topic">>, Text(s.topic)>>,
              <<<<"schema", s.name, "signals">>, List(noise \o Texts(s.signals))>> >>)

Said(entry) ==
    LET key == entry[1]
    IN  ~ \/ key = <<"can_topic">> /\ entry[2].text = DefaultTopic
          \/ Len(key) = 3 /\ key[3] = "topic" /\ entry[2].text = "/vehicle/" \o key[2]
          \/ key[1] = "aliases" /\ entry[2].text = key[2]

(* Defaults may be left out.                                               *)
Terse(entries) == SelectSeq(entries, LAMBDA e : Said(e))

(* One map, the keys dotted.                                               *)
Dotted(entries) == Map(entries)

(* Maps all the way down.                                                  *)
RECURSIVE Nested(_)
Nested(entries) ==
    LET head(j) == entries[j][1][1]
        firsts == SelectSeq([j \in DOMAIN entries |-> j],
                            LAMBDA j : \A m \in 1 .. j - 1 : head(m) # head(j))
        heads == [k \in DOMAIN firsts |-> head(firsts[k])]
        below(h) == SelectSeq(entries, LAMBDA e : e[1][1] = h)
        tails(h) == [j \in DOMAIN below(h) |-> <<Tail(below(h)[j][1]), below(h)[j][2]>>]
    IN  Map([j \in DOMAIN heads |->
                << <<heads[j]>>,
                   IF Len(below(heads[j])[1][1]) = 1
                   THEN below(heads[j])[1][2]
                   ELSE Nested(tails(heads[j])) >>])

Namespaced(doc) ==
    Map(<< <<<<"vehicle_can_node">>, Map(<< <<<<"ros__parameters">>, doc>> >>)>> >>)

Shapes(entries) ==
    {Dotted(entries), Nested(entries), Namespaced(Dotted(entries)), Namespaced(Nested(entries))}

(* The whole in one file; or after a file with other settings; or in two   *)
(* files, one with the lists of names and one with the rest.               *)
Documents(p, earlier) ==
    UNION { LET full == EntriesOf(p, noise)
                terse == Terse(full)
                lists == SelectSeq(terse, LAMBDA e : Len(e[1]) = 1)
                rest == SelectSeq(terse, LAMBDA e : Len(e[1]) > 1)
            IN  {<<d>> : d \in Shapes(full) \cup Shapes(terse)}
                \cup {<<e, d>> : e \in Shapes(EntriesOf(earlier, <<>>)), d \in Shapes(full)}
                \cup {<<d, e>> : d \in Shapes(lists), e \in Shapes(rest)}
                \cup {<<e, d>> : d \in Shapes(lists), e \in Shapes(rest)} :
            noise \in {<<>>, <<List(<<>>)>>} }

================================================================================
