---------------------------- MODULE BagConversionProofs ------------------------
(***************************************************************************)
(* What a conversion guarantees, for any bag, DBC file and parameter set.  *)
(* That the files of the command line write a parameter set down is a      *)
(* matter of the documents: where a result depends on it, it has ReadsBack *)
(* as its hypothesis.                                                      *)
(***************************************************************************)
EXTENDS BagConversion, CdrBufferProofs, FunctionTheorems

--------------------------------------------------------------------------------
(* A sequence of the model is a list of its elements.                      *)
LEMMA IsSeqList ==
  ASSUME NEW q, IsSeq(q)
  PROVE  /\ IsList(q) /\ Len(q) \in Nat /\ DOMAIN q = 1 .. Len(q)
         /\ q \in Seq(Range(q)) /\ \A i \in DOMAIN q : q[i] \in Range(q)
  BY SeqIsList DEF IsSeq, Range

(* push_back.                                                              *)
LEMMA AppendIsSeq ==
  ASSUME NEW q, IsSeq(q), NEW e
  PROVE  /\ IsSeq(Append(q, e)) /\ Len(Append(q, e)) = Len(q) + 1
         /\ \A i \in 1 .. Len(q) : Append(q, e)[i] = q[i]
         /\ Append(q, e)[Len(q) + 1] = e
<1> DEFINE T == Range(q) \cup {e}
           a == Append(q, e)
<1>1. q \in Seq(T) /\ Len(q) \in Nat
  <2>1. q \in Seq(Range(q)) /\ Range(q) \subseteq T
    BY IsSeqList
  <2> HIDE DEF T
  <2> QED
    BY <2>1, SeqMonotonic, LenProperties
<1> HIDE DEF T
<1>2. /\ a \in Seq(T) /\ Len(a) = Len(q) + 1
      /\ \A i \in 1 .. Len(q) : a[i] = q[i]
      /\ a[Len(q) + 1] = e
  <2>1. e \in T
    BY DEF T
  <2> QED
    BY <1>1, <2>1, AppendProperties
<1> HIDE DEF a
<1>3. a \in Seq(Range(a))
  <2>1. Len(a) \in Nat /\ a \in [1 .. Len(a) -> T]
    BY <1>2, LenProperties
  <2>2. a \in [1 .. Len(a) -> Range(a)]
    BY <2>1 DEF Range
  <2> QED
    BY <2>1, <2>2
<1> QED
  BY <1>2, <1>3 DEF IsSeq, a

--------------------------------------------------------------------------------
(* What is read of a document are leaves.                                  *)
LEMMA Flattened ==
  ASSUME NEW node \in Node
  PROVE  \A k \in DOMAIN flatten_yaml(node) : flatten_yaml(node)[k] \in Leaf
<1> DEFINE e == Entries(node)
           keys == [j \in DOMAIN e |-> {e[j][1]}]
           vals == [j \in DOMAIN e |-> e[j][2]]
<1>1. e \in Seq(Seq(STRING) \X Leaf)
  BY NestingAssumption
<1>2. flatten_yaml(node) = WriteInOrder(keys, vals)
  BY DEF flatten_yaml
<1> HIDE DEF e
<1>3. Len(e) \in Nat /\ DOMAIN e = 1 .. Len(e) /\ \A j \in DOMAIN e : e[j] \in Seq(STRING) \X Leaf
  BY <1>1, SeqElements
<1>4. /\ keys \in [1 .. Len(e) -> SUBSET Seq(STRING)]
      /\ vals \in [1 .. Len(e) -> Leaf]
  BY <1>3
<1> HIDE DEF keys, vals
<1>5. \A k \in DOMAIN WriteInOrder(keys, vals) : WriteInOrder(keys, vals)[k] \in Leaf
  BY <1>3, <1>4, WriteInOrderType
<1> QED
  BY <1>2, <1>5

(* The value under a key of a document is a document.                      *)
LEMMA ValueAtKey ==
  ASSUME NEW node \in Node, NEW key, HasKey(node, key)
  PROVE  At(node, key) \in Node
<1>1. node \in Node \ Leaf
  BY DEF HasKey, Leaf
<1>2. node.entries \in Seq(Seq(STRING) \X Node)
  BY <1>1, YamlAssumption
<1>3. \A k \in DOMAIN node.entries : node.entries[k] \in Seq(STRING) \X Node
  BY <1>2, SeqElements
<1>4. \E k \in DOMAIN node.entries : node.entries[k][1] = key
  BY DEF HasKey
<1> DEFINE k == CHOOSE k \in DOMAIN node.entries : node.entries[k][1] = key
<1>5. k \in DOMAIN node.entries
  BY <1>4
<1>6. At(node, key) = node.entries[k][2]
  BY DEF At
<1> HIDE DEF k
<1> QED
  BY <1>3, <1>5, <1>6

(* What load_yaml returns are leaves.                                      *)
LEMMA LoadedLeaves ==
  ASSUME NEW doc \in Node
  PROVE  \A k \in DOMAIN load_yaml(doc) : load_yaml(doc)[k] \in Leaf
<1> DEFINE outer == <<"vehicle_can_node">>
           inner == <<"ros__parameters">>
           namespaced == HasKey(doc, outer) /\ HasKey(At(doc, outer), inner)
           root == IF namespaced THEN At(At(doc, outer), inner) ELSE doc
<1>1. load_yaml(doc) = flatten_yaml(root)
  BY DEF load_yaml
<1> HIDE DEF outer, inner
<1>2. root \in Node
  <2>1. CASE namespaced
    <3>1. At(doc, outer) \in Node
      BY <2>1, ValueAtKey
    <3>2. At(At(doc, outer), inner) \in Node
      BY <2>1, <3>1, ValueAtKey
    <3> QED
      BY <2>1, <3>2
  <2>2. CASE ~namespaced
    BY <2>2
  <2> QED
    BY <2>1, <2>2
<1> HIDE DEF root
<1> QED
  BY <1>1, <1>2, Flattened

(* The lists that are looked up are lists.                                 *)
LEMMA StringsListed ==
  ASSUME NEW p, \A x \in DOMAIN p : p[x] \in Leaf, NEW k
  PROVE  IsList(get_sv(p, k))
<1> DEFINE items == Items(p, k)
           S == {j \in DOMAIN items : items[j].kind = "scalar"}
           strings == InOrder(S)
<1>1. \E n \in Nat : DOMAIN items = 1 .. n
  <2>1. CASE k \in DOMAIN p /\ p[k].kind = "sequence"
    <3>1. IsSeq(p[k].items)
      BY <2>1, YamlAssumption
    <3>2. items = p[k].items
      BY <2>1 DEF Items
    <3> HIDE DEF items
    <3> QED
      BY <3>1, <3>2, IsSeqList
  <2>2. CASE ~(k \in DOMAIN p /\ p[k].kind = "sequence")
    <3>1. items = <<>>
      BY <2>2 DEF Items
    <3>2. DOMAIN items = 1 .. 0 /\ 0 \in Nat
      BY <3>1
    <3> QED
      BY <3>2
  <2> QED
    BY <2>1, <2>2
<1>2. S \in SUBSET Int /\ IsFiniteSet(S)
  <2>1. PICK n \in Nat : DOMAIN items = 1 .. n
    BY <1>1
  <2>2. IsFiniteSet(1 .. n)
    BY FS_Interval
  <2>3. S \in SUBSET (1 .. n) /\ (1 .. n) \subseteq Int
    BY <2>1
  <2> HIDE DEF S
  <2>4. IsFiniteSet(S)
    BY <2>2, <2>3, FS_Subset
  <2> QED
    BY <2>3, <2>4
<1>3. get_sv(p, k) = [j \in DOMAIN strings |-> items[strings[j]].text]
  BY DEF get_sv
<1> HIDE DEF S, items
<1>4. Cardinality(S) \in Nat /\ DOMAIN strings = 1 .. Cardinality(S)
  BY <1>2, InOrderType
<1> HIDE DEF strings
<1>5. DOMAIN get_sv(p, k) = 1 .. Cardinality(S)
  BY <1>3, <1>4
<1>6. get_sv(p, k) = [j \in 1 .. Cardinality(S) |-> get_sv(p, k)[j]]
  BY <1>3, <1>4
<1> QED
  BY <1>4, <1>6 DEF IsList

(* The domains that build_config looks up are lists.                       *)
LEMMA LookupsLists ==
  ASSUME NEW p, \A x \in DOMAIN p : p[x] \in Leaf
  PROVE  IsList(Lookups(p).domains) /\ IsList(Lookups(p).schema)
<1>1. \A k : IsList(get_sv(p, k))
  BY StringsListed
<1>2. \A q : IsList(q) => \E n \in Nat : DOMAIN q = 1 .. n
  BY DEF IsList
<1>3. \A q, k : DOMAIN q = DOMAIN get_sv(p, k) /\ q = [j \in DOMAIN q |-> q[j]] => IsList(q)
  BY <1>1, <1>2, Zenon DEF IsList
<1> DEFINE domains == Lookups(p).domains
           schema == Lookups(p).schema
<1>4. DOMAIN domains = DOMAIN get_sv(p, <<"domain_names">>) /\ domains = [j \in DOMAIN domains |-> domains[j]]
  BY DEF Lookups
<1>5. DOMAIN schema = DOMAIN get_sv(p, <<"schema_domain_names">>) /\ schema = [j \in DOMAIN schema |-> schema[j]]
  BY DEF Lookups
<1> HIDE DEF domains, schema
<1>6. IsList(domains) /\ IsList(schema)
  BY <1>3, <1>4, <1>5
<1> QED
  BY <1>6 DEF domains, schema

--------------------------------------------------------------------------------
(* A domain that a signal is resolved to has a topic.                      *)
LEMMA DomainHasTopic ==
  ASSUME NEW q, IsList(q.domains), IsList(q.schema), NEW dbc, NEW raw, NEW id
  PROVE  LET c == build_config(q, dbc)
             res == resolve_signal(raw, id, c.router, c.signal_to_domain)
         IN  res.domain # kUnassignedDomain => res.domain \in DOMAIN c.domain_to_topic
<1> DEFINE c == build_config(q, dbc)
           res == resolve_signal(raw, id, c.router, c.signal_to_domain)
           std == SignalToDomain(q.schema)
           map == c.router.id_to_domain
           domains == ConverterDomains(q)
<1> SUFFICES ASSUME res.domain # kUnassignedDomain PROVE res.domain \in DOMAIN c.domain_to_topic
  OBVIOUS
<1>1. /\ c.signal_to_domain = std
      /\ c.domain_to_topic = domain_to_topic(q)
      /\ map = WriteInOrder([i \in DOMAIN domains |-> domains[i].can_ids],
                            [i \in DOMAIN domains |-> domains[i].name])
  BY DEF build_config, configure
<1> HIDE DEF c
<1>2. \/ \E x \in DOMAIN std : res.domain = std[x]
      \/ \E x \in DOMAIN map : res.domain = map[x]
  BY <1>1 DEF resolve_signal, domain_for_id
<1>3. \A x : x \in DOMAIN domain_to_topic(q) <=>
                 \/ \E i \in DOMAIN q.schema : q.schema[i].name = x
                 \/ \E i \in DOMAIN q.domains : q.domains[i].name = x
  <2> DEFINE new == ByName(q.schema, [i \in DOMAIN q.schema |-> q.schema[i].topic])
             old == ByName(q.domains, [i \in DOMAIN q.domains |-> q.domains[i].topic])
  <2>1. DOMAIN domain_to_topic(q) = DOMAIN new \cup DOMAIN old
    BY DEF domain_to_topic, Over
  <2>2. \A x : /\ x \in DOMAIN new <=> \E i \in DOMAIN q.schema : q.schema[i].name = x
               /\ x \in DOMAIN old <=> \E i \in DOMAIN q.domains : q.domains[i].name = x
    BY ByNameDomain
  <2> QED
    BY <2>1, <2>2
<1>4. ASSUME NEW x \in DOMAIN std PROVE \E i \in DOMAIN q.schema : q.schema[i].name = std[x]
  <2> DEFINE keys == [i \in DOMAIN q.schema |-> ToSet(q.schema[i].signals)]
             vals == [i \in DOMAIN q.schema |-> q.schema[i].name]
  <2>1. std = WriteInOrder(keys, vals)
    BY DEF SignalToDomain
  <2>2. PICK n \in Nat : DOMAIN q.schema = 1 .. n
    BY DEF IsList
  <2>3. DOMAIN keys = 1 .. n
    BY <2>2
  <2> HIDE DEF keys, vals, std
  <2>4. PICK i : LastToWrite(keys, x, i) /\ std[x] = vals[i]
    BY <2>1, <2>3, WriteInOrderHas
  <2>5. i \in DOMAIN q.schema
    BY <2>2, <2>3, <2>4 DEF LastToWrite
  <2> QED
    BY <2>4, <2>5 DEF vals
<1>5. ASSUME NEW x \in DOMAIN map PROVE \E i \in DOMAIN q.domains : q.domains[i].name = map[x]
  <2> DEFINE keys == [i \in DOMAIN domains |-> domains[i].can_ids]
             vals == [i \in DOMAIN domains |-> domains[i].name]
  <2>1. map = WriteInOrder(keys, vals)
    BY <1>1
  <2>2. PICK n \in Nat : DOMAIN q.domains = 1 .. n
    BY DEF IsList
  <2>3. DOMAIN keys = 1 .. n
    BY <2>2 DEF ConverterDomains
  <2>4. \A i \in DOMAIN q.domains : vals[i] = q.domains[i].name
    BY DEF ConverterDomains
  <2> HIDE DEF keys, vals, map
  <2>5. PICK i : LastToWrite(keys, x, i) /\ map[x] = vals[i]
    BY <2>1, <2>3, WriteInOrderHas
  <2>6. i \in DOMAIN q.domains
    BY <2>2, <2>3, <2>5 DEF LastToWrite
  <2> QED
    BY <2>4, <2>5, <2>6
<1> HIDE DEF std, map, res
<1> QED
  BY <1>1, <1>2, <1>3, <1>4, <1>5

--------------------------------------------------------------------------------
(* What is given is an input of the tool, and a configuration that is      *)
(* built is that of the documents that were merged.                        *)
FromInput == \E i \in Inputs : settings = i.settings /\ bag = i.bag
Built == cfg # None => cfg = build_config(Lookups(params), settings.dbc)
Flushed == pc \notin {"write_groups", "failed"} => unwritten = {}
Start == FromInput /\ Built /\ Flushed /\ TypeOK

(* What the assumptions on the inputs say of the bag at hand.              *)
LEMMA InputType ==
  ASSUME FromInput
  PROVE  /\ IsSeq(bag.messages) /\ Len(bag.messages) \in Nat
         /\ DOMAIN bag.messages = 1 .. Len(bag.messages)
         /\ \A j \in DOMAIN bag.messages :
               LET m == bag.messages[j]
               IN  /\ m.topic \in DOMAIN bag.topics
                   /\ m.topic # settings.can_topic => "cdr" \notin DOMAIN m.data
                   /\ m.topic = settings.can_topic /\ m.data # Malformed =>
                         m.data.stamp \in [sec : -(UInt32 \div 2) .. UInt32 \div 2 - 1,
                                           nanosec : 0 .. UInt32 - 1]
<1>1. PICK i \in Inputs : settings = i.settings /\ bag = i.bag
  BY DEF FromInput
<1>2. IsSeq(bag.messages)
  BY <1>1, BagAssumption
<1>3. Len(bag.messages) \in Nat /\ DOMAIN bag.messages = 1 .. Len(bag.messages)
  BY <1>2, IsSeqList
<1>4. \A j \in DOMAIN bag.messages : bag.messages[j] \in Range(bag.messages)
  BY <1>2, IsSeqList
<1> QED
  BY <1>1, <1>2, <1>3, <1>4, BagAssumption

Counters ==
    [frames_in : Nat, frames_decoded : Nat, frames_unknown : Nat, groups_out : Nat, passthrough : Nat]

(* Counting changes the counters that it names.                            *)
LEMMA CountType ==
  ASSUME counters \in Counters, NEW F
  PROVE  /\ Count(F) \in Counters
         /\ Count(F).frames_in = IF "frames_in" \in F THEN counters.frames_in + 1 ELSE counters.frames_in
         /\ Count(F).frames_decoded =
                IF "frames_decoded" \in F THEN counters.frames_decoded + 1 ELSE counters.frames_decoded
         /\ Count(F).frames_unknown =
                IF "frames_unknown" \in F THEN counters.frames_unknown + 1 ELSE counters.frames_unknown
         /\ Count(F).groups_out = IF "groups_out" \in F THEN counters.groups_out + 1 ELSE counters.groups_out
         /\ Count(F).passthrough =
                IF "passthrough" \in F THEN counters.passthrough + 1 ELSE counters.passthrough
<1> DEFINE D == {"frames_in", "frames_decoded", "frames_unknown", "groups_out", "passthrough"}
<1>1. DOMAIN counters = D /\ \A f \in D : counters[f] \in Nat
  BY DEF Counters
<1>2. /\ Count(F) = [f \in D |-> IF f \in F THEN counters[f] + 1 ELSE counters[f]]
      /\ \A f \in D : Count(F)[f] \in Nat
  BY <1>1 DEF Count
<1> QED
  BY <1>2 DEF Counters

(* No step changes the parameter set or the bag, and none the parameters   *)
(* once they are merged.                                                   *)
LEMMA GivenKept ==
  ASSUME Next
  PROVE  UNCHANGED <<settings, bag>> /\ (pc # "load_config" => UNCHANGED params)
<1>1. CASE LoadConfig
  BY <1>1 DEF LoadConfig
<1>2. CASE Returned
  BY <1>2 DEF Returned, vars
<1>3. CASE ~LoadConfig /\ ~Returned
  <2>1. UNCHANGED Given
    BY <1>3 DEF Next, Configure, create_topics, pass_through, read_frame, process_signal,
                transform_error, end_of_signals, write_group, end_of_frame, io_error, finish
  <2> QED
    BY <2>1 DEF Given
<1> QED
  BY <1>1, <1>2, <1>3

(* A pass of the loop that handles its signal adds it to the group of its  *)
(* domain, if it has one.                                                  *)
GroupedIn(d, name, value) ==
    LET sg == GroupFor(d)
    IN  Over([e \in {d} |-> [sg EXCEPT !.signals = Append(@, SignalMsg(name, value))]], groups)

(* A group is added for the domain or extended, the others are left alone. *)
LEMMA GroupedDomain ==
  ASSUME NEW d, NEW name, NEW value
  PROVE  /\ DOMAIN GroupedIn(d, name, value) = DOMAIN groups \cup {d}
         /\ \A e \in DOMAIN groups \ {d} : GroupedIn(d, name, value)[e] = groups[e]
         /\ GroupedIn(d, name, value)[d]
                = [GroupFor(d) EXCEPT !.signals = Append(@, SignalMsg(name, value))]
  BY DEF GroupedIn, Over

(* At the start nothing is configured, read or written.                    *)
LEMMA StartInit == Init => Start
<1> SUFFICES ASSUME Init PROVE Start
  OBVIOUS
<1>1. PICK i \in Inputs : settings = i.settings /\ configs = i.configs /\ bag = i.bag
  BY DEF Init
<1>2. FromInput
  BY <1>1 DEF FromInput
<1>3. configs \in Seq(Document) /\ 0 \in 0 .. Len(bag.messages)
  BY <1>1, <1>2, InputType, BagAssumption
<1>4. IsSeq(<<>>)
  BY DEF IsSeq
<1> QED
  BY <1>2, <1>3, <1>4 DEF Init, Start, Built, Flushed, TypeOK, Exited

(* Every step of a conversion keeps the types: a domain is grouped only    *)
(* when it has a topic, and only groups are written.                       *)
LEMMA StartNext == Start /\ [Next]_vars => Start'
<1> SUFFICES ASSUME Start, [Next]_vars PROVE Start'
  OBVIOUS
<1>0. FromInput /\ Built /\ Flushed /\ TypeOK
  BY DEF Start
<1>1. CASE UNCHANGED vars
  BY <1>0, <1>1 DEF vars, Start, FromInput, Built, Flushed, TypeOK
<1>2. CASE Next
  <2>1. UNCHANGED <<settings, bag>> /\ FromInput'
    BY <1>0, <1>2, GivenKept DEF FromInput
  <2>2. Built' /\ Flushed' /\ TypeOK'
    <3>1. CASE LoadConfig
      <4>1. /\ pc = "load_config" /\ configs # <<>> /\ configs' = Tail(configs) /\ cfg = None
            /\ UNCHANGED <<cfg, reader, written, groups, unwritten, counters>>
        BY <1>0, <3>1 DEF LoadConfig, TypeOK
      <4>2. Head(configs) \in Document /\ Tail(configs) \in Seq(Document)
        <5>1. configs \in Seq(Document)
          BY <1>0 DEF TypeOK
        <5> QED
          BY <4>1, <5>1, HeadTailProperties
      <4>3. CASE Head(configs) = Broken
        <5>1. pc' = "failed" /\ UNCHANGED params
          BY <3>1, <4>3 DEF LoadConfig
        <5> QED
          BY <1>0, <2>1, <4>1, <4>2, <5>1 DEF TypeOK, Built, Flushed, Exited
      <4>4. CASE Head(configs) # Broken
        <5>1. params' = Merged(params, load_yaml(Head(configs))) /\ UNCHANGED pc
          BY <3>1, <4>4 DEF LoadConfig
        <5>2. \A k \in DOMAIN load_yaml(Head(configs)) : load_yaml(Head(configs))[k] \in Leaf
          BY <4>2, <4>4, LoadedLeaves DEF Document
        <5>3. \A k \in DOMAIN params' : params'[k] \in Leaf
          BY <1>0, <5>1, <5>2 DEF Merged, Over, TypeOK
        <5> QED
          BY <1>0, <2>1, <4>1, <4>2, <5>1, <5>3 DEF TypeOK, Built, Flushed, Exited
      <4> QED
        BY <4>3, <4>4
    <3>2. CASE Configure
      <4>1. build_config(Lookups(params), settings.dbc) # None
        BY DEF build_config, None
      <4>2. /\ pc = "load_config" /\ cfg = None /\ groups = <<>> /\ DOMAIN groups = {}
            /\ UNCHANGED <<settings, configs, params, bag, reader, written, groups, unwritten, counters>>
        BY <1>0, <3>2 DEF Configure, TypeOK, Given
      <4>3. \/ cfg' = build_config(Lookups(params), settings.dbc) /\ pc' = "create_topics"
            \/ cfg' = None /\ pc' = "failed"
        BY <3>2, <4>2 DEF Configure
      <4> QED
        BY <1>0, <4>1, <4>2, <4>3 DEF TypeOK, Built, Flushed, Exited
    <3>3. CASE create_topics
      BY <1>0, <3>3 DEF create_topics, TypeOK, Built, Flushed, Given, Exited
    <3>4. CASE pass_through
      <4>1. reader + 1 \in 0 .. Len(bag.messages)
        BY <1>0, <3>4, InputType DEF pass_through, TypeOK
      <4>2. Count({"passthrough"}) \in Counters
        BY <1>0, CountType DEF TypeOK, Counters
      <4>3. IsSeq(Append(written, bag_msg))
        BY <1>0, AppendIsSeq DEF TypeOK
      <4> HIDE DEF bag_msg, Count
      <4> QED
        BY <1>0, <3>4, <4>1, <4>2, <4>3 DEF pass_through, TypeOK, Built, Flushed, Given, Counters, Exited
    <3>5. CASE read_frame
      <4>1. reader + 1 \in 0 .. Len(bag.messages)
        BY <1>0, <3>5, InputType DEF read_frame, TypeOK
      <4>2. counters' \in Counters
        BY <1>0, <3>5, CountType DEF read_frame, CountUnknown, TypeOK, Counters
      <4>3. /\ UNCHANGED <<settings, configs, params, bag, cfg, written, unwritten>> /\ reader' = reader + 1
            /\ pc = "next_message"
            /\ (pc' = pc /\ groups' = groups) \/ (pc' = "signals" /\ groups' = <<>>)
        BY <3>5 DEF read_frame, Given, ClearGroups
      <4>4. unwritten = {}
        BY <1>0, <4>3 DEF Flushed
      <4> QED
        BY <1>0, <4>1, <4>2, <4>3, <4>4 DEF TypeOK, Built, Flushed, Counters, Exited
    <3>6. CASE process_signal
      <4> DEFINE raw == Head(todo)
                 res == Resolution(raw)
                 value == transform(cfg.exprs, res.name, raw.value)
      <4>1. /\ UNCHANGED <<settings, configs, params, bag, pc, cfg, reader, written, unwritten, counters>>
            /\ pc = "signals" /\ cfg # None
            /\ \/ groups' = groups
               \/ res.domain # kUnassignedDomain /\ groups' = GroupedIn(res.domain, res.name, value)
        BY <1>0, <3>6 DEF process_signal, Given, GroupedIn, TypeOK
      <4>2. res.domain # kUnassignedDomain => res.domain \in DOMAIN cfg.domain_to_topic
        <5> DEFINE q == Lookups(params)
        <5>1. IsList(q.domains) /\ IsList(q.schema)
          BY <1>0, LookupsLists DEF TypeOK
        <5>2. cfg = build_config(q, settings.dbc)
          BY <1>0, <4>1 DEF Built
        <5> HIDE DEF q
        <5> QED
          BY <5>1, <5>2, DomainHasTopic DEF Resolution
      <4>3. DOMAIN groups \subseteq DOMAIN groups' /\ DOMAIN groups' \subseteq DOMAIN cfg.domain_to_topic
        <5> HIDE DEF res, value
        <5>1. DOMAIN GroupedIn(res.domain, res.name, value) = DOMAIN groups \cup {res.domain}
          <6> DEFINE d == res.domain
                     name == res.name
          <6> HIDE DEF d, name
          <6>1. DOMAIN GroupedIn(d, name, value) = DOMAIN groups \cup {d}
            BY GroupedDomain
          <6> QED
            BY <6>1 DEF d, name
        <5>2. DOMAIN groups \subseteq DOMAIN cfg.domain_to_topic
          BY <1>0, <4>1 DEF TypeOK
        <5>3. CASE groups' = groups
          BY <5>2, <5>3
        <5>4. CASE res.domain # kUnassignedDomain /\ groups' = GroupedIn(res.domain, res.name, value)
          BY <4>2, <5>1, <5>2, <5>4
        <5> QED
          BY <4>1, <5>3, <5>4
      <4> HIDE DEF res, value
      <4> QED
        BY <1>0, <4>1, <4>3 DEF TypeOK, Built, Flushed, Exited
    <3>7. CASE transform_error
      BY <1>0, <3>7 DEF transform_error, TransformThrows, TypeOK, Built, Flushed, Given, Exited
    <3>8. CASE end_of_signals
      BY <1>0, <3>8 DEF end_of_signals, TypeOK, Built, Flushed, Given, Exited
    <3>9. ASSUME NEW d \in DOMAIN groups, write_group(d) PROVE Built' /\ Flushed' /\ TypeOK'
      <4>1. /\ UNCHANGED <<settings, configs, params, bag, pc, cfg, reader, groups>>
            /\ unwritten' = unwritten \ {d}
            /\ \/ written' = Append(written, out_msg(d)) /\ counters' = Count({"groups_out"})
               \/ UNCHANGED <<written, counters>>
        BY <3>9 DEF write_group, Given
      <4>2. IsSeq(Append(written, out_msg(d)))
        BY <1>0, AppendIsSeq DEF TypeOK
      <4>3. Count({"groups_out"}) \in Counters
        BY <1>0, CountType DEF TypeOK, Counters
      <4> QED
        BY <1>0, <4>1, <4>2, <4>3 DEF TypeOK, Built, Flushed, Counters, Exited
    <3>10. CASE end_of_frame
      BY <1>0, <3>10 DEF end_of_frame, TypeOK, Built, Flushed, Given, Exited
    <3>11. CASE io_error
      BY <1>0, <3>11 DEF io_error, TypeOK, Built, Flushed, Given, Exited
    <3>12. CASE finish
      BY <1>0, <3>12 DEF finish, TypeOK, Built, Flushed, Given, Exited
    <3>13. CASE Returned
      BY <1>0, <3>13 DEF Returned, vars, TypeOK, Built, Flushed
    <3> QED
      BY <1>2, <3>1, <3>2, <3>3, <3>4, <3>5, <3>6, <3>7, <3>8, <3>9, <3>10, <3>11, <3>12, <3>13
         DEF Next
  <2> QED
    BY <2>1, <2>2 DEF Start
<1> QED
  BY <1>1, <1>2

(* Type correctness of a conversion, whatever files it is given: what is   *)
(* merged from them are leaves, and every domain that is grouped has a     *)
(* topic, so that the lookup at write_group never misses (convert_one).    *)
THEOREM ConversionTypeOK == Spec => []TypeOK
<1>1. Spec => []Start
  BY StartInit, StartNext, PTL DEF Spec
<1>2. Start => TypeOK
  BY DEF Start
<1> QED
  BY <1>1, <1>2, PTL

--------------------------------------------------------------------------------
(* The lists of a parameter set, in which elements of one name agree.      *)
Agree(p) ==
    \A q \in {p.domains, p.aliases, p.transforms, p.schema} :
        \A i, j \in DOMAIN q : q[i].name = q[j].name => q[i] = q[j]

(* What is looked up of an element is looked up by its name.               *)
LEMMA LookupsAgree == ASSUME NEW p PROVE Agree(Lookups(p))
<1>1. \A i, j \in DOMAIN Lookups(p).domains :
          Lookups(p).domains[i].name = Lookups(p).domains[j].name =>
              Lookups(p).domains[i] = Lookups(p).domains[j]
  BY DEF Lookups
<1>2. \A i, j \in DOMAIN Lookups(p).aliases :
          Lookups(p).aliases[i].name = Lookups(p).aliases[j].name =>
              Lookups(p).aliases[i] = Lookups(p).aliases[j]
  BY DEF Lookups
<1>3. \A i, j \in DOMAIN Lookups(p).transforms :
          Lookups(p).transforms[i].name = Lookups(p).transforms[j].name =>
              Lookups(p).transforms[i] = Lookups(p).transforms[j]
  BY DEF Lookups
<1>4. \A i, j \in DOMAIN Lookups(p).schema :
          Lookups(p).schema[i].name = Lookups(p).schema[j].name =>
              Lookups(p).schema[i] = Lookups(p).schema[j]
  BY DEF Lookups
<1> QED
  BY <1>1, <1>2, <1>3, <1>4 DEF Agree

(* build_config is the only step that makes a configuration.               *)
LEMMA ConfigNext == Start /\ ReadsBack /\ ConfigInv /\ [Next]_vars => ConfigInv'
<1> SUFFICES ASSUME Start, ReadsBack, ConfigInv, [Next]_vars PROVE ConfigInv'
  OBVIOUS
<1>1. CASE UNCHANGED <<cfg, settings>>
  BY <1>1 DEF ConfigInv
<1>2. CASE Configure
  <2> DEFINE L == Lookups(params)
             dbc == settings.dbc
  <2>1. pc = "load_config" /\ configs = <<>> /\ UNCHANGED settings
    BY <1>2 DEF Configure, Given
  <2>2. CASE ~Accepted(L, dbc)
    BY <1>1, <1>2, <2>1, <2>2 DEF Configure
  <2>3. CASE Accepted(L, dbc)
    <3>1. cfg' = build_config(L, dbc)
      BY <1>2, <2>3 DEF Configure
    <3>2. \A f \in DOMAIN L : L[f] = settings[f]
      BY <2>1 DEF ReadsBack
    <3>3. DOMAIN L = {"can_topic", "domains", "aliases", "transforms", "schema", "signal_id_names"}
      BY DEF Lookups
    <3> HIDE DEF L, dbc
    <3>4. /\ L.can_topic = settings.can_topic /\ L.domains = settings.domains
          /\ L.aliases = settings.aliases /\ L.transforms = settings.transforms
          /\ L.schema = settings.schema /\ L.signal_id_names = settings.signal_id_names
      BY <3>2, <3>3
    <3>5. Accepted(settings, dbc)
      BY <2>3, <3>4 DEF Accepted
    <3>6. cfg' = build_config(settings, dbc)
      BY <3>1, <3>4 DEF build_config, ConverterDomains, domain_to_topic
    <3>7. Agree(L)
      BY LookupsAgree DEF L
    <3>8. Agree(settings)
      BY <3>4, <3>7 DEF Agree
    <3> QED
      BY <2>1, <3>5, <3>6, <3>8 DEF ConfigInv, Agree, dbc
  <2> QED
    BY <2>2, <2>3
<1> QED
  BY <1>1, <1>2 DEF Next, vars, LoadConfig, create_topics, pass_through, read_frame, process_signal,
       transform_error, end_of_signals, write_group, end_of_frame, io_error, finish, Returned, Given

(* The facts that StartNext carries along hold throughout.                 *)
LEMMA SpecStart == Spec => []Start
  BY StartInit, StartNext, PTL DEF Spec

(* A configuration that main accepts is that of the parameter set which the*)
(* files write down.                                                       *)
LEMMA SpecConfig == Spec /\ []ReadsBack => []ConfigInv
<1>1. Init => ConfigInv
  BY DEF Init, ConfigInv
<1> QED
  BY <1>1, ConfigNext, SpecStart, PTL DEF Spec

--------------------------------------------------------------------------------
(* The topics of the output.                                               *)
LEMMA TopicsNext == Start /\ ConfigInv /\ TopicsInv /\ [Next]_vars => TopicsInv'
<1> SUFFICES ASSUME Start, ConfigInv, TopicsInv, [Next]_vars PROVE TopicsInv'
  OBVIOUS
<1>0. FromInput /\ TypeOK
  BY DEF Start
<1> DEFINE Topical == pc \in {"next_message", "signals", "write_groups", "done"}
<1>1. CASE UNCHANGED <<pc, cfg, bag, reader, topics, written>>
  BY <1>1 DEF TopicsInv, OutputTopics, InputTopics, DomainTopics
<1>2. CASE LoadConfig \/ Configure
  <2>1. pc = "load_config" /\ UNCHANGED <<reader, written>> /\ pc' \in {"load_config", "create_topics", "failed"}
    BY <1>2 DEF LoadConfig, Configure
  <2>2. reader = 0 /\ written = <<>>
    BY <2>1 DEF TopicsInv
  <2> QED
    BY <2>1, <2>2 DEF TopicsInv
<1>3. CASE create_topics
  <2>1. /\ pc = "create_topics" /\ pc' = "next_message" /\ topics' = OutputTopics
        /\ UNCHANGED <<cfg, bag, written>>
    BY <1>3 DEF create_topics, Given
  <2>2. written = <<>> /\ cfg # None
    BY <1>0, <2>1 DEF TopicsInv, TypeOK
  <2>3. OutputTopics' = OutputTopics
    BY <2>1 DEF OutputTopics, InputTopics, DomainTopics
  <2> QED
    BY <2>1, <2>2, <2>3 DEF TopicsInv
<1>4. CASE Topical /\ pc' \notin {"load_config", "create_topics"} /\ UNCHANGED <<cfg, bag, topics>>
           /\ \/ UNCHANGED written
              \/ \E m : written' = Append(written, m) /\ m.topic \in DOMAIN topics
  <2>1. cfg # None /\ topics = OutputTopics
    BY <1>4 DEF TopicsInv
  <2>2. OutputTopics' = OutputTopics
    BY <1>4 DEF OutputTopics, InputTopics, DomainTopics
  <2>3. \A i \in DOMAIN written' : written'[i].topic \in DOMAIN topics'
    <3>1. CASE UNCHANGED written
      BY <1>4, <3>1 DEF TopicsInv
    <3>2. CASE \E m : written' = Append(written, m) /\ m.topic \in DOMAIN topics
      <4>1. PICK m : written' = Append(written, m) /\ m.topic \in DOMAIN topics
        BY <3>2
      <4>2. IsSeq(written) /\ IsSeq(written')
        BY <1>0, <4>1, AppendIsSeq DEF TypeOK
      <4>3. /\ Len(written') = Len(written) + 1 /\ Len(written) \in Nat
            /\ \A i \in 1 .. Len(written) : written'[i] = written[i]
            /\ written'[Len(written) + 1] = m
        BY <4>1, <4>2, AppendIsSeq, IsSeqList
      <4>4. DOMAIN written = 1 .. Len(written) /\ DOMAIN written' = 1 .. Len(written')
        BY <4>2, IsSeqList
      <4>5. \A i \in DOMAIN written' : i \in DOMAIN written \/ i = Len(written) + 1
        BY <4>3, <4>4
      <4> QED
        BY <1>4, <4>1, <4>3, <4>4, <4>5 DEF TopicsInv
    <3> QED
      BY <1>4, <3>1, <3>2
  <2> QED
    BY <1>4, <2>1, <2>2, <2>3 DEF TopicsInv
<1>5. CASE pass_through
  <2>1. /\ pc = "next_message" /\ pc' = pc /\ UNCHANGED <<cfg, bag, topics>>
        /\ reader < Len(bag.messages) /\ bag_msg.topic # cfg.can_topic
        /\ written' = Append(written, bag_msg)
    BY <1>5 DEF pass_through, Given
  <2>2. topics = OutputTopics
    BY <2>1 DEF TopicsInv
  <2>3. reader + 1 \in DOMAIN bag.messages
    BY <1>0, <2>1, InputType DEF TypeOK
  <2>4. bag_msg.topic \in DOMAIN bag.topics
    BY <1>0, <2>3, InputType DEF bag_msg
  <2>5. bag_msg.topic \in DOMAIN topics
    BY <2>1, <2>2, <2>4 DEF OutputTopics, InputTopics, Over
  <2> QED
    BY <1>4, <2>1, <2>5
<1>6. ASSUME NEW d \in DOMAIN groups, write_group(d) PROVE TopicsInv'
  <2>1. /\ pc = "write_groups" /\ pc' = pc /\ UNCHANGED <<cfg, bag, topics>>
        /\ \/ UNCHANGED written
           \/ d \in DOMAIN cfg.domain_to_topic /\ written' = Append(written, out_msg(d))
    BY <1>6 DEF write_group, Given
  <2>2. topics = OutputTopics
    BY <2>1 DEF TopicsInv
  <2>3. d \in DOMAIN cfg.domain_to_topic => out_msg(d).topic \in DOMAIN topics
    BY <2>2 DEF OutputTopics, DomainTopics, Over, out_msg, Range
  <2> QED
    BY <1>4, <2>1, <2>3
<1>7. CASE read_frame
  BY <1>4, <1>7 DEF read_frame, Given
<1>8. CASE process_signal \/ transform_error \/ end_of_signals
  BY <1>4, <1>8 DEF process_signal, transform_error, TransformThrows, end_of_signals, Given
<1>9. CASE end_of_frame \/ io_error \/ finish
  BY <1>4, <1>9 DEF end_of_frame, io_error, finish, Given
<1> QED
  BY <1>1, <1>2, <1>3, <1>5, <1>6, <1>7, <1>8, <1>9 DEF Next, Returned, vars

(* Nothing is written before the topics are created, and then to them.     *)
LEMMA SpecTopics == Spec /\ []ReadsBack => []TopicsInv
<1>1. Init => TopicsInv
  BY DEF Init, TopicsInv
<1> QED
  BY <1>1, TopicsNext, SpecStart, SpecConfig, PTL DEF Spec

(* Whatever bag and parameter set: a topic that passes through keeps its   *)
(* type even when a domain has the same topic, and no message is written to*)
(* a topic that was not created (convert_one).                             *)
THEOREM ConversionTypesKept == Spec /\ []ReadsBack => []TypesKept
<1>1. Start /\ ConfigInv /\ TopicsInv => TypesKept
  <2> SUFFICES ASSUME Start, ConfigInv, TopicsInv, NEW i \in DOMAIN written
               PROVE  LET t == written[i].topic
                      IN  /\ t \in DOMAIN topics
                          /\ topics[t] = IF t \in DOMAIN bag.topics \ {settings.can_topic}
                                         THEN bag.topics[t] ELSE GroupType
    BY DEF TypesKept
  <2>1. written # <<>>
    OBVIOUS
  <2>2. cfg # None /\ topics = OutputTopics /\ written[i].topic \in DOMAIN topics
    BY <2>1 DEF TopicsInv
  <2>3. cfg.can_topic = settings.can_topic
    BY <2>2 DEF ConfigInv, build_config
  <2> QED
    BY <2>2, <2>3 DEF OutputTopics, InputTopics, DomainTopics, Over
<1> QED
  BY <1>1, SpecStart, SpecConfig, SpecTopics, PTL

--------------------------------------------------------------------------------
(* The counters of the summary.                                            *)
LEMMA OneMore ==
  ASSUME NEW k \in Nat, NEW S, S \subseteq 1 .. k
  PROVE  /\ IsFiniteSet(S) /\ Cardinality(S) \in Nat
         /\ Cardinality(S \cup {k + 1}) = Cardinality(S) + 1
<1>1. IsFiniteSet(1 .. k)
  BY FS_Interval
<1>2. IsFiniteSet(S)
  BY <1>1, FS_Subset
<1>3. k + 1 \notin S
  OBVIOUS
<1> QED
  BY <1>2, <1>3, FS_AddElement, FS_CardinalityType

(* What one more message of the bag adds to the frames and to the unknown  *)
(* ones.                                                                   *)
LEMMA CountsFrames ==
  ASSUME NEW k \in Nat
  PROVE  LET F == FramesUpTo(k)
             U == UnknownUpTo(k)
             m == bag.messages[k + 1]
             frame == m.topic = settings.can_topic
             unknown == \A i \in DOMAIN settings.dbc.messages : settings.dbc.messages[i].id # m.data.id
         IN  /\ Cardinality(FramesUpTo(k + 1)) = IF frame THEN Cardinality(F) + 1 ELSE Cardinality(F)
             /\ Cardinality(UnknownUpTo(k + 1))
                    = IF frame /\ unknown THEN Cardinality(U) + 1 ELSE Cardinality(U)
             /\ Cardinality(FramesUpTo(k + 1) \ UnknownUpTo(k + 1))
                    = IF frame /\ ~unknown THEN Cardinality(F \ U) + 1 ELSE Cardinality(F \ U)
             /\ Cardinality((1 .. k + 1) \ FramesUpTo(k + 1))
                    = IF frame THEN Cardinality((1 .. k) \ F) ELSE Cardinality((1 .. k) \ F) + 1
<1> DEFINE F == FramesUpTo(k)
           U == UnknownUpTo(k)
           F1 == FramesUpTo(k + 1)
           U1 == UnknownUpTo(k + 1)
           m == bag.messages[k + 1]
           frame == m.topic = settings.can_topic
           unknown == \A i \in DOMAIN settings.dbc.messages : settings.dbc.messages[i].id # m.data.id
<1>1. F \subseteq 1 .. k /\ U \subseteq F
  BY DEF FramesUpTo, UnknownUpTo
<1>2. \A j : j \in 1 .. k + 1 <=> j \in 1 .. k \/ j = k + 1
  OBVIOUS
<1>3. F1 = IF frame THEN F \cup {k + 1} ELSE F
  BY <1>2 DEF FramesUpTo
<1>4. U1 = IF frame /\ unknown THEN U \cup {k + 1} ELSE U
  <2>1. \A j : j \in F1 <=> j \in F \/ (frame /\ j = k + 1)
    BY <1>3
  <2> HIDE DEF F, F1
  <2>2. \A j : j \in U1 <=> j \in U \/ (frame /\ unknown /\ j = k + 1)
    BY <2>1 DEF UnknownUpTo, F, F1
  <2> HIDE DEF U, U1, frame, unknown
  <2> QED
    BY <2>2
<1> HIDE DEF F, U, F1, U1, frame, unknown
<1>5. k + 1 \notin F /\ k + 1 \notin U /\ k + 1 \notin 1 .. k /\ 1 .. k + 1 = (1 .. k) \cup {k + 1}
  BY <1>1, <1>2
<1>6. /\ Cardinality(F \cup {k + 1}) = Cardinality(F) + 1
      /\ Cardinality(U \cup {k + 1}) = Cardinality(U) + 1
      /\ Cardinality((F \ U) \cup {k + 1}) = Cardinality(F \ U) + 1
      /\ Cardinality(((1 .. k) \ F) \cup {k + 1}) = Cardinality((1 .. k) \ F) + 1
  <2>1. U \subseteq 1 .. k /\ F \ U \subseteq 1 .. k /\ (1 .. k) \ F \subseteq 1 .. k
    BY <1>1
  <2> QED
    BY <1>1, <2>1, OneMore
<1>7. F1 \ U1 = IF frame /\ ~unknown THEN (F \ U) \cup {k + 1} ELSE F \ U
  BY <1>3, <1>4, <1>5
<1>8. (1 .. k + 1) \ F1 = IF frame THEN (1 .. k) \ F ELSE ((1 .. k) \ F) \cup {k + 1}
  BY <1>3, <1>5
<1> QED
  BY <1>3, <1>4, <1>6, <1>7, <1>8 DEF F, U, F1, U1, frame, unknown

(* Steps that read and write no message count none.                        *)
LEMMA CountedKept ==
  ASSUME UNCHANGED <<settings, bag, reader, written, counters>>, Counted(reader)
  PROVE  Counted(reader)'
  BY DEF Counted, FramesUpTo, UnknownUpTo

(* Every message that is read or written is counted once, under what it is.*)
LEMMA CountedNext == Start /\ ConfigInv /\ TopicsInv /\ Counted(reader) /\ [Next]_vars => Counted(reader)'
<1> SUFFICES ASSUME Start, ConfigInv, TopicsInv, Counted(reader), [Next]_vars PROVE Counted(reader)'
  OBVIOUS
<1>0. FromInput /\ TypeOK /\ counters \in Counters /\ reader \in Nat /\ IsSeq(written)
  BY DEF Start, TypeOK, Counters
<1> DEFINE k == reader
           m == bag.messages[reader + 1]
           frame == m.topic = settings.can_topic
           unknown == \A i \in DOMAIN settings.dbc.messages : settings.dbc.messages[i].id # m.data.id
<1>1. CASE UNCHANGED <<settings, bag, reader, written, counters>>
  BY <1>1, CountedKept
<1>2. CASE pass_through
  <2>1. /\ pc = "next_message" /\ m.topic # cfg.can_topic /\ reader' = reader + 1
        /\ written' = Append(written, m) /\ counters' = Count({"passthrough"})
        /\ UNCHANGED <<settings, bag>>
    BY <1>2 DEF pass_through, Given, bag_msg
  <2>2. ~frame
    BY <2>1 DEF TopicsInv, ConfigInv, build_config
  <2>3. /\ counters'.frames_in = counters.frames_in /\ counters'.frames_decoded = counters.frames_decoded
        /\ counters'.frames_unknown = counters.frames_unknown
        /\ counters'.groups_out = counters.groups_out
        /\ counters'.passthrough = counters.passthrough + 1
    BY <1>0, <2>1, CountType
  <2>4. Len(written') = Len(written) + 1 /\ Len(written) \in Nat
    BY <1>0, <2>1, AppendIsSeq, IsSeqList
  <2>5. /\ counters.passthrough \in Nat /\ counters.groups_out \in Nat
        /\ counters.groups_out = Len(written) - counters.passthrough
    BY <1>0 DEF Counters, Counted
  <2>6. counters'.groups_out = Len(written') - counters'.passthrough
    BY <2>3, <2>4, <2>5
  <2>7. /\ Cardinality(FramesUpTo(k + 1)) = Cardinality(FramesUpTo(k))
        /\ Cardinality(UnknownUpTo(k + 1)) = Cardinality(UnknownUpTo(k))
        /\ Cardinality(FramesUpTo(k + 1) \ UnknownUpTo(k + 1)) = Cardinality(FramesUpTo(k) \ UnknownUpTo(k))
        /\ Cardinality((1 .. k + 1) \ FramesUpTo(k + 1)) = Cardinality((1 .. k) \ FramesUpTo(k)) + 1
    BY <1>0, <2>2, CountsFrames
  <2>8. /\ FramesUpTo(k + 1) = FramesUpTo(reader)' /\ UnknownUpTo(k + 1) = UnknownUpTo(reader)'
        /\ k + 1 = reader'
    BY <2>1 DEF FramesUpTo, UnknownUpTo
  <2> QED
    BY <2>3, <2>6, <2>7, <2>8 DEF Counted
<1>3. CASE read_frame
  <2>1. /\ pc = "next_message" /\ m.topic = cfg.can_topic /\ reader' = reader + 1
        /\ UNCHANGED <<settings, bag, written>>
        /\ \/ ~Decodable(cfg.msg_map, m.data.id) /\ counters' = Count({"frames_in", "frames_unknown"})
           \/ Decodable(cfg.msg_map, m.data.id) /\ counters' = Count({"frames_in", "frames_decoded"})
    BY <1>3 DEF read_frame, Given, bag_msg, CountUnknown
  <2>2. frame /\ (unknown <=> ~Decodable(cfg.msg_map, m.data.id))
    <3>1. cfg # None /\ cfg = build_config(settings, settings.dbc)
      BY <2>1 DEF TopicsInv, ConfigInv
    <3>2. cfg.msg_map = build_map(settings.dbc.messages) /\ cfg.can_topic = settings.can_topic
      BY <3>1 DEF build_config
    <3>3. DOMAIN build_map(settings.dbc.messages)
              = {settings.dbc.messages[i].id : i \in DOMAIN settings.dbc.messages}
      BY DEF build_map
    <3> QED
      BY <2>1, <3>2, <3>3 DEF Decodable
  <2> HIDE DEF frame, unknown
  <2>3. /\ counters'.frames_in = counters.frames_in + 1
        /\ counters'.frames_decoded = IF unknown THEN counters.frames_decoded ELSE counters.frames_decoded + 1
        /\ counters'.frames_unknown = IF unknown THEN counters.frames_unknown + 1 ELSE counters.frames_unknown
        /\ counters'.groups_out = counters.groups_out
        /\ counters'.passthrough = counters.passthrough
    <3>1. CASE unknown
      <4>1. counters' = Count({"frames_in", "frames_unknown"})
        BY <2>1, <2>2, <3>1
      <4> QED
        BY <1>0, <3>1, <4>1, CountType
    <3>2. CASE ~unknown
      <4>1. counters' = Count({"frames_in", "frames_decoded"})
        BY <2>1, <2>2, <3>2
      <4> QED
        BY <1>0, <3>2, <4>1, CountType
    <3> QED
      BY <3>1, <3>2
  <2>4. /\ Cardinality(FramesUpTo(k + 1)) = Cardinality(FramesUpTo(k)) + 1
        /\ Cardinality(UnknownUpTo(k + 1))
               = IF unknown THEN Cardinality(UnknownUpTo(k)) + 1 ELSE Cardinality(UnknownUpTo(k))
        /\ Cardinality(FramesUpTo(k + 1) \ UnknownUpTo(k + 1))
               = IF unknown THEN Cardinality(FramesUpTo(k) \ UnknownUpTo(k))
                 ELSE Cardinality(FramesUpTo(k) \ UnknownUpTo(k)) + 1
        /\ Cardinality((1 .. k + 1) \ FramesUpTo(k + 1)) = Cardinality((1 .. k) \ FramesUpTo(k))
    BY <1>0, <2>2, CountsFrames DEF frame, unknown
  <2>5. /\ FramesUpTo(k + 1) = FramesUpTo(reader)' /\ UnknownUpTo(k + 1) = UnknownUpTo(reader)'
        /\ k + 1 = reader'
    BY <2>1 DEF FramesUpTo, UnknownUpTo
  <2> QED
    BY <2>1, <2>3, <2>4, <2>5 DEF Counted
<1>4. ASSUME NEW d \in DOMAIN groups, write_group(d) PROVE Counted(reader)'
  <2>1. /\ UNCHANGED <<settings, bag, reader>>
        /\ \/ UNCHANGED <<written, counters>>
           \/ written' = Append(written, out_msg(d)) /\ counters' = Count({"groups_out"})
    BY <1>4 DEF write_group, Given
  <2>2. CASE UNCHANGED <<written, counters>>
    BY <1>1, <2>1, <2>2
  <2>3. CASE written' = Append(written, out_msg(d)) /\ counters' = Count({"groups_out"})
    <3>1. /\ counters'.frames_in = counters.frames_in /\ counters'.frames_decoded = counters.frames_decoded
          /\ counters'.frames_unknown = counters.frames_unknown
          /\ counters'.groups_out = counters.groups_out + 1
          /\ counters'.passthrough = counters.passthrough
      BY <1>0, <2>3, CountType
    <3>2. Len(written') = Len(written) + 1 /\ Len(written) \in Nat
      BY <1>0, <2>3, AppendIsSeq, IsSeqList
    <3>3. /\ counters.passthrough \in Nat /\ counters.groups_out \in Nat
          /\ counters.groups_out = Len(written) - counters.passthrough
      BY <1>0 DEF Counters, Counted
    <3>4. counters'.groups_out = Len(written') - counters'.passthrough
      BY <3>1, <3>2, <3>3
    <3>5. FramesUpTo(reader)' = FramesUpTo(reader) /\ UnknownUpTo(reader)' = UnknownUpTo(reader)
      BY <2>1 DEF FramesUpTo, UnknownUpTo
    <3> QED
      BY <2>1, <3>1, <3>4, <3>5 DEF Counted
  <2> QED
    BY <2>1, <2>2, <2>3
<1>5. CASE LoadConfig \/ Configure \/ create_topics \/ Returned
  BY <1>1, <1>5 DEF LoadConfig, Configure, create_topics, Returned, vars, Given
<1>6. CASE process_signal \/ transform_error \/ end_of_signals
  BY <1>1, <1>6 DEF process_signal, transform_error, end_of_signals, Given
<1>7. CASE end_of_frame \/ io_error \/ finish
  BY <1>1, <1>7 DEF end_of_frame, io_error, finish, Given
<1>8. CASE UNCHANGED vars
  BY <1>1, <1>8 DEF vars
<1> QED
  BY <1>2, <1>3, <1>4, <1>5, <1>6, <1>7, <1>8 DEF Next

(* Before the first message nothing is counted.                            *)
LEMMA CountedInit == Init => Counted(reader)
<1> SUFFICES ASSUME Init PROVE Counted(reader)
  OBVIOUS
<1>1. reader = 0 /\ 1 .. 0 = {} /\ Len(written) = 0
  BY DEF Init
<1>2. FramesUpTo(0) = {} /\ UnknownUpTo(0) = {} /\ (1 .. 0) \ {} = {} /\ {} \ {} = {}
  BY <1>1 DEF FramesUpTo, UnknownUpTo
<1>3. Cardinality({}) = 0
  BY FS_EmptySet
<1>4. /\ counters.frames_in = 0 /\ counters.frames_decoded = 0 /\ counters.frames_unknown = 0
      /\ counters.groups_out = 0 /\ counters.passthrough = 0
  BY DEF Init
<1>5. Counted(0)
  <2>1. Len(written) - counters.passthrough = 0
    BY <1>1, <1>4
  <2>2. FramesUpTo(0) \ UnknownUpTo(0) = {} /\ (1 .. 0) \ FramesUpTo(0) = {}
    BY <1>1, <1>2
  <2> QED
    BY <1>2, <1>3, <1>4, <2>1, <2>2 DEF Counted
<1> QED
  BY <1>1, <1>5

(* The counters are right at every point of a conversion, also at one where*)
(* it fails.                                                               *)
LEMMA SpecCounted == Spec /\ []ReadsBack => []Counted(reader)
  BY CountedInit, CountedNext, SpecStart, SpecConfig, SpecTopics, PTL DEF Spec

(* The summary a conversion prints is true of the two bags: every frame of *)
(* the input was decoded or has an id the DBC file does not define, and    *)
(* every message of the output is counted (convert_one).                   *)
THEOREM ConversionSummaryTrue == Spec /\ []ReadsBack => []SummaryTrue
<1> DEFINE Ended == pc = "done" => reader = Len(bag.messages)
<1>1. Init => Ended
  BY DEF Init
<1>2. Ended /\ [Next]_vars => Ended'
  <2> SUFFICES ASSUME Ended, [Next]_vars PROVE Ended'
    OBVIOUS
  <2>1. CASE pc' # "done"
    BY <2>1
  <2>2. CASE finish
    BY <2>2 DEF finish, Given
  <2>3. CASE UNCHANGED <<pc, reader, bag>>
    BY <2>3
  <2> QED
    BY <2>1, <2>2, <2>3 DEF Next, LoadConfig, Configure, create_topics, pass_through, read_frame,
        process_signal, transform_error, TransformThrows, end_of_signals, write_group, end_of_frame,
        io_error, Returned, vars, Given
<1>3. Ended /\ Counted(reader) => SummaryTrue
  BY DEF SummaryTrue
<1> QED
  BY <1>1, <1>2, <1>3, SpecCounted, PTL DEF Spec

--------------------------------------------------------------------------------
(* CAN ids in the range that the node accepts do not wrap around.          *)
Settled == cfg # None /\ IdsInRange => ConverterDomains(settings) = settings.domains

(* CAN ids stay as they are configured.                                    *)
LEMMA SettledNext == Start /\ ReadsBack /\ Settled /\ [Next]_vars => Settled'
<1> SUFFICES ASSUME Start, ReadsBack, Settled, [Next]_vars PROVE Settled'
  OBVIOUS
<1>1. CASE UNCHANGED <<cfg, settings>>
  BY <1>1 DEF Settled, IdsInRange
<1>2. CASE Configure
  <2> DEFINE L == Lookups(params)
             q == settings.domains
  <2>1. pc = "load_config" /\ configs = <<>> /\ UNCHANGED settings
    BY <1>2 DEF Configure, Given
  <2>2. L.domains = q
    <3>1. \A f \in DOMAIN L : L[f] = settings[f]
      BY <2>1 DEF ReadsBack
    <3>2. "domains" \in DOMAIN L
      BY DEF Lookups
    <3> HIDE DEF L
    <3> QED
      BY <3>1, <3>2
  <2>3. /\ q = [i \in DOMAIN q |-> q[i]]
        /\ \A i \in DOMAIN q :
              q[i] = [name |-> q[i].name, topic |-> q[i].topic, can_ids |-> q[i].can_ids]
    <3> DEFINE d == L.domains
    <3>1. /\ d = [i \in DOMAIN d |-> d[i]]
          /\ \A i \in DOMAIN d :
                d[i] = [name |-> d[i].name, topic |-> d[i].topic, can_ids |-> d[i].can_ids]
      BY DEF Lookups
    <3> HIDE DEF d, q
    <3> QED
      BY <2>2, <3>1 DEF d
  <2>4. ASSUME IdsInRange PROVE ConverterDomains(settings) = q
    <3>1. ASSUME NEW i \in DOMAIN q
          PROVE  [q[i] EXCEPT !.can_ids = {AsCanId(n) : n \in q[i].can_ids}] = q[i]
      <4>1. q[i].can_ids \subseteq 0 .. MaxCanId
        BY <2>4 DEF IdsInRange
      <4>2. ASSUME NEW n \in q[i].can_ids PROVE AsCanId(n) = n
        <5>1. n \in 0 .. MaxCanId /\ MaxCanId \in Nat /\ CanIdRange \in Nat /\ CanIdRange > MaxCanId
          BY <4>1, ParameterAssumption, CanIdAssumption
        <5> QED
          BY <5>1 DEF AsCanId
      <4>3. {AsCanId(n) : n \in q[i].can_ids} = q[i].can_ids
        BY <4>2
      <4> HIDE DEF q
      <4> QED
        BY <2>3, <4>3
    <3>2. ConverterDomains(settings) = [i \in DOMAIN q |-> q[i]]
      BY <3>1 DEF ConverterDomains
    <3> HIDE DEF q
    <3> QED
      BY <2>3, <3>2
  <2>5. IdsInRange' => IdsInRange
    BY <2>1 DEF IdsInRange
  <2> QED
    BY <2>1, <2>4, <2>5 DEF Settled
<1> QED
  BY <1>1, <1>2 DEF Next, vars, LoadConfig, create_topics, pass_through, read_frame, process_signal,
       transform_error, end_of_signals, write_group, end_of_frame, io_error, finish, Returned, Given

(* What a configuration that is read back says.                            *)
Ready == Start /\ ConfigInv /\ Settled

(* What holds of a configuration holds as long as it is used.              *)
LEMMA SpecReady == Spec /\ []ReadsBack => []Ready
<1>1. Init => Settled
  BY DEF Init, Settled
<1>2. Start /\ ConfigInv /\ Settled => Ready
  BY DEF Ready
<1> QED
  BY <1>1, <1>2, SettledNext, SpecStart, SpecConfig, PTL DEF Spec

(* What the assumptions say of the lists of the parameter set.             *)
LEMMA SettingsLists ==
  ASSUME Start
  PROVE  /\ IsSeq(settings.domains) /\ IsSeq(settings.aliases) /\ IsSeq(settings.transforms)
         /\ IsSeq(settings.schema) /\ IsSeq(settings.signal_id_names) /\ IsSeq(settings.dbc.messages)
         /\ \A i \in DOMAIN settings.schema : IsSeq(settings.schema[i].signals)
         /\ \A i \in DOMAIN settings.dbc.messages :
               IsSeq(settings.dbc.messages[i].signals) /\ Len(settings.dbc.messages[i].signals) < UInt32
<1>1. PICK i \in Inputs : settings = i.settings /\ bag = i.bag
  BY DEF Start, FromInput
<1>2. /\ IsSeq(settings.domains) /\ IsSeq(settings.aliases) /\ IsSeq(settings.transforms)
      /\ IsSeq(settings.schema) /\ IsSeq(settings.signal_id_names) /\ IsSeq(settings.dbc.messages)
      /\ \A s \in Range(settings.schema) : IsSeq(s.signals)
      /\ \A m \in Range(settings.dbc.messages) : IsSeq(m.signals) /\ Len(m.signals) < UInt32
  BY <1>1, SettingsAssumption
<1>3. \A q : IsSeq(q) => \A j \in DOMAIN q : q[j] \in Range(q)
  BY IsSeqList
<1> QED
  BY <1>2, <1>3

(* The objects main makes have the tables of the parameter set.            *)
LEMMA SettingsWellFormed ==
  ASSUME Ready, cfg # None
  PROVE  /\ WellFormed(settings) /\ Agree(settings)
         /\ cfg = build_config(settings, settings.dbc)
         /\ IdsInRange => TablesOf(settings, cfg)
<1>1. /\ cfg = build_config(settings, settings.dbc) /\ Agree(settings)
      /\ Len(settings.signal_id_names) <= MaxTableId
  BY DEF Ready, ConfigInv, Agree, Accepted
<1>2. \A q : IsSeq(q) => IsList(q)
  BY IsSeqList
<1>3. WellFormed(settings)
  <2>1. /\ IsList(settings.domains) /\ IsList(settings.aliases) /\ IsList(settings.transforms)
        /\ IsList(settings.schema) /\ IsList(settings.signal_id_names) /\ IsList(settings.dbc.messages)
        /\ \A i \in DOMAIN settings.schema : IsList(settings.schema[i].signals)
    BY <1>2, SettingsLists DEF Ready
  <2>2. /\ \A i, j \in DOMAIN settings.aliases :
              settings.aliases[i].name = settings.aliases[j].name => settings.aliases[i] = settings.aliases[j]
        /\ \A i, j \in DOMAIN settings.transforms :
              settings.transforms[i].name = settings.transforms[j].name =>
                  settings.transforms[i] = settings.transforms[j]
    BY <1>1 DEF Agree
  <2>3. /\ \A i, j \in DOMAIN settings.aliases :
              settings.aliases[i].name = settings.aliases[j].name =>
                  settings.aliases[i].to = settings.aliases[j].to
        /\ \A i, j \in DOMAIN settings.transforms :
              settings.transforms[i].name = settings.transforms[j].name =>
                  settings.transforms[i].expression = settings.transforms[j].expression
    BY <2>2
  <2> QED
    BY <2>1, <2>3 DEF WellFormed
<1>4. IdsInRange => TablesOf(settings, cfg)
  <2> SUFFICES ASSUME IdsInRange PROVE TablesOf(settings, cfg)
    OBVIOUS
  <2>1. ConverterDomains(settings) = settings.domains
    BY DEF Ready, Settled
  <2>2. /\ cfg.router = configure(ConverterDomains(settings), AliasMap(settings))
        /\ cfg.signal_to_domain = SignalToDomain(settings.schema)
        /\ cfg.exprs = CompiledExprs(ExpressionMap(settings))
        /\ cfg.signal_name_to_id = IdByPlace(settings.signal_id_names)
    BY <1>1 DEF build_config, AliasMap, ExpressionMap
  <2>3. cfg.router = configure(settings.domains, AliasMap(settings))
    BY <2>1, <2>2
  <2> QED
    BY <1>1, <1>3, <2>2, <2>3 DEF TablesOf
<1> QED
  BY <1>1, <1>3, <1>4

(* What a message decodes to.                                              *)
LEMMA DecodedSignals ==
  ASSUME Ready, cfg # None, NEW m
  PROVE  LET sigs == Signals(settings, m)
             decoded == decode(cfg.msg_map, m.id, data_arr(m))
             n == Len(Signals(settings, m))
         IN  /\ IsSeq(sigs) /\ n \in Nat /\ DOMAIN sigs = 1 .. n /\ n < UInt32
             /\ ~Decodable(cfg.msg_map, m.id) => sigs = <<>>
             /\ Decodable(cfg.msg_map, m.id) =>
                   /\ IsSeq(decoded) /\ Len(decoded) = n /\ DOMAIN decoded = 1 .. n
                   /\ \A k \in 1 .. n :
                         decoded[k] = [name |-> sigs[k].name, value |-> Physical(sigs[k], Padded(m))]
<1> DEFINE sigs == Signals(settings, m)
           decoded == decode(cfg.msg_map, m.id, data_arr(m))
           n == Len(sigs)
           ms == settings.dbc.messages
           matching == {i \in DOMAIN ms : ms[i].id = m.id}
<1>1. cfg.msg_map = build_map(ms) /\ WellFormed(settings)
  BY SettingsWellFormed DEF build_config
<1>2. /\ Decodable(cfg.msg_map, m.id) => cfg.msg_map[m.id] = sigs
      /\ ~Decodable(cfg.msg_map, m.id) => sigs = <<>>
  BY <1>1, MessageSignals
<1>3. IsSeq(sigs) /\ Len(sigs) < UInt32
  <2>1. CASE matching = {}
    <3>1. sigs = <<>>
      BY <2>1 DEF Signals
    <3>2. IsSeq(<<>>) /\ Len(<<>>) = 0
      BY DEF IsSeq
    <3> HIDE DEF sigs
    <3> QED
      BY <3>1, <3>2, Ranges
  <2>2. CASE matching # {}
    <3>1. DOMAIN ms = 1 .. Len(ms) /\ Len(ms) \in Nat
      BY SettingsLists, IsSeqList DEF Ready
    <3>2. matching \subseteq Nat
      BY <3>1
    <3>3. Min(matching) \in matching
      <4> HIDE DEF matching
      <4> QED
        BY <2>2, <3>2, MinInSet
    <3>4. Min(matching) \in DOMAIN ms /\ sigs = ms[Min(matching)].signals
      BY <2>2, <3>3 DEF Signals
    <3> HIDE DEF sigs, matching
    <3> QED
      BY <3>4, SettingsLists DEF Ready
  <2> QED
    BY <2>1, <2>2
<1> HIDE DEF sigs
<1>4. n \in Nat /\ DOMAIN sigs = 1 .. n
  BY <1>3, IsSeqList
<1>5. ASSUME Decodable(cfg.msg_map, m.id)
      PROVE  /\ IsSeq(decoded) /\ Len(decoded) = n /\ DOMAIN decoded = 1 .. n
             /\ \A k \in 1 .. n :
                   decoded[k] = [name |-> sigs[k].name, value |-> Physical(sigs[k], Padded(m))]
  <2>1. data_arr(m) = Padded(m)
    BY DEF data_arr, Padded
  <2> DEFINE item(k) == [name |-> sigs[k].name, value |-> Physical(sigs[k], Padded(m))]
  <2>2. decoded = [k \in 1 .. n |-> item(k)]
    BY <1>2, <1>4, <1>5, <2>1 DEF decode
  <2> HIDE DEF decoded, n
  <2>3. DOMAIN decoded = 1 .. n /\ \A k \in 1 .. n : decoded[k] = item(k)
    BY <2>2
  <2>4. decoded \in [1 .. n -> Range(decoded)]
    BY <2>2, <2>3 DEF Range
  <2>5. decoded \in Seq(Range(decoded)) /\ Len(decoded) = n
    BY <1>4, <2>3, <2>4
  <2> QED
    BY <2>3, <2>5 DEF IsSeq
<1> QED
  BY <1>2, <1>3, <1>4, <1>5 DEF sigs

(* A pass of the loop makes of the groups of the places before k those of  *)
(* the places up to k.                                                     *)
LEMMA GroupedNext ==
  ASSUME Ready, cfg # None, IdsInRange,
         NEW n \in Nat, DOMAIN Signals(settings, ros_frame) = 1 .. n, NEW k \in 1 .. n,
         groups = GroupsWithout(k .. n)
  PROVE  LET s == Signals(settings, ros_frame)[k]
             res == resolve_signal(s.name, ros_frame.id, cfg.router, cfg.signal_to_domain)
             v == transform(cfg.exprs, res.name, Physical(s, Padded(ros_frame)))
         IN  /\ res.domain = kUnassignedDomain => GroupsWithout(k + 1 .. n) = groups
             /\ res.domain # kUnassignedDomain =>
                    GroupsWithout(k + 1 .. n) = GroupedIn(res.domain, res.name, v)
<1> DEFINE p == settings
           m == ros_frame
           s == Signals(p, m)[k]
           res == resolve_signal(s.name, m.id, cfg.router, cfg.signal_to_domain)
           v == transform(cfg.exprs, res.name, Physical(s, Padded(m)))
           name == NameAt(p, m, k)
           old == k .. n
           new == k + 1 .. n
           D(places) == {e \in DomainNames(p) : InDomain(p, m, places, e) # <<>>}
           G(places, d) == [ header |-> [stamp |-> m.stamp, frame_id |-> ""], domain |-> d,
                             signals |-> InDomain(p, m, places, d) ]
<1>1. HandledAsMeant(p, cfg, m, k)
  BY SettingsWellFormed, SignalMeant
<1>2. /\ res.domain # kUnassignedDomain => AssignedTo(p, m.id, name, res.domain)
      /\ \A d : AssignedTo(p, m.id, name, d) => d = res.domain
      /\ SignalMsg(res.name, v) = SignalAt(p, m, k)
  BY <1>1 DEF HandledAsMeant, SignalMsg
<1>3. ASSUME NEW d
      PROVE  /\ AssignedTo(p, m.id, name, d) =>
                    InDomain(p, m, new, d) = Append(InDomain(p, m, old, d), SignalAt(p, m, k))
             /\ ~AssignedTo(p, m.id, name, d) => InDomain(p, m, new, d) = InDomain(p, m, old, d)
             /\ Append(InDomain(p, m, old, d), SignalAt(p, m, k)) # <<>>
  <2>1. old = Remaining({}, k, n) /\ new = Remaining({}, k + 1, n) /\ Failed({}, k)
    BY DEF Remaining, Failed
  <2> HIDE DEF old, new, p, m
  <2> QED
    BY <2>1, NextInDomain DEF p, m
<1>4. \A d : AssignedTo(p, m.id, name, d) => d \in DomainNames(p) /\ d # kUnassignedDomain
  BY DEF AssignedTo, DomainNames
<1> HIDE DEF res, v, name
<1>5. ASSUME NEW places
      PROVE  /\ GroupsWithout(places) = [d \in D(places) |-> G(places, d)]
             /\ DOMAIN GroupsWithout(places) = D(places)
             /\ \A d \in D(places) : GroupsWithout(places)[d] = G(places, d)
  BY DEF GroupsWithout
<1>6. groups = GroupsWithout(old)
  OBVIOUS
<1> HIDE DEF old, new
<1>7. CASE res.domain = kUnassignedDomain
  <2>1. \A d : InDomain(p, m, new, d) = InDomain(p, m, old, d)
    BY <1>2, <1>3, <1>4, <1>7
  <2>2. D(new) = D(old) /\ \A d \in D(new) : G(new, d) = G(old, d)
    BY <2>1
  <2> HIDE DEF D, G
  <2>3. [d \in D(new) |-> G(new, d)] = [d \in D(old) |-> G(old, d)]
    BY <2>2
  <2> QED
    BY <1>5, <1>6, <1>7, <2>3 DEF res, v, new, old
<1>8. CASE res.domain # kUnassignedDomain
  <2> DEFINE d0 == res.domain
             g == GroupedIn(d0, res.name, v)
  <2>1. AssignedTo(p, m.id, name, d0) /\ \A d : AssignedTo(p, m.id, name, d) => d = d0
    BY <1>2, <1>8
  <2>2. d0 \in DomainNames(p)
    BY <1>4, <2>1
  <2> HIDE DEF d0
  <2>3. /\ InDomain(p, m, new, d0) = Append(InDomain(p, m, old, d0), SignalAt(p, m, k))
        /\ InDomain(p, m, new, d0) # <<>>
        /\ \A d : d # d0 => InDomain(p, m, new, d) = InDomain(p, m, old, d)
    BY <1>3, <2>1
  <2>4. D(new) = D(old) \cup {d0}
    BY <2>2, <2>3
  <2>5. DOMAIN g = D(new)
    <3>1. DOMAIN g = DOMAIN groups \cup {d0}
      <4> DEFINE nm == res.name
      <4> HIDE DEF nm
      <4>1. DOMAIN GroupedIn(d0, nm, v) = DOMAIN groups \cup {d0}
        BY GroupedDomain
      <4> QED
        BY <4>1 DEF nm
    <3> HIDE DEF g, D
    <3> QED
      BY <1>5, <1>6, <2>4, <3>1
  <2>6. ASSUME NEW d \in D(new) PROVE g[d] = G(new, d)
    <3>1. CASE d # d0
      <4>1. d \in D(old) /\ d \in DOMAIN groups /\ groups[d] = G(old, d)
        BY <1>5, <1>6, <2>4, <3>1
      <4>2. g[d] = groups[d]
        BY <3>1, <4>1 DEF GroupedIn, Over
      <4>3. G(new, d) = G(old, d)
        BY <2>3, <3>1
      <4> HIDE DEF g, G
      <4> QED
        BY <4>1, <4>2, <4>3
    <3>2. CASE d = d0
      <4>1. g[d0] = [GroupFor(d0) EXCEPT !.signals = Append(@, SignalAt(p, m, k))]
        BY <1>2 DEF GroupedIn, Over
      <4>2. GroupFor(d0) = G(old, d0)
        <5>1. CASE d0 \in DOMAIN groups
          <6>1. GroupFor(d0) = groups[d0]
            BY <5>1 DEF GroupFor
          <6>2. groups[d0] = G(old, d0)
            BY <1>5, <1>6, <5>1
          <6> QED
            BY <6>1, <6>2
        <5>2. CASE d0 \notin DOMAIN groups
          <6>1. InDomain(p, m, old, d0) = <<>>
            BY <1>5, <1>6, <2>2, <5>2
          <6> QED
            BY <5>2, <6>1 DEF GroupFor
        <5> QED
          BY <5>1, <5>2
      <4>3. [G(old, d0) EXCEPT !.signals = Append(@, SignalAt(p, m, k))] = G(new, d0)
        <5> DEFINE q == InDomain(p, m, old, d0)
                   h == [stamp |-> ros_frame.stamp, frame_id |-> ""]
                   x == SignalAt(p, m, k)
        <5>1. G(old, d0) = [header |-> h, domain |-> d0, signals |-> q]
          OBVIOUS
        <5>2. G(new, d0) = [header |-> h, domain |-> d0, signals |-> Append(q, x)]
          BY <2>3
        <5> HIDE DEF q, h, x, G
        <5>3. [[header |-> h, domain |-> d0, signals |-> q] EXCEPT !.signals = Append(@, x)] =
                  [header |-> h, domain |-> d0, signals |-> Append(q, x)]
          OBVIOUS
        <5> QED
          BY <5>1, <5>2, <5>3 DEF x
      <4> HIDE DEF g, G
      <4> QED
        BY <3>2, <4>1, <4>2, <4>3
    <3> QED
      BY <3>1, <3>2
  <2>7. g = [d \in D(new) |-> G(new, d)]
    <3>1. g = [d \in DOMAIN g |-> g[d]]
      BY DEF GroupedIn, Over
    <3> HIDE DEF g, D, G
    <3> QED
      BY <2>5, <2>6, <3>1
  <2>8. GroupsWithout(new) = g
    <3> HIDE DEF g, D, G
    <3> QED
      BY <1>5, <2>7
  <2> QED
    BY <1>8, <2>8 DEF d0, res, v, new
<1> QED
  BY <1>7, <1>8 DEF res, v

--------------------------------------------------------------------------------
(* At a frame.                                                             *)
AtFrame(k) ==
    LET decoded == decode(cfg.msg_map, ros_frame.id, data_arr(ros_frame))
        n == Len(decoded)
    IN  /\ k \in 0 .. n
        /\ todo = SubSeq(decoded, k + 1, n)
        /\ IdsInRange => groups = GroupsWithout(k + 1 .. n)

FrameRead ==
    /\ reader \in DOMAIN bag.messages
    /\ bag.messages[reader].topic = settings.can_topic
    /\ bag.messages[reader].data = ros_frame /\ ros_frame # Malformed
    /\ Decodable(cfg.msg_map, ros_frame.id)

(* FrameInv in two parts.                                                  *)
LEMMA FrameInvSplit ==
  FrameInv <=>
    /\ pc \notin {"signals", "failed"} => todo = <<>>
    /\ pc \in {"signals", "write_groups"} => FrameRead /\ \E k : AtFrame(k)
  BY DEF FrameInv, FrameRead, AtFrame

(* Before the first of its signals, a frame has no groups.                 *)
LEMMA FrameStart ==
  ASSUME Ready, cfg # None, NEW m, Decodable(cfg.msg_map, m.id)
  PROVE  LET decoded == decode(cfg.msg_map, m.id, data_arr(m))
             n == Len(decoded)
         IN  /\ n \in Nat /\ decoded = SubSeq(decoded, 1, n)
             /\ \A d : InDomain(settings, m, 1 .. n, d) = <<>>
<1> DEFINE decoded == decode(cfg.msg_map, m.id, data_arr(m))
           n == Len(Signals(settings, m))
<1>1. /\ n \in Nat /\ DOMAIN Signals(settings, m) = 1 .. n
      /\ IsSeq(decoded) /\ Len(decoded) = n
  BY DecodedSignals
<1>2. SubSeq(decoded, 1, n) = decoded
  <2>1. decoded \in Seq(Range(decoded))
    BY <1>1 DEF IsSeq
  <2> HIDE DEF decoded
  <2> QED
    BY <1>1, <2>1, SubSeqFull
<1>3. \A d : InDomain(settings, m, 1 .. n, d) = <<>>
  BY <1>1, NothingInDomain
<1> QED
  BY <1>1, <1>2, <1>3

(* A pass of the loop handles the next signal.                             *)
LEMMA FrameStep ==
  ASSUME Ready, cfg # None, Decodable(cfg.msg_map, ros_frame.id), TypeOK', NEW k, AtFrame(k),
         process_signal
  PROVE  AtFrame(k + 1)'
<1> DEFINE m == ros_frame
           sigs == Signals(settings, m)
           decoded == decode(cfg.msg_map, m.id, data_arr(m))
           n == Len(sigs)
           s == sigs[k + 1]
<1>1. /\ n \in Nat /\ DOMAIN sigs = 1 .. n /\ IsSeq(decoded) /\ Len(decoded) = n
      /\ \A j \in 1 .. n : decoded[j] = [name |-> sigs[j].name, value |-> Physical(sigs[j], Padded(m))]
  BY DecodedSignals
<1>2. /\ k \in 0 .. n /\ todo = SubSeq(decoded, k + 1, n) /\ todo # <<>> /\ todo' = Tail(todo)
      /\ UNCHANGED <<cfg, settings, ros_frame>>
      /\ IdsInRange => groups = GroupsWithout(k + 1 .. n)
  BY <1>1 DEF AtFrame, process_signal, Given
<1>3. k + 1 \in 1 .. n /\ n \in k + 1 .. n
  <2> HIDE DEF decoded, n
  <2>1. SUFFICES ASSUME k = n PROVE FALSE
    BY <1>1, <1>2
  <2>2. SubSeq(decoded, k + 1, n) = <<>>
    <3>1. k + 1 \in Int /\ n \in Int /\ n < k + 1
      BY <1>1, <2>1
    <3> QED
      BY <3>1, SubSeqEmpty
  <2> QED
    BY <1>2, <2>2
<1>4. Head(todo) = decoded[k + 1] /\ todo' = SubSeq(decoded, k + 1 + 1, n)
  <2>1. decoded \in Seq(Range(decoded))
    BY <1>1 DEF IsSeq
  <2> DEFINE j == k + 1
  <2>2. j \in 1 .. n /\ n \in j .. n
    BY <1>3
  <2> HIDE DEF decoded, n, j
  <2>3. Head(SubSeq(decoded, j, n)) = decoded[j] /\ Tail(SubSeq(decoded, j, n)) = SubSeq(decoded, j + 1, n)
    BY <1>1, <2>1, <2>2, HeadTailOfSubSeq
  <2> QED
    BY <1>2, <2>3 DEF j
<1>5. Head(todo).name = s.name /\ Head(todo).value = Physical(s, Padded(m))
  <2> HIDE DEF decoded, n
  <2>1. decoded[k + 1] = [name |-> s.name, value |-> Physical(s, Padded(m))]
    BY <1>1, <1>3
  <2> HIDE DEF s
  <2> QED
    BY <1>4, <2>1
<1>6. IdsInRange => groups' = GroupsWithout(k + 1 + 1 .. n)
  <2> SUFFICES ASSUME IdsInRange PROVE groups' = GroupsWithout(k + 1 + 1 .. n)
    OBVIOUS
  <2> DEFINE res == resolve_signal(s.name, m.id, cfg.router, cfg.signal_to_domain)
             v == transform(cfg.exprs, res.name, Physical(s, Padded(m)))
  <2>1. /\ res.domain = kUnassignedDomain => groups' = groups
        /\ res.domain # kUnassignedDomain => groups' = GroupedIn(res.domain, res.name, v)
    <3> DEFINE raw == Head(todo)
    <3> HIDE DEF raw, s
    <3>1. Resolution(raw) = res /\ raw.value = Physical(s, Padded(m))
      BY <1>5 DEF Resolution, raw
    <3> HIDE DEF res
    <3> QED
      BY <3>1 DEF process_signal, GroupedIn, raw
  <2>2. /\ res.domain = kUnassignedDomain => GroupsWithout(k + 1 + 1 .. n) = groups
        /\ res.domain # kUnassignedDomain => GroupsWithout(k + 1 + 1 .. n) = GroupedIn(res.domain, res.name, v)
    <3> DEFINE j == k + 1
    <3>1. j \in 1 .. n /\ groups = GroupsWithout(j .. n)
      BY <1>2, <1>3
    <3> HIDE DEF j
    <3> QED
      BY <1>1, <3>1, GroupedNext DEF j
  <2> QED
    BY <2>1, <2>2
<1>8. IdsInRange' <=> IdsInRange
  BY <1>2 DEF IdsInRange
<1>9. decoded' = decoded
  BY <1>2 DEF data_arr
<1> HIDE DEF decoded, n
<1>10. AtFrame(k + 1)' <=>
          /\ k + 1 \in 0 .. Len(decoded)
          /\ todo' = SubSeq(decoded, k + 1 + 1, Len(decoded))
          /\ IdsInRange' => groups' = GroupsWithout(k + 1 + 1 .. Len(decoded))'
  BY <1>9 DEF AtFrame, decoded
<1>11. GroupsWithout(k + 1 + 1 .. Len(decoded))' = GroupsWithout(k + 1 + 1 .. Len(decoded))
  BY <1>2, <1>9 DEF GroupsWithout
<1> QED
  BY <1>1, <1>3, <1>4, <1>6, <1>8, <1>10, <1>11

(* Every step keeps FrameInv: a frame is decoded, its signals are handled  *)
(* in their order, and the groups are what the signals so far mean.        *)
LEMMA FrameNext == Ready /\ TopicsInv /\ FrameInv /\ TypeOK' /\ [Next]_vars => FrameInv'
<1> SUFFICES ASSUME Ready, TopicsInv, FrameInv, TypeOK', [Next]_vars PROVE FrameInv'
  OBVIOUS
<1>1. /\ pc \notin {"signals", "failed"} => todo = <<>>
      /\ pc \in {"signals", "write_groups"} => cfg # None /\ FrameRead /\ \E k : AtFrame(k)
  BY FrameInvSplit DEF TopicsInv
<1> SUFFICES /\ pc' \notin {"signals", "failed"} => todo' = <<>>
             /\ pc' \in {"signals", "write_groups"} => FrameRead' /\ \E k : AtFrame(k)'
  BY DEF FrameInv, FrameRead, AtFrame
<1>2. CASE pc' \notin {"signals", "write_groups"} /\ UNCHANGED todo /\ (pc' = "failed" \/ pc \notin {"signals", "failed"})
  BY <1>1, <1>2
<1>3. ASSUME UNCHANGED <<cfg, settings, bag, reader, ros_frame>>
      PROVE  FrameRead' <=> FrameRead
  BY <1>3 DEF FrameRead
<1>4. ASSUME UNCHANGED <<cfg, settings, bag, ros_frame, todo, groups>>, NEW k
      PROVE  AtFrame(k)' <=> AtFrame(k)
  BY <1>4 DEF AtFrame, IdsInRange, GroupsWithout, data_arr
<1>5. CASE UNCHANGED <<pc, cfg, settings, bag, reader, ros_frame, todo, groups>>
  BY <1>1, <1>3, <1>4, <1>5
<1>6. CASE end_of_signals
  BY <1>1, <1>3, <1>4, <1>6 DEF end_of_signals, Given
<1>7. CASE process_signal
  <2>1. UNCHANGED <<pc, cfg, settings, bag, reader, ros_frame>> /\ pc = "signals"
    BY <1>7 DEF process_signal, Given
  <2>2. PICK k : AtFrame(k)
    BY <1>1, <2>1
  <2>3. AtFrame(k + 1)'
    BY <1>1, <1>7, <2>1, <2>2, FrameStep DEF FrameRead
  <2> QED
    BY <1>1, <1>3, <2>1, <2>3
<1>8. CASE read_frame
  <2>1. /\ pc = "next_message" /\ UNCHANGED <<cfg, settings, bag>> /\ reader' = reader + 1
        /\ ros_frame' = bag_msg.data /\ bag_msg.data # Malformed /\ bag_msg.topic = cfg.can_topic
        /\ reader < Len(bag.messages)
    BY <1>8 DEF read_frame, Given
  <2>2. CASE ~Decodable(cfg.msg_map, bag_msg.data.id)
    BY <1>1, <1>8, <2>1, <2>2 DEF read_frame
  <2>3. CASE Decodable(cfg.msg_map, bag_msg.data.id)
    <3>1. /\ groups' = <<>> /\ pc' = "signals"
          /\ todo' = decode(cfg.msg_map, bag_msg.data.id, data_arr(bag_msg.data))
      BY <1>8, <2>3 DEF read_frame, ClearGroups
    <3>2. cfg # None /\ cfg.can_topic = settings.can_topic
      BY <2>1, SettingsWellFormed DEF TopicsInv, build_config
    <3>3. FrameRead'
      <4>1. reader + 1 \in DOMAIN bag.messages
        BY <2>1, InputType DEF Ready, Start, TypeOK
      <4> QED
        BY <2>1, <2>3, <3>2, <4>1 DEF FrameRead, bag_msg
    <3>4. AtFrame(0)'
      <4> DEFINE m == bag_msg.data
                 decoded == decode(cfg.msg_map, m.id, data_arr(m))
                 n == Len(decoded)
      <4>1. /\ n \in Nat /\ decoded = SubSeq(decoded, 1, n)
            /\ \A d : InDomain(settings, m, 1 .. n, d) = <<>>
        <5> HIDE DEF m
        <5> QED
          BY <2>3, <3>2, FrameStart DEF m
      <4> DEFINE here == decode(cfg.msg_map, ros_frame.id, data_arr(ros_frame))
      <4>2. here' = decoded
        BY <2>1 DEF data_arr
      <4>3. ros_frame' = m /\ settings' = settings /\ todo' = decoded /\ groups' = <<>>
        BY <2>1, <3>1
      <4> HIDE DEF decoded, m, here
      <4>4. GroupsWithout(1 .. Len(here))' = <<>>
        <5> DEFINE f == GroupsWithout(1 .. Len(here))'
        <5>1. {e \in DomainNames(settings) : InDomain(settings, m, 1 .. n, e) # <<>>} = {}
          BY <4>1
        <5>2. f = [d \in DOMAIN f |-> f[d]] /\ DOMAIN f = {}
          BY <4>2, <4>3, <5>1 DEF GroupsWithout
        <5> HIDE DEF f
        <5>3. f \in [1 .. 0 -> {}] /\ <<>> \in [1 .. 0 -> {}]
          BY <5>2
        <5> QED
          BY <5>3 DEF f
      <4>5. AtFrame(0)' <=>
                /\ 0 \in 0 .. Len(here')
                /\ todo' = SubSeq(here', 0 + 1, Len(here'))
                /\ IdsInRange' => groups' = GroupsWithout(0 + 1 .. Len(here))'
        BY DEF AtFrame, here
      <4> QED
        BY <4>1, <4>2, <4>3, <4>4, <4>5
    <3> QED
      BY <3>1, <3>3, <3>4
  <2> QED
    BY <2>2, <2>3
<1>9. CASE LoadConfig \/ Configure \/ create_topics \/ pass_through \/ transform_error
           \/ end_of_frame \/ io_error \/ finish
  BY <1>1, <1>2, <1>9 DEF LoadConfig, Configure, create_topics, pass_through, transform_error,
                         TransformThrows, end_of_frame, io_error, finish
<1>10. CASE \E domain \in DOMAIN groups : write_group(domain)
  BY <1>5, <1>10 DEF write_group, Given
<1>11. CASE Returned \/ UNCHANGED vars
  BY <1>5, <1>11 DEF Returned, vars
<1> QED
  BY <1>6, <1>7, <1>8, <1>9, <1>10, <1>11 DEF Next

(* At a frame, what is grouped is what the signals that have been handled  *)
(* mean, and the rest is still to be handled.                              *)
LEMMA SpecFrame == Spec /\ []ReadsBack => []FrameInv
<1>1. Init => FrameInv
  BY DEF Init, FrameInv
<1>2. Start => TypeOK
  BY DEF Start
<1> QED
  BY <1>1, <1>2, FrameNext, SpecReady, SpecTopics, ConversionTypeOK, PTL DEF Spec

--------------------------------------------------------------------------------
(* As many values as there are arguments, when no two have the same.       *)
LEMMA Images ==
  ASSUME NEW S, IsFiniteSet(S), NEW f, DOMAIN f = S
  PROVE  /\ IsFiniteSet({f[x] : x \in S})
         /\ (\A x, y \in S : f[x] = f[y] => x = y) => Cardinality({f[x] : x \in S}) = Cardinality(S)
<1> DEFINE T == {f[x] : x \in S}
           g == [x \in S |-> f[x]]
<1>1. g \in [S -> T] /\ (\A t \in T : \E x \in S : g[x] = t) /\ \A x \in S : g[x] = f[x]
  OBVIOUS
<1> HIDE DEF T, g
<1>2. g \in Surjection(S, T)
  <2>1. g \in [S -> T] /\ \A t \in T : \E s \in S : g[s] = t
    BY <1>1
  <2> QED
    BY ONLY <2>1, Fun_IsSurj
<1>3. IsFiniteSet(T)
  BY <1>2, FS_Surjection
<1>4. ASSUME \A x, y \in S : f[x] = f[y] => x = y
      PROVE  Cardinality(T) = Cardinality(S)
  <2>1. \A x, y \in S : g[x] = g[y] => x = y
    BY <1>1, <1>4
  <2>2. g \in Injection(S, T)
    BY <1>1, <2>1, Fun_IsInj
  <2>3. g \in Bijection(S, T)
    BY <1>2, <2>2, Fun_IsBij
  <2>4. ExistsBijection(S, T)
    BY <2>3, Fun_ExistsBij
  <2> QED
    BY <2>4, FS_Bijection
<1> QED
  BY <1>3, <1>4 DEF T

(* Sets that are kept apart by their places are counted one by one.        *)
Tagged(T, k) == UNION {{j} \X T[j] : j \in 1 .. k}

(* The messages of the output are the sum of those of each message of the  *)
(* input.                                                                  *)
LEMMA TaggedCount ==
  ASSUME NEW T, NEW n \in Nat, \A j \in 1 .. n : IsFiniteSet(T[j])
  PROVE  /\ \A k \in 0 .. n : IsFiniteSet(Tagged(T, k)) /\ Cardinality(Tagged(T, k)) \in Nat
         /\ Cardinality(Tagged(T, 0)) = 0
         /\ \A k \in 1 .. n :
               Cardinality(Tagged(T, k)) = Cardinality(Tagged(T, k - 1)) + Cardinality(T[k])
<1>1. Tagged(T, 0) = {}
  BY DEF Tagged
<1>2. ASSUME NEW k \in 1 .. n, IsFiniteSet(Tagged(T, k - 1))
      PROVE  /\ IsFiniteSet(Tagged(T, k))
             /\ Cardinality(Tagged(T, k)) = Cardinality(Tagged(T, k - 1)) + Cardinality(T[k])
  <2> DEFINE A == Tagged(T, k - 1)
             B == {k} \X T[k]
  <2>1. Tagged(T, k) = A \cup B
    <3>1. 1 .. k = 1 .. (k - 1) \cup {k}
      OBVIOUS
    <3> QED
      BY <3>1 DEF Tagged
  <2>2. A \cap B = {}
    <3>1. \A e \in A : e[1] \in 1 .. (k - 1)
      BY DEF Tagged
    <3> QED
      BY <3>1
  <2>3. IsFiniteSet(T[k]) /\ Cardinality(T[k]) \in Nat
    BY FS_CardinalityType
  <2>4. IsFiniteSet({k}) /\ Cardinality({k}) = 1
    BY FS_Singleton
  <2>5. IsFiniteSet(B) /\ Cardinality(B) = Cardinality(T[k])
    BY <2>3, <2>4, FS_Product
  <2> HIDE DEF A, B
  <2>6. IsFiniteSet(A) /\ Cardinality(A) \in Nat
    BY <1>2, FS_CardinalityType DEF A
  <2>7. IsFiniteSet(A \cup B) /\ Cardinality(A \cup B) = Cardinality(A) + Cardinality(B) - Cardinality(A \cap B)
    BY <2>5, <2>6, FS_Union
  <2>8. Cardinality(A \cap B) = 0
    BY <2>2, FS_EmptySet
  <2> QED
    BY <2>1, <2>3, <2>5, <2>6, <2>7, <2>8 DEF A
<1> DEFINE F == {k \in 0 .. n : IsFiniteSet(Tagged(T, k))}
<1>3. \A k \in 0 .. n : k \in F
  <2>1. 0 \in F
    BY <1>1, FS_EmptySet
  <2>2. \A k \in 1 .. n : k - 1 \in F => k \in F
    BY <1>2
  <2> HIDE DEF F
  <2> QED
    BY <2>1, <2>2, UpTo
<1>4. \A k \in 0 .. n : IsFiniteSet(Tagged(T, k)) /\ Cardinality(Tagged(T, k)) \in Nat
  BY <1>3, FS_CardinalityType
<1>5. \A k \in 1 .. n : k - 1 \in 0 .. n
  OBVIOUS
<1> QED
  BY <1>1, <1>2, <1>4, <1>5, FS_EmptySet

--------------------------------------------------------------------------------
(* A domain has one topic, whatever else is configured.                    *)
LEMMA TopicOfDomain ==
  ASSUME Ready, cfg # None, NEW d \in DomainNames(settings)
  PROVE  d \in DOMAIN cfg.domain_to_topic /\ TopicsOf(settings, d) = {cfg.domain_to_topic[d]}
<1> DEFINE p == settings
           sv == [i \in DOMAIN p.schema |-> p.schema[i].topic]
           dv == [i \in DOMAIN p.domains |-> p.domains[i].topic]
           new == ByName(p.schema, sv)
           old == ByName(p.domains, dv)
           dt == cfg.domain_to_topic
<1>1. IsList(p.schema) /\ IsList(p.domains) /\ dt = Over(new, old)
  BY SettingsWellFormed DEF WellFormed, build_config, domain_to_topic
<1>2. \A q \in {p.schema, p.domains} : \A i, j \in DOMAIN q : q[i].name = q[j].name => q[i].topic = q[j].topic
  BY SettingsWellFormed DEF Agree
<1>3. /\ d \in DOMAIN new <=> \E i \in DOMAIN p.schema : p.schema[i].name = d
      /\ d \in DOMAIN old <=> \E i \in DOMAIN p.domains : p.domains[i].name = d
  <2> HIDE DEF sv, dv, p
  <2> QED
    BY <1>1, ByNameDomain
<1>4. DOMAIN dt = DOMAIN new \cup DOMAIN old /\ dt[d] = IF d \in DOMAIN new THEN new[d] ELSE old[d]
  <2> HIDE DEF new, old
  <2>1. d \in DOMAIN new \cup DOMAIN old
    BY <1>3 DEF DomainNames
  <2> QED
    BY <1>1, <2>1 DEF Over
<1>5. CASE d \in DOMAIN new
  <2>1. PICK i \in DOMAIN p.schema : p.schema[i].name = d /\ new[d] = sv[i]
    <3> HIDE DEF sv, p
    <3> QED
      BY <1>1, <1>5, ByNameHas
  <2>2. dt[d] = p.schema[i].topic
    BY <1>4, <1>5, <2>1
  <2>3. SchemaTopics(p, d) = {p.schema[i].topic}
    BY <1>2, <2>1 DEF SchemaTopics
  <2> HIDE DEF new, old, dt
  <2> QED
    BY <1>4, <1>5, <2>2, <2>3 DEF TopicsOf, dt
<1>6. CASE d \notin DOMAIN new
  <2>1. d \in DOMAIN old
    BY <1>3, <1>6 DEF DomainNames
  <2>2. PICK i \in DOMAIN p.domains : p.domains[i].name = d /\ old[d] = dv[i]
    <3> HIDE DEF dv, p
    <3> QED
      BY <1>1, <2>1, ByNameHas
  <2>3. dt[d] = p.domains[i].topic
    BY <1>4, <1>6, <2>2
  <2>4. LegacyTopics(p, d) = {p.domains[i].topic} /\ SchemaTopics(p, d) = {}
    BY <1>2, <1>3, <1>6, <2>2 DEF LegacyTopics, SchemaTopics
  <2> HIDE DEF new, old, dt
  <2> QED
    BY <1>4, <2>1, <2>3, <2>4 DEF TopicsOf, dt
<1> QED
  BY <1>5, <1>6

(* There are finitely many domains.                                        *)
LEMMA DomainsFinite ==
  ASSUME Ready
  PROVE  IsFiniteSet(DomainNames(settings))
<1> DEFINE s == settings.schema
           q == settings.domains
           A == {s[i].name : i \in DOMAIN s}
           B == {q[i].name : i \in DOMAIN q}
<1>1. Len(s) \in Nat /\ DOMAIN s = 1 .. Len(s) /\ Len(q) \in Nat /\ DOMAIN q = 1 .. Len(q)
  BY SettingsLists, IsSeqList DEF Ready
<1>2. IsFiniteSet(DOMAIN s) /\ IsFiniteSet(DOMAIN q)
  <2>1. \A n \in Nat : IsFiniteSet(1 .. n)
    BY FS_Interval
  <2> QED
    BY <1>1, <2>1
<1>3. IsFiniteSet(A)
  <2> DEFINE f == [i \in DOMAIN s |-> s[i].name]
  <2>1. A = {f[i] : i \in DOMAIN s} /\ DOMAIN f = DOMAIN s
    OBVIOUS
  <2> HIDE DEF f, A
  <2> QED
    BY <1>2, <2>1, Images
<1>4. IsFiniteSet(B)
  <2> DEFINE f == [i \in DOMAIN q |-> q[i].name]
  <2>1. B = {f[i] : i \in DOMAIN q} /\ DOMAIN f = DOMAIN q
    OBVIOUS
  <2> HIDE DEF f, B
  <2> QED
    BY <1>2, <2>1, Images
<1>5. IsFiniteSet(A \cup B)
  <2> HIDE DEF A, B
  <2> QED
    BY <1>3, <1>4, FS_Union
<1> QED
  BY <1>5 DEF DomainNames

(* What a frame is translated to: a group for every domain that has one of *)
(* its signals, under the topic of the domain.                             *)
Touched(m) == {e \in DomainNames(settings) : InDomain(settings, m, {}, e) # <<>>}
GroupRead(m, d) ==
    Meant(Group(cfg.domain_to_topic[d], d, m.stamp, InDomain(settings, m, {}, d)))

(* A frame has one group for every domain with one of its signals.         *)
LEMMA FrameTranslation ==
  ASSUME Ready, cfg # None, NEW j, bag.messages[j].topic = settings.can_topic,
         NEW m, bag.messages[j].data = m, m # Malformed
  PROVE  Translation(j) = {GroupRead(m, d) : d \in Touched(m)}
<1> DEFINE p == settings
           dt == cfg.domain_to_topic
           G(d) == Group(dt[d], d, m.stamp, InDomain(p, m, {}, d))
           all == GroupsOn(p, m, {}, LAMBDA d : TopicsOf(p, d))
<1>1. Translation(j) = {Meant(g) : g \in all}
  BY DEF Translation
<1>2. ASSUME NEW t, NEW d, NEW x, NEW q
      PROVE  LET g == Group(t, d, x, q)
             IN  g.topic = t /\ g.domain = d /\ g.signals = q
  BY DEF Group
<1>3. all = {G(d) : d \in Touched(m)}
  <2>1. \A d \in DomainNames(p) : TopicsOf(p, d) = {dt[d]}
    BY TopicOfDomain
  <2>2. ASSUME NEW g PROVE g \in all <=> g \in {G(d) : d \in Touched(m)}
    <3>1. g \in all <=>
            \E d \in DomainNames(p), t \in UNION {TopicsOf(p, e) : e \in DomainNames(p)} :
                /\ g = Group(t, d, m.stamp, InDomain(p, m, {}, d))
                /\ g.signals # <<>> /\ g.topic \in TopicsOf(p, g.domain)
      BY DEF GroupsOn
    <3>2. g \in all <=>
            \E d \in DomainNames(p), t \in UNION {TopicsOf(p, e) : e \in DomainNames(p)} :
                /\ g = Group(t, d, m.stamp, InDomain(p, m, {}, d))
                /\ InDomain(p, m, {}, d) # <<>> /\ t \in TopicsOf(p, d)
      BY <1>2, <3>1
    <3>3. g \in all <=> \E d \in DomainNames(p) : g = G(d) /\ InDomain(p, m, {}, d) # <<>>
      <4> HIDE DEF all, dt
      <4> QED
        BY <2>1, <3>2
    <3> QED
      BY <3>3 DEF Touched
  <2> QED
    BY <2>2
<1> HIDE DEF all, G
<1>4. {Meant(g) : g \in all} = {Meant(G(d)) : d \in Touched(m)}
  BY <1>3
<1> QED
  BY <1>1, <1>4 DEF GroupRead, G

(* A message of the input is translated to finitely many.                  *)
LEMMA TranslationFinite ==
  ASSUME Ready, cfg # None, NEW j
  PROVE  IsFiniteSet(Translation(j))
<1> DEFINE m == bag.messages[j].data
<1>1. CASE bag.messages[j].topic # settings.can_topic
  BY <1>1, FS_Singleton DEF Translation
<1>2. CASE bag.messages[j].topic = settings.can_topic /\ m = Malformed
  BY <1>2, FS_EmptySet DEF Translation
<1>3. CASE bag.messages[j].topic = settings.can_topic /\ m # Malformed
  <2>1. Translation(j) = {GroupRead(m, d) : d \in Touched(m)}
    BY <1>3, FrameTranslation
  <2>2. IsFiniteSet(Touched(m))
    BY DomainsFinite, FS_Subset DEF Touched
  <2> DEFINE f == [d \in Touched(m) |-> GroupRead(m, d)]
  <2>3. Translation(j) = {f[d] : d \in Touched(m)} /\ DOMAIN f = Touched(m)
    BY <2>1
  <2> HIDE DEF f, m
  <2>4. IsFiniteSet({f[d] : d \in Touched(m)})
    BY <2>2, <2>3, Images
  <2> QED
    BY <2>3, <2>4
<1> QED
  BY <1>1, <1>2, <1>3

(* How many messages of the output come from the first k of the input.     *)
LEMMA WrittenUpTo ==
  ASSUME Ready, cfg # None, NEW n \in Nat
  PROVE  /\ WrittenFor(0) = 0
         /\ \A k \in 0 .. n : WrittenFor(k) \in Nat
         /\ \A k \in 1 .. n : /\ Cardinality(Translation(k)) \in Nat
                              /\ WrittenFor(k) = WrittenFor(k - 1) + Cardinality(Translation(k))
         /\ \A k \in 0 .. n : WrittenFor(k) <= WrittenFor(n)
<1> DEFINE T == [j \in 1 .. n |-> Translation(j)]
<1>1. \A j \in 1 .. n : IsFiniteSet(Translation(j)) /\ Cardinality(Translation(j)) \in Nat
  BY TranslationFinite, FS_CardinalityType
<1>2. ASSUME NEW k \in 0 .. n PROVE WrittenFor(k) = Cardinality(Tagged(T, k))
  <2>1. \A j \in 1 .. k : T[j] = Translation(j)
    OBVIOUS
  <2>2. UNION {{j} \X Translation(j) : j \in 1 .. k} = Tagged(T, k)
    <3> HIDE DEF T
    <3> QED
      BY <2>1 DEF Tagged
  <2> QED
    BY <2>2 DEF WrittenFor
<1>3. \A j \in 1 .. n : T[j] = Translation(j)
  OBVIOUS
<1> HIDE DEF T
<1>4. /\ \A k \in 0 .. n : Cardinality(Tagged(T, k)) \in Nat
      /\ Cardinality(Tagged(T, 0)) = 0
      /\ \A k \in 1 .. n :
            Cardinality(Tagged(T, k)) = Cardinality(Tagged(T, k - 1)) + Cardinality(T[k])
  BY <1>1, <1>3, TaggedCount
<1>5. /\ WrittenFor(0) = 0
      /\ \A k \in 0 .. n : WrittenFor(k) \in Nat
      /\ \A k \in 1 .. n : WrittenFor(k) = WrittenFor(k - 1) + Cardinality(Translation(k))
  BY <1>2, <1>3, <1>4
<1>6. \A k \in 0 .. n : WrittenFor(k) <= WrittenFor(n)
  <2> DEFINE S == {i \in 0 .. n : WrittenFor(n - i) <= WrittenFor(n)}
  <2>1. 0 \in S
    BY <1>5
  <2>2. ASSUME NEW i \in 1 .. n, i - 1 \in S PROVE i \in S
    <3>1. n - i + 1 \in 1 .. n /\ n - i \in 0 .. n /\ n - i + 1 - 1 = n - i /\ n - (i - 1) = n - i + 1
      OBVIOUS
    <3>2. WrittenFor(n - i + 1) = WrittenFor(n - i) + Cardinality(Translation(n - i + 1))
      BY <1>5, <3>1
    <3>3. WrittenFor(n - i + 1) <= WrittenFor(n)
      BY <2>2, <3>1
    <3> QED
      BY <1>1, <1>5, <3>1, <3>2, <3>3
  <2> HIDE DEF S
  <2>3. \A i \in 0 .. n : i \in S
    BY <2>1, <2>2, UpTo
  <2>4. \A k \in 0 .. n : n - k \in 0 .. n /\ n - (n - k) = k
    OBVIOUS
  <2> QED
    BY <2>3, <2>4 DEF S
<1> QED
  BY <1>1, <1>5, <1>6

--------------------------------------------------------------------------------
(* The lists of a frame: as long as the list of its signals at most, and   *)
(* of the signals of the frame.                                            *)
LEMMA InDomainLists ==
  ASSUME NEW p, NEW m, NEW n \in Nat, DOMAIN Signals(p, m) = 1 .. n, NEW d
  PROVE  LET q == InDomain(p, m, {}, d)
         IN  /\ Len(q) \in 0 .. n /\ DOMAIN q = 1 .. Len(q) /\ q \in Seq(Range(q))
             /\ \A i \in 1 .. Len(q) : \E k \in 1 .. n : q[i] = SignalAt(p, m, k)
<1> DEFINE q == InDomain(p, m, {}, d)
           f == SignalsAt(p, m, n)
           P == AssignedPlaces(p, m, n, d)
           S == Chosen(n, P, {})
           c == Cardinality(S)
<1>1. q = Listed(n, P, f, {}) /\ \A k \in 1 .. n : f[k] = SignalAt(p, m, k)
  <2>1. q = Listed(n, P, f, {})
    BY ListsOfFrame
  <2> QED
    BY <2>1 DEF SignalsAt
<1> HIDE DEF P, f, q
<1>2. S \in SUBSET Int /\ IsFiniteSet(S) /\ S \subseteq 1 .. n
  BY ChosenFinite
<1> HIDE DEF S
<1>3. c \in Nat /\ DOMAIN InOrder(S) = 1 .. c /\ \A i \in 1 .. c : InOrder(S)[i] \in S
  BY <1>2, InOrderType
<1>4. c <= n
  <2>1. IsFiniteSet(1 .. n) /\ Cardinality(1 .. n) = n
    BY FS_Interval
  <2> QED
    BY <1>2, <2>1, FS_Subset
<1>5. q = [i \in 1 .. c |-> f[InOrder(S)[i]]]
  BY <1>1, <1>3 DEF Listed, S
<1> HIDE DEF c
<1>6. DOMAIN q = 1 .. c /\ \A i \in 1 .. c : \E k \in 1 .. n : q[i] = SignalAt(p, m, k)
  BY <1>1, <1>2, <1>3, <1>5
<1>7. q \in [1 .. c -> Range(q)]
  BY <1>5, <1>6 DEF Range
<1>8. q \in Seq(Range(q)) /\ Len(q) = c
  BY <1>3, <1>6, <1>7
<1> QED
  BY <1>3, <1>4, <1>6, <1>8 DEF q

--------------------------------------------------------------------------------
(* The group of a domain fits the message that is written of it.           *)
GroupAt(m, d) ==
    [ header |-> [stamp |-> m.stamp, frame_id |-> ""], domain |-> d,
      signals |-> InDomain(settings, m, {}, d) ]

(* Ids, floats, names and lengths fit the fields of the message.           *)
LEMMA GroupFits ==
  ASSUME Ready, cfg # None, FrameRead, NEW d \in DomainNames(settings)
  PROVE  Fits(GroupAt(ros_frame, d))
<1> DEFINE p == settings
           m == ros_frame
           q == InDomain(p, m, {}, d)
           n == Len(Signals(p, m))
<1>1. PICK i \in Inputs : settings = i.settings /\ bag = i.bag
  BY DEF Ready, Start, FromInput
<1>2. bag.messages[reader] \in Range(bag.messages)
  BY DEF FrameRead, Range
<1>3. m.stamp \in [sec : -(UInt32 \div 2) .. UInt32 \div 2 - 1, nanosec : 0 .. UInt32 - 1]
  BY <1>1, <1>2, BagAssumption DEF FrameRead
<1>4. 0 .. Base - 1 \subseteq Nat
  BY BufferAssumption
<1>5. ASSUME NEW s \in DomainNames(p) \cup {""} PROVE FitsString(s)
  <2>1. Codes(s) \in Seq(0 .. Base - 1) /\ Len(Codes(s)) + 1 < UInt32
    BY <1>1, CodeAssumption
  <2>2. Codes(s) \in Seq(Nat)
    BY <1>4, <2>1, SeqMonotonic
  <2> QED
    BY <2>1, <2>2 DEF FitsString, Buffer
<1>6. n \in Nat /\ DOMAIN Signals(p, m) = 1 .. n /\ n < UInt32
  BY DecodedSignals
<1>7. Len(q) \in 0 .. n /\ \A j \in 1 .. Len(q) : \E k \in 1 .. n : q[j] = SignalAt(p, m, k)
  BY <1>6, InDomainLists
<1>8. ASSUME NEW k \in 1 .. n PROVE FitsSignal(SignalAt(p, m, k))
  <2> DEFINE ids == {j \in DOMAIN p.signal_id_names : p.signal_id_names[j] = NameAt(p, m, k)}
             s == SignalAt(p, m, k)
  <2>1. s.name_id = IF ids = {} THEN 0 ELSE Max(ids)
    BY DEF SignalAt
  <2>2. /\ DOMAIN p.signal_id_names = 1 .. Len(p.signal_id_names) /\ Len(p.signal_id_names) \in Nat
        /\ Len(p.signal_id_names) <= MaxTableId /\ MaxTableId < UInt16
        /\ MaxTableId \in Nat
    <3>1. IsSeq(p.signal_id_names)
      BY SettingsLists DEF Ready
    <3>2. Len(p.signal_id_names) <= MaxTableId
      BY DEF Ready, ConfigInv, Accepted
    <3> QED
      BY <3>1, <3>2, IsSeqList, CodeAssumption, ParameterAssumption
  <2>3. s.name_id \in 0 .. UInt16 - 1
    <3>1. CASE ids = {}
      BY <2>1, <3>1, Ranges
    <3>2. CASE ids # {}
      <4>1. ids \subseteq 1 .. Len(p.signal_id_names)
        BY <2>2
      <4>2. Max(ids) \in ids
        <5> HIDE DEF ids
        <5> QED
          BY <2>2, <3>2, <4>1, MaxInSet
      <4> HIDE DEF ids, s
      <4> QED
        <5>1. s.name_id \in 1 .. Len(p.signal_id_names) /\ UInt16 \in Nat
          BY <2>1, <3>2, <4>1, <4>2, Ranges
        <5> QED
          BY <2>2, <5>1
    <3> QED
      BY <3>1, <3>2
  <2>4. FloatBits(s.value) \in 0 .. UInt32 - 1
    BY <1>1, <1>2, <1>6, CodeAssumption DEF FrameRead
  <2> QED
    BY <2>3, <2>4 DEF FitsSignal
<1>9. Len(q) \in 0 .. UInt32 - 1
  BY <1>6, <1>7, Ranges
<1> HIDE DEF q, n
<1>10. \A j \in 1 .. Len(q) : FitsSignal(q[j])
  BY <1>7, <1>8
<1> QED
  BY <1>3, <1>5, <1>9, <1>10 DEF Fits, GroupAt, q

(* What another program reads of the message that is written for a domain, *)
(* once all signals of the frame are grouped.                              *)
LEMMA MessageRead ==
  ASSUME Ready, cfg # None, FrameRead, groups = GroupsWithout({}), NEW d \in DOMAIN groups
  PROVE  d \in DOMAIN cfg.domain_to_topic /\ AsRead(out_msg(d)) = GroupRead(ros_frame, d)
<1> DEFINE m == ros_frame
           q == InDomain(settings, m, {}, d)
           t == cfg.domain_to_topic[d]
           cdr == serialize_signal_group(GroupAt(m, d), <<>>)
           meant == [ unread |-> 0,
                      message |-> [ header |-> [stamp |-> m.stamp, frame_id |-> Codes("")],
                                    domain |-> Codes(d),
                                    signals |-> [ k \in DOMAIN q |->
                                        [ name_id |-> q[k].name_id,
                                          value |-> FloatBits(q[k].value) ]] ] ]
<1>1. d \in DomainNames(settings) /\ groups[d] = GroupAt(m, d)
  BY DEF GroupsWithout, GroupAt
<1>2. d \in DOMAIN cfg.domain_to_topic
  BY <1>1, TopicOfDomain
<1>3. out_msg(d) = [topic |-> t, time_stamp |-> Nanoseconds(m.stamp), data |-> [cdr |-> cdr]]
  BY <1>1 DEF out_msg, SerializedGroup
<1>4. Read(cdr) = meant
  <2> DEFINE g == GroupAt(m, d)
  <2>1. Fits(g)
    BY <1>1, GroupFits
  <2>2. /\ g.header.stamp = m.stamp /\ g.header.frame_id = "" /\ g.domain = d /\ g.signals = q
    BY DEF GroupAt
  <2> HIDE DEF g, q
  <2>3. Read(serialize_signal_group(g, <<>>))
            = [ message |-> [ header |-> [stamp |-> m.stamp, frame_id |-> Codes("")],
                              domain |-> Codes(d),
                              signals |-> [j \in 1 .. Len(q) |-> SignalRead(q[j])] ],
                unread |-> 0 ]
    BY <2>1, <2>2, RoundTrip
  <2>4. DOMAIN q = 1 .. Len(q)
    <3>1. /\ Len(Signals(settings, m)) \in Nat
          /\ DOMAIN Signals(settings, m) = 1 .. Len(Signals(settings, m))
      BY DecodedSignals
    <3> QED
      BY <3>1, InDomainLists DEF q
  <2>5. [j \in 1 .. Len(q) |-> SignalRead(q[j])] =
            [k \in DOMAIN q |-> [name_id |-> q[k].name_id, value |-> FloatBits(q[k].value)]]
    BY <2>4 DEF SignalRead
  <2> QED
    BY <2>3, <2>5 DEF g
<1> HIDE DEF cdr, q
<1>5. AsRead(out_msg(d)) = [topic |-> t, time_stamp |-> Nanoseconds(m.stamp), data |-> meant]
  <2> DEFINE ts == Nanoseconds(m.stamp)
             w == [topic |-> t, time_stamp |-> ts, data |-> [cdr |-> cdr]]
  <2> HIDE DEF t, ts, meant
  <2>1. "cdr" \in DOMAIN w.data /\ w.data.cdr = cdr
    OBVIOUS
  <2>2. AsRead(w) = [topic |-> t, time_stamp |-> ts, data |-> Read(cdr)]
    BY <2>1 DEF AsRead
  <2> QED
    BY <1>3, <1>4, <2>2 DEF ts
<1>6. GroupRead(m, d) = [topic |-> t, time_stamp |-> Nanoseconds(m.stamp), data |-> meant]
  <2> DEFINE g == Group(t, d, m.stamp, q)
  <2>1. g.topic = t /\ g.domain = d /\ g.stamp = m.stamp /\ g.signals = q
    BY DEF Group
  <2>2. GroupRead(m, d) = Meant(g)
    BY DEF GroupRead, q
  <2> HIDE DEF g, t
  <2> QED
    BY <2>1, <2>2 DEF Meant
<1> QED
  BY <1>2, <1>5, <1>6

(* Groups of different domains read differently.                           *)
LEMMA GroupsApart ==
  ASSUME Ready, NEW m, NEW d \in DomainNames(settings), NEW e \in DomainNames(settings),
         GroupRead(m, d) = GroupRead(m, e)
  PROVE  d = e
<1>1. \A x : GroupRead(m, x).data.message.domain = Codes(x)
  BY DEF GroupRead, Meant, Group
<1>2. \E i \in Inputs : settings = i.settings
  BY DEF Ready, Start, FromInput
<1> QED
  BY <1>1, <1>2, CodeAssumption

--------------------------------------------------------------------------------
(* What is read of a list of messages, and that it translates the first    *)
(* messages of the bag.                                                    *)
ReadOf(w, from, to) == {AsRead(w[i]) : i \in from .. to}
Translates(w, k) == \A j \in 1 .. k : ReadOf(w, WrittenFor(j - 1) + 1, WrittenFor(j)) = Translation(j)

(* What a message is translated to does not change.                        *)
LEMMA TranslationKept ==
  ASSUME UNCHANGED <<settings, bag>>
  PROVE  /\ \A k : Translation(k)' = Translation(k) /\ WrittenFor(k)' = WrittenFor(k)
         /\ IdsInRange' <=> IdsInRange
<1>1. ASSUME NEW k PROVE Translation(k)' = Translation(k)
  BY DEF Translation, GroupsOn
<1>2. ASSUME NEW k PROVE WrittenFor(k)' = WrittenFor(k)
  BY <1>1 DEF WrittenFor
<1> QED
  BY <1>1, <1>2 DEF IdsInRange

(* The two say the same of the output.                                     *)
LEMMA TranslatesNow ==
  /\ Translated(reader) <=> Translates(written, reader)
  /\ Translated(reader - 1) <=> Translates(written, reader - 1)
  /\ Rest = ReadOf(written, WrittenFor(reader - 1) + 1, Len(written))
  BY DEF Translated, Translates, Output, ReadOf, Rest

(* And of the output after a step.                                         *)
LEMMA TranslatesThen ==
  ASSUME UNCHANGED <<settings, bag>>
  PROVE  /\ Translated(reader)' <=> Translates(written', reader')
         /\ Translated(reader - 1)' <=> Translates(written', reader' - 1)
         /\ WrittenFor(reader)' = WrittenFor(reader')
         /\ WrittenFor(reader - 1)' = WrittenFor(reader' - 1)
         /\ Rest' = ReadOf(written', WrittenFor(reader' - 1) + 1, Len(written'))
<1>1. \A k : Translation(k)' = Translation(k) /\ WrittenFor(k)' = WrittenFor(k)
  BY TranslationKept
<1>2. WrittenFor(reader)' = WrittenFor(reader') /\ WrittenFor(reader - 1)' = WrittenFor(reader' - 1)
  BY <1>1 DEF WrittenFor
<1>3. Translated(reader)' <=> Translates(written', reader')
  BY <1>1 DEF Translated, Translates, Output, ReadOf, AsRead
<1>4. Translated(reader - 1)' <=> Translates(written', reader' - 1)
  BY <1>1 DEF Translated, Translates, Output, ReadOf, AsRead
<1>5. Rest' = ReadOf(written', WrittenFor(reader' - 1) + 1, Len(written'))
  BY <1>2 DEF Output, ReadOf, Rest
<1> QED
  BY <1>2, <1>3, <1>4, <1>5

(* One more message of the bag.                                            *)
LEMMA TranslatesNext ==
  ASSUME Ready, cfg # None, NEW w, NEW k \in Nat
  PROVE  Translates(w, k + 1) <=>
             Translates(w, k) /\ ReadOf(w, WrittenFor(k) + 1, WrittenFor(k + 1)) = Translation(k + 1)
<1>1. 1 .. (k + 1) = 1 .. k \cup {k + 1} /\ k + 1 - 1 = k
  OBVIOUS
<1> QED
  BY <1>1 DEF Translates

(* One more message of the output.                                         *)
LEMMA TranslatesAppend ==
  ASSUME Ready, cfg # None, NEW w, IsSeq(w), NEW x, NEW k \in Nat, WrittenFor(k) <= Len(w)
  PROVE  /\ Translates(Append(w, x), k) <=> Translates(w, k)
         /\ ReadOf(Append(w, x), WrittenFor(k) + 1, Len(Append(w, x))) =
                ReadOf(w, WrittenFor(k) + 1, Len(w)) \cup {AsRead(x)}
<1> DEFINE a == Append(w, x)
<1>1. /\ Len(w) \in Nat /\ Len(a) = Len(w) + 1
      /\ \A i \in 1 .. Len(w) : a[i] = w[i]
      /\ a[Len(w) + 1] = x
  BY IsSeqList, AppendIsSeq
<1>2. /\ \A j \in 0 .. k : WrittenFor(j) \in Nat /\ WrittenFor(j) <= WrittenFor(k)
      /\ WrittenFor(k) \in Nat
  BY WrittenUpTo
<1> HIDE DEF a
<1>3. ASSUME NEW from \in Nat, NEW to \in Nat, 1 <= from, to <= Len(w)
      PROVE  ReadOf(a, from, to) = ReadOf(w, from, to)
  <2>1. \A i \in from .. to : a[i] = w[i]
    BY <1>1, <1>3
  <2> QED
    BY <2>1 DEF ReadOf
<1>4. ASSUME NEW j \in 1 .. k
      PROVE  ReadOf(a, WrittenFor(j - 1) + 1, WrittenFor(j)) = ReadOf(w, WrittenFor(j - 1) + 1, WrittenFor(j))
  <2>1. j - 1 \in 0 .. k /\ j \in 0 .. k
    OBVIOUS
  <2>2. WrittenFor(j - 1) \in Nat /\ WrittenFor(j) \in Nat /\ WrittenFor(j) <= WrittenFor(k)
    BY <1>2, <2>1
  <2> QED
    BY <1>1, <1>2, <1>3, <2>2
<1>5. Translates(a, k) <=> Translates(w, k)
  BY <1>4 DEF Translates
<1>6. ReadOf(a, WrittenFor(k) + 1, Len(w) + 1) = ReadOf(w, WrittenFor(k) + 1, Len(w)) \cup {AsRead(x)}
  <2> DEFINE f == WrittenFor(k) + 1
             n == Len(w)
  <2>1. f \in Nat /\ 1 <= f /\ n \in Nat /\ f <= n + 1
    BY <1>1, <1>2
  <2> HIDE DEF f, n
  <2>2. f .. (n + 1) = f .. n \cup {n + 1}
    BY <2>1
  <2>3. ReadOf(a, f, n + 1) = ReadOf(a, f, n) \cup {AsRead(a[n + 1])}
    BY <2>2 DEF ReadOf
  <2>4. ReadOf(a, f, n) = ReadOf(w, f, n)
    BY <1>3, <2>1 DEF n
  <2> QED
    BY <1>1, <2>3, <2>4 DEF f, n
<1> QED
  BY <1>1, <1>5, <1>6 DEF a

(* At the end of its signals, all of a frame is grouped.                   *)
LEMMA AllGrouped ==
  ASSUME Ready, cfg # None, IdsInRange, FrameRead, NEW k, AtFrame(k), todo = <<>>
  PROVE  groups = GroupsWithout({})
<1> DEFINE m == ros_frame
           decoded == decode(cfg.msg_map, m.id, data_arr(m))
           n == Len(Signals(settings, m))
<1>1. n \in Nat /\ IsSeq(decoded) /\ Len(decoded) = n
  BY DecodedSignals DEF FrameRead
<1>2. k \in 0 .. n /\ SubSeq(decoded, k + 1, n) = <<>> /\ groups = GroupsWithout(k + 1 .. n)
  BY <1>1 DEF AtFrame
<1> HIDE DEF decoded, n
<1>3. k = n
  <2> SUFFICES ASSUME k # n PROVE FALSE
    OBVIOUS
  <2>1. k + 1 \in 1 .. n /\ n \in k + 1 .. n /\ n <= Len(decoded)
    BY <1>1, <1>2
  <2>2. decoded \in Seq(Range(decoded))
    BY <1>1 DEF IsSeq
  <2>3. Len(SubSeq(decoded, k + 1, n)) = n - k
    <3> DEFINE j == k + 1
    <3>1. j \in 1 .. Len(decoded) + 1 /\ n \in j - 1 .. Len(decoded) /\ n - j + 1 = n - k
      BY <1>1, <1>2, <2>1
    <3> HIDE DEF j
    <3>2. Len(SubSeq(decoded, j, n)) = n - j + 1
      BY <2>2, <3>1, SubSeqProperties
    <3> QED
      BY <3>1, <3>2 DEF j
  <2>4. Len(<<>>) = 0
    OBVIOUS
  <2> QED
    BY <1>1, <1>2, <2>3, <2>4
<1>4. n + 1 .. n = {}
  BY <1>1
<1> QED
  BY <1>2, <1>3, <1>4

(* The messages of a frame that is grouped, as they are read.              *)
LEMMA FrameWritten ==
  ASSUME Ready, cfg # None, FrameRead, groups = GroupsWithout({})
  PROVE  /\ \A d \in DOMAIN groups : d \in DOMAIN cfg.domain_to_topic
         /\ Translation(reader) = {AsRead(out_msg(d)) : d \in DOMAIN groups}
         /\ \A S \in SUBSET DOMAIN groups :
               IsFiniteSet(S) /\ Cardinality({AsRead(out_msg(d)) : d \in S}) = Cardinality(S)
<1> DEFINE m == ros_frame
           D == DOMAIN groups
<1>1. D = Touched(m) /\ D \subseteq DomainNames(settings)
  BY DEF GroupsWithout, Touched
<1>2. \A d \in D : d \in DOMAIN cfg.domain_to_topic /\ AsRead(out_msg(d)) = GroupRead(m, d)
  BY MessageRead
<1>3. Translation(reader) = {GroupRead(m, d) : d \in Touched(m)}
  BY FrameTranslation DEF FrameRead
<1> HIDE DEF D
<1>4. Translation(reader) = {AsRead(out_msg(d)) : d \in D}
  BY <1>1, <1>2, <1>3
<1>5. ASSUME NEW S \in SUBSET D
      PROVE  IsFiniteSet(S) /\ Cardinality({AsRead(out_msg(d)) : d \in S}) = Cardinality(S)
  <2> DEFINE f == [d \in S |-> GroupRead(m, d)]
  <2>1. S \in SUBSET DomainNames(settings) /\ IsFiniteSet(S)
    <3>1. S \in SUBSET DomainNames(settings)
      BY <1>1
    <3> QED
      BY <3>1, DomainsFinite, FS_Subset
  <2>2. \A d, e \in S : f[d] = f[e] => d = e
    <3>1. \A d, e \in DomainNames(settings) : GroupRead(m, d) = GroupRead(m, e) => d = e
      BY GroupsApart
    <3> QED
      BY <2>1, <3>1
  <2>3. {AsRead(out_msg(d)) : d \in S} = {f[d] : d \in S} /\ DOMAIN f = S
    BY <1>2
  <2> HIDE DEF f
  <2>4. Cardinality({f[d] : d \in S}) = Cardinality(S)
    BY <2>1, <2>2, <2>3, Images
  <2> QED
    BY <2>1, <2>3, <2>4
<1> QED
  BY <1>2, <1>4, <1>5 DEF D

--------------------------------------------------------------------------------
(* A message that passes through.                                          *)
LEMMA PassedThrough ==
  ASSUME Ready, cfg # None, reader < Len(bag.messages), bag_msg.topic # cfg.can_topic,
         Translates(written, reader), Len(written) = WrittenFor(reader)
  PROVE  LET w == Append(written, bag_msg)
         IN  Translates(w, reader + 1) /\ Len(w) = WrittenFor(reader + 1)
<1> DEFINE w == Append(written, bag_msg)
           k == reader
<1>1. k \in Nat /\ k + 1 \in DOMAIN bag.messages /\ IsSeq(written)
  BY InputType DEF Ready, Start, TypeOK
<1>2. /\ bag_msg.topic # settings.can_topic /\ bag_msg = bag.messages[k + 1]
      /\ "cdr" \notin DOMAIN bag_msg.data
  <2>1. cfg.can_topic = settings.can_topic
    BY SettingsWellFormed DEF build_config
  <2> QED
    BY <1>1, <2>1, InputType DEF bag_msg, Ready, Start
<1>3. Translation(k + 1) = {bag_msg} /\ AsRead(bag_msg) = bag_msg
  BY <1>2 DEF Translation, AsRead
<1>4. WrittenFor(k + 1) = WrittenFor(k) + 1 /\ WrittenFor(k) \in Nat
  <2>1. Cardinality(Translation(k + 1)) = 1
    BY <1>3, FS_Singleton
  <2> DEFINE n == k + 1
  <2>2. n \in Nat /\ n \in 1 .. n /\ k \in 0 .. n /\ n - 1 = k
    BY <1>1
  <2> HIDE DEF n
  <2>3. WrittenFor(n) = WrittenFor(n - 1) + Cardinality(Translation(n)) /\ WrittenFor(k) \in Nat
    BY <2>2, WrittenUpTo
  <2> QED
    BY <2>1, <2>2, <2>3 DEF n
<1>5. Len(w) = Len(written) + 1
  BY <1>1, AppendIsSeq
<1>6. /\ Translates(w, k)
      /\ ReadOf(w, WrittenFor(k) + 1, Len(w)) = ReadOf(written, WrittenFor(k) + 1, Len(written)) \cup {AsRead(bag_msg)}
  <2> DEFINE x == bag_msg
  <2> HIDE DEF x
  <2>1. WrittenFor(k) <= Len(written)
    BY <1>4
  <2>2. /\ Translates(Append(written, x), k)
        /\ ReadOf(Append(written, x), WrittenFor(k) + 1, Len(Append(written, x)))
               = ReadOf(written, WrittenFor(k) + 1, Len(written)) \cup {AsRead(x)}
    BY <1>1, <2>1, TranslatesAppend
  <2> QED
    BY <2>2 DEF x
<1>7. ReadOf(written, WrittenFor(k) + 1, Len(written)) = {}
  BY <1>4 DEF ReadOf
<1> HIDE DEF w, k
<1>8. ReadOf(w, WrittenFor(k) + 1, WrittenFor(k + 1)) = Translation(k + 1)
  BY <1>3, <1>4, <1>5, <1>6, <1>7 DEF k
<1>9. Translates(w, k + 1)
  BY <1>1, <1>6, <1>8, TranslatesNext
<1> QED
  BY <1>4, <1>5, <1>9 DEF w, k

(* A frame that leaves nothing in the output.                              *)
LEMMA NothingWritten ==
  ASSUME Ready, cfg # None, NEW k \in Nat, Translation(k + 1) = {},
         Translates(written, k), Len(written) = WrittenFor(k)
  PROVE  Translates(written, k + 1) /\ Len(written) = WrittenFor(k + 1)
<1> DEFINE n == k + 1
<1>1. n \in Nat /\ n \in 1 .. n /\ k \in 0 .. n /\ n - 1 = k
  OBVIOUS
<1>2. Cardinality(Translation(n)) = 0
  BY FS_EmptySet
<1> HIDE DEF n
<1>3. WrittenFor(n) = WrittenFor(n - 1) + Cardinality(Translation(n)) /\ WrittenFor(k) \in Nat
  BY <1>1, WrittenUpTo
<1>4. WrittenFor(n) = WrittenFor(k) /\ WrittenFor(k) \in Nat
  BY <1>1, <1>2, <1>3
<1>5. ReadOf(written, WrittenFor(k) + 1, WrittenFor(n)) = {}
  BY <1>4 DEF ReadOf
<1> QED
  BY <1>4, <1>5, TranslatesNext DEF n

(* A frame that the DBC file does not define is translated to nothing.     *)
LEMMA UnknownFrame ==
  ASSUME Ready, cfg # None, reader < Len(bag.messages), bag_msg.topic = cfg.can_topic,
         bag_msg.data # Malformed, ~Decodable(cfg.msg_map, bag_msg.data.id)
  PROVE  Translation(reader + 1) = {}
<1> DEFINE m == bag_msg.data
<1>1. bag_msg.topic = settings.can_topic /\ bag_msg = bag.messages[reader + 1]
  BY SettingsWellFormed DEF build_config, bag_msg
<1>2. Translation(reader + 1) = {GroupRead(m, d) : d \in Touched(m)}
  <2>1. PICK j : j = reader + 1
    OBVIOUS
  <2>2. bag.messages[j].topic = settings.can_topic /\ bag.messages[j].data = m /\ m # Malformed
    BY <1>1, <2>1
  <2> HIDE DEF m
  <2>3. Translation(j) = {GroupRead(m, d) : d \in Touched(m)}
    BY <2>2, FrameTranslation
  <2> QED
    BY <2>1, <2>3
<1> HIDE DEF m
<1>3. Signals(settings, m) = <<>>
  BY DecodedSignals DEF m
<1>4. ASSUME NEW d PROVE InDomain(settings, m, {}, d) = <<>>
  <2>1. DOMAIN Signals(settings, m) = 1 .. 0 /\ 0 \in Nat /\ 1 .. 0 = {}
    BY <1>3
  <2>2. InDomain(settings, m, 1 .. 0, d) = <<>>
    BY <2>1, NothingInDomain
  <2> QED
    BY <2>1, <2>2
<1> QED
  BY <1>2, <1>4 DEF Touched

(* What is written of a frame, domain by domain.                           *)
WrittenOf(D) == {AsRead(out_msg(d)) : d \in D}

(* One more group is written.                                              *)
LEMMA GroupWritten ==
  ASSUME Ready, cfg # None, FrameRead, groups = GroupsWithout({}), NEW k \in Nat,
         Translates(written, k), NEW D \in SUBSET DOMAIN groups,
         Len(written) = WrittenFor(k) + Cardinality(D),
         ReadOf(written, WrittenFor(k) + 1, Len(written)) = WrittenOf(D),
         NEW d \in DOMAIN groups \ D
  PROVE  LET w == Append(written, out_msg(d))
         IN  /\ Translates(w, k)
             /\ Len(w) = WrittenFor(k) + Cardinality(D \cup {d})
             /\ ReadOf(w, WrittenFor(k) + 1, Len(w)) = WrittenOf(D \cup {d})
<1> DEFINE x == out_msg(d)
<1>1. IsFiniteSet(D) /\ Cardinality(D) \in Nat /\ Cardinality(D \cup {d}) = Cardinality(D) + 1
  <2>1. IsFiniteSet(D)
    BY FrameWritten
  <2> QED
    BY <2>1, FS_AddElement, FS_CardinalityType
<1>2. WrittenFor(k) \in Nat /\ IsSeq(written)
  BY WrittenUpTo DEF Ready, Start, TypeOK
<1>3. WrittenOf(D \cup {d}) = WrittenOf(D) \cup {AsRead(x)}
  BY DEF WrittenOf
<1> HIDE DEF x
<1>4. Len(Append(written, x)) = Len(written) + 1
  BY <1>2, AppendIsSeq
<1>5. WrittenFor(k) <= Len(written)
  BY <1>1, <1>2
<1>6. /\ Translates(Append(written, x), k)
      /\ ReadOf(Append(written, x), WrittenFor(k) + 1, Len(Append(written, x)))
             = ReadOf(written, WrittenFor(k) + 1, Len(written)) \cup {AsRead(x)}
  BY <1>2, <1>5, TranslatesAppend
<1>7. /\ Translates(Append(written, x), k)
      /\ Len(Append(written, x)) = WrittenFor(k) + Cardinality(D \cup {d})
      /\ ReadOf(Append(written, x), WrittenFor(k) + 1, Len(Append(written, x))) = WrittenOf(D \cup {d})
  <2>1. WrittenFor(k) + Cardinality(D) + 1 = WrittenFor(k) + Cardinality(D \cup {d})
    BY <1>1, <1>2
  <2> QED
    BY <1>3, <1>4, <1>6, <2>1
<1> QED
  BY <1>7 DEF x

(* When all groups are written, the frame is translated.                   *)
LEMMA FrameEnds ==
  ASSUME Ready, cfg # None, FrameRead, groups = GroupsWithout({}),
         Translates(written, reader - 1),
         Len(written) = WrittenFor(reader - 1) + Cardinality(DOMAIN groups),
         ReadOf(written, WrittenFor(reader - 1) + 1, Len(written)) = WrittenOf(DOMAIN groups)
  PROVE  Translates(written, reader) /\ Len(written) = WrittenFor(reader)
<1> DEFINE k == reader - 1
<1>1. k \in Nat /\ k + 1 = reader /\ reader \in 1 .. reader /\ reader \in Nat
  BY InputType DEF FrameRead, Ready, Start
<1>2. Translation(reader) = WrittenOf(DOMAIN groups) /\ Cardinality(WrittenOf(DOMAIN groups)) = Cardinality(DOMAIN groups)
  <2>1. DOMAIN groups \in SUBSET DOMAIN groups
    OBVIOUS
  <2> QED
    BY <2>1, FrameWritten DEF WrittenOf
<1>3. WrittenFor(reader) = WrittenFor(reader - 1) + Cardinality(Translation(reader))
  BY <1>1, WrittenUpTo
<1>4. Len(written) = WrittenFor(reader)
  BY <1>2, <1>3
<1> HIDE DEF k
<1>5. Translates(written, k + 1)
  <2>1. ReadOf(written, WrittenFor(k) + 1, WrittenFor(k + 1)) = Translation(k + 1)
    BY <1>1, <1>2, <1>4 DEF k
  <2> QED
    BY <1>1, <2>1, TranslatesNext DEF k
<1> QED
  BY <1>1, <1>4, <1>5

--------------------------------------------------------------------------------
WrittenIfInRange == IdsInRange => WrittenInv

(* Every step keeps WrittenInv: what is written is what is left to         *)
(* translate of the message at hand, once.                                 *)
LEMMA WrittenNext ==
  Ready /\ TopicsInv /\ FrameInv /\ WrittenIfInRange /\ TypeOK' /\ [Next]_vars => WrittenIfInRange'
<1> SUFFICES ASSUME Ready, TopicsInv, FrameInv, WrittenIfInRange, TypeOK', [Next]_vars, IdsInRange'
             PROVE  WrittenInv'
  BY DEF WrittenIfInRange
<1> DEFINE Between == {"load_config", "create_topics", "next_message", "done"}
           start == WrittenFor(reader - 1)
<1>1. UNCHANGED <<settings, bag>>
  BY GivenKept DEF vars
<1>2. IdsInRange /\ WrittenInv
  BY <1>1, TranslationKept DEF WrittenIfInRange
<1>3. /\ pc \in Between => Translates(written, reader) /\ Len(written) = WrittenFor(reader)
      /\ pc = "signals" => Translates(written, reader - 1) /\ Len(written) = start
      /\ pc = "write_groups" =>
            /\ Translates(written, reader - 1)
            /\ Len(written) = start + Cardinality(DOMAIN groups \ unwritten)
            /\ ReadOf(written, start + 1, Len(written)) = WrittenOf(DOMAIN groups \ unwritten)
  BY <1>2, TranslatesNow DEF WrittenInv, WrittenOf
<1>4. SUFFICES
        /\ pc' \in Between => Translates(written', reader') /\ Len(written') = WrittenFor(reader')
        /\ pc' = "signals" => Translates(written', reader' - 1) /\ Len(written') = WrittenFor(reader' - 1)
        /\ pc' = "write_groups" =>
              /\ Translates(written', reader' - 1)
              /\ Len(written') = WrittenFor(reader' - 1) + Cardinality(DOMAIN groups' \ unwritten')
              /\ ReadOf(written', WrittenFor(reader' - 1) + 1, Len(written')) = WrittenOf(DOMAIN groups \ unwritten)'
  BY <1>1, TranslatesThen DEF WrittenInv, WrittenOf
<1>5. /\ pc \in {"next_message", "signals", "write_groups", "done"} => cfg # None
      /\ pc \in {"signals", "write_groups"} => FrameRead /\ \E k : AtFrame(k)
      /\ pc = "write_groups" => todo = <<>>
  BY FrameInvSplit DEF TopicsInv
<1>6. reader \in Nat /\ IsSeq(written)
  BY InputType DEF Ready, Start, TypeOK
<1>7. pc = "write_groups" => groups = GroupsWithout({})
  BY <1>2, <1>5, AllGrouped
<1>8. pc \in {"signals", "write_groups"} => reader - 1 \in Nat /\ start \in Nat
  <2> SUFFICES ASSUME pc \in {"signals", "write_groups"} PROVE reader - 1 \in Nat /\ start \in Nat
    OBVIOUS
  <2>1. reader - 1 \in Nat
    BY <1>5, InputType DEF FrameRead, Ready, Start
  <2> DEFINE k == reader - 1
  <2> HIDE DEF k
  <2>2. k \in Nat => WrittenFor(k) \in Nat
    BY <1>5, WrittenUpTo
  <2> QED
    BY <2>1, <2>2 DEF k
<1>9. CASE UNCHANGED <<reader, written>> /\ pc \in Between /\ pc' \in Between \cup {"failed"}
  BY <1>3, <1>9
<1>10. CASE UNCHANGED <<pc, cfg, bag, reader, written, ros_frame, groups, unwritten>>
  <2>1. WrittenOf(DOMAIN groups \ unwritten)' = WrittenOf(DOMAIN groups \ unwritten)
    BY <1>10 DEF WrittenOf, AsRead, out_msg, SerializedGroup
  <2> QED
    BY <1>3, <1>10, <2>1
<1>11. CASE LoadConfig \/ Configure \/ create_topics \/ finish
  BY <1>9, <1>11 DEF LoadConfig, Configure, create_topics, finish
<1>12. CASE transform_error \/ io_error
  BY <1>12 DEF transform_error, TransformThrows, io_error
<1>13. CASE pass_through
  <2>1. /\ pc = "next_message" /\ UNCHANGED pc /\ reader' = reader + 1
        /\ written' = Append(written, bag_msg)
        /\ reader < Len(bag.messages) /\ bag_msg.topic # cfg.can_topic
    BY <1>13 DEF pass_through
  <2>2. Translates(written', reader + 1) /\ Len(written') = WrittenFor(reader + 1)
    BY <1>3, <1>5, <2>1, PassedThrough
  <2> QED
    BY <2>1, <2>2
<1>14. CASE read_frame
  <2>1. /\ pc = "next_message" /\ reader' = reader + 1 /\ UNCHANGED written
        /\ reader < Len(bag.messages) /\ bag_msg.topic = cfg.can_topic /\ bag_msg.data # Malformed
    BY <1>14 DEF read_frame
  <2>2. CASE ~Decodable(cfg.msg_map, bag_msg.data.id)
    <3>1. UNCHANGED pc
      BY <1>14, <2>2 DEF read_frame
    <3>2. Translation(reader + 1) = {}
      BY <1>5, <2>1, <2>2, UnknownFrame
    <3>3. Translates(written, reader + 1) /\ Len(written) = WrittenFor(reader + 1)
      BY <1>3, <1>5, <1>6, <2>1, <3>2, NothingWritten
    <3> QED
      BY <2>1, <3>1, <3>3
  <2>3. CASE Decodable(cfg.msg_map, bag_msg.data.id)
    <3>1. pc' = "signals" /\ reader' - 1 = reader
      BY <1>6, <1>14, <2>1, <2>3 DEF read_frame
    <3> QED
      BY <1>3, <2>1, <3>1
  <2> QED
    BY <2>2, <2>3
<1>15. CASE process_signal
  BY <1>3, <1>15 DEF process_signal
<1>16. CASE end_of_signals
  <2>1. /\ pc = "signals" /\ pc' = "write_groups" /\ UNCHANGED <<reader, written, groups>>
        /\ unwritten' = DOMAIN groups
    BY <1>16 DEF end_of_signals
  <2>2. DOMAIN groups' \ unwritten' = {} /\ Cardinality({}) = 0
    BY <2>1, FS_EmptySet
  <2>3. WrittenOf(DOMAIN groups \ unwritten)' = {}
    BY <2>2 DEF WrittenOf
  <2>4. Len(written) = start /\ start \in Nat
    BY <1>3, <1>8, <2>1
  <2>5. ReadOf(written, start + 1, Len(written)) = {}
    <3> HIDE DEF start
    <3> QED
      BY <2>4 DEF ReadOf
  <2>6. Translates(written, reader - 1)
    BY <1>3, <2>1
  <2>7. WrittenFor(reader' - 1) = start /\ Translates(written', reader' - 1)
    BY <2>1, <2>6
  <2> HIDE DEF start
  <2>8. Len(written') = start + Cardinality(DOMAIN groups' \ unwritten')
    BY <2>1, <2>2, <2>4
  <2>9. ReadOf(written', start + 1, Len(written')) = WrittenOf(DOMAIN groups \ unwritten)'
    BY <2>1, <2>3, <2>5
  <2> QED
    BY <2>1, <2>7, <2>8, <2>9
<1>17. CASE \E d \in DOMAIN groups : write_group(d)
  <2>0. PICK d \in DOMAIN groups : write_group(d)
    BY <1>17
  <2> DEFINE D == DOMAIN groups \ unwritten
  <2>1. /\ pc = "write_groups" /\ d \in unwritten /\ unwritten' = unwritten \ {d}
        /\ UNCHANGED <<pc, cfg, reader, ros_frame, groups>>
        /\ d \in DOMAIN cfg.domain_to_topic => written' = Append(written, out_msg(d))
    BY <2>0 DEF write_group
  <2>2. d \in DOMAIN cfg.domain_to_topic
    BY <1>5, <1>7, <2>1, FrameWritten
  <2>3. DOMAIN groups' \ unwritten' = D \cup {d} /\ D \in SUBSET DOMAIN groups /\ d \in DOMAIN groups \ D
    BY <2>1
  <2>4. WrittenOf(DOMAIN groups \ unwritten)' = WrittenOf(D \cup {d})
    <3>1. \A e : AsRead(out_msg(e))' = AsRead(out_msg(e))
      BY <2>1 DEF AsRead, out_msg, SerializedGroup
    <3> HIDE DEF D
    <3> QED
      BY <2>3, <3>1 DEF WrittenOf
  <2> DEFINE k == reader - 1
  <2>5. /\ k \in Nat /\ Translates(written, k) /\ Len(written) = WrittenFor(k) + Cardinality(D)
        /\ ReadOf(written, WrittenFor(k) + 1, Len(written)) = WrittenOf(D)
    BY <1>3, <1>8, <2>1
  <2> HIDE DEF D, k
  <2>6. LET w == Append(written, out_msg(d))
        IN  /\ Translates(w, k)
            /\ Len(w) = WrittenFor(k) + Cardinality(D \cup {d})
            /\ ReadOf(w, WrittenFor(k) + 1, Len(w)) = WrittenOf(D \cup {d})
    BY <1>5, <1>7, <2>1, <2>3, <2>5, GroupWritten
  <2>7. k = reader' - 1 /\ pc' = "write_groups" /\ written' = Append(written, out_msg(d))
    BY <2>1, <2>2 DEF k
  <2> QED
    BY <2>3, <2>4, <2>6, <2>7
<1>18. CASE end_of_frame
  <2>1. /\ pc = "write_groups" /\ pc' = "next_message" /\ unwritten = {} /\ UNCHANGED <<reader, written>>
    BY <1>18 DEF end_of_frame
  <2>2. DOMAIN groups \ unwritten = DOMAIN groups
    BY <2>1
  <2>3. Translates(written, reader) /\ Len(written) = WrittenFor(reader)
    BY <1>3, <1>5, <1>7, <2>1, <2>2, FrameEnds
  <2> QED
    BY <2>1, <2>3
<1>19. CASE Returned \/ UNCHANGED vars
  BY <1>10, <1>19 DEF Returned, vars
<1> QED
  BY <1>11, <1>12, <1>13, <1>14, <1>15, <1>16, <1>17, <1>18, <1>19 DEF Next

(* Between two messages the output translates all that was read; in a      *)
(* frame, all before it and the groups written so far.                     *)
LEMMA SpecWritten == Spec /\ []ReadsBack => []WrittenIfInRange
<1>1. Init => WrittenIfInRange
  <2> SUFFICES ASSUME Init PROVE WrittenInv
    BY DEF WrittenIfInRange
  <2>1. pc = "load_config" /\ reader = 0 /\ written = <<>> /\ Len(<<>>) = 0
    BY DEF Init
  <2>2. UNION {{j} \X Translation(j) : j \in 1 .. 0} = {}
    OBVIOUS
  <2>3. WrittenFor(0) = 0
    BY <2>2, FS_EmptySet DEF WrittenFor
  <2>4. Translated(0)
    BY DEF Translated
  <2> QED
    BY <2>1, <2>3, <2>4 DEF WrittenInv
<1> QED
  BY <1>1, WrittenNext, SpecReady, SpecTopics, SpecFrame, ConversionTypeOK, PTL DEF Spec

(* At every point but one where the conversion has failed, the output is   *)
(* what OutputFaithful says.                                               *)
LEMMA FaithfulNow ==
  Ready /\ TopicsInv /\ FrameInv /\ WrittenIfInRange /\ pc # "failed" => OutputFaithful
<1> SUFFICES ASSUME Ready, TopicsInv, FrameInv, WrittenIfInRange, pc # "failed", reader > 0, IdsInRange
             PROVE  /\ Translated(reader - 1)
                    /\ Rest \subseteq Translation(reader)
                    /\ Len(written) = WrittenFor(reader - 1) + Cardinality(Rest)
                    /\ pc \in {"next_message", "done"} => Rest = Translation(reader)
                    /\ todo # <<>> => Rest = {}
  BY DEF OutputFaithful
<1> DEFINE start == WrittenFor(reader - 1)
<1>1. WrittenInv /\ reader \in Nat /\ reader - 1 \in Nat /\ reader - 1 + 1 = reader
  BY InputType DEF WrittenIfInRange, Ready, Start, TypeOK
<1>2. pc \in {"next_message", "signals", "write_groups", "done"} /\ cfg # None
  <2>1. pc \notin {"load_config", "create_topics"}
    BY DEF TopicsInv
  <2> QED
    BY <2>1 DEF TopicsInv, Ready, Start, TypeOK, Exited
<1>3. /\ start \in Nat /\ Cardinality(Translation(reader)) \in Nat
      /\ WrittenFor(reader) = start + Cardinality(Translation(reader))
  <2>1. reader \in 1 .. reader /\ reader - 1 \in 0 .. reader
    BY <1>1
  <2> QED
    BY <1>1, <1>2, <2>1, WrittenUpTo
<1>4. CASE pc \in {"next_message", "done"}
  <2>1. Translates(written, reader) /\ Len(written) = WrittenFor(reader) /\ todo = <<>>
    BY <1>1, <1>4, TranslatesNow DEF WrittenInv, FrameInv
  <2>2. Translates(written, reader - 1) /\ ReadOf(written, start + 1, Len(written)) = Translation(reader)
    <3> DEFINE k == reader - 1
    <3>1. k \in Nat /\ k + 1 = reader
      BY <1>1
    <3> HIDE DEF k
    <3>2. Translates(written, k + 1) => Translates(written, k) /\ ReadOf(written, WrittenFor(k) + 1, WrittenFor(k + 1)) = Translation(k + 1)
      BY <1>2, <3>1, TranslatesNext
    <3> QED
      BY <2>1, <3>1, <3>2 DEF k
  <2>3. Rest = Translation(reader)
    BY <2>2, TranslatesNow
  <2> QED
    BY <1>3, <2>1, <2>2, <2>3, TranslatesNow
<1>5. CASE pc = "signals"
  <2>1. Translated(reader - 1) /\ Len(written) = start
    BY <1>1, <1>5 DEF WrittenInv
  <2>2. ReadOf(written, start + 1, Len(written)) = {}
    <3> HIDE DEF start
    <3> QED
      BY <1>3, <2>1 DEF ReadOf
  <2>3. Rest = {} /\ Cardinality({}) = 0
    BY <2>2, TranslatesNow, FS_EmptySet
  <2> QED
    BY <1>3, <1>5, <2>1, <2>3
<1>6. CASE pc = "write_groups"
  <2> DEFINE D == DOMAIN groups \ unwritten
  <2>1. /\ Translated(reader - 1) /\ Len(written) = start + Cardinality(D)
        /\ Rest = WrittenOf(D)
    BY <1>1, <1>6 DEF WrittenInv, WrittenOf
  <2>2. FrameRead /\ todo = <<>> /\ groups = GroupsWithout({})
    <3>1. FrameRead /\ todo = <<>> /\ \E k : AtFrame(k)
      BY <1>6, FrameInvSplit
    <3> QED
      BY <1>2, <3>1, AllGrouped
  <2>3. D \in SUBSET DOMAIN groups
    OBVIOUS
  <2>4. WrittenOf(D) \subseteq Translation(reader) /\ Cardinality(WrittenOf(D)) = Cardinality(D)
    <3> HIDE DEF D
    <3> QED
      BY <1>2, <2>2, <2>3, FrameWritten DEF WrittenOf
  <2> QED
    BY <1>6, <2>1, <2>2, <2>4
<1> QED
  BY <1>2, <1>4, <1>5, <1>6

(* A step at which the conversion fails changes nothing of the output.     *)
LEMMA FaithfulFailed ==
  OutputFaithful /\ [Next]_vars /\ pc' = "failed" => OutputFaithful'
<1> SUFFICES ASSUME OutputFaithful, [Next]_vars, pc' = "failed" PROVE OutputFaithful'
  OBVIOUS
<1>1. UNCHANGED <<settings, bag, reader, written, todo>>
  <2>1. CASE UNCHANGED vars
    BY <2>1 DEF vars
  <2>2. CASE Next
    BY <2>2 DEF Next, LoadConfig, Configure, create_topics, pass_through, read_frame, process_signal,
         transform_error, TransformThrows, end_of_signals, write_group, end_of_frame, io_error, finish,
         Returned, vars, Given
  <2> QED
    BY <2>1, <2>2
<1>2. /\ Translated(reader - 1)' <=> Translated(reader - 1)
      /\ WrittenFor(reader - 1)' = WrittenFor(reader - 1)
      /\ Rest' = Rest
  BY <1>1, TranslatesNow, TranslatesThen
<1>3. Translation(reader)' = Translation(reader)
  BY <1>1 DEF Translation, GroupsOn
<1>4. IdsInRange' <=> IdsInRange
  BY <1>1 DEF IdsInRange
<1> QED
  BY <1>1, <1>2, <1>3, <1>4 DEF OutputFaithful

(* The output of a conversion, byte for byte as another program reads it,  *)
(* is the input translated message by message and in order, for any bag,   *)
(* any DBC file and any parameter set whose ids are CAN ids; when the      *)
(* conversion fails it is that up to the message at hand, with nothing of a*)
(* frame whose transform throws (convert_one).                             *)
THEOREM ConversionFaithful == Spec /\ []ReadsBack => []OutputFaithful
<1> DEFINE Fails == pc = "failed"
<1>1. Init => ~Fails
  BY DEF Init
<1>2. Ready /\ TopicsInv /\ FrameInv /\ WrittenIfInRange /\ ~Fails => OutputFaithful
  BY FaithfulNow
<1>3. OutputFaithful /\ [Next]_vars /\ Fails' => OutputFaithful'
  BY FaithfulFailed
<1> HIDE DEF Fails
<1> QED
  BY <1>1, <1>2, <1>3, SpecReady, SpecTopics, SpecFrame, SpecWritten, PTL DEF Spec

(* The inductive invariant that these results rest on, and that TLC checks *)
(* too.                                                                    *)
THEOREM ConversionInvariant == Spec /\ []ReadsBack => []ConversionInv
<1>1. ConfigInv /\ TopicsInv /\ FrameInv /\ Counted(reader) /\ WrittenIfInRange => ConversionInv
  BY DEF ConversionInv, WrittenIfInRange
<1> QED
  BY <1>1, SpecConfig, SpecTopics, SpecFrame, SpecCounted, SpecWritten, PTL
================================================================================
