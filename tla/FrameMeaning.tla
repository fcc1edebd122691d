----------------------------- MODULE FrameMeaning ------------------------------
(***************************************************************************)
(* What a CAN message means: the signals it carries, their canonical       *)
(* names, domains and values, read off the message m and the parameter     *)
(* set p, not off the tables that are built from the parameters.  The node *)
(* and the converter are both checked against it.  failed is the set of    *)
(* places in the message whose transform threw.                            *)
(***************************************************************************)
EXTENDS NodeParameters

Group(topic, domain, stamp, signals) ==
    [topic |-> topic, domain |-> domain, stamp |-> stamp, signals |-> signals]

IsAlias(p, a, b) ==
    \E i \in DOMAIN p.aliases : p.aliases[i].name = a /\ p.aliases[i].to = b

CanonicalName(p, id, raw) ==
    LET key == CompoundKey(id, raw)
        targets == {p.aliases[i].to : i \in DOMAIN p.aliases}
    IN  CHOOSE n \in targets \cup {raw} :
            \/ n # key /\ IsAlias(p, key, n)
            \/ /\ \A t \in targets \ {key} : ~IsAlias(p, key, t)
               /\ IsAlias(p, raw, n) \/ (n = raw /\ \A t \in targets : ~IsAlias(p, raw, t))

SchemaLists(p, i, name) == name \in ToSet(p.schema[i].signals)

SchemaDecides(p) == \E i \in DOMAIN p.schema : p.schema[i].signals # <<>>

(* The domain a signal belongs to, of several the last one configured.     *)
AssignedTo(p, id, name, d) ==
    /\ d # kUnassignedDomain
    /\ \/ /\ SchemaDecides(p)
          /\ \E i \in DOMAIN p.schema :
                /\ p.schema[i].name = d /\ SchemaLists(p, i, name)
                /\ \A j \in DOMAIN p.schema : j > i => ~SchemaLists(p, j, name)
       \/ /\ ~SchemaDecides(p)
          /\ \E i \in DOMAIN p.domains :
                /\ p.domains[i].name = d /\ id \in p.domains[i].can_ids
                /\ \A j \in DOMAIN p.domains : j > i => id \notin p.domains[j].can_ids

(* The signals of the message: those of the first DBC message with its id. *)
Signals(p, m) ==
    LET ms == p.dbc.messages
        matching == {i \in DOMAIN ms : ms[i].id = m.id}
    IN  IF matching = {} THEN <<>> ELSE ms[Min(matching)].signals

NameAt(p, m, k) == CanonicalName(p, m.id, Signals(p, m)[k].name)

(* The physical value from the bytes the message really carries, then the  *)
(* configured expression.                                                  *)
ValueAt(p, m, k) ==
    LET raw == Physical(Signals(p, m)[k],
                        [b \in 1 .. NBytes |-> IF b <= m.dlc THEN m.data[b] ELSE 0])
        exprs == {i \in DOMAIN p.transforms :
                     p.transforms[i].name = NameAt(p, m, k) /\ p.transforms[i].expression # ""}
    IN  IF exprs = {} THEN raw ELSE Eval(p.transforms[Max(exprs)].expression, raw)

SignalAt(p, m, k) ==
    LET ids == {i \in DOMAIN p.signal_id_names : p.signal_id_names[i] = NameAt(p, m, k)}
    IN  [name_id |-> IF ids = {} THEN 0 ELSE Max(ids), value |-> Float32(ValueAt(p, m, k))]

Places(p, m, failed, Test(_)) ==
    InOrder({k \in DOMAIN Signals(p, m) \ failed : Test(NameAt(p, m, k))})

SignalsWhere(p, m, failed, Test(_)) ==
    LET ks == Places(p, m, failed, Test) IN [i \in DOMAIN ks |-> SignalAt(p, m, ks[i])]

InDomain(p, m, failed, d) == SignalsWhere(p, m, failed, LAMBDA n : AssignedTo(p, m.id, n, d))

DomainNames(p) ==
    {p.schema[i].name : i \in DOMAIN p.schema} \cup {p.domains[i].name : i \in DOMAIN p.domains}

InAny(p, m, failed) ==
    SignalsWhere(p, m, failed, LAMBDA n : \E d \in DomainNames(p) : AssignedTo(p, m.id, n, d))

SchemaTopics(p, d) == {p.schema[i].topic : i \in {j \in DOMAIN p.schema : p.schema[j].name = d}}
LegacyTopics(p, d) == {p.domains[i].topic : i \in {j \in DOMAIN p.domains : p.domains[j].name = d}}

(* The topics a domain has: those of the schema, or else its own.          *)
TopicsOf(p, d) == IF SchemaTopics(p, d) = {} THEN LegacyTopics(p, d) ELSE SchemaTopics(p, d)

(* The topics the node publishes a domain on: at most one.                 *)
LiveTopicsOf(p, d) ==
    IF p.schema_publish_per_domain /\ SchemaTopics(p, d) # {}
    THEN SchemaTopics(p, d)
    ELSE LegacyTopics(p, d) \ {""}

(* One group per domain that has a topic and a signal in this message.     *)
GroupsOn(p, m, failed, Topics(_)) ==
    {g \in {Group(t, d, m.stamp, InDomain(p, m, failed, d)) :
                d \in DomainNames(p), t \in UNION {Topics(d) : d \in DomainNames(p)}} :
        g.signals # <<>> /\ g.topic \in Topics(g.domain)}

(* The places of a name in the list of promoted signals.                   *)
PromotedAs(p, name) == {i \in DOMAIN p.promoted : p.promoted[i].name = name}
================================================================================
