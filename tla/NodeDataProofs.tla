----------------------------- MODULE NodeDataProofs ----------------------------
(* What the node publishes for a frame is what the frame and the parameters *)
(* say it should be, whatever the parameters, the frames and their order.   *)
EXTENDS VehicleCanNodeProofs

(* Accepted parameters are well formed: declare_parameter refuses a second *)
(* alias or transform of a name.                                           *)
LEMMA AcceptedWellFormed ==
  ASSUME NEW p \in ParameterSpace, ValidParameters(p)
  PROVE  /\ WellFormed(p) /\ IsList(p.promoted) /\ IsList(p.unit_id_names)
         /\ DeclaredOnce(p.domains) /\ DeclaredOnce(p.schema) /\ DeclaredOnce(p.promoted)
         /\ TablesFit(p)
<1>1. /\ IsList(p.aliases) /\ IsList(p.transforms)
  BY SeqIsList DEF ParameterSpace
<1>2. IsList(p.domains) /\ IsList(p.schema) /\ IsList(p.promoted)
  BY SeqIsList DEF ParameterSpace
<1>3. IsList(p.signal_id_names) /\ IsList(p.unit_id_names)
  BY SeqIsList DEF ParameterSpace
<1>4. IsList(p.dbc.messages)
  BY SeqIsList DEF ParameterSpace
<1>5. ASSUME NEW i \in DOMAIN p.schema PROVE IsList(p.schema[i].signals)
  <2>1. p.schema \in Seq([name : STRING, topic : STRING, signals : Seq(Signal)])
    BY DEF ParameterSpace
  <2>2. p.schema[i] \in [name : STRING, topic : STRING, signals : Seq(Signal)]
    BY <2>1, SeqElements
  <2>3. p.schema[i].signals \in Seq(Signal)
    BY <2>2
  <2> QED
    BY <2>3, SeqIsList
<1>6. /\ DeclaredOnce(p.aliases) /\ DeclaredOnce(p.transforms)
      /\ DeclaredOnce(p.domains) /\ DeclaredOnce(p.schema) /\ DeclaredOnce(p.promoted)
      /\ TablesFit(p)
  BY DEF ValidParameters
<1>7. /\ \A i, j \in DOMAIN p.aliases :
            p.aliases[i].name = p.aliases[j].name => p.aliases[i].to = p.aliases[j].to
      /\ \A i, j \in DOMAIN p.transforms :
            p.transforms[i].name = p.transforms[j].name =>
                p.transforms[i].expression = p.transforms[j].expression
  <2>1. \A i, j \in DOMAIN p.aliases : p.aliases[i].name = p.aliases[j].name => i = j
    BY <1>6 DEF DeclaredOnce, IsInjective
  <2>2. \A i, j \in DOMAIN p.transforms : p.transforms[i].name = p.transforms[j].name => i = j
    BY <1>6 DEF DeclaredOnce, IsInjective
  <2> QED
    BY <2>1, <2>2
<1> QED
  BY <1>1, <1>2, <1>3, <1>4, <1>5, <1>6, <1>7 DEF WellFormed

(* The places of the signals of a message.                                 *)
LEMMA SignalsType ==
  ASSUME NEW p \in ParameterSpace, NEW m
  PROVE  /\ Signals(p, m) \in Seq(DbcSignal)
         /\ Len(Signals(p, m)) \in Nat
         /\ DOMAIN Signals(p, m) = 1 .. Len(Signals(p, m))
<1> DEFINE ms == p.dbc.messages
           matching == {i \in DOMAIN ms : ms[i].id = m.id}
<1>1. ms \in Seq([id : Nat, signals : Seq(DbcSignal)])
  BY DEF ParameterSpace
<1>2. /\ DOMAIN p.dbc.messages = 1 .. Len(p.dbc.messages) /\ Len(p.dbc.messages) \in Nat
      /\ \A i \in DOMAIN p.dbc.messages : p.dbc.messages[i] \in [id : Nat, signals : Seq(DbcSignal)]
  BY <1>1, SeqElements
<1>3. matching # {} => Min(matching) \in DOMAIN ms
  <2>1. matching \subseteq Nat
    BY <1>2
  <2>2. matching # {} => Min(matching) \in matching
    BY <2>1, MinInSet
  <2> QED
    BY <2>2
<1>4. Signals(p, m) \in Seq(DbcSignal)
  <2>1. \A i \in DOMAIN ms : ms[i].signals \in Seq(DbcSignal)
    BY <1>2
  <2>2. <<>> \in Seq(DbcSignal)
    OBVIOUS
  <2> QED
    BY <1>3, <2>1, <2>2 DEF Signals
<1> QED
  BY <1>4

(* The buffer of bytes on_can_frame fills has the bytes the message carries. *)
LEMMA PayloadBytes ==
  ASSUME NEW m \in CanMsg
  PROVE  PayloadOf(m) = [b \in 1 .. NBytes |-> IF b <= m.dlc THEN m.data[b] ELSE 0]
  BY NodeAssumption DEF PayloadOf, CanMsg

(* One pass of the loop of process_frame makes of a signal of the message  *)
(* what FrameMeaning says of its place.                                    *)
LEMMA SignalAtPlace ==
  ASSUME NEW p \in ParameterSpace, ValidParameters(p), NEW m \in CanMsg, NEW k \in DOMAIN Signals(p, m)
  PROVE  LET L == LoadedMembers(p)
             s == Signals(p, m)[k]
             res == resolve_signal(s.name, m.id, L.router, L.signal_to_domain)
             v == transform(L.exprs, res.name, Physical(s, PayloadOf(m)))
         IN  /\ res.name = NameAt(p, m, k)
             /\ v = ValueAt(p, m, k)
             /\ [name_id |-> IF res.name \in DOMAIN L.signal_name_to_id
                             THEN L.signal_name_to_id[res.name] ELSE 0,
                 value |-> Float32(v)] = SignalAt(p, m, k)
             /\ res.domain # kUnassignedDomain => AssignedTo(p, m.id, NameAt(p, m, k), res.domain)
             /\ \A d : AssignedTo(p, m.id, NameAt(p, m, k), d) => d = res.domain
<1> DEFINE L == LoadedMembers(p)
<1>1. WellFormed(p) /\ Len(p.signal_id_names) <= MaxTableId
  BY AcceptedWellFormed DEF TablesFit
<1>2. TablesOf(p, L)
  BY <1>1 DEF TablesOf, LoadedMembers, AliasMap, ExpressionMap
<1> HIDE DEF L
<1>3. HandledAsMeant(p, L, m, k)
  BY <1>2, SignalMeant
<1>4. Padded(m) = PayloadOf(m)
  BY PayloadBytes DEF Padded
<1> QED
  BY <1>3, <1>4 DEF HandledAsMeant, L

--------------------------------------------------------------------------------
PromotedPlaces(p, m, n) == [j \in 1 .. n |-> PromotedAs(p, NameAt(p, m, j)) # {}]
PromotedItems(p, m, n) ==
    [j \in 1 .. n |->
        [ topic_suffix |-> p.promoted[Max(PromotedAs(p, NameAt(p, m, j)))].topic_suffix,
          data |-> ValueAt(p, m, j) ]]

(* PromotedOf, too, is a list of the places that are not skipped.          *)
LEMMA PromotedListed ==
  ASSUME NEW p, NEW m, NEW n \in Nat, DOMAIN Signals(p, m) = 1 .. n, NEW skipped
  PROVE  PromotedOf(p, m, skipped) =
             Listed(n, PromotedPlaces(p, m, n), PromotedItems(p, m, n), skipped)
<1> DEFINE item(j) == [ topic_suffix |-> p.promoted[Max(PromotedAs(p, NameAt(p, m, j)))].topic_suffix,
                        data |-> ValueAt(p, m, j) ]
           f == PromotedItems(p, m, n)
           P == PromotedPlaces(p, m, n)
           S == Chosen(n, P, skipped)
<1>1. {k \in DOMAIN Signals(p, m) \ skipped : PromotedAs(p, NameAt(p, m, k)) # {}} = S
  BY DEF Chosen, PromotedPlaces
<1>2. PromotedOf(p, m, skipped) = [i \in DOMAIN InOrder(S) |-> item(InOrder(S)[i])]
  BY <1>1, Zenon DEF PromotedOf, Places
<1>0. \A j \in 1 .. n : f[j] = item(j)
  BY DEF PromotedItems
<1> HIDE DEF item, P, f
<1>3. S \in SUBSET Int /\ IsFiniteSet(S) /\ S \subseteq 1 .. n
  BY ChosenFinite
<1> HIDE DEF S
<1>4. \A i \in DOMAIN InOrder(S) : InOrder(S)[i] \in 1 .. n
  BY <1>3, InOrderType
<1>5. [i \in DOMAIN InOrder(S) |-> item(InOrder(S)[i])] = [i \in DOMAIN InOrder(S) |-> f[InOrder(S)[i]]]
  BY <1>0, <1>4
<1>6. Listed(n, P, f, skipped) = [i \in DOMAIN InOrder(S) |-> f[InOrder(S)[i]]]
  BY DEF Listed, S
<1> QED
  BY <1>2, <1>5, <1>6 DEF P, f, item

(* The signal at place k is the next one in every list it belongs to.      *)
LEMMA NextSignal ==
  ASSUME NEW p, NEW m, NEW n \in Nat, DOMAIN Signals(p, m) = 1 .. n,
         NEW k \in 1 .. n, NEW F, Failed(F, k)
  PROVE  LET name == NameAt(p, m, k)
             old == Remaining(F, k, n)
             new == Remaining(F, k + 1, n)
         IN  /\ \A d : InDomain(p, m, new, d) =
                    IF AssignedTo(p, m.id, name, d)
                    THEN Append(InDomain(p, m, old, d), SignalAt(p, m, k))
                    ELSE InDomain(p, m, old, d)
             /\ \A d : Append(InDomain(p, m, old, d), SignalAt(p, m, k)) # <<>>
             /\ InAny(p, m, new) =
                    IF \E d \in DomainNames(p) : AssignedTo(p, m.id, name, d)
                    THEN Append(InAny(p, m, old), SignalAt(p, m, k))
                    ELSE InAny(p, m, old)
             /\ PromotedOf(p, m, new) =
                    IF PromotedAs(p, name) # {}
                    THEN Append(PromotedOf(p, m, old),
                                [ topic_suffix |-> p.promoted[Max(PromotedAs(p, name))].topic_suffix,
                                  data |-> ValueAt(p, m, k) ])
                    ELSE PromotedOf(p, m, old)
<1> DEFINE name == NameAt(p, m, k)
           old == Remaining(F, k, n)
           new == Remaining(F, k + 1, n)
<1>0. old = Remaining(F, k, n) /\ new = Remaining(F, k + 1, n)
  OBVIOUS
<1> HIDE DEF old, new
<1> DEFINE f == SignalsAt(p, m, n)
<1>1. ASSUME NEW d
      PROVE  /\ InDomain(p, m, new, d) =
                    IF AssignedTo(p, m.id, name, d)
                    THEN Append(InDomain(p, m, old, d), SignalAt(p, m, k))
                    ELSE InDomain(p, m, old, d)
             /\ Append(InDomain(p, m, old, d), SignalAt(p, m, k)) # <<>>
  <2>1. /\ AssignedTo(p, m.id, NameAt(p, m, k), d) =>
               InDomain(p, m, new, d) = Append(InDomain(p, m, old, d), SignalAt(p, m, k))
        /\ ~AssignedTo(p, m.id, NameAt(p, m, k), d) => InDomain(p, m, new, d) = InDomain(p, m, old, d)
        /\ Append(InDomain(p, m, old, d), SignalAt(p, m, k)) # <<>>
    BY <1>0, NextInDomain
  <2> QED
    BY <2>1
<1>2. InAny(p, m, new) = IF \E d \in DomainNames(p) : AssignedTo(p, m.id, name, d)
                         THEN Append(InAny(p, m, old), SignalAt(p, m, k))
                         ELSE InAny(p, m, old)
  <2> DEFINE P == AnyPlaces(p, m, n)
             HasDomain == \E d \in DomainNames(p) : AssignedTo(p, m.id, name, d)
  <2>1. \A sk : InAny(p, m, sk) = Listed(n, P, f, sk)
    BY ListsOfFrame
  <2>2. (P[k] <=> HasDomain) /\ f[k] = SignalAt(p, m, k)
    BY DEF AssignedPlaces, AnyPlaces, SignalsAt
  <2> HIDE DEF P, f, HasDomain
  <2>3. /\ P[k] => Listed(n, P, f, new) = Append(Listed(n, P, f, old), f[k])
        /\ ~P[k] => Listed(n, P, f, new) = Listed(n, P, f, old)
    BY <1>0, NextPlace
  <2> HIDE DEF name
  <2>4. InAny(p, m, new) = IF HasDomain THEN Append(InAny(p, m, old), SignalAt(p, m, k)) ELSE InAny(p, m, old)
    BY <2>1, <2>2, <2>3
  <2> QED
    BY <2>4 DEF HasDomain
<1>3. PromotedOf(p, m, new) =
          IF PromotedAs(p, name) # {}
          THEN Append(PromotedOf(p, m, old),
                      [ topic_suffix |-> p.promoted[Max(PromotedAs(p, name))].topic_suffix,
                        data |-> ValueAt(p, m, k) ])
          ELSE PromotedOf(p, m, old)
  <2> DEFINE P == PromotedPlaces(p, m, n)
             g == PromotedItems(p, m, n)
  <2>1. \A sk : PromotedOf(p, m, sk) = Listed(n, P, g, sk)
    BY PromotedListed
  <2>2. /\ P[k] <=> PromotedAs(p, name) # {}
        /\ g[k] = [ topic_suffix |-> p.promoted[Max(PromotedAs(p, name))].topic_suffix,
                    data |-> ValueAt(p, m, k) ]
    BY DEF PromotedPlaces, PromotedItems
  <2> HIDE DEF P, g
  <2>3. /\ P[k] => Listed(n, P, g, new) = Append(Listed(n, P, g, old), g[k])
        /\ ~P[k] => Listed(n, P, g, new) = Listed(n, P, g, old)
    BY <1>0, NextPlace
  <2> HIDE DEF name
  <2> QED
    BY <2>1, <2>2, <2>3
<1> HIDE DEF name
<1> QED
  BY <1>1, <1>2, <1>3 DEF old, new, name

(* When every place is skipped, or there is none, nothing is published.    *)
LEMMA NothingYet ==
  ASSUME NEW p, NEW m, NEW n \in Nat, DOMAIN Signals(p, m) = 1 .. n
  PROVE  LET all == Remaining({}, 1, n)
         IN  /\ \A d : InDomain(p, m, all, d) = <<>>
             /\ InAny(p, m, all) = <<>>
             /\ PromotedOf(p, m, all) = <<>>
<1>1. Remaining({}, 1, n) = 1 .. n
  BY DEF Remaining
<1> DEFINE sk == 1 .. n
<1>0. \A P, f : Listed(n, P, f, sk) = <<>>
  BY NothingListed
<1> HIDE DEF sk
<1>2. ASSUME NEW d
      PROVE  InDomain(p, m, sk, d) = <<>> /\ InAny(p, m, sk) = <<>>
  <2>1. /\ InDomain(p, m, sk, d) = Listed(n, AssignedPlaces(p, m, n, d), SignalsAt(p, m, n), sk)
        /\ InAny(p, m, sk) = Listed(n, AnyPlaces(p, m, n), SignalsAt(p, m, n), sk)
    BY ListsOfFrame
  <2> QED
    BY <1>0, <2>1
<1>3. PromotedOf(p, m, sk) = <<>>
  BY <1>0, PromotedListed
<1> QED
  BY <1>1, <1>2, <1>3 DEF sk

(* A message without signals publishes nothing.                           *)
LEMMA NothingPublished ==
  ASSUME NEW p, NEW m, Signals(p, m) = <<>>
  PROVE  GroupsOf(p, m, {}) = {} /\ PromotedOf(p, m, {}) = <<>>
<1>1. DOMAIN Signals(p, m) = 1 .. 0 /\ 1 .. 0 = {} /\ 0 \in Nat
  OBVIOUS
<1>2. Remaining({}, 1, 0) = {}
  BY <1>1 DEF Remaining
<1>3. /\ \A d : InDomain(p, m, {}, d) = <<>>
      /\ InAny(p, m, {}) = <<>>
      /\ PromotedOf(p, m, {}) = <<>>
  BY <1>1, <1>2, NothingYet
<1>4. FirehoseOf(p, m, {}) = {}
  BY <1>3 DEF FirehoseOf
<1>5. GroupsOn(p, m, {}, LAMBDA d : LiveTopicsOf(p, d)) = {}
  BY <1>3 DEF GroupsOn, Group
<1> QED
  BY <1>3, <1>4, <1>5 DEF GroupsOf

--------------------------------------------------------------------------------
(* In the middle of a frame: the message is decoded by the loaded DBC, and *)
(* the place at hand is the one after those already handled.               *)
LEMMA InFrame ==
  ASSUME TypeOK, FrameInv, pc = "signals"
  PROVE  LET n == Len(Signals(params, msg))
         IN  /\ params \in ParameterSpace /\ ValidParameters(params)
             /\ members = LoadedMembers(params) /\ msg \in CanMsg
             /\ Decodable(members.msg_map, msg.id)
             /\ members.msg_map[msg.id] = Signals(params, msg)
             /\ n \in Nat /\ DOMAIN Signals(params, msg) = 1 .. n
             /\ Len(todo) \in 0 .. n /\ Place = n - Len(todo) + 1
             /\ Skipped = Remaining(failed, Place, n) /\ Failed(failed, Place)
<1> DEFINE n == Len(Signals(params, msg))
<1>1. /\ params \in ParameterSpace /\ ValidParameters(params)
      /\ members = LoadedMembers(params)
  BY LoadedType
<1>2. msg \in CanMsg
  BY NodeAssumption DEF TypeOK
<1>3. n \in Nat /\ DOMAIN Signals(params, msg) = 1 .. n
  BY <1>1, SignalsType
<1>4. Decodable(members.msg_map, msg.id) /\ Len(todo) <= n /\ failed \subseteq 1 .. Place - 1
  BY DEF FrameInv
<1>5. members.msg_map = build_map(params.dbc.messages)
  BY <1>1 DEF LoadedMembers
<1>6. members.msg_map[msg.id] = Signals(params, msg)
  BY <1>1, <1>4, <1>5, AcceptedWellFormed, MessageSignals
<1>7. Len(todo) \in Nat
  BY DEF TypeOK
<1>8. Place = n - Len(todo) + 1
  BY <1>6 DEF Place
<1> HIDE DEF n
<1> QED
  BY <1>1, <1>2, <1>3, <1>4, <1>6, <1>7, <1>8 DEF Skipped, Remaining, Failed, n

(* The schema, the publishers and the absence of a frame do not depend on  *)
(* a step that leaves them and the place of the process alone.             *)
LEMMA StartUpKept ==
  ASSUME StartUpInv, pc \notin Unspun, pc' \notin Unspun,
         UNCHANGED <<params, members, domain_pubs_, promoted_pubs_, schema_sample>>
  PROVE  StartUpInv'
  BY DEF StartUpInv, Unspun, Unloaded, SchemaMessage, SignalTable

(* A frame arrives at the decoder.                                         *)
LEMMA FrameDataInv ==
  ASSUME TypeOK, TypeOK', DataInv, on_can_frame
  PROVE  DataInv'
<1> DEFINE p == params
           m == msg'
           n == Len(Signals(p, m))
<1>1. /\ pc = "spin" /\ rx_queue # <<>> /\ m = Head(rx_queue).msg
      /\ failed' = {} /\ groups_out' = {} /\ promoted_out' = <<>>
      /\ UNCHANGED <<params, members, domain_pubs_, promoted_pubs_, schema_sample>>
  BY DEF on_can_frame, configVars
<1>2. p \in ParameterSpace /\ ValidParameters(p) /\ members = LoadedMembers(p)
  BY <1>1, LoadedType
<1>3. members.msg_map = build_map(p.dbc.messages)
  BY <1>2 DEF LoadedMembers
<1>4. /\ Decodable(members.msg_map, m.id) => members.msg_map[m.id] = Signals(p, m)
      /\ ~Decodable(members.msg_map, m.id) => Signals(p, m) = <<>>
  BY <1>2, <1>3, AcceptedWellFormed, MessageSignals
<1>5. n \in Nat /\ DOMAIN Signals(p, m) = 1 .. n
  BY <1>2, SignalsType
<1>6. CASE ~Decodable(members.msg_map, m.id)
  <2>1. pc' = "spin"
    BY <1>1, <1>6 DEF on_can_frame
  <2>2. StartUpInv'
    BY <1>1, <2>1, StartUpKept DEF DataInv, Unspun, Unloaded
  <2>3. FrameInv'
    BY <2>1 DEF FrameInv
  <2>4. GroupsOf(p, m, {}) = {} /\ PromotedOf(p, m, {}) = <<>>
    BY <1>4, <1>6, NothingPublished
  <2>5. GroupsFaithful' /\ PromotedFaithful'
    BY <1>1, <2>4 DEF GroupsFaithful, PromotedFaithful
  <2> QED
    BY <2>2, <2>3, <2>5 DEF DataInv
<1>7. CASE Decodable(members.msg_map, m.id)
  <2>1. /\ pc' = "signals" /\ frame_signals_' = <<>> /\ all_sigs_' = <<>>
        /\ todo' = decode(members.msg_map, m.id, PayloadOf(m))
    BY <1>1, <1>7 DEF on_can_frame, ClearBuffers
  <2>2. StartUpInv'
    BY <1>1, <2>1, StartUpKept DEF DataInv, Unspun, Unloaded
  <2>3. DOMAIN todo' = 1 .. n /\ Len(todo') = n
    <3>1. DOMAIN todo' = 1 .. n
      BY <1>4, <1>5, <1>7, <2>1 DEF decode
    <3>2. Len(todo') \in Nat /\ DOMAIN todo' = 1 .. Len(todo')
      BY DEF TypeOK
    <3> QED
      BY <1>5, <3>1, <3>2
  <2>4. Place' = 1
    BY <1>1, <1>4, <1>5, <1>7, <2>3 DEF Place
  <2>5. Skipped' = Remaining({}, 1, n)
    BY <1>1, <2>4 DEF Skipped, Remaining
  <2>6. /\ \A d : InDomain(p, m, Remaining({}, 1, n), d) = <<>>
        /\ InAny(p, m, Remaining({}, 1, n)) = <<>>
        /\ PromotedOf(p, m, Remaining({}, 1, n)) = <<>>
    BY <1>5, NothingYet
  <2>7. /\ \A d : InDomain(p, m, Skipped', d) = <<>>
        /\ InAny(p, m, Skipped') = <<>>
        /\ PromotedOf(p, m, Skipped') = <<>>
    BY <2>5, <2>6
  <2>8. [d \in {e \in DomainNames(p) : InDomain(p, m, Skipped', e) # <<>>} |->
            InDomain(p, m, Skipped', d)] = <<>>
    <3> DEFINE D == {e \in DomainNames(p) : InDomain(p, m, Skipped', e) # <<>>}
    <3>1. D = {}
      BY <2>7
    <3> HIDE DEF D
    <3> QED
      BY <3>1 DEF D
  <2>9. \A k \in DOMAIN todo' :
            todo'[k] = decode(members.msg_map, m.id, PayloadOf(m))[1 - 1 + k]
    BY <2>1, <2>3
  <2>10. FrameInv'
    <3>1. failed' \subseteq 1 .. Place' - 1
      BY <1>1
    <3>2. Len(todo') <= n
      BY <1>5, <2>3
    <3>3. (PayloadOf(msg))' = PayloadOf(m)
      BY DEF PayloadOf
    <3> HIDE DEF Place, Skipped
    <3> QED
      BY <1>1, <1>7, <2>1, <2>4, <2>7, <2>8, <2>9, <3>1, <3>2, <3>3 DEF FrameInv
  <2>11. GroupsFaithful' /\ PromotedFaithful'
    BY <2>1 DEF GroupsFaithful, PromotedFaithful, FrameDone
  <2> QED
    BY <2>2, <2>10, <2>11 DEF DataInv
<1> QED
  BY <1>6, <1>7

(* The head of the list is the signal at the place at hand.                *)
LEMMA HeadIsPlace ==
  ASSUME TypeOK, FrameInv, pc = "signals", todo # <<>>
  PROVE  LET n == Len(Signals(params, msg))
             s == Signals(params, msg)[Place]
         IN  /\ Place \in 1 .. n
             /\ Head(todo) = [name |-> s.name, value |-> Physical(s, PayloadOf(msg))]
             /\ DOMAIN todo = 1 .. Len(todo) /\ Len(Tail(todo)) = Len(todo) - 1
             /\ \A j \in 1 .. Len(todo) - 1 : j + 1 \in DOMAIN todo /\ Tail(todo)[j] = todo[j + 1]
<1> DEFINE n == Len(Signals(params, msg))
<1>1. /\ n \in Nat /\ DOMAIN Signals(params, msg) = 1 .. n
      /\ Len(todo) \in 0 .. n /\ Place = n - Len(todo) + 1
      /\ members.msg_map[msg.id] = Signals(params, msg)
  BY InFrame
<1>2. /\ DOMAIN todo = 1 .. Len(todo) /\ Len(todo) \in Nat \ {0}
      /\ Head(todo) = todo[1] /\ Len(Tail(todo)) = Len(todo) - 1
      /\ \A j \in 1 .. Len(todo) - 1 : Tail(todo)[j] = todo[j + 1]
  BY DEF TypeOK
<1> HIDE DEF n
<1>3. Place \in 1 .. n
  BY <1>1, <1>2
<1>4. todo[1] = decode(members.msg_map, msg.id, PayloadOf(msg))[Place - 1 + 1]
  BY <1>2 DEF FrameInv
<1>5. Place - 1 + 1 = Place
  BY <1>3
<1>6. Head(todo) = [name |-> Signals(params, msg)[Place].name,
                    value |-> Physical(Signals(params, msg)[Place], PayloadOf(msg))]
  <2> HIDE DEF Place
  <2> QED
    BY <1>1, <1>2, <1>3, <1>4, <1>5 DEF decode
<1>7. \A j \in 1 .. Len(todo) - 1 : j + 1 \in DOMAIN todo
  BY <1>2
<1> QED
  BY <1>2, <1>3, <1>6, <1>7 DEF n

(* Whichever way a signal is handled, the rest of the list stays what the  *)
(* decoder made of the places to come.                                     *)
LEMMA RestOfFrame ==
  ASSUME TypeOK, FrameInv, pc = "signals", todo # <<>>, todo' = Tail(todo),
         UNCHANGED <<pc, params, members, msg>>
  PROVE  /\ Place' = Place + 1
         /\ Decodable(members.msg_map, msg.id)'
         /\ Len(todo') <= Len(Signals(params', msg'))
         /\ \A j \in DOMAIN todo' :
               todo'[j] = decode(members.msg_map, msg.id, PayloadOf(msg))[Place + j]
<1> DEFINE n == Len(Signals(params, msg))
<1>1. /\ n \in Nat /\ Len(todo) \in 0 .. n /\ Place = n - Len(todo) + 1
      /\ members.msg_map[msg.id] = Signals(params, msg)
      /\ Decodable(members.msg_map, msg.id)
  BY InFrame
<1>2. /\ Place \in 1 .. n /\ DOMAIN todo = 1 .. Len(todo) /\ Len(todo') = Len(todo) - 1
      /\ \A j \in 1 .. Len(todo) - 1 : j + 1 \in DOMAIN todo /\ todo'[j] = todo[j + 1]
  BY HeadIsPlace
<1>3. DOMAIN todo' = 1 .. Len(todo')
  BY DEF TypeOK
<1>4. Place' = n - Len(todo') + 1
  BY <1>1 DEF Place
<1>5. \A j \in DOMAIN todo : todo[j] = decode(members.msg_map, msg.id, PayloadOf(msg))[Place - 1 + j]
  BY DEF FrameInv
<1> HIDE DEF n, Place
<1>6. \A j \in DOMAIN todo' :
          todo'[j] = decode(members.msg_map, msg.id, PayloadOf(msg))[Place + j]
  <2> SUFFICES ASSUME NEW j \in DOMAIN todo'
               PROVE  todo'[j] = decode(members.msg_map, msg.id, PayloadOf(msg))[Place + j]
    OBVIOUS
  <2>1. j \in 1 .. Len(todo) - 1
    BY <1>2, <1>3
  <2>2. todo'[j] = decode(members.msg_map, msg.id, PayloadOf(msg))[Place - 1 + (j + 1)]
    BY <1>2, <1>5, <2>1
  <2>3. Place - 1 + (j + 1) = Place + j
    BY <1>1, <1>2, <2>1
  <2> QED
    BY <2>2, <2>3
<1>7. Place' = Place + 1
  BY <1>1, <1>2, <1>4
<1>8. Len(todo') <= Len(Signals(params', msg'))
  BY <1>1, <1>2 DEF n
<1> QED
  BY <1>1, <1>6, <1>7, <1>8

(* A pass of the loop that handles its signal.                             *)
LEMMA SignalDataInv ==
  ASSUME TypeOK, DataInv, process_signal
  PROVE  DataInv'
<1> DEFINE p == params
           m == msg
           n == Len(Signals(params, msg))
           k == Place
           s == Signals(params, msg)[Place]
           res == resolve_signal(s.name, msg.id, members.router, members.signal_to_domain)
           v == transform(members.exprs, res.name, Physical(s, PayloadOf(msg)))
           sig == SignalAt(params, msg, Place)
           old == Remaining(failed, Place, n)
           new == Remaining(failed, Place + 1, n)
           domain == res.domain
           name == NameAt(params, msg, Place)
<1>1. /\ pc = "signals" /\ todo # <<>> /\ todo' = Tail(todo)
      /\ GroupSignal(Resolution(Head(todo)).name, Resolution(Head(todo)).domain,
                     SignalMsg(Resolution(Head(todo)).name,
                               transform(members.exprs, Resolution(Head(todo)).name, Head(todo).value)))
      /\ PromoteSignal(Resolution(Head(todo)).name,
                       transform(members.exprs, Resolution(Head(todo)).name, Head(todo).value))
      /\ UNCHANGED <<pc, params, members, domain_pubs_, promoted_pubs_, msg, failed, groups_out,
                     schema_sample>>
  BY DEF process_signal, configVars
<1>2. /\ p \in ParameterSpace /\ ValidParameters(p) /\ members = LoadedMembers(p) /\ m \in CanMsgs
      /\ n \in Nat /\ DOMAIN Signals(p, m) = 1 .. n /\ k \in 1 .. n
      /\ Head(todo) = [name |-> s.name, value |-> Physical(s, PayloadOf(m))]
      /\ Skipped = old /\ Failed(failed, k)
  <2>1. m \in CanMsgs
    BY <1>1 DEF TypeOK
  <2> QED
    BY <1>1, <2>1, InFrame, HeadIsPlace DEF DataInv
<1>3. /\ k' = k + 1
      /\ Decodable(members.msg_map, msg.id)'
      /\ Len(todo') <= Len(Signals(params', msg'))
      /\ \A j \in DOMAIN todo' : todo'[j] = decode(members.msg_map, msg.id, PayloadOf(msg))[k + j]
  BY <1>1, RestOfFrame DEF DataInv
<1>4. Skipped' = new /\ Failed(failed', k')
  <2>1. Failed(failed, k + 1)
    BY <1>2 DEF Failed
  <2> HIDE DEF Place
  <2> QED
    BY <1>1, <1>3, <2>1 DEF Skipped, Remaining
<1>5. /\ res.name = name
      /\ v = ValueAt(p, m, k)
      /\ SignalMsg(res.name, v) = sig
      /\ domain # kUnassignedDomain => AssignedTo(p, m.id, name, domain)
      /\ \A d : AssignedTo(p, m.id, name, d) => d = domain
  <2>1. m \in CanMsg /\ k \in DOMAIN Signals(p, m)
    BY <1>2, NodeAssumption
  <2> HIDE DEF Place
  <2> QED
    BY <1>2, <2>1, SignalAtPlace DEF SignalMsg
<1>6. /\ GroupSignal(name, domain, sig)
      /\ PromoteSignal(name, ValueAt(p, m, k))
  BY <1>1, <1>2, <1>5 DEF Resolution
<1>7. /\ \A d : InDomain(p, m, new, d) =
             IF AssignedTo(p, m.id, name, d) THEN Append(InDomain(p, m, old, d), sig)
             ELSE InDomain(p, m, old, d)
      /\ \A d : Append(InDomain(p, m, old, d), sig) # <<>>
      /\ InAny(p, m, new) =
             IF \E d \in DomainNames(p) : AssignedTo(p, m.id, name, d)
             THEN Append(InAny(p, m, old), sig)
             ELSE InAny(p, m, old)
      /\ PromotedOf(p, m, new) =
             IF PromotedAs(p, name) # {}
             THEN Append(PromotedOf(p, m, old),
                         [ topic_suffix |-> p.promoted[Max(PromotedAs(p, name))].topic_suffix,
                           data |-> ValueAt(p, m, k) ])
             ELSE PromotedOf(p, m, old)
  <2> HIDE DEF Place
  <2> QED
    BY <1>2, NextSignal
<1>8. /\ frame_signals_ = [d \in {e \in DomainNames(p) : InDomain(p, m, old, e) # <<>>} |->
                              InDomain(p, m, old, d)]
      /\ all_sigs_ = IF p.publish_all_signals THEN InAny(p, m, old) ELSE <<>>
      /\ promoted_out = PromotedOf(p, m, old)
      /\ promoted_pubs_ = PromotedPublishers(p)
  BY <1>1, <1>2 DEF DataInv, FrameInv, StartUpInv, Unloaded
<1>9. \A d : AssignedTo(p, m.id, name, d) => d \in DomainNames(p) /\ d # kUnassignedDomain
  BY DEF AssignedTo, DomainNames
<1>10. promoted_out' = PromotedOf(p, m, new)
  <2>1. /\ name \in DOMAIN PromotedPublishers(p) <=> PromotedAs(p, name) # {}
        /\ PromotedAs(p, name) # {} =>
               PromotedPublishers(p)[name] = p.promoted[Max(PromotedAs(p, name))].topic_suffix
    BY <1>2, AcceptedWellFormed, PromotedTopic
  <2>2. promoted_out' = IF name \in DOMAIN promoted_pubs_
                        THEN Append(promoted_out, [ topic_suffix |-> promoted_pubs_[name],
                                                    data |-> ValueAt(p, m, k) ])
                        ELSE promoted_out
    BY <1>6 DEF PromoteSignal
  <2> HIDE DEF old, new, name, k
  <2>3. CASE PromotedAs(p, name) # {}
    BY <1>7, <1>8, <2>1, <2>2, <2>3
  <2>4. CASE PromotedAs(p, name) = {}
    BY <1>7, <1>8, <2>1, <2>2, <2>4
  <2> QED
    BY <2>3, <2>4
<1> HIDE DEF n, k, s, res, v, sig, old, new, domain, name
<1> DEFINE Collected ==
           /\ frame_signals_' = [d \in {e \in DomainNames(p) : InDomain(p, m, new, e) # <<>>} |->
                                    InDomain(p, m, new, d)]
           /\ all_sigs_' = IF p.publish_all_signals THEN InAny(p, m, new) ELSE <<>>
<1>11. ASSUME domain = kUnassignedDomain PROVE Collected
  <2>1. \A d : ~AssignedTo(p, m.id, name, d)
    BY <1>5, <1>9, <1>11
  <2>2. UNCHANGED buffers
    BY <1>6, <1>11 DEF GroupSignal
  <2>3. InAny(p, m, new) = InAny(p, m, old) /\ \A d : InDomain(p, m, new, d) = InDomain(p, m, old, d)
    BY <1>7, <2>1
  <2>4. frame_signals_' = [d \in {e \in DomainNames(p) : InDomain(p, m, new, e) # <<>>} |->
                              InDomain(p, m, new, d)]
    BY <1>8, <2>2, <2>3 DEF buffers
  <2>5. all_sigs_' = IF p.publish_all_signals THEN InAny(p, m, new) ELSE <<>>
    BY <1>8, <2>2, <2>3 DEF buffers
  <2> QED
    BY <2>4, <2>5
<1>12. ASSUME domain # kUnassignedDomain PROVE Collected
  <2>1. domain \in DomainNames(p) /\ \A d : AssignedTo(p, m.id, name, d) <=> d = domain
    BY <1>5, <1>9, <1>12
  <2>2. /\ PushTo(domain, sig)
        /\ all_sigs_' = IF p.publish_all_signals THEN Append(all_sigs_, sig) ELSE all_sigs_
    BY <1>6, <1>12 DEF GroupSignal
  <2>3. /\ InAny(p, m, new) = Append(InAny(p, m, old), sig)
        /\ InDomain(p, m, new, domain) = Append(InDomain(p, m, old, domain), sig)
        /\ InDomain(p, m, new, domain) # <<>>
        /\ \A d : d # domain => InDomain(p, m, new, d) = InDomain(p, m, old, d)
    BY <1>7, <2>1
  <2>4. all_sigs_' = IF p.publish_all_signals THEN InAny(p, m, new) ELSE <<>>
    BY <1>8, <2>2, <2>3
  <2> DEFINE D == {e \in DomainNames(p) : InDomain(p, m, old, e) # <<>>}
             E == {e \in DomainNames(p) : InDomain(p, m, new, e) # <<>>}
  <2>5. E = D \cup {domain}
    BY <2>1, <2>3
  <2>6. \A d \in D : frame_signals_[d] = InDomain(p, m, old, d)
    BY <1>8
  <2>7. DOMAIN frame_signals_ = D
    BY <1>8
  <2>8. domain \notin D => InDomain(p, m, old, domain) = <<>>
    BY <2>1
  <2>9. Append(<<>>, sig) = <<sig>>
    OBVIOUS
  <2> HIDE DEF D, E
  <2>10. frame_signals_' =
             [d \in D \cup {domain} |->
                IF d # domain THEN frame_signals_[d]
                ELSE IF d \in D THEN Append(frame_signals_[d], sig) ELSE <<sig>>]
    BY <2>2, <2>7 DEF PushTo
  <2>11. ASSUME NEW d \in D \cup {domain}
         PROVE  (IF d # domain THEN frame_signals_[d]
                 ELSE IF d \in D THEN Append(frame_signals_[d], sig) ELSE <<sig>>) = InDomain(p, m, new, d)
    BY <2>3, <2>6, <2>8, <2>9
  <2>12. frame_signals_' = [d \in D \cup {domain} |-> InDomain(p, m, new, d)]
    BY <2>10, <2>11
  <2>13. frame_signals_' = [d \in E |-> InDomain(p, m, new, d)]
    BY <2>5, <2>12
  <2> QED
    BY <2>4, <2>13 DEF E
<1>13. Collected
  BY <1>11, <1>12
<1>14. FrameInv'
  <2>1. failed' \subseteq 1 .. Place' - 1
    BY <1>4 DEF Failed, k
  <2>2. /\ frame_signals_' = [d \in {e \in DomainNames(p) : InDomain(p, m, Skipped', e) # <<>>} |->
                                 InDomain(p, m, Skipped', d)]
        /\ all_sigs_' = IF p.publish_all_signals THEN InAny(p, m, Skipped') ELSE <<>>
        /\ promoted_out' = PromotedOf(p, m, Skipped')
    BY <1>4, <1>10, <1>13
  <2>3. \A j \in DOMAIN todo' :
            todo'[j] = decode(members.msg_map, msg.id, PayloadOf(msg))[Place' - 1 + j]
    <3>1. k \in Nat /\ Place' = k + 1
      BY <1>2, <1>3 DEF k
    <3>2. Place' - 1 = k
      BY <3>1
    <3> QED
      BY <1>3, <3>2
  <2>4. PayloadOf(msg)' = PayloadOf(msg)
    BY <1>1 DEF PayloadOf
  <2> HIDE DEF Collected
  <2> QED
    BY <1>1, <1>3, <2>1, <2>2, <2>3, <2>4 DEF FrameInv
<1>15. StartUpInv'
  BY <1>1, StartUpKept DEF DataInv, Unspun, Unloaded
<1>16. GroupsFaithful' /\ PromotedFaithful'
  BY <1>1 DEF GroupsFaithful, PromotedFaithful, FrameDone
<1> QED
  BY <1>14, <1>15, <1>16 DEF DataInv

(* A pass of the loop whose transform throws.                              *)
LEMMA ErrorDataInv ==
  ASSUME TypeOK, DataInv, transform_error
  PROVE  DataInv'
<1> DEFINE n == Len(Signals(params, msg))
           k == Place
<1>1. /\ pc = "signals" /\ todo # <<>> /\ todo' = Tail(todo) /\ failed' = failed \cup {k}
      /\ UNCHANGED <<pc, params, members, domain_pubs_, promoted_pubs_, msg, frame_signals_,
                     all_sigs_, groups_out, promoted_out, schema_sample>>
  BY DEF transform_error, configVars, buffers
<1>2. n \in Nat /\ k \in 1 .. n /\ Skipped = Remaining(failed, k, n) /\ Failed(failed, k)
  BY <1>1, InFrame, HeadIsPlace DEF DataInv
<1>3. /\ k' = k + 1
      /\ Decodable(members.msg_map, msg.id)'
      /\ Len(todo') <= Len(Signals(params', msg'))
      /\ \A j \in DOMAIN todo' : todo'[j] = decode(members.msg_map, msg.id, PayloadOf(msg))[k + j]
  BY <1>1, RestOfFrame DEF DataInv
<1>4. Skipped' = Skipped
  <2>1. Skipped' = (failed \cup {k}) \cup (k + 1 .. n)
    BY <1>1, <1>3 DEF Skipped
  <2> HIDE DEF k, n
  <2>2. k .. n = {k} \cup (k + 1 .. n)
    BY <1>2
  <2> QED
    BY <1>2, <2>1, <2>2 DEF Remaining
<1> HIDE DEF k, n
<1>5. FrameInv'
  <2>1. failed' \subseteq 1 .. k' - 1
    BY <1>1, <1>2, <1>3 DEF Failed
  <2>2. \A j \in DOMAIN todo' :
            todo'[j] = decode(members.msg_map, msg.id, PayloadOf(msg))[k' - 1 + j]
    <3>1. k' - 1 = k
      BY <1>2, <1>3
    <3> QED
      BY <1>3, <3>1
  <2>3. PayloadOf(msg)' = PayloadOf(msg)
    BY <1>1 DEF PayloadOf
  <2>4. /\ frame_signals_ = [d \in {e \in DomainNames(params) : InDomain(params, msg, Skipped, e) # <<>>} |->
                                 InDomain(params, msg, Skipped, d)]
        /\ all_sigs_ = IF params.publish_all_signals THEN InAny(params, msg, Skipped) ELSE <<>>
        /\ promoted_out = PromotedOf(params, msg, Skipped)
    BY <1>1 DEF DataInv, FrameInv
  <2>5. /\ frame_signals_' =
               [d \in {e \in DomainNames(params) : InDomain(params, msg, Skipped', e) # <<>>} |->
                                 InDomain(params, msg, Skipped', d)]
        /\ all_sigs_' = IF params.publish_all_signals THEN InAny(params, msg, Skipped') ELSE <<>>
        /\ promoted_out' = PromotedOf(params, msg, Skipped')
    BY <1>1, <1>4, <2>4
  <2> QED
    BY <1>1, <1>3, <2>1, <2>2, <2>3, <2>5 DEF FrameInv, k
<1>6. StartUpInv'
  BY <1>1, StartUpKept DEF DataInv, Unspun, Unloaded
<1>7. GroupsFaithful' /\ PromotedFaithful'
  BY <1>1 DEF GroupsFaithful, PromotedFaithful, FrameDone
<1> QED
  BY <1>5, <1>6, <1>7 DEF DataInv

(* The end of a frame: what the buffers hold is published.                 *)
LEMMA PublishDataInv ==
  ASSUME TypeOK, DataInv, publish_groups
  PROVE  DataInv'
<1> DEFINE p == params
           m == msg
           n == Len(Signals(params, msg))
<1>1. /\ pc = "signals" /\ todo = <<>> /\ pc' = "spin"
      /\ groups_out' = DomainGroups \cup Firehose
      /\ UNCHANGED <<params, members, domain_pubs_, promoted_pubs_, msg, failed, promoted_out,
                     schema_sample>>
  BY DEF publish_groups, configVars
<1>2. /\ p \in ParameterSpace /\ ValidParameters(p) /\ members = LoadedMembers(p)
      /\ n \in Nat /\ Place = n - Len(todo) + 1 /\ Skipped = Remaining(failed, Place, n)
  BY <1>1, InFrame DEF DataInv
<1>3. Skipped = failed
  <2>1. Len(todo) = 0
    BY <1>1
  <2>2. Place = n + 1
    BY <1>2, <2>1
  <2> HIDE DEF n, Place, Skipped
  <2>3. Place .. n = {}
    BY <1>2, <2>2
  <2> QED
    BY <1>2, <2>3 DEF Remaining
<1>4. /\ frame_signals_ = [d \in {e \in DomainNames(p) : InDomain(p, m, failed, e) # <<>>} |->
                              InDomain(p, m, failed, d)]
      /\ all_sigs_ = IF p.publish_all_signals THEN InAny(p, m, failed) ELSE <<>>
      /\ promoted_out = PromotedOf(p, m, failed)
  BY <1>1, <1>3 DEF DataInv, FrameInv
<1>5. domain_pubs_ = DomainPublishers(p, members.router)
  BY <1>1 DEF DataInv, StartUpInv, Unloaded
<1>6. \A d : /\ d \in DOMAIN domain_pubs_ =>
                    d \in DomainNames(p) /\ LiveTopicsOf(p, d) = {domain_pubs_[d]}
             /\ d \notin DOMAIN domain_pubs_ => LiveTopicsOf(p, d) = {}
  <2> DEFINE router == members.router
             aliases == AliasMap(p)
  <2>1. router = configure(p.domains, aliases)
    BY <1>2 DEF LoadedMembers, AliasMap
  <2> HIDE DEF router, aliases
  <2>2. domain_pubs_ = DomainPublishers(p, router)
    BY <1>5 DEF router
  <2>3. WellFormed(p) /\ DeclaredOnce(p.domains) /\ DeclaredOnce(p.schema)
    BY <1>2, AcceptedWellFormed
  <2> SUFFICES ASSUME NEW d
               PROVE  /\ d \in DOMAIN domain_pubs_ =>
                             d \in DomainNames(p) /\ LiveTopicsOf(p, d) = {domain_pubs_[d]}
                      /\ d \notin DOMAIN domain_pubs_ => LiveTopicsOf(p, d) = {}
    OBVIOUS
  <2>4. LET pubs == DomainPublishers(p, router)
        IN  /\ d \in DOMAIN pubs => d \in DomainNames(p) /\ LiveTopicsOf(p, d) = {pubs[d]}
            /\ d \notin DOMAIN pubs => LiveTopicsOf(p, d) = {}
    BY <2>1, <2>3, PublishedTopics
  <2> QED
    BY <2>2, <2>4
<1>7. DomainGroups = GroupsOn(p, m, failed, LAMBDA d : LiveTopicsOf(p, d))
  <2> DEFINE In(d) == InDomain(p, m, failed, d)
             D == DomainNames(p)
             Live(d) == LiveTopicsOf(p, d)
             Right == {g \in {Group(t, d, m.stamp, In(d)) : d \in D, t \in UNION {Live(d) : d \in D}} :
                          g.signals # <<>> /\ g.topic \in Live(g.domain)}
  <2>1. GroupsOn(p, m, failed, LAMBDA d : LiveTopicsOf(p, d)) = Right
    BY DEF GroupsOn
  <2>2. DomainGroups = {Group(domain_pubs_[d], d, m.stamp, frame_signals_[d]) :
                            d \in DOMAIN frame_signals_ \cap DOMAIN domain_pubs_}
    BY DEF DomainGroups, GroupMsg, Group
  <2>3. /\ DOMAIN frame_signals_ = {e \in D : In(e) # <<>>}
        /\ \A d \in DOMAIN frame_signals_ : frame_signals_[d] = In(d)
    BY <1>4
  <2>4. /\ \A d \in DOMAIN domain_pubs_ : d \in D /\ Live(d) = {domain_pubs_[d]}
        /\ \A d : Live(d) # {} => d \in DOMAIN domain_pubs_
    BY <1>6
  <2> HIDE DEF D, In, Live
  <2>5. ASSUME NEW g \in DomainGroups PROVE g \in Right
    <3>1. PICK d \in DOMAIN frame_signals_ \cap DOMAIN domain_pubs_ :
              g = Group(domain_pubs_[d], d, m.stamp, frame_signals_[d])
      BY <2>2, <2>5
    <3>2. d \in D /\ In(d) # <<>> /\ frame_signals_[d] = In(d) /\ domain_pubs_[d] \in Live(d)
      BY <2>3, <2>4, <3>1
    <3>3. g.signals = In(d) /\ g.topic = domain_pubs_[d] /\ g.domain = d
      BY <3>1, <3>2 DEF Group
    <3>4. domain_pubs_[d] \in UNION {Live(e) : e \in D}
      BY <3>2
    <3>5. g = Group(domain_pubs_[d], d, m.stamp, In(d))
      BY <3>1, <3>2
    <3> QED
      BY <3>2, <3>3, <3>4, <3>5
  <2>6. ASSUME NEW g \in Right PROVE g \in DomainGroups
    <3>1. PICK d \in D, t \in UNION {Live(e) : e \in D} : g = Group(t, d, m.stamp, In(d))
      BY <2>6
    <3>2. g.signals # <<>> /\ g.topic \in Live(g.domain)
      BY <2>6
    <3>3. g.signals = In(d) /\ g.topic = t /\ g.domain = d
      BY <3>1 DEF Group
    <3>4. In(d) # <<>> /\ t \in Live(d)
      BY <3>2, <3>3
    <3>5. d \in DOMAIN domain_pubs_ /\ t = domain_pubs_[d]
      BY <2>4, <3>4
    <3>6. d \in DOMAIN frame_signals_ /\ frame_signals_[d] = In(d)
      BY <2>3, <3>1, <3>4
    <3> QED
      BY <2>2, <3>1, <3>5, <3>6
  <2> HIDE DEF Right
  <2> QED
    BY <2>1, <2>5, <2>6
<1>8. Firehose = FirehoseOf(p, m, failed)
  BY <1>4 DEF Firehose, FirehoseOf, GroupMsg, Group
<1>9. groups_out' = GroupsOf(p, m, failed)
  BY <1>1, <1>7, <1>8, Zenon DEF GroupsOf
<1>10. GroupsFaithful' /\ PromotedFaithful'
  BY <1>1, <1>4, <1>9 DEF GroupsFaithful, PromotedFaithful
<1>11. FrameInv' /\ StartUpInv'
  BY <1>1, StartUpKept DEF DataInv, FrameInv, Unspun, Unloaded
<1> QED
  BY <1>10, <1>11 DEF DataInv

--------------------------------------------------------------------------------
(* The constructor builds what StartUpInv says, and no frame is processed  *)
(* before it is done.                                                      *)
LEMMA ConstructDataInv ==
  ASSUME DataInv, Construct
  PROVE  DataInv'
<1>1. /\ pc' \notin {"signals"} /\ UNCHANGED msg
      /\ pc \in Unspun
  BY DEF Construct, load_parameters, setup_publishers, FirstSchema, create_subscription,
         setup_diagnostics_timer, setup_schema_timer, frameVars, Unspun, Unloaded
<1>2. msg' = None
  BY <1>1 DEF DataInv, StartUpInv
<1>3. FrameInv' /\ GroupsFaithful' /\ PromotedFaithful'
  BY <1>1, <1>2 DEF FrameInv, GroupsFaithful, PromotedFaithful, FrameDone
<1>4. StartUpInv'
  <2> USE <1>2 DEF DataInv, StartUpInv, Unspun, Unloaded, configVars
  <2>1. CASE load_parameters
    BY <2>1 DEF load_parameters
  <2>2. CASE setup_publishers
    BY <2>2 DEF setup_publishers
  <2>3. CASE FirstSchema
    BY <2>3 DEF FirstSchema, publish_schema, SchemaMessage, SignalTable
  <2>4. CASE create_subscription
    BY <2>4 DEF create_subscription, SchemaMessage, SignalTable
  <2>5. CASE setup_diagnostics_timer
    BY <2>5 DEF setup_diagnostics_timer, SchemaMessage, SignalTable
  <2>6. CASE setup_schema_timer
    BY <2>6 DEF setup_schema_timer, SchemaMessage, SignalTable
  <2> QED
    BY <2>1, <2>2, <2>3, <2>4, <2>5, <2>6 DEF Construct
<1> QED
  BY <1>3, <1>4 DEF DataInv

(* What a step leaves of a frame in progress or a frame done.              *)
LEMMA FrameKept ==
  ASSUME FrameInv, GroupsFaithful, PromotedFaithful,
         pc' \in {"signals", "spin"} => pc' = pc,
         UNCHANGED <<params, members, msg, todo, failed, frame_signals_, all_sigs_, groups_out,
                     promoted_out>>
  PROVE  FrameInv' /\ GroupsFaithful' /\ PromotedFaithful'
<1>1. GroupsFaithful' /\ PromotedFaithful'
  BY DEF GroupsFaithful, PromotedFaithful, FrameDone
<1>2. FrameInv'
  BY DEF FrameInv, Place, Skipped, PayloadOf
<1> QED
  BY <1>1, <1>2

(* The timers, arrivals, time and shutdown.                                *)
LEMMA OtherDataInv ==
  ASSUME DataInv,
         \/ on_diagnostics_timer \/ on_schema_timer \/ Shutdown
         \/ (\E m \in CanMsgs : Receive(m)) \/ Tick \/ Terminated \/ UNCHANGED vars
  PROVE  DataInv'
<1>1. /\ UNCHANGED <<params, members, domain_pubs_, promoted_pubs_, msg, todo, failed,
                     frame_signals_, all_sigs_, groups_out, promoted_out>>
      /\ pc' \in {"signals", "spin"} => pc' = pc
      /\ pc' \in Unspun \/ pc \in Unspun => pc' = pc
      /\ schema_sample' = schema_sample \/ (schema_sample' = SchemaMessage /\ pc' \notin Unspun)
  BY DEF on_diagnostics_timer, on_schema_timer, publish_schema, Shutdown, Receive, Tick, Terminated,
         vars, configVars, buffers, frameVars, Unspun, Unloaded
<1>2. FrameInv' /\ GroupsFaithful' /\ PromotedFaithful'
  BY <1>1, FrameKept DEF DataInv
<1>3. StartUpInv'
  <2>1. SchemaMessage' = SchemaMessage
    BY <1>1 DEF SchemaMessage, SignalTable
  <2> QED
    BY <1>1, <2>1 DEF DataInv, StartUpInv, Unspun, Unloaded
<1> QED
  BY <1>2, <1>3 DEF DataInv

LEMMA InitDataInv == Init => DataInv
  BY DEF Init, DataInv, FrameInv, StartUpInv, GroupsFaithful, PromotedFaithful, FrameDone, Unspun,
         Unloaded

LEMMA StepDataInv == TypeOK /\ DataInv /\ [Next]_vars => DataInv'
<1>1. TypeOK /\ [Next]_vars => TypeOK'
  BY StepTypeOK
<1> QED
  BY <1>1, ConstructDataInv, FrameDataInv, SignalDataInv, ErrorDataInv, PublishDataInv, OtherDataInv
     DEF Next

(* The data invariant holds throughout: the buffers of a frame in progress *)
(* hold what the places handled so far mean, and no more.                  *)
THEOREM DataCorrect == Spec => []DataInv
<1>1. Init => TypeOK /\ DataInv
  BY InitTypeOK, InitDataInv
<1>2. (TypeOK /\ DataInv) /\ [Next]_vars => (TypeOK /\ DataInv)'
  BY StepTypeOK, StepDataInv
<1> QED
  BY <1>1, <1>2, PTL DEF Spec

(* Of every frame, the groups and the firehose carry exactly its own        *)
(* signals, on the topics of their domains (GroupsFaithful).               *)
THEOREM GroupsAreFaithful == Spec => []GroupsFaithful
<1>1. DataInv => GroupsFaithful
  BY DEF DataInv
<1> QED
  BY <1>1, DataCorrect, PTL

(* Of every frame, the promoted topics carry exactly its promoted signals  *)
(* (PromotedFaithful).                                                     *)
THEOREM PromotedAreFaithful == Spec => []PromotedFaithful
<1>1. DataInv => PromotedFaithful
  BY DEF DataInv
<1> QED
  BY <1>1, DataCorrect, PTL

(* The schema sample resolves every published id, whatever was published:   *)
(* the id is in one row only, the row has the canonical name of the signal, *)
(* and its unit_id leads to the unit configured for it (SchemaResolves).    *)
LEMMA ResolvedBySchema == TypeOK /\ DataInv => SchemaResolves
<1> SUFFICES ASSUME TypeOK, DataInv, FrameDone,
                    NEW k \in DOMAIN Signals(params, msg) \ failed,
                    SignalAt(params, msg, k).name_id # 0
             PROVE  LET id == SignalAt(params, msg, k).name_id
                        table == schema_sample.signal_table
                        rows == {i \in DOMAIN table : table[i].id = id}
                        row == table[CHOOSE i \in rows : TRUE]
                        unit == params.signal_id_unit_names[id]
                    IN  /\ \E i \in rows : rows = {i}
                        /\ row.name = NameAt(params, msg, k)
                        /\ IF row.unit_id = 0
                           THEN unit \notin ToSet(params.unit_id_names)
                           ELSE schema_sample.unit_table[row.unit_id] = unit
  BY DEF SchemaResolves
<1> DEFINE p == params
           name == NameAt(params, msg, k)
           id == SignalAt(params, msg, k).name_id
           table == schema_sample.signal_table
           rows == {i \in DOMAIN table : table[i].id = id}
           row == table[CHOOSE i \in rows : TRUE]
           unit == params.signal_id_unit_names[id]
           ids == PlacesOf(p.signal_id_names, name)
           units == IdByPlace(p.unit_id_names)
<1>1. /\ p \in ParameterSpace /\ ValidParameters(p) /\ members = LoadedMembers(p)
      /\ schema_sample = SchemaMessage
  BY LoadedType DEF FrameDone, DataInv, StartUpInv, Unloaded
<1>2. table = SignalTable(members) /\ schema_sample.unit_table = p.unit_id_names
  BY <1>1 DEF SchemaMessage
<1>3. /\ IsList(p.signal_id_names) /\ IsList(p.unit_id_names) /\ TablesFit(p)
      /\ Len(p.signal_id_names) <= MaxTableId /\ Len(p.unit_id_names) <= MaxTableId
  BY <1>1, AcceptedWellFormed DEF WellFormed, TablesFit
<1>4. id = IF ids = {} THEN 0 ELSE Max(ids)
  BY DEF SignalAt, PlacesOf
<1>5. /\ name \in DOMAIN IdByPlace(p.signal_id_names) <=> ids # {}
      /\ ids # {} => IdByPlace(p.signal_id_names)[name] = Max(ids)
  BY <1>3, IdIsLastPlace
<1>6. name \in DOMAIN IdByPlace(p.signal_id_names) /\ IdByPlace(p.signal_id_names)[name] = id
  BY <1>4, <1>5
<1>7. /\ members.signal_name_to_id = IdByPlace(p.signal_id_names)
      /\ members.signal_id_to_unit_id =
             UnitBySignalId(p.signal_id_names, p.signal_id_unit_names, IdByPlace(p.unit_id_names))
  BY <1>1 DEF LoadedMembers
<1> HIDE DEF name, id, ids
<1>8. PICK i : RowOf(p, SignalTable(members), name, i)
  <2> DEFINE m == members
  <2>1. m.signal_name_to_id = IdByPlace(p.signal_id_names)
    BY <1>7
  <2>2. m.signal_id_to_unit_id =
            UnitBySignalId(p.signal_id_names, p.signal_id_unit_names, IdByPlace(p.unit_id_names))
    BY <1>7
  <2> HIDE DEF m
  <2>3. \E i : RowOf(p, SignalTable(m), name, i)
    BY <1>3, <1>6, <2>1, <2>2, TableRow
  <2> QED
    BY <2>3 DEF m
<1>9. /\ i \in DOMAIN table /\ table[i].id = id
       /\ \A j \in DOMAIN table : table[j].id = id => j = i
       /\ table[i].name = name
       /\ table[i].unit_id = IF unit \in DOMAIN units THEN units[unit] ELSE 0
  <2> HIDE DEF table
  <2> QED
    BY <1>2, <1>6, <1>8 DEF RowOf
<1> HIDE DEF table, unit, units
<1>10. rows = {i} /\ row = table[i]
  <2>1. rows = {i}
    BY <1>9
  <2> HIDE DEF rows
  <2> QED
    BY <2>1
<1>11. unit \in DOMAIN units <=> unit \in ToSet(p.unit_id_names)
  <2>1. unit \in DOMAIN units <=> PlacesOf(p.unit_id_names, unit) # {}
    BY <1>3, IdIsLastPlace DEF units
  <2> QED
    BY <2>1 DEF PlacesOf, ToSet
<1>12. unit \in DOMAIN units => units[unit] # 0 /\ p.unit_id_names[units[unit]] = unit
  <2>1. unit \in DOMAIN units =>
            p.unit_id_names[units[unit]] = unit /\ units[unit] \in 1 .. MaxTableId
    BY <1>3, IdIsAPlace DEF units
  <2> QED
    BY <2>1, ParameterAssumption
<1> HIDE DEF rows, row
<1>13. /\ \E j \in rows : rows = {j}
       /\ row.name = name
       /\ IF row.unit_id = 0 THEN unit \notin ToSet(p.unit_id_names)
          ELSE schema_sample.unit_table[row.unit_id] = unit
  BY <1>2, <1>10, <1>11, <1>12, <1>9
<1> QED
  BY <1>13 DEF rows, row, name, id, table, unit

(* So it does throughout: every id the node publishes, a subscriber that   *)
(* joins now can resolve (SchemaResolves).                                 *)
THEOREM SchemaAlwaysResolves == Spec => []SchemaResolves
  BY TypeCorrect, DataCorrect, ResolvedBySchema, PTL
================================================================================
