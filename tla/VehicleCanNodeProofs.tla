-------------------------- MODULE VehicleCanNodeProofs -------------------------
(* The timeout monitor on its own; type correctness of the node, that it     *)
(* drives its monitor as the monitor's specification allows, and the timing *)
(* of its diagnostics.                                                      *)
EXTENDS NodeProperties, FrameLemmas

--------------------------------------------------------------------------------
(* The monitor, for any signals, clock width and timeouts.                 *)

(* The map stays well typed whatever operations are called in what order.  *)
THEOREM MonitorTypeCorrect == MonitorSpec => []MonitorTypeOK
<1>1. MonitorInit => MonitorTypeOK
  BY DEF MonitorInit, MonitorTypeOK
<1>2. MonitorTypeOK /\ [MonitorNext]_states_ => MonitorTypeOK'
  <2> SUFFICES ASSUME MonitorTypeOK, [MonitorNext]_states_
               PROVE  MonitorTypeOK'
    OBVIOUS
  <2> USE TimeAssumption DEF MonitorTypeOK, SignalState, Time, STATUS_OK, STATUS_TIMEOUT, STATUS_INITIAL
  <2>1. ASSUME NEW s \in Signal, register_signal(s)
        PROVE  MonitorTypeOK'
    BY <2>1 DEF register_signal, NewState
  <2>2. ASSUME NEW s \in Signal, NEW instant \in Time, signal_received(s, instant)
        PROVE  MonitorTypeOK'
    BY <2>2 DEF signal_received
  <2>3. ASSUME NEW instant \in Time, NEW timeout_ms \in Threshold,
               check_timeouts(instant, timeout_ms)
        PROVE  MonitorTypeOK'
    BY <2>3 DEF check_timeouts, CheckedStates
  <2>4. CASE UNCHANGED states_
    BY <2>4
  <2> QED
    BY <2>1, <2>2, <2>3, <2>4 DEF MonitorNext
<1> QED
  BY <1>1, <1>2, PTL DEF MonitorSpec

(* Every operation respects the documented life cycle of an entry.         *)
THEOREM MonitorLifeCycle == MonitorSpec => LifeCycle
<1> DEFINE Step == /\ DOMAIN states_ \subseteq DOMAIN states_'
                   /\ \A s \in DOMAIN states_ : EntryStep(states_[s], states_'[s])
<1>1. MonitorTypeOK /\ [MonitorNext]_states_ => [Step]_states_
  <2> SUFFICES ASSUME MonitorTypeOK, MonitorNext
               PROVE  Step
    OBVIOUS
  <2> USE DEF EntryStep, MonitorTypeOK, SignalState
  <2>1. ASSUME NEW s \in Signal, register_signal(s)
        PROVE  Step
    BY <2>1 DEF register_signal
  <2>2. ASSUME NEW s \in Signal, NEW instant \in Time, signal_received(s, instant)
        PROVE  Step
    BY <2>2 DEF signal_received
  <2>3. ASSUME NEW instant \in Time, NEW timeout_ms \in Threshold,
               check_timeouts(instant, timeout_ms)
        PROVE  Step
    BY <2>3 DEF check_timeouts, CheckedStates, newly_timed_out, Expired
  <2> QED
    BY <2>1, <2>2, <2>3 DEF MonitorNext
<1> QED
  BY <1>1, MonitorTypeCorrect, PTL DEF MonitorSpec, LifeCycle

(* Between two instants in order, the unsigned difference is the difference. *)
LEMMA UnsignedDifference ==
  ASSUME NEW a \in Time, NEW b \in Time, b > a
  PROVE  (b - a) % TimeModulus = b - a
  BY TimeAssumption DEF Time

(* The test of the code expires an entry exactly when the silence, as an   *)
(* integer, exceeds the threshold.                                         *)
LEMMA ExpiredIsOverdue ==
  ASSUME NEW st \in SignalState, NEW now \in Time, NEW timeout \in Threshold
  PROVE  Expired(st, now, timeout) <=>
            st.status = STATUS_OK /\ now - st.last_seen_ms > timeout
<1>1. st.last_seen_ms \in Time
  BY DEF SignalState
<1>2. timeout \in Nat /\ now \in Nat /\ st.last_seen_ms \in Nat
  BY <1>1, TimeAssumption DEF Time
<1>3. CASE now > st.last_seen_ms
  BY <1>1, <1>2, <1>3, UnsignedDifference DEF Expired
<1>4. CASE ~(now > st.last_seen_ms)
  BY <1>2, <1>4 DEF Expired
<1> QED
  BY <1>3, <1>4

(* The monitor implements SignalFreshness: every operation of the class is *)
(* a step of the abstract specification or changes nothing it can see.     *)
THEOREM MonitorRefinesFreshness == MonitorSpec => ImplementsFreshness
<1> USE DEF STATUS_OK, STATUS_TIMEOUT, STATUS_INITIAL
<1>1. MonitorInit => Freshness!Init
  BY DEF MonitorInit, Freshness!Init, WithStatus
<1>2. MonitorTypeOK /\ [MonitorNext]_states_ => [Freshness!Next]_(Freshness!vars)
  <2> SUFFICES ASSUME MonitorTypeOK, [MonitorNext]_states_
               PROVE  Freshness!Next \/ UNCHANGED Freshness!vars
    OBVIOUS
  <2>1. ASSUME NEW s \in Signal, register_signal(s)
        PROVE  UNCHANGED Freshness!vars
    <3>1. /\ WithStatus(STATUS_OK)' = WithStatus(STATUS_OK)
          /\ WithStatus(STATUS_TIMEOUT)' = WithStatus(STATUS_TIMEOUT)
      BY <2>1 DEF register_signal, WithStatus, NewState
    <3>2. \A x \in DOMAIN states_ : states_'[x] = states_[x]
      BY <2>1 DEF register_signal
    <3> QED
      BY <3>1, <3>2 DEF Freshness!vars, WithStatus
  <2>2. ASSUME NEW s \in Signal, NEW instant \in Time, signal_received(s, instant)
        PROVE  Freshness!Hear(s, instant)
    <3>1. /\ WithStatus(STATUS_OK)' = WithStatus(STATUS_OK) \cup {s}
          /\ WithStatus(STATUS_TIMEOUT)' = WithStatus(STATUS_TIMEOUT) \ {s}
      BY <2>2 DEF signal_received, WithStatus
    <3>2. \A x \in WithStatus(STATUS_OK)' \cup WithStatus(STATUS_TIMEOUT)' :
             states_'[x].last_seen_ms = IF x = s THEN instant ELSE states_[x].last_seen_ms
      BY <2>2 DEF signal_received, WithStatus
    <3> QED
      BY <3>1, <3>2 DEF Freshness!Hear
  <2>3. ASSUME NEW instant \in Time, NEW timeout_ms \in Threshold,
               check_timeouts(instant, timeout_ms)
        PROVE  Freshness!Check(instant, timeout_ms)
    <3> DEFINE Late == newly_timed_out(instant, timeout_ms)
    <3>1. Late = Freshness!Overdue(instant, timeout_ms)
      <4>1. \A x \in DOMAIN states_ : states_[x] \in SignalState
        BY DEF MonitorTypeOK
      <4> QED
        BY <4>1, ExpiredIsOverdue DEF newly_timed_out, Freshness!Overdue, WithStatus
    <3>2. \A x \in Late : states_[x].status = STATUS_OK
      BY DEF newly_timed_out, Expired
    <3>3. /\ DOMAIN states_' = DOMAIN states_
          /\ \A x \in DOMAIN states_ :
                /\ states_'[x].last_seen_ms = states_[x].last_seen_ms
                /\ states_'[x].status = IF x \in Late THEN STATUS_TIMEOUT ELSE states_[x].status
      BY <2>3 DEF check_timeouts, CheckedStates, MonitorTypeOK, SignalState
    <3>4. /\ WithStatus(STATUS_OK)' = WithStatus(STATUS_OK) \ Late
          /\ WithStatus(STATUS_TIMEOUT)' = WithStatus(STATUS_TIMEOUT) \cup Late
      BY <3>2, <3>3 DEF WithStatus, newly_timed_out
    <3>5. Late \subseteq WithStatus(STATUS_OK)
      BY <3>2 DEF WithStatus, newly_timed_out
    <3> QED
      BY <3>1, <3>3, <3>4, <3>5 DEF Freshness!Check, WithStatus
  <2>4. CASE UNCHANGED states_
    BY <2>4 DEF Freshness!vars, WithStatus
  <2> QED
    BY <2>1, <2>2, <2>3, <2>4 DEF MonitorNext, Freshness!Next
<1> QED
  BY <1>1, <1>2, MonitorTypeCorrect, PTL DEF MonitorSpec, ImplementsFreshness, Freshness!Spec

--------------------------------------------------------------------------------
(* The node.                                                               *)

(* The aliases lead from signal names to signal names.                     *)
LEMMA AliasMapType ==
  ASSUME NEW p \in ParameterSpace
  PROVE  LET aliases == LoadedMembers(p).router.aliases
         IN  /\ DOMAIN aliases \subseteq Signal
             /\ \A s \in DOMAIN aliases : aliases[s] \in Signal
<1> DEFINE vals == [i \in DOMAIN p.aliases |-> p.aliases[i].to]
<1>1. p.aliases \in Seq([name : Signal, to : Signal])
  BY DEF ParameterSpace
<1>2. /\ Len(p.aliases) \in Nat /\ DOMAIN p.aliases = 1 .. Len(p.aliases)
      /\ \A i \in DOMAIN p.aliases : p.aliases[i] \in [name : Signal, to : Signal]
  BY <1>1, SeqElements
<1>3. vals \in [DOMAIN p.aliases -> Signal]
  BY <1>2
<1>4. LoadedMembers(p).router.aliases = ByName(p.aliases, vals)
  BY DEF LoadedMembers, configure
<1>5. \A i \in DOMAIN p.aliases : p.aliases[i].name \in Signal
  BY <1>2
<1> HIDE DEF vals
<1>6. /\ DOMAIN ByName(p.aliases, vals) \subseteq Signal
      /\ \A s \in DOMAIN ByName(p.aliases, vals) : ByName(p.aliases, vals)[s] \in Signal
  BY <1>2, <1>3, <1>5, ByNameType
<1> QED
  BY <1>4, <1>6

(* Whatever the parameters, a signal of the DBC resolves to a known name.  *)
LEMMA ResolutionType ==
  ASSUME NEW p \in ParameterSpace, NEW raw \in Signal, NEW id
  PROVE  resolve_signal(raw, id, LoadedMembers(p).router, LoadedMembers(p).signal_to_domain).name
            \in Signal
<1> DEFINE router == LoadedMembers(p).router
           key == CompoundKey(id, raw)
<1>1. apply_alias(router, raw) \in Signal
  BY AliasMapType DEF apply_alias
<1>2. apply_alias(router, key) # key => apply_alias(router, key) \in Signal
  BY AliasMapType DEF apply_alias
<1> HIDE DEF router
<1> QED
  BY <1>1, <1>2 DEF resolve_signal, router

(* Every value that reaches a message is a value of the DBC's signals or   *)
(* of an expression over them.                                             *)
LEMMA ExprsType ==
  ASSUME NEW p \in ParameterSpace, NEW s \in DOMAIN LoadedMembers(p).exprs
  PROVE  LoadedMembers(p).exprs[s] \in Expression
<1> DEFINE Text == Expression \cup {""}
           vals == [i \in DOMAIN p.transforms |-> p.transforms[i].expression]
           configs == ByName(p.transforms, vals)
<1>1. p.transforms \in Seq([name : Signal, expression : Expression \cup {""}])
  BY DEF ParameterSpace
<1>2. /\ Len(p.transforms) \in Nat /\ DOMAIN p.transforms = 1 .. Len(p.transforms)
      /\ \A i \in DOMAIN p.transforms :
            p.transforms[i] \in [name : Signal, expression : Expression \cup {""}]
  BY <1>1, SeqElements
<1>3. vals \in [DOMAIN p.transforms -> Text]
  BY <1>2
<1>4. LoadedMembers(p).exprs = CompiledExprs(configs)
  BY DEF LoadedMembers
<1>5. \A i \in DOMAIN p.transforms : p.transforms[i].name \in Signal
  BY <1>2
<1> HIDE DEF vals, Text
<1>6. \A x \in DOMAIN configs : configs[x] \in Text
  BY <1>2, <1>3, <1>5, ByNameType
<1> USE DEF Text
<1> HIDE DEF configs
<1> QED
  BY <1>4, <1>6 DEF CompiledExprs, NoExpression

(* A transformed value is a value.                                         *)
LEMMA TransformType ==
  ASSUME NEW p \in ParameterSpace, NEW s, NEW v \in Value
  PROVE  transform(LoadedMembers(p).exprs, s, v) \in Value
  BY ExprsType, DataAssumption DEF transform

(* A frame the DBC file knows decodes to named values, whatever its dlc.   *)
LEMMA PayloadType ==
  ASSUME NEW m \in CanMsg
  PROVE  PayloadOf(m) \in [1 .. NBytes -> Byte]
  BY NodeAssumption DEF PayloadOf, CanMsg

(* The decoded signals are named values.                                   *)
LEMMA DecodeType ==
  ASSUME NEW p \in ParameterSpace, NEW id \in DOMAIN LoadedMembers(p).msg_map,
         NEW data \in [1 .. NBytes -> Byte]
  PROVE  decode(LoadedMembers(p).msg_map, id, data) \in Seq([name : Signal, value : Value])
<1> DEFINE ms == p.dbc.messages
           ids == {i \in DOMAIN p.dbc.messages : p.dbc.messages[i].id = id}
           signals == LoadedMembers(p).msg_map[id]
<1>1. p.dbc.messages \in Seq([id : Nat, signals : Seq(DbcSignal)])
  BY DEF ParameterSpace
<1>2. /\ DOMAIN p.dbc.messages = 1 .. Len(p.dbc.messages) /\ Len(p.dbc.messages) \in Nat
      /\ \A i \in DOMAIN p.dbc.messages : p.dbc.messages[i] \in [id : Nat, signals : Seq(DbcSignal)]
  BY <1>1, SeqElements
<1>3. LoadedMembers(p).msg_map = build_map(p.dbc.messages)
  BY DEF LoadedMembers
<1>4. ids # {} /\ ids \subseteq Nat
  <2>1. id \in {ms[i].id : i \in DOMAIN ms}
    BY <1>3 DEF build_map
  <2> QED
    BY <1>2, <2>1
<1>5. Min(ids) \in DOMAIN p.dbc.messages
  BY <1>4, MinInSet
<1>6. signals = p.dbc.messages[Min(ids)].signals
  BY <1>3 DEF build_map
<1>7. signals \in Seq(DbcSignal)
  BY <1>2, <1>5, <1>6
<1> HIDE DEF signals
<1>8. Len(signals) \in Nat /\ DOMAIN signals = 1 .. Len(signals) /\ \A i \in DOMAIN signals : signals[i] \in DbcSignal
  BY <1>7, SeqElements
<1>9. \A i \in DOMAIN signals :
          [name |-> signals[i].name, value |-> Physical(signals[i], data)] \in [name : Signal, value : Value]
  BY <1>8, DataAssumption DEF DbcSignal
<1>10. [i \in 1 .. Len(signals) |-> [name |-> signals[i].name, value |-> Physical(signals[i], data)]]
          \in Seq([name : Signal, value : Value])
  BY <1>8, <1>9
<1> QED
  BY <1>8, <1>10 DEF decode, signals

--------------------------------------------------------------------------------
(* Truncation of an instant.                                               *)
LEMMA Truncation ==
  ASSUME NEW c \in Nat, NEW d \in Nat \ {0}
  PROVE  /\ c \div d \in Nat
         /\ (c \div d) * d <= c
         /\ c < (c \div d) * d + d
         /\ c \div d <= c
<1>1. c = d * (c \div d) + (c % d) /\ c % d \in 0 .. d - 1 /\ c \div d \in Int
  OBVIOUS
<1> QED
  BY <1>1

(* now_ms fits the instants of the monitor.                                *)
LEMMA NowIsTime == TypeOK => now_ms \in Time
<1> SUFFICES ASSUME TypeOK PROVE now_ms \in Time
  OBVIOUS
<1>1. clock \in Nat /\ clock <= MaxClock /\ MaxClock \in Nat /\ MaxClock <= TimeModulus - 1
  BY NodeAssumption, TimeAssumption DEF TypeOK, Time
<1>2. now_ms \in Nat /\ now_ms <= clock
  BY <1>1, Truncation, ParameterAssumption DEF now_ms
<1> QED
  BY <1>1, <1>2, TimeAssumption DEF Time

(* Taking the head off a queue or a list of signals leaves one.            *)
LEMMA SeqTail ==
  ASSUME NEW S, NEW q \in Seq(S), q # <<>>
  PROVE  Head(q) \in S /\ Tail(q) \in Seq(S) /\ Len(Tail(q)) = Len(q) - 1
  OBVIOUS

(* The periods of accepted parameters are natural numbers.                 *)
LEMMA PeriodType ==
  ASSUME NEW p \in ParameterSpace, ValidParameters(p)
  PROVE  DiagnosticsPeriod(p) \in Nat /\ SchemaPeriod(p) \in Nat
<1>1. p.diagnostics_rate_hz \in Nat \ {0} /\ p.schema_republish_interval_ms \in Nat
  <2>1. p.diagnostics_rate_hz \in Int /\ p.schema_republish_interval_ms \in Int
    BY DEF ParameterSpace
  <2>2. p.diagnostics_rate_hz > 0 /\ p.schema_republish_interval_ms > 0
    BY DEF ValidParameters
  <2> QED
    BY <2>1, <2>2
<1>2. 1000 * TicksPerMs \in Nat
  BY ParameterAssumption
<1>3. (1000 * TicksPerMs) \div p.diagnostics_rate_hz \in Nat
  BY <1>1, <1>2, Truncation
<1>4. p.schema_republish_interval_ms * TicksPerMs \in Nat
  BY <1>1, ParameterAssumption
<1> QED
  BY <1>3, <1>4 DEF DiagnosticsPeriod, SchemaPeriod

(* A timer called when it is due is next due from now on, and within one    *)
(* period.                                                                 *)
LEMMA NextCallBound ==
  ASSUME clock \in Nat, NEW due \in Int, NEW period \in Nat
  PROVE  /\ NextCall(due, period) \in Int
         /\ NextCall(due, period) >= clock
         /\ due <= clock => NextCall(due, period) <= clock + period
<1> DEFINE next == due + period
           late == clock - next + period - 1
<1>1. CASE next >= clock
  BY <1>1 DEF NextCall
<1>2. CASE ~(next >= clock) /\ period = 0
  BY <1>2 DEF NextCall
<1>3. CASE ~(next >= clock) /\ period # 0
  <2>1. late \in Nat /\ period \in Nat \ {0} /\ next \in Int
    BY <1>3
  <2>2. /\ late \div period \in Nat
        /\ (late \div period) * period <= late
        /\ late < (late \div period) * period + period
    BY <2>1, Truncation
  <2>3. NextCall(due, period) = next + (late \div period) * period
    BY <1>3 DEF NextCall
  <2> DEFINE q == (late \div period) * period
  <2>4. q \in Int /\ q <= late /\ late < q + period
    BY <2>1, <2>2
  <2> HIDE DEF q
  <2>5. next + q \in Int /\ next + q >= clock /\ next + q <= clock + period
    BY <2>1, <2>4
  <2> QED
    BY <2>3, <2>5 DEF q
<1> QED
  BY <1>1, <1>2, <1>3

--------------------------------------------------------------------------------
(* The node starts well typed.                                             *)
LEMMA InitTypeOK == Init => TypeOK
  BY NodeAssumption, TimeAssumption
     DEF Init, TypeOK, MonitorInit, MonitorTypeOK, Never, None, Subscribed, Exited, Time

(* load_parameters builds well-typed members from accepted parameters.     *)
LEMMA LoadedType ==
  ASSUME TypeOK, pc \notin {"load_parameters", "failed"}
  PROVE  /\ params \in ParameterSpace
         /\ ValidParameters(params)
         /\ members = LoadedMembers(params)
         /\ params.signal_timeout_ms \in Threshold
         /\ DiagnosticsPeriod(params) \in Nat
         /\ SchemaPeriod(params) \in Nat
  BY NodeAssumption, PeriodType DEF TypeOK

(* The constructor keeps the types.                                        *)
LEMMA ConstructTypeOK ==
  ASSUME TypeOK, Construct
  PROVE  TypeOK'
<1> USE DEF TypeOK, configVars, counters, buffers, frameVars, timers, queueVars, monitorVars,
            Subscribed, Exited, MonitorTypeOK
<1>1. CASE load_parameters
  BY <1>1 DEF load_parameters
<1>2. CASE setup_publishers
  BY <1>2 DEF setup_publishers
<1>3. CASE FirstSchema
  BY <1>3 DEF FirstSchema
<1>4. CASE create_subscription
  BY <1>4 DEF create_subscription
<1>5. CASE setup_diagnostics_timer
  <2>1. DiagnosticsPeriod(params) \in Nat
    BY <1>5, LoadedType DEF setup_diagnostics_timer
  <2> QED
    BY <1>5, <2>1 DEF setup_diagnostics_timer
<1>6. CASE setup_schema_timer
  <2>1. SchemaPeriod(params) \in Nat
    BY <1>6, LoadedType DEF setup_schema_timer
  <2> QED
    BY <1>6, <2>1 DEF setup_schema_timer
<1> QED
  BY <1>1, <1>2, <1>3, <1>4, <1>5, <1>6 DEF Construct

(* So does the subscription callback up to its loop.                       *)
LEMMA FrameTypeOK ==
  ASSUME TypeOK, on_can_frame
  PROVE  TypeOK'
<1> DEFINE m == Head(rx_queue).msg
<1>0. /\ frames_received_ \in Nat /\ frames_decoded_ \in Nat
      /\ frames_unknown_ \in Nat /\ decode_errors_ \in Nat
  BY DEF TypeOK
<1>1. /\ rx_queue # <<>> /\ pc = "spin" /\ msg' = m /\ rx_queue' = Tail(rx_queue)
      /\ UNCHANGED <<params, members, decode_errors_, clock, diag_due, schema_due,
                     arrivals, states_, heard>>
      /\ frames_received_' = frames_received_ + 1
  BY DEF on_can_frame, configVars, timers, monitorVars
<1>2. rx_queue \in Seq([msg : CanMsgs, at : 0 .. MaxClock]) /\ Len(rx_queue) <= QueueDepth
  BY DEF TypeOK
<1>3. /\ m \in CanMsgs
      /\ rx_queue' \in Seq([msg : CanMsgs, at : 0 .. MaxClock])
      /\ Len(rx_queue') <= QueueDepth
  <2> DEFINE Item == [msg : CanMsgs, at : 0 .. MaxClock]
  <2>0. rx_queue \in Seq(Item)
    BY <1>2
  <2> HIDE DEF Item
  <2>1. Head(rx_queue) \in Item
    BY <1>1, <2>0, SeqTail
  <2>2. Tail(rx_queue) \in Seq(Item)
    BY <1>1, <2>0, SeqTail
  <2>3. Len(Tail(rx_queue)) = Len(rx_queue) - 1 /\ Len(rx_queue) \in Nat
    BY <1>1, <2>0, SeqTail
  <2>4. QueueDepth \in Nat
    BY NodeAssumption
  <2> QED
    BY <1>1, <1>2, <2>1, <2>2, <2>3, <2>4 DEF Item
<1>4. members = LoadedMembers(params) /\ params \in ParameterSpace /\ ValidParameters(params)
  BY <1>1, LoadedType
<1> HIDE DEF m
<1>5. MonitorTypeOK'
  BY <1>1 DEF TypeOK, MonitorTypeOK
<1>6. CASE ~Decodable(members.msg_map, m.id)
  <2>1. /\ UNCHANGED <<pc, todo, frames_decoded_, frame_signals_, all_sigs_>>
        /\ frames_unknown_' = frames_unknown_ + 1
    BY <1>6 DEF on_can_frame, buffers, m
  <2>2. /\ pc' \in Subscribed /\ msg' \in CanMsgs
        /\ frames_received_' \in Nat /\ frames_decoded_' \in Nat
        /\ frames_unknown_' \in Nat /\ decode_errors_' \in Nat
    BY <1>0, <1>1, <1>3, <2>1 DEF Subscribed
  <2>3. /\ frame_signals_' \in [DOMAIN frame_signals_' -> Seq(SignalRecord)]
        /\ all_sigs_' \in Seq(SignalRecord)
        /\ todo' \in Seq([name : Signal, value : Value])
    BY <2>1 DEF TypeOK
  <2>4. pc \notin {"load_parameters", "failed"}
    BY <1>1
  <2> HIDE <1>6, <2>1
  <2> QED
    BY <1>1, <1>3, <1>5, <2>2, <2>3, <2>4 DEF TypeOK
<1>7. CASE Decodable(members.msg_map, m.id)
  <2>1. /\ todo' = decode(members.msg_map, m.id, PayloadOf(m))
        /\ frames_decoded_' = frames_decoded_ + 1
        /\ frame_signals_' = <<>> /\ all_sigs_' = <<>> /\ pc' = "signals"
        /\ UNCHANGED frames_unknown_
    BY <1>7 DEF on_can_frame, ClearBuffers, m
  <2>2. PayloadOf(m) \in [1 .. NBytes -> Byte]
    BY <1>3, NodeAssumption, PayloadType
  <2>3. todo' \in Seq([name : Signal, value : Value])
    BY <1>4, <1>7, <2>1, <2>2, DecodeType DEF Decodable
  <2>4. /\ frame_signals_' \in [DOMAIN frame_signals_' -> Seq(SignalRecord)]
        /\ all_sigs_' \in Seq(SignalRecord)
    BY <2>1
  <2>5. /\ pc' \in Subscribed /\ msg' \in CanMsgs
        /\ frames_received_' \in Nat /\ frames_decoded_' \in Nat
        /\ frames_unknown_' \in Nat /\ decode_errors_' \in Nat
    BY <1>0, <1>1, <1>3, <2>1 DEF Subscribed
  <2>6. pc \notin {"load_parameters", "failed"}
    BY <1>1
  <2> HIDE <1>6, <1>7, <2>1
  <2> QED
    BY <1>1, <1>3, <1>5, <2>3, <2>4, <2>5, <2>6 DEF TypeOK
<1> QED
  BY <1>6, <1>7

(* A published signal has an id of the table and a value.                  *)
LEMMA SignalMsgType ==
  ASSUME NEW p \in ParameterSpace, members = LoadedMembers(p), NEW n, NEW v \in Value
  PROVE  SignalMsg(n, v) \in SignalRecord
<1>1. p.signal_id_names \in Seq(Signal)
  BY DEF ParameterSpace
<1>2. members.signal_name_to_id = IdByPlace(p.signal_id_names)
  BY DEF LoadedMembers
<1>3. \A x \in DOMAIN members.signal_name_to_id :
          members.signal_name_to_id[x] \in 0 .. MaxTableId
  BY <1>1, <1>2, IdByPlaceType
<1>4. Float32(v) \in Value /\ 0 \in 0 .. MaxTableId
  BY DataAssumption, ParameterAssumption
<1> QED
  BY <1>3, <1>4 DEF SignalMsg, SignalRecord

(* The passes of the loop of process_frame keep the types.                 *)
LEMMA SignalTypeOK ==
  ASSUME TypeOK, process_signal
  PROVE  TypeOK'
<1> DEFINE raw == Head(todo)
           res == Resolution(raw)
           value == transform(members.exprs, res.name, raw.value)
           sig == SignalMsg(res.name, value)
<1>1. /\ pc = "signals" /\ todo # <<>> /\ todo' = Tail(todo)
      /\ GroupSignal(res.name, res.domain, sig)
      /\ UNCHANGED <<pc, params, members, frames_received_, frames_decoded_, frames_unknown_,
                     decode_errors_, msg, clock, diag_due, schema_due, rx_queue, arrivals>>
  BY DEF process_signal, configVars, counters, timers, queueVars
<1>2. /\ raw \in [name : Signal, value : Value]
      /\ todo' \in Seq([name : Signal, value : Value])
  <2> DEFINE RawSignal == [name : Signal, value : Value]
  <2>1. todo \in Seq(RawSignal)
    BY DEF TypeOK
  <2> HIDE DEF RawSignal
  <2>2. raw \in RawSignal /\ todo' \in Seq(RawSignal)
    BY <1>1, <2>1, SeqTail
  <2> QED
    BY <2>2 DEF RawSignal
<1>3. members = LoadedMembers(params) /\ params \in ParameterSpace
  BY <1>1, LoadedType
<1>4. res.name \in Signal
  BY <1>2, <1>3, ResolutionType DEF Resolution
<1>5. value \in Value
  BY <1>2, <1>3, TransformType
<1> HIDE DEF value, res
<1>6. sig \in SignalRecord
  BY <1>3, <1>5, SignalMsgType
<1> HIDE DEF sig
<1>7. /\ frame_signals_' \in [DOMAIN frame_signals_' -> Seq(SignalRecord)]
      /\ all_sigs_' \in Seq(SignalRecord)
  <2>1. CASE UNCHANGED buffers
    BY <2>1 DEF TypeOK, buffers
  <2>2. CASE PushTo(res.domain, sig) /\ all_sigs_' \in {all_sigs_, Append(all_sigs_, sig)}
    <3>1. \A d \in DOMAIN frame_signals_ :
              frame_signals_[d] \in Seq(SignalRecord) /\ Append(frame_signals_[d], sig) \in Seq(SignalRecord)
      BY <1>6 DEF TypeOK
    <3>2. <<sig>> \in Seq(SignalRecord)
      BY <1>6
    <3>3. Append(all_sigs_, sig) \in Seq(SignalRecord)
      BY <1>6 DEF TypeOK
    <3> QED
      BY <2>2, <3>1, <3>2, <3>3 DEF PushTo, TypeOK
  <2> QED
    BY <1>1, <2>1, <2>2 DEF GroupSignal
<1>8. MonitorTypeOK' /\ heard' \in [Signal -> {Never} \cup 0 .. MaxClock]
  <2>1. CASE UNCHANGED monitorVars
    BY <2>1 DEF TypeOK, monitorVars, MonitorTypeOK
  <2>2. CASE signal_received(res.name, now_ms) /\ heard' = [heard EXCEPT ![res.name] = clock]
    <3>1. [last_seen_ms |-> now_ms, status |-> STATUS_OK] \in SignalState
      BY NowIsTime DEF SignalState
    <3> QED
      BY <1>4, <2>2, <3>1 DEF TypeOK, MonitorTypeOK, signal_received
  <2> QED
    BY <1>1, <2>1, <2>2 DEF GroupSignal
<1> QED
  BY <1>1, <1>2, <1>7, <1>8 DEF TypeOK

(* The end of process_frame and the timers keep the types.                 *)
LEMMA CallbackTypeOK ==
  ASSUME TypeOK, transform_error \/ publish_groups \/ on_diagnostics_timer \/ on_schema_timer
  PROVE  TypeOK'
<1> USE DEF configVars, counters, buffers, timers, queueVars, monitorVars
<1>1. CASE transform_error
  <2> DEFINE RawSignal == [name : Signal, value : Value]
  <2>1. todo \in Seq(RawSignal) /\ todo # <<>> /\ todo' = Tail(todo)
    BY <1>1 DEF TypeOK, transform_error
  <2> HIDE DEF RawSignal
  <2>2. todo' \in Seq(RawSignal)
    BY <2>1, SeqTail
  <2>3. todo' \in Seq([name : Signal, value : Value])
    BY <2>2 DEF RawSignal
  <2>4. /\ pc = "signals" /\ decode_errors_' = decode_errors_ + 1
        /\ UNCHANGED <<pc, params, members, frames_received_, frames_decoded_, frames_unknown_,
                       frame_signals_, all_sigs_, msg, clock, diag_due, schema_due,
                       rx_queue, arrivals, states_, heard>>
    BY <1>1 DEF transform_error
  <2>5. decode_errors_' \in Nat
    BY <2>4 DEF TypeOK
  <2> HIDE <1>1
  <2> QED
    BY <2>3, <2>4, <2>5 DEF TypeOK, MonitorTypeOK
<1>2. CASE publish_groups
  <2>1. frame_signals_' \in [DOMAIN frame_signals_' -> Seq(SignalRecord)]
    BY <1>2 DEF publish_groups
  <2>2. all_sigs_' \in Seq(SignalRecord)
    BY <1>2 DEF publish_groups, TypeOK
  <2> QED
    BY <1>2, <2>1, <2>2 DEF TypeOK, MonitorTypeOK, publish_groups, Subscribed
<1>3. CASE on_diagnostics_timer
  <2>1. pc = "spin" /\ check_timeouts(now_ms, params.signal_timeout_ms)
    BY <1>3 DEF on_diagnostics_timer
  <2>2. diag_due' \in Int
    <3>1. DiagnosticsPeriod(params) \in Nat /\ clock \in Nat /\ diag_due \in Int
      BY <2>1, LoadedType DEF TypeOK
    <3> QED
      BY <1>3, <3>1, NextCallBound DEF on_diagnostics_timer
  <2>3. MonitorTypeOK'
    BY <2>1 DEF check_timeouts, CheckedStates, TypeOK, MonitorTypeOK, SignalState,
                STATUS_OK, STATUS_TIMEOUT, STATUS_INITIAL
  <2> QED
    BY <1>3, <2>2, <2>3 DEF TypeOK, on_diagnostics_timer, frameVars
<1>4. CASE on_schema_timer
  <2>1. schema_due' \in Int
    <3>1. SchemaPeriod(params) \in Nat /\ clock \in Nat /\ schema_due \in Int
      BY <1>4, LoadedType DEF TypeOK, on_schema_timer
    <3> QED
      BY <1>4, <3>1, NextCallBound DEF on_schema_timer
  <2> QED
    BY <1>4, <2>1 DEF TypeOK, MonitorTypeOK, on_schema_timer, frameVars
<1> QED
  BY <1>1, <1>2, <1>3, <1>4

(* Arrivals, time and shutdown keep the types.                             *)
LEMMA EnvironmentTypeOK ==
  ASSUME TypeOK, Shutdown \/ (\E m \in CanMsgs : Receive(m)) \/ Tick \/ Terminated
  PROVE  TypeOK'
<1> USE DEF configVars, counters, buffers, frameVars, timers, queueVars, monitorVars, MonitorTypeOK
<1>1. CASE Shutdown
  BY <1>1 DEF TypeOK, Shutdown, Exited
<1>2. ASSUME NEW m \in CanMsgs, Receive(m) PROVE TypeOK'
  <2> DEFINE Item == [msg : CanMsgs, at : 0 .. MaxClock]
             item == [msg |-> m, at |-> clock]
  <2>1. rx_queue \in Seq(Item) /\ item \in Item /\ Len(rx_queue) <= QueueDepth /\ QueueDepth \in Nat \ {0}
    BY NodeAssumption DEF TypeOK
  <2> HIDE DEF Item, item
  <2>2. Enqueue(rx_queue, item) \in Seq(Item) /\ Len(Enqueue(rx_queue, item)) <= QueueDepth
    <3>1. CASE Len(rx_queue) = QueueDepth
      <4>1. rx_queue # <<>>
        BY <2>1, <3>1
      <4>2. Tail(rx_queue) \in Seq(Item) /\ Len(Tail(rx_queue)) = Len(rx_queue) - 1
        BY <2>1, <4>1, SeqTail
      <4>3. /\ Append(Tail(rx_queue), item) \in Seq(Item)
            /\ Len(Append(Tail(rx_queue), item)) = Len(rx_queue)
        BY <2>1, <4>2
      <4> QED
        BY <3>1, <4>3, <2>1 DEF Enqueue
    <3>2. CASE Len(rx_queue) # QueueDepth
      <4>1. /\ Append(rx_queue, item) \in Seq(Item)
            /\ Len(Append(rx_queue, item)) = Len(rx_queue) + 1
            /\ Len(rx_queue) \in Nat
        BY <2>1
      <4> QED
        BY <3>2, <4>1, <2>1 DEF Enqueue
    <3> QED
      BY <3>1, <3>2
  <2>3. rx_queue' = Enqueue(rx_queue, item)
    BY <1>2 DEF Receive, item
  <2>4. rx_queue' \in Seq([msg : CanMsgs, at : 0 .. MaxClock]) /\ Len(rx_queue') <= QueueDepth
    BY <2>2, <2>3 DEF Item
  <2>5. arrivals' \in 0 .. MaxFrames
    BY <1>2, NodeAssumption DEF Receive, TypeOK
  <2>6. UNCHANGED <<pc, params, members, frames_received_, frames_decoded_, frames_unknown_,
                    decode_errors_, frame_signals_, all_sigs_, msg, todo, clock, diag_due,
                    schema_due, states_, heard>>
    BY <1>2 DEF Receive
  <2>7. MonitorTypeOK'
    BY <2>6 DEF TypeOK
  <2> HIDE <1>2 DEF MonitorTypeOK
  <2> QED
    BY <2>4, <2>5, <2>6, <2>7 DEF TypeOK
<1>3. CASE Tick
  <2>1. clock' \in 0 .. MaxClock
    <3>1. clock \in 0 .. MaxClock /\ clock < MaxClock /\ clock' = clock + 1
      BY <1>3 DEF Tick, TypeOK
    <3>2. MaxClock \in Int
      BY NodeAssumption, TimeAssumption DEF Time
    <3> QED
      BY <3>1, <3>2
  <2> QED
    BY <1>3, <2>1 DEF TypeOK, Tick
<1>4. CASE Terminated
  BY <1>4 DEF TypeOK, Terminated, vars
<1> QED
  BY <1>1, <1>2, <1>3, <1>4

(* Every step keeps the types.                                             *)
LEMMA StepTypeOK == TypeOK /\ [Next]_vars => TypeOK'
<1>1. TypeOK /\ UNCHANGED vars => TypeOK'
  BY DEF TypeOK, vars, configVars, counters, buffers, frameVars, timers, queueVars, monitorVars,
         MonitorTypeOK
<1> QED
  BY <1>1, ConstructTypeOK, FrameTypeOK, SignalTypeOK, CallbackTypeOK, EnvironmentTypeOK DEF Next

(* The node is well typed in every reachable state, whatever parameters it *)
(* is launched with and whatever frames arrive; its members are those that *)
(* load_parameters builds from accepted parameters.                        *)
THEOREM TypeCorrect == Spec => []TypeOK
<1> QED
  BY InitTypeOK, StepTypeOK, PTL DEF Spec

--------------------------------------------------------------------------------
(* The node uses its monitor as MonitorSpec allows: every step that        *)
(* touches the monitor is one of its operations, on a known signal and     *)
(* with an instant and a timeout of the range of uint64_t.                 *)
THEOREM NodeDrivesMonitor == Spec => MonitorSpec
<1>1. Init => MonitorInit
  BY DEF Init
<1>2. TypeOK /\ [Next]_vars => [MonitorNext]_states_
  <2> SUFFICES ASSUME TypeOK, [Next]_vars, states_' # states_
               PROVE  MonitorNext
    OBVIOUS
  <2> USE DEF monitorVars
  <2>1. process_signal \/ on_diagnostics_timer
    BY DEF Next, vars, Construct, load_parameters, setup_publishers, FirstSchema, create_subscription,
           setup_diagnostics_timer, setup_schema_timer, on_can_frame, transform_error,
           publish_groups, on_schema_timer, Shutdown, Receive, Tick, Terminated
  <2>2. CASE process_signal
    <3> DEFINE raw == Head(todo)
               RawSignal == [name : Signal, value : Value]
    <3>1. todo \in Seq(RawSignal) /\ todo # <<>> /\ pc = "signals"
      BY <2>2 DEF TypeOK, process_signal
    <3>2. raw.name \in Signal
      <4> HIDE DEF RawSignal
      <4>1. raw \in RawSignal
        BY <3>1, SeqTail
      <4> QED
        BY <4>1 DEF RawSignal
    <3>3. members = LoadedMembers(params) /\ params \in ParameterSpace
      BY <3>1, LoadedType
    <3>4. Resolution(raw).name \in Signal
      BY <3>2, <3>3, ResolutionType DEF Resolution
    <3>5. signal_received(Resolution(raw).name, now_ms)
      BY <2>2 DEF process_signal, GroupSignal
    <3> QED
      BY <3>4, <3>5, NowIsTime DEF MonitorNext
  <2>3. CASE on_diagnostics_timer
    <3>1. params.signal_timeout_ms \in Threshold
      BY <2>3, LoadedType DEF on_diagnostics_timer
    <3> QED
      BY <2>3, <3>1, NowIsTime DEF on_diagnostics_timer, MonitorNext
  <2> QED
    BY <2>1, <2>2, <2>3
<1> QED
  BY <1>1, <1>2, TypeCorrect, PTL DEF Spec, MonitorSpec

(* So what the monitor promises holds of the running node.                 *)
THEOREM NodeImplementsFreshness == Spec => ImplementsFreshness /\ LifeCycle
  BY NodeDrivesMonitor, MonitorRefinesFreshness, MonitorLifeCycle, PTL

--------------------------------------------------------------------------------
(* The timing promises of the node, for every timeout, rate, delay and      *)
(* sequence of frames.                                                      *)

(* Reaching a deadline in ticks is having a truncated silence longer than  *)
(* the timeout.                                                            *)
LEMMA DeadlineReached ==
  ASSUME NEW c \in Nat, NEW L \in Nat, NEW T \in Nat, NEW U \in Nat \ {0}
  PROVE  (L + T + 1) * U <= c <=> c \div U - L > T
<1> DEFINE q == c \div U
<1>1. q \in Nat /\ q * U <= c /\ c < q * U + U
  BY Truncation
<1> HIDE DEF q
<1>2. ASSUME q - L > T PROVE (L + T + 1) * U <= c
  <2>1. PICK k \in Nat : q = L + T + 1 + k
    <3>1. q - (L + T + 1) \in Nat
      BY <1>1, <1>2
    <3> QED
      BY <1>1, <3>1
  <2>2. q * U = (L + T + 1) * U + k * U /\ k * U \in Nat
    BY <2>1
  <2> QED
    BY <1>1, <2>2
<1>3. ASSUME ~(q - L > T) PROVE c < (L + T + 1) * U
  <2>1. PICK k \in Nat : L + T = q + k
    <3>1. L + T - q \in Nat
      BY <1>1, <1>3
    <3> QED
      BY <1>1, <3>1
  <2>2. (L + T + 1) * U = q * U + U + k * U /\ k * U \in Nat
    BY <2>1, <1>1
  <2> QED
    BY <1>1, <2>2
<1>4. (L + T + 1) * U \in Nat
  OBVIOUS
<1> QED
  BY <1>2, <1>3, <1>4 DEF q

(* A deadline against the instant of the receipt.                          *)
LEMMA DeadlineOfReceipt ==
  ASSUME NEW h \in Nat, NEW T \in Nat, NEW U \in Nat \ {0}
  PROVE  LET deadline == (h \div U + T + 1) * U
         IN  /\ deadline \in Nat
             /\ h + T * U < deadline
             /\ deadline <= h + (T + 1) * U
<1> DEFINE q == h \div U
<1>1. q \in Nat /\ q * U <= h /\ h < q * U + U
  BY Truncation
<1> HIDE DEF q
<1>2. (q + T + 1) * U = q * U + T * U + U /\ (T + 1) * U = T * U + U
  BY <1>1
<1>3. (q + T + 1) * U \in Nat /\ q * U \in Nat /\ T * U \in Nat
  BY <1>1
<1> QED
  BY <1>1, <1>2, <1>3 DEF q

--------------------------------------------------------------------------------
(* Nothing has been handled, armed or published yet.                       *)
LEMMA InitTimingInv == Init => TimingInv
  BY DEF Init, MonitorInit, TimingInv, ScheduleInv, MonitorInv, DiagnosticInv, HeardSignals,
         DiagnosticsArmed, None, Never

(* Steps that touch neither the clock nor the monitor nor its timer.       *)
LEMMA QuietTimingInv ==
  ASSUME TypeOK, TimingInv,
         UNCHANGED <<params, clock, diag_due, states_, heard, diagnostic>>,
         pc \in DiagnosticsArmed <=> pc' \in DiagnosticsArmed,
         pc \in Running => pc' \in Running
  PROVE  TimingInv'
  BY DEF TimingInv, ScheduleInv, MonitorInv, DiagnosticInv, HeardSignals, Deadline, Timeout

(* What the typed state gives the steps below.                             *)
LEMMA TimingTypes ==
  ASSUME TypeOK
  PROVE  /\ clock \in Nat /\ clock \in Time /\ now_ms \in Time
         /\ MaxDelay \in Nat /\ TicksPerMs \in Nat \ {0}
         /\ Time \subseteq Nat
         /\ \A s \in DOMAIN states_ : states_[s] \in SignalState
         /\ \A s \in HeardSignals : heard[s] \in Nat
<1>1. Time \subseteq Nat /\ MaxClock \in Time
  BY TimeAssumption, NodeAssumption DEF Time
<1>2. clock \in Nat /\ clock \in Time
  BY <1>1, TimeAssumption DEF TypeOK, Time
<1>3. \A s \in HeardSignals : heard[s] \in Nat
  <2>1. \A s \in HeardSignals : heard[s] \in 0 .. MaxClock
    BY DEF TypeOK, HeardSignals
  <2> QED
    BY <1>1, <2>1
<1>4. \A s \in DOMAIN states_ : states_[s] \in SignalState
  BY DEF TypeOK, MonitorTypeOK
<1> QED
  BY <1>1, <1>2, <1>3, <1>4, NowIsTime, NodeAssumption, ParameterAssumption

(* Once the diagnostics timer is armed, the period and the timeout are     *)
(* natural numbers.                                                        *)
LEMMA RunningTypes ==
  ASSUME TypeOK, pc \in DiagnosticsArmed \cup Running
  PROVE  /\ Timeout \in Threshold /\ Timeout \in Nat
         /\ DiagnosticsPeriod(params) \in Nat
         /\ diag_due \in Int
<1>1. pc \notin {"load_parameters", "failed"}
  BY DEF DiagnosticsArmed, Running
<1>2. Threshold \subseteq Nat
  BY TimeAssumption DEF Time
<1> QED
  BY <1>1, <1>2, LoadedType DEF Timeout, TypeOK

(* Starting the timer: no signal can have been handled yet.                *)
LEMMA ArmTimingInv ==
  ASSUME TypeOK, TimingInv, setup_diagnostics_timer
  PROVE  TimingInv'
<1>1. /\ pc = "setup_diagnostics_timer" /\ pc' = "setup_schema_timer"
      /\ diag_due' = clock + DiagnosticsPeriod(params)
      /\ UNCHANGED <<params, clock, states_, heard, diagnostic>>
  BY DEF setup_diagnostics_timer, configVars, monitorVars
<1>2. HeardSignals = {} /\ diagnostic = None
  BY <1>1 DEF TimingInv, MonitorInv, DiagnosticInv, Running
<1>3. DiagnosticsPeriod(params) \in Nat /\ clock \in Nat /\ MaxDelay \in Nat
  BY <1>1, LoadedType, TimingTypes
<1>4. ScheduleInv'
  BY <1>1, <1>3 DEF ScheduleInv
<1>5. MonitorInv' /\ DiagnosticInv'
  BY <1>1, <1>2 DEF TimingInv, MonitorInv, DiagnosticInv, HeardSignals
<1> QED
  BY <1>4, <1>5 DEF TimingInv

(* Handling a signal: its deadline is later than now.                      *)
LEMMA HandleTimingInv ==
  ASSUME TypeOK, TimingInv, NEW n \in Signal, pc = "signals",
         signal_received(n, now_ms), heard' = [heard EXCEPT ![n] = clock],
         UNCHANGED <<pc, params, clock, diag_due, diagnostic>>
  PROVE  TimingInv'
<1>1. /\ clock \in Nat /\ MaxDelay \in Nat /\ TicksPerMs \in Nat \ {0}
      /\ Timeout \in Nat /\ DiagnosticsPeriod(params) \in Nat /\ diag_due \in Int
  BY TimingTypes, RunningTypes DEF Running
<1>2. /\ HeardSignals' = HeardSignals \cup {n}
      /\ heard'[n] = clock
      /\ \A s \in HeardSignals \ {n} : heard'[s] = heard[s]
  <2>1. heard \in [Signal -> {Never} \cup 0 .. MaxClock]
    BY DEF TypeOK
  <2>2. clock # Never
    BY <1>1 DEF Never
  <2> QED
    BY <2>1, <2>2 DEF HeardSignals
<1>3. /\ DOMAIN states_' = DOMAIN states_ \cup {n}
      /\ states_'[n] = [last_seen_ms |-> now_ms, status |-> STATUS_OK]
      /\ \A s \in DOMAIN states_ \ {n} : states_'[s] = states_[s]
  BY DEF signal_received
<1>4. DOMAIN states_ = HeardSignals
  BY DEF TimingInv, MonitorInv
<1>5. clock < Deadline(n)' /\ Deadline(n)' \in Nat
  <2>1. Deadline(n)' = (now_ms + Timeout + 1) * TicksPerMs
    BY <1>3 DEF Deadline, Timeout
  <2>2. Timeout * TicksPerMs \in Nat
    BY <1>1
  <2> QED
    BY <1>1, <2>1, <2>2, DeadlineOfReceipt DEF now_ms
<1>6. \A s \in HeardSignals \ {n} : Deadline(s)' = Deadline(s)
  BY <1>3, <1>4 DEF Deadline, Timeout
<1>7. ScheduleInv /\ ScheduleInv'
  BY DEF TimingInv, ScheduleInv
<1>8. diag_due <= clock + DiagnosticsPeriod(params)
  BY <1>7 DEF ScheduleInv, DiagnosticsArmed
<1>9. MonitorInv'
  <2>1. DOMAIN states_' = HeardSignals'
    BY <1>2, <1>3, <1>4
  <2>2. /\ states_'[n].last_seen_ms = heard'[n] \div TicksPerMs
        /\ states_'[n].status = STATUS_OK
        /\ diag_due' < Deadline(n)' + DiagnosticsPeriod(params)'
    BY <1>1, <1>2, <1>3, <1>5, <1>8 DEF now_ms
  <2>3. ASSUME NEW s \in HeardSignals \ {n}
        PROVE  /\ heard[s]' <= clock'
               /\ states_[s]'.last_seen_ms = heard[s]' \div TicksPerMs
               /\ \/ /\ states_[s]'.status = STATUS_OK
                     /\ diag_due' < Deadline(s)' + DiagnosticsPeriod(params)'
                  \/ /\ states_[s]'.status = STATUS_TIMEOUT
                     /\ Deadline(s)' <= clock'
    BY <1>2, <1>3, <1>4, <1>6 DEF TimingInv, MonitorInv
  <2> QED
    BY <1>1, <1>2, <2>1, <2>2, <2>3 DEF MonitorInv, Running
<1>10. DiagnosticInv'
  <2> SUFFICES ASSUME diagnostic # None
               PROVE  DiagnosticInv'
    BY DEF DiagnosticInv
  <2>1. /\ diagnostic.at \in 0 .. clock
        /\ diagnostic.timed_out_signals \subseteq HeardSignals
        /\ \A s \in HeardSignals :
              heard[s] < diagnostic.at =>
                  (s \in diagnostic.timed_out_signals <=> Deadline(s) <= diagnostic.at)
    BY DEF TimingInv, DiagnosticInv
  <2>2. ~(heard'[n] < diagnostic.at)
    BY <1>1, <1>2, <2>1
  <2> QED
    BY <1>2, <1>6, <2>1, <2>2 DEF DiagnosticInv, Running
<1> QED
  BY <1>7, <1>9, <1>10 DEF TimingInv

(* One pass of the loop of process_frame either handles a signal or leaves *)
(* the monitor alone.                                                      *)
LEMMA SignalTimingInv ==
  ASSUME TypeOK, TimingInv, process_signal
  PROVE  TimingInv'
<1> DEFINE RawSignal == [name : Signal, value : Value]
<1>1. /\ todo \in Seq(RawSignal) /\ todo # <<>> /\ pc = "signals"
      /\ UNCHANGED <<pc, params, clock, diag_due, diagnostic>>
  BY DEF TypeOK, process_signal, configVars, timers
<1> HIDE DEF RawSignal
<1>2. Head(todo) \in RawSignal
  BY <1>1, SeqTail
<1>3. Resolution(Head(todo)).name \in Signal
  BY <1>1, <1>2, LoadedType, ResolutionType DEF Resolution, RawSignal
<1>4. CASE UNCHANGED monitorVars
  BY <1>1, <1>4, QuietTimingInv DEF monitorVars
<1>5. CASE /\ signal_received(Resolution(Head(todo)).name, now_ms)
           /\ heard' = [heard EXCEPT ![Resolution(Head(todo)).name] = clock]
  BY <1>1, <1>3, <1>5, HandleTimingInv
<1> QED
  BY <1>4, <1>5 DEF process_signal, GroupSignal

(* A check: afterwards exactly the signals past their deadline are timed   *)
(* out, and every other has its deadline ahead.                            *)
LEMMA CheckTimingInv ==
  ASSUME TypeOK, TimingInv, on_diagnostics_timer
  PROVE  TimingInv'
<1>1. /\ pc = "spin" /\ clock >= diag_due
      /\ diag_due' = NextCall(diag_due, DiagnosticsPeriod(params))
      /\ states_' = CheckedStates(now_ms, Timeout)
      /\ diagnostic'.at = clock
      /\ diagnostic'.timed_out_signals = timed_out_signals'
      /\ UNCHANGED <<pc, params, clock, heard>>
  BY DEF on_diagnostics_timer, check_timeouts, Timeout, configVars
<1>2. /\ clock \in Nat /\ MaxDelay \in Nat /\ TicksPerMs \in Nat \ {0}
      /\ Timeout \in Threshold /\ Timeout \in Nat /\ now_ms \in Time /\ Time \subseteq Nat
      /\ DiagnosticsPeriod(params) \in Nat /\ diag_due \in Int
  BY <1>1, TimingTypes, RunningTypes DEF Running
<1>3. /\ diag_due' \in Int
      /\ clock <= diag_due'
      /\ diag_due' <= clock + DiagnosticsPeriod(params)
  BY <1>1, <1>2, NextCallBound
<1>4. ScheduleInv'
  BY <1>1, <1>2, <1>3 DEF ScheduleInv
<1>5. HeardSignals' = HeardSignals /\ DOMAIN states_ = HeardSignals
  BY <1>1 DEF HeardSignals, TimingInv, MonitorInv
<1>6. DOMAIN states_' = HeardSignals
  BY <1>1, <1>5 DEF CheckedStates
<1>7. ASSUME NEW s \in HeardSignals
      PROVE  /\ states_[s]'.last_seen_ms = states_[s].last_seen_ms
             /\ Deadline(s)' = Deadline(s)
             /\ Deadline(s) \in Nat
             /\ \/ /\ Deadline(s) <= clock
                   /\ states_[s]'.status = STATUS_TIMEOUT
                \/ /\ clock < Deadline(s)
                   /\ states_[s]'.status = STATUS_OK
  <2>1. states_[s] \in SignalState
    BY <1>5, TimingTypes
  <2>2. /\ states_[s]'.last_seen_ms = states_[s].last_seen_ms
        /\ states_[s]'.status = IF Expired(states_[s], now_ms, Timeout)
                                THEN STATUS_TIMEOUT ELSE states_[s].status
    BY <1>1, <1>5, <2>1 DEF CheckedStates, newly_timed_out, SignalState
  <2>3. states_[s].last_seen_ms \in Nat
    BY <1>2, <2>1 DEF SignalState
  <2>4. Deadline(s) \in Nat /\ Deadline(s)' = Deadline(s)
    <3>1. Deadline(s)' = Deadline(s)
      BY <1>1, <2>2 DEF Deadline, Timeout
    <3> QED
      BY <1>2, <2>3, <3>1 DEF Deadline
  <2>5. Deadline(s) <= clock <=> now_ms - states_[s].last_seen_ms > Timeout
    BY <1>2, <2>3, DeadlineReached DEF Deadline, now_ms
  <2>6. Expired(states_[s], now_ms, Timeout) <=>
           states_[s].status = STATUS_OK /\ Deadline(s) <= clock
    BY <1>2, <2>1, <2>5, ExpiredIsOverdue
  <2>7. \/ states_[s].status = STATUS_OK
        \/ states_[s].status = STATUS_TIMEOUT /\ Deadline(s) <= clock
    BY DEF TimingInv, MonitorInv
  <2>8. CASE Deadline(s) <= clock
    BY <2>2, <2>4, <2>6, <2>7, <2>8
  <2>9. CASE clock < Deadline(s)
    <3>1. ~(Deadline(s) <= clock)
      BY <1>2, <2>4, <2>9
    <3> QED
      BY <2>2, <2>4, <2>6, <2>7, <2>9, <3>1
  <2> QED
    BY <1>2, <2>4, <2>8, <2>9
<1>8. MonitorInv'
  <2>1. \A s \in HeardSignals :
           heard[s] <= clock /\ states_[s].last_seen_ms = heard[s] \div TicksPerMs
    BY DEF TimingInv, MonitorInv
  <2>2. ASSUME NEW s \in HeardSignals, clock < Deadline(s)
        PROVE  diag_due' < Deadline(s) + DiagnosticsPeriod(params)
    <3>1. Deadline(s) \in Nat
      BY <1>7
    <3> QED
      BY <1>2, <1>3, <2>2, <3>1
  <2>3. ASSUME NEW s \in HeardSignals
        PROVE  /\ heard[s]' <= clock'
               /\ states_[s]'.last_seen_ms = heard[s]' \div TicksPerMs
               /\ \/ /\ states_[s]'.status = STATUS_OK
                     /\ diag_due' < Deadline(s)' + DiagnosticsPeriod(params)'
                  \/ /\ states_[s]'.status = STATUS_TIMEOUT
                     /\ Deadline(s)' <= clock'
    BY <1>1, <1>7, <2>1, <2>2
  <2> QED
    BY <1>1, <1>5, <1>6, <2>3 DEF MonitorInv, Running
<1>9. DiagnosticInv'
  <2>1. diagnostic'.timed_out_signals = {s \in HeardSignals : states_[s]'.status = STATUS_TIMEOUT}
    BY <1>1, <1>6 DEF timed_out_signals
  <2>2. \A s \in HeardSignals :
           s \in diagnostic'.timed_out_signals <=> Deadline(s)' <= clock
    <3>1. \A s \in HeardSignals : Deadline(s) \in Nat /\ Deadline(s)' = Deadline(s)
      BY <1>7
    <3>2. STATUS_OK # STATUS_TIMEOUT
      BY DEF STATUS_OK, STATUS_TIMEOUT
    <3>3. ASSUME NEW s \in HeardSignals
          PROVE  states_[s]'.status = STATUS_TIMEOUT <=> Deadline(s) <= clock
      BY <1>2, <1>7, <3>1, <3>2
    <3> QED
      BY <2>1, <3>1, <3>3
  <2> QED
    BY <1>1, <1>2, <1>5, <2>1, <2>2 DEF DiagnosticInv, Running
<1> QED
  BY <1>4, <1>8, <1>9 DEF TimingInv

(* Time passes while no check is overdue by more than MaxDelay.            *)
LEMMA TickTimingInv ==
  ASSUME TypeOK, TimingInv, Tick
  PROVE  TimingInv'
<1>1. /\ clock' = clock + 1
      /\ pc \in DiagnosticsArmed => clock < diag_due + MaxDelay
      /\ UNCHANGED <<pc, params, diag_due, states_, heard, diagnostic>>
  BY DEF Tick, configVars, timers, monitorVars
<1>2. clock \in Nat /\ MaxDelay \in Nat /\ TicksPerMs \in Nat \ {0} /\ diag_due \in Int
  BY TimingTypes DEF TypeOK
<1>3. ScheduleInv'
  <2> SUFFICES ASSUME pc \in DiagnosticsArmed
               PROVE  /\ diag_due <= clock + 1 + DiagnosticsPeriod(params)
                      /\ clock + 1 <= diag_due + MaxDelay
    BY <1>1 DEF ScheduleInv
  <2>1. DiagnosticsPeriod(params) \in Nat
    BY RunningTypes
  <2> QED
    BY <1>1, <1>2, <2>1 DEF TimingInv, ScheduleInv
<1>4. HeardSignals' = HeardSignals
  BY <1>1 DEF HeardSignals
<1>5. ASSUME NEW s \in HeardSignals
      PROVE  /\ heard[s] \in Nat /\ heard[s] <= clock /\ pc \in Running
             /\ Deadline(s) \in Nat /\ Deadline(s)' = Deadline(s)
  <2>1. s \in DOMAIN states_ /\ heard[s] <= clock /\ pc \in Running
    BY DEF TimingInv, MonitorInv
  <2>2. states_[s].last_seen_ms \in Nat /\ Timeout \in Nat /\ heard[s] \in Nat
    BY <2>1, TimingTypes, RunningTypes DEF SignalState
  <2>3. Deadline(s)' = Deadline(s)
    BY <1>1 DEF Deadline, Timeout
  <2> QED
    BY <1>2, <2>1, <2>2, <2>3 DEF Deadline
<1>6. MonitorInv'
  <2>1. ASSUME NEW s \in HeardSignals
        PROVE  heard[s] <= clock + 1 /\ (Deadline(s) <= clock => Deadline(s) <= clock + 1)
    BY <1>2, <1>5
  <2> QED
    BY <1>1, <1>4, <1>5, <2>1 DEF TimingInv, MonitorInv
<1>7. DiagnosticInv'
  BY <1>1, <1>2, <1>4, <1>5 DEF TimingInv, DiagnosticInv
<1> QED
  BY <1>3, <1>6, <1>7 DEF TimingInv

(* Every step keeps the invariant, given the types.                        *)
LEMMA StepTimingInv == TypeOK /\ TimingInv /\ [Next]_vars => TimingInv'
<1> SUFFICES ASSUME TypeOK, TimingInv, [Next]_vars
             PROVE  TimingInv'
  OBVIOUS
<1> USE DEF configVars, timers, monitorVars
<1>1. ASSUME Construct, ~setup_diagnostics_timer
      PROVE  TimingInv'
  <2>1. /\ UNCHANGED <<params, clock, diag_due, states_, heard, diagnostic>>
        /\ pc \in DiagnosticsArmed <=> pc' \in DiagnosticsArmed
        /\ pc \notin Running
    BY <1>1 DEF Construct, load_parameters, setup_publishers, FirstSchema, create_subscription,
                setup_schema_timer, DiagnosticsArmed, Running
  <2> QED
    BY <2>1, QuietTimingInv
<1>2. ASSUME on_can_frame \/ transform_error \/ publish_groups \/ on_schema_timer
             \/ (\E m \in CanMsgs : Receive(m)) \/ Terminated \/ UNCHANGED vars
      PROVE  TimingInv'
  <2>1. /\ UNCHANGED <<params, clock, diag_due, states_, heard, diagnostic>>
        /\ pc \in DiagnosticsArmed <=> pc' \in DiagnosticsArmed
        /\ pc \in Running => pc' \in Running
    BY <1>2 DEF on_can_frame, transform_error, publish_groups, on_schema_timer, Receive,
                Terminated, vars, DiagnosticsArmed, Running
  <2> QED
    BY <2>1, QuietTimingInv
<1>3. CASE Shutdown
  BY <1>3 DEF Shutdown, TimingInv, ScheduleInv, MonitorInv, DiagnosticInv, HeardSignals, Deadline,
              Timeout, DiagnosticsArmed, Running
<1> QED
  BY <1>1, <1>2, <1>3, ArmTimingInv, SignalTimingInv, CheckTimingInv, TickTimingInv DEF Next

(* The schedule of the checks and the deadlines of the signals agree in    *)
(* every reachable state.                                                  *)
THEOREM TimingInvariant == Spec => []TimingInv
  BY InitTimingInv, StepTimingInv, TypeCorrect, PTL DEF Spec

(* No diagnostic names a signal that is alive, and none misses one that    *)
(* has been silent for a millisecond more than the timeout.                *)
THEOREM DiagnosticsExact == Spec => []DiagnosticExact
<1>1. TypeOK /\ TimingInv => DiagnosticExact
  <2> SUFFICES ASSUME TypeOK, TimingInv, diagnostic # None
               PROVE  /\ diagnostic.timed_out_signals \subseteq HeardSignals
                      /\ \A s \in HeardSignals :
                            diagnostic.at - heard[s] > 0 =>
                               /\ s \in diagnostic.timed_out_signals =>
                                     diagnostic.at - heard[s] > Timeout * TicksPerMs
                               /\ diagnostic.at - heard[s] >= (Timeout + 1) * TicksPerMs =>
                                     s \in diagnostic.timed_out_signals
    BY DEF DiagnosticExact
  <2>1. /\ diagnostic.timed_out_signals \subseteq HeardSignals
        /\ diagnostic.at \in 0 .. clock /\ pc \in Running
        /\ \A s \in HeardSignals :
              heard[s] < diagnostic.at =>
                 (s \in diagnostic.timed_out_signals <=> Deadline(s) <= diagnostic.at)
    BY DEF TimingInv, DiagnosticInv
  <2>2. ASSUME NEW s \in HeardSignals, diagnostic.at - heard[s] > 0
        PROVE  /\ s \in diagnostic.timed_out_signals =>
                     diagnostic.at - heard[s] > Timeout * TicksPerMs
               /\ diagnostic.at - heard[s] >= (Timeout + 1) * TicksPerMs =>
                     s \in diagnostic.timed_out_signals
    <3>1. /\ heard[s] \in Nat /\ diagnostic.at \in Nat
          /\ Timeout \in Nat /\ TicksPerMs \in Nat \ {0}
      BY <2>1, TimingTypes, RunningTypes
    <3>2. Deadline(s) = (heard[s] \div TicksPerMs + Timeout + 1) * TicksPerMs
      BY DEF TimingInv, MonitorInv, Deadline
    <3>3. /\ Deadline(s) \in Nat
          /\ heard[s] + Timeout * TicksPerMs < Deadline(s)
          /\ Deadline(s) <= heard[s] + (Timeout + 1) * TicksPerMs
      BY <3>1, <3>2, DeadlineOfReceipt
    <3>4. Timeout * TicksPerMs \in Nat /\ (Timeout + 1) * TicksPerMs \in Nat
      BY <3>1
    <3> QED
      BY <2>1, <2>2, <3>1, <3>3, <3>4
  <2> QED
    BY <2>1, <2>2
<1> QED
  BY <1>1, TypeCorrect, TimingInvariant, PTL

(* A signal that looks alive was handled recently: detection takes less    *)
(* than the timeout, a millisecond, a period of the timer and the delay of *)
(* the executor.                                                           *)
THEOREM LatencyBound == Spec => []DetectionLatency
<1>1. TypeOK /\ TimingInv => DetectionLatency
  <2> SUFFICES ASSUME TypeOK, TimingInv, NEW s \in HeardSignals,
                      pc \notin Exited, get_status(s) = STATUS_OK
               PROVE  clock - heard[s] <
                         (Timeout + 1) * TicksPerMs + DiagnosticsPeriod(params) + MaxDelay
    BY DEF DetectionLatency
  <2>1. /\ pc \in Running /\ s \in DOMAIN states_
        /\ states_[s].last_seen_ms = heard[s] \div TicksPerMs
        /\ \/ diag_due < Deadline(s) + DiagnosticsPeriod(params)
           \/ states_[s].status = STATUS_TIMEOUT
    BY DEF TimingInv, MonitorInv
  <2>2. states_[s].status = STATUS_OK
    BY <2>1 DEF get_status
  <2>3. diag_due < Deadline(s) + DiagnosticsPeriod(params)
    BY <2>1, <2>2 DEF STATUS_OK, STATUS_TIMEOUT
  <2>4. clock <= diag_due + MaxDelay
    BY <2>1 DEF TimingInv, ScheduleInv, Running, Exited, DiagnosticsArmed
  <2>5. /\ heard[s] \in Nat /\ clock \in Nat /\ MaxDelay \in Nat /\ diag_due \in Int
        /\ Timeout \in Nat /\ TicksPerMs \in Nat \ {0} /\ DiagnosticsPeriod(params) \in Nat
    BY <2>1, TimingTypes, RunningTypes
  <2>6. /\ Deadline(s) \in Nat
        /\ Deadline(s) <= heard[s] + (Timeout + 1) * TicksPerMs
    BY <2>1, <2>5, DeadlineOfReceipt DEF Deadline
  <2>7. (Timeout + 1) * TicksPerMs \in Nat
    BY <2>5
  <2> QED
    BY <2>3, <2>4, <2>5, <2>6, <2>7
<1> QED
  BY <1>1, TypeCorrect, TimingInvariant, PTL
================================================================================
