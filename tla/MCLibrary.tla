------------------------------- MODULE MCLibrary -------------------------------
(***************************************************************************)
(* The classes of the library for TLC.  They share no state, so one run    *)
(* explores each of them while the objects of the others are as they began *)
(* (the sum of the state spaces, not the product).                         *)
(***************************************************************************)
EXTENDS TimeoutMonitor, CanReader, DecoderObjects, TransformerObject, TLC

LibraryInit == MonitorInit /\ ReaderInit /\ DecoderInit /\ TransformerInit

OnlyMonitor == ReaderInit /\ DecoderInit /\ TransformerInit
OnlyReader == MonitorInit /\ DecoderInit /\ TransformerInit
OnlyDecoder == MonitorInit /\ ReaderInit /\ TransformerInit
OnlyTransformer == MonitorInit /\ ReaderInit /\ DecoderInit

LibraryNext ==
    \/ OnlyMonitor /\ MonitorNext
       /\ UNCHANGED <<reader_vars, decoder_vars, transformer_vars>>
    \/ OnlyReader /\ ReaderNext
       /\ UNCHANGED <<states_, decoder_vars, transformer_vars>>
    \/ OnlyDecoder /\ DecoderNext
       /\ UNCHANGED <<states_, reader_vars, transformer_vars>>
    \/ OnlyTransformer /\ TransformerNext
       /\ UNCHANGED <<states_, reader_vars, decoder_vars>>

LibrarySpec ==
    LibraryInit /\ [][LibraryNext]_<<states_, reader_vars, decoder_vars, transformer_vars>>

(* The objects of a class, and the threads, are interchangeable.           *)
LibrarySymmetry ==
    Permutations(Reader) \cup Permutations(Transformer) \cup Permutations(Thread)

--------------------------------------------------------------------------------
(* CanReader: two standard and four extended ids, the flags above them; a  *)
(* name that is cut to the name of an interface, and one of no interface.  *)
MCIfName(n) == IF n = "can0_long" THEN "can0" ELSE n

(* A standard frame, an extended one with a short payload, a remote one.   *)
MCSent ==
    { [id |-> 1, extended |-> FALSE, remote |-> FALSE, dlc |-> 2, data |-> <<1, 1>>],
      [id |-> 3, extended |-> TRUE, remote |-> FALSE, dlc |-> 1, data |-> <<1, 1>>],
      [id |-> 1, extended |-> FALSE, remote |-> TRUE, dlc |-> 0, data |-> <<0, 0>>] }

--------------------------------------------------------------------------------
(* DbcDecoder: two files that share a message id, one of them twice.       *)
MessageOf(id, signal) == [id |-> id, signals |-> <<[name |-> signal]>>]
MCFiles ==
    {<<MessageOf(1, "a"), MessageOf(2, "b"), MessageOf(1, "c")>>, <<MessageOf(2, "d")>>}
MCPhysical(sig, data) == 0

--------------------------------------------------------------------------------
(* SignalTransformer: an expression that scales, one that may throw, one   *)
(* that does not compile, and none.                                        *)
MCExpression == {"x*10", "x+5", "x*", ""}
MCEval(expression, raw) == IF expression = "x*10" THEN raw * 10 ELSE raw + 5
MCCompiles(expression) == expression # "x*"
MCMayThrow(expression) == expression = "x+5"

Config(expression, unit) == [expression |-> expression, unit |-> unit]
MCConfigs ==
    { [speed |-> Config("x*10", "m/s"), yaw |-> Config("x+5", "rad")],
      [speed |-> Config("x+5", "m/s"), yaw |-> Config("x*", "rad")],
      [speed |-> Config("", "m/s"), yaw |-> Config("x*10", "rad")] }
================================================================================
