--------------------------- MODULE TransformerObject ---------------------------
(***************************************************************************)
(* The life of SignalTransformer objects (src/signal_transformer.cpp):     *)
(* configure compiles one expression after another and may throw midway,   *)
(* transform stores its argument in the expression's variable x and then   *)
(* evaluates it, and objects are moved and destroyed.                      *)
(***************************************************************************)
EXTENDS SignalTransformer

CONSTANTS
    Transformer,
    Thread,     \* callers of transform
    SignalName,
    Configs,    \* configs given to configure: signal |-> [expression, unit]
    Raw         \* raw values

VARIABLES
    held,       \* objects with an implementation: neither destroyed nor moved from
    exprs,      \* of each object: signal |-> [expression, unit, x]
    configs,    \* of each object: the argument of the last configure (history)
    pending,    \* signals that a configure at work has still to look at
    thrown,     \* the last configure threw (history)
    call        \* of each thread: the transform it is in, and its result

transformer_vars == <<held, exprs, configs, pending, thrown, call>>

NoCall == [at |-> "idle"]
NoUnit == ""
Initial == -1   \* x of a new CompiledExpr: 0.0, told from every raw value

TransformerInit ==
    /\ held = {}
    /\ exprs = [o \in Transformer |-> <<>>]
    /\ configs = [o \in Transformer |-> <<>>]
    /\ pending = [o \in Transformer |-> {}]
    /\ thrown = [o \in Transformer |-> FALSE]
    /\ call = [t \in Thread |-> NoCall]

(* What signal_transformer.hpp asks of its callers: nothing else happens   *)
(* to an object that is being configured, moved or destroyed, and no two   *)
(* calls of transform are for the same signal of one object.               *)
Unused(o) == pending[o] = {} /\ \A t \in Thread : call[t].at = "evaluating" => call[t].object # o
CallsApart(o, s) ==
    pending[o] = {}
    /\ \A t \in Thread :
           call[t].at = "evaluating" => call[t].object # o \/ call[t].signal_name # s

ConstructTransformer(o) ==
    /\ o \notin held
    /\ held' = held \cup {o}
    /\ exprs' = [exprs EXCEPT ![o] = <<>>]
    /\ configs' = [configs EXCEPT ![o] = <<>>]
    /\ thrown' = [thrown EXCEPT ![o] = FALSE]
    /\ UNCHANGED <<pending, call>>

DestroyTransformer(o) ==
    /\ o \in held /\ Unused(o)
    /\ held' = held \ {o}
    /\ UNCHANGED <<exprs, configs, pending, thrown, call>>

(* Construction from, and assignment of, another object.                   *)
MoveTransformer(dst, src) ==
    /\ src \in held /\ dst # src /\ Unused(dst) /\ Unused(src)
    /\ held' = (held \ {src}) \cup {dst}
    /\ exprs' = [exprs EXCEPT ![dst] = exprs[src]]
    /\ configs' = [configs EXCEPT ![dst] = configs[src]]
    /\ thrown' = [thrown EXCEPT ![dst] = thrown[src]]
    /\ UNCHANGED <<pending, call>>

--------------------------------------------------------------------------------
(* Mutant: configure adds to what is there.                                *)
Clear_forgotten(old) == old

(* exprs.clear()                                                           *)
Clear(old) == <<>>

configure(o, new) ==
    /\ o \in held /\ Unused(o)
    /\ exprs' = [exprs EXCEPT ![o] = Clear(exprs[o])]
    /\ configs' = [configs EXCEPT ![o] = new]
    /\ pending' = [pending EXCEPT ![o] = DOMAIN new]
    /\ thrown' = [thrown EXCEPT ![o] = FALSE]
    /\ UNCHANGED <<held, call>>

Compiled(cfg) == [expression |-> cfg.expression, unit |-> cfg.unit, x |-> Initial]

(* emplace leaves an entry that is there alone.                            *)
Emplace(map, signal_name, compiled) ==
    [s \in DOMAIN map \cup {signal_name} |->
        IF s \in DOMAIN map THEN map[s] ELSE compiled]

(* Mutant: configure goes on and throws at the end.                        *)
Insert_collecting(o, signal_name, cfg) ==
    /\ exprs' = IF Compiles(cfg.expression)
                THEN [exprs EXCEPT ![o] = Emplace(@, signal_name, Compiled(cfg))]
                ELSE exprs
    /\ pending' = [pending EXCEPT ![o] = @ \ {signal_name}]
    /\ thrown' = [thrown EXCEPT ![o] = @ \/ ~ Compiles(cfg.expression)]

(* Mutant: the entry is made before it is compiled.                        *)
Insert_uncompiled(o, signal_name, cfg) ==
    /\ exprs' = [exprs EXCEPT ![o] = Emplace(@, signal_name, Compiled(cfg))]
    /\ pending' = [pending EXCEPT ![o] = IF Compiles(cfg.expression) THEN @ \ {signal_name} ELSE {}]
    /\ thrown' = [thrown EXCEPT ![o] = ~ Compiles(cfg.expression)]

(* Mutant: an expression that does not compile is passed over.             *)
Insert_skipping(o, signal_name, cfg) ==
    /\ exprs' = IF Compiles(cfg.expression)
                THEN [exprs EXCEPT ![o] = Emplace(@, signal_name, Compiled(cfg))]
                ELSE exprs
    /\ pending' = [pending EXCEPT ![o] = @ \ {signal_name}]
    /\ UNCHANGED thrown

Insert(o, signal_name, cfg) ==
    \/ /\ Compiles(cfg.expression)
       /\ exprs' = [exprs EXCEPT ![o] = Emplace(@, signal_name, Compiled(cfg))]
       /\ pending' = [pending EXCEPT ![o] = @ \ {signal_name}]
       /\ UNCHANGED thrown
    \/ /\ ~ Compiles(cfg.expression)
       /\ pending' = [pending EXCEPT ![o] = {}]
       /\ thrown' = [thrown EXCEPT ![o] = TRUE]
       /\ UNCHANGED exprs

(* One entry of configs, in the order of an unordered_map: any.            *)
compile(o, signal_name) ==
    /\ signal_name \in pending[o]
    /\ LET cfg == configs[o][signal_name]
       IN  \/ /\ cfg.expression # NoExpression
              /\ Insert(o, signal_name, cfg)
           \/ /\ cfg.expression = NoExpression
              /\ pending' = [pending EXCEPT ![o] = @ \ {signal_name}]
              /\ UNCHANGED <<exprs, thrown>>
    /\ UNCHANGED <<held, configs, call>>

--------------------------------------------------------------------------------
WithX(compiled, raw_value) ==
    [expression |-> compiled.expression, unit |-> compiled.unit, x |-> raw_value]

(* Mutant: the expressions of an object share one variable.                *)
SetX_shared(map, signal_name, raw_value) ==
    [s \in DOMAIN map |-> WithX(map[s], raw_value)]

(* evaluate: x = raw                                                       *)
SetX(map, signal_name, raw_value) ==
    [map EXCEPT ![signal_name] = WithX(map[signal_name], raw_value)]

Returned(o, signal_name, raw_value, value, unit) ==
    [ at |-> "returned", object |-> o, signal_name |-> signal_name, raw_value |-> raw_value,
      value |-> value, unit |-> unit ]

transform_begins(t, o, signal_name, raw_value) ==
    /\ o \in held
    /\ call[t].at # "evaluating" /\ CallsApart(o, signal_name)
    /\ \/ /\ signal_name \notin DOMAIN exprs[o]
          /\ call' = [call EXCEPT ![t] = Returned(o, signal_name, raw_value, raw_value, NoUnit)]
          /\ UNCHANGED exprs
       \/ /\ signal_name \in DOMAIN exprs[o]
          /\ exprs' = [exprs EXCEPT ![o] = SetX(@, signal_name, raw_value)]
          /\ call' = [call EXCEPT ![t] = [ at |-> "evaluating", object |-> o,
                                           signal_name |-> signal_name, raw_value |-> raw_value ]]
    /\ UNCHANGED <<held, configs, pending, thrown>>

(* expression.value(), which sees the variable x it was compiled with.     *)
transform_returns(t) ==
    /\ call[t].at = "evaluating"
    /\ LET compiled == exprs[call[t].object][call[t].signal_name]
       IN  call' = [call EXCEPT ![t] =
                       Returned(@.object, @.signal_name, @.raw_value,
                                Eval(compiled.expression, compiled.x), compiled.unit)]
    /\ UNCHANGED <<held, exprs, configs, pending, thrown>>

transform_throws(t) ==
    /\ call[t].at = "evaluating"
    /\ MayThrow(exprs[call[t].object][call[t].signal_name].expression)
    /\ call' = [call EXCEPT ![t] = NoCall]
    /\ UNCHANGED <<held, exprs, configs, pending, thrown>>

TransformerNext ==
    \/ \E o \in Transformer :
          \/ ConstructTransformer(o) \/ DestroyTransformer(o)
          \/ \E new \in Configs : configure(o, new)
          \/ \E s \in SignalName : compile(o, s)
    \/ \E dst, src \in Transformer : MoveTransformer(dst, src)
    \/ \E t \in Thread :
          \/ \E o \in Transformer, s \in SignalName, raw \in Raw : transform_begins(t, o, s, raw)
          \/ transform_returns(t) \/ transform_throws(t)

TransformerSpec == TransformerInit /\ [][TransformerNext]_transformer_vars

--------------------------------------------------------------------------------
(* Type invariant: an expression in evaluation is in its object's map, and *)
(* a configure that threw is over.                                         *)
TransformerTypeOK ==
    /\ held \subseteq Transformer
    /\ DOMAIN exprs = Transformer
    /\ DOMAIN configs = Transformer
    /\ DOMAIN pending = Transformer
    /\ thrown \in [Transformer -> BOOLEAN]
    /\ DOMAIN call = Thread
    /\ \A o \in Transformer : /\ pending[o] \subseteq DOMAIN configs[o]
                              /\ thrown[o] => pending[o] = {}
    /\ \A t \in Thread : call[t].at = "evaluating" =>
          /\ call[t].object \in held
          /\ call[t].signal_name \in DOMAIN exprs[call[t].object]

Texts(o) == [s \in DOMAIN configs[o] |-> configs[o][s].expression]

(* Once configure is over the map holds expressions of its own argument    *)
(* only, that compile: all of them when it returned, and when it threw     *)
(* those it came to before one that does not compile; none is left of the  *)
(* configure before, and a later move keeps them (configure).              *)
ConfiguredOnly ==
    \A o \in held : pending[o] = {} =>
        /\ \A s \in DOMAIN exprs[o] :
              /\ s \in DOMAIN configs[o]
              /\ exprs[o][s].expression = configs[o][s].expression
              /\ exprs[o][s].unit = configs[o][s].unit
              /\ Compiles(exprs[o][s].expression)
        /\ ~ thrown[o] => ConfigureSucceeds(Texts(o))
        /\ thrown[o] => ~ ConfigureSucceeds(Texts(o))
        /\ ~ thrown[o] => DOMAIN exprs[o] = DOMAIN CompiledExprs(Texts(o))

(* A call of transform returns what the expression its signal was last     *)
(* configured with makes of the call's own raw value, whatever other calls *)
(* were for other signals meanwhile and wherever the object was moved; the *)
(* raw value itself where the configuration has no expression.             *)
ReturnsOwn ==
    [][\A t \in Thread :
          call'[t].at = "returned" /\ call'[t] # call[t] =>
              LET o == call'[t].object
              IN  ~ thrown[o] =>
                      call'[t].value =
                          transform(CompiledExprs(Texts(o)),
                                    call'[t].signal_name, call'[t].raw_value)]_transformer_vars
================================================================================
