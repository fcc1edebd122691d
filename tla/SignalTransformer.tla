--------------------------- MODULE SignalTransformer ---------------------------
(***************************************************************************)
(* SignalTransformer (src/signal_transformer.cpp): a compiled expression   *)
(* per signal; a signal without one passes through.  exprtk is external:   *)
(* what an expression computes, whether it compiles and whether evaluating *)
(* it can throw are parameters.                                            *)
(***************************************************************************)
EXTENDS Integers, Sequences

CONSTANTS
    Expression,    \* texts of expressions
    Eval(_, _),    \* (expression, raw value) |-> value
    Compiles(_),   \* the parser accepts the expression
    MayThrow(_)    \* evaluating the expression may raise an exception

NoExpression == ""

(* The map exprs after configure; configs maps a signal to its expression. *)
(* An empty expression leaves no entry.                                    *)
CompiledExprs(configs) ==
    [s \in {x \in DOMAIN configs : configs[x] # NoExpression} |-> configs[s]]

(* configure throws on the first expression that does not compile.         *)
ConfigureSucceeds(configs) ==
    \A s \in DOMAIN configs : configs[s] # NoExpression => Compiles(configs[s])

transform(exprs, signal_name, raw_value) ==
    IF signal_name \in DOMAIN exprs
    THEN Eval(exprs[signal_name], raw_value)
    ELSE raw_value

TransformMayThrow(exprs, signal_name) ==
    signal_name \in DOMAIN exprs /\ MayThrow(exprs[signal_name])
================================================================================
