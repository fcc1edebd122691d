---------------------------- MODULE MCMcapConverter ----------------------------
(* McapConverter for TLC: one bag, a batch of three files, an empty one.    *)
EXTENDS McapConverter

MCInputs ==
    { [batch |-> FALSE, files |-> <<"a">>],
      [batch |-> TRUE, files |-> <<"a", "b", "c">>],
      [batch |-> TRUE, files |-> <<>>] }
================================================================================
