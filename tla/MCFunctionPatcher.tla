-------------------------- MODULE MCFunctionPatcher --------------------------
(* FunctionPatcher for TLC: a module m with the functions x and y, and two   *)
(* plugins; the blocks of the code cave are interchangeable.                 *)
EXTENDS FunctionPatcher, TLC

CONSTANTS p, q, m, x, y

Req(o, a, named, exported, mandatory, static) ==
  [owner |-> o, module |-> m, address |-> a, named |-> named, exported |-> exported,
   mandatory |-> mandatory, matching |-> TRUE, static |-> static]

\* p replaces x and a name that the module does not export when it starts, and y
\* from its code; q replaces both when it starts, y by its address.
TwoPlugins ==
  {Req(p, x, TRUE, TRUE, FALSE, TRUE), Req(p, y, TRUE, TRUE, FALSE, FALSE),
   Req(p, y, TRUE, FALSE, FALSE, TRUE),
   Req(q, x, TRUE, TRUE, FALSE, TRUE), Req(q, y, FALSE, TRUE, TRUE, TRUE)}

Symmetry == Permutations(Trampolines)
=============================================================================
