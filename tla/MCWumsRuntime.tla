--------------------------- MODULE MCWumsRuntime ---------------------------
EXTENDS WumsRuntime

Base == [name |-> 1, depends |-> {}, optional |-> {}, imports |-> {}, early |-> FALSE,
         hooks |-> {"init", "fini", "starts"}]

\* Initialized before its dependency, and linked to it.
Early == [name |-> 2, depends |-> {1}, optional |-> {3}, imports |-> {1}, early |-> TRUE,
          hooks |-> {"init", "fini", "starts", "clear", "ends"}]

\* Takes the place of Base and imports from Early, which depends on it: beside Early
\* there is no order (a load is refused), without it the import is missing (a link fails).
Broken == [name |-> 1, depends |-> {}, optional |-> {2}, imports |-> {2}, early |-> FALSE,
           hooks |-> {"relocated"}]

MCDefinitions == {Base, Early, Broken}
MCInputs == {{Base, Early}}
MCAdditions == {Broken}
=============================================================================
