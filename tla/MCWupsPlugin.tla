---------------------------- MODULE MCWupsPlugin ----------------------------
(* One plugin with two initializers. *)
EXTENDS WupsPlugin

TwoInits == <<"malloc", "plugin">>

=============================================================================
