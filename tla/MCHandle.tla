------------------------------ MODULE MCHandle ------------------------------
(***************************************************************************)
(* TLC instance of Handle.                                                 *)
(***************************************************************************)
EXTENDS Handle

\* Nothing, or a broadcast between two events.
MCOutputs == {<<>>, <<"event", "broadcast", "event">>}
=============================================================================
