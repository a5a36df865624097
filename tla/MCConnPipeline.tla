--------------------------- MODULE MCConnPipeline ---------------------------
(***************************************************************************)
(* Instances of ConnPipeline for TLC.                                      *)
(***************************************************************************)
EXTENDS ConnPipeline

Passed      == [bad |-> FALSE, blocked |-> FALSE]
Blacklisted == [bad |-> TRUE, blocked |-> TRUE]

\* The lists know each connection, and block none
OnlyBad == {[bad |-> TRUE, blocked |-> FALSE]}

\* They may change their mind
TwoVerdicts == {Passed, Blacklisted}
=============================================================================
