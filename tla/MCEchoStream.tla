---------------------------- MODULE MCEchoStream ----------------------------
(* Instances of EchoStream for TLC. *)
EXTENDS EchoStream

\* No command, each command, and the shutdown followed by another command.
AllCommands == {<<>>, <<"s">>, <<"c">>, <<"s", "c">>, <<"p", "s">>}

=============================================================================
