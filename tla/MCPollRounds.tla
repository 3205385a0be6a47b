---------------------------- MODULE MCPollRounds ----------------------------
(* Bounds of the model checking of PollRounds: see PollRounds.cfg. *)
EXTENDS PollRounds

=============================================================================
