------------------------------ MODULE MCPlayback ------------------------------
(***************************************************************************)
(* One work of two short sound files that the user starts and listens to.  *)
(***************************************************************************)
EXTENDS Playback

Listening == {[dock |-> 2, page |-> 0, fails |-> 0]}

=============================================================================
