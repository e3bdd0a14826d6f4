------------------------------ MODULE MCShell -------------------------------
(* Shell with two letters, bytes of five values, lines of up to 4           *)
(* characters: the commands are "12" for echo and "2" for maybeOS.         *)
EXTENDS Shell

MCEcho    == <<1, 2>>
MCMaybeOS == <<2>>
=============================================================================
