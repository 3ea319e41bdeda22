----------------------------- MODULE MCStartup -----------------------------
(* An instance of Startup for TLC. *)
EXTENDS Startup

\* Two archives for one stack: the second overrides the first.
TwoArchives == <<"s1", "s1">>
=============================================================================
