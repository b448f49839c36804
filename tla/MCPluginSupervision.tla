------------------------- MODULE MCPluginSupervision -------------------------
(* Three plugins, a breaker that trips at the second crash: the third may be *)
(* left out.  Three files and two respawns: a plugin may survive two kills   *)
(* and meet a third.                                                         *)
EXTENDS PluginSupervision, TLC
==============================================================================
