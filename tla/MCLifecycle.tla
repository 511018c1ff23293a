---------------------------- MODULE MCLifecycle ----------------------------
(***************************************************************************)
(* Small instances of Lifecycle: one goroutine of a round, one alert       *)
(* channel with one delivery at a time, and an alert set to replace.       *)
(***************************************************************************)
EXTENDS Lifecycle

OneChannel == {"email"}
AlertSet(types) == [events |-> types, channels |-> OneChannel]
OneSet  == {AlertSet({"unhealthy"})}
=============================================================================
