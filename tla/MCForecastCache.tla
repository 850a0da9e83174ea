-------------------------- MODULE MCForecastCache --------------------------
(* Instance of ForecastCache for TLC: two lookups, a full cache, reloads. *)
EXTENDS ForecastCache
=============================================================================
