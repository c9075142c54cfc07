---------------------------- MODULE MCDriverLoad ----------------------------
(* Instances of DriverLoad for TLC. *)
EXTENDS DriverLoad

\* Every driver of the table.
AllDrivers == DOMAIN Program

\* Drivers that share a class or a kobject name, or whose interrupt handler
\* needs what another step of theirs provides.
NamesShared == {"own_workqueues", "signal_module", "custom_slab_cache", "temp_watch"}
=============================================================================
