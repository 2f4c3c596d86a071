--------------------------- MODULE MCRunLifecycle ---------------------------
(* Every database call of every handler and task may fail. *)
EXTENDS RunLifecycle

AllSites == Sites
=============================================================================
