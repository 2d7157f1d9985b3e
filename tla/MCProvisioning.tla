--------------------------- MODULE MCProvisioning ---------------------------
(* The first of the tables of settings.py:60-62, the one with an index: a   *)
(* walk has every kind of step once.                                        *)
EXTENDS Provisioning

MCTables == <<"users">>
=============================================================================
