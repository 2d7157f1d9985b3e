--------------------------- MODULE MCImageWorkflow --------------------------
(* Requests of both kinds as model values.                                 *)
EXTENDS ImageWorkflow

CONSTANTS i1, n1

MCImages == {i1}
MCNotices == {n1}
=============================================================================
