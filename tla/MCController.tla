--------------------------- MODULE MCController ---------------------------
(* A window of two tabs, loaded from the layout file. *)
EXTENDS ControllerTrails

CONSTANTS m1

MCModels == {m1}
=============================================================================
