----------------------------- MODULE Participants -----------------------------
(***************************************************************************)
(* The nodes that the objects of the library live on.                      *)
(***************************************************************************)
CONSTANTS
    Nodes,
    MayReset         \* nodes whose application may call reset on the object
=============================================================================
