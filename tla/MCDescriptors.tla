--------------------------- MODULE MCDescriptors ---------------------------
(* Model-checking instances of the descriptors' owners: MCDescriptors.cfg   *)
(* (handles are dropped) and MCDescriptorsClose.cfg (they are closed, too). *)
EXTENDS Descriptors
=============================================================================
