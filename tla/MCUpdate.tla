------------------------------ MODULE MCUpdate ------------------------------
(* Either the release on offer starts and never answers, or the one kept to go back to does. *)
EXTENDS Update

Either == {{Installed - 1}, {Newest}}

=============================================================================
