--------------------------- MODULE MCSystemValues ---------------------------
(* Bounds of the run of SystemValues. *)
EXTENDS SystemValues

\* Two publications, a link that comes and goes, a request of each other kind.
MCMaxOf == [publish |-> 2, link |-> 2, lifecycle |-> 1, binding |-> 1]
=============================================================================
