------------------------------- MODULE MCBridge -------------------------------
(* Instances of Bridge: a remote subtree s, a remote block b that names it, and *)
(* an object l of this cluster.                                                 *)
EXTENDS Bridge

CONSTANTS s, b, l, c1, c3

MCRoots == [x \in Block |-> {s} \cap Key]
MCSize == [k \in Key |-> 2]
================================================================================
