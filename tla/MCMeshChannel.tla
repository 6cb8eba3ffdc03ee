--------------------------- MODULE MCMeshChannel ---------------------------
(* Two senders on the mesh channel.                                        *)
EXTENDS MeshChannel, TLC

CONSTANTS s1, s2
=============================================================================
