--------------------------- MODULE MCMcpContainers ---------------------------
(***************************************************************************)
(* McpContainers with few personas, rows and ports.                        *)
(***************************************************************************)
EXTENDS McpContainers, TLC

Symmetry == Permutations(Persona) \cup Permutations(Row)

=============================================================================
