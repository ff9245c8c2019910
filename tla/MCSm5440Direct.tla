--------------------------- MODULE MCSm5440Direct ---------------------------
(* Small instances of Sm5440Direct for TLC. *)
EXTENDS Sm5440Direct

MCTempsCool == {300}
MCNoContracts == {}
MCSources == {"SDP"}

\* For liveness the tablet stays awake and keeps its source; the source may
\* still refuse every request, and the pump may trip at any time.
PluggedNext == DirectNext /\ awake' /\ pm' = "up" /\ source' = source
PluggedSpec == DirectInit /\ [][PluggedNext]_allvars /\ DirectFairness
=============================================================================
