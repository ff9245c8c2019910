-------------------------- MODULE MCSm5714Battery --------------------------
(* Small instances of Sm5714Battery for TLC. *)
EXTENDS Sm5714Battery

\* Temperatures that walk through the three bands in steps below the width of
\* the hysteresis; one cool temperature.
MCTempsBands == {410, 440, 470, 505}
MCTempsCool  == {300}
MCContracts == {[mv |-> 0, ma |-> 0], [mv |-> 9000, ma |-> 3000]}
MCSources == {"SDP"}
=============================================================================
