---------------------------- MODULE MCLayerStale ----------------------------
(* The doors layer of LayerPolls alone, beside rooms that are pushed meanwhile. *)
EXTENDS LayerPolls

MCSettingsFiles == {[policy |-> "geometry", pins |-> [k \in Kinds |-> [m \in Models |-> Nothing]]]}
MCScopes == {[milestone |-> FALSE, storey |-> 1]}
=============================================================================
