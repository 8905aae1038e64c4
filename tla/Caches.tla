-------------------------------- MODULE Caches -----------------------------
(***************************************************************************)
(* The services whose state is a cache or a clock, over one desk of        *)
(* request frames.                                                         *)
(***************************************************************************)
EXTENDS StorageAccess, Geo, Weather

(* A tick is half a minute, a tenth of a second, or half an hour: a         *)
(* behaviour is one of the clients of one service.                          *)
ASSUME GroupsAssumption ==
  \A G \in Groups :
    G \subseteq AccessOps \/ G \subseteq GeoOps \/ G \subseteq EventOps \cup PlaceOps

cacheVars == <<desk, access, geo, weather>>

Init == AccessInit /\ GeoInit /\ WeatherInit

Concerns(O) == ops \cap O # {}

Next ==
  \/ Concerns(AccessOps) /\ AccessNext /\ UNCHANGED <<geo, weather>>
  \/ Concerns(GeoOps) /\ GeoNext /\ UNCHANGED <<access, weather>>
  \/ Concerns(EventOps \cup PlaceOps) /\ WeatherNext /\ UNCHANGED <<access, geo>>

Spec == Init /\ [][Next]_cacheVars

-----------------------------------------------------------------------------
(* Entries have the shape and the lifetimes the services give them; no      *)
(* clock runs past where it is read.                                        *)
CachesOK == AccessTypeOK /\ GeoTypeOK /\ WeatherTypeOK
=============================================================================
