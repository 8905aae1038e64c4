------------------------------- MODULE MCCaches ----------------------------
EXTENDS Caches, TLC

Symmetry == Permutations(Slots)

CacheGroups ==
  {{"check", "downloadSensitive"}, {"download", "deleteObject"},
   {"downloadSensitive", "updateMetadata"}, {"downloadAsset", "updateMetadata"}, GeoOps, EventOps, PlaceOps}

(* What a service does not use stands still; waiting for each other is told *)
(* apart only where a property does.                                        *)
CachesInit ==
  /\ Init
  /\ Concerns(AccessOps) \/ member = {}
  /\ "updateMetadata" \in ops \/ (uploader = Null /\ ~isPublic)
  /\ "downloadAsset" \in ops => calm
  /\ Concerns(GeoOps) \/ inFrance = {}
  /\ IF Concerns(EventOps \cup PlaceOps) THEN ~calm ELSE apiKey

CachesSpec == CachesInit /\ [][Next]_cacheVars
=============================================================================
