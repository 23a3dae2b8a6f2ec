--------------------------- MODULE MCCachedDevice ---------------------------
(* A smaller instance than that of MCFileOps, from the same images.          *)
EXTENDS CachedDevice, MCFileOps

CacheWrites == {<<y>>, <<x, y>>}
CachePaths == {<<>>, <<m>>}
CacheImages == {Tight, WithFile}
=============================================================================
