--------------------------- MODULE MCSectorCache ---------------------------
(* Bounds for checking SectorCache: two devices whose sectors 0 and 1        *)
(* compete for the two slots, and whose sector 2 is the FSInfo sector.       *)
EXTENDS SectorCache
CONSTANTS d1, d2
=============================================================================
