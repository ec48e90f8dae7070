--------------------------- MODULE MCCatalogScan ---------------------------
(* TLC instance of CatalogScan.  Characters: '-' is 1, '/' is 2, letters    *)
(* are larger.  The paths are a, a/a, a/b and a-: the string "a-" lies      *)
(* between "a" and "a/a", but the walk reaches it after "a/b".              *)
EXTENDS CatalogScan

MCPaths ==
    LET a == <<3>>  b == <<4>>  dash == <<3, 1>>
    IN  {<<a>>, <<a, a>>, <<a, b>>, <<dash>>}
=============================================================================
