---------------------------- MODULE MCShadowPool ----------------------------
(* Small instance of ShadowPool: four blocks of two pages; one stream may   *)
(* write five logical pages and another one of them; a nominal size that    *)
(* fits below the limit of three blocks and one that does not.              *)
EXTENDS ShadowPool

KeyDef == {<<1, 1>>, <<1, 2>>, <<1, 3>>, <<1, 4>>, <<1, 5>>, <<2, 5>>}
NominalsDef == {4, 5}
=============================================================================
