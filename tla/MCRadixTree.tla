---------------------------- MODULE MCRadixTree ----------------------------
(* A small instance of RadixTree.                                          *)
EXTENDS RadixTree

HashDef == 1 .. 4
=============================================================================
