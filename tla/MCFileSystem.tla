---------------------------- MODULE MCFileSystem ----------------------------
(***************************************************************************)
(* Three files compete for two inodes and three blocks of two characters.  *)
(***************************************************************************)
EXTENDS FileSystem, TLC

CONSTANTS f1, f2, f3, h1, h2, a, b

MCTexts   == {<<a>>, <<b, a>>}
NoUse     == {}
Careless  == {"shared", "remount", "stop"}
Loose     == {"stale", "open missing", "delete missing"}
OneText   == {<<a>>}
Symmetry  == Permutations({f1, f2, f3}) \cup Permutations({h1, h2})
=============================================================================
