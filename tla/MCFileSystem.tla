--------------------------- MODULE MCFileSystem ---------------------------
(* FileSystem for TLC, with a name longer than a directory entry holds.       *)
EXTENDS FileSystem, TLC

CONSTANTS a, b, b1, b2

MCPrefix == (a :> a) @@ (b1 :> b) @@ (b2 :> b)
MCBuffers == {<<1>>, <<1, 1, 1>>}
===========================================================================
