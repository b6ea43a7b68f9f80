--------------------------- MODULE MCObjectStore ----------------------------
(* A folder and two files in it.  A delete of the folder covers two rows   *)
(* of which it may have seen one; an upload to the folder's name has two   *)
(* conflicts below, an upload into the folder one above.                   *)
EXTENDS ObjectStoreProofs

MCPaths == {"a", "a/b", "a/d"}
MCUnder == {<<"a/b", "a">>, <<"a/d", "a">>}
=============================================================================
