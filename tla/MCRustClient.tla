---------------------------- MODULE MCRustClient ----------------------------
(* Contents are numbers: the n-th local edit writes n, the n-th change by  *)
(* another device -n, and 0 is no content.                                 *)
EXTENDS RustClient

MCContents == (-MaxRemote .. MaxEdits) \ {0}
MCNoContent == 0
MCNoBase == -1
PutsAndDeletes == {"put", "delete"}

OnePath == {"a"}
Nested == {"a", "a/b"}
NestedUnder == {<<"a/b", "a">>}
=============================================================================
