---------------------------- MODULE MCPluginSync ----------------------------
(* Contents are numbers: the n-th local edit writes n, the n-th change by  *)
(* another device -n, and 0 is no content.                                 *)
EXTENDS PluginSync

MCContents == (-MaxRemote .. MaxEdits) \ {0}
MCNoContent == 0
MCNoBase == -1
Puts == {"put"}
PutsAndDeletes == {"put", "delete"}

OnePath == {"a"}
Nested == {"a", "a/b"}
NestedUnder == {<<"a/b", "a">>}
=============================================================================
