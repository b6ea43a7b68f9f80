---------------------------- MODULE MCVaultTree ----------------------------
(* o is .obsidian, p the plugin's folder with data.json and state/, x a    *)
(* file below data.json, n a folder of notes.                              *)
EXTENDS VaultTree

StatePaths == {"o", "o/p", "o/p/data", "o/p/data/x", "o/p/state", "o/p/state/j", "o/p/state/tmp"}
MCPaths == StatePaths \cup {"o/app", "n", "n/f", "n/g"}
MCUnder ==
  {<<"n/f", "n">>, <<"n/g", "n">>, <<"o/app", "o">>}
  \cup {<<q, "o">> : q \in StatePaths \ {"o"}}
  \cup {<<q, "o/p">> : q \in StatePaths \ {"o", "o/p"}}
  \cup {<<"o/p/data/x", "o/p/data">>}
  \cup {<<q, "o/p/state">> : q \in {"o/p/state/j", "o/p/state/tmp"}}
MCHidden == StatePaths \cup {"o/app"}
MCJournals == {"o/p/state/j"}
=============================================================================
