----------------------------- MODULE MCHandover -----------------------------
(* Beside the vault's owner another user runs Obsidian; the client and an  *)
(* Electron app of the owner's must not be taken for it.                   *)
EXTENDS Handover

MCOthers == {[uid |-> "other", comm |-> "obsidian", runs |-> "obsidian"],
             [uid |-> "owner", comm |-> "electron", runs |-> "chat"],
             [uid |-> "owner", comm |-> "obsidian-sync-c", runs |-> "client"]}

(* Every property of MCHandover.cfg speaks of what happens before two      *)
(* programs have data.json in hand at once, so nothing is looked at after. *)
Apart == ~overlap
=============================================================================
