----------------------------- MODULE MCScanCache -----------------------------
(* The instances of MCDurableStore, with what each FsWalStore remembers. *)
EXTENDS MCDurableStore, ScanCache
===============================================================================
