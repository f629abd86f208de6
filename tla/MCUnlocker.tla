----------------------------- MODULE MCUnlocker -----------------------------
(* Unlocker for two locks that do not lie side by side. *)
EXTENDS Unlocker

TwoLocks == <<1, 3>>

=============================================================================
