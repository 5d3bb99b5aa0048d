---------------------------- MODULE PluginStoreMC ----------------------------
(* Values for TLC: two installs and a prune, in two processes.             *)
EXTENDS PluginStore

CONSTANTS p1, p2, i1, i2, r1

(* Every way to place the calls, up to renaming of the processes           *)
Placements == {h \in [{i1, i2, r1} -> {p1, p2}] : h[r1] = p2}
=============================================================================
