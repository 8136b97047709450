----------------------------- MODULE MCRoomUsers ------------------------------
(* RoomUsers for TLC: users, producers and instances are interchangeable.  More   *)
(* than one tree node only while no more than one user is in the table.           *)
EXTENDS RoomUsers, TLC

Symmetry == Permutations(Users) \cup Permutations(Producers) \cup Permutations(Insts)

FewAtOnce == last_node' > 1 => \E u \in Users : users'[u] = NoCell
MCNext == Next /\ FewAtOnce
================================================================================
