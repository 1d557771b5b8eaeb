--------------------------- MODULE MCVirtualMemory ---------------------------
(* Two cores with an instruction and a data TLB each, and three processes.    *)
EXTENDS VirtualMemory, TLC

CONSTANTS c1, c2, i1, d1, i2, d2

TlbOrder == <<i1, d1, i2, d2>>
CoreOfTlb == i1 :> c1 @@ d1 :> c1 @@ i2 :> c2 @@ d2 :> c2

v == <<0, 0>>  w == <<0, 1>>  x == <<1, 0>>  \* v and w share a table

Hosts(first, second) == c1 :> first @@ c2 :> second
Mode(hosts, uses, entries) == [hosts |-> hosts, uses |-> uses, entries |-> entries]

(* One process on both cores; two that take turns on a core, and a third   *)
(* with a page of its own; two with the same page and enough entries.      *)
QuietModes ==
    {Mode(Hosts({1}, {1}), <<{v, w}, {}, {}>>, 1),
     Mode(Hosts({1, 2}, {3}), <<{v}, {v, w}, {x}>>, 1),
     Mode(Hosts({1}, {2}), <<{v, w}, {v}, {}>>, 3)}

(* Two processes with the same page, and TLBs that have to evict. *)
RacingModes == {Mode(Hosts({1}, {2}), <<{v, w}, {v}, {}>>, 1)}
===============================================================================
