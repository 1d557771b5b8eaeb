------------------------------- MODULE MCWeave -------------------------------
(***************************************************************************)
(* Two cores over a shared cache with one MSHR and a memory that takes one *)
(* or two requests.  The memory answers after 2 to MaxMemLat + 2 cycles,   *)
(* the bound half reckons with MemLat: the weave is at times faster and at *)
(* times slower.                                                           *)
(***************************************************************************)
EXTENDS Weave

(* Up to accs accesses of some kinds, with or without a write-back of the  *)
(* private cache beside them, and bbls blocks of some lengths; joins times *)
(* a thread may be put on the core, and with early it may leave any time.  *)
Todo(kinds, l1wb, accs, blocks, bbls, joins, early) ==
    [kinds |-> kinds, l1wb |-> l1wb, accs |-> accs, blocks |-> blocks, bbls |-> bbls,
     joins |-> joins, early |-> early]

Config(mshrs, a, b) == [mshrs |-> mshrs, todo |-> 1 :> a @@ 2 :> b]

(* Hits of one core against a miss of the other; misses of both, one with  *)
(* a write-back; and a core that leaves and is joined again.               *)
MCPrograms ==
    {Config(2, Todo({"hit"}, BOOLEAN, 2, {1, 6}, 1, 1, FALSE),
               Todo({"clean", "upgrade"}, {FALSE}, 1, {6}, 1, 1, FALSE)),
     Config(1, Todo({"dirty"}, {FALSE}, 1, {6}, 1, 1, FALSE),
               Todo({"hit", "upgrade"}, {TRUE}, 1, {6}, 1, 1, FALSE)),
     Config(1, Todo({"hit", "clean"}, {FALSE}, 1, {5}, 2, 2, TRUE),
               Todo({}, {}, 0, {5}, 2, 1, FALSE))}
=============================================================================
