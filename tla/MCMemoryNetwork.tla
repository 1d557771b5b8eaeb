--------------------------- MODULE MCMemoryNetwork ---------------------------
(***************************************************************************)
(* Two stacks; the processor is at A.  Vault va is in the quadrant of the  *)
(* link between the stacks, vd of A and vb of B reach it by the switch.    *)
(***************************************************************************)
EXTENDS MemoryNetwork, TLC

CONSTANTS A, B, cpu, ab, ba, va, vd, vb

MCStackOf == (cpu :> A) @@ (ab :> A) @@ (ba :> B) @@ (va :> A) @@ (vd :> A) @@ (vb :> B)
MCPeer == (ab :> ba) @@ (ba :> ab)
MCRoute == (A :> (B :> ab)) @@ (B :> (A :> ba))
MCCpuRoute == (A :> cpu) @@ (B :> cpu)
MCNear == {<<ab, va>>}

Kind(pu, v, w) == [addr |-> v, vault |-> v, write |-> w, pu |-> pu, ideal |-> FALSE]
Host(v, w) == Kind(NoUnit, v, w)
MCWorkloads == {{Host(va, FALSE), Host(vb, TRUE)},
            {Kind(va, vb, TRUE), Kind(vb, va, FALSE)},
            {Kind(vd, va, FALSE), [Kind(vb, vd, FALSE) EXCEPT !.ideal = TRUE]},
            {Kind(vd, vd, TRUE), Kind(va, vd, FALSE)}}
==============================================================================
