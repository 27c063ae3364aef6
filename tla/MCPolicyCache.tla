--------------------------- MODULE MCPolicyCache ---------------------------
(* PolicyCache on a small instance. *)
EXTENDS PolicyCache, TLC

\* Nothing but the properties reads the history: a property about ages reads no
\* floor, one about floors no time.
LiveAges ==
    <<now, sVars, pVars, sources, stage, [p \in Callers |-> [call[p] EXCEPT !.floor = 0]]>>

LiveFloors ==
    <<now, sVars, pVars, stage, Len(sharedBorn), [k \in Plans |-> Len(planBorn[k])], seen,
      [p \in Callers |-> [call[p] EXCEPT !.at = 0]]>>

Symmetry == Permutations(Callers) \cup Permutations(Flights)
=============================================================================
