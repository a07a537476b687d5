---------------------------- MODULE MCPipeline ----------------------------
EXTENDS Pipeline, TLC

CONSTANTS m1, m2, p1, p2

\* Messages and partitions are interchangeable.
Symmetry == Permutations(Msg) \cup Permutations(Partition)

\* The same for liveness, where TLC's symmetry is not sound: of the two messages m1 is
\* the one accepted first.  Every other behaviour is one of these with the names
\* exchanged, and the properties do not tell the names apart.
InOrder == m2 \in accepted => m1 \in accepted

OrderedSpec ==
    /\ Init /\ [][Next /\ InOrder']_vars
    /\ \A w \in Worker : WF_vars(Step(w))
=============================================================================
