------------------------- MODULE MCDependencyCache --------------------------
(* Two processes; two Python workspaces with pinned requirements, one that mixes
   Python and Node manifests, and one without dependencies. *)
EXTENDS DependencyCache, TLC

CONSTANTS a, b

Tree(files, pin) == [files |-> files, pinned |-> TRUE, pin |-> pin]

Symmetry == Permutations(Actors)

MCTrees == {Tree({"requirements"}, "p1"), Tree({"requirements"}, "p2"),
            Tree({"requirements", "package.json", "package-lock.json"}, "n1"), Tree({}, "p0")}
=============================================================================
