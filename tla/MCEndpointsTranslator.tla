------------------------ MODULE MCEndpointsTranslator -----------------------
(* EndpointsTranslator for TLC: two Services, two clusters. *)
EXTENDS EndpointsTranslator, TLC

CONSTANTS svcA, svcB, c1, c2

TwoServices == {svcA, svcB}
TwoClusters == {c1, c2}

Symmetry == Permutations(TwoServices) \union Permutations(TwoClusters)
=============================================================================
