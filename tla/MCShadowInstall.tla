--------------------------- MODULE MCShadowInstall --------------------------
(***************************************************************************)
(* Small instances of the shadow installer for TLC.                        *)
(***************************************************************************)
EXTENDS ShadowInstall, TLC

CONSTANTS h1, h2

OneHost == {<<h1>>}

\* Both hosts in one transaction, or the first alone.
TwoHosts == {<<h1, h2>>, <<h1>>}

Symmetry == Permutations(Proc)

=============================================================================
