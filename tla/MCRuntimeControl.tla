-------------------------- MODULE MCRuntimeControl --------------------------
(***************************************************************************)
(* Small instances of RuntimeControl.  The page belongs to scope s1.       *)
(***************************************************************************)
EXTENDS RuntimeControl, TLC

CONSTANTS s1, s2, o1, o2, l1, l2

OneScope == {s1}
TwoScopes == {s1, s2}
OneOperator == {o1}
TwoOperators == {o1, o2}
OneLab == {l1}
TwoLabs == {l1, l2}
=============================================================================
