----------------------------- MODULE MCNodeSync -----------------------------
(***************************************************************************)
(* Instances of NodeSync for TLC.                                          *)
(***************************************************************************)
EXTENDS NodeSync

CONSTANTS x, y, z

\* A second node comes and goes.
TwoAnswers == {<<x>>, <<x, y>>}

\* A third node is added to two.
ThreeAnswers == {<<x, y>>, <<x, y, z>>}
=============================================================================
