--------------------------- MODULE MCRunLifecycle ---------------------------
(***************************************************************************)
(* Instances of RunLifecycle for TLC.                                      *)
(***************************************************************************)
EXTENDS RunLifecycle

CONSTANTS t1, t2, c1, none

OneThread    == {t1}
TwoThreads   == {t1, t2}
OneRequest   == {c1}
JustRetry    == {"retry"}
SomeOutcomes == {"success", "retry"}
Enqueue      == {"enqueue"}

=============================================================================
