--------------------------- MODULE MCThreadState ---------------------------
(***************************************************************************)
(* Instances of ThreadState for TLC: one thread of a client, one fresh     *)
(* identifier for a copy or a stateless run.                               *)
(***************************************************************************)
EXTENDS ThreadState

CONSTANTS t1, f1, r1, r2, p1, none

OneGiven == {t1}
OneFresh == {f1}
TwoRuns  == {r1, r2}
OnePost  == {p1}
OneStateless == {r2}
OneEvented == {r2}

=============================================================================
