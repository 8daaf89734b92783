---------------------------- MODULE MCQueryRuns ----------------------------
(* Instances of QueryRuns: one question, and two owners who may both make  *)
(* an example of it.  Questions only meet in the layers they read, so one  *)
(* question and an editor of the layers show what several would.           *)
EXTENDS QueryRuns
=============================================================================
