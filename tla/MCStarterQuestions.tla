------------------------ MODULE MCStarterQuestions ------------------------
EXTENDS StarterQuestions, TLC

CONSTANTS r1, r2, a1, a2, t1, t2, ko, en

MCSymmetry == Permutations({r1, r2}) \cup Permutations({a1, a2})
                \cup Permutations({t1, t2}) \cup Permutations({ko, en})

(* States explored further.  The schema is captured until there are two    *)
(* versions.  Without starter questions two requests race over two         *)
(* versions and two layers, or one version and three; with them one        *)
(* request at a time works on two layers of one version, which is not      *)
(* captured again: captures do not touch what starter questions read.      *)
NoCapture == \A r \in Request : task[r].pc \notin {"captured", "create"}

OnlyLayers ==
  /\ sets = << >> /\ \A a \in Asker : job[a] = Idle
  /\ Len(versions) + Len(layers) <= 4
  /\ Len(versions) = 2 => NoCapture

OneRequest ==
  /\ Len(versions) = 1 /\ NoCapture /\ db = versions[1].schema
  /\ Len(layers) <= 2
  /\ \A r, q \in Request : task[r] # Idle /\ task[q] # Idle => r = q

MCConstraint == OnlyLayers \/ OneRequest
===========================================================================
