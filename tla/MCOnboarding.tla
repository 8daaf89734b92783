---------------------------- MODULE MCOnboarding ----------------------------
(* Two handlers at a time, one of them an open wizard that polls, and one  *)
(* agent token.  There is nothing to define: the cfg gives the constants.  *)
EXTENDS Onboarding, TLC

=============================================================================
