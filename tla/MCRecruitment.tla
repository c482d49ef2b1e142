--------------------------- MODULE MCRecruitment ----------------------------
(* Small instances of Recruitment, and of the pages over it, for TLC. *)
EXTENDS Recruitment, AdminPages, TLC

\* Headhunters, candidates and the ids of profiles are alike to the handlers.
Symmetry ==
  Permutations(Hunters) \union Permutations(Candidates) \union Permutations(Anon)
=============================================================================
