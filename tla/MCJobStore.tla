----------------------------- MODULE MCJobStore -----------------------------
(* Small instances of JobStore for TLC. *)
EXTENDS JobStore, TLC

\* No action and no property tells two ids, two keys or two threads apart.
Symmetry ==
  Permutations(JobIds) \cup Permutations(ConversationIds) \cup Permutations(Keys)
=============================================================================
