--------------------------- MODULE MCJobProcessor ---------------------------
(* Small instances of JobProcessor for TLC. *)
EXTENDS JobProcessor, TLC

\* For safety only.
Symmetry ==
  Permutations(JobIds) \cup Permutations(ConversationIds)
    \cup Permutations(Keys) \cup Permutations(Threads)
=============================================================================
