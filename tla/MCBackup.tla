------------------------------ MODULE MCBackup ------------------------------
(***************************************************************************)
(* Three backups of two files one after the other; two backups of two      *)
(* files, and of one file with an edit at each end, that overlap.          *)
(***************************************************************************)
EXTENDS Backup, TLC

CONSTANTS terminal, rule
MCRuns == {terminal, rule}
Same == Permutations(MCRuns)

MCWorlds == {
  [names |-> {1, 2}, together |-> FALSE, starts |-> 3, edits |-> 2, puts |-> 1],
  [names |-> {1, 2}, together |-> TRUE, starts |-> 2, edits |-> 0, puts |-> 0],
  [names |-> {1}, together |-> TRUE, starts |-> 2, edits |-> 1, puts |-> 1]}
=============================================================================
