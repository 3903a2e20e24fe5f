------------------------------ MODULE MCBackup ------------------------------
(* Backup with one backup kept of each class.                                  *)
EXTENDS Backup, TLC
CONSTANTS c1, c2, o1, k1

Alike == Permutations({c1, c2})

MCLimit == [class \in Classes |-> 1]
Layout(source, target_) == [source |-> source, target |-> target_]
\* Into two databases, or from one into one.
MCLayouts == {Layout(FALSE, FALSE), Layout(TRUE, FALSE), Layout(TRUE, TRUE)}
\* From two databases into one.
MCSharedTarget == {Layout(FALSE, TRUE)}
=============================================================================
