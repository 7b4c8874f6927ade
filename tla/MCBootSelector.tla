--------------------------- MODULE MCBootSelector ---------------------------
EXTENDS BootSelector, TLC

Symmetry == Permutations(Entry)

\* Kinds of faults, for the configurations.
Power == {"power_idle", "power_seal", "power_commit", "power_rollback"}
Writes == {"load", "count", "activate", "rows", "rows_in_trial", "undo", "header",
           "commit", "committed", "rollback_header", "rollback", "rollback_rows"}
AllFaults == Power \cup Writes \cup {"boot_stage", "fsync"}

\* Writes that fail and leave no trace: the refinement of BootVector.
Traceless == AllFaults \ {"activate", "rows", "rows_in_trial", "undo", "committed", "fsync"}
\* Failures after which a trial is still armed and counted.
StillCounted == AllFaults \ {"rows_in_trial", "undo", "committed", "fsync", "header",
                             "power_seal", "rollback", "power_rollback"}
=============================================================================
