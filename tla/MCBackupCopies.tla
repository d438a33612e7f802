-------------------------- MODULE MCBackupCopies --------------------------
\* One backup that is copied and reported, and the next run of its policy.
EXTENDS BackupCopies
=============================================================================
