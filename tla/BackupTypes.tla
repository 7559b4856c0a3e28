---------------------------- MODULE BackupTypes ----------------------------
(* The types of backups, as the backup and the restore controller read them. *)

\* NormalizeBackupType, on types that are already trimmed and in lower case.
NormalizeBackupType(type) == IF type \in {"", "full"} THEN "physical" ELSE type

\* The jobs of both controllers know two types, and refuse the others.
Supported(type) == NormalizeBackupType(type) \in {"logical", "physical"}
=============================================================================
