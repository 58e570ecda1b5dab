--------------------------- MODULE MCBackupChain ---------------------------
(* Values of the constants of BackupChain for TLC.                         *)
EXTENDS BackupChain

Conf(max, always, restart, faults) ==
    [max |-> max, always |-> always, restart |-> restart, faults |-> faults]

\* Each option alone, and both limits together, either one the smaller; removals
\* that fail, and those that do not; the last one lets chains fork.
AllConfigurations ==
    { Conf(2, 0, 0, {"fail", "list", "remove"}),
      Conf(2, 0, 0, {"put", "remove"}),
      Conf(0, 2, 2, {"fail", "put"}),
      Conf(0, 1, 0, {"list", "remove"}),
      Conf(2, 1, 2, {"put", "remove"}),
      Conf(1, 2, 0, {"fail"}),
      Conf(2, 1, 0, {"put", "list"}) }

LevelOne == { Conf(0, 1, 0, {}) }
=============================================================================
