-------------------------- MODULE MCAdministration ---------------------------
(***************************************************************************)
(* Four components that share no state, explored side by side: two editors *)
(* of the resources, one client key, a list, and two processes.  Each      *)
(* behaviour moves one of them, its focus.                                 *)
(***************************************************************************)
EXTENDS Resources, ClientKeys, RecordPages, Process, TLC

VARIABLE focus

AdministrationVars ==
  <<focus, resourcesVars, clientKeysVars, recordPagesVars, processVars>>

AdministrationInit ==
  /\ focus \in {"resources", "keys", "pages", "process"}
  /\ ResourcesInit /\ ClientKeysInit /\ RecordPagesInit /\ ProcessInit
  /\ focus # "process" => keyFile = CHOOSE k \in MasterKeys : TRUE

ResourcesMove ==
  /\ focus = "resources" /\ ResourcesNext
  /\ UNCHANGED <<focus, clientKeysVars, recordPagesVars, processVars>>

KeysMove ==
  /\ focus = "keys" /\ ClientKeysNext
  /\ UNCHANGED <<focus, resourcesVars, recordPagesVars, processVars>>

PagesMove ==
  /\ focus = "pages" /\ RecordPagesNext
  /\ UNCHANGED <<focus, resourcesVars, clientKeysVars, processVars>>

ProcessMoves ==
  /\ focus = "process" /\ ProcessNext
  /\ UNCHANGED <<focus, resourcesVars, clientKeysVars, recordPagesVars>>

AdministrationNext == ResourcesMove \/ KeysMove \/ PagesMove \/ ProcessMoves

AdministrationSpec == AdministrationInit /\ [][AdministrationNext]_AdministrationVars

Symmetry == UNION {Permutations(s) : s \in {Editors, Processes}}
=============================================================================
