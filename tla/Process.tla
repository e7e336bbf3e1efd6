------------------------------- MODULE Process -------------------------------
(***************************************************************************)
(* The commands of the program around one data directory (cmd/sidervia,    *)
(* internal/app, maintenance, store, processlock): serve, key rotate,      *)
(* admin reset-password and backup create.  Each runs as a process with    *)
(* the master key it has read at its start, and may be killed between any  *)
(* two steps; the operator replaces the key file and starts older and      *)
(* newer builds.  A transaction of SQLite is one step, and so is an online *)
(* backup, which copies one snapshot.                                      *)
(***************************************************************************)
EXTENDS Naturals

CONSTANTS
  Processes, NoProcess,
  MasterKeys, NoMasterKey,
  Builds,       \* a build is the number of the last migration it knows
  Columns,      \* the encrypted columns
  Outputs,      \* paths of backups
  NoOutput,
  MaxHandlers   \* bound on the requests in flight in one process

ASSUME ProcessAssumption ==
  /\ NoProcess \notin Processes /\ NoMasterKey \notin MasterKeys /\ NoOutput \notin Outputs
  /\ Builds \subseteq Nat \ {0}
  /\ Columns \subseteq Nat \ {0}   \* a column is named by its migration
  /\ MaxHandlers \in Nat

VARIABLES
  proc,      \* the processes
  holder,    \* the process whose flock is on sidervia.lock
  keyFile,   \* the key in SIDERVIA_MASTER_KEY_FILE
  db,        \* the database
  backup     \* at each path, the backup and its checksum file

processVars == <<proc, holder, keyFile, db, backup>>

\* The keys under which the rows of each column, and the sentinel, are sealed.
Database ==
  [schema : Nat, sentinel : MasterKeys \cup {NoMasterKey}, sealed : [Columns -> SUBSET MasterKeys]]

EmptyDatabase ==
  [schema |-> 0, sentinel |-> NoMasterKey, sealed |-> [c \in Columns |-> {}]]

\* A checksum file fits the content it was written for.  One whose writer was
\* killed fits none, and one that has outlived its backup not the next.
Backups ==
  [content : Database, exists : BOOLEAN, checksum : {"none", "fits", "other"}]

NoBackup == [content |-> EmptyDatabase, exists |-> FALSE, checksum |-> "none"]

Commands == {"serve", "rotate", "reset", "backup"}

Steps ==
  {"off", "check", "lock", "open", "verify", "work", "stop", "drain", "flush",
   "close", "unlock", "copy", "inspect", "publish", "sign"}

\* How the event of a request may be lost: its own write fails as the queue is
\* full, the writer is closed, or the queue is given up at the end.
Losses == {"full", "closed", "given up"}

\* "queued" is whether the usage writer's queue holds events; "lost", how events
\* have been lost; "clean", that Serve has met no error.
Proc ==
  [command : Commands \cup {"none"}, step : Steps, build : Nat, key : MasterKeys \cup {NoMasterKey},
   newKey : MasterKeys \cup {NoMasterKey}, output : Outputs \cup {NoOutput}, copy : Database,
   handlers : Nat, queued : BOOLEAN, closed : BOOLEAN, lost : SUBSET Losses, clean : BOOLEAN]

Off ==
  [command |-> "none", step |-> "off", build |-> 0, key |-> NoMasterKey, newKey |-> NoMasterKey,
   output |-> NoOutput, copy |-> EmptyDatabase, handlers |-> 0, queued |-> FALSE,
   closed |-> FALSE, lost |-> {}, clean |-> TRUE]

ProcessInit ==
  /\ proc = [p \in Processes |-> Off]
  /\ holder = NoProcess
  /\ keyFile \in MasterKeys
  /\ db = EmptyDatabase
  /\ backup = [o \in Outputs |-> NoBackup]

At(p, command, step) == proc[p].command = command /\ proc[p].step = step

Go(p, step) == proc' = [proc EXCEPT ![p].step = step]

GoWithError(p, step) == proc' = [proc EXCEPT ![p].step = step, ![p].clean = FALSE]

\* A return: the deferred calls close what is open.
Return(p, error) ==
  proc' = [proc EXCEPT ![p] = [Off EXCEPT !.command = proc[p].command, !.step = "close", !.clean = ~error]]

\* run: the command line, and loadCipher.
StartCommand(p) ==
  /\ proc[p].step = "off"
  /\ \E build \in Builds :
       \/ proc' = [proc EXCEPT ![p] = [Off EXCEPT
            !.command = "serve", !.step = "lock", !.build = build, !.key = keyFile]]
       \/ proc' = [proc EXCEPT ![p] = [Off EXCEPT
            !.command = "reset", !.step = "lock", !.build = build, !.key = keyFile]]
       \/ \E o \in Outputs :
            \/ proc' = [proc EXCEPT ![p] = [Off EXCEPT !.command = "backup", !.step = "check",
                 !.build = build, !.key = keyFile, !.output = o]]
            \/ \E k \in MasterKeys :
                 proc' = [proc EXCEPT ![p] = [Off EXCEPT !.command = "rotate", !.step = "check",
                   !.build = build, !.key = keyFile, !.newKey = k, !.output = o]]
  /\ UNCHANGED <<holder, keyFile, db, backup>>

-----------------------------------------------------------------------------
(* The data directory.                                                     *)

\* processlock.Acquire: LOCK_EX | LOCK_NB.
AcquireLock(p) ==
  /\ proc[p].step = "lock"
  /\ IF holder = NoProcess
     THEN holder' = p /\ Go(p, "open")
     ELSE UNCHANGED holder /\ proc' = [proc EXCEPT ![p] = Off]
  /\ UNCHANGED <<keyFile, db, backup>>

\* store.Open and migrate: each migration is a transaction; a database that
\* a newer build has migrated is refused.
Migrate(p) ==
  /\ proc[p].step = "open"
  /\ IF db.schema < proc[p].build
     THEN db' = [db EXCEPT !.schema = @ + 1] /\ UNCHANGED proc
     ELSE /\ IF db.schema > proc[p].build
             THEN Return(p, TRUE)
             ELSE Go(p, IF proc[p].command = "rotate" THEN "work" ELSE "verify")
          /\ UNCHANGED db
  /\ UNCHANGED <<holder, keyFile, backup>>

\* VerifyOrCreateSentinel; the other commands create none.
Verify(p) ==
  /\ proc[p].step = "verify"
  /\ IF db.sentinel = NoMasterKey /\ proc[p].command = "serve"
     THEN db' = [db EXCEPT !.sentinel = proc[p].key] /\ Go(p, "work")
     ELSE /\ IF db.sentinel = proc[p].key THEN Go(p, "work") ELSE Return(p, TRUE)
          /\ UNCHANGED db
  /\ UNCHANGED <<holder, keyFile, backup>>

\* The deferred database.Close: handlers that are still running write no more.
CloseDatabase(p) ==
  /\ proc[p].step = "close"
  /\ proc' = [proc EXCEPT ![p].step = "unlock", ![p].key = NoMasterKey, ![p].build = 0]
  /\ UNCHANGED <<holder, keyFile, db, backup>>

\* The deferred lock.Close, and the end of the process.
ReleaseLock(p) ==
  /\ proc[p].step = "unlock"
  /\ holder' = NoProcess
  /\ proc' = [proc EXCEPT ![p] = Off]
  /\ UNCHANGED <<keyFile, db, backup>>

-----------------------------------------------------------------------------
(* app.Serve.                                                              *)

\* Until database.Close handlers can use it, also those that Close of the
\* server has left behind.
DatabaseInUse(p) ==
  /\ proc[p].command = "serve"
  /\ \/ proc[p].step \in {"work", "stop"}
     \/ proc[p].step \in {"drain", "flush", "close"} /\ proc[p].handlers > 0

\* Handlers, the refresher and the retention store and delete secrets.
SealRow(p) ==
  /\ DatabaseInUse(p)
  /\ \E c \in Columns :
       /\ c <= db.schema
       /\ db' = [db EXCEPT !.sealed[c] = @ \cup {proc[p].key}]
  /\ UNCHANGED <<proc, holder, keyFile, backup>>

DeleteSealed(p) ==
  /\ DatabaseInUse(p)
  /\ \E c \in Columns : db.sealed[c] # {} /\ db' = [db EXCEPT !.sealed[c] = {}]
  /\ UNCHANGED <<proc, holder, keyFile, backup>>

\* The listener is open until Shutdown begins, also after readiness is gone.
AcceptRequest(p) ==
  /\ At(p, "serve", "work") \/ At(p, "serve", "stop")
  /\ proc[p].handlers < MaxHandlers
  /\ proc' = [proc EXCEPT ![p].handlers = @ + 1]
  /\ UNCHANGED <<holder, keyFile, db, backup>>

\* Enqueue: the queue, or the event's own write beside a full queue, which may
\* fail: the handler then logs it and no more.  A closed writer refuses the event.
Enqueue(p, queued, loss) ==
  proc' = [proc EXCEPT ![p].handlers = @ - 1, ![p].queued = queued, ![p].lost = @ \cup loss]

\* A handler hands in its event before it returns.
EndRequest(p) ==
  /\ DatabaseInUse(p) /\ proc[p].handlers > 0
  /\ \/ ~proc[p].closed /\ Enqueue(p, TRUE, {})
     \/ ~proc[p].closed /\ proc[p].queued /\ Enqueue(p, TRUE, {"full"})
     \/ proc[p].closed /\ Enqueue(p, FALSE, {"closed"})
  /\ UNCHANGED <<holder, keyFile, db, backup>>

\* The signal, or a failing listener.  stopRuntime, and both background
\* goroutines return.
StopServing(p) ==
  /\ At(p, "serve", "work")
  /\ Go(p, "stop") \/ GoWithError(p, "stop")
  /\ UNCHANGED <<holder, keyFile, db, backup>>

BeginShutdown(p) ==
  /\ At(p, "serve", "stop")
  /\ Go(p, "drain")
  /\ UNCHANGED <<holder, keyFile, db, backup>>

\* Mutant of EndShutdown: the error of Shutdown is dropped.
EndShutdownWithoutError(p) ==
  /\ At(p, "serve", "drain")
  /\ Go(p, "flush")
  /\ UNCHANGED <<holder, keyFile, db, backup>>

\* applicationServer.Shutdown returns once every handler has, or at its
\* timeout; Close then waits for nobody.
EndShutdown(p) ==
  /\ At(p, "serve", "drain")
  /\ IF proc[p].handlers = 0 THEN Go(p, "flush") ELSE GoWithError(p, "flush")
  /\ UNCHANGED <<holder, keyFile, db, backup>>

\* usageWriter.Close stores the queue, or gives up after five seconds.
FlushUsage(p) ==
  /\ At(p, "serve", "flush")
  /\ \E flushed \in BOOLEAN :
       proc' = [proc EXCEPT ![p].step = "close", ![p].closed = TRUE, ![p].queued = FALSE,
         ![p].lost = IF flushed \/ ~proc[p].queued THEN @ ELSE @ \cup {"given up"},
         ![p].clean = @ /\ flushed]
  /\ UNCHANGED <<holder, keyFile, db, backup>>

-----------------------------------------------------------------------------
(* maintenance: key rotation, password reset, backups.                     *)

Opens(key, content, build) ==
  /\ content.sentinel = key
  /\ content.schema \in 1..build
  /\ \A c \in Columns : c <= content.schema => content.sealed[c] \subseteq {key}

Verifies(o, key, build) ==
  backup[o].exists /\ backup[o].checksum = "fits" /\ Opens(key, backup[o].content, build)

\* runKey verifies the backup under the old key before it takes the lock.
VerifyBackup(p) ==
  /\ At(p, "rotate", "check")
  /\ IF Verifies(proc[p].output, proc[p].key, proc[p].build)
     THEN proc' = [proc EXCEPT ![p].step = "lock", ![p].output = NoOutput]
     ELSE proc' = [proc EXCEPT ![p] = Off]
  /\ UNCHANGED <<holder, keyFile, db, backup>>

\* Mutant of encryptedColumns: the columns of later migrations are missing.
encryptedColumnsOfTheFirst(schema) == {c \in Columns : c = 1}

encryptedColumns(schema) == {c \in Columns : c <= schema}

\* One transaction: every encrypted value, the sentinel, the sessions.
RotateKey(p) ==
  LET old == proc[p].key
      new == proc[p].newKey
      columns == encryptedColumns(proc[p].build)
  IN /\ At(p, "rotate", "work")
     /\ IF /\ new # old /\ db.sentinel = old
           /\ \A c \in columns : db.sealed[c] \subseteq {old}
        THEN db' = [db EXCEPT !.sentinel = new, !.sealed =
               [c \in Columns |-> IF c \in columns /\ @[c] # {} THEN {new} ELSE @[c]]]
        ELSE UNCHANGED db
     /\ Return(p, FALSE)
     /\ UNCHANGED <<holder, keyFile, backup>>

\* ResetPasswordFromFile, which may also clear the TOTP secrets.
ResetPassword(p) ==
  /\ At(p, "reset", "work")
  /\ \E sealed \in {db.sealed} \cup {[db.sealed EXCEPT ![c] = {}] : c \in Columns} :
       db' = [db EXCEPT !.sealed = sealed]
  /\ Return(p, FALSE)
  /\ UNCHANGED <<holder, keyFile, backup>>

\* CreateBackup: the sentinel and the absence of the output.
CheckOutput(p) ==
  /\ At(p, "backup", "check")
  /\ IF db.sentinel = proc[p].key /\ ~backup[proc[p].output].exists
     THEN Go(p, "copy")
     ELSE proc' = [proc EXCEPT ![p] = Off]
  /\ UNCHANGED <<holder, keyFile, db, backup>>

onlineBackup(p) ==
  /\ At(p, "backup", "copy")
  /\ proc' = [proc EXCEPT ![p].step = "inspect", ![p].copy = db]
  /\ UNCHANGED <<holder, keyFile, db, backup>>

VerifyCopy(p) ==
  /\ At(p, "backup", "inspect")
  /\ IF Opens(proc[p].key, proc[p].copy, proc[p].build)
     THEN Go(p, "publish")
     ELSE proc' = [proc EXCEPT ![p] = Off]
  /\ UNCHANGED <<holder, keyFile, db, backup>>

\* Mutant of Publish: the temporary file is renamed to the output.
PublishByRenaming(p) ==
  LET o == proc[p].output
  IN /\ At(p, "backup", "publish")
     /\ backup' = [backup EXCEPT ![o].exists = TRUE, ![o].content = proc[p].copy,
          ![o].checksum = IF @ = "fits" /\ proc[p].copy # backup[o].content THEN "other" ELSE @]
     /\ Go(p, "sign")
     /\ UNCHANGED <<holder, keyFile, db>>

\* os.Link does not replace what is there.
Publish(p) ==
  LET o == proc[p].output
  IN /\ At(p, "backup", "publish")
     /\ IF backup[o].exists
        THEN proc' = [proc EXCEPT ![p] = Off] /\ UNCHANGED backup
        ELSE /\ backup' = [backup EXCEPT ![o].exists = TRUE, ![o].content = proc[p].copy]
             /\ Go(p, "sign")
     /\ UNCHANGED <<holder, keyFile, db>>

\* writeChecksum creates the file exclusively; if it cannot, or cannot write
\* it, the output is removed again.
WriteChecksum(p) ==
  LET o == proc[p].output
  IN /\ At(p, "backup", "sign")
     /\ \/ /\ backup[o].checksum = "none"
           /\ backup' = [backup EXCEPT ![o].checksum = "fits"]
        \/ backup' = [backup EXCEPT ![o].exists = FALSE, ![o].content = EmptyDatabase]
     /\ proc' = [proc EXCEPT ![p] = Off]
     /\ UNCHANGED <<holder, keyFile, db>>

-----------------------------------------------------------------------------
(* The kernel releases the flock of a process that is killed.  One killed  *)
(* in writeChecksum may leave part of a line.                              *)
Kill(p) ==
  /\ proc[p].step # "off"
  /\ proc' = [proc EXCEPT ![p] = Off]
  /\ holder' = IF holder = p THEN NoProcess ELSE holder
  /\ \/ UNCHANGED backup
     \/ /\ At(p, "backup", "sign") /\ backup[proc[p].output].checksum = "none"
        /\ backup' = [backup EXCEPT ![proc[p].output].checksum = "other"]
  /\ UNCHANGED <<keyFile, db>>

\* The operator, at any time.
ReplaceKeyFile ==
  /\ keyFile' \in MasterKeys \ {keyFile}
  /\ UNCHANGED <<proc, holder, db, backup>>

\* A backup that no command is about to write.
RemoveOutput ==
  /\ \E o \in Outputs :
       /\ backup[o].exists
       /\ \A p \in Processes : proc[p].command = "backup" => proc[p].output # o
       /\ backup' = [backup EXCEPT ![o] = [NoBackup EXCEPT
            !.checksum = IF backup[o].checksum = "none" THEN "none" ELSE "other"]]
  /\ UNCHANGED <<proc, holder, keyFile, db>>

Command(p) ==
  \/ StartCommand(p) \/ AcquireLock(p) \/ Migrate(p) \/ Verify(p)
  \/ CloseDatabase(p) \/ ReleaseLock(p)
  \/ SealRow(p) \/ DeleteSealed(p) \/ AcceptRequest(p) \/ EndRequest(p)
  \/ StopServing(p) \/ BeginShutdown(p) \/ EndShutdown(p) \/ FlushUsage(p)
  \/ VerifyBackup(p) \/ RotateKey(p) \/ ResetPassword(p)
  \/ CheckOutput(p) \/ onlineBackup(p) \/ VerifyCopy(p) \/ Publish(p) \/ WriteChecksum(p)
  \/ Kill(p)

ProcessNext == (\E p \in Processes : Command(p)) \/ ReplaceKeyFile \/ RemoveOutput

ProcessSpec == ProcessInit /\ [][ProcessNext]_processVars

-----------------------------------------------------------------------------
ProcessTypeOK ==
  /\ proc \in [Processes -> Proc]
  /\ holder \in Processes \cup {NoProcess}
  /\ keyFile \in MasterKeys
  /\ db \in Database
  /\ backup \in [Outputs -> Backups]

(***************************************************************************)
(* Whatever is started, killed or given another key file, every encrypted  *)
(* value in the database is sealed under the key the sentinel names: no    *)
(* handler of a stopping server writes under the old key after a rotation, *)
(* and no rotation forgets a column (maintenance/maintenance.go:167,       *)
(* app/app.go:53).                                                         *)
(***************************************************************************)
OneKeyOpensAll == \A c \in Columns : db.sealed[c] \subseteq {db.sentinel} \ {NoMasterKey}

(***************************************************************************)
(* A backup with a checksum that fits opens under one key, and no later    *)
(* command replaces or removes it: only the operator can                   *)
(* (maintenance/maintenance.go:126, 130).                                  *)
(***************************************************************************)
PublishedBackupsStay ==
  [][\A o \in Outputs : (backup[o].exists /\ backup[o].checksum = "fits") =>
       /\ Opens(backup[o].content.sentinel, backup[o].content, backup[o].content.schema)
       /\ backup'[o] = backup[o] \/ RemoveOutput]_processVars

(***************************************************************************)
(* A server that ends without an error has answered every request it       *)
(* accepted, and the usage writer has refused none of their events as      *)
(* closed nor given up its queue (app/app.go:178).  Only an event whose    *)
(* own write failed beside a full queue may be missing: Enqueue tells the  *)
(* handler, which logs it, and no error reaches Serve.                     *)
(***************************************************************************)
CleanExitStoresAccepted ==
  \A p \in Processes :
    (At(p, "serve", "unlock") /\ proc[p].clean) =>
      proc[p].handlers = 0 /\ proc[p].lost \subseteq {"full"}
=============================================================================
