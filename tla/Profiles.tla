------------------------------- MODULE Profiles -------------------------------
(***************************************************************************)
(* Profiles on disk and the processes that share them: the index and the   *)
(* active-profile marker (sagent-config/src/profile.rs, paths.rs), the     *)
(* creation of a profile (sagent-cli/src/commands/profile), the opening of *)
(* its storage by the command line and by the daemon (commands/storage.rs, *)
(* sagent-store selector.rs, sqlite/manager.rs, database.rs) and the       *)
(* migration of its schema (sqlite/migration.rs).                          *)
(*                                                                         *)
(* Every command is a process of its own.  A step is one system call or    *)
(* one SQLite statement that other processes can see; a command that fails *)
(* ends, and creation alone has something to take back.                    *)
(***************************************************************************)
EXTENDS Naturals, FiniteSets

CONSTANTS
  Processes,   \* process ids; a pid may come back after a crash
  Names,       \* the legal names of named profiles
  Default,     \* the profile in the root directory
  NoName,      \* a command without --profile
  Attempts,    \* names create_active_profile_temp_file tries
  Found,       \* schema versions that databases are found with
  MaxCommands, MaxRows, MaxMishaps  \* bounds of the exploration

ASSUME ProfilesAssumption ==
  /\ Default \notin Names /\ NoName \notin Names \union {Default}
  /\ Attempts \in Nat \ {0}
  /\ {MaxCommands, MaxRows, MaxMishaps} \union Found \subseteq Nat

VARIABLES
  dirs,     \* named profiles whose directory is there
  config,   \* config.yaml of every profile: "none", "good" or "unusable"
  dbs,      \* profiles whose state.db is there
  version,  \* its schema_version, 0 for a file without one
  rows,     \* sessions committed to it
  marker,   \* content of active-profile, Default for no file
  temps,    \* temporary files of every pid
  proc,     \* the processes
  made,     \* history: profiles whose creation reported success
  commands, mishaps

diskVars   == <<dirs, config, dbs, version, rows>>
budgetVars == <<commands, mishaps>>
vars == <<diskVars, marker, temps, proc, made, budgetVars>>

-----------------------------------------------------------------------------
SCHEMA_VERSION == 3

All == Names \union {Default}

\* "write" stands for every command that writes sessions and for the daemon.
Commands ==
  [op : {"create", "use"}, ask : All] \union [op : {"read", "write"}, ask : All \union {NoName}]

\* at: the next step; profile: the one the command acts on; known: the index;
\* read: the version its transaction saw; linked: its file is still the
\* profile's; owns: it made the directory; seen: history, every selection in
\* force since the command began.
Idle ==
  [at |-> "done", op |-> "read", ask |-> NoName, profile |-> NoName, known |-> {}, read |-> 0,
   attempt |-> 0, linked |-> FALSE, owns |-> FALSE, seen |-> {}, result |-> "none"]

Exited(c, profile, seen, result) ==
  [at |-> "done", op |-> c.op, ask |-> c.ask, profile |-> profile, known |-> {}, read |-> 0,
   attempt |-> 0, linked |-> FALSE, owns |-> FALSE, seen |-> seen, result |-> result]

Running(p) == proc[p].at # "done"
Writes(p) == proc[p].op # "read"

\* The whole of a database is locked: SHARED from the first read of a
\* transaction, RESERVED from its first write to its end.
HoldsShared(p, n)   == proc[p].at = "upgrade" /\ proc[p].profile = n /\ proc[p].linked
HoldsReserved(p, n) == proc[p].at = "commit" /\ proc[p].profile = n /\ proc[p].linked
Reserved(n)  == \E q \in Processes : HoldsReserved(q, n)
Locked(n)    == \E q \in Processes : HoldsShared(q, n) \/ HoldsReserved(q, n)

\* What one earlier or later version of the program has left behind.
Init ==
  /\ dirs \in SUBSET Names
  /\ dbs \in {{}, dirs \union {Default}}
  /\ \E v \in Found : version = [n \in All |-> IF n \in dbs THEN v ELSE 0]
  /\ config = [n \in All |-> IF n \in dirs THEN "good" ELSE "none"]
  /\ rows = [n \in All |-> 0]
  /\ marker \in dirs \union {Default}
  /\ temps = [p \in Processes |-> {}]
  /\ proc = [p \in Processes |-> Idle]
  /\ made = {}
  /\ commands = 0 /\ mishaps = 0

-----------------------------------------------------------------------------
Becomes(p, c) == proc' = [proc EXCEPT ![p] = c]
Goes(p, at) == Becomes(p, [proc[p] EXCEPT !.at = at])

\* A command returns.
Returns(p, result) == Becomes(p, Exited(proc[p], proc[p].profile, proc[p].seen, result))

\* A command fails; create_with_initializer takes its directory back first.
Fails(p, why) ==
  IF proc[p].owns THEN Goes(p, "undo") ELSE Returns(p, why)

OnlyProc == UNCHANGED <<diskVars, marker, temps, made, budgetVars>>
OnlyDisk == UNCHANGED <<marker, temps, made, budgetVars>>

\* Profile commands, and others without --profile, begin with the marker.
Start(p) ==
  /\ ~Running(p) /\ commands < MaxCommands
  /\ commands' = commands + 1
  /\ \E c \in Commands :
       LET named == c.op \in {"read", "write"} /\ c.ask # NoName
       IN  Becomes(p, [Idle EXCEPT !.op = c.op, !.ask = c.ask, !.seen = {marker},
                                   !.profile = IF named THEN c.ask ELSE marker,
                                   !.at = IF named THEN "resolve" ELSE "index"])
  /\ UNCHANGED <<diskVars, marker, temps, made, mishaps>>

-----------------------------------------------------------------------------
(* the index: Profile::from_root *)

AfterIndex(op) == CASE op = "create" -> "mkdir" [] op = "use" -> "select" [] OTHER -> "resolve"

\* mutant: a selection that leads nowhere falls back to the default profile
IndexLenient(p) ==
  /\ proc[p].at = "index"
  /\ LET there == dirs \union {Default}
     IN  Becomes(p, [proc[p] EXCEPT !.known = there, !.at = AfterIndex(proc[p].op),
                                    !.profile = IF @ \in there THEN @ ELSE Default])
  /\ OnlyProc

\* The selected profile has to be in the index.
Index(p) ==
  /\ proc[p].at = "index"
  /\ LET there == dirs \union {Default}
     IN  IF proc[p].profile \notin there THEN Fails(p, "dangling")
         ELSE Becomes(p, [proc[p] EXCEPT !.known = there, !.at = AfterIndex(proc[p].op)])
  /\ OnlyProc

-----------------------------------------------------------------------------
(* the selection: Profile::select *)

Selects(p, n) ==
  /\ marker' = n
  /\ proc' = [q \in Processes |->
       IF q = p THEN Exited(proc[p], n, proc[p].seen \union {n}, "ok")
       ELSE IF Running(q) THEN [proc[q] EXCEPT !.seen = @ \union {n}]
       ELSE proc[q]]

SelectRefused(p) ==
  /\ proc[p].at = "select"
  /\ proc[p].ask \notin proc[p].known \intersect (dirs \union {Default})
  /\ Fails(p, "unknown")
  /\ OnlyProc

SelectDefault(p) ==
  /\ proc[p].at = "select" /\ proc[p].ask = Default
  /\ Selects(p, Default)
  /\ UNCHANGED <<diskVars, temps, made, budgetVars>>

\* The temporary name carries the pid: only a dead namesake can have left one.
SelectNamed(p) ==
  /\ proc[p].at = "select" /\ proc[p].ask \in proc[p].known \intersect dirs
  /\ LET free == 1 .. Attempts \ temps[p]
         next == CHOOSE i \in free : \A j \in free : i <= j
     IN  IF free = {} THEN Fails(p, "temp") /\ UNCHANGED temps
         ELSE /\ temps' = [temps EXCEPT ![p] = @ \union {next}]
              /\ Becomes(p, [proc[p] EXCEPT !.attempt = next, !.at = "publish"])
  /\ UNCHANGED <<diskVars, marker, made, budgetVars>>

Publish(p) ==
  /\ proc[p].at = "publish"
  /\ temps' = [temps EXCEPT ![p] = @ \ {proc[p].attempt}]
  /\ Selects(p, proc[p].ask)
  /\ UNCHANGED <<diskVars, made, budgetVars>>

-----------------------------------------------------------------------------
(* creation: ProfileService::create *)

\* mutant: create_dir_all, which succeeds on a directory that is there
MakeDirectoryOver(p) ==
  /\ proc[p].at = "mkdir"
  /\ IF proc[p].ask = Default THEN Fails(p, "reserved") /\ UNCHANGED dirs
     ELSE /\ dirs' = dirs \union {proc[p].ask}
          /\ Becomes(p, [proc[p] EXCEPT !.profile = proc[p].ask, !.owns = TRUE, !.at = "init"])
  /\ UNCHANGED <<config, dbs, version, rows>> /\ OnlyDisk

MakeDirectory(p) ==
  /\ proc[p].at = "mkdir"
  /\ IF proc[p].ask \in dirs \union {Default} THEN Fails(p, "exists") /\ UNCHANGED dirs
     ELSE /\ dirs' = dirs \union {proc[p].ask}
          /\ Becomes(p, [proc[p] EXCEPT !.profile = proc[p].ask, !.owns = TRUE, !.at = "init"])
  /\ UNCHANGED <<config, dbs, version, rows>> /\ OnlyDisk

WriteConfig(p) ==
  /\ proc[p].at = "init"
  /\ config' = [config EXCEPT ![proc[p].profile] = "good"]
  /\ Goes(p, "open")
  /\ UNCHANGED <<dirs, dbs, version, rows>> /\ OnlyDisk

\* remove_dir_all: what is in the directory, then the directory, which has to
\* be empty by then.
UndoFiles(p) ==
  /\ proc[p].at = "undo"
  /\ LET n == proc[p].profile
     IN  /\ config' = [config EXCEPT ![n] = "none"]
         /\ dbs' = dbs \ {n}
         /\ version' = [version EXCEPT ![n] = 0]
         /\ rows' = [rows EXCEPT ![n] = 0]
         /\ proc' = [q \in Processes |->
              [proc[q] EXCEPT !.at = IF q = p THEN "rmdir" ELSE @,
                              !.linked = @ /\ proc[q].profile # n]]
  /\ UNCHANGED dirs /\ OnlyDisk

UndoDirectory(p) ==
  /\ proc[p].at = "rmdir"
  /\ LET n == proc[p].profile
     IN  dirs' = IF config[n] = "none" /\ n \notin dbs THEN dirs \ {n} ELSE dirs
  /\ Returns(p, "undone")
  /\ UNCHANGED <<config, dbs, version, rows>> /\ OnlyDisk

\* Profile::register; the index is older than the directory it is told of.
Register(p) ==
  /\ proc[p].at = "ready" /\ proc[p].op = "create"
  /\ made' = made \union {proc[p].profile}
  /\ Returns(p, IF proc[p].profile \in proc[p].known THEN "known" ELSE "ok")
  /\ UNCHANGED <<diskVars, marker, temps, budgetVars>>

-----------------------------------------------------------------------------
(* storage: paths, configuration, connection, migration *)

Resolve(p) ==
  /\ proc[p].at = "resolve"
  /\ IF proc[p].profile \in dirs \union {Default} THEN Goes(p, "open") ELSE Fails(p, "missing")
  /\ OnlyProc

\* load_profile_config and create_storage_manager: a missing file is an empty
\* configuration; one that cannot be parsed or asks for another backend is
\* refused before anything is opened.
Usable(n) == config[n] # "unusable"

ConfigRefused(p) ==
  /\ proc[p].at = "open" /\ ~Usable(proc[p].profile)
  /\ Fails(p, "config")
  /\ OnlyProc

\* open_readonly creates nothing and does not look at the schema.
Readable(n) == n \in dbs

OpenReadonly(p) ==
  /\ proc[p].at = "open" /\ Usable(proc[p].profile) /\ ~Writes(p)
  /\ IF Readable(proc[p].profile) THEN Returns(p, "ok") ELSE Fails(p, "no database")
  /\ OnlyProc

\* open_readwrite: create_dir_all of the parent, then the file
MakeParent(p) ==
  /\ proc[p].at = "open" /\ Usable(proc[p].profile) /\ Writes(p)
  /\ dirs' = dirs \union ({proc[p].profile} \ {Default})
  /\ Goes(p, "file")
  /\ UNCHANGED <<config, dbs, version, rows>> /\ OnlyDisk

OpenReadwrite(p) ==
  /\ proc[p].at = "file"
  /\ IF proc[p].profile \in dirs \union {Default}
       THEN /\ dbs' = dbs \union {proc[p].profile}
            /\ Becomes(p, [proc[p] EXCEPT !.linked = TRUE, !.at = "migrate"])
       ELSE Fails(p, "storage") /\ UNCHANGED dbs
  /\ UNCHANGED <<dirs, config, version, rows>> /\ OnlyDisk

\* migrate begins its transaction.  On a file without schema_version the first
\* statement writes, and waits for its turn; otherwise it reads.
BeginMigration(p) ==
  /\ proc[p].at = "migrate" /\ proc[p].linked
  /\ LET v == version[proc[p].profile]
     IN  CASE v = SCHEMA_VERSION -> Goes(p, "ready")
           [] v > SCHEMA_VERSION -> Fails(p, "newer")
           [] v = 0 -> /\ ~Reserved(proc[p].profile)
                       /\ Becomes(p, [proc[p] EXCEPT !.read = v, !.at = "commit"])
           [] OTHER -> Becomes(p, [proc[p] EXCEPT !.read = v, !.at = "upgrade"])
  /\ OnlyProc

\* mutant: a reader waits for the writer, which waits for it
UpgradePatient(p) ==
  /\ proc[p].at = "upgrade" /\ proc[p].linked
  /\ ~Reserved(proc[p].profile)
  /\ Goes(p, "commit")
  /\ OnlyProc

\* SQLite refuses at once to let a transaction that has read wait for RESERVED.
Upgrade(p) ==
  /\ proc[p].at = "upgrade" /\ proc[p].linked
  /\ IF Reserved(proc[p].profile) THEN Fails(p, "busy") ELSE Goes(p, "commit")
  /\ OnlyProc

\* mutant: the version is read before the transaction
CommitUnlocked(p) ==
  /\ proc[p].at = "commit" /\ proc[p].linked
  /\ version' = [version EXCEPT ![proc[p].profile] = SCHEMA_VERSION]
  /\ Goes(p, "ready")
  /\ UNCHANGED <<dirs, config, dbs, rows>> /\ OnlyDisk

\* All tables and the version, or nothing; the commit waits for the readers.
CommitMigration(p) ==
  /\ proc[p].at = "commit" /\ proc[p].linked
  /\ \A q \in Processes : ~HoldsShared(q, proc[p].profile)
  /\ version' = [version EXCEPT ![proc[p].profile] = SCHEMA_VERSION]
  /\ Goes(p, "ready")
  /\ UNCHANGED <<dirs, config, dbs, rows>> /\ OnlyDisk

\* A statement on a file that somebody has unlinked: it reaches nobody, and
\* SQLite may or may not notice.
WriteUnlinked(p) ==
  /\ proc[p].at \in {"migrate", "upgrade", "commit"} /\ ~proc[p].linked
  /\ Goes(p, "ready") \/ Fails(p, "storage")
  /\ OnlyProc

\* create_session stands for every write; the daemon writes again and again.
Insert(p) ==
  /\ proc[p].at = "ready" /\ proc[p].op = "write"
  /\ ~Locked(proc[p].profile) \/ ~proc[p].linked
  /\ rows[proc[p].profile] < MaxRows
  /\ rows' = IF proc[p].linked THEN [rows EXCEPT ![proc[p].profile] = @ + 1] ELSE rows
  /\ UNCHANGED <<dirs, config, dbs, version, proc>> /\ OnlyDisk

\* The command is done, the daemon stops, or the write was refused.
Leave(p) ==
  /\ proc[p].at = "ready" /\ proc[p].op = "write"
  /\ \E result \in {"ok", "storage"} : Returns(p, result)
  /\ OnlyProc

-----------------------------------------------------------------------------
(* what goes wrong from outside *)

\* A call of the file system or of SQLite fails, a wait for a lock too long
\* included; the transaction is rolled back and the temporary file removed.
Fault(p) ==
  /\ mishaps < MaxMishaps /\ mishaps' = mishaps + 1
  /\ Running(p) /\ proc[p].at \notin {"resolve", "ready"}
  /\ IF proc[p].at \in {"undo", "rmdir"} THEN Returns(p, "io") ELSE Fails(p, "io")
  /\ temps' = [temps EXCEPT ![p] = @ \ {proc[p].attempt}]
  /\ UNCHANGED <<diskVars, marker, made, commands>>

Crash(p) ==
  /\ Running(p) /\ mishaps < MaxMishaps /\ mishaps' = mishaps + 1
  /\ Becomes(p, Idle)
  /\ UNCHANGED <<diskVars, marker, temps, made, commands>>

\* The user edits a configuration.
EditConfig(n) ==
  /\ n \in dirs \union {Default} /\ mishaps < MaxMishaps /\ mishaps' = mishaps + 1
  /\ config' = [config EXCEPT ![n] = IF @ = "unusable" THEN "good" ELSE "unusable"]
  /\ UNCHANGED <<dirs, dbs, version, rows, marker, temps, proc, made, commands>>

-----------------------------------------------------------------------------
Chooses(p)  == SelectRefused(p) \/ SelectDefault(p) \/ SelectNamed(p) \/ Publish(p)
Creates(p)  == MakeDirectory(p) \/ WriteConfig(p) \/ UndoFiles(p) \/ UndoDirectory(p) \/ Register(p)
Opens(p)    == Resolve(p) \/ ConfigRefused(p) \/ OpenReadonly(p) \/ MakeParent(p) \/ OpenReadwrite(p)
Migrates(p) == BeginMigration(p) \/ Upgrade(p) \/ CommitMigration(p) \/ WriteUnlinked(p)

Step(p) == Index(p) \/ Chooses(p) \/ Creates(p) \/ Opens(p) \/ Migrates(p) \/ Leave(p)

Next ==
  \/ \E p \in Processes : Start(p) \/ Step(p) \/ Insert(p) \/ Fault(p) \/ Crash(p)
  \/ \E n \in All : EditConfig(n)

Spec == Init /\ [][Next]_vars

\* The operating system runs every process; a daemon that serves for ever only
\* stutters, since nobody waits for it.
FairSpec == Spec /\ \A p \in Processes : WF_vars(Step(p))

-----------------------------------------------------------------------------
(* properties *)

\* A command without --profile acts on a profile that was the selected one at
\* some moment of its run, whatever `profile use`, roll-backs and crashes of
\* others do meanwhile: a selection that leads nowhere is an error and never a
\* silent change of the data the command works on.
ActsOnTheSelected ==
  \A p \in Processes :
    proc[p].result = "ok" /\ proc[p].ask = NoName => proc[p].profile \in proc[p].seen

\* Once a creation has reported success the profile stays, with a database of
\* the current schema that loses no session: the roll-back of another creation
\* never takes it away.
CreatedStays ==
  [][\A n \in made' : /\ n \in dirs' /\ n \in dbs' /\ config'[n] # "none"
                      /\ version'[n] = SCHEMA_VERSION
                      /\ n \in made => rows'[n] >= rows[n]]_vars

\* A process that holds a storage for writing holds one of the current schema,
\* and a migration is applied to the version it was chosen for, whoever else
\* opens the database at the same time: v1's ALTER TABLE cannot run twice.
StorageIsCurrent ==
  \A p \in Processes : proc[p].linked =>
    /\ proc[p].at = "ready" => version[proc[p].profile] = SCHEMA_VERSION
    /\ proc[p].at = "commit" => version[proc[p].profile] = proc[p].read

\* Every command returns: those that migrate the same database do not wait for
\* each other, and none waits for one that only holds its storage.
EveryCommandReturns ==
  \A p \in Processes : Running(p) ~> ~Running(p)
=============================================================================
