----------------------------- MODULE Storage_proofs -----------------------------
(***************************************************************************)
(* Theorems about what is kept on disk: profiles and the databases they    *)
(* select (Profiles), for any number of processes, profiles, commands,     *)
(* faults and crashes; and the branch of a session in such a database      *)
(* (SessionBranch), for every bound.  The two specifications share neither *)
(* state nor constants, and no proof of one uses the other.                *)
(***************************************************************************)
EXTENDS Profiles, SessionBranch, FiniteSetTheorems, WellFoundedInduction, TLAPS

-----------------------------------------------------------------------------
(* the inductive invariant *)

Fields ==
  {"at", "op", "ask", "profile", "known", "read", "attempt", "linked", "owns", "seen", "result"}
IsProcess(c) == c = [x \in Fields |-> c[x]]

Shape ==
  /\ proc = [p \in Processes |-> proc[p]]
  /\ version = [n \in All |-> version[n]] /\ rows \in [All -> Nat]
  /\ config = [n \in All |-> config[n]]
  /\ marker \in All
  /\ \A p \in Processes :
       /\ IsProcess(proc[p])
       /\ proc[p].linked \in BOOLEAN /\ proc[p].owns \in BOOLEAN
       /\ proc[p].at # "done" => proc[p].profile \in All
       /\ proc[p].op \in {"create", "use"} => proc[p].ask \in All

Migrating == {"migrate", "upgrade", "commit", "ready"}

\* A creation owns the directory it made from then on, until it is registered or undone;
\* with the directory come the configuration and the file, in the order of the steps.
\* What a transaction has read, and what a finished migration has left, is what is there.
ProcessInv(p) ==
  LET c == proc[p]
  IN  /\ c.owns => c.op = "create" /\ c.at # "done" /\ c.profile \in dirs
      /\ c.op = "create" /\ c.at \in {"init", "open", "file"} \union Migrating => c.owns
      /\ c.at \in {"undo", "rmdir"} => c.owns
      /\ c.at = "resolve" => c.op # "create"
      /\ c.at = "mkdir" => c.op = "create"
      /\ c.at \in {"select", "publish"} => c.op = "use"
      /\ c.owns /\ c.at \in {"open", "file"} \union Migrating => config[c.profile] # "none"
      /\ c.owns /\ c.at \in Migrating => c.linked
      /\ c.linked => c.at \in {"undo"} \union Migrating /\ c.profile \in dbs
      /\ c.linked /\ c.at = "ready" => version[c.profile] = SCHEMA_VERSION
      /\ c.linked /\ c.at \in {"upgrade", "commit"} => version[c.profile] = c.read

Owns(p, n) == proc[p].owns /\ proc[p].profile = n

\* One creation per directory, one writer per database.
Alone(p, q) ==
  \A n \in All :
    /\ Owns(p, n) /\ Owns(q, n) => p = q
    /\ HoldsReserved(p, n) /\ HoldsReserved(q, n) => p = q

\* A profile that was created is complete and nobody's to take back.
Stands(n) ==
  /\ n \in dirs /\ n \in dbs /\ config[n] # "none" /\ version[n] = SCHEMA_VERSION
  /\ \A p \in Processes : ~Owns(p, n)

ProfilesInv ==
  /\ Shape
  /\ \A p \in Processes : ProcessInv(p)
  /\ \A p, q \in Processes : Alone(p, q)
  /\ \A n \in made : n \in All /\ Stands(n)

LEMMA InitHolds == Init => ProfilesInv
<1> SUFFICES ASSUME Init
             PROVE  ProfilesInv
  OBVIOUS
<1>1. Shape
  BY ProfilesAssumption DEF Init, Shape, IsProcess, Fields, Idle, All
<1>2. \A p \in Processes : ProcessInv(p)
  BY DEF Init, ProcessInv, Idle, Migrating
<1>3. \A p, q \in Processes : Alone(p, q)
  BY DEF Init, Alone, Owns, HoldsReserved, Idle
<1>4. QED
  BY <1>1, <1>2, <1>3 DEF ProfilesInv, Init

-----------------------------------------------------------------------------
(* How a process changes *)

Same(p) ==
  /\ proc'[p].op = proc[p].op /\ proc'[p].ask = proc[p].ask
  /\ proc'[p].profile = proc[p].profile /\ proc'[p].read = proc[p].read
  /\ proc'[p].linked = proc[p].linked /\ proc'[p].owns = proc[p].owns

\* Only p moves; of the others no more than the history of selections changes.
Keeps(q) == IsProcess(proc'[q]) /\ Same(q) /\ proc'[q].at = proc[q].at

Only(p) ==
  /\ proc' = [q \in Processes |-> proc'[q]]
  /\ IsProcess(proc'[p])
  /\ \A q \in Processes \ {p} : Keeps(q)

Ended(p) ==
  /\ proc'[p].at = "done" /\ proc'[p].linked = FALSE /\ proc'[p].owns = FALSE
  /\ proc'[p].op \in {"create", "use"} => proc'[p].ask \in All

LEMMA BecomesFacts ==
  ASSUME Shape, NEW p \in Processes, NEW c, IsProcess(c), Becomes(p, c)
  PROVE  Only(p) /\ proc'[p] = c
<1>1. proc'[p] = c
  BY DEF Becomes, Shape
<1>2. proc' = [q \in Processes |-> proc'[q]]
  BY DEF Becomes, Shape
<1>3. \A q \in Processes \ {p} : Keeps(q)
  BY DEF Becomes, Shape, Keeps, Same
<1>4. QED
  BY <1>1, <1>2, <1>3 DEF Only

LEMMA ShapeStays ==
  ASSUME Shape, NEW p \in Processes, Only(p),
         proc'[p].linked \in BOOLEAN, proc'[p].owns \in BOOLEAN,
         proc'[p].at # "done" => proc'[p].profile \in All,
         proc'[p].op \in {"create", "use"} => proc'[p].ask \in All,
         version' = [n \in All |-> version'[n]], rows' \in [All -> Nat],
         config' = [n \in All |-> config'[n]], marker' \in All
  PROVE  Shape'
  BY DEF Shape, Only, Keeps, Same

LEMMA GoesFacts ==
  ASSUME Shape, NEW p \in Processes, NEW to, Goes(p, to)
  PROVE  Only(p) /\ Same(p) /\ proc'[p].at = to
<1> DEFINE c == [proc[p] EXCEPT !.at = to]
<1>1. IsProcess(proc[p])
  BY DEF Shape
<1>2. /\ IsProcess(c) /\ c.at = to
      /\ c.op = proc[p].op /\ c.ask = proc[p].ask /\ c.profile = proc[p].profile
      /\ c.read = proc[p].read /\ c.linked = proc[p].linked /\ c.owns = proc[p].owns
  BY <1>1 DEF IsProcess, Fields
<1>3. Becomes(p, c)
  BY DEF Goes
<1> HIDE DEF c
<1>4. QED
  BY <1>2, <1>3, BecomesFacts DEF Same

LEMMA ReturnsFacts ==
  ASSUME Shape, NEW p \in Processes, NEW result, Returns(p, result)
  PROVE  Only(p) /\ Ended(p)
<1> DEFINE c == Exited(proc[p], proc[p].profile, proc[p].seen, result)
<1>1. IsProcess(proc[p]) /\ (proc[p].op \in {"create", "use"} => proc[p].ask \in All)
  BY DEF Shape
<1>2. /\ IsProcess(c) /\ c.op = proc[p].op /\ c.ask = proc[p].ask
      /\ c.at = "done" /\ c.linked = FALSE /\ c.owns = FALSE
  BY DEF IsProcess, Fields, Exited
<1>3. Becomes(p, c)
  BY DEF Returns
<1> HIDE DEF c
<1>4. QED
  BY <1>1, <1>2, <1>3, BecomesFacts DEF Ended

LEMMA FailsFacts ==
  ASSUME Shape, NEW p \in Processes, NEW why, Fails(p, why)
  PROVE  /\ Only(p)
         /\ \/ Ended(p)
            \/ proc[p].owns /\ Same(p) /\ proc'[p].at = "undo"
  BY GoesFacts, ReturnsFacts DEF Fails

-----------------------------------------------------------------------------
(* Steps of one process that leave the disk to the others *)

\* Process p goes on.  It neither takes a directory nor a lock that another has; what the
\* disk loses by it was nobody else's.
Advances(p) ==
  /\ Shape' /\ ProcessInv(p)'
  /\ \A q \in Processes \ {p} : Keeps(q)
  /\ \A n \in All :
       /\ Owns(p, n)' => Owns(p, n) \/ n \notin dirs
       /\ HoldsReserved(p, n)' => ~Reserved(n)
  /\ dirs \subseteq dirs' /\ dbs \subseteq dbs'
  /\ UNCHANGED <<version, made>>
  /\ \A n \in All : config[n] # "none" => config'[n] # "none"

LEMMA AdvanceHolds ==
  ASSUME ProfilesInv, NEW p \in Processes, Advances(p)
  PROVE  ProfilesInv'
<1>1. ASSUME NEW q \in Processes, q # p
      PROVE  /\ ProcessInv(q)'
             /\ \A n : Owns(q, n)' = Owns(q, n)
             /\ \A n : HoldsReserved(q, n)' = HoldsReserved(q, n)
  <2>1. Keeps(q) /\ ProcessInv(q)
    BY <1>1 DEF ProfilesInv, Advances
  <2>2. proc[q].at # "done" => proc[q].profile \in All
    BY DEF ProfilesInv, Shape
  <2>3. ProcessInv(q)'
    BY <2>1, <2>2 DEF ProcessInv, Advances, Keeps, Same, Migrating
  <2>4. QED
    BY <2>1, <2>3 DEF Owns, HoldsReserved, Keeps, Same
<1>2. ASSUME NEW q \in Processes
      PROVE  ProcessInv(q)'
  BY <1>1 DEF Advances
<1>3. ASSUME NEW q \in Processes, NEW r \in Processes
      PROVE  Alone(q, r)'
  <2>1. ASSUME NEW n \in All, Owns(q, n)', Owns(r, n)'
        PROVE  q = r
    <3>1. \A x \in Processes : Owns(x, n) => n \in dirs
      BY DEF ProfilesInv, ProcessInv, Owns
    <3>2. QED
      BY <1>1, <2>1, <3>1 DEF Advances, ProfilesInv, Alone
  <2>2. ASSUME NEW n \in All, HoldsReserved(q, n)', HoldsReserved(r, n)'
        PROVE  q = r
    BY <1>1, <2>2 DEF Advances, ProfilesInv, Alone, Reserved
  <2>3. QED
    BY <2>1, <2>2 DEF Alone
<1>4. ASSUME NEW n \in made
      PROVE  n \in All /\ Stands(n)'
  <2>1. n \in All /\ Stands(n)
    BY DEF ProfilesInv
  <2>2. ASSUME NEW q \in Processes
        PROVE  ~Owns(q, n)'
    BY <1>1, <2>1 DEF Stands, Advances
  <2>3. QED
    BY <2>1, <2>2 DEF Stands, Advances
<1>5. QED
  BY <1>2, <1>3, <1>4 DEF ProfilesInv, Advances

\* The end of a command, and the turn to taking back what it made.
LEMMA EndAdvances ==
  ASSUME ProfilesInv, NEW p \in Processes, Only(p), UNCHANGED <<diskVars, marker, made>>,
         Ended(p) \/ (proc[p].owns /\ Same(p) /\ proc'[p].at = "undo")
  PROVE  Advances(p)
<1>1. Shape /\ ProcessInv(p)
  BY DEF ProfilesInv
<1>2. CASE Ended(p)
  <2>1. Shape'
    BY <1>1, <1>2 DEF Shape, Only, Keeps, Same, Ended, diskVars
  <2>2. ProcessInv(p)'
    BY <1>1, <1>2 DEF ProcessInv, Only, Keeps, Same, Ended, diskVars, Migrating
  <2>3. QED
    BY <1>2, <2>1, <2>2 DEF Advances, Only, Keeps, Same, Ended, Owns, HoldsReserved, diskVars
<1>3. CASE proc[p].owns /\ Same(p) /\ proc'[p].at = "undo"
  <2>1. Shape'
    BY <1>1, <1>3 DEF Shape, ProcessInv, Only, Keeps, Same, diskVars
  <2>2. ProcessInv(p)'
    BY <1>1, <1>3 DEF ProcessInv, Only, Keeps, Same, diskVars, Migrating
  <2>3. QED
    BY <1>3, <2>1, <2>2 DEF Advances, Only, Keeps, Same, Owns, HoldsReserved, diskVars
<1>4. QED
  BY <1>2, <1>3

LEMMA FailureAdvances ==
  ASSUME ProfilesInv, NEW p \in Processes, UNCHANGED <<diskVars, marker, made>>,
         \E why : Fails(p, why) \/ Returns(p, why)
  PROVE  Advances(p)
  BY EndAdvances, FailsFacts, ReturnsFacts DEF ProfilesInv

\* Whatever else a process does, it keeps what it owns.
LEMMA MoveAdvances ==
  ASSUME ProfilesInv, NEW p \in Processes, Only(p),
         proc'[p].owns = proc[p].owns, proc[p].owns => proc'[p].profile = proc[p].profile,
         Shape', ProcessInv(p)', UNCHANGED <<version, made>>,
         dirs \subseteq dirs', dbs \subseteq dbs',
         \A n \in All : config[n] # "none" => config'[n] # "none",
         proc'[p].at = "commit" /\ proc'[p].linked => ~Reserved(proc'[p].profile)
  PROVE  Advances(p)
  BY DEF Advances, Only, Keeps, Same, Owns, HoldsReserved

LEMMA SelectRefusedAdvances ==
  ASSUME ProfilesInv, NEW p \in Processes, SelectRefused(p)
  PROVE  Advances(p)
  BY FailureAdvances DEF SelectRefused, OnlyProc

LEMMA ConfigRefusedAdvances ==
  ASSUME ProfilesInv, NEW p \in Processes, ConfigRefused(p)
  PROVE  Advances(p)
  BY FailureAdvances DEF ConfigRefused, OnlyProc

LEMMA OpenReadonlyAdvances ==
  ASSUME ProfilesInv, NEW p \in Processes, OpenReadonly(p)
  PROVE  Advances(p)
  BY FailureAdvances DEF OpenReadonly, OnlyProc

LEMMA LeaveAdvances ==
  ASSUME ProfilesInv, NEW p \in Processes, Leave(p)
  PROVE  Advances(p)
  BY FailureAdvances DEF Leave, OnlyProc

LEMMA FaultAdvances ==
  ASSUME ProfilesInv, NEW p \in Processes, Fault(p)
  PROVE  Advances(p)
  BY FailureAdvances DEF Fault

LEMMA ResolveAdvances ==
  ASSUME ProfilesInv, NEW p \in Processes, Resolve(p)
  PROVE  Advances(p)
<1>1. Shape /\ ProcessInv(p)
  BY DEF ProfilesInv
<1>2. CASE Goes(p, "open")
  <2>1. Only(p) /\ Same(p) /\ proc'[p].at = "open"
    BY <1>1, <1>2, GoesFacts
  <2>2. Shape'
    BY <1>1, <2>1, ShapeStays DEF Resolve, Shape, Same, OnlyProc, diskVars
  <2>3. ProcessInv(p)'
    BY <1>1, <2>1 DEF Resolve, Shape, ProcessInv, Only, Keeps, Same, Migrating, OnlyProc, diskVars
  <2>4. QED
    BY <1>1, <1>2, <2>1, <2>2, <2>3, MoveAdvances DEF Resolve, Same, OnlyProc, diskVars
<1>3. QED
  BY <1>2, FailureAdvances DEF Resolve, OnlyProc

LEMMA WriteConfigAdvances ==
  ASSUME ProfilesInv, NEW p \in Processes, WriteConfig(p)
  PROVE  Advances(p)
<1>1. Shape /\ ProcessInv(p)
  BY DEF ProfilesInv
<1>2. CASE Goes(p, "open")
  <2>1. Only(p) /\ Same(p) /\ proc'[p].at = "open"
    BY <1>1, <1>2, GoesFacts
  <2>2. Shape'
    BY <1>1, <2>1, ShapeStays DEF WriteConfig, Shape, Same, OnlyDisk, Shape
  <2>3. ProcessInv(p)'
    BY <1>1, <2>1 DEF WriteConfig, Shape, ProcessInv, Only, Keeps, Same, Migrating, OnlyDisk, Shape
  <2>4. QED
    BY <1>1, <1>2, <2>1, <2>2, <2>3, MoveAdvances DEF WriteConfig, Same, OnlyDisk, Shape
<1>3. QED
  BY <1>2, FailureAdvances DEF WriteConfig

LEMMA MakeParentAdvances ==
  ASSUME ProfilesInv, NEW p \in Processes, MakeParent(p)
  PROVE  Advances(p)
<1>1. Shape /\ ProcessInv(p)
  BY DEF ProfilesInv
<1>2. CASE Goes(p, "file")
  <2>1. Only(p) /\ Same(p) /\ proc'[p].at = "file"
    BY <1>1, <1>2, GoesFacts
  <2>2. Shape'
    BY <1>1, <2>1, ShapeStays DEF MakeParent, Shape, Same, OnlyDisk
  <2>3. ProcessInv(p)'
    BY <1>1, <2>1 DEF MakeParent, Shape, ProcessInv, Only, Keeps, Same, Migrating, OnlyDisk
  <2>4. QED
    BY <1>1, <1>2, <2>1, <2>2, <2>3, MoveAdvances DEF MakeParent, Same, OnlyDisk
<1>3. QED
  BY <1>2, FailureAdvances DEF MakeParent

LEMMA UpgradeAdvances ==
  ASSUME ProfilesInv, NEW p \in Processes, Upgrade(p)
  PROVE  Advances(p)
<1>1. Shape /\ ProcessInv(p)
  BY DEF ProfilesInv
<1>2. CASE ~Reserved(proc[p].profile) /\ Goes(p, "commit")
  <2>1. Only(p) /\ Same(p) /\ proc'[p].at = "commit"
    BY <1>1, <1>2, GoesFacts
  <2>2. Shape'
    BY <1>1, <2>1, ShapeStays DEF Upgrade, Shape, Same, OnlyProc, diskVars
  <2>3. ProcessInv(p)'
    BY <1>1, <2>1 DEF Upgrade, Shape, ProcessInv, Only, Keeps, Same, Migrating, OnlyProc, diskVars
  <2>4. QED
    BY <1>1, <1>2, <2>1, <2>2, <2>3, MoveAdvances DEF Upgrade, Same, OnlyProc, diskVars
<1>3. QED
  BY <1>2, FailureAdvances DEF Upgrade, OnlyProc

LEMMA WriteUnlinkedAdvances ==
  ASSUME ProfilesInv, NEW p \in Processes, WriteUnlinked(p)
  PROVE  Advances(p)
<1>1. Shape /\ ProcessInv(p)
  BY DEF ProfilesInv
<1>2. CASE Goes(p, "ready")
  <2>1. Only(p) /\ Same(p) /\ proc'[p].at = "ready"
    BY <1>1, <1>2, GoesFacts
  <2>2. Shape'
    BY <1>1, <2>1, ShapeStays DEF WriteUnlinked, Shape, Same, OnlyProc, diskVars
  <2>3. ProcessInv(p)'
    BY <1>1, <2>1
       DEF WriteUnlinked, Shape, ProcessInv, Only, Keeps, Same, Migrating, OnlyProc, diskVars
  <2>4. QED
    BY <1>1, <1>2, <2>1, <2>2, <2>3, MoveAdvances DEF WriteUnlinked, Same, OnlyProc, diskVars
<1>3. QED
  BY <1>2, FailureAdvances DEF WriteUnlinked, OnlyProc

LEMMA IndexAdvances ==
  ASSUME ProfilesInv, NEW p \in Processes, Index(p)
  PROVE  Advances(p)
<1> DEFINE c == [proc[p] EXCEPT !.known = dirs \union {Default}, !.at = AfterIndex(proc[p].op)]
<1>1. Shape /\ ProcessInv(p) /\ IsProcess(proc[p])
  BY DEF ProfilesInv, Shape
<1>2. CASE /\ Becomes(p, c)
           /\ proc[p].at = "index" /\ OnlyProc
  <2>1. /\ IsProcess(c) /\ c.op = proc[p].op /\ c.ask = proc[p].ask
        /\ c.at = AfterIndex(proc[p].op)
        /\ c.profile = proc[p].profile /\ c.linked = proc[p].linked /\ c.owns = proc[p].owns
    BY <1>1 DEF IsProcess, Fields
  <2> HIDE DEF c
  <2>2. Only(p) /\ proc'[p] = c
    BY <1>1, <1>2, <2>1, BecomesFacts
  <2>3. Shape'
    BY <1>1, <1>2, <2>1, <2>2, ShapeStays DEF Shape, ProcessInv, AfterIndex, OnlyProc, diskVars
  <2>4. ProcessInv(p)'
    BY <1>1, <1>2, <2>1, <2>2 DEF Shape, ProcessInv, Migrating, AfterIndex, OnlyProc, diskVars
  <2>5. proc'[p].owns = proc[p].owns /\ proc'[p].profile = proc[p].profile
    BY <2>1, <2>2
  <2>6. QED
    BY <1>1, <1>2, <2>1, <2>2, <2>3, <2>4, <2>5, MoveAdvances
       DEF Shape, AfterIndex, OnlyProc, diskVars
<1>3. QED
  BY <1>1, <1>2, FailureAdvances DEF Index, OnlyProc

LEMMA MakeDirectoryAdvances ==
  ASSUME ProfilesInv, NEW p \in Processes, MakeDirectory(p)
  PROVE  Advances(p)
<1> DEFINE c == [proc[p] EXCEPT !.profile = proc[p].ask, !.owns = TRUE, !.at = "init"]
<1>1. Shape /\ ProcessInv(p) /\ IsProcess(proc[p])
  BY DEF ProfilesInv, Shape
<1>2. CASE /\ Becomes(p, c)
           /\ proc[p].at = "mkdir" /\ proc[p].ask \notin dirs \union {Default}
           /\ dirs' = dirs \union {proc[p].ask}
           /\ UNCHANGED <<config, dbs, version, rows>> /\ OnlyDisk
  <2>1. /\ IsProcess(c) /\ c.op = proc[p].op /\ c.ask = proc[p].ask
        /\ c.at = "init"
        /\ c.profile = proc[p].ask /\ c.owns = TRUE /\ c.linked = proc[p].linked
    BY <1>1 DEF IsProcess, Fields
  <2> HIDE DEF c
  <2>2. Only(p) /\ proc'[p] = c
    BY <1>1, <1>2, <2>1, BecomesFacts
  <2>3. Shape'
    BY <1>1, <1>2, <2>1, <2>2, ShapeStays DEF Shape, ProcessInv, All, OnlyDisk
  <2>4. ProcessInv(p)'
    BY <1>1, <1>2, <2>1, <2>2 DEF Shape, ProcessInv, Migrating, All, OnlyDisk
  <2>5. QED
    BY <1>1, <1>2, <2>1, <2>2, <2>3, <2>4
       DEF Advances, Only, Keeps, Same, Owns, HoldsReserved, OnlyDisk
<1>3. QED
  BY <1>1, <1>2, FailureAdvances DEF MakeDirectory, OnlyDisk, diskVars

LEMMA OpenReadwriteAdvances ==
  ASSUME ProfilesInv, NEW p \in Processes, OpenReadwrite(p)
  PROVE  Advances(p)
<1> DEFINE c == [proc[p] EXCEPT !.linked = TRUE, !.at = "migrate"]
<1>1. Shape /\ ProcessInv(p) /\ IsProcess(proc[p])
  BY DEF ProfilesInv, Shape
<1>2. CASE /\ Becomes(p, c)
           /\ proc[p].at = "file" /\ dbs' = dbs \union {proc[p].profile}
           /\ UNCHANGED <<dirs, config, version, rows>> /\ OnlyDisk
  <2>1. /\ IsProcess(c) /\ c.op = proc[p].op /\ c.ask = proc[p].ask
        /\ c.at = "migrate"
        /\ c.linked = TRUE /\ c.profile = proc[p].profile /\ c.owns = proc[p].owns
    BY <1>1 DEF IsProcess, Fields
  <2> HIDE DEF c
  <2>2. Only(p) /\ proc'[p] = c
    BY <1>1, <1>2, <2>1, BecomesFacts
  <2>3. Shape'
    BY <1>1, <1>2, <2>1, <2>2, ShapeStays DEF Shape, ProcessInv, OnlyDisk
  <2>4. ProcessInv(p)'
    BY <1>1, <1>2, <2>1, <2>2 DEF Shape, ProcessInv, Migrating, OnlyDisk
  <2>5. proc'[p].owns = proc[p].owns /\ proc'[p].profile = proc[p].profile
    BY <2>1, <2>2
  <2>6. QED
    BY <1>1, <1>2, <2>1, <2>2, <2>3, <2>4, <2>5, MoveAdvances DEF Shape, OnlyDisk
<1>3. QED
  BY <1>1, <1>2, FailureAdvances DEF OpenReadwrite, OnlyDisk, diskVars

LEMMA SelectNamedAdvances ==
  ASSUME ProfilesInv, NEW p \in Processes, SelectNamed(p)
  PROVE  Advances(p)
<1>1. Shape /\ ProcessInv(p) /\ IsProcess(proc[p])
  BY DEF ProfilesInv, Shape
<1>2. proc[p].at = "select" /\ UNCHANGED <<diskVars, marker, made>>
  BY DEF SelectNamed
<1>3. ASSUME NEW i, Becomes(p, [proc[p] EXCEPT !.attempt = i, !.at = "publish"])
      PROVE  Advances(p)
  <2> DEFINE c == [proc[p] EXCEPT !.attempt = i, !.at = "publish"]
  <2>1. /\ IsProcess(c) /\ c.op = proc[p].op /\ c.ask = proc[p].ask
        /\ c.at = "publish" /\ c.profile = proc[p].profile
        /\ c.linked = proc[p].linked /\ c.owns = proc[p].owns
    BY <1>1 DEF IsProcess, Fields
  <2>2. Becomes(p, c)
    BY <1>3
  <2> HIDE DEF c
  <2>3. Only(p) /\ proc'[p] = c
    BY <1>1, <2>1, <2>2, BecomesFacts
  <2>4. Shape'
    BY <1>1, <1>2, <2>1, <2>3 DEF Shape, Only, Keeps, Same, diskVars
  <2>5. ProcessInv(p)'
    BY <1>1, <1>2, <2>1, <2>3 DEF ProcessInv, Migrating, diskVars
  <2>6. QED
    BY <1>2, <2>1, <2>3, <2>4, <2>5, MoveAdvances DEF diskVars
<1>4. QED
  BY <1>2, <1>3, FailureAdvances DEF SelectNamed

LEMMA BeginMigrationAdvances ==
  ASSUME ProfilesInv, NEW p \in Processes, BeginMigration(p)
  PROVE  Advances(p)
<1> DEFINE n == proc[p].profile
<1>1. Shape /\ ProcessInv(p) /\ IsProcess(proc[p])
  BY DEF ProfilesInv, Shape
<1>2. /\ proc[p].at = "migrate" /\ proc[p].linked
      /\ UNCHANGED <<diskVars, marker, made>>
  BY DEF BeginMigration, OnlyProc
<1>3. CASE Goes(p, "ready") /\ version[n] = SCHEMA_VERSION
  <2>1. Only(p) /\ Same(p) /\ proc'[p].at = "ready"
    BY <1>1, <1>3, GoesFacts
  <2>2. Shape'
    BY <1>1, <1>2, <2>1 DEF Shape, Only, Keeps, Same, diskVars
  <2>3. ProcessInv(p)'
    BY <1>1, <1>2, <1>3, <2>1 DEF ProcessInv, Same, Migrating, diskVars
  <2>4. QED
    BY <1>2, <2>1, <2>2, <2>3, MoveAdvances DEF Same, diskVars
<1>4. ASSUME NEW to \in {"upgrade", "commit"}, to = "commit" => ~Reserved(n),
             Becomes(p, [proc[p] EXCEPT !.read = version[n], !.at = to])
      PROVE  Advances(p)
  <2> DEFINE c == [proc[p] EXCEPT !.read = version[n], !.at = to]
  <2>1. /\ IsProcess(c) /\ c.op = proc[p].op /\ c.ask = proc[p].ask
        /\ c.at = to /\ c.read = version[n] /\ c.profile = proc[p].profile
        /\ c.linked = proc[p].linked /\ c.owns = proc[p].owns
    BY <1>1 DEF IsProcess, Fields
  <2>2. Becomes(p, c)
    BY <1>4
  <2> HIDE DEF c
  <2>3. Only(p) /\ proc'[p] = c
    BY <1>1, <2>1, <2>2, BecomesFacts
  <2>4. Shape'
    BY <1>1, <1>2, <2>1, <2>3 DEF Shape, Only, Keeps, Same, diskVars
  <2>5. ProcessInv(p)'
    BY <1>1, <1>2, <2>1, <2>3 DEF ProcessInv, Migrating, diskVars
  <2>6. QED
    BY <1>2, <1>4, <2>1, <2>3, <2>4, <2>5, MoveAdvances DEF diskVars
<1>5. QED
  BY <1>2, <1>3, <1>4, FailureAdvances DEF BeginMigration

LEMMA StartAdvances ==
  ASSUME ProfilesInv, NEW p \in Processes, Start(p)
  PROVE  Advances(p)
<1>1. Shape /\ ProcessInv(p)
  BY DEF ProfilesInv
<1>2. proc[p].at = "done" /\ UNCHANGED <<diskVars, marker, made>>
  BY DEF Start, Running
<1>3. PICK r \in Commands :
        LET named == r.op \in {"read", "write"} /\ r.ask # NoName
        IN  Becomes(p, [Idle EXCEPT !.op = r.op, !.ask = r.ask, !.seen = {marker},
                                    !.profile = IF named THEN r.ask ELSE marker,
                                    !.at = IF named THEN "resolve" ELSE "index"])
  BY DEF Start
<1> DEFINE named == r.op \in {"read", "write"} /\ r.ask # NoName
           profile == IF named THEN r.ask ELSE marker
           at == IF named THEN "resolve" ELSE "index"
           c == [Idle EXCEPT !.op = r.op, !.ask = r.ask, !.seen = {marker},
                             !.profile = profile, !.at = at]
<1>4. /\ at \in {"resolve", "index"} /\ profile \in All
      /\ at = "resolve" => r.op # "create"
      /\ r.op \in {"create", "use"} => r.ask \in All
  BY <1>1 DEF Commands, Shape
<1>5. Becomes(p, c)
  BY <1>3
<1> HIDE DEF profile, at
<1>6. /\ IsProcess(c) /\ c.op = r.op /\ c.ask = r.ask /\ c.profile = profile /\ c.at = at
      /\ c.linked = FALSE /\ c.owns = FALSE
  BY DEF IsProcess, Fields, Idle
<1> HIDE DEF c
<1>7. Only(p) /\ proc'[p] = c
  BY <1>1, <1>5, <1>6, BecomesFacts
<1>8. Shape'
  BY <1>1, <1>2, <1>4, <1>6, <1>7 DEF Shape, Only, Keeps, Same, diskVars
<1>9. ProcessInv(p)'
  BY <1>4, <1>6, <1>7 DEF ProcessInv, Migrating
<1>10. proc[p].owns = FALSE
  BY <1>1, <1>2 DEF ProcessInv, Migrating, Shape
<1>11. QED
  BY <1>2, <1>4, <1>6, <1>7, <1>8, <1>9, <1>10, MoveAdvances DEF diskVars

LEMMA CrashAdvances ==
  ASSUME ProfilesInv, NEW p \in Processes, Crash(p)
  PROVE  Advances(p)
<1>1. /\ IsProcess(Idle) /\ Idle.at = "done" /\ Idle.op = "read"
      /\ Idle.linked = FALSE /\ Idle.owns = FALSE
  BY DEF Idle, IsProcess, Fields
<1>2. Becomes(p, Idle) /\ UNCHANGED <<diskVars, marker, made>>
  BY DEF Crash
<1>3. Only(p) /\ Ended(p)
  BY <1>1, <1>2, BecomesFacts DEF ProfilesInv, Ended
<1>4. QED
  BY <1>2, <1>3, EndAdvances

LEMMA SelectsAdvances ==
  ASSUME ProfilesInv, NEW p \in Processes, NEW n \in All, Selects(p, n),
         UNCHANGED <<diskVars, made>>
  PROVE  Advances(p)
<1> DEFINE c == Exited(proc[p], n, proc[p].seen \union {n}, "ok")
<1>1. Shape
  BY DEF ProfilesInv
<1>2. proc'[p] = c /\ marker' = n /\ proc' = [q \in Processes |-> proc'[q]]
  BY DEF Selects
<1>3. /\ IsProcess(c) /\ c.op = proc[p].op /\ c.ask = proc[p].ask
      /\ c.at = "done" /\ c.linked = FALSE /\ c.owns = FALSE
  BY DEF IsProcess, Fields, Exited
<1> HIDE DEF c
<1>4. ASSUME NEW q \in Processes \ {p}
      PROVE  Keeps(q)
  <2>1. IsProcess(proc[q])
    BY <1>1 DEF Shape
  <2>2. proc'[q] = proc[q] \/ proc'[q] = [proc[q] EXCEPT !.seen = @ \union {n}]
    BY DEF Selects
  <2>3. QED
    BY <2>1, <2>2 DEF Keeps, Same, IsProcess, Fields
<1>5. Only(p)
  BY <1>2, <1>3, <1>4 DEF Only
<1>6. Shape'
  BY <1>1, <1>2, <1>3, <1>5, ShapeStays DEF Shape, diskVars
<1>7. ProcessInv(p)'
  BY <1>2, <1>3 DEF ProcessInv, Migrating
<1>8. QED
  BY <1>2, <1>3, <1>5, <1>6, <1>7 DEF Advances, Only, Owns, HoldsReserved, diskVars

LEMMA ChoosesAdvances ==
  ASSUME ProfilesInv, NEW p \in Processes, Chooses(p)
  PROVE  Advances(p)
<1>1. CASE SelectDefault(p)
  BY <1>1, SelectsAdvances DEF SelectDefault, All
<1>2. CASE Publish(p)
  <2>1. proc[p].ask \in All
    BY <1>2 DEF Publish, ProfilesInv, ProcessInv, Shape
  <2>2. QED
    BY <1>2, <2>1, SelectsAdvances DEF Publish
<1>3. QED
  BY <1>1, <1>2, SelectRefusedAdvances, SelectNamedAdvances DEF Chooses

-----------------------------------------------------------------------------
(* Steps that change what others see *)

\* The migration commits.
LEMMA CommitKeeps ==
  ASSUME ProfilesInv, NEW p \in Processes, CommitMigration(p)
  PROVE  ProfilesInv'
<1> DEFINE n == proc[p].profile
<1>1. Shape /\ ProcessInv(p)
  BY DEF ProfilesInv
<1>2. Only(p) /\ Same(p) /\ proc'[p].at = "ready"
  BY <1>1, GoesFacts DEF CommitMigration
<1>3. /\ proc[p].at = "commit" /\ proc[p].linked /\ n \in All
      /\ \A q \in Processes : ~HoldsShared(q, n)
      /\ version' = [version EXCEPT ![n] = SCHEMA_VERSION]
      /\ UNCHANGED <<dirs, config, dbs, rows, marker, made>>
  BY <1>1 DEF CommitMigration, OnlyDisk, Shape
<1>4. Shape'
  BY <1>1, <1>2, <1>3, ShapeStays DEF Shape, Same
<1>5. ProcessInv(p)'
  BY <1>1, <1>2, <1>3 DEF ProcessInv, Same, Migrating, Shape
<1>6. ASSUME NEW q \in Processes, q # p
      PROVE  ProcessInv(q)'
  <2>1. Keeps(q) /\ ProcessInv(q) /\ Alone(p, q)
    BY <1>2, <1>6 DEF Only, ProfilesInv
  <2>2. proc[q].linked /\ proc[q].profile = n => proc[q].at \notin {"upgrade", "commit"}
    BY <1>3, <1>6, <2>1 DEF Alone, HoldsReserved, HoldsShared
  <2>3. proc[q].at # "done" => proc[q].profile \in All
    BY <1>1 DEF Shape
  <2>4. version'[n] = SCHEMA_VERSION /\ \A m \in All \ {n} : version'[m] = version[m]
    BY <1>1, <1>3 DEF Shape
  <2>5. QED
    BY <1>3, <2>1, <2>2, <2>3, <2>4 DEF ProcessInv, Keeps, Same, Migrating
<1>7. ASSUME NEW q \in Processes, NEW m \in All
      PROVE  (Owns(q, m)' = Owns(q, m)) /\ (HoldsReserved(q, m)' => HoldsReserved(q, m))
  BY <1>2, <1>3, <1>7 DEF Only, Keeps, Same, Owns, HoldsReserved
<1>8. \A q, r \in Processes : Alone(q, r)'
  BY <1>7 DEF ProfilesInv, Alone
<1>9. \A m \in made' : m \in All /\ Stands(m)'
  BY <1>1, <1>3, <1>7 DEF ProfilesInv, Stands, Shape
<1>10. QED
  BY <1>4, <1>5, <1>6, <1>8, <1>9 DEF ProfilesInv

\* A creation is taken back: what was there was its own.
LEMMA UndoKeeps ==
  ASSUME ProfilesInv, NEW p \in Processes, UndoFiles(p)
  PROVE  ProfilesInv'
<1> DEFINE n == proc[p].profile
<1>1. Shape /\ ProcessInv(p)
  BY DEF ProfilesInv
<1>2. /\ proc[p].at = "undo" /\ proc[p].owns /\ n \in All
      /\ config' = [config EXCEPT ![n] = "none"] /\ dbs' = dbs \ {n}
      /\ version' = [version EXCEPT ![n] = 0] /\ rows' = [rows EXCEPT ![n] = 0]
      /\ UNCHANGED <<dirs, marker, made>>
  BY <1>1 DEF UndoFiles, OnlyDisk, ProcessInv, Shape
<1>3. proc' = [q \in Processes |-> proc'[q]]
  BY DEF UndoFiles
<1>4. ASSUME NEW q \in Processes
      PROVE  /\ IsProcess(proc'[q])
             /\ proc'[q].op = proc[q].op /\ proc'[q].ask = proc[q].ask
             /\ proc'[q].profile = proc[q].profile /\ proc'[q].read = proc[q].read
             /\ proc'[q].owns = proc[q].owns /\ proc'[q].linked \in BOOLEAN
             /\ proc'[q].linked <=> proc[q].linked /\ proc[q].profile # n
             /\ proc'[q].at = IF q = p THEN "rmdir" ELSE proc[q].at
  <2> DEFINE at == IF q = p THEN "rmdir" ELSE proc[q].at
             linked == proc[q].linked /\ proc[q].profile # n
             c == [proc[q] EXCEPT !.at = at, !.linked = linked]
  <2>1. proc'[q] = c
    BY DEF UndoFiles
  <2>2. linked \in BOOLEAN /\ IsProcess(proc[q])
    BY <1>1 DEF Shape
  <2> HIDE DEF at, linked
  <2>3. /\ IsProcess(c) /\ c.op = proc[q].op /\ c.ask = proc[q].ask
        /\ c.profile = proc[q].profile /\ c.read = proc[q].read /\ c.owns = proc[q].owns
        /\ c.linked = linked /\ c.at = at
    BY <2>2 DEF IsProcess, Fields
  <2> HIDE DEF c
  <2>4. QED
    BY <2>1, <2>2, <2>3 DEF at, linked
<1>5. Shape'
  BY <1>1, <1>2, <1>3, <1>4 DEF Shape
<1>6. ASSUME NEW q \in Processes
      PROVE  ProcessInv(q)'
  <2>1. ProcessInv(q) /\ Alone(p, q)
    BY DEF ProfilesInv
  <2>2. q # p /\ proc[q].owns => proc[q].profile # n
    BY <1>2, <2>1 DEF Alone, Owns
  <2>3. proc[q].at # "done" => proc[q].profile \in All
    BY <1>1 DEF Shape
  <2>4. \A m \in All \ {n} : version'[m] = version[m] /\ config'[m] = config[m]
    BY <1>1, <1>2 DEF Shape
  <2>5. CASE q = p
    BY <1>1, <1>2, <1>4, <2>5 DEF ProcessInv, Migrating
  <2>6. CASE q # p
    BY <1>2, <1>4, <2>1, <2>2, <2>3, <2>4, <2>6 DEF ProcessInv, Migrating
  <2>7. QED
    BY <2>5, <2>6
<1>7. ASSUME NEW q \in Processes, NEW m \in All
      PROVE  (Owns(q, m)' <=> Owns(q, m)) /\ (HoldsReserved(q, m)' => HoldsReserved(q, m))
  BY <1>4 DEF Owns, HoldsReserved
<1>8. \A q, r \in Processes : Alone(q, r)'
  BY <1>7 DEF ProfilesInv, Alone
<1>9. ASSUME NEW m \in made'
      PROVE  m \in All /\ Stands(m)'
  <2>1. m \in All /\ Stands(m)
    BY <1>2 DEF ProfilesInv
  <2>2. m # n
    BY <1>2, <2>1 DEF Stands, Owns
  <2>3. QED
    BY <1>1, <1>2, <1>7, <2>1, <2>2 DEF Stands, Shape
<1>10. QED
  BY <1>5, <1>6, <1>8, <1>9 DEF ProfilesInv

\* Only the owner takes a directory away.
LEMMA RemoveKeeps ==
  ASSUME ProfilesInv, NEW p \in Processes, UndoDirectory(p)
  PROVE  ProfilesInv'
<1> DEFINE n == proc[p].profile
<1>1. Shape /\ ProcessInv(p)
  BY DEF ProfilesInv
<1>2. Only(p) /\ Ended(p)
  BY <1>1, ReturnsFacts DEF UndoDirectory
<1>3. /\ proc[p].owns /\ n \in All /\ dirs \ {n} \subseteq dirs'
      /\ UNCHANGED <<config, dbs, version, rows, marker, made>>
  BY <1>1 DEF UndoDirectory, OnlyDisk, ProcessInv, Shape
<1>4. Shape'
  BY <1>1, <1>2, <1>3, ShapeStays DEF Shape, Ended
<1>5. ASSUME NEW q \in Processes
      PROVE  ProcessInv(q)'
  <2>1. CASE q = p
    BY <1>2, <2>1 DEF ProcessInv, Ended, Migrating
  <2>2. CASE q # p
    <3>1. Keeps(q) /\ ProcessInv(q) /\ Alone(p, q)
      BY <1>2, <2>2 DEF Only, ProfilesInv
    <3>2. proc[q].owns => proc[q].profile # n
      BY <1>3, <2>2, <3>1 DEF Alone, Owns
    <3>3. QED
      BY <1>3, <3>1, <3>2 DEF ProcessInv, Keeps, Same, Migrating
  <2>3. QED
    BY <2>1, <2>2
<1>6. ASSUME NEW q \in Processes, NEW m \in All
      PROVE  (Owns(q, m)' => Owns(q, m)) /\ (HoldsReserved(q, m)' => HoldsReserved(q, m))
  BY <1>2 DEF Only, Keeps, Same, Ended, Owns, HoldsReserved
<1>7. \A q, r \in Processes : Alone(q, r)'
  BY <1>6 DEF ProfilesInv, Alone
<1>8. ASSUME NEW m \in made'
      PROVE  m \in All /\ Stands(m)'
  <2>1. m \in All /\ Stands(m)
    BY <1>3 DEF ProfilesInv
  <2>2. m # n
    BY <1>3, <2>1 DEF Stands, Owns
  <2>3. QED
    BY <1>3, <1>6, <2>1, <2>2 DEF Stands
<1>9. QED
  BY <1>4, <1>5, <1>7, <1>8 DEF ProfilesInv

\* What is registered is complete, and from then on nobody's.
LEMMA RegisterKeeps ==
  ASSUME ProfilesInv, NEW p \in Processes, Register(p)
  PROVE  ProfilesInv'
<1> DEFINE n == proc[p].profile
<1>1. Shape /\ ProcessInv(p)
  BY DEF ProfilesInv
<1>2. Only(p) /\ Ended(p)
  BY <1>1, ReturnsFacts DEF Register
<1>3. /\ proc[p].at = "ready" /\ proc[p].op = "create" /\ n \in All
      /\ made' = made \union {n}
      /\ UNCHANGED <<dirs, config, dbs, version, rows, marker>>
  BY <1>1 DEF Register, diskVars, Shape
<1>4. Shape'
  BY <1>1, <1>2, <1>3, ShapeStays DEF Shape, Ended
<1>5. ASSUME NEW q \in Processes
      PROVE  ProcessInv(q)'
  <2>1. CASE q = p
    BY <1>2, <2>1 DEF ProcessInv, Ended, Migrating
  <2>2. CASE q # p
    BY <1>2, <1>3, <2>2 DEF ProfilesInv, ProcessInv, Only, Keeps, Same, Migrating
  <2>3. QED
    BY <2>1, <2>2
<1>6. ASSUME NEW q \in Processes, NEW m \in All
      PROVE  (Owns(q, m)' => Owns(q, m) /\ q # p) /\ (HoldsReserved(q, m)' => HoldsReserved(q, m))
  BY <1>2 DEF Only, Keeps, Same, Ended, Owns, HoldsReserved
<1>7. \A q, r \in Processes : Alone(q, r)'
  BY <1>6 DEF ProfilesInv, Alone
<1>8. ASSUME NEW m \in All, m = n
      PROVE  Stands(m)'
  <2>1. /\ proc[p].owns /\ n \in dirs /\ n \in dbs /\ config[n] # "none"
        /\ version[n] = SCHEMA_VERSION
    BY <1>1, <1>3 DEF ProcessInv, Migrating
  <2>2. Owns(p, m)
    BY <1>8, <2>1 DEF Owns
  <2>3. ASSUME NEW q \in Processes
        PROVE  ~Owns(q, m)'
    BY <1>6, <2>2 DEF ProfilesInv, Alone
  <2>4. QED
    BY <1>3, <1>8, <2>1, <2>3 DEF Stands
<1>9. \A m \in made : m \in All /\ Stands(m)'
  BY <1>3, <1>6 DEF ProfilesInv, Stands
<1>10. ASSUME NEW m \in made'
       PROVE  m \in All /\ Stands(m)'
  BY <1>3, <1>8, <1>9
<1>11. QED
  BY <1>4, <1>5, <1>7, <1>10 DEF ProfilesInv

LEMMA QuietKeeps ==
  ASSUME ProfilesInv,
         \/ \E p \in Processes : Insert(p)
         \/ \E n \in All : EditConfig(n)
         \/ UNCHANGED vars
  PROVE  ProfilesInv'
<1>1. /\ UNCHANGED <<dirs, dbs, version, marker, proc, made>>
      /\ rows' \in [All -> Nat] /\ config' = [n \in All |-> config'[n]]
      /\ \A n \in All : config[n] # "none" => config'[n] # "none"
  BY DEF ProfilesInv, Shape, Insert, EditConfig, OnlyDisk, vars, diskVars
<1>2. Shape'
  BY <1>1 DEF ProfilesInv, Shape
<1>3. \A p \in Processes : ProcessInv(p)'
  BY <1>1 DEF ProfilesInv, ProcessInv, Shape, Migrating
<1>4. \A p, q \in Processes : Alone(p, q)'
  BY <1>1 DEF ProfilesInv, Alone, Owns, HoldsReserved
<1>5. \A n \in made' : n \in All /\ Stands(n)'
  BY <1>1 DEF ProfilesInv, Stands, Owns
<1>6. QED
  BY <1>2, <1>3, <1>4, <1>5 DEF ProfilesInv

LEMMA StepKeeps == ProfilesInv /\ [Next]_vars => ProfilesInv'
<1> SUFFICES ASSUME ProfilesInv, [Next]_vars
             PROVE  ProfilesInv'
  OBVIOUS
<1>1. ASSUME NEW p \in Processes, Start(p) \/ Fault(p) \/ Crash(p)
      PROVE  ProfilesInv'
  BY <1>1, StartAdvances, FaultAdvances, CrashAdvances, AdvanceHolds
<1>2. ASSUME NEW p \in Processes, Step(p)
      PROVE  ProfilesInv'
  <2>1. CASE Index(p) \/ Chooses(p) \/ Leave(p)
    BY <2>1, IndexAdvances, ChoosesAdvances, LeaveAdvances, AdvanceHolds
  <2>2. CASE Creates(p)
    BY <2>2, MakeDirectoryAdvances, WriteConfigAdvances, AdvanceHolds, UndoKeeps, RemoveKeeps,
       RegisterKeeps DEF Creates
  <2>3. CASE Opens(p)
    BY <2>3, ResolveAdvances, ConfigRefusedAdvances, OpenReadonlyAdvances, MakeParentAdvances,
       OpenReadwriteAdvances, AdvanceHolds DEF Opens
  <2>4. CASE Migrates(p)
    BY <2>4, BeginMigrationAdvances, UpgradeAdvances, WriteUnlinkedAdvances, AdvanceHolds,
       CommitKeeps DEF Migrates
  <2>5. QED
    BY <1>2, <2>1, <2>2, <2>3, <2>4 DEF Step
<1>3. ASSUME NEW p \in Processes, Insert(p)
      PROVE  ProfilesInv'
  BY <1>3, QuietKeeps
<1>4. CASE (\E n \in All : EditConfig(n)) \/ UNCHANGED vars
  BY <1>4, QuietKeeps
<1>5. QED
  BY <1>1, <1>2, <1>3, <1>4 DEF Next

LEMMA Invariance == Spec => []ProfilesInv
<1>1. ProfilesInv /\ [Next]_vars => ProfilesInv'
  BY StepKeeps
<1>2. QED
  BY InitHolds, <1>1, PTL DEF Spec

-----------------------------------------------------------------------------
(* The theorems *)

\* Any number of processes may open one database at once: whoever holds it for writing
\* holds the current schema, and no migration is applied to another version than it has
\* read (migration.rs:66).
THEOREM MigrationIsApplied == Spec => []StorageIsCurrent
<1>1. ProfilesInv => StorageIsCurrent
  BY DEF ProfilesInv, ProcessInv, StorageIsCurrent
<1>2. QED
  BY <1>1, Invariance, PTL

\* A profile whose creation was reported stays, complete and with its sessions, whatever
\* other creations fail and are taken back (service.rs:72).
THEOREM CreationIsDurable == Spec => CreatedStays
<1> DEFINE Complete(n) == /\ n \in dirs' /\ n \in dbs' /\ config'[n] # "none"
                          /\ version'[n] = SCHEMA_VERSION
                          /\ n \in made => rows'[n] >= rows[n]
           Kept == \A n \in made' : Complete(n)
<1>1. ASSUME ProfilesInv, ProfilesInv', [Next]_vars
      PROVE  Kept
  <2>1. ASSUME NEW n \in made
        PROVE  rows'[n] >= rows[n]
    <3>1. n \in All /\ Stands(n) /\ rows[n] \in Nat
      BY <1>1 DEF ProfilesInv, Shape
    <3>2. ASSUME NEW p \in Processes, UndoFiles(p)
          PROVE  rows'[n] >= rows[n]
      <4>1. proc[p].profile # n
        BY <1>1, <3>1, <3>2 DEF ProfilesInv, ProcessInv, Stands, Owns, UndoFiles
      <4>2. rows' = [rows EXCEPT ![proc[p].profile] = 0]
        BY <3>2 DEF UndoFiles
      <4>3. QED
        BY <1>1, <3>1, <4>1, <4>2 DEF ProfilesInv, Shape
    <3>3. ASSUME NEW p \in Processes, Insert(p)
          PROVE  rows'[n] >= rows[n]
      BY <1>1, <3>1, <3>3 DEF ProfilesInv, Shape, Insert
    <3>4. CASE UNCHANGED rows
      BY <3>1, <3>4
    <3>5. QED
      <4>1. ASSUME NEW p \in Processes, Step(p), ~UndoFiles(p)
            PROVE  UNCHANGED rows
        BY <4>1
           DEF Step, Index, Chooses, SelectRefused, SelectDefault, SelectNamed, Publish, Creates,
               MakeDirectory, WriteConfig, UndoDirectory, Register, Opens, Resolve,
               ConfigRefused, OpenReadonly, MakeParent, OpenReadwrite, Migrates,
               BeginMigration, Upgrade, CommitMigration, WriteUnlinked, Leave, OnlyProc,
               OnlyDisk, diskVars
      <4>2. ASSUME NEW p \in Processes, Start(p) \/ Fault(p) \/ Crash(p)
            PROVE  UNCHANGED rows
        BY <4>2 DEF Start, Fault, Crash, diskVars
      <4>3. ASSUME NEW m \in All, EditConfig(m)
            PROVE  UNCHANGED rows
        BY <4>3 DEF EditConfig
      <4>4. CASE UNCHANGED vars
        BY <3>4, <4>4 DEF vars, diskVars
      <4>5. ASSUME NEW p \in Processes,
                   Start(p) \/ Step(p) \/ Insert(p) \/ Fault(p) \/ Crash(p)
            PROVE  rows'[n] >= rows[n]
        BY <3>2, <3>3, <3>4, <4>1, <4>2, <4>5
      <4>6. QED
        BY <1>1, <3>4, <4>3, <4>4, <4>5 DEF Next
  <2>2. QED
    BY <1>1, <2>1 DEF ProfilesInv, Stands
<1>2. ProfilesInv /\ ProfilesInv' /\ [Next]_vars => [Kept]_vars
  BY <1>1
<1>3. QED
  BY <1>2, Invariance, PTL DEF Spec, CreatedStays

-----------------------------------------------------------------------------
(* what a command without --profile acts on *)

\* From its first step on it has a profile that was selected in its time.
Chosen(c) == c.ask = NoName /\ (c.at # "done" \/ c.result = "ok") => c.profile \in c.seen

\* A step that does not choose.
Follows(p) ==
  /\ Running(p) /\ proc'[p].ask = proc[p].ask
  /\ proc'[p].profile = proc[p].profile /\ proc'[p].seen = proc[p].seen

\* What a command may not do to the others.
Watches(q) ==
  /\ proc'[q].at = proc[q].at /\ proc'[q].ask = proc[q].ask /\ proc'[q].result = proc[q].result
  /\ proc'[q].profile = proc[q].profile /\ proc[q].seen \subseteq proc'[q].seen

ChosenStep == \A p \in Processes : Follows(p) \/ Watches(p) \/ Chosen(proc'[p])

\* A choice that was right stays so.
LEMMA ChosenStays ==
  ASSUME \A p \in Processes : Chosen(proc[p]), ChosenStep
  PROVE  \A p \in Processes : Chosen(proc'[p])
  BY DEF ChosenStep, Chosen, Follows, Watches, Running

\* One process moves on, with the profile it has.
LEMMA FollowsFacts ==
  ASSUME Shape, NEW p \in Processes, Running(p), NEW c, Becomes(p, c),
         \/ c.ask = proc[p].ask /\ c.profile = proc[p].profile /\ c.seen = proc[p].seen
         \/ Chosen(c)
  PROVE  ChosenStep
<1>1. proc'[p] = c /\ \A q \in Processes \ {p} : proc'[q] = proc[q]
  BY DEF Becomes, Shape
<1>2. QED
  BY <1>1 DEF ChosenStep, Follows, Watches

LEMMA GoesChosen ==
  ASSUME Shape, NEW p \in Processes, Running(p), NEW to, Goes(p, to) PROVE ChosenStep
<1> DEFINE c == [proc[p] EXCEPT !.at = to]
<1>1. IsProcess(proc[p])
  BY DEF Shape
<1>2. c.ask = proc[p].ask /\ c.profile = proc[p].profile /\ c.seen = proc[p].seen
  BY <1>1 DEF IsProcess, Fields
<1>3. Becomes(p, c)
  BY DEF Goes
<1> HIDE DEF c
<1>4. QED
  BY <1>2, <1>3, FollowsFacts

LEMMA ReturnsChosen ==
  ASSUME Shape, NEW p \in Processes, Running(p), NEW result, Returns(p, result) PROVE ChosenStep
<1> DEFINE c == Exited(proc[p], proc[p].profile, proc[p].seen, result)
<1>1. c.ask = proc[p].ask /\ c.profile = proc[p].profile /\ c.seen = proc[p].seen
  BY DEF Exited
<1>2. Becomes(p, c)
  BY DEF Returns
<1> HIDE DEF c
<1>3. QED
  BY <1>1, <1>2, FollowsFacts

LEMMA FailsChosen ==
  ASSUME Shape, NEW p \in Processes, Running(p), NEW why, Fails(p, why) PROVE ChosenStep
  BY GoesChosen, ReturnsChosen DEF Fails

\* The marker moves under the commands that run.
LEMMA SelectsChosen ==
  ASSUME Shape, NEW p \in Processes, proc[p].ask # NoName, NEW n, Selects(p, n) PROVE ChosenStep
<1>1. Chosen(proc'[p])
  <2>1. proc'[p] = Exited(proc[p], n, proc[p].seen \union {n}, "ok")
    BY DEF Selects
  <2>2. QED
    BY <2>1 DEF Exited, Chosen
<1>2. ASSUME NEW q \in Processes \ {p} PROVE Watches(q)
  <2>1. IsProcess(proc[q])
    BY DEF Shape
  <2>2. proc'[q] = proc[q] \/ proc'[q] = [proc[q] EXCEPT !.seen = @ \union {n}]
    BY DEF Selects
  <2>3. CASE proc'[q] = proc[q]
    BY <2>3 DEF Watches
  <2>4. CASE proc'[q] = [proc[q] EXCEPT !.seen = @ \union {n}]
    BY <2>1, <2>4 DEF Watches, IsProcess, Fields
  <2>5. QED
    BY <2>2, <2>3, <2>4
<1>3. QED
  BY <1>1, <1>2 DEF ChosenStep

\* The roll-back of a creation unlinks a file under the commands that run.
LEMMA UndoChosen ==
  ASSUME Shape, NEW p \in Processes, UndoFiles(p) PROVE ChosenStep
<1>1. ASSUME NEW q \in Processes
      PROVE  /\ proc'[q].ask = proc[q].ask /\ proc'[q].result = proc[q].result
             /\ proc'[q].profile = proc[q].profile /\ proc'[q].seen = proc[q].seen
             /\ q # p => proc'[q].at = proc[q].at
  <2> DEFINE at == IF q = p THEN "rmdir" ELSE proc[q].at
             linked == proc[q].linked /\ proc[q].profile # proc[p].profile
  <2>1. proc'[q] = [proc[q] EXCEPT !.at = at, !.linked = linked]
    BY DEF UndoFiles
  <2>2. IsProcess(proc[q])
    BY DEF Shape
  <2>3. q # p => at = proc[q].at
    OBVIOUS
  <2> HIDE DEF at, linked
  <2>4. QED
    BY <2>1, <2>2, <2>3 DEF IsProcess, Fields
<1>2. Running(p)
  BY DEF UndoFiles, Running
<1>3. QED
  BY <1>1, <1>2 DEF ChosenStep, Follows, Watches

\* A command takes the marker, or the name it was given.
LEMMA StartChosen ==
  ASSUME Shape, NEW p \in Processes, Start(p) PROVE ChosenStep
<1>1. PICK c \in Commands :
        LET named == c.op \in {"read", "write"} /\ c.ask # NoName
        IN  Becomes(p, [Idle EXCEPT !.op = c.op, !.ask = c.ask, !.seen = {marker},
                                    !.profile = IF named THEN c.ask ELSE marker,
                                    !.at = IF named THEN "resolve" ELSE "index"])
  BY DEF Start
<1> DEFINE named == c.op \in {"read", "write"} /\ c.ask # NoName
           profile == IF named THEN c.ask ELSE marker
           at == IF named THEN "resolve" ELSE "index"
           new == [Idle EXCEPT !.op = c.op, !.ask = c.ask, !.seen = {marker}, !.profile = profile, !.at = at]
<1>2. c.ask = NoName => profile = marker
  OBVIOUS
<1>3. Becomes(p, new)
  BY <1>1
<1> HIDE DEF profile, at
<1>4. new.ask = c.ask /\ new.profile = profile /\ new.seen = {marker}
  BY DEF Idle
<1> HIDE DEF new
<1>5. Chosen(new)
  BY <1>2, <1>4 DEF Chosen
<1>6. proc'[p] = new /\ \A q \in Processes \ {p} : proc'[q] = proc[q]
  BY <1>3 DEF Becomes, Shape
<1>7. QED
  BY <1>5, <1>6 DEF ChosenStep, Watches

\* The index, and the name of a temporary file, leave the profile alone.
LEMMA IndexChosen ==
  ASSUME Shape, NEW p \in Processes, Index(p) PROVE ChosenStep
<1> DEFINE c == [proc[p] EXCEPT !.known = dirs \union {Default}, !.at = AfterIndex(proc[p].op)]
<1>1. Running(p) /\ IsProcess(proc[p])
  BY DEF Index, Running, Shape
<1>2. CASE Becomes(p, c)
  <2>1. c.ask = proc[p].ask /\ c.profile = proc[p].profile /\ c.seen = proc[p].seen
    BY <1>1 DEF IsProcess, Fields
  <2> HIDE DEF c
  <2>2. QED
    BY <1>1, <1>2, <2>1, FollowsFacts
<1>3. CASE Fails(p, "dangling")
  BY <1>1, <1>3, FailsChosen
<1>4. QED
  BY <1>2, <1>3 DEF Index

LEMMA SelectNamedChosen ==
  ASSUME Shape, NEW p \in Processes, SelectNamed(p) PROVE ChosenStep
<1>1. Running(p) /\ IsProcess(proc[p])
  BY DEF SelectNamed, Running, Shape
<1>2. Fails(p, "temp") \/ \E next : Becomes(p, [proc[p] EXCEPT !.attempt = next, !.at = "publish"])
  BY DEF SelectNamed
<1>3. ASSUME NEW next, Becomes(p, [proc[p] EXCEPT !.attempt = next, !.at = "publish"]) PROVE ChosenStep
  <2> DEFINE c == [proc[p] EXCEPT !.attempt = next, !.at = "publish"]
  <2>1. c.ask = proc[p].ask /\ c.profile = proc[p].profile /\ c.seen = proc[p].seen
    BY <1>1 DEF IsProcess, Fields
  <2>2. Becomes(p, c)
    BY <1>3
  <2> HIDE DEF c
  <2>3. QED
    BY <1>1, <2>1, <2>2, FollowsFacts
<1>4. QED
  BY <1>1, <1>2, <1>3, FailsChosen

LEMMA MakeDirectoryChosen ==
  ASSUME Shape, NEW p \in Processes, proc[p].ask # NoName, MakeDirectory(p) PROVE ChosenStep
<1> DEFINE c == [proc[p] EXCEPT !.profile = proc[p].ask, !.owns = TRUE, !.at = "init"]
<1>1. Running(p) /\ IsProcess(proc[p])
  BY DEF MakeDirectory, Running, Shape
<1>2. CASE Becomes(p, c)
  <2>1. c.ask = proc[p].ask
    BY <1>1 DEF IsProcess, Fields
  <2> HIDE DEF c
  <2>2. Chosen(c)
    BY <2>1 DEF Chosen
  <2>3. QED
    BY <1>1, <1>2, <2>2, FollowsFacts
<1>3. QED
  BY <1>1, <1>2, FailsChosen DEF MakeDirectory

LEMMA OpenReadwriteChosen ==
  ASSUME Shape, NEW p \in Processes, OpenReadwrite(p) PROVE ChosenStep
<1> DEFINE c == [proc[p] EXCEPT !.linked = TRUE, !.at = "migrate"]
<1>1. Running(p) /\ IsProcess(proc[p])
  BY DEF OpenReadwrite, Running, Shape
<1>2. CASE Becomes(p, c)
  <2>1. c.ask = proc[p].ask /\ c.profile = proc[p].profile /\ c.seen = proc[p].seen
    BY <1>1 DEF IsProcess, Fields
  <2> HIDE DEF c
  <2>2. QED
    BY <1>1, <1>2, <2>1, FollowsFacts
<1>3. QED
  BY <1>1, <1>2, FailsChosen DEF OpenReadwrite

LEMMA BeginMigrationChosen ==
  ASSUME Shape, NEW p \in Processes, BeginMigration(p) PROVE ChosenStep
<1>1. Running(p) /\ IsProcess(proc[p])
  BY DEF BeginMigration, Running, Shape
<1>2. ASSUME NEW v, NEW to, Becomes(p, [proc[p] EXCEPT !.read = v, !.at = to]) PROVE ChosenStep
  <2> DEFINE c == [proc[p] EXCEPT !.read = v, !.at = to]
  <2>1. c.ask = proc[p].ask /\ c.profile = proc[p].profile /\ c.seen = proc[p].seen
    BY <1>1 DEF IsProcess, Fields
  <2>2. Becomes(p, c)
    BY <1>2
  <2> HIDE DEF c
  <2>3. QED
    BY <1>1, <2>1, <2>2, FollowsFacts
<1>3. \/ Goes(p, "ready") \/ Fails(p, "newer")
      \/ \E v, to : Becomes(p, [proc[p] EXCEPT !.read = v, !.at = to])
  BY DEF BeginMigration
<1>4. QED
  BY <1>1, <1>2, <1>3, GoesChosen, FailsChosen

\* The rest of the commands only go on, fail or return.
LEMMA PlainChosen ==
  ASSUME Shape, NEW p \in Processes,
         \/ SelectRefused(p) \/ WriteConfig(p) \/ UndoDirectory(p) \/ Register(p) \/ Resolve(p)
         \/ ConfigRefused(p) \/ OpenReadonly(p) \/ MakeParent(p) \/ Upgrade(p) \/ CommitMigration(p)
         \/ WriteUnlinked(p) \/ Leave(p) \/ Fault(p)
  PROVE  ChosenStep
<1>1. Running(p)
  BY DEF Running, SelectRefused, WriteConfig, UndoDirectory, Register, Resolve, ConfigRefused,
         OpenReadonly, MakeParent, Upgrade, CommitMigration, WriteUnlinked, Leave, Fault
<1>2. \E x : Goes(p, x) \/ Fails(p, x) \/ Returns(p, x)
  BY DEF SelectRefused, WriteConfig, UndoDirectory, Register, Resolve, ConfigRefused,
         OpenReadonly, MakeParent, Upgrade, CommitMigration, WriteUnlinked, Leave, Fault
<1>3. QED
  BY <1>1, <1>2, GoesChosen, FailsChosen, ReturnsChosen

LEMMA StepsChoose == ASSUME ProfilesInv, [Next]_vars PROVE ChosenStep
<1>1. Shape /\ \A p \in Processes : ProcessInv(p)
  BY DEF ProfilesInv
<1>2. \A p \in Processes : proc[p].at \in {"mkdir", "select", "publish"} => proc[p].ask # NoName
  BY <1>1, ProfilesAssumption DEF Shape, ProcessInv, All
<1>3. ASSUME NEW p \in Processes, Step(p) PROVE ChosenStep
  <2>1. CASE Index(p) \/ Leave(p)
    BY <1>1, <2>1, IndexChosen, PlainChosen
  <2>2. CASE Chooses(p)
    BY <1>1, <1>2, <2>2, PlainChosen, SelectsChosen, SelectNamedChosen
       DEF Chooses, SelectDefault, Publish
  <2>3. CASE Creates(p)
    BY <1>1, <1>2, <2>3, PlainChosen, MakeDirectoryChosen, UndoChosen DEF Creates, MakeDirectory
  <2>4. CASE Opens(p)
    BY <1>1, <2>4, PlainChosen, OpenReadwriteChosen DEF Opens
  <2>5. CASE Migrates(p)
    BY <1>1, <2>5, PlainChosen, BeginMigrationChosen DEF Migrates
  <2>6. QED
    BY <1>3, <2>1, <2>2, <2>3, <2>4, <2>5 DEF Step
<1>4. ASSUME NEW p \in Processes, Crash(p) PROVE ChosenStep
  <2>1. proc'[p] = Idle /\ \A q \in Processes \ {p} : proc'[q] = proc[q]
    BY <1>1, <1>4 DEF Crash, Becomes, Shape
  <2>2. Chosen(Idle)
    BY DEF Chosen, Idle
  <2>3. QED
    BY <2>1, <2>2 DEF ChosenStep, Watches
<1>5. CASE UNCHANGED proc
  BY <1>5 DEF ChosenStep, Watches
<1>6. ASSUME NEW p \in Processes, Start(p) \/ Insert(p) \/ Fault(p) PROVE ChosenStep
  BY <1>1, <1>5, <1>6, StartChosen, PlainChosen DEF Insert
<1>7. QED
  BY <1>3, <1>4, <1>5, <1>6 DEF Next, EditConfig, vars

\* A command without --profile acts on a profile that was selected while it
\* ran: a selection that leads nowhere is an error, whatever the others do
\* (profile.rs:75).
THEOREM CommandsActOnTheSelected == Spec => []ActsOnTheSelected
<1> DEFINE AllChosen == \A p \in Processes : Chosen(proc[p])
<1>1. Init => AllChosen
  BY DEF Init, Chosen, Idle
<1>2. ProfilesInv /\ AllChosen /\ [Next]_vars => AllChosen'
  BY StepsChoose, ChosenStays
<1>3. AllChosen => ActsOnTheSelected
  BY DEF Chosen, ActsOnTheSelected
<1>4. QED
  BY <1>1, <1>2, <1>3, Invariance, PTL DEF Spec

(***************************************************************************)
(* SessionBranch: everything rests on one fact about the branch: the head  *)
(* is the largest active row (HeadIsLast).  A comparison of heads          *)
(* therefore bounds every active row, which is what a restore and a retry  *)
(* need.                                                                   *)
(***************************************************************************)
-----------------------------------------------------------------------------
(* the head and the counter *)

\* A set of row numbers that has a member has a largest one.
LEMMA LargestExists ==
  ASSUME NEW n \in Nat, NEW S \in SUBSET (1 .. n), S # {}
  PROVE  \E i \in S : \A j \in S : j <= i
<1> DEFINE T == {n - j : j \in S}
<1>1. T \subseteq Nat /\ T # {}
  <2>1. \A j \in S : n - j \in Nat
    OBVIOUS
  <2>2. PICK j \in S : TRUE
    OBVIOUS
  <2>3. n - j \in T
    BY <2>2
  <2> QED  BY <2>1, <2>3
<1>2. PICK x \in T : \A y \in T : ~(<<y, x>> \in OpToRel(<, Nat))
  BY <1>1, WFMin, NatLessThanWellFounded, Zenon
<1>3. \A y \in T : ~(y < x)
  BY <1>1, <1>2 DEF OpToRel
<1>4. PICK i \in S : x = n - i
  BY <1>2
<1>5. \A j \in S : j <= i
  <2> SUFFICES ASSUME NEW j \in S PROVE j <= i
    OBVIOUS
  <2>1. n - j \in T
    OBVIOUS
  <2>2. ~(n - j < n - i)
    BY <2>1, <1>3, <1>4
  <2> QED  BY <2>2
<1> QED  BY <1>5

\* HeadOf is 0 for the empty branch and its largest row otherwise.
LEMMA HeadIsLast ==
  ASSUME NEW n \in Nat, NEW S \in SUBSET (1 .. n)
  PROVE  /\ HeadOf(S) \in Nat
         /\ S = {} => HeadOf(S) = 0
         /\ S # {} => HeadOf(S) \in S
         /\ \A j \in S : j <= HeadOf(S)
<1>1. CASE S = {}
  BY <1>1 DEF HeadOf
<1>2. CASE S # {}
  <2>1. PICK i \in S : \A j \in S : j <= i
    BY <1>2, LargestExists
  <2>2. HeadOf(S) = CHOOSE h \in S : \A j \in S : j <= h
    BY <1>2 DEF HeadOf
  <2>3. HeadOf(S) \in S /\ \A j \in S : j <= HeadOf(S)
    <3> HIDE DEF HeadOf
    <3> QED  BY <2>1, <2>2, Zenon
  <2>4. HeadOf(S) \in 1 .. n
    BY <2>3
  <2>5. HeadOf(S) \in Nat
    BY <2>4
  <2> QED  BY <1>2, <2>3, <2>5
<1> QED  BY <1>1, <1>2

\* Active rows are finitely many.
LEMMA RowsAreFinite ==
  ASSUME NEW n \in Nat, NEW S \in SUBSET (1 .. n)
  PROVE  IsFiniteSet(S) /\ Cardinality(S) \in Nat
<1>1. IsFiniteSet(1 .. n)
  BY FS_Interval
<1> QED  BY <1>1, FS_Subset, FS_CardinalityType

\* New rows have numbers of their own and count one each.
LEMMA NewRowsCount ==
  ASSUME NEW n \in Nat, NEW k \in Nat, NEW S \in SUBSET (1 .. n)
  PROVE  /\ Cardinality(n + 1 .. n + k) = k
         /\ Cardinality(S \union (n + 1 .. n + k)) = Cardinality(S) + k
<1>1. IsFiniteSet(n + 1 .. n + k) /\ Cardinality(n + 1 .. n + k) = k
  BY FS_Interval
<1>2. S \cap (n + 1 .. n + k) = {}
  OBVIOUS
<1>3. Cardinality(S \cap (n + 1 .. n + k)) = 0
  BY <1>2, FS_EmptySet
<1>4. IsFiniteSet(S) /\ Cardinality(S) \in Nat
  BY RowsAreFinite
<1>5. Cardinality(S \union (n + 1 .. n + k))
        = Cardinality(S) + Cardinality(n + 1 .. n + k) - Cardinality(S \cap (n + 1 .. n + k))
  BY <1>1, <1>4, FS_Union
<1> QED  BY <1>1, <1>3, <1>4, <1>5

-----------------------------------------------------------------------------
(* the invariant *)

\* A checkpoint of a rewind starts behind the head it expects, so that a
\* restore that it permits puts its rows behind the whole active branch.
TicketsStartBehindTheirHead == \A ticket \in rewinds : ticket.head < ticket.target

BranchInv == BranchTypeOK /\ CountIsActive /\ TicketsStartBehindTheirHead

\* Row lists are sequences of roles.
LEMMA BatchesAreRoles ==
  \A batch \in RowLists : batch \in Seq(Roles) /\ Len(batch) \in Nat
<1> SUFFICES ASSUME NEW batch \in RowLists
             PROVE  batch \in Seq(Roles) /\ Len(batch) \in Nat
  OBVIOUS
<1>1. CASE batch = <<>>
  BY <1>1
<1>2. ASSUME NEW r \in Roles, batch = <<r>>
      PROVE  batch \in Seq(Roles) /\ Len(batch) \in Nat
  BY <1>2
<1>3. ASSUME NEW q \in Roles, NEW r \in Roles, batch = <<q, r>>
      PROVE  batch \in Seq(Roles) /\ Len(batch) \in Nat
  BY <1>3
<1> QED  BY <1>1, <1>2, <1>3 DEF RowLists

LEMMA InitBranchInv == ASSUME BranchInit PROVE BranchInv
BY BranchAssumption, FS_EmptySet
   DEF BranchInit, BranchInv, BranchTypeOK, CountIsActive,
       TicketsStartBehindTheirHead, Rows, Roles

\* Any transaction that appends rows and activates them keeps the types.
LEMMA Grows ==
  ASSUME BranchTypeOK, NEW batch \in Seq(Roles), HasRoom(batch),
         role' = role \o batch, active' \subseteq active \union NewRows(batch)
  PROVE  /\ role' \in Seq(Roles) /\ Len(role') = Len(role) + Len(batch)
         /\ Len(role') <= MaxMessages
         /\ Rows \subseteq Rows' /\ active' \in SUBSET Rows'
<1>1. role' \in Seq(Roles) /\ Len(role') = Len(role) + Len(batch)
  BY DEF BranchTypeOK
<1>2. Len(role) \in Nat /\ Len(batch) \in Nat /\ active \subseteq Rows
  BY DEF BranchTypeOK
<1>3. Len(role') <= MaxMessages
  BY <1>1 DEF HasRoom
<1>4. Rows \subseteq Rows' /\ NewRows(batch) \subseteq Rows'
  BY <1>1, <1>2 DEF Rows, NewRows
<1> QED  BY <1>1, <1>2, <1>3, <1>4

LEMMA NextBranchInv ==
  ASSUME BranchInv, [BranchNext]_branchVars
  PROVE  BranchInv'
<1> USE DEF BranchInv
<1>0. /\ Len(role) \in Nat /\ active \in SUBSET (1 .. Len(role))
      /\ messageCount = Cardinality(active) /\ role \in Seq(Roles)
  BY DEF BranchTypeOK, CountIsActive, Rows
<1>1. ASSUME NEW batch \in RowLists, AppendMessages(batch)
      PROVE  BranchInv'
  <2>1. batch \in Seq(Roles) /\ Len(batch) \in Nat
    BY BatchesAreRoles
  <2>2. BranchTypeOK'
    <3>1. /\ HasRoom(batch) /\ role' = role \o batch
          /\ active' = active \union NewRows(batch)
          /\ messageCount' = messageCount + Len(batch)
          /\ UNCHANGED <<compacted, rewinds, retries>>
      BY <1>1 DEF AppendMessages
    <3>2. /\ role' \in Seq(Roles) /\ Len(role') <= MaxMessages
          /\ Rows \subseteq Rows' /\ active' \in SUBSET Rows'
      BY <2>1, <3>1, Grows
    <3>3. messageCount' \in Nat
      BY <2>1, <3>1 DEF BranchTypeOK
    <3> QED  BY <3>1, <3>2, <3>3 DEF BranchTypeOK
  <2>3. CountIsActive'
    <3>1. Cardinality(active \union NewRows(batch)) = Cardinality(active) + Len(batch)
      BY <1>0, <2>1, NewRowsCount DEF NewRows
    <3> QED  BY <1>0, <1>1, <3>1 DEF AppendMessages, CountIsActive
  <2>4. TicketsStartBehindTheirHead'
    BY <1>1 DEF AppendMessages, TicketsStartBehindTheirHead
  <2> QED  BY <2>2, <2>3, <2>4
<1>2. ASSUME NEW m \in Rows, RewindToMessage(m)
      PROVE  BranchInv'
  <2>1. active' \in SUBSET (1 .. Len(role)) /\ m \in Nat \ {0}
    <3>1. active' = {i \in active : i < m}
      BY <1>2 DEF RewindToMessage
    <3>2. m \in Nat \ {0}
      BY <1>0 DEF Rows
    <3> QED  BY <1>0, <3>1, <3>2
  <2>2. HeadOf(active') \in Nat /\ (active' # {} => HeadOf(active') \in active')
          /\ (active' = {} => HeadOf(active') = 0)
    BY <1>0, <2>1, HeadIsLast
  <2>3. HeadOf(active') < m
    BY <2>1, <2>2, <1>2 DEF RewindToMessage
  <2>4. TicketFor(m) \in RewindCheckpoints /\ TicketFor(m).head < TicketFor(m).target
    BY <2>1, <2>2, <2>3 DEF TicketFor, RewindCheckpoints
  <2>5. Cardinality(active') \in Nat
    BY <1>0, <2>1, RowsAreFinite
  <2>6. BranchTypeOK'
    BY <1>0, <1>2, <2>1, <2>4, <2>5 DEF RewindToMessage, Recount, BranchTypeOK, Rows
  <2>7. CountIsActive' /\ TicketsStartBehindTheirHead'
    BY <1>2, <2>4 DEF RewindToMessage, Recount, CountIsActive, TicketsStartBehindTheirHead
  <2> QED  BY <2>6, <2>7
<1>3. ASSUME NEW m \in Nat \ {0}, Revive(m)
      PROVE  BranchInv'
  <2>1. active' \in SUBSET (1 .. Len(role))
    <3>1. active' = active \union m .. Len(role)
      BY <1>3 DEF Revive
    <3>2. m .. Len(role) \subseteq 1 .. Len(role)
      BY <1>0
    <3> QED  BY <1>0, <3>1, <3>2
  <2>2. Cardinality(active') \in Nat
    BY <1>0, <2>1, RowsAreFinite
  <2> QED
    BY <1>0, <1>3, <2>1, <2>2
       DEF Revive, Recount, BranchTypeOK, CountIsActive, TicketsStartBehindTheirHead, Rows
<1>4. ASSUME NEW ticket \in rewinds, RestoreRewound(ticket)
      PROVE  BranchInv'
  <2>1. ticket.target \in Nat \ {0}
    BY DEF BranchTypeOK, RewindCheckpoints
  <2> QED  BY <1>3, <1>4, <2>1 DEF RestoreRewound
<1>5. ASSUME NEW m \in Rows, RestoreRewoundFrom(m)
      PROVE  BranchInv'
  BY <1>0, <1>3, <1>5 DEF RestoreRewoundFrom, Rows
<1>6. ASSUME NEW batch \in RowLists, ReplaceActiveMessages(batch) \/ ArchiveAndCompact(batch)
      PROVE  BranchInv'
  <2>1. batch \in Seq(Roles) /\ Len(batch) \in Nat
    BY BatchesAreRoles
  <2>2. /\ HasRoom(batch) /\ role' = role \o batch /\ active' = NewRows(batch)
        /\ messageCount' = Len(batch) /\ UNCHANGED <<rewinds, retries>>
        /\ compacted' \subseteq compacted \union active
    BY <1>6 DEF ReplaceActiveMessages, ArchiveAndCompact, Unarchive
  <2>3. BranchTypeOK'
    BY <1>0, <2>1, <2>2, Grows DEF BranchTypeOK
  <2>4. CountIsActive'
    <3>1. Cardinality(NewRows(batch)) = Len(batch)
      BY <1>0, <2>1, NewRowsCount DEF NewRows
    <3> QED  BY <2>2, <3>1 DEF CountIsActive
  <2>5. TicketsStartBehindTheirHead'
    BY <2>2 DEF TicketsStartBehindTheirHead
  <2> QED  BY <2>3, <2>4, <2>5
<1>7. ASSUME NEW m \in Rows, PrepareRetry(m)
      PROVE  BranchInv'
  BY <1>7 DEF PrepareRetry, BranchTypeOK, CountIsActive, TicketsStartBehindTheirHead, Rows
<1>8. ASSUME NEW m \in retries, ApplyRetry(m)
      PROVE  BranchInv'
  <2> DEFINE answer == <<"assistant">>
  <2>1. answer \in Seq(Roles) /\ Len(answer) = 1 /\ role' = role \o answer
    BY <1>0, <1>8 DEF ApplyRetry, Roles
  <2>2. HasRoom(answer) /\ active' \subseteq active \union NewRows(answer)
    BY <1>0, <1>8, <2>1 DEF ApplyRetry, NewRows
  <2>3. /\ role' \in Seq(Roles) /\ Len(role') = Len(role) + 1 /\ Len(role') <= MaxMessages
        /\ Rows \subseteq Rows' /\ active' \in SUBSET Rows'
    <3> HIDE DEF answer
    <3> QED  BY <2>1, <2>2, Grows
  <2>4. Cardinality(active') \in Nat
    <3>1. Len(role') \in Nat /\ active' \in SUBSET (1 .. Len(role'))
      BY <1>0, <2>3 DEF Rows
    <3> QED  BY <3>1, RowsAreFinite
  <2>5. BranchTypeOK'
    BY <1>8, <2>3, <2>4 DEF ApplyRetry, Unarchive, Recount, BranchTypeOK
  <2>6. CountIsActive' /\ TicketsStartBehindTheirHead'
    BY <1>8 DEF ApplyRetry, Recount, CountIsActive, TicketsStartBehindTheirHead
  <2> QED  BY <2>5, <2>6
<1>9. ASSUME UNCHANGED branchVars
      PROVE  BranchInv'
  BY <1>9 DEF branchVars, BranchTypeOK, CountIsActive, TicketsStartBehindTheirHead, Rows
<1> QED
  BY <1>1, <1>2, <1>4, <1>5, <1>6, <1>7, <1>8, <1>9
     DEF BranchNext, Appends, Rewinds, Restores, Rewrites, Retries

\* The types, the counter and the checkpoints together are inductive.
THEOREM BranchInvariant == BranchSpec => []BranchInv
<1>1. BranchInit => BranchInv
  BY InitBranchInv
<1>2. BranchInv /\ [BranchNext]_branchVars => BranchInv'
  BY NextBranchInv
<1> QED  BY <1>1, <1>2, PTL DEF BranchSpec

\* message_count is the number of active rows whatever transactions were
\* carried out, in any order.
THEOREM CounterIsRight == BranchSpec => []CountIsActive
BY BranchInvariant, PTL DEF BranchInv

-----------------------------------------------------------------------------
(* the branch changes only at its end *)

\* What a step may do to old rows: those that come back lie behind all that
\* were active, and no row behind one that goes stays.
ReturnsBehind == \A i \in active' \ active : \A j \in active : j < i
LeavesTail == \A i \in active \ active' : \A j \in active' : j \in active => j < i

LEMMA RestoredRowsAreBehind ==
  ASSUME BranchInv, NEW m \in Nat, HeadOf(active) < m, Revive(m)
  PROVE  ReturnsBehind /\ LeavesTail
<1>1. Len(role) \in Nat /\ active \in SUBSET (1 .. Len(role))
  BY DEF BranchInv, BranchTypeOK, Rows
<1>2. HeadOf(active) \in Nat /\ \A j \in active : j <= HeadOf(active)
  BY <1>1, HeadIsLast
<1>3. active' = active \union m .. Len(role)
  BY DEF Revive
<1>4. \A j \in active : j \in Nat /\ j < m
  BY <1>1, <1>2
<1>5. \A i \in active' \ active : i \in Nat /\ m <= i
  BY <1>1, <1>3
<1>6. ReturnsBehind
  BY <1>4, <1>5 DEF ReturnsBehind
<1>7. LeavesTail
  BY <1>3 DEF LeavesTail
<1> QED  BY <1>6, <1>7

LEMMA BranchChangesAtItsEnd ==
  ASSUME BranchInv, [BranchNext]_branchVars
  PROVE  ReturnsBehind /\ LeavesTail
<1>0. Len(role) \in Nat /\ active \in SUBSET (1 .. Len(role))
  BY DEF BranchInv, BranchTypeOK, Rows
<1>1. ASSUME NEW batch \in RowLists, NewRows(batch) \subseteq active',
             active' \subseteq active \union NewRows(batch),
             active \subseteq active' \/ active' = NewRows(batch)
      PROVE  ReturnsBehind /\ LeavesTail
  <2>1. Len(batch) \in Nat
    BY BatchesAreRoles
  <2>2. \A i \in NewRows(batch) : i \in Nat /\ Len(role) < i
    BY <1>0, <2>1 DEF NewRows
  <2>3. ReturnsBehind
    BY <1>0, <1>1, <2>2 DEF ReturnsBehind
  <2>4. LeavesTail
    BY <1>0, <1>1, <2>2 DEF LeavesTail
  <2> QED  BY <2>3, <2>4
<1>2. ASSUME NEW batch \in RowLists, AppendMessages(batch)
      PROVE  ReturnsBehind /\ LeavesTail
  BY <1>1, <1>2 DEF AppendMessages
<1>3. ASSUME NEW batch \in RowLists, ReplaceActiveMessages(batch) \/ ArchiveAndCompact(batch)
      PROVE  ReturnsBehind /\ LeavesTail
  BY <1>1, <1>3 DEF ReplaceActiveMessages, ArchiveAndCompact
<1>4. ASSUME NEW m \in Rows, RewindToMessage(m)
      PROVE  ReturnsBehind /\ LeavesTail
  <2>1. active' = {i \in active : i < m} /\ m \in Nat
    BY <1>0, <1>4 DEF RewindToMessage, Rows
  <2> QED  BY <1>0, <2>1 DEF ReturnsBehind, LeavesTail
<1>5. ASSUME NEW ticket \in rewinds, RestoreRewound(ticket)
      PROVE  ReturnsBehind /\ LeavesTail
  <2>1. ticket.target \in Nat /\ ticket.head < ticket.target
    BY DEF BranchInv, BranchTypeOK, RewindCheckpoints, TicketsStartBehindTheirHead
  <2> QED  BY <1>5, <2>1, RestoredRowsAreBehind DEF RestoreRewound
<1>6. ASSUME NEW m \in Rows, RestoreRewoundFrom(m)
      PROVE  ReturnsBehind /\ LeavesTail
  BY <1>0, <1>6, RestoredRowsAreBehind DEF RestoreRewoundFrom, Rows
<1>7. ASSUME NEW m \in retries, ApplyRetry(m)
      PROVE  ReturnsBehind /\ LeavesTail
  <2>1. m \in active /\ \A j \in active : j <= m
    BY <1>0, <1>7, HeadIsLast DEF ApplyRetry, StillLatest
  <2>2. active' = (active \ {m}) \union {Len(role) + 1}
    BY <1>7 DEF ApplyRetry
  <2> QED  BY <1>0, <2>1, <2>2 DEF ReturnsBehind, LeavesTail
<1>8. ASSUME UNCHANGED active
      PROVE  ReturnsBehind /\ LeavesTail
  BY <1>8 DEF ReturnsBehind, LeavesTail
<1> QED
  BY <1>2, <1>3, <1>4, <1>5, <1>6, <1>7, <1>8
     DEF BranchNext, Appends, Rewinds, Restores, Rewrites, Retries, PrepareRetry, branchVars

\* Neither a restore with an old checkpoint nor any other transaction brings a
\* row back below a row that is active.
THEOREM NewInputStaysLast == BranchSpec => NewInputIsNeverMerged
<1>1. BranchInv /\ [BranchNext]_branchVars
        => [\A i \in active' \ active : \A j \in active : j < i]_branchVars
  BY BranchChangesAtItsEnd DEF ReturnsBehind
<1> QED
  BY <1>1, BranchInvariant, PTL DEF BranchSpec, NewInputIsNeverMerged

\* No transaction takes a row out of the branch and keeps a later one, a
\* retry that was prepared before that one was written included.
THEOREM BranchLosesItsTail == BranchSpec => LosesOnlyItsTail
<1>1. BranchInv /\ [BranchNext]_branchVars
        => [\A i \in active \ active' : \A j \in active' : j \in active => j < i]_branchVars
  BY BranchChangesAtItsEnd DEF LeavesTail
<1> QED
  BY <1>1, BranchInvariant, PTL DEF BranchSpec, LosesOnlyItsTail

=============================================================================
