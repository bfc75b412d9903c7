------------------------------- MODULE Startup -------------------------------
(***************************************************************************)
(* The start of the two server processes (IPv4 and IPv6) over one          *)
(* database: backend/db.py creates the tables and adds the columns of      *)
(* later versions while it is imported, main.py refuses unsafe settings    *)
(* (security.py, config.py), and systemd, the container or start.sh        *)
(* watches both processes.                                                 *)
(*                                                                         *)
(* SQLite commits every CREATE and ALTER by itself, so the steps of two    *)
(* starts interleave statement by statement, and a crash leaves whatever   *)
(* was done.  A table's indexes, the unique one on a device's address among *)
(* them, are statements of their own, which follow the table's; here they  *)
(* are one step.                                                           *)
(***************************************************************************)
EXTENDS Integers, Sequences

CONSTANTS
    Procs,        \* the server processes
    Tables,       \* the tables of the schema besides devices
    Alters,       \* sequence: the columns run_migrations adds to devices
    Environments, \* the settings to start with
    MaxCrashes,   \* bound: processes killed
    MaxFaults     \* bound: statements that wait too long for the lock

VARIABLES
    tables,       \* tables that exist
    unindexed,    \* those that lack some of their indexes
    columns,      \* added columns devices has
    blank,        \* a row has '' for its MAC
    settings,     \* the environment of both processes
    supervisor,   \* who watches them
    pc,           \* stage of each process
    missing,      \* tables create_all found missing and has not made yet
    making,       \* the table it makes the indexes of
    next,         \* index of the column run_migrations looks at
    crashes, faults,
    \* history
    died,         \* <<what was there already, "alone" or "together">>: a process died
                  \* of it, and no other start, or another one, was at work
    overlapped,   \* processes whose schema work met another's
    cut           \* tables whose maker ended before it had made their indexes

schema == <<tables, unindexed, columns, blank>>
world == <<settings, supervisor>>
progress == <<missing, making, next>>
history == <<died, overlapped, cut>>
vars == <<schema, world, pc, progress, crashes, faults, history>>

Columns == {Alters[i] : i \in 1..Len(Alters)}
AllTables == Tables \cup {"devices"}

\* What the environment can say of the four settings that stop a start.
Settings == [BMUIPASS : {"unset", "empty", "admin", "strong"}, insecure : BOOLEAN,
             wildcard : BOOLEAN, bareNone : BOOLEAN]

ASSUME StartupConstants ==
    /\ Alters \in Seq(STRING)
    /\ Environments \subseteq Settings /\ MaxCrashes \in Nat /\ MaxFaults \in Nat

\* A fresh database, or one of an earlier version, which had fewer tables and
\* the first few of the added columns.
Init ==
    /\ \/ tables = {} /\ columns = {} /\ blank = FALSE
       \/ /\ tables \in {{"devices"}, AllTables}
          /\ columns \in {{Alters[i] : i \in 1..n} : n \in 0..Len(Alters)}
          /\ blank \in BOOLEAN
    /\ settings \in Environments
    /\ supervisor \in {"systemd", "container", "script"}
    /\ pc = [p \in Procs |-> "down"]
    /\ unindexed = {}
    /\ missing = [p \in Procs |-> {}] /\ making = [p \in Procs |-> "devices"]
    /\ next = [p \in Procs |-> 1]
    /\ crashes = 0 /\ faults = 0
    /\ died = {} /\ overlapped = {} /\ cut = {}

Goto(p, stage) == pc' = [pc EXCEPT ![p] = stage]

\* An exception at import or in the lifespan ends the process.
Die(p) == Goto(p, "dead")
DieOfSchema(p, cause) ==
    /\ Die(p)
    /\ died' = died \cup {<<cause, IF p \in overlapped THEN "together" ELSE "alone">>}

-----------------------------------------------------------------------------
\* backend/db.py.
SchemaStages == {"inspect", "create", "index", "look", "alter", "normalise"}
Migrating == {p \in Procs : pc[p] \in SchemaStages}

Boot(p) ==
    /\ pc[p] = "down"
    /\ Goto(p, "inspect")
    /\ missing' = [missing EXCEPT ![p] = {}] /\ next' = [next EXCEPT ![p] = 1]
    /\ overlapped' = IF Migrating = {} THEN overlapped \ {p} ELSE overlapped \cup Migrating \cup {p}
    /\ UNCHANGED <<schema, world, making, crashes, faults, died, cut>>

\* create_all asks first which tables exist ...
Inspect(p) ==
    /\ pc[p] = "inspect"
    /\ Goto(p, "create")
    /\ missing' = [missing EXCEPT ![p] = AllTables \ tables]
    /\ UNCHANGED <<schema, world, making, next, crashes, faults, history>>

\* ... and creates the others; one that exists by now is an error.
Create(p) ==
    /\ pc[p] = "create"
    /\ IF missing[p] = {}
       THEN Goto(p, "look") /\ UNCHANGED <<schema, missing, making, died>>
       ELSE \E t \in missing[p] :
              \/ /\ t \in tables
                 /\ DieOfSchema(p, "table")
                 /\ UNCHANGED <<schema, missing, making>>
              \/ /\ t \notin tables
                 /\ tables' = tables \cup {t} /\ unindexed' = unindexed \cup {t}
                 /\ columns' = IF t = "devices" THEN Columns ELSE columns
                 /\ missing' = [missing EXCEPT ![p] = @ \ {t}]
                 /\ making' = [making EXCEPT ![p] = t]
                 /\ Goto(p, "index")
                 /\ UNCHANGED <<blank, died>>
    /\ UNCHANGED <<world, next, crashes, faults, overlapped, cut>>

\* Only the maker of a table makes its indexes: create_all skips a table that exists.
Index(p) ==
    /\ pc[p] = "index"
    /\ unindexed' = unindexed \ {making[p]}
    /\ Goto(p, "create")
    /\ UNCHANGED <<tables, columns, blank, world, progress, crashes, faults, history>>

Indexing(p) == IF pc[p] = "index" THEN {making[p]} ELSE {}

\* Mutant: the first column alone says whether the table was migrated.
MissesFirst(p) == Alters[1] \notin columns

\* Mutant: the columns are added without a look.
MissesAlways(p) == TRUE

Misses(p) == Alters[next[p]] \notin columns

\* run_migrations looks at one column at a time ...
Look(p) ==
    /\ pc[p] = "look"
    /\ IF next[p] > Len(Alters) THEN Goto(p, "normalise") /\ UNCHANGED next
       ELSE IF Misses(p) THEN Goto(p, "alter") /\ UNCHANGED next
       ELSE UNCHANGED pc /\ next' = [next EXCEPT ![p] = @ + 1]
    /\ UNCHANGED <<schema, world, missing, making, crashes, faults, history>>

\* ... and adds it; one that exists by now is an error.
Alter(p) ==
    /\ pc[p] = "alter"
    /\ LET column == Alters[next[p]] IN
       IF column \in columns
       THEN DieOfSchema(p, "column") /\ UNCHANGED <<columns, next>>
       ELSE /\ columns' = columns \cup {column}
            /\ next' = [next EXCEPT ![p] = @ + 1]
            /\ Goto(p, "look") /\ UNCHANGED died
    /\ UNCHANGED <<tables, unindexed, blank, world, missing, making, crashes, faults, overlapped, cut>>

\* The MACs '' become NULL, in a transaction of its own.
Normalise(p) ==
    /\ pc[p] = "normalise"
    /\ Goto(p, "configure") /\ blank' = FALSE
    /\ UNCHANGED <<tables, unindexed, columns, world, progress, crashes, faults, history>>

\* A statement that writes waits longer for the lock than busy_timeout allows.
Locked(p) ==
    /\ pc[p] \in {"create", "index", "alter", "normalise"}
    /\ pc[p] = "create" => missing[p] # {}
    /\ faults < MaxFaults /\ faults' = faults + 1
    /\ Die(p)
    /\ cut' = cut \cup Indexing(p)
    /\ UNCHANGED <<schema, world, progress, crashes, died, overlapped>>

-----------------------------------------------------------------------------
\* backend/config.py, security.py and main.py.

\* The default of the password is "admin".
UIPASS == IF settings.BMUIPASS = "unset" THEN "admin" ELSE settings.BMUIPASS

\* validate_startup_security; "admin" is only warned about.
Unsafe == (UIPASS = "empty" /\ ~settings.insecure) \/ settings.bareNone

Refused == settings.wildcard \/ Unsafe

\* A wildcard origin is refused at import, the rest when the server starts.
Configure(p) ==
    /\ pc[p] = "configure"
    /\ IF settings.wildcard THEN Die(p) ELSE Goto(p, "lifespan")
    /\ UNCHANGED <<schema, world, progress, crashes, faults, history>>

Lifespan(p) ==
    /\ pc[p] = "lifespan"
    /\ IF Unsafe THEN Die(p) ELSE Goto(p, "serving")
    /\ UNCHANGED <<schema, world, progress, crashes, faults, history>>

Start(p) ==
    \/ Boot(p) \/ Inspect(p) \/ Create(p) \/ Index(p) \/ Look(p) \/ Alter(p) \/ Normalise(p)
    \/ Configure(p) \/ Lifespan(p)

-----------------------------------------------------------------------------
\* The supervisors.
Crash(p) ==
    /\ pc[p] \notin {"down", "dead", "stopped"}
    /\ crashes < MaxCrashes /\ crashes' = crashes + 1
    /\ Die(p)
    /\ cut' = cut \cup Indexing(p)
    /\ UNCHANGED <<schema, world, progress, faults, died, overlapped>>

\* systemd restarts each process by itself.
Restart(p) ==
    /\ supervisor = "systemd" /\ pc[p] = "dead"
    /\ Goto(p, "down")
    /\ UNCHANGED <<schema, world, progress, crashes, faults, history>>

\* start.sh and the container's entry point stop both when one has ended ...
StopBoth ==
    /\ supervisor # "systemd" /\ \E p \in Procs : pc[p] = "dead"
    /\ pc' = [p \in Procs |-> "stopped"]
    /\ cut' = cut \cup UNION {Indexing(p) : p \in Procs}
    /\ UNCHANGED <<schema, world, progress, crashes, faults, died, overlapped>>

\* ... and the container is started again.
StartBoth ==
    /\ supervisor = "container" /\ \A p \in Procs : pc[p] = "stopped"
    /\ pc' = [p \in Procs |-> "down"]
    /\ UNCHANGED <<schema, world, progress, crashes, faults, history>>

Next ==
    \/ \E p \in Procs : Start(p) \/ Locked(p) \/ Crash(p) \/ Restart(p)
    \/ StopBoth \/ StartBoth

Spec == Init /\ [][Next]_vars

\* A process that was started goes on, and the supervisors do their work.
FairSpec ==
    /\ Spec
    /\ \A p \in Procs : WF_vars(Start(p)) /\ WF_vars(Restart(p))
    /\ WF_vars(StopBoth) /\ WF_vars(StartBoth)

-----------------------------------------------------------------------------
\* Types; only a devices table has columns.
TypeOK ==
    /\ tables \subseteq AllTables /\ unindexed \subseteq tables /\ columns \subseteq Columns /\ blank \in BOOLEAN
    /\ columns # {} => "devices" \in tables
    /\ settings \in Settings /\ supervisor \in {"systemd", "container", "script"}
    /\ pc \in [Procs -> SchemaStages \cup {"down", "configure", "lifespan", "serving", "dead", "stopped"}]
    /\ missing \in [Procs -> SUBSET AllTables] /\ making \in [Procs -> AllTables]
    /\ next \in [Procs -> 1..Len(Alters) + 1]
    /\ crashes \in Nat /\ faults \in Nat
    /\ died \subseteq {"table", "column"} \X {"together", "alone"}
    /\ overlapped \subseteq Procs /\ cut \subseteq AllTables

\* A process serves over all tables and columns, however the two starts interleaved
\* and wherever an earlier one was killed.  An index can be missing: another start is
\* about to make it, or ended before it did, and then nothing makes it any more.
ServingSchemaComplete ==
    (\E p \in Procs : pc[p] = "serving") =>
        /\ tables = AllTables /\ columns = Columns /\ ~blank
        /\ unindexed \subseteq cut \cup UNION {Indexing(p) : p \in Procs}

\* The schema stops a start only when another start worked on it meanwhile: what
\* a killed start left is no obstacle.
LoneStartsSucceed ==
    \A d \in died : d[2] # "alone"

\* With settings that are not refused and a supervisor that restarts what died,
\* both processes serve in the end.
BothServe ==
    (~Refused /\ supervisor # "script") => <>[](\A p \in Procs : pc[p] = "serving")

\* db.py:119: the migrations can be run again; nothing dies of a column that is
\* there already.
MigrationsAreIdempotent == \A d \in died : d[1] # "column"

\* db.py:72, "unique=True, index=True": a process serves over a table of devices that
\* holds an address once.
AddressesAreUnique ==
    (\E p \in Procs : pc[p] = "serving") => "devices" \notin unindexed

\* config.py:28-30: the server starts only with a password that is not the
\* default, or when the operator insists.
DefaultPasswordIsRefused ==
    (\E p \in Procs : pc[p] = "serving") => settings.insecure \/ UIPASS \notin {"empty", "admin"}
=============================================================================
