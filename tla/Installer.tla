------------------------------ MODULE Installer ------------------------------
(****************************************************************************)
(* Starting the container: scripts/startup.sh and setup() of app/install.py *)
(* over what outlives an interrupted start.  The volume keeps the database  *)
(* and the generated files; the users of IRIS and /tmp live as long as the  *)
(* container.  DDL and the INSERTs of _migrate and _import_contract commit  *)
(* one by one, so every statement is a step.                                *)
(****************************************************************************)
EXTENDS Naturals, Sequences

CONSTANTS
    Release,     \* the images that may be deployed
    Text,        \* Text[r]: migrations of r, in the order of their names
    Contract,    \* Contract[r]: hash of its pinned contract and the stable keys
                 \* of its operations
    NoText,      \* of a version the ledger does not list
    Absent,      \* a file or user that does not exist
    Cut,         \* a file that was opened and never written
    MaxBreaks    \* bound on interruptions

Statement == [kind : {"table", "index"}, name : STRING, shape : STRING]
Version == UNION {DOMAIN Text[r] : r \in Release}
Texts == UNION {{Text[r][v] : v \in DOMAIN Text[r]} : r \in Release}

ASSUME TextAssumption ==
    /\ \A r \in Release : Text[r] \in Seq(Seq(Statement))
    /\ NoText \notin Texts
ASSUME ContractAssumption == \A r \in Release : {"hash", "keys"} \subseteq DOMAIN Contract[r]
ASSUME FileAssumption == Absent \notin Nat /\ Cut \notin Nat /\ Absent # Cut
ASSUME BreaksAssumption == MaxBreaks \in Nat

File == {"csrf", "worker", "sysadmin"}
Credential == {"worker", "sysadmin"}

VARIABLES
    release,     \* the image of the container
    ledger,      \* AI_SCHEMA_MIGRATION: the text each checksum stands for
    schema,      \* the statements that were executed
    file,        \* the generated files: a secret, Absent or Cut
    tools,       \* rows of AI_TOOL: stable keys
    versions,    \* rows of AI_TOOL_VERSION: stable keys, each with a contract hash
    seeded,      \* the marker of the reviewed defaults
    user,        \* passwords of the users of IRIS
    ready,       \* /tmp/agentic-ready exists
    beat,        \* /tmp/agentic-worker-heartbeat exists
    pc,          \* where startup.sh and setup are
    k,           \* statements done of the migration at hand
    secret,      \* the password in memory
    issued,      \* secrets generated so far
    worker,      \* the worker below the supervisor
    probed,      \* it has queried the database since the container started
    breaks       \* interruptions so far

catalog == <<tools, versions, seeded>>
tmp == <<ready, beat>>
secrets == <<file, user, secret, issued>>
migration == <<ledger, schema, k>>
process == <<worker, probed>>
vars == <<release, catalog, tmp, secrets, migration, process, pc, breaks>>

NamesIn(statements) == {s.name : s \in statements}
StatementsOf(text) == {text[i] : i \in DOMAIN text}
Exists(name) == name \in NamesIn(schema)

(* A new volume; or one whose foundation release wrote a long password.     *)
Init ==
    /\ release \in Release
    /\ \E earlier \in BOOLEAN :
           LET old == IF earlier THEN Text[release] ELSE << >>
           IN /\ ledger = [v \in Version |-> IF v = 1 /\ 1 \in DOMAIN old THEN old[1] ELSE NoText]
              /\ schema = IF 1 \in DOMAIN old THEN StatementsOf(old[1]) ELSE {}
              /\ file = [f \in File |-> IF earlier /\ f # "sysadmin" THEN 0 ELSE Absent]
              /\ user \in {[c \in Credential |-> Absent],
                           [c \in Credential |-> file[c]]}
    /\ tools = {} /\ versions = {} /\ seeded = FALSE
    /\ ready = FALSE /\ beat = FALSE
    /\ pc = "down" /\ k = 0 /\ secret = 0 /\ issued = 0
    /\ worker = "none" /\ probed = FALSE /\ breaks = 0

-----------------------------------------------------------------------------
(* startup.sh                                                               *)

Boot ==
    /\ pc = "down"
    /\ pc' = "clear"
    /\ UNCHANGED <<release, catalog, tmp, secrets, migration, process, breaks>>

(* Mutant: an old heartbeat is left in place.                               *)
ClearReady ==
    /\ pc = "clear"
    /\ ready' = FALSE
    /\ pc' = "csrf"
    /\ UNCHANGED <<release, catalog, beat, secrets, migration, process, breaks>>

Clear ==
    /\ pc = "clear"
    /\ ready' = FALSE /\ beat' = FALSE
    /\ pc' = "csrf"
    /\ UNCHANGED <<release, catalog, secrets, migration, process, breaks>>

Supervise ==
    /\ pc = "supervise"
    /\ worker' = "spawning"
    /\ pc' = "wait"
    /\ UNCHANGED <<release, catalog, tmp, secrets, migration, probed, breaks>>

BecomeReady ==
    /\ pc = "wait" /\ beat
    /\ ready' = TRUE
    /\ pc' = "ready"
    /\ UNCHANGED <<release, catalog, beat, secrets, migration, process, breaks>>

(* Twenty attempts without a heartbeat.                                     *)
GiveUp ==
    /\ pc = "wait" /\ breaks < MaxBreaks
    /\ pc' = "failed"
    /\ breaks' = breaks + 1
    /\ UNCHANGED <<release, catalog, tmp, secrets, migration, process>>

-----------------------------------------------------------------------------
(* setup: an exception ends it, and grep misses AGENTIC_INSTALL_OK.         *)

Raise ==
    /\ pc' = "failed"
    /\ UNCHANGED <<release, catalog, tmp, secrets, migration, process, breaks>>

(* os.open with O_CREAT | O_EXCL, if the file does not exist.               *)
Open(f, here, opened, next) ==
    /\ pc = here
    /\ IF file[f] = Absent
       THEN /\ file' = [file EXCEPT ![f] = Cut]
            /\ issued' = issued + 1
            /\ secret' = issued'
            /\ pc' = opened
       ELSE pc' = next /\ UNCHANGED <<file, issued, secret>>
    /\ UNCHANGED <<release, catalog, tmp, user, migration, process, breaks>>

Written(f, here, next) ==
    /\ pc = here
    /\ file' = [file EXCEPT ![f] = secret]
    /\ pc' = next
    /\ UNCHANGED <<release, catalog, tmp, user, secret, issued, migration, process, breaks>>

Csrf ==
    \/ Open("csrf", "csrf", "csrf_opened", "migrate")
    \/ Written("csrf", "csrf_opened", "migrate")

Recorded(v) == ledger[v] = Text[release][v]

(* The loop of _migrate has reached v.                                      *)
Reached(v) ==
    /\ pc = "migrate"
    /\ v \in DOMAIN Text[release]
    /\ \A w \in DOMAIN Text[release] : w < v => Recorded(w)

ChecksumChanged(v) ==
    /\ Reached(v)
    /\ ledger[v] # NoText /\ ~Recorded(v)
    /\ Raise

NextIs(v, s) ==
    /\ Reached(v) /\ ledger[v] = NoText
    /\ k < Len(Text[release][v])
    /\ s = Text[release][v][k + 1]

(* Mutant: a table that exists is created again, which fails.               *)
ApplyBlind(v) ==
    \E s \in StatementsOf(Text[release][v]) :
        /\ NextIs(v, s)
        /\ ~Exists(s.name)
        /\ schema' = schema \cup {s}
        /\ k' = k + 1
        /\ UNCHANGED <<release, catalog, tmp, secrets, ledger, process, pc, breaks>>

(* A table is created unless one of its name exists.                        *)
Apply(v) ==
    \E s \in StatementsOf(Text[release][v]) :
        /\ NextIs(v, s)
        /\ \/ ~Exists(s.name) /\ schema' = schema \cup {s}
           \/ Exists(s.name) /\ s.kind = "table" /\ UNCHANGED schema
        /\ k' = k + 1
        /\ UNCHANGED <<release, catalog, tmp, secrets, ledger, process, pc, breaks>>

(* IRIS refuses a second index of a name.                                   *)
IndexExists(v) ==
    \E s \in StatementsOf(Text[release][v]) :
        NextIs(v, s) /\ Exists(s.name) /\ s.kind = "index" /\ Raise

(* Mutant: the version is recorded before it is applied.                    *)
RecordEarly(v) ==
    /\ Reached(v) /\ ledger[v] = NoText
    /\ ledger' = [ledger EXCEPT ![v] = Text[release][v]]
    /\ k' = 0
    /\ UNCHANGED <<release, catalog, tmp, secrets, schema, process, pc, breaks>>

Record(v) ==
    /\ Reached(v) /\ ledger[v] = NoText
    /\ k = Len(Text[release][v])
    /\ ledger' = [ledger EXCEPT ![v] = Text[release][v]]
    /\ k' = 0
    /\ UNCHANGED <<release, catalog, tmp, secrets, schema, process, pc, breaks>>

Migrated ==
    /\ pc = "migrate"
    /\ \A v \in DOMAIN Text[release] : Recorded(v)
    /\ pc' = "worker"
    /\ UNCHANGED <<release, catalog, tmp, secrets, migration, process, breaks>>

Migrate ==
    \/ \E v \in DOMAIN Text[release] :
           ChecksumChanged(v) \/ Apply(v) \/ IndexExists(v) \/ Record(v)
    \/ Migrated

-----------------------------------------------------------------------------
(* _configure_worker: a password of an earlier release is replaced, first   *)
(* in IRIS and then in the file.                                            *)

Long(password) == password = 0

(* Mutant: an existing user keeps the old password.                         *)
IdentifyNew ==
    /\ pc = "identify" /\ file["worker"] \in Nat
    /\ IF Long(file["worker"])
       THEN issued' = issued + 1 /\ secret' = issued' /\ pc' = "truncate"
       ELSE pc' = "sysadmin" /\ UNCHANGED <<issued, secret>>
    /\ user' = [user EXCEPT !["worker"] =
                    IF @ # Absent THEN @
                    ELSE IF Long(file["worker"]) THEN secret' ELSE file["worker"]]
    /\ UNCHANGED <<release, catalog, tmp, file, migration, process, breaks>>

Identify ==
    /\ pc = "identify" /\ file["worker"] \in Nat
    /\ IF Long(file["worker"])
       THEN issued' = issued + 1 /\ secret' = issued' /\ pc' = "truncate"
       ELSE pc' = "sysadmin" /\ UNCHANGED <<issued, secret>>
    /\ user' = [user EXCEPT !["worker"] =
                    IF Long(file["worker"]) THEN secret'
                    ELSE IF @ = Absent THEN file["worker"] ELSE @]
    /\ UNCHANGED <<release, catalog, tmp, file, migration, process, breaks>>

Truncate ==
    /\ pc = "truncate"
    /\ file' = [file EXCEPT !["worker"] = Cut]
    /\ pc' = "truncated"
    /\ UNCHANGED <<release, catalog, tmp, user, secret, issued, migration, process, breaks>>

(* json.loads of a file without content.                                    *)
Unreadable(c, here) == pc = here /\ file[c] = Cut /\ Raise

ConfigureWorker ==
    \/ Open("worker", "worker", "worker_opened", "identify")
    \/ Written("worker", "worker_opened", "identify")
    \/ Unreadable("worker", "identify")
    \/ Identify
    \/ Truncate
    \/ Written("worker", "truncated", "sysadmin")

(* _configure_sysadmin_identity: an existing user keeps its password.       *)
IdentifySysAdmin ==
    /\ pc = "identify_sysadmin" /\ file["sysadmin"] \in Nat
    /\ user' = [user EXCEPT !["sysadmin"] = IF @ = Absent THEN file["sysadmin"] ELSE @]
    /\ pc' = "import"
    /\ UNCHANGED <<release, catalog, tmp, file, secret, issued, migration, process, breaks>>

ConfigureSecurity ==
    \/ Open("sysadmin", "sysadmin", "sysadmin_opened", "identify_sysadmin")
    \/ Written("sysadmin", "sysadmin_opened", "identify_sysadmin")
    \/ Unreadable("sysadmin", "identify_sysadmin")
    \/ IdentifySysAdmin

-----------------------------------------------------------------------------
(* _import_contract takes one operation after the other: first its tool,    *)
(* then its version in this contract, each unless its row exists.           *)

VersionOf(key) == <<key, Contract[release].hash>>

HasVersions(keys) == \A key \in keys : VersionOf(key) \in versions

ImportTool(key) ==
    /\ pc = "import"
    /\ key \in Contract[release].keys \ tools
    /\ HasVersions(Contract[release].keys \cap tools)
    /\ tools' = tools \cup {key}
    /\ UNCHANGED <<release, versions, seeded, tmp, secrets, migration, process, pc, breaks>>

(* Mutant: the version does not wait for its tool.                          *)
ImportVersionAlone(key) ==
    /\ pc = "import"
    /\ key \in Contract[release].keys /\ VersionOf(key) \notin versions
    /\ versions' = versions \cup {VersionOf(key)}
    /\ UNCHANGED <<release, tools, seeded, tmp, secrets, migration, process, pc, breaks>>

ImportVersion(key) ==
    /\ pc = "import"
    /\ key \in Contract[release].keys \cap tools /\ VersionOf(key) \notin versions
    /\ versions' = versions \cup {VersionOf(key)}
    /\ UNCHANGED <<release, tools, seeded, tmp, secrets, migration, process, pc, breaks>>

Imported ==
    /\ pc = "import"
    /\ Contract[release].keys \subseteq tools /\ HasVersions(Contract[release].keys)
    /\ pc' = "seed"
    /\ UNCHANGED <<release, catalog, tmp, secrets, migration, process, breaks>>

Import ==
    \/ \E key \in Contract[release].keys : ImportTool(key) \/ ImportVersion(key)
    \/ Imported

(* One transaction, modelled in ToolRegistry.  It raises if an operation of *)
(* the default is missing: StartedWhenInstalled shows that none is.         *)
Seed ==
    /\ pc = "seed"
    /\ seeded' = TRUE
    /\ pc' = "supervise"
    /\ UNCHANGED <<release, tools, versions, tmp, secrets, migration, process, breaks>>

-----------------------------------------------------------------------------
(* The supervisor and the worker, as far as readiness goes.                 *)

SpawnWorker ==
    /\ worker = "spawning"
    /\ beat' = FALSE
    /\ worker' = "up"
    /\ UNCHANGED <<release, catalog, ready, secrets, migration, probed, pc, breaks>>

(* It can log in and finds the schema.                                      *)
Beat ==
    /\ worker = "up"
    /\ user["worker"] = file["worker"]
    /\ seeded \/ \E v \in Version : ledger[v] # NoText
    /\ beat' = TRUE /\ probed' = TRUE
    /\ UNCHANGED <<release, catalog, ready, secrets, migration, worker, pc, breaks>>

WorkerExits ==
    /\ worker = "up" /\ breaks < MaxBreaks
    /\ beat' = FALSE
    /\ worker' = "spawning"
    /\ breaks' = breaks + 1
    /\ UNCHANGED <<release, catalog, ready, secrets, migration, probed, pc>>

(* The container stops, at any point.                                       *)
Halted ==
    /\ pc' = "down" /\ k' = 0
    /\ worker' = "none" /\ probed' = FALSE

(* It is stopped, or killed, and the same container starts again.           *)
Restart ==
    /\ pc # "down"
    /\ pc = "failed" \/ breaks < MaxBreaks
    /\ breaks' = IF pc = "failed" THEN breaks ELSE breaks + 1
    /\ Halted
    /\ UNCHANGED <<release, catalog, tmp, secrets, ledger, schema>>

(* Another container takes over the volume, perhaps of another image.       *)
Recreate ==
    /\ pc # "down" /\ breaks < MaxBreaks
    /\ breaks' = breaks + 1
    /\ Halted
    /\ release' \in Release
    /\ ready' = FALSE /\ beat' = FALSE
    /\ user' = [c \in Credential |-> Absent]
    /\ UNCHANGED <<catalog, file, secret, issued, ledger, schema>>

Setup == Csrf \/ Migrate \/ ConfigureWorker \/ ConfigureSecurity \/ Import \/ Seed

Startup == Boot \/ Clear \/ Setup \/ Supervise \/ BecomeReady

Next ==
    \/ Startup \/ GiveUp
    \/ SpawnWorker \/ Beat \/ WorkerExits
    \/ Restart \/ Recreate

Spec == Init /\ [][Next]_vars

(* The script and the worker go on, and a failed start is tried again.      *)
Fairness ==
    /\ WF_vars(Startup) /\ WF_vars(SpawnWorker) /\ WF_vars(Beat)
    /\ WF_vars(pc = "failed" /\ Restart)

FairSpec == Spec /\ Fairness

-----------------------------------------------------------------------------
(* Properties.                                                              *)

Place == {"down", "clear", "csrf", "csrf_opened", "migrate", "worker", "worker_opened",
          "identify", "truncate", "truncated", "sysadmin", "sysadmin_opened",
          "identify_sysadmin", "import", "seed", "supervise", "wait", "ready", "failed"}

TypeOK ==
    /\ release \in Release
    /\ ledger \in [Version -> Texts \cup {NoText}]
    /\ schema \subseteq Statement
    /\ file \in [File -> Nat \cup {Absent, Cut}]
    /\ user \in [Credential -> Nat \cup {Absent}]
    /\ tools \subseteq UNION {Contract[r].keys : r \in Release}
    /\ versions \subseteq tools \X {Contract[r].hash : r \in Release}
    /\ seeded \in BOOLEAN /\ ready \in BOOLEAN /\ beat \in BOOLEAN
    /\ pc \in Place /\ k \in Nat
    /\ secret \in Nat /\ issued \in Nat
    /\ worker \in {"none", "spawning", "up"} /\ probed \in BOOLEAN
    /\ breaks \in Nat

(* However often an installation is interrupted and by whatever release it  *)
(* is taken up again, the ledger lists a version only if everything the     *)
(* version creates exists.                                                  *)
LedgerCovers ==
    \A v \in Version : ledger[v] # NoText =>
        NamesIn(StatementsOf(ledger[v])) \subseteq NamesIn(schema)

Installed ==
    /\ \A v \in DOMAIN Text[release] : Recorded(v)
    /\ Contract[release].keys \subseteq tools /\ HasVersions(Contract[release].keys)
    /\ seeded
    /\ \A c \in Credential : file[c] \in Nat /\ user[c] = file[c]

(* The worker is started only over a complete installation of the image,    *)
(* with files that hold the passwords IRIS knows, whatever earlier starts   *)
(* have left behind.                                                        *)
StartedWhenInstalled == pc \in {"supervise", "wait", "ready"} => Installed

(* Once startup.sh has cleared /tmp, the container counts as ready only if  *)
(* this start went through and its own worker has queried the database.     *)
ReadyIsEarned == ready /\ pc \notin {"down", "clear"} => pc = "ready" /\ probed

(* The interruptions no later start of the image recovers from: an index    *)
(* without its ledger entry, a credential file without content, a ledger    *)
(* that lists another text.                                                 *)
Stranded ==
    \/ \E c \in Credential : file[c] = Cut
    \/ \E v \in DOMAIN Text[release] :
           /\ ~Recorded(v)
           /\ \/ ledger[v] # NoText
              \/ \E s \in StatementsOf(Text[release][v]) : s.kind = "index" /\ Exists(s.name)

(* Any other interrupted installation is completed by the next start.       *)
InstallationEnds == <>[](pc = "ready" \/ Stranded)
=============================================================================
