------------------------------ MODULE Application ------------------------------
(***************************************************************************)
(* The process: settings, startup and shutdown of application/lifecycle.py *)
(* and the health requests it serves in between.  A health request probes  *)
(* the database and then the blob storage, each under a two-second         *)
(* deadline; the storage probe runs in threads of asyncio.to_thread, which *)
(* a deadline abandons and does not stop.                                  *)
(***************************************************************************)
EXTENDS Naturals, FiniteSets

CONSTANTS
    Probe,      \* health requests
    Workers,    \* threads of the event loop's executor
    MaxChanges  \* bound on how often a dependency changes its state

ASSUME BoundsAssumption == Workers \in Nat \ {0} /\ MaxChanges \in Nat

VARIABLES
    phase,       \* where the process is in its life
    exit,        \* how it ended: "none", "stopped", "failed" (at boot) or "killed"
    deployment,  \* what a boot depends on besides the settings
    settings,    \* the validated settings: backend and level
    engine,      \* whether get_engine's cache holds an engine
    idle,        \* whether the pool may hold an open connection
    held,        \* requests whose session may have a connection
    tracer,      \* the provider: "none", "live" or "flushed"
    events,      \* lifecycle events logged
    db, disk, changes,
    req,         \* the await a health request is at
    database, storage, answer,
    job,         \* the thread of a request's storage probe
    file         \* whether its probe file is in the storage root
process == <<phase, exit, deployment, settings, engine, tracer, events>>
health  == <<req, database, storage, answer>>
threads == <<job, file>>
pool    == <<idle, held>>
env     == <<db, disk, changes>>
vars    == <<process, health, threads, pool, env>>

-----------------------------------------------------------------------------
\* The raw values of the environment, a spelling or two of each kind.
RawSettings == [database_url : {"absent", "given"}, limit : {0, 1},
                endpoint : {"http://", "bare"},
                level : {" info", "INFO", "LOUD"},
                backend : {"FileSystem ", "filesystem", "S3", "ftp"}]

Upper(level)   == IF level = " info" THEN "INFO" ELSE level
Lower(backend) == CASE backend = "FileSystem " -> "filesystem"
                    [] backend = "S3" -> "s3"
                    [] OTHER -> backend

\* The recognised names; one level stands for the five.
LogLevels == {"INFO"}
Backends  == {"filesystem", "s3"}

\* Mutant: the level is checked in upper case but kept as written.
Settings_AsWritten(raw) == [backend |-> Lower(raw.backend), level |-> raw.level]

\* The values the field validators return, and whether they all accept.
Settings(raw) == [backend |-> Lower(raw.backend), level |-> Upper(raw.level)]
Accepted(raw) == /\ raw.database_url # "absent" /\ raw.limit > 0
                 /\ raw.endpoint = "http://"
                 /\ Upper(raw.level) \in LogLevels
                 /\ Lower(raw.backend) \in Backends

Unset == [backend |-> "none", level |-> "none"]

Init ==
    /\ phase = "import" /\ exit = "none"
    /\ deployment \in [dsn : BOOLEAN, metadata : BOOLEAN, exporter : BOOLEAN]
    /\ settings = Unset
    /\ engine = FALSE /\ idle = FALSE /\ held = {} /\ tracer = "none" /\ events = {}
    /\ db \in {"up", "down", "hung"}
    /\ disk \in {"up", "no_root", "failing", "hung"}
    /\ changes = 0
    /\ req      = [p \in Probe |-> "idle"]
    /\ database = [p \in Probe |-> "none"]
    /\ storage  = [p \in Probe |-> "none"]
    /\ answer   = [p \in Probe |-> "none"]
    /\ job      = [p \in Probe |-> "none"]
    /\ file     = [p \in Probe |-> FALSE]

Running == {p \in Probe : job[p] \in {"is_dir", "write", "unlink", "unlink_after_error"}}

-----------------------------------------------------------------------------
Fail == phase' = "ended" /\ exit' = "failed"

\* main.py asks for the settings while it is imported, before any startup.
ImportMain ==
    /\ phase = "import"
    /\ \E raw \in RawSettings :
           IF Accepted(raw)
           THEN settings' = Settings(raw) /\ phase' = "logging" /\ UNCHANGED exit
           ELSE Fail /\ UNCHANGED settings
    /\ UNCHANGED <<deployment, engine, tracer, events, health, threads, pool, env>>

\* version() raises PackageNotFoundError where wooloo is not installed.
BuildSharedProcessors == deployment.metadata

\* _resolve_level raises KeyError for a name logging does not know.
ResolveLevel == settings.level \in LogLevels

ConfigureLogging ==
    /\ phase = "logging"
    /\ IF BuildSharedProcessors /\ ResolveLevel
       THEN phase' = "engine" /\ UNCHANGED exit
       ELSE Fail
    /\ UNCHANGED <<deployment, settings, engine, tracer, events, health, threads, pool, env>>

GetEngine ==
    /\ phase = "engine"
    /\ IF deployment.dsn
       THEN engine' = TRUE /\ phase' = "verify" /\ UNCHANGED exit
       ELSE Fail /\ UNCHANGED engine
    /\ UNCHANGED <<deployment, settings, tracer, events, health, threads, pool, env>>

\* Mutant: an unreachable database fails the boot.
Verify_Raises ==
    /\ phase = "verify"
    /\ \/ /\ db = "up"
          /\ events' = events \cup {"database_connectivity_verified"} /\ idle' = TRUE
          /\ phase' = "tracing" /\ UNCHANGED exit
       \/ Fail /\ UNCHANGED <<events, idle>>
    /\ UNCHANGED <<deployment, settings, engine, tracer, held, health, threads, env>>

\* Mutant: connect and command timeouts are not set, so a hung database is awaited.
Verify_NoTimeout ==
    /\ phase = "verify" /\ db # "hung"
    /\ \/ /\ db = "up"
          /\ events' = events \cup {"database_connectivity_verified"} /\ idle' = TRUE
       \/ events' = events \cup {"database_unreachable_at_startup"} /\ UNCHANGED idle
    /\ phase' = "tracing"
    /\ UNCHANGED <<exit, deployment, settings, engine, tracer, held, health, threads, env>>

\* _verify_database_connectivity; the driver's timeouts end the wait.
VerifyDatabase ==
    /\ phase = "verify"
    /\ \/ /\ db = "up"
          /\ events' = events \cup {"database_connectivity_verified"} /\ idle' = TRUE
       \/ events' = events \cup {"database_unreachable_at_startup"} /\ UNCHANGED idle
    /\ phase' = "tracing"
    /\ UNCHANGED <<exit, deployment, settings, engine, tracer, held, health, threads, env>>

\* configure_tracing, then the lifespan yields.
ConfigureTracing ==
    /\ phase = "tracing"
    /\ IF deployment.exporter
       THEN /\ tracer' = "live" /\ phase' = "serving"
            /\ events' = events \cup {"tracing_configured", "application_started"}
            /\ UNCHANGED exit
       ELSE Fail /\ UNCHANGED <<tracer, events>>
    /\ UNCHANGED <<deployment, settings, engine, health, threads, pool, env>>

\* The server is told to stop: it accepts no more and lets the lifespan go on once
\* the requests under way have ended.
Stop ==
    /\ phase = "serving"
    /\ phase' = "draining"
    /\ UNCHANGED <<exit, deployment, settings, engine, tracer, events, health, threads, pool, env>>

Drained ==
    /\ phase = "draining" /\ \A p \in Probe : req[p] \in {"idle", "done"}
    /\ phase' = "dispose"
    /\ UNCHANGED <<exit, deployment, settings, engine, tracer, events, health, threads, pool, env>>

\* Mutant: the caches are dropped without closing the pool.
DisposeEngine_ClearOnly ==
    /\ phase = "dispose"
    /\ engine' = FALSE /\ phase' = "flush"
    /\ UNCHANGED <<exit, deployment, settings, tracer, events, health, threads, pool, env>>

\* dispose_engine; closing a pooled connection may raise, and then the rest of the
\* finally clause is skipped.
DisposeEngine ==
    /\ phase = "dispose"
    /\ \/ engine' = FALSE /\ idle' = FALSE /\ phase' = "flush"
       \/ idle /\ phase' = "join" /\ UNCHANGED <<engine, idle>>
    /\ UNCHANGED <<exit, deployment, settings, tracer, events, held, health, threads, env>>

FlushTracerProvider ==
    /\ phase = "flush"
    /\ tracer' = "flushed" /\ events' = events \cup {"application_stopped"}
    /\ phase' = "join"
    /\ UNCHANGED <<exit, deployment, settings, engine, health, threads, pool, env>>

\* The event loop joins its executor's threads before the process ends, which the
\* server does after a shutdown that raised as well.
Exit ==
    /\ phase = "join" /\ Running = {}
    /\ phase' = "ended" /\ exit' = "stopped"
    /\ UNCHANGED <<deployment, settings, engine, tracer, events, health, threads, pool, env>>

Kill ==
    /\ phase # "ended"
    /\ phase' = "ended" /\ exit' = "killed"
    /\ job' = [p \in Probe |-> IF p \in Running THEN "killed" ELSE job[p]]
    /\ UNCHANGED <<deployment, settings, engine, tracer, events, health, file, pool, env>>

-----------------------------------------------------------------------------
Goto(p, await) == req' = [req EXCEPT ![p] = await]

\* build_blob_storage raises NotImplementedError for every other backend.
HasAdapter == settings.backend = "filesystem"

\* A health request arrives and its dependencies are built; get_blob_storage lets
\* the NotImplementedError through.
Healthz(p) ==
    /\ phase = "serving" /\ req[p] = "idle"
    /\ IF HasAdapter
       THEN Goto(p, "database") /\ UNCHANGED answer
       ELSE Goto(p, "done") /\ answer' = [answer EXCEPT ![p] = "500"]
    /\ UNCHANGED <<process, database, storage, threads, pool, env>>

\* check_database: an answer, or any exception, the deadline's included; then
\* check_storage, whose first await is is_dir.
CheckDatabase(p) ==
    /\ req[p] = "database" /\ phase # "ended"
    /\ \E v \in {"down"} \cup (IF db = "up" THEN {"up"} ELSE {}) :
           database' = [database EXCEPT ![p] = v]
    /\ held' = held \cup {p}
    /\ Goto(p, "is_dir")
    /\ job' = [job EXCEPT ![p] = "queued_is_dir"]
    /\ UNCHANGED <<process, storage, answer, file, idle, env>>

\* check_health returns, or its OSError was caught.
Verdict(p, v) == storage' = [storage EXCEPT ![p] = v] /\ Goto(p, "respond")

\* A thread of the executor takes up a queued call.
ThreadStarts(p) ==
    /\ phase # "ended" /\ Cardinality(Running) < Workers
    /\ \/ job[p] = "queued_is_dir" /\ job' = [job EXCEPT ![p] = "is_dir"]
       \/ job[p] = "queued_write" /\ job' = [job EXCEPT ![p] = "write"]
    /\ UNCHANGED <<process, health, file, pool, env>>

\* is_dir has answered: a check_health that still waits goes on to the write.
ThreadIsDir(p) ==
    /\ job[p] = "is_dir" /\ disk # "hung" /\ phase # "ended"
    /\ IF req[p] = "is_dir" /\ disk # "no_root"
       THEN /\ job' = [job EXCEPT ![p] = "queued_write"]
            /\ Goto(p, "write") /\ UNCHANGED storage
       ELSE /\ job' = [job EXCEPT ![p] = "none"]
            /\ IF req[p] = "is_dir" THEN Verdict(p, "down") ELSE UNCHANGED <<req, storage>>
    /\ UNCHANGED <<process, database, answer, file, pool, env>>

\* Mutant: no finally clause, so a failed write is not cleaned up.
ThreadWrite_NoFinally(p) ==
    /\ job[p] = "write" /\ disk # "hung" /\ phase # "ended"
    /\ \/ /\ disk = "up" /\ file' = [file EXCEPT ![p] = TRUE]
          /\ job' = [job EXCEPT ![p] = "unlink"]
          /\ UNCHANGED <<req, storage>>
       \/ /\ \E created \in {FALSE, disk = "failing"} : file' = [file EXCEPT ![p] = created]
          /\ job' = [job EXCEPT ![p] = "none"]
          /\ IF req[p] = "write" THEN Verdict(p, "down") ELSE UNCHANGED <<req, storage>>
    /\ UNCHANGED <<process, database, answer, pool, env>>

\* write_bytes of _write_and_remove_probe; one that fails may have created the file.
ThreadWrite(p) ==
    /\ job[p] = "write" /\ disk # "hung" /\ phase # "ended"
    /\ \/ /\ disk = "up" /\ file' = [file EXCEPT ![p] = TRUE]
          /\ job' = [job EXCEPT ![p] = "unlink"]
       \/ /\ \E created \in {FALSE, disk = "failing"} : file' = [file EXCEPT ![p] = created]
          /\ job' = [job EXCEPT ![p] = "unlink_after_error"]
    /\ UNCHANGED <<process, health, pool, env>>

\* Mutant: the removal's own error is swallowed.
ProbeVerdict_Lenient(p) == IF job[p] = "unlink" THEN "up" ELSE "down"

ProbeVerdict(p) == IF job[p] = "unlink" /\ ~file'[p] THEN "up" ELSE "down"

\* The unlink of the finally clause, whose error is an error of the probe; the
\* verdict is lost on a check_health that no longer waits.
ThreadUnlink(p) ==
    /\ job[p] \in {"unlink", "unlink_after_error"} /\ disk # "hung" /\ phase # "ended"
    /\ \/ file' = [file EXCEPT ![p] = FALSE] /\ job' = [job EXCEPT ![p] = "none"]
       \/ /\ file[p] /\ disk = "failing"
          /\ job' = [job EXCEPT ![p] = "left_behind"] /\ UNCHANGED file
    /\ IF req[p] = "write" THEN Verdict(p, ProbeVerdict(p)) ELSE UNCHANGED <<req, storage>>
    /\ UNCHANGED <<process, database, answer, pool, env>>

\* Mutant: the deadline covers the first call of the probe only.
StorageDeadline_FirstCall(p) ==
    /\ req[p] = "is_dir" /\ phase # "ended"
    /\ Verdict(p, "down")
    /\ job' = [job EXCEPT ![p] = IF p \in Running THEN @ ELSE "none"]
    /\ UNCHANGED <<process, database, answer, file, pool, env>>

\* asyncio.timeout: a queued call is withdrawn, a running one goes on unobserved.
StorageDeadline(p) ==
    /\ req[p] \in {"is_dir", "write"} /\ phase # "ended"
    /\ Verdict(p, "down")
    /\ job' = [job EXCEPT ![p] = IF p \in Running THEN @ ELSE "none"]
    /\ UNCHANGED <<process, database, answer, file, pool, env>>

\* The verdict is in the body, the status is 200 either way.
Respond(p) ==
    /\ req[p] = "respond" /\ phase # "ended"
    /\ answer' = [answer EXCEPT ![p] = "200"]
    /\ Goto(p, "close")
    /\ UNCHANGED <<process, database, storage, threads, pool, env>>

\* get_db_session closes after the response; the rollback of a database that has
\* stopped answering ends in its timeout and the connection is dropped.
CloseSession(p) ==
    /\ req[p] = "close" /\ phase # "ended"
    /\ held' = held \ {p}
    /\ idle' = (idle \/ db = "up")
    /\ Goto(p, "done")
    /\ UNCHANGED <<process, database, storage, answer, threads, env>>

DependencyChanges ==
    /\ changes < MaxChanges /\ phase # "ended"
    /\ changes' = changes + 1
    /\ \/ \E s \in {"up", "down", "hung"} \ {db} : db' = s /\ UNCHANGED disk
       \/ \E s \in {"up", "no_root", "failing", "hung"} \ {disk} : disk' = s /\ UNCHANGED db
    /\ UNCHANGED <<process, health, threads, pool>>

-----------------------------------------------------------------------------
Boot     == ImportMain \/ ConfigureLogging \/ GetEngine \/ VerifyDatabase \/ ConfigureTracing
Shutdown == Drained \/ DisposeEngine \/ FlushTracerProvider \/ Exit
EventLoop(p) == CheckDatabase(p) \/ StorageDeadline(p) \/ Respond(p) \/ CloseSession(p)
Thread(p)    == ThreadStarts(p) \/ ThreadIsDir(p) \/ ThreadWrite(p) \/ ThreadUnlink(p)

Next == \/ Boot \/ Stop \/ Shutdown \/ Kill \/ DependencyChanges
        \/ \E p \in Probe : Healthz(p) \/ EventLoop(p) \/ Thread(p)

Spec == Init /\ [][Next]_vars

\* The event loop runs; the threads owe nothing, since the disk may hang.
FairSpec == Spec /\ WF_vars(Boot) /\ WF_vars(Shutdown)
                 /\ \A p \in Probe : WF_vars(EventLoop(p))

-----------------------------------------------------------------------------
\* The state keeps its types; in particular settings, once read, are normalised.
TypeOK ==
    /\ phase \in {"import", "logging", "engine", "verify", "tracing", "serving", "draining",
                  "dispose", "flush", "join", "ended"}
    /\ exit \in {"none", "stopped", "failed", "killed"}
    /\ deployment \in [dsn : BOOLEAN, metadata : BOOLEAN, exporter : BOOLEAN]
    /\ settings \in [backend : Backends \cup {"none"}, level : LogLevels \cup {"none"}]
    /\ engine \in BOOLEAN /\ idle \in BOOLEAN /\ held \subseteq Probe
    /\ tracer \in {"none", "live", "flushed"}
    /\ events \subseteq {"database_connectivity_verified", "database_unreachable_at_startup",
                         "tracing_configured", "application_started", "application_stopped"}
    /\ db \in {"up", "down", "hung"} /\ disk \in {"up", "no_root", "failing", "hung"}
    /\ changes \in 0..MaxChanges
    /\ req \in [Probe -> {"idle", "database", "is_dir", "write", "respond", "close", "done"}]
    /\ database \in [Probe -> {"none", "up", "down"}]
    /\ storage \in [Probe -> {"none", "up", "down"}]
    /\ answer \in [Probe -> {"none", "200", "500"}]
    /\ job \in [Probe -> {"none", "queued_is_dir", "is_dir", "queued_write", "write", "unlink",
                          "unlink_after_error", "left_behind", "killed"}]
    /\ file \in [Probe -> BOOLEAN]

\* A storage verdict of "up" means this request's own probe file was written and is
\* gone again, whatever the disk did meanwhile (_write_and_remove_probe).
UpLeavesNoProbe == \A p \in Probe : storage[p] = "up" => ~file[p] /\ job[p] = "none"

\* A probe file in the storage root belongs to a thread that is about to remove it, even
\* one a deadline abandoned, unless the removal itself failed or the process was killed.
ProbeFilesAreTemporary ==
    \A p \in Probe : file[p] =>
        job[p] \in {"write", "unlink", "unlink_after_error", "left_behind", "killed"}

\* Only a wrong configuration fails a boot; an unreachable database does not, and
\* whatever the validators accept the later startup steps accept too.
BootFailsOnConfigurationOnly ==
    exit = "failed" => settings = Unset \/ \E f \in DOMAIN deployment : ~deployment[f]

\* A process that says application_stopped has closed every connection, given up
\* its engine and flushed its spans, and has no request under way.
StoppedMeansReleased ==
    "application_stopped" \in events =>
        /\ ~engine /\ ~idle /\ held = {}
        /\ tracer = "flushed"
        /\ \A p \in Probe : req[p] \in {"idle", "done"}

\* Every health request is answered, with 200 if the backend has an adapter, although
\* the disk may hang for ever and hold every thread of the executor: the deadline needs
\* no thread, and a failing dependency degrades the body, never the status.
HealthzAnswers ==
    \A p \in Probe :
        req[p] # "idle" ~> answer[p] = (IF HasAdapter THEN "200" ELSE "500") \/ phase = "ended"

\* A boot reaches serving or fails, and a stop gets past the requests under way to the
\* end of the lifespan, although database and disk may hang for ever.
LifespanProgresses ==
    /\ phase = "import" ~> phase \in {"serving", "draining", "ended"}
    /\ phase = "draining" ~> phase \in {"join", "ended"}
=============================================================================
