--------------------------- MODULE ApplicationProofs ---------------------------
(***************************************************************************)
(* Proofs about Application: for any number of health requests and worker  *)
(* threads the safety properties of the process and of its storage probes  *)
(* are invariants of Spec.                                                 *)
(***************************************************************************)
EXTENDS Application, TLAPS

-----------------------------------------------------------------------------
(* The inductive invariant *)

Stops == {"dispose", "flush", "join"}   \* the phases after the server has drained

\* A request's probe: a thread is at the call its request waits for, it has no file
\* before its write, and the verdict comes after both calls.
ProbeInv(p) ==
    /\ req[p] \in {"idle", "database"} => job[p] = "none"
    /\ req[p] = "is_dir" => job[p] \in {"queued_is_dir", "is_dir", "killed"}
    /\ req[p] = "write" =>
         job[p] \in {"queued_write", "write", "unlink", "unlink_after_error", "killed"}
    /\ job[p] \in {"none", "queued_is_dir", "is_dir", "queued_write"} => ~file[p]
    /\ job[p] = "killed" => phase = "ended"
    /\ storage[p] = "up" =>
         req[p] \in {"respond", "close", "done"} /\ job[p] = "none"

\* A session is open only while its request is under way, and none is under way once the
\* server has drained.
SessionInv(p) ==
    /\ p \in held => req[p] \in {"is_dir", "write", "respond", "close"}
    /\ phase \in Stops => req[p] \in {"idle", "done"}

\* What the phase says of the settings and of the resources.
PhaseInv ==
    /\ phase = "import" => settings = Unset
    /\ phase = "logging" => settings.level \in LogLevels
    /\ exit = "failed" => phase = "ended"
    /\ phase = "flush" => ~engine /\ ~idle
    /\ "application_stopped" \in events => phase \in {"join", "ended"}

IInv == /\ TypeOK
        /\ PhaseInv
        /\ \A p \in Probe : ProbeInv(p) /\ SessionInv(p)
        /\ BootFailsOnConfigurationOnly
        /\ StoppedMeansReleased


ProbeStep(p) == Healthz(p) \/ EventLoop(p) \/ Thread(p)
ProcessStep  == Boot \/ Stop \/ Shutdown \/ DependencyChanges

-----------------------------------------------------------------------------
(* Types *)

\* What the validators accept they also return in its normal form.
LEMMA AcceptedIsNormal ==
    ASSUME NEW raw \in RawSettings, Accepted(raw)
    PROVE  /\ Settings(raw) \in [backend : Backends \cup {"none"}, level : LogLevels \cup {"none"}]
           /\ Settings(raw).level \in LogLevels
  BY DEF RawSettings, Accepted, Settings

\* The types of what only the health requests and their threads change.
ProbeTypes ==
    /\ req \in [Probe -> {"idle", "database", "is_dir", "write", "respond", "close", "done"}]
    /\ database \in [Probe -> {"none", "up", "down"}]
    /\ storage \in [Probe -> {"none", "up", "down"}]
    /\ answer \in [Probe -> {"none", "200", "500"}]
    /\ job \in [Probe -> {"none", "queued_is_dir", "is_dir", "queued_write", "write", "unlink",
                          "unlink_after_error", "left_behind", "killed"}]
    /\ file \in [Probe -> BOOLEAN]

Events == {"database_connectivity_verified", "database_unreachable_at_startup",
           "tracing_configured", "application_started", "application_stopped"}
Phases == {"import", "logging", "engine", "verify", "tracing", "serving", "draining",
           "dispose", "flush", "join", "ended"}

\* The types of the process, of what it runs on and of its pool.
ProcessTypes ==
    /\ phase \in Phases
    /\ exit \in {"none", "stopped", "failed", "killed"}
    /\ deployment \in [dsn : BOOLEAN, metadata : BOOLEAN, exporter : BOOLEAN]
    /\ settings \in [backend : Backends \cup {"none"}, level : LogLevels \cup {"none"}]
    /\ engine \in BOOLEAN /\ idle \in BOOLEAN /\ held \subseteq Probe
    /\ tracer \in {"none", "live", "flushed"}
    /\ events \subseteq Events
    /\ db \in {"up", "down", "hung"} /\ disk \in {"up", "no_root", "failing", "hung"}
    /\ changes \in 0..MaxChanges

\* TypeOK is the two together.
LEMMA TypeParts == TypeOK <=> ProcessTypes /\ ProbeTypes
  BY DEF TypeOK, ProcessTypes, ProbeTypes, Events, Phases

\* Every step keeps the types.
LEMMA TypeStep == TypeOK /\ [Next]_vars => TypeOK'
<1> SUFFICES ASSUME TypeOK, [Next]_vars PROVE TypeOK'
  OBVIOUS
<1> USE DEF process, health, threads, pool, env
<1>t. ProcessTypes /\ ProbeTypes
  BY TypeParts
<1>k. UNCHANGED <<health, threads>> => ProbeTypes'
  BY <1>t DEF ProbeTypes
<1>c. UNCHANGED <<process, pool, env>> => ProcessTypes'
  BY <1>t DEF ProcessTypes
<1>s. ProcessTypes' /\ ProbeTypes' => TypeOK'
  BY DEF TypeOK, ProcessTypes, ProbeTypes, Events, Phases
<1>p. ASSUME phase' \in Phases, exit' \in {exit, "stopped", "failed", "killed"},
             engine' \in BOOLEAN, idle' \in BOOLEAN, tracer' \in {"none", "live", "flushed"},
             events' \subseteq Events, UNCHANGED <<deployment, settings, held, env>>
      PROVE  ProcessTypes'
  BY <1>t, <1>p DEF ProcessTypes
<1>v. /\ engine \in BOOLEAN /\ idle \in BOOLEAN /\ tracer \in {"none", "live", "flushed"}
      /\ events \subseteq Events
  BY <1>t DEF ProcessTypes
<1>e. /\ {"logging", "engine", "verify", "tracing", "serving", "draining", "dispose", "flush",
         "join", "ended"} \subseteq Phases
      /\ {"database_connectivity_verified", "database_unreachable_at_startup",
         "tracing_configured", "application_started", "application_stopped"} \subseteq Events
  BY DEF Phases, Events
<1>1. CASE ImportMain
  <2>1. PICK raw \in RawSettings :
             IF Accepted(raw)
             THEN settings' = Settings(raw) /\ phase' = "logging" /\ UNCHANGED exit
             ELSE Fail /\ UNCHANGED settings
    BY <1>1 DEF ImportMain
  <2>2. settings' \in [backend : Backends \cup {"none"}, level : LogLevels \cup {"none"}]
    BY <1>t, <2>1, AcceptedIsNormal DEF ProcessTypes
  <2>3. phase' \in {"logging", "ended"} /\ exit' \in {exit, "failed"}
    BY <2>1 DEF Fail
  <2>4. UNCHANGED <<deployment, engine, tracer, events, health, threads, pool, env>>
    BY <1>1 DEF ImportMain
  <2>5. ProcessTypes'
    BY <1>t, <2>2, <2>3, <2>4 DEF ProcessTypes, Phases
  <2> QED
    BY <1>k, <1>s, <2>4, <2>5
<1>2. CASE ConfigureLogging
  <2>1. ProcessTypes'
    BY <1>p, <1>v, <1>e, <1>2 DEF ConfigureLogging, Fail
  <2> QED
    BY <1>2, <1>k, <1>s, <2>1 DEF ConfigureLogging
<1>3. CASE GetEngine
  <2>1. ProcessTypes'
    BY <1>p, <1>v, <1>e, <1>3 DEF GetEngine, Fail
  <2> QED
    BY <1>3, <1>k, <1>s, <2>1 DEF GetEngine
<1>4. CASE VerifyDatabase
  <2>1. ProcessTypes'
    BY <1>p, <1>v, <1>e, <1>4 DEF VerifyDatabase
  <2> QED
    BY <1>4, <1>k, <1>s, <2>1 DEF VerifyDatabase
<1>5. CASE ConfigureTracing
  <2>1. ProcessTypes'
    BY <1>p, <1>v, <1>e, <1>5 DEF ConfigureTracing, Fail
  <2> QED
    BY <1>5, <1>k, <1>s, <2>1 DEF ConfigureTracing
<1>6. CASE Stop \/ Drained
  <2>1. ProcessTypes'
    BY <1>p, <1>v, <1>e, <1>6 DEF Stop, Drained
  <2> QED
    BY <1>6, <1>k, <1>s, <2>1 DEF Stop, Drained
<1>7. CASE DisposeEngine
  <2>1. ProcessTypes'
    BY <1>p, <1>v, <1>e, <1>7 DEF DisposeEngine
  <2> QED
    BY <1>7, <1>k, <1>s, <2>1 DEF DisposeEngine
<1>8. CASE FlushTracerProvider
  <2>1. ProcessTypes'
    BY <1>p, <1>v, <1>e, <1>8 DEF FlushTracerProvider
  <2> QED
    BY <1>8, <1>k, <1>s, <2>1 DEF FlushTracerProvider
<1>9. CASE Exit
  <2>1. ProcessTypes'
    BY <1>p, <1>v, <1>e, <1>9 DEF Exit
  <2> QED
    BY <1>9, <1>k, <1>s, <2>1 DEF Exit
<1>10. CASE Kill
  <2>1. ProcessTypes'
    BY <1>t, <1>10 DEF Kill, ProcessTypes, Phases
  <2>2. ProbeTypes'
    BY <1>t, <1>10 DEF Kill, Running, ProbeTypes
  <2> QED
    BY <1>s, <2>1, <2>2
<1>11. CASE DependencyChanges
  <2>1. changes' \in 0..MaxChanges
    BY <1>t, <1>11, BoundsAssumption DEF DependencyChanges, ProcessTypes
  <2>2. ProcessTypes'
    BY <1>t, <1>11, <2>1 DEF DependencyChanges, ProcessTypes
  <2> QED
    BY <1>11, <1>k, <1>s, <2>2 DEF DependencyChanges
<1>12. ASSUME NEW p \in Probe, ProbeStep(p) PROVE TypeOK'
  <2>1. CASE Healthz(p)
    <3>1. ProbeTypes'
      BY <1>t, <2>1 DEF Healthz, Goto, ProbeTypes
    <3> QED
      BY <1>c, <1>s, <2>1, <3>1 DEF Healthz
  <2>2. CASE CheckDatabase(p)
    <3>1. ProbeTypes'
      BY <1>t, <2>2 DEF CheckDatabase, Goto, ProbeTypes
    <3>2. ProcessTypes'
      BY <1>t, <2>2 DEF CheckDatabase, ProcessTypes
    <3> QED
      BY <1>s, <3>1, <3>2
  <2>3. CASE StorageDeadline(p)
    <3>1. ProbeTypes'
      BY <1>t, <2>3 DEF StorageDeadline, Verdict, Goto, ProbeTypes
    <3> QED
      BY <1>c, <1>s, <2>3, <3>1 DEF StorageDeadline
  <2>4. CASE Respond(p)
    <3>1. ProbeTypes'
      BY <1>t, <2>4 DEF Respond, Goto, ProbeTypes
    <3> QED
      BY <1>c, <1>s, <2>4, <3>1 DEF Respond
  <2>5. CASE CloseSession(p)
    <3>1. ProbeTypes'
      BY <1>t, <2>5 DEF CloseSession, Goto, ProbeTypes
    <3>2. ProcessTypes'
      BY <1>t, <2>5 DEF CloseSession, ProcessTypes
    <3> QED
      BY <1>s, <3>1, <3>2
  <2>6. CASE ThreadStarts(p)
    <3>1. ProbeTypes'
      BY <1>t, <2>6 DEF ThreadStarts, ProbeTypes
    <3> QED
      BY <1>c, <1>s, <2>6, <3>1 DEF ThreadStarts
  <2>7. CASE ThreadIsDir(p)
    <3>1. ProbeTypes'
      BY <1>t, <2>7 DEF ThreadIsDir, Verdict, Goto, ProbeTypes
    <3> QED
      BY <1>c, <1>s, <2>7, <3>1 DEF ThreadIsDir
  <2>8. CASE ThreadWrite(p)
    <3>1. file' \in [Probe -> BOOLEAN]
      <4>1. \E created \in BOOLEAN : file' = [file EXCEPT ![p] = created]
        BY <2>8, Zenon DEF ThreadWrite
      <4> QED
        BY <1>t, <4>1 DEF ProbeTypes
    <3>2. \/ job' = [job EXCEPT ![p] = "unlink"]
          \/ job' = [job EXCEPT ![p] = "unlink_after_error"]
      BY <2>8 DEF ThreadWrite
    <3>3. UNCHANGED <<process, health, pool, env>>
      BY <2>8 DEF ThreadWrite
    <3>4. ProbeTypes'
      BY <1>t, <3>1, <3>2, <3>3 DEF ProbeTypes
    <3> QED
      BY <1>c, <1>s, <3>3, <3>4
  <2>9. CASE ThreadUnlink(p)
    <3>1. ProbeVerdict(p) \in {"up", "down"}
      BY DEF ProbeVerdict
    <3>2. file' \in [Probe -> BOOLEAN]
      BY <1>t, <2>9 DEF ThreadUnlink, ProbeTypes
    <3>3. job' = [job EXCEPT ![p] = "none"] \/ job' = [job EXCEPT ![p] = "left_behind"]
      BY <2>9 DEF ThreadUnlink
    <3>4. /\ req' = [req EXCEPT ![p] = "respond"] \/ UNCHANGED req
          /\ storage' = [storage EXCEPT ![p] = ProbeVerdict(p)] \/ UNCHANGED storage
          /\ UNCHANGED <<database, answer>>
      BY <2>9 DEF ThreadUnlink, Verdict, Goto
    <3>5. ProbeTypes'
      BY <1>t, <3>1, <3>2, <3>3, <3>4 DEF ProbeTypes
    <3> QED
      BY <1>c, <1>s, <2>9, <3>5 DEF ThreadUnlink
  <2> QED
    BY <1>12, <2>1, <2>2, <2>3, <2>4, <2>5, <2>6, <2>7, <2>8, <2>9
       DEF ProbeStep, EventLoop, Thread
<1>13. CASE UNCHANGED vars
  BY <1>13, <1>c, <1>k, <1>s DEF vars
<1> QED
  BY <1>1, <1>2, <1>3, <1>4, <1>5, <1>6, <1>7, <1>8, <1>9, <1>10, <1>11, <1>12, <1>13
     DEF Next, Boot, Shutdown, ProbeStep

-----------------------------------------------------------------------------
(* Steps of the health requests *)

\* What the requests keep are functions on Probe.
LEMMA ProbeFunctions ==
    TypeOK => /\ req = [q \in Probe |-> req[q]] /\ job = [q \in Probe |-> job[q]]
              /\ storage = [q \in Probe |-> storage[q]] /\ file \in [Probe -> BOOLEAN]
<1> SUFFICES ASSUME TypeOK
             PROVE  /\ req = [q \in Probe |-> req[q]] /\ job = [q \in Probe |-> job[q]]
                    /\ storage = [q \in Probe |-> storage[q]] /\ file \in [Probe -> BOOLEAN]
  OBVIOUS
<1>1. ProbeTypes
  BY TypeParts
<1> QED
  BY <1>1 DEF ProbeTypes

\* A step of one health request leaves every other one alone, and the process; after the
\* draining it also leaves requests, sessions and pool as they are, and a dead process has
\* none.
LEMMA ProbeFrame ==
    ASSUME IInv, NEW p \in Probe, ProbeStep(p)
    PROVE  /\ \A q \in Probe \ {p} :
                /\ req'[q] = req[q] /\ job'[q] = job[q] /\ file'[q] = file[q]
                /\ storage'[q] = storage[q] /\ (q \in held' <=> q \in held)
           /\ UNCHANGED process /\ phase # "ended"
           /\ phase \in Stops => UNCHANGED <<req, idle, held>>
<1> USE DEF process, health, threads, pool, env
<1>t. /\ req = [q \in Probe |-> req[q]] /\ job = [q \in Probe |-> job[q]]
      /\ storage = [q \in Probe |-> storage[q]] /\ file \in [Probe -> BOOLEAN]
  BY ProbeFunctions DEF IInv
<1>u. UNCHANGED process /\ phase # "ended"
  BY DEF ProbeStep, EventLoop, Thread, Healthz, CheckDatabase, StorageDeadline, Respond,
     CloseSession, ThreadStarts, ThreadIsDir, ThreadWrite, ThreadUnlink
<1>a. phase \in Stops => req[p] \in {"idle", "done"} /\ phase # "serving"
  BY DEF IInv, SessionInv, Stops
<1>1. CASE Healthz(p)
  BY <1>t, <1>u, <1>a, <1>1 DEF Healthz, Goto
<1>2. CASE CheckDatabase(p)
  BY <1>t, <1>u, <1>a, <1>2 DEF CheckDatabase, Goto
<1>3. CASE StorageDeadline(p)
  BY <1>t, <1>u, <1>a, <1>3 DEF StorageDeadline, Verdict, Goto
<1>4. CASE Respond(p)
  BY <1>t, <1>u, <1>a, <1>4 DEF Respond, Goto
<1>5. CASE CloseSession(p)
  BY <1>t, <1>u, <1>a, <1>5 DEF CloseSession, Goto
<1>6. CASE ThreadStarts(p)
  BY <1>t, <1>u, <1>a, <1>6 DEF ThreadStarts
<1>7. CASE ThreadIsDir(p)
  BY <1>t, <1>u, <1>a, <1>7 DEF ThreadIsDir, Verdict, Goto
<1>8. CASE ThreadWrite(p)
  BY <1>t, <1>u, <1>a, <1>8 DEF ThreadWrite
<1>9. CASE ThreadUnlink(p)
  BY <1>t, <1>u, <1>a, <1>9 DEF ThreadUnlink, Verdict, Goto
<1> QED
  BY <1>1, <1>2, <1>3, <1>4, <1>5, <1>6, <1>7, <1>8, <1>9 DEF ProbeStep, EventLoop, Thread

\* A step of a health request keeps what the invariant says of it.
LEMMA OwnStep ==
    ASSUME IInv, NEW p \in Probe, ProbeStep(p)
    PROVE  ProbeInv(p)' /\ SessionInv(p)'
<1> USE DEF process, health, threads, pool, env
<1>t. /\ req = [q \in Probe |-> req[q]] /\ job = [q \in Probe |-> job[q]]
      /\ storage = [q \in Probe |-> storage[q]] /\ file \in [Probe -> BOOLEAN]
  BY ProbeFunctions DEF IInv
<1>u. UNCHANGED phase /\ phase # "ended" /\ (phase \in Stops => UNCHANGED req)
  BY ProbeFrame DEF Stops
<1>i. ProbeInv(p) /\ SessionInv(p)
  BY DEF IInv
<1>1. CASE Healthz(p)
  BY <1>t, <1>u, <1>i, <1>1 DEF Healthz, Goto, ProbeInv, SessionInv
<1>2. CASE CheckDatabase(p)
  BY <1>t, <1>u, <1>i, <1>2 DEF CheckDatabase, Goto, ProbeInv, SessionInv
<1>3. CASE StorageDeadline(p)
  BY <1>t, <1>u, <1>i, <1>3 DEF StorageDeadline, Verdict, Goto, ProbeInv, SessionInv, Running
<1>4. CASE Respond(p)
  BY <1>t, <1>u, <1>i, <1>4 DEF Respond, Goto, ProbeInv, SessionInv
<1>5. CASE CloseSession(p)
  BY <1>t, <1>u, <1>i, <1>5 DEF CloseSession, Goto, ProbeInv, SessionInv
<1>6. CASE ThreadStarts(p)
  BY <1>t, <1>u, <1>i, <1>6 DEF ThreadStarts, ProbeInv, SessionInv
<1>7. CASE ThreadIsDir(p)
  BY <1>t, <1>u, <1>i, <1>7 DEF ThreadIsDir, Verdict, Goto, ProbeInv, SessionInv
<1>8. CASE ThreadWrite(p)
  BY <1>t, <1>u, <1>i, <1>8 DEF ThreadWrite, ProbeInv, SessionInv
<1>9. CASE ThreadUnlink(p)
  BY <1>t, <1>u, <1>i, <1>9 DEF ThreadUnlink, Verdict, Goto, ProbeInv, SessionInv, ProbeVerdict
<1> QED
  BY <1>1, <1>2, <1>3, <1>4, <1>5, <1>6, <1>7, <1>8, <1>9 DEF ProbeStep, EventLoop, Thread

-----------------------------------------------------------------------------
(* Steps of the process *)

\* A boot, a stop or a change of a dependency touches no request, no thread and no session.
LEMMA ProcessFrame ==
    ASSUME ProcessStep
    PROVE  UNCHANGED <<health, threads, held>> /\ phase # "ended"
  BY DEF ProcessStep, Boot, Shutdown, ImportMain, ConfigureLogging, GetEngine, VerifyDatabase,
     ConfigureTracing, Stop, Drained, DisposeEngine, FlushTracerProvider, Exit,
     DependencyChanges, process, health, threads, pool, env, Fail

\* A boot that fails does so for the settings or for the deployment, and the stop has
\* released everything by the time it says so.
LEMMA ProcessKeeps ==
    ASSUME IInv, ProcessStep
    PROVE  /\ PhaseInv' /\ BootFailsOnConfigurationOnly' /\ StoppedMeansReleased'
           /\ \A p \in Probe : SessionInv(p)'
<1> USE DEF process, health, threads, pool, env
<1>i. /\ PhaseInv /\ BootFailsOnConfigurationOnly /\ StoppedMeansReleased
      /\ \A p \in Probe : SessionInv(p)
  BY DEF IInv
<1>f. UNCHANGED <<req, held>> /\ phase # "ended"
  BY ProcessFrame
<1>d. DOMAIN deployment = {"dsn", "metadata", "exporter"}
  BY DEF IInv, TypeOK
<1>n. exit # "failed" /\ ("application_stopped" \in events => phase = "join")
  BY <1>i, <1>f DEF PhaseInv
<1>b. ASSUME phase' \notin Stops, "application_stopped" \notin events', phase' # "flush"
      PROVE  StoppedMeansReleased' /\ \A p \in Probe : SessionInv(p)'
  BY <1>i, <1>f, <1>b DEF StoppedMeansReleased, SessionInv
<1>1. CASE ImportMain
  <2>1. PICK raw \in RawSettings :
             IF Accepted(raw)
             THEN settings' = Settings(raw) /\ phase' = "logging" /\ UNCHANGED exit
             ELSE Fail /\ UNCHANGED settings
    BY <1>1 DEF ImportMain
  <2>2. settings = Unset /\ "application_stopped" \notin events'
    BY <1>i, <1>n, <1>1 DEF PhaseInv, ImportMain
  <2>3. CASE Accepted(raw)
    <3>1. settings'.level \in LogLevels /\ phase' = "logging" /\ exit' # "failed"
      BY <1>n, <2>1, <2>3, AcceptedIsNormal
    <3> QED
      BY <1>b, <2>2, <3>1 DEF PhaseInv, BootFailsOnConfigurationOnly, Stops
  <2>4. CASE ~Accepted(raw)
    <3>1. settings' = Unset /\ phase' = "ended"
      BY <2>1, <2>2, <2>4 DEF Fail
    <3> QED
      BY <1>b, <2>2, <3>1 DEF PhaseInv, BootFailsOnConfigurationOnly, Stops
  <2> QED
    BY <2>3, <2>4
<1>2. CASE ConfigureLogging
  <2>1. "application_stopped" \notin events' /\ phase' \in {"engine", "ended"}
    BY <1>n, <1>2 DEF ConfigureLogging, Fail
  <2>2. exit' = "failed" => ~deployment.metadata /\ phase' = "ended"
    BY <1>i, <1>n, <1>2 DEF ConfigureLogging, BuildSharedProcessors, ResolveLevel, Fail,
       PhaseInv
  <2>3. UNCHANGED deployment
    BY <1>2 DEF ConfigureLogging
  <2> QED
    BY <1>b, <1>d, <2>1, <2>2, <2>3 DEF PhaseInv, BootFailsOnConfigurationOnly, Stops
<1>3. CASE GetEngine
  <2>1. "application_stopped" \notin events' /\ phase' \in {"verify", "ended"}
    BY <1>n, <1>3 DEF GetEngine, Fail
  <2>2. exit' = "failed" => ~deployment.dsn /\ phase' = "ended"
    BY <1>n, <1>3 DEF GetEngine, Fail
  <2>3. UNCHANGED deployment
    BY <1>3 DEF GetEngine
  <2> QED
    BY <1>b, <1>d, <2>1, <2>2, <2>3 DEF PhaseInv, BootFailsOnConfigurationOnly, Stops
<1>4. CASE VerifyDatabase
  <2>1. "application_stopped" \notin events' /\ phase' = "tracing" /\ exit' # "failed"
    BY <1>n, <1>4 DEF VerifyDatabase
  <2> QED
    BY <1>b, <2>1 DEF PhaseInv, BootFailsOnConfigurationOnly, Stops
<1>5. CASE ConfigureTracing
  <2>1. "application_stopped" \notin events' /\ phase' \in {"serving", "ended"}
    BY <1>n, <1>5 DEF ConfigureTracing, Fail
  <2>2. exit' = "failed" => ~deployment.exporter /\ phase' = "ended"
    BY <1>n, <1>5 DEF ConfigureTracing, Fail
  <2>3. UNCHANGED deployment
    BY <1>5 DEF ConfigureTracing
  <2> QED
    BY <1>b, <1>d, <2>1, <2>2, <2>3 DEF PhaseInv, BootFailsOnConfigurationOnly, Stops
<1>6. CASE Stop
  <2>1. "application_stopped" \notin events' /\ phase' = "draining" /\ exit' # "failed"
    BY <1>n, <1>6 DEF Stop
  <2> QED
    BY <1>b, <2>1 DEF PhaseInv, BootFailsOnConfigurationOnly, Stops
<1>7. CASE Drained
  <2>1. "application_stopped" \notin events' /\ phase' = "dispose" /\ exit' # "failed"
    BY <1>n, <1>7 DEF Drained
  <2>2. \A p \in Probe : SessionInv(p)'
    BY <1>i, <1>f, <1>7 DEF Drained, SessionInv
  <2> QED
    BY <2>1, <2>2 DEF PhaseInv, BootFailsOnConfigurationOnly, StoppedMeansReleased
<1>8. CASE DisposeEngine
  <2>1. /\ "application_stopped" \notin events' /\ phase' \in {"flush", "join"}
        /\ exit' # "failed" /\ (phase' = "flush" => ~engine' /\ ~idle')
    BY <1>n, <1>8 DEF DisposeEngine
  <2>2. \A p \in Probe : SessionInv(p)'
    BY <1>i, <1>f, <1>8 DEF DisposeEngine, SessionInv, Stops
  <2> QED
    BY <2>1, <2>2 DEF PhaseInv, BootFailsOnConfigurationOnly, StoppedMeansReleased
<1>9. CASE FlushTracerProvider
  <2>1. ~engine' /\ ~idle' /\ tracer' = "flushed" /\ phase' = "join" /\ exit' # "failed"
    BY <1>i, <1>n, <1>9 DEF FlushTracerProvider, PhaseInv
  <2>2. \A p \in Probe : SessionInv(p)' /\ req'[p] \in {"idle", "done"} /\ p \notin held'
    BY <1>i, <1>f, <1>9 DEF FlushTracerProvider, SessionInv, Stops
  <2>3. held' = {}
    <3>1. held \subseteq Probe
      BY DEF IInv, TypeOK
    <3> QED
      BY <1>f, <2>2, <3>1
  <2>4. StoppedMeansReleased'
    BY <2>1, <2>2, <2>3 DEF StoppedMeansReleased
  <2> QED
    BY <2>1, <2>2, <2>4 DEF PhaseInv, BootFailsOnConfigurationOnly
<1>10. CASE Exit
  <2>1. /\ UNCHANGED <<engine, idle, held, tracer, events, req>>
        /\ phase' = "ended" /\ exit' = "stopped"
    BY <1>10 DEF Exit
  <2>2. \A p \in Probe : SessionInv(p)'
    BY <1>i, <2>1 DEF SessionInv, Stops
  <2>3. StoppedMeansReleased'
    BY <1>i, <2>1 DEF StoppedMeansReleased
  <2> QED
    BY <2>1, <2>2, <2>3 DEF PhaseInv, BootFailsOnConfigurationOnly
<1>11. CASE DependencyChanges
  <2>1. UNCHANGED <<phase, exit, deployment, settings, engine, idle, held, tracer, events, req>>
    BY <1>11 DEF DependencyChanges
  <2>2. \A p \in Probe : SessionInv(p)'
    BY <1>i, <2>1 DEF SessionInv
  <2>3. StoppedMeansReleased'
    BY <1>i, <2>1 DEF StoppedMeansReleased
  <2>4. PhaseInv' /\ BootFailsOnConfigurationOnly'
    BY <1>i, <2>1 DEF PhaseInv, BootFailsOnConfigurationOnly
  <2> QED
    BY <2>2, <2>3, <2>4
<1> QED
  BY <1>1, <1>2, <1>3, <1>4, <1>5, <1>6, <1>7, <1>8, <1>9, <1>10, <1>11
     DEF ProcessStep, Boot, Shutdown

-----------------------------------------------------------------------------
(* The invariant *)

\* It holds before main.py is imported.
LEMMA InitIInv == Init => IInv
<1> SUFFICES ASSUME Init PROVE IInv
  OBVIOUS
<1>1. ProcessTypes
  <2>1. settings \in [backend : Backends \cup {"none"}, level : LogLevels \cup {"none"}]
    BY DEF Init, Unset
  <2>2. changes \in 0..MaxChanges
    BY BoundsAssumption DEF Init
  <2>3. events \subseteq Events /\ phase \in Phases
    BY DEF Init, Events, Phases
  <2> QED
    BY <2>1, <2>2, <2>3 DEF Init, ProcessTypes
<1>2. ProbeTypes
  BY DEF Init, ProbeTypes
<1>3. PhaseInv /\ BootFailsOnConfigurationOnly /\ StoppedMeansReleased
  BY DEF Init, PhaseInv, BootFailsOnConfigurationOnly, StoppedMeansReleased
<1>4. \A p \in Probe : ProbeInv(p) /\ SessionInv(p)
  BY DEF Init, ProbeInv, SessionInv, Stops
<1> QED
  BY <1>1, <1>2, <1>3, <1>4, TypeParts DEF IInv

\* Every step keeps it.
LEMMA StepIInv == IInv /\ [Next]_vars => IInv'
<1> SUFFICES ASSUME IInv, [Next]_vars PROVE IInv'
  OBVIOUS
<1>t. TypeOK'
  BY TypeStep DEF IInv
<1>i. /\ PhaseInv /\ BootFailsOnConfigurationOnly /\ StoppedMeansReleased
      /\ \A p \in Probe : ProbeInv(p) /\ SessionInv(p)
  BY DEF IInv
<1>1. CASE ProcessStep
  <2>1. /\ PhaseInv' /\ BootFailsOnConfigurationOnly' /\ StoppedMeansReleased'
        /\ \A p \in Probe : SessionInv(p)'
    BY <1>1, ProcessKeeps
  <2>2. \A p \in Probe : ProbeInv(p)'
    <3>1. UNCHANGED <<req, job, file, storage>> /\ phase # "ended"
      BY <1>1, ProcessFrame DEF health, threads
    <3> QED
      BY <1>i, <3>1 DEF ProbeInv
  <2> QED
    BY <1>t, <2>1, <2>2 DEF IInv
<1>2. CASE Kill
  <2>1. /\ UNCHANGED <<deployment, settings, engine, tracer, events, idle, held, req, file, storage>>
        /\ phase' = "ended" /\ exit' = "killed" /\ phase # "ended"
        /\ job' = [p \in Probe |-> IF p \in Running THEN "killed" ELSE job[p]]
    BY <1>2 DEF Kill, health, pool
  <2>2. PhaseInv' /\ BootFailsOnConfigurationOnly'
    BY <2>1 DEF PhaseInv, BootFailsOnConfigurationOnly
  <2>3. StoppedMeansReleased'
    BY <1>i, <2>1 DEF StoppedMeansReleased
  <2>4. ASSUME NEW p \in Probe PROVE ProbeInv(p)'
    <3>1. \/ job'[p] = "killed" /\ job[p] \in {"is_dir", "write", "unlink", "unlink_after_error"}
          \/ job'[p] = job[p] /\ job[p] \notin {"is_dir", "write", "unlink", "unlink_after_error"}
      BY <2>1 DEF Running
    <3>2. ProbeInv(p)
      BY <1>i
    <3> QED
      BY <2>1, <3>1, <3>2 DEF ProbeInv
  <2>5. ASSUME NEW p \in Probe PROVE SessionInv(p)'
    BY <1>i, <2>1 DEF SessionInv, Stops
  <2> QED
    BY <1>t, <2>2, <2>3, <2>4, <2>5 DEF IInv
<1>3. ASSUME NEW p \in Probe, ProbeStep(p) PROVE IInv'
  <2>f. /\ \A q \in Probe \ {p} :
             /\ req'[q] = req[q] /\ job'[q] = job[q] /\ file'[q] = file[q]
             /\ storage'[q] = storage[q] /\ (q \in held' <=> q \in held)
        /\ UNCHANGED process /\ phase # "ended"
        /\ phase \in Stops => UNCHANGED <<req, idle, held>>
    BY <1>3, ProbeFrame
  <2>u. UNCHANGED <<phase, exit, deployment, settings, engine, tracer, events>>
    BY <2>f DEF process
  <2>1. ASSUME NEW q \in Probe PROVE ProbeInv(q)' /\ SessionInv(q)'
    <3>1. CASE q = p
      BY <1>3, <3>1, OwnStep
    <3>2. CASE q # p
      <4>1. ProbeInv(q) /\ SessionInv(q)
        BY <1>i
      <4>2. /\ req'[q] = req[q] /\ job'[q] = job[q] /\ file'[q] = file[q]
            /\ storage'[q] = storage[q] /\ (q \in held' <=> q \in held)
        BY <2>f, <3>2
      <4> QED
        BY <2>u, <4>1, <4>2 DEF ProbeInv, SessionInv
    <3> QED
      BY <3>1, <3>2
  <2>2. BootFailsOnConfigurationOnly'
    BY <1>i, <2>u DEF BootFailsOnConfigurationOnly
  <2>3. StoppedMeansReleased'
    <3>1. "application_stopped" \in events => UNCHANGED <<req, idle, held>>
      BY <1>i, <2>f DEF PhaseInv, Stops
    <3> QED
      BY <1>i, <2>u, <3>1 DEF StoppedMeansReleased
  <2>4. PhaseInv'
    <3>1. phase = "flush" => UNCHANGED idle
      BY <2>f DEF Stops
    <3> QED
      BY <1>i, <2>u, <3>1 DEF PhaseInv
  <2> QED
    BY <1>t, <2>1, <2>2, <2>3, <2>4 DEF IInv
<1>4. CASE UNCHANGED vars
  <2>1. UNCHANGED <<phase, exit, deployment, settings, engine, idle, held, tracer, events, req, job,
                    file, storage>>
    BY <1>4 DEF vars, process, health, threads, pool
  <2>2. PhaseInv' /\ BootFailsOnConfigurationOnly' /\ StoppedMeansReleased'
    BY <1>i, <2>1 DEF PhaseInv, BootFailsOnConfigurationOnly, StoppedMeansReleased
  <2>3. \A p \in Probe : ProbeInv(p)' /\ SessionInv(p)'
    BY <1>i, <2>1 DEF ProbeInv, SessionInv
  <2> QED
    BY <1>t, <2>2, <2>3 DEF IInv
<1> QED
  BY <1>1, <1>2, <1>3, <1>4 DEF Next, ProcessStep, ProbeStep

\* It holds in every state of the process.
LEMMA Invariance == Spec => []IInv
<1>1. Init => IInv
  BY InitIInv
<1>2. IInv /\ [Next]_vars => IInv'
  BY StepIInv
<1> QED
  BY <1>1, <1>2, PTL DEF Spec

-----------------------------------------------------------------------------
(* The theorems *)

\* The state keeps its types; in particular the settings a process runs with are always
\* the normalised ones of config/settings.py.
THEOREM Typing == Spec => []TypeOK
<1>1. IInv => TypeOK
  BY DEF IInv
<1> QED
  BY <1>1, Invariance, PTL

\* However many probes share the executor, and whatever deadlines, hanging disks and kills
\* do to them, check_health reports "up" only for a probe whose file was written and removed.
THEOREM UpIsClean == Spec => []UpLeavesNoProbe
<1>1. IInv => UpLeavesNoProbe
  <2> SUFFICES ASSUME IInv, NEW p \in Probe, storage[p] = "up"
               PROVE  ~file[p] /\ job[p] = "none"
    BY DEF UpLeavesNoProbe
  <2>1. ProbeInv(p)
    BY DEF IInv
  <2> QED
    BY <2>1 DEF ProbeInv
<1> QED
  BY <1>1, Invariance, PTL

\* A probe file always has a thread that will still remove it, unless the removal failed or
\* the process was killed under it.
THEOREM ProbeFilesGo == Spec => []ProbeFilesAreTemporary
<1>1. IInv => ProbeFilesAreTemporary
  <2> SUFFICES ASSUME IInv, NEW p \in Probe, file[p]
               PROVE  job[p] \in {"write", "unlink", "unlink_after_error", "left_behind", "killed"}
    BY DEF ProbeFilesAreTemporary
  <2>1. job[p] \notin {"none", "queued_is_dir", "is_dir", "queued_write"}
    BY DEF IInv, ProbeInv
  <2>2. job[p] \in {"none", "queued_is_dir", "is_dir", "queued_write", "write", "unlink",
                    "unlink_after_error", "left_behind", "killed"}
    BY DEF IInv, TypeOK
  <2> QED
    BY <2>1, <2>2
<1> QED
  BY <1>1, Invariance, PTL

\* A boot fails on the settings or on the deployment only: an unreachable database never
\* fails it, and no later startup step refuses what the validators accepted.
THEOREM BootFailures == Spec => []BootFailsOnConfigurationOnly
<1>1. IInv => BootFailsOnConfigurationOnly
  BY DEF IInv
<1> QED
  BY <1>1, Invariance, PTL

\* A process that has logged application_stopped holds no engine, no connection and no
\* unflushed span, and serves no request.
THEOREM StopReleases == Spec => []StoppedMeansReleased
<1>1. IInv => StoppedMeansReleased
  BY DEF IInv
<1> QED
  BY <1>1, Invariance, PTL
=============================================================================
