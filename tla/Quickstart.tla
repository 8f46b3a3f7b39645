----------------------------- MODULE Quickstart -----------------------------
(***************************************************************************)
(* operations/quickstart.py: repeated runs of the setup command over the   *)
(* two files it writes, .env and databricks.yml, and the workspace.  A run *)
(* reads at the start of a stage and writes key by key; it may be          *)
(* interrupted between any two writes and is then started again, with the  *)
(* same or with other arguments.                                           *)
(*                                                                         *)
(* An endpoint stands for its project, branch and database as well, and    *)
(* for its host.  Prompts are choices of the operator.                     *)
(***************************************************************************)
EXTENDS Integers, Sequences, SequencesExt

CONSTANTS Profiles,        \* profiles of the Databricks CLI
          PgEndpoints,     \* Lakebase autoscaling endpoints
          Instances,       \* provisioned Lakebase instances
          MaxExperiments,  \* bound on the experiments created
          MaxRuns,         \* bound on the runs of the command
          Templates,       \* what databricks.yml may be at first
          AppResources,    \* what an existing app may be bound to
          Absent,          \* databricks.yml has no such entry to update
          Empty            \* an empty value

Experiments == 0 .. MaxExperiments    \* 0 is the experiment of an existing app
Hosts == PgEndpoints \cup Instances

\* The app's resource: a postgres resource with its branch and database, which
\* may be missing, or a database resource with its instance.
Resource == [kind : {"autoscaling"}, target : PgEndpoints \cup {Empty}]
            \cup [kind : {"provisioned"}, target : Instances]

Env == [profile : Profiles \cup {Empty}, tracking : Profiles \cup {Empty},
        experiment : Experiments \cup {Empty}, endpoint : PgEndpoints \cup {Empty},
        instance : Instances \cup {Empty}, pghost : Hosts \cup {Empty},
        pguser : BOOLEAN, pgdatabase : BOOLEAN]

\* variable: the LAKEBASE_* variable of the app's environment; listed: the file
\* has other entries that begin with "- name:".
Yml == [app : BOOLEAN, experiment : Experiments \cup {Empty, Absent},
        variable : {"autoscaling", "provisioned", Absent},
        resource : Resource \cup {Absent}, listed : BOOLEAN]

\* app: an existing app to bind to; want and target: the Lakebase arguments.
Arguments == [app : BOOLEAN, want : {"nothing", "skip"}, target : {Empty}]
             \cup [app : BOOLEAN, want : {"endpoint", "create"}, target : PgEndpoints]
             \cup [app : BOOLEAN, want : {"instance"}, target : Instances]

\* lakebase_config; named says whether "branch" and "database" are in it.
Config == [kind : {"autoscaling"}, target : PgEndpoints \cup {Empty}, named : BOOLEAN]
          \cup [kind : {"provisioned"}, target : Instances, named : {TRUE}]

ASSUME QuickstartAssumption ==
    /\ {MaxExperiments, MaxRuns} \subseteq Nat
    /\ Templates \subseteq Yml
    /\ AppResources \subseteq [experiment : {0, Empty}, lakebase : Resource \cup {Empty}]
    /\ Empty \notin Profiles \cup Hosts \cup Experiments \cup Resource \cup Config
    /\ PgEndpoints \cap Instances = {} /\ Absent \notin Resource \cup Experiments

\* The Lakebase variable of a template names a resource that the template binds,
\* beside others.
ASSUME TemplatesAssumption ==
    \A t \in Templates :
       t.variable # Absent => t.listed /\ t.resource # Absent /\ t.resource.kind = t.variable

VARIABLES env, yml,        \* the two files
          experiments,     \* the experiments of the workspace
          lakebase,        \* how far the project of each endpoint is created
          stage,           \* of the running command, or "idle"
          args,            \* its arguments
          config,          \* its lakebase_config
          appExperiment,   \* its app_experiment_id
          pending,         \* the writes its stage has still to do
          runs,            \* how many runs were started
          history          \* facts only the properties read

files == <<env, yml>>
workspace == <<experiments, lakebase>>
locals == <<args, config, appExperiment>>
setupVars == <<files, workspace, stage, locals, pending, runs, history>>

Stages == {"idle", "auth", "bind", "seed", "experiment", "lakebase",
           "branch", "yml", "done"}

SetupTypeOK ==
    /\ env \in Env
    /\ yml \in Yml
    /\ experiments \subseteq Experiments
    /\ lakebase \in [PgEndpoints -> {"absent", "project", "branch"}]
    /\ stage \in Stages
    /\ args \in Arguments \cup {Empty}
    /\ config \in Config \cup {Empty}
    /\ appExperiment \in {0, Empty}
    /\ \A i \in DOMAIN pending : pending[i].file \in {"env", "yml"}
    /\ runs \in 0 .. MaxRuns
    /\ history \in [foreign : BOOLEAN, broken : BOOLEAN]

SetupInit ==
    /\ env = [profile |-> Empty, tracking |-> Empty, experiment |-> Empty, endpoint |-> Empty,
              instance |-> Empty, pghost |-> Empty, pguser |-> FALSE, pgdatabase |-> FALSE]
    /\ yml \in Templates
    /\ experiments = {0}
    /\ lakebase \in [PgEndpoints -> {"absent", "branch"}]
    /\ stage = "idle" /\ args = Empty /\ config = Empty /\ appExperiment = Empty
    /\ pending = << >>
    /\ runs = 0
    /\ history = [foreign |-> FALSE, broken |-> FALSE]

-----------------------------------------------------------------------------
(* Writes: update_env_file sets a key, databricks.yml is written at once. *)

SetEnv(key, value) == [file |-> "env", key |-> key, value |-> value]
SetYml(entries) == [file |-> "yml", entries |-> entries]

Write ==
    /\ stage \notin {"idle"} /\ pending # << >>
    /\ LET w == Head(pending) IN
       IF w.file = "env" THEN env' = [env EXCEPT ![w.key] = w.value] /\ UNCHANGED yml
       ELSE /\ yml' = [k \in DOMAIN yml |->
                          IF k \in DOMAIN w.entries THEN w.entries[k] ELSE yml[k]]
            /\ UNCHANGED env
    /\ pending' = Tail(pending)
    /\ UNCHANGED <<workspace, stage, locals, runs, history>>

\* A stage starts when the writes of the one before are done.
Reached(s) == stage = s /\ pending = << >>
Goes(s, writes) == stage' = s /\ pending' = writes

\* sys.exit(1), or the process is killed: the locals are gone.
Stops == /\ stage' = "idle" /\ pending' = << >>
         /\ args' = Empty /\ config' = Empty /\ appExperiment' = Empty

\* A write that is set aside when cond is false.
When(cond, writes) == IF cond THEN writes ELSE << >>

-----------------------------------------------------------------------------
(* Steps 1 to 3: start and authentication. *)

Run ==
    /\ stage = "idle" /\ runs < MaxRuns
    /\ \E a \in Arguments : args' = a
    /\ runs' = runs + 1
    /\ Goes("auth", << >>)
    /\ history' = [history EXCEPT !.foreign = FALSE]
    /\ UNCHANGED <<files, workspace, config, appExperiment>>

Authenticate ==
    /\ Reached("auth")
    /\ \E p \in Profiles :
         Goes("bind", << SetEnv("profile", p), SetEnv("tracking", p) >>)
    /\ UNCHANGED <<files, workspace, locals, runs, history>>

Interrupted ==
    /\ stage \notin {"idle", "done"}
    /\ Stops
    /\ history' = [history EXCEPT !.broken = @ \/ pending # << >>]
    /\ UNCHANGED <<files, workspace, runs>>

Finishes ==
    /\ Reached("done")
    /\ Stops
    /\ UNCHANGED <<files, workspace, runs, history>>

-----------------------------------------------------------------------------
(* Step 4: bind to an existing app and adopt its resources. *)

\* The endpoint of the app's branch is looked up for .env; the lookup may fail,
\* and the endpoint may have no host yet.
AppPostgres(e, found, host) ==
    When(found, << SetEnv("endpoint", e) >>)
    \o When(found /\ host, << SetEnv("pghost", e) >>)
    \o << SetEnv("instance", Empty), SetEnv("pgdatabase", TRUE) >>

AppDatabase(i, host) ==
    << SetEnv("instance", i), SetEnv("endpoint", Empty) >>
    \o When(host, << SetEnv("pghost", i) >>)
    \o << SetEnv("pgdatabase", TRUE) >>

\* A mutant of AdoptLakebase: the user is left to the Lakebase stage.
AdoptWithoutUser(resource, found, host) ==
    IF resource.kind = "provisioned" THEN AppDatabase(resource.target, host)
    ELSE AppPostgres(resource.target, found, host)

AdoptLakebase(resource, found, host) ==
    (IF resource.kind = "provisioned" THEN AppDatabase(resource.target, host)
     ELSE AppPostgres(resource.target, found, host))
    \o << SetEnv("pguser", TRUE) >>

\* get_app_resources answers with no resources when it fails.
BindApp ==
    /\ Reached("bind") /\ args.app
    /\ \/ /\ Goes("seed", << SetYml([app |-> TRUE]) >>)
          /\ UNCHANGED <<config, appExperiment, history>>
       \/ \E r \in AppResources, found \in BOOLEAN, host \in BOOLEAN :
             LET lake == r.lakebase IN
             /\ found => lake # Empty /\ lake.target # Empty
             /\ appExperiment' = r.experiment
             /\ config' = IF lake = Empty THEN Empty
                          ELSE [kind |-> lake.kind, target |-> lake.target,
                                named |-> lake.target # Empty]
             /\ Goes("seed", << SetYml([app |-> TRUE]) >>
                             \o When(lake # Empty, AdoptLakebase(lake, found, host)))
             /\ history' = [history EXCEPT
                    !.foreign = lake # Empty /\ lake.kind = "autoscaling" /\ ~found]
    /\ UNCHANGED <<files, workspace, args, runs>>

BindNothing ==
    /\ Reached("bind") /\ ~args.app
    /\ Goes("seed", << >>)
    /\ UNCHANGED <<files, workspace, locals, runs, history>>

-----------------------------------------------------------------------------
(* Step 5: the experiment. *)

\* A mutant of SaveExperiment: an experiment that .env names is saved.
SaveExperimentOnce(x) ==
    IF env.experiment = x THEN << >>
    ELSE << SetEnv("experiment", x) >>
         \o When(yml.experiment # Absent, << SetYml([experiment |-> x]) >>)

SaveExperiment(x) ==
    << SetEnv("experiment", x) >>
    \o When(yml.experiment # Absent, << SetYml([experiment |-> x]) >>)

SeedExperiment ==
    /\ Reached("seed")
    /\ IF appExperiment # Empty
       THEN Goes("lakebase", SaveExperiment(appExperiment))
       ELSE Goes("experiment",
                 When(env.experiment = Empty /\ yml.experiment \notin {Empty, Absent},
                      << SetEnv("experiment", yml.experiment) >>))
    /\ UNCHANGED <<files, workspace, locals, runs, history>>

ReuseExperiment ==
    /\ Reached("experiment")
    /\ env.experiment \in experiments
    /\ Goes("lakebase", SaveExperiment(env.experiment))
    /\ UNCHANGED <<files, workspace, locals, runs, history>>

\* Also when get_experiment fails for an experiment that exists.
CreateExperiment(x) ==
    /\ Reached("experiment")
    /\ x \in Experiments \ experiments
    /\ \A y \in Experiments \ experiments : x <= y
    /\ experiments' = experiments \cup {x}
    /\ Goes("lakebase", SaveExperiment(x))
    /\ UNCHANGED <<files, lakebase, locals, runs, history>>

DeleteExperiment ==
    /\ stage = "idle"
    /\ \E x \in experiments : experiments' = experiments \ {x}
    /\ UNCHANGED <<files, lakebase, stage, locals, pending, runs, history>>

-----------------------------------------------------------------------------
(* Step 6: Lakebase. *)

Required == args.want \in {"endpoint", "create", "instance"} \/ yml.variable # Absent

\* get_existing_lakebase_config: the endpoint first; no branch, no database.
Existing == IF env.endpoint # Empty
            THEN [kind |-> "autoscaling", target |-> env.endpoint, named |-> FALSE]
            ELSE IF env.instance # Empty
            THEN [kind |-> "provisioned", target |-> env.instance, named |-> TRUE]
            ELSE Empty

Reachable(e) == lakebase[e] = "branch"

MayReuse == args.want = "nothing" \/ (args.want = "skip" /\ Required)

KeepAppConfig ==
    /\ Reached("lakebase") /\ config # Empty
    /\ Goes("yml", << >>)
    /\ UNCHANGED <<files, workspace, locals, runs, history>>

ReuseLakebase ==
    /\ Reached("lakebase") /\ config = Empty /\ MayReuse
    /\ Existing # Empty
    /\ Existing.kind = "autoscaling" => Reachable(Existing.target)
    /\ config' = Existing
    /\ Goes("yml", << >>)
    /\ UNCHANGED <<files, workspace, args, appExperiment, runs, history>>

\* A mutant of SaveLakebase: what an earlier run saved is not cleared.
SaveLakebaseToo(c, host) ==
    << SetEnv(IF c.kind = "autoscaling" THEN "endpoint" ELSE "instance", c.target) >>
    \o When(host, << SetEnv("pghost", c.target) >>)
    \o << SetEnv("pguser", TRUE), SetEnv("pgdatabase", TRUE) >>

\* The writes of setup_lakebase, the same for every way to choose.
SaveLakebase(c, host) ==
    (IF c.kind = "autoscaling"
     THEN << SetEnv("endpoint", c.target), SetEnv("instance", Empty) >>
     ELSE << SetEnv("instance", c.target), SetEnv("endpoint", Empty) >>)
    \o When(host, << SetEnv("pghost", c.target) >>)
    \o << SetEnv("pguser", TRUE), SetEnv("pgdatabase", TRUE) >>

\* The arguments decide; without them the operator is asked.
Chosen(c, how) ==
    CASE args.want \in {"create", "endpoint", "instance"} ->
             how = args.want /\ c.target = args.target
      [] args.want = "nothing" -> TRUE
      [] args.want = "skip" -> Required

SetUpLakebase ==
    /\ Reached("lakebase") /\ config = Empty
    /\ \E c \in Config, host \in BOOLEAN :
          /\ c.named /\ c.target # Empty
          /\ Chosen(c, IF c.kind = "provisioned" THEN "instance" ELSE "endpoint")
          /\ c.kind = "autoscaling" => Reachable(c.target)
          /\ config' = c
          /\ Goes("yml", SaveLakebase(c, host))
    /\ UNCHANGED <<files, workspace, args, appExperiment, runs, history>>

\* create_lakebase_instance: three calls, the last one the validation.
CreateProject(e) ==
    /\ Reached("lakebase") /\ config = Empty
    /\ LET c == [kind |-> "autoscaling", target |-> e, named |-> TRUE] IN
       Chosen(c, "create") /\ config' = c
    /\ lakebase[e] = "absent"
    /\ lakebase' = [lakebase EXCEPT ![e] = "project"]
    /\ Goes("branch", << >>)
    /\ UNCHANGED <<files, experiments, args, appExperiment, runs, history>>

CreateBranch ==
    /\ Reached("branch")
    /\ lakebase' = [lakebase EXCEPT ![config.target] = "branch"]
    /\ \E host \in BOOLEAN : Goes("yml", SaveLakebase(config, host))
    /\ UNCHANGED <<files, experiments, locals, runs, history>>

\* The branch is created, and its endpoint cannot be resolved yet.
CreatedUnresolved ==
    /\ Reached("branch")
    /\ lakebase' = [lakebase EXCEPT ![config.target] = "branch"]
    /\ Stops
    /\ UNCHANGED <<files, experiments, runs, history>>

SkipLakebase ==
    /\ Reached("lakebase") /\ config = Empty /\ ~Required
    /\ Goes("yml", << >>)
    /\ UNCHANGED <<files, workspace, locals, runs, history>>

-----------------------------------------------------------------------------
(* update_databricks_yml_lakebase: one write of both entries. *)

\* A mutant of LakebaseEntries: a resource of the other kind is only removed.
LakebaseEntriesInPlace(c) ==
    [variable |-> IF yml.variable = Absent THEN Absent ELSE c.kind,
     resource |-> IF yml.resource = Absent \/ yml.resource.kind # c.kind THEN Absent
                  ELSE [kind |-> c.kind, target |-> IF c.named THEN c.target ELSE Empty]]

\* A resource of the kind is rewritten; one that takes the place of the other
\* kind, and a provisioned one at any time, is added after the last entry.
Rewrites(c) == yml.resource # Absent /\ yml.resource.kind = c.kind
Adds(c) == /\ yml.listed \/ yml.variable # Absent
           /\ yml.resource # Absent \/ c.kind = "provisioned"

LakebaseEntries(c) ==
    [variable |-> IF yml.variable = Absent THEN Absent ELSE c.kind,
     resource |-> IF Rewrites(c) \/ Adds(c)
                  THEN [kind |-> c.kind, target |-> IF c.named THEN c.target ELSE Empty]
                  ELSE Absent]

UpdateYml ==
    /\ Reached("yml")
    /\ Goes("done", When(config # Empty, << SetYml(LakebaseEntries(config)) >>))
    /\ UNCHANGED <<files, workspace, locals, runs, history>>

StageStep ==
    \/ Authenticate \/ BindApp \/ BindNothing
    \/ SeedExperiment \/ ReuseExperiment \/ (\E x \in Experiments : CreateExperiment(x))
    \/ KeepAppConfig \/ ReuseLakebase \/ SetUpLakebase \/ SkipLakebase
    \/ (\E e \in PgEndpoints : CreateProject(e)) \/ CreateBranch \/ CreatedUnresolved
    \/ UpdateYml

SetupNext == Run \/ StageStep \/ Write \/ Interrupted \/ Finishes \/ DeleteExperiment

SetupSpec == SetupInit /\ [][SetupNext]_setupVars

-----------------------------------------------------------------------------
(* Properties of a run that completes, whatever runs were interrupted before. *)

Completed == Reached("done")

\* The app's environment never refers to a resource that databricks.yml does
\* not bind, nor to one of the other kind, not even after an interruption.
VariableHasItsResource ==
    yml.variable # Absent =>
        yml.resource # Absent /\ yml.resource.kind = yml.variable

\* .env and databricks.yml name one experiment and one profile: what an
\* interrupted run wrote to one file only, the next run writes to the other; and
\* within databricks.yml the variable and the resource agree at any time.
FilesAgree ==
    /\ VariableHasItsResource
    /\ Completed => /\ env.experiment # Empty
                    /\ yml.experiment \in {Absent, env.experiment}
                    /\ env.tracking = env.profile

\* The Lakebase that .env names is the one that databricks.yml binds, unless
\* the endpoint of the app's own branch could not be looked up.
LocalMatchesDeployed ==
    /\ Completed /\ config # Empty /\ ~history.foreign
    /\ yml.resource # Absent /\ yml.resource.target # Empty
    => Existing.target = yml.resource.target

\* If no run was interrupted while it wrote, a completed one that chose a
\* Lakebase leaves a user and a database to connect with.
ConnectionIsComplete ==
    Completed /\ config # Empty /\ ~history.broken => env.pguser /\ env.pgdatabase

\* The comment at the reuse of a Lakebase calls it idempotency: a further run
\* does not take the branch and the database from a postgres resource.
RerunKeepsBranch ==
    [][/\ yml.resource # Absent /\ yml.resource.target # Empty
       /\ yml'.resource.kind = yml.resource.kind
       => yml'.resource.target # Empty]_setupVars
=============================================================================
