------------------------------ MODULE Assembly ------------------------------
(***************************************************************************)
(* What createMastraEvolution (packages/adapters/src) and the presets put  *)
(* together from their options: the store, the learning and improvement    *)
(* runtimes, the evaluator, the publisher, and whether accepted lessons    *)
(* are promoted by themselves.  Everything is decided once, at start-up.   *)
(*                                                                         *)
(* What an application brings along is external: a store, an evaluator,    *)
(* an approval provider.  A promotion policy of its own is left out.       *)
(***************************************************************************)
EXTENDS Policies

CONSTANT None

LEARN_AUTONOMY == 1
ENTERPRISE_SKILL_AUTONOMY == 3
HOBBY_SKILL_AUTONOMY == 4

\* `value ?? default`
OrElse(value, default) == IF value = None THEN default ELSE value

\* A duck-typed Workspace: has it a file system with a base path, is it read
\* only, and can its tools configuration be set and read.
Workspace == [basePath : BOOLEAN, readOnly : BOOLEAN, setter : BOOLEAN, getter : BOOLEAN]

\* The store: the application's own (a LocalEvolutionStore, which has a
\* directory, or another one), or one beside the workspace made here.
Stores == {"local", "postgres", "workspace"}

\* Where a publisher writes: beside the workspace, in the directory of the
\* application's store, or where the application says.
Directories == {"workspace", "local", "given"}

LearningRuntime == [autonomy : AutonomyLevels]

ImprovementRuntime ==
  [autonomy             : AutonomyLevels,
   evaluator            : {"validator", "experiments", "external"},
   experimentsAvailable : BOOLEAN,
   policy               : {"default", "enterprise"},
   approval             : BOOLEAN,
   publisher            : Directories \cup {None}]

\* `true`, `false` or `{ enabled: false }`, a configuration, a runtime, or
\* nothing at all.
Form == {"true", "off", "config", "runtime", "absent"}

-----------------------------------------------------------------------------
(* Evaluators and the improvement runtime. *)

\* At autonomy 4 and 5 the default evaluator checks structure only; below, it
\* cannot tell.
resolveDefaultEvaluator(autonomy, evaluator) ==
  OrElse(evaluator, IF autonomy >= HOBBY_SKILL_AUTONOMY THEN "validator" ELSE "experiments")

\* What an evaluator may answer: the validator's list of regressions is what
\* it fails for; an external one may say anything.
Answers(evaluator) ==
  CASE evaluator = "validator" ->
         {e \in Evaluation : /\ e.structural /\ ~e.error
                             /\ e.verdict = IF e.regressions THEN "fail" ELSE "pass"}
    [] evaluator = "experiments" ->
         {e \in Evaluation : /\ e.verdict = "inconclusive" /\ e.error
                             /\ ~e.regressions /\ ~e.structural}
    [] evaluator = "external" -> Evaluation

\* config: what the application says of the evaluator, the experiments, the
\* approval and the policy.
constructImprovement(autonomy, publisher, policy, config) ==
  [autonomy             |-> autonomy,
   evaluator            |-> resolveDefaultEvaluator(autonomy, config.evaluator),
   experimentsAvailable |-> OrElse(config.experimentsAvailable,
                              config.evaluator # None \/ autonomy >= HOBBY_SKILL_AUTONOMY),
   policy               |-> policy,
   approval             |-> config.approval,
   publisher            |-> publisher]

Config == [evaluator            : {"external", None},
           experimentsAvailable : BOOLEAN \cup {None},
           approval             : BOOLEAN]

-----------------------------------------------------------------------------
(* createMastraEvolution. *)

\* `true` is no configuration and brings none.
NoConfig == [evaluator |-> None, experimentsAvailable |-> None, approval |-> FALSE]

LearningOption ==
  {l \in [form : Form, autonomy : AutonomyLevels \cup {None}] :
     l.form = "true" => l.autonomy = None}

\* enabled: `enabled: true` is in the configuration; runtime: the given one.
ImprovementOption ==
  {i \in [form : Form, enabled : BOOLEAN, autonomy : AutonomyLevels \cup {None},
          config : Config, runtime : ImprovementRuntime \cup {None}] :
     i.form = "true" => ~i.enabled /\ i.autonomy = None /\ i.config = NoConfig}

Option == [workspace   : Workspace \cup {None},
           store       : {"local", "postgres", None},
           learning    : LearningOption,
           improvement : ImprovementOption]

\* inspectWorkspace, skillPublisherDirectory
HasBasePath(w) == w # None /\ w.basePath
ReadOnly(w) == w # None /\ w.readOnly

willConstructLearning(learning) == learning.form \in {"true", "config"}

willConstructImprovement(improvement) ==
  \/ improvement.form = "true"
  \/ /\ improvement.form = "config"
     /\ improvement.enabled \/ improvement.autonomy # None

\* resolveStore; MISSING_WORKSPACE_ERROR where it throws.
resolveStore(o) ==
  CASE o.store # None -> o.store
    [] o.store = None /\ ~(willConstructLearning(o.learning)
                             \/ willConstructImprovement(o.improvement)) -> None
    [] OTHER -> "workspace"

MissingWorkspace(o) == resolveStore(o) = "workspace" /\ ~HasBasePath(o.workspace)

materializeLearning(o) ==
  IF o.learning.form \in {"true", "config", "runtime"}
  THEN [autonomy |-> OrElse(o.learning.autonomy, LEARN_AUTONOMY)]
  ELSE None

resolvePublisherDirectory(w, store) ==
  CASE ReadOnly(w) -> None
    [] ~ReadOnly(w) /\ store \in {"local", "workspace"} -> store
    [] ~ReadOnly(w) /\ store = "postgres" -> IF HasBasePath(w) THEN "workspace" ELSE None

materializeImprovement(o, store) ==
  CASE o.improvement.form = "runtime" -> o.improvement.runtime
    [] willConstructImprovement(o.improvement) ->
         constructImprovement(OrElse(o.improvement.autonomy, ENTERPRISE_SKILL_AUTONOMY),
                              resolvePublisherDirectory(o.workspace, store),
                              "default", o.improvement.config)
    [] OTHER -> None

shouldAutoPromote(improvement) ==
  improvement # None /\ improvement.autonomy >= HOBBY_SKILL_AUTONOMY

\* loop: attachImprovementLoop wraps the ingests; hooked: attachWorkspaceHooks
\* finds a setter; shared: another evolution of these options has the same store.
Evolution == [learning    : LearningRuntime \cup {None},
              improvement : ImprovementRuntime \cup {None},
              loop        : BOOLEAN,
              hooked      : BOOLEAN,
              getter      : BOOLEAN,
              shared      : BOOLEAN]

createMastraEvolution(o) ==
  LET store       == resolveStore(o)
      learning    == materializeLearning(o)
      improvement == materializeImprovement(o, store)
  IN [learning    |-> learning,
      improvement |-> improvement,
      loop        |-> learning # None /\ shouldAutoPromote(improvement) /\ store # None,
      hooked      |-> learning # None /\ o.workspace # None /\ o.workspace.setter,
      getter      |-> o.workspace # None /\ o.workspace.getter,
      shared      |-> o.store # None]

-----------------------------------------------------------------------------
(* Presets: options that hand over finished runtimes and their store. *)

Preset == [workspace : Workspace \cup {None},
           autonomy  : AutonomyLevels \cup {None},
           config    : Config]

Handing(p, store, improvement) ==
  [workspace   |-> p.workspace,
   store       |-> store,
   learning    |-> [form |-> "runtime", autonomy |-> OrElse(p.autonomy, LEARN_AUTONOMY)],
   improvement |-> [form |-> IF improvement = None THEN "off" ELSE "runtime",
                    enabled |-> FALSE, autonomy |-> None, config |-> p.config,
                    runtime |-> improvement]]

\* The publisher writes beside the store, whatever the workspace allows.
localEvolutionPreset(p) ==
  Handing(p, "local",
    constructImprovement(OrElse(p.autonomy, HOBBY_SKILL_AUTONOMY), "local", "default", p.config))

localLearningPreset(p) == Handing([p EXCEPT !.autonomy = None], "local", None)

\* The publisher, if any, is the application's; approval is required.
enterpriseGovernedPreset(p, publisher) ==
  Handing(p, "postgres",
    constructImprovement(OrElse(p.autonomy, ENTERPRISE_SKILL_AUTONOMY), publisher, "enterprise",
                         [p.config EXCEPT !.approval = TRUE]))

\* publisher: artifactDirectory is given.
cloudRunPreset(p, publisher) ==
  Handing(p, "postgres",
    constructImprovement(OrElse(p.autonomy, HOBBY_SKILL_AUTONOMY), publisher, "default", p.config))

-----------------------------------------------------------------------------
(* What promote makes of an evaluation, in an improvement runtime put       *)
(* together here: the loop's proposals are skills of one agent.             *)

policyDecision(improvement, proposal, evaluation) ==
  IF improvement.policy = "enterprise"
  THEN defaultEnterprisePromotionPolicy(proposal, evaluation, improvement.autonomy, 0)
  ELSE defaultPolicyFor(proposal, evaluation, improvement.autonomy, 0)

\* The evaluations that promote may decide on.
Evaluations(improvement) ==
  IF improvement.experimentsAvailable THEN Answers(improvement.evaluator)
  ELSE Answers("experiments")

\* Published at once, with nobody asked.
PublishesAlone(improvement, proposal, evaluation) ==
  /\ evaluation.verdict # "inconclusive"
  /\ policyDecision(improvement, proposal, evaluation) = "publish"
  /\ improvement.publisher # None
=============================================================================
