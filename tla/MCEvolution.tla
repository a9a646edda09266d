---------------------------- MODULE MCEvolution ----------------------------
(***************************************************************************)
(* A small instance of Evolution for TLC: one statement, one identity, two *)
(* callers, and options that cover the branches of Assembly.               *)
(***************************************************************************)
EXTENDS Evolution, TLC

CONSTANTS x, i

Fields(source, tool) == [sourceIdentity |-> source, toolCallId |-> tool]

Failure == [failed |-> TRUE, statement |-> x, learnable |-> TRUE,
            own |-> Fields(None, None), nested |-> Fields(None, None)]

\* A failure, its identity laid out in two ways, and a success.
SomeContexts ==
  {[Failure EXCEPT !.own = Fields(None, i)],
   [Failure EXCEPT !.own = Fields(i, None), !.nested = Fields(Unusable, i)],
   [Failure EXCEPT !.failed = FALSE]}

Says(kind, action, source) ==
  [kind |-> kind, statement |-> x, action |-> action, contradicts |-> None,
   learnable |-> TRUE, sourceIdentity |-> source]

\* Two skills, one with the identity that tool calls have too, and no signal.
SomePayloads ==
  {Says("procedure", "retain", i), Says("correction", "create-skill", None),
   Says("fact", None, None)}

Full == [basePath |-> TRUE, readOnly |-> FALSE, setter |-> TRUE, getter |-> TRUE]

External == [NoConfig EXCEPT !.evaluator = "external"]

Learn(form, autonomy) == [form |-> form, autonomy |-> autonomy]

Improve(form, autonomy, config) ==
  [form |-> form, enabled |-> FALSE, autonomy |-> autonomy, config |-> config, runtime |-> None]

Direct(workspace, store, learn, improve) ==
  [workspace |-> workspace, store |-> store, learning |-> learn, improvement |-> improve]

Preset5 == [workspace |-> Full, autonomy |-> 5, config |-> External]

\* Ways to assemble an evolution, one or two for each branch of Assembly; the
\* second, the enterprise preset and the last have no workspace, so that the
\* last throws.
SomeOptions ==
  {Direct(Full, None, Learn("true", None), Improve("config", None, NoConfig)),
   Direct(None, "postgres", Learn("config", 2), Improve("true", None, NoConfig)),
   Direct([Full EXCEPT !.getter = FALSE], "local", Learn("config", None),
          Improve("config", 4, External)),
   Direct([Full EXCEPT !.readOnly = TRUE], "local", Learn("true", None),
          Improve("config", 5, NoConfig)),
   Direct(Full, None, Learn("off", None), Improve("absent", None, NoConfig)),
   localEvolutionPreset([Preset5 EXCEPT !.autonomy = None, !.config = NoConfig]),
   localLearningPreset([Preset5 EXCEPT !.workspace = [Full EXCEPT !.setter = FALSE]]),
   enterpriseGovernedPreset([Preset5 EXCEPT !.workspace = None], "given"),
   cloudRunPreset(Preset5, "given"),
   Direct(None, None, Learn("true", None), Improve("absent", None, NoConfig))}

Symmetry == Permutations(Callers)
=============================================================================
