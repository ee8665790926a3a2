---------------------------- MODULE WizardEngine ----------------------------
(* The step engine of the interactive wizards (pkg/tui/wizard/engine.go): it   *)
(* walks the steps of a flow, skips those whose answer does not matter, takes  *)
(* from flags those that are preset, loads the choices of the others and asks  *)
(* the user, who may go back.  The closures of a flow's steps (wizard.go:57)   *)
(* are the operators below; they read and write "app", the options the caller  *)
(* bound to the flow together with what its loaders cache.                     *)
(*                                                                             *)
(* Values are strings: NilValue is Go's nil, "" an empty string or list.  One  *)
(* engine runs on one goroutine, so a step of the model is a stretch of        *)
(* stepLoop between two points where the outside may act: a loader's calls     *)
(* and the user's answer.                                                      *)
EXTENDS Naturals, Sequences, FiniteSetsExt, SequencesExt

CONSTANTS
  Starts,            \* the [flow, app] pairs a wizard may be started with
  Steps(_),          \* flow -> the sequence of its step names
  Required(_, _),    \* flow, step: Step.Required
  DependsOn(_, _),   \* flow, step: the set Step.DependsOn
  HasLoader(_, _),   \* flow, step: Step.Loader # nil
  Typed(_, _),       \* flow, step: what may be typed at a prompt without a list
  ShouldSkip(_, _, _),     \* flow, step, collected
  IsSet(_, _, _),          \* flow, step, app
  PresetValue(_, _, _),    \* flow, step, app: Step.Value
  Default(_, _, _, _),     \* flow, step, collected, app; NilValue: no default
  Valid(_, _, _),          \* flow, step, value: Step.Validate accepts it
  Setter(_, _, _, _),      \* flow, step, app, value -> app
  Resetter(_, _, _),       \* flow, step, app -> app
  Loads(_, _, _, _),       \* flow, step, collected, app -> possible outcomes
  MaxRewindsPerStep

ASSUME RewindsAssumption == MaxRewindsPerStep \in Nat

VARIABLES
  flow,       \* Engine.flow
  app,        \* the caller's options and the loaders' caches
  current,    \* Engine.current, counted from 1
  state,      \* stepRuntime.state by position
  collected,  \* Store.collected by step name; equals stepRuntime.value
  choices,    \* stepRuntime.choices; NotLoaded when loaded is false
  rewinds,    \* stepRuntime.rewindCount by position
  pc          \* where the engine is, or how Run ended

vars == <<flow, app, current, state, collected, choices, rewinds, pc>>

NilValue == "nil"
NotLoaded == {"not loaded"}
LoadError == {"load error"}
StepStates == {"pending", "fixed", "skipped", "autoSkipped", "completed"}
Ended == {"done", "failed", "cancelled"}

IsEmpty(v) == v \in {NilValue, ""}

Name(i) == Steps(flow)[i]
Positions == 1..Len(Steps(flow))

Init ==
  /\ \E s \in Starts : flow = s.flow /\ app = s.app
  /\ current = 1
  /\ state = [i \in Positions |-> "pending"]
  /\ collected = [s \in Range(Steps(flow)) |-> NilValue]
  /\ choices = [i \in Positions |-> NotLoaded]
  /\ rewinds = [i \in Positions |-> 0]
  /\ pc = "top"

-----------------------------------------------------------------------------
(* The engine's fields as one record, so that transitions compose.            *)
Engine == [app |-> app, current |-> current, state |-> state,
           collected |-> collected, choices |-> choices, rewinds |-> rewinds]

Becomes(e) ==
  /\ app' = e.app /\ current' = e.current /\ state' = e.state
  /\ collected' = e.collected /\ choices' = e.choices /\ rewinds' = e.rewinds
  /\ UNCHANGED flow

TransitionKeepingOption(e, i, to, value) ==      \* no Resetter on a skip
  [e EXCEPT !.app = IF to = "pending" THEN Resetter(flow, Name(i), @) ELSE @,
            !.state[i] = to, !.collected[Name(i)] = value,
            !.choices[i] = NotLoaded,
            !.rewinds[i] = IF to = "completed" THEN 0 ELSE @]

Transition(e, i, to, value) ==
  LET clears == to \in {"pending", "skipped"}
                  \/ (to = "autoSkipped" /\ value = NilValue)
  IN  [e EXCEPT !.app = IF clears THEN Resetter(flow, Name(i), @) ELSE @,
                !.state[i] = to, !.collected[Name(i)] = value,
                !.choices[i] = NotLoaded,
                !.rewinds[i] = IF to = "completed" THEN 0 ELSE @]

ResetRangeWithFixed(e, from, to) ==              \* forgets the preset steps
  FoldLeft(LAMBDA x, i : Transition(x, i, "pending", NilValue), e,
           [k \in 1..(to - from + 1) |-> from + k - 1])

ResetRange(e, from, to) ==                       \* both ends included
  FoldLeft(LAMBDA x, i : IF x.state[i] = "fixed" THEN x
                         ELSE Transition(x, i, "pending", NilValue),
           e, [k \in 1..(to - from + 1) |-> from + k - 1])

IsEditable(i) ==
  /\ state[i] \notin {"fixed", "autoSkipped"}
  /\ ~ShouldSkip(flow, Name(i), collected)

EditableBefore == {i \in 1..(current - 1) : IsEditable(i)}

(* The abandoned step itself is reset too.                                    *)
RewindOne(e) ==
  IF EditableBefore = {} THEN [e EXCEPT !.current = 1]
  ELSE [ResetRange(e, Max(EditableBefore), current)
          EXCEPT !.current = Max(EditableBefore)]

Dependencies == {i \in 1..(current - 1) :
                   Name(i) \in DependsOn(flow, Name(current))}

(* No step left whose other answer could change the outcome.                  *)
NoWayBack ==
  /\ DependsOn(flow, Name(current)) # {}
  /\ Dependencies # {} /\ ~\E i \in Dependencies : IsEditable(i)
  /\ \/ \A i \in Dependencies : state[i] = "fixed"
     \/ EditableBefore = {}

RewindToDependency(e) ==
  LET editable == {i \in Dependencies : IsEditable(i)}
  IN  IF editable # {}
      THEN [ResetRange(e, Max(editable), current - 1)
              EXCEPT !.current = Max(editable)]
      ELSE IF Dependencies # {}
      THEN [ResetRange(e, Min(EditableBefore), current)
              EXCEPT !.current = Min(EditableBefore)]
      ELSE RewindOne(e)

InvalidateDownstream(e, i) ==
  [e EXCEPT !.choices =
     [j \in Positions |-> IF Name(i) \in DependsOn(flow, Name(j))
                          THEN NotLoaded ELSE @[j]]]

-----------------------------------------------------------------------------
AtTop == pc = "top" /\ current \in Positions
Skips == ShouldSkip(flow, Name(current), collected)

Skip ==
  /\ AtTop /\ Skips
  /\ Becomes([Transition(Engine, current, "skipped", NilValue)
                EXCEPT !.current = current + 1])
  /\ UNCHANGED pc

(* handleFixed: the preset value goes through Validate and Setter like an     *)
(* answer; the cache and the rewind count of the step stay.                   *)
Fix ==
  /\ AtTop /\ ~Skips /\ IsSet(flow, Name(current), app)
  /\ LET v == PresetValue(flow, Name(current), app)
     IN  IF Valid(flow, Name(current), v)
         THEN /\ Becomes([Engine EXCEPT
                   !.app = Setter(flow, Name(current), app, v),
                   !.state[current] = "fixed",
                   !.collected[Name(current)] = v,
                   !.current = current + 1])
              /\ UNCHANGED pc
         ELSE pc' = "failed" /\ Becomes(Engine)

LoadChoices ==
  /\ AtTop /\ ~Skips /\ ~IsSet(flow, Name(current), app)
  /\ IF ~HasLoader(flow, Name(current)) \/ choices[current] # NotLoaded
     THEN pc' = "loaded" /\ Becomes(Engine)
     ELSE \E out \in Loads(flow, Name(current), collected, app) :
            IF out.choices = LoadError
            THEN pc' = "failed" /\ Becomes([Engine EXCEPT !.app = out.app])
            ELSE /\ pc' = "loaded"
                 /\ Becomes([Engine EXCEPT !.app = out.app,
                                           !.choices[current] = out.choices])

AtEmpty == /\ pc = "loaded" /\ HasLoader(flow, Name(current))
           /\ choices[current] = {}

AutoSkip ==
  /\ AtEmpty /\ ~Required(flow, Name(current))
  /\ LET v == Default(flow, Name(current), collected, app)
         e == IF v = NilValue THEN Engine
              ELSE [Engine EXCEPT !.app = Setter(flow, Name(current), @, v)]
     IN  Becomes([Transition(e, current, "autoSkipped", v)
                    EXCEPT !.current = current + 1])
  /\ pc' = "top"

RewindUncounted ==                               \* the guard never fires
  /\ AtEmpty /\ Required(flow, Name(current))
  /\ current > 1 /\ rewinds[current] < MaxRewindsPerStep /\ ~NoWayBack
  /\ Becomes(RewindToDependency(Engine))
  /\ pc' = "top"

(* A required step nothing can be chosen for: back to what it depends on,     *)
(* at most MaxRewindsPerStep times.                                           *)
AutoRewind ==
  /\ AtEmpty /\ Required(flow, Name(current))
  /\ current > 1 /\ rewinds[current] < MaxRewindsPerStep /\ ~NoWayBack
  /\ Becomes(RewindToDependency([Engine EXCEPT !.rewinds[current] = @ + 1]))
  /\ pc' = "top"

DeadEnd ==
  /\ AtEmpty /\ Required(flow, Name(current))
  /\ current = 1 \/ rewinds[current] >= MaxRewindsPerStep \/ NoWayBack
  /\ pc' = "failed" /\ Becomes(Engine)

AtPrompt == pc = "loaded" /\ ~AtEmpty
Offered == IF ~AtPrompt THEN {}
           ELSE IF HasLoader(flow, Name(current)) THEN choices[current]
           ELSE Typed(flow, Name(current))

(* handlePromptResult for an answer: default, required, Validate, Setter.     *)
Resolved(v) ==
  LET d == Default(flow, Name(current), collected, app)
  IN  IF ~Required(flow, Name(current)) /\ IsEmpty(v) /\ d # NilValue THEN d ELSE v

Accepted(v) ==
  /\ ~(Required(flow, Name(current)) /\ IsEmpty(Resolved(v)))
  /\ Valid(flow, Name(current), Resolved(v))

Answer(v) ==
  /\ AtPrompt /\ v \in Offered /\ Accepted(v)
  /\ LET e == [Engine EXCEPT
                 !.app = Setter(flow, Name(current), @, Resolved(v))]
     IN  Becomes([InvalidateDownstream(
                    Transition(e, current, "completed", Resolved(v)), current)
                    EXCEPT !.current = current + 1])
  /\ pc' = "top"

Reject ==
  /\ AtPrompt /\ \E v \in Offered : ~Accepted(v)
  /\ pc' = "top" /\ Becomes(Engine)

GoBack ==
  /\ AtPrompt /\ EditableBefore # {}
  /\ Becomes(RewindOne(Engine)) /\ pc' = "top"

(* Esc with nothing to go back to, Ctrl+C, and a prompt program that ends     *)
(* without an answer, which is an error.                                      *)
Leave ==
  /\ AtPrompt /\ pc' \in {"cancelled", "failed"} /\ Becomes(Engine)

Finish ==
  /\ pc = "top" /\ current > Len(Steps(flow))
  /\ pc' = "done" /\ Becomes(Engine)

Advance == Skip \/ Fix \/ LoadChoices \/ AutoSkip \/ AutoRewind \/ DeadEnd
             \/ Finish

Next == Advance \/ (\E v \in Offered : Answer(v)) \/ Reject \/ GoBack \/ Leave

(* The engine keeps running; the user, asked again and again, answers.        *)
Spec == /\ Init /\ [][Next]_vars
        /\ WF_vars(Advance) /\ SF_vars(\E v \in Offered : Answer(v))

=============================================================================
