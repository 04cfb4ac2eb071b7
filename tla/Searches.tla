------------------------------ MODULE Searches ------------------------------
(***************************************************************************)
(* The search strategies a session can load: session-core.c finds the      *)
(* routines of the strategy that the client asked for with dlsym(), and    *)
(* calls them through pointers.  The state is tagged with the strategy.    *)
(***************************************************************************)
EXTENDS Exhaustive, RandomSearch

CONSTANTS Plugins,       \* the strategies that may be loaded
          SimplexSize, RejectType, MaxRounds, PerfCount

PRO == INSTANCE Pro
NM  == INSTANCE Nemo

Strategies == {"pro", "exhaustive", "random", "nm", "nemo"}

ASSUME SearchesAssumption ==
  /\ Plugins \subseteq Strategies
  /\ SimplexSize \in Nat \ {0, 1}
  /\ RejectType \in {"PENALTY", "RANDOM"}
  /\ {MaxRounds, MaxTrials, PerfCount} \subseteq Nat \ {0}

Loaded == [pro |-> PRO!ProInit, exhaustive |-> ExhaustiveInit, random |-> RandomInit,
           nm |-> NM!NMInit, nemo |-> NM!NemoInit]

SearchInit == {[plugin |-> p, state |-> Loaded[p]] : p \in Plugins}

(* What the routine of the strategy yields, in the terms of the session.   *)
Tagged(s, outcomes) == {[o EXCEPT !.next = [s EXCEPT !.state = o.next]] : o \in outcomes}

(* NEMO cannot be restarted: its phase counter runs out of the arrays that *)
(* it indexes.                                                             *)
SearchRestart(s) ==
  [s EXCEPT !.state = CASE s.plugin = "pro"        -> PRO!ProRestart(@)
                        [] s.plugin = "exhaustive" -> ExhaustiveRestart(@)
                        [] s.plugin = "random"     -> RandomRestart(@)
                        [] s.plugin = "nm"         -> NM!NMRestart(@)]

SearchGenerate(s) ==
  Tagged(s, CASE s.plugin = "pro"            -> PRO!ProGenerate(s.state)
              [] s.plugin = "exhaustive"     -> ExhaustiveGenerate(s.state)
              [] s.plugin = "random"         -> RandomGenerate(s.state)
              [] s.plugin \in {"nm", "nemo"} -> NM!NMGenerate(s.state))

SearchRejected(s, p, h) ==
  Tagged(s, CASE s.plugin = "pro"        -> PRO!ProRejected(s.state, p, h)
              [] s.plugin = "exhaustive" -> ExhaustiveRejected(s.state, p, h)
              [] s.plugin = "random"     -> RandomRejected(s.state, p, h)
              [] s.plugin = "nm"         -> NM!NMRejected(s.state, p, h)
              [] s.plugin = "nemo"       -> NM!NemoRejected(s.state, p, h))

SearchAnalyze(s, t) ==
  {[s EXCEPT !.state = n] :
     n \in CASE s.plugin = "pro"        -> PRO!ProAnalyze(s.state, t)
             [] s.plugin = "exhaustive" -> ExhaustiveAnalyze(s.state, t)
             [] s.plugin = "random"     -> RandomAnalyze(s.state, t)
             [] s.plugin = "nm"         -> NM!NMAnalyze(s.state, t)
             [] s.plugin = "nemo"       -> NM!NemoAnalyze(s.state, t)}

SearchBest(s) == IF s.plugin = "pro" THEN PRO!ProBest(s.state) ELSE s.state.best

SearchConverged(s) ==
  CASE s.plugin = "pro"            -> PRO!ProConverged(s.state)
    [] s.plugin = "exhaustive"     -> ExhaustiveConverged(s.state)
    [] s.plugin = "random"         -> FALSE
    [] s.plugin \in {"nm", "nemo"} -> NM!NMConverged(s.state)

=============================================================================
