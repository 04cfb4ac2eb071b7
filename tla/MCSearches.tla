----------------------------- MODULE MCSearches -----------------------------
(* A session with any one of the strategies and the layers of Layers.      *)
EXTENDS Harmony, Searches, Layers

NoLayers   == <<>>
AggLayer   == <<"agg">>
CacheLayer == <<"cache">>
Constraint == <<"constraint">>

(* A search space whose points are its positions.                          *)
OnePoint == <<1>>
ThreePoints == <<1, 2, 3>>
FourPoints  == <<1, 2, 3, 4>>

(* The exhaustive search is declared converged only once every point of    *)
(* the space has been measured.                                            *)
ConvergedMeansVisited ==
  strat.plugin = "exhaustive" /\ StrategyConverged(strat)
    => strat.state.measured = {Space[i] : i \in 1 .. Len(Space)}

(* Under the exhaustive strategy, a client that goes on fetching and       *)
(* reporting measures every point.                                         *)
VisitsAll ==
  <>(strat.plugin = "exhaustive" => strat.state.measured = {Space[i] : i \in 1 .. Len(Space)})

(* Every trial is analyzed in the end, or the search is over: after its    *)
(* last pass the exhaustive strategy sends the best point again and again  *)
(* under one id, and only the first of such trials can be reported.        *)
TrialsReturnOrConverged ==
  \A i \in Cells(InitCap) : (i \in Occupied) ~> (i \notin Occupied \/ StrategyConverged(strat))

(* Every search but the random one comes to an end.                        *)
EverySearchConverges == strat.plugin # "random" => []<>StrategyConverged(strat)

=============================================================================
