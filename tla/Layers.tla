------------------------------- MODULE Layers -------------------------------
(***************************************************************************)
(* Processing layers, as the operators a session calls, and the layer      *)
(* stack: Stack[k] names the plug-in at position k.                        *)
(*                                                                         *)
(*   "agg"         agg.c: a point is measured AggTimes times               *)
(*   "constraint"  constraint.c: points outside ValidVals are rejected     *)
(*   "codegen"     codegen.c: a point waits until the code server has      *)
(*                 generated the code for its values                       *)
(*   "cache"       cache.c: values that were measured are not tried again  *)
(***************************************************************************)
EXTENDS HMesg, Sequences

CONSTANTS Stack,       \* the layers, in loading order
          AggTimes,    \* AGG_TIMES
          ValidVals    \* values that satisfy the constraints

ASSUME LayersAssumption ==
  /\ \A k \in 1 .. Len(Stack) : Stack[k] \in {"agg", "constraint", "codegen", "cache"}
  /\ AggTimes \in Nat \ {0}
  /\ ValidVals \subseteq Vals

Verdict(state, status, perf) ==
  [next |-> state, status |-> status, hint |-> HPOINT_INITIALIZER, perf |-> perf]

-----------------------------------------------------------------------------
(* agg.c: the storage list gathers the reports of each point.  A cell is   *)
(* free when its id is -1; array_grow adds free cells at the end, so the   *)
(* list is kept only up to the last cell used.                             *)
FreeCell == [id |-> -1, count |-> 0, perf |-> Infinity]

(* The cell agg_analyze() uses for a point: the first that holds its id or *)
(* is free, or else a new one.                                             *)
AggCell(slist, id) ==
  LET fits == {i \in 1 .. Len(slist) : slist[i].id \in {id, -1}}
  IN  IF fits = {} THEN Len(slist) + 1 ELSE CHOOSE i \in fits : \A j \in fits : i <= j

(* agg_analyze(): one more report; below AGG_TIMES the point is tried      *)
(* again, else the aggregate is passed on (AGG_MIN; the others differ only *)
(* in the value) and the cell is free.                                     *)
AggAnalyze_NotCounted(slist, trial) ==
  LET i     == AggCell(slist, trial.id)
      grown == IF i > Len(slist) THEN Append(slist, FreeCell) ELSE slist
      cell  == [id |-> trial.id, count |-> grown[i].count, perf |-> trial.perf]
  IN  {Verdict([grown EXCEPT ![i] = cell], "RETRY", trial.perf)}

AggAnalyze(slist, trial) ==
  LET i     == AggCell(slist, trial.id)
      grown == IF i > Len(slist) THEN Append(slist, FreeCell) ELSE slist
      count == grown[i].count + 1
      low   == IF grown[i].perf > trial.perf THEN trial.perf ELSE grown[i].perf
      cell  == [id |-> trial.id, count |-> count, perf |-> low]
  IN  IF count < AggTimes
        THEN {Verdict([grown EXCEPT ![i] = cell], "RETRY", trial.perf)}
        ELSE {Verdict([grown EXCEPT ![i] = FreeCell], "ACCEPT", low)}

-----------------------------------------------------------------------------
ConstraintGenerate(s, trial) ==
  {Verdict(s, IF trial.val \in ValidVals THEN "ACCEPT" ELSE "REJECT", trial.perf)}

-----------------------------------------------------------------------------
(* codegen.c: log[v] is the state of the code for values v, and server the *)
(* points sent to the code server and not yet answered, in order:          *)
(* codegen-helper.c hands the answers on in the order of the requests,     *)
(* whichever is ready first (AnswersInOrder in CodeServer).                *)
CodegenInit == [log |-> [v \in Vals |-> "NONE"], server |-> <<>>]

CodegenGenerate_NoWait(s, trial) ==
  IF s.log[trial.val] # "NONE"
    THEN {Verdict(s, "ACCEPT", trial.perf)}
    ELSE {Verdict([log    |-> [s.log EXCEPT ![trial.val] = "REQUESTED"],
                   server |-> Append(s.server, [id |-> trial.id, val |-> trial.val])],
                  "WAIT", trial.perf)}

CodegenGenerate(s, trial) ==
  CASE s.log[trial.val] = "COMPLETE"  -> {Verdict(s, "ACCEPT", trial.perf)}
    [] s.log[trial.val] = "REQUESTED" -> {Verdict(s, "WAIT", trial.perf)}
    [] OTHER -> {Verdict([log    |-> [s.log EXCEPT ![trial.val] = "REQUESTED"],
                          server |-> Append(s.server, [id |-> trial.id, val |-> trial.val])],
                         "WAIT", trial.perf)}

(* codegen_callback(): the server answers the oldest request, and the      *)
(* waiting trial with the id of the answer goes on.                        *)
CodegenCallback(s, trials) ==
  {[next   |-> [log    |-> [s.log EXCEPT ![Head(s.server).val] = "COMPLETE"],
                server |-> Tail(s.server)],
    status |-> "ACCEPT", hint |-> HPOINT_INITIALIZER, slot |-> i]
     : i \in {j \in DOMAIN trials : s.server # <<>> /\ trials[j].id = Head(s.server).id}}

-----------------------------------------------------------------------------
(* cache.c, without a log file to start from.  perfs[v] are the results on *)
(* record for values v, in order; count[v] tells which of them is next and *)
(* total[v] how many there were when they were last all used.  skip marks  *)
(* a trial answered from the cache until it has been analyzed.             *)
CacheInit ==
  LET all(x) == [v \in Vals \cup {NoVal} |-> x]
  IN  [perfs |-> all(<<>>), count |-> all(0), total |-> all(0), skip |-> FALSE]

(* cache_generate(): a trial with known values goes to the analysis with   *)
(* the next result on record; count 0 stands for the first one as well.    *)
(* HFLOW_ACCEPT, returned once the search has converged, is not 0, and so  *)
(* an error to the caller.                                                 *)
CacheGenerate(s, trial, converged) ==
  LET v       == trial.val
      known   == Len(s.perfs[v])
      wrapped == IF s.total[v] > 0 /\ s.count[v] > s.total[v]
                   THEN (s.count[v] % s.total[v]) + 1 ELSE s.count[v]
      over    == wrapped > known
      nth     == IF over THEN wrapped % known ELSE wrapped
  IN  CASE converged  -> {Verdict(s, "ERROR", trial.perf)}
        [] known = 0 /\ ~converged -> {Verdict(s, "ACCEPT", trial.perf)}
        [] OTHER -> {Verdict([s EXCEPT !.skip = TRUE, !.count[v] = nth,
                                       !.total[v] = IF over THEN known ELSE @],
                             "RETURN", s.perfs[v][IF nth = 0 THEN 1 ELSE nth])}

CacheAnalyze_KeepsSkip(s, trial) ==
  LET v == trial.val
  IN  {Verdict([s EXCEPT !.perfs[v] = IF s.skip THEN @ ELSE Append(@, trial.perf),
                         !.count[v] = IF s.perfs[v] = <<>> THEN 2 ELSE @ + 1],
               "ACCEPT", trial.perf)}

(* cache_analyze(): a measured result goes on record, and the values have  *)
(* been visited once more.                                                 *)
CacheAnalyze(s, trial) ==
  LET v == trial.val
  IN  {Verdict([s EXCEPT !.perfs[v] = IF s.skip THEN @ ELSE Append(@, trial.perf),
                         !.count[v] = IF s.perfs[v] = <<>> THEN 2 ELSE @ + 1,
                         !.skip = FALSE],
               "ACCEPT", trial.perf)}

-----------------------------------------------------------------------------
(* The stack: which routine runs at layer k; a missing one accepts.        *)
StackInit(k) ==
  CASE Stack[k] = "codegen" -> CodegenInit
    [] Stack[k] = "cache"   -> CacheInit
    [] OTHER                -> <<>>

StackGenerate(k, s, trial, converged) ==
  CASE Stack[k] = "constraint" -> ConstraintGenerate(s, trial)
    [] Stack[k] = "codegen"    -> CodegenGenerate(s, trial)
    [] Stack[k] = "cache"      -> CacheGenerate(s, trial, converged)
    [] OTHER                   -> {Verdict(s, "ACCEPT", trial.perf)}

StackAnalyze(k, s, trial) ==
  CASE Stack[k] = "agg"   -> AggAnalyze(s, trial)
    [] Stack[k] = "cache" -> CacheAnalyze(s, trial)
    [] OTHER              -> {Verdict(s, "ACCEPT", trial.perf)}

StackCallback(k, s, trials) ==
  IF Stack[k] = "codegen" THEN CodegenCallback(s, trials) ELSE {}

(* Layers that register a callback when they are initialized.              *)
StackLen == Len(Stack)

StackCallbacks == SelectSeq([k \in 1 .. Len(Stack) |-> k], LAMBDA k : Stack[k] = "codegen")

=============================================================================
