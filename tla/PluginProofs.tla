---------------------------- MODULE PluginProofs ----------------------------
(***************************************************************************)
(* The PRO strategy and the layers of Layers keep the contract that the    *)
(* theorems on the session assume of its plug-ins, for every size of the   *)
(* simplex, every stack of layers and every AGG_TIMES; so those theorems   *)
(* hold of the sessions that the runs check. The last section is about the *)
(* flag by which the cache tells a trial's way in from its way out.        *)
(***************************************************************************)
EXTENDS HarmonyProofs, MCHarmonyPro

(* The session runs PRO ...                                                *)
UsesPro ==
  /\ StrategyInit = {ProInit}
  /\ \A s : /\ StrategyRestart(s) = ProRestart(s)
            /\ StrategyGenerate(s) = ProGenerate(s)
            /\ StrategyBest(s) = ProBest(s)
            /\ StrategyConverged(s) = ProConverged(s)
  /\ \A s, t : StrategyAnalyze(s, t) = ProAnalyze(s, t)
  /\ \A s, p, h : StrategyRejected(s, p, h) = ProRejected(s, p, h)

(* ... and the layers of Stack.                                            *)
UsesStack ==
  /\ LstackLen = StackLen
  /\ \A k : LayerInit(k) = StackInit(k)
  /\ \A k, s, t : /\ \A b : LayerGenerate(k, s, t, b) = StackGenerate(k, s, t, b)
                  /\ LayerAnalyze(k, s, t) = StackAnalyze(k, s, t)
                  /\ LayerCallback(k, s, t) = StackCallback(k, s, t)

-----------------------------------------------------------------------------
(* Sending a vertex leaves a state of the strategy.                        *)
LEMMA ProSendType ==
  ASSUME NEW s \in ProState, s.send_idx # SimplexSize
  PROVE  ProSend(s) \subseteq [next : ProState, status : {"ACCEPT"}, point : Point]
<1> SUFFICES ASSUME NEW v \in Vals
             PROVE  /\ [s EXCEPT !.test[s.send_idx] = s.next_id,
                                 !.next_id = @ + 1,
                                 !.send_idx = @ + 1] \in ProState
                    /\ [id |-> s.next_id, val |-> v] \in Point
  BY DEF ProSend
<1>1. /\ s.send_idx \in Vertices /\ s.send_idx + 1 \in 0 .. SimplexSize
      /\ s.next_id \in Nat /\ s.test \in [Vertices -> Nat]
  <2>1. /\ s.send_idx \in 0 .. SimplexSize
        /\ s.next_id \in Nat /\ s.test \in [Vertices -> Nat]
    BY DEF ProState
  <2> QED BY <2>1, ProAssumption DEF Vertices
<1> DEFINE test == [s.test EXCEPT ![s.send_idx] = s.next_id]
           kept == [s EXCEPT !.test = test]
           next == [kept EXCEPT !.next_id = s.next_id + 1]
           sent == [next EXCEPT !.send_idx = s.send_idx + 1]
<1>2. test \in [Vertices -> Nat]
  BY <1>1
<1>3. sent = [s EXCEPT !.test[s.send_idx] = s.next_id, !.next_id = @ + 1, !.send_idx = @ + 1]
  BY DEF ProState
<1> HIDE DEF test
<1>4. sent \in ProState
  <2>1. kept \in ProState
    BY <1>2 DEF ProState
  <2> HIDE DEF kept
  <2>2. next \in ProState
    BY <1>1, <2>1 DEF ProState
  <2> HIDE DEF next
  <2> QED BY <1>1, <2>2 DEF ProState
<1>5. [id |-> s.next_id, val |-> v] \in Point
  BY <1>1 DEF Point
<1> HIDE DEF sent
<1> QED
  BY <1>3, <1>4, <1>5

(* Accounting for a vertex leaves states of the strategy.                  *)
LEMMA ProCountType ==
  ASSUME NEW s \in ProState
  PROVE  ProCount(s) \subseteq ProState
<1> DEFINE counted == [s EXCEPT !.reported = @ + 1]
<1>1. counted \in ProState
  BY DEF ProState
<1> HIDE DEF counted
<1>2. ProAlgorithm(counted) \subseteq ProState
  <2> DEFINE rounds == IF counted.converged THEN counted.rounds ELSE counted.rounds + 1
  <2>1. rounds \in Nat /\ 0 \in 0 .. SimplexSize
    BY <1>1, ProAssumption DEF ProState
  <2>2. ASSUME NEW d \in BOOLEAN
        PROVE  [counted EXCEPT !.converged = d, !.rounds = rounds,
                               !.reported = 0, !.send_idx = 0] \in ProState
    <3> HIDE DEF rounds
    <3> QED BY <1>1, <2>1 DEF ProState
  <2> QED BY <2>2 DEF ProAlgorithm
<1>3. ProCount(s) \subseteq ProAlgorithm(counted) \cup {counted}
  BY DEF ProCount, counted
<1> QED
  BY <1>1, <1>2, <1>3

(* The PRO strategy keeps the contract.                                    *)
THEOREM ProKeepsContract ==
  ASSUME UsesPro
  PROVE  StrategyContract(ProState)
<1>1. HPOINT_INITIALIZER \in Point
  BY InitialType
<1>2. ProInit \in ProState
  <2>1. 0 \in 0 .. SimplexSize /\ [i \in Vertices |-> 0] \in [Vertices -> Nat]
    BY ProAssumption
  <2> QED BY <1>1, <2>1, MesgAssumption DEF ProInit, ProState
<1> SUFFICES ASSUME NEW s \in ProState
             PROVE  /\ ProRestart(s) \in ProState
                    /\ ProBest(s) \in Point
                    /\ ProConverged(s) \in BOOLEAN
                    /\ ProGenerate(s)
                         \subseteq [next : ProState, status : {"ACCEPT", "WAIT"}, point : Point]
                    /\ \A p, h \in Point :
                         ProRejected(s, p, h)
                           \subseteq [next : ProState, status : {"ACCEPT", "WAIT", "ERROR"},
                                      point : Point]
                    /\ \A t \in Trials : ProAnalyze(s, t) \subseteq ProState
  BY <1>2 DEF UsesPro, StrategyContract
<1>3. ProRestart(s) \in ProState
  BY <1>2 DEF ProRestart, ProState
<1>4. ProBest(s) \in Point /\ ProConverged(s) \in BOOLEAN
  BY DEF ProBest, ProConverged, ProState
<1>5. ProGenerate(s) \subseteq [next : ProState, status : {"ACCEPT", "WAIT"}, point : Point]
  <2>1. CASE s.send_idx = SimplexSize \/ s.converged
    BY <1>1, <2>1 DEF ProGenerate
  <2>2. CASE ~(s.send_idx = SimplexSize \/ s.converged)
    <3>1. ProSend(s) \subseteq [next : ProState, status : {"ACCEPT"}, point : Point]
      BY <2>2, ProSendType
    <3> QED BY <2>2, <3>1 DEF ProGenerate
  <2> QED BY <2>1, <2>2
<1>6. ASSUME NEW p \in Point, NEW h \in Point
      PROVE  ProRejected(s, p, h)
               \subseteq [next : ProState, status : {"ACCEPT", "WAIT", "ERROR"}, point : Point]
  <2>1. CASE ProVertex(s, p.id) = {}
    BY <2>1 DEF ProRejected
  <2>2. CASE ProVertex(s, p.id) # {} /\ h.id # -1
    <3>1. [h EXCEPT !.id = p.id] \in Point
      BY DEF Point
    <3> QED BY <2>2, <3>1 DEF ProRejected
  <2>3. CASE ProVertex(s, p.id) # {} /\ h.id = -1 /\ RejectType = "RANDOM"
    <3>1. \A v \in Vals : [id |-> p.id, val |-> v] \in Point
      BY DEF Point
    <3> QED BY <2>3, <3>1 DEF ProRejected
  <2>4. CASE ProVertex(s, p.id) # {} /\ h.id = -1 /\ RejectType # "RANDOM"
    <3>1. ProRejected(s, p, h)
            = UNION {IF n.send_idx = SimplexSize
                       THEN {[next |-> n, status |-> "WAIT", point |-> p]}
                       ELSE ProSend(n) : n \in ProCount(s)}
      BY <2>4 DEF ProRejected
    <3>2. ASSUME NEW n \in ProCount(s)
          PROVE  (IF n.send_idx = SimplexSize
                    THEN {[next |-> n, status |-> "WAIT", point |-> p]}
                    ELSE ProSend(n))
                   \subseteq [next : ProState, status : {"ACCEPT", "WAIT", "ERROR"}, point : Point]
      <4>1. n \in ProState
        BY ProCountType
      <4>2. CASE n.send_idx = SimplexSize
        BY <4>1, <4>2
      <4>3. CASE n.send_idx # SimplexSize
        <5>1. ProSend(n) \subseteq [next : ProState, status : {"ACCEPT"}, point : Point]
          BY <4>1, <4>3, ProSendType
        <5> QED BY <4>3, <5>1
      <4> QED BY <4>2, <4>3
    <3> QED BY <3>1, <3>2
  <2> QED BY <2>1, <2>2, <2>3, <2>4
<1>7. ASSUME NEW t \in Trials PROVE ProAnalyze(s, t) \subseteq ProState
  <2> DEFINE better == s.best_perf > t.perf
             kept(n) == [n EXCEPT !.best = IF better THEN [id |-> t.id, val |-> t.val] ELSE n.best,
                                  !.best_perf = IF better THEN t.perf ELSE n.best_perf]
  <2>1. [id |-> t.id, val |-> t.val] \in Point /\ t.perf \in Nat
    BY MesgAssumption DEF Trials, Point
  <2>2. ASSUME NEW n \in ProState PROVE kept(n) \in ProState
    <3> HIDE DEF better
    <3> QED BY <2>1 DEF ProState
  <2>3. ProAnalyze(s, t) \subseteq {s} \cup {kept(n) : n \in ProCount(s)}
    BY DEF ProAnalyze
  <2> HIDE DEF kept
  <2> QED BY <2>2, <2>3, ProCountType
<1> QED
  BY <1>3, <1>4, <1>5, <1>6, <1>7

-----------------------------------------------------------------------------
(* The states of each layer.                                               *)
AggCells == [id : Int, count : Nat, perf : Perfs \cup {Infinity}]

CodegenStates == [log : [Vals -> {"NONE", "REQUESTED", "COMPLETE"}], server : Seq(Point)]

Entries == Vals \cup {NoVal}

CacheStates == [perfs : [Entries -> Seq(Perfs \cup {Infinity})], count : [Entries -> Nat],
                total : [Entries -> Nat], skip : BOOLEAN]

StackStates ==
  [k \in 1 .. LstackLen |->
     CASE Stack[k] = "agg"     -> Seq(AggCells)
       [] Stack[k] = "codegen" -> CodegenStates
       [] Stack[k] = "cache"   -> CacheStates
       [] OTHER                -> {<<>>}]

(* A verdict is one that workflow_transition has a case for.               *)
LEMMA VerdictType ==
  ASSUME NEW X, NEW s \in X, NEW status \in LayerStatuses, NEW p \in Perfs \cup {Infinity}
  PROVE  Verdict(s, status, p)
           \in [next : X, status : LayerStatuses, hint : Point, perf : Perfs \cup {Infinity}]
  BY InitialType DEF Verdict

(* The agg layer's storage list stays a list of cells.                     *)
LEMMA AggType ==
  ASSUME NEW s \in Seq(AggCells), NEW t \in Trials
  PROVE  AggAnalyze(s, t)
           \subseteq [next : Seq(AggCells), status : LayerStatuses, hint : Point,
                      perf : Perfs \cup {Infinity}]
<1> DEFINE i     == AggCell(s, t.id)
<1>1. FreeCell \in AggCells
  BY DEF FreeCell, AggCells
<1>2. i \in 1 .. Len(s) + 1
  <2> DEFINE fits == {j \in 1 .. Len(s) : s[j].id \in {t.id, -1}}
  <2>1. CASE fits = {}
    <3>1. i = Len(s) + 1
      BY <2>1 DEF AggCell
    <3> HIDE DEF i
    <3>2. Len(s) \in Nat
      OBVIOUS
    <3> QED BY <3>1, <3>2
  <2>2. CASE fits # {}
    <3>1. i = First(fits)
      BY <2>2 DEF AggCell, First
    <3>2. fits \in SUBSET Nat /\ fits \subseteq 1 .. Len(s)
      OBVIOUS
    <3> HIDE DEF fits, i
    <3>3. First(fits) \in fits
      BY <2>2, <3>2, FirstType
    <3>4. Len(s) \in Nat
      OBVIOUS
    <3>5. First(fits) \in 1 .. Len(s)
      BY <3>2, <3>3
    <3>6. \A j \in 1 .. Len(s) : j \in 1 .. Len(s) + 1
      BY <3>4
    <3> QED BY <3>1, <3>5, <3>6
  <2> QED BY <2>1, <2>2
<1> HIDE DEF i
<1> DEFINE grown == IF i > Len(s) THEN Append(s, FreeCell) ELSE s
           count == grown[i].count + 1
           low   == IF grown[i].perf > t.perf THEN t.perf ELSE grown[i].perf
           cell  == [id |-> t.id, count |-> count, perf |-> low]
<1>3. grown \in Seq(AggCells) /\ i \in 1 .. Len(grown)
  BY <1>1, <1>2
<1> HIDE DEF grown
<1>4. grown[i] \in AggCells
  BY <1>3
<1>5. t.perf \in Perfs \cup {Infinity} /\ t.id \in Int
  BY DEF Trials
<1>6. cell \in AggCells /\ low \in Perfs \cup {Infinity}
  BY <1>4, <1>5 DEF AggCells
<1> HIDE DEF cell, low
<1>7. [grown EXCEPT ![i] = cell] \in Seq(AggCells) /\ [grown EXCEPT ![i] = FreeCell] \in Seq(AggCells)
  BY <1>1, <1>3, <1>6, ExceptSeq
<1>8. AggAnalyze(s, t) \subseteq {Verdict([grown EXCEPT ![i] = cell], "RETRY", t.perf),
                                  Verdict([grown EXCEPT ![i] = FreeCell], "ACCEPT", low)}
  BY DEF AggAnalyze, i, grown, cell, low
<1>9. "RETRY" \in LayerStatuses /\ "ACCEPT" \in LayerStatuses
  BY DEF LayerStatuses, FlowStatuses
<1>10. Verdict([grown EXCEPT ![i] = cell], "RETRY", t.perf)
         \in [next : Seq(AggCells), status : LayerStatuses, hint : Point,
              perf : Perfs \cup {Infinity}]
  BY <1>5, <1>7, <1>9, VerdictType
<1>11. Verdict([grown EXCEPT ![i] = FreeCell], "ACCEPT", low)
         \in [next : Seq(AggCells), status : LayerStatuses, hint : Point,
              perf : Perfs \cup {Infinity}]
  BY <1>6, <1>7, <1>9, VerdictType
<1> QED
  BY <1>8, <1>10, <1>11

(* The codegen layer's log and requests keep their types.                  *)
LEMMA CodegenType ==
  ASSUME NEW s \in CodegenStates
  PROVE  /\ \A t \in Trials :
              CodegenGenerate(s, t)
                \subseteq [next : CodegenStates, status : LayerStatuses, hint : Point,
                           perf : Perfs \cup {Infinity}]
         /\ \A D \in SUBSET Nat : \A f \in [D -> Trials] :
              CodegenCallback(s, f)
                \subseteq [next : CodegenStates, status : FlowStatuses, hint : Point, slot : D]
<1>1. "WAIT" \in LayerStatuses /\ "ACCEPT" \in LayerStatuses /\ "ACCEPT" \in FlowStatuses
  BY DEF LayerStatuses, FlowStatuses
<1>2. s.log \in [Vals -> {"NONE", "REQUESTED", "COMPLETE"}] /\ s.server \in Seq(Point)
  BY DEF CodegenStates
<1>3. ASSUME NEW t \in Trials
      PROVE  CodegenGenerate(s, t)
               \subseteq [next : CodegenStates, status : LayerStatuses, hint : Point,
                          perf : Perfs \cup {Infinity}]
  <2> DEFINE asked == [log    |-> [s.log EXCEPT ![t.val] = "REQUESTED"],
                       server |-> Append(s.server, [id |-> t.id, val |-> t.val])]
  <2>1. t.perf \in Perfs \cup {Infinity} /\ [id |-> t.id, val |-> t.val] \in Point
    BY DEF Trials, Point
  <2>2. asked \in CodegenStates
    <3>1. Append(s.server, [id |-> t.id, val |-> t.val]) \in Seq(Point)
      BY <1>2, <2>1
    <3>2. [s.log EXCEPT ![t.val] = "REQUESTED"] \in [Vals -> {"NONE", "REQUESTED", "COMPLETE"}]
      BY <1>2
    <3> QED BY <3>1, <3>2 DEF CodegenStates
  <2>3. CASE s.log[t.val] = "COMPLETE"
    <3>1. CodegenGenerate(s, t) = {Verdict(s, "ACCEPT", t.perf)}
      BY <2>3 DEF CodegenGenerate
    <3> QED BY <1>1, <2>1, <3>1, VerdictType
  <2>4. CASE s.log[t.val] = "REQUESTED"
    <3>1. CodegenGenerate(s, t) = {Verdict(s, "WAIT", t.perf)}
      BY <2>4 DEF CodegenGenerate
    <3> QED BY <1>1, <2>1, <3>1, VerdictType
  <2>5. CASE s.log[t.val] # "COMPLETE" /\ s.log[t.val] # "REQUESTED"
    <3>1. CodegenGenerate(s, t) = {Verdict(asked, "WAIT", t.perf)}
      BY <2>5 DEF CodegenGenerate
    <3> HIDE DEF asked
    <3> QED BY <1>1, <2>1, <2>2, <3>1, VerdictType
  <2> QED BY <2>3, <2>4, <2>5
<1>4. ASSUME NEW D \in SUBSET Nat, NEW f \in [D -> Trials], NEW o \in CodegenCallback(s, f)
      PROVE  o \in [next : CodegenStates, status : FlowStatuses, hint : Point, slot : D]
  <2> DEFINE answered == [log    |-> [s.log EXCEPT ![Head(s.server).val] = "COMPLETE"],
                          server |-> Tail(s.server)]
  <2>1. PICK i \in D : /\ s.server # <<>>
                       /\ o = [next |-> answered, status |-> "ACCEPT",
                               hint |-> HPOINT_INITIALIZER, slot |-> i]
    BY <1>4 DEF CodegenCallback
  <2>2. answered \in CodegenStates
    <3>1. Tail(s.server) \in Seq(Point)
      BY <1>2, <2>1
    <3>2. [s.log EXCEPT ![Head(s.server).val] = "COMPLETE"] \in [Vals -> {"NONE", "REQUESTED", "COMPLETE"}]
      BY <1>2
    <3> QED BY <3>1, <3>2 DEF CodegenStates
  <2> HIDE DEF answered
  <2> QED BY <1>1, <2>1, <2>2, InitialType
<1> QED
  BY <1>3, <1>4

(* The cache's counters and records keep their types.  The result it       *)
(* answers with is one on record: the count is brought within their number.*)
LEMMA CacheType ==
  ASSUME NEW s \in CacheStates, NEW t \in Trials, NEW b \in BOOLEAN
  PROVE  CacheGenerate(s, t, b) \cup CacheAnalyze(s, t)
           \subseteq [next : CacheStates, status : LayerStatuses, hint : Point,
                      perf : Perfs \cup {Infinity}]
<1> DEFINE v       == t.val
           known   == Len(s.perfs[v])
           wrapped == IF s.total[v] > 0 /\ s.count[v] > s.total[v]
                        THEN (s.count[v] % s.total[v]) + 1 ELSE s.count[v]
           over    == wrapped > known
           nth     == IF over THEN wrapped % known ELSE wrapped
           total   == IF over THEN known ELSE s.total[v]
           hit     == [s EXCEPT !.skip = TRUE, !.count[v] = nth, !.total[v] = total]
           perfs   == IF s.skip THEN s.perfs[v] ELSE Append(s.perfs[v], t.perf)
           count   == IF s.perfs[v] = <<>> THEN 2 ELSE s.count[v] + 1
<1>1. /\ v \in Entries
      /\ t.perf \in Perfs \cup {Infinity}
  BY DEF Trials, Entries
<1>2. /\ s.perfs[v] \in Seq(Perfs \cup {Infinity})
      /\ s.count[v] \in Nat
      /\ s.total[v] \in Nat
  BY <1>1 DEF CacheStates
<1>3. known \in Nat
  BY <1>2
<1>4. {"ACCEPT", "RETURN", "ERROR"} \subseteq LayerStatuses
  BY DEF LayerStatuses, FlowStatuses
<1>5. wrapped \in Nat
  BY <1>2
<1>6. ASSUME known # 0
      PROVE  nth \in Nat /\ nth <= known
  <2>1. CASE over
    <3> HIDE DEF wrapped, known
    <3>1. wrapped % known \in 0 .. known - 1
      BY <1>3, <1>5, <1>6
    <3> QED BY <1>3, <2>1, <3>1
  <2>2. CASE ~over
    <3> HIDE DEF wrapped, known
    <3> QED BY <1>3, <1>5, <2>2
  <2> QED BY <2>1, <2>2
<1>7. total \in Nat
  BY <1>2, <1>3
<1>8. ASSUME known # 0
      PROVE  /\ hit \in CacheStates
             /\ s.perfs[v][IF nth = 0 THEN 1 ELSE nth] \in Perfs \cup {Infinity}
  <2>1. nth \in Nat /\ nth <= known
    BY <1>6, <1>8
  <2> HIDE DEF nth, total
  <2>2. hit \in CacheStates
    BY <1>1, <1>7, <2>1 DEF CacheStates
  <2>3. (IF nth = 0 THEN 1 ELSE nth) \in 1 .. Len(s.perfs[v])
    BY <1>3, <1>8, <2>1
  <2> HIDE DEF v
  <2> QED BY <1>2, <2>2, <2>3
<1>9. ASSUME NEW o \in CacheGenerate(s, t, b)
      PROVE  o \in [next : CacheStates, status : LayerStatuses, hint : Point,
                    perf : Perfs \cup {Infinity}]
  <2>1. CASE b \/ known = 0
    <3>1. o = Verdict(s, "ERROR", t.perf) \/ o = Verdict(s, "ACCEPT", t.perf)
      BY <1>9, <2>1 DEF CacheGenerate
    <3> QED BY <1>1, <1>4, <3>1, VerdictType
  <2>2. CASE ~b /\ known # 0
    <3>1. o = Verdict(hit, "RETURN", s.perfs[v][IF nth = 0 THEN 1 ELSE nth])
      BY <1>9, <2>2 DEF CacheGenerate
    <3> HIDE DEF hit, nth, v
    <3> QED BY <1>4, <1>8, <2>2, <3>1, VerdictType
  <2> QED BY <2>1, <2>2
<1>10. ASSUME NEW o \in CacheAnalyze(s, t)
       PROVE  o \in [next : CacheStates, status : LayerStatuses, hint : Point,
                     perf : Perfs \cup {Infinity}]
  <2> DEFINE next == [s EXCEPT !.perfs[v] = perfs, !.count[v] = count, !.skip = FALSE]
  <2>1. perfs \in Seq(Perfs \cup {Infinity}) /\ count \in Nat
    BY <1>1, <1>2
  <2>2. o = Verdict(next, "ACCEPT", t.perf)
    BY <1>10 DEF CacheAnalyze
  <2> HIDE DEF perfs, count
  <2>3. next \in CacheStates
    BY <1>1, <2>1 DEF CacheStates
  <2> HIDE DEF next
  <2> QED BY <1>1, <1>4, <2>2, <2>3, VerdictType
<1> QED
  BY <1>9, <1>10

(* Every stack of these layers keeps the contract.                         *)
THEOREM StackKeepsContract ==
  ASSUME UsesStack
  PROVE  LayerContract(StackStates)
<1> SUFFICES ASSUME NEW k \in 1 .. LstackLen
             PROVE  /\ StackInit(k) \in StackStates[k]
                    /\ \A s \in StackStates[k] : \A t \in Trials : \A converged \in BOOLEAN :
                         StackGenerate(k, s, t, converged) \cup StackAnalyze(k, s, t)
                           \subseteq [next : StackStates[k], status : LayerStatuses,
                                      hint : Point, perf : Perfs \cup {Infinity}]
                    /\ \A s \in StackStates[k] : \A D \in SUBSET Nat : \A f \in [D -> Trials] :
                         StackCallback(k, s, f)
                           \subseteq [next : StackStates[k], status : FlowStatuses,
                                      hint : Point, slot : D]
  BY DEF UsesStack, LayerContract
<1>1. Stack[k] \in {"agg", "constraint", "codegen", "cache"}
  BY LayersAssumption DEF UsesStack, StackLen
<1>2. {"ACCEPT", "REJECT"} \subseteq LayerStatuses
  BY DEF LayerStatuses, FlowStatuses
<1>3. \A t \in Trials : t.perf \in Perfs \cup {Infinity}
  BY DEF Trials
<1>4. CASE Stack[k] = "agg"
  <2>1. StackStates[k] = Seq(AggCells)
    BY <1>4 DEF StackStates
  <2>2. /\ StackInit(k) = <<>>
        /\ \A s, t : /\ \A b : StackGenerate(k, s, t, b) = {Verdict(s, "ACCEPT", t.perf)}
                     /\ StackAnalyze(k, s, t) = AggAnalyze(s, t)
                     /\ StackCallback(k, s, t) = {}
    BY <1>4 DEF StackInit, StackGenerate, StackAnalyze, StackCallback
  <2>3. <<>> \in Seq(AggCells)
    OBVIOUS
  <2>4. ASSUME NEW s \in Seq(AggCells), NEW t \in Trials
        PROVE  Verdict(s, "ACCEPT", t.perf)
                 \in [next : Seq(AggCells), status : LayerStatuses, hint : Point,
                      perf : Perfs \cup {Infinity}]
    BY <1>2, <1>3, VerdictType
  <2> QED BY <2>1, <2>2, <2>3, <2>4, AggType
<1>5. CASE Stack[k] = "constraint"
  <2>1. StackStates[k] = {<<>>}
    BY <1>5 DEF StackStates
  <2>2. /\ StackInit(k) = <<>>
        /\ \A s, t : /\ \A b : StackGenerate(k, s, t, b) \subseteq {Verdict(s, "ACCEPT", t.perf),
                                                                  Verdict(s, "REJECT", t.perf)}
                     /\ StackAnalyze(k, s, t) = {Verdict(s, "ACCEPT", t.perf)}
                     /\ StackCallback(k, s, t) = {}
    BY <1>5 DEF StackInit, StackGenerate, StackAnalyze, StackCallback, ConstraintGenerate
  <2>3. ASSUME NEW s \in {<<>>}, NEW t \in Trials, NEW status \in {"ACCEPT", "REJECT"}
        PROVE  Verdict(s, status, t.perf)
                 \in [next : {<<>>}, status : LayerStatuses, hint : Point,
                      perf : Perfs \cup {Infinity}]
    <3>1. status \in LayerStatuses
      BY <1>2
    <3> QED BY <1>3, <3>1, VerdictType
  <2>4. ASSUME NEW s \in {<<>>}, NEW t \in Trials, NEW b \in BOOLEAN
        PROVE  StackGenerate(k, s, t, b) \cup StackAnalyze(k, s, t)
                 \subseteq [next : {<<>>}, status : LayerStatuses, hint : Point,
                            perf : Perfs \cup {Infinity}]
    BY <2>2, <2>3
  <2> QED BY <2>1, <2>2, <2>4
<1>6. CASE Stack[k] = "codegen"
  <2>1. StackStates[k] = CodegenStates
    BY <1>6 DEF StackStates
  <2>2. /\ StackInit(k) = CodegenInit
        /\ \A s, t : /\ \A b : StackGenerate(k, s, t, b) = CodegenGenerate(s, t)
                     /\ StackAnalyze(k, s, t) = {Verdict(s, "ACCEPT", t.perf)}
                     /\ StackCallback(k, s, t) = CodegenCallback(s, t)
    BY <1>6 DEF StackInit, StackGenerate, StackAnalyze, StackCallback
  <2>3. CodegenInit \in CodegenStates
    BY DEF CodegenInit, CodegenStates
  <2>4. ASSUME NEW s \in CodegenStates, NEW t \in Trials
        PROVE  Verdict(s, "ACCEPT", t.perf)
                 \in [next : CodegenStates, status : LayerStatuses, hint : Point,
                      perf : Perfs \cup {Infinity}]
    BY <1>2, <1>3, VerdictType
  <2>5. ASSUME NEW s \in CodegenStates, NEW t \in Trials, NEW b \in BOOLEAN
        PROVE  StackGenerate(k, s, t, b) \cup StackAnalyze(k, s, t)
                 \subseteq [next : CodegenStates, status : LayerStatuses, hint : Point,
                            perf : Perfs \cup {Infinity}]
    BY <2>2, <2>4, CodegenType
  <2>6. ASSUME NEW s \in CodegenStates, NEW D \in SUBSET Nat, NEW f \in [D -> Trials]
        PROVE  StackCallback(k, s, f)
                 \subseteq [next : CodegenStates, status : FlowStatuses, hint : Point, slot : D]
    BY <2>2, CodegenType
  <2> QED BY <2>1, <2>2, <2>3, <2>5, <2>6
<1>7. CASE Stack[k] = "cache"
  <2>1. StackStates[k] = CacheStates
    BY <1>7 DEF StackStates
  <2>2. /\ StackInit(k) = CacheInit
        /\ \A s, t : /\ \A b : StackGenerate(k, s, t, b) = CacheGenerate(s, t, b)
                     /\ StackAnalyze(k, s, t) = CacheAnalyze(s, t)
                     /\ StackCallback(k, s, t) = {}
    BY <1>7 DEF StackInit, StackGenerate, StackAnalyze, StackCallback
  <2>3. CacheInit \in CacheStates
    BY DEF CacheInit, CacheStates, Entries
  <2> QED BY <2>1, <2>2, <2>3, CacheType
<1> QED
  BY <1>1, <1>4, <1>5, <1>6, <1>7

-----------------------------------------------------------------------------
(* A session with PRO and any stack of these layers is well typed, with    *)
(* any number of clients and through every growth of its lists.            *)
THEOREM ProTypeCorrect ==
  ASSUME UsesPro, UsesStack
  PROVE  Spec => []TypeOK
  BY ProKeepsContract, StackKeepsContract, TypeCorrect

(* And its ready queue is first in, first out while its lists keep their   *)
(* size.                                                                   *)
THEOREM ProQueueCorrect ==
  ASSUME UsesPro, UsesStack, NoGrowth
  PROVE  Spec => []RingShape /\ QueueIsFifo
  BY ProKeepsContract, StackKeepsContract, RingCorrect, QueueCorrect

-----------------------------------------------------------------------------
(* No layer marks a trial as answered from its cache.                      *)
NoneSkips == \A k \in 1 .. LstackLen : Stack[k] = "cache" => ~lstate[k].skip

(* What cache_generate() does: it leaves the flag alone, or sets it and    *)
(* sends the trial back with one of the results on record for its values.  *)
LEMMA CacheAnswers ==
  ASSUME NEW s \in CacheStates, NEW t \in Trials, NEW b \in BOOLEAN,
         NEW o \in CacheGenerate(s, t, b)
  PROVE  \/ o.next = s
         \/ /\ o.status = "RETURN"
            /\ o.next.perfs = s.perfs
            /\ \E n \in DOMAIN s.perfs[t.val] : o.perf = s.perfs[t.val][n]
<1> DEFINE v       == t.val
           known   == Len(s.perfs[v])
           wrapped == IF s.total[v] > 0 /\ s.count[v] > s.total[v]
                        THEN (s.count[v] % s.total[v]) + 1 ELSE s.count[v]
           over    == wrapped > known
           nth     == IF over THEN wrapped % known ELSE wrapped
           total   == IF over THEN known ELSE s.total[v]
           hit     == [s EXCEPT !.skip = TRUE, !.count[v] = nth, !.total[v] = total]
           used    == IF nth = 0 THEN 1 ELSE nth
<1>1. v \in Entries
  BY DEF Trials, Entries
<1>2. /\ s.perfs[v] \in Seq(Perfs \cup {Infinity})
      /\ s.count[v] \in Nat
      /\ s.total[v] \in Nat
  BY <1>1 DEF CacheStates
<1>3. known \in Nat
  BY <1>2
<1>4. wrapped \in Nat
  BY <1>2
<1>5. CASE b \/ known = 0
  <2>1. o = Verdict(s, "ERROR", t.perf) \/ o = Verdict(s, "ACCEPT", t.perf)
    BY <1>5 DEF CacheGenerate
  <2> QED BY <2>1 DEF Verdict
<1>6. CASE ~b /\ known # 0
  <2>1. o = Verdict(hit, "RETURN", s.perfs[v][used])
    BY <1>6 DEF CacheGenerate
  <2>2. nth \in Nat /\ nth <= known
    <3>1. CASE over
      <4> HIDE DEF wrapped, known
      <4>1. wrapped % known \in 0 .. known - 1
        BY <1>3, <1>4, <1>6
      <4> QED BY <1>3, <3>1, <4>1
    <3>2. CASE ~over
      <4> HIDE DEF wrapped, known
      <4> QED BY <1>3, <1>4, <3>2
    <3> QED BY <3>1, <3>2
  <2>3. hit.perfs = s.perfs
    <3> HIDE DEF nth, total
    <3> QED BY DEF CacheStates
  <2>4. used \in DOMAIN s.perfs[v]
    <3> HIDE DEF nth
    <3>1. used \in 1 .. known
      BY <1>3, <1>6, <2>2
    <3> HIDE DEF used, v
    <3> QED BY <1>2, <3>1
  <2> HIDE DEF hit, used
  <2> QED BY <2>1, <2>3, <2>4 DEF Verdict
<1> QED
  BY <1>5, <1>6

(* cache_analyze() clears the flag.                                        *)
LEMMA CacheClears ==
  ASSUME NEW s \in CacheStates, NEW t, NEW o \in CacheAnalyze(s, t)
  PROVE  o.next.skip = FALSE
<1> DEFINE perfs == IF s.skip THEN s.perfs[t.val] ELSE Append(s.perfs[t.val], t.perf)
           count == IF s.perfs[t.val] = <<>> THEN 2 ELSE s.count[t.val] + 1
           next  == [s EXCEPT !.perfs[t.val] = perfs, !.count[t.val] = count, !.skip = FALSE]
<1>1. o = Verdict(next, "ACCEPT", t.perf)
  BY DEF CacheAnalyze
<1> HIDE DEF perfs, count
<1>2. next.skip = FALSE
  BY DEF CacheStates
<1> HIDE DEF next
<1> QED
  BY <1>1, <1>2 DEF Verdict

(* A set flag belongs to the cache whose analysis comes next.              *)
LEMMA SkipHere ==
  ASSUME SkipIsForHit, LstackLen \in Nat, curr_layer \in Int,
         ~(at = "workflow" /\ curr_layer \in -LstackLen .. -1)
  PROVE  NoneSkips
  BY DEF SkipIsForHit, NoneSkips

(* A layer's step marks the trial it sends back, or unmarks the one it has *)
(* analyzed.                                                               *)
LEMMA SkipLayerStep ==
  ASSUME NEW S, StrategyContract(S), UsesStack, TypeInv(S, StackStates), SkipIsForHit, LayerStep
  PROVE  SkipIsForHit'
<1> DEFINE k == IF curr_layer < 0 THEN -curr_layer ELSE curr_layer
<1>1. /\ curr_layer \in Int /\ LstackLen \in Nat
      /\ k \in 1 .. LstackLen
      /\ trial_idx \in Slots /\ pending \in [Slots -> Trials]
      /\ StrategyConverged(strat) \in BOOLEAN
  <2>1. curr_layer # 0 /\ curr_layer <= LstackLen
    BY DEF LayerStep
  <2>2. curr_layer \in -LstackLen .. LstackLen + 1 /\ LstackLen \in Nat
    BY SessionAssumption DEF TypeInv, TypeOK
  <2> QED BY <2>1, <2>2 DEF TypeInv, TypeOK, StrategyContract
<1>2. pending[trial_idx] \in Trials
  BY <1>1
<1>3. \A j \in 1 .. LstackLen : Stack[j] = "cache" => lstate[j] \in CacheStates
  BY DEF TypeInv, LstateIn, StackStates
<1>4. DOMAIN lstate = 1 .. LstackLen
  BY DEF TypeInv, LstateIn
<1>5. PICK o \in IF curr_layer < 0
                   THEN LayerAnalyze(k, lstate[k], pending[trial_idx])
                   ELSE LayerGenerate(k, lstate[k], pending[trial_idx],
                                      StrategyConverged(strat)) :
        \E t \in workflow_transition(trial_idx, curr_layer, o) :
          /\ lstate' = [lstate EXCEPT ![k] = o.next]
          /\ Take(t, trial_idx, o.perf)
          /\ IF t.ret = 0
               THEN UNCHANGED <<at, wire, caller, from, trial_idx>>
               ELSE Return(t.ret = 1)
  BY DEF LayerStep
<1>6. PICK t \in workflow_transition(trial_idx, curr_layer, o) :
        /\ lstate' = [lstate EXCEPT ![k] = o.next]
        /\ Take(t, trial_idx, o.perf)
        /\ IF t.ret = 0
             THEN UNCHANGED <<at, wire, caller, from, trial_idx>>
             ELSE Return(t.ret = 1)
  BY <1>5
<1>7. at = "workflow"
  BY DEF LayerStep
<1>8. lstate'[k] = o.next /\ \A j \in 1 .. LstackLen : j # k => lstate'[j] = lstate[j]
  BY <1>1, <1>4, <1>6
<1>9. CASE curr_layer < 0
  <2>1. o \in LayerAnalyze(k, lstate[k], pending[trial_idx])
    BY <1>5, <1>9
  <2>2. ASSUME Stack[k] = "cache" PROVE o.next.skip = FALSE
    <3> HIDE DEF k
    <3>1. LayerAnalyze(k, lstate[k], pending[trial_idx])
            = StackAnalyze(k, lstate[k], pending[trial_idx])
      BY DEF UsesStack
    <3>2. StackAnalyze(k, lstate[k], pending[trial_idx])
            = CacheAnalyze(lstate[k], pending[trial_idx])
      BY <2>2 DEF StackAnalyze
    <3>3. lstate[k] \in CacheStates
      BY <1>1, <1>3, <2>2
    <3> QED BY <2>1, <3>1, <3>2, <3>3, CacheClears
  <2>3. ASSUME NEW j \in 1 .. LstackLen, Stack[j] = "cache", j # k
        PROVE  ~lstate[j].skip
    BY <1>1, <1>9, <2>3 DEF SkipIsForHit
  <2> HIDE DEF k
  <2>4. \A j \in 1 .. LstackLen : Stack[j] = "cache" => ~lstate'[j].skip
    BY <1>8, <2>2, <2>3
  <2> QED BY <2>4 DEF SkipIsForHit
<1>10. CASE ~(curr_layer < 0)
  <2>1. k = curr_layer /\ o \in LayerGenerate(k, lstate[k], pending[trial_idx],
                                              StrategyConverged(strat))
    BY <1>5, <1>10
  <2>2. NoneSkips
    BY <1>1, <1>10, SkipHere
  <2> HIDE DEF k
  <2>3. ASSUME Stack[k] = "cache"
        PROVE  \/ o.next = lstate[k]
               \/ /\ o.status = "RETURN"
                  /\ o.next.perfs = lstate[k].perfs
                  /\ \E n \in DOMAIN lstate[k].perfs[pending[trial_idx].val] :
                       o.perf = lstate[k].perfs[pending[trial_idx].val][n]
    <3>1. LayerGenerate(k, lstate[k], pending[trial_idx], StrategyConverged(strat))
            = StackGenerate(k, lstate[k], pending[trial_idx], StrategyConverged(strat))
      BY DEF UsesStack
    <3>2. StackGenerate(k, lstate[k], pending[trial_idx], StrategyConverged(strat))
            = CacheGenerate(lstate[k], pending[trial_idx], StrategyConverged(strat))
      BY <2>3 DEF StackGenerate
    <3>3. lstate[k] \in CacheStates
      BY <1>1, <1>3, <2>3
    <3> QED BY <1>1, <1>2, <2>1, <3>1, <3>2, <3>3, CacheAnswers
  <2>4. CASE Stack[k] # "cache" \/ o.next = lstate[k]
    <3>1. \A j \in 1 .. LstackLen : Stack[j] = "cache" => ~lstate'[j].skip
      BY <1>8, <2>2, <2>4 DEF NoneSkips
    <3> QED BY <3>1 DEF SkipIsForHit
  <2>5. CASE Stack[k] = "cache" /\ o.next # lstate[k]
    <3>1. o.status = "RETURN"
      BY <2>3, <2>5
    <3>2. t.ret = 0 /\ t.layer = -curr_layer /\ t.point = PointOf(pending[trial_idx])
      BY <3>1 DEF workflow_transition
    <3>3. at' = "workflow" /\ trial_idx' = trial_idx /\ curr_layer' = -k
      BY <1>6, <1>7, <2>1, <3>2 DEF Take
    <3>4. pending'[trial_idx] = Trial(t.point, o.perf)
      BY <1>1, <1>6 DEF Take
    <3>5. pending'[trial_idx].val = pending[trial_idx].val /\ pending'[trial_idx].perf = o.perf
      BY <3>2, <3>4 DEF Trial, PointOf
    <3>6. \A j \in 1 .. LstackLen : Stack[j] = "cache" /\ lstate'[j].skip => j = k
      BY <1>8, <2>2 DEF NoneSkips
    <3>7. \E n \in DOMAIN lstate'[k].perfs[pending'[trial_idx].val] :
            pending'[trial_idx].perf = lstate'[k].perfs[pending'[trial_idx].val][n]
      BY <1>8, <2>3, <2>5, <3>5
    <3>8. pending'[trial_idx'] = pending'[trial_idx]
      BY <3>3
    <3> QED BY <3>3, <3>6, <3>7, <3>8 DEF SkipIsForHit
  <2> QED BY <2>4, <2>5
<1> QED
  BY <1>9, <1>10

(* The other steps find no flag set, and set none.                         *)
LEMMA SkipStep ==
  ASSUME NEW S, StrategyContract(S), UsesStack, TypeInv(S, StackStates), SkipIsForHit,
         [Next]_vars
  PROVE  SkipIsForHit'
<1>1. curr_layer \in Int /\ LstackLen \in Nat
  BY SessionAssumption DEF TypeInv, TypeOK
<1>2. ASSUME at \in {"select", "generate"} \/ (at = "workflow" /\ ~(curr_layer \in -LstackLen .. -1)),
             lstate' = lstate
      PROVE  SkipIsForHit'
  <2>1. NoneSkips
    BY <1>1, <1>2, SkipHere
  <2> QED BY <1>2, <2>1 DEF NoneSkips, SkipIsForHit
<1>3. CASE LayerStep
  BY <1>3, SkipLayerStep
<1>4. CASE WorkflowAnalyze
  <2>1. at = "workflow" /\ curr_layer = 0 /\ lstate' = lstate
    BY <1>4 DEF WorkflowAnalyze
  <2> QED BY <1>1, <1>2, <2>1
<1>5. CASE WorkflowEnqueue
  <2>1. at = "workflow" /\ curr_layer > LstackLen /\ lstate' = lstate
    BY <1>5 DEF WorkflowEnqueue, plugVars
  <2> QED BY <1>1, <1>2, <2>1
<1>6. CASE StartGenerate \/ EndGenerate \/ generate_trial
  <2>1. at \in {"select", "generate"} /\ lstate' = lstate
    BY <1>6 DEF StartGenerate, EndGenerate, generate_trial, plugVars
  <2> QED BY <1>2, <2>1
<1>7. ASSUME NEW i \in 1 .. Len(Callbacks), handle_callback(i)
      PROVE  SkipIsForHit'
  <2> DEFINE k    == IF Callbacks[i] < 0 THEN -Callbacks[i] ELSE Callbacks[i]
             list == {s \in Slots : <<Callbacks[i], s>> \in waiting}
             held == [s \in list |-> pending[s]]
  <2>1. PICK o \in LayerCallback(k, lstate[k], held) : lstate' = [lstate EXCEPT ![k] = o.next]
    BY <1>7 DEF handle_callback
  <2>2. at = "select"
    BY <1>7 DEF handle_callback
  <2>3. Stack[k] # "cache"
    <3> HIDE DEF k, held
    <3>1. LayerCallback(k, lstate[k], held) = StackCallback(k, lstate[k], held)
      BY DEF UsesStack
    <3> QED BY <2>1, <3>1 DEF StackCallback
  <2>4. NoneSkips
    BY <1>1, <2>2, SkipHere
  <2> HIDE DEF k, held
  <2>5. \A j \in 1 .. LstackLen : Stack[j] = "cache" => lstate'[j] = lstate[j]
    BY <2>1, <2>3
  <2>6. \A j \in 1 .. LstackLen : Stack[j] = "cache" => ~lstate'[j].skip
    BY <2>4, <2>5 DEF NoneSkips
  <2> QED BY <2>6 DEF SkipIsForHit
<1>8. ASSUME NEW c \in Clients, HandleMessage(c)
      PROVE  SkipIsForHit'
  <2>1. at = "select" /\ lstate' = lstate
    BY <1>8 DEF HandleMessage, handle_join, handle_getcfg, handle_best, handle_fetch,
       handle_report, plugVars
  <2> QED BY <1>2, <2>1
<1>9. ASSUME NEW value \in BOOLEAN, handle_setcfg(value)
      PROVE  SkipIsForHit'
  <2>1. at = "select" /\ lstate' = lstate
    BY <1>9 DEF handle_setcfg, plugVars
  <2> QED BY <1>2, <2>1
<1>10. CASE handle_restart
  <2>1. lstate' = [j \in 1 .. LstackLen |-> StackInit(j)]
    BY <1>10 DEF handle_restart, UsesStack
  <2>2. \A j \in 1 .. LstackLen : Stack[j] = "cache" => ~lstate'[j].skip
    BY <2>1 DEF StackInit, CacheInit
  <2> QED BY <2>2 DEF SkipIsForHit
<1>11. CASE UNCHANGED sessionVars
  <2>1. UNCHANGED <<at, curr_layer, trial_idx, pending, lstate>>
    BY <1>11 DEF sessionVars, trialVars, plugVars, flowVars
  <2> QED BY <2>1 DEF SkipIsForHit
<1>12. CASE \E c \in Clients : ClientStep(c)
  BY <1>11, <1>12 DEF ClientStep
<1>13. CASE SessionStep
  BY <1>3, <1>4, <1>5, <1>6, <1>7, <1>8, <1>9, <1>10, <1>13
     DEF SessionStep, SessionWork, HttpRequest
<1> QED
  BY <1>11, <1>12, <1>13 DEF Next, vars

(* The one skip flag of a cache is only ever set for the trial that is on  *)
(* its way back through it with a result on record: with any strategy and  *)
(* any stack of layers, through growth, restarts and failures              *)
(* (cache_generate and cache_analyze share the variable skip).             *)
THEOREM SkipCorrect ==
  ASSUME NEW S, StrategyContract(S), UsesStack
  PROVE  Spec => []SkipIsForHit
<1> DEFINE Inv == TypeInv(S, StackStates) /\ SkipIsForHit
<1>1. LayerContract(StackStates)
  BY StackKeepsContract
<1>2. Init => Inv
  <2>1. Init => SkipIsForHit
    <3> SUFFICES ASSUME Init PROVE \A k \in 1 .. LstackLen : Stack[k] = "cache" => ~lstate[k].skip
      BY DEF SkipIsForHit
    <3>1. lstate = [k \in 1 .. LstackLen |-> StackInit(k)]
      BY DEF Init, SessionInit, UsesStack
    <3> QED BY <3>1 DEF StackInit, CacheInit
  <2> QED BY <1>1, <2>1, InitType
<1>3. Inv /\ [Next]_vars => Inv'
  <2> SUFFICES ASSUME Inv, [Next]_vars PROVE Inv'
    OBVIOUS
  <2>1. TypeInv(S, StackStates)'
    BY <1>1, StepType
  <2>2. SkipIsForHit'
    BY SkipStep
  <2> QED BY <2>1, <2>2
<1>4. Inv => SkipIsForHit
  OBVIOUS
<1> HIDE DEF Inv
<1> QED
  BY <1>2, <1>3, <1>4, PTL DEF Spec

=============================================================================
