--------------------------- MODULE HarmonyProofs ---------------------------
(***************************************************************************)
(* Type correctness of Harmony, for every number of clients, every list    *)
(* size, every growth of the lists and every plug-in that keeps the        *)
(* contract below; then what is proved of the ready ring and its queue,    *)
(* while the lists do not grow.                                            *)
(***************************************************************************)
EXTENDS Harmony, NaturalsInduction, WellFoundedInduction, SequenceTheorems, TLAPS

-----------------------------------------------------------------------------
(***************************************************************************)
(* What the session takes for granted of its plug-ins: S holds the states  *)
(* of the strategy and L[k] those of layer k, and each routine yields      *)
(* points and a status that session-core.c has a case for.                 *)
(***************************************************************************)
StrategyContract(S) ==
  /\ StrategyInit \subseteq S
  /\ \A s \in S :
       /\ StrategyRestart(s) \in S
       /\ StrategyBest(s) \in Point
       /\ StrategyConverged(s) \in BOOLEAN
       /\ StrategyGenerate(s) \subseteq [next : S, status : {"ACCEPT", "WAIT"}, point : Point]
       /\ \A p, h \in Point :
            StrategyRejected(s, p, h)
              \subseteq [next : S, status : {"ACCEPT", "WAIT", "ERROR"}, point : Point]
       /\ \A t \in Trials : StrategyAnalyze(s, t) \subseteq S

FlowStatuses == {"ACCEPT", "RETURN", "WAIT", "REJECT", "RETRY"}

(* A layer's generate or analyze routine may also fail.                    *)
LayerStatuses == FlowStatuses \cup {"ERROR"}

LayerContract(L) ==
  \A k \in 1 .. LstackLen :
    /\ LayerInit(k) \in L[k]
    /\ \A s \in L[k] : \A t \in Trials :
         \A converged \in BOOLEAN :
           LayerGenerate(k, s, t, converged) \cup LayerAnalyze(k, s, t)
             \subseteq [next : L[k], status : LayerStatuses, hint : Point,
                        perf : Perfs \cup {Infinity}]
    /\ \A s \in L[k] : \A D \in SUBSET Nat : \A f \in [D -> Trials] :
         LayerCallback(k, s, f)
           \subseteq [next : L[k], status : FlowStatuses, hint : Point, slot : D]

(* The states of the layers, one for each.                                 *)
LstateIn(L) ==
  /\ lstate = [k \in 1 .. LstackLen |-> lstate[k]]
  /\ \A k \in 1 .. LstackLen : lstate[k] \in L[k]

(* The inductive invariant: TypeOK and the types of the plug-ins' states.  *)
TypeInv(S, L) ==
  /\ TypeOK
  /\ strat \in S
  /\ LstateIn(L)

-----------------------------------------------------------------------------
(* A set of slot numbers has a first one.                                  *)
LEMMA FirstType ==
  ASSUME NEW X \in SUBSET Nat, X # {}
  PROVE  First(X) \in X /\ \A j \in X : First(X) <= j
<1> DEFINE Lt == {ss \in Nat \X Nat : ss[1] < ss[2]}
<1>1. IsWellFoundedOn(Lt, Nat)
  BY NatLessThanWellFounded, Zenon DEF OpToRel
<1>2. \E x \in X : \A y \in X : ~ (<<y, x>> \in Lt)
  <2> HIDE DEF Lt
  <2> QED BY <1>1, WFMin
<1>3. \A x, y \in Nat : <<y, x>> \notin Lt => x <= y
  OBVIOUS
<1>4. \E x \in X : \A y \in X : x <= y
  BY <1>2, <1>3
<1> QED
  BY <1>4 DEF First

(* Advancing in the ring wraps around at its end.                          *)
LEMMA AdvanceType ==
  ASSUME NEW cap \in Nat \ {0}, NEW p \in Cells(cap)
  PROVE  /\ Advance(p, cap) \in Cells(cap)
         /\ Advance(p, cap) = IF p + 1 = cap THEN 0 ELSE p + 1
  BY DEF Advance, Cells

(* Growing leaves a larger array.                                          *)
LEMMA GrowType ==
  ASSUME NEW n \in Int
  PROVE  array_grow(n) \in Nat \ {0} /\ array_grow(n) >= n
  BY RingAssumption DEF array_grow

(* What extend_lists leaves of a ring is a ring of the new capacity, even  *)
(* where the rotation brings foreign words into it.                        *)
LEMMA ExtendType ==
  ASSUME NEW cap \in Nat \ {0}, NEW newcap \in Nat \ {0}, cap < newcap,
         NEW r \in [Cells(cap) -> Cells(cap) \cup {NoTrial}],
         NEW h \in Cells(cap), NEW t \in Cells(cap)
  PROVE  /\ Extend(r, h, t, cap, newcap).ready
              \in [Cells(newcap) -> Cells(newcap) \cup {NoTrial}]
         /\ Extend(r, h, t, cap, newcap).head \in Cells(newcap)
         /\ Extend(r, h, t, cap, newcap).tail \in Cells(newcap)
<1>1. Rotate(r, h, cap) \in [Cells(cap) -> Cells(newcap) \cup {NoTrial}]
  <2> SUFFICES ASSUME NEW j \in Cells(cap)
               PROVE  Rotate(r, h, cap)[j] \in Cells(newcap) \cup {NoTrial}
    BY DEF Rotate
  <2> DEFINE k == (j + WordInts * h) % (WordInts * cap)
  <2>1. k \in Nat
    <3>1. CASE WordInts = 1
      BY <3>1 DEF Cells
    <3>2. CASE WordInts = 2
      BY <3>2 DEF Cells
    <3> QED BY <3>1, <3>2, RingAssumption
  <2>2. Rotate(r, h, cap)[j] = IF k < cap THEN r[k] ELSE 0
    BY DEF Rotate
  <2> HIDE DEF k
  <2> QED BY <2>1, <2>2 DEF Cells
<1>2. Cells(cap) \subseteq Cells(newcap)
  BY DEF Cells
<1> DEFINE moved == IF t <= h /\ r[h] # NoTrial THEN Rotate(r, h, cap) ELSE r
<1>3. moved \in [Cells(cap) -> Cells(newcap) \cup {NoTrial}]
  BY <1>1, <1>2
<1>4. Extend(r, h, t, cap, newcap).ready
        = [j \in Cells(newcap) |-> IF j < cap THEN moved[j] ELSE NoTrial]
  BY DEF Extend
<1>5. [j \in Cells(newcap) |-> IF j < cap THEN moved[j] ELSE NoTrial]
        \in [Cells(newcap) -> Cells(newcap) \cup {NoTrial}]
  <2> HIDE DEF moved
  <2> QED BY <1>3 DEF Cells
<1>6. /\ Extend(r, h, t, cap, newcap).head \in Cells(newcap)
      /\ Extend(r, h, t, cap, newcap).tail \in Cells(newcap)
  BY DEF Extend, Cells
<1> QED
  BY <1>4, <1>5, <1>6

-----------------------------------------------------------------------------
(* The outcomes of workflow_transition are of the right types, whatever    *)
(* the layer's verdict and the strategy's answer to a rejection.           *)
LEMMA TransitionType ==
  ASSUME NEW S, NEW L, StrategyContract(S), TypeInv(S, L),
         NEW idx \in Slots, NEW layer \in -LstackLen .. LstackLen,
         NEW o, o.status \in LayerStatuses, o.hint \in Point,
         NEW t \in workflow_transition(idx, layer, o)
  PROVE  /\ t.layer \in -LstackLen .. LstackLen + 1
         /\ t.strat \in S
         /\ t.waiting \subseteq ((-LstackLen .. LstackLen) \X Slots)
         /\ t.point \in Point
         /\ t.pollstate \in BOOLEAN
<1> DEFINE stay == [ret |-> 0, layer |-> layer, strat |-> strat, waiting |-> waiting,
                    point |-> PointOf(pending[idx]), pollstate |-> pollstate]
<1>1. /\ LstackLen \in Nat
      /\ PointOf(pending[idx]) \in Point
      /\ waiting \subseteq ((-LstackLen .. LstackLen) \X Slots)
      /\ strat \in S
      /\ pollstate \in BOOLEAN
  BY SessionAssumption DEF TypeInv, TypeOK, PointOf, Trials, Point
<1>2. CASE o.status = "ACCEPT"
  <2>1. t = [stay EXCEPT !.layer = layer + 1]
    BY <1>2 DEF workflow_transition
  <2> QED BY <1>1, <2>1
<1>3. CASE o.status = "WAIT"
  <2>1. t = [stay EXCEPT !.ret = 1, !.waiting = handle_wait(idx, layer)]
    BY <1>3 DEF workflow_transition
  <2> QED BY <1>1, <2>1 DEF handle_wait
<1>4. CASE o.status \in {"RETURN", "RETRY"}
  <2>1. t = [stay EXCEPT !.layer = -layer]
    BY <1>4 DEF workflow_transition
  <2> QED BY <1>1, <2>1
<1>5. CASE o.status = "REJECT"
  <2>1. t \in handle_reject(idx, layer, o.hint, stay)
    BY <1>5 DEF workflow_transition
  <2>2. CASE layer < 0
    <3>1. t = [stay EXCEPT !.ret = -1]
      BY <2>1, <2>2 DEF handle_reject
    <3> QED BY <1>1, <3>1
  <2>3. CASE ~(layer < 0)
    <3>1. PICK r \in StrategyRejected(strat, PointOf(pending[idx]), o.hint) :
            /\ t.layer = IF r.status = "ACCEPT" THEN 1 ELSE layer
            /\ t.strat = r.next
            /\ t.waiting = waiting
            /\ t.point = r.point
            /\ t.pollstate = IF r.status = "WAIT" THEN FALSE ELSE pollstate
      BY <2>1, <2>3 DEF handle_reject
    <3>2. r.next \in S /\ r.point \in Point
      BY <1>1 DEF StrategyContract
    <3>3. 1 \in -LstackLen .. LstackLen + 1 /\ layer \in -LstackLen .. LstackLen + 1
      BY <1>1
    <3> QED BY <1>1, <3>1, <3>2, <3>3
  <2> QED BY <2>2, <2>3
<1>6. CASE o.status = "ERROR"
  <2>1. t = [stay EXCEPT !.ret = -1]
    BY <1>6 DEF workflow_transition
  <2> QED BY <1>1, <2>1
<1> QED
  BY <1>2, <1>3, <1>4, <1>5, <1>6 DEF FlowStatuses, LayerStatuses

-----------------------------------------------------------------------------
(* The initial message, point and trial are of their types.                *)
LEMMA InitialType ==
  HMESG_INITIALIZER \in Mesg /\ HPOINT_INITIALIZER \in Point /\ FreeTrial \in Trials
  BY MesgAssumption DEF HMESG_INITIALIZER, HPOINT_INITIALIZER, FreeTrial, Mesg,
     MesgTypes, MesgStatuses, Point, Trials

(* Sending a reply leaves well typed connections.                          *)
LEMMA ReplyType ==
  ASSUME wire \in [Clients -> Mesg], NEW c,
         NEW m, c \in Clients => m \in Mesg, Reply(c, m)
  PROVE  wire' \in [Clients -> Mesg] /\ at' = "generate"
  BY DEF Reply

(* Failing sends FAIL to one client and closes the others' connections.    *)
LEMMA FailType ==
  ASSUME wire \in [Clients -> Mesg], NEW c, Fail(c)
  PROVE  wire' \in [Clients -> Mesg] /\ at' = "exit"
<1>1. ClosedMesg \in Mesg
  BY InitialType DEF ClosedMesg, Mesg, MesgStatuses
<1>2. ASSUME c \in Clients PROVE [wire[c] EXCEPT !.status = "FAIL"] \in Mesg
  BY <1>2 DEF Mesg, MesgStatuses
<1> QED
  BY <1>1, <1>2 DEF Fail

(* And so does returning from plugin_workflow, with a reply or a failure.  *)
LEMMA ReturnType ==
  ASSUME TypeOK, NEW ok \in BOOLEAN, Return(ok)
  PROVE  /\ wire' \in [Clients -> Mesg]
         /\ at' \in {"select", "generate", "exit"}
         /\ caller' = "none" /\ from' = NoClient /\ trial_idx' = 0
<1>1. CASE caller = "report" /\ ok
  <2>1. from \in Clients => [wire[from] EXCEPT !.status = "OK"] \in Mesg
    BY DEF TypeOK, Mesg, MesgStatuses
  <2>2. Reply(from, [wire[from] EXCEPT !.status = "OK"])
    BY <1>1 DEF Return
  <2> QED BY <2>1, <2>2, ReplyType DEF TypeOK, Return
<1>2. CASE caller = "report" /\ ~ok
  <2>1. Fail(from)
    BY <1>2 DEF Return
  <2> QED BY <2>1, FailType DEF TypeOK, Return
<1>3. CASE caller # "report"
  BY <1>3 DEF TypeOK, Return
<1> QED
  BY <1>1, <1>2, <1>3

-----------------------------------------------------------------------------
(* Initial states are well typed.                                          *)
LEMMA InitType ==
  ASSUME NEW S, NEW L, StrategyContract(S), LayerContract(L), Init
  PROVE  TypeInv(S, L)
<1>1. InitCap \in Nat \ {0}
  BY GrowType, SessionAssumption DEF InitCap
<1>2. strat \in S /\ LstateIn(L)
  BY DEF Init, SessionInit, StrategyContract, LayerContract, LstateIn
<1>3. /\ pending_cap \in Nat \ {0}
      /\ Slots = Cells(InitCap)
      /\ 0 \in Slots
  BY <1>1 DEF Init, SessionInit, Slots, Cells
<1>4. /\ pending \in [Slots -> Trials]
      /\ ready \in [Slots -> Slots \cup {NoTrial}]
      /\ holder \in [Slots -> Clients \cup {NoClient}]
  BY <1>3, InitialType DEF Init, SessionInit
<1>5. /\ wire \in [Clients -> Mesg]
      /\ hdesc \in [Clients -> [state : ClientStates, curr : Point, best : Point,
                                 ptr : Vals \cup {NoVal}]]
  BY InitialType DEF Init, WireInit, ClientInit, ClientStates
<1>6. /\ waiting \subseteq ((-LstackLen .. LstackLen) \X Slots)
      /\ curr_layer \in -LstackLen .. LstackLen + 1
      /\ paused_id \in Int /\ num_clients \in Nat /\ restarts \in Nat
      /\ cb_next \in Nat \ {0}
      /\ pending_len \in Int
      /\ ready_head \in Slots /\ ready_tail \in Slots /\ trial_idx \in Slots
  BY <1>3, SessionAssumption DEF Init, SessionInit
<1>7. /\ at \in {"select", "workflow", "generate", "exit"}
      /\ caller \in {"none", "generate", "report", "callback"}
      /\ from \in Clients \cup {NoClient}
      /\ pollstate \in BOOLEAN /\ paused \in BOOLEAN
  BY DEF Init, SessionInit
<1> QED
  BY <1>2, <1>3, <1>4, <1>5, <1>6, <1>7 DEF TypeInv, TypeOK

(* A layer's step in the workflow.                                         *)
LEMMA LayerStepType ==
  ASSUME NEW S, NEW L, StrategyContract(S), LayerContract(L), TypeInv(S, L),
         LayerStep, UNCHANGED hdesc
  PROVE  TypeInv(S, L)'
<1> USE DEF TypeInv, LstateIn
<1> DEFINE k == IF curr_layer < 0 THEN -curr_layer ELSE curr_layer
<1>1. /\ k \in 1 .. LstackLen
      /\ curr_layer \in -LstackLen .. LstackLen
      /\ trial_idx \in Slots
      /\ pending[trial_idx] \in Trials
      /\ lstate[k] \in L[k]
  <2>1. curr_layer # 0 /\ curr_layer <= LstackLen
    BY DEF LayerStep
  <2>2. curr_layer \in -LstackLen .. LstackLen + 1 /\ LstackLen \in Nat
    BY SessionAssumption DEF TypeOK
  <2>3. k \in 1 .. LstackLen /\ curr_layer \in -LstackLen .. LstackLen
    BY <2>1, <2>2
  <2>4. trial_idx \in Slots /\ pending[trial_idx] \in Trials
    BY DEF TypeOK
  <2> QED BY <2>3, <2>4
<1>2. PICK o \in LayerGenerate(k, lstate[k], pending[trial_idx], StrategyConverged(strat))
                   \cup LayerAnalyze(k, lstate[k], pending[trial_idx]) :
        \E t \in workflow_transition(trial_idx, curr_layer, o) :
          /\ lstate' = [lstate EXCEPT ![k] = o.next]
          /\ waiting' = t.waiting
          /\ Take(t, trial_idx, o.perf)
          /\ IF t.ret = 0
               THEN UNCHANGED <<at, wire, caller, from, trial_idx>>
               ELSE Return(t.ret = 1)
  BY DEF LayerStep
<1>3. PICK t \in workflow_transition(trial_idx, curr_layer, o) :
        /\ lstate' = [lstate EXCEPT ![k] = o.next]
        /\ waiting' = t.waiting
        /\ Take(t, trial_idx, o.perf)
        /\ IF t.ret = 0
             THEN UNCHANGED <<at, wire, caller, from, trial_idx>>
             ELSE Return(t.ret = 1)
  BY <1>2
<1>4. /\ o.next \in L[k] /\ o.status \in LayerStatuses /\ o.hint \in Point
      /\ o.perf \in Perfs \cup {Infinity}
  <2>1. StrategyConverged(strat) \in BOOLEAN
    BY DEF StrategyContract
  <2>2. o \in [next : L[k], status : LayerStatuses, hint : Point, perf : Perfs \cup {Infinity}]
    BY <1>1, <1>2, <2>1 DEF LayerContract
  <2> QED BY <2>2
<1> HIDE DEF k
<1>5. /\ t.layer \in -LstackLen .. LstackLen + 1
      /\ t.strat \in S
      /\ t.waiting \subseteq ((-LstackLen .. LstackLen) \X Slots)
      /\ t.point \in Point
      /\ t.pollstate \in BOOLEAN
  BY <1>1, <1>4, TransitionType
<1>6. /\ wire' \in [Clients -> Mesg]
      /\ at' \in {"select", "workflow", "generate", "exit"}
      /\ caller' \in {"none", "generate", "report", "callback"}
      /\ from' \in Clients \cup {NoClient}
      /\ trial_idx' \in Slots
  <2>1. CASE t.ret = 0
    BY <2>1, <1>3 DEF TypeOK
  <2>2. CASE t.ret # 0
    <3>1. 0 \in Slots
      BY DEF TypeOK, Slots
    <3> QED BY <2>2, <3>1, <1>3, ReturnType
  <2> QED BY <2>1, <2>2
<1>7. UNCHANGED <<pending_len, pending_cap, holder, ringVars, cfgVars, paused_id, cb_next>>
  BY DEF LayerStep
<1>8. Slots' = Slots
  BY <1>7 DEF Slots
<1>9. /\ strat' \in S /\ LstateIn(L)'
      /\ pollstate' \in BOOLEAN
      /\ curr_layer' \in -LstackLen .. LstackLen + 1
      /\ waiting' \subseteq ((-LstackLen .. LstackLen) \X Slots)
  BY <1>1, <1>3, <1>4, <1>5 DEF Take, LstateIn
<1>10. pending' \in [Slots -> Trials]
  <2>1. Trial(t.point, o.perf) \in Trials
    BY <1>4, <1>5 DEF Trial, Trials, Point
  <2> QED BY <2>1, <1>3 DEF Take, TypeOK
<1> QED
  BY <1>6, <1>7, <1>8, <1>9, <1>10 DEF TypeOK, ringVars, cfgVars

(* A trial that came through analysis, or through generation.              *)
LEMMA WorkflowEndType ==
  ASSUME NEW S, NEW L, StrategyContract(S), TypeInv(S, L),
         WorkflowAnalyze \/ WorkflowEnqueue, UNCHANGED hdesc
  PROVE  TypeInv(S, L)'
<1> USE DEF TypeInv, LstateIn
<1>1. UNCHANGED <<pending_cap, Slots, holder, lstate, waiting, cfgVars, paused_id,
                  curr_layer, cb_next>>
  BY DEF WorkflowAnalyze, WorkflowEnqueue, Slots, trialVars, plugVars
<1>2. 0 \in Slots
  BY DEF TypeOK, Slots
<1>3. CASE WorkflowAnalyze
  <2>1. strat' \in S
    <3>1. pending[trial_idx] \in Trials
      BY DEF TypeOK
    <3> QED BY <1>3, <3>1 DEF StrategyContract, WorkflowAnalyze
  <2>2. \/ Return(TRUE) /\ Release(trial_idx)
        \/ Return(FALSE) /\ UNCHANGED <<pending, pending_len, pollstate>>
    BY <1>3 DEF WorkflowAnalyze
  <2>3. /\ wire' \in [Clients -> Mesg]
        /\ at' \in {"select", "generate", "exit"}
        /\ caller' = "none" /\ from' = NoClient /\ trial_idx' = 0
    BY <2>2, ReturnType
  <2>4. pending' \in [Slots -> Trials] /\ pending_len' \in Int
    <3>1. pending \in [Slots -> Trials] /\ pending_len \in Int
      BY DEF TypeOK
    <3>2. CASE Release(trial_idx)
      <4>1. /\ pending' = [pending EXCEPT ![trial_idx] = FreeTrial]
            /\ pending_len' = pending_len - 1
        BY <3>2 DEF Release
      <4>2. FreeTrial \in Trials
        BY InitialType
      <4>3. pending' \in [Slots -> Trials]
        BY <3>1, <4>1, <4>2
      <4>4. pending_len' \in Int
        BY <3>1, <4>1
      <4> QED BY <4>3, <4>4
    <3>3. CASE UNCHANGED <<pending, pending_len>>
      BY <3>1, <3>3
    <3> QED BY <2>2, <3>2, <3>3
  <2>5. pollstate' \in BOOLEAN
    BY <2>2 DEF Release, TypeOK
  <2>6. UNCHANGED ringVars
    BY <1>3 DEF WorkflowAnalyze
  <2> QED
    BY <1>1, <1>2, <2>1, <2>3, <2>4, <2>5, <2>6 DEF TypeOK, ringVars, cfgVars
<1>4. CASE WorkflowEnqueue
  <2>1. UNCHANGED <<trialVars, plugVars>>
    BY <1>4 DEF WorkflowEnqueue
  <2>2. Return(ready[ready_tail] = NoTrial)
    BY <1>4 DEF WorkflowEnqueue
  <2>3. /\ wire' \in [Clients -> Mesg]
        /\ at' \in {"select", "generate", "exit"}
        /\ caller' = "none" /\ from' = NoClient /\ trial_idx' = 0
    BY <2>2, ReturnType
  <2>4. /\ ready' \in [Slots -> Slots \cup {NoTrial}]
        /\ ready_head' \in Slots /\ ready_tail' \in Slots
    <3>1. Advance(ready_tail, pending_cap) \in Slots
      BY AdvanceType DEF TypeOK, Slots, Cells
    <3>2. ready_head' = ready_head
      BY <1>4 DEF WorkflowEnqueue, ringVars
    <3>3. CASE UNCHANGED ringVars
      BY <3>3 DEF ringVars, TypeOK
    <3>4. CASE Enqueue(trial_idx)
      BY <3>1, <3>2, <3>4 DEF Enqueue, TypeOK
    <3> QED BY <1>4, <3>3, <3>4 DEF WorkflowEnqueue
  <2> QED
    BY <1>1, <1>2, <2>1, <2>3, <2>4 DEF TypeOK, trialVars, plugVars, cfgVars
<1> QED
  BY <1>3, <1>4

(* The generation loop.                                                    *)
LEMMA GenerateType ==
  ASSUME NEW S, NEW L, StrategyContract(S), TypeInv(S, L),
         StartGenerate \/ EndGenerate \/ generate_trial, UNCHANGED hdesc
  PROVE  TypeInv(S, L)'
<1> USE DEF TypeInv, LstateIn
<1>1. UNCHANGED <<pending_cap, Slots, holder, ringVars, lstate, waiting, cfgVars, paused_id,
                  wire, from>>
  BY DEF StartGenerate, EndGenerate, generate_trial, Slots, trialVars, plugVars
<1>2. CASE StartGenerate
  BY <1>1, <1>2 DEF StartGenerate, TypeOK, trialVars, plugVars, ringVars, cfgVars
<1>3. CASE EndGenerate
  BY <1>1, <1>3 DEF EndGenerate, TypeOK, trialVars, plugVars, ringVars, cfgVars
<1>4. CASE generate_trial
  <2>1. PICK o \in StrategyGenerate(strat) :
          /\ strat' = o.next
          /\ IF o.status = "WAIT"
               THEN /\ pollstate' = FALSE
                    /\ UNCHANGED <<pending, pending_len, at, caller, trial_idx, curr_layer>>
               ELSE /\ trial_idx' = First(SlotsWith(-1))
                    /\ pending' = [pending EXCEPT ![trial_idx'] = Trial(o.point, Infinity)]
                    /\ pending_len' = pending_len + 1
                    /\ curr_layer' = 1
                    /\ at' = "workflow"
                    /\ caller' = "generate"
                    /\ UNCHANGED pollstate
    BY <1>4 DEF generate_trial
  <2>2. o.next \in S /\ o.point \in Point
    <3>1. o \in [next : S, status : {"ACCEPT", "WAIT"}, point : Point]
      BY DEF StrategyContract
    <3> QED BY <3>1
  <2>3. cb_next' = cb_next
    BY <1>4 DEF generate_trial
  <2>4. CASE o.status = "WAIT"
    BY <1>1, <2>1, <2>2, <2>3, <2>4 DEF TypeOK, ringVars, cfgVars
  <2>5. CASE o.status # "WAIT"
    <3>1. First(SlotsWith(-1)) \in Slots
      <4>1. SlotsWith(-1) \in SUBSET Nat /\ SlotsWith(-1) # {}
        BY <1>4 DEF SlotsWith, Slots, TypeOK, generate_trial
      <4>2. First(SlotsWith(-1)) \in SlotsWith(-1)
        BY <4>1, FirstType
      <4> QED BY <4>2 DEF SlotsWith
    <3>2. Trial(o.point, Infinity) \in Trials
      BY <2>2 DEF Trial, Trials, Point
    <3>3. 1 \in -LstackLen .. LstackLen + 1
      BY SessionAssumption
    <3> QED
      BY <1>1, <2>1, <2>2, <2>3, <2>5, <3>1, <3>2, <3>3 DEF TypeOK, ringVars, cfgVars
  <2> QED BY <2>4, <2>5
<1> QED
  BY <1>2, <1>3, <1>4

(* A layer's callback.                                                     *)
LEMMA CallbackType ==
  ASSUME NEW S, NEW L, StrategyContract(S), LayerContract(L), TypeInv(S, L),
         NEW i \in 1 .. Len(Callbacks), handle_callback(i), UNCHANGED hdesc
  PROVE  TypeInv(S, L)'
<1> USE DEF TypeInv, LstateIn
<1> DEFINE layer == Callbacks[i]
           k     == IF layer < 0 THEN -layer ELSE layer
           list  == {s \in Slots : <<layer, s>> \in waiting}
           trials == [s \in list |-> pending[s]]
<1>1. /\ layer \in -LstackLen .. LstackLen
      /\ k \in 1 .. LstackLen
      /\ lstate[k] \in L[k]
      /\ list \in SUBSET Nat
      /\ list \subseteq Slots
      /\ trials \in [list -> Trials]
  <2>1. layer \in (-LstackLen .. LstackLen) \ {0}
    BY SessionAssumption
  <2> HIDE DEF layer
  <2>2. k \in 1 .. LstackLen
    BY <2>1, SessionAssumption
  <2>3. list \in SUBSET Nat /\ list \subseteq Slots
    <3>1. list \subseteq Slots
      OBVIOUS
    <3>2. pending_cap \in Nat
      BY DEF TypeOK
    <3>3. Slots \subseteq Nat
      BY <3>2 DEF Slots
    <3> HIDE DEF list
    <3> QED BY <3>1, <3>3
  <2> HIDE DEF k, list
  <2> QED BY <2>1, <2>2, <2>3 DEF TypeOK
<1>2. PICK o \in LayerCallback(k, lstate[k], trials) :
        \E t \in workflow_transition(o.slot, layer, o) :
          /\ lstate' = [lstate EXCEPT ![k] = o.next]
          /\ waiting' = IF t.ret = 0 THEN Unpark(t.waiting, layer, o.slot) ELSE t.waiting
          /\ Take(t, o.slot, pending[o.slot].perf)
          /\ IF t.ret = 0
               THEN at' = "workflow" /\ caller' = "callback" /\ trial_idx' = o.slot
               ELSE UNCHANGED <<at, caller, trial_idx>>
  BY DEF handle_callback
<1>3. PICK t \in workflow_transition(o.slot, layer, o) :
        /\ lstate' = [lstate EXCEPT ![k] = o.next]
        /\ waiting' = IF t.ret = 0 THEN Unpark(t.waiting, layer, o.slot) ELSE t.waiting
        /\ Take(t, o.slot, pending[o.slot].perf)
        /\ IF t.ret = 0
             THEN at' = "workflow" /\ caller' = "callback" /\ trial_idx' = o.slot
             ELSE UNCHANGED <<at, caller, trial_idx>>
  BY <1>2
<1>4. o.next \in L[k] /\ o.status \in FlowStatuses /\ o.hint \in Point /\ o.slot \in list
  <2> HIDE DEF list, trials, k, layer
  <2>1. LayerCallback(k, lstate[k], trials)
          \subseteq [next : L[k], status : FlowStatuses, hint : Point, slot : list]
    BY <1>1 DEF LayerContract
  <2> QED BY <1>2, <2>1
<1>5. o.slot \in Slots
  BY <1>1, <1>4
<1> HIDE DEF list, trials, k, layer
<1>6. /\ t.layer \in -LstackLen .. LstackLen + 1
      /\ t.strat \in S
      /\ t.waiting \subseteq ((-LstackLen .. LstackLen) \X Slots)
      /\ t.point \in Point
      /\ t.pollstate \in BOOLEAN
  BY <1>1, <1>4, <1>5, TransitionType DEF LayerStatuses
<1>7. UNCHANGED <<pending_cap, Slots, pending_len, holder, ringVars, cfgVars, paused_id,
                  wire, from>>
  BY DEF handle_callback, Slots
<1>8. cb_next' \in Nat \ {0}
  BY DEF handle_callback
<1>9. /\ strat' \in S /\ LstateIn(L)'
      /\ pollstate' \in BOOLEAN
      /\ curr_layer' \in -LstackLen .. LstackLen + 1
  BY <1>1, <1>3, <1>4, <1>6 DEF Take
<1>10. waiting' \subseteq ((-LstackLen .. LstackLen) \X Slots)
  BY <1>3, <1>6 DEF Unpark
<1>11. pending' \in [Slots -> Trials]
  <2>1. Trial(t.point, pending[o.slot].perf) \in Trials
    BY <1>5, <1>6 DEF Trial, Trials, Point, TypeOK
  <2> QED BY <2>1, <1>3 DEF Take, TypeOK
<1>12. /\ at' \in {"select", "workflow", "generate", "exit"}
       /\ caller' \in {"none", "generate", "report", "callback"}
       /\ trial_idx' \in Slots
  BY <1>3, <1>5 DEF TypeOK
<1> QED
  BY <1>7, <1>8, <1>9, <1>10, <1>11, <1>12 DEF TypeOK, ringVars, cfgVars

-----------------------------------------------------------------------------
(* Growing the lists leaves them well typed.                               *)
LEMMA GrowthType ==
  ASSUME TypeOK, NEW n \in Int, extend_lists(n)
  PROVE  /\ pending_cap' \in Nat \ {0}
         /\ Slots \subseteq Slots'
         /\ pending' \in [Slots' -> Trials]
         /\ pending_len' \in Int
         /\ holder' \in [Slots' -> Clients \cup {NoClient}]
         /\ ready' \in [Slots' -> Slots' \cup {NoTrial}]
         /\ ready_head' \in Slots' /\ ready_tail' \in Slots'
<1>1. CASE pending_cap >= n
  BY <1>1 DEF extend_lists, TypeOK, Slots, trialVars, ringVars
<1>2. CASE ~(pending_cap >= n)
  <2> DEFINE cap  == array_grow(n)
             ring == Extend(ready, ready_head, ready_tail, pending_cap, cap)
  <2>1. /\ pending_cap' = cap
        /\ pending' = [j \in Cells(cap) |-> IF j < pending_cap THEN pending[j] ELSE FreeTrial]
        /\ holder' = [j \in Cells(cap) |-> IF j < pending_cap THEN holder[j] ELSE NoClient]
        /\ ready' = ring.ready
        /\ ready_head' = ring.head
        /\ ready_tail' = ring.tail
        /\ UNCHANGED pending_len
    BY <1>2 DEF extend_lists
  <2>2. cap \in Nat \ {0} /\ pending_cap < cap
    BY <1>2, GrowType DEF TypeOK
  <2>3. Slots = Cells(pending_cap)
    BY DEF Slots, Cells
  <2> HIDE DEF cap
  <2>4. Slots' = Cells(cap) /\ Slots \subseteq Slots'
    BY <2>1, <2>2, <2>3 DEF Slots, Cells, TypeOK
  <2>5. /\ ready' \in [Slots' -> Slots' \cup {NoTrial}]
        /\ ready_head' \in Slots' /\ ready_tail' \in Slots'
    <3>1. /\ ring.ready \in [Cells(cap) -> Cells(cap) \cup {NoTrial}]
          /\ ring.head \in Cells(cap)
          /\ ring.tail \in Cells(cap)
      BY <2>2, <2>3, ExtendType DEF TypeOK
    <3> QED BY <2>1, <2>4, <3>1
  <2>6. /\ pending' \in [Slots' -> Trials]
        /\ holder' \in [Slots' -> Clients \cup {NoClient}]
    <3>1. \A j \in Cells(cap) : j < pending_cap => j \in Slots
      BY <2>2, <2>3 DEF Cells, TypeOK
    <3> QED BY <2>1, <2>4, <3>1, InitialType DEF TypeOK
  <2> QED
    BY <2>1, <2>2, <2>4, <2>5, <2>6 DEF TypeOK
<1> QED
  BY <1>1, <1>2

(* A client joins.                                                         *)
LEMMA JoinType ==
  ASSUME NEW S, NEW L, TypeInv(S, L), NEW c \in Clients, handle_join(c), UNCHANGED hdesc
  PROVE  TypeInv(S, L)'
<1> USE DEF TypeInv, LstateIn
<1>1. UNCHANGED <<plugVars, paused, restarts, paused_id, caller, from, trial_idx,
                  curr_layer, cb_next>>
  BY DEF handle_join
<1>2. CASE wire[c].flag
  <2>1. num_clients' = num_clients + 1 /\ extend_lists((num_clients + 1) * PerClient)
    BY <1>2 DEF handle_join
  <2>2. (num_clients + 1) * PerClient \in Int
    BY SessionAssumption DEF TypeOK
  <2>3. /\ pending_cap' \in Nat \ {0}
        /\ Slots \subseteq Slots'
        /\ pending' \in [Slots' -> Trials]
        /\ pending_len' \in Int
        /\ holder' \in [Slots' -> Clients \cup {NoClient}]
        /\ ready' \in [Slots' -> Slots' \cup {NoTrial}]
        /\ ready_head' \in Slots' /\ ready_tail' \in Slots'
    BY <2>1, <2>2, GrowthType
  <2>4. wire' \in [Clients -> Mesg] /\ at' = "generate"
    <3>1. [wire[c] EXCEPT !.status = "OK"] \in Mesg
      BY DEF TypeOK, Mesg, MesgStatuses
    <3> QED BY <1>2, <3>1, ReplyType DEF handle_join, TypeOK
  <2>5. waiting' \subseteq ((-LstackLen .. LstackLen) \X Slots') /\ trial_idx' \in Slots'
    BY <1>1, <2>3 DEF TypeOK, plugVars
  <2> QED
    BY <1>1, <2>1, <2>3, <2>4, <2>5 DEF TypeOK, plugVars
<1>3. CASE ~wire[c].flag
  <2>1. Fail(c) /\ UNCHANGED <<num_clients, trialVars, ringVars>>
    BY <1>3 DEF handle_join
  <2>2. wire' \in [Clients -> Mesg] /\ at' = "exit"
    BY <2>1, FailType DEF TypeOK
  <2>3. Slots' = Slots
    BY <2>1 DEF Slots, trialVars
  <2> QED
    BY <1>1, <2>1, <2>2, <2>3 DEF TypeOK, trialVars, ringVars, plugVars
<1> QED
  BY <1>2, <1>3

(* The requests that only read the session.                                *)
LEMMA QueryType ==
  ASSUME NEW S, NEW L, StrategyContract(S), TypeInv(S, L), NEW c \in Clients,
         handle_getcfg(c) \/ handle_best(c), UNCHANGED hdesc
  PROVE  TypeInv(S, L)'
<1> USE DEF TypeInv, LstateIn
<1>1. UNCHANGED <<trialVars, ringVars, plugVars, cfgVars, paused_id, caller, from,
                  trial_idx, curr_layer, cb_next, Slots>>
  BY DEF handle_getcfg, handle_best, trialVars, Slots
<1>2. wire' \in [Clients -> Mesg] /\ at' = "generate"
  <2>1. wire[c] \in Mesg /\ StrategyConverged(strat) \in BOOLEAN /\ StrategyBest(strat) \in Point
    BY DEF TypeOK, StrategyContract
  <2>2. [wire[c] EXCEPT !.status = "OK", !.flag = StrategyConverged(strat)] \in Mesg
    BY <2>1 DEF Mesg, MesgStatuses
  <2>3. [wire[c] EXCEPT !.status = "OK", !.point = StrategyBest(strat)] \in Mesg
    BY <2>1 DEF Mesg, MesgStatuses
  <2> QED
    BY <2>2, <2>3, ReplyType DEF handle_getcfg, handle_best, TypeOK
<1> QED
  BY <1>1, <1>2 DEF TypeOK, trialVars, ringVars, plugVars, cfgVars

(* A client fetches a trial.                                               *)
LEMMA FetchType ==
  ASSUME NEW S, NEW L, StrategyContract(S), TypeInv(S, L), NEW c \in Clients,
         handle_fetch(c), UNCHANGED hdesc
  PROVE  TypeInv(S, L)'
<1> USE DEF TypeInv, LstateIn
<1> DEFINE idx == ready[ready_head]
<1>1. UNCHANGED <<pending, pending_len, pending_cap, Slots, ready_tail, plugVars, cfgVars,
                  caller, from, trial_idx, curr_layer, cb_next>>
  BY DEF handle_fetch, Slots
<1>2. wire[c] \in Mesg /\ idx \in Slots \cup {NoTrial}
  BY DEF TypeOK
<1>3. CASE ~paused /\ idx >= 0
  <2>1. /\ Reply(c, [wire[c] EXCEPT !.status = "OK", !.point = PointOf(pending[idx])])
        /\ Dequeue
        /\ holder' = [holder EXCEPT ![idx] = c]
        /\ UNCHANGED paused_id
    BY <1>3 DEF handle_fetch
  <2>2. idx \in Slots
    BY <1>2, <1>3 DEF NoTrial
  <2> HIDE DEF idx
  <2>3. [wire[c] EXCEPT !.status = "OK", !.point = PointOf(pending[idx])] \in Mesg
    <3>1. PointOf(pending[idx]) \in Point
      BY <2>2 DEF TypeOK, PointOf, Point, Trials
    <3> QED BY <1>2, <3>1 DEF Mesg, MesgStatuses
  <2>4. wire' \in [Clients -> Mesg] /\ at' = "generate"
    BY <2>1, <2>3, ReplyType DEF TypeOK
  <2>5. ready' \in [Slots -> Slots \cup {NoTrial}] /\ ready_head' \in Slots
    <3>1. Advance(ready_head, pending_cap) \in Slots
      BY AdvanceType DEF TypeOK, Slots, Cells
    <3> QED BY <2>1, <3>1 DEF Dequeue, TypeOK
  <2>6. holder' \in [Slots -> Clients \cup {NoClient}]
    BY <2>1 DEF TypeOK
  <2> QED
    BY <1>1, <2>1, <2>4, <2>5, <2>6 DEF TypeOK, plugVars, cfgVars
<1>4. CASE ~(~paused /\ idx >= 0)
  <2>1. /\ Reply(c, [wire[c] EXCEPT !.status = "BUSY", !.point = StrategyBest(strat)])
        /\ paused_id' = StrategyBest(strat).id
        /\ UNCHANGED <<ready, ready_head, holder>>
    BY <1>4 DEF handle_fetch
  <2>2. StrategyBest(strat) \in Point
    BY DEF StrategyContract
  <2>3. [wire[c] EXCEPT !.status = "BUSY", !.point = StrategyBest(strat)] \in Mesg
    BY <1>2, <2>2 DEF Mesg, MesgStatuses
  <2>4. wire' \in [Clients -> Mesg] /\ at' = "generate"
    BY <2>1, <2>3, ReplyType DEF TypeOK
  <2>5. paused_id' \in Int
    BY <2>1, <2>2 DEF Point
  <2> QED
    BY <1>1, <2>1, <2>4, <2>5 DEF TypeOK, plugVars, cfgVars
<1> QED
  BY <1>3, <1>4

(* A client reports a trial.                                               *)
LEMMA ReportType ==
  ASSUME NEW S, NEW L, TypeInv(S, L), NEW c \in Clients, handle_report(c), UNCHANGED hdesc
  PROVE  TypeInv(S, L)'
<1> USE DEF TypeInv, LstateIn
<1> DEFINE found == SlotsWith(wire[c].point.id)
           idx   == First(found)
<1>1. UNCHANGED <<pending_len, pending_cap, Slots, ringVars, plugVars, cfgVars, cb_next>>
  BY DEF handle_report, Slots
<1>2. wire[c] \in Mesg
  BY DEF TypeOK
<1>3. CASE found # {}
  <2>1. /\ paused_id' = 0
        /\ pending' = [pending EXCEPT ![idx].perf = wire[c].perf]
        /\ holder' = [holder EXCEPT ![idx] = NoClient]
        /\ trial_idx' = idx
        /\ curr_layer' = -LstackLen
        /\ caller' = "report" /\ from' = c
        /\ at' = "workflow"
        /\ UNCHANGED wire
    BY <1>3 DEF handle_report
  <2>2. idx \in Slots
    <3>1. found \in SUBSET Nat /\ found \subseteq Slots
      BY DEF SlotsWith, Slots, TypeOK
    <3> HIDE DEF found
    <3>2. idx \in found
      BY <1>3, <3>1, FirstType
    <3> QED BY <3>1, <3>2
  <2> HIDE DEF idx
  <2>3. pending' \in [Slots -> Trials]
    <3>1. pending[idx] \in Trials /\ wire[c].perf \in Perfs \cup {Infinity}
      BY <1>2, <2>2 DEF TypeOK, Mesg
    <3> QED BY <2>1, <3>1 DEF TypeOK, Trials
  <2>4. curr_layer' \in -LstackLen .. LstackLen + 1
    BY <2>1, SessionAssumption
  <2> QED
    BY <1>1, <2>1, <2>2, <2>3, <2>4 DEF TypeOK, ringVars, plugVars, cfgVars
<1>4. CASE found = {}
  <2>1. UNCHANGED <<paused_id, pending, holder, trial_idx, curr_layer, caller, from>>
    BY <1>4 DEF handle_report
  <2>2. wire' \in [Clients -> Mesg] /\ at' \in {"generate", "exit"}
    <3>1. [wire[c] EXCEPT !.status = "OK"] \in Mesg
      BY <1>2 DEF Mesg, MesgStatuses
    <3>2. Reply(c, [wire[c] EXCEPT !.status = "OK"]) \/ Fail(c)
      BY <1>4 DEF handle_report
    <3> QED BY <3>1, <3>2, ReplyType, FailType DEF TypeOK
  <2> QED
    BY <1>1, <2>1, <2>2 DEF TypeOK, ringVars, plugVars, cfgVars
<1> QED
  BY <1>3, <1>4

(* Pausing, resuming and restarting.                                       *)
LEMMA HttpType ==
  ASSUME NEW S, NEW L, StrategyContract(S), LayerContract(L), TypeInv(S, L),
         HttpRequest, UNCHANGED hdesc
  PROVE  TypeInv(S, L)'
<1> USE DEF TypeInv, LstateIn
<1>1. Slots' = Slots
  BY DEF HttpRequest, handle_setcfg, handle_restart, trialVars, Slots
<1>2. ASSUME NEW value \in BOOLEAN, handle_setcfg(value) PROVE TypeInv(S, L)'
  <2>1. paused' \in BOOLEAN
    BY <1>2 DEF handle_setcfg
  <2> QED
    BY <1>1, <1>2, <2>1 DEF handle_setcfg, TypeOK, trialVars, ringVars, plugVars
<1>3. CASE handle_restart
  <2>1. strat' \in S /\ LstateIn(L)'
    BY <1>3 DEF handle_restart, StrategyContract, LayerContract
  <2> QED
    BY <1>1, <1>3, <2>1 DEF handle_restart, TypeOK, trialVars, ringVars
<1> QED
  BY <1>2, <1>3 DEF HttpRequest

-----------------------------------------------------------------------------
(* The client library's steps.                                             *)
LEMMA ClientType ==
  ASSUME TypeOK, NEW c \in Clients, CallJoin(c) \/ ClientCall(c) \/ ClientRecv(c)
  PROVE  /\ wire' \in [Clients -> Mesg]
         /\ hdesc' \in [Clients -> [state : ClientStates, curr : Point, best : Point,
                                 ptr : Vals \cup {NoVal}]]
<1>1. /\ wire \in [Clients -> Mesg]
      /\ hdesc \in [Clients -> [state : ClientStates, curr : Point, best : Point,
                                 ptr : Vals \cup {NoVal}]]
      /\ wire[c] \in Mesg
      /\ hdesc[c] \in [state : ClientStates, curr : Point, best : Point,
                                 ptr : Vals \cup {NoVal}]
  BY DEF TypeOK
<1>2. ASSUME NEW m \in Mesg, NEW type \in MesgTypes, Request(c, type, m)
      PROVE  wire' \in [Clients -> Mesg]
  <2>1. [m EXCEPT !.type = type, !.status = "REQ"] \in Mesg
    BY DEF Mesg, MesgStatuses
  <2> QED BY <1>1, <1>2, <2>1 DEF Request
<1>3. Done(c) => wire' \in [Clients -> Mesg]
  BY <1>1, InitialType DEF Done
<1>4. CASE CallJoin(c)
  <2>1. PICK match \in SigMatch : Request(c, "JOIN", [HMESG_INITIALIZER EXCEPT !.flag = match])
    BY <1>4 DEF CallJoin
  <2>2. [HMESG_INITIALIZER EXCEPT !.flag = match] \in Mesg
    BY InitialType, ClientAssumption DEF Mesg
  <2>3. "JOIN" \in MesgTypes
    BY DEF MesgTypes
  <2> QED BY <1>1, <1>2, <1>4, <2>1, <2>2, <2>3 DEF CallJoin
<1>5. CASE CallFetch(c) \/ CallBest(c) \/ CallConverged(c)
  <2>1. {"FETCH", "BEST", "GETCFG"} \subseteq MesgTypes
    BY DEF MesgTypes
  <2> QED BY <1>1, <1>2, <1>5, <2>1, InitialType DEF CallFetch, CallBest, CallConverged
<1>6. CASE CallReport(c)
  <2>1. PICK p \in Perfs : Request(c, "REPORT", [HMESG_INITIALIZER EXCEPT
                                      !.point.id = hdesc[c].curr.id, !.perf = p])
    BY <1>6 DEF CallReport
  <2>2. [HMESG_INITIALIZER EXCEPT !.point.id = hdesc[c].curr.id, !.perf = p] \in Mesg
    BY <1>1, InitialType DEF Mesg, Point
  <2>3. "REPORT" \in MesgTypes
    BY DEF MesgTypes
  <2> QED BY <1>1, <1>2, <1>6, <2>1, <2>2, <2>3 DEF CallReport
<1>7. CASE harmony_leave(c)
  <2>1. [hdesc[c].best EXCEPT !.id = -1] \in Point
    BY <1>1 DEF Point
  <2> QED BY <1>1, <1>7, <2>1 DEF harmony_leave, ClientStates
<1>8. CASE RecvJoin(c) \/ RecvReport(c) \/ RecvConverged(c)
  BY <1>1, <1>3, <1>8 DEF RecvJoin, RecvReport, RecvConverged, ClientStates
<1>9. CASE RecvFetch(c) \/ RecvBest(c)
  <2>1. wire[c].point \in Point
    BY <1>1 DEF Mesg
  <2>2. update_best(hdesc[c].best, wire[c].point) \in Point
    BY <1>1, <2>1 DEF update_best
  <2>3. CASE RecvFetch(c)
    <3> DEFINE busy == wire[c].status = "BUSY"
               best == IF busy THEN update_best(hdesc[c].best, wire[c].point)
                               ELSE hdesc[c].best
               none == busy /\ best.id = -1
               curr == IF busy THEN best ELSE wire[c].point
    <3>1. best \in Point /\ curr \in Point /\ curr.val \in Vals \cup {NoVal}
      BY <1>1, <2>1, <2>2 DEF Point
    <3>2. hdesc' = [hdesc EXCEPT ![c] =
                      [state |-> IF none \/ curr.val = NoVal THEN hdesc[c].state ELSE "TESTING",
                       curr  |-> IF none THEN hdesc[c].curr ELSE curr,
                       best  |-> best,
                       ptr   |-> IF none \/ curr.val = NoVal THEN hdesc[c].ptr ELSE curr.val]]
      BY <2>3 DEF RecvFetch
    <3> HIDE DEF busy, best, none, curr
    <3> QED BY <1>1, <1>3, <2>3, <3>1, <3>2 DEF RecvFetch, ClientStates
  <2>4. CASE RecvBest(c)
    <3>1. update_best(hdesc[c].best, wire[c].point).val \in Vals \cup {NoVal}
      BY <2>2 DEF Point
    <3> QED BY <1>1, <1>3, <2>2, <2>4, <3>1 DEF RecvBest
  <2> QED BY <1>9, <2>3, <2>4
<1> QED
  BY <1>4, <1>5, <1>6, <1>7, <1>8, <1>9 DEF ClientCall, ClientRecv

-----------------------------------------------------------------------------
(* Every step keeps the invariant.                                         *)
LEMMA StepType ==
  ASSUME NEW S, NEW L, StrategyContract(S), LayerContract(L), TypeInv(S, L), [Next]_vars
  PROVE  TypeInv(S, L)'
<1>1. ASSUME NEW c \in Clients, ClientStep(c) PROVE TypeInv(S, L)'
  <2>1. UNCHANGED sessionVars
    BY <1>1 DEF ClientStep
  <2>2. /\ wire' \in [Clients -> Mesg]
        /\ hdesc' \in [Clients -> [state : ClientStates, curr : Point, best : Point,
                                 ptr : Vals \cup {NoVal}]]
    BY <1>1, ClientType DEF ClientStep, TypeInv
  <2> QED
    BY <2>1, <2>2 DEF TypeInv, LstateIn, TypeOK, Slots, sessionVars, trialVars, ringVars, plugVars,
       flowVars, cfgVars
<1>2. CASE SessionWork /\ UNCHANGED hdesc
  BY <1>2, LayerStepType, WorkflowEndType, GenerateType, CallbackType DEF SessionWork
<1>3. CASE HttpRequest /\ UNCHANGED hdesc
  BY <1>3, HttpType
<1>4. ASSUME NEW c \in Clients, HandleMessage(c), UNCHANGED hdesc PROVE TypeInv(S, L)'
  BY <1>4, JoinType, QueryType, FetchType, ReportType DEF HandleMessage
<1>5. CASE UNCHANGED vars
  BY <1>5 DEF vars, TypeInv, LstateIn, TypeOK, Slots, sessionVars, trialVars, ringVars, plugVars,
     flowVars, cfgVars
<1> QED
  BY <1>1, <1>2, <1>3, <1>4, <1>5 DEF Next, SessionStep

(* Type correctness of the session and its clients: with any strategy and  *)
(* any layers that keep the contract, for every number of clients and      *)
(* every size of the lists, through every growth of the ring.              *)
THEOREM TypeCorrect ==
  ASSUME NEW S, NEW L, StrategyContract(S), LayerContract(L)
  PROVE  Spec => []TypeOK
<1>1. Init => TypeInv(S, L)
  BY InitType
<1>2. TypeInv(S, L) /\ [Next]_vars => TypeInv(S, L)'
  BY StepType
<1>3. TypeInv(S, L) => TypeOK
  BY DEF TypeInv
<1> QED
  BY <1>1, <1>2, <1>3, PTL DEF Spec

-----------------------------------------------------------------------------
(***************************************************************************)
(* The ready ring keeps its shape as long as the lists do not grow: with   *)
(* the storage of all clients that join within the initial capacity, for   *)
(* any strategy and any layers that keep the contract.  (When they do grow *)
(* the shape can be lost: see the run JoinGrowth.)                         *)
(***************************************************************************)

(* The initial lists are large enough for every client that joins.         *)
NoGrowth == MaxJoins * PerClient <= InitCap

RingInv(S, L) ==
  /\ TypeInv(S, L)
  /\ pending_cap = InitCap
  /\ num_clients <= MaxJoins
  /\ RingShape

-----------------------------------------------------------------------------
(* Writing a trial into the free cell at tail keeps the shape.             *)
LEMMA EnqueueShape ==
  ASSUME NEW cap \in Nat \ {0}, NEW r \in [Cells(cap) -> Int],
         NEW h \in Cells(cap), NEW t \in Cells(cap),
         WellShaped(r, h, t, cap), r[t] = NoTrial, NEW i \in Nat
  PROVE  WellShaped([r EXCEPT ![t] = i], h, Advance(t, cap), cap)
<1> DEFINE u == Advance(t, cap)
           q == [r EXCEPT ![t] = i]
<1>1. u \in Cells(cap) /\ u = IF t + 1 = cap THEN 0 ELSE t + 1
  BY AdvanceType
<1>2. \A p \in Cells(cap) : q[p] = IF p = t THEN i ELSE r[p]
  OBVIOUS
<1>3. i # NoTrial
  BY DEF NoTrial
<1> HIDE DEF u, q
<1>4. CASE h = t
  <2>1. \A p \in Cells(cap) : r[p] = NoTrial
    BY <1>4 DEF WellShaped
  <2>2. \A p \in Cells(cap) : q[p] # NoTrial <=> p = t
    BY <1>2, <1>3, <2>1
  <2> QED
    BY <1>1, <1>4, <2>2 DEF WellShaped, Cells, u, q
<1>5. CASE h # t
  <2>1. \A p \in Cells(cap) : r[p] # NoTrial <=>
          IF h < t THEN h <= p /\ p < t ELSE h <= p \/ p < t
    BY <1>5 DEF WellShaped
  <2>2. \A p \in Cells(cap) : q[p] # NoTrial <=>
          p = t \/ IF h < t THEN h <= p /\ p < t ELSE h <= p \/ p < t
    BY <1>2, <1>3, <2>1
  <2> QED
    BY <1>1, <1>5, <2>2 DEF WellShaped, Cells, u, q
<1> QED
  BY <1>4, <1>5

(* Taking the trial at head keeps the shape.                               *)
LEMMA DequeueShape ==
  ASSUME NEW cap \in Nat \ {0}, NEW r \in [Cells(cap) -> Int],
         NEW h \in Cells(cap), NEW t \in Cells(cap),
         WellShaped(r, h, t, cap), r[h] # NoTrial
  PROVE  WellShaped([r EXCEPT ![h] = NoTrial], Advance(h, cap), t, cap)
<1> DEFINE u == Advance(h, cap)
           q == [r EXCEPT ![h] = NoTrial]
<1>1. u \in Cells(cap) /\ u = IF h + 1 = cap THEN 0 ELSE h + 1
  BY AdvanceType
<1>2. \A p \in Cells(cap) : q[p] = IF p = h THEN NoTrial ELSE r[p]
  OBVIOUS
<1> HIDE DEF u, q
<1>3. CASE h = t
  <2>1. \A p \in Cells(cap) : r[p] # NoTrial
    BY <1>3 DEF WellShaped
  <2>2. \A p \in Cells(cap) : q[p] # NoTrial <=> p # h
    BY <1>2, <2>1
  <2> QED
    BY <1>1, <1>3, <2>2 DEF WellShaped, Cells, u, q
<1>4. CASE h # t
  <2>1. \A p \in Cells(cap) : r[p] # NoTrial <=>
          IF h < t THEN h <= p /\ p < t ELSE h <= p \/ p < t
    BY <1>4 DEF WellShaped
  <2>2. \A p \in Cells(cap) : q[p] # NoTrial <=>
          p # h /\ IF h < t THEN h <= p /\ p < t ELSE h <= p \/ p < t
    BY <1>2, <2>1
  <2> QED
    BY <1>1, <1>4, <2>2 DEF WellShaped, Cells, u, q
<1> QED
  BY <1>3, <1>4

-----------------------------------------------------------------------------
(* An empty ring is well shaped.                                           *)
LEMMA InitShape ==
  ASSUME NEW S, NEW L, StrategyContract(S), LayerContract(L), Init
  PROVE  RingInv(S, L)
<1>1. TypeInv(S, L)
  BY InitType
<1>2. pending_cap = InitCap /\ num_clients <= MaxJoins
  BY SessionAssumption DEF Init, SessionInit
<1>3. RingShape
  BY DEF Init, SessionInit, RingShape, WellShaped
<1> QED
  BY <1>1, <1>2, <1>3 DEF RingInv

(* Every step keeps the ring in shape: only WorkflowEnqueue and            *)
(* handle_fetch touch it, and a join does not grow it.                     *)
LEMMA StepShape ==
  ASSUME NEW S, NEW L, StrategyContract(S), LayerContract(L), NoGrowth,
         RingInv(S, L), [Next]_vars
  PROVE  RingInv(S, L)'
<1>1. TypeInv(S, L)'
  BY StepType DEF RingInv
<1>2. /\ pending_cap \in Nat \ {0}
      /\ Slots = Cells(pending_cap)
      /\ ready \in [Cells(pending_cap) -> Int]
      /\ ready_head \in Cells(pending_cap) /\ ready_tail \in Cells(pending_cap)
      /\ num_clients \in Nat
      /\ trial_idx \in Nat
      /\ RingShape /\ pending_cap = InitCap /\ num_clients <= MaxJoins
  <2>1. TypeOK /\ RingShape /\ pending_cap = InitCap /\ num_clients <= MaxJoins
    BY DEF RingInv, TypeInv
  <2>2. Slots = Cells(pending_cap) /\ Slots \subseteq Nat
    BY <2>1 DEF TypeOK, Slots, Cells
  <2>3. Slots \cup {NoTrial} \subseteq Int
    BY <2>2 DEF NoTrial
  <2> QED
    BY <2>1, <2>2, <2>3 DEF TypeOK
<1> DEFINE Kept == pending_cap' = InitCap /\ num_clients' <= MaxJoins /\ RingShape'
<1> SUFFICES Kept
  BY <1>1 DEF RingInv
<1>3. UNCHANGED <<pending_cap, ringVars, num_clients>> => Kept
  BY <1>2 DEF RingShape, ringVars
<1>4. CASE WorkflowEnqueue
  <2>1. UNCHANGED <<pending_cap, num_clients>>
    BY <1>4 DEF WorkflowEnqueue, trialVars, cfgVars
  <2>2. CASE UNCHANGED ringVars
    BY <1>3, <2>1, <2>2
  <2>3. CASE ready[ready_tail] = NoTrial /\ Enqueue(trial_idx) /\ UNCHANGED ready_head
    <3>1. WellShaped([ready EXCEPT ![ready_tail] = trial_idx], ready_head,
                     Advance(ready_tail, pending_cap), pending_cap)
      BY <1>2, <2>3, EnqueueShape DEF RingShape
    <3> QED BY <1>2, <2>1, <2>3, <3>1 DEF Enqueue, RingShape
  <2> QED BY <1>4, <2>2, <2>3 DEF WorkflowEnqueue
<1>5. ASSUME NEW c \in Clients, handle_fetch(c) PROVE Kept
  <2>1. UNCHANGED <<pending_cap, num_clients, ready_tail>>
    BY <1>5 DEF handle_fetch, cfgVars
  <2>2. CASE UNCHANGED <<ready, ready_head>>
    BY <1>3, <2>1, <2>2 DEF ringVars
  <2>3. CASE ready[ready_head] >= 0 /\ Dequeue
    <3>1. ready[ready_head] # NoTrial
      BY <2>3 DEF NoTrial
    <3>2. WellShaped([ready EXCEPT ![ready_head] = NoTrial],
                     Advance(ready_head, pending_cap), ready_tail, pending_cap)
      BY <1>2, <3>1, DequeueShape DEF RingShape
    <3> QED BY <1>2, <2>1, <2>3, <3>2 DEF Dequeue, RingShape
  <2> QED BY <1>5, <2>2, <2>3 DEF handle_fetch
<1>6. ASSUME NEW c \in Clients, handle_join(c) PROVE Kept
  <2>1. CASE wire[c].flag
    <3>1. /\ num_clients' = num_clients + 1
          /\ num_clients < MaxJoins
          /\ extend_lists((num_clients + 1) * PerClient)
      BY <1>6, <2>1 DEF handle_join
    <3>2. (num_clients + 1) * PerClient <= pending_cap
      <4>1. \A a, b \in Nat : a <= b => a * PerClient <= b * PerClient
        BY SessionAssumption
      <4>2. (num_clients + 1) * PerClient <= MaxJoins * PerClient
        BY <1>2, <3>1, <4>1, SessionAssumption
      <4>3. (num_clients + 1) * PerClient \in Int /\ MaxJoins * PerClient \in Int
        BY <1>2, SessionAssumption
      <4> QED BY <1>2, <4>2, <4>3 DEF NoGrowth
    <3>3. UNCHANGED <<pending_cap, ringVars>>
      <4>1. pending_cap >= (num_clients + 1) * PerClient
        BY <1>2, <3>2, SessionAssumption
      <4> QED BY <3>1, <4>1 DEF extend_lists, trialVars
    <3> QED BY <1>2, <3>1, <3>3, SessionAssumption DEF RingShape, ringVars
  <2>2. CASE ~wire[c].flag
    <3>1. UNCHANGED <<pending_cap, ringVars, num_clients>>
      BY <1>6, <2>2 DEF handle_join, trialVars
    <3> QED BY <1>3, <3>1
  <2> QED BY <2>1, <2>2
<1>7. CASE LayerStep \/ WorkflowAnalyze \/ StartGenerate \/ EndGenerate \/ generate_trial
  BY <1>3, <1>7 DEF LayerStep, WorkflowAnalyze, StartGenerate, EndGenerate, generate_trial,
     trialVars, cfgVars
<1>8. ASSUME NEW i \in 1 .. Len(Callbacks), handle_callback(i) PROVE Kept
  BY <1>3, <1>8 DEF handle_callback, cfgVars
<1>9. ASSUME NEW c \in Clients, handle_getcfg(c) \/ handle_best(c) \/ handle_report(c)
      PROVE  Kept
  BY <1>3, <1>9 DEF handle_getcfg, handle_best, handle_report, trialVars, cfgVars
<1>10. CASE HttpRequest
  BY <1>3, <1>10 DEF HttpRequest, handle_setcfg, handle_restart, trialVars
<1>11. ASSUME NEW c \in Clients, ClientStep(c) PROVE Kept
  BY <1>3, <1>11 DEF ClientStep, sessionVars, trialVars, cfgVars
<1>12. CASE UNCHANGED vars
  BY <1>3, <1>12 DEF vars, sessionVars, trialVars, cfgVars
<1> QED
  BY <1>4, <1>5, <1>6, <1>7, <1>8, <1>9, <1>10, <1>11, <1>12
     DEF Next, SessionStep, SessionWork, HandleMessage

(* RingShape: the free cells of the ready ring are those from tail up to   *)
(* head, through every interleaving of the workflow's enqueues with the    *)
(* clients' fetches.                                                       *)
THEOREM RingCorrect ==
  ASSUME NEW S, NEW L, StrategyContract(S), LayerContract(L), NoGrowth
  PROVE  Spec => []RingShape
<1>1. Init => RingInv(S, L)
  BY InitShape
<1>2. RingInv(S, L) /\ [Next]_vars => RingInv(S, L)'
  BY StepShape
<1>3. RingInv(S, L) => RingShape
  BY DEF RingInv
<1> QED
  BY <1>1, <1>2, <1>3, PTL DEF Spec

-----------------------------------------------------------------------------
(* The cell of the n-th trial of a ring, and the number of its trials.     *)
CellOf(h, n, cap) == IF h + n - 1 < cap THEN h + n - 1 ELSE h + n - 1 - cap

SizeOf(r, h, t, cap) ==
  IF h = t
    THEN IF r[h] = NoTrial THEN 0 ELSE cap
    ELSE IF h < t THEN t - h ELSE t - h + cap

(* Stepping n - 1 cells from head, once around at most.                    *)
LEMMA CellType ==
  ASSUME NEW cap \in Nat \ {0}, NEW h \in Cells(cap), NEW n \in 1 .. cap
  PROVE  CellOf(h, n, cap) \in Cells(cap) /\ (h + n - 1) % cap = CellOf(h, n, cap)
<1>1. CASE h + n - 1 < cap
  BY <1>1 DEF CellOf, Cells
<1>2. CASE ~(h + n - 1 < cap)
  BY <1>2 DEF CellOf, Cells
<1> QED
  BY <1>1, <1>2

(* In a well shaped ring the trials are the first SizeOf cells from head.  *)
LEMMA SizeType ==
  ASSUME NEW cap \in Nat \ {0}, NEW r \in [Cells(cap) -> Int],
         NEW h \in Cells(cap), NEW t \in Cells(cap), WellShaped(r, h, t, cap)
  PROVE  /\ SizeOf(r, h, t, cap) \in 0 .. cap
         /\ \A n \in 1 .. cap :
              r[CellOf(h, n, cap)] # NoTrial <=> n <= SizeOf(r, h, t, cap)
<1>1. CASE h = t /\ r[h] = NoTrial
  <2>1. SizeOf(r, h, t, cap) = 0
    BY <1>1 DEF SizeOf
  <2>2. \A p \in Cells(cap) : r[p] = NoTrial
    BY <1>1 DEF WellShaped
  <2> QED BY <2>1, <2>2, CellType
<1>2. CASE h = t /\ r[h] # NoTrial
  <2>1. SizeOf(r, h, t, cap) = cap
    BY <1>2 DEF SizeOf
  <2>2. \A p \in Cells(cap) : r[p] # NoTrial
    BY <1>2 DEF WellShaped
  <2> QED BY <2>1, <2>2, CellType
<1>3. CASE h # t
  <2>1. SizeOf(r, h, t, cap) = IF h < t THEN t - h ELSE t - h + cap
    BY <1>3 DEF SizeOf
  <2>2. \A p \in Cells(cap) : r[p] # NoTrial <=>
          IF h < t THEN h <= p /\ p < t ELSE h <= p \/ p < t
    BY <1>3 DEF WellShaped
  <2>3. ASSUME NEW n \in 1 .. cap
        PROVE  r[CellOf(h, n, cap)] # NoTrial <=> n <= SizeOf(r, h, t, cap)
    <3>1. r[CellOf(h, n, cap)] # NoTrial <=>
            IF h < t THEN h <= CellOf(h, n, cap) /\ CellOf(h, n, cap) < t
                     ELSE h <= CellOf(h, n, cap) \/ CellOf(h, n, cap) < t
      BY <2>2, CellType
    <3> QED BY <1>3, <2>1, <3>1 DEF CellOf, Cells
  <2> QED BY <1>3, <2>1, <2>3 DEF Cells
<1> QED
  BY <1>1, <1>2, <1>3

(* So the queue it stands for is a sequence of that length.                *)
LEMMA ContentsIs ==
  ASSUME NEW cap \in Nat \ {0}, NEW r \in [Cells(cap) -> Int],
         NEW h \in Cells(cap), NEW t \in Cells(cap), WellShaped(r, h, t, cap)
  PROVE  Contents(r, h, cap) = [n \in 1 .. SizeOf(r, h, t, cap) |-> r[CellOf(h, n, cap)]]
<1> DEFINE size == SizeOf(r, h, t, cap)
           cell(n) == r[(h + n - 1) % cap]
           fits(n) == /\ \A m \in 1 .. n : cell(m) # NoTrial
                      /\ n < cap => cell(n + 1) = NoTrial
<1>1. size \in 0 .. cap
  BY SizeType
<1>2. \A n \in 1 .. cap : cell(n) = r[CellOf(h, n, cap)]
  BY CellType
<1>3. \A n \in 1 .. cap : cell(n) # NoTrial <=> n <= size
  BY <1>2, SizeType
<1> HIDE DEF size, cell
<1>4. fits(size)
  <2>1. \A m \in 1 .. size : m \in 1 .. cap /\ m <= size
    BY <1>1
  <2>2. size < cap => size + 1 \in 1 .. cap /\ ~(size + 1 <= size)
    BY <1>1
  <2> QED BY <1>3, <2>1, <2>2
<1>5. ASSUME NEW n \in 0 .. cap, fits(n) PROVE n = size
  <2>1. CASE n < size
    <3>1. n < cap /\ n + 1 \in 1 .. cap /\ n + 1 <= size
      BY <1>1, <2>1
    <3> QED BY <1>3, <1>5, <3>1
  <2>2. CASE size < n
    <3>1. size + 1 \in 1 .. n /\ size + 1 \in 1 .. cap /\ ~(size + 1 <= size)
      BY <1>1, <2>2
    <3> QED BY <1>3, <1>5, <3>1
  <2> QED BY <1>1, <2>1, <2>2
<1>6. (CHOOSE n \in 0 .. cap : fits(n)) = size
  <2> HIDE DEF fits
  <2> QED BY <1>1, <1>4, <1>5
<1>7. Contents(r, h, cap) = [n \in 1 .. size |-> cell(n)]
  BY <1>6 DEF Contents, cell
<1>8. \A n \in 1 .. size : cell(n) = r[CellOf(h, n, cap)]
  BY <1>1, <1>2
<1> QED
  BY <1>7, <1>8 DEF size

(* A function on 1 .. k is a sequence.                                     *)
LEMMA Appended ==
  ASSUME NEW k \in Nat, NEW f, \A n \in 1 .. k : f[n] \in Int, NEW e \in Int
  PROVE  Append([n \in 1 .. k |-> f[n]], e)
           = [n \in 1 .. k + 1 |-> IF n = k + 1 THEN e ELSE f[n]]
<1> DEFINE s == [n \in 1 .. k |-> f[n]]
<1>1. s \in Seq(Int) /\ Len(s) = k
  OBVIOUS
<1>2. \A n \in 1 .. k : s[n] = f[n]
  OBVIOUS
<1> HIDE DEF s
<1>3. Append(s, e) = [n \in 1 .. k + 1 |-> IF n = k + 1 THEN e ELSE s[n]]
  <2> DEFINE q == [n \in 1 .. k + 1 |-> IF n = k + 1 THEN e ELSE s[n]]
  <2>1. \A n \in 1 .. k + 1 : n # k + 1 => s[n] \in Int
    BY <1>1
  <2>2. q \in Seq(Int) /\ Len(q) = k + 1
    BY <2>1
  <2>3. /\ Append(s, e) \in Seq(Int) /\ Len(Append(s, e)) = k + 1
        /\ \A n \in 1 .. k + 1 : Append(s, e)[n] = IF n = k + 1 THEN e ELSE s[n]
    BY <1>1, AppendProperties
  <2>4. \A n \in 1 .. k + 1 : q[n] = IF n = k + 1 THEN e ELSE s[n]
    OBVIOUS
  <2> HIDE DEF q
  <2>5. Append(s, e) = q
    BY <2>2, <2>3, <2>4, SeqEqual
  <2> QED BY <2>5 DEF q
<1>4. \A n \in 1 .. k + 1 : n # k + 1 => n \in 1 .. k
  OBVIOUS
<1>5. [n \in 1 .. k + 1 |-> IF n = k + 1 THEN e ELSE s[n]]
        = [n \in 1 .. k + 1 |-> IF n = k + 1 THEN e ELSE f[n]]
  BY <1>2, <1>4
<1> QED
  BY <1>3, <1>5 DEF s

(* Its tail is the function moved down by one.                             *)
LEMMA Tailed ==
  ASSUME NEW k \in Nat \ {0}, NEW f, \A n \in 1 .. k : f[n] \in Int
  PROVE  /\ Tail([n \in 1 .. k |-> f[n]]) = [n \in 1 .. k - 1 |-> f[n + 1]]
         /\ [n \in 1 .. k |-> f[n]] # <<>>
<1> DEFINE s == [n \in 1 .. k |-> f[n]]
<1>1. s \in Seq(Int) /\ Len(s) = k /\ s # <<>>
  OBVIOUS
<1>2. \A n \in 1 .. k - 1 : s[n + 1] = f[n + 1]
  OBVIOUS
<1> HIDE DEF s
<1>3. Tail(s) = [n \in 1 .. k - 1 |-> s[n + 1]]
  <2> DEFINE q == [n \in 1 .. k - 1 |-> s[n + 1]]
  <2>1. \A n \in 1 .. k - 1 : s[n + 1] \in Int
    BY <1>1
  <2>2. q \in Seq(Int) /\ Len(q) = k - 1
    BY <2>1
  <2>3. /\ Tail(s) \in Seq(Int) /\ Len(Tail(s)) = k - 1
        /\ \A n \in 1 .. k - 1 : Tail(s)[n] = s[n + 1]
    BY <1>1, HeadTailProperties
  <2>4. \A n \in 1 .. k - 1 : q[n] = s[n + 1]
    OBVIOUS
  <2> HIDE DEF q
  <2>5. Tail(s) = q
    BY <2>2, <2>3, <2>4, SeqEqual
  <2> QED BY <2>5 DEF q
<1> QED
  BY <1>1, <1>2, <1>3 DEF s

-----------------------------------------------------------------------------
(* Enqueueing appends to the queue.                                        *)
LEMMA EnqueueAppends ==
  ASSUME NEW cap \in Nat \ {0}, NEW r \in [Cells(cap) -> Int],
         NEW h \in Cells(cap), NEW t \in Cells(cap),
         WellShaped(r, h, t, cap), r[t] = NoTrial, NEW i \in Nat
  PROVE  Contents([r EXCEPT ![t] = i], h, cap) = Append(Contents(r, h, cap), i)
<1> DEFINE u == Advance(t, cap)
           q == [r EXCEPT ![t] = i]
           size == SizeOf(r, h, t, cap)
<1>1. /\ WellShaped(q, h, u, cap)
      /\ u \in Cells(cap) /\ u = IF t + 1 = cap THEN 0 ELSE t + 1
      /\ q \in [Cells(cap) -> Int]
      /\ \A p \in Cells(cap) : q[p] = IF p = t THEN i ELSE r[p]
  <2>1. WellShaped(q, h, u, cap)
    BY EnqueueShape
  <2>2. u \in Cells(cap) /\ u = IF t + 1 = cap THEN 0 ELSE t + 1
    BY AdvanceType
  <2>3. q \in [Cells(cap) -> Int]
    OBVIOUS
  <2>4. \A p \in Cells(cap) : q[p] = IF p = t THEN i ELSE r[p]
    OBVIOUS
  <2> QED BY <2>1, <2>2, <2>3, <2>4
<1>2. size \in Nat /\ size <= cap
  BY SizeType
<1>3. i # NoTrial
  BY DEF NoTrial
<1> HIDE DEF u, q
<1>4. /\ size < cap
      /\ CellOf(h, size + 1, cap) = t
      /\ \A n \in 1 .. size : CellOf(h, n, cap) # t
  BY DEF size, SizeOf, CellOf, Cells
<1>5. SizeOf(q, h, u, cap) = size + 1
  <2>1. CASE h = t
    <3>1. r[h] = NoTrial /\ q[h] # NoTrial
      BY <1>1, <1>3, <2>1
    <3> QED BY <1>1, <2>1, <3>1 DEF size, SizeOf, Cells
  <2>2. CASE h # t
    <3>1. h = u => q[h] # NoTrial
      <4>1. SUFFICES ASSUME h = u PROVE r[h] # NoTrial
        BY <1>1, <2>2
      <4> QED BY <1>1, <2>2 DEF WellShaped, Cells
    <3> QED BY <1>1, <2>2, <3>1 DEF size, SizeOf, Cells
  <2> QED BY <2>1, <2>2
<1> HIDE DEF size
<1>6. Contents(r, h, cap) = [n \in 1 .. size |-> r[CellOf(h, n, cap)]]
  BY ContentsIs DEF size
<1>7. Contents(q, h, cap) = [n \in 1 .. size + 1 |-> q[CellOf(h, n, cap)]]
  BY <1>1, <1>5, ContentsIs
<1>8. \A n \in 1 .. size + 1 : q[CellOf(h, n, cap)]
                                = IF n = size + 1 THEN i ELSE r[CellOf(h, n, cap)]
  <2>1. \A n \in 1 .. size + 1 : n \in 1 .. cap /\ (n # size + 1 => n \in 1 .. size)
    BY <1>2, <1>4
  <2> QED BY <1>1, <1>4, <2>1, CellType
<1> DEFINE f == [n \in 1 .. size |-> r[CellOf(h, n, cap)]]
<1>9. \A n \in 1 .. size : f[n] = r[CellOf(h, n, cap)] /\ f[n] \in Int
  <2>1. \A n \in 1 .. size : n \in 1 .. cap
    BY <1>2, <1>4
  <2> QED BY <2>1, CellType
<1>10. f = [n \in 1 .. size |-> f[n]]
  OBVIOUS
<1>11. \A n \in 1 .. size + 1 : q[CellOf(h, n, cap)] = IF n = size + 1 THEN i ELSE f[n]
  <2>1. \A n \in 1 .. size + 1 : n # size + 1 => n \in 1 .. size
    BY <1>2
  <2> HIDE DEF f
  <2> QED BY <1>8, <1>9, <2>1
<1> HIDE DEF f
<1>12. Append([n \in 1 .. size |-> f[n]], i)
         = [n \in 1 .. size + 1 |-> IF n = size + 1 THEN i ELSE f[n]]
  BY <1>2, <1>9, Appended
<1>13. Contents(r, h, cap) = f
  BY <1>6 DEF f
<1> QED
  BY <1>7, <1>10, <1>11, <1>12, <1>13 DEF q

(* Dequeueing removes the first of the queue.                              *)
LEMMA DequeueRemoves ==
  ASSUME NEW cap \in Nat \ {0}, NEW r \in [Cells(cap) -> Int],
         NEW h \in Cells(cap), NEW t \in Cells(cap),
         WellShaped(r, h, t, cap), r[h] # NoTrial
  PROVE  /\ Contents(r, h, cap) # <<>>
         /\ Contents([r EXCEPT ![h] = NoTrial], Advance(h, cap), cap)
              = Tail(Contents(r, h, cap))
<1> DEFINE u == Advance(h, cap)
           q == [r EXCEPT ![h] = NoTrial]
           size == SizeOf(r, h, t, cap)
<1>1. /\ WellShaped(q, u, t, cap)
      /\ u \in Cells(cap) /\ u = IF h + 1 = cap THEN 0 ELSE h + 1
      /\ NoTrial \in Int
      /\ q \in [Cells(cap) -> Int]
      /\ \A p \in Cells(cap) : q[p] = IF p = h THEN NoTrial ELSE r[p]
  <2>1. WellShaped(q, u, t, cap)
    BY DequeueShape
  <2>2. u \in Cells(cap) /\ u = IF h + 1 = cap THEN 0 ELSE h + 1
    BY AdvanceType
  <2>3. NoTrial \in Int
    BY DEF NoTrial
  <2>4. q \in [Cells(cap) -> Int]
    BY <2>3
  <2>5. \A p \in Cells(cap) : q[p] = IF p = h THEN NoTrial ELSE r[p]
    OBVIOUS
  <2> QED BY <2>1, <2>2, <2>3, <2>4, <2>5
<1>2. size \in Nat /\ size <= cap
  BY SizeType
<1> HIDE DEF u, q
<1>3. 1 <= size
  BY <1>2 DEF size, SizeOf, Cells, WellShaped
<1>4. SizeOf(q, u, t, cap) = size - 1
  <2>1. CASE h = t
    <3>1. cap = 1 => q[u] = NoTrial
      BY <1>1 DEF Cells
    <3> QED BY <1>1, <2>1, <3>1 DEF size, SizeOf, Cells
  <2>2. CASE h # t
    <3>1. u = t => q[u] = NoTrial
      <4>1. SUFFICES ASSUME u = t PROVE r[t] = NoTrial
        BY <1>1, <2>2
      <4> QED BY <2>2 DEF WellShaped, Cells
    <3> QED BY <1>1, <2>2, <3>1 DEF size, SizeOf, Cells
  <2> QED BY <2>1, <2>2
<1> HIDE DEF size
<1> DEFINE f == [n \in 1 .. size |-> r[CellOf(h, n, cap)]]
<1>5. Contents(r, h, cap) = f
  BY ContentsIs DEF size
<1>6. Contents(q, u, cap) = [n \in 1 .. size - 1 |-> q[CellOf(u, n, cap)]]
  <2>1. Contents(q, u, cap) = [n \in 1 .. SizeOf(q, u, t, cap) |-> q[CellOf(u, n, cap)]]
    <3>1. WellShaped(q, u, t, cap) /\ u \in Cells(cap) /\ q \in [Cells(cap) -> Int]
      BY <1>1
    <3> HIDE DEF f
    <3> QED BY <3>1, ContentsIs, Zenon
  <2> QED BY <1>4, <2>1
<1>7. \A n \in 1 .. size : f[n] = r[CellOf(h, n, cap)] /\ f[n] \in Int
  <2>1. \A n \in 1 .. size : n \in 1 .. cap
    BY <1>2
  <2> QED BY <2>1, CellType
<1>8. f = [n \in 1 .. size |-> f[n]]
  OBVIOUS
<1> HIDE DEF f
<1>9. \A n \in 1 .. size - 1 : q[CellOf(u, n, cap)] = f[n + 1]
  <2> SUFFICES ASSUME NEW n \in 1 .. size - 1 PROVE q[CellOf(u, n, cap)] = f[n + 1]
    OBVIOUS
  <2>1. n + 1 \in 1 .. size /\ n + 1 \in 1 .. cap
    BY <1>2
  <2>2. CellOf(u, n, cap) = CellOf(h, n + 1, cap) /\ CellOf(h, n + 1, cap) # h
    BY <1>1, <1>2 DEF CellOf, Cells
  <2> QED BY <1>1, <1>7, <2>1, <2>2, CellType
<1>10. Tail([n \in 1 .. size |-> f[n]]) = [n \in 1 .. size - 1 |-> f[n + 1]]
       /\ [n \in 1 .. size |-> f[n]] # <<>>
  <2>1. size \in Nat \ {0}
    BY <1>2, <1>3
  <2> QED BY <1>7, <2>1, Tailed
<1>11. Contents(q, u, cap) = Tail(Contents(r, h, cap)) /\ Contents(r, h, cap) # <<>>
  BY <1>5, <1>6, <1>8, <1>9, <1>10
<1> QED
  BY <1>11 DEF q, u

-----------------------------------------------------------------------------
(* A step leaves the queue alone, appends to it or removes its first.      *)
QueueStep ==
  \/ ReadyQueue' = ReadyQueue
  \/ \E i \in Slots : ReadyQueue' = Append(ReadyQueue, i)
  \/ ReadyQueue # <<>> /\ ReadyQueue' = Tail(ReadyQueue)

(* Every step of the session and its clients is such a step.               *)
LEMMA StepQueue ==
  ASSUME NEW S, NEW L, NoGrowth, RingInv(S, L), RingInv(S, L)', [Next]_vars
  PROVE  QueueStep
<1>1. /\ pending_cap \in Nat \ {0}
      /\ Slots = Cells(pending_cap)
      /\ ready \in [Cells(pending_cap) -> Int]
      /\ ready_head \in Cells(pending_cap) /\ ready_tail \in Cells(pending_cap)
      /\ trial_idx \in Slots /\ trial_idx \in Nat
      /\ WellShaped(ready, ready_head, ready_tail, pending_cap)
      /\ pending_cap' = pending_cap
  <2>1. TypeOK /\ RingShape /\ pending_cap = InitCap /\ pending_cap' = InitCap
    BY DEF RingInv, TypeInv
  <2>2. Slots = Cells(pending_cap) /\ Slots \subseteq Nat
    BY <2>1 DEF TypeOK, Slots, Cells
  <2>3. Slots \cup {NoTrial} \subseteq Int
    BY <2>2 DEF NoTrial
  <2> QED
    BY <2>1, <2>2, <2>3 DEF TypeOK, RingShape
<1>2. UNCHANGED <<ready, ready_head>> => QueueStep
  BY <1>1 DEF QueueStep, ReadyQueue
<1>3. CASE WorkflowEnqueue
  <2>1. CASE UNCHANGED ringVars
    BY <1>2, <2>1 DEF ringVars
  <2>2. CASE ready[ready_tail] = NoTrial /\ Enqueue(trial_idx) /\ UNCHANGED ready_head
    <3>1. Contents([ready EXCEPT ![ready_tail] = trial_idx], ready_head, pending_cap)
            = Append(ReadyQueue, trial_idx)
      BY <1>1, <2>2, EnqueueAppends DEF ReadyQueue
    <3>2. ReadyQueue' = Append(ReadyQueue, trial_idx)
      BY <1>1, <2>2, <3>1 DEF Enqueue, ReadyQueue
    <3> QED BY <1>1, <3>2 DEF QueueStep
  <2> QED BY <1>3, <2>1, <2>2 DEF WorkflowEnqueue
<1>4. ASSUME NEW c \in Clients, handle_fetch(c) PROVE QueueStep
  <2>1. CASE UNCHANGED <<ready, ready_head>>
    BY <1>2, <2>1
  <2>2. CASE ready[ready_head] >= 0 /\ Dequeue
    <3>1. ready[ready_head] # NoTrial
      BY <2>2 DEF NoTrial
    <3>2. /\ ReadyQueue # <<>>
          /\ Contents([ready EXCEPT ![ready_head] = NoTrial],
                      Advance(ready_head, pending_cap), pending_cap) = Tail(ReadyQueue)
      BY <1>1, <3>1, DequeueRemoves DEF ReadyQueue
    <3>3. ReadyQueue' = Tail(ReadyQueue)
      BY <1>1, <2>2, <3>2 DEF Dequeue, ReadyQueue
    <3> QED BY <3>2, <3>3 DEF QueueStep
  <2> QED BY <1>4, <2>1, <2>2 DEF handle_fetch
<1>5. ASSUME NEW c \in Clients, handle_join(c) PROVE QueueStep
  <2>1. CASE pending_cap >= (num_clients + 1) * PerClient \/ ~wire[c].flag
    <3>1. UNCHANGED ringVars
      BY <1>5, <2>1 DEF handle_join, extend_lists
    <3> QED BY <1>2, <3>1 DEF ringVars
  <2>2. CASE wire[c].flag /\ ~(pending_cap >= (num_clients + 1) * PerClient)
    <3>1. num_clients \in Nat /\ (num_clients + 1) * PerClient \in Int
      BY SessionAssumption DEF RingInv, TypeInv, TypeOK
    <3>2. pending_cap' = array_grow((num_clients + 1) * PerClient)
      BY <1>5, <2>2 DEF handle_join, extend_lists
    <3>3. pending_cap < pending_cap'
      BY <1>1, <2>2, <3>1, <3>2, GrowType
    <3> QED BY <1>1, <3>3
  <2> QED BY <2>1, <2>2
<1>6. CASE LayerStep \/ WorkflowAnalyze \/ StartGenerate \/ EndGenerate \/ generate_trial
  BY <1>2, <1>6 DEF LayerStep, WorkflowAnalyze, StartGenerate, EndGenerate, generate_trial,
     ringVars
<1>7. ASSUME NEW i \in 1 .. Len(Callbacks), handle_callback(i) PROVE QueueStep
  BY <1>2, <1>7 DEF handle_callback, ringVars
<1>8. ASSUME NEW c \in Clients, handle_getcfg(c) \/ handle_best(c) \/ handle_report(c)
      PROVE  QueueStep
  BY <1>2, <1>8 DEF handle_getcfg, handle_best, handle_report, ringVars
<1>9. CASE HttpRequest
  BY <1>2, <1>9 DEF HttpRequest, handle_setcfg, handle_restart, ringVars
<1>10. ASSUME NEW c \in Clients, ClientStep(c) PROVE QueueStep
  BY <1>2, <1>10 DEF ClientStep, sessionVars, ringVars
<1>11. CASE UNCHANGED vars
  BY <1>2, <1>11 DEF vars, sessionVars, ringVars
<1> QED
  BY <1>3, <1>4, <1>5, <1>6, <1>7, <1>8, <1>9, <1>10, <1>11
     DEF Next, SessionStep, SessionWork, HandleMessage

(* QueueIsFifo: trials reach clients in the order in which they came       *)
(* through the layers, none twice and none passed over, although the ring  *)
(* wraps around.                                                           *)
THEOREM QueueCorrect ==
  ASSUME NEW S, NEW L, StrategyContract(S), LayerContract(L), NoGrowth
  PROVE  Spec => QueueIsFifo
<1>1. Init => RingInv(S, L)
  BY InitShape
<1>2. RingInv(S, L) /\ [Next]_vars => RingInv(S, L)'
  BY StepShape
<1>3. RingInv(S, L) /\ RingInv(S, L)' /\ [Next]_vars => [QueueStep]_vars
  BY StepQueue
<1> QED
  BY <1>1, <1>2, <1>3, PTL DEF Spec, QueueIsFifo, QueueStep

=============================================================================
