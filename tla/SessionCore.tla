---------------------------- MODULE SessionCore ----------------------------
(***************************************************************************)
(* The tuning session process (session-core.c).  It asks a search strategy *)
(* for trials, passes each one through a stack of processing layers, keeps *)
(* the trials that came through in a ready queue for clients to fetch, and *)
(* passes what the clients report back through the layers to the strategy. *)
(*                                                                         *)
(* The process is one thread around select().  Its control state is "at":  *)
(* blocked in select(), inside plugin_workflow(), in the generation loop   *)
(* that ends an iteration, or gone.  A message handler is one action; only *)
(* plugin_workflow() is cut into one action per layer, because each layer  *)
(* may answer in several ways.                                             *)
(*                                                                         *)
(* The plug-ins are constants, as they are function pointers in the code:  *)
(* each operator maps the plug-in's state and its arguments to the set of  *)
(* outcomes the plug-in may choose from.                                   *)
(***************************************************************************)
EXTENDS ReadyRing, HMesg, FiniteSets, Sequences

CONSTANTS
  NoClient,              \* not a client
  ClientCount,           \* CFGKEY_CLIENT_COUNT
  PerClient,             \* CFGKEY_PER_CLIENT_STORAGE
  MaxJoins,              \* bound: joins the session handles
  MaxRestarts,           \* bound: restarts requested over the HTTP interface
  MayPause,              \* whether the HTTP interface pauses and resumes
  LstackLen,             \* number of layers loaded
  Callbacks,             \* callback_t.index of the registered callbacks, in order
  StrategyInit,          \* set of the states strategy_init() may leave on load
  StrategyRestart(_),    \* ... and when it is called again
  StrategyGenerate(_),   \* set of [next, status, point]
  StrategyRejected(_, _, _), \* set of [next, status, point], given point and hint
  StrategyAnalyze(_, _), \* set of next states, given the trial; none on error
  StrategyBest(_),       \* the best point
  StrategyConverged(_),  \* CFGKEY_STRATEGY_CONVERGED
  LayerInit(_),          \* state <layer>_init() leaves
  LayerGenerate(_, _, _, _), \* set of [next, status, hint, perf], given layer, state,
                           \* trial and CFGKEY_STRATEGY_CONVERGED
  LayerAnalyze(_, _, _),   \* likewise, given layer, state and trial
  LayerCallback(_, _, _)   \* set of [next, status, hint, slot], given the waiting trials

ASSUME SessionAssumption ==
  /\ NoClient \notin Clients
  /\ ClientCount \in Nat \ {0}
  /\ PerClient \in Nat \ {0}
  /\ MaxJoins \in Nat
  /\ MaxRestarts \in Nat
  /\ MayPause \in BOOLEAN
  /\ LstackLen \in Nat
  /\ Callbacks \in Seq((-LstackLen .. LstackLen) \ {0})

VARIABLES
  pending,       \* the trials: a function from slots to htrial_t
  pending_len, pending_cap,
  ready, ready_head, ready_tail,
  waiting,       \* the layers' wait lists: <<layer, slot>>, layer < 0 for analyze
  pollstate,     \* FALSE when the strategy asked to pause generation
  paused_id,     \* id of the best point last sent in place of a trial
  paused,        \* CFGKEY_SESSION_PAUSED
  num_clients,
  strat,         \* the strategy's state
  lstate,        \* lstate[k]: the state of layer k
  at,            \* "select", "workflow", "generate" or "exit"
  caller,        \* who called plugin_workflow: "generate", "report" or "callback"
  from,          \* the client whose report is being handled
  trial_idx, curr_layer,
  cb_next,       \* first callback not yet considered in this iteration
  restarts,      \* restarts so far (bounded by MaxRestarts)
  holder         \* history: holder[i] is the client that fetched slot i

trialVars == <<pending, pending_len, pending_cap, holder>>
ringVars  == <<ready, ready_head, ready_tail>>
plugVars  == <<strat, lstate, waiting, pollstate>>
flowVars  == <<at, caller, from, trial_idx, curr_layer, cb_next>>
cfgVars   == <<paused, num_clients, restarts>>
sessionVars == <<trialVars, ringVars, plugVars, flowVars, cfgVars, paused_id>>

Slots == 0 .. pending_cap - 1

(* htrial_t: a point and its performance.                                  *)
Trials == [id : Int, val : Vals \cup {NoVal}, perf : Perfs \cup {Infinity}]

(* A pending slot that holds no trial.                                     *)
FreeTrial == [id |-> -1, val |-> NoVal, perf |-> Infinity]

Trial(point, perf) == [id |-> point.id, val |-> point.val, perf |-> perf]

PointOf(trial) == [id |-> trial.id, val |-> trial.val]

(* The first slot with this id, as the for loops over pending find it.     *)
SlotsWith(id) == {i \in Slots : pending[i].id = id}

First(S) == CHOOSE i \in S : \A j \in S : i <= j

-----------------------------------------------------------------------------
(* init_session(): plug-ins loaded, lists sized for the expected clients.  *)
InitCap == array_grow(ClientCount * PerClient)

SessionInit ==
  /\ pending_cap = InitCap
  /\ pending = [i \in Cells(InitCap) |-> FreeTrial]
  /\ pending_len = 0
  /\ ready = [i \in Cells(InitCap) |-> NoTrial]
  /\ ready_head = 0 /\ ready_tail = 0
  /\ waiting = {}
  /\ pollstate = TRUE
  /\ paused_id = 0
  /\ paused = FALSE
  /\ num_clients = 0
  /\ strat \in StrategyInit
  /\ lstate = [k \in 1 .. LstackLen |-> LayerInit(k)]
  /\ at = "select" /\ caller = "none" /\ from = NoClient
  /\ trial_idx = 0 /\ curr_layer = LstackLen /\ cb_next = 1
  /\ restarts = 0
  /\ holder = [i \in Cells(InitCap) |-> NoClient]

-----------------------------------------------------------------------------
(***************************************************************************)
(* The end of a message: the reply goes out and the iteration continues    *)
(* with the generation loop, or a handler failed, the client is sent FAIL  *)
(* and the process exits, which closes every connection.                   *)
(***************************************************************************)
Reply(c, mesg) ==
  /\ wire' = [wire EXCEPT ![c] = mesg]
  /\ at' = "generate"

Fail(c) ==
  /\ wire' = [d \in Clients |->
                IF d = c THEN [wire[c] EXCEPT !.status = "FAIL"] ELSE ClosedMesg]
  /\ at' = "exit"

(***************************************************************************)
(* The lists.  An operator with a suffix is a slip of the code it precedes *)
(* that a property must notice; no specification uses it.                  *)
(***************************************************************************)

(* A trial that came through the workflow joins the ready queue.           *)
Enqueue(idx) ==
  /\ ready' = [ready EXCEPT ![ready_tail] = idx]
  /\ ready_tail' = Advance(ready_tail, pending_cap)

(* The oldest trial leaves the ready queue.                                *)
Dequeue_Peek == UNCHANGED <<ready, ready_head>>

Dequeue_KeepsCell ==
  /\ ready_head' = Advance(ready_head, pending_cap)
  /\ UNCHANGED ready

Dequeue_KeepsHead ==
  /\ ready' = [ready EXCEPT ![ready_head] = NoTrial]
  /\ UNCHANGED ready_head

Dequeue ==
  /\ ready' = [ready EXCEPT ![ready_head] = NoTrial]
  /\ ready_head' = Advance(ready_head, pending_cap)

(* An analyzed trial leaves its slot, and generation may go on.            *)
Release_KeepsTrial(idx) ==
  /\ pending_len' = pending_len - 1
  /\ pollstate' = TRUE
  /\ UNCHANGED pending

Release_KeepsCount(idx) ==
  /\ pending' = [pending EXCEPT ![idx] = FreeTrial]
  /\ pollstate' = TRUE
  /\ UNCHANGED pending_len

Release_StaysPaused(idx) ==
  /\ pending' = [pending EXCEPT ![idx] = FreeTrial]
  /\ pending_len' = pending_len - 1
  /\ UNCHANGED pollstate

Release(idx) ==
  /\ pending' = [pending EXCEPT ![idx] = FreeTrial]
  /\ pending_len' = pending_len - 1
  /\ pollstate' = TRUE

(* A trial leaves the wait list of a layer.                                *)
Unpark_Keeps(list, layer, idx) == list

Unpark(list, layer, idx) == list \ {<<layer, idx>>}

(***************************************************************************)
(* plugin_workflow() returns.  main() acts on the result only when it came *)
(* through handle_report; generate_trial and handle_callback drop it.      *)
(***************************************************************************)
Return(ok) ==
  /\ IF caller = "report"
       THEN IF ok THEN Reply(from, [wire[from] EXCEPT !.status = "OK"]) ELSE Fail(from)
       ELSE /\ at' = IF caller = "callback" THEN "select" ELSE "generate"
            /\ UNCHANGED wire
  /\ caller' = "none" /\ from' = NoClient /\ trial_idx' = 0

-----------------------------------------------------------------------------
(***************************************************************************)
(* workflow_transition(): what a layer's verdict o does to trial idx at    *)
(* this layer.  ret is 0 to go on with the workflow, 1 to leave it and -1  *)
(* on error.  A layer's routine that fails has no verdict ("ERROR") and    *)
(* leaves the workflow with -1 from where it is.                           *)
(***************************************************************************)
handle_reject(idx, layer, hint, stay) ==
  IF layer < 0
    THEN {[stay EXCEPT !.ret = -1]}
    ELSE {[stay EXCEPT !.ret   = CASE r.status = "ERROR" -> -1
                                   [] r.status = "WAIT"  -> 1
                                   [] OTHER              -> 0,
                       !.layer = IF r.status = "ACCEPT" THEN 1 ELSE @,
                       !.strat = r.next,
                       !.point = r.point,
                       !.pollstate = IF r.status = "WAIT" THEN FALSE ELSE @]
            : r \in StrategyRejected(strat, PointOf(pending[idx]), hint)}

handle_wait(idx, layer) == waiting \cup {<<layer, idx>>}

workflow_transition(idx, layer, o) ==
  LET stay == [ret |-> 0, layer |-> layer, strat |-> strat, waiting |-> waiting,
               point |-> PointOf(pending[idx]), pollstate |-> pollstate]
  IN  CASE o.status = "ACCEPT" -> {[stay EXCEPT !.layer = layer + 1]}
        [] o.status = "WAIT"   -> {[stay EXCEPT !.ret = 1, !.waiting = handle_wait(idx, layer)]}
        [] o.status \in {"RETURN", "RETRY"} -> {[stay EXCEPT !.layer = -layer]}
        [] o.status = "REJECT" -> handle_reject(idx, layer, o.hint, stay)
        [] o.status = "ERROR"  -> {[stay EXCEPT !.ret = -1]}

(* The part of a transition that is common to the workflow and callbacks.  *)
Take(t, idx, perf) ==
  /\ strat' = t.strat
  /\ pollstate' = t.pollstate
  /\ curr_layer' = t.layer
  /\ pending' = [pending EXCEPT ![idx] = Trial(t.point, perf)]

(* One turn of the loop in plugin_workflow(): layer k's generate or        *)
(* analyze routine, then the transition.                                   *)
LayerStep ==
  /\ at = "workflow"
  /\ curr_layer # 0 /\ curr_layer <= LstackLen
  /\ LET k == IF curr_layer < 0 THEN -curr_layer ELSE curr_layer
     IN  \E o \in IF curr_layer < 0
                    THEN LayerAnalyze(k, lstate[k], pending[trial_idx])
                    ELSE LayerGenerate(k, lstate[k], pending[trial_idx],
                                       StrategyConverged(strat)) :
         \E t \in workflow_transition(trial_idx, curr_layer, o) :
           /\ lstate' = [lstate EXCEPT ![k] = o.next]
           /\ waiting' = t.waiting
           /\ Take(t, trial_idx, o.perf)
           /\ IF t.ret = 0
                THEN UNCHANGED <<at, wire, caller, from, trial_idx>>
                ELSE Return(t.ret = 1)
  /\ UNCHANGED <<pending_len, pending_cap, holder, ringVars, cfgVars, paused_id, cb_next>>

(* plugin_workflow() has passed the innermost analysis layer: the trial    *)
(* goes to the strategy and, unless that fails, its slot is free again.    *)
WorkflowAnalyze ==
  /\ at = "workflow"
  /\ curr_layer = 0
  /\ LET analyzed == StrategyAnalyze(strat, pending[trial_idx])
     IN  IF analyzed = {}
           THEN Return(FALSE) /\ UNCHANGED <<strat, pending, pending_len, pollstate>>
           ELSE strat' \in analyzed /\ Release(trial_idx) /\ Return(TRUE)
  /\ UNCHANGED <<pending_cap, holder, ringVars, lstate, waiting, cfgVars, paused_id,
                 curr_layer, cb_next>>

(* plugin_workflow() has passed the outermost generation layer: the trial  *)
(* is queued for the next client that fetches.                             *)
WorkflowEnqueue ==
  /\ at = "workflow"
  /\ curr_layer > LstackLen
  /\ IF ready[ready_tail] # NoTrial
       THEN UNCHANGED ringVars
       ELSE Enqueue(trial_idx) /\ UNCHANGED ready_head
  /\ Return(ready[ready_tail] = NoTrial)
  /\ UNCHANGED <<trialVars, plugVars, cfgVars, paused_id, curr_layer, cb_next>>

-----------------------------------------------------------------------------
(* The generation loop at the end of an iteration.  cb_next > 1 tells that *)
(* callbacks ran and no message was there to be read.                      *)
StartGenerate ==
  /\ at = "select"
  /\ cb_next > 1 \/ (pollstate /\ pending_len < pending_cap)
  /\ at' = "generate"
  /\ UNCHANGED <<trialVars, ringVars, plugVars, cfgVars, paused_id, wire,
                 caller, from, trial_idx, curr_layer, cb_next>>

EndGenerate_WhilePolling ==
  /\ at = "generate"
  /\ ~pollstate
  /\ at' = "select"
  /\ cb_next' = 1
  /\ UNCHANGED <<trialVars, ringVars, plugVars, cfgVars, paused_id, wire,
                 caller, from, trial_idx, curr_layer>>

EndGenerate ==
  /\ at = "generate"
  /\ ~(pollstate /\ pending_len < pending_cap)
  /\ at' = "select"
  /\ cb_next' = 1
  /\ UNCHANGED <<trialVars, ringVars, plugVars, cfgVars, paused_id, wire,
                 caller, from, trial_idx, curr_layer>>

generate_trial ==
  /\ at = "generate"
  /\ pollstate /\ pending_len < pending_cap
  /\ SlotsWith(-1) # {}
  /\ \E o \in StrategyGenerate(strat) :
       /\ strat' = o.next
       /\ IF o.status = "WAIT"
            THEN /\ pollstate' = FALSE
                 /\ UNCHANGED <<pending, pending_len, at, caller, trial_idx, curr_layer>>
            ELSE /\ trial_idx' = First(SlotsWith(-1))
                 /\ pending' = [pending EXCEPT ![trial_idx'] = Trial(o.point, Infinity)]
                 /\ pending_len' = pending_len + 1
                 /\ curr_layer' = 1
                 /\ at' = "workflow"
                 /\ caller' = "generate"
                 /\ UNCHANGED pollstate
  /\ UNCHANGED <<pending_cap, holder, ringVars, lstate, waiting, cfgVars, paused_id,
                 wire, from, cb_next>>

-----------------------------------------------------------------------------
(***************************************************************************)
(* handle_callback(): a layer's file descriptor is readable.  Its callback *)
(* picks one of the trials that wait for it.  The trial leaves the wait    *)
(* list only if the transition keeps it in the workflow.                   *)
(***************************************************************************)
handle_callback(i) ==
  LET layer == Callbacks[i]
      k     == IF layer < 0 THEN -layer ELSE layer
      list  == {s \in Slots : <<layer, s>> \in waiting}
  IN  /\ at = "select"
      /\ i >= cb_next
      /\ list # {}
      /\ \E o \in LayerCallback(k, lstate[k], [s \in list |-> pending[s]]) :
         \E t \in workflow_transition(o.slot, layer, o) :
           /\ lstate' = [lstate EXCEPT ![k] = o.next]
           /\ waiting' = IF t.ret = 0 THEN Unpark(t.waiting, layer, o.slot) ELSE t.waiting
           /\ Take(t, o.slot, pending[o.slot].perf)
           /\ IF t.ret = 0
                THEN at' = "workflow" /\ caller' = "callback" /\ trial_idx' = o.slot
                ELSE UNCHANGED <<at, caller, trial_idx>>
      /\ cb_next' = i + 1
      /\ UNCHANGED <<pending_len, pending_cap, holder, ringVars, cfgVars, paused_id,
                     wire, from>>

-----------------------------------------------------------------------------
(* extend_lists(): both lists grow when n trials no longer fit.            *)
extend_lists(n) ==
  IF pending_cap >= n
    THEN UNCHANGED <<trialVars, ringVars>>
    ELSE LET cap  == array_grow(n)
             ring == Extend(ready, ready_head, ready_tail, pending_cap, cap)
             grown(f, new) == [i \in Cells(cap) |-> IF i < pending_cap THEN f[i] ELSE new]
         IN  /\ pending_cap' = cap
             /\ pending' = grown(pending, FreeTrial)
             /\ holder' = grown(holder, NoClient)
             /\ ready' = ring.ready
             /\ ready_head' = ring.head
             /\ ready_tail' = ring.tail
             /\ UNCHANGED pending_len

(* A client joins.  A signature that does not match is an error, and an    *)
(* error ends the session.                                                 *)
handle_join(c) ==
  /\ at = "select"
  /\ Requested(c, "JOIN")
  /\ num_clients < MaxJoins
  /\ IF wire[c].flag
       THEN /\ num_clients' = num_clients + 1
            /\ extend_lists((num_clients + 1) * PerClient)
            /\ Reply(c, [wire[c] EXCEPT !.status = "OK"])
       ELSE /\ Fail(c)
            /\ UNCHANGED <<num_clients, trialVars, ringVars>>
  /\ UNCHANGED <<plugVars, paused, restarts, paused_id,
                 caller, from, trial_idx, curr_layer, cb_next>>

handle_getcfg(c) ==
  /\ at = "select"
  /\ Requested(c, "GETCFG")
  /\ Reply(c, [wire[c] EXCEPT !.status = "OK", !.flag = StrategyConverged(strat)])
  /\ UNCHANGED <<trialVars, ringVars, plugVars, cfgVars, paused_id,
                 caller, from, trial_idx, curr_layer, cb_next>>

handle_best(c) ==
  /\ at = "select"
  /\ Requested(c, "BEST")
  /\ Reply(c, [wire[c] EXCEPT !.status = "OK", !.point = StrategyBest(strat)])
  /\ UNCHANGED <<trialVars, ringVars, plugVars, cfgVars, paused_id,
                 caller, from, trial_idx, curr_layer, cb_next>>

(* The next ready trial, or the best point when there is none or the       *)
(* session is paused.                                                      *)
handle_fetch(c) ==
  /\ at = "select"
  /\ Requested(c, "FETCH")
  /\ LET idx == ready[ready_head]
     IN  IF ~paused /\ idx >= 0
           THEN /\ Reply(c, [wire[c] EXCEPT !.status = "OK", !.point = PointOf(pending[idx])])
                /\ Dequeue
                /\ holder' = [holder EXCEPT ![idx] = c]
                /\ UNCHANGED paused_id
           ELSE /\ Reply(c, [wire[c] EXCEPT !.status = "BUSY", !.point = StrategyBest(strat)])
                /\ paused_id' = StrategyBest(strat).id
                /\ UNCHANGED <<ready, ready_head, holder>>
  /\ UNCHANGED <<pending, pending_len, pending_cap, ready_tail, plugVars, cfgVars,
                 caller, from, trial_idx, curr_layer, cb_next>>

(* A measured trial enters the analysis workflow at the outermost layer.   *)
(* An id no slot has is accepted if it is the best point sent last, and is *)
(* otherwise an error that ends the session.                               *)
handle_report(c) ==
  /\ at = "select"
  /\ Requested(c, "REPORT")
  /\ LET found == SlotsWith(wire[c].point.id)
         idx   == First(found)
     IN  IF found # {}
           THEN /\ paused_id' = 0
                /\ pending' = [pending EXCEPT ![idx].perf = wire[c].perf]
                /\ holder' = [holder EXCEPT ![idx] = NoClient]
                /\ trial_idx' = idx
                /\ curr_layer' = -LstackLen
                /\ caller' = "report" /\ from' = c
                /\ at' = "workflow"
                /\ UNCHANGED wire
           ELSE /\ IF wire[c].point.id = paused_id
                     THEN Reply(c, [wire[c] EXCEPT !.status = "OK"])
                     ELSE Fail(c)
                /\ UNCHANGED <<paused_id, pending, holder, trial_idx, curr_layer, caller, from>>
  /\ UNCHANGED <<pending_len, pending_cap, ringVars, plugVars, cfgVars, cb_next>>

(* SESSION_PAUSED is set over the HTTP interface.                          *)
handle_setcfg(value) ==
  /\ at = "select"
  /\ MayPause
  /\ paused' = value
  /\ at' = "generate"
  /\ UNCHANGED <<trialVars, ringVars, plugVars, num_clients, restarts, paused_id, wire,
                 caller, from, trial_idx, curr_layer, cb_next>>

(* session_restart(): every plug-in is initialized again.                  *)
handle_restart ==
  /\ at = "select"
  /\ restarts < MaxRestarts
  /\ restarts' = restarts + 1
  /\ strat' = StrategyRestart(strat)
  /\ lstate' = [k \in 1 .. LstackLen |-> LayerInit(k)]
  /\ at' = "generate"
  /\ UNCHANGED <<trialVars, ringVars, waiting, pollstate, paused, num_clients, paused_id,
                 wire, caller, from, trial_idx, curr_layer, cb_next>>

-----------------------------------------------------------------------------
HandleMessage(c) ==
  \/ handle_join(c)
  \/ handle_getcfg(c)
  \/ handle_best(c)
  \/ handle_fetch(c)
  \/ handle_report(c)

(* The steps the process takes by itself, without a new message.           *)
SessionWork ==
  \/ LayerStep
  \/ WorkflowAnalyze
  \/ WorkflowEnqueue
  \/ StartGenerate
  \/ EndGenerate
  \/ generate_trial
  \/ \E i \in 1 .. Len(Callbacks) : handle_callback(i)

HttpRequest ==
  \/ \E value \in BOOLEAN : handle_setcfg(value)
  \/ handle_restart

=============================================================================
