----------------------------- MODULE TrialPool -----------------------------
(***************************************************************************)
(* What a tuning session promises about its trials, whatever strategy and  *)
(* layers it runs: a trial is prepared, waits in line, is handed to the    *)
(* client whose turn it is, and only that client's report, about the       *)
(* values it was handed, sends it to be judged.  A judged trial is done    *)
(* with or tried again, and no id is given out while a trial has it.       *)
(*                                                                         *)
(* There are no slots, rings, wait lists, layers or messages here; Harmony *)
(* implements this specification (PoolSpec there).                         *)
(***************************************************************************)
EXTENDS Integers, Sequences

CONSTANTS Clients,     \* the tuning clients
          Ids,         \* the ids trials can have
          Values       \* the values trials can have

VARIABLES
  making,   \* ids of trials that are generated but not yet ready
  line,     \* trials that are ready, oldest first
  held,     \* held[c]: the trials client c was handed and has not reported
  judging   \* trials that were reported but not yet analyzed

poolVars == <<making, line, held, judging>>

PoolTrial == [id : Ids, val : Values]

IdsOf(trials) == {t.id : t \in trials}

InLine == {line[i] : i \in 1 .. Len(line)}

(* The ids that some trial has.                                            *)
Live ==
  making \cup IdsOf(InLine) \cup IdsOf(judging) \cup UNION {IdsOf(held[c]) : c \in Clients}

PoolInit ==
  /\ making = {}
  /\ line = <<>>
  /\ held = [c \in Clients |-> {}]
  /\ judging = {}

(* A new trial gets an id that is free.                                    *)
Generate(id) ==
  /\ making' = making \cup {id}
  /\ id \notin Live
  /\ UNCHANGED <<line, held, judging>>

(* A rejected trial is replaced by another, with its own id or a free one. *)
Replace(old, new) ==
  /\ old \in making
  /\ making' = (making \ {old}) \cup {new}
  /\ new \notin Live
  /\ UNCHANGED <<line, held, judging>>

(* Preparation is over, and with it the choice of the trial's values.      *)
Queue(id, val) ==
  /\ id \in making
  /\ making' = making \ {id}
  /\ line' = Append(line, [id |-> id, val |-> val])
  /\ UNCHANGED <<held, judging>>

(* Preparation finds that the trial's performance is known already.        *)
Skip(id, val) ==
  /\ id \in making
  /\ making' = making \ {id}
  /\ judging' = judging \cup {[id |-> id, val |-> val]}
  /\ UNCHANGED <<line, held>>

(* The client that asks is handed the oldest trial.                        *)
Fetch(c) ==
  /\ line # <<>>
  /\ line' = Tail(line)
  /\ held' = [held EXCEPT ![c] = @ \cup {Head(line)}]
  /\ UNCHANGED <<making, judging>>

Report(c, trial) ==
  /\ trial \in held[c]
  /\ held' = [held EXCEPT ![c] = @ \ {trial}]
  /\ judging' = judging \cup {trial}
  /\ UNCHANGED <<making, line>>

(* The performance is not good enough yet: the trial is prepared again.    *)
Retry(trial) ==
  /\ trial \in judging
  /\ judging' = judging \ {trial}
  /\ making' = making \cup {trial.id}
  /\ UNCHANGED <<line, held>>

Judge(trial) ==
  /\ trial \in judging
  /\ judging' = judging \ {trial}
  /\ UNCHANGED <<making, line, held>>

PoolNext ==
  \/ \E id \in Ids : Generate(id)
  \/ \E old \in making : \E new \in Ids : Replace(old, new)
  \/ \E id \in making : \E val \in Values : Queue(id, val) \/ Skip(id, val)
  \/ \E c \in Clients : Fetch(c) \/ \E trial \in held[c] : Report(c, trial)
  \/ \E trial \in judging : Retry(trial) \/ Judge(trial)

Spec == PoolInit /\ [][PoolNext]_poolVars

=============================================================================
