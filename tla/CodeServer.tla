---------------------------- MODULE CodeServer -----------------------------
(***************************************************************************)
(* Code generation on demand: the codegen layer of a session, the helper   *)
(* process it launches (codegen-helper.c) and the code server              *)
(* (code_generator.cxx) with its generator processes.  Helper and server   *)
(* exchange files of one directory (dir:// URLs): request n is the file    *)
(* candidate.n, its answer the file code_complete.n, and -1 is the number  *)
(* of the initial message.  A file can be seen before it is written to its *)
(* end; its writer does nothing else meanwhile.                            *)
(*                                                                         *)
(* The server outlives sessions; a generator outlives the session it works *)
(* for.  What a request asks for and how code is made are left out: a      *)
(* message is the session and the number of the request.                   *)
(***************************************************************************)
EXTENDS FiniteSets, Integers, Sequences

CONSTANTS
  Generators,            \* entries of the slave list
  Tries,                 \* retries of mesg_read()
  Prompt,                \* whether files are complete before the last try
  MaxRequests,           \* bound: requests of one session
  MaxSessions            \* bound: sessions that use the server

ASSUME CodeServerAssumption ==
  /\ Generators \in Nat \ {0}
  /\ Tries \in Nat \ {0}
  /\ Prompt \in BOOLEAN
  /\ MaxRequests \in Nat
  /\ MaxSessions \in Nat

VARIABLES
  layer,        \* [session, active, sent, got]: the layer's end of the socket
  inbox,        \* what the layer sent and the helper has not read
  helper,       \* [up, next_id, curr_id, tries]
  candidate,    \* the files candidate.n
  code_complete,\* the files code_complete.n
  server,       \* [pc, id, tries, timestep, num_ready] of main()
  gen_list,     \* [pid, step, mesg] of every slot
  child         \* what became of a generator process

vars == <<layer, inbox, helper, candidate, code_complete, server, gen_list, child>>

Init_id == -1
Ids     == Init_id .. (MaxRequests - 1)
Slots   == 1 .. Generators
Pids    == 1 .. (MaxSessions * Generators)

NoFile  == [mesg |-> [session |-> 0, n |-> Init_id], whole |-> TRUE]
Blank   == [session |-> 0, n |-> 0]        \* what a slot's mesg holds when it was not read
File(m) == [mesg |-> m, whole |-> FALSE]
NoFiles == [n \in Ids |-> NoFile]
FreeGen == [pid |-> 0, step |-> 0, mesg |-> Blank]

Lowest(S) == CHOOSE x \in S : \A y \in S : x <= y

Init ==
  /\ layer = [session |-> 0, active |-> FALSE, sent |-> 0, got |-> <<>>]
  /\ inbox = <<>>
  /\ helper = [up |-> FALSE, next_id |-> Init_id, curr_id |-> Init_id, tries |-> Tries]
  /\ candidate = NoFiles
  /\ code_complete = NoFiles
  /\ server = [pc |-> "poll", id |-> 0, tries |-> Tries, timestep |-> 0, num_ready |-> 0]
  /\ gen_list = [i \in Slots |-> FreeGen]
  /\ child = [p \in Pids |-> "none"]

-----------------------------------------------------------------------------
(* The layer.  codegen_init() launches the helper, sends the initial       *)
(* message and waits for its answer; codegen_generate() sends requests and *)
(* does not wait.                                                          *)
codegen_init ==
  /\ ~layer.active /\ ~helper.up
  /\ layer.session < MaxSessions
  /\ layer' = [session |-> layer.session + 1, active |-> TRUE, sent |-> 0, got |-> <<>>]
  /\ inbox' = <<[session |-> layer.session + 1, n |-> Init_id]>>
  /\ helper' = [up |-> TRUE, next_id |-> Init_id, curr_id |-> Init_id, tries |-> Tries]
  /\ UNCHANGED <<candidate, code_complete, server, gen_list, child>>

codegen_generate ==
  /\ layer.active /\ layer.got # <<>>
  /\ layer.sent < MaxRequests
  /\ layer' = [layer EXCEPT !.sent = @ + 1]
  /\ inbox' = Append(inbox, [session |-> layer.session, n |-> layer.sent])
  /\ UNCHANGED <<helper, candidate, code_complete, server, gen_list, child>>

(* The session ends and closes its end of the socket.                      *)
codegen_fini ==
  /\ layer.active
  /\ layer' = [layer EXCEPT !.active = FALSE]
  /\ UNCHANGED <<inbox, helper, candidate, code_complete, server, gen_list, child>>

-----------------------------------------------------------------------------
Partial(files) == {n \in Ids : ~files[n].whole}

(* A writer reaches the end of its file.                                   *)
Written ==
  \/ /\ \E n \in Partial(candidate) : candidate' = [candidate EXCEPT ![n].whole = TRUE]
     /\ UNCHANGED <<layer, inbox, helper, code_complete, server, gen_list, child>>
  \/ /\ \E n \in Partial(code_complete) :
          code_complete' = [code_complete EXCEPT ![n].whole = TRUE]
     /\ UNCHANGED <<layer, inbox, helper, candidate, server, gen_list, child>>

(* The helper exits and removes every file of the directory.               *)
Cleanup ==
  /\ helper' = [helper EXCEPT !.up = FALSE]
  /\ inbox' = <<>>
  /\ candidate' = NoFiles
  /\ code_complete' = NoFiles

(* The helper is between two calls of mesg_read() and mesg_write().        *)
HelperIdle == helper.up /\ Partial(candidate) = {} /\ helper.tries = Tries

HelperForward ==
  /\ HelperIdle /\ inbox # <<>>
  /\ candidate' = [candidate EXCEPT ![helper.next_id] = File(Head(inbox))]
  /\ helper' = [helper EXCEPT !.next_id = @ + 1]
  /\ inbox' = Tail(inbox)
  /\ UNCHANGED <<layer, code_complete, server, gen_list, child>>

(* The session has closed the socket.                                      *)
HelperEof ==
  /\ HelperIdle /\ inbox = <<>> /\ ~layer.active
  /\ Cleanup
  /\ UNCHANGED <<layer, server, gen_list, child>>

(* mesg_read(): the answer to request curr_id, the only one looked for.    *)
HelperRead_AnyOrder ==
  /\ helper.up /\ Partial(candidate) = {}
  /\ \E n \in Ids :
       /\ code_complete[n] # NoFile /\ code_complete[n].whole
       /\ layer' = IF layer.active
                     THEN [layer EXCEPT !.got = Append(@, code_complete[n].mesg)] ELSE layer
       /\ helper' = [helper EXCEPT !.curr_id = @ + 1]
       /\ code_complete' = [code_complete EXCEPT ![n] = NoFile]
  /\ UNCHANGED <<inbox, candidate, server, gen_list, child>>

HelperRead ==
  LET n == helper.curr_id
      f == code_complete[n]
  IN  /\ helper.up /\ Partial(candidate) = {}
      /\ n \in Ids
      /\ f # NoFile
      /\ \/ /\ f.whole /\ layer.active
            /\ layer' = [layer EXCEPT !.got = Append(@, f.mesg)]
            /\ helper' = [helper EXCEPT !.curr_id = @ + 1, !.tries = Tries]
            /\ code_complete' = [code_complete EXCEPT ![n] = NoFile]
            /\ UNCHANGED <<inbox, candidate>>
         \/ /\ ~f.whole /\ helper.tries > 1
            /\ helper' = [helper EXCEPT !.tries = @ - 1]
            /\ UNCHANGED <<layer, inbox, candidate, code_complete>>
         \/ /\ \/ f.whole /\ ~layer.active
               \/ ~f.whole /\ helper.tries = 1 /\ ~Prompt
            /\ Cleanup
            /\ UNCHANGED layer
      /\ UNCHANGED <<server, gen_list, child>>

-----------------------------------------------------------------------------
(* The server's main loop, between two calls of mesg_write().              *)
At(pc) == server.pc = pc /\ Partial(code_complete) = {}

Idle == {i \in Slots : gen_list[i].pid = 0}

(* The loop has seen a file: the initial one before the next candidate.    *)
See ==
  /\ At("poll")
  /\ \E n \in {Init_id, server.timestep} \cap Ids :
       /\ candidate[n] # NoFile
       /\ candidate[Init_id] # NoFile => n = Init_id
       /\ server' = [server EXCEPT !.id = n, !.tries = Tries,
                       !.pc = IF n # Init_id /\ Idle = {} THEN "overflow" ELSE "read"]
  /\ UNCHANGED <<layer, inbox, helper, candidate, code_complete, gen_list, child>>

(* codeserver_init(): the slave list is new, so generators of an earlier   *)
(* session are forgotten; of the old files only candidates are removed.    *)
codeserver_init(m) ==
  /\ candidate' = NoFiles
  /\ gen_list' = [i \in Slots |-> FreeGen]
  /\ code_complete' = [code_complete EXCEPT ![Init_id] = File(m)]
  /\ server' = [server EXCEPT !.pc = "poll", !.timestep = 0, !.num_ready = Generators]
  /\ UNCHANGED child

(* An initial message that cannot be read is removed.                      *)
BadInit ==
  /\ candidate' = [candidate EXCEPT ![Init_id] = NoFile]
  /\ server' = [server EXCEPT !.pc = "poll"]
  /\ UNCHANGED <<code_complete, gen_list, child>>

(* The loop goes on to the next timestep.                                  *)
NextStep_Twice(srv) == [srv EXCEPT !.pc = "poll", !.timestep = @ + 2]

NextStep(srv) == [srv EXCEPT !.pc = "poll", !.timestep = @ + 1]

(* A generator starts on message m; the last free one has the loop wait.   *)
generator_make_NotCounted(m) ==
  LET i == Lowest(Idle)
      p == Lowest({q \in Pids : child[q] = "none"})
  IN  /\ gen_list' = [gen_list EXCEPT ![i] = [pid |-> p, step |-> server.timestep, mesg |-> m]]
      /\ child' = [child EXCEPT ![p] = "running"]
      /\ server' = NextStep(server)
      /\ candidate' = [candidate EXCEPT ![server.timestep] = NoFile]
      /\ UNCHANGED code_complete

generator_make(m) ==
  LET i     == Lowest(Idle)
      p     == Lowest({q \in Pids : child[q] = "none"})
      ready == [server EXCEPT !.num_ready = @ - 1]
  IN  /\ gen_list' = [gen_list EXCEPT ![i] = [pid |-> p, step |-> server.timestep, mesg |-> m]]
      /\ child' = [child EXCEPT ![p] = "running"]
      /\ IF ready.num_ready = 0
           THEN server' = [ready EXCEPT !.pc = "reap"] /\ UNCHANGED candidate
           ELSE /\ server' = NextStep(ready)
                /\ candidate' = [candidate EXCEPT ![server.timestep] = NoFile]
      /\ UNCHANGED code_complete

(* mesg_read(); the result is only looked at for the initial message.      *)
Read ==
  LET n == server.id
      f == candidate[n]
  IN  /\ At("read")
      /\ \/ /\ f # NoFile /\ f.whole
            /\ IF n = Init_id THEN codeserver_init(f.mesg) ELSE generator_make(f.mesg)
         \/ /\ ~f.whole /\ server.tries > 1
            /\ server' = [server EXCEPT !.tries = @ - 1]
            /\ UNCHANGED <<candidate, code_complete, gen_list, child>>
         \/ /\ f = NoFile \/ (~f.whole /\ server.tries = 1 /\ ~Prompt)
            /\ IF n = Init_id THEN BadInit ELSE generator_make(Blank)
      /\ UNCHANGED <<layer, inbox, helper>>

Finish(p) ==
  /\ child[p] = "running"
  /\ child' = [child EXCEPT ![p] = "exited"]
  /\ UNCHANGED <<layer, inbox, helper, candidate, code_complete, server, gen_list>>

(* slave_complete(): the answer of the generator's slot, and whether there *)
(* is such a slot.                                                         *)
slave_complete_KeepsSlot(p) ==
  LET mine == {i \in Slots : gen_list[i].pid = p}
  IN  /\ gen_list' = gen_list
      /\ code_complete' = IF mine = {} THEN code_complete
                          ELSE LET g == gen_list[Lowest(mine)]
                               IN  [code_complete EXCEPT ![g.step] = File(g.mesg)]

slave_complete(p) ==
  LET mine == {i \in Slots : gen_list[i].pid = p}
  IN  IF mine = {}
        THEN UNCHANGED <<gen_list, code_complete>>
        ELSE LET i == Lowest(mine)
             IN  /\ gen_list' = [gen_list EXCEPT ![i] = FreeGen]
                 /\ code_complete' =
                      [code_complete EXCEPT ![gen_list[i].step] = File(gen_list[i].mesg)]

Reaped(p) ==
  [server EXCEPT !.num_ready = IF \E i \in Slots : gen_list[i].pid = p THEN @ + 1 ELSE @]

(* While there is nothing to read, generators that have exited are reaped. *)
ReapIdle ==
  /\ At("poll")
  /\ \A n \in {Init_id, server.timestep} \cap Ids : candidate[n] = NoFile
  /\ \E p \in Pids :
       /\ child[p] = "exited"
       /\ child' = [child EXCEPT ![p] = "none"]
       /\ slave_complete(p)
       /\ server' = Reaped(p)
  /\ UNCHANGED <<layer, inbox, helper, candidate>>

(* All generators are busy: wait until one exits, whichever it is.         *)
ReapBusy ==
  /\ At("reap")
  /\ \E p \in Pids :
       /\ child[p] = "exited"
       /\ child' = [child EXCEPT ![p] = "none"]
       /\ slave_complete(p)
       /\ server' = NextStep(Reaped(p))
  /\ candidate' = [candidate EXCEPT ![server.timestep] = NoFile]
  /\ UNCHANGED <<layer, inbox, helper>>

ServerStep == See \/ Read \/ ReapIdle \/ ReapBusy

HelperStep == HelperForward \/ HelperEof \/ HelperRead

Next ==
  \/ codegen_init \/ codegen_generate \/ codegen_fini
  \/ Written
  \/ HelperStep
  \/ ServerStep
  \/ \E p \in Pids : Finish(p)

Spec == Init /\ [][Next]_vars

(* Writers, helper and server keep running; generators finish.             *)
Fairness ==
  /\ WF_vars(Written) /\ WF_vars(HelperForward) /\ WF_vars(HelperEof) /\ WF_vars(HelperRead)
  /\ WF_vars(ServerStep)
  /\ \A p \in Pids : WF_vars(Finish(p))

FairSpec == Spec /\ Fairness

-----------------------------------------------------------------------------
Mesgs == [session : Nat, n : Int]

Files == [Ids -> [mesg : Mesgs, whole : BOOLEAN]]

ServerPcs == {"poll", "read", "reap", "overflow"}

(* Every variable has its type; numbers of files and of free slots stay    *)
(* within their bounds, and generators are child processes.                *)
TypeOK ==
  /\ layer \in [session : 0 .. MaxSessions, active : BOOLEAN, sent : 0 .. MaxRequests,
                got : Seq(Mesgs)]
  /\ inbox \in Seq(Mesgs)
  /\ helper \in [up : BOOLEAN, next_id : Init_id .. MaxRequests,
                 curr_id : Init_id .. MaxRequests, tries : 1 .. Tries]
  /\ candidate \in Files /\ code_complete \in Files
  /\ server \in [pc : ServerPcs, id : Int, tries : 1 .. Tries, timestep : Nat,
                 num_ready : 0 .. Generators]
  /\ gen_list \in [Slots -> [pid : Pids \cup {0}, step : Nat, mesg : Mesgs]]
  /\ child \in [Pids -> {"none", "running", "exited"}]

(* Generators finish in any order and files appear in any order, but the   *)
(* layer gets the answer to the initial message and then the answers to    *)
(* its own requests, in the order it made them.                            *)
AnswersInOrder ==
  layer.active =>
    \A k \in DOMAIN layer.got : layer.got[k] = [session |-> layer.session, n |-> k - 2]

(* num_ready, by which the loop decides to wait, is the number of free     *)
(* slots.                                                                  *)
SlotsCounted ==
  server.num_ready > 0 \/ server.pc = "reap" => server.num_ready = Cardinality(Idle)

(* assert(0 && "Generator vector overflow") cannot fail.                   *)
NoOverflow == server.pc # "overflow"

(* Every request is answered while the session lasts.                      *)
RequestsAnswered ==
  \A n \in 0 .. (MaxRequests - 1) :
    layer.active /\ layer.sent > n ~> ~layer.active \/ Len(layer.got) > n + 1

=============================================================================
