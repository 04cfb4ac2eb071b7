# A TLA+ model of Active Harmony

Active Harmony tunes a program while it runs. A *session* process searches a
space of configurations; *clients*, linked into the program being tuned, fetch
configurations to test and report how well they performed. A *server* launches
sessions and forwards messages, and a *code server* can generate code for each
configuration. This directory models the session with five of its strategies
and four of its layers, the client library, the server and the code server,
checks them with TLC, and proves the safety of the session, of the server and of the
code server with TLAPS.

1. [The system](#1-the-system)
2. [The modules](#2-the-modules)
3. [The properties](#3-the-properties)
4. [The runs](#4-the-runs)
5. [Where the code departs from its documents](#5-where-the-code-departs-from-its-documents)
6. [The proofs](#6-the-proofs)
7. [What is not modelled](#7-what-is-not-modelled)
8. [Plan](#8-plan)

## 1. The system

    client (hclient.c) --- server (hserver.c) --- session (session-core.c)
                                                    |  strategy plug-in
                                                    |  layer plug-ins 1..n
    browser --- httpsvr.c -- pause, restart ------->|    codegen.c
                                                    |        | socket
                             code server <-- files --- codegen-helper.c

| component | state | operations |
|---|---|---|
| session core, `session-core.c` | `pending` (trials), `ready` ring with head and tail, wait lists of the layers, `paused_id`, `pollstate`, the running trial's layer | message handlers, `plugin_workflow`, `generate_trial`, `handle_callback`, `extend_lists`, `session_restart` |
| client library, `hclient.c` | descriptor: state machine, current and best point; the application's variables | join, leave, fetch, report, best, converged |
| strategies, `plugins/strategies/*` | PRO, Nelder-Mead, NEMO: a simplex under test; exhaustive: an odometer; random: a generator | generate, rejected, analyze, best, init (also on restart) |
| layers, `plugins/layers/*` | agg: storage list; constraint: the constraint text; codegen: request log and server connection; cache: results on record; group, log, ... | generate, analyze, callback, init, setcfg |
| server, `hserver.c`, `httpsvr.c` | connections by kind, sessions by slot, the ready set of `select` | accepts, routes messages, launches and closes sessions, HTTP pages |
| code server, `code_generator.cxx`, `codegen-helper.c` | the files of a directory, generator slots, the number of the next request | forwards requests and answers, forks and reaps generators |
| messages, `hmesg.c`; points, `hpoint.c`; performances, `hperf.c` | | pack and unpack |
| descriptions, `hsession.c`, `hsignature.c`; configuration, `hcfg.c` | signatures; key/value pairs | matching, parsing, merging |
| tools and bindings, `tuna.c`, `hinfo.c`, `hclientf.c` | | front ends |

**How they interact.** A client call is synchronous: one request, one reply
with the same type. The session is single-threaded around `select()`. Each
iteration runs the callbacks of layers whose descriptor is readable, or handles
one message, and then asks the strategy for trials until the `pending` list is
full or the strategy answers WAIT (which clears `pollstate`). A new trial goes
through the layers 1..n ("generate"), is put into the ready ring, is fetched,
comes back in a report, goes through the layers n..1 ("analyze") and then to the
strategy, which frees its slot and sets `pollstate` again. A layer may accept,
reject (the strategy substitutes another point and the trial starts over at
layer 1), park the trial (WAIT) until its callback picks it up, send it back
from the analysis to the generation side at the same layer (RETRY), or the
other way round (RETURN). The server passes a request on with the number of the
client's descriptor as its return address and the slot of the session as its
destination. The codegen layer sends a request to its helper process and goes
on; the helper writes it to a file, the code server reads the files by number,
forks a generator for each and writes an answer when one exits; the helper hands
the answers on in the order of the requests.

**What is hard.** Trials move between `pending`, `ready`, the wait lists and the
clients by index only; reports find their trial by id; the ring wraps around and
is rotated when it is reallocated; an idle session depends on a report to start
generating again; the best point a client knows and the one the session knows
drift apart; restarts re-initialize plug-ins with trials in flight; layers answer
in an order of their own; an error in one request ends the process for everyone.
In the server, descriptor numbers are reused while a stale ready set and replies
under way still name them, and any peer may vanish at any point. In the code
server, generators finish in any order, files are seen half written, and both
server and generators outlive the session they work for. `PROJECT.json` lists
these hazards at the lines where they bite.

**What makes each part correct.** The session: each trial is in one place and goes
once to one client, in order, and comes back; the counters agree with the lists;
it answers requests and does not exit. The client: it tests what the session
recorded and reports to the trial it was handed. A strategy: fresh ids, every
vertex accounted for, the search ends, all points visited. A layer: no trial
passes it unprepared or waits forever; AGG_TIMES reports per aggregate. The
server: requests reach the session that was joined, replies the client that
asked, and nobody waits for a peer that is gone. The code server: every request is
answered, in order, with the generators there are.

## 2. The modules

| module | models | extends |
|---|---|---|
| `ReadyRing` | the ring: advance, `array_grow`, the realignment and growth of `extend_lists` | |
| `HMesg` | messages and the connection of each client | |
| `SessionCore` | the session process | `ReadyRing`, `HMesg` |
| `HClient` | the client library and the tuning loop that calls it | `HMesg` |
| `TrialPool` | what a session promises, as an abstract specification | |
| `Harmony` | composition of session and clients; the properties; the refinement of `TrialPool` | `SessionCore`, `HClient` |
| `Pro` | `strategies/pro.c` | `HMesg` |
| `Exhaustive` | `strategies/exhaustive.c` | `HMesg` |
| `NelderMead` | `strategies/nm.c` | `HMesg` |
| `Nemo` | `strategies/nemo.c` | `NelderMead` |
| `RandomSearch` | `strategies/random.c` | `HMesg` |
| `Searches` | a session's choice of one of these strategies | the above |
| `Layers` | `agg.c`, `constraint.c`, `codegen.c`, `cache.c` and the layer stack | `HMesg` |
| `HServer` | `hserver.c` and the connections of `httpsvr.c`, with peers and session processes | |
| `CodeServer` | `code_generator.cxx`, `codegen-helper.c` and the codegen layer's end | |
| `MCHarmonyPro`, `MCSearches`, `MCServer` | for TLC: a session with PRO, with any strategy; the server | |
| `MCHarmonySym` | the first of these with clients and values interchangeable | `MCHarmonyPro` |
| `HarmonyProofs`, `TrialProofs`, `PoolProofs` | theorems about the session with any plug-ins (section 6) | `Harmony`, each other |
| `PluginProofs`, `ProTrialProofs` | theorems about PRO and the layers, and a session with them | the above, `MCHarmonyPro` |
| `SearchProofs` | theorems about the exhaustive, random and Nelder-Mead strategies, and a session with them | `PoolProofs`, `Searches` |
| `ServerProofs` | theorems about the server | `HServer` |
| `CodeServerProofs` | theorems about the code server | `CodeServer` |

**Plug-ins are constants.** The code calls strategy and layers through function
pointers; `SessionCore` declares them as constant operators (`StrategyGenerate(_)`,
`LayerAnalyze(_, _, _)`, ...) that map a plug-in's state and arguments to its set
of possible outcomes, and keeps the states themselves in `strat` and `lstate`.
A `.cfg` substitutes `ProGenerate`, `StackAnalyze` and so on. The theorems are
about any plug-ins that keep a stated contract. `Searches` tags the state with the
strategy, so that one run covers several of them, each from its own initial state.

**One action per handler.** `at` is the control point of the session: `select`,
`workflow`, `generate`, `exit`. A message handler with its reply is one action,
because nothing can intervene in a single-threaded process. Only
`plugin_workflow` is cut into an action per layer (`LayerStep`), since each layer
may answer in several ways, and the loop that ends an iteration is an action per
trial (`generate_trial`). A handler that fails sends FAIL, closes every connection
and goes to `exit`, as `main()` does. `workflow_transition` is an operator that
returns the outcomes of a verdict; its callers apply them and differ, as in the
code, in what they do with the result (`main` fails on it for a report;
`generate_trial` and `handle_callback` drop it).

**A client call is two actions,** the request and the return, with any steps of
the session and of other clients in between. `wire[c]` holds the only message a
synchronous client can have under way. The application follows the tuning loop
of `src/example/client_api/example.c` and of the manual (`Users_Guide.dox`):
join; converged, fetch, report; best at any time, also between a fetch and its
report; leave if `MayLeave`. `ptr` stands for the variables the application has
bound, which `harmony_fetch` and `harmony_best` write: what a client measures.
Orders that the manual does not
use (report after converged, two fetches in a row) are left out.

**The abstract pool.** In `TrialPool` a trial is being made, in line, held by a
client, or being judged; there are no slots, rings, layers or messages. `Harmony`
maps its state to it (`Pool`): trials at a layer on the generation side are being
made, the ready ring is the line, `holder` tells who holds a trial, and trials on
the analysis side are being judged. The ids of `Generate` and `Replace` must be
free: the strategies choose ids without looking at `pending`.

**Strategies.** Bookkeeping is exact: ids, counters, the state machine of
Nelder-Mead with the performances it compares, phases of NEMO. Geometry is a free
choice: which values a vertex has, whether a vertex is out of bounds, whether a
simplex has converged.

**The server.** An iteration of `main()` handles the ready descriptors in five
phases (sessions, new connections, unidentified ones, clients, browsers), and one
descriptor is one action (`handle_session_socket`, ..., `handle_http_socket`).
`ready` is the result of the last `select()`; it is not refreshed when a
handler closes a descriptor, nor when `accept` or a launch reuses its number, so
later phases act on what the number means by then. `owner[f]` says whose
connection f is, `slist` the sessions by slot, each with its list of clients. A
request carries `dest`, the client's descriptor, which the session process sends
back untouched and `handle_session_socket` writes to. The peers are modelled by
what the server can see of them: they connect (into a backlog), send one request
and wait, close, or crash. `from` and `session` in messages are history fields:
no action decides by them.

**The code server.** `candidate` and `code_complete` are the files of the shared
directory; a file exists before it is `whole`. `mesg_read` is retried `Tries`
times, each one an action; `Prompt` says whether a file is complete by the last.
Generators are child processes that finish in any order; the server reaps one per
round when it is idle, and waits for one when none is free. For the session all
this comes to a list of requests, answered in their order (`AnswersInOrder`): so
`CodegenCallback` answers the oldest one.

**Data.** A point is an id and one value of `Vals`; a performance is a number, or
`Infinity`. `holder` in `SessionCore` and `measured` in `Exhaustive` are history
variables; no action reads them.

**LP64 and ILP32.** `extend_lists` rotates the array of `int` with a helper that
swaps `unsigned long` words. `WordInts` is the number of ints per word. With 2,
the rotation brings in ints beyond the ones in use; `array_grow` sizes in
pointers, so they are inside the allocation and are modelled as the zeros that
`array_grow` left there.

**Operators with a suffix** (`Advance_NoWrap`, `Dequeue_Peek`, ...) are slips of
the operator that follows them. No specification uses them; substituting one
must make a property fail, which is how each property was tried out.

## 3. The properties

In `Harmony`, for any plug-ins:

* `TypeOK`: one type invariant; it includes that every index is within its array.
* `TrialsAccounted`: every pending trial is in exactly one of ready ring, wait
  list, client's hands, running workflow, and free slots are in none.
* `PendingCounted`: `pending_len` is the number of pending trials.
* `RingShape`: the ring's free cells are those from tail up to head.
* `QueueIsFifo` (action property): the queue the ring stands for only ever gains
  one trial at its end or loses its first.
* `GrowthKeepsQueue` (action property): reallocation leaves that queue alone.
* `IdsUnique`: a report's id determines its trial.
* `ReportsOwnTrial`: until the session exits, a client that is testing a pending
  trial was handed it, has the values on record as its current point, and in its
  variables either those or, since `harmony_best` may be called in the middle of a
  test, those of the best point it knows.
* `ReportsWhatItMeasured`: a report of a trial is about the values in the client's
  variables. It is not so (section 5).
* `PauseHasWaker`: a session that stopped generating has a trial out whose
  analysis will wake it, or is done.
* `SessionAlive`: the process does not exit over a client's request.
* `PoolSpec`: the session and its clients implement `TrialPool`.
* Liveness: `FetchAnswered`, `TrialsReturn` (every generated trial is analyzed),
  `SearchConverges` (again and again, so also after restarts).

For particular plug-ins: `QueuedIsPrepared` (a trial clients can get satisfies the
constraints and has its code), `SkipIsForHit` (the cache's one flag is set only
while the trial it was set for passes back, with a result on record),
`AggCollects` (agg does not ask for more than AGG_TIMES reports), `VisitsAll`
and `ConvergedMeansVisited` (exhaustive), `EverySearchConverges`,
`TrialsReturnOrConverged` (for the exhaustive strategy, which after its last pass
sends the best point again and again under one id, of which only one can be reported).

In `HServer`:

* `TypeOK`; `TablesSound`: a connection is in exactly one table, of the right
  kind, and sessions list only clients whose connection is open.
* `OwnReplies`: what was sent to a client answers a request of its own.
* `OwnSession`: a fetch reaches the session process its client joined.
* `ResponseMatches`: what a client reads is of the type it asked for.
* `JoinedAnswered`: a join or fetch is answered, or the connection is closed.

In `CodeServer`:

* `TypeOK`; `AnswersInOrder`: the layer gets the answers to its own requests, in
  order.
* `SlotsCounted`: `num_ready` is the number of free generator slots whenever the
  server decides by it. `NoOverflow`: its assertion cannot fail.
* `RequestsAnswered`: every request is answered while the session lasts.

## 4. The runs

| run | instance | states | shows |
|---|---|---|---|
| `ProTwoClients` | 2 clients, PRO, 2 values, no layers, capacity 3 | 1 578 000 | the safety properties of one search with no restart, in every interleaving; the refinement of `TrialPool` |
| `ProLayers` | 1 client, PRO, constraint + cache + agg + codegen, pausing | 183 000 | no trial is lost or skips a layer through rejection, hits, retry, parking and late answers; the refinement again |
| `ProRestart` | 1 client that may leave and rejoin, pausing, 2 restarts | 828 000 | fresh ids and survival across restarts with trials in flight |
| `ExhaustiveLive` | 1 client, exhaustive, 3 points, agg | 26 000 | the exhaustive search measures every point; no trial is stuck before it is over |
| `Searches` | 1 client; PRO, random, Nelder-Mead or NEMO with 2 performances | 107 000 | fetches are answered, trials come back, every search but the random one ends |
| `Server` | 2 clients, 1 browser, 1 session name, 5 descriptors | 1 290 000 | tables and replies survive closing, killing and reuse of descriptors |
| `ServerLive` | 2 clients, 2 session names, processes that may die | 273 000 | requests reach the session that was joined; nobody is left waiting |
| `CodeServer` | 2 generators, 4 requests, 1 session | 13 500 | answers come in order, all of them, with the slots there are |

The runs that expect a violation are in section 5.

**Bounds and why they are enough.** *Session.* `MinCap` is 8 in the code; 2 or 3 makes the ring
wrap, and `pending` fill up, within one or two simplexes, which is where its hazards are.
A simplex has 2 vertices, so that one can be reported while the other is out;
`MaxRounds` = 2 or 3 simplexes make ids of an old and a new simplex coexist. Two
performances make a point better or worse than the best. `Vals` has one value
where values play no part, two where a client's variables may hold another point's
(`ProTwoClients`), and in `ProLayers` one that violates the constraints and
two that satisfy them, so that later trials meet the cache with
results on record and two trials of equal values meet in the other layers. `AGG_TIMES` is 2. `MaxJoins` and `MaxRestarts` bound the
joins and restarts; `MinOutstanding` in `Exhaustive` bounds a counter that falls
without end after the last pass but is only compared with 0. `MaxRounds` and
`MaxTrials` = 4 bound the searches: `EverySearchConverges` says that every
simplex and phase is completed and the state machine gets out of each state, not
that finitely many steps suffice on real data. `PoolIds` holds the ids that
these bounds allow. *Server.* Two clients are what one misdirected reply takes;
`MaxFd` = 5 gives both clients, a browser and the sessions just the descriptors they
need, so that each number that is freed is reused at once; `HttpLimit` = 1 makes
a second browser connection be refused; `MaxCalls` = 1 is one fetch per client after its
join. Two names in `ServerLive` let one slot be closed and taken by the other
session. *Symmetry.* `ProTwoClients` and `Server` check no liveness and treat clients as
interchangeable (`Alike`, `ClientSymmetry`), the former also values, which no plug-in of it
compares; descriptors are not permuted. *Code server.* With four requests and two
generators the slots are used up, waited for and reused; `Tries` = 3 is the number in the code.

**Deadlock** is checked in `ExhaustiveLive` and `Searches`. The other runs say
`CHECK_DEADLOCK FALSE` where the model may stop: a client joins at most `MaxJoins`
times, a session that has exited leaves its clients with nothing to do, and in
`HServer` and `CodeServer` everybody may have left.

**Fairness of the session** (`Fairness` in `Harmony`). The process goes on with its own work
(weak). Requests and callbacks are strongly fair: they are not continuously
enabled, because the process is busy in between, but the server forwards them
through one FIFO socket and `select` reports readable descriptors, so none is
passed over forever. A client returns from a call that was answered (weak), and
the application goes on fetching and reporting (strong: it may call other
functions of the library in between, as the tuning loops of the manual do).
Pausing, restarting and leaving are not fair.

**Fairness of the servers** is weak throughout. In `HServer`: the server's loop,
the answer of each session process that is alive, and a client's reading of what
it was sent or of the end of its connection. Nobody has to connect, ask or leave,
and no process has to die. In `CodeServer`: writers reach the end of their file,
helper and server go round their loops, generators finish.

## 5. Where the code departs from its documents

Each is a run that expects a violation of one property; `PROJECT.json` quotes the
text it contradicts.

* `JoinGrowth`: on LP64, when a client joins while the ring is wrapped, the
  realignment moves pairs of ints, so queued trials are lost or replaced by index 0.
* `TwoClientsDie`: `paused_id`, the id of the best point last sent, is one variable
  for all clients, and the report of any pending trial resets it
  (`session-core.c:757`). One client is sent the best point, the other reports its
  trial, the first reports: its id is unknown and the session exits. No layer is needed.
* `CrashMisroutes`: the server sends a session's reply to the descriptor number the
  request came with. When that client has died within its call and the number
  has gone to the next connection, the newcomer reads the reply (`hserver.c:660`).
* `SlaveOverflow`: when all generators are busy the code server waits for any
  child; after a second session has initialized it, that may be one of the first
  session's, no slot is free, and the next request fails the assertion
  (`code_generator.cxx:296`, `:286`).

Other departures, each with the change of an instance that shows it:

| observation | to see it |
|---|---|
| With PRO's default penalty method, a rejection answered with WAIT leaves the trial in its slot for good. | `ProLayers`: `RejectType = "PENALTY"`, `Stack <- Constraint`; `TrialsAccounted` |
| Restarting a converged search does not set `pollstate` again; nothing is generated. | `ProRestart` with `MayLeave` and `MayPause` FALSE, `FairSpec`; `SearchConverges` |
| Of two trials with equal values only the one whose request went to the code server is woken by the answer. | `ProLayers`, `Stack <- CodegenLayer`, `MayPause = FALSE`, `MaxRounds = 1`, `FairSpec`; `TrialsReturn` |
| agg uses the first cell that is free *or* matches, so a freed cell in front of a point's own makes its count start over. | `ProTwoClients`, `Stack <- AggLayer`; `AggCollects` |
| `final_id` of the exhaustive strategy is the id of the last point but one; reporting that one converges the search. | `ExhaustiveLive`, `Space <- FourPoints`, `Vals = {1, 2, 3, 4}`; `ConvergedMeansVisited` |
| After convergence `cache_generate` *returns* `HFLOW_ACCEPT`, which is 1 and an error to `plugin_workflow`; `generate_trial`'s result is dropped, so the trial stays in its slot, while the comment (`cache.c:128`) wants it to go on to the client. | `Searches`, `Stack <- CacheLayer`; `TrialsReturn` |
| A second session that uses the code server may be given answers of the first: `dir_erase` removes requests but not answers. | `CodeServer`, `MaxSessions = 2`; `AnswersInOrder` |
| If a file is not complete by the last try, `mesg_read` gives up; the helper exits and requests stay unanswered. | `CodeServer`, `Prompt = FALSE`; `RequestsAnswered` |
| A misrouted reply whose send fails closes a connection that is not identified yet and stays in `unk_fds`. | `Server`, `MayCrash = TRUE`; `TablesSound` |
| On ILP32 the new tail is computed as `ready_cap - ready_tail` (`session-core.c:969`), which is not the distance between head and tail. | `JoinGrowth`, `WordInts = 1`; `RingShape` |
| `harmony_fetch` keeps the best point with the *larger id*, and reporting it when the session's best is another one ends the session. One client is enough, with the codegen layer: a trial whose code exists overtakes an older one that waits for new code, and is the best until the older one turns out better. | `TwoClientsDie`, `Clients = {c1}`, `Vals` and `ValidVals` = `{v1, v2, v3}`, `Perfs = {1, 2, 3}`, `Infinity = 4`, `Stack <- CodegenLayer`; `SessionAlive` |
| `harmony_best` between a fetch and its report overwrites the variables under test and leaves the current point (`hclient.c:702`), so the trial is given the performance of the best point. | `ProTwoClients`; `ReportsWhatItMeasured` |
| A join with another signature ends the session. | `ProRestart`, `SigMatch = {TRUE, FALSE}`; `SessionAlive` |

Noticed in the source, and not in a property: when `cache.c` knows two results of
a point it gives the first, the second, and from then on always the second, not
the first again as its comment says (`cache.c:139`); a client whose session dies
before its launch is acknowledged is not in the session's list and waits forever
(which is why `JoinedAnswered` is about joins and fetches); after a request could not be
forwarded, `handle_client_socket` returns -1 for a descriptor that `session_close`
has closed already, and `main` closes it once more (`hserver.c:577`); the list
of fetched points grows by the size of a pointer per element (`hserver.c:627`); restarting
Nelder-Mead gives its first vertex the id of the trial that is out (`nm.c:196`),
and expansion compares with the best vertex of before the reflection
(`nm.c:578`), and once converged it sends its best vertex under the id of the
last trial, which `strategy_analyze` no longer raises; a point rejected by `random.c` comes back under the id of the next
trial; restarting NEMO runs past `thresh[]`; NEMO takes the report of any trial but
the last one sent for an error, and ends the session; a restart of the exhaustive
search keeps `final_id`; with more slots than points it sends out its best
point before there is one; a client that leaves with a trial leaves PRO waiting
for that vertex.

## 6. The proofs

    for m in HarmonyProofs TrialProofs PoolProofs PluginProofs ProTrialProofs \
             SearchProofs ServerProofs CodeServerProofs; do tlapm $m.tla; done

The constants' assumptions are the named ASSUMEs of the modules; TLC evaluates them on
every run. A theorem about the session holds for every number of clients, list size
and bound, and for any plug-ins that keep a contract; the contracts are then proved of PRO, of other
strategies and of the layers, so that they are not empty hypotheses.

**Types, the ring and its queue.** `StrategyContract(S)` and `LayerContract(L)` say
that each plug-in routine, from a state in `S` or `L[k]`, yields a state there, a
point, and one of the statuses `session-core.c` has a case for, or fails.

* `TypeCorrect` (`HarmonyProofs`): `Spec => []TypeOK` under the contract, for all
  constants, with growth of the lists on either data model. `TypeInv` strengthens
  `TypeOK` by the plug-ins' states, since otherwise nothing is known of what they return.
  The proof has a lemma per action or group of alike actions; `TransitionType` covers
  the outcomes of a verdict, `ExtendType` the reallocation (what it brings in
  may be wrong, but it is an index within the new array), `FirstType` that the
  search for a slot finds one (it uses that < on the naturals is well founded).
* `RingCorrect` (`HarmonyProofs`): `Spec => []RingShape` under the contract and `NoGrowth`
  (the clients that join fit the initial lists). `NoGrowth` is needed:
  `JoinGrowth` breaks the shape. `RingInv` adds to `TypeInv` and `RingShape` that the capacity is
  still the initial one and that at most `MaxJoins` clients have joined.
  `EnqueueShape` and `DequeueShape` are the two facts about the ring itself.
* `QueueCorrect` (`HarmonyProofs`): `Spec => QueueIsFifo` under the same assumptions.
  `ContentsIs` turns the abstraction function (a CHOOSE of the queue's size) into a
  function on `1..SizeOf`, from which `EnqueueAppends` and `DequeueRemoves` follow.

**Trials.** `TrialsCorrect`, `CountCorrect`, `IdsCorrect`, `ReportsCorrect` (`TrialProofs`):
`[]TrialsAccounted`, `[]PendingCounted`, `[]IdsUnique`, `[]ReportsOwnTrial`, under
`TrialContract(S, L, N, G)` and `NoGrowth` (growth may lose queued trials: `JoinGrowth`).
None of the four is inductive, and they need each other: a report of a trial that is
queued would break the first, and a reused id makes a report find one; that a
client reports only what it was handed needs both. `TrialInv` is their conjunction with
`RingInv` and three more parts. `StratKnows`: the strategy's memory fits the ids that
are pending. `FlowSound`: `plugin_workflow` runs on behalf of a report exactly
while its sender waits. `ClientSound`: what a client's state and the message on its
connection say about each other and about the trial it holds, what its variables hold meanwhile
(`VarsSound`), and that its best point is an old one (reporting it must not find a trial by accident). The proof
goes through a small vocabulary of what a step does to the trials (`TrialStep`:
a trial is generated, replaced, moved, handed out, reported or analyzed);
every action is shown to be one of these, and each of these to keep the invariant.

The contract is more than types, because the code relies on more. `N[s]` is an id
above all that the strategy has used in state `s`, and `G` relates its states to the
ids that may be pending (its memory of them).
`IssuesIds`: new trials get new ids, the best point is no pending trial's.
`ReplacesRejected`: a rejected trial is replaced at once, under its own or a new id,
unless no layer rejects. `NeverFail`: layers report no error before the search has
converged, or at all if trials may still be pending then, and none
about a trial that was measured. Each is a place where `session-core.c` drops or forgets a trial if a plug-in does
otherwise (section 5 has three that do).

* `PauseCorrect`: `[]PauseHasWaker`, if there is no restart and the strategy answers WAIT only
  while trials are out or when it is done (`WaitsForTrials`).
* `PoolCorrect` (`PoolProofs`): `Spec => PoolSpec`, the refinement of `TrialPool`, under
  `TrialContract`, `NoGrowth` and `Nat \subseteq PoolIds` (the pool knows all the ids a strategy may give; a run
  gives it those that its bounds allow). Each `TrialStep` is a step of the pool or a
  stutter; that a fetch takes the first of the line is `QueueCorrect` again.

`ProTrialProofs` shows what PRO keeps of this, for every simplex size: with `OneSearch`
(RANDOM rejection, no restart) under any stack of agg, constraint, codegen and cache, and
with `PlainStack` (agg and codegen only) through restarts and with either rejection method. From
these follow `ProTrialsCorrect`, `ProPauseCorrect` and `ProPoolCorrect`. `ProRound` is what
PRO remembers in one search: the pending trials are the vertices it has sent and not heard
of, so there are `send_idx - reported` of them. What is excluded is what the code loses trials over: a
point of before a restart is unknown to `strategy_rejected`, the penalty method may
leave a rejected trial in no list, and the cache fails after convergence.

* `ProKeepsContract`, `StackKeepsContract` (`PluginProofs`): the contract of the types, for PRO with
  either reject method and every stack. `CacheType` is the part that is not just bookkeeping: however
  the visit counter wraps, the result given out is one on record. `ProTypeCorrect` and `ProQueueCorrect` put them together.
* `SkipCorrect` (`PluginProofs`): `[]SkipIsForHit` for any stack and any strategy that keeps the types, through growth,
  restarts and failures. The cache keeps one flag for all trials, so the argument is that whoever sets it is the
  trial that is being taken through the stack, and that nothing else moves until it has come back to the
  cache (`CacheAnswers`), where the flag is cleared (`CacheClears`).
* `QueueIsPrepared`, `ProQueueIsPrepared` (`ProTrialProofs`): `[]QueuedIsPrepared` for any stack in any order, under
  `TrialContract` and `NoGrowth`. Of the queue alone this is not inductive: `PrepInv` says of the trial under way that it has
  passed every layer below it, in whichever direction it goes (`Behind`, `FlowPrepared`), of a trial parked at
  a layer that it has passed those below and waits for code only (`WaitingPrepared`), and of the requests to the code
  server that each belongs to a waiting trial with that point and none is made twice (`RequestsWait`), so that the answer to the
  oldest, which names only the point, lets the right trial go and leaves the others their requests; this is where `IdsUnique` is needed. Once generated, code stays (`CodeStays`).
  There is no restart in it: `codegen_init` begins an empty log then. TLC checked `PrepInv` on the instance of `ProLayers` and with other orders
  of the layers before it was proved.

**The session outlives its client's requests.** A report with an id that no trial has ends the
session, unless it is `paused_id`, the id of the best point last sent. With several clients, or
layers that reorder trials, a client may meet this although it does as it is told:
trials then come back in another order than that of their ids, one with a lower id becomes the best, the client,
which keeps the best point with the highest id, reports the earlier one again, and the session exits (section 5); or
another client's report clears `paused_id` (`TwoClientsDie`). `LoneClientCorrect`
(`PoolProofs`) says when it cannot: `[]SessionAlive` under `LoneContract` and `NoGrowth`, in
whatever order the client makes its calls, leaves in mid-test or joins again.

* `LoneContract` is `TrialContract` and: the best point only ever changes into one that is analyzed
  (`BestIsReported`; so not by a restart); no layer parks a trial, answers it at once or has it tried again
  (`Straight`; constraints may reject); there is one client, and it describes its own session.
* `SessionAlive` only says what did not happen. `LoneInv` says why: ids in the line rise and lie above the best point's (the
  line is first in, first out, so `PoolCorrect` and `QueueCorrect` are used again); the trial in the workflow is the
  newest, on its way to the queue, or the oldest, on its way to the strategy (`FlowTurn`); and what the client tests is
  either a trial that is out and older than all behind it (`Awaited`) or the best point last sent, which
  is still the best (`Resent`). So the id it reports is always known, and its own best is never above the session's.
  TLC checked `LoneInv` on three instances, that of `ProRestart` among them, before it was proved.
* `ProSessionAlive` (`ProTrialProofs`): PRO with any number of constraints in one search, and with no layers
  through restarts. `RandomSessionAlive` (`SearchProofs`): the random strategy.

**Other strategies** (`SearchProofs`), as `Searches` loads them.

* `SearchesKeepContract`: exhaustive, random and Nelder-Mead keep the contract of the types, for every search space,
  number of passes, simplex size and reject method; so `SearchTypeCorrect` and `SearchQueueCorrect` for a
  session with any of them. For exhaustive this says that the odometer stays within the space (`IncrementType`). For Nelder-Mead that
  `simplex_update_index` always finds a best and a worst vertex (`UpdateIndexIs`, by well-foundedness of the
  performances), that `index_curr` is a vertex whenever the base simplex is measured although it passes through -1 and `SimplexSize`
  on the way (`NMHalfway`), and that each of the turns of `nm_algorithm` ends in a state that has a next vertex.
* `RandomTrialsCorrect`: the trial invariants and `PoolSpec` for the random strategy through restarts, with layers that reject nothing
  (a rejected point comes back under the next trial's id: section 5) and fail at most after convergence, which it does not reach.
* The other two do not keep `IssuesIds`: exhaustive sends its best point again under the same
  id, and Nelder-Mead, once converged, sends the best vertex under the id of the trial
  that was analyzed last, since `next_id` is no longer raised. NEMO is left out since its restart is undefined.

**The server** (`ServerProofs`). `ServerTypes`, `TablesAreSound`, `RepliesReachTheirClient`,
`RequestsReachTheirSession`, `RepliesMatchRequests`: `[]TypeOK`, `[]TablesSound`, `[]OwnReplies`,
`[]OwnSession`, `[]ResponseMatches`, for any number of clients, browsers and names of sessions, any
limit of browsers, and processes that die or are killed at any moment. Two assumptions:

* `~MayCrash`: a client leaves only between two calls (`Leave` needs it where a
  reply under way could otherwise meet a descriptor that was given to somebody
  else: `CrashMisroutes`). The server may still close connections at any time.
* `MaxFd >= 2 * Cardinality(Clients) + Cardinality(Browsers)`: a descriptor for every
  peer and for one session per client. Running out of them is not modelled.

`ServerInv` is inductive and has seven parts. `FdsSound`: a peer has one descriptor, which
is in one of the three tables and watched, and nothing else is in them. `SlotsSound`: open
slots have processes and names of their own, and their client lists are
disjoint. `PeersSound`: `CallSound` says what a client's handle, its request and its
reply say about each other, `ReplySound` that it has at most one reply and that this is the
answer to its call, and `Member` that a client that has joined is, as long as it is
connected, on the list of the slot and process that its handle names, so that `OwnSession` survives
slots being taken over: who closes a session closes its clients. `Outside`: who has not
joined is on no list. `ReadySound`: a client's descriptor in the stale ready set still has something
to read; it is what makes `c2s = NoReq` mean "gone" in `handle_client_socket`.
`LinesSound`, on which `OwnReplies` rests: the messages in a process's two queues, answered and
not, form one `Line`, and each that wants a reply is a `Token` for the only call of a client that
is connected at the descriptor it names; no two tokens of open sessions name the same. What is
left in the queues of a closed session is said nothing of, since the server never reads it
again. `Signed`: answers carry the process that gave them. `FdsEnough`: processes and
clients that may still launch one are no more than the clients.

All that closes a connection or a session (a client or browser that leaves, a refusal,
a dead process, `/kill`) is shown to be an instance of one relation, `Closes(X, W, K)` (the
descriptors X are closed, W no longer watched, the sessions in slots K
forgotten), and `Closing` that it keeps the invariant; what serves one client (a
forwarded request, a delivered reply, a launch) is an instance of `Served(p)`, which leaves the
others' parts alone. Lines change in three ways: the first message leaves or is lost (`LeftOf`), it
is answered in place, or one is appended (`Adds`). `LaunchFindsFd`, `AcceptFindsFd` and
`SlotLeft` count descriptors and slots, by injections into the peers and the names. The invariant
was tried with TLC on the instances of `Server` and `ServerLive` first.

**The code server** (`CodeServerProofs`). `SlotInv` is inductive for any number of
generators, requests and sessions, and with files misread (`Prompt` FALSE).

* `TypeCorrect` and `CountsCorrect`: `[]TypeOK` and `[]SlotsCounted`, for all constants. `SlotsCounted` alone does not say
  that a process number is free for the next generator: `SlotInv` counts the processes that are in no slot any
  more (`Forgotten`), at most one full list for every initial message that was read before the latest,
  and so needs to know how many those are (`Inits`) and which files the helper has written (`HelperSound`).
* `OverflowCorrect`: `[]NoOverflow` with `MaxSessions <= 1`. With one session nothing is forgotten, so
  whichever process `ReapBusy` waits for has a slot, which is then free (`Spare`). With two the assertion can fail (`SlaveOverflow`).
* `AnswersCorrect`: `[]AnswersInOrder` with `MaxSessions <= 1` and `Prompt`: every generator's slot and every answer file has the
  request that its number says (`AnswerInv`). Section 5 says what either hypothesis excludes.

**Only model-checked:** `SessionAlive` beyond the sessions above, of which it is not true in general
(`TwoClientsDie`), what holds of `HServer` when clients
crash within a call, what trials meet under exhaustive, Nelder-Mead and NEMO,
`VisitsAll` and what else is particular to `Exhaustive`, and all liveness and
fairness, which is out of the prover's reach.

## 7. What is not modelled

*In the session:* the simplex geometry and all floating-point arithmetic (any
next simplex is possible, and it may converge after any); the serialized form of
messages; loading plug-ins and parsing configurations; the server between
session and clients in `Harmony` (requests arrive unchanged and in order of each client;
pausing and restarting are actions), which `HServer` models with sessions that
answer anything; plug-ins' join, getcfg and setcfg hooks; callbacks that answer -1 or WAIT, which
the shipped layers do only when the code server misbehaves; restart with codegen, whose
second initialization opens another connection; restart of NEMO; loading a cache
from a log file; values that do not fit the client's variables; allocation failures; signatures, of which a join carries only whether they match.

*In the server:* the log, best point and statistics, which only the web pages
show; the pages; messages that arrive in parts (`mesg_recv` blocks); a `shutdown()`
that fails in `client_close` (`hserver.c:813`), as it may when the peer has crashed, and
leaves the descriptor open. *In the code
server:* what happens between the steps of `codeserver_init`, which is one action (no
generator of an earlier session finishes, and no file appears, in the middle of it); transfer by TCP or scp, failing generators, which end it, and what is generated.

*Not at all:* `bandit.c`, which copies names through pointers it has not
initialized, so that no run of it is defined; `group.c`, which restarts the
session from inside a setcfg hook; `log.c`, `xmlWriter.c`, `TAUdb.c` and `httpinfo.c`, which
accept every trial and write it somewhere; `libvertex.c`; the descriptions,
configuration and points (`hsession.c`, `hsignature.c`, `hcfg.c`, `hpoint.c`,
`hval.c`); the tools and the Fortran binding, which are front ends of `hclient.c`.

`src/WIP` and the examples are most of the repository's lines (servers and
clients of earlier versions, benchmark programs such as smg2000): no Makefile of
the current system builds the former and the latter are subjects of tuning, so the share
of all lines that this project covers is small and will remain so. Of
`src/src` and `src/code-server`, the parts with state and concurrency are modelled.

`init_session` sizes the lists from `CFGKEY_CLIENT_COUNT` and
`CFGKEY_PER_CLIENT_STORAGE`; the model takes both as constants of at least 1.

## 8. Plan

Done, in this order: ring, messages, session core, clients, composition, PRO, layers,
exhaustive; type correctness, ring shape, FIFO order, contracts; the abstract pool and
its refinement; the other strategies; the server; the code server; the cache;
trial accounting, the refinement of `TrialPool`, the code server and the server proved; what
the layers promise of a trial in the queue, and the cache's flag; a lone client's
session; the contracts of exhaustive, random and Nelder-Mead.

Next, proofs: a weaker `IssuesIds`, by which a strategy may use the id of an analyzed trial again unless
it is the best point's, under which Nelder-Mead's trials could be accounted for.

And models: `hsignature.c` and `hcfg.c` as pure functions against reference
definitions; the plug-ins' hooks, with `group.c`; restarts of codegen.
