------------------------------ MODULE HServer ------------------------------
(***************************************************************************)
(* The server (hserver.c, httpsvr.c): a select() loop that forwards the    *)
(* requests of clients to the session processes it launched, and their     *)
(* replies back by descriptor number.  A descriptor that select() reported *)
(* is handled in one of five phases of an iteration; "ready" is the report *)
(* and is not refreshed when a handler opens or closes descriptors.        *)
(*                                                                         *)
(* One handler is one action.  Clients, browsers and session processes are *)
(* modelled by what the server can see of them.  The tables unk_fds,       *)
(* client_fds, http_fds and client are sets.  The log, the best point and  *)
(* the counters that only the web pages show are left out.                 *)
(***************************************************************************)
EXTENDS FiniteSets, Integers, Sequences

CONSTANTS
  Clients, Browsers,     \* the peers of the server, one connection each
  Names, NoName,         \* the names of sessions
  MaxFd,                 \* bound: the descriptors of the server
  HttpLimit,             \* http_connection_limit
  MaxCalls,              \* bound: requests of a client that has joined, pages of a browser
  MayDie,                \* whether session processes may crash
  MayCrash               \* whether clients may crash within a call

Peers == Clients \cup Browsers
Fds   == 1 .. MaxFd
NoFd  == -1
Slots == 1 .. Cardinality(Names)     \* names are unique, so slist needs no more

Listener == 0
Free     == "free"
Session  == "session"

ASSUME ServerAssumption ==
  /\ IsFiniteSet(Clients) /\ IsFiniteSet(Browsers) /\ IsFiniteSet(Names)
  /\ Clients \cap Browsers = {}
  /\ Free \notin Peers /\ Session \notin Peers
  /\ NoName \notin Names
  /\ MaxFd \in Nat /\ MaxFd >= 2 * Cardinality(Clients) + Cardinality(Browsers)
  /\ HttpLimit \in Nat
  /\ MaxCalls \in Nat
  /\ MayDie \in BOOLEAN /\ MayCrash \in BOOLEAN

VARIABLES
  phase,        \* of an iteration of main()'s loop: the last one entered
  ready,        \* ready_fds, with Listener for listen_socket
  listen_fds,
  unk_fds, client_fds, http_fds,
  slist,        \* [name, fd, client] of every slot
  owner,        \* the peer at the other end of a descriptor, Session or Free
  link,         \* the connection of a peer
  c2s, s2c,     \* what a peer sent, and what it was sent but has not read
  proc,         \* proc[f]: the session process at the other end of f
  hd            \* what a peer is doing

tables == <<unk_fds, client_fds, http_fds, slist, owner, listen_fds>>
loop   == <<phase, ready>>
vars   == <<loop, tables, link, c2s, s2c, proc, hd>>

NoReq  == [type |-> "NONE"]
Closed == [name |-> NoName, fd |-> NoFd, client |-> {}]
NoProc == [alive |-> FALSE, in |-> <<>>, out |-> <<>>]

(* A handle that is not joined and asks for nothing.                       *)
Over(state) == [state |-> state, asked |-> "NONE", name |-> NoName, dest |-> 0,
                session |-> NoFd, calls |-> 0]

FreeFds == {f \in Fds : owner[f] = Free}
Lowest(S) == CHOOSE x \in S : \A y \in S : x <= y

Open(i) == slist[i].name # NoName

Init ==
  /\ phase = 1 /\ ready = {}
  /\ listen_fds = {} /\ unk_fds = {} /\ client_fds = {} /\ http_fds = {}
  /\ slist = [i \in Slots |-> Closed]
  /\ owner = [f \in Fds |-> Free]
  /\ link = [p \in Peers |-> "new"]
  /\ c2s = [p \in Peers |-> NoReq]
  /\ s2c = [p \in Peers |-> <<>>]
  /\ proc = [f \in Fds |-> NoProc]
  /\ hd = [p \in Peers |-> Over("idle")]

-----------------------------------------------------------------------------
(* main(): select(), and what is left to do in a phase of the iteration.   *)
Readable(f) ==
  IF owner[f] = Session
    THEN proc[f].out # <<>> \/ ~proc[f].alive
    ELSE c2s[owner[f]] # NoReq \/ link[owner[f]] = "gone"

Backlog == {p \in Peers : link[p] = "backlog"}

Phases == <<"sessions", "accept", "unknown", "clients", "http">>

Todo(n) ==
  CASE Phases[n] = "sessions" -> {slist[i].fd : i \in {j \in Slots : Open(j)}} \cap ready
    [] Phases[n] = "accept"   -> {Listener} \cap ready
    [] Phases[n] = "unknown"  -> unk_fds \cap ready
    [] Phases[n] = "clients"  -> client_fds \cap ready
    [] Phases[n] = "http"     -> http_fds \cap ready

(* The loop enters or is in the named phase: the ones before it are done.  *)
Reach_Past(name) ==
  \E n \in 1 .. 5 :
    /\ Phases[n] = name
    /\ phase <= n
    /\ \A k \in phase .. (n - 1) : Todo(k) = {}
    /\ phase' = n + 1

Reach(name) ==
  \E n \in 1 .. 5 :
    /\ Phases[n] = name
    /\ phase <= n
    /\ \A k \in phase .. (n - 1) : Todo(k) = {}
    /\ phase' = n

Select ==
  /\ \A k \in phase .. 5 : Todo(k) = {}
  /\ ready' = {f \in listen_fds : Readable(f)} \cup (IF Backlog # {} THEN {Listener} ELSE {})
  /\ ready' # {}
  /\ phase' = 1
  /\ UNCHANGED <<tables, link, c2s, s2c, proc, hd>>

Handled(f) == ready' = ready \ {f}

-----------------------------------------------------------------------------
(* The descriptors in F are closed; they and G are no longer watched.      *)
Shut(F, G) ==
  /\ owner' = [f \in Fds |-> IF f \in F THEN Free ELSE owner[f]]
  /\ link' = [p \in Peers |->
                IF \E f \in F : owner[f] = p
                  THEN IF link[p] = "gone" THEN "over" ELSE "closed" ELSE link[p]]
  /\ listen_fds' = listen_fds \ (F \cup G)

Without(list, F) == [i \in Slots |-> [list[i] EXCEPT !.client = @ \ F]]

(* client_close(), for each descriptor in F.                               *)
client_close_KeepsEntry(F) ==
  /\ Shut(F, {})
  /\ client_fds' = client_fds \ F
  /\ UNCHANGED slist

client_close(F) ==
  /\ Shut(F, {})
  /\ client_fds' = client_fds \ F
  /\ slist' = Without(slist, F)

(* session_close() closes the connections of the clients that joined.  The *)
(* descriptor of the process stays open.  F: further clients to close, G:  *)
(* other descriptors to stop watching.                                     *)
session_close_KeepsClients(i, F, G) ==
  /\ slist' = [slist EXCEPT ![i].name = NoName]
  /\ listen_fds' = listen_fds \ G
  /\ UNCHANGED <<owner, link, client_fds>>

session_close_KeepsName(i, F, G) ==
  /\ Shut(slist[i].client \cup F, G)
  /\ client_fds' = client_fds \ (slist[i].client \cup F)
  /\ slist' = Without(slist, slist[i].client \cup F)

session_close(i, F, G) ==
  /\ Shut(slist[i].client \cup F, G)
  /\ client_fds' = client_fds \ (slist[i].client \cup F)
  /\ slist' = Without([slist EXCEPT ![i].name = NoName], slist[i].client \cup F)

(* mesg_send() to a client: descriptor f may be closed by now, or be the   *)
(* descriptor of another peer.  A peer that is gone is noticed or not; what *)
(* reaches a session or a browser in this way is not followed further.     *)
SendTo(f, mesg) ==
  LET p == owner[f]
  IN  \/ /\ p \in Clients /\ link[p] # "gone"
         /\ s2c' = [s2c EXCEPT ![p] = Append(@, mesg)]
         /\ UNCHANGED <<owner, link, listen_fds, client_fds, slist>>
      \/ /\ p \in Browsers \cup {Session} \/ (p \in Clients /\ link[p] = "gone")
         /\ UNCHANGED <<s2c, owner, link, listen_fds, client_fds, slist>>
      \/ /\ p = Free \/ (p \in Clients /\ link[p] = "gone")
         /\ client_close({f} \ FreeFds)
         /\ UNCHANGED s2c

(* handle_session_socket(): a message of a session is forwarded to the     *)
(* client it is for, under the number of the session's slot.               *)
handle_session_socket(i) ==
  LET f == slist[i].fd
      m == Head(proc[f].out)
  IN  /\ Reach("sessions") /\ Open(i) /\ f \in ready
      /\ \A j \in Slots : j < i /\ Open(j) => slist[j].fd \notin ready
      /\ Handled(f)
      /\ IF proc[f].out = <<>>
           THEN /\ session_close(i, {}, {f})
                /\ UNCHANGED <<s2c, proc>>
           ELSE /\ proc' = [proc EXCEPT ![f] = [alive |-> @.alive, in |-> @.in,
                                                out |-> Tail(@.out)]]
                /\ IF m.dest = NoFd
                     THEN UNCHANGED <<s2c, owner, link, listen_fds, client_fds, slist>>
                     ELSE SendTo(m.dest, [m EXCEPT !.dest = i])
      /\ UNCHANGED <<unk_fds, http_fds, c2s, hd>>

(* handle_new_connection().                                                *)
handle_new_connection ==
  /\ Reach("accept") /\ Listener \in ready
  /\ Handled(Listener)
  /\ \E p \in Backlog :
       LET f == Lowest(FreeFds)
       IN  /\ owner' = [owner EXCEPT ![f] = p]
           /\ link' = [link EXCEPT ![p] = "open"]
           /\ unk_fds' = unk_fds \cup {f}
           /\ listen_fds' = listen_fds \cup {f}
  /\ UNCHANGED <<client_fds, http_fds, slist, c2s, s2c, proc, hd>>

(* handle_unknown_connection(): what a peer sends first tells clients from *)
(* browsers.  One that has sent nothing is closed.                         *)
handle_unknown_connection(f) ==
  LET p    == owner[f]
      none == c2s[p] = NoReq
      full == p \in Browsers /\ Cardinality(http_fds) >= HttpLimit
  IN  /\ Reach("unknown") /\ f \in unk_fds \cap ready
      /\ unk_fds' = unk_fds \ {f}
      /\ \/ /\ none \/ full
            /\ Shut({f}, {})
            /\ UNCHANGED <<client_fds, http_fds>>
         \/ /\ ~none /\ p \in Clients
            /\ client_fds' = client_fds \cup {f}
            /\ UNCHANGED <<http_fds, owner, link, listen_fds>>
         \/ /\ ~none /\ p \in Browsers /\ ~full
            /\ http_fds' = http_fds \cup {f}
            /\ UNCHANGED <<client_fds, owner, link, listen_fds>>
      /\ UNCHANGED <<ready, slist, c2s, s2c, proc, hd>>

-----------------------------------------------------------------------------
(* A request is forwarded with the number of the client's descriptor; from *)
(* and session are a history: who made it, and the process that it is for, *)
(* or in a reply the process that answered.                                *)
Request(f) ==
  [type |-> c2s[owner[f]].type, dest |-> f, status |-> "REQ", from |-> owner[f],
   session |-> hd[owner[f]].session]

(* The request of the client at f cannot be served: FAIL and close.        *)
Refuse(f) ==
  /\ s2c' = [s2c EXCEPT ![owner[f]] = Append(@, [Request(f) EXCEPT !.status = "FAIL"])]
  /\ client_close({f})
  /\ UNCHANGED proc

(* A request is forwarded to the session in slot i, whose clients are then *)
(* "client".  When its process is gone, the session is closed and so is    *)
(* the client that asked.                                                  *)
Forward_IgnoresError(i, f, client) ==
  LET g == slist[i].fd
  IN  /\ UNCHANGED <<owner, link, listen_fds, client_fds>>
      /\ IF proc[g].alive
           THEN /\ proc' = [proc EXCEPT ![g].in = Append(@, Request(f))]
                /\ slist' = [slist EXCEPT ![i].client = client]
           ELSE UNCHANGED <<proc, slist>>

Forward(i, f, client) ==
  LET g == slist[i].fd
  IN  IF proc[g].alive
        THEN /\ proc' = [proc EXCEPT ![g].in = Append(@, Request(f))]
             /\ slist' = [slist EXCEPT ![i].client = client]
             /\ UNCHANGED <<owner, link, listen_fds, client_fds>>
        ELSE /\ session_close(i, {f}, {g})
             /\ UNCHANGED proc

(* session_open(): a free slot, a process with the lowest free descriptor, *)
(* and the request as its first message.                                   *)
session_open(f, name) ==
  LET i == Lowest({j \in Slots : ~Open(j)})
      g == Lowest(FreeFds)
  IN  /\ slist' = [slist EXCEPT ![i] = [name |-> name, fd |-> g, client |-> {}]]
      /\ owner' = [owner EXCEPT ![g] = Session]
      /\ proc' = [proc EXCEPT ![g] = [alive |-> TRUE, in |-> <<Request(f)>>, out |-> <<>>]]
      /\ listen_fds' = listen_fds \cup {g}
      /\ UNCHANGED <<link, client_fds, s2c>>

(* handle_client_socket().                                                 *)
handle_client_socket(f) ==
  LET p     == owner[f]
      m     == c2s[p]
      named == {i \in Slots : Open(i) /\ slist[i].name = m.name}
  IN  /\ Reach("clients") /\ f \in client_fds \cap ready
      /\ Handled(f)
      /\ c2s' = [c2s EXCEPT ![p] = NoReq]
      /\ CASE m.type = "NONE" ->
                client_close({f}) /\ UNCHANGED <<s2c, proc>>
           [] m.type = "SESSION" ->
                IF named # {} THEN Refuse(f) ELSE session_open(f, m.name)
           [] m.type = "JOIN" ->
                IF named = {} THEN Refuse(f)
                ELSE /\ UNCHANGED s2c
                     /\ LET i == Lowest(named) IN Forward(i, f, slist[i].client \cup {f})
           [] OTHER ->
                IF ~Open(m.dest) THEN Refuse(f)
                ELSE UNCHANGED s2c /\ Forward(m.dest, f, slist[m.dest].client)
      /\ UNCHANGED <<unk_fds, http_fds, hd>>

(* handle_http_socket(): /kill closes the session but keeps watching its   *)
(* process; /pause, /resume and /restart send it a message that wants no   *)
(* reply.  A browser that has closed the connection is forgotten.          *)
handle_http_socket(f) ==
  LET m     == c2s[owner[f]]
      named == {i \in Slots : Open(i) /\ slist[i].name = m.name}
      g     == slist[Lowest(named)].fd
      same  == UNCHANGED <<owner, link, listen_fds, http_fds, client_fds, slist>>
  IN  /\ Reach("http") /\ f \in http_fds \cap ready
      /\ Handled(f)
      /\ c2s' = [c2s EXCEPT ![owner[f]] = NoReq]
      /\ \/ /\ m = NoReq
            /\ Shut({f}, {})
            /\ http_fds' = http_fds \ {f}
            /\ UNCHANGED <<client_fds, slist, proc>>
         \/ /\ m # NoReq
            /\ IF named = {} THEN TRUE ELSE m.type = "pause" /\ ~proc[g].alive
            /\ same /\ UNCHANGED proc
         \/ /\ m # NoReq /\ named # {} /\ m.type = "kill"
            /\ session_close(Lowest(named), {}, {})
            /\ UNCHANGED <<http_fds, proc>>
         \/ /\ m # NoReq /\ named # {} /\ m.type = "pause" /\ proc[g].alive
            /\ proc' = [proc EXCEPT ![g].in = Append(@, [type |-> "SETCFG", dest |-> NoFd,
                                                         status |-> "REQ", from |-> owner[f],
                                                         session |-> NoFd])]
            /\ same
      /\ UNCHANGED <<unk_fds, s2c, hd>>

ServerStep ==
  \/ Select
  \/ \E i \in Slots : handle_session_socket(i)
  \/ handle_new_connection
  \/ \E f \in Fds : \/ handle_unknown_connection(f)
                     \/ handle_client_socket(f)
                     \/ handle_http_socket(f)

-----------------------------------------------------------------------------
(* main() of session-core.c: requests are answered in order; an error is   *)
(* answered with FAIL and ends the process.                                *)
SessionAnswer_Twice(f) ==
  /\ proc[f].alive /\ proc[f].in # <<>>
  /\ LET m == [Head(proc[f].in) EXCEPT !.status = "OK", !.session = f]
     IN  proc' = [proc EXCEPT ![f].in = Tail(@), ![f].out = @ \o <<m, m>>]
  /\ UNCHANGED <<loop, tables, link, c2s, s2c, hd>>

SessionAnswer(f) ==
  /\ proc[f].alive /\ proc[f].in # <<>>
  /\ LET m == Head(proc[f].in)
     IN  \E status \in IF m.type \in {"SESSION", "JOIN"} THEN {"OK", "FAIL"} ELSE {"OK"} :
           proc' = [proc EXCEPT ![f] = [alive |-> status = "OK",
                                        in    |-> Tail(@.in),
                                        out   |-> Append(@.out, [m EXCEPT !.status = status,
                                                                          !.session = f])]]
  /\ UNCHANGED <<loop, tables, link, c2s, s2c, hd>>

SessionDies(f) ==
  /\ MayDie
  /\ proc[f].alive
  /\ proc' = [proc EXCEPT ![f] = [alive |-> FALSE, in |-> <<>>, out |-> @.out]]
  /\ UNCHANGED <<loop, tables, link, c2s, s2c, hd>>

-----------------------------------------------------------------------------
(***************************************************************************)
(* The peers.  A client connects, launches a session and joins it or joins *)
(* one that is there, makes requests of it and leaves between two of them. *)
(* A browser asks for one page after another; the pages are left out.      *)
(***************************************************************************)
Ask(p, req) ==
  /\ link[p] \in {"backlog", "open"}
  /\ c2s[p] = NoReq
  /\ c2s' = [c2s EXCEPT ![p] = req]
  /\ UNCHANGED <<loop, tables, link, s2c, proc>>

Call(c, state, req) ==
  /\ hd[c].state = state /\ hd[c].asked = "NONE"
  /\ Ask(c, req)
  /\ hd' = [hd EXCEPT ![c].asked = req.type, ![c].name = req.name]

Connect(p) ==
  /\ link[p] = "new"
  /\ link' = [link EXCEPT ![p] = "backlog"]
  /\ UNCHANGED <<loop, tables, c2s, s2c, proc, hd>>

Launch(c) == \E n \in Names : Call(c, "idle", [type |-> "SESSION", name |-> n])

Join(c) ==
  \/ \E n \in Names : Call(c, "idle", [type |-> "JOIN", name |-> n])
  \/ Call(c, "launched", [type |-> "JOIN", name |-> hd[c].name])

(* fetch, report and the other requests of a client that has joined.       *)
Fetch(c) ==
  /\ hd[c].calls < MaxCalls
  /\ Call(c, "joined", [type |-> "FETCH", name |-> hd[c].name, dest |-> hd[c].dest])

Browse(b) ==
  /\ hd[b].calls < MaxCalls
  /\ \E t \in {"kill", "pause"}, n \in Names : Ask(b, [type |-> t, name |-> n])
  /\ hd' = [hd EXCEPT ![b].calls = @ + 1]

(* send_request() takes the reply; one that is not of the type asked for,  *)
(* or FAIL, is an error.  A client that failed makes no more requests.     *)
After(c, m) ==
  LET h == [hd[c] EXCEPT !.asked = "NONE"]
  IN  IF m.type # hd[c].asked \/ m.status = "FAIL"
        THEN Over("failed")
        ELSE CASE m.type = "SESSION" -> [h EXCEPT !.state = "launched"]
               [] m.type = "JOIN"    -> [h EXCEPT !.state = "joined", !.dest = m.dest,
                                                  !.session = m.session]
               [] m.type = "FETCH"   -> [h EXCEPT !.dest = m.dest, !.calls = @ + 1]

Receive(c) ==
  /\ hd[c].asked # "NONE" /\ s2c[c] # <<>>
  /\ s2c' = [s2c EXCEPT ![c] = Tail(@)]
  /\ hd' = [hd EXCEPT ![c] = After(c, Head(s2c[c]))]
  /\ UNCHANGED <<loop, tables, link, c2s, proc>>

(* The connection was closed by the server.                                *)
ReceiveEof(p) ==
  /\ link[p] = "closed" /\ (s2c[p] = <<>> \/ hd[p].asked = "NONE")
  /\ link' = [link EXCEPT ![p] = "over"]
  /\ hd' = [hd EXCEPT ![p] = Over("failed")]
  /\ c2s' = [c2s EXCEPT ![p] = NoReq]
  /\ s2c' = [s2c EXCEPT ![p] = <<>>]
  /\ UNCHANGED <<loop, tables, proc>>

(* harmony_leave(), or a crash: the peer closes its end.                   *)
Leave(p) ==
  /\ link[p] = "open"
  /\ hd[p].asked = "NONE" \/ MayCrash
  /\ link' = [link EXCEPT ![p] = "gone"]
  /\ hd' = [hd EXCEPT ![p] = Over("left")]
  /\ s2c' = [s2c EXCEPT ![p] = <<>>]
  /\ UNCHANGED <<loop, tables, c2s, proc>>

PeerStep(p) ==
  \/ Connect(p)
  \/ p \in Clients /\ (Launch(p) \/ Join(p) \/ Fetch(p))
  \/ p \in Browsers /\ Browse(p)
  \/ p \in Clients /\ Receive(p)
  \/ ReceiveEof(p)
  \/ Leave(p)

Next ==
  \/ ServerStep
  \/ \E f \in Fds : SessionAnswer(f) \/ SessionDies(f)
  \/ \E p \in Peers : PeerStep(p)

Spec == Init /\ [][Next]_vars

(* The server and the processes that are alive keep running.               *)
Fairness ==
  /\ WF_vars(ServerStep)
  /\ \A f \in Fds : WF_vars(SessionAnswer(f))
  /\ \A c \in Clients : WF_vars(Receive(c)) /\ WF_vars(ReceiveEof(c))

FairSpec == Spec /\ Fairness

-----------------------------------------------------------------------------
(* What peers and session processes send each other, and what a peer's     *)
(* handle and a process are.                                               *)
Calls == {"SESSION", "JOIN", "FETCH"}

Message ==
  [type : Calls \cup {"SETCFG"}, dest : Int, status : {"REQ", "OK", "FAIL"}, from : Peers,
   session : Fds \cup {NoFd}]

Requests ==
  {NoReq} \cup [type : {"SESSION", "JOIN"}, name : Names \cup {NoName}]
          \cup [type : {"FETCH"}, name : Names \cup {NoName}, dest : Int]
          \cup [type : {"kill", "pause"}, name : Names]

Handles ==
  [state : {"idle", "launched", "joined", "failed", "left"}, asked : Calls \cup {"NONE"},
   name : Names \cup {NoName}, dest : Int, session : Fds \cup {NoFd}, calls : Nat]

Processes == [alive : BOOLEAN, in : Seq(Message), out : Seq(Message)]

TablesTyped ==
  /\ phase \in 1 .. 5
  /\ ready \subseteq Fds \cup {Listener}
  /\ listen_fds \subseteq Fds
  /\ unk_fds \subseteq Fds /\ client_fds \subseteq Fds /\ http_fds \subseteq Fds
  /\ slist \in [Slots -> [name : Names \cup {NoName}, fd : Fds \cup {NoFd}, client : SUBSET Fds]]
  /\ owner \in [Fds -> Peers \cup {Session, Free}]
  /\ link \in [Peers -> {"new", "backlog", "open", "closed", "gone", "over"}]

(* Every variable has its type: the server's loop and tables, what is      *)
(* under way on the connections, the session processes and the peers.      *)
TypeOK ==
  /\ TablesTyped
  /\ c2s \in [Peers -> Requests]
  /\ s2c \in [Peers -> Seq(Message)]
  /\ proc \in [Fds -> Processes]
  /\ hd \in [Peers -> Handles]

(* A connection is in exactly one of the three tables, of the right kind,  *)
(* as long as it is open, and is watched; a session's list has only        *)
(* clients whose connection is open (descriptor numbers are reused by the  *)
(* next accept or launch, so an entry that outlives its connection would   *)
(* be taken for another peer's).                                           *)
TablesSound ==
  /\ \A f \in Fds : owner[f] \in Peers =>
       /\ f \in listen_fds
       /\ Cardinality({T \in {<<1, unk_fds>>, <<2, client_fds>>, <<3, http_fds>>} : f \in T[2]}) = 1
  /\ \A f \in client_fds : owner[f] \in Clients
  /\ \A f \in http_fds : owner[f] \in Browsers
  /\ \A f \in unk_fds : owner[f] \in Peers
  /\ \A i \in Slots : slist[i].client \subseteq client_fds
  /\ \A i \in Slots : ~Open(i) => slist[i].client = {}

(* "Internal error: Server response message mismatch" cannot happen: what  *)
(* a client reads is of the type it asked for.                             *)
ResponseMatches ==
  \A c \in Clients : hd[c].asked # "NONE" /\ s2c[c] # <<>> => Head(s2c[c]).type = hd[c].asked

(* Replies find the client that asked, although they are addressed by the  *)
(* number of a descriptor that may have been closed and reused meanwhile.  *)
OwnReplies == \A c \in Clients : \A k \in DOMAIN s2c[c] : s2c[c][k].from = c

(* Requests find the session that the client joined, although they are     *)
(* addressed by the number of a slot that may be another session's by now. *)
OwnSession ==
  \A f \in Fds : \A k \in DOMAIN proc[f].in :
    LET m == proc[f].in[k]
    IN  m.type = "FETCH" => m.session = f

(* A client that joins or has joined is answered, or its connection is     *)
(* closed, even if the session is killed or dies under way.                *)
JoinedAnswered ==
  \A c \in Clients : hd[c].asked \in {"JOIN", "FETCH"} ~> hd[c].asked = "NONE"

=============================================================================
