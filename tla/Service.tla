------------------------------- MODULE Service -------------------------------
(***************************************************************************)
(* The way of a request: the command-line client (client/main.cpp,         *)
(* tcp_client.cpp), the proxy (proxy/server.cpp, task.cpp, mq_mgr.cpp) and *)
(* the servers (server/server.cpp, mq_mgr.cpp), with the queues between    *)
(* them.  The proxy gives each connection a position; a request carries it *)
(* to a server and the answer brings it back.                              *)
(*                                                                         *)
(* A connection is a pair <<c, i>>, the i-th one of client c.  Task is     *)
(* about the bytes of one connection; here a request is read whole, and an *)
(* answer arrives in two pieces, wherever it is cut.                       *)
(***************************************************************************)
EXTENDS Integers, Sequences, FiniteSets

CONSTANTS
    Client, Key,
    Asks,           \* what clients ask: pairs of "set" or "get" and a key
    Hash,           \* mq_mgr::Hash
    bucket_num_,    \* proxy configuration
    NServers,       \* push_sks.size()
    PosMod,         \* 2^32: iPosCnt is an unsigned int
    Cap,            \* messages a queue holds
    NONE, PART,
    MaxConn, MaxReq, MaxFaults  \* bounds: per client, per client, altogether

ASSUME ConstantAssumption ==
    /\ Asks \subseteq {"set", "get"} \X Key /\ Hash \in [Key -> Nat]
    /\ bucket_num_ \in Nat \ {0} /\ NServers \in Nat \ {0}
    /\ PosMod \in Nat /\ PosMod >= 2
    /\ Cap \in Nat /\ MaxConn \in Nat /\ MaxReq \in Nat /\ MaxFaults \in Nat

LISTEN_TASK_POS == 0

Server == 0..NServers - 1
Conn   == Client \X (1..MaxConn)
Pos    == 0..PosMod - 1

Request == [conn : Conn, n : 1..MaxReq, kind : {"set", "get"}, key : Key]

\* What an answer to a get shows: the sets of its key the server has applied.
Answer  == [req : Request, seen : SUBSET Request]
Piece   == [ans : Answer, part : {"first", "last"}]
Message == [pos : Pos, req : Request]
Reply   == [pos : Pos, ans : Answer]

VARIABLES
    cli,        \* the clients: conn (0 before init), ok (check_connect_ is 0),
                \* busy in send_and_recv, req and got (the request and what came
                \* of it), n (requests made), must (history: sets acknowledged
                \* before req was sent)
    net,        \* the proxy's side of a connection
    up, down,   \* what is under way on it: a request, pieces of answers
    epos,       \* the position its descriptor was registered with
    acked       \* history: sets whose client took an answer for them

VARIABLES
    objTaskMap, iPosCnt,
    pc,         \* "loop", or "accept" inside AcceptTask
    backlog,    \* connections accept has not returned
    listenReady,    \* the edge of the listening socket
    bailed,     \* history: the last AcceptTask left early
    mixed,      \* history: a position was given while a message bore it
    split,      \* history: connections on which an answer was read in part
    faults

VARIABLES pushq, pullq, db  \* to a server, from it, the sets it has applied

conns   == <<cli, net, up, down, epos, acked, split>>
proxy   == <<objTaskMap, iPosCnt, pc, backlog, listenReady, bailed, mixed>>
servers == <<pushq, pullq, db>>
vars    == <<conns, proxy, servers, faults>>

Using(c) == <<c, cli[c].conn>>

\* A client that reconnects has closed the connection before.
Closed(k) == k[2] < cli[k[1]].conn

Fault == faults < MaxFaults /\ faults' = faults + 1

-----------------------------------------------------------------------------
(* The client.                                                              *)

\* connect(): the kernel completes the connection before accept sees it.
Open(k) ==
    /\ net' = [net EXCEPT ![k] = "backlog"]
    /\ backlog' = Append(backlog, k)
    /\ listenReady' = TRUE

\* InitClinetConn.
Connect(c) ==
    /\ cli[c].conn = 0 /\ MaxConn > 0
    /\ cli' = [cli EXCEPT ![c].conn = 1, ![c].ok = TRUE]
    /\ Open(<<c, 1>>)
    /\ UNCHANGED <<up, down, epos, acked, split, objTaskMap, iPosCnt, pc,
                   bailed, mixed, servers, faults>>

Asked(c, k, kind, key) ==
    [conn |-> k, n |-> cli[c].n + 1, kind |-> kind, key |-> key]

\* send_and_recv, up to the wait for an answer.  reconnect does not set
\* check_connect_ to 0: once it is -1, every request has a connection of its own.
Send(c, kind, key) ==
    /\ cli[c].conn > 0 /\ ~ cli[c].busy /\ cli[c].n < MaxReq
    /\ cli[c].ok \/ cli[c].conn < MaxConn
    /\ LET i   == IF cli[c].ok THEN cli[c].conn ELSE cli[c].conn + 1
           req == Asked(c, <<c, i>>, kind, key)
       IN  /\ cli' = [cli EXCEPT ![c] =
                [conn |-> i, ok |-> cli[c].ok, busy |-> TRUE, n |-> cli[c].n + 1,
                 req |-> req, got |-> NONE,
                 must |-> IF kind = "get" THEN {w \in acked : w.key = key} ELSE {}]]
           /\ up' = [up EXCEPT ![<<c, i>>] = req]
           /\ \/ cli[c].ok /\ UNCHANGED <<net, backlog, listenReady, down>>
              \/ /\ ~ cli[c].ok
                 /\ Open(<<c, i>>)
                 /\ down' = [down EXCEPT ![Using(c)] = << >>]
    /\ UNCHANGED <<epos, acked, split, objTaskMap, iPosCnt, pc, bailed,
                   mixed, servers, faults>>

\* Read up to n pieces, what one read() returns: the loop is not asked to go on
\* until an answer is whole.
Whole(read) ==
    /\ Len(read) >= 2
    /\ read[1].part = "first" /\ read[2] = [read[1] EXCEPT !.part = "last"]

\* A part is taken for an answer where it is no longer than the head, as one
\* without content, or where less than the head's size is missing, completed
\* from what the buffer held.  Else it is an error, which keeps the connection.
Receive(c) ==
    LET k == Using(c) IN
    /\ cli[c].busy
    /\ \E n \in 1..Len(down[k]) :
        LET read == SubSeq(down[k], 1, n)
        IN  /\ down' = [down EXCEPT ![k] = SubSeq(@, n + 1, Len(@))]
            /\ \E got \in IF Whole(read) THEN {read[1].ans} ELSE {PART, NONE} :
                /\ cli' = [cli EXCEPT ![c].busy = FALSE, ![c].got = got]
                /\ acked' = IF got # NONE /\ cli[c].req.kind = "set"
                            THEN acked \cup {cli[c].req} ELSE acked
            /\ split' = IF Whole(read) THEN split ELSE split \cup {k}
    /\ UNCHANGED <<net, up, epos, proxy, servers, faults>>

ConnectionKept(ok) == ok

\* check_connect_ after a failed wait.
ConnectionBad(ok) == FALSE

\* 500 ms pass, or the connection ends or breaks.
GiveUp(c) ==
    /\ cli[c].busy
    /\ cli' = [cli EXCEPT ![c].busy = FALSE, ![c].ok = ConnectionBad(@)]
    /\ UNCHANGED <<net, up, down, epos, acked, split, proxy, servers, faults>>

-----------------------------------------------------------------------------
(* The proxy accepts.                                                       *)

Inc(p) == IF p = PosMod - 1 THEN 0 ELSE p + 1

NextPosUnskipped(p) == Inc(p)

\* ++iPosCnt, once more where that is the listening socket's.
NextPos(p) == IF Inc(p) = LISTEN_TASK_POS THEN Inc(Inc(p)) ELSE Inc(p)

UnderWay(p) ==
    \E s \in Server : \/ \E i \in DOMAIN pushq[s] : pushq[s][i].pos = p
                      \/ \E i \in DOMAIN pullq[s] : pullq[s][i].pos = p

PutTask(k, p) ==
    /\ objTaskMap' = [q \in DOMAIN objTaskMap \cup {p} |-> IF q = p THEN k ELSE objTaskMap[q]]
    /\ net' = [net EXCEPT ![k] = "served"]
    /\ mixed' = (mixed \/ UnderWay(p))

\* objTaskMap.insert: where the map has a task with this position, the new one
\* is destroyed and closes its descriptor.
InsertTask(k, p) ==
    \/ p \notin DOMAIN objTaskMap /\ PutTask(k, p)
    \/ /\ p \in DOMAIN objTaskMap
       /\ net' = [net EXCEPT ![k] = "closed"]
       /\ UNCHANGED <<objTaskMap, mixed>>

AcceptBegin ==
    /\ pc = "loop" /\ listenReady
    /\ pc' = "accept" /\ listenReady' = FALSE /\ bailed' = FALSE
    /\ UNCHANGED <<conns, objTaskMap, iPosCnt, backlog, mixed, servers, faults>>

AcceptNext ==
    /\ iPosCnt' = NextPos(iPosCnt)
    /\ backlog' = Tail(backlog)

ReturnsAfterOne == pc' = "loop"

\* accept is called until it fails.
GoesOn == UNCHANGED pc

AcceptOne ==
    /\ pc = "accept" /\ backlog # << >>
    /\ AcceptNext
    /\ epos' = [epos EXCEPT ![Head(backlog)] = NextPos(iPosCnt)]
    /\ InsertTask(Head(backlog), NextPos(iPosCnt))
    /\ GoesOn
    /\ UNCHANGED <<cli, up, down, acked, split, listenReady, bailed, servers, faults>>

\* A failed call returns at once: setting an option leaves the descriptor open
\* and unknown, EpollAdd terminates the new task.
AcceptBreaks ==
    /\ pc = "accept" /\ backlog # << >> /\ Fault
    /\ AcceptNext
    /\ \E end \in {"leaked", "closed"} : net' = [net EXCEPT ![Head(backlog)] = end]
    /\ pc' = "loop" /\ bailed' = TRUE
    /\ UNCHANGED <<cli, up, down, epos, acked, split, objTaskMap, listenReady, mixed, servers>>

\* accept itself fails, for want of a descriptor.
AcceptFails ==
    /\ pc = "accept" /\ backlog # << >> /\ Fault
    /\ pc' = "loop" /\ bailed' = TRUE
    /\ UNCHANGED <<conns, objTaskMap, iPosCnt, backlog, listenReady, mixed, servers>>

\* EAGAIN.
AcceptNone ==
    /\ pc = "accept" /\ backlog = << >>
    /\ pc' = "loop"
    /\ UNCHANGED <<conns, objTaskMap, iPosCnt, backlog, listenReady, bailed, mixed, servers, faults>>

-----------------------------------------------------------------------------
(* The proxy forwards and delivers.                                         *)

\* The bucket of the key, and the first server whose share of the buckets
\* reaches beyond it; the last one has what is left.
GetIndex(key) ==
    LET per == bucket_num_ \div NServers
        idx == IF per = 0 THEN NServers - 1 ELSE (Hash[key] % bucket_num_) \div per
    IN  IF idx < NServers - 1 THEN idx ELSE NServers - 1

\* A full queue drops the message.
Enqueue(q, m) == IF Len(q) < Cap THEN Append(q, m) ELSE q

PositionLastGiven(k) == iPosCnt

Position(k) == epos[k]

\* Readable: the task of the position the event brings reads a request.
HandleCmd(k) ==
    /\ pc = "loop" /\ net[k] = "served" /\ epos[k] \in DOMAIN objTaskMap
    /\ LET t == objTaskMap[epos[k]] IN
        /\ net[t] = "served" /\ up[t] # NONE
        /\ up' = [up EXCEPT ![t] = NONE]
        /\ pushq' = [pushq EXCEPT ![GetIndex(up[t].key)] =
                        Enqueue(@, [pos |-> Position(t), req |-> up[t]])]
    /\ UNCHANGED <<cli, net, down, epos, acked, split, proxy, pullq, db, faults>>

\* The client closed: the task ends and leaves the map.  (That it first reads
\* what came before is HandleCmd; where the connection was reset it does not.)
SockEnd(k) ==
    /\ pc = "loop" /\ net[k] = "served" /\ Closed(k)
    /\ epos[k] \in DOMAIN objTaskMap
    /\ net' = [net EXCEPT ![objTaskMap[epos[k]]] = "closed"]
    /\ up' = [up EXCEPT ![objTaskMap[epos[k]]] = NONE]
    /\ objTaskMap' = [q \in DOMAIN objTaskMap \ {epos[k]} |-> objTaskMap[q]]
    /\ UNCHANGED <<cli, down, epos, acked, split, iPosCnt, pc, backlog,
                   listenReady, bailed, mixed, servers, faults>>

\* OnMQRecv of the task with the position of a reply.
OnMQRecv(t, ans) ==
    \/ /\ net[t] = "served" /\ ~ Closed(t)
       /\ down' = [down EXCEPT ![t] = @ \o <<[ans |-> ans, part |-> "first"],
                                             [ans |-> ans, part |-> "last"]>>]
       /\ UNCHANGED net
    \* The client is gone: the write goes nowhere, or fails and terminates the
    \* task, which stays in the map.
    \/ /\ net[t] = "served" /\ Closed(t)
       /\ net' \in {net, [net EXCEPT ![t] = "closed"]}
       /\ UNCHANGED down
    \/ net[t] # "served" /\ UNCHANGED <<net, down>>

\* A message of the batch OnMqRecv has got.
Deliver(s) ==
    /\ pc = "loop" /\ pullq[s] # << >>
    /\ pullq' = [pullq EXCEPT ![s] = Tail(@)]
    /\ LET m == Head(pullq[s]) IN
        IF m.pos \in DOMAIN objTaskMap THEN OnMQRecv(objTaskMap[m.pos], m.ans)
        ELSE UNCHANGED <<net, down>>
    /\ UNCHANGED <<cli, up, epos, acked, split, proxy, pushq, db, faults>>

\* A new proxy: what its queues held is lost, and the rest of what the servers
\* have for it comes with the positions the old one gave.
ProxyRestart ==
    /\ Fault
    /\ objTaskMap' = [q \in {} |-> NONE] /\ iPosCnt' = 0
    /\ pc' = "loop" /\ backlog' = << >> /\ listenReady' = FALSE /\ bailed' = FALSE
    /\ net' = [k \in Conn |-> IF net[k] = "unused" THEN "unused" ELSE "closed"]
    /\ up' = [k \in Conn |-> NONE]
    /\ \E n, o \in [Server -> 0..Cap] :
        /\ \A s \in Server : n[s] <= Len(pushq[s]) /\ o[s] <= Len(pullq[s])
        /\ pushq' = [s \in Server |-> SubSeq(pushq[s], 1, n[s])]
        /\ pullq' = [s \in Server |-> SubSeq(pullq[s], o[s] + 1, Len(pullq[s]))]
    /\ UNCHANGED <<cli, down, epos, acked, split, mixed, db>>

-----------------------------------------------------------------------------
(* The servers.                                                             *)

\* ProcessMQMsg and Respone.
ProcessMQMsg(s) ==
    /\ pushq[s] # << >>
    /\ LET m    == Head(pushq[s])
           seen == IF m.req.kind = "get" THEN {w \in db[s] : w.key = m.req.key} ELSE {}
       IN  /\ db' = [db EXCEPT ![s] = IF m.req.kind = "set" THEN @ \cup {m.req} ELSE @]
           /\ pullq' = [pullq EXCEPT ![s] =
                Enqueue(@, [pos |-> m.pos, ans |-> [req |-> m.req, seen |-> seen]])]
    /\ pushq' = [pushq EXCEPT ![s] = Tail(@)]
    /\ UNCHANGED <<conns, proxy, faults>>

NothingLoaded(d) == {}

\* What OnExit saves OnInit loads; Persistence is about that.
Loaded(d) == d

\* A server stops and starts: what it had received is lost, what it had sent
\* may be.
ServerRestart(s) ==
    /\ Fault
    /\ db' = [db EXCEPT ![s] = Loaded(@)]
    /\ \E n \in 0..Len(pushq[s]) :
        pushq' = [pushq EXCEPT ![s] = SubSeq(@, n + 1, Len(@))]
    /\ \E n \in 0..Len(pullq[s]) : pullq' = [pullq EXCEPT ![s] = SubSeq(@, 1, n)]
    /\ UNCHANGED <<conns, proxy>>

-----------------------------------------------------------------------------
Init ==
    /\ cli = [c \in Client |-> [conn |-> 0, ok |-> FALSE, busy |-> FALSE, n |-> 0,
                                req |-> NONE, got |-> NONE, must |-> {}]]
    /\ net = [k \in Conn |-> "unused"] /\ epos = [k \in Conn |-> 0]
    /\ up = [k \in Conn |-> NONE] /\ down = [k \in Conn |-> << >>]
    /\ acked = {} /\ split = {} /\ mixed = FALSE /\ bailed = FALSE /\ faults = 0
    /\ objTaskMap = [q \in {} |-> NONE] /\ iPosCnt = 0
    /\ pc = "loop" /\ backlog = << >> /\ listenReady = FALSE
    /\ pushq = [s \in Server |-> << >>] /\ pullq = [s \in Server |-> << >>]
    /\ db = [s \in Server |-> {}]

ClientNext(c) ==
    \/ Connect(c) \/ Receive(c) \/ GiveUp(c)
    \/ \E ask \in Asks : Send(c, ask[1], ask[2])

AcceptTask ==
    AcceptBegin \/ AcceptOne \/ AcceptBreaks \/ AcceptFails \/ AcceptNone

Next ==
    \/ \E c \in Client : ClientNext(c)
    \/ AcceptTask
    \/ \E k \in Conn : HandleCmd(k) \/ SockEnd(k)
    \/ \E s \in Server : Deliver(s) \/ ProcessMQMsg(s) \/ ServerRestart(s)
    \/ ProxyRestart

Spec == Init /\ [][Next]_vars

-----------------------------------------------------------------------------
(* Properties.                                                              *)

ClientState ==
    [conn : 0..MaxConn, ok : BOOLEAN, busy : BOOLEAN, n : 0..MaxReq,
     req : Request \cup {NONE}, got : Answer \cup {NONE, PART},
     must : SUBSET Request]

\* Types; a client that waits has asked; and no client is given the position of
\* the listening socket, whatever the counter does.
TypeOK ==
    /\ cli \in [Client -> ClientState]
    /\ \A c \in Client : cli[c].busy => cli[c].req \in Request /\ cli[c].conn > 0
    /\ net \in [Conn -> {"unused", "backlog", "leaked", "served", "closed"}]
    /\ up \in [Conn -> Request \cup {NONE}] /\ down \in [Conn -> Seq(Piece)]
    /\ epos \in [Conn -> Pos] /\ acked \subseteq Request /\ split \subseteq Conn
    /\ DOMAIN objTaskMap \subseteq Pos \ {LISTEN_TASK_POS}
    /\ objTaskMap \in [DOMAIN objTaskMap -> Conn]
    /\ iPosCnt \in Pos /\ pc \in {"loop", "accept"}
    /\ backlog \in Seq(Conn) /\ listenReady \in BOOLEAN /\ bailed \in BOOLEAN
    /\ mixed \in BOOLEAN /\ faults \in Nat
    /\ pushq \in [Server -> Seq(Message)] /\ pullq \in [Server -> Seq(Reply)]
    /\ db \in [Server -> SUBSET Request]

\* The position an event brings finds the task of the descriptor it happened
\* on, through wraps of the counter, refused insertions and terminated tasks
\* that stay in the map: no connection is left that nobody reads.
TasksFound ==
    \A k \in Conn : net[k] = "served" =>
        epos[k] \in DOMAIN objTaskMap /\ objTaskMap[epos[k]] = k

\* Until a position is given while a message bears it - after a restart of the
\* proxy, or 2^32 connections later - a connection is sent answers to its own
\* requests only, though the proxy checks nothing but the position.
AnswersReachAskers ==
    ~ mixed => \A k \in Conn : \A i \in DOMAIN down[k] : down[k][i].ans.req.conn = k

\* Until then, and as long as read() returns answers whole, what a client takes
\* for the answer to its request is that: a late answer to a request it gave up
\* never is, because the connection was given up with it.
AcceptedIsOwn ==
    ~ mixed => \A c \in Client :
        Using(c) \notin split /\ cli[c].got # NONE =>
            cli[c].got \in Answer /\ cli[c].got.req = cli[c].req

\* A get shows every set of its key that any client had an answer for when the
\* get was sent, whichever connections the two came by, with servers and the
\* proxy restarting in between.
AcknowledgedWritesSeen ==
    ~ mixed /\ split = {} => \A c \in Client :
        cli[c].got # NONE /\ cli[c].req.kind = "get" =>
            cli[c].must \subseteq cli[c].got.seen

\* Connections wait for accept without an event to come only where the last
\* AcceptTask left early.
BacklogAnnounced == pc = "loop" /\ backlog # << >> => listenReady \/ bailed
=============================================================================
