---------------------------- MODULE ServiceProofs ----------------------------
(***************************************************************************)
(* The safety of Service, for any numbers of clients, connections, servers *)
(* and positions, any capacity of the queues and any number of faults.     *)
(*                                                                         *)
(* What a client takes for an answer is the answer to what it asked, and a *)
(* get shows the sets acknowledged before it was sent: one request is      *)
(* under way on a connection at a time, in one place - the socket to the   *)
(* proxy, a queue to a server, a queue from a server, the socket to the    *)
(* client - so that when a client that kept its connection has its answer, *)
(* nothing is left that could come later.                                  *)
(***************************************************************************)
EXTENDS Service, SequenceTheorems, TLAPS

USE DEF conns, proxy, servers, vars

-----------------------------------------------------------------------------
(* Sharding.                                                                *)

\* GetIndex is the server at which the loop of mq_mgr::GetIndex stops: the
\* bucket lies below the end of its share unless it is the last, and not below
\* the end of the share of any server before.
THEOREM IndexIsWhereLoopStops ==
    ASSUME NEW key \in Key
    PROVE  LET per == bucket_num_ \div NServers
               val == Hash[key] % bucket_num_
           IN  /\ GetIndex(key) \in Server
               /\ GetIndex(key) = NServers - 1 \/ val < (GetIndex(key) + 1) * per
               /\ \A idx \in 0..GetIndex(key) - 1 : val >= (idx + 1) * per
<1> DEFINE per == bucket_num_ \div NServers
           val == Hash[key] % bucket_num_
           quo == val \div per
<1>1. per \in Nat /\ val \in Nat /\ NServers \in Nat \ {0}
  BY ConstantAssumption
<1>2. CASE per = 0
  <2>1. GetIndex(key) = NServers - 1
    BY <1>1, <1>2 DEF GetIndex
  <2>2. \A idx \in 0..GetIndex(key) - 1 : (idx + 1) * per = 0
    BY <1>1, <1>2, <2>1
  <2> QED
    BY <1>1, <2>1, <2>2 DEF Server
<1>3. CASE per > 0
  <2>1. quo \in Nat /\ quo * per <= val /\ val < (quo + 1) * per
    BY <1>1, <1>3
  <2>2. GetIndex(key) = IF quo < NServers - 1 THEN quo ELSE NServers - 1
    BY <1>1, <1>3 DEF GetIndex
  <2>3. GetIndex(key) \in Server /\ GetIndex(key) <= quo
    BY <1>1, <2>1, <2>2 DEF Server
  <2>4. ASSUME NEW idx \in 0..GetIndex(key) - 1
        PROVE  val >= (idx + 1) * per
    <3>1. idx + 1 \in Nat /\ idx + 1 <= quo
      BY <2>1, <2>3 DEF Server
    <3> HIDE DEF per, val, quo
    <3>2. (idx + 1) * per <= quo * per
      BY <1>1, <1>3, <2>1, <3>1
    <3>3. (idx + 1) * per \in Nat /\ quo * per \in Nat
      BY <1>1, <2>1, <3>1
    <3> QED
      BY <1>1, <2>1, <3>2, <3>3
  <2> QED
    BY <1>1, <2>1, <2>2, <2>3, <2>4
<1> QED
  BY <1>1, <1>2, <1>3

-----------------------------------------------------------------------------
(* Sequences.                                                               *)

LEMMA TailElements ==
    ASSUME NEW S, NEW q \in Seq(S), q # << >>
    PROVE  /\ Head(q) \in S /\ Tail(q) \in Seq(S) /\ 1 \in DOMAIN q /\ Head(q) = q[1]
           /\ \A i \in DOMAIN Tail(q) : i + 1 \in DOMAIN q /\ Tail(q)[i] = q[i + 1]
BY HeadTailProperties

LEMMA PartElements ==
    ASSUME NEW S, NEW q \in Seq(S), NEW m \in 1..Len(q) + 1, NEW n \in m - 1..Len(q)
    PROVE  /\ SubSeq(q, m, n) \in Seq(S)
           /\ \A i \in DOMAIN SubSeq(q, m, n) :
                i + m - 1 \in DOMAIN q /\ SubSeq(q, m, n)[i] = q[i + m - 1]
BY SubSeqProperties

LEMMA EnqueueElements ==
    ASSUME NEW S, NEW q \in Seq(S), NEW m \in S
    PROVE  /\ Enqueue(q, m) \in Seq(S)
           /\ \A i \in DOMAIN Enqueue(q, m) :
                \/ i \in DOMAIN q /\ Enqueue(q, m)[i] = q[i]
                \/ Enqueue(q, m)[i] = m
BY AppendProperties DEF Enqueue

-----------------------------------------------------------------------------
(* Types.                                                                   *)

\* A position given is never the listening socket's.
LEMMA NextPosType ==
    ASSUME NEW p \in Pos
    PROVE  NextPos(p) \in Pos \ {LISTEN_TASK_POS}
BY ConstantAssumption DEF NextPos, Inc, Pos, LISTEN_TASK_POS

LEMMA IndexType ==
    ASSUME NEW key \in Key
    PROVE  GetIndex(key) \in Server
BY IndexIsWhereLoopStops

LEMMA TypeInit == Init => TypeOK
<1> SUFFICES ASSUME Init PROVE TypeOK
  OBVIOUS
<1>1. \A c \in Client : cli[c] \in ClientState
  BY ConstantAssumption DEF Init, ClientState
<1>2. cli \in [Client -> ClientState]
  BY <1>1 DEF Init
<1>3. 0 \in Pos
  BY ConstantAssumption DEF Pos
<1> QED
  BY <1>2, <1>3, EmptySeq DEF Init, TypeOK

LEMMA OpenType ==
    ASSUME TypeOK, NEW k \in Conn, Open(k)
    PROVE  /\ net' \in [Conn -> {"unused", "backlog", "leaked", "served", "closed"}]
           /\ backlog' \in Seq(Conn) /\ listenReady' \in BOOLEAN
BY AppendProperties DEF TypeOK, Open

LEMMA ConnectType ==
    ASSUME TypeOK, NEW c \in Client, Connect(c)
    PROVE  TypeOK'
<1>1. <<c, 1>> \in Conn
  BY ConstantAssumption DEF Connect, Conn
<1>2. 1 \in 0..MaxConn /\ cli[c] \in ClientState
  BY ConstantAssumption DEF Connect, TypeOK
<1>3. [cli[c] EXCEPT !.conn = 1, !.ok = TRUE] \in ClientState
  BY <1>2 DEF ClientState
<1>4. cli' = [cli EXCEPT ![c] = [cli[c] EXCEPT !.conn = 1, !.ok = TRUE]]
  BY DEF Connect, TypeOK
<1>5. Open(<<c, 1>>)
  BY DEF Connect
<1>6. [cli[c] EXCEPT !.conn = 1, !.ok = TRUE].busy = cli[c].busy
      /\ [cli[c] EXCEPT !.conn = 1, !.ok = TRUE].req = cli[c].req
      /\ [cli[c] EXCEPT !.conn = 1, !.ok = TRUE].conn = 1
  BY DEF TypeOK, ClientState
<1>7. UNCHANGED <<up, down, epos, acked, split, objTaskMap, iPosCnt, pc, bailed, mixed, servers, faults>>
  BY DEF Connect
<1> HIDE DEF ClientState
<1>8. /\ cli' \in [Client -> ClientState]
      /\ \A d \in Client : cli'[d].busy => cli'[d].req \in Request /\ cli'[d].conn > 0
  BY <1>3, <1>4, <1>6 DEF TypeOK
<1> QED
  BY <1>1, <1>5, <1>7, <1>8, OpenType DEF TypeOK

LEMMA SendType ==
    ASSUME TypeOK, NEW c \in Client, NEW ask \in Asks, Send(c, ask[1], ask[2])
    PROVE  TypeOK'
<1> DEFINE i   == IF cli[c].ok THEN cli[c].conn ELSE cli[c].conn + 1
           req == Asked(c, <<c, i>>, ask[1], ask[2])
<1>1. /\ cli[c] \in ClientState /\ cli[c].conn \in 0..MaxConn /\ cli[c].n \in 0..MaxReq
      /\ cli[c].ok \in BOOLEAN /\ acked \subseteq Request
  BY DEF TypeOK, ClientState
<1>2. ask[1] \in {"set", "get"} /\ ask[2] \in Key
  BY ConstantAssumption
<1>13. MaxConn \in Nat /\ MaxReq \in Nat
  BY ConstantAssumption
<1>14. cli[c].conn > 0 /\ (cli[c].ok \/ cli[c].conn < MaxConn) /\ cli[c].n < MaxReq
  BY DEF Send
<1>3. i \in 1..MaxConn /\ cli[c].conn \in 1..MaxConn
  BY <1>1, <1>13, <1>14
<1>11. <<c, i>> \in Conn /\ Using(c) \in Conn
  BY <1>3 DEF Conn, Using
<1>4. req \in Request
  BY <1>1, <1>2, <1>11, <1>13, <1>14 DEF Asked, Request
<1> HIDE DEF req
<1>5. /\ up' = [up EXCEPT ![<<c, i>>] = req]
      /\ down' = down \/ down' = [down EXCEPT ![Using(c)] = << >>]
      /\ UNCHANGED <<net, backlog, listenReady>> \/ Open(<<c, i>>)
      /\ cli' = [cli EXCEPT ![c] =
                [conn |-> i, ok |-> cli[c].ok, busy |-> TRUE, n |-> cli[c].n + 1,
                 req |-> req, got |-> NONE,
                 must |-> IF ask[1] = "get" THEN {w \in acked : w.key = ask[2]} ELSE {}]]
  BY DEF Send, req
<1>6. [conn |-> i, ok |-> cli[c].ok, busy |-> TRUE, n |-> cli[c].n + 1,
       req |-> req, got |-> NONE,
       must |-> IF ask[1] = "get" THEN {w \in acked : w.key = ask[2]} ELSE {}] \in ClientState
  BY <1>1, <1>3, <1>4, <1>13, <1>14 DEF ClientState
<1> HIDE DEF i
<1>7. /\ cli' \in [Client -> ClientState]
      /\ \A d \in Client : cli'[d].busy => cli'[d].req \in Request /\ cli'[d].conn > 0
  <2>1. cli' \in [Client -> ClientState]
    BY <1>5, <1>6 DEF TypeOK
  <2>2. cli'[c].req = req /\ cli'[c].conn = i
    BY <1>5 DEF TypeOK
  <2>3. \A d \in Client : d # c => cli'[d] = cli[d]
    BY <1>5 DEF TypeOK
  <2>4. i > 0
    BY <1>3
  <2>5. \A d \in Client : cli[d].busy => cli[d].req \in Request /\ cli[d].conn > 0
    BY DEF TypeOK
  <2> QED
    BY <1>4, <2>1, <2>2, <2>3, <2>4, <2>5
<1>8. up' \in [Conn -> Request \cup {NONE}]
  BY <1>4, <1>5, <1>11 DEF TypeOK
<1>9. down' \in [Conn -> Seq(Piece)]
  <2>1. down' = down \/ down' = [down EXCEPT ![Using(c)] = << >>]
    BY <1>5
  <2>2. down \in [Conn -> Seq(Piece)] /\ << >> \in Seq(Piece)
    BY EmptySeq DEF TypeOK
  <2> QED
    BY <1>11, <2>1, <2>2
<1>10. /\ net' \in [Conn -> {"unused", "backlog", "leaked", "served", "closed"}]
       /\ backlog' \in Seq(Conn) /\ listenReady' \in BOOLEAN
  BY <1>5, <1>11, OpenType DEF TypeOK
<1>12. UNCHANGED <<epos, acked, split, objTaskMap, iPosCnt, pc, bailed, mixed, servers, faults>>
  BY DEF Send
<1> QED
  BY <1>7, <1>8, <1>9, <1>10, <1>12 DEF TypeOK

LEMMA ReceiveType ==
    ASSUME TypeOK, NEW c \in Client, Receive(c)
    PROVE  TypeOK'
<1> DEFINE k == Using(c)
<1>1. PICK n \in 1..Len(down[k]) :
        LET read == SubSeq(down[k], 1, n)
        IN  /\ down' = [down EXCEPT ![k] = SubSeq(@, n + 1, Len(@))]
            /\ \E got \in IF Whole(read) THEN {read[1].ans} ELSE {PART, NONE} :
                /\ cli' = [cli EXCEPT ![c].busy = FALSE, ![c].got = got]
                /\ acked' = IF got # NONE /\ cli[c].req.kind = "set"
                            THEN acked \cup {cli[c].req} ELSE acked
            /\ split' = IF Whole(read) THEN split ELSE split \cup {k}
  BY DEF Receive
<1>2. PICK got \in IF Whole(SubSeq(down[k], 1, n)) THEN {SubSeq(down[k], 1, n)[1].ans} ELSE {PART, NONE} :
        /\ cli' = [cli EXCEPT ![c].busy = FALSE, ![c].got = got]
        /\ acked' = IF got # NONE /\ cli[c].req.kind = "set"
                    THEN acked \cup {cli[c].req} ELSE acked
  BY <1>1
<1>3. cli[c] \in ClientState /\ cli[c].conn \in 1..MaxConn /\ cli[c].req \in Request
  <2>1. cli[c].busy
    BY DEF Receive
  <2>2. cli[c] \in ClientState /\ cli[c].conn > 0 /\ cli[c].req \in Request /\ MaxConn \in Nat
    BY <2>1, ConstantAssumption DEF TypeOK
  <2> QED
    BY <2>2 DEF ClientState
<1>4. k \in Conn /\ down[k] \in Seq(Piece)
  BY <1>3 DEF TypeOK, Conn, Using
<1>5. SubSeq(down[k], n + 1, Len(down[k])) \in Seq(Piece)
  BY <1>1, <1>4, PartElements
<1>6. SubSeq(down[k], 1, n) \in Seq(Piece) /\ 1 \in DOMAIN SubSeq(down[k], 1, n)
  BY <1>1, <1>4, SubSeqProperties
<1>7. SubSeq(down[k], 1, n)[1] \in Piece
  BY <1>6, ElementOfSeq
<1>8. got \in Answer \cup {NONE, PART}
  BY <1>2, <1>7 DEF Piece
<1>9. [cli[c] EXCEPT !.busy = FALSE, !.got = got] \in ClientState
  BY <1>3, <1>8 DEF ClientState
<1>10. /\ cli' = [cli EXCEPT ![c] = [cli[c] EXCEPT !.busy = FALSE, !.got = got]]
       /\ ~ [cli[c] EXCEPT !.busy = FALSE, !.got = got].busy
  BY <1>2, <1>3 DEF TypeOK, ClientState
<1> HIDE DEF k
<1>11. /\ cli' \in [Client -> ClientState]
       /\ \A d \in Client : cli'[d].busy => cli'[d].req \in Request /\ cli'[d].conn > 0
  BY <1>9, <1>10 DEF TypeOK
<1>12. down' \in [Conn -> Seq(Piece)]
  BY <1>1, <1>4, <1>5 DEF TypeOK
<1>13. acked' \subseteq Request
  BY <1>2, <1>3 DEF TypeOK
<1>14. split' \subseteq Conn
  BY <1>1, <1>4 DEF TypeOK
<1>15. UNCHANGED <<net, up, epos, proxy, servers, faults>>
  BY DEF Receive
<1> QED
  BY <1>11, <1>12, <1>13, <1>14, <1>15 DEF TypeOK

LEMMA GiveUpType ==
    ASSUME TypeOK, NEW c \in Client, GiveUp(c)
    PROVE  TypeOK'
<1>1. /\ cli' = [cli EXCEPT ![c] = [cli[c] EXCEPT !.busy = FALSE, !.ok = FALSE]]
      /\ [cli[c] EXCEPT !.busy = FALSE, !.ok = FALSE] \in ClientState
      /\ ~ [cli[c] EXCEPT !.busy = FALSE, !.ok = FALSE].busy
  BY ZenonT(30) DEF GiveUp, ConnectionBad, TypeOK, ClientState
<1>2. UNCHANGED <<net, up, down, epos, acked, split, proxy, servers, faults>>
  BY DEF GiveUp
<1> HIDE DEF ClientState
<1> QED
  BY <1>1, <1>2 DEF TypeOK

NetState == {"unused", "backlog", "leaked", "served", "closed"}

LEMMA AcceptType ==
    ASSUME TypeOK, AcceptTask
    PROVE  TypeOK'
<1>1. CASE AcceptBegin
  BY <1>1 DEF AcceptBegin, TypeOK
<1>2. CASE AcceptOne
  <2> DEFINE k == Head(backlog)
             p == NextPos(iPosCnt)
  <2>1. k \in Conn /\ Tail(backlog) \in Seq(Conn)
    BY <1>2, TailElements DEF AcceptOne, TypeOK
  <2>2. p \in Pos \ {LISTEN_TASK_POS}
    BY NextPosType DEF TypeOK
  <2> HIDE DEF k, p
  <2>3. InsertTask(k, p)
    BY <1>2 DEF AcceptOne, k, p
  <2>4. /\ net' \in [Conn -> NetState] /\ mixed' \in BOOLEAN
        /\ DOMAIN objTaskMap' \subseteq Pos \ {LISTEN_TASK_POS}
        /\ objTaskMap' \in [DOMAIN objTaskMap' -> Conn]
    <3>1. CASE PutTask(k, p)
      <4>1. objTaskMap' = [q \in DOMAIN objTaskMap \cup {p} |-> IF q = p THEN k ELSE objTaskMap[q]]
        BY <3>1 DEF PutTask
      <4>2. DOMAIN objTaskMap \subseteq Pos \ {LISTEN_TASK_POS} /\ objTaskMap \in [DOMAIN objTaskMap -> Conn]
        BY DEF TypeOK
      <4>3. DOMAIN objTaskMap' = DOMAIN objTaskMap \cup {p}
        BY <4>1
      <4>4. \A q \in DOMAIN objTaskMap' : objTaskMap'[q] \in Conn
        BY <2>1, <4>1, <4>2, <4>3
      <4>5. objTaskMap' \in [DOMAIN objTaskMap' -> Conn]
        BY <4>1, <4>3, <4>4
      <4>6. net' \in [Conn -> NetState] /\ mixed' \in BOOLEAN
        BY <3>1, <2>1 DEF PutTask, TypeOK, NetState, UnderWay
      <4> QED
        BY <2>2, <4>2, <4>3, <4>5, <4>6
    <3>2. CASE net' = [net EXCEPT ![k] = "closed"] /\ UNCHANGED <<objTaskMap, mixed>>
      BY <3>2, <2>1 DEF TypeOK, NetState
    <3> QED
      BY <2>3, <3>1, <3>2 DEF InsertTask
  <2>5. epos' \in [Conn -> Pos] /\ iPosCnt' \in Pos /\ backlog' \in Seq(Conn)
    BY <1>2, <2>1, <2>2 DEF AcceptOne, AcceptNext, TypeOK, k, p
  <2>6. UNCHANGED <<cli, up, down, acked, split, pc, listenReady, bailed, servers, faults>>
    BY <1>2 DEF AcceptOne, GoesOn
  <2> QED
    BY <2>4, <2>5, <2>6 DEF TypeOK, NetState
<1>3. CASE AcceptBreaks
  <2>1. Head(backlog) \in Conn /\ Tail(backlog) \in Seq(Conn)
    BY <1>3, TailElements DEF AcceptBreaks, TypeOK
  <2>2. NextPos(iPosCnt) \in Pos
    BY NextPosType DEF TypeOK
  <2>3. net' \in [Conn -> NetState]
    BY <1>3, <2>1 DEF AcceptBreaks, TypeOK, NetState
  <2>4. faults' \in Nat
    BY <1>3 DEF AcceptBreaks, Fault, TypeOK
  <2> QED
    BY <1>3, <2>1, <2>2, <2>3, <2>4 DEF AcceptBreaks, AcceptNext, TypeOK, NetState
<1>4. CASE AcceptFails
  BY <1>4 DEF AcceptFails, Fault, TypeOK
<1>5. CASE AcceptNone
  BY <1>5 DEF AcceptNone, TypeOK
<1> QED
  BY <1>1, <1>2, <1>3, <1>4, <1>5 DEF AcceptTask

\* The task an event is handed to.
LEMMA TaskType ==
    ASSUME TypeOK, NEW p \in DOMAIN objTaskMap
    PROVE  objTaskMap[p] \in Conn /\ p \in Pos
BY DEF TypeOK

LEMMA HandleCmdType ==
    ASSUME TypeOK, NEW k \in Conn, HandleCmd(k)
    PROVE  TypeOK'
<1> DEFINE t == objTaskMap[epos[k]]
           s == GetIndex(up[t].key)
           m == [pos |-> Position(t), req |-> up[t]]
<1>1. t \in Conn
  BY TaskType DEF HandleCmd
<1>2. up[t] \in Request
  BY <1>1 DEF HandleCmd, TypeOK
<1>3. s \in Server
  BY <1>2, IndexType DEF Request
<1>4. m \in Message
  BY <1>1, <1>2 DEF Message, Position, TypeOK
<1>5. pushq[s] \in Seq(Message)
  BY <1>3 DEF TypeOK
<1>6. Enqueue(pushq[s], m) \in Seq(Message)
  BY <1>4, <1>5, EnqueueElements
<1>7. /\ up' = [up EXCEPT ![t] = NONE]
      /\ pushq' = [pushq EXCEPT ![s] = Enqueue(pushq[s], m)]
      /\ UNCHANGED <<cli, net, down, epos, acked, split, proxy, pullq, db, faults>>
  BY DEF HandleCmd
<1> HIDE DEF t, s, m
<1> QED
  BY <1>1, <1>3, <1>6, <1>7 DEF TypeOK

LEMMA SockEndType ==
    ASSUME TypeOK, NEW k \in Conn, SockEnd(k)
    PROVE  TypeOK'
<1>1. objTaskMap[epos[k]] \in Conn
  BY TaskType DEF SockEnd
<1>2. objTaskMap' = [q \in DOMAIN objTaskMap \ {epos[k]} |-> objTaskMap[q]]
  BY DEF SockEnd
<1>3. DOMAIN objTaskMap' \subseteq Pos \ {LISTEN_TASK_POS} /\ objTaskMap' \in [DOMAIN objTaskMap' -> Conn]
  BY <1>2 DEF TypeOK
<1>4. net' \in [Conn -> NetState] /\ up' \in [Conn -> Request \cup {NONE}]
  BY <1>1 DEF SockEnd, TypeOK, NetState
<1>5. UNCHANGED <<cli, down, epos, acked, split, iPosCnt, pc, backlog, listenReady, bailed, mixed, servers, faults>>
  BY DEF SockEnd
<1> QED
  BY <1>3, <1>4, <1>5 DEF TypeOK, NetState

LEMMA DeliverType ==
    ASSUME TypeOK, NEW s \in Server, Deliver(s)
    PROVE  TypeOK'
<1> DEFINE m == Head(pullq[s])
<1>1. pullq[s] \in Seq(Reply) /\ pullq[s] # << >>
  BY DEF Deliver, TypeOK
<1>2. m \in Reply /\ Tail(pullq[s]) \in Seq(Reply)
  BY <1>1, TailElements
<1>3. pullq' \in [Server -> Seq(Reply)]
  BY <1>2 DEF Deliver, TypeOK
<1>4. down' \in [Conn -> Seq(Piece)] /\ net' \in [Conn -> NetState]
  <2>1. CASE UNCHANGED <<net, down>>
    BY <2>1 DEF TypeOK, NetState
  <2>2. CASE m.pos \in DOMAIN objTaskMap /\ OnMQRecv(objTaskMap[m.pos], m.ans)
    <3> DEFINE t == objTaskMap[m.pos]
               pieces == <<[ans |-> m.ans, part |-> "first"], [ans |-> m.ans, part |-> "last"]>>
    <3>1. t \in Conn
      BY <2>2, TaskType
    <3>2. down[t] \in Seq(Piece)
      BY <3>1 DEF TypeOK
    <3>3. pieces \in Seq(Piece)
      BY <1>2 DEF Reply, Piece
    <3> HIDE DEF pieces
    <3>4. down[t] \o pieces \in Seq(Piece)
      BY <3>2, <3>3, ConcatProperties
    <3>5. \/ down' = [down EXCEPT ![t] = down[t] \o pieces] /\ UNCHANGED net
          \/ net' \in {net, [net EXCEPT ![t] = "closed"]} /\ UNCHANGED down
          \/ UNCHANGED <<net, down>>
      BY <2>2 DEF OnMQRecv, pieces
    <3>6. down \in [Conn -> Seq(Piece)] /\ net \in [Conn -> NetState]
      BY DEF TypeOK, NetState
    <3> HIDE DEF t
    <3>7. down' \in [Conn -> Seq(Piece)]
      BY <3>1, <3>4, <3>5, <3>6
    <3>8. net' \in [Conn -> NetState]
      BY <3>1, <3>5, <3>6 DEF NetState
    <3> QED
      BY <3>7, <3>8
  <2> QED
    BY <2>1, <2>2 DEF Deliver
<1>5. UNCHANGED <<cli, up, epos, acked, split, proxy, pushq, db, faults>>
  BY DEF Deliver
<1> QED
  BY <1>3, <1>4, <1>5 DEF TypeOK, NetState

LEMMA ProxyRestartType ==
    ASSUME TypeOK, ProxyRestart
    PROVE  TypeOK'
<1>1. PICK n, o \in [Server -> 0..Cap] :
        /\ \A s \in Server : n[s] <= Len(pushq[s]) /\ o[s] <= Len(pullq[s])
        /\ pushq' = [s \in Server |-> SubSeq(pushq[s], 1, n[s])]
        /\ pullq' = [s \in Server |-> SubSeq(pullq[s], o[s] + 1, Len(pullq[s]))]
  BY DEF ProxyRestart
<1>2. ASSUME NEW s \in Server
      PROVE  SubSeq(pushq[s], 1, n[s]) \in Seq(Message) /\ SubSeq(pullq[s], o[s] + 1, Len(pullq[s])) \in Seq(Reply)
  <2>1. pushq[s] \in Seq(Message) /\ pullq[s] \in Seq(Reply)
    BY DEF TypeOK
  <2>2. /\ n[s] \in 0..Len(pushq[s]) /\ o[s] \in 0..Len(pullq[s])
        /\ Len(pushq[s]) \in Nat /\ Len(pullq[s]) \in Nat
    BY <1>1, <2>1, LenProperties, ConstantAssumption
  <2> QED
    BY <2>1, <2>2, PartElements
<1>3. pushq' \in [Server -> Seq(Message)] /\ pullq' \in [Server -> Seq(Reply)]
  BY <1>1, <1>2
<1>4. /\ net' \in [Conn -> NetState] /\ up' \in [Conn -> Request \cup {NONE}]
      /\ backlog' \in Seq(Conn) /\ pc' = "loop" /\ listenReady' = FALSE /\ bailed' = FALSE
  BY EmptySeq DEF ProxyRestart, NetState
<1>5. /\ DOMAIN objTaskMap' = {} /\ objTaskMap' \in [DOMAIN objTaskMap' -> Conn]
      /\ iPosCnt' \in Pos /\ faults' \in Nat
  BY ConstantAssumption DEF ProxyRestart, Fault, TypeOK, Pos
<1>6. UNCHANGED <<cli, down, epos, acked, split, mixed, db>>
  BY DEF ProxyRestart
<1> QED
  BY <1>3, <1>4, <1>5, <1>6 DEF TypeOK, NetState

LEMMA ProcessType ==
    ASSUME TypeOK, NEW s \in Server, ProcessMQMsg(s)
    PROVE  TypeOK'
<1> DEFINE m    == Head(pushq[s])
           seen == IF m.req.kind = "get" THEN {w \in db[s] : w.key = m.req.key} ELSE {}
           r    == [pos |-> m.pos, ans |-> [req |-> m.req, seen |-> seen]]
<1>1. pushq[s] \in Seq(Message) /\ pushq[s] # << >> /\ db[s] \subseteq Request /\ pullq[s] \in Seq(Reply)
  BY DEF ProcessMQMsg, TypeOK
<1>2. m \in Message /\ Tail(pushq[s]) \in Seq(Message)
  BY <1>1, TailElements
<1>3. m.pos \in Pos /\ m.req \in Request
  BY <1>2 DEF Message
<1>4. r \in Reply
  BY <1>1, <1>3 DEF Reply, Answer
<1>5. Enqueue(pullq[s], r) \in Seq(Reply)
  BY <1>1, <1>4, EnqueueElements
<1>6. /\ db' = [db EXCEPT ![s] = IF m.req.kind = "set" THEN db[s] \cup {m.req} ELSE db[s]]
      /\ pullq' = [pullq EXCEPT ![s] = Enqueue(pullq[s], r)]
      /\ pushq' = [pushq EXCEPT ![s] = Tail(pushq[s])]
      /\ UNCHANGED <<conns, proxy, faults>>
  BY DEF ProcessMQMsg
<1> HIDE DEF m, r
<1>7. db' \in [Server -> SUBSET Request]
  BY <1>3, <1>6 DEF TypeOK
<1> QED
  BY <1>2, <1>5, <1>6, <1>7 DEF TypeOK

LEMMA ServerRestartType ==
    ASSUME TypeOK, NEW s \in Server, ServerRestart(s)
    PROVE  TypeOK'
<1>1. PICK n \in 0..Len(pushq[s]) : pushq' = [pushq EXCEPT ![s] = SubSeq(pushq[s], n + 1, Len(pushq[s]))]
  BY DEF ServerRestart
<1>2. PICK o \in 0..Len(pullq[s]) : pullq' = [pullq EXCEPT ![s] = SubSeq(pullq[s], 1, o)]
  BY DEF ServerRestart
<1>3. pushq[s] \in Seq(Message) /\ pullq[s] \in Seq(Reply)
  BY DEF TypeOK
<1>4. SubSeq(pushq[s], n + 1, Len(pushq[s])) \in Seq(Message) /\ SubSeq(pullq[s], 1, o) \in Seq(Reply)
  BY <1>3, PartElements, LenProperties
<1>5. db' \in [Server -> SUBSET Request] /\ faults' \in Nat
  BY DEF ServerRestart, Loaded, Fault, TypeOK
<1>6. UNCHANGED <<conns, proxy>>
  BY DEF ServerRestart
<1> QED
  BY <1>1, <1>2, <1>4, <1>5, <1>6 DEF TypeOK

LEMMA TypeStep == TypeOK /\ [Next]_vars => TypeOK'
<1> SUFFICES ASSUME TypeOK, [Next]_vars PROVE TypeOK'
  OBVIOUS
<1>1. CASE \E c \in Client : ClientNext(c)
  BY <1>1, ConnectType, ReceiveType, GiveUpType, SendType DEF ClientNext
<1>2. CASE AcceptTask
  BY <1>2, AcceptType
<1>3. CASE \E k \in Conn : HandleCmd(k) \/ SockEnd(k)
  BY <1>3, HandleCmdType, SockEndType
<1>4. CASE \E s \in Server : Deliver(s) \/ ProcessMQMsg(s) \/ ServerRestart(s)
  BY <1>4, DeliverType, ProcessType, ServerRestartType
<1>5. CASE ProxyRestart
  BY <1>5, ProxyRestartType
<1>6. CASE UNCHANGED vars
  BY <1>6 DEF TypeOK
<1> QED
  BY <1>1, <1>2, <1>3, <1>4, <1>5, <1>6 DEF Next

\* Every position is in the range of the counter and never the listening
\* socket's; messages, tasks and clients are what they are meant to be.
THEOREM TypeCorrect == Spec => []TypeOK
BY TypeInit, TypeStep, PTL DEF Spec

-----------------------------------------------------------------------------
(* Tasks.  TasksFound alone is not preserved by accepting: the connection   *)
(* to be inserted must not be in the map yet, and one that waits in the     *)
(* backlog must wait there once.                                            *)

\* A position leads to a task registered with it.
Registered ==
    \A p \in DOMAIN objTaskMap :
        epos[objTaskMap[p]] = p /\ net[objTaskMap[p]] \in {"served", "closed"}

\* The connections a client has opened, first to last, are the used ones.
Opened ==
    \A c \in Client, i \in 1..MaxConn : net[<<c, i>>] = "unused" <=> i > cli[c].conn

Queued ==
    /\ \A i \in DOMAIN backlog : net[backlog[i]] = "backlog"
    /\ \A i, j \in DOMAIN backlog : backlog[i] = backlog[j] => i = j

TaskInv == TypeOK /\ Registered /\ Opened /\ Queued /\ TasksFound

LEMMA OpenTasks ==
    ASSUME TaskInv, NEW k \in Conn, net[k] = "unused", Open(k),
           UNCHANGED <<epos, objTaskMap>>
    PROVE  Registered' /\ Queued' /\ TasksFound'
<1>1. net' = [net EXCEPT ![k] = "backlog"] /\ net \in [Conn -> NetState]
  BY DEF Open, TaskInv, TypeOK, NetState
<1>2. backlog \in Seq(Conn) /\ backlog' = Append(backlog, k)
  BY DEF Open, TaskInv, TypeOK
<1>3. \A p \in DOMAIN objTaskMap : objTaskMap[p] \in Conn
  BY TaskType DEF TaskInv
<1>4. Registered' /\ TasksFound'
  BY <1>1, <1>3 DEF TaskInv, Registered, TasksFound
<1>5. /\ Len(backlog) \in Nat /\ DOMAIN backlog = 1..Len(backlog)
      /\ DOMAIN backlog' = 1..Len(backlog) + 1
      /\ \A i \in DOMAIN backlog : backlog'[i] = backlog[i] /\ backlog[i] \in Conn
      /\ backlog'[Len(backlog) + 1] = k
  BY <1>2, AppendProperties, LenProperties, ElementOfSeq
<1>6. \A i \in DOMAIN backlog' : i \in DOMAIN backlog \/ i = Len(backlog) + 1
  BY <1>5
<1>7. \A i \in DOMAIN backlog : net[backlog[i]] = "backlog" /\ backlog[i] # k
  BY DEF TaskInv, Queued
<1>8. \A i, j \in DOMAIN backlog' : backlog'[i] = backlog'[j] => i = j
  BY <1>5, <1>6, <1>7 DEF TaskInv, Queued
<1>9. \A i \in DOMAIN backlog' : net'[backlog'[i]] = "backlog"
  BY <1>1, <1>5, <1>6, <1>7
<1> QED
  BY <1>4, <1>8, <1>9 DEF Queued

LEMMA ConnectTasks ==
    ASSUME TaskInv, NEW c \in Client, Connect(c)
    PROVE  Registered' /\ Opened' /\ Queued' /\ TasksFound'
<1>1. MaxConn \in Nat /\ 1 \in 1..MaxConn /\ <<c, 1>> \in Conn
  BY ConstantAssumption DEF Connect, Conn
<1>2. cli[c].conn = 0 /\ Open(<<c, 1>>) /\ UNCHANGED <<epos, objTaskMap>>
  BY DEF Connect
<1>3. net[<<c, 1>>] = "unused"
  BY <1>1, <1>2 DEF TaskInv, Opened
<1>4. net' = [net EXCEPT ![<<c, 1>>] = "backlog"] /\ net \in [Conn -> NetState]
  BY <1>2 DEF Open, TaskInv, TypeOK, NetState
<1>5. cli'[c].conn = 1 /\ \A d \in Client : d # c => cli'[d].conn = cli[d].conn
  BY DEF Connect, TaskInv, TypeOK, ClientState
<1>6. Opened'
  <2> SUFFICES ASSUME NEW d \in Client, NEW i \in 1..MaxConn
               PROVE  net'[<<d, i>>] = "unused" <=> i > cli'[d].conn
    BY DEF Opened
  <2>1. <<d, i>> \in Conn
    BY DEF Conn
  <2>2. net[<<d, i>>] = "unused" <=> i > cli[d].conn
    BY DEF TaskInv, Opened
  <2>3. CASE <<d, i>> = <<c, 1>>
    BY <1>4, <1>5, <2>1, <2>3
  <2>4. CASE d # c
    BY <1>4, <1>5, <2>1, <2>2, <2>4
  <2>5. CASE d = c /\ i # 1
    BY <1>1, <1>2, <1>4, <1>5, <2>1, <2>2, <2>5
  <2> QED
    BY <2>3, <2>4, <2>5
<1> QED
  BY <1>1, <1>2, <1>3, <1>6, OpenTasks

LEMMA SendTasks ==
    ASSUME TaskInv, NEW c \in Client, NEW ask \in Asks, Send(c, ask[1], ask[2])
    PROVE  Registered' /\ Opened' /\ Queued' /\ TasksFound'
<1>1. /\ MaxConn \in Nat /\ cli[c].conn \in 1..MaxConn /\ cli[c].ok \in BOOLEAN
      /\ cli[c].ok \/ cli[c].conn < MaxConn
  <2>1. cli[c] \in ClientState /\ MaxConn \in Nat
    BY ConstantAssumption DEF TaskInv, TypeOK
  <2>2. cli[c].conn \in 0..MaxConn /\ cli[c].ok \in BOOLEAN
    BY <2>1 DEF ClientState
  <2> QED
    BY <2>1, <2>2 DEF Send
<1>2. \A d \in Client : d # c => cli'[d].conn = cli[d].conn
  BY DEF Send, TaskInv, TypeOK
<1>3. UNCHANGED <<epos, objTaskMap>>
  BY DEF Send
<1>4. CASE cli[c].ok
  <2>1. UNCHANGED <<net, backlog>> /\ cli'[c].conn = cli[c].conn
    BY <1>4 DEF Send, TaskInv, TypeOK
  <2>2. Opened'
    BY <1>2, <2>1 DEF TaskInv, Opened
  <2> QED
    BY <1>3, <2>1, <2>2 DEF TaskInv, Registered, Queued, TasksFound
<1>5. CASE ~ cli[c].ok
  <2> DEFINE n == cli[c].conn + 1
  <2>1. n \in 1..MaxConn /\ <<c, n>> \in Conn
    BY <1>1, <1>5 DEF Conn
  <2>2. Open(<<c, n>>) /\ cli'[c].conn = n
    BY <1>5 DEF Send, TaskInv, TypeOK
  <2>3. net[<<c, n>>] = "unused"
    BY <1>1, <2>1 DEF TaskInv, Opened
  <2>4. net' = [net EXCEPT ![<<c, n>>] = "backlog"] /\ net \in [Conn -> NetState]
    BY <2>2 DEF Open, TaskInv, TypeOK, NetState
  <2>5. Opened'
    <3> SUFFICES ASSUME NEW d \in Client, NEW i \in 1..MaxConn
                 PROVE  net'[<<d, i>>] = "unused" <=> i > cli'[d].conn
      BY DEF Opened
    <3>1. <<d, i>> \in Conn
      BY DEF Conn
    <3>2. net[<<d, i>>] = "unused" <=> i > cli[d].conn
      BY DEF TaskInv, Opened
    <3>3. CASE <<d, i>> = <<c, n>>
      BY <1>1, <2>2, <2>4, <3>1, <3>3
    <3>4. CASE d # c
      BY <1>2, <2>4, <3>1, <3>2, <3>4
    <3>5. CASE d = c /\ i # n
      <4>1. net'[<<d, i>>] = net[<<d, i>>]
        BY <2>4, <3>1, <3>5
      <4>2. i > n <=> i > cli[c].conn
        BY <1>1, <3>5
      <4> QED
        BY <2>2, <3>2, <3>5, <4>1, <4>2
    <3> QED
      BY <3>3, <3>4, <3>5
  <2> QED
    BY <1>3, <2>1, <2>2, <2>3, <2>5, OpenTasks
<1> QED
  BY <1>1, <1>4, <1>5

LEMMA AcceptTasks ==
    ASSUME TaskInv, AcceptTask
    PROVE  Registered' /\ Opened' /\ Queued' /\ TasksFound'
<1>1. CASE AcceptBegin \/ AcceptFails \/ AcceptNone
  <2>1. UNCHANGED <<cli, net, backlog, epos, objTaskMap>>
    BY <1>1 DEF AcceptBegin, AcceptFails, AcceptNone
  <2> QED
    BY <2>1 DEF TaskInv, Registered, Opened, Queued, TasksFound
<1> DEFINE k == Head(backlog)
           p == NextPos(iPosCnt)
\* Common to both ways a connection leaves the backlog.
<1>2. ASSUME backlog # << >>, backlog' = Tail(backlog), UNCHANGED cli,
             NEW end \in {"leaked", "served", "closed"},
             net' = [net EXCEPT ![k] = end]
      PROVE  k \in Conn /\ net[k] = "backlog" /\ Opened' /\ Queued'
  <2>1. net \in [Conn -> NetState] /\ backlog \in Seq(Conn)
    BY DEF TaskInv, TypeOK, NetState
  <2>2. /\ k \in Conn /\ 1 \in DOMAIN backlog /\ k = backlog[1]
        /\ \A i \in DOMAIN backlog' : i + 1 \in DOMAIN backlog /\ backlog'[i] = backlog[i + 1]
    BY <1>2, <2>1, TailElements
  <2>3. net[k] = "backlog"
    BY <2>2 DEF TaskInv, Queued
  <2>4. Opened'
    BY <1>2, <2>1, <2>2, <2>3 DEF TaskInv, Opened, Conn
  <2>5. \A i \in DOMAIN backlog' : i \in Nat \ {0}
    BY <1>2, <2>1, TailElements, LenProperties
  <2>6. \A i \in DOMAIN backlog' : backlog'[i] # k /\ net[backlog'[i]] = "backlog"
    <3> SUFFICES ASSUME NEW i \in DOMAIN backlog'
                 PROVE  backlog'[i] # k /\ net[backlog'[i]] = "backlog"
      OBVIOUS
    <3>1. i + 1 # 1
      BY <2>5
    <3> QED
      BY <2>2, <3>1 DEF TaskInv, Queued
  <2>7. \A i, j \in DOMAIN backlog' : backlog'[i] = backlog'[j] => i = j
    <3> SUFFICES ASSUME NEW i \in DOMAIN backlog', NEW j \in DOMAIN backlog', backlog'[i] = backlog'[j]
                 PROVE  i = j
      OBVIOUS
    <3>1. i + 1 = j + 1
      BY <2>2 DEF TaskInv, Queued
    <3> QED
      BY <2>5, <3>1
  <2>8. \A i \in DOMAIN backlog' : net'[backlog'[i]] = "backlog"
    <3> SUFFICES ASSUME NEW i \in DOMAIN backlog'
                 PROVE  net'[backlog'[i]] = "backlog"
      OBVIOUS
    <3>1. backlog'[i] \in Conn
      BY <2>1, <2>2, ElementOfSeq
    <3> QED
      BY <1>2, <2>1, <2>6, <3>1
  <2> QED
    BY <2>2, <2>3, <2>4, <2>7, <2>8 DEF Queued
<1>3. CASE AcceptOne
  <2>1. /\ backlog # << >> /\ backlog' = Tail(backlog) /\ UNCHANGED cli
        /\ epos' = [epos EXCEPT ![k] = p] /\ InsertTask(k, p)
    BY <1>3 DEF AcceptOne, AcceptNext
  <2>2. PICK end \in {"leaked", "served", "closed"} : net' = [net EXCEPT ![k] = end]
    BY <2>1 DEF InsertTask, PutTask
  <2> HIDE DEF k, p
  <2>3. k \in Conn /\ net[k] = "backlog" /\ Opened' /\ Queued'
    BY <1>2, <2>1, <2>2 DEF k
  <2>4. net \in [Conn -> NetState] /\ epos \in [Conn -> Pos] /\ p \in Pos
    BY NextPosType DEF TaskInv, TypeOK, NetState, p
  <2>5. \A q \in DOMAIN objTaskMap : objTaskMap[q] \in Conn /\ objTaskMap[q] # k
    BY <2>3, TaskType DEF TaskInv, Registered
  <2>6. CASE p \notin DOMAIN objTaskMap /\ PutTask(k, p)
    <3>1. /\ objTaskMap' = [q \in DOMAIN objTaskMap \cup {p} |-> IF q = p THEN k ELSE objTaskMap[q]]
          /\ net' = [net EXCEPT ![k] = "served"]
      BY <2>6 DEF PutTask
    <3>2. Registered'
      BY <2>1, <2>3, <2>4, <2>5, <3>1 DEF TaskInv, Registered
    <3>3. TasksFound'
      BY <2>1, <2>3, <2>4, <2>6, <3>1 DEF TaskInv, TasksFound
    <3> QED
      BY <2>3, <3>2, <3>3
  <2>7. CASE net' = [net EXCEPT ![k] = "closed"] /\ UNCHANGED objTaskMap
    <3>1. Registered'
      BY <2>1, <2>3, <2>4, <2>5, <2>7 DEF TaskInv, Registered
    <3>2. TasksFound'
      BY <2>1, <2>3, <2>4, <2>7 DEF TaskInv, TasksFound
    <3> QED
      BY <2>3, <3>1, <3>2
  <2> QED
    BY <2>1, <2>6, <2>7 DEF InsertTask
<1>4. CASE AcceptBreaks
  <2>1. /\ backlog # << >> /\ backlog' = Tail(backlog) /\ UNCHANGED <<cli, epos, objTaskMap>>
        /\ \E end \in {"leaked", "closed"} : net' = [net EXCEPT ![k] = end]
    BY <1>4 DEF AcceptBreaks, AcceptNext
  <2>2. PICK end \in {"leaked", "served", "closed"} : end # "served" /\ net' = [net EXCEPT ![k] = end]
    BY <2>1
  <2> HIDE DEF k, p
  <2>3. k \in Conn /\ net[k] = "backlog" /\ Opened' /\ Queued'
    BY <1>2, <2>1, <2>2 DEF k
  <2>4. net \in [Conn -> NetState]
    BY DEF TaskInv, TypeOK, NetState
  <2>5. \A q \in DOMAIN objTaskMap : objTaskMap[q] \in Conn /\ objTaskMap[q] # k
    BY <2>3, TaskType DEF TaskInv, Registered
  <2>6. Registered' /\ TasksFound'
    BY <2>1, <2>2, <2>3, <2>4, <2>5 DEF TaskInv, Registered, TasksFound
  <2> QED
    BY <2>3, <2>6
<1> QED
  BY <1>1, <1>3, <1>4 DEF AcceptTask

LEMMA SockEndTasks ==
    ASSUME TaskInv, NEW k \in Conn, SockEnd(k)
    PROVE  Registered' /\ Opened' /\ Queued' /\ TasksFound'
<1>1. /\ net[k] = "served" /\ objTaskMap[epos[k]] = k /\ epos[k] \in DOMAIN objTaskMap
      /\ net' = [net EXCEPT ![k] = "closed"]
      /\ objTaskMap' = [q \in DOMAIN objTaskMap \ {epos[k]} |-> objTaskMap[q]]
      /\ UNCHANGED <<cli, epos, backlog>>
  BY DEF SockEnd, TaskInv, TasksFound
<1>2. net \in [Conn -> NetState] /\ backlog \in Seq(Conn)
  BY DEF TaskInv, TypeOK, NetState
<1>3. \A q \in DOMAIN objTaskMap : objTaskMap[q] \in Conn
  BY TaskType DEF TaskInv
<1>4. Registered'
  BY <1>1, <1>2, <1>3 DEF TaskInv, Registered
<1>5. TasksFound'
  BY <1>1, <1>2 DEF TaskInv, TasksFound
<1>6. Opened'
  BY <1>1, <1>2 DEF TaskInv, Opened, Conn
<1>7. \A i \in DOMAIN backlog : backlog[i] \in Conn
  BY <1>2, ElementOfSeq
<1>8. Queued'
  BY <1>1, <1>2, <1>7 DEF TaskInv, Queued
<1> QED
  BY <1>4, <1>5, <1>6, <1>8

LEMMA DeliverTasks ==
    ASSUME TaskInv, NEW s \in Server, Deliver(s)
    PROVE  Registered' /\ Opened' /\ Queued' /\ TasksFound'
<1>1. UNCHANGED <<cli, epos, objTaskMap, backlog>>
  BY DEF Deliver
<1>2. CASE UNCHANGED net
  BY <1>1, <1>2 DEF TaskInv, Registered, Opened, Queued, TasksFound
<1>3. ASSUME NEW t \in Conn, net[t] = "served", net' = [net EXCEPT ![t] = "closed"]
      PROVE  Registered' /\ Opened' /\ Queued' /\ TasksFound'
  <2>1. net \in [Conn -> NetState] /\ backlog \in Seq(Conn)
    BY DEF TaskInv, TypeOK, NetState
  <2>2. \A q \in DOMAIN objTaskMap : objTaskMap[q] \in Conn
    BY TaskType DEF TaskInv
  <2>3. Registered' /\ TasksFound'
    BY <1>1, <1>3, <2>1, <2>2 DEF TaskInv, Registered, TasksFound
  <2>4. Opened'
    BY <1>1, <1>3, <2>1 DEF TaskInv, Opened, Conn
  <2>5. \A i \in DOMAIN backlog : backlog[i] \in Conn
    BY <2>1, ElementOfSeq
  <2>6. Queued'
    BY <1>1, <1>3, <2>1, <2>5 DEF TaskInv, Queued
  <2> QED
    BY <2>3, <2>4, <2>6
<1>4. \/ UNCHANGED net
      \/ \E t \in Conn : net[t] = "served" /\ net' = [net EXCEPT ![t] = "closed"]
  BY TaskType DEF Deliver, OnMQRecv, TaskInv
<1> QED
  BY <1>2, <1>3, <1>4

LEMMA RestartTasks ==
    ASSUME TaskInv, ProxyRestart
    PROVE  Registered' /\ Opened' /\ Queued' /\ TasksFound'
<1>1. /\ DOMAIN objTaskMap' = {} /\ backlog' = << >> /\ UNCHANGED cli
      /\ net' = [k \in Conn |-> IF net[k] = "unused" THEN "unused" ELSE "closed"]
  BY DEF ProxyRestart
<1>2. Opened'
  BY <1>1 DEF TaskInv, Opened, Conn
<1>3. Registered' /\ TasksFound'
  BY <1>1 DEF Registered, TasksFound
<1>4. Queued'
  BY <1>1 DEF Queued
<1> QED
  BY <1>2, <1>3, <1>4

LEMMA TaskInit == Init => TaskInv
<1> SUFFICES ASSUME Init PROVE TaskInv
  OBVIOUS
<1>1. TypeOK
  BY TypeInit
<1>2. Registered /\ TasksFound /\ Queued
  BY DEF Init, Registered, TasksFound, Queued
<1>3. Opened
  BY DEF Init, Opened, Conn
<1> QED
  BY <1>1, <1>2, <1>3 DEF TaskInv

LEMMA TaskStep == TaskInv /\ [Next]_vars => TaskInv'
<1> SUFFICES ASSUME TaskInv, [Next]_vars PROVE TaskInv'
  OBVIOUS
<1>1. TypeOK'
  BY TypeStep DEF TaskInv
<1> SUFFICES Registered' /\ Opened' /\ Queued' /\ TasksFound'
  BY <1>1 DEF TaskInv
\* The steps that only look at tasks.
<1>2. ASSUME UNCHANGED <<net, epos, objTaskMap, backlog>>,
             \A c \in Client : cli'[c].conn = cli[c].conn
      PROVE  Registered' /\ Opened' /\ Queued' /\ TasksFound'
  BY <1>2 DEF TaskInv, Registered, Opened, Queued, TasksFound
<1>3. ASSUME NEW c \in Client, Receive(c) \/ GiveUp(c)
      PROVE  \A d \in Client : cli'[d].conn = cli[d].conn
  <2>1. cli \in [Client -> ClientState]
    BY DEF TaskInv, TypeOK
  <2>2. CASE GiveUp(c)
    BY <2>1, <2>2 DEF GiveUp, ClientState
  <2>3. CASE Receive(c)
    <3>1. PICK got : cli' = [cli EXCEPT ![c].busy = FALSE, ![c].got = got]
      BY <2>3 DEF Receive
    <3> QED
      BY <2>1, <3>1 DEF ClientState
  <2> QED
    BY <1>3, <2>2, <2>3
<1>4. CASE \E c \in Client : ClientNext(c)
  <2>1. PICK c \in Client : ClientNext(c)
    BY <1>4
  <2>2. CASE Receive(c) \/ GiveUp(c)
    BY <1>2, <1>3, <2>2 DEF Receive, GiveUp
  <2> QED
    BY <2>1, <2>2, ConnectTasks, SendTasks DEF ClientNext
<1>5. CASE AcceptTask
  BY <1>5, AcceptTasks
<1>6. CASE \E k \in Conn : HandleCmd(k) \/ SockEnd(k)
  BY <1>2, <1>6, SockEndTasks DEF HandleCmd
<1>7. CASE \E s \in Server : Deliver(s) \/ ProcessMQMsg(s) \/ ServerRestart(s)
  BY <1>2, <1>7, DeliverTasks DEF ProcessMQMsg, ServerRestart
<1>8. CASE ProxyRestart
  BY <1>8, RestartTasks
<1>9. CASE UNCHANGED vars
  BY <1>2, <1>9
<1> QED
  BY <1>4, <1>5, <1>6, <1>7, <1>8, <1>9 DEF Next

\* The events of a connection that is served find its task.
THEOREM TasksAreFound == Spec => []TasksFound
<1>1. TaskInv => TasksFound
  BY DEF TaskInv
<1> QED
  BY <1>1, TaskInit, TaskStep, PTL DEF Spec

-----------------------------------------------------------------------------
(* Answers.  A position that leads to a task does so for the messages that  *)
(* bear it, unless it was given while one of them was under way.            *)

UpOwn == \A k \in Conn : up[k] # NONE => up[k].conn = k

Leads(p, k) == p \in DOMAIN objTaskMap => objTaskMap[p] = k

RequestsLead ==
    \A s \in Server : \A i \in DOMAIN pushq[s] :
        Leads(pushq[s][i].pos, pushq[s][i].req.conn)

RepliesLead ==
    \A s \in Server : \A i \in DOMAIN pullq[s] :
        Leads(pullq[s][i].pos, pullq[s][i].ans.req.conn)

DownOwn == \A k \in Conn : \A i \in DOMAIN down[k] : down[k][i].ans.req.conn = k

AnswerInv == UpOwn /\ (~ mixed => RequestsLead /\ RepliesLead /\ DownOwn)

LEMMA AnswerInit == Init => AnswerInv
<1> SUFFICES ASSUME Init PROVE AnswerInv
  OBVIOUS
<1>1. UpOwn /\ DownOwn
  BY DEF Init, UpOwn, DownOwn
<1>2. RequestsLead /\ RepliesLead
  BY DEF Init, RequestsLead, RepliesLead
<1> QED
  BY <1>1, <1>2 DEF AnswerInv

\* Steps that touch neither messages nor tasks.
LEMMA AnswersKept ==
    ASSUME AnswerInv, UNCHANGED <<up, down, mixed, pushq, pullq, objTaskMap>>
    PROVE  AnswerInv'
BY DEF AnswerInv, UpOwn, RequestsLead, RepliesLead, Leads, DownOwn

\* The map only loses tasks.
LEMMA LeadsInPart ==
    ASSUME RequestsLead, RepliesLead, UNCHANGED <<pushq, pullq>>,
           DOMAIN objTaskMap' \subseteq DOMAIN objTaskMap,
           \A p \in DOMAIN objTaskMap' : objTaskMap'[p] = objTaskMap[p]
    PROVE  RequestsLead' /\ RepliesLead'
BY DEF RequestsLead, RepliesLead, Leads

LEMMA SendAnswers ==
    ASSUME TaskInv, AnswerInv, NEW c \in Client, NEW ask \in Asks, Send(c, ask[1], ask[2])
    PROVE  AnswerInv'
<1> DEFINE k   == <<c, IF cli[c].ok THEN cli[c].conn ELSE cli[c].conn + 1>>
           req == Asked(c, k, ask[1], ask[2])
<1>1. /\ up' = [up EXCEPT ![k] = req]
      /\ down' = down \/ down' = [down EXCEPT ![Using(c)] = << >>]
      /\ UNCHANGED <<mixed, pushq, pullq, objTaskMap>>
  BY DEF Send
<1>2. req.conn = k
  BY DEF Asked
<1>3. up \in [Conn -> Request \cup {NONE}] /\ down \in [Conn -> Seq(Piece)]
  BY DEF TaskInv, TypeOK
<1> HIDE DEF k, req
<1>4. UpOwn'
  BY <1>1, <1>2, <1>3 DEF AnswerInv, UpOwn
<1>5. DownOwn => DownOwn'
  <2>1. \A j \in Conn : down'[j] = down[j] \/ down'[j] = << >>
    BY <1>1, <1>3
  <2>2. DOMAIN << >> = {}
    OBVIOUS
  <2> QED
    BY <2>1, <2>2 DEF DownOwn
<1>6. ~ mixed' => RequestsLead' /\ RepliesLead' /\ DownOwn'
  BY <1>1, <1>5, LeadsInPart DEF AnswerInv
<1> QED
  BY <1>4, <1>6 DEF AnswerInv

LEMMA ReceiveAnswers ==
    ASSUME TaskInv, AnswerInv, NEW c \in Client, Receive(c)
    PROVE  AnswerInv'
<1> DEFINE k == Using(c)
<1>1. PICK n \in 1..Len(down[k]) : down' = [down EXCEPT ![k] = SubSeq(down[k], n + 1, Len(down[k]))]
  BY DEF Receive
<1>2. UNCHANGED <<up, mixed, pushq, pullq, objTaskMap>>
  BY DEF Receive
<1>3. down \in [Conn -> Seq(Piece)]
  BY DEF TaskInv, TypeOK
<1>4. ASSUME k \in Conn
      PROVE  \A i \in DOMAIN down'[k] : \E j \in DOMAIN down[k] : down'[k][i] = down[k][j]
  <2>1. down'[k] = SubSeq(down[k], n + 1, Len(down[k])) /\ down[k] \in Seq(Piece)
    BY <1>1, <1>3, <1>4
  <2> QED
    BY <1>1, <2>1, PartElements, LenProperties
<1> HIDE DEF k
<1>5. \A j \in Conn : j # k => down'[j] = down[j]
  BY <1>1, <1>3
<1>6. DownOwn => DownOwn'
  BY <1>4, <1>5 DEF DownOwn
<1>7. UpOwn'
  BY <1>2 DEF AnswerInv, UpOwn
<1>8. ~ mixed' => RequestsLead' /\ RepliesLead' /\ DownOwn'
  BY <1>2, <1>6, LeadsInPart DEF AnswerInv
<1> QED
  BY <1>7, <1>8 DEF AnswerInv

LEMMA AcceptAnswers ==
    ASSUME TaskInv, AnswerInv, AcceptTask
    PROVE  AnswerInv'
<1>1. CASE AcceptBegin \/ AcceptBreaks \/ AcceptFails \/ AcceptNone
  BY <1>1, AnswersKept DEF AcceptBegin, AcceptBreaks, AcceptFails, AcceptNone
<1>2. CASE AcceptOne
  <2> DEFINE k == Head(backlog)
             p == NextPos(iPosCnt)
  <2>1. InsertTask(k, p) /\ UNCHANGED <<up, down, pushq, pullq>>
    BY <1>2 DEF AcceptOne
  <2> HIDE DEF k, p
  <2>2. CASE UNCHANGED <<objTaskMap, mixed>>
    BY <2>1, <2>2, AnswersKept
  <2>3. CASE PutTask(k, p)
    <3>1. objTaskMap' = [q \in DOMAIN objTaskMap \cup {p} |-> IF q = p THEN k ELSE objTaskMap[q]]
      BY <2>3 DEF PutTask
    <3>2. mixed' = (mixed \/ UnderWay(p))
      BY <2>3 DEF PutTask
    <3>3. ASSUME ~ mixed'
          PROVE  RequestsLead' /\ RepliesLead' /\ DownOwn'
      <4>1. ~ UnderWay(p) /\ RequestsLead /\ RepliesLead /\ DownOwn
        BY <3>2, <3>3 DEF AnswerInv
      <4>2. \A s \in Server : \A i \in DOMAIN pushq[s] : pushq[s][i].pos # p
        BY <4>1 DEF UnderWay
      <4>3. \A s \in Server : \A i \in DOMAIN pullq[s] : pullq[s][i].pos # p
        BY <4>1 DEF UnderWay
      <4>4. RequestsLead'
        BY <2>1, <3>1, <4>1, <4>2 DEF RequestsLead, Leads
      <4>5. RepliesLead'
        BY <2>1, <3>1, <4>1, <4>3 DEF RepliesLead, Leads
      <4> QED
        BY <2>1, <4>1, <4>4, <4>5 DEF DownOwn
    <3> QED
      BY <2>1, <3>3 DEF AnswerInv, UpOwn
  <2> QED
    BY <2>1, <2>2, <2>3 DEF InsertTask
<1> QED
  BY <1>1, <1>2 DEF AcceptTask

LEMMA HandleCmdAnswers ==
    ASSUME TaskInv, AnswerInv, NEW k \in Conn, HandleCmd(k)
    PROVE  AnswerInv'
<1>1. k = objTaskMap[epos[k]] /\ epos[k] \in DOMAIN objTaskMap /\ net[k] = "served"
  BY DEF HandleCmd, TaskInv, TasksFound
<1> DEFINE s == GetIndex(up[k].key)
           m == [pos |-> epos[k], req |-> up[k]]
<1>2. /\ up[k] # NONE /\ up' = [up EXCEPT ![k] = NONE]
      /\ pushq' = [pushq EXCEPT ![s] = Enqueue(pushq[s], m)]
      /\ UNCHANGED <<down, mixed, pullq, objTaskMap>>
  BY <1>1 DEF HandleCmd, Position
<1>3. up[k] \in Request /\ up[k].conn = k
  BY <1>2 DEF AnswerInv, UpOwn, TaskInv, TypeOK
<1>4. s \in Server /\ pushq[s] \in Seq(Message)
  BY <1>3, IndexType DEF Request, TaskInv, TypeOK
<1>5. m \in Message /\ Leads(m.pos, m.req.conn)
  BY <1>1, <1>3 DEF Message, Leads, TaskInv, TypeOK
<1> HIDE DEF s, m
<1>6. RequestsLead => RequestsLead'
  <2> SUFFICES ASSUME RequestsLead, NEW r \in Server, NEW i \in DOMAIN pushq'[r]
               PROVE  Leads(pushq'[r][i].pos, pushq'[r][i].req.conn)
    BY <1>2 DEF RequestsLead, Leads
  <2>1. pushq \in [Server -> Seq(Message)]
    BY DEF TaskInv, TypeOK
  <2>2. CASE r # s
    BY <1>2, <2>1, <2>2 DEF RequestsLead
  <2>3. CASE r = s
    <3>1. pushq'[r] = Enqueue(pushq[s], m)
      BY <1>2, <1>4, <2>1, <2>3
    <3>2. \/ i \in DOMAIN pushq[s] /\ pushq'[r][i] = pushq[s][i]
          \/ pushq'[r][i] = m
      BY <1>4, <1>5, <3>1, EnqueueElements
    <3> QED
      BY <1>4, <1>5, <2>3, <3>2 DEF RequestsLead
  <2> QED
    BY <2>2, <2>3
<1>7. UpOwn'
  BY <1>2 DEF AnswerInv, UpOwn, TaskInv, TypeOK
<1>8. (RepliesLead => RepliesLead') /\ (DownOwn => DownOwn')
  BY <1>2 DEF RepliesLead, Leads, DownOwn
<1> QED
  BY <1>2, <1>6, <1>7, <1>8 DEF AnswerInv

LEMMA SockEndAnswers ==
    ASSUME TaskInv, AnswerInv, NEW k \in Conn, SockEnd(k)
    PROVE  AnswerInv'
<1>1. /\ objTaskMap' = [q \in DOMAIN objTaskMap \ {epos[k]} |-> objTaskMap[q]]
      /\ up' = [up EXCEPT ![objTaskMap[epos[k]]] = NONE]
      /\ UNCHANGED <<down, mixed, pushq, pullq>>
  BY DEF SockEnd
<1>2. UpOwn'
  BY <1>1 DEF AnswerInv, UpOwn, TaskInv, TypeOK
<1>3. RequestsLead /\ RepliesLead => RequestsLead' /\ RepliesLead'
  BY <1>1, LeadsInPart
<1>4. DownOwn => DownOwn'
  BY <1>1 DEF DownOwn
<1> QED
  BY <1>1, <1>2, <1>3, <1>4 DEF AnswerInv

LEMMA DeliverAnswers ==
    ASSUME TaskInv, AnswerInv, NEW s \in Server, Deliver(s)
    PROVE  AnswerInv'
<1> DEFINE m == Head(pullq[s])
<1>1. /\ pullq[s] # << >> /\ pullq' = [pullq EXCEPT ![s] = Tail(pullq[s])]
      /\ UNCHANGED <<up, mixed, pushq, objTaskMap>>
  BY DEF Deliver
<1>2. pullq[s] \in Seq(Reply) /\ pullq \in [Server -> Seq(Reply)] /\ down \in [Conn -> Seq(Piece)]
  BY DEF TaskInv, TypeOK
<1>3. /\ m \in Reply /\ 1 \in DOMAIN pullq[s] /\ m = pullq[s][1]
      /\ \A i \in DOMAIN Tail(pullq[s]) : i + 1 \in DOMAIN pullq[s] /\ Tail(pullq[s])[i] = pullq[s][i + 1]
  BY <1>1, <1>2, TailElements
<1>4. RepliesLead => RepliesLead'
  <2> SUFFICES ASSUME RepliesLead, NEW r \in Server, NEW i \in DOMAIN pullq'[r]
               PROVE  \E j \in DOMAIN pullq[r] : pullq'[r][i] = pullq[r][j]
    BY <1>1 DEF RepliesLead, Leads
  <2>1. CASE r # s
    BY <1>1, <1>2, <2>1
  <2>2. CASE r = s
    BY <1>1, <1>2, <1>3, <2>2
  <2> QED
    BY <2>1, <2>2
<1>5. RequestsLead => RequestsLead'
  BY <1>1 DEF RequestsLead, Leads
<1>6. RepliesLead /\ DownOwn => DownOwn'
  <2> SUFFICES ASSUME RepliesLead, DownOwn PROVE DownOwn'
    OBVIOUS
  <2>1. CASE UNCHANGED down
    BY <2>1 DEF DownOwn
  <2>2. CASE m.pos \in DOMAIN objTaskMap /\ OnMQRecv(objTaskMap[m.pos], m.ans)
    <3> DEFINE t == objTaskMap[m.pos]
               pieces == <<[ans |-> m.ans, part |-> "first"], [ans |-> m.ans, part |-> "last"]>>
    <3>1. t \in Conn /\ m.ans.req.conn = t
      BY <1>3, <2>2, TaskType DEF RepliesLead, Leads, TaskInv
    <3>2. m.ans \in Answer
      BY <1>3 DEF Reply
    <3>3. pieces \in Seq(Piece) /\ Len(pieces) = 2 /\ \A j \in 1..2 : pieces[j].ans = m.ans
      BY <3>2 DEF Piece
    <3>4. down' = [down EXCEPT ![t] = down[t] \o pieces] \/ UNCHANGED down
      BY <2>2 DEF OnMQRecv
    <3> HIDE DEF t, pieces
    <3>5. ASSUME down' = [down EXCEPT ![t] = down[t] \o pieces], NEW i \in DOMAIN down'[t]
          PROVE  down'[t][i].ans.req.conn = t
      <4>1. down[t] \in Seq(Piece) /\ down'[t] = down[t] \o pieces
        BY <1>2, <3>1, <3>5
      <4>2. /\ Len(down[t]) \in Nat /\ i \in 1..Len(down[t]) + 2
            /\ down'[t][i] = IF i <= Len(down[t]) THEN down[t][i] ELSE pieces[i - Len(down[t])]
        BY <3>3, <3>5, <4>1, ConcatProperties, LenProperties
      <4>3. CASE i <= Len(down[t])
        BY <3>1, <4>1, <4>2, <4>3, LenProperties DEF DownOwn
      <4>4. CASE i > Len(down[t])
        <5>1. i - Len(down[t]) \in 1..2
          BY <4>2, <4>4
        <5> QED
          BY <3>1, <3>3, <4>2, <4>4, <5>1
      <4> QED
        BY <4>2, <4>3, <4>4
    <3>6. ASSUME down' = [down EXCEPT ![t] = down[t] \o pieces]
          PROVE  DownOwn'
      BY <1>2, <3>5, <3>6 DEF DownOwn
    <3> QED
      BY <2>1, <3>4, <3>6
  <2> QED
    BY <2>1, <2>2 DEF Deliver
<1>7. UpOwn'
  BY <1>1 DEF AnswerInv, UpOwn
<1> QED
  BY <1>1, <1>4, <1>5, <1>6, <1>7 DEF AnswerInv

\* Steps that drop messages.
LEMMA QueuesInPart ==
    ASSUME AnswerInv, UNCHANGED <<down, mixed>>, UpOwn',
           DOMAIN objTaskMap' \subseteq DOMAIN objTaskMap,
           \A p \in DOMAIN objTaskMap' : objTaskMap'[p] = objTaskMap[p],
           \A s \in Server : \A i \in DOMAIN pushq'[s] :
               \E j \in DOMAIN pushq[s] : pushq'[s][i] = pushq[s][j],
           \A s \in Server : \A i \in DOMAIN pullq'[s] :
               \E j \in DOMAIN pullq[s] : pullq'[s][i] = pullq[s][j]
    PROVE  AnswerInv'
<1>1. RequestsLead => RequestsLead'
  BY DEF RequestsLead, Leads
<1>2. RepliesLead => RepliesLead'
  BY DEF RepliesLead, Leads
<1>3. DownOwn => DownOwn'
  BY DEF DownOwn
<1> QED
  BY <1>1, <1>2, <1>3 DEF AnswerInv

LEMMA ProxyRestartAnswers ==
    ASSUME TaskInv, AnswerInv, ProxyRestart
    PROVE  AnswerInv'
<1>1. PICK n, o \in [Server -> 0..Cap] :
        /\ \A s \in Server : n[s] <= Len(pushq[s]) /\ o[s] <= Len(pullq[s])
        /\ pushq' = [s \in Server |-> SubSeq(pushq[s], 1, n[s])]
        /\ pullq' = [s \in Server |-> SubSeq(pullq[s], o[s] + 1, Len(pullq[s]))]
  BY DEF ProxyRestart
<1>2. ASSUME NEW s \in Server
      PROVE  /\ \A i \in DOMAIN pushq'[s] : \E j \in DOMAIN pushq[s] : pushq'[s][i] = pushq[s][j]
             /\ \A i \in DOMAIN pullq'[s] : \E j \in DOMAIN pullq[s] : pullq'[s][i] = pullq[s][j]
  <2>1. pushq[s] \in Seq(Message) /\ pullq[s] \in Seq(Reply)
    BY DEF TaskInv, TypeOK
  <2>2. /\ n[s] \in 0..Len(pushq[s]) /\ o[s] \in 0..Len(pullq[s])
        /\ Len(pushq[s]) \in Nat /\ Len(pullq[s]) \in Nat
    BY <1>1, <2>1, LenProperties, ConstantAssumption
  <2>3. pushq'[s] = SubSeq(pushq[s], 1, n[s]) /\ pullq'[s] = SubSeq(pullq[s], o[s] + 1, Len(pullq[s]))
    BY <1>1
  <2>4. \A i \in DOMAIN pushq'[s] : i + 1 - 1 \in DOMAIN pushq[s] /\ pushq'[s][i] = pushq[s][i + 1 - 1]
    BY <2>1, <2>2, <2>3, PartElements
  <2>5. \A i \in DOMAIN pullq'[s] :
            i + (o[s] + 1) - 1 \in DOMAIN pullq[s] /\ pullq'[s][i] = pullq[s][i + (o[s] + 1) - 1]
    BY <2>1, <2>2, <2>3, PartElements
  <2> QED
    BY <2>4, <2>5
<1>3. DOMAIN objTaskMap' = {} /\ UNCHANGED <<down, mixed>> /\ UpOwn'
  BY DEF ProxyRestart, UpOwn
<1> QED
  BY <1>2, <1>3, QueuesInPart

LEMMA ServerRestartAnswers ==
    ASSUME TaskInv, AnswerInv, NEW s \in Server, ServerRestart(s)
    PROVE  AnswerInv'
<1>1. PICK n \in 0..Len(pushq[s]) : pushq' = [pushq EXCEPT ![s] = SubSeq(pushq[s], n + 1, Len(pushq[s]))]
  BY DEF ServerRestart
<1>2. PICK o \in 0..Len(pullq[s]) : pullq' = [pullq EXCEPT ![s] = SubSeq(pullq[s], 1, o)]
  BY DEF ServerRestart
<1>3. pushq \in [Server -> Seq(Message)] /\ pullq \in [Server -> Seq(Reply)]
  BY DEF TaskInv, TypeOK
<1>4. /\ \A i \in DOMAIN pushq'[s] : \E j \in DOMAIN pushq[s] : pushq'[s][i] = pushq[s][j]
      /\ \A i \in DOMAIN pullq'[s] : \E j \in DOMAIN pullq[s] : pullq'[s][i] = pullq[s][j]
  <2>1. pushq[s] \in Seq(Message) /\ pullq[s] \in Seq(Reply) /\ Len(pushq[s]) \in Nat
    BY <1>3, LenProperties
  <2>2. pushq'[s] = SubSeq(pushq[s], n + 1, Len(pushq[s])) /\ pullq'[s] = SubSeq(pullq[s], 1, o)
    BY <1>1, <1>2, <1>3
  <2>3. \A i \in DOMAIN pushq'[s] :
            i + (n + 1) - 1 \in DOMAIN pushq[s] /\ pushq'[s][i] = pushq[s][i + (n + 1) - 1]
    BY <2>1, <2>2, PartElements
  <2>4. \A i \in DOMAIN pullq'[s] : i + 1 - 1 \in DOMAIN pullq[s] /\ pullq'[s][i] = pullq[s][i + 1 - 1]
    BY <2>1, <2>2, PartElements
  <2> QED
    BY <2>3, <2>4
<1>5. \A r \in Server : r # s => pushq'[r] = pushq[r] /\ pullq'[r] = pullq[r]
  BY <1>1, <1>2, <1>3
<1>6. UNCHANGED <<up, down, mixed, objTaskMap>>
  BY DEF ServerRestart
<1>7. UpOwn'
  BY <1>6 DEF AnswerInv, UpOwn
<1> QED
  BY <1>4, <1>5, <1>6, <1>7, QueuesInPart

LEMMA ProcessAnswers ==
    ASSUME TaskInv, AnswerInv, NEW s \in Server, ProcessMQMsg(s)
    PROVE  AnswerInv'
<1> DEFINE m    == Head(pushq[s])
           seen == IF m.req.kind = "get" THEN {w \in db[s] : w.key = m.req.key} ELSE {}
           r    == [pos |-> m.pos, ans |-> [req |-> m.req, seen |-> seen]]
<1>1. /\ pushq[s] # << >> /\ pushq' = [pushq EXCEPT ![s] = Tail(pushq[s])]
      /\ pullq' = [pullq EXCEPT ![s] = Enqueue(pullq[s], r)]
      /\ UNCHANGED <<up, down, mixed, objTaskMap>>
  BY DEF ProcessMQMsg
<1>2. /\ pushq \in [Server -> Seq(Message)] /\ pullq \in [Server -> Seq(Reply)]
      /\ db[s] \subseteq Request
  BY DEF TaskInv, TypeOK
<1>3. /\ m \in Message /\ 1 \in DOMAIN pushq[s] /\ m = pushq[s][1]
      /\ \A i \in DOMAIN Tail(pushq[s]) : i + 1 \in DOMAIN pushq[s] /\ Tail(pushq[s])[i] = pushq[s][i + 1]
  BY <1>1, <1>2, TailElements
<1>4. r \in Reply /\ r.pos = m.pos /\ r.ans.req = m.req
  BY <1>2, <1>3 DEF Reply, Answer, Message
<1> HIDE DEF m, r
<1>5. RequestsLead => RequestsLead'
  <2> SUFFICES ASSUME RequestsLead, NEW q \in Server, NEW i \in DOMAIN pushq'[q]
               PROVE  \E j \in DOMAIN pushq[q] : pushq'[q][i] = pushq[q][j]
    BY <1>1 DEF RequestsLead, Leads
  <2>1. CASE q # s
    BY <1>1, <1>2, <2>1
  <2>2. CASE q = s
    BY <1>1, <1>2, <1>3, <2>2
  <2> QED
    BY <2>1, <2>2
<1>6. RequestsLead /\ RepliesLead => RepliesLead'
  <2> SUFFICES ASSUME RequestsLead, RepliesLead, NEW q \in Server, NEW i \in DOMAIN pullq'[q]
               PROVE  Leads(pullq'[q][i].pos, pullq'[q][i].ans.req.conn)
    BY <1>1 DEF RepliesLead, Leads
  <2>1. CASE q # s
    BY <1>1, <1>2, <2>1 DEF RepliesLead
  <2>2. CASE q = s
    <3>1. pullq'[q] = Enqueue(pullq[s], r) /\ pullq[s] \in Seq(Reply)
      BY <1>1, <1>2, <2>2
    <3>2. \/ i \in DOMAIN pullq[s] /\ pullq'[q][i] = pullq[s][i]
          \/ pullq'[q][i] = r
      BY <1>4, <3>1, EnqueueElements
    <3>3. Leads(r.pos, r.ans.req.conn)
      BY <1>3, <1>4 DEF RequestsLead
    <3> QED
      BY <2>2, <3>2, <3>3 DEF RepliesLead
  <2> QED
    BY <2>1, <2>2
<1>7. UpOwn' /\ (DownOwn => DownOwn')
  BY <1>1 DEF AnswerInv, UpOwn, DownOwn
<1> QED
  BY <1>1, <1>5, <1>6, <1>7 DEF AnswerInv

LEMMA AnswerStep == TaskInv /\ AnswerInv /\ [Next]_vars => AnswerInv'
<1> SUFFICES ASSUME TaskInv, AnswerInv, [Next]_vars PROVE AnswerInv'
  OBVIOUS
<1>1. ASSUME NEW c \in Client, ClientNext(c)
      PROVE  AnswerInv'
  <2>1. CASE Connect(c) \/ GiveUp(c)
    BY <2>1, AnswersKept DEF Connect, GiveUp
  <2> QED
    BY <1>1, <2>1, ReceiveAnswers, SendAnswers DEF ClientNext
<1>2. CASE AcceptTask
  BY <1>2, AcceptAnswers
<1>3. CASE \E k \in Conn : HandleCmd(k) \/ SockEnd(k)
  BY <1>3, HandleCmdAnswers, SockEndAnswers
<1>4. CASE \E s \in Server : Deliver(s) \/ ProcessMQMsg(s) \/ ServerRestart(s)
  BY <1>4, DeliverAnswers, ProcessAnswers, ServerRestartAnswers
<1>5. CASE ProxyRestart
  BY <1>5, ProxyRestartAnswers
<1>6. CASE UNCHANGED vars
  BY <1>6, AnswersKept
<1> QED
  BY <1>1, <1>2, <1>3, <1>4, <1>5, <1>6 DEF Next

\* A connection is sent answers to its own requests, unless a position was
\* given to a new connection while a message still bore it.
THEOREM AnswersAreOwn == Spec => []AnswersReachAskers
<1>1. TaskInv /\ AnswerInv => AnswersReachAskers
  BY DEF AnswerInv, AnswersReachAskers, DownOwn
<1> QED
  BY <1>1, TaskInit, TaskStep, AnswerInit, AnswerStep, PTL DEF Spec

-----------------------------------------------------------------------------
(* The backlog.                                                             *)

LEMMA BacklogStep == BacklogAnnounced /\ [Next]_vars => BacklogAnnounced'
<1> SUFFICES ASSUME BacklogAnnounced, [Next]_vars PROVE BacklogAnnounced'
  OBVIOUS
<1>1. ASSUME UNCHANGED <<pc, backlog, listenReady, bailed>>
      PROVE  BacklogAnnounced'
  BY <1>1 DEF BacklogAnnounced
<1>2. CASE \E c \in Client : ClientNext(c)
  <2>1. PICK c \in Client : ClientNext(c)
    BY <1>2
  <2>2. CASE Connect(c)
    BY <2>2 DEF Connect, Open, BacklogAnnounced
  <2>3. CASE Receive(c) \/ GiveUp(c)
    BY <1>1, <2>3 DEF Receive, GiveUp, proxy
  <2>4. CASE \E ask \in Asks : Send(c, ask[1], ask[2])
    <3>1. UNCHANGED <<pc, bailed>> /\ (UNCHANGED <<backlog, listenReady>> \/ listenReady')
      BY <2>4 DEF Send, Open
    <3> QED
      BY <3>1 DEF BacklogAnnounced
  <2> QED
    BY <2>1, <2>2, <2>3, <2>4 DEF ClientNext
<1>3. CASE AcceptTask
  BY <1>3 DEF AcceptTask, AcceptBegin, AcceptOne, AcceptBreaks, AcceptFails, AcceptNone,
              GoesOn, BacklogAnnounced
<1>4. CASE \E k \in Conn : HandleCmd(k) \/ SockEnd(k)
  BY <1>1, <1>4 DEF HandleCmd, SockEnd, proxy
<1>5. CASE \E s \in Server : Deliver(s) \/ ProcessMQMsg(s) \/ ServerRestart(s)
  BY <1>1, <1>5 DEF Deliver, ProcessMQMsg, ServerRestart, proxy
<1>6. CASE ProxyRestart
  BY <1>6 DEF ProxyRestart, BacklogAnnounced
<1>7. CASE UNCHANGED vars
  BY <1>1, <1>7 DEF vars, proxy
<1> QED
  BY <1>2, <1>3, <1>4, <1>5, <1>6, <1>7 DEF Next

\* A connection that waits for accept has an event coming, or AcceptTask left
\* its loop early.
THEOREM BacklogIsAnnounced == Spec => []BacklogAnnounced
<1>1. Init => BacklogAnnounced
  BY DEF Init, BacklogAnnounced
<1> QED
  BY <1>1, BacklogStep, PTL DEF Spec

-----------------------------------------------------------------------------
(* Queues.                                                                  *)

NoneIn(q, X) == \A s \in Server : \A i \in DOMAIN q[s] : q[s][i] \notin X

OneIn(q, X) ==
    \A s, t \in Server : \A i \in DOMAIN q[s], j \in DOMAIN q[t] :
        q[s][i] \in X /\ q[t][j] \in X => s = t /\ i = j

\* Each queue of p is a stretch of the one of q.
Stretch(p, q) ==
    \A s \in Server : \E d \in Nat : \A i \in DOMAIN p[s] :
        i \in Nat /\ i + d \in DOMAIN q[s] /\ p[s][i] = q[s][i + d]

LEMMA StretchKeeps ==
    ASSUME NEW p, NEW q, NEW X, Stretch(p, q)
    PROVE  /\ NoneIn(q, X) => NoneIn(p, X)
           /\ OneIn(q, X) => OneIn(p, X)
<1>1. NoneIn(q, X) => NoneIn(p, X)
  BY DEF NoneIn, Stretch
<1>2. OneIn(q, X) => OneIn(p, X)
  <2> SUFFICES ASSUME OneIn(q, X), NEW s \in Server, NEW t \in Server,
                      NEW i \in DOMAIN p[s], NEW j \in DOMAIN p[t],
                      p[s][i] \in X, p[t][j] \in X
               PROVE  s = t /\ i = j
    BY DEF OneIn
  <2>1. PICK d \in Nat : \A n \in DOMAIN p[s] :
            n \in Nat /\ n + d \in DOMAIN q[s] /\ p[s][n] = q[s][n + d]
    BY DEF Stretch
  <2>2. PICK e \in Nat : \A n \in DOMAIN p[t] :
            n \in Nat /\ n + e \in DOMAIN q[t] /\ p[t][n] = q[t][n + e]
    BY DEF Stretch
  <2>3. s = t
    BY <2>1, <2>2 DEF OneIn
  <2>4. j + d \in DOMAIN q[s] /\ p[s][j] = q[s][j + d] /\ i \in Nat /\ j \in Nat
    BY <2>1, <2>3
  <2>5. i + d = j + d
    BY <2>1, <2>3, <2>4 DEF OneIn
  <2> QED
    BY <2>3, <2>4, <2>5
<1> QED
  BY <1>1, <1>2

\* What adding m to a queue of q leaves true.
Put(p, q, m) ==
    \A X : /\ m \notin X /\ NoneIn(q, X) => NoneIn(p, X)
           /\ m \notin X /\ OneIn(q, X) => OneIn(p, X)
           /\ NoneIn(q, X) => OneIn(p, X)

LEMMA PutOne ==
    ASSUME NEW S, NEW q \in [Server -> Seq(S)], NEW s \in Server, NEW m \in S,
           NEW p, p = [q EXCEPT ![s] = Enqueue(q[s], m)]
    PROVE  Put(p, q, m)
<1> SUFFICES ASSUME NEW X
             PROVE  /\ m \notin X /\ NoneIn(q, X) => NoneIn(p, X)
                    /\ m \notin X /\ OneIn(q, X) => OneIn(p, X)
                    /\ NoneIn(q, X) => OneIn(p, X)
  BY DEF Put
<1>1. \A r \in Server : r # s => p[r] = q[r]
  OBVIOUS
<1>2. p[s] = Enqueue(q[s], m) /\ q[s] \in Seq(S)
  OBVIOUS
<1>3. \A i \in DOMAIN p[s] :
        \/ i \in DOMAIN q[s] /\ p[s][i] = q[s][i]
        \/ i = Len(q[s]) + 1 /\ p[s][i] = m
  BY <1>2, AppendProperties, LenProperties DEF Enqueue
<1>4. \A r \in Server : \A i \in DOMAIN p[r] :
        \/ i \in DOMAIN q[r] /\ p[r][i] = q[r][i]
        \/ r = s /\ i = Len(q[s]) + 1 /\ p[r][i] = m
  BY <1>1, <1>3
<1>5. m \notin X /\ NoneIn(q, X) => NoneIn(p, X)
  BY <1>4 DEF NoneIn
<1>6. m \notin X /\ OneIn(q, X) => OneIn(p, X)
  <2> SUFFICES ASSUME m \notin X, OneIn(q, X), NEW r \in Server, NEW t \in Server,
                      NEW i \in DOMAIN p[r], NEW j \in DOMAIN p[t],
                      p[r][i] \in X, p[t][j] \in X
               PROVE  r = t /\ i = j
    BY DEF OneIn
  <2>1. /\ i \in DOMAIN q[r] /\ p[r][i] = q[r][i]
        /\ j \in DOMAIN q[t] /\ p[t][j] = q[t][j]
    BY <1>4
  <2> QED
    BY <2>1 DEF OneIn
<1>7. NoneIn(q, X) => OneIn(p, X)
  <2> SUFFICES ASSUME NoneIn(q, X), NEW r \in Server, NEW t \in Server,
                      NEW i \in DOMAIN p[r], NEW j \in DOMAIN p[t],
                      p[r][i] \in X, p[t][j] \in X
               PROVE  r = t /\ i = j
    BY DEF OneIn
  <2>1. r = s /\ i = Len(q[s]) + 1
    BY <1>4 DEF NoneIn
  <2>2. t = s /\ j = Len(q[s]) + 1
    BY <1>4 DEF NoneIn
  <2> QED
    BY <2>1, <2>2
<1> QED
  BY <1>5, <1>6, <1>7

LEMMA TakeOne ==
    ASSUME NEW S, NEW q \in [Server -> Seq(S)], NEW s \in Server, q[s] # << >>,
           NEW p, p = [q EXCEPT ![s] = Tail(q[s])]
    PROVE  /\ Stretch(p, q)
           /\ \A X : OneIn(q, X) /\ Head(q[s]) \in X => NoneIn(p, X)
<1>1. /\ \A r \in Server : r # s => p[r] = q[r] /\ q[r] \in Seq(S)
      /\ p[s] = Tail(q[s]) /\ q[s] \in Seq(S)
  OBVIOUS
<1>2. /\ 1 \in DOMAIN q[s] /\ Head(q[s]) = q[s][1] /\ Tail(q[s]) \in Seq(S)
      /\ \A i \in DOMAIN Tail(q[s]) : i + 1 \in DOMAIN q[s] /\ Tail(q[s])[i] = q[s][i + 1]
  BY <1>1, TailElements
<1>3. \A i \in DOMAIN p[s] : i \in Nat /\ i >= 1
  BY <1>1, <1>2, LenProperties
<1>4. \A r \in Server : r # s => \A i \in DOMAIN p[r] : i \in Nat /\ i + 0 = i
  BY <1>1, LenProperties
<1>5. Stretch(p, q)
  <2> SUFFICES ASSUME NEW r \in Server
               PROVE  \E d \in Nat : \A i \in DOMAIN p[r] :
                        i \in Nat /\ i + d \in DOMAIN q[r] /\ p[r][i] = q[r][i + d]
    BY DEF Stretch
  <2>1. CASE r = s
    <3> WITNESS 1 \in Nat
    <3> QED
      BY <1>1, <1>2, <1>3, <2>1
  <2>2. CASE r # s
    <3> WITNESS 0 \in Nat
    <3> QED
      BY <1>1, <1>4, <2>2
  <2> QED
    BY <2>1, <2>2
<1>6. ASSUME NEW X, OneIn(q, X), Head(q[s]) \in X, NEW r \in Server, NEW i \in DOMAIN p[r], p[r][i] \in X
      PROVE  FALSE
  <2>1. CASE r = s
    <3>1. i + 1 \in DOMAIN q[s] /\ q[s][i + 1] \in X /\ i \in Nat /\ i >= 1
      BY <1>1, <1>2, <1>3, <1>6, <2>1
    <3>2. i + 1 = 1
      BY <1>2, <1>6, <3>1 DEF OneIn
    <3> QED
      BY <3>1, <3>2
  <2>2. CASE r # s
    BY <1>1, <1>2, <1>6, <2>2 DEF OneIn
  <2> QED
    BY <2>1, <2>2
<1> QED
  BY <1>5, <1>6 DEF NoneIn

\* The pieces of an answer put behind what was there.
LEMMA PiecesBehind ==
    ASSUME NEW q \in Seq(Piece), NEW r \in Seq(Piece), Len(r) = 2, NEW a,
           \A i \in 1..2 : r[i].ans = a
    PROVE  \A i \in DOMAIN (q \o r) :
                (\E j \in DOMAIN q : (q \o r)[i] = q[j]) \/ (q \o r)[i].ans = a
<1> SUFFICES ASSUME NEW i \in DOMAIN (q \o r)
             PROVE  (\E j \in DOMAIN q : (q \o r)[i] = q[j]) \/ (q \o r)[i].ans = a
  OBVIOUS
<1>1. /\ q \o r \in Seq(Piece) /\ Len(q) \in Nat
      /\ Len(q \o r) = Len(q) + Len(r)
      /\ \A n \in 1..Len(q) + Len(r) :
            (q \o r)[n] = IF n <= Len(q) THEN q[n] ELSE r[n - Len(q)]
  BY ConcatProperties, LenProperties
<1>2. DOMAIN (q \o r) = 1..Len(q) + 2 /\ DOMAIN q = 1..Len(q)
  BY <1>1, LenProperties
<1>3. CASE i <= Len(q)
  BY <1>1, <1>2, <1>3
<1>4. CASE i > Len(q)
  <2>1. i - Len(q) \in 1..2
    BY <1>1, <1>2, <1>4
  <2> QED
    BY <1>1, <1>2, <1>4, <2>1
<1> QED
  BY <1>1, <1>2, <1>3, <1>4

-----------------------------------------------------------------------------
(* What is under way for a connection.                                      *)

RequestsOn(k, R) == {m \in Message : m.req.conn = k /\ m.req \notin R}

RepliesOn(k, R) == {m \in Reply : m.ans.req.conn = k /\ m.ans.req \notin R}

\* Only requests of R and answers to them.
On(k, R) ==
    /\ up[k] \in R \cup {NONE}
    /\ NoneIn(pushq, RequestsOn(k, R)) /\ NoneIn(pullq, RepliesOn(k, R))
    /\ \A i \in DOMAIN down[k] : down[k][i].ans.req \in R

\* One thing, in one place, and an answer has both its pieces.
Single(k) ==
    /\ OneIn(pushq, RequestsOn(k, {})) /\ OneIn(pullq, RepliesOn(k, {}))
    /\ up[k] # NONE =>
        NoneIn(pushq, RequestsOn(k, {})) /\ NoneIn(pullq, RepliesOn(k, {})) /\ down[k] = << >>
    /\ \/ NoneIn(pushq, RequestsOn(k, {}))
       \/ NoneIn(pullq, RepliesOn(k, {})) /\ down[k] = << >>
    /\ NoneIn(pullq, RepliesOn(k, {})) \/ down[k] = << >>
    /\ down[k] # << >> => Len(down[k]) = 2 /\ Whole(down[k])

Kept(k) == (\A R : On(k, R) => On(k, R)') /\ (Single(k) => Single(k)')

LEMMA LessKept ==
    ASSUME Stretch(pushq', pushq), Stretch(pullq', pullq), NEW k \in Conn,
           up'[k] \in {up[k], NONE}, down'[k] \in {down[k], << >>}
    PROVE  Kept(k)
<1>1. DOMAIN << >> = {}
  OBVIOUS
<1>2. \A X : /\ NoneIn(pushq, X) => NoneIn(pushq', X)
             /\ NoneIn(pullq, X) => NoneIn(pullq', X)
             /\ OneIn(pushq, X) => OneIn(pushq', X)
             /\ OneIn(pullq, X) => OneIn(pullq', X)
  BY StretchKeeps
<1>3. \A R : On(k, R) => On(k, R)'
  BY <1>1, <1>2 DEF On
<1>4. Single(k) => Single(k)'
  BY <1>2 DEF Single, Whole
<1> QED
  BY <1>3, <1>4 DEF Kept

LEMMA SameStretch ==
    ASSUME TypeOK
    PROVE  Stretch(pushq, pushq) /\ Stretch(pullq, pullq)
<1>1. \A s \in Server : pushq[s] \in Seq(Message) /\ pullq[s] \in Seq(Reply)
  BY DEF TypeOK
<1>2. ASSUME NEW s \in Server
      PROVE  /\ \A i \in DOMAIN pushq[s] : i \in Nat /\ i + 0 = i
             /\ \A i \in DOMAIN pullq[s] : i \in Nat /\ i + 0 = i
  BY <1>1, LenProperties
<1>3. 0 \in Nat
  OBVIOUS
<1> QED
  BY <1>2, <1>3 DEF Stretch

\* Steps that neither read nor send.
LEMMA IdleKept ==
    ASSUME TypeOK, UNCHANGED <<up, down, pushq, pullq>>, NEW k \in Conn
    PROVE  Kept(k)
BY SameStretch, LessKept

LEMMA HandleCmdKept ==
    ASSUME TaskInv, AnswerInv, NEW j \in Conn, HandleCmd(j), NEW k \in Conn
    PROVE  Kept(k)
<1>1. j = objTaskMap[epos[j]] /\ epos[j] \in DOMAIN objTaskMap
  BY DEF HandleCmd, TaskInv, TasksFound
<1> DEFINE s == GetIndex(up[j].key)
           m == [pos |-> epos[j], req |-> up[j]]
<1>2. /\ up[j] # NONE /\ up' = [up EXCEPT ![j] = NONE]
      /\ pushq' = [pushq EXCEPT ![s] = Enqueue(pushq[s], m)]
      /\ UNCHANGED <<down, pullq>>
  BY <1>1 DEF HandleCmd, Position
<1>3. up[j] \in Request /\ up[j].conn = j /\ up \in [Conn -> Request \cup {NONE}]
  BY <1>2 DEF AnswerInv, UpOwn, TaskInv, TypeOK
<1>4. s \in Server /\ pushq \in [Server -> Seq(Message)]
  BY <1>3, IndexType DEF Request, TaskInv, TypeOK
<1>5. m \in Message /\ m.req = up[j]
  BY <1>3 DEF Message, TaskInv, TypeOK
<1> HIDE DEF s, m
<1>6. \A X : /\ m \notin X /\ NoneIn(pushq, X) => NoneIn(pushq', X)
             /\ m \notin X /\ OneIn(pushq, X) => OneIn(pushq', X)
             /\ NoneIn(pushq, X) => OneIn(pushq', X)
  <2>1. Put(pushq', pushq, m)
    BY <1>2, <1>4, <1>5, PutOne
  <2> QED
    BY <2>1 DEF Put
<1>7. up'[j] = NONE /\ (k # j => up'[k] = up[k])
  BY <1>2, <1>3
<1>8. ASSUME NEW R, On(k, R) PROVE On(k, R)'
  <2>1. m \notin RequestsOn(k, R)
    BY <1>2, <1>3, <1>5, <1>8 DEF RequestsOn, On
  <2> QED
    BY <1>2, <1>6, <1>7, <1>8, <2>1 DEF On
<1>9. ASSUME Single(k) PROVE Single(k)'
  <2>1. CASE k = j
    BY <1>2, <1>6, <1>7, <1>9, <2>1 DEF Single, Whole
  <2>2. CASE k # j
    <3>1. m \notin RequestsOn(k, {})
      BY <1>3, <1>5, <2>2 DEF RequestsOn
    <3> QED
      BY <1>2, <1>6, <1>7, <1>9, <2>2, <3>1 DEF Single, Whole
  <2> QED
    BY <2>1, <2>2
<1> QED
  BY <1>8, <1>9 DEF Kept

LEMMA ProcessKept ==
    ASSUME TypeOK, NEW s \in Server, ProcessMQMsg(s), NEW k \in Conn
    PROVE  Kept(k)
<1> DEFINE m    == Head(pushq[s])
           seen == IF m.req.kind = "get" THEN {w \in db[s] : w.key = m.req.key} ELSE {}
           r    == [pos |-> m.pos, ans |-> [req |-> m.req, seen |-> seen]]
<1>1. /\ pushq[s] # << >> /\ pushq' = [pushq EXCEPT ![s] = Tail(pushq[s])]
      /\ pullq' = [pullq EXCEPT ![s] = Enqueue(pullq[s], r)]
      /\ UNCHANGED <<up, down>>
  BY DEF ProcessMQMsg
<1>2. /\ pushq \in [Server -> Seq(Message)] /\ pullq \in [Server -> Seq(Reply)]
      /\ pushq[s] \in Seq(Message) /\ db[s] \subseteq Request
  BY DEF TypeOK
<1>3. m \in Message /\ 1 \in DOMAIN pushq[s] /\ m = pushq[s][1]
  BY <1>1, <1>2, TailElements
<1>4. r \in Reply /\ r.ans.req = m.req
  BY <1>2, <1>3 DEF Reply, Answer, Message
<1> HIDE DEF m, r
<1>5. Stretch(pushq', pushq) /\ \A X : OneIn(pushq, X) /\ m \in X => NoneIn(pushq', X)
  BY <1>1, <1>2, TakeOne DEF m
<1>6. \A X : (NoneIn(pushq, X) => NoneIn(pushq', X)) /\ (OneIn(pushq, X) => OneIn(pushq', X))
  BY <1>5, StretchKeeps
<1>7. \A X : /\ r \notin X /\ NoneIn(pullq, X) => NoneIn(pullq', X)
             /\ r \notin X /\ OneIn(pullq, X) => OneIn(pullq', X)
             /\ NoneIn(pullq, X) => OneIn(pullq', X)
  <2>1. Put(pullq', pullq, r)
    BY <1>1, <1>2, <1>4, PutOne
  <2> QED
    BY <2>1 DEF Put
<1>8. \A X : NoneIn(pushq, X) => m \notin X
  BY <1>3 DEF NoneIn
<1>9. ASSUME NEW R, On(k, R) PROVE On(k, R)'
  <2>1. m \notin RequestsOn(k, R)
    BY <1>8, <1>9 DEF On
  <2>2. r \notin RepliesOn(k, R)
    BY <1>3, <1>4, <2>1 DEF RequestsOn, RepliesOn
  <2> QED
    BY <1>1, <1>6, <1>7, <1>9, <2>2 DEF On
<1>10. ASSUME Single(k) PROVE Single(k)'
  <2>1. CASE m.req.conn = k
    <3>1. m \in RequestsOn(k, {})
      BY <1>3, <2>1 DEF RequestsOn
    <3>2. /\ up[k] = NONE /\ down[k] = << >> /\ NoneIn(pullq, RepliesOn(k, {}))
          /\ NoneIn(pushq', RequestsOn(k, {})) /\ OneIn(pushq', RequestsOn(k, {}))
      BY <1>5, <1>6, <1>8, <1>10, <3>1 DEF Single
    <3> QED
      BY <1>1, <1>7, <3>2 DEF Single
  <2>2. CASE m.req.conn # k
    <3>1. r \notin RepliesOn(k, {})
      BY <1>4, <2>2 DEF RepliesOn
    <3> QED
      BY <1>1, <1>6, <1>7, <1>10, <3>1 DEF Single, Whole
  <2> QED
    BY <2>1, <2>2
<1> QED
  BY <1>9, <1>10 DEF Kept

LEMMA DeliverKept ==
    ASSUME TaskInv, AnswerInv, ~ mixed, NEW s \in Server, Deliver(s), NEW k \in Conn
    PROVE  Kept(k)
<1> DEFINE m == Head(pullq[s])
<1>1. /\ pullq[s] # << >> /\ pullq' = [pullq EXCEPT ![s] = Tail(pullq[s])]
      /\ UNCHANGED <<up, pushq>>
  BY DEF Deliver
<1>2. /\ pullq \in [Server -> Seq(Reply)] /\ pullq[s] \in Seq(Reply)
      /\ down \in [Conn -> Seq(Piece)]
  BY DEF TaskInv, TypeOK
<1>3. m \in Reply /\ 1 \in DOMAIN pullq[s] /\ m = pullq[s][1]
  BY <1>1, <1>2, TailElements
<1> HIDE DEF m
<1>4. Stretch(pullq', pullq) /\ \A X : OneIn(pullq, X) /\ m \in X => NoneIn(pullq', X)
  BY <1>1, <1>2, TakeOne DEF m
<1>5. Stretch(pushq', pushq)
  BY <1>1, SameStretch DEF TaskInv
<1>6. CASE down'[k] = down[k]
  BY <1>1, <1>4, <1>5, <1>6, LessKept
<1>7. CASE down'[k] # down[k]
  <2>1. m.pos \in DOMAIN objTaskMap /\ OnMQRecv(objTaskMap[m.pos], m.ans)
    BY <1>7 DEF Deliver, m
  <2> DEFINE t      == objTaskMap[m.pos]
             pieces == <<[ans |-> m.ans, part |-> "first"], [ans |-> m.ans, part |-> "last"]>>
  <2>2. t \in Conn /\ m.ans.req.conn = t
    BY <1>3, <2>1, TaskType DEF AnswerInv, RepliesLead, Leads, TaskInv
  <2>3. pieces \in Seq(Piece) /\ Len(pieces) = 2 /\ \A i \in 1..2 : pieces[i].ans = m.ans
    BY <1>3 DEF Reply, Piece
  <2>4. Whole(pieces)
    BY <2>3 DEF Whole
  <2>5. down' = [down EXCEPT ![t] = down[t] \o pieces] \/ UNCHANGED down
    BY <2>1 DEF OnMQRecv
  <2> HIDE DEF t, pieces
  <2>6. k = t /\ down'[k] = down[k] \o pieces /\ down[k] \in Seq(Piece)
    BY <1>2, <1>7, <2>2, <2>5
  <2>7. \A X : (NoneIn(pullq, X) => NoneIn(pullq', X)) /\ (NoneIn(pullq, X) => m \notin X)
    BY <1>3, <1>4, StretchKeeps DEF NoneIn
  <2>8. ASSUME NEW R, On(k, R) PROVE On(k, R)'
    <3>1. m.ans.req \in R
      BY <1>3, <2>2, <2>6, <2>7, <2>8 DEF On, RepliesOn
    <3>2. ASSUME NEW i \in DOMAIN down'[k] PROVE down'[k][i].ans.req \in R
      <4>1. (\E n \in DOMAIN down[k] : down'[k][i] = down[k][n]) \/ down'[k][i].ans = m.ans
        <5>1. \A h \in DOMAIN (down[k] \o pieces) :
                (\E n \in DOMAIN down[k] : (down[k] \o pieces)[h] = down[k][n])
                \/ (down[k] \o pieces)[h].ans = m.ans
          <6>1. down[k] \in Seq(Piece)
            BY <2>6
          <6> QED
            BY <2>3, <6>1, PiecesBehind, SMTT(30)
        <5> QED
          BY <2>6, <3>2, <5>1
      <4> QED
        BY <2>8, <3>1, <4>1 DEF On
    <3> QED
      BY <1>1, <2>7, <2>8, <3>2 DEF On
  <2>9. ASSUME Single(k) PROVE Single(k)'
    <3>1. m \in RepliesOn(k, {})
      BY <1>3, <2>2, <2>6 DEF RepliesOn
    <3>2. /\ up[k] = NONE /\ down[k] = << >> /\ NoneIn(pushq, RequestsOn(k, {}))
          /\ NoneIn(pullq', RepliesOn(k, {}))
      BY <1>4, <2>7, <2>9, <3>1 DEF Single
    <3>3. down'[k] = pieces
      BY <2>3, <2>6, <3>2, ConcatEmptySeq
    <3>4. OneIn(pushq, RequestsOn(k, {})) /\ OneIn(pullq', RepliesOn(k, {}))
      BY <1>4, <2>9, StretchKeeps DEF Single
    <3> QED
      BY <1>1, <2>3, <2>4, <3>2, <3>3, <3>4 DEF Single, Whole
  <2> QED
    BY <2>8, <2>9 DEF Kept
<1> QED
  BY <1>6, <1>7

LEMMA StretchPart ==
    ASSUME NEW S, NEW q \in [Server -> Seq(S)], NEW p,
           NEW b \in [Server -> Nat], NEW e \in [Server -> Nat],
           \A s \in Server : /\ b[s] <= Len(q[s]) /\ e[s] <= Len(q[s])
                             /\ p[s] = SubSeq(q[s], b[s] + 1, e[s]) /\ b[s] <= e[s]
    PROVE  Stretch(p, q)
<1> SUFFICES ASSUME NEW s \in Server
             PROVE  \E d \in Nat : \A i \in DOMAIN p[s] :
                        i \in Nat /\ i + d \in DOMAIN q[s] /\ p[s][i] = q[s][i + d]
  BY DEF Stretch
<1>1. /\ q[s] \in Seq(S) /\ b[s] \in Nat /\ e[s] \in Nat /\ Len(q[s]) \in Nat
      /\ b[s] <= Len(q[s]) /\ e[s] <= Len(q[s]) /\ b[s] <= e[s]
      /\ p[s] = SubSeq(q[s], b[s] + 1, e[s])
  BY LenProperties
<1>2. b[s] + 1 \in 1..Len(q[s]) + 1 /\ e[s] \in (b[s] + 1) - 1..Len(q[s])
  BY <1>1
<1>3. /\ p[s] \in Seq(S)
      /\ \A i \in DOMAIN p[s] : i + (b[s] + 1) - 1 \in DOMAIN q[s] /\ p[s][i] = q[s][i + (b[s] + 1) - 1]
  BY <1>1, <1>2, SMTT(20), PartElements
<1>4. \A i \in DOMAIN p[s] : i \in Nat /\ i + (b[s] + 1) - 1 = i + b[s]
  BY <1>1, <1>3, LenProperties
<1> QED
  BY <1>1, <1>3, <1>4

LEMMA ProxyRestartStretch ==
    ASSUME TypeOK, ProxyRestart
    PROVE  Stretch(pushq', pushq) /\ Stretch(pullq', pullq)
<1>1. PICK n, o \in [Server -> 0..Cap] :
        /\ \A s \in Server : n[s] <= Len(pushq[s]) /\ o[s] <= Len(pullq[s])
        /\ pushq' = [s \in Server |-> SubSeq(pushq[s], 1, n[s])]
        /\ pullq' = [s \in Server |-> SubSeq(pullq[s], o[s] + 1, Len(pullq[s]))]
  BY DEF ProxyRestart
<1>2. /\ pushq \in [Server -> Seq(Message)] /\ pullq \in [Server -> Seq(Reply)]
      /\ n \in [Server -> Nat] /\ o \in [Server -> Nat]
      /\ \A s \in Server : Len(pushq[s]) \in Nat /\ Len(pullq[s]) \in Nat
  BY ConstantAssumption, LenProperties DEF TypeOK
<1>3. Stretch(pushq', pushq)
  <2> DEFINE z == [s \in Server |-> 0]
  <2>1. \A s \in Server : /\ z[s] <= Len(pushq[s]) /\ n[s] <= Len(pushq[s])
                          /\ pushq'[s] = SubSeq(pushq[s], z[s] + 1, n[s]) /\ z[s] <= n[s]
    BY <1>1, <1>2
  <2>2. z \in [Server -> Nat]
    OBVIOUS
  <2> HIDE DEF z
  <2> QED
    BY <1>2, <2>1, <2>2, StretchPart
<1>4. Stretch(pullq', pullq)
  <2> DEFINE l == [s \in Server |-> Len(pullq[s])]
  <2>1. \A s \in Server : /\ o[s] <= Len(pullq[s]) /\ l[s] <= Len(pullq[s])
                          /\ pullq'[s] = SubSeq(pullq[s], o[s] + 1, l[s]) /\ o[s] <= l[s]
    <3>1. \A s \in Server : l[s] = Len(pullq[s])
      OBVIOUS
    <3> HIDE DEF l
    <3>2. \A s \in Server : pullq'[s] = SubSeq(pullq[s], o[s] + 1, l[s]) /\ o[s] <= l[s]
      BY <1>1, <3>1
    <3> QED
      BY <1>2, <3>1, <3>2
  <2>2. l \in [Server -> Nat]
    BY <1>2
  <2> HIDE DEF l
  <2> QED
    BY <1>2, <2>1, <2>2, StretchPart
<1> QED
  BY <1>3, <1>4

LEMMA ServerRestartStretch ==
    ASSUME TypeOK, NEW r \in Server, ServerRestart(r)
    PROVE  Stretch(pushq', pushq) /\ Stretch(pullq', pullq)
<1>1. PICK n \in 0..Len(pushq[r]) : pushq' = [pushq EXCEPT ![r] = SubSeq(pushq[r], n + 1, Len(pushq[r]))]
  BY DEF ServerRestart
<1>2. PICK o \in 0..Len(pullq[r]) : pullq' = [pullq EXCEPT ![r] = SubSeq(pullq[r], 1, o)]
  BY DEF ServerRestart
<1>3. /\ pushq \in [Server -> Seq(Message)] /\ pullq \in [Server -> Seq(Reply)]
      /\ \A s \in Server : /\ Len(pushq[s]) \in Nat /\ Len(pullq[s]) \in Nat
                           /\ pushq[s] \in Seq(Message) /\ pullq[s] \in Seq(Reply)
  BY LenProperties DEF TypeOK
<1>4. \A s \in Server : SubSeq(pushq[s], 1, Len(pushq[s])) = pushq[s]
                        /\ SubSeq(pullq[s], 1, Len(pullq[s])) = pullq[s]
  BY <1>3, SubSeqFull
<1>5. Stretch(pushq', pushq)
  <2> DEFINE b == [s \in Server |-> IF s = r THEN n ELSE 0]
             l == [s \in Server |-> Len(pushq[s])]
  <2>1. \A s \in Server : /\ b[s] <= Len(pushq[s]) /\ l[s] <= Len(pushq[s])
                          /\ pushq'[s] = SubSeq(pushq[s], b[s] + 1, l[s]) /\ b[s] <= l[s]
    BY <1>1, <1>3, <1>4
  <2>2. b \in [Server -> Nat] /\ l \in [Server -> Nat]
    BY <1>1, <1>3
  <2> HIDE DEF b, l
  <2> QED
    BY <1>3, <2>1, <2>2, StretchPart
<1>6. Stretch(pullq', pullq)
  <2> DEFINE z == [s \in Server |-> 0]
             e == [s \in Server |-> IF s = r THEN o ELSE Len(pullq[s])]
  <2>1. \A s \in Server : /\ z[s] <= Len(pullq[s]) /\ e[s] <= Len(pullq[s])
                          /\ pullq'[s] = SubSeq(pullq[s], z[s] + 1, e[s]) /\ z[s] <= e[s]
    BY <1>2, <1>3, <1>4
  <2>2. z \in [Server -> Nat] /\ e \in [Server -> Nat]
    BY <1>2, <1>3
  <2> HIDE DEF z, e
  <2> QED
    BY <1>3, <2>1, <2>2, StretchPart
<1> QED
  BY <1>5, <1>6

-----------------------------------------------------------------------------
(* What a client has to expect.                                             *)

Unopened == \A c \in Client, i \in 1..MaxConn : i > cli[c].conn => On(<<c, i>>, {})

Singles == \A k \in Conn \ split : Single(k)

\* Where the client could send again on its connection, nothing is under way.
Attended(c) ==
    /\ On(Using(c), {cli[c].req})
    /\ ~ cli[c].busy /\ cli[c].ok => On(Using(c), {})

Attending == \A c \in Client : cli[c].conn > 0 /\ Using(c) \notin split => Attended(c)

OwnInv == ~ mixed => Unopened /\ Singles /\ Attending /\ AcceptedIsOwn

LEMMA OwnInit == Init => OwnInv
<1> SUFFICES ASSUME Init PROVE OwnInv
  OBVIOUS
<1>1. /\ \A s \in Server : pushq[s] = << >> /\ pullq[s] = << >>
      /\ \A k \in Conn : up[k] = NONE /\ down[k] = << >>
      /\ \A c \in Client : cli[c].conn = 0 /\ cli[c].got = NONE
      /\ DOMAIN << >> = {}
  BY DEF Init
<1>2. \A X : NoneIn(pushq, X) /\ NoneIn(pullq, X) /\ OneIn(pushq, X) /\ OneIn(pullq, X)
  BY <1>1 DEF NoneIn, OneIn
<1>3. \A k \in Conn : On(k, {}) /\ Single(k)
  BY <1>1, <1>2 DEF On, Single
<1>4. Unopened /\ Singles
  BY <1>3 DEF Unopened, Singles, Conn
<1> QED
  BY <1>1, <1>4 DEF OwnInv, Attending, AcceptedIsOwn

LEMMA UsingConn ==
    ASSUME TypeOK, NEW c \in Client, cli[c].conn > 0
    PROVE  Using(c) \in Conn
<1>1. cli[c].conn \in 0..MaxConn /\ MaxConn \in Nat
  BY ConstantAssumption DEF TypeOK, ClientState
<1> QED
  BY <1>1 DEF Using, Conn

LEMMA AttendedKept ==
    ASSUME NEW c \in Client, Attended(c), NEW k, k = Using(c), Kept(k),
           cli'[c].conn = cli[c].conn, cli'[c].req = cli[c].req,
           ~ cli'[c].busy /\ cli'[c].ok => ~ cli[c].busy /\ cli[c].ok
    PROVE  Attended(c)'
<1>1. PICK r : r = cli[c].req
  OBVIOUS
<1>2. On(k, {r}) /\ (~ cli[c].busy /\ cli[c].ok => On(k, {}))
  BY <1>1 DEF Attended
<1>3. On(k, {r})' /\ (~ cli[c].busy /\ cli[c].ok => On(k, {})')
  BY <1>2 DEF Kept
<1>4. Using(c)' = k /\ cli'[c].req = r
  BY <1>1 DEF Using
<1> QED
  BY <1>3, <1>4 DEF Attended, On

\* Steps the clients have no part in.
LEMMA OwnKept ==
    ASSUME TypeOK, OwnInv, UNCHANGED <<cli, split>>, ~ mixed' => ~ mixed,
           ~ mixed' => \A k \in Conn : Kept(k)
    PROVE  OwnInv'
<1> SUFFICES ASSUME ~ mixed' PROVE (Unopened /\ Singles /\ Attending /\ AcceptedIsOwn)'
  BY DEF OwnInv
<1>1. Unopened /\ Singles /\ Attending /\ AcceptedIsOwn /\ ~ mixed
  BY DEF OwnInv
<1>2. \A k \in Conn : (On(k, {}) => On(k, {})') /\ (Single(k) => Single(k)')
  BY DEF Kept
<1>3. Unopened'
  BY <1>1, <1>2 DEF Unopened, Conn
<1>4. Singles'
  BY <1>1, <1>2 DEF Singles
<1>5. Attending'
  <2> SUFFICES ASSUME NEW c \in Client, cli'[c].conn > 0, Using(c)' \notin split'
               PROVE  Attended(c)'
    BY DEF Attending
  <2>1. PICK k : k = Using(c)
    OBVIOUS
  <2>2. k \in Conn /\ Attended(c)
    BY <1>1, <2>1, UsingConn DEF Attending, Using
  <2> QED
    BY <2>1, <2>2, AttendedKept
<1>6. AcceptedIsOwn'
  BY <1>1 DEF AcceptedIsOwn, Using
<1> QED
  BY <1>3, <1>4, <1>5, <1>6

LEMMA ConnectOwn ==
    ASSUME TypeOK, OwnInv, NEW c \in Client, Connect(c)
    PROVE  OwnInv'
<1> SUFFICES ASSUME ~ mixed' PROVE (Unopened /\ Singles /\ Attending /\ AcceptedIsOwn)'
  BY DEF OwnInv
<1>1. /\ cli[c].conn = 0 /\ MaxConn > 0
      /\ cli' = [cli EXCEPT ![c].conn = 1, ![c].ok = TRUE]
      /\ UNCHANGED <<up, down, mixed, split, pushq, pullq>>
  BY DEF Connect
<1>2. Unopened /\ Singles /\ Attending /\ AcceptedIsOwn
  BY <1>1 DEF OwnInv
<1>3. /\ cli \in [Client -> ClientState]
      /\ cli'[c] = [cli[c] EXCEPT !.conn = 1, !.ok = TRUE]
      /\ \A d \in Client : d # c => cli'[d] = cli[d]
  BY <1>1 DEF TypeOK
<1>4. /\ cli'[c].conn = 1 /\ cli'[c].req = cli[c].req /\ cli'[c].got = cli[c].got
  BY <1>3 DEF ClientState
<1>5. \A k \in Conn : Kept(k)
  BY <1>1, IdleKept
<1>6. \A k \in Conn : (On(k, {}) => On(k, {})') /\ (Single(k) => Single(k)')
  BY <1>5 DEF Kept
<1>7. Unopened'
  <2> SUFFICES ASSUME NEW d \in Client, NEW i \in 1..MaxConn, i > cli'[d].conn
               PROVE  On(<<d, i>>, {})'
    BY DEF Unopened
  <2>1. i > cli[d].conn
    BY <1>1, <1>3, <1>4
  <2> QED
    BY <1>2, <1>6, <2>1 DEF Unopened, Conn
<1>8. Singles'
  BY <1>1, <1>2, <1>6 DEF Singles
<1>9. Attending'
  <2> SUFFICES ASSUME NEW d \in Client, cli'[d].conn > 0, Using(d)' \notin split'
               PROVE  Attended(d)'
    BY DEF Attending
  <2>1. CASE d = c
    <3>1. <<c, 1>> \in Conn /\ 1 \in 1..MaxConn
      BY <1>1, ConstantAssumption DEF Conn
    <3>2. On(<<c, 1>>, {})'
      BY <1>1, <1>2, <1>6, <3>1 DEF Unopened
    <3>3. Using(c)' = <<c, 1>>
      BY <1>4 DEF Using
    <3>4. PICK R : R = {cli'[c].req}
      OBVIOUS
    <3>5. On(<<c, 1>>, R)'
      BY <3>2 DEF On, NoneIn, RequestsOn, RepliesOn
    <3> QED
      BY <2>1, <3>2, <3>3, <3>4, <3>5 DEF Attended, On
  <2>2. CASE d # c
    <3>1. PICK k : k = Using(d)
      OBVIOUS
    <3>2. k \in Conn /\ Attended(d)
      BY <1>1, <1>2, <1>3, <2>2, <3>1, UsingConn DEF Attending, Using
    <3> QED
      BY <1>3, <1>5, <2>2, <3>1, <3>2, AttendedKept
  <2> QED
    BY <2>1, <2>2
<1>10. AcceptedIsOwn'
  <2> SUFFICES ASSUME NEW d \in Client, Using(d)' \notin split', cli'[d].got # NONE
               PROVE  cli'[d].got \in Answer /\ cli'[d].got.req = cli'[d].req
    BY DEF AcceptedIsOwn
  <2>1. CASE d = c
    <3>1. Using(c) \notin split
      BY <1>1 DEF TypeOK, Conn, Using
    <3> QED
      BY <1>1, <1>2, <1>4, <2>1, <3>1 DEF AcceptedIsOwn
  <2>2. CASE d # c
    BY <1>1, <1>2, <1>3, <2>2 DEF AcceptedIsOwn, Using
  <2> QED
    BY <2>1, <2>2
<1> QED
  BY <1>7, <1>8, <1>9, <1>10

\* Nothing is under way on the connection a request is to go by.
LEMMA FreshQuiet ==
    ASSUME TypeOK, OwnInv, ~ mixed, NEW c \in Client, cli[c].conn > 0, ~ cli[c].busy,
           cli[c].ok \/ cli[c].conn < MaxConn,
           NEW j, j = <<c, IF cli[c].ok THEN cli[c].conn ELSE cli[c].conn + 1>>, j \notin split
    PROVE  On(j, {})
<1>1. Unopened /\ Attending
  BY DEF OwnInv
<1>2. CASE cli[c].ok
  BY <1>1, <1>2 DEF Attending, Attended, Using
<1>3. CASE ~ cli[c].ok
  <2>1. cli[c].conn \in 0..MaxConn /\ MaxConn \in Nat
    BY ConstantAssumption DEF TypeOK, ClientState
  <2>2. cli[c].conn + 1 \in 1..MaxConn /\ cli[c].conn + 1 > cli[c].conn
    BY <1>3, <2>1
  <2> QED
    BY <1>1, <1>3, <2>2 DEF Unopened
<1> QED
  BY <1>2, <1>3

LEMMA SendOwn ==
    ASSUME TypeOK, OwnInv, NEW c \in Client, NEW ask \in Asks, Send(c, ask[1], ask[2])
    PROVE  OwnInv'
<1> SUFFICES ASSUME ~ mixed' PROVE (Unopened /\ Singles /\ Attending /\ AcceptedIsOwn)'
  BY DEF OwnInv
<1> DEFINE number == IF cli[c].ok THEN cli[c].conn ELSE cli[c].conn + 1
           asked  == Asked(c, <<c, number>>, ask[1], ask[2])
<1>1. PICK i, j, req : i = number /\ j = <<c, i>> /\ req = asked
  OBVIOUS
<1>2. /\ cli[c].conn > 0 /\ ~ cli[c].busy /\ (cli[c].ok \/ cli[c].conn < MaxConn)
      /\ cli' = [cli EXCEPT ![c] =
                [conn |-> i, ok |-> cli[c].ok, busy |-> TRUE, n |-> cli[c].n + 1,
                 req |-> req, got |-> NONE,
                 must |-> IF ask[1] = "get" THEN {w \in acked : w.key = ask[2]} ELSE {}]]
      /\ up' = [up EXCEPT ![j] = req]
      /\ cli[c].ok => UNCHANGED down
      /\ ~ cli[c].ok => down' = [down EXCEPT ![Using(c)] = << >>]
      /\ UNCHANGED <<mixed, split, pushq, pullq>>
  <2>1. /\ cli[c].conn > 0 /\ ~ cli[c].busy /\ (cli[c].ok \/ cli[c].conn < MaxConn)
        /\ cli' = [cli EXCEPT ![c] =
                [conn |-> number, ok |-> cli[c].ok, busy |-> TRUE, n |-> cli[c].n + 1,
                 req |-> asked, got |-> NONE,
                 must |-> IF ask[1] = "get" THEN {w \in acked : w.key = ask[2]} ELSE {}]]
        /\ up' = [up EXCEPT ![<<c, number>>] = asked]
        /\ UNCHANGED <<mixed, split, pushq, pullq>>
    BY DEF Send
  <2>2. /\ cli[c].ok => UNCHANGED down
        /\ ~ cli[c].ok => down' = [down EXCEPT ![Using(c)] = << >>]
    BY DEF Send
  <2> HIDE DEF number, asked
  <2> QED
    BY <1>1, <2>1, <2>2
<1>3. Unopened /\ Singles /\ Attending /\ AcceptedIsOwn
  BY <1>2 DEF OwnInv
<1>4. /\ cli \in [Client -> ClientState] /\ up \in [Conn -> Request \cup {NONE}]
      /\ down \in [Conn -> Seq(Piece)] /\ cli[c].conn \in 0..MaxConn /\ MaxConn \in Nat
      /\ cli[c].ok \in BOOLEAN
  BY ConstantAssumption DEF TypeOK, ClientState
<1>5. i \in 1..MaxConn /\ i >= cli[c].conn
  BY <1>1, <1>2, <1>4
<1>6. j \in Conn
  BY <1>1, <1>5 DEF Conn
<1>7. /\ cli'[c].conn = i /\ cli'[c].req = req /\ cli'[c].got = NONE /\ cli'[c].busy
      /\ \A d \in Client : d # c => cli'[d] = cli[d]
  BY <1>2, <1>4
<1>8. /\ up'[j] = req /\ down'[j] = down[j]
      /\ \A k \in Conn : k # j => up'[k] = up[k] /\ down'[k] \in {down[k], << >>}
  <2>1. CASE cli[c].ok
    BY <1>2, <1>4, <1>6, <2>1
  <2>2. CASE ~ cli[c].ok
    <3>1. Using(c) # j /\ Using(c) \in Conn
      BY <1>1, <1>2, <1>4, <2>2, UsingConn DEF Using
    <3> QED
      BY <1>2, <1>4, <1>6, <2>2, <3>1
  <2> QED
    BY <1>4, <2>1, <2>2
<1>9. \A k \in Conn : k # j => Kept(k)
  BY <1>2, <1>8, SameStretch, LessKept
<1>10. \A k \in Conn : k # j => (On(k, {}) => On(k, {})') /\ (Single(k) => Single(k)')
  BY <1>9 DEF Kept
<1>11. ASSUME j \notin split
       PROVE  On(j, {})
  BY <1>1, <1>2, <1>11, FreshQuiet
<1>12. ASSUME j \notin split
       PROVE  Single(j)' /\ On(j, {req})'
  <2>1. /\ NoneIn(pushq, RequestsOn(j, {})) /\ NoneIn(pullq, RepliesOn(j, {}))
        /\ DOMAIN down[j] = {} /\ down[j] \in Seq(Piece)
    BY <1>4, <1>6, <1>11, <1>12 DEF On
  <2>2. down[j] = << >>
    <3>1. DOMAIN down[j] = 1..Len(down[j]) /\ Len(down[j]) \in Nat
      BY <2>1, LenProperties
    <3>2. 1 \notin 1..Len(down[j])
      BY <2>1, <3>1
    <3>3. Len(down[j]) = 0
      BY <3>1, <3>2
    <3> QED
      BY <2>1, <3>3, EmptySeq
  <2>3. NoneIn(pushq, RequestsOn(j, {req})) /\ NoneIn(pullq, RepliesOn(j, {req}))
    BY <2>1 DEF NoneIn, RequestsOn, RepliesOn
  <2>4. OneIn(pushq, RequestsOn(j, {})) /\ OneIn(pullq, RepliesOn(j, {}))
    BY <2>1 DEF NoneIn, OneIn
  <2>5. Single(j)'
    BY <1>2, <1>8, <2>1, <2>2, <2>4 DEF Single
  <2>6. On(j, {req})'
    BY <1>2, <1>8, <2>1, <2>3 DEF On
  <2> QED
    BY <2>5, <2>6
<1>13. Unopened'
  <2> SUFFICES ASSUME NEW d \in Client, NEW n \in 1..MaxConn, n > cli'[d].conn
               PROVE  On(<<d, n>>, {})'
    BY DEF Unopened
  <2>1. n > cli[d].conn /\ <<d, n>> # j
    BY <1>1, <1>4, <1>5, <1>7
  <2> QED
    BY <1>3, <1>10, <2>1 DEF Unopened, Conn
<1>14. Singles'
  BY <1>2, <1>3, <1>10, <1>12 DEF Singles
<1>15. Attending'
  <2> SUFFICES ASSUME NEW d \in Client, cli'[d].conn > 0, Using(d)' \notin split'
               PROVE  Attended(d)'
    BY DEF Attending
  <2>1. CASE d = c
    <3>1. Using(c)' = j
      BY <1>1, <1>7 DEF Using
    <3>2. On(j, {req})'
      BY <1>2, <1>12, <2>1, <3>1
    <3> QED
      BY <1>7, <2>1, <3>1, <3>2 DEF Attended, On
  <2>2. CASE d # c
    <3>1. PICK k : k = Using(d)
      OBVIOUS
    <3>2. k \in Conn /\ Attended(d) /\ k # j
      BY <1>1, <1>2, <1>3, <1>7, <2>2, <3>1, UsingConn DEF Attending, Using
    <3> QED
      BY <1>7, <1>9, <2>2, <3>1, <3>2, AttendedKept
  <2> QED
    BY <2>1, <2>2
<1>16. AcceptedIsOwn'
  BY <1>2, <1>3, <1>7 DEF AcceptedIsOwn, Using
<1> QED
  BY <1>13, <1>14, <1>15, <1>16

\* When an answer is read whole, nothing is left, and it is to the request.
LEMMA ReceiveWhole ==
    ASSUME TypeOK, OwnInv, ~ mixed, NEW c \in Client, Receive(c),
           NEW j, j = Using(c), j \notin split'
    PROVE  /\ Single(j)' /\ On(j, {})'
           /\ cli'[c].got = down[j][1].ans
           /\ 1 \in DOMAIN down[j] /\ down[j][1] \in Piece
           /\ down[j][1].ans.req = cli[c].req
<1>1. PICK n \in 1..Len(down[j]) :
        /\ down' = [down EXCEPT ![j] = SubSeq(down[j], n + 1, Len(down[j]))]
        /\ \E got \in IF Whole(SubSeq(down[j], 1, n)) THEN {SubSeq(down[j], 1, n)[1].ans} ELSE {PART, NONE} :
            cli' = [cli EXCEPT ![c].busy = FALSE, ![c].got = got]
        /\ split' = IF Whole(SubSeq(down[j], 1, n)) THEN split ELSE split \cup {j}
  BY DEF Receive
<1>2. PICK got \in IF Whole(SubSeq(down[j], 1, n)) THEN {SubSeq(down[j], 1, n)[1].ans} ELSE {PART, NONE} :
        cli' = [cli EXCEPT ![c].busy = FALSE, ![c].got = got]
  BY <1>1
<1>3. cli[c].busy /\ UNCHANGED <<up, mixed, pushq, pullq>>
  BY DEF Receive
<1>4. Unopened /\ Singles /\ Attending /\ AcceptedIsOwn
  BY <1>3 DEF OwnInv
<1>5. /\ cli \in [Client -> ClientState] /\ down \in [Conn -> Seq(Piece)]
      /\ cli[c].conn > 0 /\ j \in Conn
  BY <1>3, UsingConn DEF TypeOK
<1>6. /\ cli'[c].conn = cli[c].conn /\ cli'[c].req = cli[c].req /\ cli'[c].got = got
      /\ \A d \in Client : d # c => cli'[d] = cli[d]
  BY <1>2, <1>5 DEF ClientState
<1>7. Whole(SubSeq(down[j], 1, n)) /\ j \notin split
  BY <1>1
<1>8. Single(j) /\ Attended(c)
  BY <1>4, <1>5, <1>7 DEF Singles, Attending
<1>9. down[j] \in Seq(Piece) /\ Len(down[j]) \in Nat /\ Len(down[j]) >= 1
  BY <1>1, <1>5, LenProperties
<1>10. Len(down[j]) = 2 /\ down[j] # << >>
  BY <1>8, <1>9, EmptySeq DEF Single
<1>11. /\ SubSeq(down[j], 1, n) \in Seq(Piece)
      /\ \A i \in DOMAIN SubSeq(down[j], 1, n) :
              i + 1 - 1 \in DOMAIN down[j] /\ SubSeq(down[j], 1, n)[i] = down[j][i + 1 - 1]
      /\ Len(SubSeq(down[j], 1, n)) = n
  <2>1. 1 \in 1..Len(down[j]) + 1 /\ n \in 1 - 1..Len(down[j]) /\ n \in Int /\ n >= 1
    BY <1>1, <1>9
  <2>2. \A i \in 1..n : down[j][i] \in Piece
    BY <1>9, <2>1, ElementOfSeq
  <2> QED
    BY <1>9, <2>1, <2>2, PartElements, SubSeqProperties
<1>12. n = 2
  BY <1>1, <1>7, <1>10, <1>11 DEF Whole
<1>13. down'[j] = << >>
  BY <1>1, <1>5, <1>10, <1>12, SubSeqEmpty
<1>14. /\ up[j] = NONE
      /\ NoneIn(pushq, RequestsOn(j, {})) /\ NoneIn(pullq, RepliesOn(j, {}))
      /\ OneIn(pushq, RequestsOn(j, {})) /\ OneIn(pullq, RepliesOn(j, {}))
  BY <1>8, <1>10 DEF Single
<1>15. Single(j)'
  BY <1>3, <1>13, <1>14 DEF Single
<1>16. On(j, {})'
  <2>1. DOMAIN << >> = {}
    OBVIOUS
  <2> QED
    BY <1>3, <1>13, <1>14, <2>1 DEF On
<1>17. 1 \in DOMAIN SubSeq(down[j], 1, n) /\ 1 \in DOMAIN down[j] /\ down[j][1] \in Piece
  BY <1>9, <1>10, <1>11, <1>12, LenProperties, ElementOfSeq
<1>18. got = down[j][1].ans
  BY <1>2, <1>7, <1>11, <1>17
<1>19. down[j][1].ans.req = cli[c].req
  BY <1>8, <1>17 DEF Attended, On
<1> QED
  BY <1>6, <1>15, <1>16, <1>17, <1>18, <1>19

LEMMA ReceiveOwn ==
    ASSUME TypeOK, OwnInv, NEW c \in Client, Receive(c)
    PROVE  OwnInv'
<1> SUFFICES ASSUME ~ mixed' PROVE (Unopened /\ Singles /\ Attending /\ AcceptedIsOwn)'
  BY DEF OwnInv
<1>1. PICK j : j = Using(c)
  OBVIOUS
<1>2. PICK n \in 1..Len(down[j]) :
        /\ down' = [down EXCEPT ![j] = SubSeq(down[j], n + 1, Len(down[j]))]
        /\ \E got \in IF Whole(SubSeq(down[j], 1, n)) THEN {SubSeq(down[j], 1, n)[1].ans} ELSE {PART, NONE} :
            cli' = [cli EXCEPT ![c].busy = FALSE, ![c].got = got]
        /\ split' = IF Whole(SubSeq(down[j], 1, n)) THEN split ELSE split \cup {j}
  BY <1>1 DEF Receive
<1>3. PICK got \in IF Whole(SubSeq(down[j], 1, n)) THEN {SubSeq(down[j], 1, n)[1].ans} ELSE {PART, NONE} :
        cli' = [cli EXCEPT ![c].busy = FALSE, ![c].got = got]
  BY <1>2
<1>4. cli[c].busy /\ UNCHANGED <<up, mixed, pushq, pullq>>
  BY DEF Receive
<1>5. Unopened /\ Singles /\ Attending /\ AcceptedIsOwn
  BY <1>4 DEF OwnInv
<1>6. /\ cli \in [Client -> ClientState] /\ down \in [Conn -> Seq(Piece)]
      /\ cli[c].conn > 0 /\ j \in Conn
  BY <1>1, <1>4, UsingConn DEF TypeOK
<1>7. /\ cli'[c].conn = cli[c].conn /\ cli'[c].req = cli[c].req /\ cli'[c].got = got
      /\ \A d \in Client : d # c => cli'[d] = cli[d]
  BY <1>3, <1>6 DEF ClientState
<1>8. \A k \in Conn : k # j => Kept(k)
  BY <1>2, <1>4, <1>6, SameStretch, LessKept
<1>9. \A k \in Conn : k # j => (On(k, {}) => On(k, {})') /\ (Single(k) => Single(k)')
  BY <1>8 DEF Kept
<1>10. split \subseteq split'
  BY <1>2
<1>11. ASSUME j \notin split'
       PROVE  /\ Single(j)' /\ On(j, {})'
              /\ got \in Answer /\ got.req = cli[c].req
  <2>1. ~ mixed
    BY <1>4
  <2>2. /\ Single(j)' /\ On(j, {})' /\ cli'[c].got = down[j][1].ans
        /\ down[j][1] \in Piece /\ down[j][1].ans.req = cli[c].req
    BY <1>1, <1>11, <2>1, ReceiveWhole
  <2> QED
    BY <1>7, <2>2 DEF Piece
<1>12. Unopened'
  <2> SUFFICES ASSUME NEW d \in Client, NEW i \in 1..MaxConn, i > cli'[d].conn
               PROVE  On(<<d, i>>, {})'
    BY DEF Unopened
  <2>1. i > cli[d].conn /\ <<d, i>> # j /\ <<d, i>> \in Conn
    <3>1. cli[c].conn \in Int
      BY <1>6 DEF ClientState
    <3> QED
      BY <1>1, <1>7, <3>1 DEF Using, Conn
  <2> QED
    BY <1>5, <1>9, <2>1 DEF Unopened
<1>13. Singles'
  BY <1>5, <1>9, <1>10, <1>11 DEF Singles
<1>14. Attending'
  <2> SUFFICES ASSUME NEW d \in Client, cli'[d].conn > 0, Using(d)' \notin split'
               PROVE  Attended(d)'
    BY DEF Attending
  <2>1. CASE d = c
    <3>1. Using(c)' = j
      BY <1>1, <1>7 DEF Using
    <3>2. On(j, {})'
      BY <1>11, <2>1, <3>1
    <3> QED
      BY <2>1, <3>1, <3>2 DEF Attended, On, NoneIn, RequestsOn, RepliesOn
  <2>2. CASE d # c
    <3>1. PICK k : k = Using(d)
      OBVIOUS
    <3>2. k \in Conn /\ Attended(d) /\ k # j
      BY <1>1, <1>5, <1>7, <1>10, <2>2, <3>1, UsingConn DEF Attending, Using
    <3> QED
      BY <1>7, <1>8, <2>2, <3>1, <3>2, AttendedKept
  <2> QED
    BY <2>1, <2>2
<1>15. AcceptedIsOwn'
  <2> SUFFICES ASSUME NEW d \in Client, Using(d)' \notin split', cli'[d].got # NONE
               PROVE  cli'[d].got \in Answer /\ cli'[d].got.req = cli'[d].req
    BY DEF AcceptedIsOwn
  <2>1. CASE d = c
    <3>1. Using(c)' = j
      BY <1>1, <1>7 DEF Using
    <3> QED
      BY <1>7, <1>11, <2>1, <3>1
  <2>2. CASE d # c
    <3>1. cli'[d] = cli[d]
      BY <1>7, <2>2
    <3>2. Using(d) \notin split
      BY <1>10, <3>1 DEF Using
    <3> QED
      BY <1>4, <1>5, <3>1, <3>2 DEF AcceptedIsOwn
  <2> QED
    BY <2>1, <2>2
<1> QED
  BY <1>12, <1>13, <1>14, <1>15

LEMMA GiveUpOwn ==
    ASSUME TypeOK, OwnInv, NEW c \in Client, GiveUp(c)
    PROVE  OwnInv'
<1> SUFFICES ASSUME ~ mixed' PROVE (Unopened /\ Singles /\ Attending /\ AcceptedIsOwn)'
  BY DEF OwnInv
<1>1. /\ cli' = [cli EXCEPT ![c].busy = FALSE, ![c].ok = FALSE]
      /\ UNCHANGED <<up, down, mixed, split, pushq, pullq>>
  BY DEF GiveUp, ConnectionBad
<1>2. Unopened /\ Singles /\ Attending /\ AcceptedIsOwn
  BY <1>1 DEF OwnInv
<1>3. \A d \in Client :
        /\ cli'[d].conn = cli[d].conn /\ cli'[d].req = cli[d].req /\ cli'[d].got = cli[d].got
        /\ ~ cli'[d].busy /\ cli'[d].ok => ~ cli[d].busy /\ cli[d].ok
  <2>1. cli \in [Client -> ClientState]
    BY DEF TypeOK
  <2> QED
    BY <1>1, <2>1 DEF ClientState
<1>4. \A k \in Conn : Kept(k)
  BY <1>1, IdleKept
<1>5. \A k \in Conn : (On(k, {}) => On(k, {})') /\ (Single(k) => Single(k)')
  BY <1>4 DEF Kept
<1>6. Unopened'
  BY <1>2, <1>3, <1>5 DEF Unopened, Conn
<1>7. Singles'
  BY <1>1, <1>2, <1>5 DEF Singles
<1>8. Attending'
  <2> SUFFICES ASSUME NEW d \in Client, cli'[d].conn > 0, Using(d)' \notin split'
               PROVE  Attended(d)'
    BY DEF Attending
  <2>1. PICK k : k = Using(d)
    OBVIOUS
  <2>2. k \in Conn /\ Attended(d)
    <3>1. Using(d) \notin split /\ cli[d].conn > 0
      <4>1. Using(d)' = Using(d) /\ cli[d].conn > 0
        BY <1>3 DEF Using
      <4>2. split' = split
        BY <1>1
      <4> QED
        BY <4>1, <4>2
    <3> QED
      BY <1>2, <2>1, <3>1, UsingConn DEF Attending
  <2> QED
    BY <1>3, <1>4, <2>1, <2>2, AttendedKept
<1>9. AcceptedIsOwn'
  <2> SUFFICES ASSUME NEW d \in Client, Using(d)' \notin split', cli'[d].got # NONE
               PROVE  cli'[d].got \in Answer /\ cli'[d].got.req = cli'[d].req
    BY DEF AcceptedIsOwn
  <2>1. Using(d) \notin split
    <3>1. Using(d)' = Using(d)
      BY <1>3 DEF Using
    <3>2. split' = split
      BY <1>1
    <3> QED
      BY <3>1, <3>2
  <2> QED
    BY <1>1, <1>2, <1>3, <2>1 DEF AcceptedIsOwn
<1> QED
  BY <1>6, <1>7, <1>8, <1>9

LEMMA OwnStep == TaskInv /\ AnswerInv /\ OwnInv /\ [Next]_vars => OwnInv'
<1> SUFFICES ASSUME TaskInv, AnswerInv, OwnInv, [Next]_vars PROVE OwnInv'
  OBVIOUS
<1>1. TypeOK
  BY DEF TaskInv
<1>2. CASE \E c \in Client : ClientNext(c)
  BY <1>1, <1>2, ConnectOwn, SendOwn, ReceiveOwn, GiveUpOwn DEF ClientNext
<1>3. CASE AcceptTask
  <2>1. /\ UNCHANGED <<cli, split, up, down, pushq, pullq>>
        /\ ~ mixed' => ~ mixed
    <3>1. CASE AcceptOne
      <4>1. UNCHANGED mixed \/ mixed' = (mixed \/ UnderWay(NextPos(iPosCnt)))
        BY <3>1 DEF AcceptOne, InsertTask, PutTask
      <4>2. ~ mixed' => ~ mixed
        BY <4>1
      <4>3. UNCHANGED <<cli, split, up, down, servers>>
        BY <3>1 DEF AcceptOne
      <4> QED
        BY <4>2, <4>3
    <3>2. CASE AcceptBegin \/ AcceptBreaks \/ AcceptFails \/ AcceptNone
      BY <3>2 DEF AcceptBegin, AcceptBreaks, AcceptFails, AcceptNone
    <3> QED
      BY <1>3, <3>1, <3>2 DEF AcceptTask
  <2> QED
    BY <1>1, <2>1, IdleKept, OwnKept
<1>4. ASSUME NEW k \in Conn, HandleCmd(k) \/ SockEnd(k)
      PROVE  OwnInv'
  <2>1. CASE HandleCmd(k)
    <3>1. UNCHANGED <<cli, split, mixed>>
      BY <2>1 DEF HandleCmd
    <3> QED
      BY <1>1, <2>1, <3>1, HandleCmdKept, OwnKept
  <2>2. CASE SockEnd(k)
    <3>1. /\ UNCHANGED <<cli, split, mixed, down, pushq, pullq>>
          /\ \A j \in Conn : up'[j] \in {up[j], NONE}
      BY <1>1, <2>2 DEF SockEnd, TypeOK
    <3>2. \A j \in Conn : Kept(j)
      BY <1>1, <3>1, SameStretch, LessKept
    <3> QED
      BY <1>1, <3>1, <3>2, OwnKept
  <2> QED
    BY <1>4, <2>1, <2>2
<1>5. ASSUME NEW s \in Server, Deliver(s) \/ ProcessMQMsg(s) \/ ServerRestart(s)
      PROVE  OwnInv'
  <2>1. UNCHANGED <<cli, split, mixed>>
    BY <1>5 DEF Deliver, ProcessMQMsg, ServerRestart
  <2>2. ASSUME ~ mixed', NEW k \in Conn
        PROVE  Kept(k)
    <3>1. CASE Deliver(s)
      BY <2>1, <2>2, <3>1, DeliverKept
    <3>2. CASE ProcessMQMsg(s)
      BY <1>1, <2>2, <3>2, ProcessKept
    <3>3. CASE ServerRestart(s)
      <4>1. UNCHANGED <<up, down>>
        BY <3>3 DEF ServerRestart
      <4> QED
        BY <1>1, <2>2, <3>3, <4>1, ServerRestartStretch, LessKept
    <3> QED
      BY <1>5, <3>1, <3>2, <3>3
  <2> QED
    BY <1>1, <2>1, <2>2, OwnKept
<1>6. CASE ProxyRestart
  <2>1. /\ UNCHANGED <<cli, split, mixed, down>>
        /\ \A k \in Conn : up'[k] = NONE
    BY <1>6 DEF ProxyRestart
  <2>2. \A k \in Conn : Kept(k)
    BY <1>1, <1>6, <2>1, ProxyRestartStretch, LessKept
  <2> QED
    BY <1>1, <2>1, <2>2, OwnKept
<1>7. CASE UNCHANGED vars
  BY <1>1, <1>7, IdleKept, OwnKept
<1> QED
  BY <1>2, <1>3, <1>4, <1>5, <1>6, <1>7 DEF Next

\* What a client takes for the answer to its request is that, as long as no
\* position was given while a message bore it and its connection was read in
\* whole answers: send_and_recv checks nothing of an answer but its length.
THEOREM AcceptedIsTheClients == Spec => []AcceptedIsOwn
<1>1. TypeOK /\ OwnInv => AcceptedIsOwn
  BY DEF OwnInv, AcceptedIsOwn
<1>2. TaskInv => TypeOK
  BY DEF TaskInv
<1> QED
  BY <1>1, <1>2, TaskInit, TaskStep, AnswerInit, AnswerStep, OwnInit, OwnStep, PTL DEF Spec

-----------------------------------------------------------------------------
(* Acknowledged sets.  A request reaches the server of its key only, so     *)
(* what a get must show is in the database it is answered from.             *)

Held(w) == w \in db[GetIndex(w.key)]

Truthful(a) ==
    /\ a.req.kind = "set" => Held(a.req)
    /\ \A c \in Client : a.req = cli[c].req /\ a.req.kind = "get" => cli[c].must \subseteq a.seen

Routed == \A s \in Server : \A i \in DOMAIN pushq[s] : GetIndex(pushq[s][i].req.key) = s

RepliesTruthful == \A s \in Server : \A i \in DOMAIN pullq[s] : Truthful(pullq[s][i].ans)

DownTruthful == \A k \in Conn : \A i \in DOMAIN down[k] : Truthful(down[k][i].ans)

AckedHeld == \A w \in acked : Held(w)

MustHeld ==
    \A c \in Client : \A w \in cli[c].must : w.key = cli[c].req.key /\ Held(w)

GotSeen ==
    \A c \in Client :
        cli[c].got # NONE /\ cli[c].req.kind = "get" => cli[c].must \subseteq cli[c].got.seen

Seen == RepliesTruthful /\ DownTruthful /\ AckedHeld /\ MustHeld /\ GotSeen

SeenInv == Routed /\ (~ mixed /\ split = {} => Seen)

LEMMA SeenInit == Init => SeenInv
<1> SUFFICES ASSUME Init PROVE SeenInv
  OBVIOUS
<1>1. /\ \A s \in Server : pushq[s] = << >> /\ pullq[s] = << >>
      /\ \A k \in Conn : down[k] = << >>
      /\ \A c \in Client : cli[c].must = {}
      /\ DOMAIN << >> = {} /\ acked = {}
  BY DEF Init
<1>2. Routed
  BY <1>1 DEF Routed
<1>3. RepliesTruthful /\ DownTruthful
  BY <1>1 DEF RepliesTruthful, DownTruthful
<1>4. AckedHeld /\ MustHeld /\ GotSeen
  BY <1>1 DEF AckedHeld, MustHeld, GotSeen
<1> QED
  BY <1>2, <1>3, <1>4 DEF SeenInv, Seen

LEMMA RoutedInPart ==
    ASSUME Routed, Stretch(pushq', pushq)
    PROVE  Routed'
BY DEF Routed, Stretch

\* Steps that may lose messages, and change of the clients only whether they
\* wait and on which connection.
LEMMA SeenLess ==
    ASSUME SeenInv, Stretch(pushq', pushq), Stretch(pullq', pullq),
           UNCHANGED <<down, acked, split, db>>, ~ mixed' => ~ mixed,
           \A c \in Client : /\ cli'[c].req = cli[c].req /\ cli'[c].got = cli[c].got
                             /\ cli'[c].must = cli[c].must
    PROVE  SeenInv'
<1>1. Routed'
  BY RoutedInPart DEF SeenInv
<1> SUFFICES ASSUME ~ mixed', split' = {} PROVE Seen'
  BY <1>1 DEF SeenInv
<1>2. Seen
  BY DEF SeenInv
<1>3. ASSUME NEW a, Truthful(a) PROVE Truthful(a)'
  BY <1>3 DEF Truthful, Held
<1>4. RepliesTruthful'
  <2> SUFFICES ASSUME NEW s \in Server, NEW i \in DOMAIN pullq'[s]
               PROVE  Truthful(pullq[s][i].ans)'
    BY DEF RepliesTruthful
  <2>1. PICK j \in DOMAIN pullq[s] : pullq'[s][i] = pullq[s][j]
    BY DEF Stretch
  <2>2. PICK a : a = pullq[s][j].ans
    OBVIOUS
  <2>3. Truthful(a)'
    BY <1>2, <1>3, <2>2 DEF Seen, RepliesTruthful
  <2> QED
    BY <2>1, <2>2, <2>3 DEF Truthful, Held
<1>5. DownTruthful'
  <2> SUFFICES ASSUME NEW k \in Conn, NEW i \in DOMAIN down[k]
               PROVE  Truthful(down[k][i].ans)'
    BY DEF DownTruthful
  <2>1. PICK a : a = down[k][i].ans
    OBVIOUS
  <2>2. Truthful(a)'
    BY <1>2, <1>3, <2>1 DEF Seen, DownTruthful
  <2> QED
    BY <2>1, <2>2 DEF Truthful, Held
<1>6. AckedHeld'
  BY <1>2 DEF Seen, AckedHeld, Held
<1>7. MustHeld'
  BY <1>2 DEF Seen, MustHeld, Held
<1>8. GotSeen'
  BY <1>2 DEF Seen, GotSeen
<1> QED
  BY <1>4, <1>5, <1>6, <1>7, <1>8 DEF Seen

LEMMA HandleCmdSeen ==
    ASSUME TaskInv, AnswerInv, SeenInv, NEW j \in Conn, HandleCmd(j)
    PROVE  SeenInv'
<1>1. j = objTaskMap[epos[j]] /\ epos[j] \in DOMAIN objTaskMap
  BY DEF HandleCmd, TaskInv, TasksFound
<1> DEFINE s == GetIndex(up[j].key)
           m == [pos |-> epos[j], req |-> up[j]]
<1>2. /\ up[j] # NONE
      /\ pushq' = [pushq EXCEPT ![s] = Enqueue(pushq[s], m)]
      /\ UNCHANGED <<cli, down, acked, split, mixed, pullq, db>>
  BY <1>1 DEF HandleCmd, Position
<1>3. up[j] \in Request
  BY <1>2 DEF TaskInv, TypeOK
<1>4. s \in Server /\ pushq \in [Server -> Seq(Message)] /\ pushq[s] \in Seq(Message)
  BY <1>3, IndexType DEF Request, TaskInv, TypeOK
<1>5. m \in Message /\ GetIndex(m.req.key) = s
  BY <1>3 DEF Message, TaskInv, TypeOK
<1> HIDE DEF s, m
<1>6. Routed'
  <2> SUFFICES ASSUME NEW r \in Server, NEW i \in DOMAIN pushq'[r]
               PROVE  GetIndex(pushq'[r][i].req.key) = r
    BY DEF Routed
  <2>1. CASE r # s
    BY <1>2, <1>4, <2>1 DEF SeenInv, Routed
  <2>2. CASE r = s
    <3>1. pushq'[r] = Enqueue(pushq[s], m)
      BY <1>2, <1>4, <2>2
    <3>2. \/ i \in DOMAIN pushq[s] /\ pushq'[r][i] = pushq[s][i]
          \/ pushq'[r][i] = m
      BY <1>4, <1>5, <3>1, EnqueueElements
    <3> QED
      BY <1>4, <1>5, <2>2, <3>2 DEF SeenInv, Routed
  <2> QED
    BY <2>1, <2>2
<1>7. Seen => Seen'
  <2>1. UNCHANGED <<cli, down, acked, pullq, db>>
    BY <1>2
  <2> QED
    BY <2>1 DEF Seen, RepliesTruthful, DownTruthful, AckedHeld, MustHeld, GotSeen, Truthful, Held
<1> QED
  BY <1>2, <1>6, <1>7 DEF SeenInv

LEMMA DeliverSeen ==
    ASSUME TaskInv, SeenInv, NEW s \in Server, Deliver(s)
    PROVE  SeenInv'
<1> DEFINE m == Head(pullq[s])
<1>1. /\ pullq[s] # << >> /\ pullq' = [pullq EXCEPT ![s] = Tail(pullq[s])]
      /\ UNCHANGED <<cli, acked, split, mixed, pushq, db>>
  BY DEF Deliver
<1>2. /\ pullq \in [Server -> Seq(Reply)] /\ pullq[s] \in Seq(Reply)
      /\ down \in [Conn -> Seq(Piece)]
  BY DEF TaskInv, TypeOK
<1>3. m \in Reply /\ 1 \in DOMAIN pullq[s] /\ m = pullq[s][1]
  BY <1>1, <1>2, TailElements
<1>4. Stretch(pullq', pullq) /\ Stretch(pushq', pushq)
  BY <1>1, <1>2, TakeOne, SameStretch DEF TaskInv
<1> HIDE DEF m
<1>5. CASE UNCHANGED down
  BY <1>1, <1>4, <1>5, SeenLess
<1>6. CASE m.pos \in DOMAIN objTaskMap /\ OnMQRecv(objTaskMap[m.pos], m.ans) /\ down' # down
  <2> DEFINE t      == objTaskMap[m.pos]
             pieces == <<[ans |-> m.ans, part |-> "first"], [ans |-> m.ans, part |-> "last"]>>
  <2>1. t \in Conn
    BY <1>6, TaskType DEF TaskInv
  <2>2. pieces \in Seq(Piece) /\ Len(pieces) = 2 /\ \A i \in 1..2 : pieces[i].ans = m.ans
    BY <1>3 DEF Reply, Piece
  <2>3. down' = [down EXCEPT ![t] = down[t] \o pieces]
    BY <1>6 DEF OnMQRecv
  <2> HIDE DEF t, pieces
  <2>4. down'[t] = down[t] \o pieces /\ down[t] \in Seq(Piece)
    BY <1>2, <2>1, <2>3
  <2>5. ASSUME NEW i \in DOMAIN down'[t]
        PROVE  (\E j \in DOMAIN down[t] : down'[t][i] = down[t][j]) \/ down'[t][i].ans = m.ans
    <3>1. \A h \in DOMAIN (down[t] \o pieces) :
            (\E n \in DOMAIN down[t] : (down[t] \o pieces)[h] = down[t][n])
            \/ (down[t] \o pieces)[h].ans = m.ans
      BY <2>2, <2>4, PiecesBehind
    <3> QED
      BY <2>4, <2>5, <3>1
  <2>6. Routed'
    BY <1>4, RoutedInPart DEF SeenInv
  <2>7. ASSUME Seen PROVE Seen'
    <3>1. ASSUME NEW a, Truthful(a) PROVE Truthful(a)'
      BY <1>1, <3>1 DEF Truthful, Held
    <3>2. RepliesTruthful'
      <4> SUFFICES ASSUME NEW r \in Server, NEW i \in DOMAIN pullq'[r]
                   PROVE  Truthful(pullq[r][i].ans)'
        BY DEF RepliesTruthful
      <4>1. PICK j \in DOMAIN pullq[r] : pullq'[r][i] = pullq[r][j]
        BY <1>4 DEF Stretch
      <4>2. PICK a : a = pullq[r][j].ans
        OBVIOUS
      <4>3. Truthful(a)'
        BY <2>7, <3>1, <4>2 DEF Seen, RepliesTruthful
      <4> QED
        BY <4>1, <4>2, <4>3 DEF Truthful, Held
    <3>3. DownTruthful'
      <4> SUFFICES ASSUME NEW k \in Conn, NEW i \in DOMAIN down'[k]
                   PROVE  Truthful(down[k][i].ans)'
        BY DEF DownTruthful
      <4>1. PICK a : a = down'[k][i].ans
        OBVIOUS
      <4>2. Truthful(m.ans)
        BY <1>3, <2>7 DEF Seen, RepliesTruthful
      <4>3. Truthful(a)
        <5>1. CASE k = t
          BY <2>1, <2>5, <2>7, <4>1, <4>2, <5>1 DEF Seen, DownTruthful
        <5>2. CASE k # t
          BY <1>2, <2>3, <2>7, <4>1, <5>2 DEF Seen, DownTruthful
        <5> QED
          BY <5>1, <5>2
      <4>4. Truthful(a)'
        BY <3>1, <4>3
      <4> QED
        BY <4>1, <4>4 DEF Truthful, Held
    <3>4. (AckedHeld /\ MustHeld /\ GotSeen)'
      BY <1>1, <2>7 DEF Seen, AckedHeld, MustHeld, GotSeen, Held
    <3> QED
      BY <3>2, <3>3, <3>4 DEF Seen
  <2> QED
    BY <1>1, <2>6, <2>7 DEF SeenInv
<1> QED
  BY <1>5, <1>6 DEF Deliver, m

LEMMA ProcessSeen ==
    ASSUME TypeOK, SeenInv, NEW s \in Server, ProcessMQMsg(s)
    PROVE  SeenInv'
<1> DEFINE m    == Head(pushq[s])
           seen == IF m.req.kind = "get" THEN {w \in db[s] : w.key = m.req.key} ELSE {}
           r    == [pos |-> m.pos, ans |-> [req |-> m.req, seen |-> seen]]
<1>1. /\ pushq[s] # << >> /\ pushq' = [pushq EXCEPT ![s] = Tail(pushq[s])]
      /\ pullq' = [pullq EXCEPT ![s] = Enqueue(pullq[s], r)]
      /\ db' = [db EXCEPT ![s] = IF m.req.kind = "set" THEN db[s] \cup {m.req} ELSE db[s]]
      /\ UNCHANGED <<cli, down, acked, split, mixed>>
  BY DEF ProcessMQMsg
<1>2. /\ pushq \in [Server -> Seq(Message)] /\ pullq \in [Server -> Seq(Reply)]
      /\ pushq[s] \in Seq(Message) /\ pullq[s] \in Seq(Reply)
      /\ db \in [Server -> SUBSET Request] /\ db[s] \subseteq Request
      /\ down \in [Conn -> Seq(Piece)] /\ acked \subseteq Request
      /\ \A c \in Client : cli[c].must \subseteq Request
  BY DEF TypeOK, ClientState
<1>3. m \in Message /\ 1 \in DOMAIN pushq[s] /\ m = pushq[s][1]
  BY <1>1, <1>2, TailElements
<1>4. m.req \in Request /\ GetIndex(m.req.key) = s
  BY <1>3 DEF SeenInv, Routed, Message
<1>5. r \in Reply /\ r.ans.req = m.req /\ r.ans.seen = seen
  BY <1>2, <1>3 DEF Reply, Answer, Message
<1>6. m.req.kind = "get" => seen = {w \in db[s] : w.key = m.req.key}
  OBVIOUS
<1> HIDE DEF m, r, seen
<1>7. Routed'
  <2>1. Stretch(pushq', pushq)
    BY <1>1, <1>2, TakeOne
  <2> QED
    BY <2>1, RoutedInPart DEF SeenInv
<1> SUFFICES ASSUME Seen PROVE Seen'
  BY <1>1, <1>7 DEF SeenInv
\* The database only grows.
<1>8. ASSUME NEW w \in Request, Held(w) PROVE Held(w)'
  <2>1. GetIndex(w.key) \in Server
    BY IndexType DEF Request
  <2> QED
    BY <1>1, <1>2, <1>8, <2>1 DEF Held
<1>9. ASSUME NEW a \in Answer, Truthful(a) PROVE Truthful(a)'
  <2>1. a.req.kind = "set" => Held(a.req)'
    BY <1>8, <1>9 DEF Truthful, Answer
  <2> QED
    BY <1>1, <1>9, <2>1 DEF Truthful, Held
<1>10. PICK b : b = r.ans
  OBVIOUS
<1>11. Truthful(b)'
  <2>1. m.req.kind = "set" => m.req \in db'[s]
    BY <1>1, <1>2
  <2>2. ASSUME NEW c \in Client, m.req = cli[c].req, m.req.kind = "get", NEW w \in cli[c].must
        PROVE  w \in seen
    <3>1. w.key = m.req.key /\ Held(w)
      BY <2>2 DEF Seen, MustHeld
    <3>2. w \in db[s]
      BY <1>4, <3>1 DEF Held
    <3> QED
      BY <1>6, <2>2, <3>1, <3>2
  <2>3. \A c \in Client : m.req = cli[c].req /\ m.req.kind = "get" => cli[c].must \subseteq seen
    BY <2>2
  <2>4. b.req = m.req /\ b.seen = seen /\ cli' = cli
    BY <1>1, <1>5, <1>10
  <2>5. (b.req.kind = "set" => b.req \in db'[GetIndex(b.req.key)])
        /\ \A c \in Client : b.req = cli'[c].req /\ b.req.kind = "get" => cli'[c].must \subseteq b.seen
    BY <1>4, <2>1, <2>3, <2>4
  <2> QED
    BY <2>5 DEF Truthful, Held
<1>12. RepliesTruthful'
  <2> SUFFICES ASSUME NEW q \in Server, NEW i \in DOMAIN pullq'[q]
               PROVE  Truthful(pullq[q][i].ans)'
    BY DEF RepliesTruthful
  <2>1. PICK a : a = pullq'[q][i].ans
    OBVIOUS
  <2>2. CASE i \in DOMAIN pullq[q] /\ pullq'[q][i] = pullq[q][i]
    <3>1. pullq[q][i] \in Reply
      BY <1>2, <2>2, LenProperties, ElementOfSeq
    <3>2. a \in Answer /\ Truthful(a)
      BY <2>1, <2>2, <3>1 DEF Seen, RepliesTruthful, Reply
    <3>3. Truthful(a)'
      BY <1>9, <3>2
    <3> QED
      BY <2>1, <3>3 DEF Truthful, Held
  <2>3. CASE pullq'[q][i] = r
    <3>1. a = b
      BY <1>10, <2>1, <2>3
    <3> QED
      BY <1>11, <2>1, <3>1 DEF Truthful, Held
  <2>4. CASE q # s
    BY <1>1, <1>2, <2>2, <2>4
  <2>5. CASE q = s
    <3>1. pullq'[q] = Enqueue(pullq[s], r)
      BY <1>1, <1>2, <2>5
    <3>2. \/ i \in DOMAIN pullq[s] /\ pullq'[q][i] = pullq[s][i]
          \/ pullq'[q][i] = r
      BY <1>2, <1>5, <3>1, EnqueueElements
    <3> QED
      BY <2>2, <2>3, <2>5, <3>2
  <2> QED
    BY <2>4, <2>5
<1>13. DownTruthful'
  <2> SUFFICES ASSUME NEW k \in Conn, NEW i \in DOMAIN down[k]
               PROVE  Truthful(down[k][i].ans)'
    BY <1>1 DEF DownTruthful
  <2>1. PICK a : a = down[k][i].ans
    OBVIOUS
  <2>2. down[k][i] \in Piece
    BY <1>2, LenProperties, ElementOfSeq
  <2>3. a \in Answer /\ Truthful(a)
    BY <2>1, <2>2 DEF Seen, DownTruthful, Piece
  <2>4. Truthful(a)'
    BY <1>9, <2>3
  <2> QED
    BY <1>1, <2>1, <2>4 DEF Truthful, Held
<1>14. AckedHeld'
  BY <1>1, <1>2, <1>8 DEF Seen, AckedHeld
<1>15. MustHeld'
  <2>1. \A c \in Client : \A w \in cli[c].must : Held(w)'
    BY <1>2, <1>8 DEF Seen, MustHeld
  <2> QED
    BY <1>1, <2>1 DEF Seen, MustHeld, Held
<1>16. GotSeen'
  BY <1>1 DEF Seen, GotSeen
<1> QED
  BY <1>12, <1>13, <1>14, <1>15, <1>16 DEF Seen

LEMMA SendSeen ==
    ASSUME TaskInv, AnswerInv, OwnInv, SeenInv,
           NEW c \in Client, NEW ask \in Asks, Send(c, ask[1], ask[2])
    PROVE  SeenInv'
<1> DEFINE number == IF cli[c].ok THEN cli[c].conn ELSE cli[c].conn + 1
           asked  == Asked(c, <<c, number>>, ask[1], ask[2])
           must   == IF ask[1] = "get" THEN {w \in acked : w.key = ask[2]} ELSE {}
<1>1. /\ cli[c].conn > 0 /\ ~ cli[c].busy /\ (cli[c].ok \/ cli[c].conn < MaxConn)
      /\ cli' = [cli EXCEPT ![c] =
                [conn |-> number, ok |-> cli[c].ok, busy |-> TRUE, n |-> cli[c].n + 1,
                 req |-> asked, got |-> NONE, must |-> must]]
      /\ down' = down \/ down' = [down EXCEPT ![Using(c)] = << >>]
      /\ UNCHANGED <<mixed, split, acked, pushq, pullq, db>>
  BY DEF Send
<1>2. PICK j, req : j = <<c, number>> /\ req = asked
  OBVIOUS
<1>3. req.conn = j /\ req.key = ask[2]
  BY <1>2 DEF Asked
<1>4. \A w \in must : w \in acked /\ w.key = ask[2]
  OBVIOUS
<1> HIDE DEF asked, must
<1>5. /\ cli \in [Client -> ClientState] /\ down \in [Conn -> Seq(Piece)]
      /\ pullq \in [Server -> Seq(Reply)]
  BY DEF TaskInv, TypeOK
<1>6. /\ cli'[c].req = req /\ cli'[c].got = NONE /\ cli'[c].must = must
      /\ \A d \in Client : d # c => cli'[d] = cli[d]
  BY <1>1, <1>2, <1>5
<1>7. Routed'
  BY <1>1 DEF SeenInv, Routed
<1> SUFFICES ASSUME ~ mixed, split = {}, Seen PROVE Seen'
  BY <1>1, <1>7 DEF SeenInv
<1>8. On(j, {})
  BY <1>1, <1>2, FreshQuiet DEF TaskInv
<1>9. ASSUME NEW a, Truthful(a), a.req # req PROVE Truthful(a)'
  <2>1. a.req.kind = "set" => a.req \in db'[GetIndex(a.req.key)]
    BY <1>1, <1>9 DEF Truthful, Held
  <2>2. \A d \in Client : a.req = cli'[d].req /\ a.req.kind = "get" => cli'[d].must \subseteq a.seen
    BY <1>6, <1>9 DEF Truthful
  <2> QED
    BY <2>1, <2>2 DEF Truthful, Held
<1>10. RepliesTruthful'
  <2> SUFFICES ASSUME NEW s \in Server, NEW i \in DOMAIN pullq[s]
               PROVE  Truthful(pullq[s][i].ans)'
    BY <1>1 DEF RepliesTruthful
  <2>1. PICK a : a = pullq[s][i].ans
    OBVIOUS
  <2>2. pullq[s][i] \in Reply
    BY <1>5, LenProperties, ElementOfSeq
  <2>3. Truthful(a)
    BY <2>1 DEF Seen, RepliesTruthful
  <2>4. a.req # req
    <3>1. pullq[s][i] \notin RepliesOn(j, {})
      BY <1>8 DEF On, NoneIn
    <3> QED
      BY <1>3, <2>1, <2>2, <3>1 DEF RepliesOn
  <2>5. Truthful(a)'
    BY <1>9, <2>3, <2>4
  <2> QED
    BY <1>1, <2>1, <2>5 DEF Truthful, Held
<1>11. DownTruthful'
  <2> SUFFICES ASSUME NEW k \in Conn, NEW i \in DOMAIN down'[k]
               PROVE  Truthful(down[k][i].ans)'
    BY DEF DownTruthful
  <2>1. down'[k] = down[k]
    <3>1. down'[k] = down[k] \/ down'[k] = << >>
      BY <1>1, <1>5
    <3>2. DOMAIN << >> = {}
      OBVIOUS
    <3> QED
      BY <3>1, <3>2
  <2>2. PICK a : a = down[k][i].ans
    OBVIOUS
  <2>3. Truthful(a)
    BY <2>1, <2>2 DEF Seen, DownTruthful
  <2>4. a.req # req
    <3>1. a.req.conn = k
      BY <2>1, <2>2 DEF AnswerInv, DownOwn
    <3>2. k # j
      BY <1>8, <2>1 DEF On
    <3> QED
      BY <1>3, <3>1, <3>2
  <2>5. Truthful(a)'
    BY <1>9, <2>3, <2>4
  <2> QED
    BY <2>1, <2>2, <2>5 DEF Truthful, Held
<1>12. AckedHeld'
  BY <1>1 DEF Seen, AckedHeld, Held
<1>13. MustHeld'
  <2>1. \A w \in must : w.key = req.key /\ Held(w)
    BY <1>3, <1>4 DEF Seen, AckedHeld
  <2>2. \A d \in Client : \A w \in cli'[d].must : w.key = cli'[d].req.key /\ Held(w)
    BY <1>6, <2>1 DEF Seen, MustHeld
  <2> QED
    BY <1>1, <2>2 DEF MustHeld, Held
<1>14. GotSeen'
  BY <1>6 DEF Seen, GotSeen
<1> QED
  BY <1>10, <1>11, <1>12, <1>13, <1>14 DEF Seen

LEMMA ReceiveSeen ==
    ASSUME TypeOK, OwnInv, SeenInv, NEW c \in Client, Receive(c)
    PROVE  SeenInv'
<1>1. PICK j : j = Using(c)
  OBVIOUS
<1>2. PICK n \in 1..Len(down[j]) :
        /\ down' = [down EXCEPT ![j] = SubSeq(down[j], n + 1, Len(down[j]))]
        /\ \E got \in IF Whole(SubSeq(down[j], 1, n)) THEN {SubSeq(down[j], 1, n)[1].ans} ELSE {PART, NONE} :
            /\ cli' = [cli EXCEPT ![c].busy = FALSE, ![c].got = got]
            /\ acked' = IF got # NONE /\ cli[c].req.kind = "set"
                        THEN acked \cup {cli[c].req} ELSE acked
        /\ split' = IF Whole(SubSeq(down[j], 1, n)) THEN split ELSE split \cup {j}
  BY <1>1 DEF Receive
<1>3. PICK got :
        /\ cli' = [cli EXCEPT ![c].busy = FALSE, ![c].got = got]
        /\ acked' = IF got # NONE /\ cli[c].req.kind = "set"
                    THEN acked \cup {cli[c].req} ELSE acked
  BY <1>2
<1>4. cli[c].busy /\ UNCHANGED <<mixed, pushq, pullq, db>>
  BY DEF Receive
<1>5. /\ cli \in [Client -> ClientState] /\ down \in [Conn -> Seq(Piece)] /\ j \in Conn
      /\ down[j] \in Seq(Piece)
  BY <1>1, <1>4, UsingConn DEF TypeOK
<1>6. /\ cli'[c].got = got
      /\ \A d \in Client : /\ cli'[d].req = cli[d].req /\ cli'[d].must = cli[d].must
                           /\ d # c => cli'[d].got = cli[d].got
  BY <1>3, <1>5 DEF ClientState
<1>7. Routed'
  BY <1>4 DEF SeenInv, Routed
<1> SUFFICES ASSUME ~ mixed', split' = {} PROVE Seen'
  BY <1>7 DEF SeenInv
<1>8. ~ mixed /\ split = {} /\ j \notin split' /\ Seen
  BY <1>2, <1>4 DEF SeenInv
\* The answer taken.
<1>9. /\ got.req = cli[c].req /\ Truthful(got)
  <2>1. /\ cli'[c].got = down[j][1].ans /\ 1 \in DOMAIN down[j]
        /\ down[j][1].ans.req = cli[c].req
    BY <1>1, <1>8, ReceiveWhole
  <2> QED
    BY <1>5, <1>6, <1>8, <2>1 DEF Seen, DownTruthful
<1>10. ASSUME NEW a, Truthful(a) PROVE Truthful(a)'
  <2>1. a.req.kind = "set" => a.req \in db'[GetIndex(a.req.key)]
    BY <1>4, <1>10 DEF Truthful, Held
  <2>2. \A d \in Client : a.req = cli'[d].req /\ a.req.kind = "get" => cli'[d].must \subseteq a.seen
    BY <1>6, <1>10 DEF Truthful
  <2> QED
    BY <2>1, <2>2 DEF Truthful, Held
<1>11. RepliesTruthful'
  <2> SUFFICES ASSUME NEW s \in Server, NEW i \in DOMAIN pullq[s]
               PROVE  Truthful(pullq[s][i].ans)'
    BY <1>4 DEF RepliesTruthful
  <2>1. PICK a : a = pullq[s][i].ans
    OBVIOUS
  <2>2. Truthful(a)'
    BY <1>8, <1>10, <2>1 DEF Seen, RepliesTruthful
  <2> QED
    BY <1>4, <2>1, <2>2 DEF Truthful, Held
<1>12. DownTruthful'
  <2> SUFFICES ASSUME NEW k \in Conn, NEW i \in DOMAIN down'[k]
               PROVE  Truthful(down[k][i].ans)'
    BY DEF DownTruthful
  <2>1. PICK a : a = down'[k][i].ans
    OBVIOUS
  <2>2. \E h \in DOMAIN down[k] : down'[k][i] = down[k][h]
    <3>1. CASE k = j
      <4>1. down'[k] = SubSeq(down[j], n + 1, Len(down[j]))
        BY <1>2, <1>5, <3>1
      <4> QED
        BY <1>2, <1>5, <3>1, <4>1, PartElements, LenProperties
    <3>2. CASE k # j
      BY <1>2, <1>5, <3>2
    <3> QED
      BY <3>1, <3>2
  <2>3. Truthful(a)
    BY <1>8, <2>1, <2>2 DEF Seen, DownTruthful
  <2>4. Truthful(a)'
    BY <1>10, <2>3
  <2> QED
    BY <2>1, <2>4 DEF Truthful, Held
<1>13. AckedHeld'
  <2>1. \A w \in acked' : Held(w)
    BY <1>3, <1>8, <1>9 DEF Seen, AckedHeld, Truthful
  <2> QED
    BY <1>4, <2>1 DEF AckedHeld, Held
<1>14. MustHeld'
  BY <1>4, <1>6, <1>8 DEF Seen, MustHeld, Held
<1>15. GotSeen'
  <2> SUFFICES ASSUME NEW d \in Client, cli'[d].got # NONE, cli'[d].req.kind = "get"
               PROVE  cli'[d].must \subseteq cli'[d].got.seen
    BY DEF GotSeen
  <2>1. CASE d = c
    BY <1>6, <1>9, <2>1 DEF Truthful
  <2>2. CASE d # c
    BY <1>6, <1>8, <2>2 DEF Seen, GotSeen
  <2> QED
    BY <2>1, <2>2
<1> QED
  BY <1>11, <1>12, <1>13, <1>14, <1>15 DEF Seen

LEMMA SeenStep == TaskInv /\ AnswerInv /\ OwnInv /\ SeenInv /\ [Next]_vars => SeenInv'
<1> SUFFICES ASSUME TaskInv, AnswerInv, OwnInv, SeenInv, [Next]_vars PROVE SeenInv'
  OBVIOUS
<1>1. TypeOK /\ Stretch(pushq, pushq) /\ Stretch(pullq, pullq)
  BY SameStretch DEF TaskInv
<1>2. ASSUME NEW c \in Client, ClientNext(c)
      PROVE  SeenInv'
  <2>1. CASE Connect(c) \/ GiveUp(c)
    <3>1. UNCHANGED <<down, acked, split, mixed, servers>>
      BY <2>1 DEF Connect, GiveUp
    <3>2. \A d \in Client : /\ cli'[d].req = cli[d].req /\ cli'[d].got = cli[d].got
                            /\ cli'[d].must = cli[d].must
      <4>1. cli \in [Client -> ClientState]
        BY <1>1 DEF TypeOK
      <4>2. \/ cli' = [cli EXCEPT ![c].conn = 1, ![c].ok = TRUE]
            \/ cli' = [cli EXCEPT ![c].busy = FALSE, ![c].ok = FALSE]
        BY <2>1 DEF Connect, GiveUp, ConnectionBad
      <4> QED
        BY <4>1, <4>2 DEF ClientState
    <3> QED
      BY <1>1, <3>1, <3>2, SeenLess
  <2> QED
    BY <1>1, <1>2, <2>1, SendSeen, ReceiveSeen DEF ClientNext
<1>3. CASE AcceptTask
  <2>1. UNCHANGED <<cli, down, acked, split, servers>> /\ (~ mixed' => ~ mixed)
    <3>1. CASE AcceptOne
      <4>1. UNCHANGED mixed \/ mixed' = (mixed \/ UnderWay(NextPos(iPosCnt)))
        BY <3>1 DEF AcceptOne, InsertTask, PutTask
      <4>2. ~ mixed' => ~ mixed
        BY <4>1
      <4>3. UNCHANGED <<cli, down, acked, split, servers>>
        BY <3>1 DEF AcceptOne
      <4> QED
        BY <4>2, <4>3
    <3>2. CASE AcceptBegin \/ AcceptBreaks \/ AcceptFails \/ AcceptNone
      BY <3>2 DEF AcceptBegin, AcceptBreaks, AcceptFails, AcceptNone
    <3> QED
      BY <1>3, <3>1, <3>2 DEF AcceptTask
  <2> QED
    BY <1>1, <2>1, SeenLess
<1>4. ASSUME NEW k \in Conn, HandleCmd(k) \/ SockEnd(k)
      PROVE  SeenInv'
  <2>1. CASE SockEnd(k)
    <3>1. UNCHANGED <<cli, down, acked, split, mixed, servers>>
      BY <2>1 DEF SockEnd
    <3> QED
      BY <1>1, <3>1, SeenLess
  <2> QED
    BY <1>4, <2>1, HandleCmdSeen
<1>5. ASSUME NEW s \in Server, ServerRestart(s)
      PROVE  SeenInv'
  <2>1. UNCHANGED <<cli, down, acked, split, mixed, db>>
    BY <1>1, <1>5 DEF ServerRestart, Loaded, TypeOK
  <2> QED
    BY <1>1, <1>5, <2>1, ServerRestartStretch, SeenLess
<1>6. CASE ProxyRestart
  <2>1. UNCHANGED <<cli, down, acked, split, mixed, db>>
    BY <1>6 DEF ProxyRestart
  <2> QED
    BY <1>1, <1>6, <2>1, ProxyRestartStretch, SeenLess
<1>7. CASE UNCHANGED vars
  BY <1>1, <1>7, SeenLess
<1> QED
  BY <1>1, <1>2, <1>3, <1>4, <1>5, <1>6, <1>7, DeliverSeen, ProcessSeen DEF Next

\* A get shows every set of its key that was acknowledged before it was sent,
\* whatever connections, losses and restarts lie between, as long as answers
\* reach who asked and are read whole.
THEOREM AcknowledgedIsSeen == Spec => []AcknowledgedWritesSeen
<1>1. TaskInv /\ SeenInv => TypeOK /\ AcknowledgedWritesSeen
  BY DEF TaskInv, SeenInv, Seen, GotSeen, AcknowledgedWritesSeen
<1> QED
  BY <1>1, TaskInit, TaskStep, AnswerInit, AnswerStep, OwnInit, OwnStep, SeenInit, SeenStep,
     PTL DEF Spec
=============================================================================
