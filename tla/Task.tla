-------------------------------- MODULE Task --------------------------------
(***************************************************************************)
(* One connection of the proxy: the Task of bis/src/proxy/task.cpp, its    *)
(* registration with epoll (cepoll.cpp), and the event loop of server.cpp  *)
(* as far as this task sees it.                                            *)
(*                                                                         *)
(* The streams are abstracted to the number of bytes that have passed each *)
(* point.  What the client sends is a script: the k-th command declares    *)
(* the length len[k] and begins after start[k] bytes.                      *)
(*                                                                         *)
(* Events are edge-triggered: epoll_wait returns the task once for each    *)
(* time something woke it, with what is true of the socket by then.        *)
(***************************************************************************)
EXTENDS Integers

CONSTANTS
    Script,     \* the streams clients may send: records [cmds, len, start, total]
    HEAD,       \* sizeof(MsgHead)
    CAP,        \* MAX_CMD_LEN, the size of objRecvBuff_
    WINDOW,     \* bound on the bytes sent and not yet taken by HandleCmdMsg
    SNDBUF,     \* the send buffer of the socket
    RspLen,     \* the lengths of responses
    Garbage     \* event bits the uninitialised ev.events may bring along.  (With
                \* EPOLLEXCLUSIVE among them the kernel refuses the call.)

ASSUME SizeAssumption ==
    /\ HEAD \in Nat \ {0} /\ CAP \in Nat /\ HEAD <= CAP
    /\ WINDOW \in Nat /\ SNDBUF \in Nat \ {0} /\ RspLen \subseteq Nat \ {0}

Bit == {"IN", "OUT", "RDHUP", "HUP", "ONESHOT"}

ASSUME GarbageAssumption == Garbage \subseteq Bit

ASSUME ScriptAssumption ==
    \A s \in Script :
        /\ s.cmds \in Nat /\ s.total \in Nat
        /\ s.len \in [1..s.cmds -> Nat] /\ s.start \in [1..s.cmds + 1 -> Nat]
        /\ s.start[1] = 0
        /\ \A k \in 1..s.cmds : s.start[k + 1] = s.start[k] + s.len[k]
        /\ \/ s.total <= s.start[s.cmds + 1]
           \/ \E k \in 1..s.cmds : s.len[k] \notin HEAD..CAP

VARIABLES
    script,     \* what this client sends
    sent,       \* bytes the client has sent
    gone,       \* whether it closed: "no", "eof", "rst"
    room,       \* free bytes of the send buffer
    unanswered, \* forwarded commands whose answer the servers still have
    waiting     \* answers in the proxy's pull queue

env == <<script, sent, gone, room, unanswered, waiting>>

VARIABLES
    inMap,      \* the task is in objTaskMap
    open,       \* ~ IsTerminate()
    rcvd,       \* bytes moved into objRecvBuff_
    done,       \* commands HandleCmdMsg took out of it
    queued,     \* bytes in objSendQueue_
    filled      \* history: the last Recv stopped because the buffer was full

task == <<inMap, open, rcvd, done, queued, filled>>

VARIABLES
    interest,   \* the events registered
    ready       \* something woke the task since epoll_wait last returned it

epoll == <<interest, ready>>

VARIABLES
    pc,         \* where the loop is
    evs,        \* the events it has for this task
    batch,      \* messages RecvMsgs got that OnMqRecv has still to handle
    arming      \* Response is about to call EpollMod

loop == <<pc, evs, batch, arming>>

vars == <<env, task, epoll, loop>>

Min2(x, y) == IF x < y THEN x ELSE y

Taken == script.start[done + 1]

Used == rcvd - Taken

\* Types; and the command being parsed begins in the buffer, which never holds
\* more than CAP bytes.
TypeOK ==
    /\ script \in Script
    /\ sent \in 0..script.total /\ gone \in {"no", "eof", "rst"}
    /\ room \in 0..SNDBUF /\ unanswered \in Nat /\ waiting \in Nat
    /\ inMap \in BOOLEAN /\ open \in BOOLEAN
    /\ done \in 0..script.cmds /\ rcvd \in 0..sent /\ Used \in 0..CAP
    /\ queued \in Nat /\ filled \in BOOLEAN
    /\ interest \subseteq Bit /\ ready \in BOOLEAN
    /\ pc \in {"wait", "out", "in", "mq1", "hup", "mq"} /\ evs \subseteq Bit
    /\ batch \in Nat /\ arming \in BOOLEAN

-----------------------------------------------------------------------------
(* The kernel's side of epoll.                                              *)

\* What is true of a socket; HUP stands for EPOLLERR too.
Poll(sent_, rcvd_, gone_, room_) ==
    (IF sent_ > rcvd_ \/ gone_ # "no" THEN {"IN"} ELSE {})
    \cup (IF room_ > 0 \/ gone_ = "rst" THEN {"OUT"} ELSE {})
    \cup (IF gone_ # "no" THEN {"RDHUP"} ELSE {})
    \cup (IF gone_ = "rst" THEN {"HUP"} ELSE {})

\* HUP is reported unasked, unless ONESHOT has disabled the descriptor.
Asked(mask) == IF mask = {} THEN {} ELSE mask \cup {"HUP"}

\* Something happens to the socket: it is noted if it is asked for.
Wake(events) == ready' = (ready \/ (open /\ events \cap Asked(interest) # {}))

\* The mask EpollMod registers.
ModLeavingIn(mask) == {"IN"}

Mask(mask) == mask

\* EpollMod: the event mask is or-ed into an uninitialised one, and the kernel
\* looks at the socket again.
EpollMod(mask) ==
    /\ \E g \in SUBSET Garbage : interest' = Mask(mask) \cup g
    /\ ready' = (ready \/ Poll(sent', rcvd', gone', room') \cap Asked(interest') # {})

-----------------------------------------------------------------------------
(* The client and the servers.                                              *)

ClientSend ==
    /\ gone = "no"
    /\ \E n \in sent + 1..script.total : n - Taken <= WINDOW /\ sent' = n
    /\ Wake({"IN"})
    /\ UNCHANGED <<script, gone, room, unanswered, waiting, task, interest, loop>>

\* Room in a send buffer that was full wakes the writer.
ClientRead ==
    /\ gone # "rst" /\ open
    /\ \E n \in room + 1..SNDBUF : room' = n
    /\ IF room = 0 THEN Wake({"OUT"}) ELSE UNCHANGED ready
    /\ UNCHANGED <<script, sent, gone, unanswered, waiting, task, interest, loop>>

\* The client shuts down its side, or closes and resets the connection.
ClientClose ==
    /\ gone' \in {"eof", "rst"} /\ gone # gone' /\ gone # "rst"
    /\ Wake({"IN", "RDHUP"} \cup IF gone' = "rst" THEN {"OUT", "HUP"} ELSE {})
    /\ UNCHANGED <<script, sent, room, unanswered, waiting, task, interest, loop>>

ServerAnswer ==
    /\ unanswered > 0
    /\ unanswered' = unanswered - 1 /\ waiting' = waiting + 1
    /\ UNCHANGED <<script, sent, gone, room, task, epoll, loop>>

\* A command or its answer is lost on the way: no key in it, a full queue, a
\* server that is not there.
AnswerLost ==
    /\ unanswered > 0
    /\ unanswered' = unanswered - 1
    /\ UNCHANGED <<script, sent, gone, room, waiting, task, epoll, loop>>

-----------------------------------------------------------------------------
(* Sending: Response, FlushSendQueue, WriteRemain.                          *)

\* FlushSendQueue of n bytes into an open socket, as far as there is room.
Flush(n) ==
    /\ queued' = n - Min2(room, n)
    /\ room' = room - Min2(room, n)

\* Terminate takes the socket out of epoll and closes it.
Close == open' = FALSE /\ interest' = {} /\ ready' = FALSE

\* OnMQRecv, Response: without a socket the bytes stay queued; a write to a
\* client that is gone closes the socket.
HandleMsg ==
    /\ batch > 0 /\ ~ arming
    /\ batch' = batch - 1
    /\ \/ ~ inMap /\ UNCHANGED <<queued, room, open, arming, epoll>>
       \/ \E n \in RspLen :
            \/ /\ inMap /\ ~ open
               /\ queued' = queued + n
               /\ UNCHANGED <<room, open, arming, epoll>>
            \/ /\ inMap /\ open /\ gone = "rst"
               /\ queued' = queued + n
               /\ Close
               /\ UNCHANGED <<room, arming>>
            \/ /\ inMap /\ open /\ gone # "rst"
               /\ Flush(queued + n)
               /\ arming' = (queued' > 0)
               /\ UNCHANGED <<open, epoll>>
    /\ UNCHANGED <<script, sent, gone, unanswered, waiting,
                   inMap, rcvd, done, filled, pc, evs>>

\* The end of Response when bytes are left: the socket may have room again by
\* now.
ResponseMod ==
    /\ arming
    /\ arming' = FALSE
    /\ UNCHANGED <<env, task, pc, evs, batch>>
    /\ EpollMod({"IN", "OUT"})

\* The loop goes on.
Idle == batch = 0 /\ ~ arming

SkipWrite ==
    /\ pc = "out" /\ Idle /\ "OUT" \notin evs
    /\ pc' = "in"
    /\ UNCHANGED <<env, task, epoll, evs, batch, arming>>

\* OnSockWriteHdl, WriteRemain; a task terminated by then leaves the map.
WriteRemainAlwaysIn ==
    /\ pc = "out" /\ Idle /\ "OUT" \in evs
    /\ pc' = "in"
    /\ \/ /\ open /\ (gone # "rst" \/ queued = 0)
          /\ Flush(queued)
          /\ UNCHANGED <<script, sent, gone, unanswered, waiting, inMap, open, rcvd, done, filled>>
          /\ EpollMod({"IN"})
       \/ /\ ~ open \/ (gone = "rst" /\ queued > 0)
          /\ Close /\ inMap' = FALSE
          /\ UNCHANGED <<env, rcvd, done, queued, filled>>
    /\ UNCHANGED <<evs, batch, arming>>

WriteRemain ==
    /\ pc = "out" /\ Idle /\ "OUT" \in evs
    /\ pc' = "in"
    /\ \/ /\ open /\ (gone # "rst" \/ queued = 0)
          /\ Flush(queued)
          /\ UNCHANGED <<script, sent, gone, unanswered, waiting, inMap, open, rcvd, done, filled>>
          /\ IF queued' = 0 THEN EpollMod({"IN"}) ELSE UNCHANGED epoll
       \/ /\ ~ open \/ (gone = "rst" /\ queued > 0)
          /\ Close /\ inMap' = FALSE
          /\ UNCHANGED <<env, rcvd, done, queued, filled>>
    /\ UNCHANGED <<evs, batch, arming>>

-----------------------------------------------------------------------------
(* Receiving: Recv, HandleCmdMsg.                                           *)

\* The bytes the loop of recv calls gets.
ReadOnce(space, available) == Min2(1, Min2(space, available))

Read(space, available) == Min2(space, available)

\* Recv returns with the socket open: it met the end of the buffer, or no bytes
\* with the client still there.
ClosedAtEAGAIN(full) == full

MissesEndOfStream(full) == full \/ gone # "rst"

StaysOpen(full) == full \/ gone = "no"

\* Parse of command k in a buffer that ends at byte n of the stream.
HeadIn(k, n) == n - script.start[k] >= HEAD

TooLong(k) == script.len[k] > CAP

CompleteEarly(k, n) == HeadIn(k, n) /\ script.len[k] \in HEAD..CAP

CompleteStrict(k, n) ==
    HeadIn(k, n) /\ script.len[k] \in HEAD..CAP /\ script.start[k + 1] < n

Complete(k, n) ==
    HeadIn(k, n) /\ script.len[k] \in HEAD..CAP /\ script.start[k + 1] <= n

\* HandleCmdMsg takes the complete commands in order, and ends the connection
\* at one that is too long.
HandleCmdMsg(n) ==
    \E k \in done..script.cmds :
        /\ \A j \in done + 1..k : Complete(j, n)
        /\ k < script.cmds => ~ Complete(k + 1, n)
        /\ done' = k
        /\ unanswered' = unanswered + (k - done)

Rejected(n) == done' < script.cmds /\ HeadIn(done' + 1, n) /\ TooLong(done' + 1)

SkipRead ==
    /\ pc = "in" /\ Idle /\ "IN" \notin evs
    /\ pc' = "hup"
    /\ UNCHANGED <<env, task, epoll, evs, batch, arming>>

\* OnSockReadHdl: Recv does not see the end of the stream behind a full buffer;
\* HandleCmdMsg looks at the buffer of a closed socket too.
OnSockRead ==
    /\ pc = "in" /\ Idle /\ "IN" \in evs
    /\ pc' = "mq1"
    /\ LET n    == IF open THEN rcvd + Read(CAP - Used, sent - rcvd) ELSE rcvd
           full == n - Taken = CAP
       IN  /\ rcvd' = n
           /\ filled' = IF open THEN full ELSE filled
           /\ HandleCmdMsg(n)
           /\ open' = (open /\ StaysOpen(full) /\ ~ Rejected(n))
    /\ inMap' = (inMap /\ open')
    /\ interest' = IF open' THEN interest ELSE {}
    /\ ready' = (ready /\ open')
    /\ UNCHANGED <<script, sent, gone, room, waiting, queued, evs, batch, arming>>

-----------------------------------------------------------------------------
(* The rest of the loop.                                                    *)

\* OnMqRecv gets what is in the pull queue: at the end of a round, after a read
\* event of this task, or after one of a task before it.
RecvMsgs ==
    /\ pc \in {"out", "mq1", "mq"} /\ Idle
    /\ batch' = waiting /\ waiting' = 0
    /\ pc' = CASE pc = "out" -> "out" [] pc = "mq1" -> "hup" [] pc = "mq" -> "wait"
    /\ UNCHANGED <<script, sent, gone, room, unanswered, task, epoll, evs, arming>>

\* The last part of HldAllEvs.
OnHup ==
    /\ pc = "hup" /\ Idle
    /\ pc' = "mq" /\ evs' = {}
    /\ IF evs \cap {"HUP", "RDHUP"} # {}
       THEN Close /\ inMap' = FALSE
       ELSE UNCHANGED <<open, inMap, epoll>>
    /\ UNCHANGED <<env, rcvd, done, queued, filled, batch, arming>>

EpollWait ==
    /\ pc = "wait" /\ Idle
    /\ IF ready
       THEN /\ evs' = Poll(sent, rcvd, gone, room) \cap Asked(interest)
            /\ ready' = FALSE
            /\ interest' = IF evs' # {} /\ "ONESHOT" \in interest THEN {} ELSE interest
       ELSE evs' = {} /\ UNCHANGED epoll
    /\ pc' = IF evs' = {} THEN "mq" ELSE "out"
    /\ UNCHANGED <<env, task, batch, arming>>

\* AcceptTask: EpollAdd also or-s into an uninitialised mask.
Init ==
    /\ script \in Script /\ sent = 0 /\ gone = "no" /\ room = SNDBUF
    /\ unanswered = 0 /\ waiting = 0
    /\ inMap = TRUE /\ open = TRUE /\ rcvd = 0 /\ done = 0
    /\ queued = 0 /\ filled = FALSE
    /\ \E g \in SUBSET Garbage : interest = {"IN", "RDHUP"} \cup g
    /\ ready = ("OUT" \in interest)
    /\ pc = "wait" /\ evs = {} /\ batch = 0 /\ arming = FALSE

Loop ==
    \/ EpollWait \/ SkipWrite \/ WriteRemain \/ SkipRead \/ OnSockRead
    \/ RecvMsgs \/ OnHup \/ HandleMsg \/ ResponseMod

World == ClientSend \/ ClientRead \/ ClientClose \/ ServerAnswer \/ AnswerLost

Next == Loop \/ World

Spec == Init /\ [][Next]_vars

\* The proxy's loop never blocks; the client goes on reading.
FairSpec == Spec /\ WF_vars(Loop) /\ WF_vars(ClientRead)

-----------------------------------------------------------------------------
(* Properties.                                                              *)

\* Bytes or the end of the stream are never left unannounced: either epoll_wait
\* will return the task, or its read event is in hand, or the last Recv stopped
\* at a full buffer (task.cpp:112).  A descriptor that a stray EPOLLONESHOT
\* disabled (cepoll.cpp:45) announces nothing.
NoSilentBytes ==
    open /\ (sent > rcvd \/ gone # "no") /\ "IN" \in interest
        => ready \/ filled \/ (pc \in {"out", "in"} /\ "IN" \in evs)

\* A response that could not be sent whole is never forgotten: EPOLLOUT is asked
\* for, and the event is on its way or the socket is still full.
QueueAnnounced ==
    open /\ queued > 0 /\ ~ arming /\ interest # {}
        => /\ "OUT" \in interest
           /\ ready \/ room = 0 \/ (pc = "out" /\ "OUT" \in evs)

\* The proxy hangs up only on a client that left or sent a length above
\* MAX_CMD_LEN.
NoWrongHangup ==
    ~ open => gone # "no" \/ (done < script.cmds /\ TooLong(done + 1))

WellFormed == \A k \in 1..script.cmds : script.len[k] \in HEAD..CAP

\* The commands sent whole are handled, again and again as more are sent, unless
\* the connection is closed.
CommandsHandled ==
    []<>(WellFormed /\ open =>
            \A k \in 1..script.cmds : sent >= script.start[k + 1] => done >= k)

\* What is queued for a client that reads is sent, or the connection is closed.
ResponsesDrained == queued > 0 ~> queued = 0 \/ ~ open

\* The socket of a client that left is closed.
ClosedIsClosed == WellFormed /\ gone # "no" ~> ~ open
=============================================================================
