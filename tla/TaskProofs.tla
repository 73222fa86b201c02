----------------------------- MODULE TaskProofs -----------------------------
(***************************************************************************)
(* The safety of Task, for every set of streams, every size of the buffers *)
(* and every garbage in the event mask.                                    *)
(***************************************************************************)
EXTENDS Task, WellFoundedInduction, TLAPS

USE DEF env, task, epoll, loop, vars

\* Sums of lengths do not decrease: at the least k where they did, the length
\* before it would be negative.
LEMMA StartsAreSums ==
    ASSUME NEW s \in Script, NEW j \in 1..s.cmds + 1, NEW k \in 1..s.cmds + 1, j <= k
    PROVE  s.start[j] <= s.start[k]
<1>1. /\ s.cmds \in Nat /\ s.len \in [1..s.cmds -> Nat] /\ s.start \in [1..s.cmds + 1 -> Nat]
      /\ \A i \in 1..s.cmds : s.start[i + 1] = s.start[i] + s.len[i]
  BY ScriptAssumption
<1> DEFINE Less == {p \in Nat \X Nat : p[1] < p[2]}
           Lower == {i \in 1..s.cmds + 1 : j <= i /\ s.start[i] < s.start[j]}
<1>2. IsWellFoundedOn(Less, Nat)
  BY NatLessThanWellFounded DEF OpToRel
<1>3. ASSUME Lower # {} PROVE FALSE
  <2>1. Lower \subseteq Nat
    BY <1>1
  <2>2. PICK i \in Lower : \A h \in Lower : <<h, i>> \notin Less
    <3> HIDE DEF Less, Lower
    <3> QED BY <1>2, <1>3, <2>1, WFMin
  <2>3. i \in Nat /\ i - 1 \in 1..s.cmds /\ j <= i - 1
    BY <1>1
  <2>4. s.start[i] = s.start[i - 1] + s.len[i - 1] /\ i - 1 \in 1..s.cmds + 1
    BY <1>1, <2>3
  <2>5. s.start[i - 1] < s.start[j]
    <3> DEFINE a == s.start[i - 1]
               b == s.start[i]
               c == s.start[j]
               l == s.len[i - 1]
    <3>1. a \in Nat /\ b \in Nat /\ c \in Nat /\ l \in Nat
      BY <1>1, <2>3, <2>4
    <3>2. b = a + l /\ b < c
      BY <2>4
    <3> HIDE DEF a, b, c, l
    <3>3. a < c
      BY <3>1, <3>2
    <3> QED BY <3>3 DEF a, c
  <2>6. i - 1 \in Lower /\ <<i - 1, i>> \in Less
    BY <2>3, <2>4, <2>5
  <2> HIDE DEF Less, Lower
  <2> QED BY <2>2, <2>6
<1>4. ~ (s.start[k] < s.start[j])
  BY <1>3
<1> DEFINE a == s.start[j]
           b == s.start[k]
<1>5. a \in Nat /\ b \in Nat
  BY <1>1
<1> HIDE DEF a, b
<1>6. ~ (b < a)
  BY <1>4 DEF a, b
<1>7. a <= b
  BY <1>5, <1>6
<1> QED BY <1>7 DEF a, b

LEMMA ScriptType ==
    ASSUME NEW s \in Script
    PROVE  /\ s.cmds \in Nat /\ s.total \in Nat
           /\ s.len \in [1..s.cmds -> Nat] /\ s.start \in [1..s.cmds + 1 -> Nat]
           /\ s.start[1] = 0
           /\ \A j, k \in 1..s.cmds + 1 : j <= k => s.start[j] <= s.start[k]
BY ScriptAssumption, StartsAreSums

\* What a read leaves in the buffer fits in it.
LEMMA ReadBound ==
    ASSUME NEW space \in Nat, NEW available \in Nat
    PROVE  /\ Read(space, available) \in Nat
           /\ Read(space, available) <= space
           /\ Read(space, available) <= available
           /\ Read(space, available) = space \/ Read(space, available) = available
BY DEF Read, Min2

LEMMA MaskBits ==
    ASSUME NEW S \in SUBSET Bit, NEW g \in SUBSET Garbage
    PROVE  Mask(S) \cup g \subseteq Bit
BY GarbageAssumption DEF Mask

\* EpollMod looks at the socket again.
LEMMA EpollModWakes ==
    ASSUME NEW mask \in SUBSET Bit, mask # {}, EpollMod(mask)
    PROVE  /\ interest' \subseteq Bit /\ mask \subseteq interest'
           /\ ready' = (ready \/ Poll(sent', rcvd', gone', room') \cap (interest' \cup {"HUP"}) # {})
<1>1. PICK g \in SUBSET Garbage : interest' = Mask(mask) \cup g
  BY DEF EpollMod
<1>2. interest' = mask \cup g
  BY <1>1 DEF Mask
<1>3. interest' \subseteq Bit
  BY <1>2, GarbageAssumption
<1>4. Asked(interest') = interest' \cup {"HUP"}
  BY <1>2 DEF Asked
<1> QED
  BY <1>2, <1>3, <1>4 DEF EpollMod

LEMMA FlushType ==
    ASSUME NEW n \in Nat, room \in 0..SNDBUF, SNDBUF \in Nat, Flush(n)
    PROVE  /\ queued' \in Nat /\ room' \in 0..SNDBUF
           /\ queued' > 0 => room' = 0 /\ n > 0
BY DEF Flush, Min2

-----------------------------------------------------------------------------
(* Types.                                                                   *)

LEMMA TakenType ==
    ASSUME TypeOK
    PROVE  /\ script.cmds \in Nat /\ script.total \in Nat
           /\ script.len \in [1..script.cmds -> Nat]
           /\ script.start \in [1..script.cmds + 1 -> Nat]
           /\ \A j, k \in 1..script.cmds + 1 : j <= k => script.start[j] <= script.start[k]
           /\ done \in 0..script.cmds /\ Taken \in Nat
<1>1. script \in Script /\ done \in 0..script.cmds
  BY DEF TypeOK
<1>2. /\ script.cmds \in Nat /\ script.total \in Nat
      /\ script.len \in [1..script.cmds -> Nat]
      /\ script.start \in [1..script.cmds + 1 -> Nat]
      /\ \A j, k \in 1..script.cmds + 1 : j <= k => script.start[j] <= script.start[k]
  BY <1>1, ScriptType
<1>3. done + 1 \in 1..script.cmds + 1
  BY <1>1, <1>2
<1>4. Taken \in Nat
  BY <1>2, <1>3 DEF Taken
<1> QED
  BY <1>1, <1>2, <1>4

\* The commands that are left begin no earlier than the one being parsed.
LEMMA StartsInOrder ==
    ASSUME TypeOK, NEW k \in done..script.cmds
    PROVE  /\ script.start[done + 1] \in Nat /\ script.start[k + 1] \in Nat
           /\ script.start[done + 1] <= script.start[k + 1]
<1>1. script.cmds \in Nat /\ done \in Nat /\ done <= k /\ k <= script.cmds /\ k \in Nat
  BY TakenType
<1>2. done + 1 \in 1..script.cmds + 1 /\ k + 1 \in 1..script.cmds + 1 /\ done + 1 <= k + 1
  BY <1>1
<1> QED
  BY <1>2, TakenType

LEMMA WorldType ==
    ASSUME TypeOK, World
    PROVE  TypeOK'
<1>. USE SizeAssumption, TakenType
<1>1. CASE ClientSend
  <2>1. sent \in Nat /\ sent' \in sent + 1..script.total
    BY <1>1 DEF ClientSend, TypeOK
  <2> QED
    BY <1>1, <2>1, SMTT(20) DEF ClientSend, TypeOK, Used, Taken, Wake
<1>2. CASE ClientRead
  <2>1. room' \in 0..SNDBUF /\ ready' \in BOOLEAN
    <3>1. PICK k \in room + 1..SNDBUF : room' = k
      BY <1>2 DEF ClientRead
    <3>2. room' \in 0..SNDBUF
      BY <3>1 DEF TypeOK
    <3>3. Wake({"OUT"}) \/ UNCHANGED ready
      BY <1>2 DEF ClientRead
    <3>4. ready' \in BOOLEAN
      BY <3>3 DEF TypeOK, Wake
    <3> QED
      BY <3>2, <3>4
  <2> QED
    BY <1>2, <2>1 DEF ClientRead, TypeOK, Used, Taken
<1>3. CASE ClientClose
  BY <1>3 DEF ClientClose, TypeOK, Used, Taken, Wake
<1>4. CASE ServerAnswer
  BY <1>4 DEF ServerAnswer, TypeOK, Used, Taken
<1>5. CASE AnswerLost
  BY <1>5 DEF AnswerLost, TypeOK, Used, Taken
<1> QED
  BY <1>1, <1>2, <1>3, <1>4, <1>5 DEF World

LEMMA SendType ==
    ASSUME TypeOK, HandleMsg \/ ResponseMod \/ SkipWrite \/ WriteRemain
    PROVE  TypeOK'
<1>. USE SizeAssumption, TakenType
<1>1. CASE HandleMsg
  <2>1. UNCHANGED <<script, sent, gone, unanswered, waiting, inMap, rcvd, done, filled, pc, evs>>
        /\ batch' = batch - 1 /\ batch > 0
    BY <1>1 DEF HandleMsg
  <2>2. CASE UNCHANGED <<queued, room, open, arming, epoll>>
    BY <2>1, <2>2 DEF TypeOK, Used, Taken
  <2>3. ASSUME NEW n \in RspLen, queued' = queued + n,
               Close \/ UNCHANGED <<open, epoll>>, UNCHANGED <<room, arming>>
        PROVE  TypeOK'
    <3>1. queued' \in Nat /\ batch' \in Nat
      BY <2>1, <2>3 DEF TypeOK
    <3>2. open' \in BOOLEAN /\ interest' \subseteq Bit /\ ready' \in BOOLEAN
      BY <2>3 DEF TypeOK, Close
    <3> QED
      BY <2>1, <2>3, <3>1, <3>2 DEF TypeOK, Used, Taken
  <2>4. ASSUME NEW n \in RspLen, Flush(queued + n), arming' = (queued' > 0),
               UNCHANGED <<open, epoll>>
        PROVE  TypeOK'
    <3>1. queued + n \in Nat
      BY DEF TypeOK
    <3>2. queued' \in Nat /\ room' \in 0..SNDBUF
      BY <2>4, <3>1, FlushType DEF TypeOK
    <3> QED
      BY <2>1, <2>4, <3>2 DEF TypeOK, Used, Taken
  <2> QED
    BY <1>1, <2>2, <2>3, <2>4 DEF HandleMsg
<1>2. CASE ResponseMod
  <2>1. interest' \subseteq Bit /\ ready' \in BOOLEAN
    BY <1>2, EpollModWakes DEF ResponseMod, Bit, TypeOK
  <2> QED
    BY <1>2, <2>1 DEF ResponseMod, TypeOK, Used, Taken
<1>3. CASE SkipWrite
  BY <1>3 DEF SkipWrite, TypeOK, Used, Taken
<1>4. CASE WriteRemain
  <2>1. UNCHANGED <<script, sent, gone, unanswered, waiting, rcvd, done, filled,
                    evs, batch, arming>> /\ pc' = "in"
    BY <1>4 DEF WriteRemain
  <2>2. CASE Close /\ inMap' = FALSE /\ UNCHANGED <<room, queued>>
    BY <2>1, <2>2 DEF TypeOK, Used, Taken, Close
  <2>3. CASE Flush(queued) /\ UNCHANGED <<inMap, open>>
             /\ (EpollMod({"IN"}) \/ UNCHANGED epoll)
    <3>1. queued' \in Nat /\ room' \in 0..SNDBUF
      BY <2>3, FlushType DEF TypeOK
    <3>2. interest' \subseteq Bit /\ ready' \in BOOLEAN
      BY <2>3, EpollModWakes DEF Bit, TypeOK
    <3> QED
      BY <2>1, <2>3, <3>1, <3>2 DEF TypeOK, Used, Taken
  <2> QED
    BY <1>4, <2>2, <2>3 DEF WriteRemain
<1> QED
  BY <1>1, <1>2, <1>3, <1>4

\* What a read event does to the buffer.
LEMMA ReadType ==
    ASSUME TypeOK, OnSockRead
    PROVE  /\ TypeOK'
           /\ done' >= done
           /\ ~ open => rcvd' = rcvd
           /\ open /\ open' /\ ~ filled' => rcvd' = sent /\ gone = "no"
<1>. USE SizeAssumption, TakenType
<1>. DEFINE n == IF open THEN rcvd + Read(CAP - Used, sent - rcvd) ELSE rcvd
<1>. DEFINE full == n - Taken = CAP
<1>1. n \in rcvd..sent /\ n - Taken \in 0..CAP
      /\ (open /\ ~ full => n = sent)
  <2>1. /\ CAP - Used \in Nat /\ sent - rcvd \in Nat /\ rcvd \in Nat /\ sent \in Nat
        /\ Used = rcvd - Taken /\ Used \in 0..CAP
    BY DEF TypeOK, Used
  <2>2. CASE ~ open
    BY <2>1, <2>2
  <2>3. CASE open
    <3>. DEFINE r == Read(CAP - Used, sent - rcvd)
    <3>1. /\ r \in Nat /\ r <= CAP - Used /\ r <= sent - rcvd
          /\ r = CAP - Used \/ r = sent - rcvd
      BY <2>1, ReadBound
    <3>2. n = rcvd + r
      BY <2>3
    <3>. HIDE DEF r, n
    <3>3. n \in rcvd..sent /\ n - Taken \in 0..CAP
      BY <2>1, <3>1, <3>2, SMTT(20)
    <3>4. n - Taken # CAP => n = sent
      <4>1. Taken \in Nat /\ CAP \in Nat /\ r \in Nat
        BY <3>1
      <4>2. CASE r = CAP - Used
        BY <2>1, <3>2, <4>1, <4>2
      <4>3. CASE r = sent - rcvd
        BY <2>1, <3>2, <4>1, <4>3
      <4> QED
        BY <3>1, <4>2, <4>3
    <3> QED
      BY <3>3, <3>4
  <2> QED
    BY <2>2, <2>3
<1>2. /\ rcvd' = n
      /\ filled' = IF open THEN full ELSE filled
      /\ HandleCmdMsg(n)
      /\ open' = (open /\ StaysOpen(full) /\ ~ Rejected(n))
  BY DEF OnSockRead
<1>. HIDE DEF n
<1>0. done \in Nat /\ script.cmds \in Nat
  BY TakenType
<1>3. /\ done' \in done..script.cmds
      /\ done' > done => script.start[done' + 1] <= n
      /\ unanswered' = unanswered + (done' - done)
  <2>1. PICK k \in done..script.cmds :
          /\ \A j \in done + 1..k : Complete(j, n)
          /\ done' = k /\ unanswered' = unanswered + (k - done)
    BY <1>2 DEF HandleCmdMsg
  <2>2. done \in Nat
    BY DEF TypeOK
  <2>3. k > done => Complete(k, n)
    BY <2>1, <2>2
  <2> QED
    BY <2>1, <2>2, <2>3 DEF Complete
<1>4. UNCHANGED <<script, sent, gone, room, waiting, queued, evs, batch, arming>>
      /\ pc' = "mq1" /\ inMap' = (inMap /\ open')
      /\ interest' = (IF open' THEN interest ELSE {}) /\ ready' = (ready /\ open')
  BY DEF OnSockRead
<1>5. Used' \in 0..CAP
  <2>1. /\ script.start[done + 1] \in Nat /\ script.start[done' + 1] \in Nat
        /\ script.start[done + 1] <= script.start[done' + 1]
    BY <1>3, StartsInOrder
  <2>2. n \in Int /\ Taken <= n
    BY <1>1 DEF TypeOK
  <2>3. script.start[done' + 1] <= n
    <3>1. CASE done' = done
      BY <2>2, <3>1 DEF Taken
    <3>2. CASE done' # done
      <4>1. done' > done
        BY <1>3, <1>0, <3>2
      <4> QED
        BY <1>3, <4>1
    <3> QED
      BY <3>1, <3>2
  <2> QED
    <3>1. Used' = n - script.start[done' + 1]
      BY <1>2, <1>4 DEF Used, Taken
    <3>2. n - script.start[done + 1] <= CAP /\ script.start[done + 1] \in Nat
      BY <1>1 DEF Taken
    <3>. DEFINE a == script.start[done + 1]
                b == script.start[done' + 1]
    <3>. HIDE DEF a, b
    <3>3. a \in Nat /\ b \in Nat /\ a <= b /\ b <= n /\ n - a <= CAP /\ Used' = n - b
      BY <2>1, <2>3, <3>1, <3>2 DEF a, b
    <3> QED
      BY <2>2, <3>3
<1>6. done' \in 0..script.cmds /\ unanswered' \in Nat /\ rcvd' \in 0..sent
  <2>1. unanswered \in Nat /\ rcvd \in 0..sent /\ sent \in Nat
    BY DEF TypeOK
  <2> QED
    BY <1>1, <1>2, <1>3, <2>1, SMTT(20)
<1>7. filled' \in BOOLEAN /\ open' \in BOOLEAN
  BY <1>2 DEF TypeOK
<1>8. TypeOK'
  BY <1>4, <1>5, <1>6, <1>7 DEF TypeOK
<1>9. done' >= done
  BY <1>3
<1>10. open /\ open' /\ ~ filled' => rcvd' = sent /\ gone = "no"
  BY <1>1, <1>2 DEF StaysOpen
<1>11. ~ open => rcvd' = rcvd
  BY <1>2 DEF n
<1> QED
  BY <1>8, <1>9, <1>10, <1>11

LEMMA LoopType ==
    ASSUME TypeOK, EpollWait \/ SkipRead \/ RecvMsgs \/ OnHup
    PROVE  TypeOK'
<1>1. CASE EpollWait
  BY <1>1 DEF EpollWait, TypeOK, Used, Taken, Poll, Bit
<1>2. CASE SkipRead
  BY <1>2 DEF SkipRead, TypeOK, Used, Taken
<1>3. CASE RecvMsgs
  BY <1>3 DEF RecvMsgs, TypeOK, Used, Taken
<1>4. CASE OnHup
  BY <1>4 DEF OnHup, TypeOK, Used, Taken, Close
<1> QED
  BY <1>1, <1>2, <1>3, <1>4

LEMMA InitType == Init => TypeOK
<1>. SUFFICES ASSUME Init PROVE TypeOK
  OBVIOUS
<1>1. script \in Script /\ done = 0 /\ rcvd = 0 /\ sent = 0
  BY DEF Init
<1>2. script.cmds \in Nat /\ script.total \in Nat /\ script.start[1] = 0
  BY <1>1, ScriptType
<1>3. Used \in 0..CAP
  BY <1>1, <1>2, SizeAssumption DEF Used, Taken
<1>4. interest \subseteq Bit /\ ready \in BOOLEAN
  BY GarbageAssumption DEF Init, Bit
<1>5. sent \in 0..script.total /\ rcvd \in 0..sent /\ done \in 0..script.cmds
  BY <1>1, <1>2
<1>6. room \in 0..SNDBUF
  BY SizeAssumption DEF Init
<1> QED
  BY <1>1, <1>3, <1>4, <1>5, <1>6 DEF Init, TypeOK

LEMMA NextType == TypeOK /\ [Next]_vars => TypeOK'
<1>1. CASE UNCHANGED vars
  BY <1>1 DEF TypeOK, Used, Taken
<1> QED
  BY <1>1, WorldType, SendType, ReadType, LoopType DEF Next, Loop

\* TypeOK: in particular the receive buffer never overflows and HandleCmdMsg
\* never takes more out of it than Recv put in.
THEOREM TypeCorrect == Spec => []TypeOK
BY InitType, NextType, PTL DEF Spec

-----------------------------------------------------------------------------
(* Events.                                                                  *)

\* The events in hand are true: a hangup the loop acts on did happen.
EventsTrue == evs \cap {"HUP", "RDHUP"} # {} => gone # "no"

IInv == TypeOK /\ EventsTrue /\ NoSilentBytes /\ QueueAnnounced /\ NoWrongHangup

LEMMA InitEvents == Init => EventsTrue /\ NoSilentBytes /\ QueueAnnounced /\ NoWrongHangup
BY DEF Init, EventsTrue, NoSilentBytes, QueueAnnounced, NoWrongHangup

\* The client never takes back that it left, nor the loop an event.
LEMMA EventsTrueKept ==
    ASSUME TypeOK, EventsTrue, Next
    PROVE  EventsTrue'
<1>1. CASE EpollWait
  BY <1>1 DEF EpollWait, EventsTrue, Poll
<1>2. CASE OnHup
  BY <1>2 DEF OnHup, EventsTrue
<1>3. CASE ClientClose
  BY <1>3 DEF ClientClose, EventsTrue
<1>4. CASE \/ SkipWrite \/ WriteRemain \/ SkipRead \/ OnSockRead \/ RecvMsgs \/ HandleMsg
           \/ ResponseMod \/ ClientSend \/ ClientRead \/ ServerAnswer \/ AnswerLost
  <2>1. UNCHANGED <<evs, gone>>
    BY <1>4 DEF SkipWrite, WriteRemain, SkipRead, OnSockRead, RecvMsgs, HandleMsg,
         ResponseMod, ClientSend, ClientRead, ServerAnswer, AnswerLost
  <2> QED
    BY <2>1 DEF EventsTrue
<1> QED
  BY <1>1, <1>2, <1>3, <1>4 DEF Next, Loop, World

LEMMA NoSilentBytesKept ==
    ASSUME TypeOK, TypeOK', NoSilentBytes, Next
    PROVE  NoSilentBytes'
<1>. SUFFICES ASSUME open', sent' > rcvd' \/ gone' # "no", "IN" \in interest'
     PROVE  ready' \/ filled' \/ (pc' \in {"out", "in"} /\ "IN" \in evs')
  BY DEF NoSilentBytes
<1>1. CASE EpollWait
  <2>1. CASE ready
    <3>1. "IN" \in Poll(sent, rcvd, gone, room) /\ "IN" \in interest
      BY <1>1, <2>1 DEF EpollWait, Poll
    <3>2. "IN" \in evs'
      BY <1>1, <2>1, <3>1 DEF EpollWait, Asked
    <3> QED
      BY <1>1, <3>2 DEF EpollWait
  <2>2. CASE ~ ready
    BY <1>1, <2>2 DEF EpollWait, NoSilentBytes
  <2> QED
    BY <2>1, <2>2
<1>2. CASE SkipWrite
  BY <1>2 DEF SkipWrite, NoSilentBytes
<1>3. CASE WriteRemain
  <2>1. pc' = "in" /\ UNCHANGED <<evs, sent, rcvd, gone, filled>> /\ pc = "out"
    BY <1>3 DEF WriteRemain
  <2>2. UNCHANGED open
    BY <1>3 DEF WriteRemain, Close
  <2>3. CASE UNCHANGED epoll
    BY <2>1, <2>2, <2>3 DEF NoSilentBytes
  <2>4. CASE EpollMod({"IN"})
    <3>1. ready' = (ready \/ Poll(sent', rcvd', gone', room') \cap (interest' \cup {"HUP"}) # {})
      BY <2>4, EpollModWakes DEF Bit
    <3>2. "IN" \in Poll(sent', rcvd', gone', room')
      BY DEF Poll
    <3> QED
      BY <3>1, <3>2
  <2> QED
    BY <1>3, <2>3, <2>4 DEF WriteRemain, Close
<1>4. CASE SkipRead
  BY <1>4 DEF SkipRead, NoSilentBytes
<1>5. CASE OnSockRead
  <2>1. open
    BY <1>5 DEF OnSockRead
  <2>2. filled' \/ (rcvd' = sent /\ gone = "no")
    BY <1>5, <2>1, ReadType
  <2>3. UNCHANGED <<sent, gone>> /\ sent \in Int
    BY <1>5 DEF OnSockRead, TypeOK
  <2> QED
    BY <2>2, <2>3
<1>6. CASE RecvMsgs
  BY <1>6 DEF RecvMsgs, NoSilentBytes
<1>7. CASE OnHup
  BY <1>7 DEF OnHup, NoSilentBytes, Close
<1>8. CASE HandleMsg
  <2>1. UNCHANGED <<open, epoll, sent, rcvd, gone, filled, pc, evs>>
    BY <1>8 DEF HandleMsg, Close
  <2> QED
    BY <2>1 DEF NoSilentBytes
<1>9. CASE ResponseMod
  <2>1. ready' = (ready \/ Poll(sent', rcvd', gone', room') \cap (interest' \cup {"HUP"}) # {})
    BY <1>9, EpollModWakes DEF Bit, ResponseMod
  <2>2. "IN" \in Poll(sent', rcvd', gone', room')
    BY DEF Poll
  <2> QED
    BY <2>1, <2>2
<1>10. CASE ClientSend
  BY <1>10 DEF ClientSend, Wake, Asked
<1>11. CASE ClientRead
  BY <1>11 DEF ClientRead, Wake, NoSilentBytes
<1>12. CASE ClientClose
  BY <1>12 DEF ClientClose, Wake, Asked
<1>13. CASE ServerAnswer \/ AnswerLost
  BY <1>13 DEF ServerAnswer, AnswerLost, NoSilentBytes
<1> QED
  BY <1>1, <1>2, <1>3, <1>4, <1>5, <1>6, <1>7, <1>8, <1>9, <1>10, <1>11, <1>12, <1>13
     DEF Next, Loop, World

\* What a flush leaves is left because the socket is full.
LEMMA QueueAnnouncedKept ==
    ASSUME TypeOK, TypeOK', QueueAnnounced, Next
    PROVE  QueueAnnounced'
<1>. SUFFICES ASSUME open', queued' > 0, ~ arming', interest' # {}
     PROVE  /\ "OUT" \in interest'
            /\ ready' \/ room' = 0 \/ (pc' = "out" /\ "OUT" \in evs')
  BY DEF QueueAnnounced
<1>. USE SizeAssumption
<1>1. CASE EpollWait
  <2>1. interest' = interest /\ UNCHANGED <<open, queued, room, arming>>
    BY <1>1 DEF EpollWait
  <2>2. "OUT" \in interest /\ (ready \/ room = 0)
    BY <1>1, <2>1 DEF EpollWait, QueueAnnounced
  <2>3. CASE ready /\ room # 0
    <3>1. "OUT" \in Poll(sent, rcvd, gone, room)
      BY <2>3 DEF Poll, TypeOK
    <3>2. "OUT" \in evs'
      BY <1>1, <2>2, <2>3, <3>1 DEF EpollWait, Asked
    <3> QED
      BY <1>1, <2>1, <2>2, <3>2 DEF EpollWait
  <2>4. CASE ~ ready \/ room = 0
    BY <2>1, <2>2, <2>4
  <2> QED
    BY <2>3, <2>4
<1>2. CASE SkipWrite \/ SkipRead \/ RecvMsgs
  BY <1>2 DEF SkipWrite, SkipRead, RecvMsgs, QueueAnnounced
<1>3. CASE WriteRemain
  <2>1. /\ open /\ ~ arming /\ Flush(queued)
        /\ IF queued' = 0 THEN EpollMod({"IN"}) ELSE UNCHANGED epoll
    BY <1>3 DEF WriteRemain, Close, Idle
  <2>2. room' = 0 /\ queued > 0
    BY <2>1, FlushType DEF TypeOK
  <2>3. UNCHANGED epoll
    BY <2>1
  <2> QED
    BY <2>1, <2>2, <2>3 DEF QueueAnnounced
<1>4. CASE OnSockRead
  <2>1. open
    BY <1>4 DEF OnSockRead
  <2>2. interest' = interest /\ ready' = ready /\ pc = "in"
    BY <1>4 DEF OnSockRead, TypeOK
  <2>3. UNCHANGED <<room, queued, arming>>
    BY <1>4 DEF OnSockRead
  <2> QED
    BY <2>1, <2>2, <2>3 DEF QueueAnnounced
<1>5. CASE OnHup
  BY <1>5 DEF OnHup, Close, QueueAnnounced
<1>6. CASE HandleMsg
  <2>1. CASE UNCHANGED <<queued, room, open, arming, epoll>>
    BY <1>6, <2>1 DEF HandleMsg, QueueAnnounced
  <2>2. CASE ~ (UNCHANGED <<queued, room, open, arming, epoll>>)
    BY <1>6, <2>2 DEF HandleMsg, Close
  <2> QED
    BY <2>1, <2>2
<1>7. CASE ResponseMod
  <2>1. /\ "OUT" \in interest'
        /\ ready' = (ready \/ Poll(sent', rcvd', gone', room') \cap (interest' \cup {"HUP"}) # {})
    BY <1>7, EpollModWakes DEF Bit, ResponseMod
  <2>2. room' = 0 \/ "OUT" \in Poll(sent', rcvd', gone', room')
    BY DEF Poll, TypeOK
  <2> QED
    BY <2>1, <2>2
<1>8. CASE ClientRead
  <2>1. UNCHANGED <<open, queued, arming, interest, pc, evs>>
    BY <1>8 DEF ClientRead
  <2>2. CASE room = 0
    <3>1. "OUT" \in interest /\ open
      BY <2>1 DEF QueueAnnounced
    <3>2. Wake({"OUT"}) /\ "OUT" \in Asked(interest)
      BY <1>8, <2>2, <3>1 DEF ClientRead, Asked
    <3>3. ready'
      BY <3>1, <3>2 DEF Wake
    <3> QED
      BY <2>1, <3>1, <3>3
  <2>3. CASE room # 0
    BY <1>8, <2>1, <2>3 DEF ClientRead, QueueAnnounced
  <2> QED
    BY <2>2, <2>3
<1>9. CASE ClientSend \/ ClientClose \/ ServerAnswer \/ AnswerLost
  <2>1. UNCHANGED <<open, queued, arming, interest, room, pc, evs>>
    BY <1>9 DEF ClientSend, ClientClose, ServerAnswer, AnswerLost
  <2>2. UNCHANGED ready \/ \E events : Wake(events)
    BY <1>9 DEF ClientSend, ClientClose, ServerAnswer, AnswerLost
  <2>3. ready => ready'
    BY <2>2 DEF Wake
  <2> QED
    BY <2>1, <2>3 DEF QueueAnnounced
<1> QED
  BY <1>1, <1>2, <1>3, <1>4, <1>5, <1>6, <1>7, <1>8, <1>9 DEF Next, Loop, World

LEMMA NoWrongHangupKept ==
    ASSUME TypeOK, EventsTrue, NoWrongHangup, Next
    PROVE  NoWrongHangup'
<1>. SUFFICES ASSUME ~ open'
     PROVE  gone' # "no" \/ (done' < script'.cmds /\ script'.len[done' + 1] > CAP)
  BY DEF NoWrongHangup, TooLong
<1>. DEFINE Left == gone' # "no" \/ (done' < script'.cmds /\ script'.len[done' + 1] > CAP)
<1>1. ASSUME UNCHANGED <<script, done>>, ~ open, gone # "no" => gone' # "no"
      PROVE  Left
  BY <1>1 DEF NoWrongHangup, TooLong
<1>2. CASE EpollWait \/ SkipWrite \/ SkipRead \/ RecvMsgs \/ ResponseMod
  <2>1. UNCHANGED <<script, done, open, gone>>
    BY <1>2 DEF EpollWait, SkipWrite, SkipRead, RecvMsgs, ResponseMod
  <2> QED
    BY <1>1, <2>1
<1>3. CASE ClientSend \/ ClientRead \/ ClientClose \/ ServerAnswer \/ AnswerLost
  <2>1. UNCHANGED <<script, done, open>> /\ (gone # "no" => gone' # "no")
    BY <1>3 DEF ClientSend, ClientRead, ClientClose, ServerAnswer, AnswerLost
  <2> QED
    BY <1>1, <2>1
<1>4. CASE WriteRemain
  <2>1. UNCHANGED <<script, done, gone>> /\ (UNCHANGED open \/ ~ open \/ gone = "rst")
    BY <1>4 DEF WriteRemain
  <2> QED
    BY <1>1, <2>1
<1>5. CASE HandleMsg
  <2>1. UNCHANGED <<script, done, gone>> /\ (UNCHANGED open \/ gone = "rst")
    BY <1>5 DEF HandleMsg
  <2> QED
    BY <1>1, <2>1
<1>6. CASE OnHup
  <2>1. UNCHANGED <<script, done, gone>> /\ (UNCHANGED open \/ gone # "no")
    BY <1>6 DEF OnHup, EventsTrue
  <2> QED
    BY <1>1, <2>1
<1>7. CASE OnSockRead
  <2>. DEFINE n == IF open THEN rcvd + Read(CAP - Used, sent - rcvd) ELSE rcvd
  <2>. DEFINE full == n - Taken = CAP
  <2>1. /\ HandleCmdMsg(n) /\ UNCHANGED <<script, gone>>
        /\ open' = (open /\ StaysOpen(full) /\ ~ Rejected(n))
    BY <1>7 DEF OnSockRead
  <2>. HIDE DEF n
  <2>2. CASE open
    <3>1. CASE Rejected(n)
      BY <2>1, <3>1 DEF Rejected, TooLong
    <3>2. CASE ~ StaysOpen(full)
      BY <2>1, <3>2 DEF StaysOpen
    <3> QED
      BY <2>1, <2>2, <3>1, <3>2
  <2>3. CASE ~ open /\ gone = "no"
    <3>1. done < script.cmds /\ TooLong(done + 1) /\ done \in Nat
      BY <2>3 DEF NoWrongHangup, TypeOK
    <3>2. PICK k \in done..script.cmds :
            /\ \A j \in done + 1..k : Complete(j, n)
            /\ done' = k
      BY <2>1 DEF HandleCmdMsg
    <3>3. ~ Complete(done + 1, n)
      <4>1. script.len[done + 1] \in Nat
        <5>1. script.cmds \in Nat /\ script.len \in [1..script.cmds -> Nat]
          BY TakenType
        <5> QED
          BY <3>1, <5>1
      <4> QED
        BY <3>1, <4>1, SizeAssumption DEF Complete, TooLong
    <3>4. done' = done
      <4>1. script.cmds \in Nat
        BY TakenType
      <4> QED
        BY <3>1, <3>2, <3>3, <4>1
    <3> QED
      BY <2>1, <3>1, <3>4 DEF TooLong
  <2>4. CASE gone # "no"
    BY <2>1, <2>4
  <2> QED
    BY <2>2, <2>3, <2>4
<1> QED
  BY <1>2, <1>3, <1>4, <1>5, <1>6, <1>7 DEF Next, Loop, World

LEMMA InvKept == IInv /\ [Next]_vars => IInv'
<1>. SUFFICES ASSUME IInv, [Next]_vars PROVE IInv'
  OBVIOUS
<1>1. TypeOK'
  BY NextType DEF IInv
<1>2. CASE Next
  BY <1>1, <1>2, EventsTrueKept, NoSilentBytesKept, QueueAnnouncedKept, NoWrongHangupKept
     DEF IInv
<1>3. CASE UNCHANGED vars
  BY <1>1, <1>3 DEF IInv, EventsTrue, NoSilentBytes, QueueAnnounced, NoWrongHangup, TooLong
<1> QED
  BY <1>2, <1>3

LEMMA Invariance == Spec => []IInv
<1>1. Init => IInv
  BY InitType, InitEvents DEF IInv
<1> QED
  BY <1>1, InvKept, PTL DEF Spec

\* Edge-triggered input (task.cpp:112): the only unread bytes nothing announces
\* are those behind a full receive buffer.
THEOREM BytesAreAnnounced == Spec => []NoSilentBytes
<1>1. IInv => NoSilentBytes
  BY DEF IInv
<1> QED
  BY <1>1, Invariance, PTL

\* Edge-triggered output (task.cpp:146): Response may arm EPOLLOUT after the
\* socket has room again, and several responses may pass between two events.
THEOREM QueueIsAnnounced == Spec => []QueueAnnounced
<1>1. IInv => QueueAnnounced
  BY DEF IInv
<1> QED
  BY <1>1, Invariance, PTL

\* Terminate (task.cpp:37) is for clients that left or broke the protocol.
THEOREM HangupsAreEarned == Spec => []NoWrongHangup
<1>1. IInv => NoWrongHangup
  BY DEF IInv
<1> QED
  BY <1>1, Invariance, PTL
=============================================================================
