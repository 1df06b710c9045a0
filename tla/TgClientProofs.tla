--------------------------- MODULE TgClientProofs ---------------------------
(***************************************************************************)
(* Theorems about a chat of the client, for any number of InfoMessages.    *)
(***************************************************************************)
EXTENDS TgClient, TLAPS

(* The acks that end an exchange with the server.                          *)
FinalAcks == {"existing", "created", "failed", "started"}

(* Where the server's thread stands once a joiner is acked.                *)
Joined == {"member", "playing", "closed"}

(* Where the server owes the client a final ack.                           *)
Owing == {"joining", "entered", "creating", "starting"}

AtMostOnce(s, S) == \A i, j \in DOMAIN s : s[i] \in S /\ s[j] \in S => i = j

(* Who runs the coroutine, and what the queue and the handles hold there.  *)
Places1 ==
  /\ place \in {"none", "command", "event", "action"} <=> by = "none"
  /\ place \in AckPlaces \cup {"garbage"} => by = "poll"
  /\ isLeader => place \in {"create", "command", "startAck", "garbage"} \cup InLoop
  /\ place \in {"create", "command", "startAck", "garbage"} => isLeader
  /\ queue # 0 => queue = 1 /\ place \in {"prompt", "prompted"} /\ by = "poll" /\ uninvited
  /\ place = "action" => m_awaiter = "entry"
  /\ handler = "orphan" => quit

(* A query is in the stream, or signalled, or being answered.              *)
Query ==
  /\ AtMostOnce(inbox, {"break"})
  /\ "break" \in Range(inbox) => server = "asked" /\ ~flag
  /\ flag => server = "asked"
  /\ place \in {"action", "register"} \/ (place \in {"prompt", "prompted"} /\ queue = 0) =>
       server = "asked" /\ "break" \notin Range(inbox)
  /\ ~uninvited /\ e_awaiter = "entry" =>
       place = "event" \/ (server = "asked" /\ "break" \notin Range(inbox))

(* Which acks are in the stream.                                           *)
Acks ==
  /\ AtMostOnce(inbox, FinalAcks)
  /\ server \in Owing => Range(inbox) \cap FinalAcks = {}
  /\ place = "command" => server = "leading" /\ Range(inbox) \cap FinalAcks = {}
  /\ "created" \in Range(inbox) \/ "failed" \in Range(inbox) => server = "leading"
  /\ "existing" \in Range(inbox) => server \in Joined
  /\ place = "request" /\ "new" \in Range(inbox) => server \in {"creating", "leading"}
  /\ "eof" \in Range(inbox) => server = "closed"
  /\ place = "none" <=> server = "none"
  /\ server \in {"none", "joining"} => inbox = <<>>
  /\ server \in {"joining", "entered"} => place = "request"
  /\ place \in InLoop /\ ~isLeader =>
       server \in Joined /\ Range(inbox) \cap (FinalAcks \cup {"new"}) = {}

(* Which reads are under way.                                              *)
Reads ==
  /\ place \in {"none", "request", "create"} =>
       reads = 0 /\ taken \in {"nobody", "poll"} /\ handler # "resubscribe"
  /\ taken \in {"io", "poll"} => inbox # <<>> /\ Head(inbox) # "eof"
  /\ taken = "poll" => place \in AckPlaces

(* A joiner in the loop of turns has one read.                             *)
Subscribed ==
  Alive /\ place \in InLoop /\ server \notin {"asked", "closed"} => Readers = 1

JoinerSubscribed == ~isLeader => Subscribed /\ (Alive /\ place \in InLoop => Readers <= 1)

ChatInv ==
  /\ TypeOK
  /\ Alive => Places1 /\ Query /\ Acks /\ Reads /\ JoinerSubscribed
  /\ PatientUserIsSafe
  /\ SignalsConsumed
-----------------------------------------------------------------------------
(* What the stream holds after a message is sent.                          *)
LEMMA AppendToStream ==
  ASSUME NEW s \in Seq(Messages), NEW m \in Messages
  PROVE  /\ Append(s, m) \in Seq(Messages) /\ Append(s, m) # <<>>
         /\ Range(Append(s, m)) = Range(s) \cup {m}
         /\ s # <<>> => Head(Append(s, m)) = Head(s)
         /\ \A S : AtMostOnce(s, S) /\ (m \notin S \/ Range(s) \cap S = {})
                     => AtMostOnce(Append(s, m), S)
<1>1. /\ Append(s, m) \in Seq(Messages) /\ Append(s, m) # <<>>
      /\ DOMAIN Append(s, m) = 1 .. Len(s) + 1 /\ DOMAIN s = 1 .. Len(s) /\ Len(s) \in Nat
      /\ \A i \in 1 .. Len(s) : Append(s, m)[i] = s[i]
      /\ Append(s, m)[Len(s) + 1] = m
  OBVIOUS
<1>2. Range(Append(s, m)) = Range(s) \cup {m}
  BY <1>1 DEF Range
<1>3. s # <<>> => Head(Append(s, m)) = Head(s)
  OBVIOUS
<1>4. ASSUME NEW S, AtMostOnce(s, S), m \notin S \/ Range(s) \cap S = {}
      PROVE  AtMostOnce(Append(s, m), S)
  BY <1>1, <1>4 DEF AtMostOnce, Range
<1>5. QED
  BY <1>1, <1>2, <1>3, <1>4

(* What it holds after one is read.                                        *)
LEMMA TailOfStream ==
  ASSUME NEW s \in Seq(Messages), s # <<>>
  PROVE  /\ Tail(s) \in Seq(Messages) /\ Head(s) \in Messages
         /\ Head(s) \in Range(s) /\ Range(Tail(s)) \subseteq Range(s)
         /\ \A S : AtMostOnce(s, S) =>
              AtMostOnce(Tail(s), S) /\ (Head(s) \in S => Range(Tail(s)) \cap S = {})
<1>1. /\ Tail(s) \in Seq(Messages) /\ Head(s) \in Messages
      /\ DOMAIN s = 1 .. Len(s) /\ Len(s) \in Nat \ {0}
      /\ DOMAIN Tail(s) = 1 .. Len(s) - 1
      /\ \A i \in 1 .. Len(s) - 1 : Tail(s)[i] = s[i + 1]
      /\ Head(s) = s[1]
  OBVIOUS
<1>2. Head(s) \in Range(s) /\ Range(Tail(s)) \subseteq Range(s)
  BY <1>1 DEF Range
<1>3. ASSUME NEW S, AtMostOnce(s, S)
      PROVE  AtMostOnce(Tail(s), S) /\ (Head(s) \in S => Range(Tail(s)) \cap S = {})
  BY <1>1, <1>3 DEF AtMostOnce, Range
<1>4. QED
  BY <1>1, <1>2, <1>3

LEMMA EmptyStream ==
  /\ <<>> \in Seq(Messages) /\ Range(<<>>) = {}
  /\ \A S : AtMostOnce(<<>>, S)
BY DEF Range, AtMostOnce
-----------------------------------------------------------------------------
LEMMA ChatInit == Init => ChatInv
<1> SUFFICES ASSUME Init PROVE ChatInv
  OBVIOUS
<1> USE DEF Init, InLoop, Asking, AckPlaces
<1>1. inbox \in Seq(Messages) /\ Range(inbox) = {} /\ \A S : AtMostOnce(inbox, S)
  BY EmptyStream
<1>2. TypeOK
  BY <1>1, TgClientAssumption DEF TypeOK, Places
<1>3. Places1 /\ Reads /\ JoinerSubscribed
  BY DEF Places1, Reads, JoinerSubscribed, Subscribed
<1>4. Query /\ Acks
  BY <1>1 DEF Query, Acks, Owing
<1>5. QED
  BY <1>2, <1>3, <1>4 DEF ChatInv, PatientUserIsSafe, SignalsConsumed, Alive

(* A message of the server.                                                *)
LEMMA SendStep ==
  ASSUME ChatInv, NEW from, NEW msg \in Messages, NEW to, Send(from, msg, to),
         infos' \in Nat,
         <<from, msg, to>> \in RequestReplies \cup StartReplies \cup TurnQuery
           \/ (msg = "info" /\ to = from /\ from \in Informed)
           \/ (msg = "eof" /\ to = "closed" /\ from \in {"member", "first", "playing"})
  PROVE  ChatInv'
<1>1. /\ inbox' \in Seq(Messages) /\ inbox' # <<>>
      /\ Range(inbox') = Range(inbox) \cup {msg}
      /\ inbox # <<>> => Head(inbox') = Head(inbox)
      /\ \A S : AtMostOnce(inbox, S) /\ (msg \notin S \/ Range(inbox) \cap S = {})
                  => AtMostOnce(inbox', S)
  BY AppendToStream DEF ChatInv, TypeOK, Send
<1>2. Range(<<>>) = {}
  BY EmptyStream
<1> USE DEF ChatInv, Send, Alive, frame, awaiters, socket, user, Informed
<1>3. TypeOK'
  BY <1>1 DEF TypeOK, RequestReplies, StartReplies, TurnQuery
<1>4. Places1' /\ JoinerSubscribed'
  BY <1>1 DEF Places1, JoinerSubscribed, Subscribed, Readers, InLoop, RequestReplies, StartReplies, TurnQuery, Acks, Joined
<1>5. Query'
  BY <1>1 DEF Query, RequestReplies, StartReplies, TurnQuery
<1>6. Acks'
  BY <1>1, <1>2 DEF Acks, FinalAcks, Joined, Owing, InLoop, RequestReplies, StartReplies, TurnQuery
<1>7. Reads'
  BY <1>1 DEF Reads
<1>8. QED
  BY <1>3, <1>4, <1>5, <1>6, <1>7 DEF PatientUserIsSafe, SignalsConsumed

(* Any step of the server.                                                 *)
LEMMA ServerStep == ChatInv /\ (Reply \/ Server) => ChatInv'
<1> SUFFICES ASSUME ChatInv, Reply \/ Server PROVE ChatInv'
  OBVIOUS
<1>1. infos \in Nat
  BY DEF ChatInv, TypeOK
<1>2. CASE Reply
  <2>1. PICK r \in RequestReplies \cup StartReplies : Send(r[1], r[2], r[3])
    BY <1>2 DEF Reply
  <2>2. r = <<r[1], r[2], r[3]>> /\ r[2] \in Messages /\ infos' \in Nat
    BY <1>1, <1>2 DEF RequestReplies, StartReplies, Messages, Reply
  <2>3. QED
    BY <2>1, <2>2, SendStep
<1>3. CASE Ask
  <2>1. PICK r \in TurnQuery : Send(r[1], r[2], r[3])
    BY <1>3 DEF Ask
  <2>2. r = <<r[1], r[2], r[3]>> /\ r[2] \in Messages /\ infos' \in Nat
    BY <1>1, <1>3 DEF TurnQuery, Messages, Ask
  <2>3. QED
    BY <2>1, <2>2, SendStep
<1>4. CASE Inform
  <2>1. infos' \in Nat /\ "info" \in Messages
    BY <1>1, <1>4 DEF Inform, Messages
  <2>2. QED
    BY <1>4, <2>1, SendStep DEF Inform
<1>5. CASE Hangup
  <2>1. infos' \in Nat /\ "eof" \in Messages
    BY <1>1, <1>5 DEF Hangup, Messages
  <2>2. QED
    BY <1>5, <2>1, SendStep DEF Hangup
<1>6. CASE EnterSession \/ EnterGame
  <2> USE <1>6 DEF EnterSession, EnterGame, Alive, frame, awaiters, socket, user, ChatInv
  <2>1. TypeOK' /\ Places1' /\ Query' /\ Reads'
    BY DEF TypeOK, Places1, Query, Reads
  <2>2. Acks' /\ JoinerSubscribed'
    BY EmptyStream DEF Acks, JoinerSubscribed, Subscribed, Readers, Joined, Owing, InLoop, Asking
  <2>3. QED
    BY <2>1, <2>2 DEF PatientUserIsSafe, SignalsConsumed
<1>7. QED
  BY <1>2, <1>3, <1>4, <1>5, <1>6 DEF Server
-----------------------------------------------------------------------------
(* clientEntry is resumed, by a message or by the event.                   *)
LEMMA UserStep == ChatInv /\ User => ChatInv'
<1> SUFFICES ASSUME ChatInv, User PROVE ChatInv'
  OBVIOUS
<1> USE DEF ChatInv, Alive, frame, awaiters, socket, stream, user, InLoop, Asking, AckPlaces
<1>1. CASE FirstMessage
  <2> USE <1>1 DEF FirstMessage, Fresh
  <2>1. inbox' = <<>> /\ inbox' \in Seq(Messages) /\ Range(inbox') = {} /\ \A S : AtMostOnce(inbox', S)
    BY EmptyStream
  <2>2. TypeOK'
    BY <2>1, TgClientAssumption DEF TypeOK, Places
  <2>3. Places1' /\ Reads' /\ JoinerSubscribed'
    BY DEF Places1, Reads, JoinerSubscribed, Subscribed
  <2>4. Query' /\ Acks'
    BY <2>1 DEF Query, Acks, Owing
  <2>5. QED
    BY <2>2, <2>3, <2>4 DEF PatientUserIsSafe, SignalsConsumed
<1>2. CASE StartCommand
  <2> USE <1>2 DEF StartCommand, CancelRead
  <2>1. TypeOK'
    BY DEF TypeOK, Places
  <2>2. Places1' /\ Reads' /\ JoinerSubscribed'
    BY DEF Places1, Reads, JoinerSubscribed, Subscribed
  <2>3. Query' /\ Acks'
    BY DEF Query, Acks, Owing, FinalAcks, Joined
  <2>4. QED
    BY <2>1, <2>2, <2>3 DEF PatientUserIsSafe, SignalsConsumed
<1>3. CASE ChatMessage
  <2>1. /\ place \in InLoop /\ by # "poll" /\ UNCHANGED <<socket, stream, quit>>
        /\ uninvited' = (uninvited \/ place \notin {"action"} \cup Asking)
        /\ hasty' = (hasty \/ place \in Asking)
        /\ fault = "none" /\ queue \in Nat
        /\ place \in {"event", "action"} <=> by = "none"
    BY <1>3 DEF ChatMessage, TypeOK, Places1
  <2>2. CASE fault' # "none" /\ UNCHANGED <<frame, awaiters>>
    <3>1. fault' \in {"dangling", "twice"} /\ place # "action"
      BY <1>3, <2>1, <2>2 DEF ChatMessage, Resume, Places1
    <3>2. uninvited' \/ hasty'
      BY <2>1, <3>1
    <3>3. uninvited' \in BOOLEAN /\ hasty' \in BOOLEAN /\ quit' \in BOOLEAN
      BY <2>1 DEF TypeOK
    <3>4. TypeOK'
      BY <2>1, <2>2, <3>1, <3>3 DEF TypeOK
    <3>5. QED
      BY <2>2, <3>1, <3>2, <3>4 DEF PatientUserIsSafe, SignalsConsumed
  <2>3. CASE place = "event" /\ place' = "prompt" /\ by' = "poll" /\ queue' = queue + 1
             /\ flag' = FALSE /\ UNCHANGED <<m_awaiter, e_awaiter, isLeader, fault>>
    <3>0. uninvited' = TRUE
      BY <2>1, <2>3
    <3> USE <2>1, <2>3, <3>0
    <3>1. TypeOK'
      <4>1. flag' \in BOOLEAN
        BY <2>3
      <4>2. queue' \in Nat /\ place' \in Places /\ by' \in {"none", "poll", "io"}
        BY DEF Places
      <4>3. QED
        BY <4>1, <4>2 DEF TypeOK
    <3>2. Places1'
      BY DEF Places1
    <3>3. Reads' /\ JoinerSubscribed'
      BY DEF Reads, JoinerSubscribed, Subscribed, Readers
    <3>4. Query' /\ Acks'
      BY DEF Query, Acks, Owing, Places1
    <3>5. QED
      BY <3>1, <3>2, <3>3, <3>4 DEF PatientUserIsSafe, SignalsConsumed
  <2>4. CASE place = "action" /\ place' = "loop" /\ by' = "poll" /\ queue' = queue
             /\ flag' = flag /\ UNCHANGED <<m_awaiter, e_awaiter, isLeader, fault>>
    <3> USE <2>1, <2>4
    <3>1. TypeOK'
      BY DEF TypeOK, Places
    <3>2. Places1'
      BY DEF Places1
    <3>3. Reads' /\ JoinerSubscribed'
      BY DEF Reads, JoinerSubscribed, Subscribed, Readers
    <3>4. Query' /\ Acks'
      BY DEF Query, Acks, Owing, Places1
    <3>5. QED
      BY <3>1, <3>2, <3>3, <3>4 DEF PatientUserIsSafe, SignalsConsumed
  <2>5. \/ fault' # "none" /\ UNCHANGED <<frame, awaiters>>
        \/ /\ place = "event" /\ place' = "prompt" /\ by' = "poll" /\ queue' = queue + 1
           /\ flag' = FALSE /\ UNCHANGED <<m_awaiter, e_awaiter, isLeader, fault>>
        \/ /\ place = "action" /\ place' = "loop" /\ by' = "poll" /\ queue' = queue
           /\ flag' = flag /\ UNCHANGED <<m_awaiter, e_awaiter, isLeader, fault>>
    BY <1>3 DEF ChatMessage, Resume, TypeOK
  <2>6. QED
    BY <2>2, <2>3, <2>4, <2>5
<1>4. CASE Quit
  <2>1. CASE by = "none"
    <3>0. Destroy /\ UNCHANGED <<fault, uninvited, hasty>> /\ quit' = TRUE
      BY <1>4, <2>1 DEF Quit
    <3> USE <3>0 DEF Destroy, Fresh
    <3>1. inbox' = <<>> /\ inbox' \in Seq(Messages) /\ Range(inbox') = {} /\ \A S : AtMostOnce(inbox', S)
      BY EmptyStream
    <3>2. TypeOK'
      <4>1. uninvited' \in BOOLEAN /\ hasty' \in BOOLEAN /\ quit' \in BOOLEAN
        <5>1. uninvited \in BOOLEAN /\ hasty \in BOOLEAN
          BY DEF TypeOK
        <5>2. QED
          BY <3>0, <5>1
      <4>2. isLeader' \in BOOLEAN /\ flag' \in BOOLEAN
        BY <3>0
      <4>3. handler' \in {"idle", "resubscribe", "orphan", "dead"} /\ fault' = fault
        BY DEF TypeOK
      <4>4. place' \in Places /\ infos' \in Nat
        BY TgClientAssumption DEF Places
      <4>5. QED
        BY <3>1, <4>1, <4>2, <4>3, <4>4 DEF TypeOK
    <3>3. Places1' /\ Reads' /\ JoinerSubscribed'
      BY DEF Places1, Reads, JoinerSubscribed, Subscribed
    <3>4. Query' /\ Acks'
      BY <3>1 DEF Query, Acks, Owing
    <3>5. fault' = "none"
      BY <1>4, <3>0 DEF Quit
    <3>6. QED
      BY <3>2, <3>3, <3>4, <3>5 DEF PatientUserIsSafe, SignalsConsumed
  <2>2. CASE by # "none"
    BY <1>4, <2>2 DEF Quit, Die, TypeOK, PatientUserIsSafe, SignalsConsumed
  <2>3. QED
    BY <2>1, <2>2
<1>5. QED
  BY <1>1, <1>2, <1>3, <1>4 DEF User
-----------------------------------------------------------------------------
(* The coroutine reads an ack.                                             *)
LEMMA ReadAckStep == ChatInv /\ ReadAcks => ChatInv'
<1> SUFFICES ASSUME ChatInv, ReadAcks PROVE ChatInv'
  OBVIOUS
<1> USE DEF ChatInv, Alive, frame, awaiters, socket, stream, user, InLoop, Asking, AckPlaces
<1>1. ASSUME inbox # <<>>
      PROVE  /\ Tail(inbox) \in Seq(Messages) /\ Head(inbox) \in Range(inbox)
             /\ Range(Tail(inbox)) \subseteq Range(inbox)
             /\ \A S : AtMostOnce(inbox, S) =>
                  AtMostOnce(Tail(inbox), S)
                  /\ (Head(inbox) \in S => Range(Tail(inbox)) \cap S = {})
  BY <1>1, TailOfStream DEF TypeOK
<1>2. ASSUME NEW at \in AckPlaces, NEW msg \in Messages, ReadAck(at, msg),
             \/ at = "request" /\ msg = "existing" /\ SubscribeAndGoOn
             \/ at = "startAck" /\ msg = "started" /\ SubscribeAndGoOn
             \/ at = "create" /\ msg = "created" /\ AwaitStartCommand
             \/ at = "startAck" /\ msg = "failed" /\ AwaitStartCommand
             \/ /\ at = "request" /\ msg = "new"
                /\ place' = "create" /\ isLeader' = TRUE
                /\ UNCHANGED <<by, m_awaiter, reads>>
      PROVE  ChatInv'
  <2> USE <1>2 DEF ReadAck, ReadBody
  <2>0. inbox # <<>>
    BY DEF Reads
  <2>1. /\ inbox' \in Seq(Messages) /\ msg \in Range(inbox) /\ Range(inbox') \subseteq Range(inbox)
        /\ \A S : AtMostOnce(inbox, S) =>
             AtMostOnce(inbox', S) /\ (msg \in S => Range(inbox') \cap S = {})
    BY <1>1, <2>0
  <2>2. TypeOK'
    <3>1. CASE SubscribeAndGoOn
      BY <2>1, <3>1 DEF TypeOK, Places, SubscribeAndGoOn
    <3>2. CASE AwaitStartCommand
      BY <2>1, <3>2 DEF TypeOK, Places, AwaitStartCommand
    <3>3. CASE place' = "create" /\ isLeader' = TRUE /\ UNCHANGED <<by, m_awaiter, reads>>
      BY <2>1, <3>3 DEF TypeOK, Places
    <3>4. QED
      BY <3>1, <3>2, <3>3
  <2>3. Places1' /\ Reads' /\ JoinerSubscribed'
    BY DEF Places1, Reads, JoinerSubscribed, Subscribed, Readers, TypeOK, SubscribeAndGoOn, AwaitStartCommand
  <2>4. Query'
    BY <2>1 DEF Query, Places1, SubscribeAndGoOn, AwaitStartCommand
  <2>5. Acks'
    BY <2>1 DEF Acks, Owing, FinalAcks, Joined, Places1, SubscribeAndGoOn, AwaitStartCommand
  <2>6. QED
    BY <2>2, <2>3, <2>4, <2>5 DEF PatientUserIsSafe, SignalsConsumed
<1>3. CASE JoinedExisting
  BY <1>2, <1>3 DEF JoinedExisting, Messages
<1>4. CASE JoinedNew
  BY <1>2, <1>4 DEF JoinedNew, Messages
<1>5. CASE SessionCreated
  BY <1>2, <1>5 DEF SessionCreated, Messages
<1>6. CASE StartFailed
  BY <1>2, <1>6 DEF StartFailed, Messages
<1>7. CASE StartSucceeded
  BY <1>2, <1>7 DEF StartSucceeded, Messages
<1>8. CASE MisreadAck
  <2> USE <1>8 DEF MisreadAck, Destroy, Fresh
  <2>1. inbox' = <<>> /\ inbox' \in Seq(Messages) /\ Range(inbox') = {} /\ \A S : AtMostOnce(inbox', S)
    BY EmptyStream
  <2>2. TypeOK'
    BY <2>1, TgClientAssumption DEF TypeOK, Places
  <2>3. Places1' /\ Reads' /\ JoinerSubscribed'
    BY DEF Places1, Reads, JoinerSubscribed, Subscribed
  <2>4. Query' /\ Acks'
    BY <2>1 DEF Query, Acks, Owing
  <2>5. QED
    BY <2>2, <2>3, <2>4 DEF PatientUserIsSafe, SignalsConsumed
<1>9. CASE LeaderTaskFails
  <2>1. /\ fault = "none" /\ by = "poll" /\ place \in {"startAck", "garbage"} /\ place' = "loop"
        /\ UNCHANGED <<by, isLeader, awaiters, reads, handler, server, infos, user, fault>>
        /\ isLeader /\ taken' \in {"nobody", "torn"}
    BY <1>9 DEF LeaderTaskFails, ReadBody, Places1
  <2>2. /\ inbox' \in Seq(Messages) /\ Range(inbox') \subseteq Range(inbox)
        /\ \A S : AtMostOnce(inbox, S) => AtMostOnce(inbox', S)
    <3>1. CASE UNCHANGED inbox
      BY <3>1 DEF TypeOK
    <3>2. CASE inbox' = Tail(inbox) /\ taken = "poll"
      BY <1>1, <2>1, <3>2 DEF Reads
    <3>3. QED
      BY <1>9, <3>1, <3>2 DEF LeaderTaskFails, ReadBody
  <2> USE <2>1, <2>2
  <2>3. TypeOK'
    BY DEF TypeOK, Places
  <2>4. Places1' /\ Reads' /\ JoinerSubscribed'
    BY DEF Places1, Reads, JoinerSubscribed
  <2>5. Query'
    BY DEF Query, Places1
  <2>6. Acks'
    BY DEF Acks, Owing, FinalAcks, Joined, Places1
  <2>7. QED
    BY <2>3, <2>4, <2>5, <2>6 DEF PatientUserIsSafe, SignalsConsumed
<1>10. CASE ReadTorn
  <2> USE <1>10 DEF ReadTorn
  <2>1. TypeOK'
    BY DEF TypeOK, Places
  <2>2. Places1' /\ Reads' /\ JoinerSubscribed'
    BY DEF Places1, Reads, JoinerSubscribed, Subscribed
  <2>3. Query' /\ Acks'
    BY DEF Query, Acks, Owing
  <2>4. QED
    BY <2>1, <2>2, <2>3 DEF PatientUserIsSafe, SignalsConsumed
<1>11. CASE ReadLength
  <2> USE <1>11 DEF ReadLength, Tear
  <2>1. TypeOK'
    BY DEF TypeOK
  <2>2. Places1' /\ Query' /\ Acks'
    BY DEF Places1, Query, Acks
  <2>3. Reads' /\ JoinerSubscribed'
    BY DEF Reads, JoinerSubscribed, Subscribed
  <2>4. QED
    BY <2>1, <2>2, <2>3 DEF PatientUserIsSafe, SignalsConsumed
<1>12. QED
  BY <1>3, <1>4, <1>5, <1>6, <1>7, <1>8, <1>9, <1>10, <1>11 DEF ReadAcks
-----------------------------------------------------------------------------
(* The loop of turns.                                                      *)
LEMMA TurnsStep == ChatInv /\ Turns => ChatInv'
<1> SUFFICES ASSUME ChatInv, Turns PROVE ChatInv'
  OBVIOUS
<1> USE DEF ChatInv, Alive, socket, stream, user, InLoop, Asking, AckPlaces
<1>1. CASE CheckSignal
  <2> USE <1>1 DEF CheckSignal
  <2>1. TypeOK'
    <3>1. flag' \in BOOLEAN
      BY DEF CheckSignal
    <3>2. place' \in Places
      BY DEF Places
    <3>3. QED
      BY <3>1, <3>2 DEF TypeOK
  <2>2. Places1'
    BY DEF Places1
  <2>3. Reads' /\ JoinerSubscribed'
    BY DEF Reads, JoinerSubscribed, Subscribed, Readers
  <2>4. Query' /\ Acks'
    BY DEF Query, Acks, Owing, Places1
  <2>5. QED
    BY <2>1, <2>2, <2>3, <2>4 DEF PatientUserIsSafe, SignalsConsumed
<1>2. CASE SuspendOnEvent
  <2> USE <1>2 DEF SuspendOnEvent
  <2>1. TypeOK'
    BY DEF TypeOK, Places
  <2>2. Places1'
    BY DEF Places1
  <2>3. Reads' /\ JoinerSubscribed'
    BY DEF Reads, JoinerSubscribed, Subscribed, Readers
  <2>4. Query' /\ Acks'
    BY DEF Query, Acks, Owing, Places1
  <2>5. QED
    BY <2>1, <2>2, <2>3, <2>4 DEF PatientUserIsSafe, SignalsConsumed
<1>3. CASE PromptAction
  <2> USE <1>3 DEF PromptAction, awaiters
  <2>1. TypeOK'
    BY DEF TypeOK, Places
  <2>2. Places1'
    BY DEF Places1, TypeOK
  <2>3. Reads' /\ JoinerSubscribed'
    BY DEF Reads, JoinerSubscribed, Subscribed, Readers
  <2>4. Query' /\ Acks'
    BY DEF Query, Acks, Owing, Places1, TypeOK
  <2>5. QED
    BY <2>1, <2>2, <2>3, <2>4 DEF PatientUserIsSafe, SignalsConsumed
<1>4. CASE CheckQueue
  <2> USE <1>4 DEF CheckQueue, TakeAction
  <2>1. TypeOK'
    BY DEF TypeOK, Places
  <2>2. Places1'
    BY DEF Places1, TypeOK
  <2>3. Reads' /\ JoinerSubscribed'
    BY DEF Reads, JoinerSubscribed, Subscribed, Readers
  <2>4. Query' /\ Acks'
    BY DEF Query, Acks, Owing, Places1, TypeOK
  <2>5. QED
    BY <2>1, <2>2, <2>3, <2>4 DEF PatientUserIsSafe, SignalsConsumed
<1>5. CASE SuspendOnAction
  <2> USE <1>5 DEF SuspendOnAction, AwaitAction
  <2>1. TypeOK'
    BY DEF TypeOK, Places
  <2>2. Places1'
    BY DEF Places1, TypeOK
  <2>3. Reads' /\ JoinerSubscribed'
    BY DEF Reads, JoinerSubscribed, Subscribed, Readers
  <2>4. Query' /\ Acks'
    BY DEF Query, Acks, Owing, Places1, TypeOK
  <2>5. QED
    BY <2>1, <2>2, <2>3, <2>4 DEF PatientUserIsSafe, SignalsConsumed
<1>6. QED
  BY <1>1, <1>2, <1>3, <1>4, <1>5 DEF Turns

(* The handler of a read.                                                  *)
LEMMA HandlersStep == ChatInv /\ Handlers => ChatInv'
<1> SUFFICES ASSUME ChatInv, Handlers PROVE ChatInv'
  OBVIOUS
<1> USE DEF ChatInv, Alive, frame, awaiters, socket, stream, user, InLoop, Asking, AckPlaces
<1>1. ASSUME inbox # <<>>
      PROVE  /\ Tail(inbox) \in Seq(Messages) /\ Head(inbox) \in Range(inbox)
             /\ Head(inbox) \in Messages
             /\ Range(Tail(inbox)) \subseteq Range(inbox)
             /\ \A S : AtMostOnce(inbox, S) =>
                  AtMostOnce(Tail(inbox), S)
                  /\ (Head(inbox) \in S => Range(Tail(inbox)) \cap S = {})
  BY <1>1, TailOfStream DEF TypeOK
<1>2. CASE TakeHeader
  <2>0. /\ fault = "none" /\ handler = "idle" /\ reads > 0 /\ inbox # <<>>
        /\ reads' = reads - 1
        /\ UNCHANGED <<frame, awaiters, stream, user, fault>>
    BY <1>2 DEF TakeHeader, Polling
  <2>1. TypeOK'
    BY <1>2, <2>0 DEF TakeHeader, Tear, TypeOK
  <2>2. Places1' /\ Query' /\ Acks'
    BY <1>2, <2>0 DEF TakeHeader, Tear, Places1, Query, Acks
  <2>3. Reads'
    BY <1>2, <2>0 DEF TakeHeader, Tear, Reads, TypeOK
  <2>4. JoinerSubscribed'
    <3>1. CASE taken = "nobody" /\ Head(inbox) = "eof"
      <4>1. server = "closed" /\ taken' = "nobody" /\ handler' = handler
        BY <1>1, <1>2, <2>0, <3>1 DEF TakeHeader, Tear, Acks
      <4>2. QED
        BY <2>0, <3>1, <4>1 DEF JoinerSubscribed, Subscribed, Readers, TypeOK
    <3>2. CASE taken = "nobody" /\ Head(inbox) # "eof"
      <4>1. taken' = "io" /\ handler' = handler
        BY <1>2, <3>2 DEF TakeHeader, Tear
      <4>2. QED
        BY <2>0, <3>2, <4>1 DEF JoinerSubscribed, Subscribed, Readers, TypeOK
    <3>3. CASE taken # "nobody"
      <4>1. isLeader \/ place \notin InLoop
        BY <1>2, <2>0, <3>3 DEF TakeHeader, Tear, JoinerSubscribed, Readers, Reads, TypeOK
      <4>2. QED
        BY <2>0, <4>1 DEF JoinerSubscribed, Subscribed
    <3>4. QED
      BY <3>1, <3>2, <3>3
  <2>5. QED
    BY <2>0, <2>1, <2>2, <2>3, <2>4 DEF PatientUserIsSafe, SignalsConsumed
<1>3. CASE RunHandler
  <2>1. /\ fault = "none" /\ handler = "idle" /\ by # "io" /\ taken = "io" /\ inbox # <<>>
        /\ taken' = "nobody" /\ inbox' = Tail(inbox)
        /\ UNCHANGED <<reads, server, infos, user>>
    BY <1>3 DEF RunHandler, Polling, Reads
  <2>2. /\ inbox' \in Seq(Messages) /\ Head(inbox) \in Range(inbox)
        /\ Range(inbox') \subseteq Range(inbox)
        /\ \A S : AtMostOnce(inbox, S) =>
             AtMostOnce(inbox', S) /\ (Head(inbox) \in S => Range(inbox') \cap S = {})
    BY <1>1, <2>1
  <2> USE <2>1, <2>2
  <2>3. CASE Head(inbox) # "break"
    <3>1. /\ handler' = IF Head(inbox) = "info" THEN "resubscribe" ELSE "dead"
          /\ UNCHANGED <<frame, awaiters, fault>>
      BY <1>3, <2>3 DEF RunHandler, HandleInfo
    <3> USE <2>3, <3>1
    <3>2. TypeOK'
      BY DEF TypeOK
    <3>3. Places1' /\ Query'
      BY DEF Places1, Query
    <3>4. Acks'
      BY DEF Acks, Owing, FinalAcks, Joined
    <3>5. Reads' /\ JoinerSubscribed'
      BY <1>1 DEF Reads, JoinerSubscribed, Subscribed, Readers, TypeOK, Acks, Messages, FinalAcks
    <3>6. QED
      BY <3>2, <3>3, <3>4, <3>5 DEF PatientUserIsSafe, SignalsConsumed
  <2>4. CASE Head(inbox) = "break"
    <3>1. Set /\ UNCHANGED handler
      BY <1>3, <2>4 DEF RunHandler, HandleInfo
    <3>2. server = "asked" /\ ~flag /\ "break" \notin Range(inbox')
      BY <2>4 DEF Query
    <3>3. place # "action"
      BY <2>4 DEF Query
    <3>4. TypeOK'
      <4>1. /\ place' \in Places /\ by' \in {"none", "poll", "io"} /\ queue' = queue
            /\ fault' \in {"none", "twice"}
            /\ UNCHANGED <<m_awaiter, e_awaiter, isLeader>>
        BY <3>1, <3>2, <3>3 DEF TypeOK, Places, Set, Resume
      <4>2. flag' = TRUE \/ flag' = FALSE
        BY <3>1, <3>2, <3>3 DEF TypeOK, Set, Resume
      <4>3. taken' \in {"nobody", "io", "poll", "torn"} /\ inbox' \in Seq(Messages)
        BY <1>3, <2>4 DEF RunHandler, TypeOK
      <4>4. UNCHANGED <<reads, server, infos, handler, uninvited, hasty, quit>>
        BY <1>3, <3>1 DEF RunHandler, user
      <4>5. /\ isLeader' \in BOOLEAN /\ flag' \in BOOLEAN /\ queue' \in Nat
            /\ m_awaiter' \in {"null", "entry", "task"} /\ e_awaiter' \in {"null", "entry"}
            /\ uninvited' \in BOOLEAN /\ hasty' \in BOOLEAN /\ quit' \in BOOLEAN
        BY <4>1, <4>2, <4>4 DEF TypeOK
      <4>6. QED
        BY <4>1, <4>3, <4>4, <4>5 DEF TypeOK
    <3>5. CASE e_awaiter = "null"
      <4>1. flag' = TRUE /\ UNCHANGED <<frame, queue, m_awaiter, e_awaiter, fault>>
        BY <3>1, <3>2, <3>5 DEF Set
      <4> USE <3>1, <3>2, <4>1
      <4>2. Places1' /\ Query'
        BY DEF Places1, Query
      <4>3. Acks' /\ Reads' /\ JoinerSubscribed'
        BY DEF Acks, Reads, JoinerSubscribed, Subscribed, Readers, Owing, FinalAcks, Joined, TypeOK
      <4>4. QED
        BY <3>4, <4>2, <4>3 DEF PatientUserIsSafe, SignalsConsumed
    <3>6. CASE e_awaiter # "null" /\ by # "none"
      <4>1. uninvited
        BY <2>4, <3>2, <3>6 DEF Query, Places1, TypeOK
      <4>2. fault' = "twice" /\ UNCHANGED <<frame, awaiters>>
        BY <3>1, <3>2, <3>6 DEF Set, Resume
      <4>3. QED
        BY <3>1, <3>4, <4>1, <4>2 DEF PatientUserIsSafe, SignalsConsumed
    <3>7. CASE e_awaiter # "null" /\ by = "none"
      <4>1. /\ place = "event" /\ flag' = FALSE /\ queue' = queue
            /\ place' = "prompt" /\ by' = "io"
            /\ UNCHANGED <<m_awaiter, e_awaiter, isLeader, fault>>
        BY <3>1, <3>2, <3>3, <3>7 DEF Set, Resume
      <4> USE <3>1, <3>2, <4>1
      <4>2. Places1' /\ Query'
        BY DEF Places1, Query
      <4>3. Acks' /\ Reads' /\ JoinerSubscribed'
        BY DEF Acks, Reads, JoinerSubscribed, Subscribed, Readers, Owing, FinalAcks, Joined, TypeOK
      <4>4. QED
        BY <3>4, <4>2, <4>3 DEF PatientUserIsSafe, SignalsConsumed
    <3>8. QED
      BY <3>5, <3>6, <3>7
  <2>5. QED
    BY <2>3, <2>4
<1>4. CASE Resubscribe
  <2> USE <1>4 DEF Resubscribe
  <2>1. TypeOK'
    BY DEF TypeOK
  <2>2. Places1' /\ Query' /\ Acks'
    BY DEF Places1, Query, Acks
  <2>3. Reads' /\ JoinerSubscribed'
    BY DEF Reads, JoinerSubscribed, Subscribed, Readers, TypeOK
  <2>4. QED
    BY <2>1, <2>2, <2>3 DEF PatientUserIsSafe, SignalsConsumed
<1>5. CASE RunOrphan
  BY <1>5 DEF RunOrphan, Die, TypeOK, Places1, PatientUserIsSafe, SignalsConsumed
<1>6. QED
  BY <1>2, <1>3, <1>4, <1>5 DEF Handlers

LEMMA ChatStep == ChatInv /\ [Next]_vars => ChatInv'
<1>1. ASSUME ChatInv, UNCHANGED vars PROVE ChatInv'
  BY <1>1 DEF ChatInv, vars, frame, awaiters, socket, stream, user, Alive, TypeOK, Places1, Query,
              Acks, Reads, Readers, JoinerSubscribed, Subscribed, PatientUserIsSafe, SignalsConsumed
<1>2. QED
  BY <1>1, UserStep, ReadAckStep, TurnsStep, HandlersStep, ServerStep DEF Next, Finished

-----------------------------------------------------------------------------
(***************************************************************************)
(* The leader that nothing disturbs.                                       *)
(***************************************************************************)

(* The acks of a connection that comes to lead, in their order.            *)
Leading ==
  /\ place = "request" => server \notin {"starting", "first", "asked"}
  /\ place = "create" => server \in {"creating", "leading"}
  /\ place \in {"request", "create"} => Range(inbox) \cap {"failed", "started"} = {}
  /\ AtMostOnce(inbox, {"new"})
  /\ isLeader => "new" \notin Range(inbox)

(* Without InfoMessages the only message at the leader's prompt is none,   *)
(* and the first one after its command the ack of that.                    *)
Calm ==
  /\ "info" \notin Range(inbox) /\ handler # "resubscribe" /\ place # "garbage"
  /\ place = "command" => Range(inbox) = {} /\ taken = "nobody"
  /\ place = "startAck" =>
       /\ reads = 0 /\ taken \in {"nobody", "poll"}
       /\ \/ inbox = <<>> /\ server = "starting"
          \/ inbox # <<>> /\ Head(inbox) \in {"failed", "started"}
  /\ isLeader /\ place \in InLoop =>
       /\ server \notin Owing /\ Range(inbox) \cap FinalAcks = {}
       /\ taken # "torn" /\ Readers <= 1
       /\ server \notin {"asked", "closed"} => Readers = 1

LeaderInv ==
  /\ infos <= MaxInfos
  /\ Alive => Leading /\ (infos = MaxInfos => Calm)

LEMMA LeaderInit == Init => LeaderInv
<1> SUFFICES ASSUME Init PROVE LeaderInv
  OBVIOUS
<1>1. Range(inbox) = {} /\ AtMostOnce(inbox, {"new"})
  BY EmptyStream DEF Init
<1>2. QED
  BY <1>1, TgClientAssumption DEF Init, LeaderInv, Leading, Calm, InLoop, Asking

(* Nothing is in a new connection's stream, nor in that of a chat that is  *)
(* gone.                                                                   *)
LEMMA FreshIsCalm ==
  ASSUME ChatInv, LeaderInv, Alive, Fresh, place' \in {"none", "request"},
         server' \in {"none", "joining"},
         handler' \in {handler, "orphan"}, handler = "resubscribe" => handler' = "orphan"
  PROVE  LeaderInv'
<1>1. /\ inbox' = <<>> /\ Range(inbox') = {} /\ AtMostOnce(inbox', {"new"})
      /\ infos' = MaxInfos /\ isLeader' = FALSE
  BY EmptyStream DEF Fresh
<1>2. Leading' /\ Calm'
  BY <1>1 DEF Leading, Calm
<1>3. QED
  BY <1>1, <1>2, TgClientAssumption DEF LeaderInv

LEMMA LeaderSend ==
  ASSUME ChatInv, LeaderInv, NEW from, NEW msg \in Messages, NEW to, Send(from, msg, to),
         \/ /\ infos' = infos
            /\ \/ <<from, msg, to>> \in RequestReplies \cup StartReplies \cup TurnQuery
               \/ msg = "eof" /\ to = "closed" /\ from \in {"member", "first", "playing"}
         \/ infos' = infos - 1 /\ msg = "info" /\ to = from
  PROVE  LeaderInv'
<1>1. /\ inbox' # <<>> /\ Range(inbox') = Range(inbox) \cup {msg}
      /\ inbox # <<>> => Head(inbox') = Head(inbox)
      /\ inbox = <<>> => Head(inbox') = msg
      /\ AtMostOnce(inbox, {"new"}) /\ (msg # "new" \/ "new" \notin Range(inbox))
           => AtMostOnce(inbox', {"new"})
  <2>1. inbox \in Seq(Messages)
    BY DEF ChatInv, TypeOK
  <2>2. Range(inbox) \cap {"new"} = {} \/ "new" \in Range(inbox)
    OBVIOUS
  <2>3. inbox' = Append(inbox, msg) /\ (inbox = <<>> => Head(inbox') = msg)
    BY <2>1 DEF Send
  <2>4. QED
    BY <2>1, <2>2, <2>3, AppendToStream
<1>2. Range(<<>>) = {}
  BY EmptyStream
<1> USE DEF Send, Alive, frame, awaiters, socket, user
<1>3. infos' <= MaxInfos /\ (infos' = MaxInfos => infos = MaxInfos /\ infos' = infos)
  BY TgClientAssumption DEF LeaderInv, ChatInv, TypeOK
<1>4. Leading'
  BY <1>1, <1>2 DEF ChatInv, LeaderInv, Leading, Acks, Places1, InLoop, Asking, RequestReplies, StartReplies,
                    TurnQuery
<1>5. ASSUME infos' = MaxInfos PROVE Calm'
  <2>1. Calm /\ infos' = infos /\ (<<from, msg, to>> \in RequestReplies \cup StartReplies \cup TurnQuery
           \/ (msg = "eof" /\ to = "closed" /\ from \in {"member", "first", "playing"}))
    BY <1>3, <1>5, TgClientAssumption DEF LeaderInv
  <2>2. place # "command"
    BY <2>1 DEF ChatInv, Acks, RequestReplies, StartReplies, TurnQuery
  <2>3. place = "startAck" => inbox' # <<>> /\ Head(inbox') \in {"failed", "started"}
    BY <1>1, <2>1 DEF Calm, RequestReplies, StartReplies, TurnQuery
  <2>4. isLeader /\ place \in InLoop =>
          /\ server' \notin Owing /\ Range(inbox') \cap FinalAcks = {}
          /\ server' \notin {"asked", "closed"} => server \notin {"asked", "closed"}
    BY <1>1, <2>1 DEF Calm, Owing, FinalAcks, RequestReplies, StartReplies, TurnQuery
  <2>5. "info" \notin Range(inbox')
    BY <1>1, <2>1 DEF Calm, RequestReplies, StartReplies, TurnQuery
  <2>6. QED
    BY <2>1, <2>2, <2>3, <2>4, <2>5 DEF Calm, Readers
<1>6. QED
  BY <1>3, <1>4, <1>5 DEF LeaderInv

LEMMA LeaderServer == ChatInv /\ LeaderInv /\ (Reply \/ Server) => LeaderInv'
<1> SUFFICES ASSUME ChatInv, LeaderInv, Reply \/ Server PROVE LeaderInv'
  OBVIOUS
<1>1. CASE Reply
  <2>1. PICK r \in RequestReplies \cup StartReplies : Send(r[1], r[2], r[3])
    BY <1>1 DEF Reply
  <2>2. r = <<r[1], r[2], r[3]>> /\ r[2] \in Messages /\ infos' = infos
    BY <1>1 DEF RequestReplies, StartReplies, Messages, Reply
  <2>3. QED
    BY <2>1, <2>2, LeaderSend
<1>2. CASE Ask
  <2>1. PICK r \in TurnQuery : Send(r[1], r[2], r[3])
    BY <1>2 DEF Ask
  <2>2. r = <<r[1], r[2], r[3]>> /\ r[2] \in Messages /\ infos' = infos
    BY <1>2 DEF TurnQuery, Messages, Ask
  <2>3. QED
    BY <2>1, <2>2, LeaderSend
<1>3. CASE Inform
  <2>1. infos' = infos - 1 /\ "info" \in Messages
    BY <1>3 DEF Inform, Messages
  <2>2. QED
    BY <1>3, <2>1, LeaderSend DEF Inform
<1>4. CASE Hangup
  <2>1. infos' = infos /\ "eof" \in Messages
    BY <1>4 DEF Hangup, Messages
  <2>2. QED
    BY <1>4, <2>1, LeaderSend DEF Hangup
<1>5. CASE EnterSession \/ EnterGame
  <2> USE <1>5 DEF EnterSession, EnterGame, Alive, frame, awaiters, socket, user
  <2>1. Leading'
    BY DEF ChatInv, LeaderInv, Leading, Acks
  <2>2. Calm => Calm'
    BY DEF ChatInv, Acks, Calm, Readers, Owing
  <2>3. QED
    BY <2>1, <2>2 DEF LeaderInv
<1>6. QED
  BY <1>1, <1>2, <1>3, <1>4, <1>5 DEF Server

(* Steps within the loop, and a start.                                     *)
LEMMA LeaderTurns == ChatInv /\ LeaderInv /\ (User \/ Turns) => LeaderInv'
<1> SUFFICES ASSUME ChatInv, LeaderInv, User \/ Turns PROVE LeaderInv'
  OBVIOUS
<1> USE DEF Alive, frame, awaiters, socket, stream, user
<1>1. CASE FirstMessage
  <2>1. place = "none" /\ handler' = handler /\ handler # "resubscribe" /\ Fresh /\ Alive
        /\ place' = "request" /\ server' = "joining"
    BY <1>1 DEF FirstMessage, ChatInv, Reads
  <2>2. QED
    BY <2>1, FreshIsCalm
<1>2. CASE StartCommand
  <2> USE <1>2 DEF StartCommand, CancelRead
  <2>1. Leading'
    BY DEF LeaderInv, Leading, ChatInv, Places1
  <2>2. inbox \in Seq(Messages) /\ (inbox # <<>> => Head(inbox) \in Range(inbox))
    BY TailOfStream DEF ChatInv, TypeOK
  <2>3. Calm => Calm'
    BY <2>2 DEF Calm, InLoop, Asking
  <2>4. QED
    BY <2>1, <2>3 DEF LeaderInv
<1>3. ASSUME UNCHANGED <<isLeader, socket, stream>>, place \in InLoop, place' \in InLoop, Alive
      PROVE  LeaderInv'
  <2>1. Leading /\ (Calm => Calm')
    BY <1>3 DEF Calm, Readers, InLoop, Asking, LeaderInv
  <2>2. Leading'
    BY <1>3, <2>1 DEF Leading, InLoop, Asking
  <2>3. QED
    BY <1>3, <2>1, <2>2 DEF LeaderInv
<1>4. CASE ChatMessage
  <2>1. UNCHANGED <<isLeader, socket, stream>> /\ place \in InLoop /\ place' \in InLoop /\ Alive
    BY <1>4 DEF ChatMessage, Resume, InLoop, Asking
  <2>2. QED
    BY <1>3, <2>1
<1>5. CASE Quit
  <2>1. CASE by = "none"
    <3>1. Destroy /\ Alive
      BY <1>5, <2>1 DEF Quit
    <3>2. QED
      BY <3>1, FreshIsCalm DEF Destroy
  <2>2. CASE by # "none"
    BY <1>5, <2>2 DEF Quit, Die, LeaderInv
  <2>3. QED
    BY <2>1, <2>2
<1>6. CASE Turns
  <2>1. UNCHANGED <<isLeader, socket, stream>> /\ place \in InLoop /\ place' \in InLoop /\ Alive
    BY <1>6 DEF Turns, CheckSignal, SuspendOnEvent, PromptAction, CheckQueue, TakeAction,
                SuspendOnAction, AwaitAction, InLoop, Asking
  <2>2. QED
    BY <1>3, <2>1
<1>7. QED
  BY <1>1, <1>2, <1>4, <1>5, <1>6 DEF User

(* The message read was the only one, if every other kind is out.          *)
LEMMA LastOne ==
  ASSUME NEW s \in Seq(Messages), NEW S, NEW m \in S, s # <<>>, Head(s) = m, AtMostOnce(s, S),
         Range(s) \cap (Messages \ S) = {}
  PROVE  Range(Tail(s)) = {}
<1>1. Range(Tail(s)) \subseteq Range(s) /\ Range(Tail(s)) \cap S = {} /\ Tail(s) \in Seq(Messages)
  BY TailOfStream
<1>2. Range(Tail(s)) \subseteq Messages
  BY <1>1 DEF Range
<1>3. QED
  BY <1>1, <1>2

LEMMA LeaderReads == ChatInv /\ LeaderInv /\ ReadAcks => LeaderInv'
<1> SUFFICES ASSUME ChatInv, LeaderInv, ReadAcks PROVE LeaderInv'
  OBVIOUS
<1> USE DEF Alive, frame, awaiters, socket, stream, user
<1>0. Alive
  BY DEF ReadAcks, ReadLength, JoinedExisting, JoinedNew, SessionCreated, StartFailed, StartSucceeded,
         MisreadAck, LeaderTaskFails, ReadTorn, ReadAck, ReadBody
<1>1. /\ inbox \in Seq(Messages) /\ infos \in Nat
      /\ inbox # <<>> =>
           /\ Head(inbox) \in Range(inbox) /\ Head(inbox) \in Messages
           /\ Range(Tail(inbox)) \subseteq Range(inbox)
           /\ \A S : AtMostOnce(inbox, S) =>
                AtMostOnce(Tail(inbox), S)
                /\ (Head(inbox) \in S => Range(Tail(inbox)) \cap S = {})
  BY TailOfStream DEF ChatInv, TypeOK
<1>2. CASE ReadLength
  <2>1. /\ place \in AckPlaces /\ inbox # <<>> /\ UNCHANGED <<frame, reads, stream>>
        /\ \/ taken = "nobody" /\ taken' = "poll" /\ handler' = handler
           \/ taken = "io" /\ taken' = "torn" /\ handler' = "dead"
    BY <1>2 DEF ReadLength, Tear
  <2>2. Leading'
    BY <1>0, <2>1 DEF LeaderInv, Leading
  <2>3. Calm => Calm'
    BY <2>1 DEF Calm, AckPlaces, InLoop, Asking
  <2>4. QED
    BY <1>0, <2>1, <2>2, <2>3 DEF LeaderInv
<1>3. CASE JoinedExisting
  <2>1. place = "request" /\ place' = "loop" /\ ~isLeader /\ isLeader' = isLeader /\ inbox # <<>>
        /\ inbox' = Tail(inbox) /\ UNCHANGED <<handler, infos>>
    BY <1>0, <1>3 DEF JoinedExisting, ReadAck, ReadBody, SubscribeAndGoOn, ChatInv, Places1, Reads,
                      InLoop, Asking
  <2>2. Leading'
    BY <1>0, <1>1, <2>1 DEF LeaderInv, Leading
  <2>3. Calm => Calm'
    BY <1>1, <2>1 DEF Calm
  <2>4. QED
    BY <1>0, <2>1, <2>2, <2>3 DEF LeaderInv
<1>4. CASE JoinedNew
  <2>1. place = "request" /\ place' = "create" /\ inbox # <<>> /\ Head(inbox) = "new"
        /\ inbox' = Tail(inbox) /\ UNCHANGED <<handler, infos, server>>
    BY <1>0, <1>4 DEF JoinedNew, ReadAck, ReadBody, ChatInv, Reads
  <2>2. Leading'
    BY <1>0, <1>1, <2>1 DEF LeaderInv, Leading, ChatInv, Acks
  <2>3. Calm => Calm'
    BY <1>1, <2>1 DEF Calm, InLoop, Asking
  <2>4. QED
    BY <1>0, <2>1, <2>2, <2>3 DEF LeaderInv
<1>5. CASE SessionCreated
  <2>1. /\ place = "create" /\ place' = "command" /\ inbox # <<>> /\ Head(inbox) = "created"
        /\ inbox' = Tail(inbox) /\ taken' = "nobody"
        /\ UNCHANGED <<handler, infos, server, isLeader>>
    BY <1>0, <1>5 DEF SessionCreated, ReadAck, ReadBody, AwaitStartCommand, ChatInv, Reads
  <2>2. Leading'
    BY <1>0, <1>1, <2>1 DEF LeaderInv, Leading
  <2>3. ASSUME Calm PROVE Calm'
    <3>1. Range(inbox) \cap (Messages \ FinalAcks) = {}
      BY <1>0, <2>1, <2>3 DEF Calm, LeaderInv, Leading, ChatInv, Places1, Query, Acks, Messages,
                              FinalAcks
    <3>2. Range(inbox') = {}
      BY <1>0, <1>1, <2>1, <3>1, LastOne DEF ChatInv, Acks, FinalAcks
    <3>3. QED
      BY <2>1, <2>3, <3>2 DEF Calm, InLoop, Asking
  <2>4. QED
    BY <1>0, <2>1, <2>2, <2>3 DEF LeaderInv
<1>6. CASE StartFailed
  <2>1. /\ place = "startAck" /\ place' = "command" /\ inbox # <<>> /\ Head(inbox) = "failed"
        /\ inbox' = Tail(inbox) /\ taken' = "nobody"
        /\ UNCHANGED <<handler, infos, server, isLeader>>
    BY <1>0, <1>6 DEF StartFailed, ReadAck, ReadBody, AwaitStartCommand, ChatInv, Reads
  <2>2. Leading'
    BY <1>0, <1>1, <2>1 DEF LeaderInv, Leading
  <2>3. ASSUME Calm PROVE Calm'
    <3>1. Range(inbox) \cap (Messages \ FinalAcks) = {}
      BY <1>0, <1>1, <2>1, <2>3 DEF Calm, LeaderInv, Leading, ChatInv, Places1, Query, Acks, Messages,
                                    FinalAcks
    <3>2. Range(inbox') = {}
      BY <1>0, <1>1, <2>1, <3>1, LastOne DEF ChatInv, Acks, FinalAcks
    <3>3. QED
      BY <2>1, <2>3, <3>2 DEF Calm, InLoop, Asking
  <2>4. QED
    BY <1>0, <2>1, <2>2, <2>3 DEF LeaderInv
<1>7. CASE StartSucceeded
  <2>1. /\ place = "startAck" /\ place' = "loop" /\ inbox # <<>> /\ Head(inbox) = "started"
        /\ inbox' = Tail(inbox) /\ taken' = "nobody" /\ reads' = reads + 1
        /\ UNCHANGED <<handler, infos, server, isLeader>>
    BY <1>0, <1>7 DEF StartSucceeded, ReadAck, ReadBody, SubscribeAndGoOn, ChatInv, Reads
  <2>2. Leading'
    BY <1>0, <1>1, <2>1 DEF LeaderInv, Leading
  <2>3. ASSUME Calm PROVE Calm'
    <3>1. server \notin Owing /\ Range(inbox') \cap FinalAcks = {}
      BY <1>0, <1>1, <2>1 DEF ChatInv, Acks, FinalAcks
    <3>2. "info" \notin Range(inbox') /\ Readers' = 1 /\ handler' # "resubscribe"
      BY <1>1, <2>1, <2>3 DEF Calm, Readers
    <3>3. QED
      BY <2>1, <2>3, <3>1, <3>2 DEF Calm
  <2>4. QED
    BY <1>0, <2>1, <2>2, <2>3 DEF LeaderInv
<1>8. CASE MisreadAck
  <2>1. Destroy /\ Alive
    BY <1>8 DEF MisreadAck
  <2>2. QED
    BY <2>1, FreshIsCalm DEF Destroy
<1>9. CASE LeaderTaskFails
  <2>1. /\ place \in {"startAck", "garbage"} /\ place' = "loop"
        /\ inbox' = inbox \/ (inbox' = Tail(inbox) /\ inbox # <<>>)
        /\ UNCHANGED <<infos, server, isLeader>>
    BY <1>0, <1>9 DEF LeaderTaskFails, ReadBody, ChatInv, Reads
  <2>2. Leading'
    BY <1>0, <1>1, <2>1 DEF LeaderInv, Leading
  <2>3. ~Calm
    BY <1>0, <1>9 DEF LeaderTaskFails, ReadBody, Calm, ChatInv, Reads
  <2>4. QED
    BY <1>0, <2>1, <2>2, <2>3 DEF LeaderInv
<1>10. CASE ReadTorn
  <2>1. /\ place = "startAck" /\ taken = "torn" /\ place' = "garbage"
        /\ UNCHANGED <<inbox, infos, server, isLeader>>
    BY <1>10 DEF ReadTorn
  <2>2. Leading' /\ ~Calm
    BY <1>0, <2>1 DEF LeaderInv, Leading, Calm
  <2>3. QED
    BY <1>0, <2>1, <2>2 DEF LeaderInv
<1>11. QED
  BY <1>2, <1>3, <1>4, <1>5, <1>6, <1>7, <1>8, <1>9, <1>10 DEF ReadAcks

LEMMA LeaderHandlers == ChatInv /\ LeaderInv /\ Handlers => LeaderInv'
<1> SUFFICES ASSUME ChatInv, LeaderInv, Handlers PROVE LeaderInv'
  OBVIOUS
<1> USE DEF Alive, frame, awaiters, socket, stream, user
<1>1. /\ inbox \in Seq(Messages) /\ reads \in Nat
      /\ inbox # <<>> =>
           /\ Head(inbox) \in Range(inbox) /\ Head(inbox) \in Messages
           /\ Range(Tail(inbox)) \subseteq Range(inbox)
           /\ \A S : AtMostOnce(inbox, S) => AtMostOnce(Tail(inbox), S)
  BY TailOfStream DEF ChatInv, TypeOK
<1>2. CASE TakeHeader
  <2>1. /\ fault = "none" /\ handler = "idle" /\ reads > 0 /\ reads' = reads - 1 /\ inbox # <<>>
        /\ UNCHANGED <<frame, stream>>
        /\ \/ taken = "nobody" /\ taken' = (IF Head(inbox) = "eof" THEN "nobody" ELSE "io")
             /\ handler' = handler
           \/ taken \in {"io", "poll"} /\ taken' = "torn" /\ handler' = "dead"
    BY <1>2 DEF TakeHeader, Polling, Tear
  <2>2. Leading'
    BY <2>1 DEF LeaderInv, Leading
  <2>3. ASSUME Calm PROVE Calm'
    <3>1. place # "startAck" /\ place # "command"
      BY <1>1, <2>1, <2>3 DEF Calm
    <3>2. ASSUME isLeader, place \in InLoop
          PROVE  taken' # "torn" /\ Readers' <= 1 /\ (server \notin {"asked", "closed"} => Readers' = 1)
      <4>1. taken = "nobody" /\ reads = 1
        BY <1>1, <2>1, <2>3, <3>2 DEF Calm, Readers, ChatInv, Reads, InLoop, AckPlaces, Asking
      <4>2. Head(inbox) = "eof" => server = "closed"
        BY <1>1, <2>1 DEF ChatInv, Acks
      <4>3. QED
        BY <2>1, <4>1, <4>2 DEF Readers
    <3>3. QED
      BY <2>1, <2>3, <3>1, <3>2 DEF Calm
  <2>4. QED
    BY <2>1, <2>2, <2>3 DEF LeaderInv
<1>3. CASE RunHandler
  <2>1. /\ fault = "none" /\ handler = "idle" /\ taken = "io" /\ taken' = "nobody"
        /\ inbox' = Tail(inbox) /\ UNCHANGED <<reads, server, infos>> /\ HandleInfo(Head(inbox))
    BY <1>3 DEF RunHandler, Polling
  <2>2. inbox # <<>> /\ Head(inbox) # "eof"
    BY <2>1 DEF ChatInv, Reads
  <2>3. /\ isLeader' = isLeader
        /\ place' = place \/ (place \in InLoop /\ place' \in InLoop)
        /\ Head(inbox) # "info" => handler' # "resubscribe"
    BY <2>1 DEF HandleInfo, Set, Resume, InLoop, Asking
  <2>4. Leading'
    BY <1>1, <2>1, <2>2, <2>3 DEF LeaderInv, Leading, InLoop, Asking
  <2>5. ASSUME Calm PROVE Calm'
    <3>1. "info" \notin Range(inbox') /\ handler' # "resubscribe"
      BY <1>1, <2>1, <2>2, <2>3, <2>5 DEF Calm
    <3>2. place' \notin {"garbage", "command", "startAck"}
      BY <1>1, <2>1, <2>2, <2>3, <2>5 DEF Calm, InLoop, Asking
    <3>3. ASSUME isLeader', place' \in InLoop
          PROVE  /\ server' \notin Owing /\ Range(inbox') \cap FinalAcks = {}
                 /\ taken' # "torn" /\ Readers' <= 1
                 /\ server' \notin {"asked", "closed"} => Readers' = 1
      <4>1. isLeader /\ place \in InLoop
        BY <2>3, <3>3
      <4>2. Head(inbox) = "break"
        BY <1>1, <2>1, <2>2, <2>5, <4>1 DEF Calm, LeaderInv, Leading, FinalAcks, Messages
      <4>3. server = "asked"
        BY <1>1, <2>1, <2>2, <4>2 DEF ChatInv, Query
      <4>4. Readers' = 0
        BY <1>1, <2>1, <2>5, <3>1, <4>1 DEF Calm, Readers
      <4>5. QED
        BY <1>1, <2>1, <2>2, <2>5, <4>1, <4>3, <4>4 DEF Calm
    <3>4. QED
      BY <3>1, <3>2, <3>3 DEF Calm
  <2>6. QED
    BY <2>1, <2>4, <2>5 DEF LeaderInv
<1>4. CASE Resubscribe
  <2>1. Alive /\ handler = "resubscribe" /\ UNCHANGED <<frame, taken, stream>>
    BY <1>4 DEF Resubscribe
  <2>2. Leading' /\ ~Calm
    BY <2>1 DEF LeaderInv, Leading, Calm
  <2>3. QED
    BY <2>1, <2>2 DEF LeaderInv
<1>5. CASE RunOrphan
  BY <1>5 DEF RunOrphan, Die, LeaderInv
<1>6. QED
  BY <1>2, <1>3, <1>4, <1>5 DEF Handlers

LEMMA LeaderStep == ChatInv /\ LeaderInv /\ [Next]_vars => LeaderInv'
<1>1. ASSUME LeaderInv, UNCHANGED vars PROVE LeaderInv'
  BY <1>1 DEF LeaderInv, Leading, Calm, Readers, Alive, vars, frame, awaiters, socket, stream, user
<1>2. QED
  BY <1>1, LeaderServer, LeaderTurns, LeaderReads, LeaderHandlers DEF Next, Finished

(* What ChatInv says of the properties.                                    *)
LEMMA ChatInvImplies ==
  ChatInv => TypeOK /\ NoMessageWaits /\ JoinerSubscribed /\ PolitePromptedInTurn
<1> SUFFICES ASSUME ChatInv
             PROVE  TypeOK /\ NoMessageWaits /\ JoinerSubscribed /\ PolitePromptedInTurn
  OBVIOUS
<1>1. TypeOK /\ JoinerSubscribed
  BY DEF ChatInv, JoinerSubscribed, Subscribed
<1>2. NoMessageWaits
  BY DEF ChatInv, NoMessageWaits, Places1, TypeOK
<1>3. PolitePromptedInTurn
  BY DEF ChatInv, PolitePromptedInTurn, PromptedInTurn, Asking, Places1, Query, TypeOK
<1>4. QED
  BY <1>1, <1>2, <1>3

(* The inductive invariant of a chat.                                      *)
THEOREM ChatInvHolds == Spec => []ChatInv
BY ChatInit, ChatStep, PTL DEF Spec

(* Every variable keeps its type.                                          *)
THEOREM TypeCorrect == Spec => []TypeOK
BY ChatInvHolds, ChatInvImplies, PTL

(* What the user writes never lies in the queue of a waiting coroutine.    *)
THEOREM MessagesTaken == Spec => []NoMessageWaits
BY ChatInvHolds, ChatInvImplies, PTL

(* A joiner in the loop of turns, and a leader that no InfoMessage has met *)
(* on its way there, has exactly one read under way until the query or the *)
(* end of the stream, and never two.                                       *)
THEOREM SubscribedInLoopHolds == Spec => []SubscribedInLoop
<1>1. ChatInv /\ LeaderInv => SubscribedInLoop
  BY DEF ChatInv, JoinerSubscribed, Subscribed, LeaderInv, Calm, SubscribedInLoop, Undisturbed,
         Readers, TypeOK
<1>2. QED
  BY <1>1, ChatInvHolds, LeaderInit, LeaderStep, PTL DEF Spec

(* A user that writes answers when the coroutine awaits them, and else     *)
(* "/quit" only, brings the client down in no way but by quitting while    *)
(* the io thread is in the middle of a message or of the coroutine.        *)
THEOREM PatientUsersSafe == Spec => []PatientUserIsSafe
<1>1. ChatInv => PatientUserIsSafe
  BY DEF ChatInv
<1>2. QED
  BY <1>1, ChatInvHolds, PTL

(* set()'s assertion holds and no empty queue is popped.                   *)
THEOREM SignalsAlwaysConsumed == Spec => []SignalsConsumed
<1>1. ChatInv => SignalsConsumed
  BY DEF ChatInv
<1>2. QED
  BY <1>1, ChatInvHolds, PTL

(* A user that only answers prompts is asked for an action in its turn.    *)
THEOREM PolitePrompts == Spec => []PolitePromptedInTurn
BY ChatInvHolds, ChatInvImplies, PTL
=============================================================================
