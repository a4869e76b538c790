----------------------------- MODULE LinkProofs -----------------------------
(***************************************************************************)
(* What Session promises of the link between client and server, for any    *)
(* limits, any packets in flight and any faults.  The inductive invariant  *)
(* has two parts:                                                          *)
(*   WireInv - a frame of which only a part was written has poisoned the   *)
(*             connection, so nothing has followed it;                     *)
(*   LinkInv - both ends use the modes the other expects, and what the     *)
(*             server is owed is what the client is to answer, frame by    *)
(*             frame; it is defined in LinkReadProofs, with the steps that *)
(*             read.                                                       *)
(* WireInv stands by itself, LinkInv needs it.                             *)
(***************************************************************************)
EXTENDS LinkReadProofs

(* A frame is written: the server expects it, and what is due is met.      *)

Talking == ~Dead /\ server.phase # "closed"

\* What is first and what is left of one answer.
LEMMA OneAnswer ==
  ASSUME NEW x
  PROVE  <<x>> # <<>> /\ <<x>>[1] = x /\ Tail(<<x>>) = <<>>
OBVIOUS

\* The same of two.
LEMMA TwoAnswers ==
  ASSUME NEW x, NEW y
  PROVE  <<x, y>> # <<>> /\ <<x, y>>[1] = x /\ Tail(<<x, y>>) = <<y>>
OBVIOUS

\* No change of the mode is on its way to a client that has to answer, or
\* that plays.
LEMMA ModesAgree ==
  ASSUME LinkInv, Talking, Due(task) # <<>> \/ server.phase = "play"
  PROVE  conn.cipher = server.enc /\ conn.threshold = server.comp
<1>1. ModeInv /\ SyncInv /\ LinkType
  BY DEF LinkInv, Talking
<1>2. InFlight \in Nat /\ Due(task) \in Seq(Words)
  BY <1>1, StreamType, DueType
<1>3. ~Compresses(Stream, InFlight)
  <2>1. CASE server.phase = "play"
    <3>1. \A i \in 1..InFlight : Stream[i].kind \in KindsOf("play")
      BY Zenon, <1>1, <2>1 DEF SyncInv
    <3>2. "compress" \notin KindsOf("play")
      BY DEF KindsOf
    <3> QED BY <3>1, <3>2 DEF Compresses
  <2>2. CASE Due(task) # <<>>
    <3>1. PICK c : Counts(InFlight, Stream, c, Due(task), server.owed)
      BY Zenon, <1>1 DEF SyncInv
    <3>2. Len(Due(task)) \in Nat /\ Len(Due(task)) > 0
      BY <1>2, <2>2
    <3>3. \A i \in 1..InFlight : c[0] <= c[i] /\ c[i] \in Nat /\ c[0] = Len(Due(task))
      BY <1>2, <3>1 DEF Counts
    <3>4. \A i \in 1..InFlight : Stream[i].kind # "compress"
      BY <3>1, <3>2, <3>3 DEF Counts
    <3> QED BY <3>4 DEF Compresses
  <2> QED BY <2>1, <2>2
<1>4. server.comp = (conn.threshold \/ Compresses(Stream, InFlight))
  BY <1>1 DEF ModeInv, Comps
<1>5. server.comp = conn.threshold
  BY <1>1, <1>3, <1>4 DEF LinkType
<1> QED BY <1>1, <1>5 DEF ModeInv, Encrypts

\* A play packet.
LEMMA TakesPlay ==
  ASSUME LinkInv, Talking, ~server.cut, conn.state = "Play"
  PROVE  Taken("play") = server
<1>1. server.phase = "play"
  BY DEF LinkInv, Talking, SyncInv, PhaseOf
<1>2. Expected("play")
  BY <1>1, ModesAgree DEF Expected
<1> QED BY <1>2 DEF Taken

\* An answer that is due.
LEMMA TakesAnswer ==
  ASSUME LinkInv, Talking, ~server.cut, NEW kind, kind # "play",
         Due(task) # <<>>, Meets(Due(task)[1], kind),
         kind = "encryption_response" => (server.checks => joined)
  PROVE  /\ Taken(kind) = [server EXCEPT !.phase = PhaseAfter(kind),
                                         !.enc = @ \/ kind = "encryption_response",
                                         !.owed = Outstanding(kind) \o Tail(@)]
         /\ kind # "encryption_response" => ~(server.checks /\ ~server.enc)
<1>1. SyncInv /\ LinkType
  BY DEF LinkInv, Talking
<1>2. InFlight \in Nat /\ Due(task) \in Seq(Words) /\ server.owed \in Seq(Words)
  BY <1>1, StreamType, DueType DEF LinkType
<1>3. PICK c : Counts(InFlight, Stream, c, Due(task), server.owed)
  BY Zenon, <1>1 DEF SyncInv
<1>4. server.owed # <<>> /\ server.owed[1] = Due(task)[1]
  BY <1>2, <1>3, DueFirst
<1>5. Head(server.owed) = Due(task)[1]
  BY <1>2, <1>4
<1>6. Expected(kind)
  BY <1>4, <1>5, ModesAgree DEF Expected
<1>7. ASSUME server.checks, ~server.enc
      PROVE  kind = "encryption_response"
  <2>1. server.owed = <<"encryption_response">>
    BY Zenon, <1>1, <1>7 DEF SyncInv
  <2>2. Due(task)[1] = "encryption_response"
    BY <1>4, <2>1
  <2> QED BY <2>2 DEF Meets
<1> QED BY <1>6, <1>7 DEF Taken

ConnAfter(kind, state) ==
  /\ DOMAIN conn' = DOMAIN conn
  /\ conn'.state = state /\ conn'.cipher = (conn.cipher \/ kind = "encryption_response")
  /\ conn'.buf = conn.buf /\ conn'.half = conn.half /\ conn'.threshold = conn.threshold
  /\ conn'.failed = conn.failed

\* What a written answer changes of the Connection.
LEMMA ConnChanges ==
  ASSUME LinkType, NEW kind, NEW state, NEW next, (next = "encrypt") = (kind = "encryption_response"),
         conn' = [conn EXCEPT !.state = state, !.cipher = @ \/ next = "encrypt"]
  PROVE  ConnAfter(kind, state)
BY DEF LinkType, ConnAfter

\* The answer kind is written, and the client goes on in the given state: it
\* ends before play, or what is due then is what the server owes then.
Answered(kind, state) ==
  /\ kind # "play" /\ Due(task) # <<>> /\ Meets(Due(task)[1], kind)
  /\ kind = "encryption_response" => (server.checks => joined) /\ InFlight = 0
  /\ server' = Taken(kind) /\ UNCHANGED <<cfg, joined, toClient, proxied, garbled>>
  /\ ConnAfter(kind, state)
  /\ DOMAIN task' = DOMAIN task /\ Shape(task', state)
  /\ cfg.proxy = "credentials" => proxied
  /\ task'.out # <<"encryption_response">>
  /\ InFlight = 0 \/ PhaseAfter(kind) = server.phase
  /\ Outstanding(kind) \o Tail(server.owed) \in Seq(Words)
  /\ \/ task'.stage = "Over" /\ state # "Play"
     \/ /\ PhaseAfter(kind) = PhaseOf(task', state)
        /\ \E d : Counts(InFlight, Stream, d, Due(task'), Outstanding(kind) \o Tail(server.owed))

\* An answer that the server expects keeps the invariant.
LEMMA AfterAnswer ==
  ASSUME LinkInv, Talking, ~server.cut, NEW kind, NEW state, Answered(kind, state)
  PROVE  LinkInv'
<1>1. /\ server' = [server EXCEPT !.phase = PhaseAfter(kind),
                                  !.enc = @ \/ kind = "encryption_response",
                                  !.owed = Outstanding(kind) \o Tail(@)]
      /\ kind # "encryption_response" => ~(server.checks /\ ~server.enc)
  BY Zenon, TakesAnswer DEF Answered
<1>2. SyncInv /\ LinkType /\ ModeInv /\ ~conn.failed
  BY DEF LinkInv, Talking, Dead
<1>3. /\ server'.phase = PhaseAfter(kind) /\ server'.enc = (server.enc \/ kind = "encryption_response")
      /\ server'.owed = Outstanding(kind) \o Tail(server.owed) /\ server'.comp = server.comp
      /\ server'.checks = server.checks /\ server'.confused = server.confused
      /\ DOMAIN server' = DOMAIN server
  BY <1>1, <1>2 DEF LinkType
<1>4. /\ conn'.state = state /\ conn'.cipher = (conn.cipher \/ kind = "encryption_response")
      /\ conn'.buf = conn.buf /\ conn'.half = conn.half /\ conn'.threshold = conn.threshold
      /\ conn'.failed = conn.failed /\ DOMAIN conn' = DOMAIN conn
  BY Zenon DEF Answered, ConnAfter
<1>5. InFlight' = InFlight /\ Stream' = Stream
  BY <1>4, StreamUnchanged DEF Answered
<1>6. LinkType'
  BY Zenon, <1>2, <1>3, <1>4 DEF LinkType, Answered
<1>7. ProxyInv'
  BY Zenon DEF ProxyInv, Answered
<1>8. ModeInv'
  <2>1. CASE kind = "encryption_response"
    <3>1. Len(conn.buf) = 0 /\ Len(toClient) = 0
      BY <1>2, <2>1, StreamType DEF InFlight, Answered
    <3>2. Len(conn'.buf) = 0 /\ Len(toClient') = 0
      BY Zenon, <1>4, <3>1 DEF Answered
    <3>3. server'.enc = conn'.cipher /\ conn'.half # "bad"
      BY Zenon, <1>2, <1>3, <1>4 DEF ModeInv, Encrypts
    <3>4. Encrypts'
      BY <3>2, <3>3 DEF Encrypts
    <3> QED BY Zenon, <1>2, <1>3, <1>4, <1>5, <3>4 DEF ModeInv
  <2>2. CASE kind # "encryption_response"
    <3>1. server'.enc = server.enc /\ conn'.cipher = conn.cipher
      BY Zenon, <1>2, <1>3, <1>4, <2>2 DEF LinkType
    <3>2. Encrypts'
      BY Zenon, <1>2, <1>4, <3>1 DEF ModeInv, Encrypts, Answered
    <3> QED BY Zenon, <1>2, <1>3, <1>4, <1>5, <3>2 DEF ModeInv
  <2> QED BY <2>1, <2>2
<1>9. ASSUME ~Dead'
      PROVE  SyncInv'
  <2>1. ~(task'.stage = "Over" /\ state # "Play")
    BY Zenon, <1>4, <1>9 DEF Dead
  <2>2. server'.phase = PhaseOf(task', conn'.state)
    BY Zenon, <1>3, <1>4, <2>1 DEF Answered
  <2>3. \E d : Counts(InFlight', Stream', d, Due(task'), server'.owed)
    BY Zenon, <1>3, <1>5, <2>1 DEF Answered
  <2>4. ~(server'.checks /\ ~server'.enc)
    BY Zenon, <1>1, <1>3
  <2>5. \A i \in 1..InFlight' : Stream'[i].kind \in KindsOf(server'.phase)
    <3>1. InFlight = 0 => 1..InFlight = {}
      OBVIOUS
    <3> QED BY Zenon, <1>2, <1>3, <1>5, <3>1 DEF SyncInv, Answered
  <2>6. \A i \in 1..InFlight' : Stream'[i].kind = "encryption_begin" => ~server'.checks
    BY Zenon, <1>2, <1>3, <1>5 DEF SyncInv
  <2> QED BY Zenon, <2>2, <2>3, <2>4, <2>5, <2>6 DEF SyncInv, Answered
<1> QED BY Zenon, <1>3, <1>4, <1>6, <1>7, <1>8, <1>9 DEF LinkInv, Answered

\* The first thing due is met, and nothing new is.
LEMMA DueMet ==
  ASSUME LinkInv, Talking, Due(task) # <<>>, Tail(Due(task)) \notin StopAnswers,
         NEW kind, Outstanding(kind) = <<>>
  PROVE  /\ Outstanding(kind) \o Tail(server.owed) \in Seq(Words)
         /\ \E d : Counts(InFlight, Stream, d, Tail(Due(task)), Outstanding(kind) \o Tail(server.owed))
<1>1. SyncInv /\ LinkType
  BY DEF LinkInv, Talking
<1>2. InFlight \in Nat /\ Due(task) \in Seq(Words) /\ server.owed \in Seq(Words)
  BY <1>1, StreamType, DueType DEF LinkType
<1>3. PICK c : Counts(InFlight, Stream, c, Due(task), server.owed)
  BY Zenon, <1>1 DEF SyncInv
<1>4. server.owed # <<>>
  BY <1>2, <1>3, DueFirst
<1>5. Tail(server.owed) \in Seq(Words)
  BY <1>2, <1>4, TailFacts
<1>6. <<>> \o Tail(server.owed) = Tail(server.owed)
  BY <1>5
<1>7. \E d : Counts(InFlight, Stream, d, Tail(Due(task)), Tail(server.owed))
  BY <1>2, <1>3, CountsTail
<1> QED BY <1>5, <1>6, <1>7

\* It is met, and x is due instead.
LEMMA DueSwapped ==
  ASSUME LinkInv, Talking, Len(Due(task)) = 1, NEW x \in Words, <<x>> \notin StopAnswers,
         NEW kind, Outstanding(kind) = <<x>>
  PROVE  /\ Outstanding(kind) \o Tail(server.owed) \in Seq(Words)
         /\ \E d : Counts(InFlight, Stream, d, <<x>>, Outstanding(kind) \o Tail(server.owed))
<1>1. SyncInv /\ LinkType
  BY DEF LinkInv, Talking
<1>2. InFlight \in Nat /\ Due(task) \in Seq(Words) /\ server.owed \in Seq(Words)
  BY <1>1, StreamType, DueType DEF LinkType
<1>3. PICK c : Counts(InFlight, Stream, c, Due(task), server.owed)
  BY Zenon, <1>1 DEF SyncInv
<1> QED BY Zenon, <1>2, <1>3, CountsSwap

\* An answer the server waits for: nothing is on its way, and nothing else
\* is owed.
LEMMA StoppedServer ==
  ASSUME LinkInv, Talking, Due(task) \in StopAnswers
  PROVE  InFlight = 0 /\ Tail(server.owed) = <<>>
<1>1. SyncInv /\ LinkType
  BY DEF LinkInv, Talking
<1>2. InFlight \in Nat /\ Due(task) \in Seq(Words) /\ server.owed \in Seq(Words)
  BY <1>1, StreamType, DueType DEF LinkType
<1>3. PICK c : Counts(InFlight, Stream, c, Due(task), server.owed)
  BY Zenon, <1>1 DEF SyncInv
<1>4. InFlight = 0 /\ Len(server.owed) = Len(Due(task))
  BY Zenon, <1>2, <1>3 DEF Counts
<1>5. Len(Due(task)) = 1
  <2> DEFINE due == Due(task)
  <2>1. due \in StopAnswers
    OBVIOUS
  <2> HIDE DEF due
  <2>2. Len(due) = 1
    BY <2>1 DEF StopAnswers
  <2> QED BY <2>2 DEF due
<1>6. server.owed # <<>>
  BY <1>4, <1>5
<1>7. Tail(server.owed) \in Seq(Words) /\ Len(Tail(server.owed)) = 0
  BY <1>2, <1>4, <1>5, <1>6, TailFacts
<1>8. \A r \in Seq(Words) : Len(r) = 0 => r = <<>>
  OBVIOUS
<1> QED BY Zenon, <1>4, <1>7, <1>8

\* In the handshake nothing is on its way to the client.
LEMMA QuietHandshake ==
  ASSUME LinkInv, Talking, server.phase = "handshaking"
  PROVE  InFlight = 0
<1>1. SyncInv /\ LinkType
  BY DEF LinkInv, Talking
<1>2. InFlight \in Nat
  BY <1>1, StreamType
<1>3. \A i \in 1..InFlight : Stream[i].kind \in {}
  BY <1>1 DEF SyncInv, KindsOf
<1>4. InFlight > 0 => 1 \in 1..InFlight
  BY <1>2
<1> QED BY <1>2, <1>3, <1>4

\* The client's side of a WriteFrame.
LEMMA WritingFacts ==
  ASSUME LinkInv, WriteFrame
  PROVE  /\ Talking /\ LinkType /\ server' = Taken(Head(task.out)) /\ task.wait = "write"
         /\ UNCHANGED <<cfg, joined, toClient, proxied, garbled>>
         /\ cfg.proxy = "credentials" => proxied
         /\ server.phase = PhaseOf(task, conn.state)
         /\ Due(task) = DueOf(task.out)
         /\ Len(task.out) > 1 => task' = [task EXCEPT !.out = Tail(@)] /\ UNCHANGED conn
         /\ ~(Len(task.out) > 1) =>
              /\ task' = Continue([task EXCEPT !.out = <<>>])
              /\ conn' = [conn EXCEPT !.state = StateAfter(task),
                                      !.cipher = @ \/ task.then = "encrypt"]
<1>1. /\ task.wait = "write" /\ ~conn.failed /\ server.phase # "closed"
      /\ server' = Taken(Head(task.out))
      /\ UNCHANGED <<cfg, joined, toClient, proxied, garbled>>
      /\ Len(task.out) > 1 => task' = [task EXCEPT !.out = Tail(@)] /\ UNCHANGED conn
      /\ ~(Len(task.out) > 1) =>
              /\ task' = Continue([task EXCEPT !.out = <<>>])
              /\ conn' = [conn EXCEPT !.state = StateAfter(task),
                                      !.cipher = @ \/ task.then = "encrypt"]
  BY DEF WriteFrame
<1>2. task.stage \notin {"Over", "TcpConnect", "ProxyNegotiate"}
  BY <1>1 DEF LinkInv, Shape, Configuring, Reaching
<1>3. Talking
  BY <1>1, <1>2 DEF Talking, Dead
<1>4. SyncInv
  BY <1>3 DEF LinkInv, Talking
<1>5. cfg.proxy = "credentials" => proxied
  BY <1>2 DEF LinkInv, ProxyInv
<1>6. Due(task) = DueOf(task.out)
  BY <1>1 DEF Due, Reaching
<1> QED BY <1>1, <1>3, <1>4, <1>5, <1>6 DEF LinkInv, SyncInv

\* The last frame of a handler, by what follows it.
LEMMA LastFrame ==
  ASSUME LinkInv, WriteFrame, NEW x, task.out = <<x>>
  PROVE  /\ server' = Taken(x)
         /\ conn' = [conn EXCEPT !.state = StateAfter(task), !.cipher = @ \/ task.then = "encrypt"]
         /\ TaskFields \subseteq DOMAIN task
         /\ \E s : /\ DOMAIN s = DOMAIN task /\ s.stage = task.stage /\ s.out = <<>>
                   /\ s.then = task.then /\ task' = Continue(s)
<1>1. Len(<<x>>) = 1 /\ Head(<<x>>) = x
  OBVIOUS
<1>2. ~(Len(task.out) > 1) /\ Head(task.out) = x
  BY <1>1
<1>3. TaskFields \subseteq DOMAIN task
  BY DEF LinkInv, LinkType, TaskFields
<1> DEFINE s == [task EXCEPT !.out = <<>>]
<1>4. DOMAIN s = DOMAIN task /\ s.stage = task.stage /\ s.out = <<>> /\ s.then = task.then
  BY <1>3 DEF TaskFields
<1>5. task' = Continue(s)
  BY <1>2, WritingFacts
<1> HIDE DEF s
<1> QED BY <1>2, <1>3, <1>4, <1>5, WritingFacts

\* A reply after which the loop reads on.
LEMMA ReplyWritten ==
  ASSUME LinkInv, WriteFrame, ~server.cut, NEW x, task.out = <<x>>, task.then = "read",
         x \notin {"play", "login_start", "encryption_response"},
         NEW y, Due(task) = <<y>>, Meets(y, x), Outstanding(x) = <<>>,
         PhaseAfter(x) = server.phase, NEW state, conn.state = state,
         \/ task.stage = "Login" /\ state = "Login"
         \/ task.stage \in Configuring /\ state = "Configuration"
         \/ task.stage = "Play" /\ state = "Play"
  PROVE  LinkInv'
<1>1. /\ Talking /\ LinkType /\ UNCHANGED <<cfg, joined, toClient, proxied, garbled>>
      /\ cfg.proxy = "credentials" => proxied
      /\ server.phase = PhaseOf(task, state)
  BY WritingFacts
<1>2. PICK s : /\ DOMAIN s = DOMAIN task /\ s.stage = task.stage /\ s.out = <<>>
               /\ s.then = task.then /\ task' = Continue(s)
  BY LastFrame
<1>3. server' = Taken(x) /\ TaskFields \subseteq DOMAIN task
      /\ conn' = [conn EXCEPT !.state = StateAfter(task), !.cipher = @ \/ task.then = "encrypt"]
  BY LastFrame
<1>4. task' = ReadOn(s)
  BY <1>2 DEF Continue
<1>5. StateAfter(task) = state
  BY DEF StateAfter
<1>6. (task.then = "encrypt") = (x = "encryption_response")
  OBVIOUS
<1>7. ConnAfter(x, state)
  BY Zenon, <1>1, <1>3, <1>5, <1>6, ConnChanges
<1>8. /\ DOMAIN task' = DOMAIN task /\ task'.out = <<>>
      /\ \/ task'.stage = task.stage /\ task'.wait = "read"
         \/ task'.stage = "Over" /\ task'.wait = "none" /\ task.stage \in {"Login"} \cup Configuring
  BY <1>2, <1>3, <1>4, ReadOnFacts
<1>9. /\ Shape(task', state) /\ Due(task') = <<>> /\ task'.out # <<"encryption_response">>
  BY <1>8, WaitsOn
<1>10. PhaseOf(task', state) = PhaseOf(task, state)
  <2>1. task.out # <<"login_start">> /\ task'.out # <<"login_start">>
    BY <1>8
  <2> QED BY <2>1 DEF PhaseOf
<1>11. Due(task) # <<>> /\ Due(task)[1] = y /\ Tail(Due(task)) = <<>>
  OBVIOUS
<1>12. Tail(Due(task)) \notin StopAnswers
  BY <1>11 DEF StopAnswers
<1>13. /\ Outstanding(x) \o Tail(server.owed) \in Seq(Words)
       /\ \E d : Counts(InFlight, Stream, d, Due(task'), Outstanding(x) \o Tail(server.owed))
  BY Zenon, <1>1, <1>9, <1>11, <1>12, DueMet
<1>14. /\ x # "play" /\ x # "encryption_response" /\ Meets(Due(task)[1], x)
       /\ PhaseAfter(x) = PhaseOf(task', state)
  BY Zenon, <1>1, <1>10, <1>11
<1>15. Answered(x, state)
  BY Zenon, <1>1, <1>3, <1>7, <1>8, <1>9, <1>11, <1>13, <1>14 DEF Answered
<1> QED BY <1>1, <1>15, AfterAnswer

\* login_start.
LEMMA LoginStartWritten ==
  ASSUME LinkInv, WriteFrame, ~server.cut, task.out = <<"login_start">>, task.then = "read",
         task.stage = "Login", conn.state = "Login"
  PROVE  LinkInv'
<1> DEFINE x == "login_start"
<1>1. /\ Talking /\ LinkType /\ UNCHANGED <<cfg, joined, toClient, proxied, garbled>>
      /\ cfg.proxy = "credentials" => proxied
      /\ server.phase = "handshaking" /\ Due(task) = <<x>>
  BY WritingFacts, DueOfOne DEF PhaseOf
<1>2. PICK s : /\ DOMAIN s = DOMAIN task /\ s.stage = task.stage /\ s.out = <<>>
               /\ s.then = task.then /\ task' = Continue(s)
  BY LastFrame
<1>3. server' = Taken(x) /\ TaskFields \subseteq DOMAIN task
      /\ conn' = [conn EXCEPT !.state = StateAfter(task), !.cipher = @ \/ task.then = "encrypt"]
  BY LastFrame
<1>4. task' = ReadOn(s)
  BY <1>2 DEF Continue
<1>5. StateAfter(task) = conn.state
  BY DEF StateAfter
<1>6. (task.then = "encrypt") = (x = "encryption_response")
  OBVIOUS
<1>7. ConnAfter(x, conn.state)
  BY Zenon, <1>1, <1>3, <1>5, <1>6, ConnChanges
<1>8. /\ DOMAIN task' = DOMAIN task /\ task'.out = <<>>
      /\ \/ task'.stage = task.stage /\ task'.wait = "read"
         \/ task'.stage = "Over" /\ task'.wait = "none" /\ task.stage \in {"Login"} \cup Configuring
  BY <1>2, <1>3, <1>4, ReadOnFacts
<1>9. /\ Shape(task', conn.state) /\ Due(task') = <<>> /\ task'.out # <<"encryption_response">>
  BY <1>8, WaitsOn
<1>10. PhaseOf(task', conn.state) = "login" /\ PhaseAfter(x) = "login"
  BY <1>8 DEF PhaseOf, PhaseAfter
<1>11. Due(task) # <<>> /\ Due(task)[1] = x /\ Tail(Due(task)) = <<>>
  BY Zenon, <1>1, OneAnswer
<1>12. Tail(Due(task)) \notin StopAnswers
  BY <1>11 DEF StopAnswers
<1>13. Meets(x, x) /\ Outstanding(x) = <<>>
  BY DEF Meets, Outstanding
<1>14. /\ Outstanding(x) \o Tail(server.owed) \in Seq(Words)
       /\ \E d : Counts(InFlight, Stream, d, Due(task'), Outstanding(x) \o Tail(server.owed))
  BY <1>1, <1>9, <1>11, <1>12, <1>13, DueMet
<1>15. InFlight = 0
  BY <1>1, QuietHandshake
<1>16. x # "play" /\ x # "encryption_response"
  OBVIOUS
<1> HIDE DEF x
<1>17. Answered(x, conn.state)
  BY Zenon, <1>1, <1>3, <1>7, <1>8, <1>9, <1>10, <1>11, <1>13, <1>14, <1>15, <1>16 DEF Answered
<1> QED BY <1>1, <1>17, AfterAnswer

\* The encryption response, and enable_encryption.
LEMMA EncryptionWritten ==
  ASSUME LinkInv, WriteFrame, ~server.cut, task.out = <<"encryption_response">>,
         task.then = "encrypt", task.stage = "Login", conn.state = "Login"
  PROVE  LinkInv'
<1> DEFINE x == "encryption_response"
<1>1. /\ Talking /\ LinkType /\ UNCHANGED <<cfg, joined, toClient, proxied, garbled>>
      /\ cfg.proxy = "credentials" => proxied
      /\ task.wait = "write"
      /\ server.phase = "login" /\ Due(task) = <<x>>
  BY WritingFacts, DueOfOne DEF PhaseOf
<1>2. PICK s : /\ DOMAIN s = DOMAIN task /\ s.stage = task.stage /\ s.out = <<>>
               /\ s.then = task.then /\ task' = Continue(s)
  BY LastFrame
<1>3. server' = Taken(x) /\ TaskFields \subseteq DOMAIN task
      /\ conn' = [conn EXCEPT !.state = StateAfter(task), !.cipher = @ \/ task.then = "encrypt"]
  BY LastFrame
<1>4. task' = ReadOn(s)
  BY <1>2 DEF Continue
<1>5. StateAfter(task) = conn.state
  BY DEF StateAfter
<1>6. (task.then = "encrypt") = (x = "encryption_response")
  OBVIOUS
<1>7. ConnAfter(x, conn.state)
  BY Zenon, <1>1, <1>3, <1>5, <1>6, ConnChanges
<1>8. /\ DOMAIN task' = DOMAIN task /\ task'.out = <<>>
      /\ \/ task'.stage = task.stage /\ task'.wait = "read"
         \/ task'.stage = "Over" /\ task'.wait = "none" /\ task.stage \in {"Login"} \cup Configuring
  BY <1>2, <1>3, <1>4, ReadOnFacts
<1>9. /\ Shape(task', conn.state) /\ Due(task') = <<>> /\ task'.out # <<"encryption_response">>
  BY <1>8, WaitsOn
<1>10. PhaseOf(task', conn.state) = "login" /\ PhaseAfter(x) = "login"
  BY <1>1, <1>8 DEF PhaseOf, PhaseAfter
<1>11. Due(task) # <<>> /\ Due(task)[1] = x /\ Tail(Due(task)) = <<>>
  BY Zenon, <1>1, OneAnswer
<1>12. Tail(Due(task)) \notin StopAnswers /\ Due(task) \in StopAnswers
  BY <1>1, <1>11 DEF StopAnswers
<1>13. Meets(x, x) /\ Outstanding(x) = <<>>
  BY DEF Meets, Outstanding
<1>14. /\ Outstanding(x) \o Tail(server.owed) \in Seq(Words)
       /\ \E d : Counts(InFlight, Stream, d, Due(task'), Outstanding(x) \o Tail(server.owed))
  BY Zenon, <1>1, <1>9, <1>11, <1>12, <1>13, DueMet
<1>15. InFlight = 0
  BY <1>1, <1>12, StoppedServer
<1>16. x # "play" /\ (server.checks => joined)
  <2>1. SyncInv
    BY <1>1 DEF LinkInv, Talking
  <2> QED BY Zenon, <1>1, <2>1 DEF SyncInv
<1> HIDE DEF x
<1>17. Answered(x, conn.state)
  BY Zenon, <1>1, <1>3, <1>7, <1>8, <1>9, <1>10, <1>11, <1>13, <1>14, <1>15, <1>16 DEF Answered
<1> QED BY <1>1, <1>17, AfterAnswer

\* ACCEPTED: the download follows.
LEMMA AcceptedWritten ==
  ASSUME LinkInv, WriteFrame, ~server.cut, task.out = <<"ACCEPTED">>, task.then = "download",
         \/ task.stage \in Configuring /\ conn.state = "Configuration"
         \/ task.stage = "Play" /\ conn.state = "Play"
  PROVE  LinkInv'
<1> DEFINE x == "ACCEPTED"
<1>1. /\ Talking /\ LinkType /\ UNCHANGED <<cfg, joined, toClient, proxied, garbled>>
      /\ cfg.proxy = "credentials" => proxied
      /\ server.phase = PhaseOf(task, conn.state) /\ Due(task) = <<"pack">>
  BY WritingFacts, DueOfOne
<1>2. PICK s : /\ DOMAIN s = DOMAIN task /\ s.stage = task.stage /\ s.out = <<>>
               /\ s.then = task.then /\ task' = Continue(s)
  BY LastFrame
<1>3. server' = Taken(x) /\ TaskFields \subseteq DOMAIN task
      /\ conn' = [conn EXCEPT !.state = StateAfter(task), !.cipher = @ \/ task.then = "encrypt"]
  BY LastFrame
<1>4. task' = [s EXCEPT !.wait = "download"]
  BY <1>2 DEF Continue
<1>5. StateAfter(task) = conn.state
  BY DEF StateAfter
<1>6. ConnAfter(x, conn.state)
  <2>1. (task.then = "encrypt") = (x = "encryption_response")
    OBVIOUS
  <2> QED BY Zenon, <1>1, <1>3, <1>5, <2>1, ConnChanges
<1>7. /\ DOMAIN task' = DOMAIN task /\ task'.out = <<>> /\ task'.stage = task.stage
      /\ task'.wait = "download"
  BY <1>2, <1>3, <1>4 DEF TaskFields
<1>8. Shape(task', conn.state) /\ task'.out # <<"encryption_response">>
  <2>1. Serving(task')
    BY <1>7 DEF Serving
  <2>2. Shape(task', conn.state)
    BY Zenon, <1>7, <2>1 DEF Shape
  <2> QED BY <1>7, <2>2
<1>9. Due(task') = <<"pack_result">>
  BY <1>7 DEF Due, Reaching
<1>10. PhaseAfter(x) = server.phase /\ PhaseOf(task', conn.state) = server.phase
  BY <1>1 DEF PhaseAfter, PhaseOf
<1>11. /\ Due(task) # <<>> /\ Due(task)[1] = "pack" /\ Len(Due(task)) = 1
       /\ Meets("pack", x) /\ Outstanding(x) = <<"pack_result">>
       /\ "pack_result" \in Words /\ <<"pack_result">> \notin StopAnswers
  BY <1>1 DEF Meets, Outstanding, Words, StopAnswers
<1>12. /\ Outstanding(x) \o Tail(server.owed) \in Seq(Words)
       /\ \E d : Counts(InFlight, Stream, d, Due(task'), Outstanding(x) \o Tail(server.owed))
  BY <1>1, <1>9, <1>11, DueSwapped
<1>13. x # "play" /\ x # "encryption_response"
  OBVIOUS
<1> HIDE DEF x
<1>14. Answered(x, conn.state)
  BY Zenon, <1>1, <1>3, <1>6, <1>7, <1>8, <1>10, <1>11, <1>12, <1>13 DEF Answered
<1> QED BY <1>1, <1>14, AfterAnswer

\* The acknowledgement of login, and of start_configuration: the configuration
\* that follows says who the client is.
LEMMA ConfigurationEntered ==
  ASSUME LinkInv, WriteFrame, ~server.cut, NEW x, task.out = <<x>>,
         \/ x = "login_acknowledged" /\ task.then = "configure"
         \/ x = "configuration_acknowledged" /\ task.then = "reconfigure"
  PROVE  LinkInv'
<1>1. /\ Talking /\ LinkType /\ UNCHANGED <<cfg, joined, toClient, proxied, garbled>>
      /\ cfg.proxy = "credentials" => proxied
      /\ Due(task) = <<x>>
  BY WritingFacts, DueOfOne
<1>2. PICK s : /\ DOMAIN s = DOMAIN task /\ s.stage = task.stage /\ s.out = <<>>
               /\ s.then = task.then /\ task' = Continue(s)
  BY LastFrame
<1>3. server' = Taken(x) /\ TaskFields \subseteq DOMAIN task
      /\ conn' = [conn EXCEPT !.state = StateAfter(task), !.cipher = @ \/ task.then = "encrypt"]
  BY LastFrame
<1>4. PICK stage \in Configuring : task' = Send(Enter(s, stage), ClientConfiguration, "read")
  BY <1>2 DEF Continue, Configuring
<1>5. StateAfter(task) = "Configuration"
  BY DEF StateAfter
<1>6. ConnAfter(x, "Configuration")
  BY Zenon, <1>1, <1>3, <1>5, ConnChanges
<1> DEFINE e == Enter(s, stage)
<1>7. DOMAIN e = DOMAIN task /\ e.stage = stage
  BY <1>2, <1>3 DEF Enter, TaskFields
<1>8. task' = Send(e, ClientConfiguration, "read")
  BY <1>4
<1> HIDE DEF e
<1>9. /\ DOMAIN task' = DOMAIN task /\ task'.stage = stage
      /\ Writes(task', ClientConfiguration, "read")
  BY <1>3, <1>7, <1>8, SendFacts
<1>10. Shape(task', "Configuration")
  BY <1>9 DEF Shape, ClientConfiguration
<1>11. task'.out # <<"encryption_response">> /\ Due(task') = ClientConfiguration
  BY <1>9, DueOfOne DEF Writes, Due, ClientConfiguration, Reaching
<1>12. PhaseAfter(x) = "configuration" /\ PhaseOf(task', "Configuration") = "configuration"
  BY DEF PhaseAfter, PhaseOf
<1>13. Due(task) # <<>> /\ Due(task)[1] = x /\ Due(task) \in StopAnswers
  BY Zenon, <1>1, OneAnswer DEF StopAnswers
<1>14. InFlight = 0 /\ Tail(server.owed) = <<>>
  BY <1>1, <1>13, StoppedServer
<1>15. Meets(x, x) /\ Outstanding(x) = ClientConfiguration /\ x # "play" /\ x # "encryption_response"
  BY DEF Meets, Outstanding
<1>16. ClientConfiguration \in Seq(Words) /\ ClientConfiguration \o <<>> = ClientConfiguration
  BY DEF ClientConfiguration, Words
<1>17. \E d : Counts(0, Stream, d, ClientConfiguration, ClientConfiguration)
  BY Zenon, <1>16, CountsNone
<1>18. /\ Outstanding(x) \o Tail(server.owed) \in Seq(Words)
       /\ \E d : Counts(InFlight, Stream, d, Due(task'), Outstanding(x) \o Tail(server.owed))
  BY Zenon, <1>11, <1>14, <1>15, <1>16, <1>17
<1>19. Answered(x, "Configuration")
  BY Zenon, <1>1, <1>3, <1>6, <1>9, <1>10, <1>11, <1>12, <1>13, <1>14, <1>15, <1>18 DEF Answered
<1> QED BY <1>1, <1>19, AfterAnswer

\* The end of the configuration.
LEMMA PlayEntered ==
  ASSUME LinkInv, WriteFrame, ~server.cut, task.out = <<"finish_configuration">>, task.then = "play"
  PROVE  LinkInv'
<1> DEFINE x == "finish_configuration"
<1>1. /\ Talking /\ LinkType /\ UNCHANGED <<cfg, joined, toClient, proxied, garbled>>
      /\ cfg.proxy = "credentials" => proxied
      /\ Due(task) = <<x>>
  BY WritingFacts, DueOfOne
<1>2. PICK s : /\ DOMAIN s = DOMAIN task /\ s.stage = task.stage /\ s.out = <<>>
               /\ s.then = task.then /\ task' = Continue(s)
  BY LastFrame
<1>3. server' = Taken(x) /\ TaskFields \subseteq DOMAIN task
      /\ conn' = [conn EXCEPT !.state = StateAfter(task), !.cipher = @ \/ task.then = "encrypt"]
  BY LastFrame
<1>4. task' = [Enter(s, "Play") EXCEPT !.wait = "read", !.result = "Ok"]
  BY <1>2 DEF Continue
<1>5. StateAfter(task) = "Play"
  BY DEF StateAfter
<1>6. ConnAfter(x, "Play")
  <2>1. (task.then = "encrypt") = (x = "encryption_response")
    OBVIOUS
  <2> QED BY Zenon, <1>1, <1>3, <1>5, <2>1, ConnChanges
<1>7. /\ DOMAIN task' = DOMAIN task /\ task'.out = <<>> /\ task'.stage = "Play" /\ task'.wait = "read"
  BY <1>2, <1>3, <1>4 DEF Enter, TaskFields
<1>8. /\ Shape(task', "Play") /\ Due(task') = <<>> /\ task'.out # <<"encryption_response">>
  BY <1>7, WaitsOn
<1>9. PhaseAfter(x) = "play" /\ PhaseOf(task', "Play") = "play"
  BY DEF PhaseAfter, PhaseOf
<1>10. /\ Due(task) # <<>> /\ Due(task)[1] = x /\ Tail(Due(task)) = <<>>
       /\ Due(task) \in StopAnswers
  BY Zenon, <1>1, OneAnswer DEF StopAnswers
<1>11. Tail(Due(task)) \notin StopAnswers
  BY <1>10 DEF StopAnswers
<1>12. Meets(x, x) /\ Outstanding(x) = <<>> /\ x # "play" /\ x # "encryption_response"
  BY DEF Meets, Outstanding
<1>13. InFlight = 0
  BY <1>1, <1>10, StoppedServer
<1>14. /\ Outstanding(x) \o Tail(server.owed) \in Seq(Words)
       /\ \E d : Counts(InFlight, Stream, d, Due(task'), Outstanding(x) \o Tail(server.owed))
  BY <1>1, <1>8, <1>10, <1>11, <1>12, DueMet
<1> HIDE DEF x
<1>15. Answered(x, "Play")
  BY Zenon, <1>1, <1>3, <1>6, <1>7, <1>8, <1>9, <1>10, <1>12, <1>13, <1>14 DEF Answered
<1> QED BY <1>1, <1>15, AfterAnswer

\* The handshake, and login_start behind it.
LEMMA HandshakeWritten ==
  ASSUME LinkInv, WriteFrame, ~server.cut, task.out = <<"set_protocol">>, task.then = "login",
         conn.state = "Handshaking"
  PROVE  LinkInv'
<1> DEFINE x == "set_protocol"
<1>1. /\ Talking /\ LinkType /\ UNCHANGED <<cfg, joined, toClient, proxied, garbled>>
      /\ cfg.proxy = "credentials" => proxied
      /\ server.phase = "handshaking" /\ Due(task) = <<x, "login_start">>
  BY WritingFacts, DueOfOne DEF PhaseOf
<1>2. PICK s : /\ DOMAIN s = DOMAIN task /\ s.stage = task.stage /\ s.out = <<>>
               /\ s.then = task.then /\ task' = Continue(s)
  BY LastFrame
<1>3. server' = Taken(x) /\ TaskFields \subseteq DOMAIN task
      /\ conn' = [conn EXCEPT !.state = StateAfter(task), !.cipher = @ \/ task.then = "encrypt"]
  BY LastFrame
<1>4. \/ task' = Send(Enter(s, "Login"), <<"login_start">>, "read")
      \/ task' = Err(s, "ProtocolIncompatible")
  BY <1>2 DEF Continue
<1>5. StateAfter(task) = "Login"
  BY DEF StateAfter
<1>6. ConnAfter(x, "Login")
  <2>1. (task.then = "encrypt") = (x = "encryption_response")
    OBVIOUS
  <2> QED BY Zenon, <1>1, <1>3, <1>5, <2>1, ConnChanges
<1>7. PhaseAfter(x) = "handshaking"
  BY <1>1 DEF PhaseAfter
<1>8. /\ Due(task) # <<>> /\ Due(task)[1] = x /\ Tail(Due(task)) = <<"login_start">>
  <2>1. <<x, "login_start">> # <<>> /\ <<x, "login_start">>[1] = x /\ Tail(<<x, "login_start">>) = <<"login_start">>
    BY Zenon, TwoAnswers
  <2> QED BY Zenon, <1>1, <2>1
<1>9. Tail(Due(task)) \notin StopAnswers
  BY <1>8 DEF StopAnswers
<1>10. Meets(x, x) /\ Outstanding(x) = <<>> /\ x # "play" /\ x # "encryption_response"
  BY DEF Meets, Outstanding
<1>11. InFlight = 0
  BY Zenon, <1>1, QuietHandshake
<1>12. /\ Outstanding(x) \o Tail(server.owed) \in Seq(Words)
       /\ \E d : Counts(InFlight, Stream, d, <<"login_start">>, Outstanding(x) \o Tail(server.owed))
  BY Zenon, <1>1, <1>8, <1>9, <1>10, DueMet
<1> HIDE DEF x
<1>13. CASE task' = Err(s, "ProtocolIncompatible")
  <2>1. /\ task'.stage = "Over" /\ task'.out = <<>> /\ DOMAIN task' = DOMAIN task
        /\ Shape(task', "Login")
    BY <1>2, <1>3, <1>13, ErrFacts DEF TaskFields
  <2>2. Answered(x, "Login")
    BY <1>1, <1>3, <1>6, <1>8, <1>10, <1>11, <1>12, <2>1 DEF Answered
  <2> QED BY <1>1, <2>2, AfterAnswer
<1>14. CASE task' = Send(Enter(s, "Login"), <<"login_start">>, "read")
  <2> DEFINE e == Enter(s, "Login")
  <2>1. DOMAIN e = DOMAIN task /\ e.stage = "Login"
    BY <1>2, <1>3 DEF Enter, TaskFields
  <2>2. task' = Send(e, <<"login_start">>, "read")
    BY <1>14
  <2> HIDE DEF e
  <2>3. /\ DOMAIN task' = DOMAIN task /\ task'.stage = "Login"
        /\ Writes(task', <<"login_start">>, "read")
    BY Zenon, <1>3, <2>1, <2>2, SendFacts
  <2>4. Shape(task', "Login")
    BY <2>3 DEF Shape
  <2>5. /\ task'.out # <<"encryption_response">> /\ Due(task') = <<"login_start">>
        /\ PhaseOf(task', "Login") = "handshaking"
    BY <2>3, DueOfOne DEF Writes, Due, Reaching, PhaseOf
  <2>6. Answered(x, "Login")
    BY Zenon, <1>1, <1>3, <1>6, <1>7, <1>8, <1>10, <1>11, <1>12, <2>3, <2>4, <2>5 DEF Answered
  <2> QED BY <1>1, <2>6, AfterAnswer
<1> QED BY <1>4, <1>13, <1>14

\* A frame that is not the handler's last.
LEMMA EarlierFrame ==
  ASSUME LinkInv, WriteFrame, NEW x, NEW y, task.out = <<x, y>>
  PROVE  /\ server' = Taken(x) /\ UNCHANGED conn
         /\ DOMAIN task' = DOMAIN task /\ task'.stage = task.stage /\ task'.wait = "write"
         /\ task'.then = task.then /\ task'.out = <<y>>
<1>1. Len(<<x, y>>) = 2 /\ Head(<<x, y>>) = x /\ Tail(<<x, y>>) = <<y>>
  OBVIOUS
<1>2. Len(task.out) > 1 /\ Head(task.out) = x /\ Tail(task.out) = <<y>>
  BY <1>1
<1>3. /\ server' = Taken(x) /\ UNCHANGED conn /\ task' = [task EXCEPT !.out = Tail(@)]
      /\ task.wait = "write"
  BY <1>2, WritingFacts
<1>4. TaskFields \subseteq DOMAIN task
  BY Zenon DEF LinkInv, LinkType, TaskFields
<1> QED BY <1>2, <1>3, <1>4 DEF TaskFields

\* An answer that leaves the Connection alone, as one that does not encrypt.
LEMMA ConnSame ==
  ASSUME LinkType, UNCHANGED conn, NEW kind, kind # "encryption_response"
  PROVE  ConnAfter(kind, conn.state)
BY DEF LinkType, ConnAfter

\* The first of the two packets that say who the client is.
LEMMA PayloadWritten ==
  ASSUME LinkInv, WriteFrame, ~server.cut, task.out = <<"custom_payload", "settings">>,
         task.then = "read", task.stage \in Configuring, conn.state = "Configuration"
  PROVE  LinkInv'
<1> DEFINE x == "custom_payload"
<1>1. /\ Talking /\ LinkType /\ UNCHANGED <<cfg, joined, toClient, proxied, garbled>>
      /\ cfg.proxy = "credentials" => proxied
      /\ server.phase = PhaseOf(task, conn.state) /\ Due(task) = <<x, "settings">>
  BY WritingFacts, DueOfOne
<1>2. /\ server' = Taken(x) /\ UNCHANGED conn
      /\ DOMAIN task' = DOMAIN task /\ task'.stage = task.stage /\ task'.wait = "write"
      /\ task'.then = task.then /\ task'.out = <<"settings">>
  BY EarlierFrame
<1>3. Meets(x, x) /\ Outstanding(x) = <<>> /\ x # "play" /\ x # "encryption_response"
  BY DEF Meets, Outstanding
<1>4. ConnAfter(x, conn.state)
  BY Zenon, <1>1, <1>2, <1>3, ConnSame
<1>5. Shape(task', conn.state)
  BY <1>2 DEF Shape, Writes
<1>6. task'.out # <<"encryption_response">> /\ Due(task') = <<"settings">>
  BY <1>2, DueOfOne DEF Due, Reaching
<1>7. PhaseAfter(x) = server.phase /\ PhaseOf(task', conn.state) = server.phase
  BY <1>1 DEF PhaseAfter, PhaseOf
<1>8. /\ Due(task) # <<>> /\ Due(task)[1] = x /\ Tail(Due(task)) = <<"settings">>
  <2>1. <<x, "settings">> # <<>> /\ <<x, "settings">>[1] = x /\ Tail(<<x, "settings">>) = <<"settings">>
    BY Zenon, TwoAnswers
  <2> QED BY Zenon, <1>1, <2>1
<1>9. Tail(Due(task)) \notin StopAnswers
  BY <1>8 DEF StopAnswers
<1>10. /\ Outstanding(x) \o Tail(server.owed) \in Seq(Words)
       /\ \E d : Counts(InFlight, Stream, d, Due(task'), Outstanding(x) \o Tail(server.owed))
  BY <1>1, <1>3, <1>6, <1>8, <1>9, DueMet
<1> HIDE DEF x
<1>11. Answered(x, conn.state)
  BY Zenon, <1>1, <1>2, <1>3, <1>4, <1>5, <1>6, <1>7, <1>8, <1>10 DEF Answered
<1> QED BY <1>1, <1>11, AfterAnswer

\* The first of the two statuses of a pack that was downloaded.
LEMMA DownloadedWritten ==
  ASSUME LinkInv, WriteFrame, ~server.cut, task.out = <<"DOWNLOADED", "SUCCESSFULLY_LOADED">>,
         task.then = "read",
         \/ task.stage \in Configuring /\ conn.state = "Configuration"
         \/ task.stage = "Play" /\ conn.state = "Play"
  PROVE  LinkInv'
<1> DEFINE x == "DOWNLOADED"
<1>1. /\ Talking /\ LinkType /\ UNCHANGED <<cfg, joined, toClient, proxied, garbled>>
      /\ cfg.proxy = "credentials" => proxied
      /\ server.phase = PhaseOf(task, conn.state) /\ Due(task) = <<"pack_result">>
  BY WritingFacts, DueOfOne
<1>2. /\ server' = Taken(x) /\ UNCHANGED conn
      /\ DOMAIN task' = DOMAIN task /\ task'.stage = task.stage /\ task'.wait = "write"
      /\ task'.then = task.then /\ task'.out = <<"SUCCESSFULLY_LOADED">>
  BY EarlierFrame
<1>3. /\ Meets("pack_result", x) /\ Outstanding(x) = <<"SUCCESSFULLY_LOADED">>
      /\ x # "play" /\ x # "encryption_response"
      /\ "SUCCESSFULLY_LOADED" \in Words /\ <<"SUCCESSFULLY_LOADED">> \notin StopAnswers
  BY DEF Meets, Outstanding, Words, StopAnswers
<1>4. ConnAfter(x, conn.state)
  BY Zenon, <1>1, <1>2, <1>3, ConnSame
<1>5. Shape(task', conn.state)
  <2>1. Serving(task')
    BY <1>2 DEF Serving, Writes, PackAnswers
  <2> QED BY Zenon, <1>2, <2>1 DEF Shape
<1>6. task'.out # <<"encryption_response">> /\ Due(task') = <<"SUCCESSFULLY_LOADED">>
  BY <1>2, DueOfOne DEF Due, Reaching
<1>7. PhaseAfter(x) = server.phase /\ PhaseOf(task', conn.state) = server.phase
  BY <1>1 DEF PhaseAfter, PhaseOf
<1>8. /\ Due(task) # <<>> /\ Due(task)[1] = "pack_result" /\ Len(Due(task)) = 1
  BY <1>1
<1>9. /\ Outstanding(x) \o Tail(server.owed) \in Seq(Words)
      /\ \E d : Counts(InFlight, Stream, d, Due(task'), Outstanding(x) \o Tail(server.owed))
  BY Zenon, <1>1, <1>3, <1>6, <1>8, DueSwapped
<1> HIDE DEF x
<1>10. Answered(x, conn.state)
  BY Zenon, <1>1, <1>2, <1>3, <1>4, <1>5, <1>6, <1>7, <1>8, <1>9 DEF Answered
<1> QED BY <1>1, <1>10, AfterAnswer

\* Play packets.
LEMMA PlayWritten ==
  ASSUME LinkInv, WriteFrame, ~server.cut, task.stage = "Play", conn.state = "Play",
         task.then = "read", task.out \in Seq({"play"}), task.out # <<>>
  PROVE  LinkInv'
<1>1. /\ Talking /\ LinkType /\ UNCHANGED <<cfg, joined, toClient, proxied, garbled>>
      /\ cfg.proxy = "credentials" => proxied
      /\ server' = Taken(Head(task.out)) /\ Due(task) = DueOf(task.out)
      /\ Len(task.out) > 1 => task' = [task EXCEPT !.out = Tail(@)] /\ UNCHANGED conn
      /\ ~(Len(task.out) > 1) =>
           /\ task' = Continue([task EXCEPT !.out = <<>>])
           /\ conn' = [conn EXCEPT !.state = StateAfter(task), !.cipher = @ \/ task.then = "encrypt"]
  BY WritingFacts
<1>2. Head(task.out) = "play" /\ task.out[1] = "play"
  OBVIOUS
<1>3. server' = server
  BY <1>1, <1>2, TakesPlay
<1>4. Due(task) = <<>>
  BY <1>1, <1>2 DEF DueOf
<1>5. ProxyInv'
  BY <1>1 DEF ProxyInv
<1>6. Dead => Dead'
  BY <1>1 DEF Talking
<1>7. TaskFields \subseteq DOMAIN task /\ task.wait = "write"
  BY WritingFacts DEF LinkInv, LinkType, TaskFields
<1>8. PhaseOf(task', conn.state) = PhaseOf(task, conn.state)
  BY DEF PhaseOf
<1>9. CASE Len(task.out) > 1
  <2> DEFINE out == Tail(task.out)
  <2>0. out \in Seq({"play"}) /\ Len(out) = Len(task.out) - 1 /\ Len(task.out) \in Nat
    BY <1>9
  <2>1. out \in Seq({"play"}) /\ out # <<>>
    <3> HIDE DEF out
    <3>1. Len(out) # 0
      BY <1>9, <2>0
    <3>2. Len(<<>>) = 0
      OBVIOUS
    <3>3. out # <<>>
      BY ONLY <3>1, <3>2, Zenon
    <3> QED BY <2>0, <3>3
  <2>2. out[1] = "play" /\ out # <<"encryption_response">>
    <3> HIDE DEF out
    <3>1. out[1] = "play"
      BY <2>1
    <3>2. <<"encryption_response">>[1] # "play"
      OBVIOUS
    <3> QED BY <3>1, <3>2
  <2>3. /\ DOMAIN task' = DOMAIN task /\ task'.stage = "Play" /\ task'.wait = "write"
        /\ task'.then = "read" /\ task'.out = out
    BY Zenon, <1>1, <1>7, <1>9 DEF TaskFields
  <2> HIDE DEF out
  <2>4. Shape(task', conn.state)
    BY <2>1, <2>3 DEF Shape
  <2>5. Due(task') = Due(task)
    <3>1. Due(task') = DueOf(out)
      BY <2>3 DEF Due, Reaching
    <3> QED BY <1>4, <2>2, <3>1 DEF DueOf
  <2> QED BY Zenon, <1>1, <1>3, <1>5, <1>6, <1>8, <1>9, <2>2, <2>3, <2>4, <2>5, LinkProceeds
<1>10. CASE ~(Len(task.out) > 1)
  <2> DEFINE s == [task EXCEPT !.out = <<>>]
  <2>1. /\ DOMAIN s = DOMAIN task /\ s.stage = "Play" /\ s.out = <<>> /\ s.then = "read"
    BY <1>7 DEF TaskFields
  <2>2. task' = Continue(s)
    BY <1>1, <1>10
  <2> HIDE DEF s
  <2>3. task' = ReadOn(s)
    BY <2>1, <2>2 DEF Continue
  <2>4. DOMAIN task' = DOMAIN task /\ task'.out = <<>> /\ task'.stage = "Play" /\ task'.wait = "read"
    BY Zenon, <1>7, <2>1, <2>3, ReadOnFacts DEF Configuring
  <2>5. /\ Shape(task', conn.state) /\ Due(task') = <<>> /\ task'.out # <<"encryption_response">>
    BY <2>4, WaitsOn
  <2>6. StateAfter(task) = conn.state
    BY DEF StateAfter
  <2>7. ConnKept
    BY Zenon, <1>1, <1>10, <2>6 DEF LinkType, ConnKept
  <2> QED BY Zenon, <1>1, <1>3, <1>4, <1>5, <1>6, <1>8, <2>4, <2>5, <2>7, LinkGoesOn
<1> QED BY <1>9, <1>10

\* A reply, or the status of a pack, in the stages that serve the server.
LEMMA ServiceWritten ==
  ASSUME LinkInv, WriteFrame, ~server.cut, Serving(task),
         \/ task.stage \in Configuring /\ conn.state = "Configuration"
         \/ task.stage = "Play" /\ conn.state = "Play"
  PROVE  LinkInv'
<1>1. task.wait = "write" /\ Due(task) = DueOf(task.out)
  BY WritingFacts
<1>2. ASSUME NEW r \in Replies, Writes(task, <<r>>, "read")
      PROVE  LinkInv'
  <2>1. task.out = <<r>> /\ task.then = "read" /\ Due(task) = <<r>>
    BY <1>1, <1>2, DueOfOne DEF Writes
  <2>2. /\ r \notin {"play", "login_start", "encryption_response"}
        /\ Meets(r, r) /\ Outstanding(r) = <<>> /\ PhaseAfter(r) = server.phase
    BY DEF Replies, Meets, Outstanding, PhaseAfter
  <2> QED BY <2>1, <2>2, ReplyWritten
<1>3. ASSUME NEW x \in {"DECLINED", "SUCCESSFULLY_LOADED", "INVALID_URL", "FAILED_DOWNLOAD"},
             Writes(task, <<x>>, "read")
      PROVE  LinkInv'
  <2>1. task.out = <<x>> /\ task.then = "read"
    BY <1>3 DEF Writes
  <2>2. PICK y : Due(task) = <<y>> /\ Meets(y, x)
    BY <1>1, <2>1, DueOfOne DEF Meets
  <2>3. /\ x \notin {"play", "login_start", "encryption_response"}
        /\ Outstanding(x) = <<>> /\ PhaseAfter(x) = server.phase
    BY DEF Outstanding, PhaseAfter
  <2> QED BY <2>1, <2>2, <2>3, ReplyWritten
<1>4. CASE Writes(task, <<"DOWNLOADED", "SUCCESSFULLY_LOADED">>, "read")
  BY <1>4, DownloadedWritten DEF Writes
<1>5. CASE Writes(task, <<"ACCEPTED">>, "download")
  BY <1>5, AcceptedWritten DEF Writes
<1>6. \/ \E r \in Replies : Writes(task, <<r>>, "read")
      \/ \E out \in PackAnswers : Writes(task, out, "read")
      \/ Writes(task, <<"ACCEPTED">>, "download")
  BY Zenon, <1>1 DEF Serving
<1>7. ASSUME NEW out \in PackAnswers, Writes(task, out, "read")
      PROVE  LinkInv'
  BY <1>3, <1>4, <1>7 DEF PackAnswers
<1> QED BY Zenon, <1>2, <1>5, <1>6, <1>7

\* Writing a frame keeps the invariant, while the wire is whole.
LEMMA LinkWrites ==
  ASSUME LinkInv, WriteFrame, ~server.cut
  PROVE  LinkInv'
<1>1. task.wait = "write" /\ Due(task) = DueOf(task.out)
  BY WritingFacts
<1>2. CASE Writes(task, <<"set_protocol">>, "login") /\ conn.state = "Handshaking"
  BY Zenon, <1>2, HandshakeWritten DEF Writes
<1>3. CASE /\ task.stage = "Login" /\ conn.state = "Login"
           /\ Writes(task, <<"login_start">>, "read")
  BY <1>3, LoginStartWritten DEF Writes
<1>4. CASE /\ task.stage = "Login" /\ conn.state = "Login"
           /\ Writes(task, <<"encryption_response">>, "encrypt")
  BY <1>4, EncryptionWritten DEF Writes
<1>5. CASE /\ task.stage = "Login" /\ conn.state = "Login"
           /\ Writes(task, <<"plugin_response">>, "read")
  <2> DEFINE x == "plugin_response"
  <2>1. task.out = <<x>> /\ task.then = "read" /\ Due(task) = <<x>>
    BY <1>1, <1>5, DueOfOne DEF Writes, Replies
  <2>2. /\ x \notin {"play", "login_start", "encryption_response"}
        /\ Meets(x, x) /\ Outstanding(x) = <<>> /\ PhaseAfter(x) = server.phase
    BY DEF Meets, Outstanding, PhaseAfter
  <2> HIDE DEF x
  <2> QED BY Zenon, <1>5, <2>1, <2>2, ReplyWritten
<1>6. CASE Writes(task, <<"login_acknowledged">>, "configure")
  BY <1>6, ConfigurationEntered DEF Writes
<1>7. CASE /\ \/ task.stage \in Configuring /\ conn.state = "Configuration"
              \/ task.stage = "Play" /\ conn.state = "Play"
           /\ Serving(task)
  BY <1>7, ServiceWritten
<1>8. CASE /\ task.stage \in Configuring /\ conn.state = "Configuration"
           /\ Writes(task, <<"custom_payload", "settings">>, "read")
  BY <1>8, PayloadWritten DEF Writes
<1>9. CASE /\ task.stage \in Configuring /\ conn.state = "Configuration"
           /\ Writes(task, <<"settings">>, "read")
  <2> DEFINE x == "settings"
  <2>1. task.out = <<x>> /\ task.then = "read" /\ Due(task) = <<x>>
    BY <1>1, <1>9, DueOfOne DEF Writes
  <2>2. /\ x \notin {"play", "login_start", "encryption_response"}
        /\ Meets(x, x) /\ Outstanding(x) = <<>> /\ PhaseAfter(x) = server.phase
    BY DEF Meets, Outstanding, PhaseAfter
  <2> HIDE DEF x
  <2> QED BY <1>9, <2>1, <2>2, ReplyWritten
<1>10. CASE Writes(task, <<"finish_configuration">>, "play")
  BY <1>10, PlayEntered DEF Writes
<1>11. CASE /\ task.stage = "Play" /\ conn.state = "Play" /\ task.then = "read"
            /\ task.out \in Seq({"play"}) /\ task.out # <<>>
  BY <1>11, PlayWritten
<1>12. CASE Writes(task, <<"configuration_acknowledged">>, "reconfigure")
  BY <1>12, ConfigurationEntered DEF Writes
<1>13. Shape(task, conn.state)
  BY DEF LinkInv
<1> QED BY Zenon, <1>1, <1>2, <1>3, <1>4, <1>5, <1>6, <1>7, <1>8, <1>9, <1>10, <1>11, <1>12, <1>13
        DEF Shape, Reaching

-----------------------------------------------------------------------------
(* The other steps of the client, and the sessions.                        *)

\* A write that times out keeps the invariant: the connection has failed.
LEMMA LinkWriteTimesOut ==
  ASSUME LinkInv, WriteTimesOut
  PROVE  LinkInv'
<1>1. PICK part \in BOOLEAN : server' = [server EXCEPT !.cut = part]
  BY DEF WriteTimesOut
<1>2. /\ task.wait = "write" /\ conn' = [conn EXCEPT !.failed = TRUE]
      /\ task' = Err(task, "Transient")
      /\ UNCHANGED <<cfg, joined, toClient, proxied, garbled>>
  BY DEF WriteTimesOut
<1>3. LinkType
  BY DEF LinkInv
<1>4. /\ DOMAIN server' = DOMAIN server /\ server'.enc = server.enc /\ server'.comp = server.comp
      /\ server'.owed = server.owed /\ server'.confused = server.confused
  BY <1>1, <1>3 DEF LinkType
<1>5. /\ DOMAIN conn' = DOMAIN conn /\ conn'.failed /\ conn'.cipher = conn.cipher
      /\ conn'.threshold = conn.threshold /\ conn'.buf = conn.buf /\ conn'.state = conn.state
  BY <1>2, <1>3 DEF LinkType
<1>6. task'.stage = "Over" /\ DOMAIN task' = DOMAIN task /\ Shape(task', conn'.state)
  BY <1>2, <1>3, ErrFacts DEF LinkType
<1>7. LinkType'
  BY Zenon, <1>2, <1>3, <1>4, <1>5, <1>6 DEF LinkType
<1>8. Dead'
  BY <1>5 DEF Dead
<1>9. ProxyInv'
  BY <1>2, <1>5, <1>6 DEF LinkInv, ProxyInv
<1> QED BY Zenon, <1>2, <1>4, <1>6, <1>7, <1>8, <1>9 DEF LinkInv

\* The frame in front is in the mode it is read in.
LEMMA NeverMisread ==
  ASSUME LinkInv, Misread
  PROVE  FALSE
<1>1. /\ task.wait = "read" /\ ~conn.failed /\ conn.buf # <<>>
      /\ ~Head(conn.buf).plain \/ Head(conn.buf).comp # conn.threshold
  BY Zenon DEF Misread
<1>2. task.stage # "Over"
  BY <1>1 DEF LinkInv, Shape, Configuring
<1>3. ModeInv /\ LinkType
  BY Zenon, <1>1, <1>2 DEF LinkInv, Dead
<1>4. 1 \in 1..Len(conn.buf) /\ Head(conn.buf) = conn.buf[1] /\ Len(conn.buf) \in Nat
  BY <1>1, <1>3 DEF LinkType
<1>5. Head(conn.buf).plain
  BY <1>3, <1>4 DEF ModeInv, Encrypts
<1>6. 1 \in 1..InFlight
  BY <1>1, <1>3, StreamFirst
<1>7. Stream[1].comp = conn.buf[1].comp
  BY <1>3, <1>4, StreamType, FrameFacts
<1>8. Stream[1].comp = (conn.threshold \/ Compresses(Stream, 1 - 1))
  BY <1>3, <1>6 DEF ModeInv, Comps
<1>9. ~Compresses(Stream, 1 - 1)
  BY DEF Compresses
<1>10. Stream[1].comp = conn.threshold
  BY <1>3, <1>8, <1>9 DEF LinkType
<1> QED BY Zenon, <1>1, <1>4, <1>5, <1>7, <1>10

\* Every step of the connection keeps the invariant.
LEMMA LinkConnection ==
  ASSUME LinkInv, server.cut => conn.failed, Connection
  PROVE  LinkInv'
<1>1. CASE WriteFrame
  <2>1. ~server.cut
    BY <1>1 DEF WriteFrame
  <2> QED BY <1>1, <2>1, LinkWrites
<1>2. CASE WriteTimesOut
  BY <1>2, LinkWriteTimesOut
<1>3. CASE WriteRefused
  BY Zenon, <1>3, LinkEnds DEF WriteRefused, Return, peerVars
<1>4. CASE ReadChunk
  BY <1>4, LinkReads
<1>5. CASE ReadRefused
  BY <1>5, LinkEnds DEF ReadRefused, Return, peerVars
<1>6. CASE Misread
  BY <1>6, NeverMisread
<1>7. CASE TimesOut
  <2>1. task.wait = "read" \/ task.stage \notin {"Play", "Over"}
    BY Zenon, <1>7 DEF TimesOut, LinkInv, Shape, Configuring, Serving, Writes
  <2> QED BY Zenon, <1>7, <2>1, LinkEnds DEF TimesOut, Return, peerVars
<1>8. CASE DeadlinePasses
  BY <1>8, LinkEnds DEF DeadlinePasses, Return, peerVars, Connecting
<1> QED BY Zenon, <1>1, <1>2, <1>3, <1>4, <1>5, <1>6, <1>7, <1>8, LinkPackets, LinkProxy, LinkJoins,
           LinkDownloads DEF Connection, Client, Writing, Reading

\* Every step of the server keeps the invariant.
LEMMA LinkServer ==
  ASSUME LinkInv, ServerMoves
  PROVE  LinkInv'
BY LinkServerSends, LinkServerCloses DEF ServerMoves

\* A play packet that is folded into the PlayState, and not answered.
Listens == Receive({"Play"}, "data") /\ Handle(task)

\* A play packet that is not answered keeps the invariant.
LEMMA LinkListens ==
  ASSUME LinkInv, Listens
  PROVE  LinkInv'
<1>1. Receive({"Play"}, "data") /\ Handle(task)
  BY DEF Listens
<1>2. task.stage = "Play" /\ task.wait = "read" /\ task.out = <<>>
  BY <1>1, ReceiveStage
<1> QED BY <1>1, <1>2, HandleWaits, Obligations

\* The scoreboard packets are of that sort.
LEMMA ScoreboardsListen ==
  ASSUME Scoreboards
  PROVE  Listens
BY Zenon DEF Scoreboards, TeamPackets, Board, Says, Listens

\* So are the tracker packets.
LEMMA TrackersListen ==
  ASSUME TrackerPackets
  PROVE  Listens
<1>1. ASSUME NEW n, NEW action, NEW value, NEW mine,
             \/ BossBar(n, action, value) \/ Cooldown(n, action, value)
             \/ Effect(n, action, value, mine) \/ Border(action, value) \/ Chat
      PROVE  Listens
  BY <1>1 DEF BossBar, Cooldown, Effect, Border, Chat, Says, Listens
<1>2. ASSUME NEW n, NEW value,
             \/ SelectHotbar(n) \/ HotbarItem(n, value) \/ PlayerInfo(n, value)
             \/ PlayerRemove(n) \/ SpawnEntity(n, value) \/ DestroyEntity(n)
             \/ MoveEntity(n, value)
      PROVE  Listens
  BY <1>2 DEF SelectHotbar, HotbarItem, PlayerInfo, PlayerRemove, SpawnEntity, DestroyEntity,
     MoveEntity, Says, Listens
<1>3. CASE MalformedOptional
  BY <1>3 DEF MalformedOptional, Says, Listens
<1> QED BY <1>1, <1>2, <1>3 DEF TrackerPackets, BossBarPackets, BorderPackets

\* A teleport, answered with two frames of play, keeps the invariant.
LEMMA LinkTeleports ==
  ASSUME LinkInv, NEW x, NEW facing, Position(x, facing)
  PROVE  LinkInv'
<1> DEFINE out == <<"play", "play">>
           t == Send(task, out, "read")
<1>1. Receive({"Play"}, "data") /\ Handle(t)
  BY Zenon DEF Position, Says
<1>2. task.stage = "Play" /\ conn.state = "Play"
  BY <1>1, ReceiveStage
<1>3. /\ out \in Seq({"play"}) /\ out # <<>> /\ DueOf(out) = <<>>
      /\ out # <<"login_start">> /\ out # <<"encryption_response">>
  BY DEF DueOf
<1>4. DOMAIN t = DOMAIN task /\ t.stage = "Play" /\ Writes(t, out, "read")
  BY Zenon, <1>2, SendFacts DEF LinkInv, LinkType, TaskFields
<1> HIDE DEF t, out
<1>5. Shape(t, conn.state)
  BY <1>2, <1>3, <1>4 DEF Shape, Writes
<1>6. Due(t) = Obliges("data")
  BY <1>3, <1>4, Obligations DEF Due, Writes, Reaching
<1>7. t.out # <<"login_start">> /\ t.out # <<"encryption_response">>
  BY <1>3, <1>4 DEF Writes
<1> QED BY Zenon, <1>1, <1>4, <1>5, <1>6, <1>7, HandleTakes

\* Every packet about the player keeps the invariant.
LEMMA LinkPlayerPackets ==
  ASSUME LinkInv, PlayerPackets
  PROVE  LinkInv'
<1>1. ASSUME NEW scope, Login(scope) \/ Respawn(scope)
      PROVE  Listens
  BY <1>1 DEF Login, Respawn, Says, Listens
<1>2. ASSUME NEW alive, Health(alive)
      PROVE  Listens
  BY <1>2 DEF Health, Says, Listens
<1> QED BY <1>1, <1>2, LinkListens, LinkTeleports DEF PlayerPackets

\* Every packet about the world keeps the invariant.
LEMMA LinkWorldPackets ==
  ASSUME LinkInv, WorldPackets
  PROVE  LinkInv'
<1>1. ASSUME NEW p, NEW content, MapChunk(p, content) \/ ChunkUpdate(p, content) \/ UnloadChunk(p)
      PROVE  Listens
  BY <1>1 DEF MapChunk, ChunkUpdate, UnloadChunk, Says, Listens
<1>2. CASE ChunkRefused
  BY <1>2, HandleErrs, Obligations DEF ChunkRefused
<1> QED BY <1>1, <1>2, LinkListens DEF WorldPackets

\* The frames of a tick are play packets.
LEMMA TickFramesType ==
  ASSUME NEW p
  PROVE  TickFrames(p) \in Seq({"play"})
<1> DEFINE a == IF p.input # play.lastInput THEN <<"play">> ELSE <<>>
           b == IF Moved(p) THEN <<"play">> ELSE <<>>
           c == <<"play">>
<1>0. <<"play">> \in Seq({"play"}) /\ <<>> \in Seq({"play"})
  OBVIOUS
<1>1. a \in Seq({"play"}) /\ b \in Seq({"play"}) /\ c \in Seq({"play"}) /\ <<>> \in Seq({"play"})
  BY <1>0, Zenon
<1>2. TickFrames(p) = IF ~p.loaded THEN <<>> ELSE a \o b \o c
  BY DEF TickFrames
<1> HIDE DEF a, b, c
<1>3. a \o b \in Seq({"play"})
  BY <1>1, Concatenated
<1>4. (a \o b) \o c \in Seq({"play"})
  BY <1>1, <1>3, Concatenated
<1> QED BY <1>1, <1>2, <1>4

\* Ticks, input and what the bot sends keep the invariant.
LEMMA LinkTicks ==
  ASSUME LinkInv, Tick \/ Control \/ PlaySend
  PROVE  LinkInv'
<1>1. <<"play">> \in Seq({"play"}) /\ <<"play">> # <<>>
  OBVIOUS
<1>2. CASE TickDead \/ TickLoads \/ Control \/ PlaySend
  BY Zenon, <1>1, <1>2, LinkInterrupted DEF TickDead, TickLoads, Ticks, Control, PlaySend
<1>3. ASSUME NEW look, NEW v, TickMoves(look, v)
      PROVE  LinkInv'
  <2>1. PICK p : Ticks(IF TickFrames(p) = <<>> THEN task ELSE Send(task, TickFrames(p), "read"))
    BY <1>3 DEF TickMoves
  <2> DEFINE out == TickFrames(p)
  <2>2. out \in Seq({"play"})
    BY TickFramesType
  <2>3. Ticks(IF out = <<>> THEN task ELSE Send(task, out, "read"))
    BY <2>1
  <2> HIDE DEF out
  <2>4. CASE out = <<>>
    BY Zenon, <2>3, <2>4, LinkInterrupted DEF Ticks
  <2>5. CASE out # <<>>
    BY Zenon, <2>2, <2>3, <2>5, LinkInterrupted DEF Ticks
  <2> QED BY <2>4, <2>5
<1> QED BY <1>2, <1>3 DEF Tick

\* Every step keeps the invariant, given that a cut frame fails the connection.
LEMMA LinkStep == LinkInv /\ (server.cut => conn.failed) /\ [Next]_vars => LinkInv'
<1> SUFFICES ASSUME LinkInv, server.cut => conn.failed, [Next]_vars PROVE LinkInv'
  OBVIOUS
<1>1. CASE Clock \/ OtherBots \/ UNCHANGED vars
  <2>1. UNCHANGED LinkVars
    BY <1>1 DEF Clock, OtherBots, vars, connectVars, peerVars, LinkVars
  <2> QED BY Zenon, <2>1, LinkUnchanged
<1> QED BY Zenon, <1>1, LinkConnection, LinkServer, LinkRunsAgain, LinkTicks, LinkPlayerPackets,
           LinkWorldPackets, ScoreboardsListen, TrackersListen, LinkListens DEF Next

\* Client and server agree before the first frame.
LEMMA LinkInit == Init => LinkInv
<1> SUFFICES ASSUME Init PROVE LinkInv
  OBVIOUS
<1>0. ConnectInit \/ ConnectedInit
  BY DEF Init
<1>1. toClient = <<>> /\ ~garbled /\ ~proxied
  BY DEF Init, IdleInit
<1>2. <<"set_protocol", "login_start">> \in Seq(Words) /\ <<>> \in Seq(Words)
  BY DEF Words
<1>3. LinkType /\ ~server.confused
  <2>1. <<>> \in Seq(Sent) /\ <<>> \in Seq(Buffered)
    OBVIOUS
  <2>2. /\ DOMAIN task = {"stage", "wait", "out", "then", "packets", "result"}
        /\ DOMAIN conn = {"failed", "state", "buf", "half", "cipher", "threshold"}
        /\ DOMAIN server = {"cut", "mixed", "phase", "enc", "comp", "owed", "checks", "confused", "sent"}
    BY Zenon, <1>0 DEF ConnectInit, ConnectedInit
  <2>3. /\ conn.cipher = FALSE /\ conn.threshold = FALSE /\ server.enc = FALSE /\ server.comp = FALSE
        /\ conn.buf = <<>> /\ server.confused = FALSE
        /\ server.owed \in {<<>>, <<"set_protocol", "login_start">>}
    <3>1. CASE ConnectInit
      BY Zenon, <3>1 DEF ConnectInit
    <3>2. CASE ConnectedInit
      BY Zenon, <3>2 DEF ConnectedInit
    <3> QED BY Zenon, <1>0, <3>1, <3>2
  <2>4. server.owed \in Seq(Words)
    BY Zenon, <1>2, <2>3
  <2> QED BY Zenon, <1>1, <2>1, <2>2, <2>3, <2>4 DEF LinkType
<1>4. conn.buf = <<>> /\ ~conn.failed /\ ~server.enc /\ ~server.comp /\ conn.half = "none"
      /\ ~conn.cipher /\ ~conn.threshold /\ ~server.checks
  <2>1. CASE ConnectInit
    BY Zenon, <2>1 DEF ConnectInit
  <2>2. CASE ConnectedInit
    BY Zenon, <2>2 DEF ConnectedInit
  <2> QED BY <1>0, <2>1, <2>2
<1>5. InFlight = 0
  BY <1>1, <1>4 DEF InFlight
<1>6. ModeInv
  BY <1>1, <1>3, <1>4, <1>5 DEF ModeInv, Encrypts, Comps, Compresses, LinkType
<1>7. CASE ConnectInit
  <2>1. /\ task.stage \in {"TcpConnect", "ProxyNegotiate"} /\ task.wait = "tcp" /\ task.out = <<>>
        /\ conn.state = "Handshaking" /\ server.phase = "handshaking"
        /\ server.owed = <<"set_protocol", "login_start">>
        /\ task.stage = "TcpConnect" => cfg.proxy = "none"
    BY Zenon, <1>7 DEF ConnectInit
  <2>2. Shape(task, conn.state)
    BY Zenon, <2>1 DEF Shape, Reaching
  <2>3. ProxyInv
    BY <2>1 DEF ProxyInv
  <2>4. Due(task) = server.owed
    BY <2>1 DEF Due, Reaching
  <2>5. \E c : Counts(InFlight, Stream, c, Due(task), server.owed)
    BY Zenon, <1>2, <1>5, <2>1, <2>4, CountsNone
  <2>6. SyncInv
    BY <1>4, <1>5, <2>1, <2>5 DEF SyncInv, PhaseOf
  <2> QED BY Zenon, <1>1, <1>3, <1>6, <2>2, <2>3, <2>6 DEF LinkInv
<1>8. CASE ConnectedInit
  <2>1. /\ task.stage = "Play" /\ task.wait = "read" /\ task.out = <<>>
        /\ conn.state = "Play" /\ server.phase = "play" /\ server.owed = <<>>
        /\ cfg.proxy = "none"
    BY Zenon, <1>8 DEF ConnectedInit
  <2>2. Shape(task, conn.state) /\ Due(task) = <<>>
    BY <2>1, WaitsOn
  <2>3. ProxyInv
    BY <2>1 DEF ProxyInv
  <2>4. \E c : Counts(InFlight, Stream, c, Due(task), server.owed)
    BY Zenon, <1>2, <1>5, <2>1, <2>2, CountsNone
  <2>5. SyncInv
    BY <1>4, <1>5, <2>1, <2>4 DEF SyncInv, PhaseOf
  <2> QED BY Zenon, <1>1, <1>3, <1>6, <2>2, <2>3, <2>5 DEF LinkInv
<1> QED BY <1>0, <1>7, <1>8

-----------------------------------------------------------------------------
(* The wire: a frame of which only a part was written has poisoned the     *)
(* connection, so nothing has followed it.                                 *)

WireInv ==
  /\ {"failed", "state", "buf", "half", "cipher", "threshold"} \subseteq DOMAIN conn
  /\ {"cut", "mixed", "phase", "enc", "comp", "owed", "checks", "confused", "sent"}
       \subseteq DOMAIN server
  /\ server.cut => conn.failed
  /\ ~server.mixed

\* The wire is whole before the first frame.
LEMMA WireInit == Init => WireInv
<1>1. ASSUME ConnectInit PROVE WireInv
  BY Zenon, <1>1 DEF ConnectInit, WireInv
<1>2. ASSUME ConnectedInit PROVE WireInv
  BY Zenon, <1>2 DEF ConnectedInit, WireInv
<1> QED BY <1>1, <1>2 DEF Init

\* A step without the connection and the server keeps the wire.
LEMMA WireUnchanged ==
  ASSUME WireInv, UNCHANGED <<conn, server>>
  PROVE  WireInv'
BY DEF WireInv

\* A handler that goes on, whatever it goes on to.
LEMMA HandleKeepsWire ==
  ASSUME WireInv, NEW t, Handle(t)
  PROVE  WireInv'
BY DEF WireInv, Handle, peerVars

\* A write that is abandoned part way fails the connection.
LEMMA InterruptKeepsWire ==
  ASSUME WireInv, NEW t, NEW ticked, Interrupt(t, ticked)
  PROVE  WireInv'
BY DEF WireInv, Interrupt, peerVars

\* Writing keeps the wire: nothing is written after a part of a frame.
LEMMA WriteKeepsWire ==
  ASSUME WireInv, Writing
  PROVE  WireInv'
<1>1. CASE WriteFrame
  <2>1. ~server.cut /\ ~conn.failed /\ server' = Taken(Head(task.out))
    BY <1>1 DEF WriteFrame, WireInv
  <2>2. /\ DOMAIN server' = DOMAIN server
        /\ ~server'.cut /\ ~server'.mixed
    BY <2>1 DEF Taken, WireInv
  <2>3. DOMAIN conn' = DOMAIN conn
    BY Zenon, <1>1 DEF WriteFrame, WireInv
  <2> QED BY <2>2, <2>3 DEF WireInv
<1>2. CASE WriteTimesOut
  BY <1>2 DEF WriteTimesOut, WireInv
<1>3. CASE WriteRefused
  BY <1>3, WireUnchanged DEF WriteRefused, Return, peerVars
<1> QED BY <1>1, <1>2, <1>3 DEF Writing

\* Reading keeps the wire.
LEMMA ReadKeepsWire ==
  ASSUME WireInv, Reading
  PROVE  WireInv'
<1>1. CASE ReadChunk
  <2>1. UNCHANGED server
    BY <1>1 DEF ReadChunk
  <2>2. DOMAIN conn' = DOMAIN conn /\ conn'.failed = conn.failed
    BY <1>1 DEF ReadChunk, WireInv
  <2> QED BY <2>1, <2>2 DEF WireInv
<1>2. CASE ReadRefused \/ Misread
  BY <1>2, WireUnchanged DEF ReadRefused, Misread, Return, peerVars
<1> QED BY <1>1, <1>2 DEF Reading

\* Handling a packet keeps the wire.
LEMMA PacketKeepsWire ==
  ASSUME WireInv, Packets
  PROVE  WireInv'
<1>1. CASE SetCompression
  BY <1>1 DEF SetCompression, WireInv, peerVars
<1>2. CASE ~SetCompression
  <2>1. \E t : Handle(t)
    BY Zenon, <1>2 DEF Packets, Kicked, EncryptionRequest, AuthenticationRequest,
       LoginSuccess, IgnoredPacket, BadPacket, FinishConfiguration, PackOffered,
       StartConfiguration, AnswerPacket
  <2> QED BY <2>1, HandleKeepsWire
<1> QED BY <1>1, <1>2

\* Every step of the connection keeps the wire.
LEMMA ConnectionKeepsWire ==
  ASSUME WireInv, Connection
  PROVE  WireInv'
<1>1. CASE Client
  BY Zenon, <1>1, WriteKeepsWire, ReadKeepsWire, PacketKeepsWire DEF Client
<1>2. CASE TcpConnected \/ TcpRefused
  BY <1>2, WireUnchanged DEF TcpConnected, TcpRefused, Progress
<1>3. CASE Proxy
  BY <1>3, WireUnchanged DEF Proxy, ProxyReached, MethodChosen, Authenticated,
     TunnelReply, Progress
<1>4. CASE Join \/ Download
  BY Zenon, <1>4, WireUnchanged DEF Join, JoinReturns, Download, Downloaded, peerVars
<1>5. CASE TimesOut \/ DeadlinePasses
  BY <1>5, WireUnchanged DEF TimesOut, DeadlinePasses, Return, peerVars
<1> QED BY <1>1, <1>2, <1>3, <1>4, <1>5 DEF Connection

\* Every step of the server keeps the wire.
LEMMA ServerKeepsWire ==
  ASSUME WireInv, ServerMoves
  PROVE  WireInv'
<1>1. CASE ServerCloses
  BY <1>1 DEF ServerCloses, WireInv
<1>2. ASSUME NEW kind, ServerSends(kind)
      PROVE  WireInv'
  BY <1>2 DEF ServerSends, WireInv
<1> QED BY <1>1, <1>2 DEF ServerMoves

\* Every step keeps the wire.
LEMMA WireStep == WireInv /\ [Next]_vars => WireInv'
<1> SUFFICES ASSUME WireInv, [Next]_vars PROVE WireInv'
  OBVIOUS
<1>1. CASE RunAgain \/ Clock \/ OtherBots \/ UNCHANGED vars
  BY <1>1, WireUnchanged DEF RunAgain, Clock, OtherBots, vars, connectVars, peerVars
<1>2. CASE Tick \/ Control \/ PlaySend
  <2>1. \E t, ticked : Interrupt(t, ticked)
    BY Zenon, <1>2 DEF Tick, TickDead, TickLoads, TickMoves, Ticks, Control, PlaySend
  <2> QED BY <2>1, InterruptKeepsWire
<1>3. CASE Scoreboards \/ TrackerPackets
  BY <1>3, ScoreboardsListen, TrackersListen, HandleKeepsWire DEF Listens
<1>4. CASE PlayerPackets
  <2>1. \E t : Handle(t)
    BY Zenon, <1>4 DEF PlayerPackets, Login, Respawn, Position, Health, Says
  <2> QED BY <2>1, HandleKeepsWire
<1>5. CASE WorldPackets
  <2>1. \E t : Handle(t)
    BY <1>5 DEF WorldPackets, MapChunk, ChunkUpdate, UnloadChunk, ChunkRefused, Says
  <2> QED BY <2>1, HandleKeepsWire
<1> QED BY Zenon, <1>1, <1>2, <1>3, <1>4, <1>5, ConnectionKeepsWire, ServerKeepsWire DEF Next

-----------------------------------------------------------------------------
(* The properties.                                                         *)

\* Client and server agree in every reachable state, and the wire is whole.
LEMMA LinkInvariant == Spec => [](WireInv /\ LinkInv)
<1>1. WireInv => (server.cut => conn.failed)
  BY DEF WireInv
<1> QED BY <1>1, WireInit, WireStep, LinkInit, LinkStep, PTL DEF Spec

\* NothingFollowsAPart: write_failed is never reset, whatever is called on the
\* connection after the timeout of a write.
THEOREM NothingEverFollowsAPart == Spec => []NothingFollowsAPart
<1>1. WireInv => NothingFollowsAPart
  BY DEF WireInv, NothingFollowsAPart
<1> QED BY <1>1, LinkInvariant, PTL

\* PeerExpectsIt, for any limits, any packets in flight and any faults: every
\* frame the client sends is one that the server expects in the phase and the
\* mode it has reached, and a tunnel is used once its credentials are accepted.
THEOREM PeersExpectWhatIsSent == Spec => []PeerExpectsIt
<1>1. LinkInv => PeerExpectsIt
  BY DEF LinkInv, ProxyInv, PeerExpectsIt
<1> QED BY <1>1, LinkInvariant, PTL

\* ReadAsWritten, however the frames of a stream are cut into reads: each is
\* decoded in the mode it was written in.
THEOREM FramesAreReadAsWritten == Spec => []ReadAsWritten
<1>1. LinkInv => ReadAsWritten
  BY DEF LinkInv, ReadAsWritten
<1> QED BY <1>1, LinkInvariant, PTL
===============================================================================
