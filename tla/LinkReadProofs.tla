--------------------------- MODULE LinkReadProofs ---------------------------
(***************************************************************************)
(* The link between client and server, for any limits, any packets in      *)
(* flight and any faults: what LinkInv says of it, and that the steps by   *)
(* which the client is given something to read and reads it keep LinkInv.  *)
(* Both ends use the modes the other expects, and what the server is owed  *)
(* is what the client is to answer, frame by frame.  LinkProofs has the    *)
(* steps that write, and the properties.                                   *)
(***************************************************************************)
EXTENDS Session, TLAPS

(* The link: what the client still writes, what is on its way to it, and   *)
(* what the server expects.                                                *)

\* The frames the client has not decoded yet, in their order: those of the
\* buffer, then those of the socket.
InFlight == Len(conn.buf) + Len(toClient)

Frame(f) == [kind |-> f.kind, comp |-> f.comp]

Stream ==
  [i \in 1..InFlight |->
     Frame(IF i <= Len(conn.buf) THEN conn.buf[i] ELSE toClient[i - Len(conn.buf)])]

\* What the server may be expecting.
Words ==
  {"set_protocol", "login_start", "encryption_response", "plugin_response",
   "login_acknowledged", "custom_payload", "settings", "keep_alive", "pong",
   "select_known_packs", "pack", "pack_result", "SUCCESSFULLY_LOADED",
   "finish_configuration", "configuration_acknowledged"}

\* What the handler at work is to answer, in the server's words.
DueOf(out) ==
  CASE out[1] = "play" -> <<>>
    [] out[1] = "set_protocol" -> <<"set_protocol", "login_start">>
    [] out[1] \in {"ACCEPTED", "DECLINED"} -> <<"pack">>
    [] out[1] \in {"DOWNLOADED", "INVALID_URL", "FAILED_DOWNLOAD"} -> <<"pack_result">>
    [] OTHER -> out

Reaching == {"tcp", "method", "auth", "tunnel"}

Due(t) ==
  CASE t.wait \in Reaching -> <<"set_protocol", "login_start">>
    [] t.wait = "join" -> <<"encryption_response">>
    [] t.wait = "download" -> <<"pack_result">>
    [] t.wait = "write" -> DueOf(t.out)
    [] OTHER -> <<>>

\* The packets after which the server says nothing until they are answered.
Stoppers ==
  {"encryption_begin", "authenticate", "success", "finish_configuration",
   "start_configuration"}

StopAnswers ==
  {<<"encryption_response">>, <<"login_acknowledged">>, <<"finish_configuration">>,
   <<"configuration_acknowledged">>}

\* The server owes nothing but what is due and, frame by frame, what the n
\* frames of S oblige to; c[i] is how much of it is up to frame i.
Counts(n, S, c, due, owed) ==
  /\ c \in [0..n -> Nat] /\ c[0] = Len(due) /\ c[n] = Len(owed)
  /\ \A i \in 1..Len(due) : owed[i] = due[i]
  /\ \A i \in 1..n :
       IF Obliges(S[i].kind) = <<>> THEN c[i] = c[i - 1]
       ELSE c[i] = c[i - 1] + 1 /\ owed[c[i]] = Obliges(S[i].kind)[1]
  /\ \A i, j \in 0..n : i <= j => c[i] <= c[j]
  /\ \A i \in 1..n : S[i].kind = "compress" => c[i] = 0
  /\ \A i \in 1..n : S[i].kind \in Stoppers => i = n
  /\ due \in StopAnswers => n = 0

\* The packets of a phase.
KindsOf(phase) ==
  CASE phase = "login" ->
         {"plugin_request", "encryption_begin", "authenticate", "compress", "success",
          "bad", "disconnect"}
    [] phase = "configuration" ->
         {"keep_alive", "ping", "select_known_packs", "data", "bad",
          "add_resource_pack", "finish_configuration", "disconnect"}
    [] phase = "play" ->
         {"keep_alive", "ping", "data", "bad", "add_resource_pack",
          "start_configuration", "disconnect"}
    [] OTHER -> {}

\* What each stage may be awaiting or writing, by the state of the Connection.
Replies == {"plugin_response", "keep_alive", "pong", "select_known_packs"}

PackAnswers ==
  {<<"DECLINED">>, <<"DOWNLOADED", "SUCCESSFULLY_LOADED">>, <<"SUCCESSFULLY_LOADED">>,
   <<"INVALID_URL">>, <<"FAILED_DOWNLOAD">>}

Writes(t, out, next) == t.wait = "write" /\ t.out = out /\ t.then = next

Serving(t) ==
  \/ t.wait \in {"read", "download"} /\ t.out = <<>>
  \/ \E r \in Replies : Writes(t, <<r>>, "read")
  \/ \E out \in PackAnswers : Writes(t, out, "read")
  \/ Writes(t, <<"ACCEPTED">>, "download")

Shape(t, state) ==
  \/ /\ t.stage \in {"TcpConnect", "ProxyNegotiate"} /\ state = "Handshaking"
     /\ t.wait \in Reaching /\ t.out = <<>>
     /\ t.stage = "TcpConnect" => t.wait = "tcp"
  \/ /\ t.stage = "Handshake" /\ state = "Handshaking"
     /\ Writes(t, <<"set_protocol">>, "login")
  \/ /\ t.stage = "Login" /\ state = "Login"
     /\ \/ t.wait \in {"read", "join"} /\ t.out = <<>>
        \/ Writes(t, <<"login_start">>, "read")
        \/ Writes(t, <<"encryption_response">>, "encrypt")
        \/ Writes(t, <<"plugin_response">>, "read")
        \/ Writes(t, <<"login_acknowledged">>, "configure")
  \/ /\ t.stage \in Configuring /\ state = "Configuration"
     /\ \/ Serving(t)
        \/ Writes(t, <<"custom_payload", "settings">>, "read")
        \/ Writes(t, <<"settings">>, "read")
        \/ Writes(t, <<"finish_configuration">>, "play")
  \/ /\ t.stage = "Play" /\ state = "Play"
     /\ \/ Serving(t)
        \/ /\ t.wait = "write" /\ t.then = "read"
           /\ t.out \in Seq({"play"}) /\ t.out # <<>>
        \/ Writes(t, <<"configuration_acknowledged">>, "reconfigure")
  \/ t.stage = "Over" /\ t.wait = "none" /\ t.out = <<>>

PhaseOf(t, state) ==
  CASE state = "Handshaking" -> "handshaking"
    [] state = "Login" -> IF t.out = <<"login_start">> THEN "handshaking" ELSE "login"
    [] state = "Configuration" -> "configuration"
    [] state = "Play" -> "play"

\* A connection on which nothing is read or written any more.
Dead == conn.failed \/ (task.stage = "Over" /\ conn.state # "Play")

\* The modes agree, however much of the stream is in the buffer.
Encrypts ==
  /\ server.enc = conn.cipher
  /\ \A i \in 1..Len(toClient) : toClient[i].enc = conn.cipher
  /\ \A i \in 1..Len(conn.buf) : conn.buf[i].plain
  /\ conn.half # "bad"

Compresses(S, i) == \E j \in 1..i : S[j].kind = "compress"

Comps(n, S, threshold, comp) ==
  /\ comp = (threshold \/ Compresses(S, n))
  /\ \A i \in 1..n : S[i].comp = (threshold \/ Compresses(S, i - 1))

ModeInv == Encrypts /\ Comps(InFlight, Stream, conn.threshold, server.comp)

\* The server has reached the phase the client is in, and expects what the
\* client will write.
SyncInv ==
  /\ server.phase = PhaseOf(task, conn.state)
  /\ \A i \in 1..InFlight : Stream[i].kind \in KindsOf(server.phase)
  /\ \E c : Counts(InFlight, Stream, c, Due(task), server.owed)
  /\ server.checks /\ ~server.enc =>
       server.owed = <<"encryption_response">> /\ server.phase = "login"
  /\ \A i \in 1..InFlight : Stream[i].kind = "encryption_begin" => ~server.checks
  /\ task.wait = "write" /\ task.out = <<"encryption_response">> =>
       (server.checks => joined)

\* A tunnel with credentials is used once they are accepted.
ProxyInv ==
  cfg.proxy = "credentials" =>
    \/ proxied
    \/ /\ conn.state = "Handshaking"
       /\ \/ task.stage = "Over"
          \/ task.stage = "ProxyNegotiate" /\ task.wait \in {"tcp", "method", "auth"}

Sent == [kind : ServerKinds, enc : BOOLEAN, comp : BOOLEAN]
Buffered == [kind : ServerKinds, comp : BOOLEAN, plain : BOOLEAN]

LinkType ==
  /\ {"stage", "wait", "out", "then", "packets", "result"} \subseteq DOMAIN task
  /\ {"failed", "state", "buf", "half", "cipher", "threshold"} \subseteq DOMAIN conn
  /\ {"cut", "mixed", "phase", "enc", "comp", "owed", "checks", "confused", "sent"}
       \subseteq DOMAIN server
  /\ conn.cipher \in BOOLEAN /\ conn.threshold \in BOOLEAN
  /\ server.enc \in BOOLEAN /\ server.comp \in BOOLEAN
  /\ toClient \in Seq(Sent) /\ conn.buf \in Seq(Buffered)
  /\ server.owed \in Seq(Words)

LinkInv ==
  /\ LinkType
  /\ ~server.confused /\ ~garbled
  /\ Shape(task, conn.state) /\ ProxyInv
  /\ ~Dead => ModeInv
  /\ ~Dead /\ server.phase # "closed" => SyncInv

-----------------------------------------------------------------------------
(* Streams.                                                                *)

Grown(n, S, f) == [i \in 1..(n + 1) |-> IF i <= n THEN S[i] ELSE f]
Rest(n, S) == [i \in 1..(n - 1) |-> S[i + 1]]

\* A function on 1..n is a sequence.
LEMMA Tabulated ==
  ASSUME NEW T, NEW n \in Nat, NEW f \in [1..n -> T]
  PROVE  f \in Seq(T) /\ Len(f) = n
OBVIOUS

\* What a concatenation holds.
LEMMA Concatenated ==
  ASSUME NEW T, NEW s \in Seq(T), NEW t \in Seq(T)
  PROVE  /\ s \o t \in Seq(T)
         /\ Len(s \o t) = Len(s) + Len(t)
         /\ \A i \in 1..(Len(s) + Len(t)) :
              (s \o t)[i] = IF i <= Len(s) THEN s[i] ELSE t[i - Len(s)]
OBVIOUS

\* A frame sent in the server's mode keeps the modes of the stream in step.
LEMMA CompsGrow ==
  ASSUME NEW n \in Nat, NEW S, NEW threshold \in BOOLEAN, NEW comp \in BOOLEAN,
         Comps(n, S, threshold, comp), NEW kind
  PROVE  Comps(n + 1, Grown(n, S, [kind |-> kind, comp |-> comp]), threshold,
               comp \/ kind = "compress")
<1> DEFINE f == [kind |-> kind, comp |-> comp]
           G == Grown(n, S, f)
<1>1. f.kind = kind /\ f.comp = comp
  OBVIOUS
<1> HIDE DEF f
<1>2. (\A i \in 1..n : G[i] = S[i]) /\ G[n + 1] = f
  BY DEF Grown
<1> HIDE DEF G
<1>3. \A i \in 0..n : Compresses(G, i) <=> Compresses(S, i)
  BY <1>2 DEF Compresses
<1>4. Compresses(G, n + 1) <=> Compresses(S, n) \/ kind = "compress"
  BY <1>1, <1>2 DEF Compresses
<1>5. (comp \/ kind = "compress") = (threshold \/ Compresses(G, n + 1))
  BY Zenon, <1>4 DEF Comps
<1>6. ASSUME NEW i \in 1..(n + 1)
      PROVE  G[i].comp = (threshold \/ Compresses(G, i - 1))
  <2>1. CASE i \in 1..n
    <3>1. i - 1 \in 0..n
      OBVIOUS
    <3>2. S[i].comp = (threshold \/ Compresses(S, i - 1))
      BY <2>1 DEF Comps
    <3> QED BY <1>2, <1>3, <2>1, <3>1, <3>2
  <2>2. CASE i = n + 1
    <3>1. i - 1 = n
      BY <2>2
    <3>2. comp = (threshold \/ Compresses(S, n))
      BY DEF Comps
    <3> QED BY <1>1, <1>2, <1>3, <2>2, <3>1, <3>2
  <2> QED BY <2>1, <2>2
<1>7. Comps(n + 1, G, threshold, comp \/ kind = "compress")
  BY <1>5, <1>6 DEF Comps
<1> QED BY <1>7 DEF G, f

\* So does decoding the first frame, when a compress is obeyed at once.
LEMMA CompsRest ==
  ASSUME NEW n \in Nat, n > 0, NEW S, NEW threshold \in BOOLEAN, NEW comp,
         Comps(n, S, threshold, comp)
  PROVE  Comps(n - 1, Rest(n, S), threshold \/ S[1].kind = "compress", comp)
<1> DEFINE R == Rest(n, S)
<1>1. \A i \in 1..(n - 1) : R[i] = S[i + 1]
  BY DEF Rest
<1> HIDE DEF R
<1>2. ASSUME NEW i \in 0..(n - 1)
      PROVE  Compresses(S, i + 1) <=> S[1].kind = "compress" \/ Compresses(R, i)
  <2>1. ASSUME NEW j \in 1..(i + 1), S[j].kind = "compress", j # 1
        PROVE  Compresses(R, i)
    <3>1. j - 1 \in 1..i /\ j - 1 \in 1..(n - 1) /\ (j - 1) + 1 = j
      BY <2>1
    <3>2. R[j - 1] = S[j]
      BY <1>1, <3>1
    <3> QED BY <2>1, <3>1, <3>2 DEF Compresses
  <2>2. ASSUME NEW j \in 1..i, R[j].kind = "compress"
        PROVE  Compresses(S, i + 1)
    <3>1. j + 1 \in 1..(i + 1) /\ j \in 1..(n - 1)
      OBVIOUS
    <3> QED BY <1>1, <2>2, <3>1 DEF Compresses
  <2>3. S[1].kind = "compress" => Compresses(S, i + 1)
    BY DEF Compresses
  <2> QED BY <2>1, <2>2, <2>3 DEF Compresses
<1>3. comp = ((threshold \/ S[1].kind = "compress") \/ Compresses(R, n - 1))
  <2>1. comp = (threshold \/ Compresses(S, n))
    BY DEF Comps
  <2>2. n - 1 \in 0..(n - 1) /\ (n - 1) + 1 = n
    OBVIOUS
  <2>3. Compresses(S, n) <=> S[1].kind = "compress" \/ Compresses(R, n - 1)
    BY <1>2, <2>2
  <2> QED BY <2>1, <2>3
<1>4. ASSUME NEW i \in 1..(n - 1)
      PROVE  R[i].comp = ((threshold \/ S[1].kind = "compress") \/ Compresses(R, i - 1))
  <2>1. i + 1 \in 1..n /\ (i + 1) - 1 = i /\ i - 1 \in 0..(n - 1) /\ (i - 1) + 1 = i
    OBVIOUS
  <2>2. S[i + 1].comp = (threshold \/ Compresses(S, i))
    BY <2>1 DEF Comps
  <2>3. Compresses(S, i) <=> S[1].kind = "compress" \/ Compresses(R, i - 1)
    BY <1>2, <2>1
  <2> QED BY <1>1, <2>2, <2>3
<1>5. Comps(n - 1, R, threshold \/ S[1].kind = "compress", comp)
  BY <1>3, <1>4 DEF Comps
<1> QED BY <1>5 DEF R

-----------------------------------------------------------------------------
(* What the server owes, as the stream and the task move.                  *)

\* A sequence of one word.
LEMMA OneWord ==
  ASSUME NEW x \in Words
  PROVE  /\ <<x>> \in Seq(Words) /\ Len(<<x>>) = 1 /\ <<x>>[1] = x /\ <<x>> # <<>>
         /\ <<x>> \in StopAnswers =>
              x \in {"encryption_response", "login_acknowledged", "finish_configuration",
                    "configuration_acknowledged"}
<1>1. /\ <<x>> \in Seq(Words) /\ Len(<<x>>) = 1 /\ <<x>>[1] = x /\ <<x>> # <<>>
  <2>1. <<x>> \in Seq(Words)
    OBVIOUS
  <2>2. Len(<<x>>) = 1 /\ <<x>>[1] = x
    OBVIOUS
  <2>3. <<x>> # <<>>
    OBVIOUS
  <2> QED BY <2>1, <2>2, <2>3
<1>2. ASSUME NEW y \in Words, <<x>> = <<y>>
      PROVE  x = y
  BY <1>2
<1> QED BY <1>1, <1>2 DEF StopAnswers

\* A packet obliges to one answer, or to none.
LEMMA ObligesOne ==
  ASSUME NEW kind
  PROVE  /\ Obliges(kind) \in Seq(Words)
         /\ Obliges(kind) = <<>> \/ (Len(Obliges(kind)) = 1 /\ Obliges(kind)[1] \in Words)
         /\ Obliges(kind) \in StopAnswers => kind \in Stoppers
         /\ kind = "compress" => Obliges(kind) = <<>>
<1>1. \/ Obliges(kind) = <<>>
      \/ \E x \in Words :
           /\ Obliges(kind) = <<x>> /\ kind # "compress"
           /\ x \in {"encryption_response", "login_acknowledged", "finish_configuration",
                    "configuration_acknowledged"} => kind \in Stoppers
  <2>1. CASE kind \in DOMAIN Answers
    <3>1. Answers[kind] \in Replies /\ Obliges(kind) = <<Answers[kind]>>
      BY <2>1 DEF Obliges, Answers, Replies
    <3>2. kind # "compress"
      BY <2>1 DEF Answers
    <3> DEFINE x == Answers[kind]
    <3>0. x \in Replies
      BY <3>1
    <3> HIDE DEF x
    <3>3. x \in Words /\ x \notin {"encryption_response", "login_acknowledged",
                                  "finish_configuration", "configuration_acknowledged"}
      BY <3>0 DEF Replies, Words
    <3>4. Obliges(kind) = <<x>>
      BY <3>1 DEF x
    <3> QED BY <3>2, <3>3, <3>4
  <2>2. CASE kind \in {"encryption_begin", "authenticate"}
    <3>1. kind \notin DOMAIN Answers /\ kind \in Stoppers
      BY <2>2 DEF Answers, Stoppers
    <3>2. Obliges(kind) = <<"encryption_response">>
      BY <2>2, <3>1 DEF Obliges
    <3> QED BY <2>2, <3>1, <3>2 DEF Words
  <2>3. CASE kind = "success"
    <3>1. kind \notin DOMAIN Answers /\ kind \in Stoppers
      BY <2>3 DEF Answers, Stoppers
    <3>2. Obliges(kind) = <<"login_acknowledged">>
      BY <2>3, <3>1 DEF Obliges
    <3> QED BY <2>3, <3>1, <3>2 DEF Words
  <2>4. CASE kind = "finish_configuration"
    <3>1. kind \notin DOMAIN Answers /\ kind \in Stoppers
      BY <2>4 DEF Answers, Stoppers
    <3>2. Obliges(kind) = <<"finish_configuration">>
      BY <2>4, <3>1 DEF Obliges
    <3> QED BY <2>4, <3>1, <3>2 DEF Words
  <2>5. CASE kind = "start_configuration"
    <3>1. kind \notin DOMAIN Answers /\ kind \in Stoppers
      BY <2>5 DEF Answers, Stoppers
    <3>2. Obliges(kind) = <<"configuration_acknowledged">>
      BY <2>5, <3>1 DEF Obliges
    <3> QED BY <2>5, <3>1, <3>2 DEF Words
  <2>6. CASE kind = "add_resource_pack"
    <3>1. kind \notin DOMAIN Answers
      BY <2>6 DEF Answers
    <3>2. Obliges(kind) = <<"pack">>
      BY <2>6, <3>1 DEF Obliges
    <3> QED BY <2>6, <3>2 DEF Words
  <2>7. CASE /\ kind \notin DOMAIN Answers
             /\ kind \notin {"encryption_begin", "authenticate", "success",
                            "finish_configuration", "start_configuration",
                            "add_resource_pack"}
    <3>1. Obliges(kind) = <<>>
      BY <2>7 DEF Obliges
    <3> QED BY <3>1
  <2> QED BY <2>1, <2>2, <2>3, <2>4, <2>5, <2>6, <2>7
<1>2. <<>> \in Seq(Words) /\ <<>> \notin StopAnswers
  BY DEF StopAnswers
<1>3. CASE Obliges(kind) = <<>>
  BY <1>2, <1>3
<1>4. ASSUME NEW x \in Words,
             Obliges(kind) = <<x>>, kind # "compress",
             x \in {"encryption_response", "login_acknowledged", "finish_configuration",
                   "configuration_acknowledged"} => kind \in Stoppers
      PROVE  /\ Obliges(kind) \in Seq(Words)
             /\ Len(Obliges(kind)) = 1 /\ Obliges(kind)[1] \in Words
             /\ Obliges(kind) \in StopAnswers => kind \in Stoppers
  BY <1>4, OneWord
<1> QED BY <1>1, <1>3, <1>4

\* With no frame in flight, the server owes what is due.
LEMMA CountsNone ==
  ASSUME NEW S, NEW due \in Seq(Words)
  PROVE  Counts(0, S, [i \in 0..0 |-> Len(due)], due, due)
BY DEF Counts

\* A frame sent adds its answer at the end of what is owed.
LEMMA CountsGrow ==
  ASSUME NEW n \in Nat, NEW S, NEW c, NEW due \in Seq(Words), NEW owed \in Seq(Words),
         Counts(n, S, c, due, owed), NEW f,
         \A i \in 1..n : S[i].kind \notin Stoppers, due \notin StopAnswers,
         f.kind = "compress" => owed = <<>>
  PROVE  \E d : Counts(n + 1, Grown(n, S, f), d, due, owed \o Obliges(f.kind))
<1> DEFINE kind == f.kind
           more == Obliges(kind)
           G == Grown(n, S, f)
           new == owed \o more
           d == [i \in 0..(n + 1) |-> IF i <= n THEN c[i] ELSE Len(new)]
<1>1. /\ more \in Seq(Words) /\ (more = <<>> \/ Len(more) = 1)
      /\ kind = "compress" => more = <<>>
  BY ObligesOne
<1>2. (\A i \in 1..n : G[i] = S[i]) /\ G[n + 1].kind = kind
  BY DEF Grown
<1> HIDE DEF kind, more, G
<1>3. /\ new \in Seq(Words) /\ Len(new) = Len(owed) + Len(more)
      /\ \A i \in 1..Len(owed) : new[i] = owed[i]
      /\ Len(more) = 1 => new[Len(owed) + 1] = more[1]
  <2>1. /\ new \in Seq(Words) /\ Len(new) = Len(owed) + Len(more)
        /\ \A i \in 1..(Len(owed) + Len(more)) :
             new[i] = IF i <= Len(owed) THEN owed[i] ELSE more[i - Len(owed)]
    BY <1>1, Concatenated
  <2> HIDE DEF new
  <2>2. Len(owed) \in Nat /\ Len(more) \in Nat
    BY <1>1
  <2> QED BY <2>1, <2>2
<1> HIDE DEF new
<1>4. /\ c \in [0..n -> Nat] /\ c[0] = Len(due) /\ c[n] = Len(owed)
      /\ \A i \in 1..Len(due) : owed[i] = due[i]
      /\ \A i, j \in 0..n : i <= j => c[i] <= c[j]
  BY DEF Counts
<1>5. Len(owed) \in Nat /\ Len(due) \in Nat /\ Len(more) \in {0, 1}
      /\ \A i \in 0..n : c[i] \in Nat /\ c[i] <= Len(owed)
  BY <1>1, <1>4
<1>6. /\ d \in [0..(n + 1) -> Nat] /\ d[0] = Len(due) /\ d[n + 1] = Len(new)
      /\ \A i \in 0..n : d[i] = c[i]
  BY <1>3, <1>4, <1>5
<1> HIDE DEF d
<1>7. \A i \in 1..Len(due) : new[i] = due[i]
  <2>1. Len(due) <= Len(owed)
    BY <1>4, <1>5
  <2> QED BY <1>3, <1>4, <1>5, <2>1
<1>8. ASSUME NEW i \in 1..(n + 1)
      PROVE  IF Obliges(G[i].kind) = <<>> THEN d[i] = d[i - 1]
             ELSE d[i] = d[i - 1] + 1 /\ new[d[i]] = Obliges(G[i].kind)[1]
  <2>1. CASE i \in 1..n
    <3>1. IF Obliges(S[i].kind) = <<>> THEN c[i] = c[i - 1]
          ELSE c[i] = c[i - 1] + 1 /\ owed[c[i]] = Obliges(S[i].kind)[1]
      BY <2>1 DEF Counts
    <3>2. G[i] = S[i] /\ d[i] = c[i] /\ d[i - 1] = c[i - 1]
      BY <1>2, <1>6, <2>1
    <3>3. c[i] = c[i - 1] + 1 => c[i] \in 1..Len(owed)
      BY <1>5, <2>1
    <3> QED BY <1>3, <3>1, <3>2, <3>3
  <2>2. CASE i = n + 1
    <3>1. d[i] = Len(owed) + Len(more) /\ d[i - 1] = Len(owed)
      BY <1>3, <1>4, <1>6, <2>2
    <3>2. Obliges(G[i].kind) = more
      BY <1>2, <2>2 DEF more
    <3>3. CASE more = <<>>
      BY <1>5, <3>1, <3>2, <3>3
    <3>4. CASE more # <<>>
      BY Zenon, <1>1, <1>3, <1>5, <3>1, <3>2, <3>4
    <3> QED BY <3>3, <3>4
  <2> QED BY <2>1, <2>2
<1>9. \A i, j \in 0..(n + 1) : i <= j => d[i] <= d[j]
  <2> SUFFICES ASSUME NEW i \in 0..(n + 1), NEW j \in 0..(n + 1), i <= j
               PROVE  d[i] <= d[j]
    OBVIOUS
  <2>1. CASE j \in 0..n
    BY <1>4, <1>6, <2>1
  <2>2. CASE j = n + 1 /\ i \in 0..n
    <3>1. d[i] = c[i] /\ d[j] = Len(owed) + Len(more)
      BY <1>3, <1>6, <2>2
    <3>2. c[i] \in Nat /\ c[i] <= Len(owed) /\ Len(owed) \in Nat /\ Len(more) \in Nat
      BY <1>5, <2>2
    <3> QED BY <3>1, <3>2
  <2>3. CASE j = n + 1 /\ i = n + 1
    BY <1>6, <2>3
  <2> QED BY <2>1, <2>2, <2>3
<1>10. \A i \in 1..(n + 1) : G[i].kind = "compress" => d[i] = 0
  <2>1. \A i \in 1..n : S[i].kind = "compress" => c[i] = 0
    BY DEF Counts
  <2>2. kind = "compress" => Len(new) = 0
    BY <1>1, <1>3 DEF kind
  <2> QED BY <1>2, <1>6, <2>1, <2>2
<1>11. \A i \in 1..(n + 1) : G[i].kind \in Stoppers => i = n + 1
  BY <1>2
<1>12. Counts(n + 1, G, d, due, new)
  BY <1>6, <1>7, <1>8, <1>9, <1>10, <1>11 DEF Counts
<1> QED BY <1>12 DEF G, new, more, kind

\* A frame decoded, with nothing due before it, makes its answer due.
LEMMA CountsRest ==
  ASSUME NEW n \in Nat, n > 0, NEW S, NEW c, NEW owed \in Seq(Words),
         Counts(n, S, c, <<>>, owed)
  PROVE  \E d : Counts(n - 1, Rest(n, S), d, Obliges(S[1].kind), owed)
<1> DEFINE due == Obliges(S[1].kind)
           R == Rest(n, S)
           d == [i \in 0..(n - 1) |-> c[i + 1]]
<1>1. /\ due \in Seq(Words) /\ (due = <<>> \/ Len(due) = 1)
      /\ due \in StopAnswers => S[1].kind \in Stoppers
  BY ObligesOne
<1>2. \A i \in 1..(n - 1) : R[i] = S[i + 1]
  BY DEF Rest
<1>3. /\ c \in [0..n -> Nat] /\ c[0] = 0 /\ c[n] = Len(owed)
      /\ \A i, j \in 0..n : i <= j => c[i] <= c[j]
  BY DEF Counts
<1>4. d \in [0..(n - 1) -> Nat] /\ \A i \in 0..(n - 1) : d[i] = c[i + 1]
  BY <1>3
<1>5. IF due = <<>> THEN c[1] = 0 ELSE c[1] = 1 /\ owed[1] = due[1]
  <2>1. IF due = <<>> THEN c[1] = c[0] ELSE c[1] = c[0] + 1 /\ owed[c[1]] = due[1]
    BY DEF Counts
  <2> QED BY <1>3, <2>1
<1> HIDE DEF due, R, d
<1>6. d[0] = Len(due) /\ d[n - 1] = Len(owed) /\ \A i \in 1..Len(due) : owed[i] = due[i]
  <2>1. CASE due = <<>>
    BY <1>3, <1>4, <1>5, <2>1
  <2>2. CASE due # <<>>
    <3>1. Len(due) = 1 /\ c[1] = 1 /\ owed[1] = due[1]
      BY <1>1, <1>5, <2>2
    <3>2. d[0] = c[1] /\ d[n - 1] = c[n]
      BY <1>4
    <3> QED BY <1>3, <3>1, <3>2
  <2> QED BY <2>1, <2>2
<1>7. ASSUME NEW i \in 1..(n - 1)
      PROVE  IF Obliges(R[i].kind) = <<>> THEN d[i] = d[i - 1]
             ELSE d[i] = d[i - 1] + 1 /\ owed[d[i]] = Obliges(R[i].kind)[1]
  <2>1. i + 1 \in 1..n /\ (i + 1) - 1 = i /\ i - 1 \in 0..(n - 1) /\ (i - 1) + 1 = i
    OBVIOUS
  <2>2. IF Obliges(S[i + 1].kind) = <<>> THEN c[i + 1] = c[i]
        ELSE c[i + 1] = c[i] + 1 /\ owed[c[i + 1]] = Obliges(S[i + 1].kind)[1]
    BY Zenon, <2>1 DEF Counts
  <2>3. R[i] = S[i + 1] /\ d[i] = c[i + 1] /\ d[i - 1] = c[i]
    BY <1>2, <1>4, <2>1
  <2> QED BY <2>2, <2>3
<1>8. \A i, j \in 0..(n - 1) : i <= j => d[i] <= d[j]
  BY <1>3, <1>4
<1>9. \A i \in 1..(n - 1) : R[i].kind = "compress" => d[i] = 0
  <2>1. \A i \in 1..n : S[i].kind = "compress" => c[i] = 0
    BY DEF Counts
  <2> SUFFICES ASSUME NEW i \in 1..(n - 1), R[i].kind = "compress" PROVE d[i] = 0
    OBVIOUS
  <2>2. i + 1 \in 1..n /\ R[i] = S[i + 1] /\ d[i] = c[i + 1]
    BY <1>2, <1>4
  <2> QED BY <2>1, <2>2
<1>10. (\A i \in 1..(n - 1) : R[i].kind \in Stoppers => i = n - 1)
       /\ (S[1].kind \in Stoppers => n = 1)
  <2>1. \A i \in 1..n : S[i].kind \in Stoppers => i = n
    BY DEF Counts
  <2> QED BY <1>2, <2>1
<1>11. Counts(n - 1, R, d, due, owed)
  BY <1>1, <1>4, <1>6, <1>7, <1>8, <1>9, <1>10 DEF Counts
<1> QED BY <1>11 DEF R, due

\* Tail drops the first word and shifts the others by one.
LEMMA TailFacts ==
  ASSUME NEW s \in Seq(Words), s # <<>>
  PROVE  /\ Tail(s) \in Seq(Words) /\ Len(Tail(s)) = Len(s) - 1 /\ Len(s) \in Nat /\ Len(s) > 0
         /\ \A i \in 1..(Len(s) - 1) : Tail(s)[i] = s[i + 1]
OBVIOUS

\* The frames that are left in the buffer once the first is decoded.
LEMMA BufferTail ==
  ASSUME NEW s \in Seq(Buffered), s # <<>>
  PROVE  /\ \A i \in 1..Len(Tail(s)) : Tail(s)[i] = s[i + 1] /\ i + 1 \in 1..Len(s)
         /\ Tail(s) \in Seq(Buffered)
OBVIOUS

\* What is due comes first.
LEMMA DueFirst ==
  ASSUME NEW n \in Nat, NEW S, NEW c, NEW due \in Seq(Words), NEW owed \in Seq(Words),
         Counts(n, S, c, due, owed)
  PROVE  /\ Len(due) <= Len(owed) /\ (due # <<>> => owed # <<>> /\ owed[1] = due[1])
         /\ n = 0 => Len(owed) = Len(due)
<1>1. /\ c \in [0..n -> Nat] /\ c[0] = Len(due) /\ c[n] = Len(owed)
      /\ \A i \in 1..Len(due) : owed[i] = due[i]
      /\ \A i, j \in 0..n : i <= j => c[i] <= c[j]
  BY DEF Counts
<1>2. Len(due) <= Len(owed) /\ (n = 0 => Len(owed) = Len(due))
  BY <1>1
<1>3. due # <<>> => Len(due) > 0
  OBVIOUS
<1>4. due # <<>> => owed # <<>> /\ owed[1] = due[1]
  BY <1>1, <1>2, <1>3
<1> QED BY <1>2, <1>4

\* A place after the first of m is a place of the m - 1 that are left.
LEMMA PlaceBefore ==
  ASSUME NEW a \in Nat, NEW b \in Nat, NEW m \in Nat, a = b + 1, b > 0, a <= m
  PROVE  a - 1 \in 1..(m - 1) /\ (a - 1) + 1 = a
OBVIOUS

\* Writing what is due takes it off both lists.
LEMMA CountsTail ==
  ASSUME NEW n \in Nat, NEW S, NEW c, NEW due \in Seq(Words), NEW owed \in Seq(Words),
         Counts(n, S, c, due, owed), due # <<>>, Tail(due) \notin StopAnswers
  PROVE  \E d : Counts(n, S, d, Tail(due), Tail(owed))
<1> DEFINE next == Tail(due)
           new == Tail(owed)
           d == [i \in 0..n |-> c[i] - 1]
<1>1. owed # <<>> /\ Len(due) > 0
  BY DueFirst
<1>2. /\ next \in Seq(Words) /\ Len(next) = Len(due) - 1
      /\ \A i \in 1..(Len(due) - 1) : next[i] = due[i + 1]
      /\ new \in Seq(Words) /\ Len(new) = Len(owed) - 1
      /\ \A i \in 1..(Len(owed) - 1) : new[i] = owed[i + 1]
      /\ Len(due) \in Nat /\ Len(owed) \in Nat
  BY <1>1, TailFacts
<1> HIDE DEF next, new
<1>3. /\ c \in [0..n -> Nat] /\ c[0] = Len(due) /\ c[n] = Len(owed)
      /\ \A i \in 1..Len(due) : owed[i] = due[i]
      /\ \A i, j \in 0..n : i <= j => c[i] <= c[j]
  BY DEF Counts
<1>4. \A i \in 0..n : c[i] \in Nat /\ c[i] > 0 /\ c[i] <= Len(owed) /\ Len(due) <= c[i]
  BY <1>1, <1>2, <1>3
<1>5. d \in [0..n -> Nat] /\ \A i \in 0..n : d[i] = c[i] - 1
  BY <1>4
<1> HIDE DEF d
<1>6. d[0] = Len(next) /\ d[n] = Len(new)
  <2>1. 0 \in 0..n /\ n \in 0..n
    OBVIOUS
  <2> QED BY Zenon, <1>2, <1>3, <1>5, <2>1
<1>7. \A i \in 1..Len(next) : new[i] = next[i]
  <2> SUFFICES ASSUME NEW i \in 1..Len(next) PROVE new[i] = next[i]
    OBVIOUS
  <2>1. i + 1 \in 1..Len(due) /\ i \in 1..(Len(due) - 1) /\ i \in 1..(Len(owed) - 1)
    <3>1. Len(due) <= Len(owed)
      BY <1>3, <1>4
    <3> QED BY <1>2, <3>1
  <2> QED BY Zenon, <1>2, <1>3, <2>1
<1>8. ASSUME NEW i \in 1..n
      PROVE  IF Obliges(S[i].kind) = <<>> THEN d[i] = d[i - 1]
             ELSE d[i] = d[i - 1] + 1 /\ new[d[i]] = Obliges(S[i].kind)[1]
  <2>1. IF Obliges(S[i].kind) = <<>> THEN c[i] = c[i - 1]
        ELSE c[i] = c[i - 1] + 1 /\ owed[c[i]] = Obliges(S[i].kind)[1]
    BY Zenon DEF Counts
  <2>2. i \in 0..n /\ i - 1 \in 0..n
    OBVIOUS
  <2>3. d[i] = c[i] - 1 /\ d[i - 1] = c[i - 1] - 1 /\ c[i] \in Nat /\ c[i - 1] \in Nat
        /\ c[i - 1] > 0 /\ c[i] <= Len(owed)
    BY <1>4, <1>5, <2>2
  <2>4. c[i] = c[i - 1] + 1 => new[c[i] - 1] = owed[c[i]]
    <3> SUFFICES ASSUME c[i] = c[i - 1] + 1 PROVE new[c[i] - 1] = owed[c[i]]
      OBVIOUS
    <3>1. c[i] - 1 \in 1..(Len(owed) - 1) /\ (c[i] - 1) + 1 = c[i]
      BY Zenon, <1>2, <2>3, PlaceBefore
    <3> QED BY <1>2, <3>1
  <2> QED BY <2>1, <2>3, <2>4
<1>9. \A i, j \in 0..n : i <= j => d[i] <= d[j]
  BY <1>3, <1>4, <1>5
<1>10. \A i \in 1..n : S[i].kind # "compress"
  <2>1. \A i \in 1..n : S[i].kind = "compress" => c[i] = 0
    BY DEF Counts
  <2> QED BY <1>4, <2>1
<1>11. (\A i \in 1..n : S[i].kind \in Stoppers => i = n) /\ next \notin StopAnswers
  BY DEF Counts, next
<1>12. Counts(n, S, d, next, new)
  BY Zenon, <1>5, <1>6, <1>7, <1>8, <1>9, <1>10, <1>11 DEF Counts
<1> QED BY <1>12 DEF next, new

\* Answering in part replaces the one answer that is due by its rest.
LEMMA CountsSwap ==
  ASSUME NEW n \in Nat, NEW S, NEW c, NEW due \in Seq(Words), NEW owed \in Seq(Words),
         Counts(n, S, c, due, owed), Len(due) = 1, NEW x \in Words, <<x>> \notin StopAnswers
  PROVE  Counts(n, S, c, <<x>>, <<x>> \o Tail(owed)) /\ <<x>> \o Tail(owed) \in Seq(Words)
<1> DEFINE next == <<x>>
           rest == Tail(owed)
           new == next \o rest
<1>1. next \in Seq(Words) /\ Len(next) = 1 /\ next[1] = x
  BY OneWord
<1>2. owed # <<>>
  <2>1. due # <<>>
    OBVIOUS
  <2> QED BY <2>1, DueFirst
<1>3. /\ rest \in Seq(Words) /\ Len(rest) = Len(owed) - 1 /\ Len(owed) \in Nat /\ Len(owed) > 0
      /\ \A i \in 1..(Len(owed) - 1) : rest[i] = owed[i + 1]
  BY <1>2, TailFacts
<1> HIDE DEF next, rest
<1>4. /\ new \in Seq(Words) /\ Len(new) = Len(next) + Len(rest)
      /\ \A i \in 1..(Len(next) + Len(rest)) :
           new[i] = IF i <= Len(next) THEN next[i] ELSE rest[i - Len(next)]
  <2>1. next \in Seq(Words) /\ rest \in Seq(Words)
    BY Zenon, <1>1, <1>3
  <2> QED BY Zenon, <2>1, Concatenated
<1> HIDE DEF new
<1>5. Len(new) = Len(owed) /\ new[1] = x /\ \A i \in 2..Len(owed) : new[i] = owed[i]
  <2>1. \A i \in 2..Len(owed) : new[i] = rest[i - 1]
    BY <1>1, <1>3, <1>4
  <2> QED BY <1>1, <1>3, <1>4, <2>1
<1>6. /\ c \in [0..n -> Nat] /\ c[0] = 1 /\ c[n] = Len(owed)
      /\ \A i, j \in 0..n : i <= j => c[i] <= c[j]
  BY Zenon DEF Counts
<1>7. \A i \in 0..n : c[i] \in Nat /\ c[i] >= 1 /\ c[i] <= Len(owed)
  BY <1>6
<1>8. ASSUME NEW i \in 1..n
      PROVE  IF Obliges(S[i].kind) = <<>> THEN c[i] = c[i - 1]
             ELSE c[i] = c[i - 1] + 1 /\ new[c[i]] = Obliges(S[i].kind)[1]
  <2>1. IF Obliges(S[i].kind) = <<>> THEN c[i] = c[i - 1]
        ELSE c[i] = c[i - 1] + 1 /\ owed[c[i]] = Obliges(S[i].kind)[1]
    BY Zenon DEF Counts
  <2>2. c[i] = c[i - 1] + 1 => c[i] \in 2..Len(owed)
    BY <1>3, <1>7
  <2> QED BY Zenon, <1>5, <2>1, <2>2
<1>9. /\ \A i \in 1..n : S[i].kind = "compress" => c[i] = 0
      /\ \A i \in 1..n : S[i].kind \in Stoppers => i = n
  BY DEF Counts
<1>10. next \notin StopAnswers
  BY Zenon DEF next
<1>11. Counts(n, S, c, next, new)
  BY <1>1, <1>5, <1>6, <1>8, <1>9, <1>10 DEF Counts
<1> QED BY <1>4, <1>11 DEF new, next, rest

-----------------------------------------------------------------------------
(* How the steps move the stream.                                          *)

\* A frame keeps the kind and the mode it was sent with.
LEMMA FrameFacts ==
  ASSUME NEW f
  PROVE  Frame(f).kind = f.kind /\ Frame(f).comp = f.comp
BY DEF Frame

\* The stream: the frames of the buffer, then those of the socket.
LEMMA StreamType ==
  ASSUME LinkType
  PROVE  /\ Len(conn.buf) \in Nat /\ Len(toClient) \in Nat /\ InFlight \in Nat
         /\ \A i \in 1..Len(conn.buf) : Stream[i] = Frame(conn.buf[i])
         /\ \A i \in 1..Len(toClient) : Stream[Len(conn.buf) + i] = Frame(toClient[i])
         /\ Stream = [i \in 1..InFlight |-> Stream[i]]
<1>1. Len(conn.buf) \in Nat /\ Len(toClient) \in Nat
  BY DEF LinkType
<1>2. InFlight = Len(conn.buf) + Len(toClient)
  BY DEF InFlight
<1>3. \A i \in 1..InFlight :
        Stream[i] = Frame(IF i <= Len(conn.buf) THEN conn.buf[i]
                                                ELSE toClient[i - Len(conn.buf)])
  BY DEF Stream
<1>4. \A i \in 1..Len(conn.buf) : Stream[i] = Frame(conn.buf[i])
  BY <1>1, <1>2, <1>3
<1>5. ASSUME NEW i \in 1..Len(toClient)
      PROVE  Stream[Len(conn.buf) + i] = Frame(toClient[i])
  <2>1. Len(conn.buf) + i \in 1..InFlight /\ ~ (Len(conn.buf) + i <= Len(conn.buf))
        /\ (Len(conn.buf) + i) - Len(conn.buf) = i
    BY <1>1, <1>2
  <2> QED BY <1>3, <2>1
<1>6. Stream = [i \in 1..InFlight |-> Stream[i]]
  BY DEF Stream
<1>7. InFlight \in Nat
  BY <1>1, <1>2
<1> QED BY Zenon, <1>1, <1>4, <1>5, <1>6, <1>7

\* A step without buffer and socket keeps the stream.
LEMMA StreamUnchanged ==
  ASSUME UNCHANGED toClient, conn'.buf = conn.buf
  PROVE  InFlight' = InFlight /\ Stream' = Stream
BY DEF InFlight, Stream

\* What the server sends is at the end of the stream.
LEMMA StreamGrows ==
  ASSUME LinkType, NEW f, toClient' = Append(toClient, f), conn'.buf = conn.buf
  PROVE  InFlight' = InFlight + 1 /\ Stream' = Grown(InFlight, Stream, Frame(f))
<1> DEFINE b == conn.buf
           new == Append(toClient, f)
<1>1. /\ Len(b) \in Nat /\ Len(toClient) \in Nat /\ Len(new) = Len(toClient) + 1
      /\ \A i \in 1..Len(toClient) : new[i] = toClient[i]
      /\ new[Len(toClient) + 1] = f
  BY DEF LinkType
<1>2. InFlight = Len(b) + Len(toClient) /\ InFlight' = Len(b) + Len(new)
  BY Zenon DEF InFlight
<1>3. /\ Stream = [i \in 1..InFlight |-> Frame(IF i <= Len(b) THEN b[i] ELSE toClient[i - Len(b)])]
      /\ Stream' = [i \in 1..InFlight' |-> Frame(IF i <= Len(b) THEN b[i] ELSE new[i - Len(b)])]
  BY DEF Stream, Frame
<1> HIDE DEF b, new
<1>4. InFlight' = InFlight + 1 /\ InFlight \in Nat
  BY <1>1, <1>2
<1>5. ASSUME NEW i \in 1..(InFlight + 1)
      PROVE  Stream'[i] = IF i <= InFlight THEN Stream[i] ELSE Frame(f)
  <2>1. Stream'[i] = Frame(IF i <= Len(b) THEN b[i] ELSE new[i - Len(b)])
    BY Zenon, <1>3, <1>4
  <2>2. CASE i <= Len(b)
    <3>1. i <= InFlight /\ i \in 1..InFlight
      BY <1>1, <1>2, <2>2
    <3> QED BY <1>3, <2>1, <2>2, <3>1
  <2>3. CASE ~(i <= Len(b)) /\ i <= InFlight
    <3>1. i \in 1..InFlight /\ i - Len(b) \in 1..Len(toClient)
      BY <1>1, <1>2, <1>4, <2>3
    <3> QED BY <1>1, <1>3, <2>1, <2>3, <3>1
  <2>4. CASE ~(i <= InFlight)
    <3>1. i - Len(b) = Len(toClient) + 1 /\ ~(i <= Len(b))
      BY <1>1, <1>2, <1>4, <2>4
    <3> QED BY <1>1, <2>1, <2>4, <3>1
  <2> QED BY Zenon, <2>2, <2>3, <2>4
<1>6. Stream' = [i \in 1..(InFlight + 1) |-> Stream'[i]]
  BY <1>3, <1>4
<1> QED BY Zenon, <1>4, <1>5, <1>6 DEF Grown

\* What is decoded is at its front.
LEMMA StreamRest ==
  ASSUME LinkType, conn.buf # <<>>, conn'.buf = Tail(conn.buf), UNCHANGED toClient
  PROVE  /\ InFlight > 0 /\ InFlight' = InFlight - 1 /\ Stream' = Rest(InFlight, Stream)
         /\ Stream[1] = Frame(Head(conn.buf))
<1> DEFINE b == conn.buf
           new == Tail(b)
<1>1. /\ Len(b) \in Nat /\ Len(b) > 0 /\ Len(toClient) \in Nat /\ Len(new) = Len(b) - 1
      /\ \A i \in 1..(Len(b) - 1) : new[i] = b[i + 1]
      /\ Head(b) = b[1]
  BY DEF LinkType
<1>2. InFlight = Len(b) + Len(toClient) /\ InFlight' = Len(new) + Len(toClient)
  BY DEF InFlight
<1>3. /\ Stream = [i \in 1..InFlight |-> Frame(IF i <= Len(b) THEN b[i] ELSE toClient[i - Len(b)])]
      /\ Stream' = [i \in 1..InFlight' |-> Frame(IF i <= Len(new) THEN new[i]
                                                 ELSE toClient[i - Len(new)])]
  BY DEF Stream, Frame
<1> HIDE DEF b, new
<1>4. InFlight > 0 /\ InFlight' = InFlight - 1 /\ InFlight \in Nat
  BY <1>1, <1>2
<1>5. ASSUME NEW i \in 1..(InFlight - 1)
      PROVE  Stream'[i] = Stream[i + 1]
  <2>1. /\ Stream'[i] = Frame(IF i <= Len(new) THEN new[i] ELSE toClient[i - Len(new)])
        /\ Stream[i + 1] = Frame(IF i + 1 <= Len(b) THEN b[i + 1] ELSE toClient[(i + 1) - Len(b)])
    BY <1>3, <1>4
  <2>2. CASE i <= Len(new)
    <3>1. i + 1 <= Len(b) /\ i \in 1..(Len(b) - 1)
      BY <1>1, <2>2
    <3> QED BY <1>1, <2>1, <2>2, <3>1
  <2>3. CASE ~(i <= Len(new))
    <3>1. ~(i + 1 <= Len(b)) /\ (i + 1) - Len(b) = i - Len(new)
      BY <1>1, <2>3
    <3> QED BY <2>1, <2>3, <3>1
  <2> QED BY <2>2, <2>3
<1>6. Stream' = [i \in 1..(InFlight - 1) |-> Stream'[i]]
  BY <1>3, <1>4
<1>7. Stream[1] = Frame(Head(b))
  BY <1>1, <1>2, <1>3, <1>4
<1> QED BY <1>4, <1>5, <1>6, <1>7 DEF Rest, b

\* A socket read moves frames, and perhaps a part of one, into the buffer; the
\* stream is what it was, and they are read in the mode they were written in.
LEMMA ReadMovesStream ==
  ASSUME LinkType, Encrypts, conn.buf = <<>>, NEW n \in 0..Len(toClient), NEW more \in BOOLEAN,
         more => n < Len(toClient),
         conn' = [conn EXCEPT !.buf = Arrives(n), !.half = Part(n, more)],
         toClient' = SubSeq(toClient, n + 1, Len(toClient)), UNCHANGED <<server, task>>
  PROVE  LinkType' /\ Encrypts' /\ InFlight' = InFlight /\ Stream' = Stream
<1> DEFINE t == toClient
           b == Arrives(n)
           u == SubSeq(t, n + 1, Len(t))
<1>1. t \in Seq(Sent) /\ Len(t) \in Nat /\ n \in Nat /\ n <= Len(t)
  BY DEF LinkType
<1>2. \A i \in 1..n : /\ t[i] \in Sent /\ t[i].enc = conn.cipher
  BY <1>1 DEF Encrypts
<1>3. b = [i \in 1..n |-> [kind |-> t[i].kind, comp |-> t[i].comp,
                           plain |-> t[i].enc = conn.cipher /\ (i = 1 => conn.half # "bad")]]
  BY Zenon DEF Arrives
<1>4. \A i \in 1..n : /\ b[i].kind = t[i].kind /\ b[i].comp = t[i].comp /\ b[i].plain
                      /\ b[i] \in Buffered
  <2> SUFFICES ASSUME NEW i \in 1..n
               PROVE  /\ b[i].kind = t[i].kind /\ b[i].comp = t[i].comp /\ b[i].plain
                      /\ b[i] \in Buffered
    OBVIOUS
  <2> DEFINE f == t[i]
             plain == f.enc = conn.cipher /\ (i = 1 => conn.half # "bad")
             r == [kind |-> f.kind, comp |-> f.comp, plain |-> plain]
  <2>1. f \in Sent /\ plain = TRUE
    BY <1>2 DEF Encrypts
  <2>2. b[i] = r
    BY <1>3
  <2> HIDE DEF f, plain
  <2>3. r.kind = f.kind /\ r.comp = f.comp /\ r.plain = plain /\ r \in Buffered
    BY <2>1 DEF Sent, Buffered
  <2> HIDE DEF r, b
  <2> QED BY <2>1, <2>2, <2>3 DEF f
<1>5. b \in Seq(Buffered) /\ Len(b) = n
  <2>1. b \in [1..n -> Buffered]
    BY <1>3, <1>4
  <2> HIDE DEF b
  <2> QED BY <1>1, <2>1, Tabulated
<1>6. /\ u \in Seq(Sent) /\ Len(u) = Len(t) - n
      /\ \A i \in 1..(Len(t) - n) : u[i] = t[n + i]
  <2> HIDE DEF t
  <2> QED BY <1>1
<1>7. Part(n, more) # "bad"
  <2>1. more => n + 1 \in 1..Len(t)
    BY <1>1
  <2>2. more => t[n + 1].enc = conn.cipher
    BY <2>1 DEF Encrypts
  <2> QED BY <2>2 DEF Part
<1> HIDE DEF b, u, t
<1>8. /\ conn'.buf = b /\ conn'.half = Part(n, more) /\ conn'.cipher = conn.cipher
      /\ conn'.threshold = conn.threshold /\ DOMAIN conn' = DOMAIN conn /\ toClient' = u
  BY DEF LinkType, b, u, t
<1>9. LinkType'
  BY <1>5, <1>6, <1>8 DEF LinkType
<1>10. \A i \in 1..Len(u) : u[i].enc = conn.cipher
  <2> SUFFICES ASSUME NEW i \in 1..Len(u) PROVE u[i].enc = conn.cipher
    OBVIOUS
  <2>1. n + i \in 1..Len(t) /\ u[i] = t[n + i]
    BY <1>1, <1>6
  <2> QED BY <2>1 DEF Encrypts, t
<1>11. Encrypts'
  BY Zenon, <1>4, <1>5, <1>7, <1>8, <1>10 DEF Encrypts
<1>12. InFlight' = InFlight /\ InFlight = Len(t) /\ InFlight' = n + Len(u)
  BY <1>1, <1>5, <1>6, <1>8 DEF InFlight, t
<1>13. ASSUME NEW i \in 1..InFlight PROVE Stream'[i] = Stream[i]
  <2>1. Stream[i] = Frame(t[i])
    BY <1>1, <1>12 DEF Stream, t
  <2>2. Stream'[i] = Frame(IF i <= n THEN b[i] ELSE u[i - n])
    <3>1. Stream' = [j \in 1..InFlight' |-> Frame(IF j <= Len(conn'.buf) THEN conn'.buf[j]
                                                   ELSE toClient'[j - Len(conn'.buf)])]
      BY DEF Stream, Frame
    <3> QED BY <1>5, <1>8, <1>12, <3>1
  <2>3. CASE i <= n
    BY <1>1, <1>4, <1>12, <2>1, <2>2, <2>3 DEF Frame
  <2>4. CASE ~(i <= n)
    <3>1. i - n \in 1..(Len(t) - n) /\ n + (i - n) = i
      BY <1>1, <1>12, <2>4
    <3> QED BY <1>6, <2>1, <2>2, <2>4, <3>1
  <2> QED BY <2>3, <2>4
<1>14. Stream = [i \in 1..InFlight |-> Stream[i]] /\ Stream' = [i \in 1..InFlight' |-> Stream'[i]]
  BY Zenon DEF Stream, Frame
<1> QED BY <1>9, <1>11, <1>12, <1>13, <1>14

-----------------------------------------------------------------------------
(* Steps that leave the link alone, or end the task.                       *)

LinkVars == <<cfg, task, conn, joined, toClient, server, proxied, garbled>>

\* A step without the link keeps the invariant.
LEMMA LinkUnchanged ==
  ASSUME LinkInv, UNCHANGED LinkVars
  PROVE  LinkInv'
<1>1. InFlight' = InFlight /\ Stream' = Stream
  BY StreamUnchanged DEF LinkVars
<1>2. LinkType' /\ ~server'.confused /\ ~garbled' /\ ProxyInv' /\ Shape(task', conn'.state)
  BY DEF LinkInv, LinkType, ProxyInv, LinkVars
<1>3. Dead' = Dead
  BY Zenon DEF Dead, LinkVars
<1>4. ~Dead => ModeInv'
  BY Zenon, <1>1 DEF LinkInv, ModeInv, Encrypts, LinkVars
<1>5. ~Dead /\ server.phase # "closed" => SyncInv'
  BY <1>1 DEF LinkInv, SyncInv, LinkVars
<1> QED BY <1>2, <1>3, <1>4, <1>5 DEF LinkInv, LinkVars

\* A stage before or within a configuration is not one of state Play.
LEMMA OtherStages ==
  ASSUME NEW t, NEW state, Shape(t, state), t.stage # "Play", t.stage # "Over"
  PROVE  state # "Play"
BY Zenon DEF Shape, Configuring

\* A task that ends in an error awaits and writes nothing.
LEMMA ErrFacts ==
  ASSUME NEW t, NEW class, {"stage", "wait", "out", "then", "packets", "result"} \subseteq DOMAIN t
  PROVE  /\ Err(t, class).stage = "Over" /\ Err(t, class).wait = "none"
         /\ Err(t, class).out = <<>>
         /\ DOMAIN Err(t, class) = DOMAIN t
         /\ \A state : Shape(Err(t, class), state)
         /\ Due(Err(t, class)) = <<>>
<1> DEFINE e == Err(t, class)
<1>1. e.stage = "Over" /\ e.wait = "none" /\ e.out = <<>> /\ DOMAIN e = DOMAIN t
  BY Zenon DEF Err
<1> HIDE DEF e
<1>2. \A state : Shape(e, state)
  BY <1>1 DEF Shape
<1>3. Due(e) = <<>>
  BY Zenon, <1>1 DEF Due, Reaching
<1> QED BY <1>1, <1>2, <1>3 DEF e

\* The task returns: it was reading, or nothing is read or written any more.
LEMMA LinkEnds ==
  ASSUME LinkInv, NEW class, task' = Err(task, class),
         UNCHANGED <<cfg, conn, joined, toClient, server, proxied, garbled>>,
         \/ conn.failed \/ server.phase = "closed"
         \/ task.stage \notin {"Play", "Over"} \/ task.wait = "read"
  PROVE  LinkInv'
<1>1. InFlight' = InFlight /\ Stream' = Stream
  BY Zenon, StreamUnchanged
<1>2. /\ task'.stage = "Over" /\ task'.wait = "none" /\ task'.out = <<>>
      /\ DOMAIN task' = DOMAIN task /\ Shape(task', conn'.state) /\ Due(task') = <<>>
  BY Zenon, ErrFacts DEF LinkInv, LinkType
<1>3. LinkType'
  BY Zenon, <1>2 DEF LinkInv, LinkType
<1>4. ProxyInv'
  BY Zenon, <1>2 DEF LinkInv, ProxyInv
<1>5. Dead => Dead'
  BY Zenon, <1>2 DEF Dead
<1>6. ~Dead' => ModeInv'
  BY Zenon, <1>1, <1>5 DEF LinkInv, ModeInv, Encrypts
<1>7. ASSUME ~Dead', server.phase # "closed"
      PROVE  SyncInv'
  <2>1. ~conn.failed /\ conn.state = "Play"
    BY <1>2, <1>7 DEF Dead
  <2>2. task.wait = "read" \/ task.stage = "Over"
    BY <1>7, <2>1, OtherStages DEF LinkInv
  <2>3. SyncInv
    BY <1>5, <1>7 DEF LinkInv
  <2>4. Due(task) = <<>>
    <3>1. CASE task.wait = "read"
      BY <3>1 DEF Due, Reaching
    <3>2. CASE task.stage = "Over"
      <4>1. task.wait = "none"
        BY <3>2 DEF LinkInv, Shape, Configuring
      <4> QED BY Zenon, <4>1 DEF Due, Reaching
    <3> QED BY <2>2, <3>1, <3>2
  <2>5. server'.phase = PhaseOf(task', conn'.state)
    BY Zenon, <2>1, <2>3 DEF SyncInv, PhaseOf
  <2> QED BY Zenon, <1>1, <1>2, <2>3, <2>4, <2>5 DEF SyncInv
<1> QED BY Zenon, <1>2, <1>3, <1>4, <1>6, <1>7 DEF LinkInv

\* A socket read.
LEMMA LinkReads ==
  ASSUME LinkInv, ReadChunk
  PROVE  LinkInv'
<1>1. /\ task.wait = "read" /\ conn.buf = <<>> /\ ~conn.failed
      /\ UNCHANGED <<cfg, task, joined, server, proxied, garbled>>
  BY DEF ReadChunk
<1>2. PICK n \in 0..Len(toClient), more \in BOOLEAN :
        /\ more => n < Len(toClient)
        /\ conn' = [conn EXCEPT !.buf = Arrives(n), !.half = Part(n, more)]
        /\ toClient' = SubSeq(toClient, n + 1, Len(toClient))
  BY Zenon DEF ReadChunk
<1>3. ~Dead
  <2>1. task.stage # "Over"
    BY <1>1 DEF LinkInv, Shape, Configuring
  <2> QED BY Zenon, <1>1, <2>1 DEF Dead
<1>4. ModeInv /\ (server.phase # "closed" => SyncInv)
  BY <1>3 DEF LinkInv
<1>5. LinkType' /\ Encrypts' /\ InFlight' = InFlight /\ Stream' = Stream
  BY Zenon, <1>1, <1>2, <1>4, ReadMovesStream DEF LinkInv, ModeInv
<1>6. /\ conn'.state = conn.state /\ conn'.failed = conn.failed
      /\ conn'.threshold = conn.threshold
  BY Zenon, <1>2 DEF LinkInv, LinkType
<1>7. ModeInv'
  BY Zenon, <1>1, <1>4, <1>5, <1>6 DEF ModeInv
<1>8. server.phase # "closed" => SyncInv'
  BY Zenon, <1>1, <1>4, <1>5, <1>6 DEF SyncInv
<1>9. ProxyInv'
  BY <1>1, <1>6 DEF LinkInv, ProxyInv
<1> QED BY <1>1, <1>5, <1>6, <1>7, <1>8, <1>9 DEF LinkInv

-----------------------------------------------------------------------------
(* A packet is decoded, and its handler goes on.                           *)

TaskFields == {"stage", "wait", "out", "then", "packets", "result"}

\* What a handler sends is what the task writes next.
LEMMA SendFacts ==
  ASSUME NEW t, TaskFields \subseteq DOMAIN t, NEW out, NEW next
  PROVE  /\ DOMAIN Send(t, out, next) = DOMAIN t /\ Send(t, out, next).stage = t.stage
         /\ Writes(Send(t, out, next), out, next)
BY DEF Send, Writes, TaskFields

\* Counting a packet changes nothing else of the task.
LEMMA CountedFacts ==
  ASSUME TaskFields \subseteq DOMAIN task
  PROVE  /\ DOMAIN Counted = DOMAIN task /\ Counted.stage = task.stage
         /\ Counted.wait = task.wait /\ Counted.out = task.out
BY DEF Counted, TaskFields

\* A loop that reads on waits for a packet, or ends before play.
LEMMA ReadOnFacts ==
  ASSUME NEW t, TaskFields \subseteq DOMAIN t, t.out = <<>>
  PROVE  /\ DOMAIN ReadOn(t) = DOMAIN t /\ ReadOn(t).out = <<>>
         /\ \/ ReadOn(t).stage = t.stage /\ ReadOn(t).wait = "read"
            \/ /\ ReadOn(t).stage = "Over" /\ ReadOn(t).wait = "none"
               /\ t.stage \in {"Login"} \cup Configuring
<1>1. CASE ReadOn(t) = Err(t, "ProtocolIncompatible") /\ t.stage \in {"Login"} \cup Configuring
  BY <1>1, ErrFacts DEF TaskFields
<1>2. CASE ReadOn(t) = [t EXCEPT !.wait = "read"]
  BY <1>2 DEF TaskFields
<1> QED BY Zenon, <1>1, <1>2 DEF ReadOn

\* The frame that is decoded is the first of the stream.
LEMMA StreamFirst ==
  ASSUME LinkType, conn.buf # <<>>
  PROVE  InFlight > 0 /\ 1 \in 1..InFlight /\ Stream[1].kind = Head(conn.buf).kind
<1>1. Len(conn.buf) \in Nat /\ Len(toClient) \in Nat /\ InFlight \in Nat
  BY StreamType
<1>2. Len(conn.buf) > 0 /\ Head(conn.buf) = conn.buf[1]
  BY DEF LinkType
<1>3. InFlight > 0 /\ 1 \in 1..InFlight /\ 1 <= Len(conn.buf)
  BY <1>1, <1>2 DEF InFlight
<1>4. Stream[1] = Frame(conn.buf[1])
  BY Zenon, <1>3 DEF Stream
<1> QED BY <1>2, <1>3, <1>4, FrameFacts

\* The frame in front has gone, and its handler is at work on the answer.
LEMMA LinkConsumes ==
  ASSUME LinkInv, task.wait = "read", ~conn.failed, conn.buf # <<>>,
         NEW kind, Head(conn.buf).kind = kind,
         DOMAIN task' = DOMAIN task, DOMAIN conn' = DOMAIN conn,
         conn'.buf = Tail(conn.buf), conn'.state = conn.state, conn'.failed = conn.failed,
         conn'.cipher = conn.cipher, conn'.half = conn.half,
         conn'.threshold = (conn.threshold \/ kind = "compress"),
         UNCHANGED <<cfg, joined, toClient, server, proxied, garbled>>,
         Shape(task', conn.state), task'.out # <<"login_start">>,
         task'.out = <<"encryption_response">> => kind = "encryption_begin",
         Due(task') = Obliges(kind) \/ (task'.stage = "Over" /\ conn.state # "Play")
  PROVE  LinkInv'
<1>1. task.stage # "Over" /\ task.out = <<>> /\ task.stage \notin {"TcpConnect", "ProxyNegotiate"}
  BY Zenon DEF LinkInv, Shape, Configuring, Writes, Serving, Reaching
<1>2. ~Dead
  BY Zenon, <1>1 DEF Dead
<1>3. ModeInv /\ (server.phase # "closed" => SyncInv) /\ LinkType
  BY <1>2 DEF LinkInv
<1>4. InFlight \in Nat /\ InFlight > 0 /\ 1 \in 1..InFlight /\ Stream[1].kind = kind
  BY Zenon, <1>3, StreamFirst, StreamType
<1>5. InFlight' = InFlight - 1 /\ Stream' = Rest(InFlight, Stream)
  BY Zenon, <1>3, StreamRest
<1>6. /\ \A i \in 1..Len(Tail(conn.buf)) : Tail(conn.buf)[i] = conn.buf[i + 1] /\ i + 1 \in 1..Len(conn.buf)
      /\ Tail(conn.buf) \in Seq(Buffered)
  <2>1. conn.buf \in Seq(Buffered)
    BY Zenon, <1>3 DEF LinkType
  <2> QED BY Zenon, <2>1, BufferTail
<1>7. LinkType'
  BY Zenon, <1>3, <1>6 DEF LinkType
<1>8. ModeInv'
  <2>1. Encrypts'
    BY <1>3, <1>6 DEF ModeInv, Encrypts
  <2>2. Comps(InFlight - 1, Rest(InFlight, Stream), conn.threshold \/ Stream[1].kind = "compress",
              server.comp)
    BY Zenon, <1>3, <1>4, CompsRest DEF ModeInv, LinkType
  <2>3. Comps(InFlight', Stream', conn'.threshold, server'.comp)
    BY Zenon, <1>4, <1>5, <2>2
  <2> QED BY Zenon, <2>1, <2>3 DEF ModeInv
<1>9. ProxyInv'
  BY <1>1 DEF LinkInv, ProxyInv
<1>10. ASSUME ~Dead', server.phase # "closed"
       PROVE  SyncInv'
  <2>1. Due(task') = Obliges(kind)
    BY Zenon, <1>10 DEF Dead
  <2>2. SyncInv
    BY <1>3, <1>10
  <2>3. Due(task) = <<>>
    BY DEF Due, Reaching
  <2>4. PhaseOf(task', conn'.state) = PhaseOf(task, conn.state)
    BY <1>1 DEF PhaseOf
  <2>5. \A i \in 1..(InFlight - 1) : i + 1 \in 1..InFlight /\ Rest(InFlight, Stream)[i] = Stream[i + 1]
    BY <1>4 DEF Rest
  <2>6. \E d : Counts(InFlight', Stream', d, Due(task'), server'.owed)
    <3>1. PICK c : Counts(InFlight, Stream, c, <<>>, server.owed)
      BY Zenon, <2>2, <2>3 DEF SyncInv
    <3>2. \E d : Counts(InFlight - 1, Rest(InFlight, Stream), d, Obliges(Stream[1].kind), server.owed)
      BY <1>3, <1>4, <3>1, CountsRest DEF LinkType
    <3> QED BY <1>4, <1>5, <2>1, <3>2
  <2>7. /\ \A i \in 1..InFlight' : Stream'[i].kind \in KindsOf(server'.phase)
        /\ \A i \in 1..InFlight' : Stream'[i].kind = "encryption_begin" => ~server'.checks
    BY Zenon, <1>5, <2>2, <2>5 DEF SyncInv
  <2>8. task'.out = <<"encryption_response">> => ~server.checks
    BY Zenon, <1>4, <2>2 DEF SyncInv
  <2> QED BY Zenon, <2>2, <2>4, <2>6, <2>7, <2>8 DEF SyncInv
<1> QED BY <1>7, <1>8, <1>9, <1>10 DEF LinkInv

\* The frame in front, and a handler that leaves the modes alone.
LEMMA HandleTakes ==
  ASSUME LinkInv, NEW stages, NEW kind, Receive(stages, kind), kind # "compress",
         NEW t, Handle(t), DOMAIN t = DOMAIN task,
         Shape(t, conn.state), t.out # <<"login_start">>,
         t.out = <<"encryption_response">> => kind = "encryption_begin",
         Due(t) = Obliges(kind) \/ (t.stage = "Over" /\ conn.state # "Play")
  PROVE  LinkInv'
<1>1. /\ task.wait = "read" /\ ~conn.failed /\ conn.buf # <<>> /\ Head(conn.buf).kind = kind
  BY DEF Receive
<1>2. /\ task' = t /\ conn' = [conn EXCEPT !.buf = Tail(@)]
      /\ UNCHANGED <<cfg, joined, toClient, server, proxied, garbled>>
  BY DEF Handle, peerVars
<1>3. /\ DOMAIN conn' = DOMAIN conn /\ conn'.buf = Tail(conn.buf)
      /\ conn'.state = conn.state /\ conn'.failed = conn.failed
      /\ conn'.cipher = conn.cipher /\ conn'.half = conn.half
      /\ conn'.threshold = conn.threshold
  BY Zenon, <1>2 DEF LinkInv, LinkType
<1>4. conn'.threshold = (conn.threshold \/ kind = "compress")
  BY Zenon, <1>3 DEF LinkInv, LinkType
<1> QED BY <1>1, <1>2, <1>3, <1>4, LinkConsumes

\* A handler that returns an error: of a packet that is not answered, or
\* before play.
LEMMA HandleErrs ==
  ASSUME LinkInv, NEW stages, NEW kind, Receive(stages, kind), kind # "compress", NEW class,
         Handle(Err(task, class)), Obliges(kind) = <<>> \/ conn.state # "Play"
  PROVE  LinkInv'
<1> DEFINE t == Err(task, class)
<1>1. /\ t.stage = "Over" /\ t.out = <<>> /\ DOMAIN t = DOMAIN task
      /\ Shape(t, conn.state) /\ Due(t) = <<>>
  BY Zenon, ErrFacts DEF LinkInv, LinkType
<1>2. t.out # <<"login_start">> /\ t.out # <<"encryption_response">>
  BY <1>1
<1>3. Handle(t)
  BY Zenon
<1> HIDE DEF t
<1> QED BY Zenon, <1>1, <1>2, <1>3, HandleTakes

\* A handler that answers with one frame.
LEMMA HandleSends ==
  ASSUME LinkInv, NEW stages, NEW kind, Receive(stages, kind), kind # "compress",
         NEW s, DOMAIN s = DOMAIN task, s.stage = task.stage, NEW x, NEW next,
         Handle(Send(s, <<x>>, next)), DueOf(<<x>>) = Obliges(kind),
         x # "login_start", x = "encryption_response" => kind = "encryption_begin",
         \/ task.stage = "Login" /\ <<x, next>> \in {<<"encryption_response", "encrypt">>,
               <<"plugin_response", "read">>, <<"login_acknowledged", "configure">>}
         \/ task.stage \in Configuring /\ <<x, next>> = <<"finish_configuration", "play">>
         \/ /\ task.stage \in Configuring \cup {"Play"}
            /\ \/ x \in Replies \cup {"DECLINED"} /\ next = "read"
               \/ <<x, next>> = <<"ACCEPTED", "download">>
         \/ task.stage = "Play" /\ <<x, next>> = <<"configuration_acknowledged", "reconfigure">>
  PROVE  LinkInv'
<1> DEFINE t == Send(s, <<x>>, next)
<1>1. DOMAIN t = DOMAIN task /\ t.stage = task.stage /\ Writes(t, <<x>>, next)
  BY SendFacts DEF LinkInv, LinkType, TaskFields
<1>2. Handle(t)
  BY Zenon
<1> HIDE DEF t
<1>3. task.wait = "read"
  BY Zenon DEF Receive
<1>4. Shape(t, conn.state)
  <2>1. /\ task.stage = "Login" => conn.state = "Login"
        /\ task.stage \in Configuring => conn.state = "Configuration"
        /\ task.stage = "Play" => conn.state = "Play"
    BY DEF LinkInv, Shape, Configuring
  <2>2. CASE task.stage = "Login"
    <3>1. <<x, next>> \in {<<"encryption_response", "encrypt">>,
               <<"plugin_response", "read">>, <<"login_acknowledged", "configure">>}
      BY <2>2 DEF Configuring
    <3> QED BY Zenon, <1>1, <2>1, <2>2, <3>1 DEF Shape
  <2>3. CASE task.stage \in Configuring \cup {"Play"} /\ x \in Replies \cup {"DECLINED"} /\ next = "read"
    <3>1. Serving(t)
      BY Zenon, <1>1, <2>3 DEF Serving, PackAnswers
    <3> QED BY Zenon, <1>1, <2>1, <2>3, <3>1 DEF Shape
  <2>4. CASE task.stage \in Configuring \cup {"Play"} /\ <<x, next>> = <<"ACCEPTED", "download">>
    <3>1. Serving(t)
      BY Zenon, <1>1, <2>4 DEF Serving
    <3> QED BY Zenon, <1>1, <2>1, <2>4, <3>1 DEF Shape
  <2>5. CASE task.stage \in Configuring /\ <<x, next>> = <<"finish_configuration", "play">>
    BY Zenon, <1>1, <2>1, <2>5 DEF Shape
  <2>6. CASE task.stage = "Play" /\ <<x, next>> = <<"configuration_acknowledged", "reconfigure">>
    BY <1>1, <2>1, <2>6 DEF Shape
  <2> QED BY Zenon, <2>2, <2>3, <2>4, <2>5, <2>6
<1>5. Due(t) = Obliges(kind)
  BY Zenon, <1>1 DEF Due, Writes, Reaching
<1>6. t.out # <<"login_start">> /\ (t.out = <<"encryption_response">> => kind = "encryption_begin")
  BY <1>1 DEF Writes
<1> QED BY Zenon, <1>1, <1>2, <1>4, <1>5, <1>6, HandleTakes

\* What packets oblige to, by name.
LEMMA Obligations ==
  /\ Obliges("encryption_begin") = <<"encryption_response">>
  /\ Obliges("authenticate") = <<"encryption_response">>
  /\ Obliges("success") = <<"login_acknowledged">>
  /\ Obliges("finish_configuration") = <<"finish_configuration">>
  /\ Obliges("start_configuration") = <<"configuration_acknowledged">>
  /\ Obliges("add_resource_pack") = <<"pack">>
  /\ Obliges("disconnect") = <<>> /\ Obliges("bad") = <<>> /\ Obliges("data") = <<>>
  /\ Obliges("compress") = <<>>
BY DEF Obliges, Answers

\* The packets with a fixed answer oblige to just that answer.
LEMMA AnswersFacts ==
  ASSUME NEW kind \in DOMAIN Answers
  PROVE  /\ Obliges(kind) = <<Answers[kind]>> /\ Answers[kind] \in Replies
         /\ kind # "compress"
         /\ kind \in {"plugin_request", "keep_alive", "ping", "select_known_packs"}
         /\ kind = "plugin_request" <=> Answers[kind] = "plugin_response"
<1>1. kind \in {"plugin_request", "keep_alive", "ping", "select_known_packs"}
  BY DEF Answers
<1> QED BY <1>1 DEF Answers, Obliges, Replies

\* What is due while a single answer is being written.
LEMMA DueOfOne ==
  /\ \A x \in Replies \cup {"encryption_response", "login_acknowledged", "finish_configuration",
                            "configuration_acknowledged", "login_start", "settings",
                            "SUCCESSFULLY_LOADED"} : DueOf(<<x>>) = <<x>>
  /\ \A x \in {"ACCEPTED", "DECLINED"} : DueOf(<<x>>) = <<"pack">>
  /\ \A x \in {"INVALID_URL", "FAILED_DOWNLOAD"} : DueOf(<<x>>) = <<"pack_result">>
  /\ DueOf(<<"DOWNLOADED", "SUCCESSFULLY_LOADED">>) = <<"pack_result">>
  /\ DueOf(<<"custom_payload", "settings">>) = <<"custom_payload", "settings">>
  /\ DueOf(<<"set_protocol">>) = <<"set_protocol", "login_start">>
BY Zenon DEF DueOf, Replies

\* A packet is received by a task that reads, in the state of its stage.
LEMMA ReceiveStage ==
  ASSUME LinkInv, NEW stages, NEW kind, Receive(stages, kind)
  PROVE  /\ task.stage \in stages /\ task.wait = "read" /\ task.out = <<>>
         /\ task.stage = "Login" => conn.state = "Login"
         /\ task.stage \in Configuring => conn.state = "Configuration"
         /\ task.stage = "Play" => conn.state = "Play"
         /\ DOMAIN Counted = DOMAIN task /\ Counted.stage = task.stage
         /\ Counted.wait = "read" /\ Counted.out = <<>>
<1>1. task.stage \in stages /\ task.wait = "read"
  BY Zenon DEF Receive
<1>2. /\ task.out = <<>>
      /\ task.stage = "Login" => conn.state = "Login"
      /\ task.stage \in Configuring => conn.state = "Configuration"
      /\ task.stage = "Play" => conn.state = "Play"
  BY Zenon, <1>1 DEF LinkInv, Shape, Configuring, Writes, Serving, Reaching
<1> QED BY <1>1, <1>2, CountedFacts DEF LinkInv, LinkType, TaskFields

\* A task that goes on waiting for a packet, or ends before play.
LEMMA WaitsOn ==
  ASSUME NEW t, NEW state, t.out = <<>>,
         \/ /\ t.wait = "read"
            /\ \/ t.stage = "Login" /\ state = "Login"
               \/ t.stage \in Configuring /\ state = "Configuration"
               \/ t.stage = "Play" /\ state = "Play"
         \/ t.wait = "none" /\ t.stage = "Over"
  PROVE  /\ Shape(t, state) /\ Due(t) = <<>>
         /\ t.out # <<"login_start">> /\ t.out # <<"encryption_response">>
<1>1. Shape(t, state)
  <2>1. t.wait = "read" => Serving(t)
    BY DEF Serving
  <2> QED BY Zenon, <2>1 DEF Shape
<1>2. Due(t) = <<>>
  BY DEF Due, Reaching
<1> QED BY <1>1, <1>2

\* A packet that is not answered.
LEMMA HandleWaits ==
  ASSUME LinkInv, NEW stages, NEW kind, Receive(stages, kind), kind # "compress",
         Obliges(kind) = <<>>, NEW t, Handle(t), DOMAIN t = DOMAIN task, t.out = <<>>,
         \/ t.stage = task.stage /\ t.wait = "read"
         \/ t.stage = "Over" /\ t.wait = "none",
         task.stage \in {"Login", "Play"} \cup Configuring
  PROVE  LinkInv'
<1>1. Shape(t, conn.state) /\ Due(t) = <<>> /\ t.out # <<"login_start">>
        /\ t.out # <<"encryption_response">>
  BY ReceiveStage, WaitsOn
<1> QED BY Zenon, <1>1, HandleTakes

\* A compress packet keeps the invariant: the threshold is set before the next
\* frame is decoded.
LEMMA CompressionSet ==
  ASSUME LinkInv, SetCompression
  PROVE  LinkInv'
<1>1. /\ Receive({"Login"}, "compress") /\ task' = ReadOn(Counted)
      /\ conn' = [conn EXCEPT !.buf = Tail(@), !.threshold = TRUE]
      /\ UNCHANGED <<cfg, joined, toClient, server, proxied, garbled>>
  BY DEF SetCompression, peerVars
<1>2. /\ task.stage = "Login" /\ task.wait = "read" /\ conn.state = "Login"
      /\ DOMAIN Counted = DOMAIN task /\ Counted.stage = task.stage /\ Counted.out = <<>>
  BY <1>1, ReceiveStage
<1>3. /\ ~conn.failed /\ conn.buf # <<>> /\ Head(conn.buf).kind = "compress"
  BY <1>1 DEF Receive
<1>4. /\ DOMAIN task' = DOMAIN task /\ task'.out = <<>>
      /\ \/ task'.stage = "Login" /\ task'.wait = "read"
         \/ task'.stage = "Over" /\ task'.wait = "none"
  BY Zenon, <1>1, <1>2, ReadOnFacts DEF LinkInv, LinkType, TaskFields
<1>5. /\ Shape(task', conn.state) /\ Due(task') = <<>>
      /\ task'.out # <<"login_start">> /\ task'.out # <<"encryption_response">>
  BY <1>2, <1>4, WaitsOn
<1>6. /\ DOMAIN conn' = DOMAIN conn /\ conn'.buf = Tail(conn.buf)
      /\ conn'.state = conn.state /\ conn'.failed = conn.failed
      /\ conn'.cipher = conn.cipher /\ conn'.half = conn.half
      /\ conn'.threshold = TRUE
  BY <1>1 DEF LinkInv, LinkType
<1>7. conn'.threshold = (conn.threshold \/ "compress" = "compress")
  BY Zenon, <1>6
<1>8. Due(task') = Obliges("compress")
  BY <1>5, Obligations
<1> QED BY Zenon, <1>1, <1>2, <1>3, <1>4, <1>5, <1>6, <1>7, <1>8, LinkConsumes

\* An encryption request that asks for authentication keeps the invariant: the
\* answer stays due while the session server is asked.
LEMMA JoinAwaited ==
  ASSUME LinkInv, AuthenticationRequest
  PROVE  LinkInv'
<1>1. Receive({"Login"}, "authenticate")
  BY Zenon DEF AuthenticationRequest
<1>2. /\ task.stage = "Login" /\ conn.state = "Login"
      /\ DOMAIN Counted = DOMAIN task /\ Counted.stage = task.stage /\ Counted.out = <<>>
  BY <1>1, ReceiveStage
<1>3. CASE ~cfg.premium
  BY <1>1, <1>2, <1>3, HandleErrs DEF AuthenticationRequest
<1>4. CASE cfg.premium
  <2> DEFINE t == [Counted EXCEPT !.wait = "join"]
  <2>1. Handle(t)
    BY <1>4 DEF AuthenticationRequest
  <2>2. DOMAIN t = DOMAIN task /\ t.stage = "Login" /\ t.out = <<>> /\ t.wait = "join"
    BY Zenon, <1>2 DEF LinkInv, LinkType
  <2> HIDE DEF t
  <2>3. Shape(t, conn.state) /\ t.out # <<"login_start">> /\ t.out # <<"encryption_response">>
    BY <1>2, <2>2 DEF Shape
  <2>4. Due(t) = Obliges("authenticate")
    BY <2>2, Obligations DEF Due, Reaching
  <2> QED BY Zenon, <1>1, <2>1, <2>2, <2>3, <2>4, HandleTakes
<1> QED BY <1>3, <1>4

\* Every packet of login, configuration and play keeps the invariant.
LEMMA LinkPackets ==
  ASSUME LinkInv, Packets
  PROVE  LinkInv'
<1>1. CASE Kicked
  BY <1>1, HandleErrs, Obligations DEF Kicked
<1>2. CASE BadPacket
  BY Zenon, <1>2, HandleErrs, Obligations DEF BadPacket
<1>3. CASE EncryptionRequest
  <2>1. /\ Receive({"Login"}, "encryption_begin")
        /\ Handle(Send(Counted, <<"encryption_response">>, "encrypt"))
    BY Zenon, <1>3 DEF EncryptionRequest
  <2>2. task.stage = "Login" /\ DOMAIN Counted = DOMAIN task /\ Counted.stage = task.stage
    BY <2>1, ReceiveStage
  <2> QED BY <2>1, <2>2, HandleSends, Obligations, DueOfOne
<1>4. CASE AuthenticationRequest
  BY Zenon, <1>4, JoinAwaited
<1>5. CASE LoginSuccess
  <2>1. /\ Receive({"Login"}, "success")
        /\ Handle(Send(task, <<"login_acknowledged">>, "configure"))
    BY Zenon, <1>5 DEF LoginSuccess
  <2>2. task.stage = "Login"
    BY <2>1, ReceiveStage
  <2> QED BY <2>1, <2>2, HandleSends, Obligations, DueOfOne
<1>6. CASE SetCompression
  BY <1>6, CompressionSet
<1>7. CASE IgnoredPacket
  <2>1. /\ Receive(Configuring \cup {"Play"}, "data") /\ Handle(ReadOn(Counted))
    BY Zenon, <1>7 DEF IgnoredPacket
  <2>2. /\ task.stage \in Configuring \cup {"Play"}
        /\ DOMAIN Counted = DOMAIN task /\ Counted.stage = task.stage /\ Counted.out = <<>>
    BY Zenon, <2>1, ReceiveStage
  <2> DEFINE t == ReadOn(Counted)
  <2>3. /\ DOMAIN t = DOMAIN task /\ t.out = <<>>
        /\ \/ t.stage = task.stage /\ t.wait = "read"
           \/ t.stage = "Over" /\ t.wait = "none"
    BY <2>2, ReadOnFacts DEF LinkInv, LinkType, TaskFields
  <2>4. Handle(t)
    BY Zenon, <2>1
  <2> HIDE DEF t
  <2> QED BY <2>1, <2>2, <2>3, <2>4, HandleWaits, Obligations
<1>8. CASE FinishConfiguration
  <2>1. /\ Receive(Configuring, "finish_configuration")
        /\ Handle(Send(task, <<"finish_configuration">>, "play"))
    BY <1>8 DEF FinishConfiguration
  <2>2. task.stage \in Configuring
    BY <2>1, ReceiveStage
  <2> QED BY <2>1, <2>2, HandleSends, Obligations, DueOfOne
<1>9. CASE PackOffered
  <2>1. /\ Receive(Configuring \cup {"Play"}, "add_resource_pack")
        /\ \/ Handle(Send(Counted, <<"ACCEPTED">>, "download"))
           \/ Handle(Send(Counted, <<"DECLINED">>, "read"))
    BY <1>9 DEF PackOffered
  <2>2. /\ task.stage \in Configuring \cup {"Play"}
        /\ DOMAIN Counted = DOMAIN task /\ Counted.stage = task.stage
    BY Zenon, <2>1, ReceiveStage
  <2>3. CASE Handle(Send(Counted, <<"ACCEPTED">>, "download"))
    BY <2>1, <2>2, <2>3, HandleSends, Obligations, DueOfOne
  <2>4. CASE Handle(Send(Counted, <<"DECLINED">>, "read"))
    BY <2>1, <2>2, <2>4, HandleSends, Obligations, DueOfOne
  <2> QED BY <2>1, <2>3, <2>4
<1>10. CASE StartConfiguration
  <2>1. /\ Receive({"Play"}, "start_configuration")
        /\ Handle(Send(task, <<"configuration_acknowledged">>, "reconfigure"))
    BY Zenon, <1>10 DEF StartConfiguration
  <2>2. task.stage = "Play"
    BY <2>1, ReceiveStage
  <2> QED BY <2>1, <2>2, HandleSends, Obligations, DueOfOne
<1>11. ASSUME NEW kind \in DOMAIN Answers, AnswerPacket(kind)
       PROVE  LinkInv'
  <2>1. PICK stages : /\ Receive(stages, kind)
                      /\ stages = IF kind = "plugin_request" THEN {"Login"}
                                  ELSE IF kind = "select_known_packs" THEN Configuring
                                  ELSE Configuring \cup {"Play"}
    BY <1>11 DEF AnswerPacket
  <2>2. Handle(Send(Counted, <<Answers[kind]>>, "read"))
    BY <1>11 DEF AnswerPacket
  <2>3. /\ task.stage \in stages
        /\ DOMAIN Counted = DOMAIN task /\ Counted.stage = task.stage
    BY <2>1, ReceiveStage
  <2> DEFINE x == Answers[kind]
  <2>4. /\ Obliges(kind) = <<x>> /\ x \in Replies /\ kind # "compress"
        /\ kind = "plugin_request" <=> x = "plugin_response"
    BY AnswersFacts
  <2>5. Handle(Send(Counted, <<x>>, "read"))
    BY <2>2
  <2> HIDE DEF x
  <2>6. DueOf(<<x>>) = Obliges(kind) /\ x # "login_start" /\ x # "encryption_response"
    BY Zenon, <2>4, DueOfOne DEF Replies
  <2>7. CASE kind = "plugin_request"
    <3>1. task.stage = "Login" /\ <<x, "read">> = <<"plugin_response", "read">>
      BY Zenon, <2>1, <2>3, <2>4, <2>7
    <3> QED BY Zenon, <2>1, <2>3, <2>4, <2>5, <2>6, <3>1, HandleSends
  <2>8. CASE kind # "plugin_request"
    <3>1. task.stage \in Configuring \cup {"Play"}
      BY Zenon, <2>1, <2>3, <2>8
    <3> QED BY <2>1, <2>3, <2>4, <2>5, <2>6, <3>1, HandleSends
  <2> QED BY <2>7, <2>8
<1> QED BY <1>1, <1>2, <1>3, <1>4, <1>5, <1>6, <1>7, <1>8, <1>9, <1>10, <1>11 DEF Packets

-----------------------------------------------------------------------------
(* The task goes on without the connection: what is due stays due.         *)

ConnKept ==
  /\ DOMAIN conn' = DOMAIN conn /\ conn'.state = conn.state /\ conn'.failed = conn.failed
  /\ conn'.buf = conn.buf /\ conn'.half = conn.half
  /\ conn'.cipher = conn.cipher /\ conn'.threshold = conn.threshold

\* A task that goes on with the same thing due keeps the invariant.
LEMMA LinkGoesOn ==
  ASSUME LinkInv, ConnKept, UNCHANGED <<toClient, server, garbled>>,
         DOMAIN task' = DOMAIN task, Shape(task', conn.state), ProxyInv', Dead => Dead',
         PhaseOf(task', conn.state) = PhaseOf(task, conn.state), Due(task') = Due(task),
         task'.out # <<"encryption_response">> \/ joined'
  PROVE  LinkInv'
<1>1. InFlight' = InFlight /\ Stream' = Stream
  BY Zenon, StreamUnchanged DEF ConnKept
<1>2. LinkType'
  BY DEF LinkInv, LinkType, ConnKept
<1>3. ~Dead' => ModeInv'
  BY Zenon, <1>1 DEF LinkInv, ModeInv, Encrypts, ConnKept
<1>4. ~Dead' /\ server.phase # "closed" => SyncInv'
  BY Zenon, <1>1 DEF LinkInv, SyncInv, ConnKept
<1> QED BY <1>2, <1>3, <1>4 DEF LinkInv, ConnKept

\* The same, when the connection does not change at all.
LEMMA LinkProceeds ==
  ASSUME LinkInv, UNCHANGED <<conn, toClient, server, garbled>>,
         DOMAIN task' = DOMAIN task, Shape(task', conn.state), ProxyInv', Dead => Dead',
         PhaseOf(task', conn.state) = PhaseOf(task, conn.state), Due(task') = Due(task),
         task'.out # <<"encryption_response">> \/ joined'
  PROVE  LinkInv'
<1>1. ConnKept
  BY Zenon DEF ConnKept
<1> QED BY Zenon, <1>1, LinkGoesOn

\* A tunnel that is up leads to the handshake.
LEMMA ReachedFacts ==
  ASSUME TaskFields \subseteq DOMAIN task
  PROVE  /\ DOMAIN Reached = DOMAIN task /\ Reached.stage = "Handshake"
         /\ Writes(Reached, <<"set_protocol">>, "login")
<1> DEFINE t == Enter(task, "Handshake")
<1>1. DOMAIN t = DOMAIN task /\ t.stage = "Handshake"
  BY DEF Enter, TaskFields
<1>2. Reached = Send(t, <<"set_protocol">>, "login")
  BY DEF Reached
<1> HIDE DEF t
<1> QED BY <1>1, <1>2, SendFacts

\* On the way to the server, in one of the stages that reach it.
LEMMA LinkReaches ==
  ASSUME LinkInv, task.stage \in {"TcpConnect", "ProxyNegotiate"} \/ task.wait \in Reaching,
         UNCHANGED <<cfg, conn, joined, toClient, server, garbled>>,
         \/ task' = Reached /\ (cfg.proxy = "credentials" => proxied')
         \/ \E w \in Reaching :
              /\ task' = [task EXCEPT !.wait = w] /\ task.stage = "ProxyNegotiate"
              /\ cfg.proxy = "credentials" => proxied' \/ w # "tunnel"
  PROVE  LinkInv'
<1>1. /\ task.stage \in {"TcpConnect", "ProxyNegotiate"} /\ conn.state = "Handshaking"
      /\ task.wait \in Reaching /\ task.out = <<>>
  BY DEF LinkInv, Shape, Configuring, Writes, Serving, Reaching
<1>2. TaskFields \subseteq DOMAIN task
  BY DEF LinkInv, LinkType, TaskFields
<1>3. CASE task' = Reached /\ (cfg.proxy = "credentials" => proxied')
  <2>1. /\ DOMAIN task' = DOMAIN task /\ task'.stage = "Handshake"
        /\ Writes(task', <<"set_protocol">>, "login")
    BY <1>2, <1>3, ReachedFacts
  <2>2. Shape(task', conn.state) /\ task'.out # <<"encryption_response">>
    BY <1>1, <2>1 DEF Shape, Writes
  <2>3. ProxyInv'
    BY <1>3 DEF ProxyInv
  <2>4. Due(task') = Due(task)
    <3>1. Due(task) = <<"set_protocol", "login_start">>
      BY <1>1 DEF Due, Reaching
    <3>2. Due(task') = DueOf(<<"set_protocol">>)
      BY <2>1 DEF Due, Writes, Reaching
    <3> QED BY <3>1, <3>2, DueOfOne
  <2>5. PhaseOf(task', conn.state) = PhaseOf(task, conn.state)
    BY <1>1 DEF PhaseOf
  <2>6. Dead => Dead'
    BY <1>1 DEF Dead
  <2> QED BY Zenon, <2>1, <2>2, <2>3, <2>4, <2>5, <2>6, LinkProceeds
<1>4. ASSUME NEW w \in Reaching, task' = [task EXCEPT !.wait = w], task.stage = "ProxyNegotiate",
             cfg.proxy = "credentials" => proxied' \/ w # "tunnel"
      PROVE  LinkInv'
  <2>1. DOMAIN task' = DOMAIN task /\ task'.stage = "ProxyNegotiate" /\ task'.wait = w /\ task'.out = <<>>
    BY <1>1, <1>2, <1>4 DEF TaskFields
  <2>2. Shape(task', conn.state) /\ task'.out # <<"encryption_response">>
    BY <1>1, <2>1 DEF Shape
  <2>3. ProxyInv'
    BY <1>1, <1>4, <2>1 DEF ProxyInv, Reaching
  <2>4. Due(task') = Due(task)
    BY <1>1, <2>1 DEF Due, Reaching
  <2>5. PhaseOf(task', conn.state) = PhaseOf(task, conn.state)
    BY <1>1 DEF PhaseOf
  <2>6. Dead => Dead'
    BY <1>1 DEF Dead
  <2> QED BY Zenon, <2>1, <2>2, <2>3, <2>4, <2>5, <2>6, LinkProceeds
<1> QED BY <1>3, <1>4

\* ... or not: an error before the handshake.
LEMMA ReachingEnds ==
  ASSUME LinkInv, task.wait \in Reaching, NEW class, task' = Err(task, class),
         UNCHANGED <<cfg, conn, joined, toClient, server, garbled>>
  PROVE  LinkInv'
<1>1. task.stage \in {"TcpConnect", "ProxyNegotiate"} /\ conn.state = "Handshaking"
  BY DEF LinkInv, Shape, Configuring, Writes, Serving, Reaching
<1>2. /\ task'.stage = "Over" /\ DOMAIN task' = DOMAIN task /\ Shape(task', conn'.state)
  BY Zenon, ErrFacts DEF LinkInv, LinkType
<1>3. Dead'
  BY Zenon, <1>1, <1>2 DEF Dead
<1>4. ProxyInv'
  BY <1>1, <1>2 DEF ProxyInv
<1>5. LinkType'
  BY <1>2 DEF LinkInv, LinkType
<1> QED BY Zenon, <1>2, <1>3, <1>4, <1>5 DEF LinkInv

\* Reaching the server, through a proxy or not, keeps the invariant.
LEMMA LinkProxy ==
  ASSUME LinkInv, TcpConnected \/ TcpRefused \/ Proxy
  PROVE  LinkInv'
<1>0. ASSUME task.wait \in {"method", "auth", "tunnel"}
      PROVE  task.stage = "ProxyNegotiate" /\ task.wait \in Reaching
  BY <1>0 DEF LinkInv, Shape, Configuring, Writes, Serving, Reaching
<1>1. CASE TcpConnected
  <2>1. cfg.proxy = "credentials" => proxied
    BY <1>1 DEF TcpConnected, LinkInv, ProxyInv
  <2> QED BY <1>1, <2>1, LinkReaches DEF TcpConnected, Progress
<1>2. CASE TcpRefused
  BY <1>2, ReachingEnds DEF TcpRefused, Progress, Reaching
<1>3. CASE ProxyReached
  <2>1. task.stage = "ProxyNegotiate" /\ task.wait = "tcp" /\ UNCHANGED proxied
        /\ UNCHANGED <<cfg, conn, joined, toClient, server, garbled>>
        /\ \/ \E class : task' = Err(task, class)
           \/ task' = [task EXCEPT !.wait = "method"]
    BY <1>3 DEF ProxyReached, Progress, ProxyErr
  <2>2. CASE \E class : task' = Err(task, class)
    BY <2>1, <2>2, ReachingEnds DEF Reaching
  <2>3. CASE task' = [task EXCEPT !.wait = "method"]
    BY <2>1, <2>3, LinkReaches DEF Reaching
  <2> QED BY <2>1, <2>2, <2>3
<1>4. ASSUME NEW reply \in {"offered", "none", "malformed"}, MethodChosen(reply)
      PROVE  LinkInv'
  <2>1. task.stage = "ProxyNegotiate" /\ task.wait = "method" /\ UNCHANGED proxied
        /\ UNCHANGED <<cfg, conn, joined, toClient, server, garbled>>
    BY <1>0, <1>4 DEF MethodChosen, Progress
  <2>2. \/ \E class : task' = Err(task, class)
        \/ task' = [task EXCEPT !.wait = "auth"]
        \/ task' = [task EXCEPT !.wait = "tunnel"] /\ cfg.proxy # "credentials"
    BY <1>4 DEF MethodChosen, Progress, ProxyErr
  <2>3. CASE \E class : task' = Err(task, class)
    BY <2>1, <2>3, ReachingEnds DEF Reaching
  <2>4. CASE task' = [task EXCEPT !.wait = "auth"]
    BY <2>1, <2>4, LinkReaches DEF Reaching
  <2>5. CASE task' = [task EXCEPT !.wait = "tunnel"] /\ cfg.proxy # "credentials"
    BY <2>1, <2>5, LinkReaches DEF Reaching
  <2> QED BY <2>2, <2>3, <2>4, <2>5
<1>5. ASSUME NEW reply \in {"success", "rejected", "malformed"}, Authenticated(reply)
      PROVE  LinkInv'
  <2>1. task.stage = "ProxyNegotiate" /\ task.wait = "auth" /\ proxied' = (reply = "success")
        /\ UNCHANGED <<cfg, conn, joined, toClient, server, garbled>>
    BY <1>0, <1>5 DEF Authenticated, Progress
  <2>2. \/ \E class : task' = Err(task, class)
        \/ task' = [task EXCEPT !.wait = "tunnel"] /\ reply = "success"
    BY <1>5 DEF Authenticated, Progress, ProxyErr
  <2>3. CASE \E class : task' = Err(task, class)
    BY <2>1, <2>3, ReachingEnds DEF Reaching
  <2>4. CASE task' = [task EXCEPT !.wait = "tunnel"] /\ reply = "success"
    BY Zenon, <2>1, <2>4, LinkReaches DEF Reaching
  <2> QED BY <2>2, <2>3, <2>4
<1>6. ASSUME NEW reply \in Socks5Reply \cup {"Protocol", "Io"}, TunnelReply(reply)
      PROVE  LinkInv'
  <2>1. task.stage = "ProxyNegotiate" /\ task.wait = "tunnel" /\ UNCHANGED proxied
        /\ UNCHANGED <<cfg, conn, joined, toClient, server, garbled>>
        /\ (task' = Reached \/ \E class : task' = Err(task, class))
    BY <1>0, <1>6 DEF TunnelReply, Progress, ProxyErr
  <2>2. cfg.proxy = "credentials" => proxied
    BY <2>1 DEF LinkInv, ProxyInv
  <2>3. CASE task' = Reached
    BY <2>1, <2>2, <2>3, LinkReaches DEF Reaching
  <2>4. CASE \E class : task' = Err(task, class)
    BY <2>1, <2>4, ReachingEnds DEF Reaching
  <2> QED BY <2>1, <2>3, <2>4
<1> QED BY Zenon, <1>1, <1>2, <1>3, <1>4, <1>5, <1>6 DEF Proxy

\* The answer of the session server keeps the invariant.
LEMMA LinkJoins ==
  ASSUME LinkInv, Join
  PROVE  LinkInv'
<1>1. PICK class : JoinReturns(class)
  BY DEF Join
<1>2. /\ task.wait = "join" /\ joined' = (class = "Ok")
      /\ UNCHANGED <<cfg, conn, toClient, server, proxied, garbled>>
      /\ task' = IF class = "Ok" THEN Send(task, <<"encryption_response">>, "encrypt")
                                 ELSE Err(task, class)
  BY Zenon, <1>1 DEF JoinReturns, peerVars
<1>3. task.stage = "Login" /\ conn.state = "Login" /\ task.out = <<>>
  BY <1>2 DEF LinkInv, Shape, Configuring, Writes, Serving, Reaching
<1>4. CASE class = "Ok"
  <2>1. /\ DOMAIN task' = DOMAIN task /\ task'.stage = "Login"
        /\ Writes(task', <<"encryption_response">>, "encrypt")
    BY Zenon, <1>2, <1>3, <1>4, SendFacts DEF LinkInv, LinkType, TaskFields
  <2>2. Shape(task', conn.state)
    BY <1>3, <2>1 DEF Shape
  <2>3. ProxyInv'
    BY Zenon, <1>2, <1>3 DEF LinkInv, ProxyInv
  <2>4. Due(task') = Due(task)
    <3>1. Due(task) = <<"encryption_response">>
      BY <1>2 DEF Due, Reaching
    <3>2. Due(task') = DueOf(<<"encryption_response">>)
      BY <2>1 DEF Due, Writes, Reaching
    <3> QED BY <3>1, <3>2, DueOfOne
  <2>5. PhaseOf(task', conn.state) = PhaseOf(task, conn.state)
    BY <1>3, <2>1 DEF PhaseOf, Writes
  <2>6. Dead => Dead'
    BY <1>2, <1>3 DEF Dead
  <2> QED BY Zenon, <1>2, <1>4, <2>1, <2>2, <2>3, <2>4, <2>5, <2>6, LinkProceeds
<1>5. CASE class # "Ok"
  <2>1. /\ task'.stage = "Over" /\ DOMAIN task' = DOMAIN task /\ Shape(task', conn'.state)
    BY Zenon, <1>2, <1>5, ErrFacts DEF LinkInv, LinkType
  <2>2. Dead'
    BY Zenon, <1>2, <1>3, <2>1 DEF Dead
  <2>3. ProxyInv'
    BY Zenon, <1>2, <1>3 DEF LinkInv, ProxyInv
  <2>4. LinkType'
    BY Zenon, <1>2, <2>1 DEF LinkInv, LinkType
  <2> QED BY Zenon, <1>2, <2>1, <2>2, <2>3, <2>4 DEF LinkInv
<1> QED BY <1>4, <1>5

\* The end of a download keeps the invariant.
LEMMA LinkDownloads ==
  ASSUME LinkInv, Download
  PROVE  LinkInv'
<1>1. PICK outcome \in {"DOWNLOADED", "INVALID_URL", "FAILED_DOWNLOAD"} : Downloaded(outcome)
  BY DEF Download
<1> DEFINE out == IF outcome = "DOWNLOADED" THEN <<"DOWNLOADED", "SUCCESSFULLY_LOADED">>
                                            ELSE <<outcome>>
<1>2. /\ task.wait = "download" /\ task' = Send(task, out, "read")
      /\ UNCHANGED <<cfg, conn, joined, toClient, server, proxied, garbled>>
  BY <1>1 DEF Downloaded, peerVars
<1>3. /\ out \in PackAnswers /\ DueOf(out) = <<"pack_result">>
      /\ out # <<"login_start">> /\ out # <<"encryption_response">>
  BY Zenon, DueOfOne DEF PackAnswers
<1> HIDE DEF out
<1>4. /\ task.out = <<>>
      /\ \/ task.stage \in Configuring /\ conn.state = "Configuration"
         \/ task.stage = "Play" /\ conn.state = "Play"
  BY <1>2 DEF LinkInv, Shape, Configuring, Writes, Serving, Reaching
<1>5. DOMAIN task' = DOMAIN task /\ task'.stage = task.stage /\ Writes(task', out, "read")
  BY Zenon, <1>2, SendFacts DEF LinkInv, LinkType, TaskFields
<1>6. Shape(task', conn.state)
  <2>1. Serving(task')
    BY Zenon, <1>3, <1>5 DEF Serving
  <2> QED BY Zenon, <1>4, <1>5, <2>1 DEF Shape
<1>7. ProxyInv'
  BY Zenon, <1>2, <1>4 DEF LinkInv, ProxyInv
<1>8. Due(task') = Due(task)
  <2>1. Due(task) = <<"pack_result">>
    BY <1>2 DEF Due, Reaching
  <2>2. Due(task') = DueOf(out)
    BY <1>5 DEF Due, Writes, Reaching
  <2> QED BY <1>3, <2>1, <2>2
<1>9. PhaseOf(task', conn.state) = PhaseOf(task, conn.state)
  BY Zenon, <1>4 DEF PhaseOf
<1>10. Dead => Dead'
  BY <1>2, <1>4 DEF Dead, Configuring
<1>11. task'.out # <<"encryption_response">>
  BY <1>3, <1>5 DEF Writes
<1> QED BY Zenon, <1>2, <1>5, <1>6, <1>7, <1>8, <1>9, <1>10, <1>11, LinkProceeds

\* A tick or a command: the play loop goes on reading, or writes play packets.
LEMMA LinkInterrupted ==
  ASSUME LinkInv, NEW t, NEW ticked, Interrupt(t, ticked),
         t = task \/ \E out \in Seq({"play"}) : out # <<>> /\ t = Send(task, out, "read")
  PROVE  LinkInv'
<1>1. /\ task.stage = "Play" /\ task.wait = "read" /\ task' = t
      /\ UNCHANGED <<cfg, conn, joined, toClient, server, proxied, garbled>>
  BY DEF Interrupt, peerVars
<1>2. CASE t = task
  BY <1>1, <1>2, LinkUnchanged DEF LinkVars
<1>3. ASSUME NEW out \in Seq({"play"}), out # <<>>, t = Send(task, out, "read")
      PROVE  LinkInv'
  <2>1. conn.state = "Play"
    BY Zenon, <1>1 DEF LinkInv, Shape, Configuring
  <2>2. DOMAIN task' = DOMAIN task /\ task'.stage = "Play" /\ Writes(task', out, "read")
    BY Zenon, <1>1, <1>3, SendFacts DEF LinkInv, LinkType, TaskFields
  <2>3. Shape(task', conn.state)
    BY <1>3, <2>1, <2>2 DEF Shape, Writes
  <2>4. out[1] = "play"
    BY <1>3
  <2>5. Due(task') = Due(task)
    <3>1. Due(task) = <<>>
      BY <1>1 DEF Due, Reaching
    <3>2. Due(task') = DueOf(out)
      BY <2>2 DEF Due, Writes, Reaching
    <3>3. DueOf(out) = <<>>
      BY <2>4 DEF DueOf
    <3> QED BY <3>1, <3>2, <3>3
  <2>6. PhaseOf(task', conn.state) = PhaseOf(task, conn.state)
    BY <2>1 DEF PhaseOf
  <2>7. Dead => Dead'
    BY Zenon, <1>1 DEF Dead
  <2>8. task'.out # <<"encryption_response">>
    <3>1. out # <<"encryption_response">>
      BY <2>4
    <3> QED BY <2>2, <3>1 DEF Writes
  <2>9. ProxyInv'
    BY <1>1, <2>1 DEF LinkInv, ProxyInv
  <2> QED BY Zenon, <1>1, <2>2, <2>3, <2>5, <2>6, <2>7, <2>8, <2>9, LinkProceeds
<1> QED BY <1>2, <1>3

\* The play loop, run again on the same Connection, keeps the invariant.
LEMMA LinkRunsAgain ==
  ASSUME LinkInv, RunAgain
  PROVE  LinkInv'
<1>1. /\ task.stage = "Over" /\ conn.state = "Play"
      /\ task' = [Enter(task, "Play") EXCEPT !.wait = "read"]
      /\ UNCHANGED <<cfg, conn, joined, toClient, server, proxied, garbled>>
  BY DEF RunAgain, peerVars
<1>2. task.wait = "none" /\ task.out = <<>>
  BY <1>1 DEF LinkInv, Shape, Configuring
<1>3. /\ DOMAIN task' = DOMAIN task /\ task'.stage = "Play" /\ task'.wait = "read" /\ task'.out = <<>>
  BY <1>1, <1>2 DEF Enter, LinkInv, LinkType
<1>4. Shape(task', conn.state) /\ Due(task') = <<>> /\ task'.out # <<"encryption_response">>
  BY Zenon, <1>1, <1>3, WaitsOn
<1>5. Due(task) = <<>>
  BY <1>2 DEF Due, Reaching
<1>6. PhaseOf(task', conn.state) = PhaseOf(task, conn.state)
  BY <1>1 DEF PhaseOf
<1>7. Dead => Dead'
  BY <1>1 DEF Dead
<1>8. ProxyInv'
  BY <1>1 DEF LinkInv, ProxyInv
<1> QED BY Zenon, <1>1, <1>3, <1>4, <1>5, <1>6, <1>7, <1>8, LinkProceeds

\* What is due is in the server's words.
LEMMA DueType ==
  ASSUME LinkInv
  PROVE  Due(task) \in Seq(Words)
<1>1. /\ <<>> \in Seq(Words) /\ <<"set_protocol", "login_start">> \in Seq(Words)
      /\ <<"custom_payload", "settings">> \in Seq(Words)
      /\ \A x \in Words : <<x>> \in Seq(Words)
  BY DEF Words
<1>2. task.wait # "write" => Due(task) \in Seq(Words)
  <2>1. <<"encryption_response">> \in Seq(Words) /\ <<"pack_result">> \in Seq(Words)
    BY Zenon, <1>1 DEF Words
  <2> QED BY <1>1, <2>1 DEF Due, Reaching
<1>3. CASE task.wait = "write"
  <2>0. Due(task) = DueOf(task.out)
    BY <1>3 DEF Due, Reaching
  <2>1. CASE \E r \in Replies \cup {"encryption_response", "login_acknowledged", "finish_configuration",
                            "configuration_acknowledged", "login_start", "settings"} : task.out = <<r>>
    BY Zenon, <1>1, <2>0, <2>1, DueOfOne DEF Replies, Words
  <2>2. CASE task.out \in PackAnswers \cup {<<"ACCEPTED">>}
    <3>1. DueOf(task.out) \in {<<"pack">>, <<"pack_result">>, <<"SUCCESSFULLY_LOADED">>}
      BY <2>2, DueOfOne DEF PackAnswers
    <3>2. {<<"pack">>, <<"pack_result">>, <<"SUCCESSFULLY_LOADED">>} \subseteq Seq(Words)
      BY <1>1 DEF Words
    <3> QED BY Zenon, <2>0, <3>1, <3>2
  <2>3. CASE task.out = <<"custom_payload", "settings">> \/ task.out = <<"set_protocol">>
    BY Zenon, <1>1, <2>0, <2>3, DueOfOne
  <2>4. CASE task.out \in Seq({"play"}) /\ task.out # <<>>
    <3>1. task.out[1] = "play"
      BY <2>4
    <3>2. DueOf(task.out) = <<>>
      BY <3>1 DEF DueOf
    <3> QED BY <1>1, <2>0, <3>2
  <2>5. Serving(task) => \/ \E r \in Replies : task.out = <<r>>
                        \/ task.out \in PackAnswers \cup {<<"ACCEPTED">>}
    BY <1>3 DEF Serving, Writes
  <2>6. Shape(task, conn.state)
    BY Zenon DEF LinkInv
  <2>7. \/ Serving(task)
        \/ task.out \in Seq({"play"}) /\ task.out # <<>>
        \/ task.out = <<"custom_payload", "settings">> \/ task.out = <<"set_protocol">>
        \/ \E r \in {"encryption_response", "login_acknowledged", "finish_configuration", "plugin_response",
                     "configuration_acknowledged", "login_start", "settings"} : task.out = <<r>>
    BY <1>3, <2>6 DEF Shape, Writes, Reaching
  <2> QED BY <2>1, <2>2, <2>3, <2>4, <2>5, <2>7 DEF Replies
<1> QED BY <1>2, <1>3

-----------------------------------------------------------------------------
(* The server sends, or goes away.                                         *)

\* By the state of the Connection, the answers the server waits for.
LEMMA StopDue ==
  ASSUME NEW t, NEW state, Shape(t, state), Due(t) \in StopAnswers
  PROVE  /\ state = "Configuration" => Due(t) = <<"finish_configuration">>
         /\ state = "Play" => Due(t) = <<"configuration_acknowledged">>
<1>0. t.wait \notin {"none", "read", "download"} /\ t.wait \notin Reaching
  BY Zenon DEF Due, StopAnswers, Reaching
<1>1. CASE t.wait = "join"
  BY <1>0, <1>1 DEF Shape, Serving, Writes
<1>2. CASE t.wait = "write"
  <2>0. Due(t) = DueOf(t.out)
    BY Zenon, <1>2 DEF Due, Reaching
  <2>1. CASE \E r \in Replies : Writes(t, <<r>>, "read")
    BY <2>0, <2>1, DueOfOne DEF Writes, Replies, StopAnswers
  <2>2. CASE (\E out \in PackAnswers : Writes(t, out, "read")) \/ Writes(t, <<"ACCEPTED">>, "download")
    BY <2>0, <2>2, DueOfOne DEF Writes, PackAnswers, StopAnswers
  <2>3. CASE Writes(t, <<"custom_payload", "settings">>, "read") \/ Writes(t, <<"settings">>, "read")
    BY <2>0, <2>3, DueOfOne DEF Writes, StopAnswers
  <2>4. CASE t.out \in Seq({"play"}) /\ t.out # <<>>
    <3>1. t.out[1] = "play"
      BY <2>4
    <3>2. DueOf(t.out) = <<>>
      BY Zenon, <3>1 DEF DueOf
    <3> QED BY <2>0, <3>2 DEF StopAnswers
  <2>5. CASE Writes(t, <<"finish_configuration">>, "play") /\ state = "Configuration"
    BY Zenon, <2>0, <2>5, DueOfOne DEF Writes
  <2>6. CASE Writes(t, <<"configuration_acknowledged">>, "reconfigure") /\ state = "Play"
    BY Zenon, <2>0, <2>6, DueOfOne DEF Writes
  <2> QED BY Zenon, <1>0, <1>2, <2>1, <2>2, <2>3, <2>4, <2>5, <2>6 DEF Shape, Serving
<1>3. t.wait \in {"read", "download", "join", "write", "none"} \cup Reaching
  BY DEF Shape, Serving, Writes
<1> QED BY <1>0, <1>1, <1>2, <1>3

\* A frame that stops the server is owed its answer.
LEMMA StopperIsOwed ==
  ASSUME NEW n \in Nat, NEW S, NEW c, NEW due \in Seq(Words), NEW owed \in Seq(Words),
         Counts(n, S, c, due, owed), NEW i \in 1..n, S[i].kind \in Stoppers
  PROVE  \E k \in 1..Len(owed) : owed[k] = Obliges(S[i].kind)[1]
<1> DEFINE kind == S[i].kind
<1>0. kind \in Stoppers
  BY Zenon
<1>1. Obliges(kind) # <<>>
  <2> HIDE DEF kind
  <2> QED BY <1>0, Obligations DEF Stoppers
<1>2. c[i] = c[i - 1] + 1 /\ owed[c[i]] = Obliges(S[i].kind)[1]
  BY <1>1 DEF Counts
<1>3. i - 1 \in 0..n /\ i \in 0..n /\ n \in 0..n /\ i <= n
  OBVIOUS
<1>4. c[i - 1] \in Nat /\ c[i] \in Nat /\ c[i] <= c[n] /\ c[n] = Len(owed)
  BY Zenon, <1>3 DEF Counts
<1>5. c[i] \in 1..Len(owed)
  BY <1>2, <1>4
<1> QED BY Zenon, <1>2, <1>5

\* A server that may send has no stopper on its way, and waits for no answer.
LEMMA MaySendFacts ==
  ASSUME LinkInv, SyncInv, NEW kind, MaySend(kind)
  PROVE  /\ \A i \in 1..InFlight : Stream[i].kind \notin Stoppers
         /\ Due(task) \notin StopAnswers
         /\ kind = "compress" => server.owed = <<>>
         /\ kind \in KindsOf(server.phase)
         /\ server.phase = "login" => server.owed \in {<<>>, <<"plugin_response">>}
         /\ kind \in {"encryption_begin", "authenticate"} =>
              server.owed = <<>> /\ server.phase = "login" /\ ~server.enc
<1>1. /\ server.phase \in {"login", "configuration", "play"}
      /\ server.phase = "login" => server.owed \in {<<>>, <<"plugin_response">>}
      /\ server.phase = "configuration" => ~Owes("finish_configuration")
      /\ server.phase = "play" => ~Owes("configuration_acknowledged")
      /\ kind = "compress" => server.owed = <<>>
      /\ kind \in {"encryption_begin", "authenticate"} =>
              server.owed = <<>> /\ server.phase = "login" /\ ~server.enc
  BY DEF MaySend
<1>2. kind \in KindsOf(server.phase)
  BY Zenon DEF MaySend, KindsOf
<1>3. PICK c : Counts(InFlight, Stream, c, Due(task), server.owed)
  BY Zenon DEF SyncInv
<1>4. InFlight \in Nat /\ server.owed \in Seq(Words) /\ Due(task) \in Seq(Words)
  BY Zenon, StreamType, DueType DEF LinkInv, LinkType
<1>5. ASSUME NEW k \in 1..Len(server.owed), NEW x, server.owed[k] = x,
             x \in {"encryption_response", "login_acknowledged", "finish_configuration",
                    "configuration_acknowledged"},
             server.phase = "configuration" => x = "finish_configuration",
             server.phase = "play" => x = "configuration_acknowledged"
      PROVE  FALSE
  <2>1. CASE server.phase = "login"
    <3>1. server.owed = <<"plugin_response">> \/ server.owed = <<>>
      BY <1>1, <2>1
    <3>2. server.owed = <<"plugin_response">> => x = "plugin_response"
      BY <1>5
    <3>3. server.owed # <<>>
      BY <1>5
    <3> QED BY Zenon, <1>5, <3>1, <3>2, <3>3
  <2>2. CASE server.phase \in {"configuration", "play"}
    BY Zenon, <1>1, <1>5, <2>2 DEF Owes
  <2> QED BY Zenon, <1>1, <2>1, <2>2
<1>6. ASSUME NEW i \in 1..InFlight, Stream[i].kind \in Stoppers
      PROVE  FALSE
  <2> DEFINE k == Stream[i].kind
  <2>1. k \in KindsOf(server.phase) /\ k \in Stoppers
    BY Zenon, <1>6 DEF SyncInv
  <2>2. \E j \in 1..Len(server.owed) : server.owed[j] = Obliges(k)[1]
    BY <1>3, <1>4, <1>6, StopperIsOwed
  <2> HIDE DEF k
  <2>3. /\ Obliges(k)[1] \in {"encryption_response", "login_acknowledged", "finish_configuration",
                    "configuration_acknowledged"}
        /\ server.phase = "configuration" => Obliges(k)[1] = "finish_configuration"
        /\ server.phase = "play" => Obliges(k)[1] = "configuration_acknowledged"
    BY <2>1, Obligations DEF Stoppers, KindsOf
  <2> QED BY <1>5, <2>2, <2>3
<1>7. ASSUME Due(task) \in StopAnswers
      PROVE  FALSE
  <2> DEFINE d == Due(task)
  <2>1. /\ conn.state = "Configuration" => d = <<"finish_configuration">>
        /\ conn.state = "Play" => d = <<"configuration_acknowledged">>
    BY <1>7, StopDue DEF LinkInv
  <2>2. d \in StopAnswers /\ d \in Seq(Words)
    BY Zenon, <1>4, <1>7
  <2>3. Len(d) <= Len(server.owed) /\ (d # <<>> => server.owed # <<>> /\ server.owed[1] = d[1])
    BY <1>3, <1>4, DueFirst
  <2>4. /\ server.phase = "configuration" => conn.state = "Configuration"
        /\ server.phase = "play" => conn.state = "Play"
    <3>1. server.phase = PhaseOf(task, conn.state)
      BY DEF SyncInv
    <3>2. conn.state \in {"Handshaking", "Login", "Configuration", "Play"}
      BY <1>7 DEF LinkInv, Shape, StopAnswers, Due, Reaching
    <3> QED BY Zenon, <3>1, <3>2 DEF PhaseOf
  <2> HIDE DEF d
  <2>5. /\ d # <<>> /\ Len(d) = 1
        /\ d[1] \in {"encryption_response", "login_acknowledged", "finish_configuration",
                    "configuration_acknowledged"}
        /\ server.phase = "configuration" => d[1] = "finish_configuration"
        /\ server.phase = "play" => d[1] = "configuration_acknowledged"
    BY <2>1, <2>2, <2>4 DEF StopAnswers
  <2>6. 1 \in 1..Len(server.owed) /\ server.owed[1] = d[1]
    BY <1>4, <2>3, <2>5
  <2> QED BY <1>5, <2>5, <2>6
<1> QED BY <1>1, <1>2, <1>6, <1>7

\* What the server sends keeps the invariant.
LEMMA LinkServerSends ==
  ASSUME LinkInv, NEW kind \in ServerKinds, ServerSends(kind)
  PROVE  LinkInv'
<1> DEFINE f == [kind |-> kind, enc |-> server.enc, comp |-> server.comp]
           owed == server.owed \o Obliges(kind)
<1>1. /\ MaySend(kind) /\ toClient' = Append(toClient, f)
      /\ server' = [server EXCEPT
                  !.owed = @ \o Obliges(kind),
                  !.comp = @ \/ kind = "compress",
                  !.checks = @ \/ kind = "authenticate",
                  !.phase = IF kind = "disconnect" THEN "closed" ELSE @,
                  !.sent = IF server.phase = "play" /\ kind # "data"
                             THEN @ + 1 ELSE @]
      /\ UNCHANGED <<cfg, task, conn, joined, proxied, garbled>>
  BY DEF ServerSends
<1>2. /\ server'.owed = owed /\ server'.comp = (server.comp \/ kind = "compress")
      /\ server'.checks = (server.checks \/ kind = "authenticate")
      /\ server'.phase = IF kind = "disconnect" THEN "closed" ELSE server.phase
      /\ server'.enc = server.enc /\ server'.confused = server.confused
      /\ DOMAIN server' = DOMAIN server
  BY <1>1 DEF LinkInv, LinkType
<1>3. LinkType
  BY Zenon DEF LinkInv
<1>4. /\ f \in Sent /\ f.kind = kind /\ f.enc = server.enc /\ f.comp = server.comp
      /\ Frame(f) = [kind |-> kind, comp |-> server.comp]
  BY Zenon, <1>3 DEF LinkType, Sent, Frame
<1>5. owed \in Seq(Words)
  BY <1>3, ObligesOne, Concatenated DEF LinkType
<1> HIDE DEF f, owed
<1>6. LinkType'
  <2>1. toClient' \in Seq(Sent)
    BY <1>1, <1>3, <1>4 DEF LinkType
  <2> QED BY Zenon, <1>1, <1>2, <1>3, <1>5, <2>1 DEF LinkType
<1>7. Dead' = Dead /\ Shape(task', conn'.state)
  BY <1>1 DEF Dead, LinkInv
<1>8. ProxyInv'
  BY <1>1 DEF LinkInv, ProxyInv
<1>9. InFlight \in Nat /\ InFlight' = InFlight + 1 /\ Stream' = Grown(InFlight, Stream, Frame(f))
  BY <1>1, <1>3, StreamGrows, StreamType
<1>10. ASSUME ~Dead
       PROVE  ModeInv'
  <2>1. ModeInv
    BY <1>10 DEF LinkInv
  <2>2. Encrypts'
    <3>1. toClient \in Seq(Sent) /\ Len(toClient) \in Nat
      BY <1>3 DEF LinkType
    <3>2. \A i \in 1..Len(toClient') : toClient'[i] = f \/ (i \in 1..Len(toClient) /\ toClient'[i] = toClient[i])
      BY <1>1, <3>1
    <3> QED BY <1>1, <1>2, <1>4, <2>1, <3>2 DEF ModeInv, Encrypts
  <2>3. Comps(InFlight + 1, Grown(InFlight, Stream, Frame(f)), conn.threshold,
              server.comp \/ kind = "compress")
    BY Zenon, <1>3, <1>4, <1>9, <2>1, CompsGrow DEF ModeInv, LinkType
  <2> QED BY <1>1, <1>2, <1>9, <2>2, <2>3 DEF ModeInv
<1>11. ASSUME ~Dead, server'.phase # "closed"
       PROVE  SyncInv'
  <2>0. kind # "disconnect" /\ server'.phase = server.phase /\ server.phase # "closed"
    BY <1>2, <1>11
  <2>1. SyncInv
    BY <1>11, <2>0 DEF LinkInv
  <2>2. /\ \A i \in 1..InFlight : Stream[i].kind \notin Stoppers
        /\ Due(task) \notin StopAnswers
        /\ kind = "compress" => server.owed = <<>>
        /\ kind \in KindsOf(server.phase)
        /\ server.phase = "login" => server.owed \in {<<>>, <<"plugin_response">>}
        /\ kind \in {"encryption_begin", "authenticate"} =>
             server.owed = <<>> /\ server.phase = "login" /\ ~server.enc
    BY Zenon, <1>1, <2>1, MaySendFacts
  <2>3. Frame(f).kind = kind
    BY <1>4, FrameFacts
  <2>4. \A i \in 1..(InFlight + 1) :
          \/ i \in 1..InFlight /\ Stream'[i] = Stream[i]
          \/ i = InFlight + 1 /\ Stream'[i].kind = kind
    BY <1>9, <2>3 DEF Grown
  <2>5. \E d : Counts(InFlight', Stream', d, Due(task'), server'.owed)
    <3>1. PICK c : Counts(InFlight, Stream, c, Due(task), server.owed)
      BY <2>1 DEF SyncInv
    <3>2. Due(task) \in Seq(Words) /\ server.owed \in Seq(Words)
      BY <1>3, DueType DEF LinkType
    <3>3. \E d : Counts(InFlight + 1, Grown(InFlight, Stream, Frame(f)), d, Due(task),
                        server.owed \o Obliges(Frame(f).kind))
      BY Zenon, <1>9, <2>2, <2>3, <3>1, <3>2, CountsGrow
    <3> QED BY Zenon, <1>1, <1>2, <1>9, <2>3, <3>3 DEF owed
  <2>6. ~(server.checks /\ ~server.enc)
    <3>1. server.checks /\ ~server.enc =>
            server.owed = <<"encryption_response">> /\ server.phase = "login"
      BY <2>1 DEF SyncInv
    <3>2. <<"encryption_response">> \notin {<<>>, <<"plugin_response">>}
      OBVIOUS
    <3> QED BY Zenon, <2>2, <3>1, <3>2
  <2>7. server'.checks /\ ~server'.enc =>
          server'.owed = <<"encryption_response">> /\ server'.phase = "login"
    <3>1. CASE kind = "authenticate"
      <4>1. owed = <<>> \o <<"encryption_response">>
        BY Zenon, <2>2, <3>1, Obligations DEF owed
      <4>2. <<>> \o <<"encryption_response">> = <<"encryption_response">>
        OBVIOUS
      <4> QED BY Zenon, <1>2, <2>0, <2>2, <3>1, <4>1, <4>2
    <3>2. CASE kind # "authenticate"
      BY Zenon, <1>2, <2>6, <3>2
    <3> QED BY <3>1, <3>2
  <2>8. \A i \in 1..InFlight' : Stream'[i].kind \in KindsOf(server'.phase)
    BY Zenon, <1>9, <2>0, <2>1, <2>2, <2>4 DEF SyncInv
  <2>9. \A i \in 1..InFlight' : Stream'[i].kind = "encryption_begin" => ~server'.checks
    <3>1. \A i \in 1..InFlight : Stream[i].kind # "encryption_begin"
      BY <2>2 DEF Stoppers
    <3>2. kind = "encryption_begin" => ~server'.checks
      BY Zenon, <1>2, <2>2, <2>6
    <3> QED BY Zenon, <1>9, <2>4, <3>1, <3>2
  <2>10. ~(task.wait = "write" /\ task.out = <<"encryption_response">>)
    <3>1. task.wait = "write" /\ task.out = <<"encryption_response">> =>
            Due(task) = DueOf(<<"encryption_response">>)
      BY DEF Due, Reaching
    <3>2. DueOf(<<"encryption_response">>) = <<"encryption_response">>
      BY DueOfOne
    <3> QED BY <2>2, <3>1, <3>2 DEF StopAnswers
  <2>11. server'.phase = PhaseOf(task', conn'.state)
    BY <1>1, <2>0, <2>1 DEF SyncInv
  <2> QED BY Zenon, <1>1, <2>5, <2>7, <2>8, <2>9, <2>10, <2>11 DEF SyncInv
<1> QED BY <1>1, <1>2, <1>6, <1>7, <1>8, <1>10, <1>11 DEF LinkInv

\* A server that closes keeps the invariant.
LEMMA LinkServerCloses ==
  ASSUME LinkInv, ServerCloses
  PROVE  LinkInv'
<1>1. /\ server' = [server EXCEPT !.phase = "closed"]
      /\ UNCHANGED <<cfg, task, conn, joined, toClient, proxied, garbled>>
  BY DEF ServerCloses
<1>2. /\ server'.phase = "closed" /\ server'.owed = server.owed /\ server'.comp = server.comp
      /\ server'.enc = server.enc /\ server'.confused = server.confused
      /\ DOMAIN server' = DOMAIN server
  BY <1>1 DEF LinkInv, LinkType
<1>3. InFlight' = InFlight /\ Stream' = Stream
  BY <1>1, StreamUnchanged
<1>4. LinkType' /\ ProxyInv' /\ Dead' = Dead
  BY <1>1, <1>2 DEF LinkInv, LinkType, ProxyInv, Dead
<1>5. ~Dead => ModeInv'
  BY <1>1, <1>2, <1>3 DEF LinkInv, ModeInv, Encrypts
<1> QED BY <1>1, <1>2, <1>4, <1>5 DEF LinkInv
=============================================================================
