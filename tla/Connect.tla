------------------------------- MODULE Connect -------------------------------
(***************************************************************************)
(* A connection from Client::connect to the end of Client::run: the TCP    *)
(* connection or the SOCKS5 tunnel, handshake, login with encryption and   *)
(* compression, configuration, the packet stream of the play loop, and     *)
(* reconfiguration in its middle. A frame carries the mode it was written  *)
(* in. Incoming bytes are decrypted as they are read from the socket and   *)
(* decompressed when a frame is decoded, so a frame may be read in one     *)
(* mode and decoded in another.                                            *)
(*                                                                         *)
(* The server and the proxy are external: they follow the protocol, answer *)
(* in any way it allows, wait for the answers they need before they change *)
(* the mode, and may kick the client or go away at any moment. The server  *)
(* takes a frame when it is written: what it does before it has read one   *)
(* is what it may do if the client writes that frame later.                *)
(***************************************************************************)
EXTENDS Naturals, Sequences

CONSTANTS
  Configs,                  \* the ClientConfigs to connect with
  ServerKinds,              \* the packets the server sends
  MaxLoginPackets,          \* MAX_LOGIN_PACKETS
  MaxConfigurationPackets,  \* MAX_CONFIGURATION_PACKETS
  ReadTimeout,              \* DEFAULT_READ_TIMEOUT, in steps of the clock
  MaxInFlight,              \* bound: frames on the way to the client
  MaxPlayPackets,           \* bound: frames the server sends while playing
  MaxPlaySends,             \* bound: frames the play loop sends by itself
  MaxFaults                 \* bound: kicks, closes, bad packets, write timeouts

VARIABLES
  cfg,       \* the ClientConfig
  task,      \* connect_stages or run_play: its stage, what it awaits, the
             \* frames its handler still writes and what follows them, the
             \* packets this stage has read, its result
  conn,      \* the Connection
  joined,    \* the session server knows of the join
  clock,     \* of the play loop: how long its read has waited, how long the
             \* server has been silent, whether a tick is due
  toClient,  \* external: frames in the socket, to the client
  server,    \* external: the server's side of the connection
  proxied,   \* external: the proxy has accepted our credentials
  garbled,   \* history: a frame was not decoded in the mode it was written in
  sends,     \* history, for MaxPlaySends
  faults     \* history, for MaxFaults

peerVars == <<toClient, server, proxied>>
connectVars == <<cfg, task, conn, joined, clock, peerVars, garbled, sends,
                 faults>>

Connecting == {"TcpConnect", "ProxyNegotiate", "Handshake", "Login",
               "Configuration"}

\* run_configuration, in connect_stages and in run_play.
Configuring == {"Configuration", "Reconfiguration"}

\* long_credentials and long_target: a field over SOCKS5's 255 bytes.
Config == [proxy : {"none", "open", "credentials", "long_credentials", "long_target"},
           premium : BOOLEAN, accept : BOOLEAN, valid : BOOLEAN]

\* A client before connect, and the server it is about to meet.
ConnectInit ==
  /\ cfg \in Configs
  /\ task = [stage |-> IF cfg.proxy = "none" THEN "TcpConnect"
                                             ELSE "ProxyNegotiate",
             wait |-> "tcp", out |-> <<>>, then |-> "read", packets |-> 0,
             result |-> "Pending"]
  /\ conn = [state |-> "Handshaking", cipher |-> FALSE, threshold |-> FALSE,
             failed |-> FALSE, buf |-> <<>>, half |-> "none"]
  /\ server = [phase |-> "handshaking", enc |-> FALSE, comp |-> FALSE,
               owed |-> <<"set_protocol", "login_start">>, checks |-> FALSE,
               cut |-> FALSE, mixed |-> FALSE, confused |-> FALSE, sent |-> 0]
  /\ faults = 0

\* A client after connect, directly and without encryption or compression,
\* and a server that will not fail it.
ConnectedInit ==
  /\ cfg = [proxy |-> "none", premium |-> FALSE, accept |-> FALSE,
            valid |-> TRUE]
  /\ task = [stage |-> "Play", wait |-> "read", out |-> <<>>, then |-> "play",
             packets |-> 0, result |-> "Ok"]
  /\ conn = [state |-> "Play", cipher |-> FALSE, threshold |-> FALSE,
             failed |-> FALSE, buf |-> <<>>, half |-> "none"]
  /\ server = [phase |-> "play", enc |-> FALSE, comp |-> FALSE, owed |-> <<>>,
               checks |-> FALSE, cut |-> FALSE, mixed |-> FALSE,
               confused |-> FALSE, sent |-> 0]
  /\ faults = MaxFaults

IdleInit ==
  /\ joined = FALSE
  /\ clock = [idle |-> 0, silence |-> 0, due |-> FALSE]
  /\ toClient = <<>>
  /\ proxied = FALSE
  /\ garbled = FALSE
  /\ sends = 0

-----------------------------------------------------------------------------
(* External: what the server makes of a frame.                             *)

ClientConfiguration == <<"custom_payload", "settings">>

Meets(expected, kind) ==
  \/ expected = kind
  \/ expected = "pack" /\ kind \in {"ACCEPTED", "DECLINED"}
  \/ /\ expected = "pack_result"
     /\ kind \in {"DOWNLOADED", "INVALID_URL", "FAILED_DOWNLOAD"}

\* What is still expected once kind has met its expectation.
Outstanding(kind) ==
  CASE kind = "ACCEPTED" -> <<"pack_result">>
    [] kind = "DOWNLOADED" -> <<"SUCCESSFULLY_LOADED">>
    [] kind \in {"login_acknowledged", "configuration_acknowledged"} ->
         ClientConfiguration
    [] OTHER -> <<>>

PhaseAfter(kind) ==
  CASE kind = "login_start" -> "login"
    [] kind \in {"login_acknowledged", "configuration_acknowledged"} ->
         "configuration"
    [] kind = "finish_configuration" -> "play"
    [] OTHER -> server.phase

\* A frame the server can read and, in its phase, expects.
Expected(kind) ==
  /\ conn.cipher = server.enc /\ conn.threshold = server.comp
  /\ \/ kind = "play" /\ server.phase = "play"
     \/ server.owed # <<>> /\ Meets(Head(server.owed), kind)
  /\ kind = "encryption_response" /\ server.checks => joined

Taken(kind) ==
  IF server.cut THEN [server EXCEPT !.mixed = TRUE]
  ELSE IF ~Expected(kind) THEN [server EXCEPT !.confused = TRUE]
  ELSE IF kind = "play" THEN server
  ELSE [server EXCEPT !.phase = PhaseAfter(kind),
                      !.enc = @ \/ kind = "encryption_response",
                      !.owed = Outstanding(kind) \o Tail(@)]

-----------------------------------------------------------------------------
(* The task: returning, awaiting, writing.                                 *)

\* connect_stages or run_play returns the error, of which the RetryClass
\* matters.
Err(t, class) ==
  [t EXCEPT !.stage = "Over", !.wait = "none", !.out = <<>>, !.result = class]

Send(t, kinds, next) ==
  [t EXCEPT !.wait = "write", !.out = kinds, !.then = next]

\* The loops of login and run_configuration read a bounded number of packets.
ReadOn(t) ==
  IF \/ t.stage = "Login" /\ t.packets >= MaxLoginPackets
     \/ t.stage \in Configuring /\ t.packets >= MaxConfigurationPackets
    THEN Err(t, "ProtocolIncompatible")
    ELSE [t EXCEPT !.wait = "read"]

Enter(t, stage) == [t EXCEPT !.stage = stage, !.packets = 0]

\* What follows the frames of a handler.
Continue(t) ==
  CASE t.then \in {"read", "encrypt"} -> ReadOn(t)
    [] t.then = "download" -> [t EXCEPT !.wait = "download"]
    [] t.then = "login" ->
         IF cfg.premium \/ cfg.valid
           THEN Send(Enter(t, "Login"), <<"login_start">>, "read")
           ELSE Err(t, "ProtocolIncompatible")
    [] t.then = "configure" ->
         Send(Enter(t, "Configuration"), ClientConfiguration, "read")
    [] t.then = "reconfigure" ->
         Send(Enter(t, "Reconfiguration"), ClientConfiguration, "read")
    [] t.then = "play" ->
         [Enter(t, "Play") EXCEPT !.wait = "read", !.result = "Ok"]

StateAfter(t) ==
  CASE t.then = "login" -> "Login"
    [] t.then \in {"configure", "reconfigure"} -> "Configuration"
    [] t.then = "play" -> "Play"
    [] OTHER -> conn.state

\* send_packet: the frame is written whole; after the last one the handler
\* goes on. enable_encryption comes after the response.
WriteFrame ==
  /\ task.wait = "write"
  /\ ~conn.failed /\ server.phase # "closed"
  /\ server' = Taken(Head(task.out))
  /\ IF Len(task.out) > 1
       THEN task' = [task EXCEPT !.out = Tail(@)] /\ UNCHANGED conn
       ELSE /\ task' = Continue([task EXCEPT !.out = <<>>])
            /\ conn' = [conn EXCEPT !.state = StateAfter(task),
                                    !.cipher = @ \/ task.then = "encrypt"]
  /\ UNCHANGED <<cfg, joined, clock, toClient, proxied, garbled, sends, faults>>

WriteTimesOut_NotPoisoned ==
  /\ task.wait = "write"
  /\ ~conn.failed
  /\ faults < MaxFaults /\ faults' = faults + 1
  /\ \E part \in BOOLEAN : server' = [server EXCEPT !.cut = part]
  /\ task' = Err(task, "Transient")
  /\ UNCHANGED <<cfg, conn, joined, clock, toClient, proxied, garbled, sends>>

\* The write timeout: a part of the frame may be in the socket.
WriteTimesOut ==
  /\ task.wait = "write"
  /\ ~conn.failed
  /\ faults < MaxFaults /\ faults' = faults + 1
  /\ \E part \in BOOLEAN : server' = [server EXCEPT !.cut = part]
  /\ conn' = [conn EXCEPT !.failed = TRUE]
  /\ task' = Err(task, "Transient")
  /\ UNCHANGED <<cfg, joined, clock, toClient, proxied, garbled, sends>>

Return(class) ==
  /\ task' = Err(task, class)
  /\ UNCHANGED <<cfg, conn, joined, clock, peerVars, sends, faults>>

\* check_not_failed, or an I/O error of the socket.
WriteRefused ==
  /\ task.wait = "write"
  /\ conn.failed \/ server.phase = "closed"
  /\ Return("Transient")
  /\ UNCHANGED garbled

-----------------------------------------------------------------------------
(* read_packet.                                                            *)

\* The bytes of one socket read: n frames, and perhaps a part of the next.
Arrives(n) ==
  [i \in 1..n |->
     [kind |-> toClient[i].kind, comp |-> toClient[i].comp,
      plain |-> /\ toClient[i].enc = conn.cipher
                /\ i = 1 => conn.half # "bad"]]

Part(n, more) ==
  IF more THEN IF toClient[n + 1].enc = conn.cipher THEN "good" ELSE "bad"
          ELSE "none"

ReadChunk ==
  /\ task.wait = "read" /\ conn.buf = <<>> /\ ~conn.failed
  /\ \E n \in 0..Len(toClient), more \in BOOLEAN :
       /\ n > 0 \/ more
       /\ more => n < Len(toClient) /\ (n > 0 \/ conn.half = "none")
       /\ conn' = [conn EXCEPT !.buf = Arrives(n), !.half = Part(n, more)]
       /\ toClient' = SubSeq(toClient, n + 1, Len(toClient))
  /\ clock' = [clock EXCEPT !.idle = 0, !.silence = 0]
  /\ UNCHANGED <<cfg, task, joined, server, proxied, garbled, sends,
                 faults>>

ReadRefused_EndIsNoError ==
  /\ task.wait = "read"
  /\ conn.failed
  /\ Return("Transient")
  /\ UNCHANGED garbled

\* check_not_failed, or the peer has closed and everything is read.
ReadRefused ==
  /\ task.wait = "read"
  /\ \/ conn.failed
     \/ server.phase = "closed" /\ toClient = <<>> /\ conn.buf = <<>>
  /\ Return("Transient")
  /\ UNCHANGED garbled

\* try_decode of a frame that was not written in the mode it is read in.
Misread ==
  /\ task.wait = "read" /\ ~conn.failed
  /\ conn.buf # <<>>
  /\ ~Head(conn.buf).plain \/ Head(conn.buf).comp # conn.threshold
  /\ garbled' = TRUE
  /\ Return("ProtocolIncompatible")

\* A packet of the given kind is decoded in one of the given stages.
Receive(stages, kind) ==
  /\ task.stage \in stages /\ task.wait = "read" /\ ~conn.failed
  /\ conn.buf # <<>>
  /\ Head(conn.buf).kind = kind
  /\ Head(conn.buf).plain /\ Head(conn.buf).comp = conn.threshold

\* ... and the handler goes on to t.
Handle(t) ==
  /\ task' = t
  /\ conn' = [conn EXCEPT !.buf = Tail(@)]
  /\ clock' = [clock EXCEPT !.idle = 0]
  /\ UNCHANGED <<cfg, joined, peerVars, garbled, sends, faults>>

Counted == [task EXCEPT !.packets = IF task.stage = "Play" THEN 0 ELSE @ + 1]

-----------------------------------------------------------------------------
(* Reaching the server: directly, or through the SOCKS5 proxy.             *)

\* The TCP connection, or the tunnel, is there: handshake::send.
Reached ==
  Send(Enter(task, "Handshake"), <<"set_protocol">>, "login")

Progress(t) ==
  /\ task' = t
  /\ UNCHANGED <<cfg, conn, joined, clock, toClient, server, garbled,
                 sends, faults>>

\* Socks5Reply and how its codes are to be retried.
Socks5Reply ==
  {"Succeeded", "GeneralFailure", "NotAllowedByRuleset", "NetworkUnreachable",
   "HostUnreachable", "ConnectionRefused", "TtlExpired", "CommandNotSupported",
   "AddressTypeNotSupported", "Unknown"}

ReplyClass(reply) ==
  CASE reply = "NotAllowedByRuleset" -> "ServerRejected"
    [] reply \in {"CommandNotSupported", "AddressTypeNotSupported", "Unknown"} ->
         "ProtocolIncompatible"
    [] OTHER -> "Transient"

\* ProxySocks5Error::retry_class, for the errors that carry no reply.
ProxyErrorClass(error) ==
  CASE error \in {"ProxyConnect", "Io", "Timeout"} -> "Transient"
    [] error \in {"NoAcceptableAuthMethod", "AuthenticationRejected", "FieldTooLong"} ->
         "AuthFailure"
    [] error \in {"TargetTooLong", "Protocol"} -> "ProtocolIncompatible"

ProxyErr(error) == Err(task, ProxyErrorClass(error))

TcpConnected ==
  /\ task.stage = "TcpConnect" /\ task.wait = "tcp"
  /\ Progress(Reached)
  /\ UNCHANGED proxied

TcpRefused ==
  /\ task.stage \in {"TcpConnect", "ProxyNegotiate"} /\ task.wait = "tcp"
  /\ Progress(Err(task, "Transient"))
  /\ UNCHANGED proxied

\* The proxy accepts the connection: fields that do not fit are refused
\* before a byte is written, then one method is offered.
ProxyReached ==
  /\ task.stage = "ProxyNegotiate" /\ task.wait = "tcp"
  /\ Progress(CASE cfg.proxy = "long_credentials" -> ProxyErr("FieldTooLong")
                [] cfg.proxy = "long_target" -> ProxyErr("TargetTooLong")
                [] OTHER -> [task EXCEPT !.wait = "method"])
  /\ UNCHANGED proxied

MethodChosen_AnyMethod(reply) ==
  /\ task.wait = "method"
  /\ Progress([task EXCEPT !.wait = IF /\ cfg.proxy = "credentials"
                                       /\ reply = "offered"
                                      THEN "auth" ELSE "tunnel"])
  /\ UNCHANGED proxied

MethodChosen(reply) ==
  /\ task.wait = "method"
  /\ Progress(CASE reply = "none" -> ProxyErr("NoAcceptableAuthMethod")
                [] reply = "malformed" -> ProxyErr("Protocol")
                [] reply = "offered" ->
                     [task EXCEPT !.wait = IF cfg.proxy = "credentials"
                                             THEN "auth" ELSE "tunnel"])
  /\ UNCHANGED proxied

Authenticated(reply) ==
  /\ task.wait = "auth"
  /\ proxied' = (reply = "success")
  /\ Progress(CASE reply = "success" -> [task EXCEPT !.wait = "tunnel"]
                [] reply = "rejected" -> ProxyErr("AuthenticationRejected")
                [] reply = "malformed" -> ProxyErr("Protocol"))

\* The CONNECT reply, one that is malformed, or the end of the stream.
TunnelReply(reply) ==
  /\ task.wait = "tunnel"
  /\ Progress(CASE reply = "Succeeded" -> Reached
                [] reply \in Socks5Reply \ {"Succeeded"} -> Err(task, ReplyClass(reply))
                [] reply \in {"Protocol", "Io"} -> ProxyErr(reply))
  /\ UNCHANGED proxied

Proxy ==
  \/ ProxyReached
  \/ \E reply \in {"offered", "none", "malformed"} : MethodChosen(reply)
  \/ \E reply \in {"success", "rejected", "malformed"} : Authenticated(reply)
  \/ \E reply \in Socks5Reply \cup {"Protocol", "Io"} : TunnelReply(reply)

-----------------------------------------------------------------------------
(* login() and run_configuration(), one action per packet.                 *)

Kicked ==
  /\ Receive({"Login"} \cup Configuring \cup {"Play"}, "disconnect")
  /\ Handle(Err(task, "ServerRejected"))

EncryptionRequest ==
  /\ Receive({"Login"}, "encryption_begin")
  /\ Handle(Send(Counted, <<"encryption_response">>, "encrypt"))

\* should_authenticate: the session server hears of us first.
AuthenticationRequest ==
  /\ Receive({"Login"}, "authenticate")
  /\ Handle(IF cfg.premium THEN [Counted EXCEPT !.wait = "join"]
                           ELSE Err(task, "ProtocolIncompatible"))

JoinReturns(class) ==
  /\ task.wait = "join"
  /\ joined' = (class = "Ok")
  /\ task' = IF class = "Ok"
               THEN Send(task, <<"encryption_response">>, "encrypt")
               ELSE Err(task, class)
  /\ UNCHANGED <<cfg, conn, clock, peerVars, garbled, sends, faults>>

LoginSuccess ==
  /\ Receive({"Login"}, "success")
  /\ Handle(Send(task, <<"login_acknowledged">>, "configure"))

SetCompression ==
  /\ Receive({"Login"}, "compress")
  /\ task' = ReadOn(Counted)
  /\ conn' = [conn EXCEPT !.buf = Tail(@), !.threshold = TRUE]
  /\ clock' = [clock EXCEPT !.idle = 0]
  /\ UNCHANGED <<cfg, joined, peerVars, garbled, sends, faults>>

\* Packets that are answered by one of ours and change nothing else.
Answers ==
  [plugin_request |-> "plugin_response", keep_alive |-> "keep_alive",
   ping |-> "pong", select_known_packs |-> "select_known_packs"]

AnswerPacket(kind) ==
  /\ Receive(CASE kind = "plugin_request" -> {"Login"}
               [] kind = "select_known_packs" -> Configuring
               [] OTHER -> Configuring \cup {"Play"}, kind)
  /\ Handle(Send(Counted, <<Answers[kind]>>, "read"))

\* Registry data, and packets that are not for us or, being optional, are
\* ignored when they cannot be decoded. What other packets say to a session
\* is in Session.
IgnoredPacket ==
  /\ Receive(Configuring \cup {"Play"}, "data")
  /\ Handle(ReadOn(Counted))

\* A packet that login(), store_registry() or the play loop cannot take.
BadPacket ==
  /\ Receive({"Login"} \cup Configuring \cup {"Play"}, "bad")
  /\ Handle(Err(task, "ProtocolIncompatible"))

FinishConfiguration ==
  /\ Receive(Configuring, "finish_configuration")
  /\ Handle(Send(task, <<"finish_configuration">>, "play"))

\* handle_offer.
PackOffered ==
  /\ Receive(Configuring \cup {"Play"}, "add_resource_pack")
  /\ Handle(IF cfg.accept THEN Send(Counted, <<"ACCEPTED">>, "download")
                          ELSE Send(Counted, <<"DECLINED">>, "read"))

Downloaded(outcome) ==
  /\ task.wait = "download"
  /\ task' = Send(task, IF outcome = "DOWNLOADED"
                          THEN <<"DOWNLOADED", "SUCCESSFULLY_LOADED">>
                          ELSE <<outcome>>, "read")
  /\ UNCHANGED <<cfg, conn, joined, clock, peerVars, garbled, sends,
                 faults>>

Download ==
  \E outcome \in {"DOWNLOADED", "INVALID_URL", "FAILED_DOWNLOAD"} :
    Downloaded(outcome)

-----------------------------------------------------------------------------
(* The play loop.                                                          *)

StartConfiguration ==
  /\ Receive({"Play"}, "start_configuration")
  /\ Handle(Send(task, <<"configuration_acknowledged">>, "reconfigure"))

\* A tick or a command wins the select!: the pending read_packet is dropped
\* with its timer, the bytes it has read stay in read_buf. Its handler goes
\* on to t.
Interrupt_LosesTheBytes(t, ticked) ==
  /\ task.stage = "Play" /\ task.wait = "read"
  /\ conn.buf = <<>> /\ ~conn.failed
  /\ task' = t
  /\ conn' = [conn EXCEPT !.half = IF @ = "none" THEN @ ELSE "bad"]
  /\ clock' = [clock EXCEPT !.idle = 0, !.due = @ /\ ~ticked]
  /\ UNCHANGED <<cfg, joined, peerVars, garbled, faults>>

Interrupt(t, ticked) ==
  /\ task.stage = "Play" /\ task.wait = "read"
  /\ conn.buf = <<>> /\ ~conn.failed
  /\ task' = t
  /\ clock' = [clock EXCEPT !.idle = 0, !.due = @ /\ ~ticked]
  /\ UNCHANGED <<cfg, conn, joined, peerVars, garbled, faults>>

\* A command that sends a packet.
PlaySend ==
  /\ sends < MaxPlaySends /\ sends' = sends + 1
  /\ Interrupt(Send(task, <<"play">>, "read"), FALSE)

\* Client::run is called again on a connection that is still in play.
RunAgain ==
  /\ task.stage = "Over" /\ conn.state = "Play"
  /\ task' = [Enter(task, "Play") EXCEPT !.wait = "read"]
  /\ clock' = [clock EXCEPT !.idle = 0, !.due = FALSE]
  /\ UNCHANGED <<cfg, conn, joined, peerVars, garbled, sends, faults>>

-----------------------------------------------------------------------------
(* Time. How long a wait has lasted matters where waits are restarted: in   *)
(* the select! of the play loop. Elsewhere a wait may last long enough.     *)

Clock ==
  /\ task.stage = "Play" /\ task.wait = "read"
  /\ ~clock.due /\ clock.idle < ReadTimeout
  /\ clock' = [idle |-> clock.idle + 1,
               silence |-> IF clock.silence <= ReadTimeout
                             THEN clock.silence + 1 ELSE clock.silence,
               due |-> TRUE]
  /\ UNCHANGED <<cfg, task, conn, joined, peerVars, garbled, sends, faults>>

\* The timeout of a read, or of one of the steps of reaching the server. The
\* one of a download is a FAILED_DOWNLOAD; the join has none.
TimesOut ==
  /\ task.wait \in {"tcp", "method", "auth", "tunnel", "read"}
  /\ conn.buf = <<>>
  /\ task.stage = "Play" => clock.idle >= ReadTimeout
  /\ Return("Transient")
  /\ UNCHANGED garbled

\* connect_deadline, around all of connect_stages.
DeadlinePasses ==
  /\ task.stage \in Connecting
  /\ Return("Transient")
  /\ UNCHANGED garbled

-----------------------------------------------------------------------------
(* External: what the server sends.                                        *)

\* What each packet obliges the client to send.
Obliges(kind) ==
  CASE kind \in DOMAIN Answers -> <<Answers[kind]>>
    [] kind \in {"encryption_begin", "authenticate"} -> <<"encryption_response">>
    [] kind = "success" -> <<"login_acknowledged">>
    [] kind = "finish_configuration" -> <<"finish_configuration">>
    [] kind = "start_configuration" -> <<"configuration_acknowledged">>
    [] kind = "add_resource_pack" -> <<"pack">>
    [] OTHER -> <<>>

Owes(answer) == \E i \in 1..Len(server.owed) : server.owed[i] = answer

\* The packets of each phase: what changes the mode or the phase waits until
\* nothing is owed, and the packets of the next phase for its answer.
MaySend(kind) ==
  CASE server.phase = "login" ->
         \/ kind = "plugin_request" /\ server.owed \in {<<>>, <<"plugin_response">>}
         \/ /\ kind \in {"encryption_begin", "authenticate"}
            /\ server.owed = <<>> /\ ~server.enc /\ ~server.comp
         \/ kind = "compress" /\ server.owed = <<>> /\ ~server.comp
         \/ kind \in {"success", "bad", "disconnect"} /\ server.owed = <<>>
    [] server.phase = "configuration" ->
         /\ kind \in {"keep_alive", "ping", "select_known_packs", "data", "bad",
                      "add_resource_pack", "finish_configuration", "disconnect"}
         /\ ~Owes("finish_configuration")
    [] server.phase = "play" ->
         /\ kind \in {"keep_alive", "ping", "data", "bad", "add_resource_pack",
                      "start_configuration", "disconnect"}
         /\ kind = "data" \/ server.sent < MaxPlayPackets
         /\ ~Owes("configuration_acknowledged")
    [] OTHER -> FALSE

Fault(kind) == kind \in {"bad", "disconnect"}

ServerSends(kind) ==
  /\ Len(toClient) < MaxInFlight
  /\ MaySend(kind) /\ ~server.confused
  /\ Fault(kind) => faults < MaxFaults
  /\ faults' = IF Fault(kind) THEN faults + 1 ELSE faults
  /\ toClient' = Append(toClient, [kind |-> kind, enc |-> server.enc,
                                   comp |-> server.comp])
  /\ server' = [server EXCEPT
                  !.owed = @ \o Obliges(kind),
                  !.comp = @ \/ kind = "compress",
                  !.checks = @ \/ kind = "authenticate",
                  !.phase = IF kind = "disconnect" THEN "closed" ELSE @,
                  !.sent = IF server.phase = "play" /\ kind # "data"
                             THEN @ + 1 ELSE @]
  /\ UNCHANGED <<cfg, task, conn, joined, clock, proxied, garbled, sends>>

ServerCloses ==
  /\ server.phase # "closed"
  /\ faults < MaxFaults /\ faults' = faults + 1
  /\ server' = [server EXCEPT !.phase = "closed"]
  /\ UNCHANGED <<cfg, task, conn, joined, clock, toClient, proxied, garbled,
                 sends>>

-----------------------------------------------------------------------------
Writing == WriteFrame \/ WriteTimesOut \/ WriteRefused

Reading == ReadChunk \/ ReadRefused \/ Misread

Packets ==
  \/ Kicked \/ EncryptionRequest \/ AuthenticationRequest \/ LoginSuccess
  \/ SetCompression \/ IgnoredPacket \/ BadPacket \/ FinishConfiguration
  \/ PackOffered \/ StartConfiguration
  \/ \E kind \in DOMAIN Answers : AnswerPacket(kind)

Join ==
  \E class \in {"Ok", "AuthFailure", "Transient"} : JoinReturns(class)

\* What the client does as soon as it is scheduled.
Client == Writing \/ Reading \/ Packets

\* Everything but the ticks and the commands of the play loop.
Connection ==
  \/ Client \/ TcpConnected \/ TcpRefused \/ Proxy \/ Join \/ Download
  \/ TimesOut \/ DeadlinePasses

-----------------------------------------------------------------------------
(* Properties.                                                             *)

\* Every frame the client sends is one that its peer, in the phase and the
\* mode it has reached, expects: the handshake's order, the encryption
\* response in the clear and after the join, the acknowledgement before
\* anything of the next state, no play packet once start_configuration is
\* acknowledged, the resource-pack statuses in vanilla's order; and a tunnel
\* with credentials is only used once the proxy has accepted them
\* (connect_stages, login, run_configuration, handle_offer, run_play,
\* negotiate).
PeerExpectsIt ==
  /\ ~server.confused
  /\ cfg.proxy = "credentials" /\ conn.state # "Handshaking" => proxied

\* Every frame is decoded in the mode it was written in, although several
\* frames, and parts of them, are read from the socket at once and before the
\* handler of the one in front has changed the mode, and although a tick of
\* the play loop drops a read that is half done (read_packet, set_compression,
\* enable_encryption, the select! of run_play).
ReadAsWritten == ~garbled

\* Nothing follows a frame of which only a part may have been written, not
\* even when Client::run is called again (write_failed, check_not_failed).
NothingFollowsAPart == ~server.mixed

\* Once the server has kicked the client or gone away, connect or run returns,
\* whatever the task was waiting for (read_packet, send_packet, the timeouts
\* of handle_offer, connect_deadline).  A closed connection stays closed.
EndIsNoticed ==
  /\ [][server.phase = "closed" => server'.phase = "closed"]_connectVars
  /\ []<>(server.phase = "closed" => task.stage = "Over")

\* A server that has not sent a byte for longer than the read timeout, while
\* the client waits for it, does not keep its session (read_packet's timeout).
SilenceIsNoticed == clock.silence <= ReadTimeout
=============================================================================
