------------------------------- MODULE Socks5 -------------------------------
(***************************************************************************)
(* The handshake of a connection with a SOCKS5 proxy (socks5.c): what is   *)
(* done with the len bytes that one recv returned.  The replies of a proxy *)
(* are: its choice (2 bytes), its answer to the password (2), the head of  *)
(* the reply to the request (4), the address it bound (Bnd), then data of  *)
(* the server.  An answer is sent only after what it answers.              *)
(***************************************************************************)
EXTENDS Naturals

CONSTANTS
    Bnd,       \* length of the bound address and port (6 or 18)
    Password   \* the proxy asks for a password, and the client has one

ASSUME SocksAssumption == Bnd \in Nat \ {0} /\ Password \in BOOLEAN

Phases    == {"off", "hello", "auth", "connecting", "skip", "established", "failed"}
Handshake == [phase : Phases, skip : 0..Bnd]
NoProxy   == [phase |-> "off", skip |-> 0]
Failed    == [phase |-> "failed", skip |-> 0]

\* socks5_connect, socks5_auth, socks5_req: a request is sent
Asked(phase) == [phase |-> phase, skip |-> 0]

InProgress(s) == s.phase \in {"hello", "auth", "connecting", "skip"}

\* The bytes the proxy may have sent by the time the handshake is in phase s
ReplyLength(data) == 6 + (IF Password THEN 2 ELSE 0) + Bnd + data
Sent(s, data) ==
    CASE s.phase = "hello"      -> 2
      [] s.phase = "auth"       -> 4
      [] s.phase = "off"        -> 0
      [] OTHER                  -> ReplyLength(data)

\* Mutant: what comes with the end of the address is dropped.
SkipBndAll(s, len) ==
    IF len < s.skip THEN [phase |-> "skip", skip |-> s.skip - len]
    ELSE [phase |-> "established", skip |-> 0]

\* The bytes of a bound address are skipped, in as many pieces as they come.
SkipBnd(s, len) ==
    IF len > s.skip THEN Failed
    ELSE [phase |-> IF len = s.skip THEN "established" ELSE "skip", skip |-> s.skip - len]

\* handle_socks5_reply; granted: the status of the proxy's reply
Replied(s, len, granted) ==
    CASE s.phase = "hello" ->
             IF len # 2 THEN Failed ELSE Asked(IF Password THEN "auth" ELSE "connecting")
      [] s.phase = "auth" ->
             IF len < 2 THEN Failed ELSE Asked("connecting")
      [] s.phase = "connecting" ->
             IF len < 4 \/ ~granted THEN Failed
             ELSE IF len > 4 THEN SkipBnd([phase |-> "skip", skip |-> Bnd], len - 4)
             ELSE [phase |-> "skip", skip |-> Bnd]
      [] s.phase = "skip" -> SkipBnd(s, len)
      [] OTHER -> Failed
=============================================================================
