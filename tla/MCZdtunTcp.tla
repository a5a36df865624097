---------------------------- MODULE MCZdtunTcp ----------------------------
(***************************************************************************)
(* Instances of ZdtunTcp for TLC: what the environment may do in each run. *)
(* A behaviour that makes the code break one property is switched off in   *)
(* the run that checks this property; the README tells of them.            *)
(***************************************************************************)
EXTENDS ZdtunTcp

\* The streams of bytes.  FINs with data, retransmissions and servers that talk
\* before the SYN+ACK break them; an idle, stopped or urgent connection is only
\* closed, which the run "close" looks at.
AllowStreams ==
    Behaviours \ {"fin_with_data", "retransmit", "early_server",
                  "idle", "stop", "urgent"}

\* The end of a connection: every path on which the client is told of it.  A
\* socket that cannot be opened leaves the connection closed without its callback
\* (zdtun.c:1176), a RST that cannot be written calls it twice (zdtun.c:486), and
\* a connect that fails at once is not understood by the client (zdtun.c:1251).
AllowClose ==
    Behaviours \ {"early_server", "open_error", "connect_error", "send_error"}

\* Progress: the ends behave, though either may give up
AllowLive ==
    {"server_reset", "refused", "client_reset", "keepalive"}
=============================================================================
