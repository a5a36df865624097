-------------------------- MODULE MCRelayFirewall --------------------------
(***************************************************************************)
(* Instances of RelayFirewall for TLC: an application that opens a TCP or  *)
(* a QUIC connection, and the resolver netd.                               *)
(***************************************************************************)
EXTENDS RelayFirewall

CONSTANTS browser, netd, unknown, otherIp, dnsIp, goodHost, otherHost, file

Conn(uid, ip, dns, quic) == [uid |-> uid, ip |-> ip, dns |-> dns, quic |-> quic]

QuicTuple == {Conn(browser, otherIp, FALSE, TRUE)}
TcpTuples == {Conn(browser, otherIp, FALSE, FALSE), Conn(netd, dnsIp, TRUE, FALSE)}

NoVersions  == <<>>
OneVersion  == <<[f \in {file} |-> {goodHost, dnsIp}]>>
TwoVersions == [v \in 1..2 |-> [f \in Files |-> {}]]
TrustApp    == {{browser}}
BlockHost   == {{otherHost}}
BlockAny    == {{}, {otherHost}, {browser}}
AllowNone   == {{}}
=============================================================================
