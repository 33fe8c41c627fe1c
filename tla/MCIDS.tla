------------------------------- MODULE MCIDS -------------------------------
EXTENDS IDSHistory, TLC

CONSTANTS h1, h2, h3, m1, m2, a1, a2, dom

Base == [layers |-> {"IP", "TCP"}, src |-> h1, dst |-> h2, sport |-> 40, dport |-> 22,
         flags |-> {"SYN"}, size |-> 1, mac |-> m1, isReply |-> FALSE,
         query |-> None, rdata |-> None]
Syn(dst, port) == [Base EXCEPT !.dst = dst, !.dport = port]
TcpWith(flags) == [Base EXCEPT !.flags = flags]
Udp == [Base EXCEPT !.layers = {"IP", "UDP"}, !.flags = {}]
Icmp == [Base EXCEPT !.layers = {"IP", "ICMP"}, !.size = 0]
Arp(mac) == [Base EXCEPT !.layers = {"ARP"}, !.mac = mac, !.size = 0]
Dns(ip) == [Udp EXCEPT !.layers = {"IP", "UDP", "DNS", "DNSQR", "DNSRR"}, !.isReply = TRUE,
                       !.query = dom, !.rdata = ip, !.size = 0]

\* Connections to two hosts and two ports, one a service's
ScanPackets == {Syn(h2, 22), Syn(h3, 80)}
\* Datagrams, bare flags and address announcements
OtherPackets == {Udp, Icmp, TcpWith({"RST"}), TcpWith({"FIN"}), TcpWith({"FIN", "PSH", "URG"}),
                 Arp(m1), Arp(m2), [Base EXCEPT !.flags = {}, !.dport = 4444]}
\* Two answers for one name
MCPacket == ScanPackets \cup OtherPackets \cup {Dns(a1), Dns(a2)}

MCEvent == {EventOf(p) : p \in MCPacket} \ {None}

MCWindow == [d \in Windowed |-> 1]
MCThreshold == [d \in Windowed \cup {"ping_flood"} |-> IF d = "bandwidth_abuse" THEN 3 ELSE 2]
=============================================================================
