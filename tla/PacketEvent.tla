----------------------------- MODULE PacketEvent -----------------------------
(***************************************************************************)
(* packet_to_event (app/services/packet_capture.py): the event dictionary   *)
(* the sniffer makes of a packet.  A packet is a record of its layers and   *)
(* the fields read from them; None stands for what is absent.               *)
(***************************************************************************)
CONSTANT None

NoEvent == [proto |-> None, src |-> None, dst |-> None, sport |-> None, dport |-> None,
            flags |-> {}, failed |-> FALSE, size |-> 0, mac |-> None,
            query |-> None, answer |-> None]

\* Only a reply with a question section is DNS; other datagrams are UDP.
DnsReply(p) == {"DNS", "DNSQR"} \subseteq p.layers /\ p.isReply

EventOf(p) ==
  LET common == [NoEvent EXCEPT !.src = p.src, !.dst = p.dst, !.size = p.size, !.mac = p.mac]
      ports == [common EXCEPT !.sport = p.sport, !.dport = p.dport]
  IN
  IF p.layers \cap {"IP", "ARP"} = {} THEN None
  ELSE IF "ARP" \in p.layers THEN [common EXCEPT !.proto = "ARP"]
  ELSE IF "TCP" \in p.layers
       THEN [ports EXCEPT !.proto = "TCP", !.flags = p.flags, !.failed = "RST" \in p.flags]
  ELSE IF "UDP" \in p.layers
       THEN IF DnsReply(p)
            THEN [ports EXCEPT !.proto = "DNS", !.query = p.query,
                               !.answer = IF "DNSRR" \in p.layers THEN p.rdata ELSE None]
            ELSE [ports EXCEPT !.proto = "UDP"]
  ELSE IF "ICMP" \in p.layers THEN [common EXCEPT !.proto = "ICMP"]
  ELSE [common EXCEPT !.proto = "OTHER"]
=============================================================================
