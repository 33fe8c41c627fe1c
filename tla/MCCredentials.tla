---------------------------- MODULE MCCredentials ----------------------------
(* Small instances of Credentials: names of two services, a stranger, a login form. *)
EXTENDS Credentials, TLC

CONSTANTS web, mail, unknown, form, other, h1, h2

Tcp80 == [layers |-> {"IP", "TCP"}, src |-> h1, dst |-> h2, sport |-> 40, dport |-> 80,
          flags |-> {}, size |-> 1, mac |-> None, isReply |-> FALSE, query |-> None,
          rdata |-> None, method |-> "POST", fields |-> {form}]
Dns(name) == [Tcp80 EXCEPT !.layers = {"IP", "UDP", "DNS", "DNSQR"}, !.isReply = TRUE,
                           !.query = name, !.method = None]

MCPacket == {Tcp80, [Tcp80 EXCEPT !.fields = {other}], [Tcp80 EXCEPT !.dport = 443],
             Dns(web), Dns(mail), Dns(unknown),
             [Dns(web) EXCEPT !.isReply = FALSE]}
MCName == {web, mail, unknown}
MCServiceOf == [n \in MCName |-> IF n = unknown THEN None ELSE n]
MCCredentialField == {form}
MCPageLimit == {-1, 0, 2}
Symmetry == Permutations(Sniffer)
=============================================================================
