------------------------------- MODULE MCAuth -------------------------------
(* Small instances of Auth: the rows and the threads are interchangeable.   *)
(* Audit rows, mails and what a session row says tell two states apart only *)
(* where a guard or a property of the run reads them.                       *)
EXTENDS Auth, TLC

Symmetry == Permutations(Worker) \cup Permutations(SessionId)

Looked == {row \in audit : \/ row[1] \in {"login", "new_device_login"}
                           \/ row[1] = "logout" /\ row[3] # None}
View == <<registered, users, devices, sessions, issued, mail, Looked, req>>
=============================================================================
