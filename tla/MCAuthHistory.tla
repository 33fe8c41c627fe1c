---------------------------- MODULE MCAuthHistory ----------------------------
(* Small instances of AuthHistory.  Views drop what neither a guard nor a   *)
(* property of the run reads: for the sessions the history and some audit   *)
(* rows, for the accounts all audit rows, mails without a token and what a  *)
(* session row says.                                                        *)
EXTENDS AuthHistory, MCAuth

Taken == {s \in SessionId : sessions[s].state # "none"}
Tokens == {m \in mail : m[2] # None}
AccountView == <<registered, users, devices, Taken, Tokens, req,
                 strikes, redeemed, overlapped>>
=============================================================================
