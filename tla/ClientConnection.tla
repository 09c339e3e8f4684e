-------------------------- MODULE ClientConnection --------------------------
(***************************************************************************)
(* The greeter's end of a connection and the thread that serves it         *)
(* (server/socket_nss.rs, server/client_protocol.rs): accept, handshake,   *)
(* one frame at a time, one response per request, and the cleanup that     *)
(* disconnects.  While a login runs the thread is inside it and reads no   *)
(* frame except as the answer to a PAM prompt.                             *)
(***************************************************************************)
EXTENDS LoginState

Active == {c \in Conns : conn[c].pc \notin {"none", "gone"}}

-----------------------------------------------------------------------------
\* ConnectionCleanup: transactions::disconnect drops the connection's
\* PreCommit entries and keeps the Committed ones.
Disconnect(c, t) ==
    /\ conn' = [conn EXCEPT ![c].pc = "gone", ![c].req = 0, ![c].user = NoOne,
                            ![c].result = "none"]
    /\ table' = [k \in DOMAIN table |->
                    IF k[1] = c /\ t[k] = "PreCommit" THEN "none" ELSE t[k]]

\* write_response, with the table as the request left it; a response that
\* cannot be written ends the connection.
Respond(c, t) ==
    \/ /\ conn' = [conn EXCEPT ![c].pc = "idle", ![c].req = 0, ![c].user = NoOne,
                      ![c].result = "none",
                      ![c].requests = IF conn[c].req = 0 THEN @ + 1 ELSE @]
       /\ table' = t
    \/ Disconnect(c, t)

\* run and the start of handle_client: ACTIVE_CONNECTIONS is raised and
\* lowered again above the limit; peer credentials and the handshake frame
\* are checked before the connection has an authority.
Accept(c) ==
    /\ conn[c].pc = "none"
    /\ \/ /\ Cardinality(Active) < MaxConnections
          /\ Goto(c, "idle")
       \/ Goto(c, "gone")
    /\ UNCHANGED HandlerVars /\ UNCHANGED LaunchVars

\* transactions::begin and handle_login_with_conversation
BeginLogin(c, f) ==
    LET id == conn[c].requests + 1 IN
    /\ conn' = [conn EXCEPT ![c].pc = "check", ![c].req = id, ![c].user = f.user,
                            ![c].requests = id]
    /\ table' = [table EXCEPT ![<<c, id>>] = "PreCommit"]

\* transactions::cancel: the entry goes whatever its state; only a
\* PreCommit entry would be reported as cancelled.
Cancel(c, f) == Respond(c, [table EXCEPT ![<<c, f.target>>] = "none"])

\* One turn of handle_client's loop.  A PAM answer nobody asked for is not a
\* request envelope; it closes the connection like any other bad frame.
ReadFrame(c) ==
    /\ conn[c].pc = "idle"
    /\ \E f \in Frames :
          \/ f.type \in {"bad", "answer"} /\ Disconnect(c, table)
          \/ /\ conn[c].requests < MaxRequests
             /\ \/ f.type = "login" /\ BeginLogin(c, f)
                \/ f.type = "cancel" /\ Cancel(c, f)
                \/ f.type = "status" /\ Respond(c, table)
    /\ UNCHANGED limiter /\ UNCHANGED LaunchVars

EndOfFile(c) ==
    /\ conn[c].pc = "idle"
    /\ Disconnect(c, table)
    /\ UNCHANGED limiter /\ UNCHANGED LaunchVars
=============================================================================
