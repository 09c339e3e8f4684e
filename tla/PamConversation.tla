--------------------------- MODULE PamConversation ---------------------------
(***************************************************************************)
(* The PAM conversation of a login, over three parties: the worker's       *)
(* driver, which asks and blocks on its control channel; the launcher,     *)
(* whose authority numbers the prompts and checks the answers; and the     *)
(* greeter, whose next frame, whatever it is, is read as the answer.       *)
(* An answer is known by its request and its sequence number; the other    *)
(* identities both sides compare are constants of one login.               *)
(***************************************************************************)
EXTENDS LoginState

\* WorkerPamConversationDriver::respond: number the prompt, write it, wait.
WorkerAsks ==
    /\ wk.pc = "pam" /\ wk.out = "none" /\ wk.sequence < MaxPrompts
    /\ wk' = [wk EXCEPT !.pc = "asking", !.out = "prompt", !.sequence = @ + 1]
    /\ UNCHANGED <<conn, seat, tx, control>>
    /\ UNCHANGED HandlerVars

\* The answer the driver was waiting for goes to PAM; any other makes the
\* conversation fail, and PAM with it.
WorkerTakesAnswer ==
    /\ wk.pc = "asking" /\ control # NoAnswer
    /\ wk' = IF control.sequence = wk.sequence
             THEN [wk EXCEPT !.pc = "pam"]
             ELSE [wk EXCEPT !.pc = "exiting", !.out = "AuthenticationFailed"]
    /\ control' = NoAnswer
    /\ UNCHANGED <<conn, seat, tx>>
    /\ UNCHANGED HandlerVars

\* PAM's verdict, and what the launch made of it.
WorkerResponds ==
    /\ wk.pc = "pam" /\ wk.out = "none"
    /\ \E r \in Verdicts \union {"Started"} :
          wk' = [wk EXCEPT !.out = r, !.pc = IF r = "Started" THEN "running" ELSE "exiting"]
    /\ UNCHANGED <<conn, seat, tx, control>>
    /\ UNCHANGED HandlerVars

WorkerExits ==
    /\ wk.pc = "exiting"
    /\ wk' = [wk EXCEPT !.pc = "dead"]
    /\ UNCHANGED <<conn, seat, tx, control>>
    /\ UNCHANGED HandlerVars

WorkerDies ==
    /\ wk.pc \in {"pam", "asking", "running"} /\ seat.state # "session"
    /\ wk' = [wk EXCEPT !.pc = "dead"]
    /\ UNCHANGED <<conn, seat, tx, control>>
    /\ UNCHANGED HandlerVars

-----------------------------------------------------------------------------
Expired == tx.consumed \/ tx.late

\* accept_wire_prompt
AcceptsPrompt == ~Expired /\ wk.sequence = tx.next /\ tx.pending = 0

\* Mutant: the wait for a worker's response has no deadline and does not
\* see the end of the worker's output.
AwaitEventForever(c) ==
    /\ conn[c].pc = "await"
    /\ \/ /\ wk.out = "prompt" /\ AcceptsPrompt
          /\ Goto(c, "roundTrip")
          /\ tx' = [tx EXCEPT !.next = @ + 1, !.pending = wk.sequence]
          /\ wk' = [wk EXCEPT !.out = "none"]
       \/ wk.out = "Started" /\ Goto(c, "promote") /\ UNCHANGED <<tx, wk>>
       \/ wk.out \in Verdicts /\ Goto(c, "waitExit") /\ UNCHANGED <<tx, wk>>
    /\ UNCHANGED <<seat, control>> /\ UNCHANGED HandlerVars

\* One event of wait_launch_response.  The end of the worker's output is a
\* protocol error; the deadline, which is looked at first, kills the worker.
AwaitEvent(c) ==
    /\ conn[c].pc = "await"
    /\ \/ /\ wk.out = "prompt" /\ AcceptsPrompt
          /\ Goto(c, "roundTrip")
          /\ tx' = [tx EXCEPT !.next = @ + 1, !.pending = wk.sequence]
          /\ wk' = [wk EXCEPT !.out = "none"]
       \/ /\ wk.out = "prompt" /\ ~AcceptsPrompt
          /\ Goto(c, "join")
          /\ tx' = [tx EXCEPT !.consumed = @ \/ tx.late]
          /\ UNCHANGED wk
       \/ /\ wk.out = "Started" /\ Goto(c, "promote") /\ UNCHANGED <<tx, wk>>
       \/ /\ wk.out \in Verdicts /\ Goto(c, "waitExit") /\ UNCHANGED <<tx, wk>>
       \/ /\ wk.out = "none" /\ wk.pc = "dead"
          /\ Goto(c, "join") /\ UNCHANGED <<tx, wk>>
       \/ tx.late /\ Goto(c, "recover") /\ UNCHANGED <<tx, wk>>
    /\ UNCHANGED <<seat, control>> /\ UNCHANGED HandlerVars

\* The comparison of forward_pam_prompt and accept_wire_response: a PAM
\* answer to this login's pending prompt.
Answers(c, f) ==
    f.type = "answer" /\ f.id = conn[c].req /\ f.sequence = tx.pending

\* The prompt is answered; the answer of a dead worker cannot be written,
\* and a frame that is no answer is a protocol error.
Answered(c, f) ==
    /\ wk.pc # "dead"
    /\ Goto(c, "await")
    /\ tx' = [tx EXCEPT !.pending = 0]
    /\ control' = [id |-> f.id, sequence |-> f.sequence]

Unwritten(c) == wk.pc = "dead" /\ Goto(c, "recover") /\ UNCHANGED <<tx, control>>

Refused(c) ==
    /\ Goto(c, "join")
    /\ tx' = [tx EXCEPT !.consumed = @ \/ tx.late]
    /\ UNCHANGED control

\* Mutant: any PAM answer is taken for the pending prompt.
RoundTripAnyAnswer(c) ==
    /\ conn[c].pc = "roundTrip"
    /\ \E f \in Frames :
       IF ~Expired /\ f.type = "answer" THEN Answered(c, f) \/ Unwritten(c) ELSE Refused(c)
    /\ UNCHANGED <<seat, wk>> /\ UNCHANGED HandlerVars

\* Mutant: a cancel frame read here is honoured while the login runs.
RoundTripCancels(c) ==
    /\ conn[c].pc = "roundTrip"
    /\ Goto(c, "recover")
    /\ table' = [table EXCEPT ![<<c, conn[c].req>>] = "none"]
    /\ UNCHANGED limiter /\ UNCHANGED LaunchVars

\* forward_pam_prompt: the next frame of the connection is read, with no
\* read timeout, and must be the answer; the deadline is checked after it.
RoundTrip(c) ==
    /\ conn[c].pc = "roundTrip"
    /\ \E f \in Frames :
       IF ~Expired /\ Answers(c, f) THEN Answered(c, f) \/ Unwritten(c) ELSE Refused(c)
    /\ UNCHANGED <<seat, wk>> /\ UNCHANGED HandlerVars

\* The greeter is gone: the prompt cannot be written or the read ends, an
\* I/O error, for which the worker is killed.
RoundTripEnds(c) ==
    /\ conn[c].pc = "roundTrip"
    /\ Goto(c, "recover")
    /\ UNCHANGED LaunchVars /\ UNCHANGED HandlerVars

WorkerStep == WorkerAsks \/ WorkerTakesAnswer \/ WorkerResponds \/ WorkerExits
=============================================================================
