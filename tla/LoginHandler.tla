---------------------------- MODULE LoginHandler ----------------------------
(***************************************************************************)
(* DaemonHandler's login request (handler/login.rs, rate_limit.rs,         *)
(* transactions.rs): the rate limit is read before the login and written   *)
(* after it, each time under its own short lock, and the transaction table *)
(* is updated last.                                                        *)
(***************************************************************************)
EXTENDS ClientConnection

LimiterIdle == [attempts |-> 0, cool |-> FALSE]

\* is_limited: a user at the limit is let in, and forgotten, once the
\* cooldown since the last failure is over.
AtLimit(u) == limiter[u].attempts >= MaxAttempts

\* Mutant: one failure more than max_attempts is let through.
CheckRateLimitOffByOne(c) ==
    /\ conn[c].pc = "check"
    /\ LET u == conn[c].user IN
       IF limiter[u].attempts > MaxAttempts /\ ~limiter[u].cool
       THEN Return(c, "finish", "LoginFailed") /\ UNCHANGED limiter
       ELSE Goto(c, "reserve") /\ UNCHANGED limiter
    /\ UNCHANGED table /\ UNCHANGED LaunchVars

\* is_rate_limited, then resolve_launch_spec, which may find no session.
CheckRateLimit(c) ==
    /\ conn[c].pc = "check"
    /\ LET u == conn[c].user IN
       IF AtLimit(u) /\ ~limiter[u].cool
       THEN Return(c, "finish", "LoginFailed") /\ UNCHANGED limiter
       ELSE /\ \/ Goto(c, "reserve")
               \/ Return(c, "finish", "SessionUnavailable")
            /\ limiter' = [limiter EXCEPT ![u] = IF AtLimit(u) THEN LimiterIdle ELSE @]
    /\ UNCHANGED table /\ UNCHANGED LaunchVars

CooldownPasses(u) ==
    /\ limiter[u].attempts > 0 /\ ~limiter[u].cool
    /\ limiter' = [limiter EXCEPT ![u].cool = TRUE]
    /\ UNCHANGED <<conn, table>> /\ UNCHANGED LaunchVars

\* What handle_login_with_binding does with the backend's result: PAM's no
\* is charged, PAM's yes clears the user, everything else leaves the limiter.
Account(c) ==
    /\ conn[c].pc = "account"
    /\ LET u == conn[c].user r == conn[c].result IN
       limiter' = [limiter EXCEPT ![u] =
           CASE r = "AuthenticationFailed" -> [attempts |-> @.attempts + 1, cool |-> FALSE]
             [] r \in {"Started", "SessionFailed"} -> LimiterIdle
             [] OTHER -> @]
    /\ Goto(c, "finish")
    /\ UNCHANGED table /\ UNCHANGED LaunchVars

\* transactions::finish and the response
Finish(c) ==
    /\ conn[c].pc = "finish"
    /\ Respond(c, [table EXCEPT ![<<c, conn[c].req>>] =
                      IF conn[c].result = "Started" THEN "Committed" ELSE "none"])
    /\ UNCHANGED limiter /\ UNCHANGED LaunchVars

HandlerStep(c) == CheckRateLimit(c) \/ Account(c) \/ Finish(c)
=============================================================================
