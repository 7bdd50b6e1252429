-------------------------- MODULE MCTelemetryStore --------------------------
(***************************************************************************)
(* A small instance of TelemetryStore and OnboardingSummary for TLC: two   *)
(* processes and four events: a bare one of a finished demo, one of a      *)
(* verified proof with text that must be redacted, stamped when Record is  *)
(* called, one too long to be read, and one that Validate rejects.         *)
(***************************************************************************)
EXTENDS OnboardingSummary

Bare == [version |-> "", source |-> "", time |-> 1, sessionId |-> "", event |-> "demo.completed",
         command |-> "", persona |-> "", errorCode |-> "", result |-> "", mode |-> "",
         durationMs |-> 0, redacted |-> FALSE]

MCEvents == {Bare,
             [Bare EXCEPT !.time = 0, !.event = "proof.verified", !.command = "account",
                          !.errorCode = "hex", !.source = "nexus"],
             [Bare EXCEPT !.command = "oversize"], [Bare EXCEPT !.durationMs = -1]}

OneEvent == {Bare}

SecretEvents == {[Bare EXCEPT !.command = "secret"], [Bare EXCEPT !.sessionId = "account"]}
=============================================================================
