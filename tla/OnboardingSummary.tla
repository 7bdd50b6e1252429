-------------------------- MODULE OnboardingSummary --------------------------
(***************************************************************************)
(* The onboarding summary: Summarize and suggestNextStep of summary.go,    *)
(* over what Read returns of the events file that the processes of         *)
(* TelemetryStore write.  An event is stamped before it is written, so the *)
(* order of the file is not the order of the times.                        *)
(***************************************************************************)
EXTENDS TelemetryStore

NotReached == -1

(* The error codes that are told apart, among others.                      *)
IsSetup(code) == code = "SETUP"
IsMetaMask(code) == code \in {"METAMASK_USER_REJECTED", "METAMASK"}

rate(num, den) == IF den <= 0 THEN <<0, 1>> ELSE <<num, den>>

(* Slip: a milestone is set whenever its event occurs.                     *)
setLast(reached, t0, when, occurs) ==
  IF ~occurs THEN reached ELSE IF when > t0 THEN when - t0 ELSE 0

(* A milestone is set the first time its event occurs: the time since the  *)
(* first event of the file, or 0 if it was stamped before that.            *)
setFirst(reached, t0, when, occurs) ==
  IF reached # NotReached \/ ~occurs THEN reached
  ELSE IF when > t0 THEN when - t0 ELSE 0

NoEvents ==
  [totalEvents |-> 0, persona |-> "", firstDemoSuccess |-> FALSE,
   toFirstSuccess |-> NotReached, toProof |-> NotReached, toVerified |-> NotReached,
   toNexus |-> NotReached, toCinema |-> NotReached, mostRecentFailureCode |-> "",
   commandsCompleted |-> 0, setupFailures |-> 0, mmErrors |-> 0, mmRejected |-> 0,
   kermitEvents |-> 0, kermitTimeouts |-> 0, proofVerifyTotal |-> 0, proofVerifyFail |-> 0,
   demoStarted |-> 0, demoCompleted |-> 0]

Count(counter, occurs) == IF occurs THEN counter + 1 ELSE counter

(* One round of the loop over the events.                                  *)
AddEvent(s, e, t0) ==
  LET is(name) == e.event = name
      failed == e.result = "failure" IN
  [totalEvents |-> s.totalEvents + 1,
   persona |-> IF e.persona # "" THEN e.persona ELSE s.persona,
   firstDemoSuccess |-> s.firstDemoSuccess \/ (is("demo.completed") /\ ~failed),
   toFirstSuccess |-> setFirst(s.toFirstSuccess, t0, e.time, is("command.succeeded")),
   toProof |-> setFirst(s.toProof, t0, e.time, is("proof.exported")),
   toVerified |-> setFirst(s.toVerified, t0, e.time, is("proof.verified") /\ ~failed),
   toNexus |-> setFirst(s.toNexus, t0, e.time, e.source = "nexus"),
   toCinema |-> setFirst(s.toCinema, t0, e.time, is("cinema.opened")),
   mostRecentFailureCode |-> IF e.errorCode # "" /\ failed THEN e.errorCode ELSE s.mostRecentFailureCode,
   commandsCompleted |-> Count(s.commandsCompleted, is("command.succeeded") \/ is("command.failed")),
   setupFailures |-> Count(s.setupFailures, IsSetup(e.errorCode) /\ failed),
   mmErrors |-> Count(s.mmErrors, IsMetaMask(e.errorCode)),
   mmRejected |-> Count(s.mmRejected, e.errorCode = "METAMASK_USER_REJECTED"),
   kermitEvents |-> Count(s.kermitEvents, e.mode = "kermit"),
   kermitTimeouts |-> Count(s.kermitTimeouts, e.errorCode = "L0_FINALITY_TIMEOUT"),
   proofVerifyTotal |-> Count(s.proofVerifyTotal, is("proof.verified")),
   proofVerifyFail |-> Count(s.proofVerifyFail, is("proof.verified") /\ failed),
   demoStarted |-> Count(s.demoStarted, is("demo.started")),
   demoCompleted |-> Count(s.demoCompleted, is("demo.completed"))]

Rates(s) ==
  [setupFailure |-> rate(s.setupFailures, s.commandsCompleted),
   metaMaskRejection |-> rate(s.mmRejected, s.mmErrors),
   kermitFinalityTimeout |-> rate(s.kermitTimeouts, s.kermitEvents),
   proofVerificationFailure |-> rate(s.proofVerifyFail, s.proofVerifyTotal),
   exampleCompletion |-> rate(s.demoCompleted, s.demoStarted)]

suggestNextStep(s) ==
  IF s.mostRecentFailureCode # "" THEN "doctor"
  ELSE IF ~s.firstDemoSuccess THEN "demo start"
  ELSE IF s.toVerified = NotReached THEN "verify"
  ELSE "learn"

Summarize(events) ==
  LET upTo[n \in 0..Len(events)] ==
        IF n = 0 THEN NoEvents ELSE AddEvent(upTo[n - 1], events[n], events[1].time)
  IN upTo[Len(events)]

ReadOne(events, writes, n, at) ==
  IF n \in at THEN Append(events, writes[n].event) ELSE events

EventsAt(writes, at) ==
  LET upTo[n \in 0..Len(writes)] ==
        IF n = 0 THEN <<>> ELSE ReadOne(upTo[n - 1], writes, n, at)
  IN upTo[Len(writes)]

(* The events Read returns.                                                *)
EventsRead == EventsAt(file, Read)

-----------------------------------------------------------------------------
(* Property *)

Milestones == {"toFirstSuccess", "toProof", "toVerified", "toNexus", "toCinema"}

(* What the dashboard has once shown stays until the events are cleared,    *)
(* whichever process writes next and whenever its event was stamped: the    *)
(* first demo success, every time that was reached, and the next step does  *)
(* not fall back to the demo; and a share is a share.  The exceptions are   *)
(* an event whose line was left without its newline, which the next write   *)
(* buries, and a line too long to be read (Summarize, Read).                *)
MilestonesStay ==
  [][ /\ file' \notin {file, <<>>} /\ file # <<>>
      /\ file[Len(file)].part # "json" /\ \A i \in DOMAIN file' : ~TooLong(i)'
      =>
        LET before == Summarize(EventsRead)
            after == Summarize(EventsRead') IN
        /\ after.totalEvents >= before.totalEvents
        /\ before.firstDemoSuccess => after.firstDemoSuccess
        /\ \A m \in Milestones : before[m] # NotReached => after[m] = before[m]
        /\ suggestNextStep(before) \in {"verify", "learn"} => suggestNextStep(after) # "demo start"
        /\ \A r \in {"metaMaskRejection", "proofVerificationFailure"} :
             Rates(after)[r][1] <= Rates(after)[r][2] ]_vars
=============================================================================
