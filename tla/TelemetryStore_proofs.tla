------------------------ MODULE TelemetryStore_proofs ------------------------
(***************************************************************************)
(* Proofs about TelemetryStore and OnboardingSummary for any number of     *)
(* processes, all events, instants and lengths of the events file.         *)
(*                                                                         *)
(* The argument has three parts that do not depend on each other: an event *)
(* is good from RecordStart on and is never changed again; a process with  *)
(* the promise "quiet" sees the opt-out in config.json, since every save   *)
(* takes that promise back; and every completed save makes config.json     *)
(* load as its choice, over whatever other saves left there.               *)
(*                                                                         *)
(* About the summary: a write adds at most one event to those that can be  *)
(* read and takes none away, one more event is one more round of the loop, *)
(* and a round takes back no milestone.                                    *)
(***************************************************************************)
EXTENDS OnboardingSummary, Induction, TLAPS

-----------------------------------------------------------------------------
(* The types of the state *)

(* Events as callers pass them, or as Prepare returns them.  Its literals   *)
(* are named, for the provers do not know that they are strings.           *)
Text == STRING \cup {"", "1", "cli", HashedSession, "[redacted-account]", "[redacted-hash]"}

Prepared ==
  [version : Text, source : Text, time : Int, sessionId : Text, event : Text, command : Text,
   persona : Text, errorCode : Text, result : Text, mode : Text, durationMs : Int,
   redacted : BOOLEAN]

Configs == {"absent", "empty", "on", "off", "garbled"}

Writes == [event : Prepared, part : Parts]

Calls == {Idle}
  \cup [op : {"load", "open"}, event : Prepared]
  \cup [op : {"write"}, event : Prepared, unlinked : BOOLEAN]
  \cup [op : {"save"}, value : {"on", "off"}]

TypeInv ==
  /\ config \in Configs
  /\ file \in Seq(Writes)
  /\ proc \in [Processes -> Calls]
  /\ promise \in [Processes -> {"none", "off", "quiet"}]
  /\ choice \in {"none", "on", "off", "unsettled"} /\ optedOut \in BOOLEAN

LEMMA IdleIs == Idle \in Calls /\ Idle.op = "idle"
BY DEF Calls, Idle

LEMMA DefaultsHaveType ==
  ASSUME NEW e \in Events, NEW now \in Instants
  PROVE  WithDefaults(e, now) \in Prepared
<1> DEFINE version == IF e.version = "" THEN "1" ELSE e.version
           source == IF e.source = "" THEN "cli" ELSE e.source
           time == IF e.time = 0 THEN now ELSE e.time
           sessionId == IF e.sessionId = "" THEN HashedSession ELSE e.sessionId
<1>1. WithDefaults(e, now) = [e EXCEPT !.version = version, !.source = source, !.time = time,
                                       !.sessionId = sessionId]
  BY DEF WithDefaults
<1>2. e \in Prepared /\ now \in Int
  <2>1. STRING \subseteq Text
    BY DEF Text
  <2>2. e \in Event
    BY EventsAssumption
  <2>3. e \in Prepared
    BY <2>1, <2>2 DEF Event, Prepared
  <2> QED BY <2>3, BoundsAssumption
<1>3. version \in Text /\ source \in Text /\ time \in Int /\ sessionId \in Text
  BY <1>2 DEF Prepared, Text
<1> HIDE DEF version, source, time, sessionId
<1> QED BY <1>1, <1>2, <1>3 DEF Prepared

LEMMA PreparedHasType ==
  ASSUME NEW e \in Events, NEW now \in Instants
  PROVE  Prepare(e, now) \in Prepared
<1> DEFINE d == WithDefaults(e, now)
<1>1. d \in Prepared
  BY DefaultsHaveType
<1>2. \A text \in Text : scrub(text) \in Text
  BY DEF scrub, Text
<1> HIDE DEF d
<1>3. Redact(d) \in Prepared
  BY <1>1, <1>2 DEF Redact, Prepared
<1> QED BY <1>3 DEF Prepare, d

LEMMA InitTypes == Init => TypeInv
<1> SUFFICES ASSUME Init PROVE TypeInv
  OBVIOUS
<1>1. file \in Seq(Writes)
  BY DEF Init
<1>2. proc \in [Processes -> Calls]
  BY IdleIs DEF Init
<1> QED BY <1>1, <1>2 DEF Init, TypeInv, Configs

LEMMA StepTypes == TypeInv /\ [Next]_vars => TypeInv'
<1> SUFFICES ASSUME TypeInv, [Next]_vars PROVE TypeInv'
  OBVIOUS
<1>1. CASE UNCHANGED vars
  BY <1>1 DEF vars, TypeInv
<1>2. ASSUME NEW p \in Processes, Step(p) PROVE TypeInv'
  <2>1. ASSUME NEW e \in Events, NEW now \in Instants, RecordStart(p, e, now) PROVE TypeInv'
    <3>1. [op |-> "load", event |-> Prepare(e, now)] \in Calls
      BY PreparedHasType DEF Calls
    <3>2. PromiseNow \in {"none", "off", "quiet"}
      BY DEF PromiseNow
    <3> QED BY <2>1, <3>1, <3>2 DEF RecordStart, Call, TypeInv
  <2>2. CASE RecordLoad(p)
    <3>1. ASSUME proc[p].op = "load" PROVE [proc[p] EXCEPT !.op = "open"] \in Calls
      <4>1. proc[p] \in [op : {"load", "open"}, event : Prepared]
        BY <3>1 DEF TypeInv, Calls, Idle
      <4>2. [proc[p] EXCEPT !.op = "open"] \in [op : {"load", "open"}, event : Prepared]
        BY <4>1
      <4> QED BY <4>2 DEF Calls
    <3> QED BY <2>2, <3>1, IdleIs DEF RecordLoad, Call, TypeInv
  <2>3. CASE RecordOpen(p)
    <3>1. proc[p].op = "open" =>
            [op |-> "write", event |-> proc[p].event, unlinked |-> FALSE] \in Calls
      BY DEF TypeInv, Calls, Idle
    <3> QED BY <2>3, <3>1 DEF RecordOpen, Call, TypeInv
  <2>4. CASE RecordWrite(p)
    <3>1. proc[p].event \in Prepared
      BY <2>4 DEF RecordWrite, TypeInv, Calls, Idle
    <3>2. \A part \in Parts : Chunk(proc[p].event, part) \in Writes
      BY <3>1 DEF Chunk, Writes
    <3>3. file' \in Seq(Writes)
      BY <2>4, <3>2 DEF RecordWrite, TypeInv
    <3>4. proc' \in [Processes -> Calls]
      BY <2>4, IdleIs DEF RecordWrite, Call, TypeInv
    <3> QED BY <2>4, <3>3, <3>4 DEF RecordWrite, TypeInv
  <2>5. ASSUME NEW value \in {"on", "off"}, SaveTruncate(p, value) PROVE TypeInv'
    <3>1. [op |-> "save", value |-> value] \in Calls
      BY DEF Calls
    <3> QED BY <2>5, <3>1 DEF SaveTruncate, Call, TypeInv, Configs
  <2>6. CASE SaveWrite(p)
    <3>1. proc[p].value \in {"on", "off"}
      BY <2>6 DEF SaveWrite, Saving, TypeInv, Calls, Idle
    <3>2. Overwrite(config, proc[p].value) \subseteq Configs
      BY <3>1 DEF Overwrite, Configs
    <3> QED BY <2>6, <3>1, <3>2, IdleIs DEF SaveWrite, Call, TypeInv
  <2>7. CASE Clear(p)
    <3>1. \A q \in Processes :
            proc[q].op = "write" => [proc[q] EXCEPT !.unlinked = TRUE] \in Calls
      BY DEF TypeInv, Calls, Idle
    <3> QED BY <2>7, <3>1 DEF Clear, TypeInv
  <2>8. CASE Crash(p)
    BY <2>8, IdleIs DEF Crash, Call, TypeInv
  <2>9. CASE SaveBroken(p)
    <3>1. proc[p].value \in {"on", "off"}
      BY <2>9 DEF SaveBroken, Saving, TypeInv, Calls, Idle
    <3>2. config \in Configs
      BY DEF TypeInv
    <3>3. Torn(config, proc[p].value) \subseteq Configs
      BY <3>1, <3>2 DEF Torn, Configs
    <3> QED BY <2>9, <3>3, IdleIs DEF SaveBroken, Call, TypeInv
  <2> QED BY <1>1, <1>2, <2>1, <2>2, <2>3, <2>4, <2>5, <2>6, <2>7, <2>8, <2>9
          DEF Step, RecordInvalid, OptIn, OptOut
<1> QED BY <1>1, <1>2 DEF Next

THEOREM Types == Spec => []TypeInv
BY InitTypes, StepTypes, PTL DEF Spec

-----------------------------------------------------------------------------
(* What is stored *)

Good(e) ==
  /\ Validate(e) /\ e.redacted /\ e.sessionId # ""
  /\ \A f \in {"event", "command", "persona", "errorCode"} : e[f] \notin {"account", "hex"}

GoodEvents ==
  /\ \A p \in Processes : proc[p].op \in {"load", "open", "write"} => Good(proc[p].event)
  /\ \A i \in DOMAIN file : Good(file[i].event)

LEMMA PreparedIsGood ==
  ASSUME NEW e \in Events, NEW now \in Instants, Validate(WithDefaults(e, now))
  PROVE  Good(Prepare(e, now))
<1> DEFINE d == WithDefaults(e, now)
<1>1. e \in Prepared
  BY EventsAssumption DEF Event, Prepared, Text
<1>2. d \in Prepared /\ d.sessionId # ""
  <2>1. d \in Prepared
    BY DefaultsHaveType
  <2>2. d.sessionId = IF e.sessionId = "" THEN HashedSession ELSE e.sessionId
    BY <1>1 DEF WithDefaults, Prepared
  <2>3. HashedSession # ""
    BY DEF HashedSession
  <2> QED BY <2>1, <2>2, <2>3
<1>3. \A text \in Text : /\ scrub(text) \notin {"account", "hex"}
                        /\ scrub(text) \in {"", "blank"} => text = scrub(text)
  BY DEF scrub
<1> HIDE DEF d
<1>4. Validate(d)
  BY DEF d
<1>5. /\ Redact(d).version = d.version /\ Redact(d).source = d.source
      /\ Redact(d).sessionId = d.sessionId /\ Redact(d).time = d.time
      /\ Redact(d).result = d.result /\ Redact(d).mode = d.mode
      /\ Redact(d).durationMs = d.durationMs /\ Redact(d).redacted
      /\ \A f \in {"event", "command", "persona", "errorCode"} : Redact(d)[f] = scrub(d[f])
  BY <1>2 DEF Redact, Prepared
<1>6. \A f \in {"event", "command", "persona", "errorCode"} : d[f] \in Text
  BY <1>2 DEF Prepared
<1>7. /\ \A f \in {"event", "command", "persona", "errorCode"} :
           Redact(d)[f] \notin {"account", "hex"}
      /\ Redact(d).event \notin {"", "blank"}
  <2>1. d.event \notin {"", "blank"}
    BY <1>4 DEF Validate
  <2>2. Redact(d).event = scrub(d.event) /\ d.event \in Text
    BY <1>5, <1>6
  <2>3. Redact(d).event \notin {"", "blank"}
    BY <1>3, <2>1, <2>2
  <2>4. ASSUME NEW f \in {"event", "command", "persona", "errorCode"}
        PROVE  Redact(d)[f] \notin {"account", "hex"}
    <3>1. Redact(d)[f] = scrub(d[f]) /\ d[f] \in Text
      BY <1>5, <1>6
    <3>2. scrub(d[f]) \notin {"account", "hex"}
      BY DEF scrub
    <3> QED BY <3>1, <3>2
  <2> QED BY <2>3, <2>4
<1>8. Validate(Redact(d))
  BY <1>4, <1>5, <1>7 DEF Validate
<1>9. Good(Redact(d))
  BY <1>2, <1>5, <1>7, <1>8 DEF Good
<1> QED BY <1>9 DEF Prepare, d

LEMMA InitGood == Init => GoodEvents
BY IdleIs DEF Init, GoodEvents

LEMMA StepGood == TypeInv /\ GoodEvents /\ [Next]_vars => GoodEvents'
<1> SUFFICES ASSUME TypeInv, GoodEvents, [Next]_vars PROVE GoodEvents'
  OBVIOUS
<1>1. CASE UNCHANGED vars
  BY <1>1 DEF vars, GoodEvents
<1>2. ASSUME NEW p \in Processes, Step(p) PROVE GoodEvents'
  <2>1. ASSUME NEW e \in Events, NEW now \in Instants, RecordStart(p, e, now) PROVE GoodEvents'
    <3>1. Good(Prepare(e, now))
      BY <2>1, PreparedIsGood DEF RecordStart
    <3> QED BY <2>1, <3>1 DEF RecordStart, Call, GoodEvents, TypeInv
  <2>2. CASE RecordLoad(p)
    <3>1. proc[p].op = "load" => [proc[p] EXCEPT !.op = "open"].event = proc[p].event
      BY DEF TypeInv, Calls, Idle
    <3> QED BY <2>2, <3>1, IdleIs DEF RecordLoad, Call, GoodEvents, TypeInv
  <2>3. CASE RecordOpen(p)
    BY <2>3 DEF RecordOpen, Call, GoodEvents, TypeInv
  <2>4. CASE RecordWrite(p)
    <3>1. Good(proc[p].event)
      BY <2>4 DEF RecordWrite, GoodEvents
    <3>2. \/ file' = file
          \/ \E part \in Parts : file' = Append(file, Chunk(proc[p].event, part))
      BY <2>4 DEF RecordWrite
    <3>3. \A i \in DOMAIN file' : Good(file'[i].event)
      <4>1. CASE file' = file
        BY <4>1 DEF GoodEvents
      <4>2. ASSUME NEW part \in Parts, file' = Append(file, Chunk(proc[p].event, part))
            PROVE  \A i \in DOMAIN file' : Good(file'[i].event)
        <5>1. /\ DOMAIN file = 1..Len(file) /\ Len(file) \in Nat
              /\ DOMAIN file' = 1..(Len(file) + 1)
              /\ \A i \in 1..Len(file) : file'[i] = file[i]
              /\ file'[Len(file) + 1] = Chunk(proc[p].event, part)
          BY <4>2 DEF TypeInv
        <5>2. Chunk(proc[p].event, part).event = proc[p].event
          BY DEF Chunk
        <5> QED BY <3>1, <5>1, <5>2 DEF GoodEvents
      <4> QED BY <3>2, <4>1, <4>2
    <3> QED BY <2>4, <3>3, IdleIs DEF RecordWrite, Call, GoodEvents, TypeInv
  <2>5. ASSUME NEW value, SaveTruncate(p, value) PROVE GoodEvents'
    BY <2>5 DEF SaveTruncate, Call, GoodEvents, TypeInv
  <2>6. CASE SaveWrite(p) \/ SaveBroken(p)
    BY <2>6, IdleIs DEF SaveWrite, SaveBroken, Call, GoodEvents, TypeInv
  <2>7. CASE Clear(p)
    <3>1. \A q \in Processes : proc[q].op = "write" =>
            [proc[q] EXCEPT !.unlinked = TRUE].event = proc[q].event
      BY DEF TypeInv, Calls, Idle
    <3> QED BY <2>7, <3>1 DEF Clear, GoodEvents, TypeInv
  <2>8. CASE Crash(p)
    BY <2>8, IdleIs DEF Crash, Call, GoodEvents, TypeInv
  <2> QED BY <1>1, <1>2, <2>1, <2>2, <2>3, <2>4, <2>5, <2>6, <2>7, <2>8
          DEF Step, RecordInvalid, OptIn, OptOut
<1> QED BY <1>1, <1>2 DEF Next

THEOREM GoodAlways == Spec => []GoodEvents
BY Types, InitGood, StepGood, PTL DEF Spec

(* Nothing reaches the events file, through any process, that Validate      *)
(* rejects, that is not marked redacted, or whose free text still holds an  *)
(* account URL or a long hash (Record).                                     *)
THEOREM Stored == Spec => []StoredValidAndRedacted
<1>1. GoodEvents => StoredValidAndRedacted
  BY DEF GoodEvents, Good, StoredValidAndRedacted
<1> QED BY <1>1, GoodAlways, PTL

(* The files and the calls in progress have their types; an event on its    *)
(* way to the file has every field that Record fills in.                    *)
THEOREM TypeCorrect == Spec => []TypeOK
<1>1. TypeInv /\ GoodEvents => TypeOK
  <2> SUFFICES ASSUME TypeInv, GoodEvents PROVE TypeOK
    OBVIOUS
  <2>1. \A i \in DOMAIN file : file[i].part \in Parts
    <3>1. \A i \in DOMAIN file : file[i] \in Writes
      BY DEF TypeInv
    <3> QED BY <3>1 DEF Writes
  <2>2. ASSUME NEW p \in Processes
        PROVE  /\ proc[p].op \in {"idle", "load", "open", "write", "save"}
               /\ proc[p].op \in {"load", "open", "write"} =>
                    LET e == proc[p].event IN
                    e.version = "1" /\ e.source \in Sources /\ e.time > 0 /\ e.sessionId # ""
    <3>1. proc[p].op \in {"idle", "load", "open", "write", "save"}
      BY DEF TypeInv, Calls, Idle
    <3>2. proc[p].op \in {"load", "open", "write"} => Good(proc[p].event)
      BY DEF GoodEvents
    <3> QED BY <3>1, <3>2 DEF Good, Validate
  <2> QED BY <2>1, <2>2 DEF TypeOK, TypeInv, Configs
<1> QED BY <1>1, Types, GoodAlways, PTL

(* Damage is local: a torn write costs Read at most one of the events that  *)
(* were recorded with success, the next one on its line; more are lost only *)
(* to a line that the scanner's buffer does not hold (Read).                *)
THEOREM Local == Spec => []DamageIsLocal
<1>1. TypeInv => DamageIsLocal
  <2> SUFFICES ASSUME TypeInv, NEW i \in DOMAIN file, file[i].part = "line", i \notin Read,
                      \A j \in DOMAIN file : file[j].event.command # "oversize"
               PROVE  i > 1 /\ file[i - 1].part # "line"
    BY DEF DamageIsLocal
  <2>1. ~ \E j \in DOMAIN file : TooLong(j)
    BY DEF TooLong
  <2>2. ~Parsed(i)
    BY <2>1 DEF Read
  <2>3. i \in Nat /\ i >= 1
    <3>1. DOMAIN file = 1..Len(file) /\ Len(file) \in Nat
      BY DEF TypeInv
    <3> QED BY <3>1
  <2> QED BY <2>2, <2>3 DEF Parsed
<1> QED BY <1>1, Types, PTL

-----------------------------------------------------------------------------
(* The choice of the user *)

QuietInv ==
  \A p \in Processes : promise[p] = "quiet" =>
    /\ config = "off" /\ \A q \in Processes : ~Saving(q)
    /\ proc[p].op \notin {"open", "write"}

LEMMA InitQuiet == Init => QuietInv
BY DEF Init, QuietInv

LEMMA StepQuiet == TypeInv /\ QuietInv /\ [Next]_vars => QuietInv'
<1> SUFFICES ASSUME TypeInv, QuietInv, [Next]_vars PROVE QuietInv'
  OBVIOUS
<1>1. CASE UNCHANGED vars
  BY <1>1 DEF vars, QuietInv, Saving
<1>2. ASSUME NEW p \in Processes, Step(p) PROVE QuietInv'
  <2>1. ASSUME NEW e \in Events, NEW now \in Instants, RecordStart(p, e, now) PROVE QuietInv'
    <3>1. /\ promise' = [promise EXCEPT ![p] = PromiseNow] /\ config' = config
          /\ proc' = [proc EXCEPT ![p] = [op |-> "load", event |-> Prepare(e, now)]]
      BY <2>1 DEF RecordStart, Call
    <3>2. PromiseNow = "quiet" => config = "off" /\ \A q \in Processes : ~Saving(q)
      BY DEF PromiseNow
    <3>3. proc'[p].op = "load" /\ \A q \in Processes \ {p} : proc'[q] = proc[q]
      BY <3>1 DEF TypeInv
    <3>4. promise'[p] = PromiseNow /\ \A q \in Processes \ {p} : promise'[q] = promise[q]
      BY <3>1 DEF TypeInv
    <3> QED BY <3>1, <3>2, <3>3, <3>4 DEF QuietInv, Saving
  <2>2. CASE RecordLoad(p)
    <3>1. /\ config' = config /\ promise' = promise /\ \A q \in Processes \ {p} : proc'[q] = proc[q]
          /\ IF LoadConfig THEN proc'[p].op = "open" ELSE proc'[p] = Idle
      BY <2>2 DEF RecordLoad, Call, TypeInv, Calls, Idle
    <3> QED BY <3>1, IdleIs DEF QuietInv, Saving, LoadConfig
  <2>3. CASE RecordOpen(p) \/ RecordWrite(p) \/ Crash(p)
    <3>1. config' = config /\ promise' = promise /\ \A q \in Processes \ {p} : proc'[q] = proc[q]
      BY <2>3 DEF RecordOpen, RecordWrite, Crash, Call, TypeInv
    <3>2. proc'[p].op # "save" /\ (proc'[p].op = "write" => proc[p].op = "open") /\ proc'[p].op # "open"
      BY <2>3, IdleIs DEF RecordOpen, RecordWrite, Crash, Call, TypeInv
    <3> QED BY <3>1, <3>2 DEF QuietInv, Saving
  <2>4. ASSUME NEW value, SaveTruncate(p, value) PROVE QuietInv'
    <3>1. \A q \in Processes : promise'[q] # "quiet"
      BY <2>4 DEF SaveTruncate, TypeInv
    <3> QED BY <3>1 DEF QuietInv
  <2>5. CASE SaveWrite(p) \/ SaveBroken(p)
    BY <2>5 DEF SaveWrite, SaveBroken, QuietInv
  <2>6. CASE Clear(p)
    <3>1. config' = config /\ promise' = promise /\ \A q \in Processes : proc'[q].op = proc[q].op
      BY <2>6 DEF Clear, TypeInv, Calls, Idle
    <3> QED BY <3>1 DEF QuietInv, Saving
  <2> QED BY <1>1, <1>2, <2>1, <2>2, <2>3, <2>4, <2>5, <2>6
          DEF Step, RecordInvalid, OptIn, OptOut
<1> QED BY <1>1, <1>2 DEF Next

(* A Record that starts after the user opted out, with no SaveConfig under  *)
(* way or broken off then and none started since, never comes to write.     *)
THEOREM Consent == Spec => []ConsentRespected
<1>1. QuietInv => ConsentRespected
  BY DEF QuietInv, ConsentRespected
<1> QED BY <1>1, Types, InitQuiet, StepQuiet, PTL DEF Spec

(* If the save that touched config.json last has written all of its choice, *)
(* loading the config gives that choice, whatever saves lay over each       *)
(* other, broke off or were killed before it, and although the text may     *)
(* not parse (SaveConfig, LoadConfig).                                      *)
THEOREM LastChoice == Spec => []ConfigIsLastChoice
<1>1. Init => ConfigIsLastChoice
  BY DEF Init, ConfigIsLastChoice, LoadConfig
<1>2. TypeInv /\ ConfigIsLastChoice /\ [Next]_vars => ConfigIsLastChoice'
  <2> SUFFICES ASSUME TypeInv, ConfigIsLastChoice, [Next]_vars PROVE ConfigIsLastChoice'
    OBVIOUS
  <2>1. CASE config' = config /\ choice' = choice
    BY <2>1 DEF ConfigIsLastChoice, LoadConfig
  <2>2. ASSUME NEW p \in Processes, SaveWrite(p) PROVE ConfigIsLastChoice'
    <3>1. proc[p].value \in {"on", "off"}
      BY <2>2 DEF SaveWrite, Saving, TypeInv, Calls, Idle
    <3> QED BY <2>2, <3>1 DEF SaveWrite, Overwrite, ConfigIsLastChoice, LoadConfig
  <2>3. ASSUME NEW p \in Processes, NEW value, SaveTruncate(p, value) \/ SaveBroken(p)
        PROVE  ConfigIsLastChoice'
    BY <2>3 DEF SaveTruncate, SaveBroken, ConfigIsLastChoice
  <2>4. ASSUME NEW p \in Processes, Step(p) PROVE ConfigIsLastChoice'
    BY <2>1, <2>2, <2>3, <2>4
       DEF Step, RecordInvalid, RecordStart, RecordLoad, RecordOpen, RecordWrite, OptIn, OptOut,
           Clear, Crash, vars
  <2> QED BY <2>1, <2>4 DEF Next, vars
<1> QED BY <1>1, <1>2, Types, PTL DEF Spec

-----------------------------------------------------------------------------
(* The summary, round by round *)

Tallies == [totalEvents : Nat, persona : Text, firstDemoSuccess : BOOLEAN,
            toFirstSuccess : Int, toProof : Int, toVerified : Int, toNexus : Int, toCinema : Int,
            mostRecentFailureCode : Text, commandsCompleted : Nat, setupFailures : Nat,
            mmErrors : Nat, mmRejected : Nat, kermitEvents : Nat, kermitTimeouts : Nat,
            proofVerifyTotal : Nat, proofVerifyFail : Nat, demoStarted : Nat, demoCompleted : Nat]

(* In both of these rates the numerator counts some of what the denominator *)
(* counts.                                                                  *)
Summaries ==
  {s \in Tallies : s.mmRejected <= s.mmErrors /\ s.proofVerifyFail <= s.proofVerifyTotal}

LEMMA NoEventsIs == NoEvents \in Summaries
<1>1. "" \in Text /\ NotReached \in Int
  BY DEF Text, NotReached
<1>2. NoEvents \in Tallies
  BY <1>1 DEF NoEvents, Tallies
<1>3. /\ NoEvents.mmRejected = 0 /\ NoEvents.mmErrors = 0
      /\ NoEvents.proofVerifyFail = 0 /\ NoEvents.proofVerifyTotal = 0
  BY DEF NoEvents
<1> QED BY <1>2, <1>3 DEF Summaries

LEMMA SetFirstIs ==
  ASSUME NEW reached \in Int, NEW t0 \in Int, NEW when \in Int, NEW occurs \in BOOLEAN
  PROVE  /\ setFirst(reached, t0, when, occurs) \in Int
         /\ reached # NotReached => setFirst(reached, t0, when, occurs) = reached
BY DEF setFirst

LEMMA CountIs ==
  ASSUME NEW counter \in Nat, NEW occurs \in BOOLEAN
  PROVE  /\ Count(counter, occurs) \in Nat
         /\ Count(counter, occurs) = counter + (IF occurs THEN 1 ELSE 0)
BY DEF Count

(* What a round does to a summary: it stays one, and what it says of        *)
(* milestones remains.                                                      *)
GrowsTo(s, t) ==
  /\ t.totalEvents >= s.totalEvents
  /\ s.firstDemoSuccess => t.firstDemoSuccess
  /\ \A m \in Milestones : s[m] # NotReached => t[m] = s[m]

LEMMA AddEventIs ==
  ASSUME NEW s \in Summaries, NEW e \in Prepared, NEW t0 \in Int
  PROVE  AddEvent(s, e, t0) \in Summaries /\ GrowsTo(s, AddEvent(s, e, t0))
<1> DEFINE is(name) == e.event = name
           failed == e.result = "failure"
           persona == IF e.persona # "" THEN e.persona ELSE s.persona
           demo == s.firstDemoSuccess \/ (is("demo.completed") /\ ~failed)
           success == setFirst(s.toFirstSuccess, t0, e.time, is("command.succeeded"))
           proof == setFirst(s.toProof, t0, e.time, is("proof.exported"))
           verified == setFirst(s.toVerified, t0, e.time, is("proof.verified") /\ ~failed)
           nexus == setFirst(s.toNexus, t0, e.time, e.source = "nexus")
           cinema == setFirst(s.toCinema, t0, e.time, is("cinema.opened"))
           code == IF e.errorCode # "" /\ failed THEN e.errorCode ELSE s.mostRecentFailureCode
           commands == Count(s.commandsCompleted, is("command.succeeded") \/ is("command.failed"))
           setups == Count(s.setupFailures, IsSetup(e.errorCode) /\ failed)
           errors == Count(s.mmErrors, IsMetaMask(e.errorCode))
           rejected == Count(s.mmRejected, e.errorCode = "METAMASK_USER_REJECTED")
           kermits == Count(s.kermitEvents, e.mode = "kermit")
           timeouts == Count(s.kermitTimeouts, e.errorCode = "L0_FINALITY_TIMEOUT")
           verifies == Count(s.proofVerifyTotal, is("proof.verified"))
           fails == Count(s.proofVerifyFail, is("proof.verified") /\ failed)
           started == Count(s.demoStarted, is("demo.started"))
           completed == Count(s.demoCompleted, is("demo.completed"))
<1>1. AddEvent(s, e, t0) =
        [totalEvents |-> s.totalEvents + 1, persona |-> persona, firstDemoSuccess |-> demo,
         toFirstSuccess |-> success, toProof |-> proof, toVerified |-> verified,
         toNexus |-> nexus, toCinema |-> cinema, mostRecentFailureCode |-> code,
         commandsCompleted |-> commands, setupFailures |-> setups, mmErrors |-> errors,
         mmRejected |-> rejected, kermitEvents |-> kermits, kermitTimeouts |-> timeouts,
         proofVerifyTotal |-> verifies, proofVerifyFail |-> fails, demoStarted |-> started,
         demoCompleted |-> completed]
  BY DEF AddEvent
<1>2. /\ s \in Tallies /\ s.mmRejected <= s.mmErrors /\ s.proofVerifyFail <= s.proofVerifyTotal
      /\ e.time \in Int /\ e.persona \in Text /\ e.errorCode \in Text
  BY DEF Summaries, Prepared
<1>3. /\ s.totalEvents + 1 \in Nat /\ persona \in Text /\ demo \in BOOLEAN /\ code \in Text
      /\ s.totalEvents + 1 >= s.totalEvents /\ (s.firstDemoSuccess => demo)
  <2>1. /\ s.totalEvents \in Nat /\ s.persona \in Text /\ s.firstDemoSuccess \in BOOLEAN
        /\ s.mostRecentFailureCode \in Text
    BY <1>2 DEF Tallies
  <2>2. persona \in Text /\ code \in Text
    BY <1>2, <2>1
  <2>3. demo \in BOOLEAN /\ (s.firstDemoSuccess => demo)
    BY <2>1
  <2>4. s.totalEvents + 1 \in Nat /\ s.totalEvents + 1 >= s.totalEvents
    BY <2>1
  <2> HIDE DEF persona, demo, code
  <2> QED BY <2>2, <2>3, <2>4, Zenon
<1>4. /\ success \in Int /\ proof \in Int /\ verified \in Int /\ nexus \in Int /\ cinema \in Int
      /\ s.toFirstSuccess # NotReached => success = s.toFirstSuccess
      /\ s.toProof # NotReached => proof = s.toProof
      /\ s.toVerified # NotReached => verified = s.toVerified
      /\ s.toNexus # NotReached => nexus = s.toNexus
      /\ s.toCinema # NotReached => cinema = s.toCinema
  <2>1. /\ s.toFirstSuccess \in Int /\ s.toProof \in Int /\ s.toVerified \in Int
        /\ s.toNexus \in Int /\ s.toCinema \in Int
    BY <1>2 DEF Tallies
  <2>2. success \in Int /\ (s.toFirstSuccess # NotReached => success = s.toFirstSuccess)
    BY <1>2, <2>1, SetFirstIs
  <2>3. proof \in Int /\ (s.toProof # NotReached => proof = s.toProof)
    BY <1>2, <2>1, SetFirstIs
  <2>4. verified \in Int /\ (s.toVerified # NotReached => verified = s.toVerified)
    BY <1>2, <2>1, SetFirstIs
  <2>5. nexus \in Int /\ (s.toNexus # NotReached => nexus = s.toNexus)
    BY <1>2, <2>1, SetFirstIs
  <2>6. cinema \in Int /\ (s.toCinema # NotReached => cinema = s.toCinema)
    BY <1>2, <2>1, SetFirstIs
  <2> HIDE DEF success, proof, verified, nexus, cinema
  <2> QED BY <2>2, <2>3, <2>4, <2>5, <2>6
<1>5. /\ commands \in Nat /\ setups \in Nat /\ errors \in Nat /\ rejected \in Nat
      /\ kermits \in Nat /\ timeouts \in Nat /\ verifies \in Nat /\ fails \in Nat
      /\ started \in Nat /\ completed \in Nat
  BY <1>2 DEF Tallies, Count
<1>6. rejected <= errors /\ fails <= verifies
  BY <1>2 DEF Tallies, Count, IsMetaMask
<1> DEFINE t == AddEvent(s, e, t0)
<1> HIDE DEF persona, demo, success, proof, verified, nexus, cinema, code, commands, setups, errors,
             rejected, kermits, timeouts, verifies, fails, started, completed
<1>7. t \in Tallies
  BY <1>1, <1>2, <1>3, <1>4, <1>5 DEF Tallies
<1>8. /\ t.mmRejected = rejected /\ t.mmErrors = errors
      /\ t.proofVerifyFail = fails /\ t.proofVerifyTotal = verifies
      /\ t.totalEvents = s.totalEvents + 1 /\ t.firstDemoSuccess = demo
      /\ t.toFirstSuccess = success /\ t.toProof = proof /\ t.toVerified = verified
      /\ t.toNexus = nexus /\ t.toCinema = cinema
  BY <1>1
<1> HIDE DEF t
<1>9. t \in Summaries
  BY <1>6, <1>7, <1>8 DEF Summaries
<1>10. GrowsTo(s, t)
  BY <1>3, <1>4, <1>8 DEF GrowsTo, Milestones
<1> QED BY <1>9, <1>10 DEF t

(* The loop over the events, and what one more event does.                  *)
SummaryUpTo(events, n, f) ==
  GoesOnUpTo(n, f, Summaries, NoEvents,
             [k \in 1..n |-> [s \in Summaries |-> AddEvent(s, events[k], events[1].time)]])

LEMMA LoopExists ==
  ASSUME NEW events \in Seq(Prepared), NEW n \in 0..Len(events)
  PROVE  \E f : SummaryUpTo(events, n, f)
<1> DEFINE step == [k \in 1..n |-> [s \in Summaries |-> AddEvent(s, events[k], events[1].time)]]
<1>1. ASSUME NEW k \in 1..n, NEW s \in Summaries
      PROVE  AddEvent(s, events[k], events[1].time) \in Summaries
  <2>1. events[k] \in Prepared /\ events[1] \in Prepared
    OBVIOUS
  <2>2. events[1].time \in Int
    BY <2>1 DEF Prepared
  <2> QED BY <2>1, <2>2, AddEventIs
<1>2. step \in [1..n -> [Summaries -> Summaries]]
  BY <1>1
<1>3. n \in Nat
  OBVIOUS
<1> HIDE DEF step
<1>4. \E f : GoesOnUpTo(n, f, Summaries, NoEvents, step)
  BY <1>2, <1>3, NoEventsIs, BoundedRecursion
<1> QED BY <1>4 DEF SummaryUpTo, step

LEMMA SummarizeIs ==
  ASSUME NEW events \in Seq(Prepared)
  PROVE  \E f : SummaryUpTo(events, Len(events), f) /\ Summarize(events) = f[Len(events)]
<1> DEFINE n == Len(events)
           Upto(f) == f = [k \in 0..n |-> IF k = 0 THEN NoEvents
                                          ELSE AddEvent(f[k - 1], events[k], events[1].time)]
           upTo == CHOOSE f : Upto(f)
<1>1. n \in Nat
  OBVIOUS
<1>2. PICK g : SummaryUpTo(events, n, g)
  BY <1>1, LoopExists
<1>3. /\ g \in [0..n -> Summaries] /\ g[0] = NoEvents
      /\ \A k \in 1..n : g[k] = AddEvent(g[k - 1], events[k], events[1].time)
  <2>1. g \in [0..n -> Summaries] /\ g[0] = NoEvents
    BY <1>2 DEF SummaryUpTo, GoesOnUpTo
  <2>2. ASSUME NEW k \in 1..n PROVE g[k] = AddEvent(g[k - 1], events[k], events[1].time)
    <3>1. g[k - 1] \in Summaries
      BY <2>1
    <3> QED BY <1>2, <3>1 DEF SummaryUpTo, GoesOnUpTo
  <2> QED BY <2>1, <2>2
<1>4. Upto(g)
  <2>1. \A k \in 0..n : g[k] = IF k = 0 THEN NoEvents
                               ELSE AddEvent(g[k - 1], events[k], events[1].time)
    BY <1>3
  <2> QED BY <1>3, <2>1
<1>5. Upto(upTo)
  <2> HIDE DEF Upto
  <2> QED BY <1>4
<1>6. Summarize(events) = upTo[n]
  BY DEF Summarize
<1> HIDE DEF upTo
<1>7. /\ DOMAIN upTo = 0..n /\ upTo[0] = NoEvents
      /\ \A k \in 1..n : upTo[k] = AddEvent(upTo[k - 1], events[k], events[1].time)
  BY <1>1, <1>5
<1> DEFINE T == {k \in 0..n : upTo[k] = g[k]}
<1>8. 0 \in T
  BY <1>1, <1>3, <1>7
<1>9. ASSUME NEW k \in 1..n, k - 1 \in T PROVE k \in T
  BY <1>3, <1>7, <1>9
<1>10. n \in T
  <2> HIDE DEF T
  <2>1. 0..n \subseteq T
    BY <1>1, <1>8, <1>9, InductionUpTo
  <2> QED BY <1>1, <2>1
<1> QED BY <1>2, <1>6, <1>10

LEMMA SummarizeHasType == \A events \in Seq(Prepared) : Summarize(events) \in Summaries
<1> TAKE events \in Seq(Prepared)
<1>1. PICK f : SummaryUpTo(events, Len(events), f) /\ Summarize(events) = f[Len(events)]
  BY SummarizeIs
<1>2. f \in [0..Len(events) -> Summaries] /\ Len(events) \in 0..Len(events)
  BY <1>1 DEF SummaryUpTo, GoesOnUpTo
<1> QED BY <1>1, <1>2

LEMMA OneMore ==
  ASSUME NEW events \in Seq(Prepared), NEW e \in Prepared
  PROVE  \E t0 \in Int : Summarize(Append(events, e)) = AddEvent(Summarize(events), e, t0)
<1> DEFINE n == Len(events)
           more == Append(events, e)
<1>1. /\ n \in Nat /\ more \in Seq(Prepared) /\ Len(more) = n + 1 /\ more[n + 1] = e
      /\ \A k \in 1..n : more[k] = events[k]
  OBVIOUS
<1> HIDE DEF more
<1>2. PICK f : SummaryUpTo(events, n, f) /\ Summarize(events) = f[n]
  BY SummarizeIs
<1>3. PICK g : SummaryUpTo(more, n + 1, g) /\ Summarize(more) = g[n + 1]
  BY <1>1, SummarizeIs
<1>4. /\ f \in [0..n -> Summaries] /\ f[0] = NoEvents
      /\ \A k \in 1..n : f[k] = AddEvent(f[k - 1], events[k], events[1].time)
  <2>1. f \in [0..n -> Summaries] /\ f[0] = NoEvents
    BY <1>2 DEF SummaryUpTo, GoesOnUpTo
  <2>2. \A k \in 1..n : f[k - 1] \in Summaries
    BY <2>1
  <2> QED BY <1>2, <2>1, <2>2 DEF SummaryUpTo, GoesOnUpTo
<1>5. /\ g \in [0..(n + 1) -> Summaries] /\ g[0] = NoEvents
      /\ \A k \in 1..(n + 1) : g[k] = AddEvent(g[k - 1], more[k], more[1].time)
  <2>1. g \in [0..(n + 1) -> Summaries] /\ g[0] = NoEvents
    BY <1>3 DEF SummaryUpTo, GoesOnUpTo
  <2>2. \A k \in 1..(n + 1) : g[k - 1] \in Summaries
    BY <1>1, <2>1
  <2> QED BY <1>3, <2>1, <2>2 DEF SummaryUpTo, GoesOnUpTo
<1> DEFINE T == {k \in 0..n : f[k] = g[k]}
<1>6. 0 \in T
  BY <1>1, <1>4, <1>5
<1>7. ASSUME NEW k \in 1..n, k - 1 \in T PROVE k \in T
  <2>1. k \in 1..(n + 1) /\ 1 \in 1..n /\ f[k - 1] = g[k - 1]
    BY <1>1, <1>7
  <2>2. more[k] = events[k] /\ more[1] = events[1]
    BY <1>1, <2>1
  <2>3. f[k] = g[k]
    BY <1>4, <1>5, <2>1, <2>2
  <2> QED BY <2>3
<1>8. f[n] = g[n]
  <2> HIDE DEF T
  <2>1. 0..n \subseteq T
    BY <1>1, <1>6, <1>7, InductionUpTo
  <2> QED BY <1>1, <2>1 DEF T
<1>9. more[1] \in Prepared /\ more[1].time \in Int
  <2>1. more[1] \in Prepared
    BY <1>1
  <2> QED BY <2>1 DEF Prepared
<1>10. n + 1 \in 1..(n + 1) /\ (n + 1) - 1 = n
  BY <1>1
<1>11. g[n + 1] = AddEvent(g[n], e, more[1].time)
  BY <1>1, <1>5, <1>10
<1> QED BY <1>2, <1>3, <1>8, <1>9, <1>11 DEF more

-----------------------------------------------------------------------------
(* The events that are read *)

KeptUpTo(writes, at, n, f) ==
  GoesOnUpTo(n, f, Seq(Prepared), <<>>,
             [k \in 1..n |-> [events \in Seq(Prepared) |-> ReadOne(events, writes, k, at)]])

LEMMA KeptExists ==
  ASSUME NEW writes \in Seq(Writes), NEW at
  PROVE  \E f : KeptUpTo(writes, at, Len(writes), f)
<1> DEFINE n == Len(writes)
           step == [k \in 1..n |-> [events \in Seq(Prepared) |-> ReadOne(events, writes, k, at)]]
<1>1. ASSUME NEW k \in 1..n, NEW events \in Seq(Prepared)
      PROVE  ReadOne(events, writes, k, at) \in Seq(Prepared)
  <2>1. writes[k] \in Writes
    OBVIOUS
  <2>2. writes[k].event \in Prepared
    BY <2>1 DEF Writes
  <2> QED BY <2>2 DEF ReadOne
<1>2. step \in [1..n -> [Seq(Prepared) -> Seq(Prepared)]]
  BY <1>1
<1>3. n \in Nat /\ <<>> \in Seq(Prepared)
  OBVIOUS
<1> HIDE DEF step
<1>4. \E f : GoesOnUpTo(n, f, Seq(Prepared), <<>>, step)
  BY <1>2, <1>3, BoundedRecursion
<1> QED BY <1>4 DEF KeptUpTo, step

LEMMA KeptIs ==
  ASSUME NEW writes \in Seq(Writes), NEW at, NEW n \in Nat, NEW f, KeptUpTo(writes, at, n, f)
  PROVE  /\ f \in [0..n -> Seq(Prepared)] /\ f[0] = <<>>
         /\ \A k \in 1..n : f[k] = ReadOne(f[k - 1], writes, k, at)
<1>1. f \in [0..n -> Seq(Prepared)] /\ f[0] = <<>>
  BY DEF KeptUpTo, GoesOnUpTo
<1>2. \A k \in 1..n : f[k - 1] \in Seq(Prepared)
  BY <1>1
<1> QED BY <1>1, <1>2 DEF KeptUpTo, GoesOnUpTo

LEMMA EventsAtIs ==
  ASSUME NEW writes \in Seq(Writes), NEW at
  PROVE  \E f : KeptUpTo(writes, at, Len(writes), f) /\ EventsAt(writes, at) = f[Len(writes)]
<1> DEFINE n == Len(writes)
           Upto(f) == f = [k \in 0..n |-> IF k = 0 THEN <<>>
                                          ELSE ReadOne(f[k - 1], writes, k, at)]
           upTo == CHOOSE f : Upto(f)
<1>1. n \in Nat
  OBVIOUS
<1>2. PICK g : KeptUpTo(writes, at, n, g)
  BY KeptExists
<1>3. /\ g \in [0..n -> Seq(Prepared)] /\ g[0] = <<>>
      /\ \A k \in 1..n : g[k] = ReadOne(g[k - 1], writes, k, at)
  BY <1>1, <1>2, KeptIs
<1>4. Upto(g)
  <2>1. \A k \in 0..n : g[k] = IF k = 0 THEN <<>> ELSE ReadOne(g[k - 1], writes, k, at)
    BY <1>3
  <2> QED BY <1>3, <2>1
<1>5. Upto(upTo)
  <2> HIDE DEF Upto
  <2> QED BY <1>4
<1>6. EventsAt(writes, at) = upTo[n]
  BY DEF EventsAt
<1> HIDE DEF upTo
<1>7. /\ DOMAIN upTo = 0..n /\ upTo[0] = <<>>
      /\ \A k \in 1..n : upTo[k] = ReadOne(upTo[k - 1], writes, k, at)
  BY <1>1, <1>5
<1> DEFINE T == {k \in 0..n : upTo[k] = g[k]}
<1>8. 0 \in T
  BY <1>1, <1>3, <1>7
<1>9. ASSUME NEW k \in 1..n, k - 1 \in T PROVE k \in T
  BY <1>3, <1>7, <1>9
<1>10. n \in T
  <2> HIDE DEF T
  <2>1. 0..n \subseteq T
    BY <1>1, <1>8, <1>9, InductionUpTo
  <2> QED BY <1>1, <2>1
<1> QED BY <1>2, <1>6, <1>10

LEMMA EventsAtMore ==
  ASSUME NEW writes \in Seq(Writes), NEW at, NEW chunk \in Writes, NEW later,
         \A i \in DOMAIN writes : i \in later <=> i \in at
  PROVE  /\ EventsAt(writes, at) \in Seq(Prepared)
         /\ EventsAt(Append(writes, chunk), later) =
              IF Len(writes) + 1 \in later THEN Append(EventsAt(writes, at), chunk.event)
              ELSE EventsAt(writes, at)
<1> DEFINE n == Len(writes)
           more == Append(writes, chunk)
<1>1. /\ n \in Nat /\ more \in Seq(Writes) /\ Len(more) = n + 1 /\ more[n + 1] = chunk
      /\ \A k \in 1..n : more[k] = writes[k]
      /\ DOMAIN writes = 1..n
  OBVIOUS
<1> HIDE DEF more
<1>2. PICK f : KeptUpTo(writes, at, n, f) /\ EventsAt(writes, at) = f[n]
  BY EventsAtIs
<1>3. PICK g : KeptUpTo(more, later, n + 1, g) /\ EventsAt(more, later) = g[n + 1]
  BY <1>1, EventsAtIs
<1>4. /\ f \in [0..n -> Seq(Prepared)] /\ f[0] = <<>>
      /\ \A k \in 1..n : f[k] = ReadOne(f[k - 1], writes, k, at)
  <2> HIDE DEF n
  <2> QED BY <1>1, <1>2, KeptIs
<1>5. g[0] = <<>> /\ \A k \in 1..(n + 1) : g[k] = ReadOne(g[k - 1], more, k, later)
  <2>1. n + 1 \in Nat
    BY <1>1
  <2> QED BY <1>1, <1>3, <2>1, KeptIs
<1> DEFINE T == {k \in 0..n : f[k] = g[k]}
<1>6. 0 \in T
  BY <1>1, <1>4, <1>5
<1>7. ASSUME NEW k \in 1..n, k - 1 \in T PROVE k \in T
  <2>1. k \in 1..(n + 1) /\ more[k] = writes[k] /\ (k \in later <=> k \in at)
    BY <1>1
  <2>2. \A events : ReadOne(events, more, k, later) = ReadOne(events, writes, k, at)
    BY <2>1 DEF ReadOne
  <2> QED BY <1>4, <1>5, <1>7, <2>1, <2>2
<1>8. f[n] = g[n] /\ f[n] \in Seq(Prepared)
  <2> HIDE DEF T
  <2>1. 0..n \subseteq T
    BY <1>1, <1>6, <1>7, InductionUpTo
  <2> QED BY <1>1, <1>4, <2>1 DEF T
<1>9. n + 1 \in 1..(n + 1) /\ (n + 1) - 1 = n
  BY <1>1
<1>10. g[n + 1] = IF n + 1 \in later THEN Append(g[n], chunk.event) ELSE g[n]
  BY <1>1, <1>5, <1>9 DEF ReadOne
<1> QED BY <1>2, <1>3, <1>8, <1>10 DEF more

(* A further write, none of it too long, leaves to be read what could be    *)
(* read before, unless it lands on an event that lacked its newline.        *)
LEMMA ReadMore ==
  ASSUME TypeInv, TypeInv', NEW chunk \in Writes, file' = Append(file, chunk), file # <<>>,
         file[Len(file)].part # "json", \A i \in DOMAIN file' : ~TooLong(i)'
  PROVE  \A i \in DOMAIN file : i \in Read' <=> i \in Read
<1> DEFINE n == Len(file)
<1>1. /\ n \in Nat /\ DOMAIN file = 1..n /\ DOMAIN file' = 1..(n + 1) /\ Len(file') = n + 1
      /\ \A k \in 1..n : file'[k] = file[k]
  BY DEF TypeInv
<1>2. \A i \in DOMAIN file : ~TooLong(i)
  BY <1>1 DEF TooLong
<1>3. Read = {i \in DOMAIN file : Parsed(i)} /\ Read' = {i \in DOMAIN file' : Parsed(i)'}
  BY <1>2 DEF Read
<1>4. ASSUME NEW i \in 1..n PROVE Parsed(i)' <=> Parsed(i)
  <2>1. file'[i] = file[i] /\ (i # 1 => file'[i - 1] = file[i - 1])
    BY <1>1
  <2>2. ~(file[i].part = "json" /\ i = n)
    OBVIOUS
  <2>3. i # n + 1
    BY <1>1
  <2> QED BY <1>1, <2>1, <2>2, <2>3 DEF Parsed
<1> QED BY <1>1, <1>3, <1>4

LEMMA EmptyIs == Summarize(<<>>) = NoEvents
<1>1. <<>> \in Seq(Prepared) /\ Len(<<>>) = 0
  OBVIOUS
<1>2. PICK f : SummaryUpTo(<<>>, 0, f) /\ Summarize(<<>>) = f[0]
  BY <1>1, SummarizeIs
<1> QED BY <1>2 DEF SummaryUpTo, GoesOnUpTo

(* What the dashboard has once shown stays until the events are cleared,    *)
(* whichever process writes next and whenever its event was stamped         *)
(* (Summarize, Read).                                                       *)
THEOREM MilestonesRemain == Spec => MilestonesStay
<1> DEFINE before == Summarize(EventsRead)
           after == Summarize(EventsRead')
           Stays == /\ file' \notin {file, <<>>} /\ file # <<>>
                    /\ file[Len(file)].part # "json" /\ \A i \in DOMAIN file' : ~TooLong(i)'
                    =>
                      /\ after.totalEvents >= before.totalEvents
                      /\ before.firstDemoSuccess => after.firstDemoSuccess
                      /\ \A m \in Milestones : before[m] # NotReached => after[m] = before[m]
                      /\ suggestNextStep(before) \in {"verify", "learn"} =>
                           suggestNextStep(after) # "demo start"
                      /\ \A r \in {"metaMaskRejection", "proofVerificationFailure"} :
                           Rates(after)[r][1] <= Rates(after)[r][2]
<1>1. ASSUME TypeInv, [Next]_vars PROVE Stays
  <2> SUFFICES ASSUME file' \notin {file, <<>>}, file # <<>>, file[Len(file)].part # "json",
                      \A i \in DOMAIN file' : ~TooLong(i)'
               PROVE  /\ after.totalEvents >= before.totalEvents
                      /\ before.firstDemoSuccess => after.firstDemoSuccess
                      /\ \A m \in Milestones : before[m] # NotReached => after[m] = before[m]
                      /\ suggestNextStep(before) \in {"verify", "learn"} =>
                           suggestNextStep(after) # "demo start"
                      /\ \A r \in {"metaMaskRejection", "proofVerificationFailure"} :
                           Rates(after)[r][1] <= Rates(after)[r][2]
    OBVIOUS
  <2>1. TypeInv'
    BY <1>1, StepTypes
  <2>2. PICK chunk \in Writes : file' = Append(file, chunk)
    <3>1. PICK p \in Processes : RecordWrite(p)
      BY <1>1 DEF Next, Step, RecordInvalid, RecordStart, RecordLoad, RecordOpen, OptIn, OptOut,
                  SaveTruncate, SaveWrite, SaveBroken, Clear, Crash, vars
    <3>2. PICK part \in Parts : file' = Append(file, Chunk(proc[p].event, part))
      BY <3>1 DEF RecordWrite
    <3>3. proc[p].event \in Prepared
      BY <1>1, <3>1 DEF RecordWrite, TypeInv, Calls, Idle
    <3> QED BY <3>2, <3>3 DEF Chunk, Writes
  <2>3. \A i \in DOMAIN file : i \in Read' <=> i \in Read
    BY <1>1, <2>1, <2>2, ReadMore
  <2>4. /\ EventsRead \in Seq(Prepared)
        /\ EventsRead' \in {EventsRead, Append(EventsRead, chunk.event)}
    <3>1. file \in Seq(Writes)
      BY <1>1 DEF TypeInv
    <3>2. /\ EventsAt(file, Read) \in Seq(Prepared)
          /\ EventsAt(Append(file, chunk), Read') =
               IF Len(file) + 1 \in Read' THEN Append(EventsAt(file, Read), chunk.event)
               ELSE EventsAt(file, Read)
      <4> DEFINE later == Read'
      <4>1. \A i \in DOMAIN file : i \in later <=> i \in Read
        BY <2>3
      <4> HIDE DEF later
      <4>2. /\ EventsAt(file, Read) \in Seq(Prepared)
            /\ EventsAt(Append(file, chunk), later) =
                 IF Len(file) + 1 \in later THEN Append(EventsAt(file, Read), chunk.event)
                 ELSE EventsAt(file, Read)
        BY <3>1, <4>1, EventsAtMore
      <4> QED BY <4>2 DEF later
    <3>3. EventsRead' = EventsAt(file', Read')
      BY DEF EventsRead
    <3> QED BY <2>2, <3>2, <3>3 DEF EventsRead
  <2>5. chunk.event \in Prepared
    BY DEF Writes
  <2>6. before \in Summaries /\ before \in Tallies
    BY <2>4, SummarizeHasType DEF Summaries
  <2>7. after = before \/ \E t0 \in Int : after = AddEvent(before, chunk.event, t0)
    BY <2>4, <2>5, OneMore
  <2> HIDE DEF before, after
  <2>8. GrowsTo(before, before)
    BY <2>6 DEF GrowsTo, Tallies
  <2>9. after \in Summaries /\ GrowsTo(before, after)
    BY <2>5, <2>6, <2>7, <2>8, AddEventIs
  <2>10. suggestNextStep(before) \in {"verify", "learn"} => suggestNextStep(after) # "demo start"
    BY <2>9 DEF suggestNextStep, GrowsTo
  <2>11. \A r \in {"metaMaskRejection", "proofVerificationFailure"} :
           Rates(after)[r][1] <= Rates(after)[r][2]
    <3>1. /\ after.mmRejected \in Nat /\ after.mmErrors \in Nat /\ after.mmRejected <= after.mmErrors
          /\ after.proofVerifyFail \in Nat /\ after.proofVerifyTotal \in Nat
          /\ after.proofVerifyFail <= after.proofVerifyTotal
      BY <2>9 DEF Summaries, Tallies
    <3>2. \A num \in Nat, den \in Nat : num <= den => rate(num, den)[1] <= rate(num, den)[2]
      BY DEF rate
    <3>3. /\ Rates(after).metaMaskRejection = rate(after.mmRejected, after.mmErrors)
          /\ Rates(after).proofVerificationFailure =
               rate(after.proofVerifyFail, after.proofVerifyTotal)
      BY DEF Rates
    <3> QED BY <3>1, <3>2, <3>3
  <2> QED BY <2>9, <2>10, <2>11 DEF GrowsTo
<1>2. Stays => [Stays]_vars
  OBVIOUS
<1> QED BY <1>1, Types, PTL DEF Spec, MilestonesStay

=============================================================================
