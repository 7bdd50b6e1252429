--------------------------- MODULE TelemetryStore ---------------------------
(***************************************************************************)
(* The onboarding telemetry of onboardingmetrics: Recorder (recorder.go)   *)
(* over LocalStore (local_store.go), run by several CLI processes that     *)
(* share one directory and may be killed between any two file operations.  *)
(*                                                                         *)
(* The directory holds config.json, the opt-in choice, and the events      *)
(* file, one JSON line per event.  SaveConfig is os.WriteFile: it          *)
(* truncates, then writes.  Record loads the config, opens the events file *)
(* for append and writes one line.  Each of these file operations is a     *)
(* step; a write of either file may also stop half way (full disk, kill).  *)
(***************************************************************************)
EXTENDS Integers, Sequences, FiniteSets

CONSTANTS Processes,
          Events,       \* the events callers pass to Record
          Instants,     \* what the clock may say
          MaxChunks     \* bound: writes in the events file between clears

ASSUME BoundsAssumption == MaxChunks \in Nat /\ Instants \subseteq Nat \ {0}

VARIABLES config,    \* what config.json holds
          file,      \* what the events file holds: the writes, in order
          proc,      \* process -> the call it is in
          promise,   \* history: what a Record call may rely on, see below
          choice,    \* history: the choice of the save that touched config
                     \* last, "unsettled" if it has not written all, and
          optedOut   \* history: whether the user is opted out beyond doubt

vars == <<config, file, proc, promise, choice, optedOut>>

-----------------------------------------------------------------------------
(* Events.  Free text is one of a few kinds.  A time is a positive number, *)
(* 0 if there is none, negative if it is not RFC 3339.                     *)

Sources == {"cli", "nexus", "cinema", "sdk", "hosted"}
Results == {"", "success", "failure"}
Modes == {"", "local", "kermit", "mainnet"}

Event == [version : STRING, source : STRING, time : Int, sessionId : STRING,
          event : STRING, command : STRING, persona : STRING, errorCode : STRING,
          result : STRING, mode : STRING, durationMs : Int, redacted : BOOLEAN]

ASSUME EventsAssumption == Events \subseteq Event

HashedSession == "s_hash"

WithDefaults(e, now) ==
  [e EXCEPT !.version = IF @ = "" THEN "1" ELSE @,
            !.source = IF @ = "" THEN "cli" ELSE @,
            !.time = IF @ = 0 THEN now ELSE @,
            !.sessionId = IF @ = "" THEN HashedSession ELSE @]

Validate(e) ==
  /\ e.version = "1" /\ e.source \in Sources
  /\ e.event \notin {"", "blank"} /\ e.sessionId \notin {"", "blank"}
  /\ e.time > 0
  /\ e.result \in Results /\ e.mode \in Modes
  /\ e.durationMs >= 0

(* Account URLs and long hex runs are replaced, other text is kept.        *)
scrub(text) == CASE text = "account" -> "[redacted-account]"
                 [] text = "hex" -> "[redacted-hash]"
                 [] OTHER -> text

Redact(e) == [e EXCEPT !.event = scrub(@), !.command = scrub(@), !.persona = scrub(@),
                       !.errorCode = scrub(@), !.redacted = TRUE]

(* Account URLs, long hex runs and the markers of a secret; Record does    *)
(* not ask.                                                                *)
SensitiveField(e) == \E f \in {"event", "command", "persona", "errorCode", "sessionId"} :
                       e[f] \in {"account", "hex", "secret"}

-----------------------------------------------------------------------------
(* config.json: absent, empty after a truncation, a choice, or garbled.    *)

(* Slip: a file that does not parse counts as opted out.                   *)
LoadConfigClosed == config \in {"absent", "empty", "on"}

(* Slip: the choice is not looked at.                                      *)
LoadConfigIgnored == TRUE

(* Anything but a readable opt-out means recording is on.                  *)
LoadConfig == config # "off"

(* Two saves may truncate before either writes.  Both write at offset 0,   *)
(* and "true" is a byte shorter than "false": over an opt-out it leaves    *)
(* a closing brace too many, over a garbled text it may.                   *)
Overwrite(old, value) ==
  IF value = "on" /\ old = "off" THEN {"garbled"}
  ELSE IF value = "on" /\ old = "garbled" THEN {"on", "garbled"} ELSE {value}

(* A write that breaks off leaves the old text, a beginning of the new one *)
(* or a mixture.  Over a text already there it may have come far enough:   *)
(* only white space and braces differ behind the value.                    *)
Torn(old, value) ==
  IF old = value THEN {old}
  ELSE {old, "garbled"} \cup (IF old \in {"absent", "empty"} THEN {} ELSE {value})

-----------------------------------------------------------------------------
(* The events file: a sequence of writes.  A write is a whole line, a line *)
(* without its newline, or a beginning of the JSON text.                   *)

Parts == {"line", "json", "prefix"}
Chunk(e, part) == [event |-> e, part |-> part]

(* A line is parsed if it is one write: all of it, or at the end of the    *)
(* file all but the newline.  What follows a write without newline lands   *)
(* on the same line, which then does not parse and is skipped.             *)
Parsed(i) ==
  /\ i = 1 \/ file[i - 1].part = "line"
  /\ file[i].part = "line" \/ (file[i].part = "json" /\ i = Len(file))

(* A line that the scanner's buffer does not hold is an error of Read.  A  *)
(* beginning that long counts as the whole text without its newline.       *)
TooLong(i) == file[i].event.command = "oversize" /\ file[i].part # "prefix"

(* Slip: reading stops at the first line that does not parse.              *)
ReadUntilBroken ==
  {i \in DOMAIN file : \A j \in 1..i : Parsed(j) /\ ~TooLong(j)}

(* The positions of the events Read returns, in file order; none if it     *)
(* fails.                                                                  *)
Read ==
  IF \E i \in DOMAIN file : TooLong(i) THEN {} ELSE {i \in DOMAIN file : Parsed(i)}

-----------------------------------------------------------------------------
(* Record *)

Idle == [op |-> "idle"]
Call(p, state) == proc' = [proc EXCEPT ![p] = state]

Saving(q) == proc[q].op = "save"

(* A Record that starts while the user is opted out may rely on it until   *)
(* somebody opts in ("off"), and if no SaveConfig is under way or broken,  *)
(* on the file too ("quiet").                                              *)
PromiseNow ==
  IF ~optedOut THEN "none"
  ELSE IF config = "off" /\ \A q \in Processes : ~Saving(q) THEN "quiet" ELSE "off"

RecordInvalid(p, e, now) ==   \* Validate's error is returned, nothing is touched
  /\ proc[p] = Idle /\ ~Validate(WithDefaults(e, now))
  /\ UNCHANGED vars

(* Slip: the event is validated, but stored as the caller passed it.       *)
PrepareRaw(e, now) == WithDefaults(e, now)

(* Slip: the caller's event is redacted, not the one with the defaults.    *)
PrepareBare(e, now) == Redact(e)

Prepare(e, now) == Redact(WithDefaults(e, now))

Recording == {p \in Processes : proc[p].op \in {"load", "open", "write"}}

RecordStart(p, e, now) ==
  /\ proc[p] = Idle /\ Validate(WithDefaults(e, now))
  /\ Len(file) + Cardinality(Recording) < MaxChunks
  /\ Call(p, [op |-> "load", event |-> Prepare(e, now)])
  /\ promise' = [promise EXCEPT ![p] = PromiseNow]
  /\ UNCHANGED <<config, file, choice, optedOut>>

RecordLoad(p) ==
  /\ proc[p].op = "load"
  /\ IF LoadConfig THEN Call(p, [proc[p] EXCEPT !.op = "open"]) ELSE Call(p, Idle)
  /\ UNCHANGED <<config, file, promise, choice, optedOut>>

RecordOpen(p) ==
  /\ proc[p].op = "open"
  /\ Call(p, [op |-> "write", event |-> proc[p].event, unlinked |-> FALSE])
  /\ UNCHANGED <<config, file, promise, choice, optedOut>>

(* The write lands at the end of the file, in one piece or torn; into a    *)
(* file that Clear removed after the open, it leaves no trace.             *)
RecordWrite(p) ==
  /\ proc[p].op = "write"
  /\ \/ proc[p].unlinked /\ UNCHANGED file
     \/ /\ ~proc[p].unlinked
        /\ \E part \in Parts : file' = Append(file, Chunk(proc[p].event, part))
  /\ Call(p, Idle)
  /\ UNCHANGED <<config, promise, choice, optedOut>>

-----------------------------------------------------------------------------
(* OptIn, OptOut: SaveConfig *)

SaveTruncate(p, value) ==
  /\ proc[p] = Idle
  /\ config' = "empty"
  /\ Call(p, [op |-> "save", value |-> value])
  /\ promise' = [q \in Processes |->
       IF value = "on" THEN "none" ELSE IF promise[q] = "quiet" THEN "off" ELSE promise[q]]
  /\ choice' = "unsettled" /\ optedOut' = (optedOut /\ value = "off")
  /\ UNCHANGED file

SaveWrite(p) ==
  /\ Saving(p)
  /\ config' \in Overwrite(config, proc[p].value)
  /\ Call(p, Idle)
  /\ choice' = proc[p].value
  /\ optedOut' = (proc[p].value = "off" /\ \A q \in Processes \ {p} :
                                              Saving(q) => proc[q].value = "off")
  /\ UNCHANGED <<file, promise>>

SaveBroken(p) ==   \* the write breaks off, and its error is returned
  /\ Saving(p)
  /\ config' \in Torn(config, proc[p].value)
  /\ Call(p, Idle)
  /\ choice' = "unsettled"
  /\ UNCHANGED <<file, promise, optedOut>>

OptIn(p) == SaveTruncate(p, "on")
OptOut(p) == SaveTruncate(p, "off")

-----------------------------------------------------------------------------
(* Clear removes the events file; writes to it that are under way go with  *)
(* it.  A process may be killed, or a write fail, at any point.            *)

Clear(p) ==
  /\ proc[p] = Idle
  /\ file' = <<>>
  /\ proc' = [q \in Processes |->
       IF proc[q].op = "write" THEN [proc[q] EXCEPT !.unlinked = TRUE] ELSE proc[q]]
  /\ UNCHANGED <<config, promise, choice, optedOut>>

Crash(p) ==
  /\ proc[p] # Idle
  /\ Call(p, Idle)
  /\ UNCHANGED <<config, file, promise, choice, optedOut>>

-----------------------------------------------------------------------------

Init == /\ config = "absent" /\ file = <<>>
        /\ proc = [p \in Processes |-> Idle]
        /\ promise = [p \in Processes |-> "none"]
        /\ choice = "none" /\ optedOut = FALSE

Step(p) ==
  \/ \E e \in Events, now \in Instants : RecordInvalid(p, e, now) \/ RecordStart(p, e, now)
  \/ RecordLoad(p) \/ RecordOpen(p) \/ RecordWrite(p)
  \/ OptIn(p) \/ OptOut(p) \/ SaveWrite(p) \/ SaveBroken(p)
  \/ Clear(p) \/ Crash(p)

Next == \E p \in Processes : Step(p)

Spec == Init /\ [][Next]_vars

(* A process that is in Record is scheduled until the call returns, unless *)
(* it is killed.  Nobody has to start a call.                              *)
FairSpec ==
  Spec /\ \A p \in Processes : WF_vars(RecordLoad(p) \/ RecordOpen(p) \/ RecordWrite(p))

-----------------------------------------------------------------------------
(* Properties *)

(* The files and the calls in progress have their types; an event on its    *)
(* way to the file has every field that Record fills in.                    *)
TypeOK ==
  /\ config \in {"absent", "empty", "on", "off", "garbled"}
  /\ \A i \in DOMAIN file : file[i].part \in Parts
  /\ \A p \in Processes :
       /\ proc[p].op \in {"idle", "load", "open", "write", "save"}
       /\ proc[p].op \in {"load", "open", "write"} =>
            LET e == proc[p].event IN
            e.version = "1" /\ e.source \in Sources /\ e.time > 0 /\ e.sessionId # ""
  /\ promise \in [Processes -> {"none", "off", "quiet"}]
  /\ choice \in {"none", "on", "off", "unsettled"} /\ optedOut \in BOOLEAN

(* Nothing reaches the events file, through any process, that Validate      *)
(* rejects, that is not marked redacted, or whose free text still holds an  *)
(* account URL or a long hash (Record, Append's precondition).              *)
StoredValidAndRedacted ==
  \A i \in DOMAIN file :
    LET e == file[i].event IN
    /\ Validate(e) /\ e.redacted
    /\ \A f \in {"event", "command", "persona", "errorCode"} : e[f] \notin {"account", "hex"}

(* A Record that starts after the user opted out, with no SaveConfig under  *)
(* way or broken off then and none started since, never comes to write.     *)
ConsentRespected ==
  \A p \in Processes : proc[p].op \in {"open", "write"} => promise[p] # "quiet"

(* If the save that touched config.json last has written all of its choice, *)
(* loading the config gives that choice, whatever saves lay over each       *)
(* other, broke off or were killed before it, and although the text may     *)
(* not parse.  A save that broke off or has only truncated leaves no such   *)
(* choice behind (SaveConfig, LoadConfig).                                  *)
ConfigIsLastChoice ==
  choice # "unsettled" => LoadConfig = (choice # "off")

(* Damage is local: a torn write costs Read at most one of the events that  *)
(* were recorded with success, the next one on its line.  More are lost     *)
(* only to a line that the scanner's buffer does not hold (Read).           *)
DamageIsLocal ==
  LET lost == {i \in DOMAIN file : file[i].part = "line"} \ Read IN
  \A i \in lost : \/ i > 1 /\ file[i - 1].part # "line"
                 \/ \E j \in DOMAIN file : file[j].event.command = "oversize"

(* An opt-out takes effect: once config.json says so for good, the calls    *)
(* that were already past the check end, and no other comes to open the     *)
(* events file (Record, LoadConfig).                                        *)
OptOutTakesEffect ==
  <>[](config = "off") => <>[](\A p \in Processes : proc[p].op \notin {"open", "write"})

(* What the comment of Recorder says: it writes nothing when the user has   *)
(* opted out.  A second OptOut truncates config.json before it writes, and  *)
(* a Record that loads it then takes the empty file for an opt-in.          *)
OptOutHolds ==
  \A p \in Processes : proc[p].op \in {"open", "write"} => promise[p] = "none"

(* What the comments of Validate (a sensitive event never reaches the       *)
(* store) and IsSensitive (material that must never be stored) say.  Record *)
(* scrubs URLs and hex from four fields, and stores a secret marker or a    *)
(* raw session id as it came.                                               *)
SensitiveNeverStored == \A i \in DOMAIN file : ~SensitiveField(file[i].event)
=============================================================================
