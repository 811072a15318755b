-------------------------------- MODULE MbIo --------------------------------
(***************************************************************************)
(* I/O by name, src/sp_mb.c: sp_io_config reads where the device has its   *)
(* inputs and outputs and how many, sp_mbio_get and sp_mbio_set turn an    *)
(* index into a request. An exchange ends as MbMaster lets it.             *)
(* Operators marked "Fault" are faulty variants of the ones after them;    *)
(* the specification does not use them.                                    *)
(***************************************************************************)
EXTENDS Integers, Sequences, SequencesExt

CONSTANTS
  RegMod,   \* registers, indices and counts are UINT16_T: 65536
  Files,    \* the configuration files there may be: sequences of lines
  Inputs    \* the inputs that may be on; they stay as they are

Keys == {"IADDR_START", "I_NUMBER", "OADDR_START", "O_NUMBER"}

(* A line of the file, as strtok leaves it: a key and the value after "=",  *)
(* or only a key (value NoValue). Comments and empty lines have no key.     *)
NoValue == -1
FileLine == [key : Keys \union {"other", "none"}, value : Nat \union {NoValue}]

ASSUME MbIoAssumption ==
  /\ RegMod \in Nat \ {0}
  /\ \A f \in Files : f \in Seq(FileLine)
  /\ Inputs \subseteq SUBSET Nat

VARIABLES
  file,   \* the lines of mb_io.conf still to be read
  given,  \* ghost: those that have been
  key1,   \* key[1] of sp_io_config, which no line clears
  conf,   \* mb_ctx->mb_ioconf
  ins,    \* the device's inputs that are on
  outs,   \* and its outputs
  io      \* ghost: the latest call and what it made of it

confVars == <<file, given, key1, conf>>
ioVars   == <<ins, outs, io>>

NoCall == [op |-> "none", idx |-> 0, code |-> 0, reg |-> 0, status |-> FALSE,
           answer |-> "none"]

IoInit ==
  /\ file \in Files /\ given = <<>>
  /\ key1 = 0
  /\ conf = [k \in Keys |-> 0]
  /\ ins \in Inputs /\ outs = {}
  /\ io = NoCall

\* Fault: the value of a line is kept for the key of the next one.
SettingLate(line) == key1

\* What a line sets its key to; without "=" that is what was read before.
Setting(line) == IF line.value = NoValue THEN key1 ELSE line.value % RegMod

\* One turn of sp_io_config's loop.
ConfigLine ==
  /\ file # <<>>
  /\ LET line == Head(file)
     IN /\ key1' = IF line.key = "none" THEN key1 ELSE Setting(line)
        /\ conf' = IF line.key \in Keys THEN [conf EXCEPT ![line.key] = Setting(line)]
                   ELSE conf
        /\ given' = Append(given, line)
  /\ file' = Tail(file)
  /\ UNCHANGED ioVars

Index(n) == n % RegMod

\* Fault: the index is compared with the other direction's number.
InRangeSwapped(dir, i) == i < IF dir = "in" THEN conf["O_NUMBER"] ELSE conf["I_NUMBER"]
InRange(dir, i) == i < IF dir = "in" THEN conf["I_NUMBER"] ELSE conf["O_NUMBER"]

Register(dir, i) ==
  (i + IF dir = "in" THEN conf["IADDR_START"] ELSE conf["OADDR_START"]) % RegMod

ReadCode(dir) == IF dir = "in" THEN 2 ELSE 1

\* What the device has at a register, for each function code.
DeviceAt(code, reg) == reg \in IF code = 2 THEN ins ELSE outs

Call(op, n, code, reg) ==
  [NoCall EXCEPT !.op = op, !.idx = n, !.code = code, !.reg = reg]

\* An index that is not configured is refused before anything is sent.
Refuse(op, n) ==
  /\ io' = [NoCall EXCEPT !.op = op, !.idx = n, !.answer = "refused"]
  /\ UNCHANGED <<ins, outs>>

\* sp_mbio_get does not look at err: an exception is an answer whose value
\* is still zero.
IoGet(dir, n) ==
  LET reg  == Register(dir, Index(n))
      call == Call(dir, n, ReadCode(dir), reg)
  IN IF ~InRange(dir, Index(n)) THEN Refuse(dir, n)
     ELSE /\ io' \in {[call EXCEPT !.answer = "done", !.status = DeviceAt(call.code, reg)],
                      [call EXCEPT !.answer = "exception"],
                      [call EXCEPT !.answer = "failed"]}
          /\ UNCHANGED <<ins, outs>>

\* sp_mbio_set neither.
IoSet(n, on) ==
  LET reg  == Register("out", Index(n))
      call == [Call("set", n, 5, reg) EXCEPT !.status = on]
      then == IF on THEN outs \union {reg} ELSE outs \ {reg}
  IN IF ~InRange("out", Index(n)) THEN Refuse("set", n)
     ELSE /\ \/ outs' = then /\ io' = [call EXCEPT !.answer = "done"]
             \/ outs' = outs /\ io' = [call EXCEPT !.answer = "exception"]
             \/ outs' \in {outs, then} /\ io' = [call EXCEPT !.answer = "failed"]
          /\ UNCHANGED ins
-----------------------------------------------------------------------------
(* Properties.                                                             *)

\* Each setting is what the file's last line for it says, or 0 if there is
\* none, whatever lines stand between; lines without a value are excepted,
\* as they take over the value of the line before (sp_io_config).
LinesFor(k) == {i \in DOMAIN given : given[i].key = k}
SettingsAreTheirs ==
  (\A i \in DOMAIN given : given[i].value # NoValue) =>
    \A k \in Keys :
      \/ LinesFor(k) = {} /\ conf[k] = 0
      \/ \E i \in LinesFor(k) : /\ \A j \in LinesFor(k) : j <= i
                               /\ conf[k] = given[i].value % RegMod

\* What a call reports of a coil, or does to it, is the coil of its own
\* direction at the configured place, and one that was configured; only an
\* exception, which counts as an answer, reports "off" for a coil that is on.
CallsMeetTheirCoil ==
  io.answer = "done" =>
    LET dir   == IF io.op = "in" THEN "in" ELSE "out"
        start == conf[IF dir = "in" THEN "IADDR_START" ELSE "OADDR_START"]
        size  == conf[IF dir = "in" THEN "I_NUMBER" ELSE "O_NUMBER"]
    IN /\ \E k \in 0..(size - 1) : io.reg = (start + k) % RegMod /\ k = io.idx % RegMod
       /\ io.status = (io.reg \in IF dir = "in" THEN ins ELSE outs)
=============================================================================
