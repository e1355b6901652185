---------------------------- MODULE HostCommands ----------------------------
(***************************************************************************)
(* What an OS scanner of vina/scanners/os works on: it awaits one external *)
(* command after another and reads each CommandResult's fate and text.     *)
(* The text is abstracted to the set of facts the scanner looks for in it. *)
(*                                                                         *)
(* A scanner is a record:                                                  *)
(*   asks     its commands, in the order of the code                       *)
(*   says     for each command, what its text may be                       *)
(*   partial  the commands whose text is read whatever the exit code       *)
(*   certain  probes that are no commands: they cannot be lost             *)
(* and two operators named after it: its findings, as a set of titles, for *)
(* the results r of its commands; and, where the code asks a command only  *)
(* after an earlier answer, the condition.                                 *)
(***************************************************************************)
EXTENDS Naturals, Sequences, FiniteSets

Fates == {"ok", "failed", "missing", "timeout", "broken"}

(* The command did not run to its end: what it would have said is unknown. *)
(* A nonzero exit ("failed") is an answer: no such file, no such process.  *)
(* A result is marked as missing or as timed out; one that could not be    *)
(* spawned, or met an unexpected error, just has no exit code ("broken").  *)
Marked == {"missing", "timeout"}
Lost   == Marked \union {"broken"}

Unasked == [fate |-> "unasked", text |-> {}]
Result(fate, text) == [fate |-> fate, text |-> text]

(* CommandResult.succeeded: exit code 0, not timed out, not missing.       *)
Succeeded(r, c) == r[c].fate = "ok"
Says(r, c, fact) == fact \in r[c].text

Scanner(asks, says) == [asks |-> asks, says |-> says, partial |-> {}, certain |-> {}]

(* The title of a claim, if it holds.                                      *)
Raised(title, holds) == IF holds THEN {title} ELSE {}

(* File modes, as the three octal digits that stat prints.                 *)
Modes == {<<4, 0, 0>>, <<4, 0, 2>>, <<4, 4, 0>>, <<6, 0, 0>>, <<6, 0, 2>>,
          <<6, 4, 0>>, <<6, 4, 4>>, <<6, 6, 6>>, <<7, 5, 5>>, <<7, 7, 7>>}

(* int(perms): the scanners read the octal digits as a decimal number.     *)
Decimal(m) == 100 * m[1] + 10 * m[2] + m[3]

OneOf(S) == {{x} : x \in S}
ModeOf(r, c) == CHOOSE m \in Modes : m \in r[c].text
ModeAbove(r, c, limit) == Succeeded(r, c) /\ Decimal(ModeOf(r, c)) > limit
=============================================================================
