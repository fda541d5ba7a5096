-------------------------------- MODULE Fuzz --------------------------------
(***************************************************************************)
(* sentinel/fuzz.py: a driver draws corrupted models and hands each to a   *)
(* child interpreter of its own that scans it, so that whatever the bytes  *)
(* do to the scanner, the driver survives, books a status and goes on.     *)
(*                                                                         *)
(* Driver and child are two processes.  A child may answer, die, or never  *)
(* end; the driver waits with a timeout, and the answer may come while it  *)
(* is about to kill the child.  The payload reaches the child as one       *)
(* base64 argument, which the operating system limits in length.           *)
(***************************************************************************)
EXTENDS Integers, Sequences

CONSTANTS
    Payloads,       \* what the driver can draw
    Size,           \* payload -> its bytes
    ArgLimit,       \* longest argument, with its end mark, a process can be given
    Scans,          \* ways the scanner may treat the payloads
    Iterations

\* bytes = mutate(base, kind, seed), then one flipped byte more or not.
Payload == [kind : STRING, seed : Nat, flipped : BOOLEAN]

\* scan_bytes returns, raises SentinelError, raises anything else with a
\* message of one line or of more, takes the interpreter down, or never ends.
Outcomes == {"returns", "refuses", "raises", "raises_lines", "dies", "hangs"}

NoPayload == [kind |-> "none", seed |-> 0, flipped |-> FALSE]

ASSUME FuzzAssumption ==
    /\ Payloads \subseteq Payload \ {NoPayload} /\ Payloads # {}
    /\ Size \in [Payloads -> Nat \ {0}]
    /\ ArgLimit \in Nat /\ Iterations \in Nat
    /\ Scans \subseteq [Payloads -> Outcomes]

-----------------------------------------------------------------------------
VARIABLES
    scan,           \* how the scanner treats each payload
    saveDir,        \* whether --save-dir names a directory
    pc,             \* where the driver is
    payload,        \* the payload of this round
    child,          \* the child process: its payload, and its answer once it ended
    status,         \* what scan_child returned
    results,        \* one entry per booked round
    archive,        \* <<kind, seed>> of a file -> the payload it holds
    exit            \* exit code of sentinel fuzz

world == <<scan, saveDir>>
vars == <<scan, saveDir, pc, payload, child, status, results, archive, exit>>

Running == -1
NoChild == [state |-> "none", of |-> NoPayload, last |-> "nothing", rc |-> 0]
Alive(p) == [state |-> "running", of |-> p, last |-> "nothing", rc |-> 0]
NoFile == NoPayload
FileNames == {<<p.kind, p.seed>> : p \in Payloads}
FileName(p) == <<p.kind, p.seed>>

Init ==
    /\ scan \in Scans /\ saveDir \in BOOLEAN
    /\ pc = "draw" /\ payload = NoPayload /\ child = NoChild /\ status = "none"
    /\ results = <<>> /\ archive = [name \in FileNames |-> NoFile] /\ exit = Running

-----------------------------------------------------------------------------
(***************************************************************************)
(* The child: the script _CHILD.  SentinelError is the success contract.   *)
(***************************************************************************)
\* What is left of the output: its last line.
LastLine(outcome) ==
    IF outcome \in {"returns", "refuses"} THEN "OK"
    ELSE IF outcome = "raises" THEN "CRASH"
    ELSE IF outcome = "raises_lines" THEN "tail" ELSE "nothing"

Answer(p) ==
    [state |-> "ended", of |-> p, last |-> LastLine(scan[p]), rc |-> IF scan[p] = "dies" THEN 1 ELSE 0]

ChildEnds ==
    /\ child.state = "running" /\ scan[child.of] # "hangs"
    /\ child' = Answer(child.of)
    /\ UNCHANGED <<world, pc, payload, status, results, archive, exit>>

-----------------------------------------------------------------------------
(***************************************************************************)
(* The driver: one round is drawn, scanned, booked and archived.           *)
(***************************************************************************)
Draw ==
    /\ pc = "draw" /\ Len(results) < Iterations
    /\ payload' \in Payloads
    /\ pc' = "spawn"
    /\ UNCHANGED <<world, child, status, results, archive, exit>>

\* b64encode, and the NUL behind an argument.
ArgumentBytes(p) == 4 * ((Size[p] + 2) \div 3) + 1
Fits(p) == ArgumentBytes(p) <= ArgLimit

Spawn ==
    /\ pc = "spawn"
    /\ IF Fits(payload) THEN child' = Alive(payload) /\ pc' = "wait" /\ UNCHANGED status
       ELSE status' = "spawn_error" /\ pc' = "book" /\ UNCHANGED child
    /\ UNCHANGED <<world, payload, results, archive, exit>>

\* Mutation: only the exit status is looked at.
ClassifyByExit(answer) == IF answer.rc # 0 THEN "hard_crash" ELSE "ok"

Classify(answer) ==
    IF answer.last = "CRASH" THEN "crash"
    ELSE IF answer.rc # 0 THEN "hard_crash"
    ELSE IF answer.last = "OK" THEN "ok" ELSE "odd_output"

Collect ==
    /\ pc = "wait" /\ child.state = "ended"
    /\ status' = Classify(child) /\ child' = NoChild /\ pc' = "book"
    /\ UNCHANGED <<world, payload, results, archive, exit>>

\* Mutation: a timeout that expires is waited out again.
TimeOutAgain == pc = "wait" /\ UNCHANGED vars

TimeOut ==
    /\ pc = "wait" /\ pc' = "kill"
    /\ UNCHANGED <<world, payload, child, status, results, archive, exit>>

\* Mutation: the child of a round that timed out lives on.
KillNot ==
    /\ pc = "kill"
    /\ status' = "timeout" /\ pc' = "book"
    /\ UNCHANGED <<world, payload, child, results, archive, exit>>

\* The child may have ended since; its answer is dropped with it.
Kill ==
    /\ pc = "kill"
    /\ child' = NoChild /\ status' = "timeout" /\ pc' = "book"
    /\ UNCHANGED <<world, payload, results, archive, exit>>

\* Mutation: clean rounds are archived, the others are not.
ArchivesOk == IF status = "ok" THEN "archive" ELSE "draw"

NextPhase == IF status = "ok" THEN "draw" ELSE "archive"

Book ==
    /\ pc = "book"
    /\ results' = Append(results, [payload |-> payload, status |-> status])
    /\ pc' = NextPhase
    /\ UNCHANGED <<world, payload, child, status, archive, exit>>

Archive ==
    /\ pc = "archive"
    /\ archive' = IF saveDir THEN [archive EXCEPT ![FileName(payload)] = payload] ELSE archive
    /\ pc' = "draw"
    /\ UNCHANGED <<world, payload, child, status, results, exit>>

\* makedirs, open or write fails: fuzz has no handler, main of cli.py has.
CannotArchive ==
    /\ pc = "archive" /\ saveDir
    /\ pc' = "exited" /\ exit' = 3
    /\ UNCHANGED <<world, payload, child, status, results, archive>>

Bad(k) == results[k].status # "ok"

\* Mutation: only crashes make the command fail.
ExitOnCrash == IF \E k \in DOMAIN results : results[k].status = "crash" THEN 1 ELSE 0

ExitCode == IF \E k \in DOMAIN results : Bad(k) THEN 1 ELSE 0

Return ==
    /\ pc = "draw" /\ Len(results) = Iterations
    /\ pc' = "exited" /\ exit' = ExitCode
    /\ UNCHANGED <<world, payload, child, status, results, archive>>

Done == pc = "exited" /\ UNCHANGED vars

Drive ==
    \/ Draw \/ Spawn \/ Collect \/ TimeOut \/ Kill
    \/ Book \/ Archive \/ CannotArchive \/ Return

Next == Drive \/ ChildEnds \/ Done

\* The driver runs on, or its timeout expires; a child need never take a step.
Spec == Init /\ [][Next]_vars /\ WF_vars(Drive)

-----------------------------------------------------------------------------
Statuses == {"ok", "crash", "hard_crash", "odd_output", "timeout", "spawn_error"}
Phases == {"draw", "spawn", "wait", "kill", "book", "archive", "exited"}
ChildType ==
    [state : {"none", "running", "ended"}, of : Payloads \cup {NoPayload},
     last : {"OK", "CRASH", "tail", "nothing"}, rc : 0..1]

(***************************************************************************)
(* Type correctness; there is a child only while its round is waited for,  *)
(* and it was given the payload of that round.                             *)
(***************************************************************************)
TypeOK ==
    /\ scan \in Scans /\ saveDir \in BOOLEAN
    /\ pc \in Phases
    /\ payload \in Payloads \cup {NoPayload}
    /\ pc \in {"spawn", "wait", "kill", "book", "archive"} => payload \in Payloads
    /\ child \in ChildType
    /\ pc \in {"wait", "kill"} => child = Alive(payload) \/ child = Answer(payload)
    /\ pc \notin {"wait", "kill"} => child = NoChild
    /\ status \in Statuses \cup {"none"}
    /\ results \in Seq([payload : Payloads, status : Statuses]) /\ Len(results) <= Iterations
    /\ archive \in [FileNames -> Payloads \cup {NoFile}]
    /\ exit \in {Running, 0, 1, 3}

(***************************************************************************)
(* A booked status is the scanner's own doing with the payload of that     *)
(* round, however long children take and whenever they answer: a round is  *)
(* ok only when the scan ended with findings or a coded refusal, a crash   *)
(* is an exception that escaped, and only a timeout says nothing of them.  *)
(***************************************************************************)
StatusOf ==
    [returns |-> {"ok"}, refuses |-> {"ok"}, raises |-> {"crash"}, raises_lines |-> {"odd_output"},
     dies |-> {"hard_crash"}, hangs |-> {}]

MayBe(p) == IF Fits(p) THEN {"timeout"} \cup StatusOf[scan[p]] ELSE {"spawn_error"}

VerdictsAreTheirOwn == \A k \in DOMAIN results : results[k].status \in MayBe(results[k].payload)

(***************************************************************************)
(* With --save-dir, when the next round is drawn every offender has a file *)
(* of its kind and seed, and every file holds an offender of them, though  *)
(* a later one may have replaced the one that made the file.               *)
(***************************************************************************)
OffendersAreArchived ==
    pc = "draw" /\ saveDir =>
        /\ \A k \in DOMAIN results : Bad(k) => archive[FileName(results[k].payload)] # NoFile
        /\ \A name \in FileNames :
              archive[name] # NoFile =>
                  /\ FileName(archive[name]) = name
                  /\ \E k \in DOMAIN results : Bad(k) /\ results[k].payload = archive[name]

(***************************************************************************)
(* sentinel fuzz exits 0 only after all its rounds, each of which scanned  *)
(* its payload to the end without an exception that is no SentinelError.   *)
(***************************************************************************)
ZeroProvesClean ==
    exit = 0 =>
        /\ Len(results) = Iterations
        /\ \A k \in 1..Iterations : scan[results[k].payload] \in {"returns", "refuses"}

(***************************************************************************)
(* The fuzzer ends although every child may hang.                          *)
(***************************************************************************)
Terminates == <>(pc = "exited")

(***************************************************************************)
(* README.md:86: every payload is scanned in a clean subprocess, so a real *)
(* crash is proved.  So no round is booked without a child.                *)
(***************************************************************************)
EveryPayloadIsScanned == \A k \in DOMAIN results : results[k].status # "spawn_error"
=============================================================================
