------------------------------- MODULE ScanCli -------------------------------
(***************************************************************************)
(* The scan command of sentinel/cli.py: the paths of a command line are    *)
(* audited one after the other and the exit code gates a CI job on them.   *)
(*                                                                         *)
(* A scan looks at its path three times (isfile, getsize, open) while      *)
(* other processes own the disk: Change is their step, MaxChanges bounds   *)
(* it.  What the parser and the rules make of the bytes is the content's   *)
(* class: "clean", "warn" and "error" are the worst finding of an audit,   *)
(* "malformed" makes parse_gguf raise SentinelError, "raises" makes a rule *)
(* raise anything else (MemoryError in r_block_count).                     *)
(***************************************************************************)
EXTENDS Integers, Sequences

CONSTANTS
    Names,          \* paths
    CommandLines,   \* lists of paths given to scan
    Contents,       \* classes of file contents considered
    MaxChanges      \* steps of other processes on the disk

Verdicts == {"clean", "warn", "error"}

\* argparse takes paths with nargs="+".
ASSUME ScanAssumption ==
    /\ CommandLines \subseteq Seq(Names) \ {<<>>}
    /\ Contents \subseteq Verdicts \cup {"malformed", "raises"}
    /\ MaxChanges \in Nat

Files == [kind : {"absent", "directory"}] \cup [kind : {"file"}, big : BOOLEAN, content : Contents]

-----------------------------------------------------------------------------
VARIABLES
    disk,           \* what each path names, to every process
    changes,        \* how often it changed under the scan
    held,           \* history: what each path was while it was being scanned
    paths, failOn, fatalFatal,      \* the parsed arguments
    pc, i,          \* where _cmd_scan is, in which path
    content,        \* class of the buffer read last
    exc,            \* code or class of the exception in flight
    reports,        \* one per path whose verdict was printed
    totalExit,
    exit            \* the process's exit code

args == <<paths, failOn, fatalFatal>>
world == <<disk, changes, held>>
vars == <<disk, changes, held, paths, failOn, fatalFatal, pc, i, content, exc, reports, totalExit, exit>>

EXIT_OK == 0
EXIT_ERROR == 1
EXIT_WARN == 2
EXIT_FATAL == 3
Running == -1
NoError == "none"

\* Rows of findings.CODE_SEVERITIES; "E_MALFORMED" is any code of parse_gguf.
Registered == {"E_OVERSIZED", "E_MALFORMED"}
SentinelCodes == Registered \cup {"E_NOT_A_FILE"}

Init ==
    /\ disk \in [Names -> Files] /\ changes = 0 /\ held = <<>>
    /\ paths \in CommandLines /\ failOn \in {"error", "warn", "info"} /\ fatalFatal \in BOOLEAN
    /\ pc = "next" /\ i = 0 /\ content = NoError /\ exc = NoError
    /\ reports = <<>> /\ totalExit = EXIT_OK /\ exit = Running

-----------------------------------------------------------------------------
(***************************************************************************)
(* The exit-code ladder.                                                   *)
(***************************************************************************)
WorstRank(verdict) ==
    CASE verdict = "clean" -> 0
      [] verdict = "warn" -> 1
      [] OTHER -> 2

Threshold(severity) ==
    CASE severity = "error" -> 2
      [] severity = "warn" -> 1
      [] OTHER -> 0

ExitCodeFor(verdict) ==
    IF WorstRank(verdict) < Threshold(failOn) THEN EXIT_OK
    ELSE IF Threshold(failOn) = 2 \/ WorstRank(verdict) = 2 THEN EXIT_ERROR
    ELSE EXIT_WARN

\* Mutation: the last path decides.
LastCode(old, new) == new

\* Mutation: an error is taken to be worse than a warning.
ErrorFirst(old, new) ==
    IF {old, new} = {EXIT_ERROR, EXIT_WARN} THEN EXIT_ERROR ELSE IF new > old THEN new ELSE old

WorstOf(old, new) == IF new > old THEN new ELSE old

\* Mutation: a fatal file counts like a file with an error.
FatalAsError == ExitCodeFor("fatal")

FatalCode == IF fatalFatal THEN EXIT_FATAL ELSE ExitCodeFor("fatal")

-----------------------------------------------------------------------------
(***************************************************************************)
(* One path: scan_file, then the report.                                   *)
(***************************************************************************)
Busy == {"isfile", "getsize", "read", "scan", "except"}

Goto(next) == pc' = next /\ UNCHANGED <<world, args, i, reports, totalExit, exit>>
Raise(code) == exc' = code /\ Goto("except") /\ UNCHANGED content

\* No handler of _cmd_scan takes it; main does.
Escape(error) ==
    /\ exc' = error /\ pc' = "exited" /\ exit' = EXIT_FATAL
    /\ UNCHANGED <<world, args, i, content, reports, totalExit>>

\* Mutation: the loop takes one path too many.
NextPathTooMany ==
    /\ pc = "next" /\ i <= Len(paths)
    /\ i' = i + 1 /\ pc' = "isfile"
    /\ held' = Append(held, {disk[paths[k]] : k \in {i'} \cap 1..Len(paths)})
    /\ UNCHANGED <<disk, changes, args, content, exc, reports, totalExit, exit>>

NextPath ==
    /\ pc = "next" /\ i < Len(paths)
    /\ i' = i + 1 /\ pc' = "isfile"
    /\ held' = Append(held, {disk[paths[i']]})
    /\ UNCHANGED <<disk, changes, args, content, exc, reports, totalExit, exit>>

IsFile ==
    /\ pc = "isfile"
    /\ IF disk[paths[i]].kind = "file" THEN Goto("getsize") /\ UNCHANGED <<content, exc>>
       ELSE Raise("E_NOT_A_FILE")

\* A path that vanished since isfile has no size; a directory has one.
SizeVanished == pc = "getsize" /\ disk[paths[i]].kind = "absent" /\ Escape("OSError")

TooBig(file) == file.kind = "file" /\ file.big

\* Mutation: the size is asked for and not compared.
NeverTooBig(file) == FALSE

Oversized(file) == TooBig(file)

GetSize ==
    /\ pc = "getsize" /\ disk[paths[i]].kind # "absent"
    /\ IF Oversized(disk[paths[i]]) THEN Raise("E_OVERSIZED")
       ELSE Goto("read") /\ UNCHANGED <<content, exc>>

CannotOpen == pc = "read" /\ disk[paths[i]].kind # "file" /\ Escape("OSError")

ReadFile ==
    /\ pc = "read" /\ disk[paths[i]].kind = "file"
    /\ content' = disk[paths[i]].content
    /\ Goto("scan") /\ UNCHANGED exc

Report(verdict, code) ==
    /\ reports' = Append(reports, [path |-> paths[i], verdict |-> verdict])
    /\ totalExit' = WorstOf(totalExit, code)
    /\ pc' = "next" /\ exc' = NoError
    /\ UNCHANGED <<world, args, i, content, exit>>

ScanBytes ==
    /\ pc = "scan"
    /\ \/ content \in Verdicts /\ Report(content, ExitCodeFor(content))
       \/ content = "malformed" /\ Raise("E_MALFORMED")
       \/ content = "raises" /\ Escape("Exception")

\* Mutation: the path is tried again.
HandleErrorAgain ==
    /\ pc = "except"
    /\ i' = i - 1 /\ pc' = "next" /\ exc' = NoError
    /\ held' = SubSeq(held, 1, i')
    /\ UNCHANGED <<disk, changes, args, content, reports, totalExit, exit>>

\* make refuses a code that is not registered, inside the handler.
HandleError ==
    /\ pc = "except"
    /\ IF exc \in Registered THEN Report("fatal", FatalCode) ELSE Escape(exc)

Return ==
    /\ pc = "next" /\ i = Len(paths)
    /\ pc' = "exited"
    /\ exit' = IF reports = <<>> THEN EXIT_FATAL ELSE totalExit
    /\ UNCHANGED <<world, args, i, content, exc, reports, totalExit>>

\* Another process replaces, removes, truncates or grows a file.
Change ==
    /\ pc # "exited" /\ changes < MaxChanges
    /\ \E name \in Names, file \in Files :
          /\ file # disk[name] /\ disk' = [disk EXCEPT ![name] = file]
          /\ held' = IF pc \in Busy /\ name = paths[i] THEN [held EXCEPT ![i] = @ \cup {file}]
                     ELSE held
    /\ changes' = changes + 1
    /\ UNCHANGED <<args, pc, i, content, exc, reports, totalExit, exit>>

Done == pc = "exited" /\ UNCHANGED vars

Step ==
    \/ NextPath \/ IsFile \/ SizeVanished \/ GetSize \/ CannotOpen \/ ReadFile
    \/ ScanBytes \/ HandleError \/ Return

Next == Step \/ Change \/ Done

\* The interpreter keeps running; nothing makes other processes change files.
Spec == Init /\ [][Next]_vars /\ WF_vars(Step)

-----------------------------------------------------------------------------
ReportType == [path : Names, verdict : Verdicts \cup {"fatal"}]

(***************************************************************************)
(* One report per path that is done, none for a path not yet taken.        *)
(***************************************************************************)
TypeOK ==
    /\ disk \in [Names -> Files] /\ changes \in 0..MaxChanges
    /\ paths \in Seq(Names) /\ failOn \in {"error", "warn", "info"} /\ fatalFatal \in BOOLEAN
    /\ pc \in Busy \cup {"next", "exited"}
    /\ i \in 0..Len(paths)
    /\ held \in Seq(SUBSET Files) /\ Len(held) = i
    /\ content \in Contents \cup {NoError}
    /\ exc \in SentinelCodes \cup {"OSError", "Exception", NoError}
    /\ reports \in Seq(ReportType) /\ Len(reports) \in {i - 1, i}
    /\ totalExit \in EXIT_OK..EXIT_FATAL
    /\ exit \in Running..EXIT_FATAL

\* Verdicts that --fail-on must not let through.
Fails(verdict) ==
    verdict \in IF failOn = "error" THEN {"error", "fatal"} ELSE {"warn", "error", "fatal"}

(***************************************************************************)
(* The CI gate: scan exits 0 only when every path of the command line has  *)
(* been reported on, in its order, and none of them is at or above         *)
(* --fail-on, whatever failed, in which order, and however other processes *)
(* changed the files meanwhile.                                            *)
(***************************************************************************)
ZeroMeansAllPass ==
    exit = EXIT_OK =>
        /\ Len(reports) = Len(paths)
        /\ \A k \in 1..Len(paths) : reports[k].path = paths[k] /\ ~Fails(reports[k].verdict)

(***************************************************************************)
(* Exit code 3 means that scan stopped before the end of its command line, *)
(* or that --fatal-fatal is set and some file could not be parsed; later   *)
(* paths do not mask it.                                                   *)
(***************************************************************************)
ThreeMeansFatal ==
    pc = "exited" =>
        (exit = EXIT_FATAL <=>
            \/ Len(reports) < Len(paths)
            \/ fatalFatal /\ \E k \in 1..Len(reports) : reports[k].verdict = "fatal")

(***************************************************************************)
(* One number answers for a whole batch, and the larger one wins: 2 says   *)
(* that a path failed without an error or a fatal among its findings, and  *)
(* hides the 1 of a broken path before or after it; 1 says that every path *)
(* that failed is broken.                                                  *)
(***************************************************************************)
Broken == {"error", "fatal"}
FailsMildly(verdict) ==
    verdict \in IF failOn = "error" THEN {} ELSE IF failOn = "warn" THEN {"warn"} ELSE {"warn", "clean"}

TwoMasksOne ==
    exit \in {EXIT_ERROR, EXIT_WARN} =>
        /\ exit = EXIT_WARN <=> \E k \in 1..Len(reports) : FailsMildly(reports[k].verdict)
        /\ exit = EXIT_ERROR => \E k \in 1..Len(reports) : reports[k].verdict \in Broken

(***************************************************************************)
(* Whatever other processes did to a path while it was scanned, the verdict*)
(* printed is one that something it held deserves: "fatal" is the verdict  *)
(* of one of its files, any other is what the audit of one of its files    *)
(* finds, and of a path that never held anything up to MAX_FILE nothing    *)
(* was audited.  A path that held one file only gets what that deserves.   *)
(***************************************************************************)
Deserves(file) ==
    IF file.kind # "file" THEN "none"
    ELSE IF file.big \/ file.content = "malformed" THEN "fatal" ELSE file.content

Small(states) == \E file \in states : file.kind # "absent" /\ ~TooBig(file)

VerdictsAreOfTheDisk ==
    \A k \in 1..Len(reports) :
        IF reports[k].verdict = "fatal" THEN \E file \in held[k] : Deserves(file) = "fatal"
        ELSE /\ \E file \in held[k] : file.kind = "file" /\ file.content = reports[k].verdict
             /\ Small(held[k])

(***************************************************************************)
(* scan returns whatever happens to its files.                             *)
(***************************************************************************)
Terminates == <>(pc = "exited")

(***************************************************************************)
(* findings.py: what SentinelError carries is rendered as a finding, so    *)
(* none is in flight when scan exits.                                      *)
(***************************************************************************)
SentinelErrorsAreRendered == pc = "exited" => exc \notin SentinelCodes
=============================================================================
