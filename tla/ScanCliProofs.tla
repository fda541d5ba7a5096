---------------------------- MODULE ScanCliProofs ----------------------------
(***************************************************************************)
(* Theorems about ScanCli, for every set of files, every command line and  *)
(* any number of changes of the disk.                                      *)
(***************************************************************************)
EXTENDS ScanCli, SequenceTheorems, TLAPS

(***************************************************************************)
(* The inductive invariant: the loop has reported on exactly the paths it  *)
(* has left behind, and totalExit already answers for all of them.         *)
(***************************************************************************)
Progress ==
    /\ paths # <<>>
    /\ pc = "next" => Len(reports) = i
    /\ pc \in Busy => i >= 1 /\ Len(reports) = i - 1
    /\ \A k \in 1..Len(reports) : reports[k].path = paths[k]

Raised == pc = "except" => exc # NoError

Gate ==
    /\ totalExit = EXIT_OK => \A k \in 1..Len(reports) : ~Fails(reports[k].verdict)
    /\ totalExit = EXIT_FATAL <=>
           fatalFatal /\ \E k \in 1..Len(reports) : reports[k].verdict = "fatal"

Ladder ==
    totalExit # EXIT_FATAL =>
        /\ totalExit = EXIT_WARN <=> \E k \in 1..Len(reports) : FailsMildly(reports[k].verdict)
        /\ totalExit = EXIT_ERROR => \E k \in 1..Len(reports) : reports[k].verdict \in Broken

Ending ==
    /\ pc # "exited" => exit = Running
    /\ pc = "exited" => \/ exit = EXIT_FATAL /\ Len(reports) < Len(paths)
                        \/ exit = totalExit /\ Len(reports) = Len(paths)

IInv == TypeOK /\ Progress /\ Raised /\ Gate /\ Ladder /\ Ending

LEMMA InitGates == Init => IInv
  <1> SUFFICES ASSUME Init PROVE IInv
    OBVIOUS
  <1>1. paths \in Seq(Names) /\ paths # <<>>
    BY ScanAssumption DEF Init
  <1>2. TypeOK
    BY <1>1, ScanAssumption DEF Init, TypeOK, EXIT_OK, EXIT_FATAL, Running
  <1>3. Progress /\ Raised /\ Gate /\ Ladder /\ Ending
    BY <1>1 DEF Init, Raised, Progress, Gate, Ladder, Ending, Busy, EXIT_OK, EXIT_ERROR, EXIT_WARN, EXIT_FATAL
  <1> QED BY <1>2, <1>3 DEF IInv

\* The code a verdict adds: a fatal one may ask for 3, none above --fail-on adds 0.
CodeOf(verdict) == IF verdict = "fatal" THEN FatalCode ELSE ExitCodeFor(verdict)

LEMMA CodeFacts ==
    ASSUME TypeOK, NEW v \in Verdicts \cup {"fatal"}
    PROVE  /\ CodeOf(v) \in EXIT_OK..EXIT_FATAL
           /\ CodeOf(v) = EXIT_OK => ~Fails(v)
           /\ CodeOf(v) = EXIT_FATAL <=> fatalFatal /\ v = "fatal"
           /\ CodeOf(v) # EXIT_FATAL => (CodeOf(v) = EXIT_WARN <=> FailsMildly(v))
           /\ CodeOf(v) = EXIT_ERROR => v \in Broken
  <1>1. v \in {"clean", "warn", "error", "fatal"} /\ failOn \in {"error", "warn", "info"}
    BY DEF Verdicts, TypeOK
  <1>2. WorstRank(v) = IF v = "clean" THEN 0 ELSE IF v = "warn" THEN 1 ELSE 2
    BY DEF WorstRank
  <1>3. Threshold(failOn) = IF failOn = "error" THEN 2 ELSE IF failOn = "warn" THEN 1 ELSE 0
    BY DEF Threshold
  <1>4. ExitCodeFor(v) \in {0, 1, 2} /\ (ExitCodeFor(v) = 0 => ~Fails(v))
    BY <1>1, <1>2, <1>3 DEF ExitCodeFor, Fails, EXIT_OK, EXIT_ERROR, EXIT_WARN
  <1>5. ExitCodeFor(v) = 2 <=> FailsMildly(v)
    BY <1>1, <1>2, <1>3 DEF ExitCodeFor, FailsMildly, EXIT_OK, EXIT_ERROR, EXIT_WARN
  <1>6. ExitCodeFor(v) = 1 => v \in Broken
    BY <1>1, <1>2, <1>3 DEF ExitCodeFor, Broken, EXIT_OK, EXIT_ERROR, EXIT_WARN
  <1> QED BY <1>4, <1>5, <1>6 DEF CodeOf, FatalCode, EXIT_OK, EXIT_ERROR, EXIT_WARN, EXIT_FATAL

LEMMA WorstFacts ==
    ASSUME NEW old \in EXIT_OK..EXIT_FATAL, NEW new \in EXIT_OK..EXIT_FATAL
    PROVE  /\ WorstOf(old, new) \in EXIT_OK..EXIT_FATAL
           /\ WorstOf(old, new) = EXIT_OK <=> old = EXIT_OK /\ new = EXIT_OK
           /\ WorstOf(old, new) = EXIT_FATAL <=> old = EXIT_FATAL \/ new = EXIT_FATAL
           /\ WorstOf(old, new) # EXIT_FATAL =>
                  (WorstOf(old, new) = EXIT_WARN <=> old = EXIT_WARN \/ new = EXIT_WARN)
           /\ WorstOf(old, new) = EXIT_ERROR => old = EXIT_ERROR \/ new = EXIT_ERROR
  BY DEF WorstOf, EXIT_OK, EXIT_ERROR, EXIT_WARN, EXIT_FATAL

\* A step inside one path: control, the buffer and the exception move.
LEMMA GotoGates ==
    ASSUME IInv, pc \in Busy, NEW next \in Busy, Goto(next),
           content' \in Contents \cup {NoError},
           exc' \in SentinelCodes \cup {"OSError", "Exception", NoError},
           next = "except" => exc' # NoError
    PROVE  IInv'
  <1>1. UNCHANGED <<disk, changes, held, paths, failOn, fatalFatal, i, reports, totalExit, exit>> /\ pc' = next
    BY DEF Goto, world, args
  <1>2. next # "next" /\ next # "exited" /\ pc # "next" /\ pc # "exited"
    BY DEF Busy
  <1>3. TypeOK'
    BY <1>1 DEF IInv, TypeOK, SentinelCodes, Registered, NoError, Busy, Files, ReportType, Verdicts
  <1>4. Progress'
    BY <1>1, <1>2 DEF IInv, Progress, Busy
  <1>5. Gate' /\ Ladder'
    BY <1>1 DEF IInv, Gate, Ladder, Fails, FailsMildly
  <1>6. Ending'
    BY <1>1, <1>2 DEF IInv, Ending
  <1> QED BY <1>1, <1>3, <1>4, <1>5, <1>6 DEF IInv, Raised

LEMMA EscapeGates ==
    ASSUME IInv, pc \in Busy, NEW error \in SentinelCodes \cup {"OSError", "Exception"}, Escape(error)
    PROVE  IInv'
  <1>1. /\ UNCHANGED <<disk, changes, held, paths, failOn, fatalFatal, i, content, reports, totalExit>>
        /\ pc' = "exited" /\ exit' = EXIT_FATAL /\ exc' = error
    BY DEF Escape, world, args
  <1>2. TypeOK'
    BY <1>1 DEF IInv, TypeOK, SentinelCodes, Registered, NoError, Busy, Files, ReportType, Verdicts,
                EXIT_FATAL, Running
  <1>3. Progress'
    BY <1>1 DEF IInv, Progress, Busy
  <1>4. Gate' /\ Ladder'
    BY <1>1 DEF IInv, Gate, Ladder, Fails, FailsMildly
  <1>5. Len(reports) = i - 1 /\ i \in 0..Len(paths) /\ Len(paths) \in Nat
    BY DEF IInv, Progress, TypeOK
  <1>6. Ending'
    BY <1>1, <1>5 DEF Ending
  <1> QED BY <1>1, <1>2, <1>3, <1>4, <1>6 DEF IInv, Raised

\* A verdict is printed and its code joins the others.
LEMMA ReportGates ==
    ASSUME IInv, pc \in Busy, NEW v \in Verdicts \cup {"fatal"}, Report(v, CodeOf(v))
    PROVE  IInv'
  <1> DEFINE r == [path |-> paths[i], verdict |-> v]
             n == Len(reports)
  <1>1. /\ UNCHANGED <<disk, changes, held, paths, failOn, fatalFatal, i, content, exit>>
        /\ pc' = "next" /\ exc' = NoError
        /\ reports' = Append(reports, r) /\ totalExit' = WorstOf(totalExit, CodeOf(v))
    BY DEF Report, world, args
  <1>2. /\ TypeOK /\ reports \in Seq(ReportType) /\ paths \in Seq(Names)
        /\ n \in Nat /\ i = n + 1 /\ i \in 1..Len(paths)
    BY DEF IInv, TypeOK, Progress
  <1>3. r \in ReportType
    BY <1>2 DEF ReportType
  <1>4. /\ reports' \in Seq(ReportType) /\ Len(reports') = n + 1
        /\ reports'[n + 1] = r /\ \A k \in 1..n : reports'[k] = reports[k]
    BY <1>1, <1>2, <1>3
  <1>5. totalExit \in EXIT_OK..EXIT_FATAL /\ CodeOf(v) \in EXIT_OK..EXIT_FATAL
    BY <1>2, CodeFacts DEF TypeOK
  <1>6. TypeOK'
    <2>1. totalExit' \in EXIT_OK..EXIT_FATAL
      BY <1>1, <1>5, WorstFacts
    <2> QED BY <1>1, <1>2, <1>4, <2>1 DEF TypeOK, SentinelCodes, Registered, NoError, Busy, Files
  <1>7. Progress'
    <2>1. \A k \in 1..n : reports[k].path = paths[k]
      BY DEF IInv, Progress
    <2>2. \A k \in 1..n + 1 : reports'[k].path = paths[k]
      BY <1>2, <1>4, <2>1
    <2> QED BY <1>1, <1>2, <1>4, <2>2 DEF IInv, Progress, Busy
  <1>8. Gate'
    <2>1. totalExit' = EXIT_OK => \A k \in 1..n + 1 : ~Fails(reports'[k].verdict)
      <3> SUFFICES ASSUME totalExit' = EXIT_OK, NEW k \in 1..n + 1
                   PROVE  ~Fails(reports'[k].verdict)
        OBVIOUS
      <3>1. totalExit = EXIT_OK /\ CodeOf(v) = EXIT_OK
        BY <1>1, <1>5, WorstFacts
      <3>2. CASE k = n + 1
        BY <1>2, <1>4, <3>1, <3>2, CodeFacts
      <3>3. CASE k # n + 1
        <4>1. k \in 1..n
          BY <1>2, <3>3
        <4> QED BY <1>4, <3>1, <4>1 DEF IInv, Gate
      <3> QED BY <3>2, <3>3
    <2>2. (\E k \in 1..n + 1 : reports'[k].verdict = "fatal") <=>
              v = "fatal" \/ \E k \in 1..n : reports[k].verdict = "fatal"
      <3>1. n + 1 \in 1..n + 1 /\ 1..n + 1 = 1..n \cup {n + 1}
        BY <1>2
      <3> QED BY <1>4, <3>1
    <2>3. totalExit = EXIT_FATAL <=> fatalFatal /\ \E k \in 1..n : reports[k].verdict = "fatal"
      BY DEF IInv, Gate
    <2>4. totalExit' = EXIT_FATAL <=> totalExit = EXIT_FATAL \/ CodeOf(v) = EXIT_FATAL
      BY <1>1, <1>5, WorstFacts
    <2>5. CodeOf(v) = EXIT_FATAL <=> fatalFatal /\ v = "fatal"
      BY <1>2, CodeFacts
    <2>6. totalExit' = EXIT_FATAL <=>
              fatalFatal /\ \E k \in 1..n + 1 : reports'[k].verdict = "fatal"
      BY <2>2, <2>3, <2>4, <2>5
    <2> QED BY <1>1, <1>4, <2>1, <2>6 DEF Gate, Fails
  <1>9. Ladder'
    <2> DEFINE now == 1..n
               later == 1..n + 1
    <2>0. later = now \cup {n + 1} /\ n + 1 \notin now
      BY <1>2
    <2>1. totalExit' # EXIT_FATAL => totalExit # EXIT_FATAL /\ CodeOf(v) # EXIT_FATAL
      BY <1>1, <1>5, WorstFacts
    <2>2. /\ (\E k \in later : FailsMildly(reports'[k].verdict)) <=>
                 FailsMildly(v) \/ \E k \in now : FailsMildly(reports[k].verdict)
          /\ (\E k \in later : reports'[k].verdict \in Broken) <=>
                 v \in Broken \/ \E k \in now : reports[k].verdict \in Broken
      <3> HIDE DEF now, later, n, r
      <3>1. r.verdict = v
        BY DEF r
      <3>2. reports'[n + 1] = r /\ \A k \in now : reports'[k] = reports[k]
        BY <1>4 DEF now, n, r
      <3> QED BY <2>0, <3>1, <3>2
    <2>3. totalExit' # EXIT_FATAL => (totalExit' = EXIT_WARN <=> totalExit = EXIT_WARN \/ CodeOf(v) = EXIT_WARN)
      BY <1>1, <1>5, WorstFacts
    <2>4. totalExit' = EXIT_ERROR => totalExit = EXIT_ERROR \/ CodeOf(v) = EXIT_ERROR
      BY <1>1, <1>5, WorstFacts
    <2>5. /\ CodeOf(v) # EXIT_FATAL => (CodeOf(v) = EXIT_WARN <=> FailsMildly(v))
          /\ CodeOf(v) = EXIT_ERROR => v \in Broken
      BY <1>2, CodeFacts
    <2>6. totalExit # EXIT_FATAL =>
              /\ totalExit = EXIT_WARN <=> \E k \in now : FailsMildly(reports[k].verdict)
              /\ totalExit = EXIT_ERROR => \E k \in now : reports[k].verdict \in Broken
      BY DEF IInv, Ladder
    <2>7. totalExit' # EXIT_FATAL =>
              /\ totalExit' = EXIT_WARN <=> \E k \in later : FailsMildly(reports'[k].verdict)
              /\ totalExit' = EXIT_ERROR => \E k \in later : reports'[k].verdict \in Broken
      <3> HIDE DEF now, later, n
      <3> QED BY <2>1, <2>2, <2>3, <2>4, <2>5, <2>6
    <2> QED BY <1>1, <1>4, <2>7 DEF Ladder, FailsMildly
  <1>10. Ending'
    BY <1>1 DEF IInv, Ending, Busy
  <1> QED BY <1>1, <1>6, <1>7, <1>8, <1>9, <1>10 DEF IInv, Raised

LEMMA StepGates == IInv /\ [Next]_vars => IInv'
  <1> SUFFICES ASSUME IInv, [Next]_vars PROVE IInv'
    OBVIOUS
  <1>0. TypeOK
    BY DEF IInv
  <1>1. CASE NextPath
    <2>1. /\ UNCHANGED <<disk, changes, paths, failOn, fatalFatal, content, exc, reports, totalExit, exit>>
          /\ pc = "next" /\ i < Len(paths) /\ i' = i + 1 /\ pc' = "isfile"
          /\ held' = Append(held, {disk[paths[i']]})
      BY <1>1 DEF NextPath, args
    <2>2. i \in Nat /\ Len(paths) \in Nat /\ Len(reports) = i
      BY <1>0, <2>1 DEF IInv, Progress, TypeOK
    <2>3. held' \in Seq(SUBSET Files) /\ Len(held') = i'
      <3>1. disk[paths[i']] \in Files
        BY <1>0, <2>1, <2>2 DEF TypeOK
      <3> QED BY <1>0, <2>1, <2>2, <3>1 DEF TypeOK
    <2>4. TypeOK'
      BY <1>0, <2>1, <2>2, <2>3 DEF TypeOK, Files, ReportType, Busy
    <2>5. Progress' /\ Raised' /\ Gate' /\ Ladder' /\ Ending'
      BY <2>1, <2>2 DEF IInv, Raised, Progress, Gate, Ladder, Fails, FailsMildly, Ending, Busy
    <2> QED BY <2>4, <2>5 DEF IInv
  <1>2. CASE IsFile
    <2>1. \/ content' = content /\ exc' = exc /\ Goto("getsize")
          \/ content' = content /\ exc' = "E_NOT_A_FILE" /\ Goto("except")
      BY <1>2 DEF IsFile, Raise
    <2> QED BY <1>0, <1>2, <2>1, GotoGates DEF IsFile, TypeOK, Busy, SentinelCodes, NoError
  <1>3. CASE SizeVanished
    BY <1>3, EscapeGates DEF SizeVanished, Busy
  <1>4. CASE GetSize
    <2>1. \/ content' = content /\ exc' = exc /\ Goto("read")
          \/ content' = content /\ exc' = "E_OVERSIZED" /\ Goto("except")
      BY <1>4 DEF GetSize, Raise
    <2> QED BY <1>0, <1>4, <2>1, GotoGates DEF GetSize, TypeOK, Busy, SentinelCodes, Registered, NoError
  <1>5. CASE CannotOpen
    BY <1>5, EscapeGates DEF CannotOpen, Busy
  <1>6. CASE ReadFile
    <2>1. disk[paths[i]].kind = "file" /\ content' = disk[paths[i]].content /\ exc' = exc /\ Goto("scan")
      BY <1>6 DEF ReadFile
    <2>2. i \in 1..Len(paths)
      BY <1>0, <1>6 DEF IInv, Progress, TypeOK, ReadFile, Busy
    <2>3. disk[paths[i]] \in Files
      BY <1>0, <2>2 DEF TypeOK
    <2>4. content' \in Contents
      BY <2>1, <2>3 DEF Files
    <2> QED BY <1>0, <1>6, <2>1, <2>4, GotoGates DEF ReadFile, TypeOK, Busy
  <1>7. CASE ScanBytes
    <2>1. CASE content \in Verdicts /\ Report(content, ExitCodeFor(content))
      <3>1. content # "fatal"
        BY <2>1 DEF Verdicts
      <3> QED BY <1>7, <2>1, <3>1, ReportGates DEF ScanBytes, Busy, CodeOf
    <2>2. CASE content = "malformed" /\ Raise("E_MALFORMED")
      BY <1>0, <1>7, <2>2, GotoGates DEF ScanBytes, Raise, TypeOK, Busy, SentinelCodes, Registered, NoError
    <2>3. CASE content = "raises" /\ Escape("Exception")
      BY <1>7, <2>3, EscapeGates DEF ScanBytes, Busy
    <2> QED BY <1>7, <2>1, <2>2, <2>3 DEF ScanBytes
  <1>8. CASE HandleError
    <2>1. CASE exc \in Registered
      BY <1>8, <2>1, ReportGates DEF HandleError, Busy, CodeOf
    <2>2. CASE exc \notin Registered
      <3>1. exc \in SentinelCodes \cup {"OSError", "Exception"}
        BY <1>0, <1>8 DEF IInv, Raised, HandleError, TypeOK
      <3> QED BY <1>8, <2>2, <3>1, EscapeGates DEF HandleError, Busy
    <2> QED BY <2>1, <2>2
  <1>9. CASE Return
    <2>1. /\ UNCHANGED <<disk, changes, held, paths, failOn, fatalFatal, i, content, exc, reports, totalExit>>
          /\ pc = "next" /\ i = Len(paths) /\ pc' = "exited"
          /\ exit' = IF reports = <<>> THEN EXIT_FATAL ELSE totalExit
      BY <1>9 DEF Return, world, args
    <2>2. Len(reports) = Len(paths) /\ reports # <<>>
      BY <1>0, <2>1 DEF IInv, Progress, TypeOK
    <2>3. TypeOK'
      BY <1>0, <2>1, <2>2 DEF TypeOK, Files, ReportType, Busy, EXIT_OK, EXIT_FATAL, Running
    <2>4. Progress' /\ Raised' /\ Gate' /\ Ladder' /\ Ending'
      BY <2>1, <2>2 DEF IInv, Raised, Progress, Gate, Ladder, Fails, FailsMildly, Ending, Busy
    <2> QED BY <2>3, <2>4 DEF IInv
  <1>10. CASE Change
    <2>1. PICK name \in Names, file \in Files :
              /\ disk' = [disk EXCEPT ![name] = file]
              /\ held' = IF pc \in Busy /\ name = paths[i] THEN [held EXCEPT ![i] = @ \cup {file}]
                         ELSE held
      BY <1>10 DEF Change
    <2>2. /\ UNCHANGED <<paths, failOn, fatalFatal, pc, i, content, exc, reports, totalExit, exit>>
          /\ changes < MaxChanges /\ changes' = changes + 1
      BY <1>10 DEF Change, args
    <2>3. disk' \in [Names -> Files] /\ changes' \in 0..MaxChanges
      BY <1>0, <2>1, <2>2, ScanAssumption DEF TypeOK
    <2>4. held' \in Seq(SUBSET Files) /\ Len(held') = i
      <3>1. held \in Seq(SUBSET Files) /\ Len(held) = i
        BY <1>0 DEF TypeOK
      <3>2. CASE pc \in Busy
        <4> DEFINE seen == held[i] \cup {file}
        <4>1. i \in 1..Len(held)
          BY <1>0, <3>1, <3>2 DEF IInv, Progress, TypeOK
        <4>2. seen \in SUBSET Files
          BY <3>1, <4>1
        <4>3. held' \in {held, [held EXCEPT ![i] = seen]}
          BY <2>1
        <4> HIDE DEF seen
        <4> QED BY <3>1, <4>1, <4>2, <4>3, ExceptSeq
      <3> QED BY <2>1, <3>1, <3>2
    <2>5. TypeOK'
      BY <1>0, <2>2, <2>3, <2>4 DEF TypeOK, ReportType, Busy
    <2>6. Progress' /\ Raised' /\ Gate' /\ Ladder' /\ Ending'
      BY <2>2 DEF IInv, Raised, Progress, Gate, Ladder, Fails, FailsMildly, Ending, Busy
    <2> QED BY <2>5, <2>6 DEF IInv
  <1>11. CASE UNCHANGED vars
    BY <1>11 DEF vars, IInv, Raised, TypeOK, Files, ReportType, Busy, Progress, Gate, Ladder, Fails, FailsMildly, Ending
  <1> QED BY <1>1, <1>2, <1>3, <1>4, <1>5, <1>6, <1>7, <1>8, <1>9, <1>10, <1>11 DEF Next, Step, Done

LEMMA BatchGates == Spec => []IInv
  BY InitGates, StepGates, PTL DEF Spec

(***************************************************************************)
(* The state of _cmd_scan is well formed: one report per finished path.    *)
(***************************************************************************)
THEOREM TypeCorrect == Spec => []TypeOK
  <1>1. IInv => TypeOK
    BY DEF IInv
  <1> QED BY <1>1, BatchGates, PTL

(***************************************************************************)
(* The CI gate holds for batches of any length, on any disk, however often *)
(* other processes change it between and inside the scans.                 *)
(***************************************************************************)
THEOREM GateHolds == Spec => []ZeroMeansAllPass
  <1>1. ASSUME IInv, exit = EXIT_OK
        PROVE  /\ Len(reports) = Len(paths)
               /\ \A k \in 1..Len(paths) : reports[k].path = paths[k] /\ ~Fails(reports[k].verdict)
    BY <1>1 DEF IInv, Progress, Gate, Ending, TypeOK, EXIT_OK, EXIT_FATAL, Running
  <1>2. IInv => ZeroMeansAllPass
    BY <1>1 DEF ZeroMeansAllPass
  <1> QED BY <1>2, BatchGates, PTL

(***************************************************************************)
(* Exit code 3 is neither masked by later paths nor given without cause.   *)
(***************************************************************************)
THEOREM FatalIsNotMasked == Spec => []ThreeMeansFatal
  <1>1. IInv => ThreeMeansFatal
    BY DEF IInv, Gate, Ending, TypeOK, ThreeMeansFatal, EXIT_OK, EXIT_FATAL
  <1> QED BY <1>1, BatchGates, PTL

(***************************************************************************)
(* The larger of two codes is the milder one: 2 is given exactly when some *)
(* path failed without being broken, in whatever place of the batch.       *)
(***************************************************************************)
THEOREM TwoHidesOne == Spec => []TwoMasksOne
  <1>1. IInv => TwoMasksOne
    BY DEF IInv, Ladder, Ending, TypeOK, TwoMasksOne, EXIT_OK, EXIT_ERROR, EXIT_WARN, EXIT_FATAL, Running
  <1> QED BY <1>1, BatchGates, PTL

(***************************************************************************)
(* What a scan has found at its path so far was found in something that    *)
(* the path held since the scan began.                                     *)
(***************************************************************************)
HeldNow == held[i]

Found(verdict, states) ==
    IF verdict = "fatal" THEN \E file \in states : Deserves(file) = "fatal"
    ELSE /\ \E file \in states : file.kind = "file" /\ file.content = verdict
         /\ Small(states)

Looked ==
    /\ pc \in Busy => disk[paths[i]] \in HeldNow
    /\ pc \in {"read", "scan"} => Small(HeldNow)
    /\ pc = "scan" => \E file \in HeldNow : file.kind = "file" /\ file.content = content
    /\ pc = "except" => exc = "E_NOT_A_FILE" \/ \E file \in HeldNow : Deserves(file) = "fatal"

DiskInv == IInv /\ Looked /\ VerdictsAreOfTheDisk

LEMMA FoundFacts ==
    /\ VerdictsAreOfTheDisk <=> \A k \in 1..Len(reports) : Found(reports[k].verdict, held[k])
    /\ \A v : \A states : \A more : states \subseteq more /\ Found(v, states) => Found(v, more)
    /\ \A states : \A more : states \subseteq more /\ Small(states) => Small(more)
  BY DEF VerdictsAreOfTheDisk, Found, Small

LEMMA VerdictIsAppended ==
    ASSUME IInv, VerdictsAreOfTheDisk, NEW v, NEW c, pc \in Busy, Report(v, c), Found(v, HeldNow)
    PROVE  VerdictsAreOfTheDisk'
  <1> DEFINE n == Len(reports)
  <1>1. held' = held /\ reports' = Append(reports, [path |-> paths[i], verdict |-> v])
    BY DEF Report, world
  <1>2. reports \in Seq(ReportType) /\ n \in Nat /\ i = n + 1
    BY DEF IInv, TypeOK, Progress
  <1>3. /\ Len(reports') = n + 1
        /\ reports'[n + 1].verdict = v
        /\ \A k \in 1..n : reports'[k] = reports[k]
    BY <1>1, <1>2
  <1>4. ASSUME NEW k \in 1..n + 1
        PROVE  Found(reports'[k].verdict, held[k])
    <2>1. CASE k = n + 1
      BY <1>2, <1>3, <2>1 DEF HeldNow
    <2>2. CASE k # n + 1
      <3>1. k \in 1..n
        BY <1>2, <2>2
      <3> QED BY <1>3, <3>1, FoundFacts
    <2> QED BY <2>1, <2>2
  <1>5. \A k \in 1..Len(reports') : Found(reports'[k].verdict, held'[k])
    BY <1>1, <1>3, <1>4
  <1> QED BY <1>5 DEF VerdictsAreOfTheDisk, Found

\* The disk moves on; what a path held before is remembered.
LEMMA ChangeIsHeld ==
    ASSUME DiskInv, Change
    PROVE  Looked' /\ VerdictsAreOfTheDisk'
  <1>1. TypeOK /\ IInv /\ Looked /\ VerdictsAreOfTheDisk
    BY DEF DiskInv, IInv
  <1>2. PICK name \in Names, file \in Files :
            /\ disk' = [disk EXCEPT ![name] = file]
            /\ held' = IF pc \in Busy /\ name = paths[i] THEN [held EXCEPT ![i] = @ \cup {file}]
                       ELSE held
    BY DEF Change
  <1>3. UNCHANGED <<paths, pc, i, content, exc, reports>>
    BY DEF Change, args
  <1>4. held \in Seq(SUBSET Files) /\ Len(held) = i /\ disk \in [Names -> Files]
    BY <1>1 DEF TypeOK
  <1>5. \A k \in 1..Len(reports) : held[k] \subseteq held'[k]
    <2>1. 1..Len(reports) \subseteq 1..Len(held)
      BY <1>1, <1>4 DEF TypeOK
    <2> QED BY <1>2, <1>4, <2>1
  <1>6. VerdictsAreOfTheDisk'
    <2>1. \A k \in 1..Len(reports) : Found(reports[k].verdict, held'[k])
      BY <1>1, <1>5, FoundFacts
    <2> QED BY <1>3, <2>1 DEF VerdictsAreOfTheDisk, Found
  <1>7. ASSUME pc \in Busy PROVE held[i] \subseteq held'[i] /\ disk'[paths[i]] \in held'[i]
    <2>1. i \in 1..Len(held) /\ paths[i] \in Names /\ disk[paths[i]] \in held[i]
      BY <1>1, <1>4, <1>7 DEF IInv, Progress, TypeOK, Looked, HeldNow
    <2>2. CASE name = paths[i]
      BY <1>2, <1>4, <1>7, <2>1, <2>2
    <2>3. CASE name # paths[i]
      BY <1>2, <1>4, <2>1, <2>3
    <2> QED BY <2>2, <2>3
  <1>8. Looked'
    <2>1. HeldNow' = held'[i]
      BY <1>3 DEF HeldNow
    <2>2. pc \in {"read", "scan"} => Small(held'[i])
      BY <1>1, <1>7, FoundFacts DEF Looked, HeldNow, Busy
    <2>3. pc = "scan" => \E f \in held'[i] : f.kind = "file" /\ f.content = content
      BY <1>1, <1>7 DEF Looked, HeldNow, Busy
    <2>4. pc = "except" => exc = "E_NOT_A_FILE" \/ \E f \in held'[i] : Deserves(f) = "fatal"
      BY <1>1, <1>7 DEF Looked, HeldNow, Busy
    <2> QED BY <1>3, <1>7, <2>1, <2>2, <2>3, <2>4 DEF Looked, Small
  <1> QED BY <1>6, <1>8

LEMMA StepLooks == DiskInv /\ [Next]_vars => DiskInv'
  <1> SUFFICES ASSUME DiskInv, [Next]_vars PROVE DiskInv'
    OBVIOUS
  <1>0. TypeOK /\ IInv /\ Looked /\ VerdictsAreOfTheDisk
    BY DEF DiskInv, IInv
  <1>1. IInv'
    BY <1>0, StepGates
  <1>2. ASSUME NEW next, Goto(next)
        PROVE  VerdictsAreOfTheDisk' /\ UNCHANGED <<disk, held, paths, i, HeldNow>> /\ pc' = next
    BY <1>0, <1>2 DEF Goto, VerdictsAreOfTheDisk, HeldNow, world, args
  <1>3. ASSUME NEW v, NEW c, pc \in Busy, Report(v, c), Found(v, HeldNow)
        PROVE  Looked' /\ VerdictsAreOfTheDisk'
    BY <1>0, <1>3, VerdictIsAppended DEF Report, Looked, Busy
  <1>4. ASSUME NEW e, Escape(e) PROVE Looked' /\ VerdictsAreOfTheDisk'
    BY <1>0, <1>4 DEF Escape, Looked, VerdictsAreOfTheDisk, Busy, world
  <1>5. ASSUME Looked', VerdictsAreOfTheDisk' PROVE DiskInv'
    BY <1>1, <1>5 DEF DiskInv
  <1>6. CASE NextPath
    <2>1. /\ UNCHANGED <<disk, paths, reports>> /\ i' = i + 1 /\ pc' = "isfile"
          /\ held' = Append(held, {disk[paths[i']]})
      BY <1>6 DEF NextPath, args
    <2>2. held \in Seq(SUBSET Files) /\ Len(held) = i /\ Len(reports) = i /\ i \in Nat
      BY <1>0, <1>6 DEF IInv, Progress, TypeOK, NextPath
    <2>3. held'[i + 1] = {disk[paths[i']]} /\ \A k \in 1..i : held'[k] = held[k]
      <3> DEFINE it == {disk[paths[i']]}
      <3> HIDE DEF it
      <3>1. held' = Append(held, it)
        BY <2>1 DEF it
      <3>2. held'[i + 1] = it /\ \A k \in 1..i : held'[k] = held[k]
        BY <2>2, <3>1
      <3> QED BY <3>2 DEF it
    <2>4. Looked'
      BY <2>1, <2>3 DEF Looked, HeldNow, Busy
    <2>5. VerdictsAreOfTheDisk'
      <3>1. \A k \in 1..Len(reports') : Found(reports'[k].verdict, held'[k])
        BY <1>0, <2>1, <2>2, <2>3, FoundFacts
      <3> QED BY <3>1 DEF VerdictsAreOfTheDisk, Found
    <2> QED BY <1>5, <2>4, <2>5
  <1>7. CASE IsFile
    BY <1>0, <1>2, <1>5, <1>7 DEF IsFile, Raise, Looked, Busy
  <1>8. CASE SizeVanished
    BY <1>4, <1>5, <1>8 DEF SizeVanished
  <1>9. CASE GetSize
    <2>1. disk[paths[i]] \in HeldNow
      BY <1>0, <1>9 DEF GetSize, Looked, Busy
    <2>2. CASE Oversized(disk[paths[i]])
      <3>1. Deserves(disk[paths[i]]) = "fatal"
        BY <2>2 DEF Oversized, TooBig, Deserves
      <3> QED BY <1>2, <1>5, <1>9, <2>1, <2>2, <3>1 DEF GetSize, Raise, Looked, Busy
    <2>3. CASE ~Oversized(disk[paths[i]])
      <3>1. Small(HeldNow)
        BY <1>9, <2>1, <2>3 DEF GetSize, Oversized, Small
      <3>2. Goto("read")
        BY <1>9, <2>3 DEF GetSize
      <3>3. Small(HeldNow')
        BY <1>2, <3>1, <3>2
      <3> QED BY <1>2, <1>5, <2>1, <3>2, <3>3 DEF Looked, Busy, Small
    <2> QED BY <2>2, <2>3
  <1>10. CASE CannotOpen
    BY <1>4, <1>5, <1>10 DEF CannotOpen
  <1>11. CASE ReadFile
    BY <1>0, <1>2, <1>5, <1>11 DEF ReadFile, Looked, Busy, Small
  <1>12. CASE ScanBytes
    <2>1. CASE content \in Verdicts /\ Report(content, ExitCodeFor(content))
      <3>1. Found(content, HeldNow)
        BY <1>0, <1>12, <2>1 DEF ScanBytes, Looked, Found, Verdicts
      <3> QED BY <1>3, <1>5, <1>12, <2>1, <3>1 DEF ScanBytes, Busy
    <2>2. CASE content = "malformed" /\ Raise("E_MALFORMED")
      <3>1. \E file \in HeldNow : Deserves(file) = "fatal"
        BY <1>0, <1>12, <2>2 DEF ScanBytes, Looked, Deserves
      <3> QED BY <1>0, <1>2, <1>5, <1>12, <2>2, <3>1 DEF ScanBytes, Raise, Looked, Busy
    <2>3. CASE content = "raises" /\ Escape("Exception")
      BY <1>4, <1>5, <2>3
    <2> QED BY <1>12, <2>1, <2>2, <2>3 DEF ScanBytes
  <1>13. CASE HandleError
    BY <1>0, <1>3, <1>4, <1>5, <1>13 DEF HandleError, Looked, Found, Registered, Busy
  <1>14. CASE Return
    BY <1>0, <1>5, <1>14 DEF Return, Looked, VerdictsAreOfTheDisk, Busy, world
  <1>15. CASE Change
    BY <1>5, <1>15, ChangeIsHeld
  <1>16. CASE UNCHANGED vars
    BY <1>0, <1>5, <1>16 DEF vars, Looked, HeldNow, Small, VerdictsAreOfTheDisk
  <1> QED BY <1>6, <1>7, <1>8, <1>9, <1>10, <1>11, <1>12, <1>13, <1>14, <1>15, <1>16 DEF Next, Step, Done

(***************************************************************************)
(* Whatever other processes do to the files, scan says of a path only what *)
(* something it held during its scan deserves.                             *)
(***************************************************************************)
THEOREM VerdictsAreFaithful == Spec => []VerdictsAreOfTheDisk
  <1>1. Init => DiskInv
    BY InitGates DEF Init, DiskInv, Looked, VerdictsAreOfTheDisk, Busy
  <1>2. DiskInv => VerdictsAreOfTheDisk
    BY DEF DiskInv
  <1> QED BY <1>1, <1>2, StepLooks, PTL DEF Spec
=============================================================================
