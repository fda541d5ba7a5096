----------------------------- MODULE FuzzProofs -----------------------------
(***************************************************************************)
(* Proofs about Fuzz for every set of payloads, every behaviour of the     *)
(* scanner and every number of rounds.                                     *)
(***************************************************************************)
EXTENDS Fuzz, TLAPS

Busy == {"spawn", "wait", "kill", "book"}

(***************************************************************************)
(* A round that is under way has not been booked yet, what is waited for   *)
(* is a process, and the status to book may be that of the payload.        *)
(***************************************************************************)
Round ==
    /\ pc \in Busy => Len(results) < Iterations
    /\ pc \in {"wait", "kill"} => Fits(payload)
    /\ child.state = "ended" => scan[child.of] # "hangs"
    /\ pc = "book" => status \in MayBe(payload) /\ status \in Statuses

(***************************************************************************)
(* Every offender but the one being archived has its file.                 *)
(***************************************************************************)
Saved(k) == archive[FileName(results[k].payload)] # NoFile

Archived ==
    /\ pc = "archive" =>
          /\ results # <<>> /\ Bad(Len(results)) /\ results[Len(results)].payload = payload
    /\ saveDir /\ pc # "exited" =>
          /\ \A k \in DOMAIN results : Bad(k) => Saved(k) \/ (pc = "archive" /\ k = Len(results))
          /\ \A name \in FileNames :
                archive[name] # NoFile =>
                    /\ FileName(archive[name]) = name
                    /\ \E k \in DOMAIN results : Bad(k) /\ results[k].payload = archive[name]

(***************************************************************************)
(* How the command ends.                                                   *)
(***************************************************************************)
Ending ==
    /\ exit # Running <=> pc = "exited"
    /\ exit = 0 => Len(results) = Iterations /\ \A k \in DOMAIN results : ~Bad(k)

IInv == TypeOK /\ Round /\ VerdictsAreTheirOwn /\ Archived /\ Ending

-----------------------------------------------------------------------------
(***************************************************************************)
(* What the driver makes of the answer of a child is a status its payload  *)
(* may have.                                                               *)
(***************************************************************************)
LEMMA AnswersAreClassified ==
    ASSUME NEW p \in Payloads, scan \in Scans, Fits(p), scan[p] # "hangs"
    PROVE  /\ Classify(Answer(p)) \in MayBe(p)
           /\ Classify(Answer(p)) \in Statuses
<1>1. scan[p] \in Outcomes \ {"hangs"}
    BY FuzzAssumption
<1>2. /\ Answer(p).last = LastLine(scan[p])
      /\ Answer(p).rc = IF scan[p] = "dies" THEN 1 ELSE 0
    BY DEF Answer
<1>3. Classify(Answer(p)) \in StatusOf[scan[p]] \cap Statuses
  <2>1. CASE scan[p] \in {"returns", "refuses"}
      BY <2>1, <1>2 DEF Classify, LastLine, StatusOf, Statuses
  <2>2. CASE scan[p] = "raises"
      BY <2>2, <1>2 DEF Classify, LastLine, StatusOf, Statuses
  <2>3. CASE scan[p] = "raises_lines"
      BY <2>3, <1>2 DEF Classify, LastLine, StatusOf, Statuses
  <2>4. CASE scan[p] = "dies"
      BY <2>4, <1>2 DEF Classify, LastLine, StatusOf, Statuses
  <2> QED  BY <1>1, <2>1, <2>2, <2>3, <2>4 DEF Outcomes
<1> QED  BY <1>3 DEF MayBe

(***************************************************************************)
(* The initial states, whoever saves what.                                 *)
(***************************************************************************)
LEMMA InitIsInvariant == Init => IInv
<1> SUFFICES ASSUME Init PROVE IInv
    OBVIOUS
<1> USE DEF Init
<1>1. TypeOK
    BY FuzzAssumption DEF TypeOK, Phases, ChildType, NoChild, Statuses, Running
<1>2. Round
    BY DEF Round, Busy, NoChild
<1>3. VerdictsAreTheirOwn
    BY DEF VerdictsAreTheirOwn
<1>4. Archived
    BY DEF Archived
<1>5. Ending
    BY DEF Ending, Running
<1> QED  BY <1>1, <1>2, <1>3, <1>4, <1>5 DEF IInv

(***************************************************************************)
(* Steps of the driver and of the child that book nothing.                 *)
(***************************************************************************)
LEMMA ChildEndsKeeps == IInv /\ ChildEnds => IInv'
<1> SUFFICES ASSUME IInv, ChildEnds PROVE IInv'
    OBVIOUS
<1> USE DEF ChildEnds, world
<1>1. /\ pc \in {"wait", "kill"} /\ payload \in Payloads
      /\ child = Alive(payload) /\ child.of = payload /\ child' = Answer(payload)
    BY DEF IInv, TypeOK, NoChild, Alive, Answer
<1>2. scan[payload] \in Outcomes
    BY <1>1, FuzzAssumption DEF IInv, TypeOK
<1>3. Answer(payload) \in ChildType
    BY <1>1, <1>2 DEF Answer, ChildType, LastLine, Outcomes
<1>4. TypeOK'
    BY <1>1, <1>3 DEF IInv, TypeOK, Alive, Answer
<1>5. Round'
    BY <1>1 DEF IInv, Round, Answer, Busy, MayBe, Fits
<1>6. VerdictsAreTheirOwn'
    BY DEF IInv, VerdictsAreTheirOwn, MayBe, Fits
<1>7. Archived'
    BY DEF IInv, Archived, Saved, Bad
<1>8. Ending'
    BY DEF IInv, Ending, Bad
<1> QED  BY <1>4, <1>5, <1>6, <1>7, <1>8 DEF IInv

LEMMA WaitingKeeps ==
    ASSUME IInv, Draw \/ Spawn \/ Collect \/ TimeOut \/ Kill
    PROVE  IInv'
<1>1. UNCHANGED <<scan, saveDir, results, archive, exit>>
    BY DEF Draw, Spawn, Collect, TimeOut, Kill, world
<1>2. pc # "archive" /\ pc' # "archive" /\ pc # "exited" /\ pc' # "exited"
    BY DEF Draw, Spawn, Collect, TimeOut, Kill
<1>3. TypeOK' /\ Round'
  <2>1. CASE Draw
      BY <2>1, <1>1 DEF Draw, IInv, TypeOK, Round, Phases, Busy, NoChild, ChildType
  <2>2. CASE Spawn
    <3>1. payload \in Payloads /\ UNCHANGED payload /\ child = NoChild
        BY <2>2 DEF Spawn, IInv, TypeOK
    <3>2. Alive(payload) \in ChildType
        BY <3>1 DEF Alive, ChildType
    <3>3. CASE Fits(payload)
        BY <2>2, <3>1, <3>2, <3>3, <1>1
        DEF Spawn, IInv, TypeOK, Round, Phases, Busy, Alive, Fits, ArgumentBytes
    <3>4. CASE ~Fits(payload)
        BY <2>2, <3>1, <3>4, <1>1
        DEF Spawn, IInv, TypeOK, Round, Phases, Busy, Statuses, MayBe, NoChild, Fits, ArgumentBytes
    <3> QED  BY <3>3, <3>4
  <2>3. CASE Collect
    <3>1. /\ payload \in Payloads /\ UNCHANGED payload /\ scan \in Scans
          /\ child = Answer(payload) /\ scan[payload] # "hangs" /\ Fits(payload)
        BY <2>3 DEF Collect, IInv, TypeOK, Round, Alive, Answer
    <3>2. status' \in MayBe(payload) /\ status' \in Statuses
        BY <2>3, <3>1, AnswersAreClassified DEF Collect
    <3> QED
        BY <2>3, <3>1, <3>2, <1>1
        DEF Collect, IInv, TypeOK, Round, Phases, Busy, NoChild, ChildType, MayBe, Fits, ArgumentBytes
  <2>4. CASE TimeOut
      BY <2>4, <1>1 DEF TimeOut, IInv, TypeOK, Round, Phases, Busy, Fits, ArgumentBytes, Alive, Answer
  <2>5. CASE Kill
      BY <2>5, <1>1
      DEF Kill, IInv, TypeOK, Round, Phases, Busy, Statuses, NoChild, ChildType, MayBe, Fits, ArgumentBytes
  <2> QED  BY <2>1, <2>2, <2>3, <2>4, <2>5
<1>4. VerdictsAreTheirOwn'
    BY <1>1 DEF IInv, VerdictsAreTheirOwn, MayBe, Fits, ArgumentBytes
<1>5. Archived'
    BY <1>1, <1>2 DEF IInv, Archived, Saved, Bad
<1>6. Ending'
    BY <1>1, <1>2 DEF IInv, Ending, Bad
<1> QED  BY <1>3, <1>4, <1>5, <1>6 DEF IInv

(***************************************************************************)
(* A round is booked under the payload and the status it had.              *)
(***************************************************************************)
LEMMA BookKeeps == IInv /\ Book => IInv'
<1> SUFFICES ASSUME IInv, Book PROVE IInv'
    OBVIOUS
<1> DEFINE entry == [payload |-> payload, status |-> status]
           n == Len(results)
<1>1. /\ pc = "book" /\ n < Iterations /\ Iterations \in Nat
      /\ results \in Seq([payload : Payloads, status : Statuses])
      /\ payload \in Payloads /\ status \in Statuses /\ status \in MayBe(payload)
      /\ UNCHANGED <<scan, saveDir, payload, child, status, archive, exit>>
      /\ results' = Append(results, entry)
      /\ pc' = IF status = "ok" THEN "draw" ELSE "archive"
    BY FuzzAssumption DEF IInv, TypeOK, Round, Book, NextPhase, Busy, world
<1>2. /\ results' \in Seq([payload : Payloads, status : Statuses])
      /\ Len(results') = n + 1 /\ n \in Nat /\ DOMAIN results' = 1 .. n + 1 /\ DOMAIN results = 1 .. n
      /\ \A k \in 1 .. n : results'[k] = results[k]
      /\ results'[n + 1] = entry
  <2>1. entry \in [payload : Payloads, status : Statuses]
      BY <1>1
  <2> QED  BY <2>1, <1>1
<1> HIDE DEF n
<1>3. TypeOK'
    BY <1>1, <1>2 DEF IInv, TypeOK, Phases, NoChild, ChildType
<1>4. Round'
    BY <1>1 DEF IInv, Round, TypeOK, Busy, NoChild, MayBe, Fits, ArgumentBytes
<1>5. VerdictsAreTheirOwn'
  <2>1. \A k \in DOMAIN results' : results'[k].status \in MayBe(results'[k].payload)
      BY <1>1, <1>2 DEF IInv, VerdictsAreTheirOwn
  <2> QED  BY <2>1, <1>1 DEF VerdictsAreTheirOwn, MayBe, Fits, ArgumentBytes
<1>6. Archived'
  <2>1. \A k \in 1 .. n : Bad(k)' <=> Bad(k)
      BY <1>2 DEF Bad
  <2>2. results'[n + 1].status = status
      BY <1>2
  <2>3. results' # <<>>
      BY <1>2
  <2>4. pc' = "archive" =>
          results' # <<>> /\ Bad(Len(results))' /\ results'[Len(results')].payload = payload'
    <3>1. pc' = "archive" => status # "ok"
        BY <1>1
    <3>2. Bad(Len(results))' <=> results'[n + 1].status # "ok"
        BY <1>2 DEF Bad
    <3> QED  BY <3>1, <3>2, <2>3, <1>1, <1>2
  <2>5. ASSUME saveDir', NEW k \in DOMAIN results', Bad(k)'
        PROVE  Saved(k)' \/ (pc' = "archive" /\ k = Len(results'))
    <3>1. CASE k \in 1 .. n
        BY <3>1, <2>5, <2>1, <1>1, <1>2 DEF IInv, Archived, Saved
    <3>2. CASE k = n + 1
        BY <3>2, <2>5, <2>2, <1>1, <1>2 DEF Bad
    <3> QED  BY <3>1, <3>2, <1>2
  <2>6. ASSUME saveDir', NEW name \in FileNames, archive'[name] # NoFile
        PROVE  /\ FileName(archive'[name]) = name
               /\ \E k \in DOMAIN results' : Bad(k)' /\ results'[k].payload = archive'[name]
    <3>1. /\ FileName(archive[name]) = name
          /\ \E k \in DOMAIN results : Bad(k) /\ results[k].payload = archive[name]
        BY <2>6, <1>1 DEF IInv, Archived
    <3>2. PICK k \in 1 .. n : Bad(k) /\ results[k].payload = archive[name]
        BY <3>1, <1>2
    <3>3. k \in DOMAIN results' /\ Bad(k)' /\ results'[k].payload = archive'[name]
        BY <3>2, <2>1, <1>1, <1>2
    <3> QED  BY <3>1, <3>3, <1>1
  <2>7. FileNames' = FileNames
      BY DEF FileNames
  <2> QED  BY <2>4, <2>5, <2>6, <2>7 DEF Archived, FileName
<1>7. Ending'
    BY <1>1 DEF IInv, Ending, Running
<1> QED  BY <1>3, <1>4, <1>5, <1>6, <1>7 DEF IInv

LEMMA ElementOf ==
    ASSUME NEW S, NEW list \in Seq(S), NEW k \in DOMAIN list
    PROVE  list[k] \in S
    OBVIOUS

LEMMA EntryType ==
    ASSUME results \in Seq([payload : Payloads, status : Statuses]), NEW k \in DOMAIN results
    PROVE  results[k].payload \in Payloads
<1>1. results[k] \in [payload : Payloads, status : Statuses]
    BY ElementOf
<1> QED  BY <1>1

(***************************************************************************)
(* Archiving, or failing to, and the end.                                  *)
(***************************************************************************)
LEMMA ArchiveKeeps == IInv /\ Archive => IInv'
<1> SUFFICES ASSUME IInv, Archive PROVE IInv'
    OBVIOUS
<1>1. /\ pc = "archive" /\ pc' = "draw" /\ payload \in Payloads /\ payload # NoFile
      /\ archive' = IF saveDir THEN [archive EXCEPT ![FileName(payload)] = payload] ELSE archive
      /\ archive \in [FileNames -> Payloads \cup {NoFile}] /\ FileName(payload) \in FileNames
      /\ UNCHANGED <<scan, saveDir, payload, child, status, results, exit>>
    BY FuzzAssumption DEF IInv, TypeOK, Archive, FileNames, FileName, NoFile, world
<1>2. Len(results) \in DOMAIN results /\ Bad(Len(results)) /\ results[Len(results)].payload = payload
    BY <1>1 DEF IInv, Archived, TypeOK
<1>3. TypeOK'
    BY <1>1 DEF IInv, TypeOK, Phases, FileNames, FileName
<1>4. Round'
    BY <1>1 DEF IInv, Round, Busy
<1>5. VerdictsAreTheirOwn'
    BY <1>1 DEF IInv, VerdictsAreTheirOwn, MayBe, Fits, ArgumentBytes
<1>6. Archived'
  <2>1. CASE ~saveDir
      BY <2>1, <1>1 DEF Archived
  <2>2. CASE saveDir
    <3>1. ASSUME NEW k \in DOMAIN results, Bad(k)
          PROVE  archive'[FileName(results[k].payload)] # NoFile
      <4>1. results[k].payload \in Payloads
          BY EntryType DEF IInv, TypeOK
      <4>3. FileName(results[k].payload) \in FileNames
          BY <4>1 DEF FileNames, FileName
      <4>2. Saved(k) \/ results[k].payload = payload
          BY <3>1, <2>2, <1>1, <1>2 DEF IInv, Archived
      <4> QED  BY <4>3, <4>2, <2>2, <1>1 DEF Saved
    <3>2. ASSUME NEW name \in FileNames, archive'[name] # NoFile
          PROVE  /\ FileName(archive'[name]) = name
                 /\ \E k \in DOMAIN results : Bad(k) /\ results[k].payload = archive'[name]
      <4>1. CASE name = FileName(payload)
          BY <4>1, <2>2, <1>1, <1>2
      <4>2. CASE name # FileName(payload)
          BY <4>2, <3>2, <2>2, <1>1 DEF IInv, Archived
      <4> QED  BY <4>1, <4>2
    <3> QED  BY <3>1, <3>2, <1>1 DEF Archived, Saved, Bad, FileName, FileNames
  <2> QED  BY <2>1, <2>2
<1>7. Ending'
    BY <1>1 DEF IInv, Ending, Bad
<1> QED  BY <1>3, <1>4, <1>5, <1>6, <1>7 DEF IInv

LEMMA EndKeeps ==
    ASSUME IInv, CannotArchive \/ Return
    PROVE  IInv'
<1>1. /\ pc \in {"archive", "draw"} /\ pc' = "exited"
      /\ UNCHANGED <<scan, saveDir, payload, child, status, results, archive>>
    BY DEF CannotArchive, Return, world
<1>2. exit' \in {0, 1, 3} /\ exit' # Running
    BY DEF CannotArchive, Return, ExitCode, Running
<1>3. TypeOK'
    BY <1>1, <1>2 DEF IInv, TypeOK, Phases
<1>4. Round'
    BY <1>1 DEF IInv, Round, Busy
<1>5. VerdictsAreTheirOwn'
    BY <1>1 DEF IInv, VerdictsAreTheirOwn, MayBe, Fits, ArgumentBytes
<1>6. Archived'
    BY <1>1 DEF Archived
<1>7. Ending'
  <2>1. CASE CannotArchive
      BY <2>1, <1>1, <1>2 DEF CannotArchive, Ending
  <2>2. CASE Return
      BY <2>2, <1>1, <1>2 DEF Return, Ending, ExitCode, Bad
  <2> QED  BY <2>1, <2>2
<1> QED  BY <1>3, <1>4, <1>5, <1>6, <1>7 DEF IInv

LEMMA StutterKeeps == IInv /\ UNCHANGED vars => IInv'
<1> SUFFICES ASSUME IInv, UNCHANGED vars PROVE IInv'
    OBVIOUS
<1>1. UNCHANGED <<scan, saveDir, pc, payload, child, status, results, archive, exit>>
    BY DEF vars
<1>2. TypeOK'
    BY <1>1 DEF IInv, TypeOK, Answer
<1>3. Round' /\ VerdictsAreTheirOwn'
    BY <1>1 DEF IInv, Round, VerdictsAreTheirOwn, MayBe, Fits, ArgumentBytes
<1>4. Archived' /\ Ending'
    BY <1>1 DEF IInv, Archived, Ending, Saved, Bad
<1> QED  BY <1>2, <1>3, <1>4 DEF IInv

LEMMA NextKeeps == IInv /\ [Next]_vars => IInv'
<1> SUFFICES ASSUME IInv, [Next]_vars PROVE IInv'
    OBVIOUS
<1>1. CASE Draw \/ Spawn \/ Collect \/ TimeOut \/ Kill
    BY <1>1, WaitingKeeps
<1>2. CASE ChildEnds
    BY <1>2, ChildEndsKeeps
<1>3. CASE Book
    BY <1>3, BookKeeps
<1>4. CASE Archive
    BY <1>4, ArchiveKeeps
<1>5. CASE CannotArchive \/ Return
    BY <1>5, EndKeeps
<1>6. CASE Done \/ UNCHANGED vars
    BY <1>6, StutterKeeps DEF Done
<1> QED  BY <1>1, <1>2, <1>3, <1>4, <1>5, <1>6 DEF Next, Drive

LEMMA Invariance == Spec => []IInv
    BY InitIsInvariant, NextKeeps, PTL DEF Spec

-----------------------------------------------------------------------------
(***************************************************************************)
(* The state stays well-typed, and a child is only there while the driver  *)
(* waits for the payload it was given.                                     *)
(***************************************************************************)
THEOREM TypeCorrect == Spec => []TypeOK
<1>1. IInv => TypeOK
    BY DEF IInv
<1> QED  BY <1>1, Invariance, PTL

(***************************************************************************)
(* Whatever the order of answers and timeouts, a booked status is that of  *)
(* the scan of its own payload.                                            *)
(***************************************************************************)
THEOREM VerdictsHold == Spec => []VerdictsAreTheirOwn
<1>1. IInv => VerdictsAreTheirOwn
    BY DEF IInv
<1> QED  BY <1>1, Invariance, PTL

(***************************************************************************)
(* Every offender has a file when the next round begins, and every file is *)
(* that of an offender, whichever files later rounds replace.              *)
(***************************************************************************)
THEOREM ArchiveHolds == Spec => []OffendersAreArchived
<1>1. IInv => OffendersAreArchived
    BY DEF IInv, Archived, OffendersAreArchived, Saved
<1> QED  BY <1>1, Invariance, PTL

(***************************************************************************)
(* Exit code 0 proves that every round scanned its payload cleanly.        *)
(***************************************************************************)
THEOREM ZeroHolds == Spec => []ZeroProvesClean
<1>1. ASSUME IInv, exit = 0 PROVE ZeroProvesClean
  <2>1. /\ Len(results) = Iterations /\ DOMAIN results = 1..Iterations
        /\ results \in Seq([payload : Payloads, status : Statuses])
      BY <1>1 DEF IInv, TypeOK, Ending
  <2>2. ASSUME NEW k \in 1..Iterations
        PROVE  scan[results[k].payload] \in {"returns", "refuses"}
    <3>1. results[k].status = "ok" /\ results[k].status \in MayBe(results[k].payload)
        BY <1>1, <2>1 DEF IInv, Ending, Bad, VerdictsAreTheirOwn
    <3>2. results[k].payload \in Payloads
        BY <2>1, EntryType
    <3>3. scan[results[k].payload] \in Outcomes
        BY <1>1, <3>2, FuzzAssumption DEF IInv, TypeOK
    <3> QED  BY <3>1, <3>3 DEF MayBe, StatusOf, Outcomes
  <2> QED  BY <2>1, <2>2 DEF ZeroProvesClean
<1>2. IInv => ZeroProvesClean
    BY <1>1 DEF ZeroProvesClean
<1> QED  BY <1>2, Invariance, PTL
=============================================================================
