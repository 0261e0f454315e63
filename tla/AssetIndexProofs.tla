-------------------------- MODULE AssetIndexProofs ---------------------------
(***************************************************************************)
(* What holds of AssetIndex for every set of jobs, windows, scene and      *)
(* picture.                                                                *)
(***************************************************************************)
EXTENDS AssetIndex, FiniteSetTheorems, WellFoundedInduction, TLAPS

\* What the proofs use of the assumptions on the constants.
LEMMA Bounds ==
  /\ SceneEnd \in Nat /\ SceneEnd > 0 /\ SceneEnd - 1 \in Int
  /\ MaxIdx \in Nat /\ MaxFaults \in Nat
  /\ Kind \in [Jobs -> {"full", "densify"}]
  /\ Modes \subseteq BOOLEAN
  /\ \A j \in Jobs : Window[j].interval \in Nat /\ Window[j].interval > 0
<1>1. \A j \in Jobs : Window[j].interval \in {2 * n : n \in 1..SceneEnd}
  BY IndexAssumption
<1> QED
  BY <1>1, IndexAssumption

USE Bounds

-----------------------------------------------------------------------------
(***************************************************************************)
(* Lemmas about the operators.                                             *)
(***************************************************************************)

\* Where the stage orders begin and end, and what follows what.
LEMMA StageFacts ==
  ASSUME NEW j \in Jobs
  PROVE  LET order == StageOrder(j)
         IN  /\ Len(order) \in {3, 4}
             /\ \A s \in 1..4 : s <= Len(order) =>
                  /\ order[s] \in {"sample", "ocr", "caption", "embed"}
                  /\ s = 1 <=> order[s] = "sample"
                  /\ s = Len(order) <=> order[s] = "embed"
                  /\ order[s] = "sample" => order[s + 1] = "ocr"
                  /\ order[s] = "ocr" => order[s + 1] \in {"caption", "embed"}
                  /\ order[s] = "caption" => order[s + 1] = "embed"
<1>1. CASE Kind[j] = "densify"
  <2>1. StageOrder(j) = <<"sample", "ocr", "embed">>
    BY <1>1 DEF StageOrder
  <2> QED
    BY <2>1
<1>2. CASE Kind[j] # "densify"
  <2>1. StageOrder(j) = <<"sample", "ocr", "caption", "embed">>
    BY <1>2 DEF StageOrder
  <2> QED
    BY <2>1
<1> QED
  BY <1>1, <1>2

\* The instants of a set before one.
Before(S, t) == {u \in S : u < t}

\* Numbering gives instants of the set, or none.
LEMMA NumberedType ==
  ASSUME NEW base, NEW S, S \subseteq Times
  PROVE  /\ Numbered(base, S) \in [Idx -> Picture]
         /\ \A i \in Idx : Numbered(base, S)[i] # 0 =>
              /\ Numbered(base, S)[i] \in S
              /\ i = base + Cardinality(Before(S, Numbered(base, S)[i]))
<1> DEFINE IdxOf(t) == base + Cardinality(Before(S, t))
<1>1. ASSUME NEW i \in Idx
      PROVE  /\ Numbered(base, S)[i] \in S \cup {0}
             /\ Numbered(base, S)[i] # 0 => i = IdxOf(Numbered(base, S)[i])
  <2>0. Numbered(base, S)[i] = IF \E t \in S : i = IdxOf(t)
                               THEN CHOOSE t \in S : i = IdxOf(t) ELSE 0
    BY DEF Numbered, Before
  <2> HIDE DEF IdxOf
  <2>1. CASE \E t \in S : i = IdxOf(t)
    <3>1. LET t == CHOOSE t \in S : i = IdxOf(t) IN t \in S /\ i = IdxOf(t)
      BY <2>1
    <3> QED
      BY <2>0, <2>1, <3>1
  <2>2. CASE ~\E t \in S : i = IdxOf(t)
    BY <2>0, <2>2
  <2> QED
    BY <2>1, <2>2
<1>2. S \cup {0} \subseteq Picture
  BY DEF Times, Picture
<1>3. Numbered(base, S) = [i \in Idx |-> Numbered(base, S)[i]]
  BY DEF Numbered
<1> QED
  BY <1>1, <1>2, <1>3 DEF Times

\* No instant gets two numbers.
LEMMA NumberedOnce ==
  ASSUME NEW base, NEW S, S \subseteq Times, NEW i \in Idx, NEW k \in Idx,
         Numbered(base, S)[i] # 0, Numbered(base, S)[i] = Numbered(base, S)[k]
  PROVE  i = k
<1> DEFINE IdxOf(t) == base + Cardinality(Before(S, t))
<1>1. i = IdxOf(Numbered(base, S)[i]) /\ k = IdxOf(Numbered(base, S)[k])
  BY NumberedType
<1> HIDE DEF IdxOf
<1> QED
  BY <1>1

\* Sets of instants are finite, and so counted by a natural number.
LEMMA InstantsFinite ==
  ASSUME NEW S, S \subseteq Times
  PROVE  IsFiniteSet(S) /\ Cardinality(S) \in Nat
<1>1. IsFiniteSet(Times)
  BY FS_Interval DEF Times
<1>2. IsFiniteSet(S)
  BY <1>1, FS_Subset
<1> QED
  BY <1>2, FS_CardinalityType

\* An ingest's instants.
LEMMA SampleTimesType == SampleTimes \in [Idx -> Picture]
<1>1. Numbered(1, Strides) \in [Idx -> Picture]
  BY NumberedType DEF Strides
<1>2. Midpoint \in Picture
  BY DEF Midpoint, Picture
<1> QED
  BY <1>1, <1>2 DEF SampleTimes

\* A nonempty set of natural numbers has a smallest element.
LEMMA LeastNumber ==
  ASSUME NEW S \in SUBSET Nat, S # {}
  PROVE  \E n \in S : \A m \in S : n <= m
<1>1. PICK n \in S : \A m \in S : <<m, n>> \notin OpToRel(<, Nat)
  BY NatLessThanWellFounded, WFMin
<1>2. ASSUME NEW m \in S, m < n PROVE FALSE
  <2>1. <<m, n>> \in OpToRel(<, Nat)
    BY <1>2 DEF OpToRel
  <2> QED
    BY <1>1, <2>1
<1> QED
  BY <1>2

\* The next index is the one after the last row's.
LEMMA NextIdxAbove ==
  /\ NextIdx \in 0..MaxIdx + 1
  /\ \A i \in Idx : HasRow(i) => i < NextIdx
<1> DEFINE above == {n \in 0..MaxIdx + 1 : \A i \in Idx : HasRow(i) => i < n}
<1>1. MaxIdx + 1 \in above
  BY DEF Idx
<1>2. PICK n \in above : \A m \in above : n <= m
  <2>1. above \in SUBSET Nat /\ above # {}
    BY <1>1
  <2> HIDE DEF above
  <2> QED
    BY <2>1, LeastNumber
<1>3. n # 0 => HasRow(n - 1)
  <2> SUFFICES ASSUME n # 0, ~HasRow(n - 1) PROVE FALSE
    OBVIOUS
  <2>1. n - 1 \in 0..MaxIdx + 1 /\ n - 1 < n
    OBVIOUS
  <2>2. \A i \in Idx : HasRow(i) => i < n - 1
    BY DEF Idx
  <2> QED
    BY <1>2, <2>1, <2>2
<1> DEFINE P(m) == /\ \A i \in Idx : HasRow(i) => i < m
                   /\ m # 0 => HasRow(m - 1)
<1>4. P(n)
  BY <1>3
<1> HIDE DEF P
<1>5. LET m == CHOOSE m \in 0..MaxIdx + 1 : P(m) IN m \in 0..MaxIdx + 1 /\ P(m)
  BY <1>4
<1>6. NextIdx \in 0..MaxIdx + 1 /\ P(NextIdx)
  BY <1>5 DEF NextIdx, P
<1> QED
  BY <1>6 DEF P

-----------------------------------------------------------------------------
(***************************************************************************)
(* Types.                                                                  *)
(***************************************************************************)

\* What the stages write into an entry.
LEMMA EntryWrites ==
  /\ NoEntry \in Entry /\ NoEntry.t = 0
  /\ NoEntries \in [Idx -> Entry]
  /\ NoRow \in Row /\ NoRow.t = 0
  /\ 0 \in Picture /\ 0 \notin Times
  /\ Nothing \in [Idx -> Picture]
  /\ \A e \in Entry, x \in Picture :
       /\ [e EXCEPT !.ocr = x] \in Entry /\ [e EXCEPT !.cap = x] \in Entry
       /\ [e EXCEPT !.vec = x] \in Entry
  /\ \A x, y \in Picture : [NoEntry EXCEPT !.t = x, !.thumb = y] \in Entry
<1>1. 0 \in Picture /\ 0 \notin Times
  BY DEF Picture, Times
<1> QED
  BY <1>1 DEF NoEntry, Entry, NoEntries, NoRow, Row, Nothing

\* What the steps of a job write into its record.
LEMMA JobWrites ==
  ASSUME NEW s \in JobState
  PROVE  /\ \A x \in Points : [s EXCEPT !.pc = x] \in JobState
         /\ \A x \in Points, e \in [Idx -> Entry] :
              [s EXCEPT !.cur = e, !.pc = x] \in JobState
         /\ \A x \in {"none", "running", "done", "error"} :
              [s EXCEPT !.status = x] \in JobState
         /\ \A p \in [Idx -> Picture] :
              [s EXCEPT !.status = "running", !.plan = p] \in JobState
         /\ \A n \in 1..4, e \in [Idx -> Entry] :
              /\ [s EXCEPT !.stage = n, !.pc = "stage", !.saved = e] \in JobState
              /\ [s EXCEPT !.stage = n, !.pc = "stage", !.cur = e] \in JobState
  BY DEF JobState, Points

\* A job that has not begun, and one that has ended.
LEMMA EndedType ==
  /\ NoJob \in JobState
  /\ \A x \in {"none", "running", "done", "error"} :
       Ended(x) \in JobState /\ Ended(x).stage = 1 /\ Ended(x).status = x
<1>1. NoJob \in JobState
  <2>1. "stage" \in Points /\ 1 \in 1..4
    BY DEF Points
  <2>2. NoEntries \in [Idx -> Entry] /\ Nothing \in [Idx -> Picture]
    BY EntryWrites
  <2> HIDE DEF Points
  <2> QED
    BY <2>1, <2>2 DEF NoJob, JobState
<1>2. NoJob.stage = 1
  BY DEF NoJob
<1>3. ASSUME NEW x \in {"none", "running", "done", "error"}
      PROVE  Ended(x) \in JobState /\ Ended(x).stage = 1 /\ Ended(x).status = x
  <2>1. [NoJob EXCEPT !.status = x] \in JobState
    BY <1>1, JobWrites
  <2>2. [NoJob EXCEPT !.status = x].stage = NoJob.stage /\ [NoJob EXCEPT !.status = x].status = x
    BY <1>1 DEF JobState
  <2> QED
    BY <1>2, <2>1, <2>2 DEF Ended
<1> QED
  BY <1>1, <1>3

\* The jobs' part of the type invariant.
JobsOK == /\ job \in [Jobs -> JobState]
          /\ \A j \in Jobs : job[j].stage <= Len(StageOrder(j))

TablesOK == /\ files \in [Idx -> Picture]
            /\ frames \in [Idx -> Row] /\ items \in [Idx -> Row] /\ graph \in [Idx -> Row]
            /\ vec \in [Idx -> Picture]
            /\ sceneVec \subseteq Times /\ fts \subseteq Times

\* Replacing the record of one job.
LEMMA JobUpdate ==
  ASSUME JobsOK, NEW j \in Jobs, NEW s \in JobState, s.stage <= Len(StageOrder(j)),
         job' = [job EXCEPT ![j] = s]
  PROVE  JobsOK'
  BY DEF JobsOK

\* The steps of a job that leave it in its stage.
LEMMA JobMoves ==
  ASSUME JobsOK, NEW j \in Jobs
  PROVE  /\ \A x \in Points : GoTo(j, x) => JobsOK'
         /\ \A x \in Points, e \in [Idx -> Entry] : Results(j, x, e) => JobsOK'
<1>1. job[j] \in JobState /\ job[j].stage <= Len(StageOrder(j))
  BY DEF JobsOK
<1>2. ASSUME NEW x \in Points, GoTo(j, x) PROVE JobsOK'
  <2>1. [job[j] EXCEPT !.pc = x] \in JobState /\ [job[j] EXCEPT !.pc = x].stage = job[j].stage
    BY <1>1, JobWrites DEF JobState
  <2>2. job' = [job EXCEPT ![j] = [job[j] EXCEPT !.pc = x]]
    BY <1>2 DEF GoTo
  <2> QED
    BY <1>1, <2>1, <2>2, JobUpdate
<1>3. ASSUME NEW x \in Points, NEW e \in [Idx -> Entry], Results(j, x, e) PROVE JobsOK'
  <2>1. /\ [job[j] EXCEPT !.cur = e, !.pc = x] \in JobState
        /\ [job[j] EXCEPT !.cur = e, !.pc = x].stage = job[j].stage
    BY <1>1, JobWrites DEF JobState
  <2>2. job' = [job EXCEPT ![j] = [job[j] EXCEPT !.cur = e, !.pc = x]]
    BY <1>3 DEF Results
  <2> QED
    BY <1>1, <2>1, <2>2, JobUpdate
<1> QED
  BY <1>2, <1>3

\* A job that does not run carries nothing.
Resting == \A j \in Jobs : ~Running(j) => job[j] = Ended(job[j].status)

TypeInv == IndexTypeOK /\ Resting

\* The parts of the type invariant.
LEMMA TypeParts ==
  IndexTypeOK <=> /\ orderly \in Modes /\ JobsOK /\ TablesOK /\ faults \in 0..MaxFaults
  BY DEF IndexTypeOK, JobsOK, TablesOK

\* Before the first request there is nothing.
LEMMA IndexTypeInit == Init => TypeInv
<1> SUFFICES ASSUME Init PROVE TypeInv
  OBVIOUS
<1>1. JobsOK
  <2>1. \A j \in Jobs : job[j] = NoJob /\ NoJob.stage = 1 /\ 1 <= Len(StageOrder(j))
    BY StageFacts DEF Init, NoJob
  <2> QED
    BY <2>1, EndedType DEF Init, JobsOK
<1>2. TablesOK
  BY EntryWrites DEF Init, TablesOK
<1>3. Resting
  BY DEF Init, Resting, Ended, NoJob
<1> QED
  BY <1>1, <1>2, <1>3, TypeParts DEF Init, TypeInv

\* The instants of a job.
LEMMA ScheduleType ==
  ASSUME JobsOK, NEW j \in Jobs
  PROVE  Schedule(j) \in [Idx -> Picture]
<1>1. job[j].plan \in [Idx -> Picture]
  BY DEF JobsOK, JobState
<1> QED
  BY <1>1, SampleTimesType DEF Schedule

\* What the calls of ffmpeg leave: at the path of a frame that was not asked
\* for what was there, and of the others entries for some of the files.
LEMMA CallsLeave ==
  ASSUME JobsOK, TablesOK, faults \in 0..MaxFaults, NEW j \in Jobs, WriteFrames(j)
  PROVE  /\ files' \in [Idx -> Picture] /\ faults' \in 0..MaxFaults
         /\ \A i \in Idx : Schedule(j)[i] = 0 => files'[i] = files[i]
         /\ \E e \in [Idx -> Entry] :
              /\ Results(j, "dedup", e)
              /\ \A i \in Idx : e[i] # NoEntry =>
                   /\ Schedule(j)[i] # 0 /\ files'[i] # 0
                   /\ e[i] = [NoEntry EXCEPT !.t = Schedule(j)[i], !.thumb = files'[i]]
<1> DEFINE at == Schedule(j)
<1>1. at \in [Idx -> Picture] /\ files \in [Idx -> Picture] /\ 0 \in Picture
  BY ScheduleType, EntryWrites DEF TablesOK
<1>2. PICK lost \in SUBSET Asked(j) :
        /\ faults' = faults + Cardinality(lost) /\ faults' <= MaxFaults
        /\ \E missed \in [lost -> Misses] :
             /\ files' = Pictures(at, missed)
             /\ Results(j, "dedup", Candidates(at, missed, files'))
  BY DEF WriteFrames
<1>3. PICK missed \in [lost -> Misses] :
        /\ files' = Pictures(at, missed)
        /\ Results(j, "dedup", Candidates(at, missed, files'))
  BY <1>2
<1> HIDE DEF at
<1>4. /\ files' \in [Idx -> Picture]
      /\ \A i \in Idx : at[i] = 0 => files'[i] = files[i]
  BY <1>1, <1>3 DEF Pictures
<1>5. Cardinality(lost) \in Nat
  <2>1. IsFiniteSet(Idx)
    BY FS_Interval DEF Idx
  <2>2. lost \subseteq Idx
    BY <1>2 DEF Asked
  <2> QED
    BY <2>1, <2>2, FS_Subset, FS_CardinalityType
<1>6. faults' \in 0..MaxFaults
  BY <1>2, <1>5
<1> DEFINE e == Candidates(at, missed, files')
<1>7. \A i \in Idx : at[i] \in Picture /\ files'[i] \in Picture
  BY <1>1, <1>4
<1>8. /\ e \in [Idx -> Entry]
      /\ \A i \in Idx : e[i] # NoEntry =>
           /\ at[i] # 0 /\ files'[i] # 0
           /\ e[i] = [NoEntry EXCEPT !.t = at[i], !.thumb = files'[i]]
  BY <1>7, EntryWrites DEF Candidates
<1> QED
  BY <1>3, <1>4, <1>6, <1>8 DEF at

\* A job that stays, begins or ends as it should.
LEMMA RestingElsewhere ==
  ASSUME TypeInv, NEW j \in Jobs, NEW s, job' = [job EXCEPT ![j] = s],
         s.status = "running" \/ s = Ended(s.status)
  PROVE  Resting'
<1>1. job'[j] = s /\ \A k \in Jobs : k # j => job'[k] = job[k]
  BY DEF TypeInv, IndexTypeOK
<1> QED
  BY <1>1 DEF TypeInv, Resting, Running

\* The types of one entry, and of a job's state.
LEMMA JobParts ==
  ASSUME JobsOK, NEW j \in Jobs
  PROVE  /\ job[j] \in JobState /\ job[j].stage \in 1..4
         /\ job[j].stage <= Len(StageOrder(j))
         /\ job[j].cur \in [Idx -> Entry] /\ job[j].saved \in [Idx -> Entry]
         /\ job[j].plan \in [Idx -> Picture]
         /\ StageOf(j) \in {"sample", "ocr", "caption", "embed"}
         /\ \A i \in Idx : /\ job[j].cur[i].t \in Picture
                           /\ job[j].cur[i].ocr \in Picture
                           /\ job[j].cur[i].cap \in Picture
                           /\ job[j].cur[i].vec \in Picture
<1>1. /\ job[j] \in JobState /\ job[j].stage <= Len(StageOrder(j))
      /\ job[j].stage \in 1..4
      /\ job[j].cur \in [Idx -> Entry] /\ job[j].saved \in [Idx -> Entry]
      /\ job[j].plan \in [Idx -> Picture]
  BY DEF JobsOK, JobState
<1>2. \A i \in Idx : job[j].cur[i] \in Entry
  BY <1>1
<1>3. StageOf(j) \in {"sample", "ocr", "caption", "embed"}
  BY <1>1, StageFacts DEF StageOf
<1> QED
  BY <1>1, <1>2, <1>3 DEF Entry

\* A step that leaves a job in its stage, and the tables well-typed.
LEMMA MoveKeepsTypes ==
  ASSUME TypeInv, NEW j \in Jobs, Running(j),
         \/ \E x \in Points : GoTo(j, x)
         \/ \E x \in Points, e \in [Idx -> Entry] : Results(j, x, e),
         UNCHANGED orderly, faults' \in 0..MaxFaults, TablesOK'
  PROVE  TypeInv'
<1>1. JobsOK'
  BY JobMoves, TypeParts DEF TypeInv
<1>2. Resting'
  <2>1. PICK s : job' = [job EXCEPT ![j] = s] /\ s.status = "running"
    <3>0. job[j] \in JobState /\ job[j].status = "running"
      BY JobParts, TypeParts DEF TypeInv, Running
    <3>1. CASE \E x \in Points : GoTo(j, x)
      <4>1. PICK x \in Points : job' = [job EXCEPT ![j] = [job[j] EXCEPT !.pc = x]]
        BY <3>1 DEF GoTo
      <4>2. [job[j] EXCEPT !.pc = x].status = "running"
        BY <3>0 DEF JobState
      <4> QED
        BY <4>1, <4>2
    <3>2. CASE \E x \in Points, e \in [Idx -> Entry] : Results(j, x, e)
      <4>1. PICK x \in Points, e \in [Idx -> Entry] :
              job' = [job EXCEPT ![j] = [job[j] EXCEPT !.cur = e, !.pc = x]]
        BY <3>2 DEF Results
      <4>2. [job[j] EXCEPT !.cur = e, !.pc = x].status = "running"
        BY <3>0 DEF JobState
      <4> QED
        BY <4>1, <4>2
    <3> QED
      BY <3>1, <3>2
  <2> QED
    BY <2>1, RestingElsewhere
<1> QED
  BY <1>1, <1>2, TypeParts DEF TypeInv, IndexTypeOK, JobsOK, TablesOK

\* A job that is replaced.
LEMMA ReplaceKeepsTypes ==
  ASSUME TypeInv, NEW j \in Jobs, NEW s \in JobState, s.stage <= Len(StageOrder(j)),
         s.status = "running" \/ s = Ended(s.status), job' = [job EXCEPT ![j] = s],
         UNCHANGED orderly, faults' \in 0..MaxFaults, TablesOK'
  PROVE  TypeInv'
<1>1. JobsOK'
  BY JobUpdate, TypeParts DEF TypeInv
<1>2. Resting'
  BY RestingElsewhere
<1> QED
  BY <1>1, <1>2, TypeParts DEF TypeInv, IndexTypeOK, JobsOK, TablesOK

\* Every step keeps the types.
LEMMA IndexTypeStep == TypeInv /\ [Next]_vars => TypeInv'
<1> SUFFICES ASSUME TypeInv, [Next]_vars PROVE TypeInv'
  OBVIOUS
<1>0. /\ JobsOK /\ TablesOK /\ faults \in 0..MaxFaults
      /\ TablesOK => \A i \in Idx : frames[i] \in Row /\ files[i] \in Picture
  BY TypeParts DEF TypeInv, TablesOK
<1>c. UNCHANGED <<files, tables>> => TablesOK'
  BY <1>0 DEF TablesOK, tables
<1>f. \A j \in Jobs : 1 <= Len(StageOrder(j))
  BY StageFacts
<1> USE DEF tables
<1>1. ASSUME NEW j \in Jobs, StartIngest(j) PROVE TypeInv'
  <2>1. job[j] = NoJob
    BY <1>1 DEF TypeInv, Resting, StartIngest, MayAsk, Running, Ended, NoJob
  <2>2. /\ job' = [job EXCEPT ![j] = [NoJob EXCEPT !.status = "running"]]
        /\ [NoJob EXCEPT !.status = "running"] \in JobState
        /\ [NoJob EXCEPT !.status = "running"].stage = 1
        /\ [NoJob EXCEPT !.status = "running"].pc = "stage"
        /\ [NoJob EXCEPT !.status = "running"].status = "running"
    BY <1>0, <1>1, <2>1, EndedType, JobWrites DEF StartIngest, NoJob
  <2>3. TablesOK' /\ UNCHANGED orderly /\ faults' \in 0..MaxFaults
    BY <1>0, <1>1, <1>c DEF StartIngest
  <2> DEFINE s == [NoJob EXCEPT !.status = "running"]
  <2>4. /\ s \in JobState /\ s.stage <= Len(StageOrder(j))
        /\ s.pc # "persist" /\ s.status = "running" /\ job' = [job EXCEPT ![j] = s]
    BY <1>f, <2>2
  <2> HIDE DEF s
  <2> QED
    BY <2>3, <2>4, ReplaceKeepsTypes
<1>2. ASSUME NEW j \in Jobs, RequestDensify(j) PROVE TypeInv'
  <2> DEFINE s == IF Wanted(Window[j]) = {} THEN Ended("done")
                  ELSE [job[j] EXCEPT !.status = "running", !.plan = Plan(Window[j])]
  <2>1. job[j] = NoJob
    BY <1>2 DEF TypeInv, Resting, RequestDensify, MayAsk, Running, Ended, NoJob
  <2>2. Plan(Window[j]) \in [Idx -> Picture]
    BY NumberedType DEF Plan, Wanted, BucketMidpoints
  <2>3. job' = [job EXCEPT ![j] = s]
    BY <1>2 DEF RequestDensify
  <2>4. /\ s \in JobState /\ s.stage = 1
        /\ s.status = "running" => s.pc = "stage"
        /\ s.status = "running" \/ s = Ended(s.status)
    <3>1. CASE Wanted(Window[j]) = {}
      BY <3>1, EndedType
    <3>2. CASE Wanted(Window[j]) # {}
      <4> DEFINE r == [NoJob EXCEPT !.status = "running", !.plan = Plan(Window[j])]
      <4>1. r \in JobState
        BY <2>2, EndedType, JobWrites
      <4>2. r.stage = 1 /\ r.status = "running" /\ r.pc = "stage"
        BY DEF NoJob
      <4>3. s = r
        BY <2>1, <3>2
      <4> HIDE DEF r, s
      <4> QED
        BY <4>1, <4>2, <4>3
    <3> QED
      BY <3>1, <3>2
  <2>5. TablesOK' /\ UNCHANGED orderly /\ faults' \in 0..MaxFaults
    BY <1>0, <1>2, <1>c DEF RequestDensify
  <2> HIDE DEF s
  <2>6. s.stage <= Len(StageOrder(j))
    BY <1>f, <2>4
  <2> QED
    BY <2>3, <2>4, <2>5, <2>6, ReplaceKeepsTypes
<1>3. ASSUME NEW j \in Jobs, RunJob(j) PROVE TypeInv'
  <2>0. /\ Running(j) /\ job[j] \in JobState /\ job[j].stage \in 1..4
        /\ job[j].cur \in [Idx -> Entry] /\ job[j].saved \in [Idx -> Entry]
        /\ Schedule(j) \in [Idx -> Picture]
        /\ \A i \in Idx : /\ job[j].cur[i] \in Entry /\ job[j].cur[i].t \in Picture
                          /\ job[j].cur[i].ocr \in Picture
                          /\ job[j].cur[i].cap \in Picture
                          /\ job[j].cur[i].vec \in Picture
    <3>1. Running(j)
      BY <1>3 DEF RunJob, WriteFrames, DropNearDuplicates, Ocr, Caption, Embed, EmbedSkipped,
                  PersistFrames, PersistOcr, PersistCaptions, PersistVectors,
                  RewriteFtsScenes, RewriteContentItems, RebuildGraph, Save, Fail, Crash, At
    <3> QED
      BY <1>0, <3>1, JobParts, ScheduleType
  <2>1. CASE WriteFrames(j)
    <3>1. /\ files' \in [Idx -> Picture] /\ faults' \in 0..MaxFaults
          /\ \E e \in [Idx -> Entry] : Results(j, "dedup", e)
      BY <1>0, <2>1, CallsLeave
    <3>2. TablesOK' /\ UNCHANGED orderly
      BY <1>0, <2>1, <3>1 DEF WriteFrames, TablesOK
    <3> QED
      BY <2>0, <3>1, <3>2, MoveKeepsTypes DEF Points
  <2>2. CASE DropNearDuplicates(j)
    <3> DEFINE e == [i \in Idx |-> IF i \in Kept(j) THEN job[j].cur[i] ELSE NoEntry]
    <3>1. e \in [Idx -> Entry]
      BY <2>0, EntryWrites
    <3>2. TablesOK'
      BY <1>0, <2>2, EntryWrites DEF DropNearDuplicates, TablesOK
    <3>3. Results(j, "persist", e) /\ UNCHANGED <<orderly, faults>>
      BY <2>2 DEF DropNearDuplicates, At
    <3> HIDE DEF e
    <3> QED
      BY <1>0, <2>0, <3>1, <3>2, <3>3, MoveKeepsTypes DEF Points
  <2>3. CASE Ocr(j)
    <3> DEFINE e == [i \in Idx |-> [job[j].cur[i] EXCEPT !.ocr =
                      IF i \in Taken(j) /\ files[i] \in WithText THEN files[i] ELSE 0]]
    <3>1. e \in [Idx -> Entry]
      BY <1>0, <2>0, EntryWrites
    <3>2. TablesOK'
      BY <1>c, <2>3 DEF Ocr
    <3>3. Results(j, "persist", e) /\ UNCHANGED <<orderly, faults>>
      BY <2>3 DEF Ocr, At
    <3> HIDE DEF e
    <3> QED
      BY <1>0, <2>0, <3>1, <3>2, <3>3, MoveKeepsTypes DEF Points
  <2>4. CASE Caption(j)
    <3> DEFINE e == [i \in Idx |-> [job[j].cur[i] EXCEPT !.cap =
                      IF i \in NeedsCaption(j) THEN files[i] ELSE @]]
    <3>1. e \in [Idx -> Entry]
      BY <1>0, <2>0, EntryWrites
    <3>2. TablesOK'
      BY <1>c, <2>4 DEF Caption
    <3>3. Results(j, "persist", e) /\ UNCHANGED <<orderly, faults>>
      BY <2>4 DEF Caption, At
    <3> HIDE DEF e
    <3> QED
      BY <1>0, <2>0, <3>1, <3>2, <3>3, MoveKeepsTypes DEF Points
  <2>5. CASE Embed(j)
    <3> DEFINE e == [i \in Idx |-> [job[j].cur[i] EXCEPT !.vec =
                      IF i \in Taken(j) THEN files[i] ELSE 0]]
    <3>1. e \in [Idx -> Entry]
      BY <1>0, <2>0, EntryWrites
    <3>2. TablesOK' /\ UNCHANGED <<orderly, faults>>
      BY <1>c, <2>5 DEF Embed
    <3>3. Results(j, "persist", e)
      BY <2>5 DEF Embed
    <3> HIDE DEF e
    <3> QED
      BY <1>0, <2>0, <3>1, <3>2, <3>3, MoveKeepsTypes DEF Points
  <2>e. CASE EmbedSkipped(j)
    <3> DEFINE e == [i \in Idx |-> [job[j].cur[i] EXCEPT !.vec = 0]]
    <3>1. e \in [Idx -> Entry]
      BY <2>0, EntryWrites
    <3>2. TablesOK' /\ UNCHANGED <<orderly, faults>>
      BY <1>c, <2>e DEF EmbedSkipped
    <3>3. Results(j, "persist", e)
      BY <2>e DEF EmbedSkipped
    <3> HIDE DEF e
    <3> QED
      BY <1>0, <2>0, <3>1, <3>2, <3>3, MoveKeepsTypes DEF Points
  <2>6. CASE PersistFrames(j)
    <3>1. TablesOK'
      BY <1>0, <2>0, <2>6, EntryWrites DEF PersistFrames, Upserted, TablesOK, Row
    <3> QED
      BY <1>0, <2>0, <2>6, <3>1, MoveKeepsTypes DEF PersistFrames, Points
  <2>7. CASE PersistOcr(j)
    <3>1. TablesOK'
      BY <1>0, <2>0, <2>7 DEF PersistOcr, TablesOK, Row
    <3> QED
      BY <1>0, <2>0, <2>7, <3>1, MoveKeepsTypes DEF PersistOcr, Points
  <2>8. CASE PersistCaptions(j)
    <3>1. TablesOK'
      BY <1>0, <2>0, <2>8 DEF PersistCaptions, TablesOK, Row
    <3> QED
      BY <1>0, <2>0, <2>8, <3>1, MoveKeepsTypes DEF PersistCaptions, Points
  <2>9. CASE PersistVectors(j)
    <3>1. Vectors(j) \subseteq Times
      BY <2>0 DEF Vectors, Times, Picture
    <3>2. TablesOK'
      BY <1>0, <2>0, <2>9, <3>1 DEF PersistVectors, Pooled, TablesOK
    <3> QED
      BY <1>0, <2>0, <2>9, <3>2, MoveKeepsTypes DEF PersistVectors, Points
  <2>10. CASE RewriteFtsScenes(j)
    <3>1. Texts \subseteq Times
      BY <1>0 DEF Texts, Row, Picture, Times
    <3>2. TablesOK'
      BY <1>0, <2>10, <3>1 DEF RewriteFtsScenes, TablesOK
    <3> QED
      BY <1>0, <2>0, <2>10, <3>2, MoveKeepsTypes DEF RewriteFtsScenes, Points
  <2>11. CASE RewriteContentItems(j)
    <3>1. TablesOK'
      BY <1>0, <2>11 DEF RewriteContentItems, TablesOK
    <3> QED
      BY <1>0, <2>0, <2>11, <3>1, MoveKeepsTypes DEF RewriteContentItems, Points
  <2>12. CASE RebuildGraph(j)
    <3>1. TablesOK'
      BY <1>0, <2>12 DEF RebuildGraph, TablesOK
    <3> QED
      BY <1>0, <2>0, <2>12, <3>1, MoveKeepsTypes DEF RebuildGraph, Points
  <2>13. CASE Save(j)
    <3>1. TablesOK' /\ UNCHANGED <<orderly, faults>>
      BY <1>c, <2>13 DEF Save
    <3>2. CASE job[j].stage = Len(StageOrder(j))
      <4>1. job' = [job EXCEPT ![j] = Ended("done")]
        BY <2>13, <3>2 DEF Save
      <4> QED
        BY <1>0, <1>f, <3>1, <4>1, EndedType, ReplaceKeepsTypes
    <3>3. CASE job[j].stage # Len(StageOrder(j))
      <4> DEFINE s == [job[j] EXCEPT !.stage = job[j].stage + 1, !.pc = "stage",
                                     !.saved = job[j].cur]
      <4>1. job' = [job EXCEPT ![j] = s]
        <5>1. job' = [job EXCEPT ![j] =
                        IF job[j].stage = Len(StageOrder(j)) THEN Ended("done") ELSE s]
          BY <2>13 DEF Save
        <5> HIDE DEF s
        <5> QED
          BY <3>3, <5>1
      <4>2. job[j].stage + 1 \in 1..4 /\ job[j].stage + 1 <= Len(StageOrder(j))
        <5>1. Len(StageOrder(j)) \in {3, 4} /\ job[j].stage <= Len(StageOrder(j))
          <6>1. Len(StageOrder(j)) \in {3, 4}
            BY StageFacts
          <6> QED
            BY <1>0, <6>1 DEF JobsOK
        <5> DEFINE m == job[j].stage
                   n == Len(StageOrder(j))
        <5>2. m \in 1..4 /\ n \in {3, 4} /\ m <= n /\ m # n
          BY <2>0, <3>3, <5>1
        <5> HIDE DEF m, n
        <5>3. m + 1 \in 1..4 /\ m + 1 <= n
          BY <5>2
        <5> QED
          BY <5>3 DEF m, n
      <4>3. s \in JobState
        <5> DEFINE n == job[j].stage + 1
        <5>1. n \in 1..4
          BY <4>2
        <5> HIDE DEF n
        <5>2. [job[j] EXCEPT !.stage = n, !.pc = "stage", !.saved = job[j].cur] \in JobState
          BY <2>0, <5>1, JobWrites
        <5> QED
          BY <5>2 DEF n
      <4>4. s.stage = job[j].stage + 1 /\ s.pc = "stage" /\ s.status = "running"
        BY <2>0 DEF JobState, Running
      <4> HIDE DEF s
      <4> QED
        BY <1>0, <3>1, <4>1, <4>2, <4>3, <4>4, ReplaceKeepsTypes
    <3> QED
      BY <3>2, <3>3
  <2>14. CASE Fail(j)
    <3>1. job' = [job EXCEPT ![j] = Ended("error")] /\ UNCHANGED orderly
      BY <2>14 DEF Fail
    <3>2. TablesOK' /\ faults' \in 0..MaxFaults
      BY <1>0, <1>c, <2>14 DEF Fail
    <3> QED
      BY <1>f, <3>1, <3>2, EndedType, ReplaceKeepsTypes
  <2>15. CASE Crash(j)
    <3> DEFINE s == [job[j] EXCEPT !.stage = job[j].stage, !.pc = "stage",
                                   !.cur = job[j].saved]
    <3>1. job' = [job EXCEPT ![j] = s] /\ UNCHANGED orderly
      BY <2>15 DEF Crash, Resumed
    <3>2. TablesOK' /\ faults' \in 0..MaxFaults
      BY <1>0, <1>c, <2>15 DEF Crash
    <3>3. s \in JobState
      BY <2>0, JobWrites
    <3>4. s.stage = job[j].stage /\ s.pc = "stage" /\ s.status = "running"
      BY <2>0 DEF JobState, Running
    <3> HIDE DEF s
    <3> QED
      BY <1>0, <3>1, <3>2, <3>3, <3>4, JobParts, ReplaceKeepsTypes
  <2> QED
    BY <1>3, <2>1, <2>2, <2>3, <2>4, <2>5, <2>e, <2>6, <2>7, <2>8, <2>9, <2>10, <2>11,
       <2>12, <2>13, <2>14, <2>15 DEF RunJob
<1>4. ASSUME UNCHANGED vars PROVE TypeInv'
  BY <1>4 DEF TypeInv, IndexTypeOK, Resting, vars, At, Running, StageOf, Taken
<1> QED
  BY <1>1, <1>2, <1>3, <1>4 DEF Next

\* The variables keep their types, and a job stays among its own stages,
\* whatever the windows, pictures and interleavings.
THEOREM IndexTypeCorrect == Spec => []IndexTypeOK
<1>1. TypeInv => IndexTypeOK
  BY DEF TypeInv
<1> QED
  BY <1>1, IndexTypeInit, IndexTypeStep, PTL DEF Spec

-----------------------------------------------------------------------------
(***************************************************************************)
(* Steps of a job.                                                         *)
(***************************************************************************)

\* The step of one job, and what the other jobs see of it.
JobSteps(j) == StartIngest(j) \/ RequestDensify(j) \/ RunJob(j)

LEMMA OthersKeep ==
  ASSUME TypeInv, NEW j \in Jobs, JobSteps(j)
  PROVE  \A k \in Jobs : k # j => job'[k] = job[k]
<1> SUFFICES ASSUME NEW k \in Jobs, k # j PROVE job'[k] = job[k]
  OBVIOUS
<1>1. job \in [Jobs -> JobState]
  BY DEF TypeInv, IndexTypeOK
<1>2. \A s : job' = [job EXCEPT ![j] = s] => job'[k] = job[k]
  BY <1>1
<1>3. \E s : job' = [job EXCEPT ![j] = s]
  <2>1. \A x : GoTo(j, x) => \E s : job' = [job EXCEPT ![j] = s]
    BY DEF GoTo
  <2>2. \A x, e : Results(j, x, e) => \E s : job' = [job EXCEPT ![j] = s]
    BY DEF Results
  <2>3. CASE StartIngest(j) \/ RequestDensify(j) \/ Save(j) \/ Fail(j) \/ Crash(j)
    BY <2>3 DEF StartIngest, RequestDensify, Save, Fail, Crash
  <2>4. CASE \/ WriteFrames(j) \/ DropNearDuplicates(j) \/ Ocr(j) \/ Caption(j)
             \/ Embed(j) \/ EmbedSkipped(j)
    BY <2>2, <2>4 DEF WriteFrames, DropNearDuplicates, Ocr, Caption, Embed, EmbedSkipped
  <2>5. CASE \/ PersistFrames(j) \/ PersistOcr(j) \/ PersistCaptions(j)
             \/ PersistVectors(j) \/ RewriteFtsScenes(j)
             \/ RewriteContentItems(j) \/ RebuildGraph(j)
    BY <2>1, <2>5 DEF PersistFrames, PersistOcr, PersistCaptions, PersistVectors,
                      RewriteFtsScenes, RewriteContentItems, RebuildGraph
  <2> QED
    BY <2>3, <2>4, <2>5 DEF JobSteps, RunJob
<1> QED
  BY <1>2, <1>3

\* What a job's record is after each kind of step.
LEMMA AfterGoTo ==
  ASSUME TypeInv, NEW j \in Jobs, NEW x, GoTo(j, x)
  PROVE  /\ job'[j].status = job[j].status /\ job'[j].stage = job[j].stage
         /\ job'[j].pc = x /\ job'[j].cur = job[j].cur
         /\ job'[j].saved = job[j].saved /\ job'[j].plan = job[j].plan
         /\ Running(j)' = Running(j) /\ StageOf(j)' = StageOf(j)
         /\ Taken(j)' = Taken(j)
<1>1. job[j] \in JobState /\ job'[j] = [job[j] EXCEPT !.pc = x]
  BY DEF TypeInv, IndexTypeOK, GoTo
<1> QED
  BY <1>1 DEF JobState, Running, StageOf, Taken

LEMMA AfterResults ==
  ASSUME TypeInv, NEW j \in Jobs, NEW x, NEW e, Results(j, x, e)
  PROVE  /\ job'[j].status = job[j].status /\ job'[j].stage = job[j].stage
         /\ job'[j].pc = x /\ job'[j].cur = e
         /\ job'[j].saved = job[j].saved /\ job'[j].plan = job[j].plan
         /\ Running(j)' = Running(j) /\ StageOf(j)' = StageOf(j)
<1>1. job[j] \in JobState /\ job'[j] = [job[j] EXCEPT !.cur = e, !.pc = x]
  BY DEF TypeInv, IndexTypeOK, Results
<1> QED
  BY <1>1 DEF JobState, Running, StageOf

\* The steps that begin, end or restart a stage.
LEMMA AfterStart ==
  ASSUME TypeInv, NEW j \in Jobs, StartIngest(j) \/ RequestDensify(j)
  PROVE  /\ job[j] = NoJob /\ UNCHANGED <<orderly, files, tables, faults>>
         /\ \/ job'[j] = Ended("done") /\ Kind[j] = "densify"
            \/ /\ job'[j].status = "running" /\ job'[j].stage = 1
               /\ job'[j].pc = "stage"
               /\ job'[j].cur = NoEntries /\ job'[j].saved = NoEntries
               /\ Kind[j] = "full" => job'[j].plan = Nothing
               /\ Kind[j] = "densify" => job'[j].plan = Plan(Window[j])
<1>1. job[j] = NoJob
  BY DEF TypeInv, Resting, StartIngest, RequestDensify, MayAsk, Running, Ended, NoJob
<1>2. CASE StartIngest(j)
  <2>1. job'[j] = [NoJob EXCEPT !.status = "running"] /\ Kind[j] = "full"
    BY <1>1, <1>2 DEF StartIngest, TypeInv, IndexTypeOK
  <2> QED
    BY <1>1, <1>2, <2>1 DEF StartIngest, NoJob
<1>3. CASE RequestDensify(j)
  <2>1. /\ Kind[j] = "densify"
        /\ job'[j] = IF Wanted(Window[j]) = {} THEN Ended("done")
                     ELSE [NoJob EXCEPT !.status = "running", !.plan = Plan(Window[j])]
    BY <1>1, <1>3 DEF RequestDensify, TypeInv, IndexTypeOK
  <2>2. CASE Wanted(Window[j]) = {}
    BY <1>1, <1>3, <2>1, <2>2 DEF RequestDensify
  <2>3. CASE Wanted(Window[j]) # {}
    <3>1. job'[j] = [NoJob EXCEPT !.status = "running", !.plan = Plan(Window[j])]
      BY <2>1, <2>3
    <3>2. /\ job'[j].status = "running" /\ job'[j].stage = 1 /\ job'[j].pc = "stage"
          /\ job'[j].cur = NoEntries /\ job'[j].saved = NoEntries
          /\ job'[j].plan = Plan(Window[j])
      BY <3>1 DEF NoJob
    <3> QED
      BY <1>1, <1>3, <2>1, <3>2 DEF RequestDensify
  <2> QED
    BY <2>2, <2>3
<1> QED
  BY <1>2, <1>3

LEMMA AfterSave ==
  ASSUME TypeInv, NEW j \in Jobs, Save(j)
  PROVE  /\ UNCHANGED <<orderly, files, tables, faults>>
         /\ \/ StageOf(j) = "embed" /\ job'[j] = Ended("done")
            \/ /\ StageOf(j) # "embed"
               /\ job'[j].status = "running" /\ job'[j].stage = job[j].stage + 1
               /\ job'[j].pc = "stage" /\ job'[j].plan = job[j].plan
               /\ job'[j].cur = job[j].cur /\ job'[j].saved = job[j].cur
               /\ StageOf(j)' \in {"ocr", "caption", "embed"}
               /\ StageOf(j) = "sample" => StageOf(j)' = "ocr"
<1>0. /\ job[j] \in JobState /\ job[j].stage \in 1..4 /\ job[j].stage <= Len(StageOrder(j))
      /\ job \in [Jobs -> JobState] /\ Running(j)
  BY JobParts, TypeParts DEF TypeInv, IndexTypeOK, Save
<1>1. /\ StageOf(j) = "embed" <=> job[j].stage = Len(StageOrder(j))
      /\ StageOf(j) # "embed" =>
           LET next == StageOrder(j)[job[j].stage + 1]
           IN  next \in {"ocr", "caption", "embed"} /\ (StageOf(j) = "sample" => next = "ocr")
  BY <1>0, StageFacts DEF StageOf
<1>2. CASE StageOf(j) = "embed"
  <2>1. job' = [job EXCEPT ![j] = Ended("done")]
    BY <1>1, <1>2 DEF Save
  <2> QED
    BY <1>0, <1>2, <2>1 DEF Save
<1>3. CASE StageOf(j) # "embed"
  <2>1. job'[j] = [job[j] EXCEPT !.stage = job[j].stage + 1, !.pc = "stage",
                                 !.saved = job[j].cur]
    BY <1>0, <1>1, <1>3 DEF Save
  <2>2. /\ job'[j].status = "running" /\ job'[j].stage = job[j].stage + 1
        /\ job'[j].pc = "stage" /\ job'[j].plan = job[j].plan
        /\ job'[j].cur = job[j].cur /\ job'[j].saved = job[j].cur
    BY <1>0, <2>1 DEF JobState, Running
  <2>3. StageOf(j)' = StageOrder(j)[job[j].stage + 1]
    BY <2>2 DEF StageOf, StageOrder
  <2> QED
    BY <1>1, <1>3, <2>2, <2>3 DEF Save
<1> QED
  BY <1>2, <1>3

LEMMA AfterFail ==
  ASSUME TypeInv, NEW j \in Jobs, Fail(j)
  PROVE  UNCHANGED <<orderly, files, tables>> /\ job'[j] = Ended("error")
BY DEF Fail, TypeInv, IndexTypeOK

LEMMA AfterCrash ==
  ASSUME TypeInv, NEW j \in Jobs, Crash(j)
  PROVE  /\ UNCHANGED <<orderly, files, tables>> /\ Running(j) /\ Running(j)'
         /\ job'[j].stage = job[j].stage /\ job'[j].pc = "stage"
         /\ job'[j].plan = job[j].plan /\ job'[j].saved = job[j].saved
         /\ job'[j].cur = job[j].saved /\ StageOf(j)' = StageOf(j)
<1>1. job[j] \in JobState /\ job'[j] = [job[j] EXCEPT !.stage = job[j].stage,
                                         !.pc = "stage", !.cur = job[j].saved]
  BY DEF TypeInv, IndexTypeOK, Crash, Resumed
<1>2. /\ job'[j].status = job[j].status
      /\ job'[j].stage = job[j].stage /\ job'[j].pc = "stage"
      /\ job'[j].plan = job[j].plan /\ job'[j].saved = job[j].saved
      /\ job'[j].cur = job[j].saved
  BY <1>1 DEF JobState
<1>3. UNCHANGED <<orderly, files, tables>> /\ Running(j)
  BY DEF Crash
<1> QED
  BY <1>2, <1>3 DEF Running, StageOf

\* What comes next in each stage.
PointsOf(stage) ==
  CASE stage = "sample" -> {"stage", "dedup", "persist", "items", "graph", "save"}
    [] stage = "embed"  -> {"stage", "persist", "save"}
    [] OTHER            -> {"stage", "persist", "fts", "items", "graph", "save"}

PointsKept == \A j \in Jobs : Running(j) => job[j].pc \in PointsOf(StageOf(j))

LEMMA PointsStep == TypeInv /\ PointsKept /\ [Next]_vars => PointsKept'
<1> SUFFICES ASSUME TypeInv, PointsKept, [Next]_vars PROVE PointsKept'
  OBVIOUS
<1>1. ASSUME NEW j \in Jobs, JobSteps(j) PROVE PointsKept'
  <2>1. ASSUME NEW k \in Jobs, k # j, Running(k)'
        PROVE  job'[k].pc \in PointsOf(StageOf(k)')
    <3>1. job'[k] = job[k]
      BY <1>1, <2>1, OthersKeep
    <3> QED
      BY <2>1, <3>1 DEF PointsKept, Running, StageOf
  <2>2. Running(j)' => job'[j].pc \in PointsOf(StageOf(j)')
    <3> USE DEF PointsOf
    <3>1. job'[j].pc \in {"stage", "save"} => job'[j].pc \in PointsOf(StageOf(j)')
      OBVIOUS
    <3>2. CASE StartIngest(j) \/ RequestDensify(j)
      BY <3>1, <3>2, AfterStart, EndedType DEF Running
    <3>3. CASE \/ WriteFrames(j) \/ DropNearDuplicates(j) \/ Ocr(j) \/ Caption(j)
               \/ Embed(j) \/ EmbedSkipped(j)
      <4>1. CASE WriteFrames(j)
        BY <4>1, AfterResults DEF WriteFrames, At
      <4>2. CASE \/ DropNearDuplicates(j) \/ Ocr(j) \/ Caption(j)
                 \/ Embed(j) \/ EmbedSkipped(j)
        BY <4>2, AfterResults
           DEF DropNearDuplicates, Ocr, Caption, Embed, EmbedSkipped, At
      <4> QED
        BY <3>3, <4>1, <4>2
    <3>4. CASE PersistFrames(j) \/ PersistOcr(j) \/ PersistCaptions(j)
      BY <3>4, AfterGoTo DEF PersistFrames, PersistOcr, PersistCaptions, At
    <3>5. CASE RewriteFtsScenes(j) \/ RewriteContentItems(j)
      <4>1. job[j].pc \in {"fts", "items"} /\ Running(j)
        BY <3>5 DEF RewriteFtsScenes, RewriteContentItems
      <4>2. StageOf(j) # "embed"
        BY <4>1 DEF PointsKept
      <4>3. job'[j].pc \in {"items", "graph"} /\ StageOf(j)' = StageOf(j)
        BY <3>5, AfterGoTo DEF RewriteFtsScenes, RewriteContentItems
      <4> QED
        BY <4>2, <4>3
    <3>6. CASE PersistVectors(j) \/ RebuildGraph(j)
      BY <3>1, <3>6, AfterGoTo DEF PersistVectors, RebuildGraph
    <3>7. CASE Save(j)
      BY <3>1, <3>7, AfterSave, EndedType DEF Running
    <3>8. CASE Fail(j)
      BY <3>8, AfterFail, EndedType DEF Running
    <3>9. CASE Crash(j)
      BY <3>1, <3>9, AfterCrash
    <3> QED
      BY <1>1, <3>2, <3>3, <3>4, <3>5, <3>6, <3>7, <3>8, <3>9 DEF JobSteps, RunJob
  <2> QED
    BY <2>1, <2>2 DEF PointsKept
<1>2. ASSUME UNCHANGED vars PROVE PointsKept'
  BY <1>2 DEF PointsKept, Running, StageOf, vars
<1> QED
  BY <1>1, <1>2 DEF Next, JobSteps

-----------------------------------------------------------------------------
(***************************************************************************)
(* The projections.  Whenever one differs from the tables it is made of,   *)
(* some job is still to rewrite it, or has failed.                         *)
(***************************************************************************)

Failed(j) == job[j].status = "error"

ItemsDue(j) ==
  Failed(j) \/ (Running(j) /\ StageOf(j) # "embed" /\ job[j].pc \notin {"graph", "save"})
GraphDue(j) ==
  Failed(j) \/ (Running(j) /\ StageOf(j) # "embed" /\ job[j].pc # "save")
FtsDue(j) ==
  \/ Failed(j)
  \/ Running(j) /\ StageOf(j) = "sample"
  \/ /\ Running(j) /\ StageOf(j) \in {"ocr", "caption"}
     /\ job[j].pc \notin {"items", "graph", "save"}

ItemsOwed == items # frames => \E j \in Jobs : ItemsDue(j)
GraphOwed == graph # items => \E j \in Jobs : GraphDue(j)
FtsOwed == fts # Texts => \E j \in Jobs : FtsDue(j)
ProjectionsOwed == ItemsOwed /\ GraphOwed /\ FtsOwed

\* What a job owes does not change by a step of another.
LEMMA DueElsewhere ==
  ASSUME NEW k \in Jobs, job'[k] = job[k]
  PROVE  /\ ItemsDue(k)' = ItemsDue(k) /\ GraphDue(k)' = GraphDue(k)
         /\ FtsDue(k)' = FtsDue(k)
<1>1. /\ Failed(k)' = Failed(k) /\ Running(k)' = Running(k) /\ StageOf(k)' = StageOf(k)
      /\ job'[k].pc = job[k].pc
  BY DEF Failed, Running, StageOf
<1> QED
  BY <1>1 DEF ItemsDue, GraphDue, FtsDue

\* A step of a job brings a projection up to date, leaves the job in debt, or
\* leaves projection and tables as they are and was not due.
LEMMA DueStep ==
  ASSUME TypeInv, PointsKept, NEW j \in Jobs, JobSteps(j)
  PROVE  /\ \/ items' = frames' \/ ItemsDue(j)'
            \/ UNCHANGED <<items, frames>> /\ ~ItemsDue(j)
         /\ \/ graph' = items' \/ GraphDue(j)'
            \/ UNCHANGED <<graph, items>> /\ ~GraphDue(j)
         /\ \/ fts' = Texts' \/ FtsDue(j)'
            \/ UNCHANGED <<fts, frames>> /\ ~FtsDue(j)
<1> USE DEF tables
<1>0. StageOf(j) \in {"sample", "ocr", "caption", "embed"}
  BY JobParts, TypeParts DEF TypeInv
<1>1. CASE StartIngest(j) \/ RequestDensify(j)
  <2>1. UNCHANGED tables /\ job[j] = NoJob
    BY <1>1, AfterStart
  <2> QED
    BY <2>1 DEF ItemsDue, GraphDue, FtsDue, Failed, Running, NoJob
<1>2. CASE \/ WriteFrames(j) \/ DropNearDuplicates(j) \/ Ocr(j) \/ Caption(j)
  <2>1. \E x \in {"dedup", "persist"} : \E e : Results(j, x, e)
    BY <1>2 DEF WriteFrames, DropNearDuplicates, Ocr, Caption
  <2>2. StageOf(j)' # "embed" /\ Running(j)' /\ StageOf(j)' = StageOf(j)
    BY <1>2, <2>1, AfterResults DEF WriteFrames, DropNearDuplicates, Ocr, Caption, At
  <2>3. job'[j].pc \in {"dedup", "persist"}
    BY <2>1, AfterResults
  <2> QED
    BY <1>0, <2>2, <2>3 DEF ItemsDue, GraphDue, FtsDue
<1>3. CASE Embed(j) \/ EmbedSkipped(j)
  <2>1. UNCHANGED tables /\ Running(j) /\ StageOf(j) = "embed"
    BY <1>3 DEF Embed, EmbedSkipped, At
  <2> QED
    BY <2>1 DEF ItemsDue, GraphDue, FtsDue, Failed, Running
<1>4. CASE PersistFrames(j)
  <2>1. /\ job'[j].pc = "items" /\ Running(j)' /\ StageOf(j)' = "sample"
    BY <1>4, AfterGoTo DEF PersistFrames, At
  <2> QED
    BY <2>1 DEF ItemsDue, GraphDue, FtsDue
<1>5. CASE PersistOcr(j) \/ PersistCaptions(j)
  <2>1. /\ job'[j].pc = "fts" /\ Running(j)' /\ StageOf(j)' \in {"ocr", "caption"}
    BY <1>5, AfterGoTo DEF PersistOcr, PersistCaptions, At
  <2> QED
    BY <2>1 DEF ItemsDue, GraphDue, FtsDue
<1>6. CASE PersistVectors(j)
  <2>1. UNCHANGED <<items, frames, graph, fts>> /\ Running(j) /\ StageOf(j) = "embed"
    BY <1>6 DEF PersistVectors, At
  <2> QED
    BY <2>1 DEF ItemsDue, GraphDue, FtsDue, Failed, Running
<1>7. CASE RewriteFtsScenes(j)
  <2>1. fts' = Texts /\ UNCHANGED <<frames, items, graph>> /\ Running(j) /\ job[j].pc = "fts"
    BY <1>7 DEF RewriteFtsScenes
  <2>2. fts' = Texts'
    BY <2>1 DEF Texts
  <2>3. job'[j].pc = "items" /\ Running(j)' /\ StageOf(j)' = StageOf(j)
    BY <1>7, <2>1, AfterGoTo DEF RewriteFtsScenes
  <2> QED
    BY <1>0, <2>1, <2>2, <2>3 DEF ItemsDue, GraphDue, FtsDue, Failed, Running
<1>8. CASE RewriteContentItems(j)
  <2>1. /\ items' = frames' /\ UNCHANGED <<frames, fts, graph>>
        /\ Running(j) /\ job[j].pc = "items"
    BY <1>8 DEF RewriteContentItems
  <2>2. StageOf(j) # "embed"
    BY <2>1 DEF PointsKept, PointsOf
  <2>3. job'[j].pc = "graph" /\ Running(j)' /\ StageOf(j)' = StageOf(j)
    BY <1>8, <2>1, AfterGoTo DEF RewriteContentItems
  <2>4. ~(StageOf(j) = "sample") => FtsDue(j) = FtsDue(j)'
    BY <2>1, <2>3 DEF FtsDue, Failed, Running
  <2> QED
    BY <2>1, <2>2, <2>3, <2>4 DEF ItemsDue, GraphDue, FtsDue
<1>9. CASE RebuildGraph(j)
  <2>1. /\ graph' = items' /\ UNCHANGED <<frames, fts, items>>
        /\ Running(j) /\ job[j].pc = "graph"
    BY <1>9 DEF RebuildGraph
  <2>3. job'[j].pc = "save" /\ Running(j)' /\ StageOf(j)' = StageOf(j)
    BY <1>9, <2>1, AfterGoTo DEF RebuildGraph
  <2> QED
    BY <2>1, <2>3 DEF ItemsDue, GraphDue, FtsDue, Failed, Running
<1>10. CASE Save(j)
  <2>1. UNCHANGED tables /\ Running(j) /\ job[j].pc = "save"
    BY <1>10, AfterSave DEF Save
  <2>2. FtsDue(j) => FtsDue(j)'
    BY <1>10, <2>1, AfterSave DEF FtsDue, Failed, Running
  <2> QED
    BY <2>1, <2>2 DEF ItemsDue, GraphDue, Failed, Running
<1>11. CASE Fail(j)
  <2>1. Failed(j)'
    BY <1>11, AfterFail, EndedType DEF Failed
  <2> QED
    BY <2>1 DEF ItemsDue, GraphDue, FtsDue
<1>12. CASE Crash(j)
  <2>1. UNCHANGED tables /\ Running(j)' /\ job'[j].pc = "stage" /\ StageOf(j)' = StageOf(j)
    BY <1>12, AfterCrash
  <2>2. Running(j)
    BY <1>12 DEF Crash
  <2> QED
    BY <1>0, <2>1, <2>2 DEF ItemsDue, GraphDue, FtsDue, Failed, Running
<1> QED
  BY <1>1, <1>2, <1>3, <1>4, <1>5, <1>6, <1>7, <1>8, <1>9, <1>10, <1>11, <1>12
     DEF JobSteps, RunJob

LEMMA OwedStep ==
  TypeInv /\ PointsKept /\ ProjectionsOwed /\ [Next]_vars => ProjectionsOwed'
<1> SUFFICES ASSUME TypeInv, PointsKept, ProjectionsOwed, [Next]_vars
             PROVE  ProjectionsOwed'
  OBVIOUS
<1>1. ASSUME NEW j \in Jobs, JobSteps(j) PROVE ProjectionsOwed'
  <2>1. \A k \in Jobs : k # j => /\ ItemsDue(k)' = ItemsDue(k)
                                 /\ GraphDue(k)' = GraphDue(k)
                                 /\ FtsDue(k)' = FtsDue(k)
    BY <1>1, OthersKeep, DueElsewhere
  <2>2. ItemsOwed'
    <3>1. CASE items' = frames' \/ ItemsDue(j)'
      BY <3>1 DEF ItemsOwed
    <3>2. CASE UNCHANGED <<items, frames>> /\ ~ItemsDue(j)
      BY <2>1, <3>2 DEF ItemsOwed, ProjectionsOwed
    <3> QED
      BY <1>1, <3>1, <3>2, DueStep
  <2>3. GraphOwed'
    <3>1. CASE graph' = items' \/ GraphDue(j)'
      BY <3>1 DEF GraphOwed
    <3>2. CASE UNCHANGED <<graph, items>> /\ ~GraphDue(j)
      BY <2>1, <3>2 DEF GraphOwed, ProjectionsOwed
    <3> QED
      BY <1>1, <3>1, <3>2, DueStep
  <2>4. FtsOwed'
    <3>1. CASE fts' = Texts' \/ FtsDue(j)'
      BY <3>1 DEF FtsOwed
    <3>2. CASE UNCHANGED <<fts, frames>> /\ ~FtsDue(j)
      <4>1. Texts' = Texts
        BY <3>2 DEF Texts
      <4> QED
        BY <2>1, <3>2, <4>1 DEF FtsOwed, ProjectionsOwed
    <3> QED
      BY <1>1, <3>1, <3>2, DueStep
  <2> QED
    BY <2>2, <2>3, <2>4 DEF ProjectionsOwed
<1>2. ASSUME UNCHANGED vars PROVE ProjectionsOwed'
  BY <1>2 DEF ProjectionsOwed, ItemsOwed, GraphOwed, FtsOwed, ItemsDue, GraphDue, FtsDue,
              Failed, Running, StageOf, Texts, vars, tables
<1> QED
  BY <1>1, <1>2 DEF Next, JobSteps

LEMMA OwedInit == Init => PointsKept /\ ProjectionsOwed
<1> SUFFICES ASSUME Init PROVE PointsKept /\ ProjectionsOwed
  OBVIOUS
<1>1. PointsKept
  BY DEF Init, PointsKept, Running, NoJob
<1>2. Texts = {}
  BY DEF Init, Texts, NoRow
<1> QED
  BY <1>1, <1>2 DEF Init, ProjectionsOwed, ItemsOwed, GraphOwed, FtsOwed

\* Once no job is under way or has failed, full text, items and graph are
\* those of the rows: however the jobs of the asset interleaved, whichever
\* died on the way, and whatever ffmpeg, OCR, the captioner and the encoder
\* made of the frames in each attempt.
THEOREM IndexCurrentWhenQuiet == Spec => []QuietIndexCurrent
<1> DEFINE Inv == TypeInv /\ PointsKept /\ ProjectionsOwed
<1>1. Init => Inv
  BY IndexTypeInit, OwedInit
<1>2. Inv /\ [Next]_vars => Inv'
  BY IndexTypeStep, PointsStep, OwedStep
<1>3. Inv => QuietIndexCurrent
  <2> SUFFICES ASSUME Inv, Quiet PROVE items = frames /\ graph = frames /\ fts = Texts
    BY DEF QuietIndexCurrent
  <2>1. \A j \in Jobs : ~Failed(j) /\ ~Running(j)
    BY DEF Quiet, Failed, Running
  <2>2. \A j \in Jobs : ~ItemsDue(j) /\ ~GraphDue(j) /\ ~FtsDue(j)
    BY <2>1 DEF ItemsDue, GraphDue, FtsDue
  <2> QED
    BY <2>2 DEF ProjectionsOwed, ItemsOwed, GraphOwed, FtsOwed
<1> QED
  BY <1>1, <1>2, <1>3, PTL DEF Spec
=============================================================================
