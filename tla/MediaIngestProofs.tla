-------------------------- MODULE MediaIngestProofs --------------------------
(***************************************************************************)
(* Proofs about MediaIngest for any jobs, sources, numbers of segments and *)
(* bound, and about Subprocess for any callers.                            *)
(***************************************************************************)
EXTENDS MediaIngest, TLAPS

-----------------------------------------------------------------------------
(* Calls.                                                                  *)

CallTypeOK ==
  /\ call \in [Callers -> Call \cup {NoCall}]
  /\ orphans \subseteq Callers \X Outputs
  /\ blows \in [Callers -> Nat]

\* A call that waits for a process it has told to end was hit once; a caller
\* that left a process behind was hit twice.
Counted ==
  \A c \in Callers :
    /\ call[c].state \in Second => blows[c] >= 1
    /\ \A o \in Outputs : <<c, o>> \in orphans => blows[c] >= 2

CallInv == CallTypeOK /\ Counted

LEMMA CallStates ==
  ASSUME CallTypeOK, NEW c \in Callers
  PROVE  /\ InCall(c) => call[c] \in Call
         /\ ~InCall(c) => call[c].state = "idle"
BY DEF CallTypeOK, InCall, NoCall

LEMMA CallInitEstablishes == CallInit => CallInv
BY DEF CallInit, CallInv, CallTypeOK, Counted, NoCall, Second

LEMMA LeaveKeeps ==
  ASSUME CallInv, NEW c \in Callers, Leave(c), NEW n \in {1, 2},
         blows' = [blows EXCEPT ![c] = @ + n],
         n = 2 \/ call[c].state \in Second
  PROVE  CallInv'
<1>1. InCall(c) => call[c].out \in Outputs
  BY CallStates DEF CallInv, Call
<1>2. CallTypeOK'
  BY <1>1 DEF CallInv, CallTypeOK, Leave
<1>3. blows'[c] = blows[c] + n /\ blows'[c] >= 2 /\ blows'[c] >= 1
  BY DEF CallInv, CallTypeOK, Counted
<1>4. Counted'
  <2> SUFFICES ASSUME NEW d \in Callers
               PROVE  /\ call'[d].state \in Second => blows'[d] >= 1
                      /\ \A o \in Outputs : <<d, o>> \in orphans' => blows'[d] >= 2
    BY DEF Counted
  <2>1. CASE d = c
    BY <1>3, <2>1
  <2>2. CASE d # c
    <3>1. call'[d] = call[d] /\ blows'[d] = blows[d]
      BY <2>2 DEF CallInv, CallTypeOK, Leave
    <3>2. \A o \in Outputs : <<d, o>> \in orphans' => <<d, o>> \in orphans
      BY <2>2 DEF Leave
    <3> QED BY <3>1, <3>2 DEF CallInv, Counted
  <2> QED BY <2>1, <2>2
<1> QED BY <1>2, <1>4 DEF CallInv

LEMMA CallStepKeeps == CallInv /\ [CallNext]_callVars => CallInv'
<1> SUFFICES ASSUME CallInv, [CallNext]_callVars PROVE CallInv'
  OBVIOUS
<1> USE DEF CallInv, CallTypeOK, Counted
<1>1. ASSUME NEW c \in Callers, NEW o \in Outputs, Create(c, o) PROVE CallInv'
  BY <1>1 DEF Create, Call, Second
<1>2. ASSUME NEW c \in Callers, NEW o \in Outputs, OrphanEnds(c, o) PROVE CallInv'
  BY <1>2 DEF OrphanEnds
<1>3. ASSUME NEW c \in Callers, NEW code \in Ended, ChildEnds(c, code) PROVE CallInv'
  BY <1>3, CallStates DEF ChildEnds, Call
<1>4. ASSUME NEW c \in Callers, NEW code, Answer(c, code) PROVE CallInv'
  BY <1>4 DEF Answer, NoCall, Second
<1>5. ASSUME NEW c \in Callers, NEW why \in {"timeout", "cancelled"}, Terminate(c, why)
      PROVE CallInv'
  <2> DEFINE hit == [call[c] EXCEPT !.state = "terminating", !.why = why]
  <2>1. /\ call' = [call EXCEPT ![c] = hit] /\ blows' = [blows EXCEPT ![c] = @ + 1]
        /\ UNCHANGED orphans
    BY <1>5 DEF Terminate
  <2>2. hit \in Call
    <3>1. call[c] \in Call
      BY <1>5, CallStates DEF Terminate
    <3> QED BY <1>5, <3>1 DEF Call, Second
  <2> HIDE DEF hit
  <2> QED BY <2>1, <2>2 DEF Second
<1>6. ASSUME NEW c \in Callers, NEW why, GaveUp(c, why) PROVE CallInv'
  BY <1>6 DEF GaveUp, NoCall, Second
<1>7. ASSUME NEW c \in Callers, GraceOver(c) PROVE CallInv'
  BY <1>7, CallStates DEF GraceOver, Call, Second
<1>8. ASSUME NEW c \in Callers, Interrupted(c) PROVE CallInv'
  BY <1>8, LeaveKeeps DEF Interrupted
<1>9. ASSUME NEW c \in Callers, CallerDies(c) PROVE CallInv'
  BY <1>9, LeaveKeeps DEF CallerDies
<1>10. CASE UNCHANGED callVars
  BY <1>10 DEF callVars
<1> QED
  BY <1>1, <1>2, <1>3, <1>4, <1>5, <1>6, <1>7, <1>8, <1>9, <1>10 DEF CallNext

\* However calls, time-outs, cancellations and deaths follow on each other, a
\* caller that was hit less than twice has left no process behind (run).
THEOREM OneBlow == CallSpec => []OneBlowLeavesNothing
<1>1. CallInv => OneBlowLeavesNothing
  BY DEF CallInv, CallTypeOK, Counted, OneBlowLeavesNothing
<1> QED BY <1>1, CallInitEstablishes, CallStepKeeps, PTL DEF CallSpec

THEOREM CallsTyped == CallSpec => []CallTypeOK
<1>1. CallInv => CallTypeOK
  BY DEF CallInv
<1> QED BY <1>1, CallInitEstablishes, CallStepKeeps, PTL DEF CallSpec

-----------------------------------------------------------------------------
(* Jobs make calls as Subprocess says.                                     *)

LEMMA StepIsCall ==
  ASSUME [IngestNext]_ingestVars
  PROVE  [CallNext]_callVars
<1> USE DEF Jobs
<1>1. ASSUME NEW j \in Jobs, RunTool(j) PROVE CallNext
  BY <1>1 DEF RunTool, CallNext
<1>2. ASSUME NEW j \in Jobs, NEW code \in Ended, ToolEnds(j, code) PROVE CallNext
  BY <1>2 DEF ToolEnds, CallNext
<1>3. ASSUME NEW j \in Jobs, ToolDone(j) \/ ToolFailed(j) PROVE CallNext
  BY <1>3 DEF ToolDone, ToolFailed, CallNext, Ended
<1>4. ASSUME NEW j \in Jobs, TimeOut(j) \/ Escalate(j) \/ Released(j) PROVE CallNext
  BY <1>4 DEF TimeOut, Escalate, Released, CallNext
<1>5. ASSUME NEW j \in Jobs, NEW out \in Outputs, OrphanToolEnds(j, out) PROVE CallNext
  BY <1>5 DEF OrphanToolEnds, CallNext
<1>6. ASSUME NEW j \in Jobs, Signal(j) PROVE [CallNext]_callVars
  BY <1>6 DEF Signal, CallNext
<1>7. ASSUME NEW j \in Jobs, Dies(j) PROVE CallNext
  BY <1>7 DEF Dies, CallNext
<1>8. ASSUME NEW j \in Jobs,
             \/ Start(j) \/ Save(j) \/ Raises(j)
             \/ Download(j) \/ HashDownload(j) \/ Place(j) \/ StartCopy(j) \/ EndCopy(j)
             \/ Move(j) \/ Check(j) \/ ReadDocument(j) \/ UpsertAsset(j)
             \/ ReplaceItems(j) \/ PersistSegments(j) \/ PersistVectors(j) \/ EmbedSkipped(j)
      PROVE UNCHANGED callVars
  BY <1>8 DEF Start, Save, Raises, Download, HashDownload, Place, StartCopy, EndCopy, Move,
              Check, ReadDocument, UpsertAsset, ReplaceItems, PersistSegments, PersistVectors,
              EmbedSkipped, Embeds
<1>9. CASE UNCHANGED ingestVars
  BY <1>9 DEF ingestVars
<1>10. ASSUME NEW j \in Jobs, JobRuns(j) PROVE [CallNext]_callVars
  <2>1. "failed" \in Ended
    BY DEF Ended
  <2> QED BY <1>1, <1>2, <1>3, <1>4, <1>8, <1>10, <2>1 DEF JobRuns
<1> QED BY <1>2, <1>5, <1>6, <1>7, <1>8, <1>9, <1>10 DEF IngestNext

\* The stages of a job make and end their calls as Subprocess says, so what holds
\* of calls holds of an ingest (normalize._ffprobe, normalize).
THEOREM IngestMakesCalls == IngestSpec => MakesCalls
<1>1. IngestInit => CallInit
  BY DEF IngestInit
<1> QED BY <1>1, StepIsCall, PTL DEF IngestSpec, MakesCalls, CallSpec

\* No job leaves ffmpeg behind by one time-out or one cancellation.
THEOREM IngestOneBlow == IngestSpec => []OneBlowLeavesNothing
BY IngestMakesCalls, OneBlow, PTL DEF MakesCalls
-----------------------------------------------------------------------------
(* The inductive invariant of an ingest.                                   *)

Fetching == {"fetch", "hash", "place", "put", "copying"}
Making == {"probe", "checkMezzanine", "mezzanine", "checkAudio", "audio"}
Normalizing == Making \cup {"read", "upsert", "items"}

States == [pc : Points \cup {"new", "idle", "done", "error"}, saved : 0..4,
           asset : Jobs \cup {None}, input : FileState, embedded : BOOLEAN]

\* The stage a job is at is the one after the last it has saved.
Placed(j) ==
  /\ job[j].pc = "new" => job[j].saved = 0
  /\ job[j].pc \in Fetching => job[j].saved = 0
  /\ job[j].pc \in Normalizing => job[j].saved = 1
  /\ job[j].pc \in Making => content = "media"
  /\ job[j].pc \in {"read", "items"} => content = "document"
  /\ job[j].pc = "transcribe" => job[j].saved = 2 /\ content = "media"
  /\ job[j].pc = "embed" => job[j].saved = 3 /\ content = "media"
  /\ job[j].pc = "save" => job[j].saved <= IF content = "media" THEN 3 ELSE 1
  /\ job[j].pc = "done" => job[j].saved = IF content = "media" THEN 4 ELSE 2
  /\ content = "document" => job[j].saved <= 2
  /\ job[j].embedded => job[j].saved >= 3

\* The results of the first n stages are stored.
Past(j, n) == job[j].saved >= n \/ (job[j].saved = n - 1 /\ job[j].pc = "save")

Fetched(j) == Past(j, 1) \/ job[j].pc = "copying" => file["raw"] # "none"

Named(j) ==
  /\ job[j].pc # "new" => job[j].asset \in Jobs
  /\ Past(j, 2) \/ job[j].pc = "items" => job[j].asset = asset /\ asset # None

Filed(j) == content = "document" =>
  /\ job[j].pc \in {"upsert", "items"} => job[j].input # "none"
  /\ Past(j, 2) => items # "none"

Told(j) == content = "media" =>
  /\ Past(j, 3) => \A k \in 1..Given(j) : segs[k] # None
  /\ job[j].embedded => \A k \in 1..Given(j) : vecs[k] # None

\* A job waits for a process where it starts one.
Waits(j) == InCall(j) => job[j].pc \in Outputs

JobInv(j) == Placed(j) /\ Fetched(j) /\ Named(j) /\ Filed(j) /\ Told(j)

Typed ==
  /\ [content |-> content, source |-> source, streams |-> streams] \in Subjects
  /\ download \in BOOLEAN /\ history \in BOOLEAN \X BOOLEAN
  /\ file \in [Files -> FileState]
  /\ job \in [Jobs -> States]
  /\ asset \in Jobs \cup {None} /\ items \in FileState
  /\ segs \in [Positions -> Sources \cup {None}]
  /\ vecs \in [Positions -> Sources \cup {None}]
  /\ faults \in 0..MaxFaults

IngestInv == Typed /\ \A j \in Jobs : JobInv(j) /\ Waits(j)

-----------------------------------------------------------------------------
(* What a step does to the jobs it is not of.                              *)

LEMMA InPositions ==
  ASSUME NEW s \in Sources, NEW k \in 1..Segments[s]
  PROVE  k \in Positions
<1>1. Segments["asr"] \in Nat /\ Segments["captions"] \in Nat
  BY IngestAssumption DEF Sources
<1> QED BY <1>1 DEF Positions, Sources

LEMMA SourceIsSource == ASSUME NEW j PROVE SourceOf(j) \in Sources
BY DEF SourceOf, Sources

LEMMA GivenPositions ==
  ASSUME NEW j
  PROVE  Given(j) \in Nat /\ \A k \in 1..Given(j) : k \in Positions
<1>1. Segments[SourceOf(j)] \in Nat /\ Given(j) \in {0, Segments[SourceOf(j)]}
  BY SourceIsSource, IngestAssumption DEF Given
<1> QED BY <1>1, SourceIsSource, InPositions

LEMMA GivenStays ==
  ASSUME NEW j, UNCHANGED subject
  PROVE  SourceOf(j)' = SourceOf(j) /\ Given(j)' = Given(j)
BY DEF subject, SourceOf, Given

\* Nothing that was stored is taken away.
Grows ==
  /\ UNCHANGED subject
  /\ asset # None => asset' = asset
  /\ file["raw"] # "none" => file'["raw"] # "none"
  /\ items # "none" => items' # "none"
  /\ \A k \in Positions : /\ segs[k] # None => segs'[k] # None
                          /\ vecs[k] # None => vecs'[k] # None

\* A job that makes no step may still read a file that is cut.
Rests(k) ==
  /\ job'[k].pc = job[k].pc /\ job'[k].saved = job[k].saved /\ job'[k].asset = job[k].asset
  /\ job'[k].embedded = job[k].embedded
  /\ job'[k].input = job[k].input \/ job'[k].input = "partial"
  /\ InCall(k)' <=> InCall(k)

LEMMA RestKeeps ==
  ASSUME NEW k \in Jobs, JobInv(k), Waits(k), Grows, Rests(k)
  PROVE  JobInv(k)' /\ Waits(k)'
<1>1. Past(k, 1)' = Past(k, 1) /\ Past(k, 2)' = Past(k, 2) /\ Past(k, 3)' = Past(k, 3)
  BY DEF Rests, Past
<1>2. Given(k)' = Given(k)
  BY GivenStays DEF Grows
<1>3. Placed(k)' /\ Waits(k)'
  BY DEF JobInv, Placed, Rests, Grows, subject, Waits
<1>4. Fetched(k)' /\ Named(k)'
  BY <1>1 DEF JobInv, Fetched, Named, Rests, Grows
<1>5. Filed(k)'
  BY <1>1 DEF JobInv, Filed, Rests, Grows, subject
<1>6. Told(k)'
  <2> SUFFICES ASSUME content = "media"
               PROVE  /\ Past(k, 3) => \A n \in 1..Given(k) : segs'[n] # None
                      /\ job[k].embedded => \A n \in 1..Given(k) : vecs'[n] # None
    BY <1>1, <1>2 DEF Told, Rests, Grows, subject
  <2>1. \A n \in 1..Given(k) : n \in Positions
    BY GivenPositions
  <2> QED BY <2>1 DEF JobInv, Told, Grows
<1> QED BY <1>3, <1>4, <1>5, <1>6 DEF JobInv

LEMMA StepKeeps ==
  ASSUME IngestInv, NEW j \in Jobs, Typed', Grows, \A k \in Jobs \ {j} : Rests(k),
         JobInv(j)', Waits(j)'
  PROVE  IngestInv'
BY RestKeeps DEF IngestInv

\* Where a job may go without storing anything.
Fits(j, pc) ==
  \/ pc \in {"idle", "error"}
  \/ pc \in {"fetch", "hash", "place", "put"} /\ job[j].saved = 0
  \/ pc \in Making \cup {"upsert"} /\ job[j].saved = 1 /\ content = "media"
  \/ pc = "save" /\ job[j].saved = 0 /\ file["raw"] # "none"

LEMMA GoesKeeps ==
  ASSUME IngestInv, NEW j \in Jobs, NEW pc, Goes(j, pc), Fits(j, pc), job[j].pc # "new",
         UNCHANGED <<subject, file, rows>>, download' \in BOOLEAN, history' \in BOOLEAN \X BOOLEAN,
         faults' \in 0..MaxFaults,
         \A k \in Jobs \ {j} : InCall(k)' <=> InCall(k),
         InCall(j)' => pc \in Outputs
  PROVE  IngestInv'
<1>1. /\ job \in [Jobs -> States] /\ job' = [job EXCEPT ![j].pc = pc]
      /\ job[j] \in States
  BY DEF IngestInv, Typed, Goes
<1>2. /\ job'[j].pc = pc /\ job'[j].saved = job[j].saved /\ job'[j].asset = job[j].asset
      /\ job'[j].input = job[j].input /\ job'[j].embedded = job[j].embedded
      /\ \A k \in Jobs \ {j} : job'[k] = job[k]
  BY <1>1 DEF States
<1>3. pc \in Points \cup {"new", "idle", "done", "error"}
  BY DEF Fits, Making, Points
<1>4. job' \in [Jobs -> States]
  BY <1>1, <1>3 DEF States
<1>5. Typed' /\ Grows
  BY <1>4 DEF IngestInv, Typed, Grows, subject, rows
<1>6. \A k \in Jobs \ {j} : Rests(k)
  BY <1>2 DEF Rests
<1>7. JobInv(j)
  BY DEF IngestInv
<1>8. job[j].saved \in 0..4
  BY <1>1 DEF States
<1>9. Placed(j)'
  BY <1>2, <1>7, <1>8 DEF JobInv, Placed, Fits, Making, Fetching, Normalizing, subject
<1>10. pc = "save" => job[j].saved = 0
  BY DEF Fits, Making
<1>11. (Past(j, 2)' => Past(j, 2)) /\ (Past(j, 3)' => Past(j, 3))
  BY <1>2, <1>8, <1>10 DEF Past
<1>12. Fetched(j)'
  BY <1>2, <1>7, <1>8 DEF JobInv, Fetched, Past, Fits, Making, rows
<1>13. Named(j)'
  BY <1>2, <1>7, <1>11 DEF JobInv, Named, Fits, Making, rows
<1>14. Filed(j)'
  BY <1>2, <1>7, <1>11 DEF JobInv, Filed, Fits, Making, rows, subject
<1>15. Given(j)' = Given(j)
  BY GivenStays
<1>16. Told(j)'
  BY <1>2, <1>7, <1>11, <1>15 DEF JobInv, Told, rows, subject
<1>17. Waits(j)'
  BY <1>2 DEF Waits
<1> QED BY <1>5, <1>6, <1>9, <1>12, <1>13, <1>14, <1>16, <1>17, StepKeeps DEF JobInv
-----------------------------------------------------------------------------
(* Every action keeps the invariant.                                       *)

LEMMA IngestInitEstablishes == IngestInit => IngestInv
<1> SUFFICES ASSUME IngestInit PROVE IngestInv
  OBVIOUS
<1>1. [content |-> content, source |-> source, streams |-> streams] \in Subjects
  <2>1. PICK subj \in Subjects :
         content = subj.content /\ source = subj.source /\ streams = subj.streams
    BY DEF IngestInit
  <2>2. subj \in [content : {"media", "document"},
                  source : [Jobs -> {"file", "url", "captioned url"}],
                  streams : SUBSET Media]
    BY IngestAssumption
  <2>3. subj = [content |-> subj.content, source |-> subj.source,
                 streams |-> subj.streams]
    BY <2>2
  <2> QED BY <2>1, <2>3
<1>2. Typed
  <2>1. [pc |-> "new", saved |-> 0, asset |-> None, input |-> "none",
         embedded |-> FALSE] \in States
    BY DEF States, FileState
  <2>2. job \in [Jobs -> States]
    BY <2>1 DEF IngestInit
  <2>3. file \in [Files -> FileState] /\ items \in FileState
    BY DEF IngestInit, FileState
  <2>4. /\ segs \in [Positions -> Sources \cup {None}]
        /\ vecs \in [Positions -> Sources \cup {None}]
    BY DEF IngestInit
  <2>5. download \in BOOLEAN /\ history \in BOOLEAN \X BOOLEAN /\ asset \in Jobs \cup {None}
    BY DEF IngestInit, history
  <2>6. faults = 0 /\ MaxFaults \in Nat
    BY IngestAssumption DEF IngestInit
  <2>7. faults \in 0..MaxFaults
    BY <2>6
  <2> QED BY <1>1, <2>2, <2>3, <2>4, <2>5, <2>7 DEF Typed
<1>3. ASSUME NEW j \in Jobs PROVE JobInv(j) /\ Waits(j)
  <2>1. /\ job[j].pc = "new" /\ job[j].saved = 0 /\ ~job[j].embedded
        /\ call[j] = NoCall
    BY DEF IngestInit, CallInit, Jobs
  <2> QED
    BY <2>1 DEF JobInv, Placed, Fetched, Named, Filed, Told, Past, Waits, InCall,
                Fetching, Making, Normalizing
<1> QED BY <1>2, <1>3 DEF IngestInv

\* Another job's call is its own affair.
LEMMA CallsApart ==
  ASSUME CallTypeOK, NEW j \in Jobs, NEW c, call' = [call EXCEPT ![j] = c]
  PROVE  /\ \A k \in Jobs \ {j} : InCall(k)' <=> InCall(k)
         /\ InCall(j)' <=> c # NoCall
BY DEF CallTypeOK, InCall, Jobs

LEMMA CallsSame ==
  ASSUME UNCHANGED callVars
  PROVE  \A k \in Jobs : InCall(k)' <=> InCall(k)
BY DEF callVars, InCall

\* Where a job begins or goes on.
LEMMA Beginnings ==
  ASSUME NEW n \in 0..4, content \in {"media", "document"},
         content = "document" => n <= 2
  PROVE  Begins[n + 1] = CASE n = 0 -> "fetch"
                           [] n = 1 -> IF content = "media" THEN "probe" ELSE "read"
                           [] n = 2 -> IF content = "media" THEN "transcribe" ELSE "done"
                           [] n = 3 -> "embed"
                           [] n = 4 -> "done"
BY DEF Begins

LEMMA ContentKinds ==
  ASSUME IngestInv
  PROVE  content \in {"media", "document"}
BY IngestAssumption DEF IngestInv, Typed

LEMMA StartKeeps ==
  ASSUME IngestInv, NEW j \in Jobs, Start(j)
  PROVE  IngestInv'
<1>1. /\ JobInv(j) /\ Waits(j) /\ job[j] \in States /\ job[j].saved \in 0..4
      /\ content = "document" => job[j].saved <= 2
      /\ job[j].embedded => job[j].saved >= 3
  BY DEF IngestInv, Typed, States, JobInv, Placed
<1> DEFINE pc == Begins[job[j].saved + 1]
           id == IF job[j].saved < 2 THEN j ELSE job[j].asset
<1>2. /\ pc \in {"fetch", "probe", "read", "transcribe", "embed", "done"}
      /\ pc = CASE job[j].saved = 0 -> "fetch"
                [] job[j].saved = 1 -> IF content = "media" THEN "probe" ELSE "read"
                [] job[j].saved = 2 -> IF content = "media" THEN "transcribe" ELSE "done"
                [] job[j].saved = 3 -> "embed"
                [] job[j].saved = 4 -> "done"
  BY <1>1, Beginnings, ContentKinds
<1>3. /\ job' = [job EXCEPT ![j] = [job[j] EXCEPT !.pc = pc, !.asset = id]]
      /\ history' \in BOOLEAN \X BOOLEAN
      /\ UNCHANGED <<subject, download, file, rows, faults, callVars>>
  BY DEF IngestInv, Typed, Start, Resumed, history
<1> HIDE DEF pc
<1>4. id \in Jobs
  BY <1>1 DEF JobInv, Named, Start, Placed
<1> HIDE DEF id
<1>5. [job[j] EXCEPT !.pc = pc, !.asset = id] \in States
  BY <1>1, <1>2, <1>4 DEF States, Points
<1>6. /\ job'[j].pc = pc /\ job'[j].asset = id /\ job'[j].saved = job[j].saved
      /\ job'[j].embedded = job[j].embedded
      /\ \A k \in Jobs \ {j} : job'[k] = job[k]
      /\ job' \in [Jobs -> States]
  BY <1>1, <1>3, <1>5 DEF IngestInv, Typed, States
<1>7. Typed' /\ Grows
  BY <1>3, <1>6 DEF IngestInv, Typed, Grows, subject, rows
<1>8. \A k \in Jobs \ {j} : Rests(k)
  BY <1>3, <1>6, CallsSame DEF Rests
<1>9. ~InCall(j)
  BY <1>1, IngestAssumption DEF Waits, Start, Media
<1>10. Waits(j)'
  BY <1>3, <1>9, CallsSame DEF Waits
<1>11. Placed(j)'
  BY <1>1, <1>2, <1>3, <1>6, ContentKinds
     DEF Placed, Fetching, Making, Normalizing, subject
<1>12. \A n \in 1..4 : Past(j, n)' => Past(j, n)
  BY <1>1, <1>2, <1>6 DEF Past
<1>13. Fetched(j)'
  BY <1>1, <1>2, <1>3, <1>6, <1>12 DEF JobInv, Fetched, rows
<1>14. Named(j)'
  <2>1. Past(j, 2)' => job[j].saved >= 2
    BY <1>1, <1>2, <1>6 DEF Past
  <2> QED BY <1>1, <1>2, <1>3, <1>4, <1>6, <2>1 DEF JobInv, Named, Past, rows, id
<1>15. Filed(j)'
  BY <1>1, <1>2, <1>3, <1>6, <1>12 DEF JobInv, Filed, rows, subject
<1>16. Told(j)'
  <2>1. Given(j)' = Given(j)
    BY <1>3, GivenStays
  <2> QED BY <1>1, <1>3, <1>6, <1>12, <2>1 DEF JobInv, Told, rows, subject
<1> QED BY <1>7, <1>8, <1>10, <1>11, <1>13, <1>14, <1>15, <1>16, StepKeeps DEF JobInv

\* A job at work that stores nothing has no call under way and goes on.
LEMMA GoesOn ==
  ASSUME IngestInv, NEW j \in Jobs, NEW pc, Goes(j, pc), Fits(j, pc),
         job[j].pc \in Points \ Outputs \/ (job[j].pc \in Points /\ ~InCall(j)),
         UNCHANGED <<subject, file, rows, callVars>>, download' \in BOOLEAN,
         history' \in BOOLEAN \X BOOLEAN, faults' \in 0..MaxFaults
  PROVE  IngestInv'
<1>1. ~InCall(j)
  BY DEF IngestInv, Waits
<1>2. job[j].pc # "new"
  BY DEF Points
<1>3. \A k \in Jobs : InCall(k)' <=> InCall(k)
  BY CallsSame
<1> QED BY <1>1, <1>2, <1>3, GoesKeeps

LEMMA FetchKeeps ==
  ASSUME IngestInv, NEW j \in Jobs, Download(j) \/ HashDownload(j) \/ Place(j)
  PROVE  IngestInv'
<1>1. /\ download' \in BOOLEAN /\ history' \in BOOLEAN \X BOOLEAN /\ faults' \in 0..MaxFaults
      /\ UNCHANGED <<subject, file, rows, callVars>>
  BY DEF IngestInv, Typed, Download, HashDownload, Place, Undisturbed
<1>2. job[j].saved = 0 /\ job[j].pc \in Points \ Outputs
  BY IngestAssumption
     DEF IngestInv, JobInv, Placed, Fetching, Download, HashDownload, Place, Points, Media
<1>3. PICK pc \in {"hash", "place", "put", "save", "error"} :
        Goes(j, pc) /\ (pc = "save" => file["raw"] # "none")
  BY DEF Download, HashDownload, Place
<1>4. Fits(j, pc)
  BY <1>2, <1>3 DEF Fits
<1> QED BY <1>1, <1>2, <1>3, <1>4, GoesOn

LEMMA CheckKeeps ==
  ASSUME IngestInv, NEW j \in Jobs, Check(j)
  PROVE  IngestInv'
<1>1. /\ download' \in BOOLEAN /\ history' \in BOOLEAN \X BOOLEAN /\ faults' \in 0..MaxFaults
      /\ UNCHANGED <<subject, file, rows, callVars>>
  BY DEF IngestInv, Typed, Check, Undisturbed
<1>2. job[j].pc \in {"checkMezzanine", "checkAudio"}
  BY DEF Check, Checked
<1>3. job[j].saved = 1 /\ content = "media" /\ job[j].pc \in Points \ Outputs
  BY <1>2, IngestAssumption
     DEF IngestInv, JobInv, Placed, Making, Normalizing, Points, Media
<1>4. PICK pc \in {"mezzanine", "audio", "checkAudio", "upsert"} : Goes(j, pc)
  BY <1>2 DEF Check, Checked, AfterCall
<1>5. Fits(j, pc)
  BY <1>3, <1>4 DEF Fits, Making
<1> QED BY <1>1, <1>3, <1>4, <1>5, GoesOn

LEMMA RaisesKeeps ==
  ASSUME IngestInv, NEW j \in Jobs, Raises(j)
  PROVE  IngestInv'
<1>1. Fits(j, "error")
  BY DEF Fits
<1>2. /\ download' \in BOOLEAN /\ history' \in BOOLEAN \X BOOLEAN /\ faults' \in 0..MaxFaults
  BY DEF IngestInv, Typed, Raises, history
<1> QED BY <1>1, <1>2, GoesOn DEF Raises, Busy

\* A call ends, and the job goes on, fails or is given back.
LEMMA CallOver ==
  ASSUME IngestInv, CallTypeOK, NEW j \in Jobs, NEW pc, Goes(j, pc),
         pc \in {"idle", "error"} \/ pc = AfterCall[job[j].pc],
         call' = [call EXCEPT ![j] = NoCall], InCall(j) \/ pc \in {"idle", "error"},
         job[j].pc # "new",
         UNCHANGED <<subject, download, file, rows>>,
         history' \in BOOLEAN \X BOOLEAN, faults' \in 0..MaxFaults
  PROVE  IngestInv'
<1>1. /\ \A k \in Jobs \ {j} : InCall(k)' <=> InCall(k)
      /\ ~InCall(j)'
  BY CallsApart
<1>2. Fits(j, pc)
  <2>1. CASE pc \in {"idle", "error"}
    BY <2>1 DEF Fits
  <2>2. CASE pc \notin {"idle", "error"}
    <3>1. job[j].pc \in {"probe", "mezzanine", "audio"}
      BY <2>2, IngestAssumption DEF IngestInv, Waits, Media
    <3>2. job[j].saved = 1 /\ content = "media"
      BY <3>1 DEF IngestInv, JobInv, Placed, Making, Normalizing
    <3>3. pc \in Making \cup {"upsert"}
      BY <2>2, <3>1 DEF AfterCall, Making
    <3> QED BY <3>2, <3>3 DEF Fits
  <2> QED BY <2>1, <2>2
<1>3. download' \in BOOLEAN
  BY DEF IngestInv, Typed
<1> QED BY <1>1, <1>2, <1>3, GoesKeeps

LEMMA CallEndsKeep ==
  ASSUME IngestInv, CallTypeOK, NEW j \in Jobs,
         ToolDone(j) \/ ToolFailed(j) \/ Released(j)
  PROVE  IngestInv'
<1>1. InCall(j) /\ call' = [call EXCEPT ![j] = NoCall]
  BY DEF ToolDone, ToolFailed, Released, Answer, GaveUp
<1>2. job[j].pc # "new"
  BY <1>1, IngestAssumption DEF IngestInv, Waits, Media
<1>3. history' \in BOOLEAN \X BOOLEAN /\ faults' \in 0..MaxFaults
  BY DEF IngestInv, Typed, ToolDone, ToolFailed, Released, Undisturbed, history
<1>4. UNCHANGED <<subject, download, file, rows>>
  BY DEF ToolDone, ToolFailed, Released, Undisturbed
<1>5. Goes(j, "idle") \/ Goes(j, "error") \/ Goes(j, AfterCall[job[j].pc])
  BY DEF ToolDone, ToolFailed, Released
<1> QED BY <1>1, <1>2, <1>3, <1>4, <1>5, CallOver

LEMMA DiesKeeps ==
  ASSUME IngestInv, CallTypeOK, NEW j \in Jobs, Dies(j)
  PROVE  IngestInv'
<1>1. call' = [call EXCEPT ![j] = NoCall]
  BY DEF Dies, CallerDies, Leave
<1>2. job[j].pc # "new"
  BY DEF Dies, Busy, Points
<1>3. history' \in BOOLEAN \X BOOLEAN /\ faults' \in 0..MaxFaults
  <2>1. faults < MaxFaults /\ faults' = faults + 1
    BY DEF Dies
  <2>2. faults \in 0..MaxFaults
    BY DEF IngestInv, Typed
  <2>3. MaxFaults \in Nat
    BY IngestAssumption
  <2>4. faults' \in 0..MaxFaults
    BY <2>1, <2>2, <2>3
  <2>5. history' \in BOOLEAN \X BOOLEAN
    BY DEF IngestInv, Typed, Dies, history
  <2> QED BY <2>4, <2>5
<1>4. Goes(j, "idle") /\ UNCHANGED <<subject, download, file, rows>>
  BY DEF Dies
<1> QED BY <1>1, <1>2, <1>3, <1>4, CallOver

\* A call goes on, the job waiting where it was.
LEMMA HitKeeps ==
  ASSUME IngestInv, CallTypeOK, NEW j \in Jobs, InCall(j),
         NEW c, call' = [call EXCEPT ![j] = c],
         UNCHANGED <<subject, download, job, rows>>,
         file' \in [Files -> FileState], file["raw"] # "none" => file'["raw"] # "none",
         history' \in BOOLEAN \X BOOLEAN, faults' \in 0..MaxFaults
  PROVE  IngestInv'
<1>1. \A k \in Jobs \ {j} : InCall(k)' <=> InCall(k)
  BY CallsApart
<1>2. Typed' /\ Grows
  BY DEF IngestInv, Typed, Grows, subject, rows
<1>3. \A k \in Jobs \ {j} : Rests(k)
  BY <1>1 DEF Rests
<1>4. JobInv(j)' /\ Waits(j)'
  <2>1. JobInv(j) /\ job[j].pc \in Outputs
    BY DEF IngestInv, Waits
  <2>2. UNCHANGED <<content, source, streams, job, asset, items, segs, vecs>>
    BY DEF subject, rows
  <2>3. Fetched(j)'
    BY <2>1, <2>2 DEF JobInv, Fetched, Past
  <2>4. Placed(j)' /\ Named(j)' /\ Filed(j)'
    BY <2>1, <2>2 DEF JobInv, Placed, Named, Filed, Past
  <2>5. Told(j)'
    BY <2>1, <2>2 DEF JobInv, Told, Past, SourceOf, Given
  <2>6. Waits(j)'
    BY <2>1, <2>2 DEF Waits
  <2> QED BY <2>3, <2>4, <2>5, <2>6 DEF JobInv
<1> QED BY <1>2, <1>3, <1>4, StepKeeps

LEMMA FilesStay ==
  ASSUME IngestInv, UNCHANGED file
  PROVE  /\ file' \in [Files -> FileState]
         /\ file["raw"] # "none" => file'["raw"] # "none"
BY DEF IngestInv, Typed

LEMMA SignalKeeps ==
  ASSUME IngestInv, CallTypeOK, NEW j \in Jobs, Signal(j)
  PROVE  IngestInv'
<1>1. history' \in BOOLEAN \X BOOLEAN /\ faults' \in 0..MaxFaults
  <2>1. faults < MaxFaults /\ faults' = faults + 1
    BY DEF Signal
  <2>2. faults \in 0..MaxFaults
    BY DEF IngestInv, Typed
  <2>3. MaxFaults \in Nat
    BY IngestAssumption
  <2>4. faults' \in 0..MaxFaults
    BY <2>1, <2>2, <2>3
  <2>5. history' \in BOOLEAN \X BOOLEAN
    BY DEF IngestInv, Typed, Signal, history
  <2> QED BY <2>4, <2>5
<1>2. UNCHANGED <<subject, download, file, rows>>
  BY DEF Signal
<1>3. download' \in BOOLEAN
  BY <1>2 DEF IngestInv, Typed
<1>4. CASE Terminate(j, "cancelled") /\ UNCHANGED job
  <2>1. PICK c : call' = [call EXCEPT ![j] = c]
    BY <1>4 DEF Terminate
  <2> QED BY <1>1, <1>2, <1>4, <2>1, FilesStay, HitKeeps DEF Terminate
<1>5. CASE Interrupted(j) /\ Goes(j, "idle")
  <2>1. job[j].pc # "new"
    BY <1>5, IngestAssumption DEF Interrupted, IngestInv, Waits, Media
  <2> QED BY <1>1, <1>2, <1>5, <2>1, CallOver DEF Interrupted, Leave
<1>6. CASE /\ job[j].pc \in {"fetch", "hash", "transcribe", "embed"}
           /\ Goes(j, "idle") /\ UNCHANGED callVars
  <2>1. Fits(j, "idle") /\ job[j].pc \in Points \ Outputs
    BY <1>6, IngestAssumption DEF Fits, Points, Media
  <2> QED BY <1>1, <1>2, <1>3, <1>6, <2>1, GoesOn
<1> QED BY <1>4, <1>5, <1>6 DEF Signal

LEMMA BlowKeeps ==
  ASSUME IngestInv, CallTypeOK, NEW j \in Jobs, TimeOut(j) \/ Escalate(j)
  PROVE  IngestInv'
<1>1. history' \in BOOLEAN \X BOOLEAN /\ faults' \in 0..MaxFaults
  BY DEF IngestInv, Typed, TimeOut, Escalate, Undisturbed
<1>2. UNCHANGED <<subject, download, file, rows, job>>
  BY DEF TimeOut, Escalate, Undisturbed
<1>3. InCall(j)
  BY DEF TimeOut, Escalate, Terminate, GraceOver
<1>4. PICK c : call' = [call EXCEPT ![j] = c]
  BY DEF TimeOut, Escalate, Terminate, GraceOver
<1> QED BY <1>1, <1>2, <1>3, <1>4, FilesStay, HitKeeps

\* A process ends, or works on: only files of its output change.
LEMMA OutputsApart ==
  ASSUME IngestInv, NEW out \in Outputs \ {"probe"}, NEW left \in FileState, Writes(out, left)
  PROVE  file' \in [Files -> FileState] /\ file'["raw"] = file["raw"]
BY IngestAssumption DEF IngestInv, Typed, Writes, Files, Media

LEMMA LeftIsState ==
  ASSUME NEW out, NEW rivals, NEW complete, NEW left \in Leaves(out, rivals, complete)
  PROVE  left \in FileState
BY DEF Leaves, FileState

LEMMA ToolEndsKeeps ==
  ASSUME IngestInv, CallTypeOK, NEW j \in Jobs, NEW code \in Ended, ToolEnds(j, code)
  PROVE  IngestInv'
<1>1. /\ InCall(j) /\ UNCHANGED <<subject, download, job, rows>>
      /\ history' \in BOOLEAN \X BOOLEAN /\ faults' \in 0..MaxFaults
  BY DEF IngestInv, Typed, ToolEnds, ChildEnds, Undisturbed
<1>2. PICK c : call' = [call EXCEPT ![j] = c]
  BY DEF ToolEnds, ChildEnds
<1>3. call[j].out \in Outputs
  BY <1>1, CallStates DEF Call, Jobs
<1>4. file' \in [Files -> FileState] /\ file'["raw"] = file["raw"]
  <2>1. CASE call[j].out = "probe"
    BY <2>1 DEF ToolEnds, IngestInv, Typed
  <2>2. CASE call[j].out # "probe"
    <3>1. PICK left \in Leaves(call[j].out, Rivals(j, call[j].out),
                               code = "ok" /\ job[j].input = "whole") :
            Writes(call[j].out, left)
      BY <2>2 DEF ToolEnds
    <3> QED BY <1>3, <2>2, <3>1, LeftIsState, OutputsApart
  <2> QED BY <2>1, <2>2
<1> QED BY <1>1, <1>2, <1>4, HitKeeps

LEMMA OrphanEndsKeeps ==
  ASSUME IngestInv, NEW j \in Jobs, NEW out \in Outputs, OrphanToolEnds(j, out)
  PROVE  IngestInv'
<1>1. /\ UNCHANGED <<subject, download, job, rows, call>>
      /\ history' \in BOOLEAN \X BOOLEAN /\ faults' \in 0..MaxFaults
  BY DEF IngestInv, Typed, OrphanToolEnds, OrphanEnds, Undisturbed
<1>2. file' \in [Files -> FileState] /\ file'["raw"] = file["raw"]
  <2>1. CASE out = "probe"
    BY <2>1 DEF OrphanToolEnds, IngestInv, Typed
  <2>2. CASE out # "probe"
    BY <2>2, LeftIsState, OutputsApart DEF OrphanToolEnds
  <2> QED BY <2>1, <2>2
<1>3. Typed' /\ Grows
  BY <1>1, <1>2 DEF IngestInv, Typed, Grows, subject, rows
<1>4. \A k \in Jobs : Rests(k)
  BY <1>1 DEF Rests, InCall
<1> QED BY <1>3, <1>4, RestKeeps DEF IngestInv

\* What a step of the job's own must show when it stores something.
LEMMA OwnStep ==
  ASSUME IngestInv, NEW j \in Jobs, NEW r \in States, job' = [job EXCEPT ![j] = r],
         UNCHANGED <<subject, faults, history, callVars>>, download' \in BOOLEAN, Grows,
         file' \in [Files -> FileState], asset' \in Jobs \cup {None}, items' \in FileState,
         segs' \in [Positions -> Sources \cup {None}],
         vecs' \in [Positions -> Sources \cup {None}],
         job[j].pc \in Points \ Outputs,
         JobInv(j)'
  PROVE  IngestInv'
<1>1. job' \in [Jobs -> States] /\ \A k \in Jobs \ {j} : job'[k] = job[k]
  BY DEF IngestInv, Typed
<1>2. Positions' = Positions
  BY DEF Positions
<1>3. Typed'
  BY <1>1 DEF IngestInv, Typed, subject
<1>4. \A k \in Jobs : InCall(k)' <=> InCall(k)
  BY CallsSame
<1>5. \A k \in Jobs \ {j} : Rests(k)
  BY <1>1, <1>4 DEF Rests
<1>6. Waits(j)'
  BY <1>4 DEF IngestInv, Waits
<1> QED BY <1>3, <1>5, <1>6, StepKeeps

LEMMA JobIs ==
  ASSUME IngestInv, NEW j \in Jobs
  PROVE  /\ job \in [Jobs -> States] /\ job[j] \in States /\ job[j].saved \in 0..4
         /\ JobInv(j) /\ Waits(j) /\ Typed
BY DEF IngestInv, Typed, States

LEMMA NotEmbedded ==
  ASSUME IngestInv, NEW j \in Jobs, job[j].saved \in {0, 1, 2}
  PROVE  ~job[j].embedded
<1>1. job[j].embedded => job[j].saved >= 3
  BY DEF IngestInv, JobInv, Placed
<1>2. ~(job[j].saved >= 3)
  OBVIOUS
<1> QED BY <1>1, <1>2

LEMMA SaveKeeps ==
  ASSUME IngestInv, NEW j \in Jobs, Save(j)
  PROVE  IngestInv'
<1> DEFINE pc == Begins[job[j].saved + 2]
           r == [job[j] EXCEPT !.saved = @ + 1, !.pc = pc]
<1>1. /\ job' = [job EXCEPT ![j] = r] /\ job[j].pc = "save"
      /\ UNCHANGED <<download, file, rows, callVars, subject, faults, history>>
  BY JobIs DEF Save, Undisturbed, States
<1>2. /\ job[j].saved \in 0..3
      /\ content = "document" => job[j].saved \in 0..1
      /\ job[j].embedded => job[j].saved >= 3
  BY <1>1, JobIs, ContentKinds DEF JobInv, Placed
<1>3. pc = CASE job[j].saved = 0 -> IF content = "media" THEN "probe" ELSE "read"
              [] job[j].saved = 1 -> IF content = "media" THEN "transcribe" ELSE "done"
              [] job[j].saved = 2 -> "embed"
              [] job[j].saved = 3 -> "done"
  BY <1>2, ContentKinds DEF Begins
<1>4. pc \in {"probe", "read", "transcribe", "embed", "done"}
  BY <1>2, <1>3
<1> HIDE DEF pc
<1>5. r \in States
  <2>1. job[j].saved + 1 \in 0..4
    BY <1>2
  <2>2. pc \in Points \cup {"new", "idle", "done", "error"}
    BY <1>4 DEF Points
  <2> QED BY <2>1, <2>2, JobIs DEF States
<1>6. /\ job'[j].pc = pc /\ job'[j].saved = job[j].saved + 1
      /\ job'[j].asset = job[j].asset /\ job'[j].input = job[j].input
      /\ job'[j].embedded = job[j].embedded
  BY <1>1, JobIs DEF States
<1> HIDE DEF r
<1>7. \A n \in 1..4 : Past(j, n)' => Past(j, n)
  BY <1>1, <1>2, <1>4, <1>6 DEF Past
<1>8. Placed(j)'
  BY <1>1, <1>2, <1>3, <1>6, ContentKinds DEF Placed, Fetching, Making, Normalizing, subject
<1>9. Fetched(j)' /\ Named(j)' /\ Filed(j)'
  BY <1>1, <1>4, <1>6, <1>7, JobIs DEF JobInv, Fetched, Named, Filed, rows, subject
<1>10. Told(j)'
  <2>1. Past(j, 3)' => Past(j, 3)
    BY <1>7
  <2>2. UNCHANGED <<content, segs, vecs>> /\ Given(j)' = Given(j)
    BY <1>1, GivenStays DEF subject, rows
  <2> QED BY <1>6, <2>1, <2>2, JobIs DEF JobInv, Told
<1>11. /\ download' \in BOOLEAN /\ file' \in [Files -> FileState]
       /\ asset' \in Jobs \cup {None} /\ items' \in FileState
       /\ segs' \in [Positions -> Sources \cup {None}]
       /\ vecs' \in [Positions -> Sources \cup {None}]
  BY <1>1 DEF IngestInv, Typed, rows
<1>12. Grows
  BY <1>1 DEF Grows, rows
<1>13. job[j].pc \in Points \ Outputs
  BY <1>1, IngestAssumption DEF Points, Media
<1> QED BY <1>1, <1>5, <1>8, <1>9, <1>10, <1>11, <1>12, <1>13, OwnStep DEF JobInv

\* The raw file is there.
LEMMA PutKeeps ==
  ASSUME IngestInv, NEW j \in Jobs, job[j].pc \in {"put", "copying"},
         Goes(j, "save"), NEW left \in {"partial", "whole"},
         file' = [file EXCEPT !["raw"] = left], download' \in BOOLEAN,
         UNCHANGED <<rows, callVars, subject, faults, history>>
  PROVE  IngestInv'
<1> DEFINE r == [job[j] EXCEPT !.pc = "save"]
<1>1. job' = [job EXCEPT ![j] = r] /\ r \in States
  BY JobIs DEF Goes, States, Points
<1>2. /\ job'[j].pc = "save" /\ job'[j].saved = job[j].saved
      /\ job'[j].asset = job[j].asset /\ job'[j].input = job[j].input
      /\ job'[j].embedded = job[j].embedded
  BY <1>1, JobIs DEF States
<1> HIDE DEF r
<1>3. job[j].saved = 0 /\ job[j].pc \in Points \ Outputs
  BY JobIs, IngestAssumption DEF JobInv, Placed, Fetching, Points, Media
<1>4. file' \in [Files -> FileState] /\ file'["raw"] # "none"
  BY JobIs DEF Typed, Files, FileState
<1>5. /\ Grows /\ asset' \in Jobs \cup {None} /\ items' \in FileState
      /\ segs' \in [Positions -> Sources \cup {None}]
      /\ vecs' \in [Positions -> Sources \cup {None}]
  BY <1>4, JobIs DEF Typed, Grows, rows
<1>6. Placed(j)'
  BY <1>2, <1>3, JobIs DEF JobInv, Placed, Fetching, Making, Normalizing, subject
<1>7. Fetched(j)' /\ Named(j)' /\ Filed(j)' /\ Told(j)'
  BY <1>2, <1>3, <1>4, JobIs, NotEmbedded DEF JobInv, Fetched, Named, Filed, Told, Past
<1> QED BY <1>1, <1>3, <1>4, <1>5, <1>6, <1>7, OwnStep DEF JobInv

LEMMA EndCopyKeeps ==
  ASSUME IngestInv, NEW j \in Jobs, EndCopy(j)
  PROVE  IngestInv'
<1>1. /\ job[j].pc = "copying" /\ Goes(j, "save") /\ download' \in BOOLEAN
      /\ UNCHANGED <<rows, callVars, subject, faults, history>>
  BY JobIs DEF EndCopy, Undisturbed, Typed
<1>2. PICK left \in {"partial", "whole"} : file' = [file EXCEPT !["raw"] = left]
  BY DEF EndCopy
<1> QED BY <1>1, <1>2, PutKeeps

LEMMA MoveKeeps ==
  ASSUME IngestInv, NEW j \in Jobs, Move(j)
  PROVE  IngestInv'
<1>1. /\ job[j].pc = "put" /\ download' \in BOOLEAN
      /\ UNCHANGED <<rows, callVars, subject, faults, history>>
  BY DEF Move, Undisturbed
<1>2. CASE download
  BY <1>1, <1>2, PutKeeps DEF Move
<1>3. CASE ~download
  <2>1. Goes(j, "error") /\ UNCHANGED file /\ Fits(j, "error")
    BY <1>3 DEF Move, Fits
  <2>2. job[j].pc \in Points \ Outputs
    BY <1>1, IngestAssumption DEF Points, Media
  <2>3. history' \in BOOLEAN \X BOOLEAN /\ faults' \in 0..MaxFaults
    BY <1>1, JobIs DEF Typed
  <2> QED BY <1>1, <2>1, <2>2, <2>3, GoesOn
<1> QED BY <1>2, <1>3

LEMMA StartCopyKeeps ==
  ASSUME IngestInv, NEW j \in Jobs, StartCopy(j)
  PROVE  IngestInv'
<1>1. PICK hit \in SUBSET Readers :
        job' = [k \in Jobs |-> CASE k = j -> [job[k] EXCEPT !.pc = "copying"]
                                 [] k \in hit -> [job[k] EXCEPT !.input = "partial"]
                                 [] OTHER -> job[k]]
  BY DEF StartCopy
<1>2. /\ job[j].pc = "put" /\ file' = [file EXCEPT !["raw"] = "partial"]
      /\ UNCHANGED <<download, rows, callVars, subject, faults, history>>
  BY DEF StartCopy, Undisturbed
<1>3. job' \in [Jobs -> States]
  <2> SUFFICES ASSUME NEW k \in Jobs PROVE job'[k] \in States
    BY <1>1
  <2>1. [job[k] EXCEPT !.pc = "copying"] \in States
    BY JobIs DEF States, Points
  <2>2. [job[k] EXCEPT !.input = "partial"] \in States
    BY JobIs DEF States, FileState
  <2> QED BY <1>1, <2>1, <2>2, JobIs
<1>4. file' \in [Files -> FileState] /\ file'["raw"] # "none"
  BY <1>2, JobIs DEF Typed, Files, FileState
<1>5. Typed'
  BY <1>2, <1>3, <1>4, JobIs DEF Typed, rows, subject
<1>6. Grows
  BY <1>2, <1>4 DEF Grows, rows
<1>7. ASSUME NEW k \in Jobs \ {j} PROVE Rests(k)
  <2>1. InCall(k)' <=> InCall(k)
    BY <1>2, CallsSame
  <2> QED BY <1>1, <2>1, JobIs DEF Rests, States
<1>8. /\ job'[j].pc = "copying" /\ job'[j].saved = job[j].saved
      /\ job'[j].asset = job[j].asset /\ job'[j].input = job[j].input
      /\ job'[j].embedded = job[j].embedded
  <2>1. j \notin hit
    BY <1>2, JobIs, IngestAssumption DEF Readers, Waits, Media
  <2>2. job'[j] = [job[j] EXCEPT !.pc = "copying"]
    BY <1>1, <2>1
  <2> QED BY <2>2, JobIs DEF States
<1>9. job[j].saved = 0 /\ ~job[j].embedded
  BY <1>2, JobIs DEF JobInv, Placed, Fetching
<1>10. Placed(j)'
  BY <1>2, <1>8, <1>9, JobIs DEF JobInv, Placed, Fetching, Making, Normalizing, subject
<1>11. Fetched(j)' /\ Named(j)' /\ Filed(j)' /\ Told(j)'
  BY <1>2, <1>4, <1>8, <1>9, JobIs DEF JobInv, Fetched, Named, Filed, Told, Past
<1>12. Waits(j)'
  BY <1>2, CallsSame, JobIs, IngestAssumption DEF Waits, Media
<1> QED BY <1>5, <1>6, <1>7, <1>10, <1>11, <1>12, StepKeeps DEF JobInv

LEMMA RunToolKeeps ==
  ASSUME IngestInv, CallTypeOK, NEW j \in Jobs, RunTool(j)
  PROVE  IngestInv'
<1> DEFINE r == [job[j] EXCEPT !.input = file["raw"]]
<1>1. /\ job' = [job EXCEPT ![j] = r] /\ job[j].pc \in Outputs
      /\ file' = [f \in Files |-> IF f = job[j].pc THEN "partial" ELSE file[f]]
      /\ UNCHANGED <<download, rows, subject, faults, history>>
  BY DEF RunTool, Undisturbed
<1>2. r \in States
  BY JobIs DEF Typed, States, Files
<1>3. /\ job'[j].pc = job[j].pc /\ job'[j].saved = job[j].saved
      /\ job'[j].asset = job[j].asset /\ job'[j].embedded = job[j].embedded
      /\ \A k \in Jobs \ {j} : job'[k] = job[k]
      /\ job' \in [Jobs -> States]
  BY <1>1, <1>2, JobIs DEF States
<1> HIDE DEF r
<1>4. file' \in [Files -> FileState] /\ file'["raw"] = file["raw"]
  BY <1>1, JobIs, IngestAssumption DEF Typed, Files, FileState, Media
<1>5. Typed'
  BY <1>1, <1>3, <1>4, JobIs DEF Typed, rows, subject
<1>6. Grows
  BY <1>1, <1>4 DEF Grows, rows
<1>7. PICK c : call' = [call EXCEPT ![j] = c]
  BY DEF RunTool, Create
<1>8. \A k \in Jobs \ {j} : Rests(k)
  BY <1>3, <1>7, CallsApart DEF Rests
<1>9. job[j].saved = 1 /\ content = "media"
  BY <1>1, JobIs, IngestAssumption DEF JobInv, Placed, Making, Normalizing, Media
<1>10. job[j].pc \in {"probe", "mezzanine", "audio"}
  BY <1>1, IngestAssumption DEF Media
<1>11. Placed(j)' /\ Waits(j)'
  BY <1>1, <1>3, <1>9, JobIs DEF JobInv, Placed, Waits, subject
<1>12. Fetched(j)' /\ Named(j)' /\ Filed(j)' /\ Told(j)'
  BY <1>1, <1>3, <1>4, <1>9, <1>10, JobIs, NotEmbedded
     DEF JobInv, Fetched, Named, Filed, Told, Past, rows, subject
<1> QED BY <1>5, <1>6, <1>8, <1>11, <1>12, StepKeeps DEF JobInv

LEMMA ReadKeeps ==
  ASSUME IngestInv, NEW j \in Jobs, ReadDocument(j)
  PROVE  IngestInv'
<1> DEFINE r == [job[j] EXCEPT !.input = file["raw"], !.pc = "upsert"]
<1>1. /\ job' = [job EXCEPT ![j] = r] /\ job[j].pc = "read"
      /\ UNCHANGED <<download, file, rows, callVars, subject, faults, history>>
  BY DEF ReadDocument, Undisturbed
<1>2. r \in States
  BY JobIs DEF Typed, States, Files, Points
<1>3. /\ job'[j].pc = "upsert" /\ job'[j].saved = job[j].saved
      /\ job'[j].asset = job[j].asset /\ job'[j].input = file["raw"]
      /\ job'[j].embedded = job[j].embedded
  BY <1>1, JobIs DEF States
<1> HIDE DEF r
<1>4. job[j].saved = 1 /\ content = "document" /\ job[j].pc \in Points \ Outputs
  BY <1>1, JobIs, IngestAssumption DEF JobInv, Placed, Normalizing, Points, Media
<1>5. file["raw"] # "none"
  BY <1>4, JobIs DEF JobInv, Fetched, Past
<1>6. /\ download' \in BOOLEAN /\ file' \in [Files -> FileState]
      /\ asset' \in Jobs \cup {None} /\ items' \in FileState
      /\ segs' \in [Positions -> Sources \cup {None}]
      /\ vecs' \in [Positions -> Sources \cup {None}]
  BY <1>1, JobIs DEF Typed, rows
<1>7. Grows
  BY <1>1 DEF Grows, rows
<1>8. Placed(j)'
  BY <1>1, <1>3, <1>4, JobIs, NotEmbedded
     DEF JobInv, Placed, Fetching, Making, Normalizing, subject
<1>9. Fetched(j)' /\ Named(j)' /\ Filed(j)' /\ Told(j)'
  BY <1>1, <1>3, <1>4, <1>5, JobIs DEF JobInv, Fetched, Named, Filed, Told, Past, rows, subject
<1> QED BY <1>1, <1>2, <1>4, <1>6, <1>7, <1>8, <1>9, OwnStep DEF JobInv

LEMMA UpsertKeeps ==
  ASSUME IngestInv, NEW j \in Jobs, UpsertAsset(j)
  PROVE  IngestInv'
<1> DEFINE r == [job[j] EXCEPT !.asset = asset', !.pc = AfterUpsert]
<1>1. /\ job' = [job EXCEPT ![j] = r] /\ job[j].pc = "upsert"
      /\ asset' = IF asset = None THEN job[j].asset ELSE asset
      /\ UNCHANGED <<download, file, items, segs, vecs, callVars, subject, faults, history>>
  BY DEF UpsertAsset, Undisturbed
<1>2. asset' \in Jobs /\ asset' # None /\ (asset # None => asset' = asset)
  BY <1>1, JobIs, IngestAssumption DEF JobInv, Named, Typed
<1>3. AfterUpsert \in {"items", "save"} /\ (AfterUpsert = "items" <=> content = "document")
  BY DEF AfterUpsert
<1>4. r \in States
  BY <1>2, <1>3, JobIs DEF States, Points
<1>5. /\ job'[j].pc = AfterUpsert /\ job'[j].saved = job[j].saved
      /\ job'[j].asset = asset' /\ job'[j].input = job[j].input
      /\ job'[j].embedded = job[j].embedded
  BY <1>1, JobIs DEF States
<1> HIDE DEF r
<1>6. job[j].saved = 1 /\ job[j].pc \in Points \ Outputs
  BY <1>1, JobIs, IngestAssumption DEF JobInv, Placed, Normalizing, Points, Media
<1>7. /\ download' \in BOOLEAN /\ file' \in [Files -> FileState] /\ items' \in FileState
      /\ segs' \in [Positions -> Sources \cup {None}]
      /\ vecs' \in [Positions -> Sources \cup {None}]
  BY <1>1, JobIs DEF Typed
<1>8. Grows
  BY <1>1, <1>2 DEF Grows
<1>9. UNCHANGED <<content, source, file, items>>
  BY <1>1 DEF subject
<1>10. Placed(j)'
  BY <1>3, <1>5, <1>6, <1>9, ContentKinds, NotEmbedded
     DEF Placed, Fetching, Making, Normalizing
<1>11. Fetched(j)' /\ Named(j)'
  BY <1>2, <1>3, <1>5, <1>6, <1>9, JobIs DEF JobInv, Fetched, Named, Past
<1>12. Filed(j)' /\ Told(j)'
  BY <1>1, <1>3, <1>5, <1>6, <1>9, JobIs, NotEmbedded DEF JobInv, Filed, Told, Past
<1> QED BY <1>1, <1>2, <1>4, <1>6, <1>7, <1>8, <1>10, <1>11, <1>12, OwnStep DEF JobInv

LEMMA ItemsKeep ==
  ASSUME IngestInv, NEW j \in Jobs, ReplaceItems(j)
  PROVE  IngestInv'
<1>1. /\ job[j].pc = "items"
      /\ UNCHANGED <<download, file, asset, segs, vecs, callVars, subject, faults, history>>
  BY DEF ReplaceItems, Undisturbed
<1>2. PICK pc \in {"save", "error"} :
        /\ Goes(j, pc)
        /\ pc = "save" => items' = job[j].input
        /\ pc = "error" => UNCHANGED items
  BY DEF ReplaceItems
<1> DEFINE r == [job[j] EXCEPT !.pc = pc]
<1>3. job' = [job EXCEPT ![j] = r] /\ r \in States
  BY <1>2, JobIs DEF Goes, States, Points
<1>4. /\ job'[j].pc = pc /\ job'[j].saved = job[j].saved
      /\ job'[j].asset = job[j].asset /\ job'[j].input = job[j].input
      /\ job'[j].embedded = job[j].embedded
  BY <1>3, JobIs DEF States
<1> HIDE DEF r
<1>5. /\ job[j].saved = 1 /\ content = "document" /\ job[j].pc \in Points \ Outputs
      /\ job[j].input # "none" /\ job[j].asset = asset /\ asset # None
      /\ job[j].asset \in Jobs
  BY <1>1, JobIs, IngestAssumption
     DEF JobInv, Placed, Normalizing, Points, Media, Filed, Named
<1>6. items' \in FileState /\ (items # "none" => items' # "none")
      /\ (pc = "save" => items' # "none")
  BY <1>2, <1>5, JobIs DEF Typed, States
<1>7. /\ download' \in BOOLEAN /\ file' \in [Files -> FileState]
      /\ asset' \in Jobs \cup {None}
      /\ segs' \in [Positions -> Sources \cup {None}]
      /\ vecs' \in [Positions -> Sources \cup {None}]
  BY <1>1, JobIs DEF Typed
<1>8. Grows
  BY <1>1, <1>6 DEF Grows
<1>9. UNCHANGED <<content, file, asset>>
  BY <1>1 DEF subject
<1>10. Placed(j)'
  BY <1>2, <1>4, <1>5, <1>9, NotEmbedded DEF Placed, Fetching, Making, Normalizing
<1>11. Fetched(j)' /\ Named(j)'
  BY <1>2, <1>4, <1>5, <1>9, JobIs DEF JobInv, Fetched, Named, Past
<1>12. Filed(j)' /\ Told(j)'
  BY <1>2, <1>4, <1>5, <1>6, <1>9, NotEmbedded DEF Filed, Told, Past
<1> QED BY <1>1, <1>3, <1>5, <1>6, <1>7, <1>8, <1>10, <1>11, <1>12, OwnStep DEF JobInv

\* What a source gives, over what was there.
LEMMA OverFills ==
  ASSUME NEW j \in Jobs, NEW old \in [Positions -> Sources \cup {None}]
  PROVE  /\ Over(j, old) \in [Positions -> Sources \cup {None}]
         /\ \A k \in Positions : old[k] # None => Over(j, old)[k] # None
         /\ \A k \in 1..Given(j) : k \in Positions /\ Over(j, old)[k] # None
<1>1. SourceOf(j) \in Sources /\ SourceOf(j) # None /\ Given(j) \in Nat
  BY GivenPositions DEF SourceOf, Sources, None
<1>2. Over(j, old) \in [Positions -> Sources \cup {None}]
  BY <1>1 DEF Over
<1>3. \A k \in Positions : old[k] # None => Over(j, old)[k] # None
  BY <1>1 DEF Over
<1>4. ASSUME NEW k \in 1..Given(j)
      PROVE k \in Positions /\ Over(j, old)[k] # None
  <2>1. k \in Positions /\ k <= Given(j)
    BY <1>1, GivenPositions
  <2> QED BY <1>1, <2>1 DEF Over
<1> QED BY <1>2, <1>3, <1>4

LEMMA SegmentsKeep ==
  ASSUME IngestInv, NEW j \in Jobs, PersistSegments(j)
  PROVE  IngestInv'
<1> DEFINE r == [job[j] EXCEPT !.pc = "save"]
<1>1. /\ job[j].pc = "transcribe" /\ segs' = Over(j, segs) /\ job' = [job EXCEPT ![j] = r]
      /\ UNCHANGED <<download, file, asset, items, vecs, callVars, subject, faults, history>>
  BY JobIs DEF PersistSegments, Undisturbed, Goes
<1>2. r \in States
  BY JobIs DEF States, Points
<1>3. /\ job'[j].pc = "save" /\ job'[j].saved = job[j].saved
      /\ job'[j].asset = job[j].asset /\ job'[j].input = job[j].input
      /\ job'[j].embedded = job[j].embedded
  BY <1>1, JobIs DEF States
<1> HIDE DEF r
<1>4. job[j].saved = 2 /\ content = "media" /\ job[j].pc \in Points \ Outputs
  BY <1>1, JobIs, IngestAssumption DEF JobInv, Placed, Points, Media
<1>5. segs \in [Positions -> Sources \cup {None}]
  BY JobIs DEF Typed
<1>6. /\ segs' \in [Positions -> Sources \cup {None}]
      /\ \A k \in Positions : segs[k] # None => segs'[k] # None
      /\ \A k \in 1..Given(j) : segs'[k] # None
  BY <1>1, <1>5, OverFills
<1>7. /\ download' \in BOOLEAN /\ file' \in [Files -> FileState]
      /\ asset' \in Jobs \cup {None} /\ items' \in FileState
      /\ vecs' \in [Positions -> Sources \cup {None}]
  BY <1>1, JobIs DEF Typed
<1>8. Grows
  BY <1>1, <1>6 DEF Grows
<1>9. UNCHANGED <<content, source, file, asset>> /\ Given(j)' = Given(j)
  BY <1>1, GivenStays DEF subject
<1>10. Placed(j)'
  BY <1>3, <1>4, <1>9, NotEmbedded DEF Placed, Fetching, Making, Normalizing
<1>11. Fetched(j)' /\ Named(j)' /\ Filed(j)'
  BY <1>1, <1>3, <1>4, <1>9, JobIs DEF JobInv, Fetched, Named, Filed, Past
<1>12. Told(j)'
  BY <1>3, <1>4, <1>6, <1>9, NotEmbedded DEF Told, Past
<1> QED BY <1>1, <1>2, <1>4, <1>6, <1>7, <1>8, <1>10, <1>11, <1>12, OwnStep DEF JobInv

LEMMA VectorsKeep ==
  ASSUME IngestInv, NEW j \in Jobs, PersistVectors(j)
  PROVE  IngestInv'
<1> DEFINE r == [job[j] EXCEPT !.pc = "save", !.embedded = TRUE]
<1>1. /\ job[j].pc = "embed" /\ job' = [job EXCEPT ![j] = r]
      /\ vecs' = [k \in Positions |-> IF segs[k] = None THEN vecs[k] ELSE Over(j, vecs)[k]]
      /\ UNCHANGED <<download, file, asset, items, segs, callVars, subject, faults, history>>
  BY JobIs DEF PersistVectors, Undisturbed, Embeds, States
<1>2. r \in States
  BY JobIs DEF States, Points
<1>3. /\ job'[j].pc = "save" /\ job'[j].saved = job[j].saved
      /\ job'[j].asset = job[j].asset /\ job'[j].input = job[j].input
      /\ job'[j].embedded = TRUE
  BY <1>1, JobIs DEF States
<1> HIDE DEF r
<1>4. job[j].saved = 3 /\ content = "media" /\ job[j].pc \in Points \ Outputs
  BY <1>1, JobIs, IngestAssumption DEF JobInv, Placed, Points, Media
<1>5. \A k \in 1..Given(j) : segs[k] # None
  BY <1>4, JobIs DEF JobInv, Told, Past
<1>6. vecs \in [Positions -> Sources \cup {None}]
  BY JobIs DEF Typed
<1>7. /\ Over(j, vecs) \in [Positions -> Sources \cup {None}]
      /\ \A k \in Positions : vecs[k] # None => Over(j, vecs)[k] # None
      /\ \A k \in 1..Given(j) : k \in Positions /\ Over(j, vecs)[k] # None
  BY <1>6, OverFills
<1>8. /\ vecs' \in [Positions -> Sources \cup {None}]
      /\ \A k \in Positions : vecs[k] # None => vecs'[k] # None
  BY <1>1, <1>6, <1>7
<1>9. \A k \in 1..Given(j) : vecs'[k] # None
  BY <1>1, <1>5, <1>7
<1>10. /\ download' \in BOOLEAN /\ file' \in [Files -> FileState]
       /\ asset' \in Jobs \cup {None} /\ items' \in FileState
       /\ segs' \in [Positions -> Sources \cup {None}]
  BY <1>1, JobIs DEF Typed
<1>11. Grows
  BY <1>1, <1>8 DEF Grows
<1>12. UNCHANGED <<content, source, file, asset, segs>> /\ Given(j)' = Given(j)
  BY <1>1, GivenStays DEF subject
<1>13. Placed(j)'
  BY <1>3, <1>4, <1>12, JobIs DEF Placed, Fetching, Making, Normalizing
<1>14. Fetched(j)' /\ Named(j)' /\ Filed(j)'
  BY <1>1, <1>3, <1>4, <1>12, JobIs DEF JobInv, Fetched, Named, Filed, Past
<1>15. Told(j)'
  BY <1>3, <1>4, <1>5, <1>9, <1>12 DEF Told, Past
<1> QED BY <1>1, <1>2, <1>4, <1>8, <1>10, <1>11, <1>13, <1>14, <1>15, OwnStep DEF JobInv

LEMMA SkippedKeeps ==
  ASSUME IngestInv, NEW j \in Jobs, EmbedSkipped(j)
  PROVE  IngestInv'
<1> DEFINE r == [job[j] EXCEPT !.pc = "save", !.embedded = FALSE]
<1>1. /\ job[j].pc = "embed" /\ job' = [job EXCEPT ![j] = r]
      /\ UNCHANGED <<download, file, rows, callVars, subject, faults, history>>
  BY JobIs DEF EmbedSkipped, Undisturbed, Embeds, States
<1>2. r \in States
  BY JobIs DEF States, Points
<1>3. /\ job'[j].pc = "save" /\ job'[j].saved = job[j].saved
      /\ job'[j].asset = job[j].asset /\ job'[j].input = job[j].input
      /\ job'[j].embedded = FALSE
  BY <1>1, JobIs DEF States
<1> HIDE DEF r
<1>4. job[j].saved = 3 /\ content = "media" /\ job[j].pc \in Points \ Outputs
  BY <1>1, JobIs, IngestAssumption DEF JobInv, Placed, Points, Media
<1>5. /\ download' \in BOOLEAN /\ file' \in [Files -> FileState]
      /\ asset' \in Jobs \cup {None} /\ items' \in FileState
      /\ segs' \in [Positions -> Sources \cup {None}]
      /\ vecs' \in [Positions -> Sources \cup {None}]
  BY <1>1, JobIs DEF Typed, rows
<1>6. Grows
  BY <1>1 DEF Grows, rows
<1>7. UNCHANGED <<content, file, asset, segs, vecs>> /\ Given(j)' = Given(j)
  BY <1>1, GivenStays DEF subject, rows
<1>8. Placed(j)'
  BY <1>3, <1>4, <1>7 DEF Placed, Fetching, Making, Normalizing
<1>9. Fetched(j)' /\ Named(j)' /\ Filed(j)'
  BY <1>1, <1>3, <1>4, <1>7, JobIs DEF JobInv, Fetched, Named, Filed, Past
<1>10. Told(j)'
  BY <1>3, <1>4, <1>7, JobIs DEF JobInv, Told, Past
<1> QED BY <1>1, <1>2, <1>4, <1>5, <1>6, <1>8, <1>9, <1>10, OwnStep DEF JobInv

-----------------------------------------------------------------------------
(* What holds of an ingest.                                                *)

LEMMA IngestNextKeeps ==
  IngestInv /\ CallTypeOK /\ [IngestNext]_ingestVars => IngestInv'
<1> SUFFICES ASSUME IngestInv, CallTypeOK, [IngestNext]_ingestVars PROVE IngestInv'
  OBVIOUS
<1>1. ASSUME NEW j \in Jobs, JobRuns(j) PROVE IngestInv'
  <2>1. "failed" \in Ended
    BY DEF Ended
  <2> QED
    BY <1>1, <2>1, StartKeeps, SaveKeeps, FetchKeeps, StartCopyKeeps, EndCopyKeeps, MoveKeeps,
       CheckKeeps, RunToolKeeps, CallEndsKeep, BlowKeeps, ReadKeeps, UpsertKeeps, ItemsKeep,
       SegmentsKeep, VectorsKeep, SkippedKeeps, ToolEndsKeeps DEF JobRuns
<1>2. ASSUME NEW j \in Jobs, Raises(j) \/ Signal(j) \/ Dies(j) PROVE IngestInv'
  BY <1>2, RaisesKeeps, SignalKeeps, DiesKeeps
<1>3. ASSUME NEW j \in Jobs, NEW code \in Ended, ToolEnds(j, code) PROVE IngestInv'
  BY <1>3, ToolEndsKeeps
<1>4. ASSUME NEW j \in Jobs, NEW out \in Outputs, OrphanToolEnds(j, out) PROVE IngestInv'
  BY <1>4, OrphanEndsKeeps
<1>5. CASE UNCHANGED ingestVars
  <2>1. UNCHANGED <<subject, download, file, job, rows, faults, history, callVars>>
    BY <1>5 DEF ingestVars
  <2>2. Typed'
    BY <2>1 DEF IngestInv, Typed, subject, rows
  <2>3. Grows
    BY <2>1 DEF Grows, rows
  <2>4. \A k \in Jobs : Rests(k)
    BY <2>1, CallsSame DEF Rests
  <2> QED BY <2>2, <2>3, <2>4, RestKeeps DEF IngestInv
<1> QED BY <1>1, <1>2, <1>3, <1>4, <1>5 DEF IngestNext

THEOREM IngestInvariant == IngestSpec => []IngestInv
<1>1. IngestSpec => []CallTypeOK
  BY IngestMakesCalls, CallsTyped, PTL DEF MakesCalls
<1> QED BY <1>1, IngestInitEstablishes, IngestNextKeeps, PTL DEF IngestSpec

\* The variables keep their types.
THEOREM IngestTyped == IngestSpec => []IngestTypeOK
<1>1. IngestInv /\ CallTypeOK => IngestTypeOK
  BY DEF IngestInv, Typed, States, CallTypeOK, IngestTypeOK, Jobs, history
<1>2. IngestSpec => []CallTypeOK
  BY IngestMakesCalls, CallsTyped, PTL DEF MakesCalls
<1> QED BY <1>1, <1>2, IngestInvariant, PTL

\* However many jobs ingest one content, those past normalize or the reading of
\* the document speak of the one asset in the table (_upsert_asset).
THEOREM CanonicalAssets == IngestSpec => []CanonicalAsset
<1>1. IngestInv => CanonicalAsset
  BY DEF IngestInv, JobInv, Named, Past, CanonicalAsset
<1> QED BY <1>1, IngestInvariant, PTL

\* The items of a document that can be found are never taken away (_run_stage,
\* replace_items).
THEOREM DocumentKept == IngestSpec => []DocumentStays
<1>1. IngestInv => DocumentStays
  BY DEF IngestInv, JobInv, Filed, Past, DocumentStays
<1> QED BY <1>1, IngestInvariant, PTL

\* A job that is done has a row for each of its segments and, unless it found no
\* encoder, a vector, however many jobs wrote them and wherever it was resumed
\* (_persist_segments, _embed_stage).
THEOREM TranscriptsIndexed == IngestSpec => []TranscriptIndexed
<1>1. IngestInv => TranscriptIndexed
  <2> SUFFICES ASSUME IngestInv, NEW j \in Jobs, job[j].pc = "done", content = "media"
               PROVE  \A k \in 1..Given(j) :
                        segs[k] # None /\ (job[j].embedded => vecs[k] # None)
    BY DEF TranscriptIndexed
  <2>1. Placed(j) /\ Told(j)
    BY DEF IngestInv, JobInv
  <2>2. Past(j, 3)
    BY <2>1 DEF Placed, Past
  <2> QED BY <2>1, <2>2 DEF Told
<1> QED BY <1>1, IngestInvariant, PTL

-----------------------------------------------------------------------------
(* Jobs that run one after another.                                        *)

UnderWay(j) == job[j].pc \notin {"new", "done", "error"}

Single == \A j, k \in Jobs : UnderWay(j) /\ UnderWay(k) => j = k

\* Until it is over nobody writes over what the job under way has transcribed.
Spoken(j) == UnderWay(j) /\ Past(j, 3) => \A k \in 1..Given(j) : segs[k] = SourceOf(j)

Pending(k) == vecs[k] # segs[k] =>
  \E j \in Jobs : SourceOf(j) = segs[k] /\ job[j].pc # "new" /\ ~job[j].embedded

\* A row holds the text of a source only where the source has a segment.
Sized == \A k \in Positions, j \in Jobs : segs[k] = SourceOf(j) => k <= Given(j)

SeqInv ==
  /\ Sized
  /\ apart => Single /\ (\A j \in Jobs : Spoken(j)) /\ (\A k \in Positions : Pending(k))

\* The past of an ingest is not forgotten.
LEMMA HistoryGrows ==
  ASSUME [IngestNext]_ingestVars
  PROVE  (apart' => apart) /\ (cut => cut')
<1> DEFINE Goal == (apart' => apart) /\ (cut => cut')
<1>1. ASSUME UNCHANGED history PROVE Goal
  BY <1>1 DEF history
<1>2. ASSUME NEW j \in Jobs, Start(j) \/ Raises(j) \/ ToolFailed(j) \/ Signal(j) \/ Dies(j)
      PROVE  Goal
  <2>1. CASE Start(j)
    BY <2>1 DEF Start
  <2>2. CASE Raises(j)
    BY <2>2 DEF Raises
  <2>3. CASE ToolFailed(j)
    BY <2>3 DEF ToolFailed
  <2>4. CASE Signal(j)
    BY <2>4 DEF Signal
  <2>5. CASE Dies(j)
    BY <2>5 DEF Dies
  <2> QED BY <1>2, <2>1, <2>2, <2>3, <2>4, <2>5
<1>3. ASSUME NEW j \in Jobs,
             \/ Save(j) \/ Download(j) \/ HashDownload(j) \/ Place(j) \/ StartCopy(j)
             \/ EndCopy(j) \/ Move(j) \/ Check(j) \/ RunTool(j) \/ ToolDone(j) \/ TimeOut(j)
             \/ Escalate(j) \/ Released(j) \/ ReadDocument(j) \/ UpsertAsset(j)
             \/ ReplaceItems(j) \/ PersistSegments(j) \/ PersistVectors(j) \/ EmbedSkipped(j)
      PROVE  UNCHANGED history
  BY <1>3 DEF Save, Download, HashDownload, Place, StartCopy, EndCopy, Move, Check, RunTool,
     ToolDone, TimeOut, Escalate, Released, ReadDocument, UpsertAsset, ReplaceItems,
     PersistSegments, PersistVectors, EmbedSkipped, Undisturbed
<1>4. ASSUME NEW j \in Jobs, NEW code \in Ended, ToolEnds(j, code) PROVE UNCHANGED history
  BY <1>4 DEF ToolEnds, Undisturbed
<1>5. ASSUME NEW j \in Jobs, NEW out \in Outputs, OrphanToolEnds(j, out)
      PROVE  UNCHANGED history
  BY <1>5 DEF OrphanToolEnds, Undisturbed
<1>6. CASE UNCHANGED ingestVars
  BY <1>1, <1>6 DEF ingestVars
<1> HIDE DEF Goal
<1>7. ASSUME NEW j \in Jobs, JobRuns(j) PROVE Goal
  <2>1. "failed" \in Ended
    BY DEF Ended
  <2> QED BY <1>1, <1>2, <1>3, <1>4, <1>7, <2>1 DEF JobRuns
<1>8. ASSUME IngestNext PROVE Goal
  <2>1. PICK j \in Jobs :
          \/ JobRuns(j) \/ Raises(j) \/ Signal(j) \/ Dies(j)
          \/ \E code \in Ended : ToolEnds(j, code)
          \/ \E out \in Outputs : OrphanToolEnds(j, out)
    BY <1>8 DEF IngestNext
  <2>2. CASE Raises(j) \/ Signal(j) \/ Dies(j)
    BY <1>2, <2>2
  <2>3. CASE \E code \in Ended : ToolEnds(j, code)
    BY <1>1, <1>4, <2>3
  <2>4. CASE \E out \in Outputs : OrphanToolEnds(j, out)
    BY <1>1, <1>5, <2>4
  <2>5. CASE JobRuns(j)
    BY <1>7, <2>5
  <2> QED BY <2>1, <2>2, <2>3, <2>4, <2>5
<1> QED BY <1>6, <1>8 DEF Goal

\* A step that leaves the transcript alone, and of which the job goes on or ends.
LEMMA SilentSeq ==
  ASSUME SeqInv, apart' => apart /\ Single', UNCHANGED <<subject, segs, vecs>>,
         \A k \in Jobs : /\ UnderWay(k)' /\ Past(k, 3)' => UnderWay(k) /\ Past(k, 3)
                         /\ job[k].pc # "new" => job'[k].pc # "new"
                         /\ job'[k].embedded => job[k].embedded
  PROVE  SeqInv'
<1>1. \A j \in Jobs : SourceOf(j)' = SourceOf(j) /\ Given(j)' = Given(j)
  BY GivenStays
<1>2. Positions' = Positions
  BY DEF Positions
<1>3. Sized'
  BY <1>1, <1>2 DEF SeqInv, Sized
<1>4. ASSUME apart', NEW j \in Jobs PROVE Spoken(j)'
  BY <1>1, <1>4 DEF SeqInv, Spoken
<1>5. ASSUME apart', NEW k \in Positions PROVE Pending(k)'
  BY <1>1, <1>5 DEF SeqInv, Pending
<1> QED BY <1>2, <1>3, <1>4, <1>5 DEF SeqInv

\* The same of a job that is under way.
LEMMA OwnSeq ==
  ASSUME SeqInv, NEW j \in Jobs, UnderWay(j), apart' => apart, UNCHANGED <<subject, segs, vecs>>,
         \A k \in Jobs \ {j} : /\ job'[k].pc = job[k].pc /\ job'[k].saved = job[k].saved
                               /\ job'[k].embedded = job[k].embedded,
         job'[j].pc # "new", job'[j].embedded => job[j].embedded, Past(j, 3)' => Past(j, 3)
  PROVE  SeqInv'
<1>1. \A k \in Jobs \ {j} : /\ UnderWay(k)' <=> UnderWay(k)
                            /\ Past(k, 3)' <=> Past(k, 3)
  BY DEF UnderWay, Past
<1>2. apart' => Single'
  BY <1>1 DEF SeqInv, Single
<1> QED BY <1>1, <1>2, SilentSeq

LEMMA GoesSeq ==
  ASSUME IngestInv, SeqInv, NEW j \in Jobs, UnderWay(j), NEW pc, Goes(j, pc), pc # "new",
         pc = "save" => job[j].saved # 2, apart' => apart, UNCHANGED <<subject, segs, vecs>>
  PROVE  SeqInv'
<1>1. job'[j] = [job[j] EXCEPT !.pc = pc] /\ \A k \in Jobs \ {j} : job'[k] = job[k]
  BY JobIs DEF Goes
<1>2. job'[j].pc = pc /\ job'[j].saved = job[j].saved /\ job'[j].embedded = job[j].embedded
  BY <1>1, JobIs DEF States
<1>3. Past(j, 3)' => Past(j, 3)
  BY <1>2 DEF Past
<1> QED BY <1>1, <1>2, <1>3, OwnSeq

LEMMA SameSeq ==
  ASSUME SeqInv, apart' => apart, UNCHANGED <<subject, job, segs, vecs>>
  PROVE  SeqInv'
<1>1. \A k \in Jobs : (UnderWay(k)' <=> UnderWay(k)) /\ (Past(k, 3)' <=> Past(k, 3))
  BY DEF UnderWay, Past
<1>2. apart' => Single'
  BY <1>1 DEF SeqInv, Single
<1> QED BY <1>1, <1>2, SilentSeq

LEMMA StartSeq ==
  ASSUME IngestInv, SeqInv, NEW j \in Jobs, Start(j)
  PROVE  SeqInv'
<1>1. /\ job' = [job EXCEPT ![j] = Resumed(j)] /\ job[j].pc \in {"new", "idle"}
      /\ UNCHANGED <<subject, segs, vecs>>
      /\ apart' => apart /\ \A k \in Jobs \ {j} : ~UnderWay(k)
  BY DEF Start, rows, UnderWay
<1>2. job[j].saved \in 0..4 /\ (content = "document" => job[j].saved <= 2)
  BY JobIs DEF JobInv, Placed
<1>3. Begins[job[j].saved + 1] # "new"
  BY <1>2, Beginnings, ContentKinds
<1>4. /\ job'[j].pc = Begins[job[j].saved + 1] /\ job'[j].saved = job[j].saved
      /\ job'[j].embedded = job[j].embedded /\ \A k \in Jobs \ {j} : job'[k] = job[k]
  BY <1>1, JobIs DEF Resumed, States
<1>5. \A k \in Jobs \ {j} : (UnderWay(k)' <=> UnderWay(k)) /\ (Past(k, 3)' <=> Past(k, 3))
  BY <1>4 DEF UnderWay, Past
<1>6. apart' => Single'
  BY <1>1, <1>5 DEF Single
<1>7. Begins[job[j].saved + 1] # "save"
  BY <1>2, Beginnings, ContentKinds
<1>8. Past(j, 3)' => UnderWay(j) /\ Past(j, 3)
  <2>1. Past(j, 3)' => job[j].saved >= 3
    BY <1>4, <1>7 DEF Past
  <2>2. job[j].pc = "new" => job[j].saved = 0
    BY JobIs DEF JobInv, Placed
  <2> QED BY <1>1, <1>2, <2>1, <2>2 DEF UnderWay, Past
<1> QED BY <1>1, <1>3, <1>4, <1>5, <1>6, <1>8, SilentSeq

LEMMA SaveSeq ==
  ASSUME IngestInv, SeqInv, NEW j \in Jobs, Save(j)
  PROVE  SeqInv'
<1>1. /\ job[j].pc = "save" /\ UnderWay(j) /\ UNCHANGED <<subject, segs, vecs, apart>>
      /\ job' = [job EXCEPT ![j] = [job[j] EXCEPT !.saved = job[j].saved + 1,
                                                  !.pc = Begins[job[j].saved + 2]]]
  BY JobIs DEF Save, Undisturbed, UnderWay, rows, history, States
<1>2. /\ job[j].saved \in 0..3 /\ (content = "document" => job[j].saved \in 0..1)
  BY <1>1, JobIs, ContentKinds DEF JobInv, Placed
<1>3. Begins[job[j].saved + 2] \notin {"new", "save"}
  BY <1>2, ContentKinds DEF Begins
<1>4. /\ job'[j].pc = Begins[job[j].saved + 2] /\ job'[j].saved = job[j].saved + 1
      /\ job'[j].embedded = job[j].embedded /\ \A k \in Jobs \ {j} : job'[k] = job[k]
  BY <1>1, JobIs DEF States
<1>5. Past(j, 3)' => Past(j, 3)
  BY <1>1, <1>2, <1>3, <1>4 DEF Past
<1> QED BY <1>1, <1>3, <1>4, <1>5, OwnSeq

LEMMA RowsSeq ==
  ASSUME IngestInv, SeqInv, NEW j \in Jobs, ReadDocument(j) \/ UpsertAsset(j) \/ EmbedSkipped(j)
  PROVE  SeqInv'
<1>1. /\ UnderWay(j) /\ UNCHANGED <<subject, segs, vecs, apart>>
      /\ \A k \in Jobs \ {j} : job'[k] = job[k]
  BY JobIs DEF ReadDocument, UpsertAsset, EmbedSkipped, Embeds, Undisturbed, UnderWay, rows,
     history
<1>2. CASE ReadDocument(j)
  <2>1. /\ job'[j].pc = "upsert" /\ job'[j].saved = job[j].saved
        /\ job'[j].embedded = job[j].embedded
    BY <1>2, JobIs DEF ReadDocument, States
  <2> QED BY <1>1, <2>1, OwnSeq DEF Past
<1>3. CASE UpsertAsset(j)
  <2>1. /\ job'[j].pc = AfterUpsert /\ job'[j].saved = job[j].saved
        /\ job'[j].embedded = job[j].embedded /\ job[j].pc = "upsert"
    BY <1>3, JobIs DEF UpsertAsset, States
  <2>2. AfterUpsert # "new" /\ job[j].saved = 1
    BY <2>1, JobIs DEF AfterUpsert, JobInv, Placed, Normalizing
  <2>3. Past(j, 3)' => Past(j, 3)
    BY <2>1, <2>2 DEF Past
  <2> QED BY <1>1, <2>1, <2>2, <2>3, OwnSeq
<1>4. CASE EmbedSkipped(j)
  <2>1. /\ job'[j].pc = "save" /\ job'[j].saved = job[j].saved
        /\ ~job'[j].embedded /\ job[j].pc = "embed"
    BY <1>4, JobIs DEF EmbedSkipped, Embeds, States
  <2>2. Past(j, 3)
    BY <2>1, JobIs DEF JobInv, Placed, Past
  <2> QED BY <1>1, <2>1, <2>2, OwnSeq
<1> QED BY <1>2, <1>3, <1>4
\* The text of the job under way, over the rows of its segments.
LEMMA SegmentsSeq ==
  ASSUME IngestInv, SeqInv, NEW j \in Jobs, PersistSegments(j)
  PROVE  SeqInv'
<1>1. /\ job[j].pc = "transcribe" /\ UnderWay(j) /\ UNCHANGED <<subject, vecs, apart>>
      /\ segs' = Over(j, segs) /\ \A k \in Jobs \ {j} : job'[k] = job[k]
      /\ job'[j] = [job[j] EXCEPT !.pc = "save"]
  BY JobIs DEF PersistSegments, Undisturbed, UnderWay, history, Goes
<1>2. /\ job'[j].pc = "save" /\ job'[j].saved = job[j].saved
      /\ job'[j].embedded = job[j].embedded
  BY <1>1, JobIs DEF States
<1>3. ~job'[j].embedded /\ job'[j].pc # "new"
  BY <1>1, <1>2, JobIs, NotEmbedded DEF JobInv, Placed
<1>4. Positions' = Positions /\ \A k : SourceOf(k)' = SourceOf(k) /\ Given(k)' = Given(k)
  BY <1>1, GivenStays DEF Positions
<1>5. ASSUME NEW k \in Positions
      PROVE  /\ k <= Given(j) => segs'[k] = SourceOf(j)
             /\ ~(k <= Given(j)) => segs'[k] = segs[k]
  BY <1>1 DEF Over
<1>6. Sized'
  <2> SUFFICES ASSUME NEW k \in Positions, NEW i \in Jobs, segs'[k] = SourceOf(i)
               PROVE  k <= Given(i)
    BY <1>4 DEF Sized
  <2>1. CASE k <= Given(j)
    BY <1>5, <2>1 DEF Given
  <2>2. CASE ~(k <= Given(j))
    BY <1>5, <2>2 DEF SeqInv, Sized
  <2> QED BY <2>1, <2>2
<1>7. ASSUME apart' PROVE \A k \in Jobs \ {j} : ~UnderWay(k) /\ ~UnderWay(k)'
  BY <1>1, <1>7 DEF SeqInv, Single, UnderWay
<1>8. ASSUME apart' PROVE Single'
  BY <1>7, <1>8 DEF Single
<1>9. ASSUME apart', NEW i \in Jobs PROVE Spoken(i)'
  <2>1. CASE i = j
    <3>1. \A k \in 1..Given(j) : k \in Positions /\ k <= Given(j)
      BY GivenPositions
    <3> QED BY <1>4, <1>5, <2>1, <3>1 DEF Spoken
  <2>2. CASE i # j
    BY <1>7, <1>9, <2>2 DEF Spoken
  <2> QED BY <2>1, <2>2
<1>10. ASSUME apart', NEW k \in Positions PROVE Pending(k)'
  <2> SUFFICES ASSUME vecs'[k] # segs'[k]
               PROVE  \E i \in Jobs : /\ SourceOf(i) = segs'[k]
                                      /\ job'[i].pc # "new" /\ ~job'[i].embedded
    BY <1>4 DEF Pending
  <2>1. CASE k <= Given(j)
    BY <1>3, <1>5, <2>1
  <2>2. CASE ~(k <= Given(j))
    <3>1. PICK i \in Jobs : SourceOf(i) = segs[k] /\ job[i].pc # "new" /\ ~job[i].embedded
      BY <1>1, <1>5, <1>10, <2>2 DEF SeqInv, Pending
    <3> QED BY <1>1, <1>3, <1>5, <2>2, <3>1
  <2> QED BY <2>1, <2>2
<1> QED BY <1>4, <1>6, <1>8, <1>9, <1>10 DEF SeqInv

\* The vectors of the text it has stored, and of no other.
LEMMA VectorsSeq ==
  ASSUME IngestInv, SeqInv, NEW j \in Jobs, PersistVectors(j)
  PROVE  SeqInv'
<1>1. /\ job[j].pc = "embed" /\ UnderWay(j) /\ UNCHANGED <<subject, segs, apart>>
      /\ vecs' = [k \in Positions |-> IF segs[k] = None THEN vecs[k] ELSE Over(j, vecs)[k]]
      /\ \A k \in Jobs \ {j} : job'[k] = job[k]
      /\ job'[j] = [job[j] EXCEPT !.pc = "save", !.embedded = TRUE]
  BY JobIs DEF PersistVectors, Embeds, Undisturbed, UnderWay, history
<1>2. job'[j].pc = "save" /\ job'[j].saved = job[j].saved
  BY <1>1, JobIs DEF States
<1>3. Past(j, 3)
  BY <1>1, JobIs DEF JobInv, Placed, Past
<1>4. Positions' = Positions /\ \A k : SourceOf(k)' = SourceOf(k) /\ Given(k)' = Given(k)
  BY <1>1, GivenStays DEF Positions
<1>5. Sized'
  BY <1>1, <1>4 DEF SeqInv, Sized
<1>6. \A k \in Jobs \ {j} : (UnderWay(k)' <=> UnderWay(k)) /\ (Past(k, 3)' <=> Past(k, 3))
  BY <1>1 DEF UnderWay, Past
<1>7. ASSUME apart' PROVE Single'
  BY <1>1, <1>6, <1>7 DEF SeqInv, Single
<1>8. ASSUME apart', NEW i \in Jobs PROVE Spoken(i)'
  <2>1. UnderWay(i)' /\ Past(i, 3)' => UnderWay(i) /\ Past(i, 3)
    BY <1>1, <1>3, <1>6
  <2> QED BY <1>1, <1>4, <1>8, <2>1 DEF SeqInv, Spoken
<1>9. ASSUME apart', NEW k \in Positions PROVE Pending(k)'
  <2> SUFFICES ASSUME vecs'[k] # segs[k]
               PROVE  \E i \in Jobs : /\ SourceOf(i) = segs[k]
                                      /\ job'[i].pc # "new" /\ ~job'[i].embedded
    BY <1>1, <1>4 DEF Pending
  <2>1. ~(k <= Given(j))
    <3> SUFFICES ASSUME k <= Given(j) PROVE FALSE
      OBVIOUS
    <3>1. k \in 1..Given(j)
      <4>1. Segments["asr"] \in Nat /\ Segments["captions"] \in Nat
        BY IngestAssumption DEF Sources
      <4>2. k \in Nat /\ k >= 1
        BY <4>1 DEF Positions
      <4> QED BY <4>2, GivenPositions
    <3>2. segs[k] = SourceOf(j) /\ SourceOf(j) # None
      BY <1>1, <1>3, <1>9, <3>1 DEF SeqInv, Spoken, SourceOf, None
    <3> QED BY <1>1, <3>2 DEF Over
  <2>2. vecs'[k] = vecs[k]
    BY <1>1, <2>1 DEF Over
  <2>3. PICK i \in Jobs : SourceOf(i) = segs[k] /\ job[i].pc # "new" /\ ~job[i].embedded
    BY <1>1, <1>9, <2>2 DEF SeqInv, Pending
  <2>4. i # j
    BY <2>1, <2>3 DEF SeqInv, Sized
  <2> QED BY <1>1, <2>3, <2>4
<1> QED BY <1>4, <1>5, <1>7, <1>8, <1>9 DEF SeqInv

LEMMA StartCopySeq ==
  ASSUME IngestInv, SeqInv, NEW j \in Jobs, StartCopy(j)
  PROVE  SeqInv'
<1>1. PICK hit \in SUBSET Readers :
        job' = [k \in Jobs |-> CASE k = j -> [job[k] EXCEPT !.pc = "copying"]
                                 [] k \in hit -> [job[k] EXCEPT !.input = "partial"]
                                 [] OTHER -> job[k]]
  BY DEF StartCopy
<1>2. job[j].pc = "put" /\ UnderWay(j) /\ UNCHANGED <<subject, segs, vecs, apart>>
  BY DEF StartCopy, Undisturbed, UnderWay, rows, history
<1>3. \A k \in Jobs \ {j} : /\ job'[k].pc = job[k].pc /\ job'[k].saved = job[k].saved
                            /\ job'[k].embedded = job[k].embedded
  BY <1>1, JobIs DEF States
<1>4. /\ job'[j].pc = "copying" /\ job'[j].saved = job[j].saved
      /\ job'[j].embedded = job[j].embedded
  <2>1. j \notin hit
    BY <1>2, JobIs, IngestAssumption DEF Readers, Waits, Media
  <2>2. job'[j] = [job[j] EXCEPT !.pc = "copying"]
    BY <1>1, <2>1
  <2> QED BY <2>2, JobIs DEF States
<1>5. Past(j, 3)' => Past(j, 3)
  BY <1>4 DEF Past
<1> QED BY <1>2, <1>3, <1>4, <1>5, OwnSeq

LEMMA SeqInitEstablishes == IngestInit => SeqInv
<1> SUFFICES ASSUME IngestInit PROVE SeqInv
  OBVIOUS
<1>1. \A j \in Jobs : job[j].pc = "new" /\ ~UnderWay(j) /\ SourceOf(j) # None
  BY DEF IngestInit, UnderWay, SourceOf, None
<1>2. \A k \in Positions : segs[k] = None /\ vecs[k] = segs[k]
  BY DEF IngestInit
<1> QED BY <1>1, <1>2 DEF SeqInv, Sized, Single, Spoken, Pending
LEMMA GoingSeq ==
  ASSUME IngestInv, SeqInv, NEW j \in Jobs,
         \/ Download(j) \/ HashDownload(j) \/ Place(j) \/ EndCopy(j) \/ Move(j) \/ Check(j)
         \/ ReplaceItems(j)
  PROVE  SeqInv'
<1>1. /\ job[j].pc \in {"fetch", "hash", "place", "put", "copying", "items"} \cup DOMAIN Checked
      /\ UNCHANGED <<subject, segs, vecs, apart>>
  BY DEF Download, HashDownload, Place, EndCopy, Move, Check, ReplaceItems, Undisturbed,
     rows, history
<1>2. /\ job[j].pc \in {"fetch", "hash", "place", "put", "copying", "items",
                        "checkMezzanine", "checkAudio"}
      /\ UnderWay(j) /\ job[j].saved # 2
  BY <1>1, JobIs DEF Checked, UnderWay, JobInv, Placed, Fetching, Making, Normalizing
<1>3. PICK pc : Goes(j, pc) /\ pc # "new"
  BY <1>2 DEF Download, HashDownload, Place, EndCopy, Move, Check, ReplaceItems, Checked,
     AfterCall
<1> QED BY <1>1, <1>2, <1>3, GoesSeq

LEMMA CallSeq ==
  ASSUME IngestInv, SeqInv, NEW j \in Jobs,
         \/ RunTool(j) \/ ToolDone(j) \/ ToolFailed(j) \/ TimeOut(j) \/ Escalate(j) \/ Released(j)
  PROVE  SeqInv'
<1>1. UNCHANGED <<subject, segs, vecs, apart>>
  BY DEF RunTool, ToolDone, ToolFailed, TimeOut, Escalate, Released, Undisturbed, rows, history
<1>2. CASE RunTool(j)
  <2>1. \A k \in Jobs : /\ job'[k].pc = job[k].pc /\ job'[k].saved = job[k].saved
                        /\ job'[k].embedded = job[k].embedded
    BY <1>2, JobIs DEF RunTool, States
  <2>2. UnderWay(j)
    BY <1>2, IngestAssumption DEF RunTool, UnderWay, Media
  <2> QED BY <1>1, <2>1, <2>2, OwnSeq DEF Past, UnderWay
<1>3. CASE TimeOut(j) \/ Escalate(j)
  BY <1>1, <1>3, SameSeq DEF TimeOut, Escalate
<1>4. CASE ToolDone(j) \/ ToolFailed(j) \/ Released(j)
  <2>1. job[j].pc \in {"probe", "mezzanine", "audio"}
    BY <1>4, JobIs, IngestAssumption
       DEF ToolDone, ToolFailed, Released, Answer, GaveUp, Waits, Media
  <2>2. PICK pc : Goes(j, pc) /\ pc \notin {"new", "save"}
    BY <1>4, <2>1 DEF ToolDone, ToolFailed, Released, AfterCall
  <2> QED BY <1>1, <2>1, <2>2, GoesSeq DEF UnderWay
<1> QED BY <1>2, <1>3, <1>4

LEMMA StopSeq ==
  ASSUME IngestInv, SeqInv, NEW j \in Jobs, Raises(j) \/ Signal(j) \/ Dies(j)
  PROVE  SeqInv'
<1>1. UNCHANGED <<subject, segs, vecs, apart>>
  BY DEF Raises, Signal, Dies, rows
<1>2. CASE UNCHANGED job
  BY <1>1, <1>2, SameSeq
<1>3. CASE job' # job
  <2>1. PICK pc \in {"idle", "error"} : Goes(j, pc)
    BY <1>3 DEF Raises, Signal, Dies
  <2>2. UnderWay(j)
    BY <1>3, JobIs, IngestAssumption
       DEF Raises, Signal, Dies, Busy, Points, Interrupted, Waits, Media, UnderWay
  <2> QED BY <1>1, <2>1, <2>2, GoesSeq
<1> QED BY <1>2, <1>3

LEMMA SeqNextKeeps == IngestInv /\ SeqInv /\ [IngestNext]_ingestVars => SeqInv'
<1> SUFFICES ASSUME IngestInv, SeqInv, [IngestNext]_ingestVars PROVE SeqInv'
  OBVIOUS
<1>1. ASSUME NEW j \in Jobs, NEW code \in Ended, ToolEnds(j, code) PROVE SeqInv'
  BY <1>1, SameSeq DEF ToolEnds, Undisturbed, rows, history
<1>2. ASSUME NEW j \in Jobs, NEW out \in Outputs, OrphanToolEnds(j, out) PROVE SeqInv'
  BY <1>2, SameSeq DEF OrphanToolEnds, Undisturbed, rows, history
<1>3. ASSUME NEW j \in Jobs, JobRuns(j) PROVE SeqInv'
  <2>1. "failed" \in Ended
    BY DEF Ended
  <2> QED
    BY <1>1, <1>3, <2>1, StartSeq, SaveSeq, StartCopySeq, GoingSeq, CallSeq, RowsSeq,
       SegmentsSeq, VectorsSeq DEF JobRuns
<1>4. ASSUME NEW j \in Jobs, Raises(j) \/ Signal(j) \/ Dies(j) PROVE SeqInv'
  BY <1>4, StopSeq
<1>5. CASE UNCHANGED ingestVars
  BY <1>5, SameSeq DEF ingestVars, rows, history
<1> QED BY <1>1, <1>2, <1>3, <1>4, <1>5 DEF IngestNext

THEOREM SeqInvariant == IngestSpec => []SeqInv
BY IngestInvariant, SeqInitEstablishes, SeqNextKeeps, PTL DEF IngestSpec

\* While the jobs of a content run one after another, whatever stops them, a
\* segment whose vector is missing or is of another text has its text from a job
\* that has not embedded it: a job without an encoder, one that ended as error,
\* or the one under way (_persist_segments, embed, _embed_stage).
THEOREM VectorsInOrder == IngestSpec => []OrderlyVectors
<1>1. SeqInv => OrderlyVectors
  BY DEF SeqInv, Pending, OrderlyVectors
<1> QED BY <1>1, SeqInvariant, PTL
-----------------------------------------------------------------------------
(* Such jobs, no process and no copy of which is cut short.                *)

\* A result is whole unless the content has no stream for it.
Have(m) == m \in streams => file[m] = "whole"
Results == IF content = "media" THEN Have("mezzanine") /\ Have("audio") ELSE items = "whole"

\* A call makes what its job is at, from a raw file that is whole.
Makes(j) == InCall(j) =>
  /\ call[j].out = job[j].pc /\ call[j].why # "cancelled" /\ job[j].input = "whole"
  /\ call[j].out \in Media =>
       file[call[j].out] = IF call[j].child = "ok" THEN "whole" ELSE "partial"

\* What the job under way has made so far is whole.
Sound(j) ==
  /\ Makes(j)
  /\ job[j].pc \in Media /\ ~InCall(j) => file[job[j].pc] = "none"
  /\ content = "media" /\ job[j].pc \in {"checkAudio", "audio", "upsert"} => Have("mezzanine")
  /\ content = "media" /\ job[j].pc = "upsert" => Have("audio")
  /\ content = "document" /\ job[j].pc \in {"upsert", "items"} => job[j].input = "whole"
  /\ Past(j, 2) => Results

\* A file is partial only while a job is at it.
Attended ==
  /\ file["raw"] = "partial" => \E j \in Jobs : job[j].pc = "copying"
  /\ \A m \in Media : file[m] = "partial" => \E j \in Jobs : InCall(j) /\ call[j].out = m

Undamaged == apart /\ ~cut

WholeInv == Undamaged => Attended /\ orphans = {} /\ \A j \in Jobs : Sound(j)

-----------------------------------------------------------------------------
(* The one job under way.                                                  *)

Others(j) == \A k \in Jobs \ {j} : ~UnderWay(k)

LEMMA OthersRest ==
  ASSUME SeqInv, Undamaged, NEW j \in Jobs, UnderWay(j)
  PROVE  Others(j)
BY DEF SeqInv, Single, Others, Undamaged

LEMMA CallsUnderWay ==
  ASSUME IngestInv, NEW j \in Jobs, InCall(j)
  PROVE  job[j].pc \in {"probe", "mezzanine", "audio"} /\ UnderWay(j)
BY IngestAssumption DEF IngestInv, Waits, Media, UnderWay

\* What a step must show of the job it is of, the others being at rest.
LEMMA AloneKeeps ==
  ASSUME IngestInv, WholeInv, Undamaged, NEW j \in Jobs, Others(j), UNCHANGED subject,
         \A k \in Jobs \ {j} : /\ job'[k].pc = job[k].pc /\ job'[k].saved = job[k].saved
                               /\ InCall(k)' <=> InCall(k),
         Attended', orphans' = {}, Sound(j)',
         \A k \in Jobs : job[k].saved >= 2 => Results'
  PROVE  WholeInv'
<1>1. ASSUME NEW k \in Jobs \ {j} PROVE Sound(k)'
  <2>1. /\ job'[k].pc \in {"new", "done", "error"} /\ job'[k].pc = job[k].pc
        /\ ~InCall(k)' /\ job'[k].saved = job[k].saved
    BY CallsUnderWay DEF Others, UnderWay
  <2>2. Past(k, 2)' => job[k].saved >= 2
    BY <2>1 DEF Past
  <2>3. Makes(k)'
    BY <2>1 DEF Makes
  <2> QED BY <2>1, <2>2, <2>3 DEF Sound, Media
<1> QED BY <1>1 DEF WholeInv

LEMMA Kept ==
  ASSUME WholeInv, Undamaged, NEW k \in Jobs, job[k].saved >= 2
  PROVE  Results
BY DEF WholeInv, Sound, Past

\* No file is partial but of those the job itself is at.
LEMMA OwnFiles ==
  ASSUME IngestInv, WholeInv, Undamaged, NEW j \in Jobs, Others(j)
  PROVE  /\ job[j].pc # "copying" => file["raw"] # "partial"
         /\ \A m \in Media : file[m] = "partial" => InCall(j) /\ call[j].out = m
<1>1. \A k \in Jobs \ {j} : ~InCall(k) /\ job[k].pc # "copying"
  BY CallsUnderWay DEF Others, UnderWay
<1> QED BY <1>1 DEF WholeInv, Attended

\* A step that makes no call and leaves the files.
LEMMA SilentKeeps ==
  ASSUME IngestInv, WholeInv, Undamaged, NEW j \in Jobs, Others(j), ~InCall(j),
         job[j].pc # "copying",
         \A k \in Jobs \ {j} : job'[k] = job[k],
         UNCHANGED <<subject, file, call, orphans>>, items' \in {items, "whole"}, Sound(j)'
  PROVE  WholeInv'
<1>1. \A k \in Jobs : InCall(k)' <=> InCall(k)
  BY DEF InCall
<1>2. Attended'
  BY OwnFiles DEF Attended
<1>3. orphans' = {}
  BY DEF WholeInv
<1>4. \A k \in Jobs : job[k].saved >= 2 => Results'
  BY Kept DEF Results, Have, subject
<1> QED BY <1>1, <1>2, <1>3, <1>4, AloneKeeps

\* What stays true of it when the job goes where nothing is asked of it.
Plain == {"idle", "fetch", "hash", "place", "put", "copying", "probe", "checkMezzanine",
          "read", "transcribe", "embed", "done", "error"}

LEMMA PlainSound ==
  ASSUME WholeInv, Undamaged, NEW j \in Jobs, ~InCall(j)', UNCHANGED <<subject, file, items>>,
         job'[j].pc \in Plain, Past(j, 2)' => Past(j, 2)
  PROVE  Sound(j)'
<1>1. Makes(j)'
  BY DEF Makes
<1>2. job'[j].pc \notin Media \cup {"checkAudio", "audio", "upsert", "items"}
  BY DEF Plain, Media
<1>3. Past(j, 2)' => Results'
  BY DEF WholeInv, Sound, Results, Have, subject
<1> QED BY <1>1, <1>2, <1>3 DEF Sound

\* A job under way goes where nothing is asked of it.
LEMMA PlainKeeps ==
  ASSUME IngestInv, WholeInv, Undamaged, NEW j \in Jobs, Others(j), ~InCall(j),
         job[j].pc # "copying", NEW r \in States, job' = [job EXCEPT ![j] = r],
         r.pc \in Plain, Past(j, 2)' => Past(j, 2),
         UNCHANGED <<subject, file, items, call, orphans>>
  PROVE  WholeInv'
<1>1. job'[j].pc \in Plain /\ \A k \in Jobs \ {j} : job'[k] = job[k]
  BY JobIs
<1>2. Sound(j)'
  BY <1>1, PlainSound DEF InCall
<1> QED BY <1>1, <1>2, SilentKeeps
-----------------------------------------------------------------------------
(* Steps of such a job.                                                    *)

LEMMA WholeStart ==
  ASSUME IngestInv, WholeInv, Undamaged, NEW j \in Jobs, Start(j), apart'
  PROVE  WholeInv'
<1>1. /\ Others(j) /\ UNCHANGED <<subject, file, items, call, orphans>>
      /\ job' = [job EXCEPT ![j] = Resumed(j)] /\ job[j].pc \in {"new", "idle"}
  BY DEF Start, Others, UnderWay, rows, callVars
<1>2. job[j].saved \in 0..4 /\ (content = "document" => job[j].saved <= 2)
  BY JobIs DEF JobInv, Placed
<1>3. /\ Begins[job[j].saved + 1] \in Plain /\ Begins[job[j].saved + 1] # "save"
  BY <1>2, Beginnings, ContentKinds DEF Plain
<1>4. /\ Resumed(j) \in States /\ Resumed(j).pc = Begins[job[j].saved + 1]
      /\ Resumed(j).saved = job[j].saved
  <2> DEFINE pc == Begins[job[j].saved + 1]
             id == IF job[j].saved < 2 THEN j ELSE job[j].asset
  <2>1. /\ Resumed(j) = [job[j] EXCEPT !.pc = pc, !.asset = id] /\ pc \in Plain
        /\ id \in Jobs \cup {None}
    BY <1>3, JobIs DEF Resumed, States
  <2> HIDE DEF pc, id
  <2>2. /\ Resumed(j) \in States /\ Resumed(j).pc = pc /\ Resumed(j).saved = job[j].saved
    BY <2>1, JobIs DEF States, Points, Plain
  <2> QED BY <2>2 DEF pc
<1>5. ~InCall(j) /\ job[j].pc # "copying"
  BY <1>1, CallsUnderWay
<1>6. Past(j, 2)' => Past(j, 2)
  BY <1>1, <1>3, <1>4, JobIs DEF Past
<1> QED BY <1>1, <1>3, <1>4, <1>5, <1>6, PlainKeeps

\* fetch, to where the raw file is put.
LEMMA WholeFetch ==
  ASSUME IngestInv, WholeInv, Undamaged, NEW j \in Jobs, Others(j),
         Download(j) \/ HashDownload(j) \/ Place(j)
  PROVE  WholeInv'
<1>1. /\ UNCHANGED <<subject, file, items, call, orphans>>
      /\ job[j].pc \in {"fetch", "hash", "place"}
  BY DEF Download, HashDownload, Place, Undisturbed, rows, callVars
<1>2. PICK pc \in {"hash", "place", "put", "save", "error"} : Goes(j, pc)
  BY DEF Download, HashDownload, Place
<1> DEFINE r == [job[j] EXCEPT !.pc = pc]
<1>3. job' = [job EXCEPT ![j] = r] /\ r \in States /\ r.pc = pc /\ r.saved = job[j].saved
  BY <1>2, JobIs DEF Goes, States, Points
<1> HIDE DEF r
<1>4. job[j].saved = 0 /\ ~InCall(j)
  BY <1>1, JobIs, CallsUnderWay DEF JobInv, Placed, Fetching
<1>5. /\ job'[j].pc = pc /\ job'[j].saved = 0 /\ ~Past(j, 2)'
      /\ \A k \in Jobs \ {j} : job'[k] = job[k]
  BY <1>3, <1>4, JobIs DEF Past
<1>6. Sound(j)'
  <2>1. Makes(j)' /\ pc \notin Media \cup {"checkAudio", "upsert", "items"}
    BY <1>1, <1>4 DEF Makes, InCall, Media
  <2> QED BY <1>5, <2>1 DEF Sound, Media
<1> QED BY <1>1, <1>4, <1>5, <1>6, SilentKeeps

\* The raw file is put: what is at "raw" is the job's own.
LEMMA WholeRaw ==
  ASSUME IngestInv, WholeInv, Undamaged, NEW j \in Jobs, Others(j),
         job[j].pc \in {"put", "copying"}, NEW pc \in {"copying", "save", "error"},
         NEW r \in States, job' = [job EXCEPT ![j] = r], r.pc = pc, r.saved = job[j].saved,
         UNCHANGED <<subject, rows, callVars>>, \A m \in Media : file'[m] = file[m],
         file'["raw"] = "partial" => pc = "copying"
  PROVE  WholeInv'
<1>1. job[j].saved = 0 /\ ~InCall(j) /\ ~InCall(j)'
  BY JobIs, CallsUnderWay, CallsSame DEF JobInv, Placed, Fetching
<1>2. /\ job'[j].pc = pc /\ job'[j].saved = 0 /\ ~Past(j, 2)'
      /\ \A k \in Jobs \ {j} : job'[k] = job[k]
  BY <1>1, JobIs DEF Past
<1>3. Attended'
  BY <1>1, <1>2, OwnFiles DEF Attended
<1>4. Sound(j)'
  <2>1. Makes(j)'
    BY <1>1 DEF Makes
  <2> QED BY <1>2, <2>1 DEF Sound, Media
<1>5. orphans' = {}
  BY DEF WholeInv, callVars
<1>6. \A k \in Jobs : InCall(k)' <=> InCall(k)
  BY CallsSame
<1>7. \A k \in Jobs : job[k].saved >= 2 => Results'
  BY Kept DEF Results, Have, rows, subject, Media
<1> QED BY <1>2, <1>3, <1>4, <1>5, <1>6, <1>7, AloneKeeps

LEMMA WholePut ==
  ASSUME IngestInv, WholeInv, Undamaged, NEW j \in Jobs, Others(j),
         StartCopy(j) \/ EndCopy(j) \/ Move(j)
  PROVE  WholeInv'
<1>1. /\ UNCHANGED <<subject, rows, callVars>> /\ job[j].pc \in {"put", "copying"}
  BY DEF StartCopy, EndCopy, Move, Undisturbed
<1>2. CASE StartCopy(j)
  <2> DEFINE r == [job[j] EXCEPT !.pc = "copying"]
  <2>1. Readers = {}
    BY <1>1, CallsUnderWay DEF Readers, Others
  <2>2. job' = [job EXCEPT ![j] = r]
    BY <1>2, <2>1, JobIs DEF StartCopy
  <2>3. r \in States /\ r.pc = "copying" /\ r.saved = job[j].saved
    BY JobIs DEF States, Points
  <2>4. \A m \in Media : file'[m] = file[m]
    BY <1>2, JobIs DEF StartCopy, Typed, Media, Files
  <2> HIDE DEF r
  <2> QED BY <1>1, <2>2, <2>3, <2>4, WholeRaw
<1>3. CASE EndCopy(j) \/ Move(j)
  <2>1. PICK pc \in {"save", "error"} : Goes(j, pc)
    BY <1>3 DEF EndCopy, Move
  <2> DEFINE r == [job[j] EXCEPT !.pc = pc]
  <2>2. job' = [job EXCEPT ![j] = r] /\ r \in States /\ r.pc = pc /\ r.saved = job[j].saved
    BY <2>1, JobIs DEF Goes, States, Points
  <2>3. \A m \in Media : file'[m] = file[m]
    BY <1>3, JobIs DEF EndCopy, Move, Typed, Media, Files
  <2>4. file'["raw"] # "partial"
    <3>1. CASE EndCopy(j)
      <4>1. \A k \in Jobs \ {j} : job[k].pc # "copying"
        BY DEF Others, UnderWay
      <4>2. file' = [file EXCEPT !["raw"] = "whole"]
        BY <3>1, <4>1 DEF EndCopy
      <4> QED BY <4>2, JobIs DEF Typed, Files
    <3>2. CASE Move(j)
      <4>1. file["raw"] # "partial"
        BY <3>2, OwnFiles DEF Move
      <4> QED BY <3>2, <4>1, JobIs DEF Move, Typed, Files
    <3> QED BY <1>3, <3>1, <3>2
  <2> HIDE DEF r
  <2> QED BY <1>1, <2>2, <2>3, <2>4, WholeRaw
<1> QED BY <1>2, <1>3

\* A stage is saved.
LEMMA WholeSave ==
  ASSUME IngestInv, WholeInv, Undamaged, NEW j \in Jobs, Others(j), Save(j)
  PROVE  WholeInv'
<1> DEFINE pc == Begins[job[j].saved + 2]
           r == [job[j] EXCEPT !.saved = job[j].saved + 1, !.pc = pc]
<1>1. /\ job' = [job EXCEPT ![j] = r] /\ job[j].pc = "save"
      /\ UNCHANGED <<subject, file, items, call, orphans>>
  BY JobIs DEF Save, Undisturbed, States, rows, callVars
<1>2. job[j].saved \in 0..3 /\ (content = "document" => job[j].saved \in 0..1)
  BY <1>1, JobIs, ContentKinds DEF JobInv, Placed
<1>3. pc \in {"probe", "read", "transcribe", "embed", "done"}
  BY <1>2, ContentKinds DEF Begins
<1> HIDE DEF pc
<1>4. r \in States /\ r.pc = pc /\ r.saved = job[j].saved + 1
  <2>1. job[j].saved + 1 \in 0..4
    BY <1>2
  <2>2. pc \in Points \cup {"new", "idle", "done", "error"}
    BY <1>3 DEF Points
  <2> QED BY <2>1, <2>2, JobIs DEF States
<1> HIDE DEF r
<1>5. Past(j, 2)' => Past(j, 2)
  BY <1>1, <1>2, <1>3, <1>4, JobIs DEF Past
<1>6. r.pc \in Plain /\ ~InCall(j)
  BY <1>1, <1>3, <1>4, CallsUnderWay DEF Plain
<1> QED BY <1>1, <1>4, <1>5, <1>6, PlainKeeps

\* exists(), and the streams ffprobe has shown.
LEMMA WholeCheck ==
  ASSUME IngestInv, WholeInv, Undamaged, NEW j \in Jobs, Others(j), Check(j)
  PROVE  WholeInv'
<1> DEFINE out == Checked[job[j].pc]
           pc == IF out \in streams /\ file[out] = "none" THEN out ELSE AfterCall[out]
           r == [job[j] EXCEPT !.pc = pc]
<1>1. /\ UNCHANGED <<subject, file, items, call, orphans>>
      /\ job[j].pc \in {"checkMezzanine", "checkAudio"} /\ job' = [job EXCEPT ![j] = r]
  BY DEF Check, Undisturbed, Checked, Goes, rows, callVars
<1>2. /\ out \in Media
      /\ out = "mezzanine" => pc \in {"mezzanine", "checkAudio"} /\ job[j].pc = "checkMezzanine"
      /\ out = "audio" => pc \in {"audio", "upsert"} /\ job[j].pc = "checkAudio"
      /\ pc \in Media => pc = out /\ file[out] = "none"
      /\ pc \notin Media => ~(out \in streams /\ file[out] = "none")
  BY <1>1 DEF Checked, AfterCall, Media
<1>3. r \in States /\ job'[j].pc = pc /\ job'[j].saved = job[j].saved
  BY <1>1, <1>2, JobIs DEF States, Points, Media
<1>4. job[j].saved = 1 /\ content = "media" /\ ~InCall(j)
  BY <1>1, JobIs, CallsUnderWay DEF JobInv, Placed, Making, Normalizing
<1>5. pc \notin Media => Have(out)
  <2>1. file[out] \in FileState
    BY <1>2, JobIs DEF Typed, Files
  <2>2. file[out] # "partial"
    BY <1>2, <1>4, OwnFiles
  <2> QED BY <1>2, <2>1, <2>2 DEF FileState, Have
<1> HIDE DEF pc, out, r
<1>6. ~Past(j, 2)' /\ Makes(j)' /\ \A k \in Jobs \ {j} : job'[k] = job[k]
  BY <1>1, <1>2, <1>3, <1>4, JobIs DEF Past, Makes, InCall, Media
<1>7. job[j].pc = "checkAudio" => Have("mezzanine")
  BY <1>4 DEF WholeInv, Sound
<1>8. UNCHANGED <<content, file, streams>>
  BY <1>1 DEF subject
<1>9. Sound(j)'
  <2>1. Have("mezzanine")' = Have("mezzanine") /\ Have("audio")' = Have("audio")
    BY <1>8 DEF Have
  <2>2. CASE out = "mezzanine"
    BY <1>2, <1>3, <1>4, <1>5, <1>6, <1>8, <2>1, <2>2 DEF Sound, Media
  <2>3. CASE out = "audio"
    BY <1>2, <1>3, <1>4, <1>5, <1>6, <1>7, <1>8, <2>1, <2>3 DEF Sound, Media
  <2> QED BY <1>2, <2>2, <2>3 DEF Media
<1>10. job[j].pc # "copying"
  BY <1>1
<1> QED BY <1>1, <1>4, <1>6, <1>9, <1>10, SilentKeeps
\* The rows.
LEMMA WholeRead ==
  ASSUME IngestInv, WholeInv, Undamaged, NEW j \in Jobs, Others(j), ReadDocument(j)
  PROVE  WholeInv'
<1> DEFINE r == [job[j] EXCEPT !.input = file["raw"], !.pc = "upsert"]
<1>1. /\ job' = [job EXCEPT ![j] = r] /\ job[j].pc = "read"
      /\ UNCHANGED <<subject, file, items, call, orphans>>
  BY DEF ReadDocument, Undisturbed, rows, callVars
<1>2. /\ r \in States /\ job'[j].pc = "upsert" /\ job'[j].saved = job[j].saved
      /\ job'[j].input = file["raw"]
  BY <1>1, JobIs DEF Typed, States, Files, Points
<1> HIDE DEF r
<1>3. job[j].saved = 1 /\ content = "document" /\ ~InCall(j)
  BY <1>1, JobIs, CallsUnderWay DEF JobInv, Placed, Normalizing
<1>4. file["raw"] = "whole"
  <2>1. file["raw"] \in FileState /\ file["raw"] # "none"
    BY <1>3, JobIs DEF Typed, Files, JobInv, Fetched, Past
  <2>2. file["raw"] # "partial"
    BY <1>1, OwnFiles
  <2> QED BY <2>1, <2>2 DEF FileState
<1>5. ~Past(j, 2)' /\ Makes(j)' /\ \A k \in Jobs \ {j} : job'[k] = job[k]
  BY <1>1, <1>2, <1>3, JobIs DEF Past, Makes, InCall
<1>6. Sound(j)'
  <2>1. UNCHANGED content
    BY <1>1 DEF subject
  <2> QED BY <1>2, <1>3, <1>4, <1>5, <2>1 DEF Sound, Media
<1> QED BY <1>1, <1>3, <1>5, <1>6, SilentKeeps

LEMMA WholeUpsert ==
  ASSUME IngestInv, WholeInv, Undamaged, NEW j \in Jobs, Others(j), UpsertAsset(j)
  PROVE  WholeInv'
<1> DEFINE r == [job[j] EXCEPT !.asset = asset', !.pc = AfterUpsert]
<1>1. /\ job' = [job EXCEPT ![j] = r] /\ job[j].pc = "upsert"
      /\ UNCHANGED <<subject, file, items, call, orphans>>
      /\ asset' \in Jobs \cup {None}
  BY JobIs DEF UpsertAsset, Undisturbed, Typed, States, callVars
<1>2. AfterUpsert = IF content = "document" THEN "items" ELSE "save"
  BY DEF AfterUpsert
<1>3. /\ job'[j].pc = AfterUpsert /\ job'[j].saved = job[j].saved
      /\ job'[j].input = job[j].input /\ \A k \in Jobs \ {j} : job'[k] = job[k]
  BY <1>1, <1>2, JobIs DEF States, Points
<1> HIDE DEF r
<1>4. job[j].saved = 1 /\ ~InCall(j)
  BY <1>1, JobIs, CallsUnderWay DEF JobInv, Placed, Making, Normalizing
<1>5. Makes(j)' /\ Sound(j)
  BY <1>1, <1>4 DEF Makes, InCall, WholeInv
<1>6. UNCHANGED <<content, file, streams, items>>
  BY <1>1 DEF subject
<1>7. Sound(j)'
  <2>1. CASE content = "document"
    <3>1. ~Past(j, 2)' /\ job'[j].pc = "items"
      BY <1>2, <1>3, <1>4, <2>1 DEF Past
    <3> QED BY <1>1, <1>3, <1>5, <1>6, <2>1, <3>1 DEF Sound, Media
  <2>2. CASE content = "media"
    <3>1. job'[j].pc = "save" /\ Results'
      BY <1>1, <1>2, <1>3, <1>5, <1>6, <2>2 DEF Sound, Results, Have
    <3> QED BY <1>5, <3>1 DEF Sound, Media
  <2> QED BY <2>1, <2>2, ContentKinds
<1>8. job[j].pc # "copying"
  BY <1>1
<1> QED BY <1>1, <1>3, <1>4, <1>7, <1>8, SilentKeeps

LEMMA WholeItems ==
  ASSUME IngestInv, WholeInv, Undamaged, NEW j \in Jobs, Others(j), ReplaceItems(j)
  PROVE  WholeInv'
<1>1. job[j].pc = "items" /\ UNCHANGED <<subject, file, call, orphans>>
  BY DEF ReplaceItems, Undisturbed, callVars
<1>2. PICK pc \in {"save", "error"} :
        /\ Goes(j, pc)
        /\ pc = "save" => items' = job[j].input
        /\ pc = "error" => UNCHANGED items
  BY DEF ReplaceItems
<1>3. /\ job'[j].pc = pc /\ job'[j].saved = job[j].saved
      /\ \A k \in Jobs \ {j} : job'[k] = job[k]
  BY <1>2, JobIs DEF Goes, States
<1>4. job[j].saved = 1 /\ content = "document" /\ ~InCall(j)
  BY <1>1, JobIs, CallsUnderWay DEF JobInv, Placed, Normalizing
<1>5. job[j].input = "whole"
  BY <1>1, <1>4 DEF WholeInv, Sound
<1>6. items' \in {items, "whole"}
  BY <1>2, <1>5
<1>7. Sound(j)'
  <2>1. UNCHANGED content
    BY <1>1 DEF subject
  <2>2. Past(j, 2)' => pc = "save"
    BY <1>3, <1>4 DEF Past
  <2>3. Past(j, 2)' => Results'
    BY <1>2, <1>4, <1>5, <2>1, <2>2 DEF Results
  <2>4. Makes(j)'
    BY <1>1, <1>4 DEF Makes, InCall
  <2> QED BY <1>2, <1>3, <2>3, <2>4 DEF Sound, Media
<1> QED BY <1>1, <1>3, <1>4, <1>6, <1>7, SilentKeeps

\* The transcript and its vectors.
LEMMA WholeSpeech ==
  ASSUME IngestInv, WholeInv, Undamaged, NEW j \in Jobs, Others(j),
         PersistSegments(j) \/ PersistVectors(j) \/ EmbedSkipped(j)
  PROVE  WholeInv'
<1>1. /\ job[j].pc \in {"transcribe", "embed"} /\ \A k \in Jobs \ {j} : job'[k] = job[k]
      /\ UNCHANGED <<subject, file, items, call, orphans>>
  BY JobIs DEF PersistSegments, PersistVectors, EmbedSkipped, Embeds, Goes, Undisturbed, rows,
     callVars
<1>2. job'[j].pc = "save"
  BY JobIs DEF PersistSegments, PersistVectors, EmbedSkipped, Embeds, Goes, States
<1>3. job[j].saved >= 2 /\ ~InCall(j)
  BY <1>1, JobIs, CallsUnderWay DEF JobInv, Placed
<1>4. Results'
  BY <1>1, <1>3, Kept DEF Results, Have, subject
<1>5. Makes(j)'
  BY <1>1, <1>3 DEF Makes, InCall
<1>6. Sound(j)'
  BY <1>2, <1>4, <1>5 DEF Sound, Media
<1>7. job[j].pc # "copying"
  BY <1>1
<1> QED BY <1>1, <1>3, <1>6, <1>7, SilentKeeps

\* A job that fails, is stopped or dies outside of calls and copies.
LEMMA WholeStop ==
  ASSUME IngestInv, CallTypeOK, WholeInv, Undamaged, NEW j \in Jobs, Others(j),
         Raises(j) \/ Signal(j) \/ Dies(j), ~cut'
  PROVE  WholeInv'
<1>1. ~InCall(j) /\ job[j].pc # "copying" /\ UNCHANGED <<subject, file, items>>
  <2>1. CASE Raises(j)
    BY <2>1 DEF Raises, rows
  <2>2. CASE Signal(j)
    <3>1. ~InCall(j) /\ UNCHANGED <<subject, file, items>>
      BY <2>2 DEF Signal, rows
    <3>2. job[j].pc \in {"fetch", "hash", "transcribe", "embed"}
      BY <2>2, <3>1 DEF Signal, Terminate, Interrupted
    <3> QED BY <3>1, <3>2
  <2>3. CASE Dies(j)
    BY <2>3 DEF Dies, rows
  <2> QED BY <2>1, <2>2, <2>3
<1>2. UNCHANGED <<call, orphans>>
  <2>1. CASE Raises(j)
    BY <2>1 DEF Raises, callVars
  <2>2. CASE Signal(j)
    BY <1>1, <2>2 DEF Signal, Terminate, Interrupted, callVars
  <2>3. CASE Dies(j)
    <3>1. call' = [call EXCEPT ![j] = NoCall] /\ UNCHANGED orphans
      BY <1>1, <2>3 DEF Dies, CallerDies, Leave
    <3>2. call[j] = NoCall
      BY <1>1 DEF InCall
    <3> QED BY <3>1, <3>2 DEF CallTypeOK, Jobs
  <2> QED BY <2>1, <2>2, <2>3
<1>3. PICK pc \in {"idle", "error"} : Goes(j, pc)
  BY <1>1 DEF Raises, Signal, Dies, Terminate
<1> DEFINE r == [job[j] EXCEPT !.pc = pc]
<1>4. /\ job' = [job EXCEPT ![j] = r] /\ r \in States /\ r.pc = pc /\ r.saved = job[j].saved
  BY <1>3, JobIs DEF Goes, States
<1> HIDE DEF r
<1>5. r.pc \in Plain /\ (Past(j, 2)' => Past(j, 2))
  BY <1>4, JobIs DEF Plain, Past
<1> QED BY <1>1, <1>2, <1>4, <1>5, PlainKeeps
\* Calls: the files of the job's own output.
LEMMA WholeCall ==
  ASSUME IngestInv, CallTypeOK, WholeInv, Undamaged, NEW j \in Jobs, Others(j),
         job[j].saved = 1, job[j].pc \in {"probe", "mezzanine", "audio"},
         NEW c, call' = [call EXCEPT ![j] = c],
         job'[j].pc \in {job[j].pc, AfterCall[job[j].pc]}, job'[j].saved = job[j].saved,
         \A k \in Jobs \ {j} : job'[k] = job[k],
         UNCHANGED <<subject, items, orphans>>, file'["raw"] = file["raw"],
         \A m \in Media : m = job[j].pc \/ file'[m] = file[m],
         \A m \in Media : file[m] = "whole" => file'[m] = "whole",
         job'[j].pc # job[j].pc => /\ c = NoCall
                                   /\ job[j].pc \in Media => file'[job[j].pc] = "whole",
         job'[j].pc = job[j].pc =>
           /\ c # NoCall /\ c.out = job[j].pc /\ c.why # "cancelled" /\ job'[j].input = "whole"
           /\ job[j].pc \in Media =>
                file'[job[j].pc] = IF c.child = "ok" THEN "whole" ELSE "partial"
  PROVE  WholeInv'
<1>1. /\ \A k \in Jobs \ {j} : InCall(k)' <=> InCall(k)
      /\ InCall(j)' <=> c # NoCall
      /\ call'[j] = c
  BY CallsApart DEF CallTypeOK, Jobs
<1>2. content = "media" /\ UNCHANGED <<content, streams>>
  BY JobIs DEF JobInv, Placed, Making, subject
<1>3. \A m \in Media : m # job[j].pc => file[m] # "partial"
  BY OwnFiles, <1>2 DEF WholeInv, Sound, Makes
<1>4. file["raw"] # "partial"
  BY OwnFiles
<1>5. Attended'
  <2>1. CASE job'[j].pc = job[j].pc
    BY <2>1, <1>1, <1>3, <1>4 DEF Attended
  <2>2. CASE job'[j].pc # job[j].pc
    <3>1. \A m \in Media : file'[m] # "partial"
      BY <2>2, <1>3
    <3> QED BY <1>4, <3>1 DEF Attended
  <2> QED BY <2>1, <2>2
<1>6. ~Past(j, 2)'
  BY DEF Past, AfterCall
<1>7. \A m \in Media : Have(m) => Have(m)'
  BY <1>2 DEF Have
<1>8. job[j].pc = "audio" => Have("mezzanine")'
  BY <1>2, <1>7 DEF WholeInv, Sound, Media
<1>9. Sound(j)'
  <2>1. CASE job'[j].pc = job[j].pc
    <3>1. Makes(j)' /\ InCall(j)'
      BY <2>1, <1>1 DEF Makes
    <3> QED BY <2>1, <3>1, <1>2, <1>6, <1>8 DEF Sound, Media
  <2>2. CASE job'[j].pc # job[j].pc
    <3>1. Makes(j)'
      BY <2>2, <1>1 DEF Makes
    <3>2. /\ job[j].pc = "mezzanine" => Have("mezzanine")'
          /\ job[j].pc = "audio" => Have("audio")'
      BY <2>2 DEF Media, Have
    <3> QED BY <2>2, <3>1, <3>2, <1>2, <1>6, <1>8 DEF Sound, Media, AfterCall
  <2> QED BY <2>1, <2>2
<1>10. \A k \in Jobs : job[k].saved >= 2 => Results'
  BY <1>2, <1>7, Kept DEF Results, Media
<1>11. orphans' = {}
  BY DEF WholeInv
<1> QED BY <1>1, <1>5, <1>9, <1>10, <1>11, AloneKeeps

LEMMA WholeRun ==
  ASSUME IngestInv, CallTypeOK, WholeInv, Undamaged, NEW j \in Jobs, Others(j), RunTool(j)
  PROVE  WholeInv'
<1> DEFINE pc == job[j].pc
           c == [state |-> "communicating", out |-> pc, child |-> "running", why |-> "none"]
           r == [job[j] EXCEPT !.input = file["raw"]]
<1>1. /\ pc \in Outputs /\ ~InCall(j) /\ call' = [call EXCEPT ![j] = c]
      /\ job' = [job EXCEPT ![j] = r]
      /\ file' = [f \in Files |-> IF f = pc THEN "partial" ELSE file[f]]
      /\ UNCHANGED <<subject, items, orphans>>
  BY DEF RunTool, Create, Undisturbed, rows
<1>2. pc \in {"probe", "mezzanine", "audio"} /\ job[j].saved = 1
  BY <1>1, JobIs, IngestAssumption DEF Media, JobInv, Placed, Making, Normalizing
<1>3. /\ job'[j].pc = pc /\ job'[j].saved = job[j].saved /\ job'[j].input = file["raw"]
      /\ \A k \in Jobs \ {j} : job'[k] = job[k]
  BY <1>1, JobIs DEF States
<1>4. file["raw"] = "whole"
  <2>1. file["raw"] \in FileState /\ file["raw"] # "none"
    BY <1>2, JobIs DEF Typed, Files, JobInv, Fetched, Past
  <2>2. file["raw"] # "partial"
    BY <1>2, OwnFiles
  <2> QED BY <2>1, <2>2 DEF FileState
<1>5. c # NoCall /\ c.out = pc /\ c.why # "cancelled" /\ c.child # "ok"
  BY DEF NoCall
<1>6. /\ file'["raw"] = file["raw"]
      /\ \A m \in Media : m = pc \/ file'[m] = file[m]
      /\ pc \in Media => file'[pc] = "partial"
  BY <1>1, <1>2 DEF Files, Media
<1>7. \A m \in Media : file[m] = "whole" => file'[m] = "whole"
  BY <1>1, <1>6 DEF WholeInv, Sound
<1> HIDE DEF c, r
<1> QED BY <1>1, <1>2, <1>3, <1>4, <1>5, <1>6, <1>7, WholeCall

LEMMA WholeEnds ==
  ASSUME IngestInv, CallTypeOK, WholeInv, Undamaged, NEW j \in Jobs, Others(j),
         NEW code \in Ended, ToolEnds(j, code)
  PROVE  WholeInv'
<1> DEFINE pc == job[j].pc
           c == [call[j] EXCEPT !.child = code]
<1>1. /\ InCall(j) /\ call[j].child = "running" /\ call' = [call EXCEPT ![j] = c]
      /\ UNCHANGED <<job, subject, items, orphans>>
  BY DEF ToolEnds, ChildEnds, Undisturbed, rows
<1>2. pc \in {"probe", "mezzanine", "audio"} /\ job[j].saved = 1
  BY <1>1, CallsUnderWay, JobIs DEF JobInv, Placed, Making, Normalizing
<1>3. /\ call[j].out = pc /\ call[j].why # "cancelled" /\ job[j].input = "whole"
      /\ pc \in Media => file[pc] = "partial"
  BY <1>1 DEF WholeInv, Sound, Makes
<1>4. c # NoCall /\ c.out = pc /\ c.why # "cancelled" /\ c.child = code
  <2>1. call[j] \in Call
    BY <1>1, CallStates DEF Jobs
  <2>2. /\ c.out = call[j].out /\ c.why = call[j].why /\ c.child = code
        /\ c.state = call[j].state /\ c.state # "idle"
    BY <2>1 DEF Call, Second
  <2> QED BY <2>2, <1>3 DEF NoCall
<1>5. ~Rivals(j, pc)
  <2>1. \A k \in Jobs \ {j} : ~InCall(k)
    BY CallsUnderWay DEF Others
  <2> QED BY <2>1 DEF Rivals, WholeInv
<1>6. /\ file'["raw"] = file["raw"]
      /\ \A m \in Media : m = pc \/ file'[m] = file[m]
      /\ pc \in Media => file'[pc] = IF code = "ok" THEN "whole" ELSE "partial"
  <2>1. CASE pc = "probe"
    BY <1>3, <2>1 DEF ToolEnds, Media
  <2>2. CASE pc # "probe"
    <3>1. pc \in Media
      BY <1>2, <2>2 DEF Media
    <3>2. Leaves(pc, Rivals(j, pc), code = "ok" /\ job[j].input = "whole")
            = IF code = "ok" THEN {"whole"} ELSE {"partial"}
      BY <1>3, <1>5, <3>1 DEF Leaves
    <3>3. Writes(pc, IF code = "ok" THEN "whole" ELSE "partial")
      BY <1>3, <2>2, <3>2 DEF ToolEnds
    <3> QED BY <3>1, <3>3 DEF Writes, Files, Media
  <2> QED BY <2>1, <2>2
<1>7. \A m \in Media : file[m] = "whole" => file'[m] = "whole"
  BY <1>3, <1>6
<1> HIDE DEF c
<1> QED BY <1>1, <1>2, <1>3, <1>4, <1>6, <1>7, WholeCall

LEMMA WholeDone ==
  ASSUME IngestInv, CallTypeOK, WholeInv, Undamaged, NEW j \in Jobs, Others(j), ToolDone(j)
  PROVE  WholeInv'
<1> DEFINE pc == job[j].pc
           r == [job[j] EXCEPT !.pc = AfterCall[pc]]
<1>1. /\ InCall(j) /\ call[j].child = "ok" /\ call' = [call EXCEPT ![j] = NoCall]
      /\ job' = [job EXCEPT ![j] = r] /\ UNCHANGED <<file, subject, items, orphans>>
  BY DEF ToolDone, Answer, Undisturbed, Goes, rows
<1>2. pc \in {"probe", "mezzanine", "audio"} /\ job[j].saved = 1
  BY <1>1, CallsUnderWay, JobIs DEF JobInv, Placed, Making, Normalizing
<1>3. /\ job'[j].pc = AfterCall[pc] /\ job'[j].saved = job[j].saved /\ AfterCall[pc] # pc
      /\ \A k \in Jobs \ {j} : job'[k] = job[k]
  BY <1>1, <1>2, JobIs DEF States, AfterCall
<1>4. pc \in Media => file[pc] = "whole"
  BY <1>1 DEF WholeInv, Sound, Makes
<1> HIDE DEF r
<1> QED BY <1>1, <1>2, <1>3, <1>4, WholeCall

LEMMA WholeBlow ==
  ASSUME IngestInv, CallTypeOK, WholeInv, Undamaged, NEW j \in Jobs, Others(j),
         TimeOut(j) \/ Escalate(j)
  PROVE  WholeInv'
<1>1. InCall(j) /\ UNCHANGED <<job, file, subject, items, orphans>>
  BY DEF TimeOut, Escalate, Terminate, GraceOver, Undisturbed, rows
<1>2. call[j] \in Call
  BY <1>1, CallStates DEF Jobs
<1>3. PICK c : /\ call' = [call EXCEPT ![j] = c] /\ c.out = call[j].out
               /\ c.child = call[j].child /\ c.why \in {call[j].why, "timeout"}
               /\ c # NoCall
  <2>1. CASE TimeOut(j)
    <3> DEFINE c == [call[j] EXCEPT !.state = "terminating", !.why = "timeout"]
    <3>1. call' = [call EXCEPT ![j] = c]
      BY <2>1 DEF TimeOut, Terminate
    <3>2. /\ c.out = call[j].out /\ c.child = call[j].child /\ c.why = "timeout"
          /\ c.state = "terminating"
      BY <1>2 DEF Call
    <3> QED BY <3>1, <3>2 DEF NoCall
  <2>2. CASE Escalate(j)
    <3> DEFINE c == [call[j] EXCEPT !.state = "killing"]
    <3>1. call' = [call EXCEPT ![j] = c]
      BY <2>2 DEF Escalate, GraceOver
    <3>2. /\ c.out = call[j].out /\ c.child = call[j].child /\ c.why = call[j].why
          /\ c.state = "killing"
      BY <1>2 DEF Call
    <3> QED BY <3>1, <3>2 DEF NoCall
  <2> QED BY <2>1, <2>2
<1>4. job[j].pc \in {"probe", "mezzanine", "audio"} /\ job[j].saved = 1
  BY <1>1, CallsUnderWay, JobIs DEF JobInv, Placed, Making, Normalizing
<1>5. /\ call[j].out = job[j].pc /\ call[j].why # "cancelled" /\ job[j].input = "whole"
      /\ job[j].pc \in Media =>
           file[job[j].pc] = IF call[j].child = "ok" THEN "whole" ELSE "partial"
  BY <1>1 DEF WholeInv, Sound, Makes
<1> QED BY <1>1, <1>3, <1>4, <1>5, WholeCall
-----------------------------------------------------------------------------
LEMMA WholeInitEstablishes == IngestInit => WholeInv
<1> SUFFICES ASSUME IngestInit PROVE WholeInv
  OBVIOUS
<1>1. \A j \in Jobs : job[j].pc = "new" /\ job[j].saved = 0 /\ ~InCall(j)
  BY DEF IngestInit, CallInit, InCall, Jobs
<1>2. \A j \in Jobs : Sound(j)
  BY <1>1 DEF Sound, Makes, Past, Media
<1>3. \A f \in Files : file[f] = "none"
  BY DEF IngestInit
<1> QED BY <1>2, <1>3 DEF WholeInv, Attended, IngestInit, CallInit, Files, Media

LEMMA WholeNextKeeps ==
  IngestInv /\ CallTypeOK /\ SeqInv /\ WholeInv /\ [IngestNext]_ingestVars => WholeInv'
<1> SUFFICES ASSUME IngestInv, CallTypeOK, SeqInv, WholeInv, [IngestNext]_ingestVars,
                    apart', ~cut'
             PROVE  WholeInv'
  BY DEF WholeInv, Undamaged
<1>1. Undamaged
  BY HistoryGrows DEF Undamaged
<1>2. ASSUME NEW j \in Jobs, UnderWay(j) PROVE Others(j)
  BY <1>1, <1>2, OthersRest
<1>3. ASSUME NEW j \in Jobs, NEW code \in Ended, ToolEnds(j, code) PROVE WholeInv'
  <2>1. UnderWay(j)
    BY <1>3, CallsUnderWay DEF ToolEnds, ChildEnds
  <2> QED BY <1>1, <1>2, <1>3, <2>1, WholeEnds
<1>4. ASSUME NEW j \in Jobs, NEW out \in Outputs, OrphanToolEnds(j, out) PROVE FALSE
  BY <1>1, <1>4 DEF OrphanToolEnds, OrphanEnds, WholeInv
<1>5. ASSUME NEW j \in Jobs,
             \/ Save(j) \/ Download(j) \/ HashDownload(j) \/ Place(j) \/ StartCopy(j)
             \/ EndCopy(j) \/ Move(j) \/ Check(j) \/ ReadDocument(j) \/ UpsertAsset(j)
             \/ ReplaceItems(j) \/ PersistSegments(j) \/ PersistVectors(j) \/ EmbedSkipped(j)
      PROVE  WholeInv'
  <2>1. UnderWay(j)
    BY <1>5 DEF Save, Download, HashDownload, Place, StartCopy, EndCopy, Move, Check,
       Checked, ReadDocument, UpsertAsset, ReplaceItems, PersistSegments, PersistVectors,
       EmbedSkipped, UnderWay
  <2> QED BY <1>1, <1>2, <1>5, <2>1, WholeSave, WholeFetch, WholePut, WholeCheck, WholeRead,
             WholeUpsert, WholeItems, WholeSpeech
<1>6. ASSUME NEW j \in Jobs, RunTool(j) PROVE WholeInv'
  <2>1. UnderWay(j)
    BY <1>6, IngestAssumption DEF RunTool, UnderWay, Media
  <2> QED BY <1>1, <1>2, <1>6, <2>1, WholeRun
<1>7. ASSUME NEW j \in Jobs, ToolDone(j) \/ TimeOut(j) \/ Escalate(j) PROVE WholeInv'
  <2>1. UnderWay(j)
    BY <1>7, CallsUnderWay
       DEF ToolDone, Answer, TimeOut, Terminate, Escalate, GraceOver
  <2> QED BY <1>1, <1>2, <1>7, <2>1, WholeDone, WholeBlow
<1>8. ASSUME NEW j \in Jobs, ToolFailed(j) \/ Released(j) PROVE FALSE
  BY <1>1, <1>8 DEF ToolFailed, Released, GaveUp, WholeInv, Sound, Makes
<1>9. ASSUME NEW j \in Jobs, Start(j) PROVE WholeInv'
  BY <1>1, <1>9, WholeStart
<1>10. ASSUME NEW j \in Jobs, Raises(j) \/ Signal(j) \/ Dies(j) PROVE WholeInv'
  <2>1. UnderWay(j)
    BY <1>10, CallsUnderWay
       DEF Raises, Signal, Dies, Busy, Points, Terminate, Interrupted, UnderWay
  <2> QED BY <1>1, <1>2, <1>10, <2>1, WholeStop
<1>11. ASSUME NEW j \in Jobs, JobRuns(j) PROVE WholeInv'
  <2>1. "failed" \in Ended
    BY DEF Ended
  <2> QED BY <1>3, <1>5, <1>6, <1>7, <1>8, <1>9, <1>11, <2>1 DEF JobRuns
<1>12. CASE UNCHANGED ingestVars
  <2>1. UNCHANGED <<subject, file, job, items, call, orphans>>
    BY <1>12 DEF ingestVars, rows, callVars
  <2>2. Attended' /\ orphans' = {}
    BY <1>1, <2>1 DEF WholeInv, Attended, InCall
  <2>3. ASSUME NEW j \in Jobs PROVE Sound(j)'
    <3>1. UNCHANGED <<content, streams>> /\ Sound(j)
      BY <1>1, <2>1 DEF WholeInv, subject
    <3>2. Makes(j)' /\ (InCall(j)' <=> InCall(j)) /\ (Past(j, 2)' <=> Past(j, 2))
      BY <2>1, <3>1 DEF Sound, Makes, InCall, Past
    <3>3. Have("mezzanine")' = Have("mezzanine") /\ Have("audio")' = Have("audio")
          /\ Results' = Results
      BY <2>1, <3>1 DEF Have, Results
    <3> QED BY <2>1, <3>1, <3>2, <3>3 DEF Sound
  <2> QED BY <2>2, <2>3 DEF WholeInv
<1>13. ASSUME IngestNext PROVE WholeInv'
  <2>1. PICK j \in Jobs :
          \/ JobRuns(j) \/ Raises(j) \/ Signal(j) \/ Dies(j)
          \/ \E code \in Ended : ToolEnds(j, code)
          \/ \E out \in Outputs : OrphanToolEnds(j, out)
    BY <1>13 DEF IngestNext
  <2> QED BY <1>3, <1>4, <1>10, <1>11, <2>1
<1> QED BY <1>12, <1>13

THEOREM WholeInvariant == IngestSpec => []WholeInv
<1>1. IngestSpec => []CallTypeOK
  BY IngestMakesCalls, CallsTyped, PTL DEF MakesCalls
<1> QED BY <1>1, IngestInvariant, SeqInvariant, WholeInitEstablishes, WholeNextKeeps, PTL
        DEF IngestSpec

\* Jobs of one content that run one after another, and of which no process and no
\* copy is cut short, leave whole files and whole items wherever else they stop,
\* die or fail: what normalize has saved is complete, and so is a document, though
\* all but the first job fail (normalize, replace_items).
THEOREM UndisturbedWhole == IngestSpec => []UndisturbedResultsWhole
<1>1. IngestInv /\ WholeInv => UndisturbedResultsWhole
  <2> SUFFICES ASSUME IngestInv, WholeInv, Undamaged
               PROVE  /\ FinishedFilesWhole
                      /\ content = "document" /\ (\E j \in Jobs : job[j].saved >= 2) =>
                           items = "whole"
    BY DEF UndisturbedResultsWhole, Undamaged
  <2>1. streams \subseteq Media
    BY IngestAssumption DEF IngestInv, Typed
  <2>2. \A j \in Jobs : job[j].saved >= 2 => Results
    BY Kept
  <2>3. FinishedFilesWhole
    BY <2>1, <2>2 DEF FinishedFilesWhole, Normalized, Results, Have, Media
  <2> QED BY <2>2, <2>3 DEF Results
<1> QED BY <1>1, IngestInvariant, WholeInvariant, PTL
=============================================================================
