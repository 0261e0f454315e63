--------------------------- MODULE DatabaseProofs ----------------------------
(***************************************************************************)
(* Proofs about Database for any processes, any number of migrations that  *)
(* satisfy MigrationAssumption, any steps' needs and any bound.            *)
(***************************************************************************)
EXTENDS Database, TLAPS

-----------------------------------------------------------------------------
(* The inductive invariant.                                                *)

OneWriter == \A p, q \in Procs : Writing(p) /\ Writing(q) => p = q

\* What init-db has still to do is what follows some migration, and all before
\* it has been applied.
Remaining(p) ==
  \E n \in 1..Count + 1 : init[p].todo = n..Count /\ 1..n - 1 \subseteq db.applied

\* The script that waits for its name has made the schema that goes with it.
Recorded(p) ==
  /\ init[p].todo # {}
  /\ txn[p].view = [db EXCEPT !.schema = txn[p].view.schema]
  /\ \E k \in 0..Count : /\ db.applied \cup {At(p)} = 1..k
                         /\ txn[p].view.schema = SchemaAt[k]

InitInv ==
  \A p \in Inits :
    /\ ~Reading(p)
    /\ Writing(p) <=> init[p].pc = "recording"
    /\ init[p].pc \in {"pending", "recording"} => Remaining(p)
    /\ init[p].pc = "recording" => Recorded(p)

\* A transaction that writes has seen what is committed.
ViewInv ==
  \A j \in Jobs :
    /\ txn[j].state # "none" => job[j] \in Storing
    /\ Reading(j) /\ txn[j].current => txn[j].view = db
    /\ Writing(j) => txn[j].view = Stored(j, db)

\* What a job has left behind it is in the tables.
Progress ==
  \A j \in Jobs :
    /\ job[j] \in {"items", "graph", "finish", "done"} => j \in db.rows
    /\ job[j] \in {"graph", "finish", "done"} => j \in db.items
    /\ job[j] \in {"finish", "done"} => j \in db.graph

DbInv ==
  /\ DbTypeOK /\ SchemaOfRecord /\ OneWriter
  /\ InitInv /\ InitUpComplete /\ ViewInv /\ Progress

-----------------------------------------------------------------------------
(* Facts about the migrations.                                             *)

\* The first script that is due is the smallest one left.
LEMMA AtIsFirst ==
  ASSUME NEW p \in Inits, NEW n \in 1..Count + 1,
         init[p].todo = n..Count, init[p].todo # {}
  PROVE  At(p) = n /\ n \in 1..Count /\ init[p].todo \ {n} = (n + 1)..Count
BY MigrationAssumption DEF At

\* A script that succeeds makes the schema that goes with its name.
LEMMA ScriptMakesSchema ==
  ASSUME NEW k \in 0..Count, NEW n \in 1..Count, NEW s, s = SchemaAt[k],
         1..n - 1 \subseteq 1..k, Succeeds(n, s)
  PROVE  \E l \in 0..Count : 1..k \cup {n} = 1..l /\ Effect(n, s) = SchemaAt[l]
<1>1. n <= k + 1
  BY MigrationAssumption
<1>2. CASE n = k + 1
  BY <1>2, MigrationAssumption
<1>3. CASE n <= k
  <2>1. Effect(n, s) = SchemaAt[k]
    BY <1>3, MigrationAssumption
  <2>2. 1..k \cup {n} = 1..k
    BY <1>3
  <2> QED BY <2>1, <2>2
<1> QED BY <1>1, <1>2, <1>3

LEMMA EmptyRange ==
  ASSUME NEW n \in Int, NEW k \in Int, n..k = {}
  PROVE  k < n
<1>1. n <= k => n \in n..k OBVIOUS
<1> QED BY <1>1

\* Two ranges from 1 with the same members end at the same number.
LEMMA SameRange ==
  ASSUME NEW k \in 0..Count, NEW l \in 0..Count, 1..k = 1..l
  PROVE  k = l
<1> k \in Int /\ l \in Int BY MigrationAssumption
<1>1. CASE k < l
  <2>1. l \in 1..l BY <1>1, MigrationAssumption
  <2> QED BY <2>1, <1>1, MigrationAssumption
<1>2. CASE l < k
  <2>1. k \in 1..k BY <1>2, MigrationAssumption
  <2> QED BY <2>1, <1>2, MigrationAssumption
<1> QED BY <1>1, <1>2

-----------------------------------------------------------------------------
(* Every action keeps the invariant.                                       *)

LEMMA InitEstablishes == Init => DbInv
<1> SUFFICES ASSUME Init PROVE DbInv
  OBVIOUS
<1>1. PICK s \in Setups :
        /\ db = [Empty EXCEPT !.schema = SchemaAt[s.version], !.applied = 1..s.version]
        /\ init = [p \in Inits |-> [pc |-> IF p \in s.inits THEN "off" ELSE "none",
                                     todo |-> {}]]
        /\ job = [j \in Jobs |-> IF j \in s.jobs THEN "queued" ELSE "none"]
  BY DEF Init
<1>2. s.version \in 0..Count
  BY ProcessAssumption
<1>3. /\ db.schema = SchemaAt[s.version] /\ db.applied = 1..s.version
      /\ db \in Store
  <2>1. SchemaAt[s.version] \in SUBSET Objects /\ 1..s.version \in SUBSET (1..Count)
    BY <1>2, MigrationAssumption
  <2>2. db = [schema |-> SchemaAt[s.version], applied |-> 1..s.version,
              rows |-> {}, items |-> {}, graph |-> {}]
    BY <1>1 DEF Empty
  <2> QED BY <2>1, <2>2 DEF Store
<1>4. /\ txn = [p \in Procs |-> NoTxn] /\ faults = 0
      /\ NoTxn \in [state : {"none", "reading", "writing"}, view : Store, current : BOOLEAN]
  BY MigrationAssumption DEF Init, NoTxn, Empty, Store
<1>5. DbTypeOK
  BY <1>1, <1>3, <1>4, MigrationAssumption DEF DbTypeOK
<1>6. SchemaOfRecord
  BY <1>2, <1>3 DEF SchemaOfRecord
<1>7. \A p \in Procs : ~Reading(p) /\ ~Writing(p)
  BY <1>4 DEF Reading, Writing, NoTxn
<1>8. InitInv /\ InitUpComplete
  BY <1>1, <1>7 DEF InitInv, InitUpComplete, Procs
<1>9. ViewInv /\ Progress
  BY <1>1, <1>4 DEF ViewInv, Progress, Reading, Writing, NoTxn, Procs
<1> QED BY <1>5, <1>6, <1>7, <1>8, <1>9 DEF DbInv, OneWriter

\* Nothing but the outcome of init-db changes.
LEMMA InitStops ==
  ASSUME DbInv, NEW p \in Inits, NEW pc \in {"off", "failed"}, Goes(p, pc),
         UNCHANGED <<db, job>>, faults' \in 0..MaxFaults,
         \/ init[p].pc # "recording" /\ UNCHANGED txn
         \/ Rollback(p)
  PROVE  DbInv'
<1>1. init' = [init EXCEPT ![p].pc = pc] /\ UNCHANGED <<db, job>> /\ DbTypeOK /\ p \in Procs
  BY DEF Goes, DbInv, Procs
<1>2. /\ \A q \in Procs \ {p} : txn'[q] = txn[q]
      /\ \/ txn'[p] = txn[p] /\ init[p].pc # "recording"
         \/ txn'[p] = NoTxn
  BY <1>1 DEF Rollback, DbTypeOK
<1>3. NoTxn \in [state : {"none", "reading", "writing"}, view : Store, current : BOOLEAN]
  BY MigrationAssumption DEF NoTxn, Empty, Store
<1>4. DbTypeOK'
  BY <1>1, <1>3, MigrationAssumption DEF DbTypeOK, Rollback
<1>5. OneWriter'
  BY <1>1, <1>2 DEF DbInv, OneWriter, Writing, NoTxn
<1>6. InitInv'
  <2> SUFFICES ASSUME NEW q \in Inits
               PROVE  (/\ ~Reading(q)
                       /\ Writing(q) <=> init[q].pc = "recording"
                       /\ init[q].pc \in {"pending", "recording"} => Remaining(q)
                       /\ init[q].pc = "recording" => Recorded(q))'
    BY DEF InitInv
  <2>1. CASE q = p
    BY <2>1, <1>1, <1>2 DEF DbInv, DbTypeOK, InitInv, Reading, Writing, NoTxn
  <2>2. CASE q # p
    <3>1. init'[q] = init[q] /\ txn'[q] = txn[q]
      BY <2>2, <1>1, <1>2 DEF DbTypeOK, Procs
    <3> QED BY <3>1, <1>1 DEF DbInv, InitInv, Reading, Writing, Remaining, Recorded, At
  <2> QED BY <2>1, <2>2
<1>7. ViewInv' /\ Progress'
  <2>1. \A j \in Jobs : txn'[j] = txn[j]
    BY <1>2, ProcessAssumption DEF Procs
  <2> QED BY <1>1, <2>1 DEF DbInv, ViewInv, Progress, Reading, Writing, Stored
<1>8. InitUpComplete' /\ SchemaOfRecord'
  BY <1>1 DEF DbInv, DbTypeOK, InitUpComplete, SchemaOfRecord
<1> QED BY <1>4, <1>5, <1>6, <1>7, <1>8 DEF DbInv

LEMMA ListAppliedKeeps ==
  ASSUME DbInv, NEW p \in Inits, ListApplied(p)
  PROVE  DbInv'
<1> DEFINE todo == 1..Count \ db.applied
<1>1. /\ init' = [init EXCEPT ![p] = [pc |-> "pending", todo |-> todo]]
      /\ UNCHANGED <<db, txn, job, faults>> /\ DbTypeOK /\ init[p].pc = "off"
  BY DEF ListApplied, DbInv
<1>2. init'[p] = [pc |-> "pending", todo |-> todo]
  BY <1>1 DEF DbTypeOK
<1>3. Remaining(p)'
  <2>1. PICK k \in 0..Count : db.applied = 1..k
    BY DEF DbInv, SchemaOfRecord
  <2>2. k + 1 \in 1..Count + 1 /\ todo = (k + 1)..Count /\ 1..(k + 1) - 1 \subseteq db.applied
    BY <2>1, MigrationAssumption
  <2>3. \E n \in 1..Count + 1 : todo = n..Count /\ 1..n - 1 \subseteq db.applied
    BY <2>2
  <2>4. init'[p].todo = todo /\ db' = db
    BY <1>1, <1>2
  <2> QED BY <2>3, <2>4 DEF Remaining
<1>4. DbTypeOK'
  BY <1>1 DEF DbTypeOK
<1>5. InitInv'
  <2> SUFFICES ASSUME NEW q \in Inits, q # p
               PROVE  (/\ ~Reading(q)
                       /\ Writing(q) <=> init[q].pc = "recording"
                       /\ init[q].pc \in {"pending", "recording"} => Remaining(q)
                       /\ init[q].pc = "recording" => Recorded(q))'
    BY <1>1, <1>2, <1>3 DEF InitInv, DbInv, Reading, Writing
  <2>1. init'[q] = init[q]
    BY <1>1 DEF DbTypeOK
  <2> QED BY <2>1, <1>1 DEF DbInv, InitInv, Reading, Writing, Remaining, Recorded, At
<1>6. InitUpComplete'
  BY <1>1, <1>2 DEF DbInv, DbTypeOK, InitUpComplete
<1>7. SchemaOfRecord' /\ OneWriter' /\ ViewInv' /\ Progress'
  BY <1>1 DEF DbInv, SchemaOfRecord, OneWriter, ViewInv, Progress, Reading, Writing, Stored
<1> QED BY <1>4, <1>5, <1>6, <1>7 DEF DbInv

LEMMA ComesUpKeeps ==
  ASSUME DbInv, NEW p \in Inits, ComesUp(p)
  PROVE  DbInv'
<1>1. /\ init' = [init EXCEPT ![p].pc = "up"] /\ init[p].pc = "pending"
      /\ init[p].todo = {} /\ UNCHANGED <<db, txn, job, faults>> /\ DbTypeOK
  BY DEF ComesUp, Goes, DbInv
<1>2. /\ init'[p].pc = "up" /\ \A q \in Inits \ {p} : init'[q] = init[q]
  BY <1>1 DEF DbTypeOK
<1>3. db.applied = 1..Count
  <2>1. PICK n \in 1..Count + 1 : init[p].todo = n..Count /\ 1..n - 1 \subseteq db.applied
    BY <1>1 DEF DbInv, InitInv, Remaining
  <2>2. Count \in Int /\ n \in Int /\ n <= Count + 1
    BY MigrationAssumption
  <2>3. Count < n
    BY <2>1, <2>2, <1>1, EmptyRange
  <2>4. n - 1 = Count
    BY <2>2, <2>3
  <2>5. db.applied \subseteq 1..Count
    BY <1>1 DEF DbTypeOK, Store
  <2> QED BY <2>1, <2>4, <2>5
<1>4. DbTypeOK'
  BY <1>1 DEF DbTypeOK
<1>5. InitInv'
  BY <1>1, <1>2 DEF DbInv, InitInv, Reading, Writing, Remaining, Recorded, At
<1>6. InitUpComplete'
  BY <1>1, <1>2, <1>3 DEF DbInv, InitUpComplete
<1>7. SchemaOfRecord' /\ OneWriter' /\ ViewInv' /\ Progress'
  BY <1>1 DEF DbInv, SchemaOfRecord, OneWriter, ViewInv, Progress, Reading, Writing, Stored
<1> QED BY <1>4, <1>5, <1>6, <1>7 DEF DbInv

LEMMA RunScriptKeeps ==
  ASSUME DbInv, NEW p \in Inits, RunScript(p)
  PROVE  DbInv'
<1> DEFINE view == [db EXCEPT !.schema = Effect(At(p), db.schema)]
<1>1. /\ txn' = [txn EXCEPT ![p] = [state |-> "writing", view |-> view, current |-> TRUE]]
      /\ init' = [init EXCEPT ![p].pc = "recording"]
      /\ NobodyWrites /\ init[p].pc = "pending" /\ init[p].todo # {}
      /\ Succeeds(At(p), db.schema) /\ UNCHANGED <<db, job, faults>>
      /\ DbTypeOK /\ p \in Procs
  BY DEF RunScript, Write, Goes, Due, DbInv, Procs
<1>2. PICK k \in 0..Count : db.applied = 1..k /\ db.schema = SchemaAt[k]
  BY DEF DbInv, SchemaOfRecord
<1>3. PICK n \in 1..Count + 1 : init[p].todo = n..Count /\ 1..n - 1 \subseteq db.applied
  BY <1>1 DEF DbInv, InitInv, Remaining
<1>4. At(p) = n /\ n \in 1..Count
  BY <1>1, <1>3, AtIsFirst
<1>5. \E l \in 0..Count : db.applied \cup {n} = 1..l /\ Effect(n, db.schema) = SchemaAt[l]
  BY <1>1, <1>2, <1>3, <1>4, ScriptMakesSchema
<1>6. view \in Store /\ view.schema = Effect(n, db.schema)
  <2>1. db \in Store
    BY <1>1 DEF DbTypeOK
  <2>2. Effect(n, db.schema) \in SUBSET Objects
    BY <1>5, MigrationAssumption
  <2> QED BY <2>1, <2>2, <1>4 DEF Store
<1>7. /\ txn'[p] = [state |-> "writing", view |-> view, current |-> TRUE]
      /\ \A q \in Procs \ {p} : txn'[q] = txn[q]
      /\ init'[p] = [init[p] EXCEPT !.pc = "recording"]
      /\ \A q \in Inits \ {p} : init'[q] = init[q]
  BY <1>1 DEF DbTypeOK
<1>8. DbTypeOK'
  BY <1>1, <1>6 DEF DbTypeOK
<1>9. OneWriter'
  BY <1>1, <1>7 DEF OneWriter, NobodyWrites, Writing
<1>10. InitInv'
  <2> SUFFICES ASSUME NEW q \in Inits
               PROVE  (/\ ~Reading(q)
                       /\ Writing(q) <=> init[q].pc = "recording"
                       /\ init[q].pc \in {"pending", "recording"} => Remaining(q)
                       /\ init[q].pc = "recording" => Recorded(q))'
    BY DEF InitInv
  <2>1. CASE q = p
    <3>1. init'[p].pc = "recording" /\ init'[p].todo = init[p].todo
      BY <1>7, <1>1 DEF DbTypeOK
    <3>2. At(p)' = n
      BY <3>1, <1>4 DEF At
    <3>3. Recorded(p)'
      <4>1. txn'[p].view = view /\ db' = db /\ init'[p].todo # {}
        BY <3>1, <1>1, <1>7
      <4>2. view = [db EXCEPT !.schema = view.schema]
        BY <1>6, <1>4
      <4> QED BY <3>2, <4>1, <4>2, <1>5, <1>6 DEF Recorded
    <3>4. Remaining(p)'
      BY <3>1, <1>1, <1>3 DEF Remaining
    <3> QED BY <2>1, <3>1, <3>3, <3>4, <1>7 DEF Reading, Writing
  <2>2. CASE q # p
    <3>1. init'[q] = init[q] /\ txn'[q] = txn[q] /\ db' = db
      BY <2>2, <1>1, <1>7 DEF Procs
    <3> QED BY <3>1 DEF DbInv, InitInv, Reading, Writing, Remaining, Recorded, At
  <2> QED BY <2>1, <2>2
<1>11. ViewInv' /\ Progress'
  <2>1. \A j \in Jobs : txn'[j] = txn[j]
    BY <1>7, ProcessAssumption DEF Procs
  <2> QED BY <1>1, <2>1 DEF DbInv, ViewInv, Progress, Reading, Writing, Stored
<1>12. InitUpComplete' /\ SchemaOfRecord'
  BY <1>1, <1>7 DEF DbInv, DbTypeOK, InitUpComplete, SchemaOfRecord
<1> QED BY <1>8, <1>9, <1>10, <1>11, <1>12 DEF DbInv

\* After a commit no transaction writes, and none that reads is current.
LEMMA CommitEndsWrites ==
  ASSUME DbInv, NEW p \in Procs, NobodyWrites \/ Writing(p), txn' = Outdated(p)
  PROVE  /\ txn'[p] = NoTxn
         /\ \A q \in Procs : ~Writing(q)'
         /\ \A q \in Procs : Reading(q)' => Reading(q) /\ ~txn'[q].current
         /\ \A q \in Inits : ~Reading(q)'
         /\ txn' \in [Procs -> [state : {"none", "reading", "writing"}, view : Store,
                                current : BOOLEAN]]
<1>1. txn' = [q \in Procs |-> CASE q = p -> NoTxn
                     [] q # p /\ Reading(q) -> [txn[q] EXCEPT !.current = FALSE]
                     [] OTHER -> txn[q]]
  BY DEF Outdated
<1>2. /\ txn \in [Procs -> [state : {"none", "reading", "writing"}, view : Store,
                            current : BOOLEAN]]
      /\ NoTxn \in [state : {"none", "reading", "writing"}, view : Store, current : BOOLEAN]
  BY MigrationAssumption DEF DbInv, DbTypeOK, NoTxn, Empty, Store
<1>3. /\ txn'[p] = NoTxn
      /\ \A q \in Procs : q # p /\ Reading(q) => txn'[q] = [txn[q] EXCEPT !.current = FALSE]
      /\ \A q \in Procs : q # p /\ ~Reading(q) => txn'[q] = txn[q]
  BY <1>1
<1>4. \A q \in Procs \ {p} : ~Writing(q)
  BY DEF DbInv, OneWriter, NobodyWrites
<1>5. \A q \in Procs : ~Writing(q)'
  BY <1>2, <1>3, <1>4 DEF Writing, Reading, NoTxn
<1>6. \A q \in Procs : Reading(q)' => Reading(q) /\ ~txn'[q].current
  BY <1>2, <1>3 DEF Reading, NoTxn
<1>7. \A q \in Inits : ~Reading(q)'
  BY <1>6 DEF DbInv, InitInv, Procs
<1>8. txn' \in [Procs -> [state : {"none", "reading", "writing"}, view : Store,
                          current : BOOLEAN]]
  BY <1>1, <1>2
<1> QED BY <1>3, <1>5, <1>6, <1>7, <1>8

LEMMA RecordKeeps ==
  ASSUME DbInv, NEW p \in Inits, Record(p)
  PROVE  DbInv'
<1> DEFINE view == [txn[p].view EXCEPT !.applied = @ \cup {At(p)}]
<1>1. /\ txn' = Outdated(p) /\ db' = view /\ Writing(p)
      /\ init' = [init EXCEPT ![p] = [pc |-> "pending", todo |-> @.todo \ {At(p)}]]
      /\ init[p].pc = "recording" /\ UNCHANGED <<job, faults>>
      /\ DbTypeOK /\ p \in Procs
  BY DEF Record, Commit, DbInv, Procs
<1>2. /\ init[p].todo # {} /\ txn[p].view = [db EXCEPT !.schema = txn[p].view.schema]
      /\ Remaining(p)
  BY <1>1 DEF DbInv, InitInv, Recorded
<1>3. PICK l \in 0..Count : /\ db.applied \cup {At(p)} = 1..l
                            /\ txn[p].view.schema = SchemaAt[l]
  BY <1>1 DEF DbInv, InitInv, Recorded
<1>4. PICK n \in 1..Count + 1 : init[p].todo = n..Count /\ 1..n - 1 \subseteq db.applied
  BY <1>2 DEF Remaining
<1>5. At(p) = n /\ n \in 1..Count /\ init[p].todo \ {n} = (n + 1)..Count
  BY <1>2, <1>4, AtIsFirst
<1>6. txn[p].view \in Store /\ db \in Store
  BY <1>1 DEF DbTypeOK
<1>7. /\ db'.schema = SchemaAt[l] /\ db'.applied = 1..l /\ db' \in Store
      /\ db'.rows = db.rows /\ db'.items = db.items /\ db'.graph = db.graph
      /\ db.applied \subseteq db'.applied /\ n \in db'.applied
  <2>1. txn[p].view.applied = db.applied
    BY <1>2, <1>6 DEF Store
  <2>2. view = [txn[p].view EXCEPT !.applied = 1..l]
    BY <2>1, <1>3, <1>6 DEF Store
  <2>3. 1..l \in SUBSET (1..Count)
    BY <1>3, MigrationAssumption
  <2>4. db' = [schema |-> SchemaAt[l], applied |-> 1..l, rows |-> db.rows,
               items |-> db.items, graph |-> db.graph]
    BY <2>2, <1>1, <1>2, <1>3, <1>6 DEF Store
  <2>5. SchemaAt[l] \in SUBSET Objects
    BY MigrationAssumption
  <2> QED BY <2>3, <2>4, <2>5, <1>3, <1>5, <1>6 DEF Store
<1>8. /\ init'[p] = [pc |-> "pending", todo |-> (n + 1)..Count]
      /\ \A q \in Inits \ {p} : init'[q] = init[q]
  BY <1>1, <1>5 DEF DbTypeOK
<1>9. /\ txn'[p] = NoTxn /\ \A q \in Procs : ~Writing(q)'
      /\ \A q \in Procs : Reading(q)' => Reading(q) /\ ~txn'[q].current
      /\ \A q \in Inits : ~Reading(q)'
      /\ txn' \in [Procs -> [state : {"none", "reading", "writing"}, view : Store,
                             current : BOOLEAN]]
  BY <1>1, CommitEndsWrites
<1>10. DbTypeOK'
  <2>1. (n + 1)..Count \in SUBSET (1..Count)
    BY <1>5
  <2>2. init' \in [Inits -> [pc : {"none", "off", "pending", "recording", "failed", "up"},
                             todo : SUBSET (1..Count)]]
    BY <1>1, <1>5, <2>1 DEF DbTypeOK
  <2> QED BY <1>1, <1>7, <1>9, <2>2 DEF DbTypeOK
<1>11. SchemaOfRecord' /\ OneWriter'
  BY <1>7, <1>9 DEF SchemaOfRecord, OneWriter
<1>12. InitInv'
  <2> SUFFICES ASSUME NEW q \in Inits
               PROVE  (/\ init[q].pc # "recording"
                       /\ init[q].pc \in {"pending", "recording"} => Remaining(q))'
    BY <1>9 DEF InitInv, Procs
  <2>1. CASE q = p
    <3>1. n + 1 \in 1..Count + 1 /\ (n + 1) - 1 = n
      BY <1>5, MigrationAssumption
    <3>2. 1..n \subseteq db'.applied
      BY <1>4, <1>5, <1>7
    <3>3. init'[p].todo = (n + 1)..Count /\ init'[p].pc = "pending"
      BY <1>8
    <3> QED BY <2>1, <3>1, <3>2, <3>3 DEF Remaining
  <2>2. CASE q # p
    <3>1. init'[q] = init[q] /\ q \in Procs
      BY <2>2, <1>8 DEF Procs
    <3>2. ~Writing(q)
      BY <2>2, <3>1, <1>1 DEF DbInv, OneWriter
    <3> QED BY <3>1, <3>2, <1>7 DEF DbInv, InitInv, Remaining
  <2> QED BY <2>1, <2>2
<1>13. InitUpComplete'
  <2> SUFFICES ASSUME NEW q \in Inits, init'[q].pc = "up"
               PROVE  db'.applied = 1..Count
    BY DEF InitUpComplete
  <2>1. db.applied = 1..Count
    BY <1>8 DEF DbInv, InitUpComplete
  <2> QED BY <2>1, <1>7 DEF Store
<1>14. ViewInv' /\ Progress'
  <2>1. \A j \in Jobs : j \in Procs
    BY DEF Procs
  <2>2. \A j \in Jobs : txn'[j].state # "none" => txn[j].state # "none"
    BY <2>1, <1>9 DEF Reading, Writing
  <2> QED BY <2>1, <2>2, <1>1, <1>7, <1>9 DEF DbInv, ViewInv, Progress
<1> QED BY <1>10, <1>11, <1>12, <1>13, <1>14 DEF DbInv

\* What a job does leaves init-db where it is.
LEMMA InitSideKept ==
  ASSUME DbInv, UNCHANGED init,
         db'.applied = db.applied, db'.schema = db.schema,
         \A p \in Inits : /\ ~Reading(p)' /\ (Writing(p)' <=> Writing(p))
                          /\ Writing(p) => txn'[p] = txn[p] /\ db' = db
  PROVE  InitInv' /\ InitUpComplete' /\ SchemaOfRecord'
<1>1. InitInv'
  <2> SUFFICES ASSUME NEW q \in Inits
               PROVE  (/\ Writing(q) <=> init[q].pc = "recording"
                       /\ init[q].pc \in {"pending", "recording"} => Remaining(q)
                       /\ init[q].pc = "recording" => Recorded(q))'
    BY DEF InitInv
  <2>1. Writing(q)' <=> init'[q].pc = "recording"
    BY DEF DbInv, InitInv
  <2>2. init'[q].pc \in {"pending", "recording"} => Remaining(q)'
    BY DEF DbInv, InitInv, Remaining
  <2>3. ASSUME init'[q].pc = "recording" PROVE Recorded(q)'
    <3>1. txn'[q] = txn[q] /\ db' = db /\ Recorded(q)
      BY <2>3 DEF DbInv, InitInv
    <3> QED BY <3>1 DEF Recorded, At
  <2> QED BY <2>1, <2>2, <2>3
<1>2. InitUpComplete' /\ SchemaOfRecord'
  BY DEF DbInv, InitUpComplete, SchemaOfRecord
<1> QED BY <1>1, <1>2

\* A job that moves to another step, or changes its transaction, and commits
\* nothing.
LEMMA JobMoves ==
  ASSUME DbInv, NEW j \in Jobs,
         NEW step \in {"queued", "finish", "failing", "done", "error"} \cup Storing,
         NEW t \in [state : {"none", "reading", "writing"}, view : Store, current : BOOLEAN],
         txn' = [txn EXCEPT ![j] = t], job' = [job EXCEPT ![j] = step],
         UNCHANGED <<db, init>>, faults' \in 0..MaxFaults,
         step \in {"queued", "failing", "rows"} \/ step = job[j],
         t.state # "none" => step \in Storing,
         t.state = "reading" /\ t.current => t.view = db,
         t.state = "writing" => NobodyWrites /\ step = job[j] /\ t.view = Stored(j, db)
  PROVE  DbInv'
<1>1. DbTypeOK /\ j \in Procs /\ j \notin Inits
  BY ProcessAssumption DEF DbInv, Procs
<1>2. /\ txn'[j] = t /\ \A q \in Procs \ {j} : txn'[q] = txn[q]
      /\ job'[j] = step /\ \A i \in Jobs \ {j} : job'[i] = job[i]
  BY <1>1 DEF DbTypeOK
<1>3. DbTypeOK'
  BY <1>1 DEF DbTypeOK
<1>4. OneWriter'
  BY <1>2 DEF DbInv, OneWriter, NobodyWrites, Writing
<1>5. InitInv' /\ InitUpComplete' /\ SchemaOfRecord'
  <2>1. \A p \in Inits : txn'[p] = txn[p] /\ ~Reading(p)
    BY <1>1, <1>2 DEF DbInv, InitInv, Procs
  <2> QED BY <2>1, InitSideKept DEF Reading, Writing
<1>6. ViewInv'
  <2> SUFFICES ASSUME NEW i \in Jobs
               PROVE  (/\ txn[i].state # "none" => job[i] \in Storing
                       /\ Reading(i) /\ txn[i].current => txn[i].view = db
                       /\ Writing(i) => txn[i].view = Stored(i, db))'
    BY DEF ViewInv
  <2>1. CASE i = j
    BY <2>1, <1>2 DEF Reading, Writing, Stored
  <2>2. CASE i # j
    <3>1. txn'[i] = txn[i] /\ job'[i] = job[i]
      BY <2>2, <1>2 DEF Procs
    <3> QED BY <3>1 DEF DbInv, ViewInv, Reading, Writing, Stored
  <2> QED BY <2>1, <2>2
<1>7. Progress'
  BY <1>2 DEF DbInv, Progress
<1> QED BY <1>3, <1>4, <1>5, <1>6, <1>7 DEF DbInv

\* A transaction that stores nothing the projections are made of.
LEMMA JobWritesRow ==
  ASSUME DbInv, NEW j \in Jobs, NEW step \in {"rows", "done", "error"},
         WriteRow(j), Goto(j, step), UNCHANGED <<init, faults>>,
         txn[j].state = "none", step = "done" => job[j] = "finish"
  PROVE  DbInv'
<1>1. /\ txn' = Outdated(j) /\ db' = db /\ job' = [job EXCEPT ![j] = step]
      /\ NobodyWrites /\ DbTypeOK /\ j \in Procs /\ j \notin Inits
  BY ProcessAssumption DEF WriteRow, Goto, DbInv, Procs
<1>2. /\ txn'[j] = NoTxn /\ \A q \in Procs : ~Writing(q)'
      /\ \A q \in Procs : Reading(q)' => Reading(q) /\ ~txn'[q].current
      /\ \A q \in Inits : ~Reading(q)'
      /\ txn' \in [Procs -> [state : {"none", "reading", "writing"}, view : Store,
                             current : BOOLEAN]]
  BY <1>1, CommitEndsWrites
<1>3. job'[j] = step /\ \A i \in Jobs \ {j} : job'[i] = job[i]
  BY <1>1 DEF DbTypeOK
<1>4. DbTypeOK'
  BY <1>1, <1>2 DEF DbTypeOK, Storing
<1>5. InitInv' /\ InitUpComplete' /\ SchemaOfRecord' /\ OneWriter'
  <2>1. \A p \in Inits : ~Writing(p) /\ ~Writing(p)'
    BY <1>1, <1>2 DEF NobodyWrites, Procs
  <2>2. OneWriter'
    BY <1>2 DEF OneWriter
  <2> QED BY <2>1, <2>2, <1>1, <1>2, InitSideKept
<1>6. ViewInv'
  <2> SUFFICES ASSUME NEW i \in Jobs
               PROVE  (txn[i].state # "none" => job[i] \in Storing)'
    BY <1>2 DEF ViewInv, Procs
  <2>1. CASE i = j
    BY <2>1, <1>2 DEF NoTxn
  <2>2. CASE i # j
    <3>1. i \in Procs /\ job'[i] = job[i]
      BY <2>2, <1>3 DEF Procs
    <3>2. txn'[i].state # "none" => Reading(i)
      BY <3>1, <1>2 DEF Reading, Writing
    <3> QED BY <3>1, <3>2 DEF DbInv, ViewInv, Reading
  <2> QED BY <2>1, <2>2
<1>7. Progress'
  BY <1>1, <1>3 DEF DbInv, Progress
<1> QED BY <1>4, <1>5, <1>6, <1>7 DEF DbInv

\* A rebuild that commits has seen the rows of every job that stored some.
LEMMA StepCommitsKeeps ==
  ASSUME DbInv, NEW j \in Jobs, StepCommits(j)
  PROVE  DbInv'
<1>1. /\ txn' = Outdated(j) /\ db' = txn[j].view /\ job' = [job EXCEPT ![j] = After[job[j]]]
      /\ Writing(j) /\ job[j] \in Storing /\ DbTypeOK /\ j \in Procs /\ j \notin Inits
      /\ UNCHANGED <<init, faults>>
  BY ProcessAssumption DEF StepCommits, Commit, Goto, DbInv, Procs
<1>2. /\ txn'[j] = NoTxn /\ \A q \in Procs : ~Writing(q)'
      /\ \A q \in Procs : Reading(q)' => Reading(q) /\ ~txn'[q].current
      /\ \A q \in Inits : ~Reading(q)'
      /\ txn' \in [Procs -> [state : {"none", "reading", "writing"}, view : Store,
                             current : BOOLEAN]]
  BY <1>1, CommitEndsWrites
<1>3. After[job[j]] \in {"items", "graph", "finish"}
  BY <1>1 DEF After, Storing
<1>4. job'[j] = After[job[j]] /\ \A i \in Jobs \ {j} : job'[i] = job[i]
  BY <1>1 DEF DbTypeOK
<1>5. db' = Stored(j, db) /\ db \in Store /\ db' \in Store
  BY <1>1 DEF DbInv, ViewInv, DbTypeOK
<1>6. /\ db'.schema = db.schema /\ db'.applied = db.applied
      /\ db'.rows = IF job[j] = "rows" THEN db.rows \cup {j} ELSE db.rows
      /\ db'.items = IF job[j] = "items" THEN db.rows ELSE db.items
      /\ db'.graph = IF job[j] = "graph" THEN db.items ELSE db.graph
  <2>1. CASE job[j] = "rows"
    BY <2>1, <1>5 DEF Stored, Store
  <2>2. CASE job[j] = "items"
    BY <2>2, <1>5 DEF Stored, Store
  <2>3. CASE job[j] = "graph"
    BY <2>3, <1>5 DEF Stored, Store
  <2> QED BY <2>1, <2>2, <2>3, <1>1 DEF Storing
<1>7. DbTypeOK'
  <2>1. job' \in [Jobs -> {"none", "queued", "finish", "failing", "done", "error"} \cup Storing]
    BY <1>1, <1>3 DEF DbTypeOK, Storing
  <2> QED BY <2>1, <1>1, <1>2, <1>5 DEF DbTypeOK
<1>8. InitInv' /\ InitUpComplete' /\ SchemaOfRecord' /\ OneWriter'
  <2>1. \A p \in Inits : ~Writing(p) /\ ~Writing(p)'
    BY <1>1, <1>2 DEF DbInv, OneWriter, Procs
  <2>2. OneWriter'
    BY <1>2 DEF OneWriter
  <2> QED BY <2>1, <2>2, <1>1, <1>2, <1>6, InitSideKept
<1>9. ViewInv'
  <2> SUFFICES ASSUME NEW i \in Jobs
               PROVE  (txn[i].state # "none" => job[i] \in Storing)'
    BY <1>2 DEF ViewInv, Procs
  <2>1. CASE i = j
    BY <2>1, <1>2 DEF NoTxn
  <2>2. CASE i # j
    <3>1. i \in Procs /\ job'[i] = job[i]
      BY <2>2, <1>4 DEF Procs
    <3>2. txn'[i].state # "none" => Reading(i)
      BY <3>1, <1>2 DEF Reading, Writing
    <3> QED BY <3>1, <3>2 DEF DbInv, ViewInv, Reading
  <2> QED BY <2>1, <2>2
<1>10. Progress'
  <2> SUFFICES ASSUME NEW i \in Jobs
               PROVE  (/\ job[i] \in {"items", "graph", "finish", "done"} => i \in db.rows
                       /\ job[i] \in {"graph", "finish", "done"} => i \in db.items
                       /\ job[i] \in {"finish", "done"} => i \in db.graph)'
    BY DEF Progress
  <2>1. /\ job[i] \in {"items", "graph", "finish", "done"} => i \in db.rows
        /\ job[i] \in {"graph", "finish", "done"} => i \in db.items
        /\ job[i] \in {"finish", "done"} => i \in db.graph
    BY DEF DbInv, Progress
  <2>2. CASE i = j
    BY <2>1, <2>2, <1>1, <1>4, <1>6 DEF After, Storing
  <2>3. CASE i # j
    BY <2>1, <2>3, <1>4, <1>6
  <2> QED BY <2>2, <2>3
<1> QED BY <1>7, <1>8, <1>9, <1>10 DEF DbInv

LEMMA JobKeeps ==
  ASSUME DbInv, NEW j \in Jobs, JobRuns(j) \/ FinishTimesOut(j) \/ JobDies(j)
  PROVE  DbInv'
<1> DEFINE T == [state : {"none", "reading", "writing"}, view : Store, current : BOOLEAN]
           Move(step, t) == txn' = [txn EXCEPT ![j] = t] /\ job' = [job EXCEPT ![j] = step]
<1>1. /\ DbTypeOK /\ j \in Procs /\ db \in Store /\ txn[j] \in T /\ faults \in 0..MaxFaults
      /\ txn = [txn EXCEPT ![j] = txn[j]] /\ job = [job EXCEPT ![j] = job[j]]
  BY DEF DbInv, DbTypeOK, Procs
<1>2. NoTxn \in T /\ NoTxn.state = "none"
  BY MigrationAssumption DEF NoTxn, Empty, Store
<1>3. CASE Claim(j)
  <2>1. txn[j].state = "none"
    BY <1>1, <1>3 DEF Claim, DbInv, ViewInv, Storing
  <2> QED BY <1>3, <2>1, JobWritesRow DEF Claim
<1>4. CASE StepReads(j)
  <2> DEFINE t == [state |-> "reading", view |-> db, current |-> TRUE]
  <2>1. t \in T /\ Move(job[j], t) /\ job[j] \in Storing
    BY <1>1, <1>4 DEF StepReads, BeginReading
  <2> QED BY <1>1, <1>4, <2>1, JobMoves DEF StepReads
<1>5. CASE StepFails(j)
  <2>1. Move("failing", NoTxn)
    BY <1>1, <1>5 DEF StepFails, Goto
  <2> QED BY <1>1, <1>2, <1>5, <2>1, JobMoves DEF StepFails
<1>6. CASE StepWrites(j)
  <2> DEFINE t == [state |-> "writing", view |-> Stored(j, txn[j].view), current |-> TRUE]
  <2>1. txn[j].view = db /\ job[j] \in Storing /\ NobodyWrites
    BY <1>6 DEF StepWrites, MayUpgrade, DbInv, ViewInv
  <2>2. Stored(j, db) \in Store
    <3>1. CASE job[j] = "rows"
      BY <3>1, <1>1 DEF Stored, Store
    <3>2. CASE job[j] = "items"
      BY <3>2, <1>1 DEF Stored, Store
    <3>3. CASE job[j] = "graph"
      BY <3>3, <1>1 DEF Stored, Store
    <3> QED BY <3>1, <3>2, <3>3, <2>1 DEF Storing
  <2>3. t \in T /\ Move(job[j], t)
    BY <1>1, <1>6, <2>1, <2>2 DEF StepWrites, Write
  <2> QED BY <1>1, <1>6, <2>1, <2>3, JobMoves DEF StepWrites
<1>7. CASE StepIsBusy(j)
  <2>1. Move("failing", NoTxn)
    BY <1>7 DEF StepIsBusy, Rollback, Goto
  <2> QED BY <1>1, <1>2, <1>7, <2>1, JobMoves DEF StepIsBusy
<1>8. CASE StepCommits(j)
  BY <1>8, StepCommitsKeeps
<1>9. CASE Finish(j)
  <2>1. txn[j].state = "none"
    BY <1>1, <1>9 DEF Finish, DbInv, ViewInv, Storing
  <2>2. CASE job[j] = "finish"
    BY <1>9, <2>1, <2>2, JobWritesRow DEF Finish
  <2>3. CASE job[j] # "finish"
    BY <1>9, <2>1, <2>3, JobWritesRow DEF Finish
  <2> QED BY <2>2, <2>3
<1>10. CASE FinishTimesOut(j)
  <2>1. Move("failing", txn[j]) /\ txn[j].state = "none"
    BY <1>1, <1>10 DEF FinishTimesOut, Goto, DbInv, ViewInv, Storing
  <2>2. faults' \in 0..MaxFaults
    BY <1>1, <1>10, MigrationAssumption DEF FinishTimesOut
  <2> QED BY <1>1, <1>10, <2>1, <2>2, JobMoves DEF FinishTimesOut
<1>11. CASE JobDies(j)
  <2>1. Move("queued", NoTxn)
    BY <1>11 DEF JobDies, Goto, Rollback
  <2>2. faults' \in 0..MaxFaults
    BY <1>1, <1>11, MigrationAssumption DEF JobDies
  <2> QED BY <1>1, <1>2, <1>11, <2>1, <2>2, JobMoves DEF JobDies
<1> QED BY <1>3, <1>4, <1>5, <1>6, <1>7, <1>8, <1>9, <1>10, <1>11 DEF JobRuns

LEMMA InitKeeps ==
  ASSUME DbInv, NEW p \in Inits,
         InitRuns(p) \/ RunAgain(p) \/ ScriptTimesOut(p) \/ InitDies(p)
  PROVE  DbInv'
<1>1. faults \in 0..MaxFaults
  BY DEF DbInv, DbTypeOK
<1>2. faults < MaxFaults => faults + 1 \in 0..MaxFaults
  BY <1>1, MigrationAssumption
<1>3. CASE ScriptFails(p) \/ RunAgain(p)
  <2>1. CASE ScriptFails(p)
    BY <1>1, <2>1, InitStops DEF ScriptFails, Due
  <2>2. CASE RunAgain(p)
    BY <1>1, <2>2, InitStops DEF RunAgain
  <2> QED BY <1>3, <2>1, <2>2
<1>4. CASE ScriptTimesOut(p)
  BY <1>2, <1>4, InitStops DEF ScriptTimesOut, Due
<1>5. CASE InitDies(p)
  BY <1>2, <1>5, InitStops DEF InitDies
<1> QED BY <1>3, <1>4, <1>5, ListAppliedKeeps, RunScriptKeeps, RecordKeeps, ComesUpKeeps
        DEF InitRuns

LEMMA DbInvIsInductive == DbInv /\ [Next]_vars => DbInv'
<1> SUFFICES ASSUME DbInv, [Next]_vars PROVE DbInv'
  OBVIOUS
<1>1. CASE Next
  BY <1>1, InitKeeps, JobKeeps DEF Next
<1>2. CASE UNCHANGED vars
  <2>1. UNCHANGED <<db, txn, init, job, faults>>
    BY <1>2 DEF vars
  <2>2. DbTypeOK' /\ SchemaOfRecord' /\ InitUpComplete'
    BY <2>1 DEF DbInv, DbTypeOK, SchemaOfRecord, InitUpComplete
  <2>3. OneWriter' /\ InitInv'
    BY <2>1 DEF DbInv, OneWriter, InitInv, Reading, Writing, Remaining, Recorded, At
  <2>4. ViewInv' /\ Progress'
    BY <2>1 DEF DbInv, ViewInv, Progress, Reading, Writing, Stored
  <2> QED BY <2>2, <2>3, <2>4 DEF DbInv
<1> QED BY <1>1, <1>2

-----------------------------------------------------------------------------
(* Theorems.                                                               *)

\* DbInv holds in every state of every behaviour.
THEOREM DbInvariant == Spec => []DbInv
BY InitEstablishes, DbInvIsInductive, PTL DEF Spec

\* The variables keep their types.
THEOREM DatabaseTyped == Spec => []DbTypeOK
<1>1. DbInv => DbTypeOK
  BY DEF DbInv
<1> QED BY <1>1, DbInvariant, PTL

\* Whatever fails, dies or runs twice, the schema is the one that the recorded
\* migrations make, and these are the first ones (apply_migrations).
THEOREM SchemaMatchesRecord == Spec => []SchemaOfRecord
<1>1. DbInv => SchemaOfRecord
  BY DEF DbInv
<1> QED BY <1>1, DbInvariant, PTL

\* An init-db that ends well leaves every migration applied.
THEOREM UpMeansComplete == Spec => []InitUpComplete
<1>1. DbInv => InitUpComplete
  BY DEF DbInv
<1> QED BY <1>1, DbInvariant, PTL

\* The projections of a job that is done hold its rows, however many jobs of the
\* asset rebuild them at once (transaction, rewrite_content_items_for_asset,
\* rebuild_graph_for_asset).
THEOREM DoneStaysProjected == Spec => []DoneJobProjected
<1>1. DbInv => DoneJobProjected
  BY DEF DbInv, Progress, DoneJobProjected
<1> QED BY <1>1, DbInvariant, PTL
=============================================================================
