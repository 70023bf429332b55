-------------------- MODULE SQLiteDatasetRepositoryProofs --------------------
(***************************************************************************)
(* Theorems about SQLiteDatasetRepository, for any processes, threads,     *)
(* datasets and number of migrations.  RepositoryInv is inductive, and the *)
(* safety properties are conjuncts of it or follow from it.                *)
(***************************************************************************)
EXTENDS SQLiteDatasetRepository, TLAPS

USE ProcOfAssumption, VersionAssumption, NoneAssumption
USE DEF store, thread, heard, Goto, Finish

(* The conjuncts of the invariant that speak of the state at large. *)
USE DEF AckedIsDurable, SeenIsDurable, SchemaConsistent, OpenMeansMigrated

(* The operations a thread can be asked for. *)
LEMMA OperationKinds ==
  ASSUME NEW o \in Operations
  PROVE  /\ o.kind \in {"initialize", "close", "add", "get", "list"}
         /\ o.ids \subseteq Ids
         /\ o # NoOperation
         /\ o = [kind |-> o.kind, ids |-> o.ids]
  BY DEF Operations, NoOperation

(* A database without tables is a database. *)
LEMMA EmptyIsDatabase == Empty \in Databases
  BY DEF Empty, Databases

(* Every file a release left behind, with nothing running, is a good start. *)
LEMMA InitEstablishesRepositoryInv == Init => RepositoryInv
<1> SUFFICES ASSUME Init PROVE RepositoryInv OBVIOUS
<1> USE DEF Init
<1>1. disk \in Databases /\ disk.versions = disk.tables
  <2>1. CASE disk = Empty BY <2>1, EmptyIsDatabase DEF Empty
  <2>2. ASSUME NEW n \in Migrations, NEW rows \in SUBSET Ids, disk = Released(n, rows)
        PROVE  disk \in Databases /\ disk.versions = disk.tables
    <3>1. 1 .. n \subseteq Migrations BY DEF Migrations
    <3> QED BY <2>2, <3>1 DEF Released, Databases
  <2> QED BY <2>1, <2>2 DEF Files
<1>2. TypeOK
  BY <1>1, EmptyIsDatabase DEF TypeOK, NoAnswer
<1>3. LockInv /\ WriterInv
  BY DEF LockInv, WriterInv
<1>4. ASSUME NEW t \in Threads PROVE OperationInv(t) /\ TransactionInv(t)
  BY DEF OperationInv, TransactionInv
<1> QED BY <1>1, <1>2, <1>3, <1>4 DEF RepositoryInv

(* A new call touches nothing but its own thread. *)
LEMMA CallKeepsRepositoryInv ==
  ASSUME RepositoryInv, NEW t \in Threads, Call(t)
  PROVE  RepositoryInv'
<1> USE DEF Call, RepositoryInv
<1>1. TypeOK' BY DEF TypeOK
<1>2. LockInv' BY DEF LockInv, TypeOK
<1>3. WriterInv' BY DEF WriterInv, LockInv, TypeOK, TransactionInv
<1>4. ASSUME NEW u \in Threads PROVE OperationInv(u)'
  BY OperationKinds DEF OperationInv, TypeOK
<1>5. ASSUME NEW u \in Threads PROVE TransactionInv(u)'
  BY DEF TransactionInv, TypeOK, LockInv, OperationInv, WriterInv
<1>6. AckedIsDurable' /\ SeenIsDurable'
  BY DEF TypeOK, OperationInv, TransactionInv
<1>7. SchemaConsistent' /\ OpenMeansMigrated'
  BY DEF TypeOK, OperationInv, TransactionInv
<1> QED BY <1>1, <1>2, <1>3, <1>4, <1>5, <1>6, <1>7

(* The lock is taken when nobody in the process holds it. *)
LEMMA AcquireKeepsRepositoryInv ==
  ASSUME RepositoryInv, NEW t \in Threads, Acquire(t)
  PROVE  RepositoryInv'
<1> USE DEF Acquire, Dispatch, RepositoryInv
<1>1. TypeOK'
  BY OperationKinds
     DEF TypeOK, OperationInv, Operations, NoOperation, NoAnswer, Databases,
       Migrations
<1>2. LockInv' BY DEF LockInv, TypeOK
<1>3. WriterInv' BY DEF WriterInv, LockInv, TypeOK, TransactionInv
<1>4. ASSUME NEW u \in Threads PROVE OperationInv(u)'
  <2>1. CASE u # t BY DEF OperationInv, TypeOK
  <2>2. CASE u = t
    <3>1. op[t] \in Operations /\ answer[t] = NoAnswer
      BY DEF OperationInv, TypeOK
    <3>2. CASE pc'[t] = "leave"
      <4>1. answer'[t].status # "none" /\ answer'[t].rows = {}
            /\ (op[t].kind = "add" => answer'[t].status = "error")
        BY <3>2 DEF TypeOK
      <4> QED BY <2>2, <3>2, <4>1 DEF OperationInv
    <3>3. CASE pc'[t] # "leave"
      BY DEF OperationInv, TypeOK
    <3> QED BY <3>2, <3>3
  <2> QED BY <2>1, <2>2
<1>5. ASSUME NEW u \in Threads PROVE TransactionInv(u)'
  BY DEF TransactionInv, TypeOK, LockInv, OperationInv, WriterInv
<1>6. AckedIsDurable' /\ SeenIsDurable'
  BY DEF TypeOK, OperationInv, TransactionInv
<1>7. SchemaConsistent' /\ OpenMeansMigrated'
  BY DEF TypeOK, OperationInv, TransactionInv
<1> QED BY <1>1, <1>2, <1>3, <1>4, <1>5, <1>6, <1>7

(* Connecting leaves the database alone. *)
LEMMA ConnectKeepsRepositoryInv ==
  ASSUME RepositoryInv, NEW t \in Threads, Connect(t)
  PROVE  RepositoryInv'
<1> USE DEF Connect, RepositoryInv
<1>1. TypeOK' BY DEF TypeOK
<1>2. LockInv' BY DEF LockInv, TypeOK
<1>3. WriterInv' BY DEF WriterInv, LockInv, TypeOK, TransactionInv
<1>4. ASSUME NEW u \in Threads PROVE OperationInv(u)' BY DEF OperationInv
<1>5. ASSUME NEW u \in Threads PROVE TransactionInv(u)'
  BY DEF TransactionInv, TypeOK, LockInv, OperationInv, WriterInv
<1>6. AckedIsDurable' /\ SeenIsDurable'
  BY DEF TypeOK, OperationInv, TransactionInv
<1>7. SchemaConsistent' /\ OpenMeansMigrated'
  BY DEF TypeOK, OperationInv, TransactionInv
<1> QED BY <1>1, <1>2, <1>3, <1>4, <1>5, <1>6, <1>7

(* The migration transaction starts from the committed database. *)
LEMMA BeginKeepsRepositoryInv ==
  ASSUME RepositoryInv, NEW t \in Threads, Begin(t)
  PROVE  RepositoryInv'
<1> USE DEF Begin, Write, RepositoryInv
<1>1. TypeOK' BY DEF TypeOK
<1>2. LockInv' BY DEF LockInv, TypeOK
<1>3. WriterInv' BY DEF WriterInv, LockInv, TypeOK, TransactionInv
<1>4. ASSUME NEW u \in Threads PROVE OperationInv(u)' BY DEF OperationInv
<1>5. ASSUME NEW u \in Threads PROVE TransactionInv(u)'
  BY DEF TransactionInv, TypeOK, LockInv, OperationInv, WriterInv
<1>6. AckedIsDurable' /\ SeenIsDurable'
  BY DEF TypeOK, OperationInv, TransactionInv
<1>7. SchemaConsistent' /\ OpenMeansMigrated'
  BY DEF TypeOK, OperationInv, TransactionInv
<1> QED BY <1>1, <1>2, <1>3, <1>4, <1>5, <1>6, <1>7

(* A migration's table and its record are added together. *)
LEMMA MigrateKeepsRepositoryInv ==
  ASSUME RepositoryInv, NEW t \in Threads, Migrate(t)
  PROVE  RepositoryInv'
<1> USE DEF RepositoryInv
<1>1. /\ pc[t] = "migrate" /\ writer = ProcOf[t] /\ op[t].kind = "initialize"
      /\ work.rows = disk.rows /\ disk.versions \subseteq work.versions
      /\ work.versions = work.tables
      /\ lock[ProcOf[t]] = t
  BY DEF Migrate, OperationInv, TransactionInv, LockInv
<1>2. CASE Pending = {}
  <2>1. /\ pc' = [pc EXCEPT ![t] = "commit"]
        /\ UNCHANGED <<disk, writer, work, opened, lock, op, answer, acked, seen>>
        /\ Migrations \subseteq work.versions
    BY <1>2 DEF Migrate, Pending
  <2> USE <2>1, <1>1
  <2>2. TypeOK' BY DEF TypeOK
  <2>3. LockInv' BY DEF LockInv, TypeOK
  <2>4. WriterInv' BY DEF WriterInv, TypeOK
  <2>5. ASSUME NEW u \in Threads PROVE OperationInv(u)'
    BY DEF OperationInv, TypeOK
  <2>6. ASSUME NEW u \in Threads PROVE TransactionInv(u)'
    BY DEF TransactionInv, TypeOK
  <2> QED BY <2>2, <2>3, <2>4, <2>5, <2>6
<1>3. ASSUME NEW v \in Migrations, Pending # {},
             work' = [work EXCEPT !.tables = @ \cup {v}, !.versions = @ \cup {v}],
             UNCHANGED <<disk, writer, opened, lock, pc, op, answer, acked, seen>>
      PROVE  RepositoryInv'
  <2> USE <1>1, <1>3
  <2>1. /\ work' \in Databases /\ work'.rows = work.rows
        /\ work'.versions = work.versions \cup {v} /\ work'.tables = work.tables \cup {v}
    BY DEF TypeOK, Databases
  <2>2. TypeOK' BY <2>1 DEF TypeOK
  <2>3. LockInv' BY DEF LockInv
  <2>4. WriterInv' BY DEF WriterInv, TypeOK
  <2>5. ASSUME NEW u \in Threads PROVE OperationInv(u)'
    BY DEF OperationInv
  <2>6. ASSUME NEW u \in Threads PROVE TransactionInv(u)'
    <3>1. CASE u = t BY <3>1 DEF TransactionInv
    <3>2. CASE u # t BY DEF TransactionInv, LockInv
    <3> QED BY <3>1, <3>2
  <2> QED BY <2>2, <2>3, <2>4, <2>5, <2>6
<1> QED BY <1>1, <1>2, <1>3 DEF Migrate, Write, Pending

(* The connection is published after the schema was committed. *)
LEMMA PublishKeepsRepositoryInv ==
  ASSUME RepositoryInv, NEW t \in Threads, Publish(t)
  PROVE  RepositoryInv'
<1> USE DEF Publish, RepositoryInv
<1>1. TypeOK' BY DEF TypeOK
<1>2. LockInv' BY DEF LockInv, TypeOK
<1>3. WriterInv' BY DEF WriterInv, LockInv, TypeOK, TransactionInv
<1>4. ASSUME NEW u \in Threads PROVE OperationInv(u)'
  BY DEF OperationInv, TypeOK
<1>5. ASSUME NEW u \in Threads PROVE TransactionInv(u)'
  BY DEF TransactionInv, TypeOK, LockInv, OperationInv, WriterInv
<1>6. AckedIsDurable' /\ SeenIsDurable'
  BY DEF TypeOK, OperationInv, TransactionInv
<1>7. SchemaConsistent' /\ OpenMeansMigrated'
  BY DEF TypeOK, OperationInv, TransactionInv
<1> QED BY <1>1, <1>2, <1>3, <1>4, <1>5, <1>6, <1>7

(* Closing ends no transaction of anybody else. *)
LEMMA CloseKeepsRepositoryInv ==
  ASSUME RepositoryInv, NEW t \in Threads, Close(t)
  PROVE  RepositoryInv'
<1> USE DEF Close, Rollback, EndTransaction, RepositoryInv
<1>1. TypeOK' BY DEF TypeOK, Databases, Empty
<1>2. LockInv' BY DEF LockInv, TypeOK
<1>3. WriterInv' BY DEF WriterInv, LockInv, TypeOK, TransactionInv
<1>4. ASSUME NEW u \in Threads PROVE OperationInv(u)'
  BY DEF OperationInv, TypeOK
<1>5. ASSUME NEW u \in Threads PROVE TransactionInv(u)'
  BY DEF TransactionInv, TypeOK, LockInv, OperationInv, WriterInv
<1>6. AckedIsDurable' /\ SeenIsDurable'
  BY DEF TypeOK, OperationInv, TransactionInv
<1>7. SchemaConsistent' /\ OpenMeansMigrated'
  BY DEF TypeOK, OperationInv, TransactionInv
<1> QED BY <1>1, <1>2, <1>3, <1>4, <1>5, <1>6, <1>7

(* An insert opens a transaction that adds one row, or is rolled back. *)
LEMMA InsertKeepsRepositoryInv ==
  ASSUME RepositoryInv, NEW t \in Threads, Insert(t)
  PROVE  RepositoryInv'
<1> USE DEF Insert, Rollback, EndTransaction, Write, View, RepositoryInv
<1>1. TypeOK'
  <2>1. op[t].ids \subseteq Ids BY OperationKinds DEF TypeOK, NoOperation
  <2>2. [View(ProcOf[t]) EXCEPT !.rows = @ \cup op[t].ids] \in Databases
    BY <2>1 DEF TypeOK, Databases
  <2>3. work' \in Databases /\ writer' \in Procs \cup {NoProc} /\ UNCHANGED disk
    <3>1. \/ work' = [View(ProcOf[t]) EXCEPT !.rows = @ \cup op[t].ids]
          \/ work' = work \/ work' = Empty
      OBVIOUS
    <3>2. UNCHANGED disk /\ writer' \in {ProcOf[t], NoProc, writer} OBVIOUS
    <3>3. work \in Databases /\ writer \in Procs \cup {NoProc} /\ ProcOf[t] \in Procs
      BY DEF TypeOK
    <3>4. work' \in Databases BY ONLY <2>2, <3>1, <3>3, EmptyIsDatabase
    <3>5. writer' \in Procs \cup {NoProc} BY ONLY <3>2, <3>3
    <3> QED BY <3>2, <3>4, <3>5
  <2>4. pc' \in [Threads -> {"idle", "called", "connect", "begin", "migrate",
                            "publish", "close", "insert", "commit",
                            "select", "leave"}]
    BY DEF TypeOK
  <2>5. answer' \in [Threads -> [status : {"none", "ok", "IntegrityError", "error"},
                                rows   : SUBSET Ids]]
    BY DEF TypeOK
  <2> QED BY <2>3, <2>5 DEF TypeOK
<1>2. LockInv' BY DEF LockInv, TypeOK
<1>3. WriterInv' BY DEF WriterInv, LockInv, TypeOK, TransactionInv
<1>4. ASSUME NEW u \in Threads PROVE OperationInv(u)'
  <2>1. CASE u # t BY DEF OperationInv, TypeOK
  <2>2. CASE u = t
    <3>1. op[t].kind = "add" /\ op[t] # NoOperation /\ answer[t] = NoAnswer
      BY DEF OperationInv
    <3>2. CASE pc'[t] = "leave"
      <4>1. answer'[t] = [status |-> "IntegrityError", rows |-> {}]
        BY <3>2 DEF TypeOK
      <4> QED BY <2>2, <3>2, <4>1 DEF OperationInv
    <3>3. CASE pc'[t] = "commit" /\ UNCHANGED answer
      BY <2>2, <3>3 DEF OperationInv
    <3> QED BY <3>2, <3>3 DEF TypeOK
  <2> QED BY <2>1, <2>2
<1>5. ASSUME NEW u \in Threads PROVE TransactionInv(u)'
  BY DEF TransactionInv, TypeOK, LockInv, OperationInv, WriterInv
<1>6. AckedIsDurable' /\ SeenIsDurable'
  BY DEF TypeOK, OperationInv, TransactionInv
<1>7. SchemaConsistent' /\ OpenMeansMigrated'
  BY DEF TypeOK, OperationInv, TransactionInv
<1> QED BY <1>1, <1>2, <1>3, <1>4, <1>5, <1>6, <1>7

(* What a commit makes of the database: more of everything, and what the   *)
(* operation was about.                                                    *)
LEMMA CommitExtendsDisk ==
  ASSUME RepositoryInv, NEW t \in Threads, Commit(t)
  PROVE  /\ disk' = work
         /\ disk.rows \subseteq disk'.rows /\ disk.versions \subseteq disk'.versions
         /\ disk'.versions = disk'.tables
         /\ op[t].kind = "add" => op[t].ids \subseteq disk'.rows
         /\ op[t].kind = "initialize" => Migrations \subseteq disk'.versions
<1> USE DEF RepositoryInv, Commit
<1>1. writer = ProcOf[t] /\ disk' = work BY DEF TransactionInv, View
<1>2. CASE op[t].kind = "add"
  <2>1. work = [disk EXCEPT !.rows = @ \cup op[t].ids]
    BY <1>2 DEF TransactionInv
  <2>2. work.rows = disk.rows \cup op[t].ids /\ work.versions = disk.versions
        /\ work.tables = disk.tables
    BY <2>1 
  <2> QED BY <1>1, <1>2, <2>2
<1>3. CASE op[t].kind = "initialize" BY <1>1, <1>3 DEF TransactionInv
<1> QED BY <1>2, <1>3 DEF OperationInv

(* A commit extends the database and gives the write lock back. *)
LEMMA CommitKeepsRepositoryInv ==
  ASSUME RepositoryInv, NEW t \in Threads, Commit(t)
  PROVE  RepositoryInv'
<1> USE DEF Commit, EndTransaction, View, RepositoryInv
<1>0. /\ disk' = work
      /\ disk.rows \subseteq disk'.rows /\ disk.versions \subseteq disk'.versions
      /\ disk'.versions = disk'.tables
      /\ op[t].kind = "add" => op[t].ids \subseteq disk'.rows
      /\ op[t].kind = "initialize" => Migrations \subseteq disk'.versions
  BY CommitExtendsDisk
<1>1. TypeOK'
  BY OperationKinds
     DEF TypeOK, OperationInv, NoOperation, NoAnswer, Databases, Empty,
       Migrations
<1>2. LockInv' BY DEF LockInv, TypeOK
<1>3. WriterInv' BY DEF WriterInv, LockInv, TypeOK, TransactionInv
<1>4. ASSUME NEW u \in Threads PROVE OperationInv(u)'
  <2>1. CASE u # t BY <1>0 DEF OperationInv, TypeOK
  <2>2. CASE u = t
    <3>1. op[t] # NoOperation /\ answer[t] = NoAnswer BY DEF OperationInv
    <3>2. CASE op[t].kind = "initialize"
      BY <1>0 DEF OperationInv, TypeOK
    <3>3. CASE op[t].kind = "add"
      <4>1. pc'[t] = "leave" /\ answer'[t] = [status |-> "ok", rows |-> {}]
        BY <3>3 DEF TypeOK
      <4> QED BY <1>0, <2>2, <4>1 DEF OperationInv
    <3> QED BY <3>2, <3>3 DEF OperationInv
  <2> QED BY <2>1, <2>2
<1>5. ASSUME NEW u \in Threads PROVE TransactionInv(u)'
  BY DEF TransactionInv, TypeOK, LockInv, OperationInv, WriterInv
<1>6. AckedIsDurable' /\ SeenIsDurable' BY <1>0
<1>7. SchemaConsistent' /\ OpenMeansMigrated' BY <1>0
<1> QED BY <1>1, <1>2, <1>3, <1>4, <1>5, <1>6, <1>7

(* A reader holds the lock, so its connection has no transaction open and it*)
(* sees the committed rows.                                                *)
LEMMA SelectKeepsRepositoryInv ==
  ASSUME RepositoryInv, NEW t \in Threads, Select(t)
  PROVE  RepositoryInv'
<1> USE DEF Select, View, RepositoryInv
<1>1. TypeOK' BY DEF TypeOK, Databases
<1>2. LockInv' BY DEF LockInv, TypeOK
<1>3. WriterInv' BY DEF WriterInv, LockInv, TypeOK, TransactionInv
<1>4. ASSUME NEW u \in Threads PROVE OperationInv(u)'
  <2>1. CASE u # t BY <2>1 DEF OperationInv
  <2>2. CASE u = t
    <3>1. writer # ProcOf[t] BY DEF WriterInv, LockInv, TypeOK
    <3>2. answer'[t] = [status |-> "ok", rows |-> op[t].ids \cap disk.rows]
      BY <3>1 DEF TypeOK
    <3>3. op[t].kind \in {"get", "list"} /\ op[t] # NoOperation
      BY DEF OperationInv
    <3> QED BY <3>2 DEF OperationInv, TypeOK
  <2> QED BY <2>1, <2>2
<1>5. ASSUME NEW u \in Threads PROVE TransactionInv(u)'
  BY DEF TransactionInv, TypeOK, LockInv, OperationInv, WriterInv
<1>6. AckedIsDurable' /\ SeenIsDurable'
  BY DEF TypeOK, OperationInv, TransactionInv
<1>7. SchemaConsistent' /\ OpenMeansMigrated'
  BY DEF TypeOK, OperationInv, TransactionInv
<1> QED BY <1>1, <1>2, <1>3, <1>4, <1>5, <1>6, <1>7

(* A failing statement takes its transaction with it. *)
LEMMA StatementFailsKeepsRepositoryInv ==
  ASSUME RepositoryInv, NEW t \in Threads, StatementFails(t)
  PROVE  RepositoryInv'
<1> USE DEF StatementFails, Rollback, EndTransaction, RepositoryInv
<1>1. TypeOK' BY DEF TypeOK, Databases, Empty
<1>2. LockInv' BY DEF LockInv, TypeOK
<1>3. WriterInv' BY DEF WriterInv, LockInv, TypeOK, TransactionInv
<1>4. ASSUME NEW u \in Threads PROVE OperationInv(u)'
  BY DEF OperationInv, TypeOK
<1>5. ASSUME NEW u \in Threads PROVE TransactionInv(u)'
  BY DEF TransactionInv, TypeOK, LockInv, OperationInv, WriterInv
<1>6. AckedIsDurable' /\ SeenIsDurable'
  BY DEF TypeOK, OperationInv, TransactionInv
<1>7. SchemaConsistent' /\ OpenMeansMigrated'
  BY DEF TypeOK, OperationInv, TransactionInv
<1> QED BY <1>1, <1>2, <1>3, <1>4, <1>5, <1>6, <1>7

(* What the caller hears is already committed. *)
LEMMA LeaveKeepsRepositoryInv ==
  ASSUME RepositoryInv, NEW t \in Threads, Leave(t)
  PROVE  RepositoryInv'
<1> USE DEF Leave, RepositoryInv
<1>1. TypeOK' BY OperationKinds DEF TypeOK, NoOperation, NoAnswer
<1>2. LockInv' BY DEF LockInv, TypeOK
<1>3. WriterInv' BY DEF WriterInv, LockInv, TypeOK, TransactionInv
<1>4. ASSUME NEW u \in Threads PROVE OperationInv(u)'
  BY DEF OperationInv, TypeOK
<1>5. ASSUME NEW u \in Threads PROVE TransactionInv(u)'
  BY DEF TransactionInv, TypeOK, LockInv, OperationInv, WriterInv
<1>6. AckedIsDurable' /\ SeenIsDurable'
  BY DEF TypeOK, OperationInv, TransactionInv
<1>7. SchemaConsistent' /\ OpenMeansMigrated'
  BY DEF TypeOK, OperationInv, TransactionInv
<1> QED BY <1>1, <1>2, <1>3, <1>4, <1>5, <1>6, <1>7

(* A crash takes the threads of its process out of their operations; the   *)
(* transaction it loses was theirs.                                        *)
LEMMA CrashKeepsRepositoryInv ==
  ASSUME RepositoryInv, NEW p \in Procs, Crash(p)
  PROVE  RepositoryInv'
<1> USE DEF Crash, Rollback, EndTransaction, RepositoryInv
<1>1. TypeOK' BY EmptyIsDatabase DEF TypeOK, NoAnswer
<1>2. LockInv' BY DEF LockInv, TypeOK
<1>3. WriterInv' BY DEF WriterInv, LockInv, TypeOK
<1>4. ASSUME NEW u \in Threads PROVE OperationInv(u)'
  BY DEF OperationInv, TypeOK
<1>5. ASSUME NEW u \in Threads PROVE TransactionInv(u)'
  BY DEF TransactionInv, TypeOK
<1>6. UNCHANGED <<disk, acked, seen>> OBVIOUS
<1>7. OpenMeansMigrated' BY DEF TypeOK
<1> QED BY <1>1, <1>2, <1>3, <1>4, <1>5, <1>6, <1>7

(* Every step keeps the invariant. *)
LEMMA NextKeepsRepositoryInv ==
  RepositoryInv /\ [Next]_vars => RepositoryInv'
<1> SUFFICES ASSUME RepositoryInv, [Next]_vars PROVE RepositoryInv' OBVIOUS
<1>1. CASE UNCHANGED vars
  BY <1>1 DEF vars, RepositoryInv, TypeOK, LockInv, WriterInv, OperationInv,
     TransactionInv
<1>2. ASSUME NEW t \in Threads, Call(t) \/ Acquire(t) \/ Step(t)
      PROVE  RepositoryInv'
    BY <1>2, CallKeepsRepositoryInv, AcquireKeepsRepositoryInv,
      ConnectKeepsRepositoryInv,
     BeginKeepsRepositoryInv, MigrateKeepsRepositoryInv, PublishKeepsRepositoryInv,
     CloseKeepsRepositoryInv, InsertKeepsRepositoryInv, CommitKeepsRepositoryInv,
     SelectKeepsRepositoryInv, StatementFailsKeepsRepositoryInv,
     LeaveKeepsRepositoryInv DEF Step
<1> QED BY <1>1, <1>2, CrashKeepsRepositoryInv DEF Next

(* RepositoryInv holds in every reachable state. *)
THEOREM RepositoryInvariance == Spec => []RepositoryInv
  BY InitEstablishesRepositoryInv, NextKeepsRepositoryInv, PTL DEF Spec

(* The catalog is well typed, in whatever way processes interleave, fail   *)
(* and crash.                                                              *)
THEOREM TypeCorrectness == Spec => []TypeOK
<1>1. RepositoryInv => TypeOK BY DEF RepositoryInv
<1> QED BY RepositoryInvariance, <1>1, PTL

(* No acknowledged registration is ever lost. *)
THEOREM Durability == Spec => []AckedIsDurable
<1>1. RepositoryInv => AckedIsDurable BY DEF RepositoryInv
<1> QED BY RepositoryInvariance, <1>1, PTL

(* Nobody is ever shown a dataset that is not committed. *)
THEOREM NoDirtyReads == Spec => []SeenIsDurable
<1>1. RepositoryInv => SeenIsDurable BY DEF RepositoryInv
<1> QED BY RepositoryInvariance, <1>1, PTL

(* In every committed state, the recorded migrations are those whose       *)
(* tables exist.                                                           *)
THEOREM MigrationAtomicity == Spec => []SchemaConsistent
<1>1. RepositoryInv => SchemaConsistent BY DEF RepositoryInv
<1> QED BY RepositoryInvariance, <1>1, PTL

(* An open repository has the whole schema. *)
THEOREM OpenIsMigrated == Spec => []OpenMeansMigrated
<1>1. RepositoryInv => OpenMeansMigrated BY DEF RepositoryInv
<1> QED BY RepositoryInvariance, <1>1, PTL

(* A write transaction is open only inside an operation. *)
THEOREM TransactionsEnd == Spec => []NoOrphanTransaction
<1>1. RepositoryInv => NoOrphanTransaction
  BY DEF RepositoryInv, WriterInv, NoOrphanTransaction
<1> QED BY RepositoryInvariance, <1>1, PTL

(* What is committed stays committed: only Commit changes the database,    *)
(* and the transaction it commits has only added to it.                    *)
THEOREM CommittedStays == Spec => NothingCommittedIsLost
<1>1. RepositoryInv /\ [Next]_vars =>
        [/\ disk.rows \subseteq disk'.rows
         /\ disk.tables \subseteq disk'.tables
         /\ disk.versions \subseteq disk'.versions]_vars
  <2> SUFFICES ASSUME RepositoryInv, Next
               PROVE  /\ disk.rows \subseteq disk'.rows
                      /\ disk.tables \subseteq disk'.tables
                      /\ disk.versions \subseteq disk'.versions
    OBVIOUS
  <2>1. ASSUME NEW t \in Threads, Commit(t)
        PROVE  /\ disk.rows \subseteq disk'.rows
               /\ disk.tables \subseteq disk'.tables
               /\ disk.versions \subseteq disk'.versions
    BY <2>1, CommitExtendsDisk DEF RepositoryInv
  <2>2. CASE \A t \in Threads : ~Commit(t)
    <3>1. UNCHANGED disk
        BY <2>2
           DEF Next, Step, Crash, Call, Acquire, Connect, Begin, Migrate,
             Publish,
         Close, Insert, Select, StatementFails, Leave, Rollback, Write
    <3> QED BY <3>1
  <2> QED BY <2>1, <2>2
<1> QED BY RepositoryInvariance, <1>1, PTL DEF Spec, NothingCommittedIsLost

------------------------------------------------------------------------------
(* Refinement of DatasetCatalog. *)

(* An operation's step that changes neither the rows nor what its client   *)
(* sees is a stutter.                                                      *)
LEMMA CatalogStutter ==
  ASSUME NEW t \in Threads, TypeOK, ~IsRequest(t), ~IsRequest(t)',
         disk'.rows = disk.rows,
         \A u \in Threads \ {t} : op'[u] = op[u] /\ answer'[u] = answer[u]
  PROVE  UNCHANGED Catalog!vars
  BY DEF Catalog!vars, requested, answered, IsRequest

(* One thread's request or answer changes, and nothing of the others'.     *)
LEMMA OneThreadMoves ==
  ASSUME NEW t \in Threads, TypeOK, NEW r, NEW a,
         requested'[t] = r, answered'[t] = a,
         \A u \in Threads \ {t} : op'[u] = op[u] /\ answer'[u] = answer[u]
  PROVE  /\ requested' = [requested EXCEPT ![t] = r]
         /\ answered'  = [answered EXCEPT ![t] = a]
<1>1. \A u \in Threads \ {t} : requested'[u] = requested[u] /\ answered'[u] = answered[u]
  BY DEF requested, answered, IsRequest
<1> QED BY <1>1 DEF requested, answered

(* A fresh or inherited file is an initial state of the catalog. *)
LEMMA CatalogInit == Init => Catalog!Init
<1> SUFFICES ASSUME Init PROVE Catalog!Init OBVIOUS
<1>1. disk.rows \in SUBSET Ids
  BY InitEstablishesRepositoryInv DEF RepositoryInv, TypeOK, Databases
<1> QED
  BY <1>1 DEF Init, Catalog!Init, requested, answered, IsRequest, NoOperation,
          NoAnswer, Catalog!NoRequest, Catalog!NoAnswer

(* A call of add, get or list is a request; initialize and close are not. *)
LEMMA CallIsRequest ==
  ASSUME RepositoryInv, NEW t \in Threads, Call(t)
  PROVE  [Catalog!Next]_(Catalog!vars)
<1> USE DEF Call, RepositoryInv
<1>1. PICK o \in Operations : op' = [op EXCEPT ![t] = o] OBVIOUS
<1>2. op[t] = NoOperation /\ answer[t] = NoAnswer /\ op'[t] = o
      /\ \A u \in Threads \ {t} : op'[u] = op[u] /\ answer'[u] = answer[u]
  BY <1>1 DEF OperationInv, TypeOK
<1>3. CASE o.kind \in {"initialize", "close"}
  BY <1>2, <1>3, CatalogStutter DEF IsRequest, NoOperation
<1>4. CASE o.kind \in {"add", "get", "list"}
  <2>1. requested[t] = NoOperation /\ requested'[t] = o
        /\ answered[t] = NoAnswer /\ answered'[t] = NoAnswer
    BY <1>2, <1>4 DEF requested, answered, IsRequest, NoOperation
  <2>2. o \in Catalog!Requests BY <1>4 DEF Operations, Catalog!Requests
  <2>3. requested' = [requested EXCEPT ![t] = o] /\ answered' = [answered EXCEPT ![t] = NoAnswer]
    BY <1>2, <2>1, OneThreadMoves
  <2>4. UNCHANGED answered BY <2>1, <2>3 DEF answered
  <2>5. Catalog!Request(t)
      BY <2>1, <2>2, <2>3, <2>4
         DEF Catalog!Request, NoOperation, Catalog!NoRequest
  <2> QED BY <2>5 DEF Catalog!Next
<1> QED BY <1>3, <1>4, OperationKinds

(* An answer that a request of t gets.                                     *)
LEMMA AnswerGiven ==
  ASSUME RepositoryInv, NEW t \in Threads, IsRequest(t), pc[t] # "leave",
         NEW status, NEW found, UNCHANGED op,
         answer' = [answer EXCEPT ![t] = [status |-> status, rows |-> found]]
  PROVE  /\ requested[t] = op[t] /\ answered[t] = NoAnswer
         /\ UNCHANGED requested
         /\ answered' = [answered EXCEPT ![t] = [status |-> status, rows |-> found]]
<1> USE DEF RepositoryInv
<1>1. answer[t] = NoAnswer BY DEF OperationInv
<1>2. UNCHANGED requested BY DEF requested, IsRequest
<1>3. /\ \A u \in Threads \ {t} : op'[u] = op[u] /\ answer'[u] = answer[u]
      /\ answered'[t] = [status |-> status, rows |-> found]
  BY DEF TypeOK, answered, IsRequest
<1>4. answered' = [answered EXCEPT ![t] = [status |-> status, rows |-> found]]
  BY <1>2, <1>3, OneThreadMoves
<1> QED BY <1>1, <1>2, <1>4 DEF requested, answered

(* A request that raises is one the catalog failed. *)
LEMMA RequestFails ==
  ASSUME RepositoryInv, NEW t \in Threads, pc[t] # "leave", IsRequest(t),
         Finish(t, "error", {}), UNCHANGED <<disk, op>>
  PROVE  [Catalog!Next]_(Catalog!vars)
<1>1. Catalog!Fail(t)
  BY AnswerGiven DEF Catalog!Fail, Catalog!Waiting, Catalog!Reply, IsRequest,
     NoAnswer, Catalog!NoAnswer
<1> QED BY <1>1 DEF Catalog!Next

(* A step that leaves op, answer and the rows alone is a stutter. *)
LEMMA InternalStep ==
  ASSUME UNCHANGED <<op, answer>>, disk'.rows = disk.rows
  PROVE  UNCHANGED Catalog!vars
  BY DEF Catalog!vars, requested, answered, IsRequest

(* So is one that ends an initialize or a close.                           *)
LEMMA HostStep ==
  ASSUME RepositoryInv, NEW t \in Threads, ~IsRequest(t), NEW status,
         Finish(t, status, {}), UNCHANGED op, disk'.rows = disk.rows
  PROVE  UNCHANGED Catalog!vars
  BY CatalogStutter DEF RepositoryInv, TypeOK, IsRequest

(* Taking the lock is a stutter, unless the repository is not open. *)
LEMMA AcquireRefines ==
  ASSUME RepositoryInv, NEW t \in Threads, Acquire(t)
  PROVE  [Catalog!Next]_(Catalog!vars)
<1>1. pc[t] = "called" /\ UNCHANGED <<disk, op>> BY DEF Acquire
<1>2. CASE UNCHANGED answer BY <1>1, <1>2, InternalStep
<1>3. CASE op[t].kind = "initialize" /\ Finish(t, "ok", {})
  BY <1>1, <1>3, HostStep DEF IsRequest
<1>4. CASE op[t].kind \in {"add", "get", "list"} /\ Finish(t, "error", {})
  BY <1>1, <1>4, RequestFails DEF IsRequest
<1> QED BY <1>2, <1>3, <1>4 DEF Acquire, Dispatch

(* An insert is a stutter, unless the key is taken. *)
LEMMA InsertRefines ==
  ASSUME RepositoryInv, NEW t \in Threads, Insert(t)
  PROVE  [Catalog!Next]_(Catalog!vars)
<1>1. /\ pc[t] = "insert" /\ UNCHANGED <<disk, op>> /\ op[t].kind = "add"
      /\ View(ProcOf[t]) = disk
    BY
       DEF Insert, Rollback, Write, RepositoryInv, OperationInv, WriterInv,
         LockInv, View
<1>2. CASE UNCHANGED answer BY <1>1, <1>2, InternalStep
<1>3. CASE op[t].ids \subseteq disk.rows /\ Finish(t, "IntegrityError", {})
  <2>1. Catalog!Store(t)
      BY <1>1, <1>3, AnswerGiven
         DEF Catalog!Store, Catalog!Waiting, Catalog!Reply,
       IsRequest, NoAnswer, Catalog!NoAnswer
  <2> QED BY <2>1 DEF Catalog!Next
<1> QED BY <1>1, <1>2, <1>3 DEF Insert

(* A select is the moment at which a get or a list takes effect. *)
LEMMA SelectRefines ==
  ASSUME RepositoryInv, NEW t \in Threads, Select(t)
  PROVE  [Catalog!Next]_(Catalog!vars)
<1>1. /\ pc[t] = "select" /\ UNCHANGED <<disk, op>> /\ op[t].kind \in {"get", "list"}
      /\ View(ProcOf[t]) = disk
  BY DEF Select, RepositoryInv, OperationInv, WriterInv, LockInv, View
<1>2. Finish(t, "ok", op[t].ids \cap disk.rows) BY <1>1 DEF Select
<1>3. Catalog!Read(t)
  BY <1>1, <1>2, AnswerGiven DEF Catalog!Read, Catalog!Waiting, Catalog!Reply,
     IsRequest, NoAnswer, Catalog!NoAnswer
<1> QED BY <1>3 DEF Catalog!Next

(* The commit of an add is the moment at which it takes effect. *)
LEMMA CommitRefines ==
  ASSUME RepositoryInv, NEW t \in Threads, Commit(t)
  PROVE  [Catalog!Next]_(Catalog!vars)
<1>1. /\ pc[t] = "commit" /\ UNCHANGED op /\ disk' = work
      /\ op[t].kind \in {"initialize", "add"}
  BY CommitExtendsDisk DEF Commit, RepositoryInv, OperationInv
<1>2. CASE op[t].kind = "initialize"
  <2>1. UNCHANGED answer /\ disk'.rows = disk.rows
    BY <1>1, <1>2 DEF Commit, RepositoryInv, TransactionInv
  <2> QED BY <1>1, <2>1, InternalStep
<1>3. CASE op[t].kind = "add"
  <2>1. /\ disk'.rows = disk.rows \cup op[t].ids
        /\ ~(op[t].ids \subseteq disk.rows)
    BY <1>1, <1>3 DEF RepositoryInv, TransactionInv, TypeOK, Databases
  <2>2. Finish(t, "ok", {}) BY <1>3 DEF Commit
  <2>3. Catalog!Store(t)
    BY <1>1, <1>3, <2>1, <2>2, AnswerGiven DEF Catalog!Store, Catalog!Waiting,
       Catalog!Reply, IsRequest, NoAnswer, Catalog!NoAnswer
  <2> QED BY <2>3 DEF Catalog!Next
<1> QED BY <1>1, <1>2, <1>3

(* A failing statement fails the request, if there is one. *)
LEMMA StatementFailsRefines ==
  ASSUME RepositoryInv, NEW t \in Threads, StatementFails(t)
  PROVE  [Catalog!Next]_(Catalog!vars)
<1>1. pc[t] # "leave" /\ Finish(t, "error", {}) /\ UNCHANGED <<disk, op>>
  BY DEF StatementFails, Rollback
<1>2. CASE IsRequest(t) BY <1>1, <1>2, RequestFails
<1>3. CASE ~IsRequest(t) BY <1>1, <1>3, HostStep
<1> QED BY <1>2, <1>3

(* Releasing the lock returns the answer. *)
LEMMA LeaveRefines ==
  ASSUME RepositoryInv, NEW t \in Threads, Leave(t)
  PROVE  [Catalog!Next]_(Catalog!vars)
<1> USE DEF RepositoryInv
<1>1. /\ pc[t] = "leave" /\ UNCHANGED disk
      /\ op' = [op EXCEPT ![t] = NoOperation] /\ answer' = [answer EXCEPT ![t] = NoAnswer]
  BY DEF Leave
<1>2. /\ op'[t] = NoOperation /\ answer'[t] = NoAnswer
      /\ \A u \in Threads \ {t} : op'[u] = op[u] /\ answer'[u] = answer[u]
  BY <1>1 DEF TypeOK
<1>3. CASE ~IsRequest(t)
  BY <1>1, <1>2, <1>3, CatalogStutter DEF IsRequest, NoOperation
<1>4. CASE IsRequest(t)
  <2>1. answered[t] # NoAnswer
    BY <1>1, <1>4 DEF answered, OperationInv, NoAnswer
  <2>2. requested'[t] = NoOperation /\ answered'[t] = NoAnswer
    BY <1>2 DEF requested, answered, IsRequest, NoOperation
  <2>3. /\ requested' = [requested EXCEPT ![t] = NoOperation]
        /\ answered'  = [answered EXCEPT ![t] = NoAnswer]
    BY <1>2, <2>2, OneThreadMoves
  <2>4. Catalog!Return(t)
      BY <1>1, <2>1, <2>3
         DEF Catalog!Return, NoOperation, Catalog!NoRequest, NoAnswer,
       Catalog!NoAnswer
  <2> QED BY <2>4 DEF Catalog!Next
<1> QED BY <1>3, <1>4

(* A crash loses the requests of one process. *)
LEMMA CrashRefines ==
  ASSUME RepositoryInv, NEW p \in Procs, Crash(p)
  PROVE  [Catalog!Next]_(Catalog!vars)
<1> DEFINE lost == {t \in Threads : ProcOf[t] = p}
<1>1. UNCHANGED disk BY DEF Crash, Rollback
<1>2. requested' = [t \in Threads |-> IF t \in lost THEN NoOperation ELSE requested[t]]
  BY DEF Crash, requested, IsRequest, NoOperation
<1>3. answered' = [t \in Threads |-> IF t \in lost THEN NoAnswer ELSE answered[t]]
  BY DEF Crash, answered, IsRequest, NoOperation
<1>4. Catalog!Lose(lost)
    BY <1>1, <1>2, <1>3
       DEF Catalog!Lose, NoOperation, Catalog!NoRequest, NoAnswer,
     Catalog!NoAnswer
<1> QED BY <1>4 DEF Catalog!Next

(* Every step of the repository is a step of the catalog, or a stutter. *)
LEMMA CatalogStep ==
  RepositoryInv /\ [Next]_vars => [Catalog!Next]_(Catalog!vars)
<1> SUFFICES ASSUME RepositoryInv, [Next]_vars
             PROVE  [Catalog!Next]_(Catalog!vars)
  OBVIOUS
<1>1. CASE UNCHANGED vars BY <1>1, InternalStep DEF vars
<1>2. ASSUME NEW t \in Threads, Step(t)
      PROVE  [Catalog!Next]_(Catalog!vars)
  <2>1. CASE Connect(t) \/ Begin(t) \/ Migrate(t)
    BY <2>1, InternalStep DEF Connect, Begin, Migrate, Write
  <2>2. CASE Publish(t) \/ Close(t)
    <3>1. ~IsRequest(t) /\ Finish(t, "ok", {}) /\ UNCHANGED <<disk, op>>
        BY <2>2
           DEF Publish, Close, Rollback, RepositoryInv, OperationInv, IsRequest
    <3> QED BY <3>1, HostStep
  <2> QED BY <1>2, <2>1, <2>2, InsertRefines, CommitRefines, SelectRefines,
             StatementFailsRefines, LeaveRefines DEF Step
<1> QED BY <1>1, <1>2, CallIsRequest, AcquireRefines, CrashRefines DEF Next

(* The repository implements the port: one catalog, in which every add,    *)
(* get and list of every process takes effect at one moment, entirely or   *)
(* not at all, for any number of processes, threads and datasets.          *)
THEOREM RepositoryImplementsCatalog == Spec => ImplementsCatalog
  BY RepositoryInvariance, CatalogInit, CatalogStep, PTL
     DEF Spec, ImplementsCatalog, Catalog!Spec
==============================================================================
