----------------------- MODULE SQLiteDatasetRepository -----------------------
(***************************************************************************)
(* SQLiteDatasetRepository and apply_migrations (packages/persistence):    *)
(* the durable dataset catalog.                                            *)
(*                                                                         *)
(* Each process has one repository object with one connection and one      *)
(* RLock, which its threads take for the whole of an operation.  All       *)
(* processes share the database file.  A process may crash at any moment;  *)
(* its transaction, if it had one open, is then lost.                      *)
(*                                                                         *)
(* SQLite is modelled from how the repository uses it: one write           *)
(* transaction at a time, which works on a private copy of the database    *)
(* until it commits; a read sees the last commit, or the transaction of    *)
(* its own connection; a statement may fail (the database is busy for      *)
(* longer than busy_timeout, the disk is full).  The bound on the file is  *)
(* the number of identifiers.                                              *)
(***************************************************************************)
EXTENDS Integers

CONSTANTS
    Ids,                  \* dataset identifiers
    Procs,                \* processes that open the catalog
    Threads,              \* their threads
    ProcOf,               \* ProcOf[t]: the process of thread t
    LastVersion,          \* MIGRATIONS is numbered 1 .. LastVersion
    NoProc, NoThread

ASSUME ProcOfAssumption == ProcOf \in [Threads -> Procs]
ASSUME VersionAssumption == LastVersion \in Nat
ASSUME NoneAssumption == NoProc \notin Procs /\ NoThread \notin Threads

VARIABLES
    disk,                 \* the committed database
    writer,               \* the process with an open write transaction
    work,                 \* the database as that transaction sees it
    opened,               \* opened[p]: _connection is not None
    lock,                 \* lock[p]: the thread that holds the RLock
    pc,                   \* pc[t]: the step t takes next
    op,                   \* op[t]: the operation t was asked for
    answer,               \* answer[t]: how it ended
    acked,                \* history: datasets some add reported as stored
    seen                  \* history: datasets some get or list returned

store  == <<disk, writer, work>>
thread == <<pc, op, answer>>
heard  == <<acked, seen>>
vars   == <<disk, writer, work, opened, lock, pc, op, answer, acked, seen>>

Migrations == 1 .. LastVersion
Databases  == [versions : SUBSET Migrations,    \* rows of schema_migrations
               tables   : SUBSET Migrations,    \* tables[v]: migration v's table
               rows     : SUBSET Ids]           \* rows of datasets
Empty      == [versions |-> {}, tables |-> {}, rows |-> {}]

(* A file no release has opened yet, or one that the release with the      *)
(* first n migrations left behind.                                         *)
Released(n, rows) == [versions |-> 1 .. n, tables |-> 1 .. n, rows |-> rows]
Files == {Empty} \cup {Released(n, rows) : n \in Migrations, rows \in SUBSET Ids}

Operations == [kind : {"initialize", "close"}, ids : {{}}]
                \cup [kind : {"add", "get"}, ids : {{i} : i \in Ids}]
                \cup [kind : {"list"}, ids : {Ids}]
NoOperation == [kind |-> "none", ids |-> {}]
NoAnswer    == [status |-> "none", rows |-> {}]

Init ==
    /\ disk   \in Files
    /\ writer = NoProc
    /\ work   = Empty
    /\ opened = [p \in Procs |-> FALSE]
    /\ lock   = [p \in Procs |-> NoThread]
    /\ pc     = [t \in Threads |-> "idle"]
    /\ op     = [t \in Threads |-> NoOperation]
    /\ answer = [t \in Threads |-> NoAnswer]
    /\ acked  = {}
    /\ seen   = {}

-----------------------------------------------------------------------------
(* What a connection sees, and how a step of an operation ends. *)

View(p) == IF writer = p THEN work ELSE disk

Goto(t, label) == pc' = [pc EXCEPT ![t] = label]

Finish(t, status, found) ==
    /\ Goto(t, "leave")
    /\ answer' = [answer EXCEPT ![t] = [status |-> status, rows |-> found]]

EndTransaction(p) ==
    IF writer = p THEN writer' = NoProc /\ work' = Empty ELSE UNCHANGED <<writer, work>>

Rollback(p) == EndTransaction(p) /\ UNCHANGED disk

(* The open transaction continues with a new content. *)
Write(p, content) ==
    /\ writer' = p
    /\ work' = content
    /\ UNCHANGED disk

-----------------------------------------------------------------------------
(* The operations.  The RLock is taken first and released last. *)

Call(t) ==
    /\ pc[t] = "idle"
    /\ \E o \in Operations : op' = [op EXCEPT ![t] = o]
    /\ Goto(t, "called")
    /\ UNCHANGED <<store, opened, lock, answer, heard>>

(* The operation's first look at _connection, under the lock. *)
Dispatch(t) ==
    LET kind == op[t].kind  open == opened[ProcOf[t]] IN
    \/ kind = "initialize" /\ open /\ Finish(t, "ok", {})
    \/ kind = "initialize" /\ ~open /\ Goto(t, "connect") /\ UNCHANGED answer
    \/ kind = "close" /\ Goto(t, "close") /\ UNCHANGED answer
    \/ kind = "add" /\ open /\ Goto(t, "insert") /\ UNCHANGED answer
    \/ kind \in {"get", "list"} /\ open /\ Goto(t, "select") /\ UNCHANGED answer
    \/ kind \in {"add", "get", "list"} /\ ~open /\ Finish(t, "error", {})

(* Fault: operations do not take the lock. *)
AcquireNothing(t) ==
    /\ pc[t] = "called"
    /\ Dispatch(t)
    /\ UNCHANGED <<store, opened, lock, op, heard>>

Acquire(t) ==
    /\ pc[t] = "called"
    /\ lock[ProcOf[t]] = NoThread
    /\ lock' = [lock EXCEPT ![ProcOf[t]] = t]
    /\ Dispatch(t)
    /\ UNCHANGED <<store, opened, op, heard>>

(* Fault: _connection is assigned as soon as there is a connection. *)
ConnectPublishes(t) ==
    /\ pc[t] = "connect"
    /\ Goto(t, "begin")
    /\ opened' = [opened EXCEPT ![ProcOf[t]] = TRUE]
    /\ UNCHANGED <<store, lock, op, answer, heard>>

(* initialize: mkdir, connect and the PRAGMAs. *)
Connect(t) ==
    /\ pc[t] = "connect"
    /\ Goto(t, "begin")
    /\ UNCHANGED <<store, opened, lock, op, answer, heard>>

(* apply_migrations: BEGIN IMMEDIATE waits for the other writer. *)
Begin(t) ==
    /\ pc[t] = "begin"
    /\ writer = NoProc
    /\ Write(ProcOf[t], disk)
    /\ Goto(t, "migrate")
    /\ UNCHANGED <<opened, lock, op, answer, heard>>

Pending == Migrations \ work.versions

FirstPending(v) == v \in Pending \ work.tables /\ \A w \in Pending : v <= w

(* Fault: CREATE TABLE is committed at once. *)
MigrateAutocommit(t) ==
    /\ pc[t] = "migrate"
    /\ \/ Pending = {} /\ Goto(t, "commit") /\ UNCHANGED store
       \/ \E v \in Pending :
             /\ FirstPending(v)
             /\ work' = [work EXCEPT !.tables   = @ \cup {v},
                                     !.versions = @ \cup {v}]
             /\ disk' = [disk EXCEPT !.tables = @ \cup {v}]
             /\ UNCHANGED <<writer, pc>>
    /\ UNCHANGED <<opened, lock, op, answer, heard>>

(* Fault: a migration recreates the datasets table without its rows. *)
MigrateRecreates(t) ==
    /\ pc[t] = "migrate"
    /\ \/ Pending = {} /\ Goto(t, "commit") /\ UNCHANGED store
       \/ \E v \in Pending :
             /\ FirstPending(v)
             /\ Write(ProcOf[t], [work EXCEPT !.tables   = @ \cup {v},
                                              !.versions = @ \cup {v},
                                              !.rows     = {}])
             /\ UNCHANGED pc
    /\ UNCHANGED <<opened, lock, op, answer, heard>>

(* The next migration that is not recorded, or the end of the loop.  A     *)
(* CREATE TABLE fails if the table exists: see StatementFails.             *)
Migrate(t) ==
    /\ pc[t] = "migrate"
    /\ \/ Pending = {} /\ Goto(t, "commit") /\ UNCHANGED store
       \/ \E v \in Pending :
             /\ FirstPending(v)
             /\ Write(ProcOf[t], [work EXCEPT !.tables   = @ \cup {v},
                                              !.versions = @ \cup {v}])
             /\ UNCHANGED pc
    /\ UNCHANGED <<opened, lock, op, answer, heard>>

(* initialize: the connection is published once the schema is committed.   *)
Publish(t) ==
    /\ pc[t] = "publish"
    /\ opened' = [opened EXCEPT ![ProcOf[t]] = TRUE]
    /\ Finish(t, "ok", {})
    /\ UNCHANGED <<store, lock, op, heard>>

(* close: an open connection is closed, and forgotten. *)
Close(t) ==
    /\ pc[t] = "close"
    /\ opened' = [opened EXCEPT ![ProcOf[t]] = FALSE]
    /\ Rollback(ProcOf[t])
    /\ Finish(t, "ok", {})
    /\ UNCHANGED <<lock, op, heard>>

(* Fault: add does not commit. *)
InsertNoCommit(t) ==
    LET p == ProcOf[t] IN
    /\ pc[t] = "insert"
    /\ writer \in {NoProc, p}
    /\ IF op[t].ids \subseteq View(p).rows
       THEN Rollback(p) /\ Finish(t, "IntegrityError", {})
       ELSE /\ Write(p, [View(p) EXCEPT !.rows = @ \cup op[t].ids])
            /\ Finish(t, "ok", {})
    /\ UNCHANGED <<opened, lock, op, heard>>

(* Fault: a refused insert leaves its transaction open. *)
InsertNoRollback(t) ==
    LET p == ProcOf[t] IN
    /\ pc[t] = "insert"
    /\ writer \in {NoProc, p}
    /\ IF op[t].ids \subseteq View(p).rows
       THEN Write(p, View(p)) /\ Finish(t, "IntegrityError", {})
       ELSE /\ Write(p, [View(p) EXCEPT !.rows = @ \cup op[t].ids])
            /\ Goto(t, "commit")
            /\ UNCHANGED answer
    /\ UNCHANGED <<opened, lock, op, heard>>

(* Fault: INSERT OR IGNORE. *)
InsertOrIgnore(t) ==
    LET p == ProcOf[t] IN
    /\ pc[t] = "insert"
    /\ writer \in {NoProc, p}
    /\ Write(p, [View(p) EXCEPT !.rows = @ \cup op[t].ids])
    /\ Goto(t, "commit")
    /\ UNCHANGED <<opened, lock, op, answer, heard>>

(* add: the INSERT opens a transaction and waits for the other writer.  A  *)
(* key that is taken makes the with statement roll back.                   *)
Insert(t) ==
    LET p == ProcOf[t] IN
    /\ pc[t] = "insert"
    /\ writer \in {NoProc, p}
    /\ IF op[t].ids \subseteq View(p).rows
       THEN Rollback(p) /\ Finish(t, "IntegrityError", {})
       ELSE /\ Write(p, [View(p) EXCEPT !.rows = @ \cup op[t].ids])
            /\ Goto(t, "commit")
            /\ UNCHANGED answer
    /\ UNCHANGED <<opened, lock, op, heard>>

(* The commit that ends apply_migrations, and the one of the with          *)
(* statement in add.                                                       *)
Commit(t) ==
    LET p == ProcOf[t] IN
    /\ pc[t] = "commit"
    /\ disk' = View(p)
    /\ EndTransaction(p)
    /\ IF op[t].kind = "initialize"
       THEN Goto(t, "publish") /\ UNCHANGED answer
       ELSE Finish(t, "ok", {})
    /\ UNCHANGED <<opened, lock, op, heard>>

(* get and list. *)
Select(t) ==
    /\ pc[t] = "select"
    /\ Finish(t, "ok", op[t].ids \cap View(ProcOf[t]).rows)
    /\ UNCHANGED <<store, opened, lock, op, heard>>

(* Fault: an exception is passed on without a rollback. *)
StatementFailsOpen(t) ==
    /\ pc[t] \in {"connect", "begin", "migrate", "insert", "commit", "select"}
    /\ Finish(t, "error", {})
    /\ UNCHANGED <<store, opened, lock, op, heard>>

(* Any statement may raise; the transaction is rolled back, or there is    *)
(* none, and a connection that was being initialised is closed.            *)
StatementFails(t) ==
    /\ pc[t] \in {"connect", "begin", "migrate", "insert", "commit", "select"}
    /\ Rollback(ProcOf[t])
    /\ Finish(t, "error", {})
    /\ UNCHANGED <<opened, lock, op, heard>>

(* Fault: an operation that fails does not release the lock. *)
LeaveLocked(t) ==
    /\ pc[t] = "leave"
    /\ lock' = (IF answer[t].status = "ok"
                THEN [lock EXCEPT ![ProcOf[t]] = NoThread] ELSE lock)
    /\ Goto(t, "idle")
    /\ op' = [op EXCEPT ![t] = NoOperation]
    /\ answer' = [answer EXCEPT ![t] = NoAnswer]
    /\ UNCHANGED <<store, opened, heard>>

(* The lock is released and the caller hears how the operation ended. *)
Leave(t) ==
    /\ pc[t] = "leave"
    /\ lock' = [lock EXCEPT ![ProcOf[t]] = NoThread]
    /\ Goto(t, "idle")
    /\ acked' = (IF op[t].kind = "add" /\ answer[t].status = "ok"
                 THEN acked \cup op[t].ids ELSE acked)
    /\ seen' = seen \cup answer[t].rows
    /\ op' = [op EXCEPT ![t] = NoOperation]
    /\ answer' = [answer EXCEPT ![t] = NoAnswer]
    /\ UNCHANGED <<store, opened>>

(* The process is killed, or the machine stops: only what was committed is *)
(* left.                                                                   *)
Crash(p) ==
    LET OfProc(t) == ProcOf[t] = p IN
    /\ opened' = [opened EXCEPT ![p] = FALSE]
    /\ lock'   = [lock EXCEPT ![p] = NoThread]
    /\ Rollback(p)
    /\ pc'     = [t \in Threads |-> IF OfProc(t) THEN "idle" ELSE pc[t]]
    /\ op'     = [t \in Threads |-> IF OfProc(t) THEN NoOperation ELSE op[t]]
    /\ answer' = [t \in Threads |-> IF OfProc(t) THEN NoAnswer ELSE answer[t]]
    /\ UNCHANGED heard

-----------------------------------------------------------------------------
(* The steps of an operation that holds the lock. *)
Step(t) ==
    \/ Connect(t) \/ Begin(t) \/ Migrate(t) \/ Publish(t) \/ Close(t)
    \/ Insert(t) \/ Commit(t) \/ Select(t) \/ StatementFails(t) \/ Leave(t)

Next ==
    \/ \E t \in Threads : Call(t) \/ Acquire(t) \/ Step(t)
    \/ \E p \in Procs : Crash(p)

Spec == Init /\ [][Next]_vars

(* A thread that holds the lock is scheduled.  Nothing makes a client call *)
(* again, or a process crash; and an RLock is not fair to its waiters.     *)
Fairness == \A t \in Threads : WF_vars(Step(t))

FairSpec == Spec /\ Fairness
-----------------------------------------------------------------------------
(* Properties. *)

(* Every variable keeps its type. *)
TypeOK ==
    /\ disk \in Databases /\ work \in Databases
    /\ writer \in Procs \cup {NoProc}
    /\ opened \in [Procs -> BOOLEAN]
    /\ lock   \in [Procs -> Threads \cup {NoThread}]
    /\ pc     \in [Threads -> {"idle", "called", "connect", "begin", "migrate",
                               "publish", "close", "insert", "commit",
                               "select", "leave"}]
    /\ op     \in [Threads -> Operations \cup {NoOperation}]
    /\ answer \in [Threads -> [status : {"none", "ok", "IntegrityError", "error"},
                               rows   : SUBSET Ids]]
    /\ acked \subseteq Ids /\ seen \subseteq Ids

(* A dataset that some client heard is stored is in the committed database,*)
(* whatever crashed or failed since (ADR-0009: registrations survive       *)
(* restart; add, lines 48-72).                                             *)
AckedIsDurable == acked \subseteq disk.rows

(* A dataset that some get or list returned is there for good: no thread   *)
(* or process was shown another's uncommitted insert (the RLock of lines   *)
(* 75 and 85 covers the shared connection).                                *)
SeenIsDurable == seen \subseteq disk.rows

(* A migration is recorded if and only if its table was created, in every  *)
(* committed state; otherwise the next start fails for ever on CREATE      *)
(* TABLE, or skips a table (migrations.py, lines 35-58).                   *)
SchemaConsistent == disk.versions = disk.tables

(* A repository that answers requests finds the whole schema: _connection  *)
(* is assigned after apply_migrations (lines 31-39).                       *)
OpenMeansMigrated ==
    \A p \in Procs : opened[p] => Migrations \subseteq disk.tables

(* A process that is not inside an operation holds no transaction open, so *)
(* it does not keep the other processes out: every way out of add and of   *)
(* apply_migrations commits or rolls back.                                 *)
NoOrphanTransaction ==
    writer # NoProc => lock[writer] # NoThread

(* A committed registration, table or migration record is never lost, not  *)
(* to a failed operation, a crash, or another process's transaction.       *)
NothingCommittedIsLost ==
    [][/\ disk.rows \subseteq disk'.rows
       /\ disk.tables \subseteq disk'.tables
       /\ disk.versions \subseteq disk'.versions]_vars

(* A thread works on the database exactly while it holds the RLock of its  *)
(* process.                                                                *)
LockInv ==
    /\ \A p \in Procs : lock[p] # NoThread => ProcOf[lock[p]] = p
    /\ \A t \in Threads : lock[ProcOf[t]] = t <=> pc[t] \notin {"idle", "called"}

(* What an operation knows at each of its steps. *)
OperationInv(t) ==
    /\ pc[t] = "idle" <=> op[t] = NoOperation
    /\ pc[t] # "leave" => answer[t] = NoAnswer
    /\ pc[t] \in {"connect", "begin", "migrate", "publish"} => op[t].kind = "initialize"
    /\ pc[t] = "close" => op[t].kind = "close"
    /\ pc[t] = "insert" => op[t].kind = "add"
    /\ pc[t] = "select" => op[t].kind \in {"get", "list"}
    /\ pc[t] = "commit" => op[t].kind \in {"initialize", "add"}
    /\ pc[t] = "publish" => Migrations \subseteq disk.versions
    /\ pc[t] = "leave" =>
          /\ answer[t].status # "none"
          /\ answer[t].rows \subseteq disk.rows
          /\ op[t].kind = "add" /\ answer[t].status = "ok" => op[t].ids \subseteq disk.rows

(* What a transaction has changed so far, and that nobody else has changed *)
(* the database under it.                                                  *)
TransactionInv(t) ==
    pc[t] \in {"migrate", "commit"} =>
        /\ writer = ProcOf[t]
        /\ op[t].kind = "add" =>
              /\ work = [disk EXCEPT !.rows = @ \cup op[t].ids]
              /\ ~(op[t].ids \subseteq disk.rows)
        /\ op[t].kind = "initialize" =>
              /\ work.rows = disk.rows
              /\ disk.versions \subseteq work.versions
              /\ work.versions = work.tables
              /\ pc[t] = "commit" => Migrations \subseteq work.versions

(* A transaction is open only while its process is between the statement   *)
(* that opens it and the commit.                                           *)
WriterInv ==
    IF writer = NoProc THEN work = Empty
    ELSE lock[writer] # NoThread /\ pc[lock[writer]] \in {"migrate", "commit"}

(* The inductive invariant behind the safety properties. *)
RepositoryInv ==
    /\ TypeOK /\ LockInv /\ WriterInv
    /\ \A t \in Threads : OperationInv(t) /\ TransactionInv(t)
    /\ AckedIsDurable /\ SeenIsDurable /\ SchemaConsistent /\ OpenMeansMigrated

(* The repository, seen through its port: initialize and close are the     *)
(* host's business, every other operation is a request.                    *)
IsRequest(t) == op[t].kind \in {"add", "get", "list"}

requested == [t \in Threads |-> IF IsRequest(t) THEN op[t] ELSE NoOperation]
answered  == [t \in Threads |-> IF IsRequest(t) THEN answer[t] ELSE NoAnswer]

Catalog == INSTANCE DatasetCatalog
    WITH rows <- disk.rows, request <- requested, answer <- answered

(* All processes and threads see one catalog in which each operation takes *)
(* effect at one moment, entirely or not at all.                           *)
ImplementsCatalog == Catalog!Spec

(* A thread that holds the RLock releases it: no operation waits for ever, *)
(* for the database or for another thread, while it holds it.              *)
LockIsReleased ==
    \A t \in Threads : lock[ProcOf[t]] = t ~> lock[ProcOf[t]] # t
=============================================================================
