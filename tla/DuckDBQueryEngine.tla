-------------------------- MODULE DuckDBQueryEngine --------------------------
(***************************************************************************)
(* DuckDBQueryEngine.execute (packages/query/duckdb.py): calls that run    *)
(* SQL on an in-memory DuckDB connection of their own, each against a      *)
(* threading.Timer, the watchdog, that interrupts the connection once the  *)
(* execution deadline elapses.                                             *)
(*                                                                         *)
(* Two threads take part in a call: the caller, whose program counter is   *)
(* pc, and the watchdog, whose is timer.  They share the two flags of      *)
(* _QueryExecutionState, each read or written under state.lock, and the    *)
(* connection.  A block under state.lock makes no blocking call and is one *)
(* action; everything between two blocks may be interleaved.               *)
(*                                                                         *)
(* DuckDB and threading.Timer are not part of the repository.  They are    *)
(* modelled from how execute uses them: interrupt() raises a flag on an    *)
(* open connection that the running query polls, every query lowers the    *)
(* flag as it begins, and a Timer waits until its deadline or cancel().    *)
(***************************************************************************)
EXTENDS Naturals

CONSTANT Calls            \* calls of execute, by any threads of the process

VARIABLES
    pc,                   \* pc[c]: the statement the caller runs next
    conn,                 \* conn[c]: the connection of the call
    interrupted,          \* interrupted[c]: the connection's interrupt flag
    completed,            \* completed[c]: state.completed
    timedOut,             \* timedOut[c]: state.timed_out
    timer,                \* timer[c]: where the watchdog thread is
    cancelled,            \* cancelled[c]: timeout.cancel() was called
    fate,                 \* fate[c]: how the block of lines 44-65 ended
    verdict               \* verdict[c]: what the caller gets

caller   == <<pc, conn, fate, verdict>>
flags    == <<completed, timedOut>>
watchdog == <<timer, cancelled>>
vars     == <<pc, conn, interrupted, completed, timedOut, timer, cancelled,
              fate, verdict>>

Labels   == {"enter", "connect", "register", "arm", "execute", "executing",
             "mark", "cancel", "close", "judge", "done"}
Fates    == {"none", "data", "error", "interrupt", "crash"}
Verdicts == {"none", "QueryResult", "QueryExecutionError",
             "QueryResourceLimitError", "Uncaught"}

Init ==
    /\ pc          = [c \in Calls |-> "enter"]
    /\ conn        = [c \in Calls |-> "none"]
    /\ interrupted = [c \in Calls |-> FALSE]
    /\ completed   = [c \in Calls |-> FALSE]
    /\ timedOut    = [c \in Calls |-> FALSE]
    /\ timer       = [c \in Calls |-> "unstarted"]
    /\ cancelled   = [c \in Calls |-> FALSE]
    /\ fate        = [c \in Calls |-> "none"]
    /\ verdict     = [c \in Calls |-> "none"]

-----------------------------------------------------------------------------
(* The caller. *)

Goto(c, label) == pc' = [pc EXCEPT ![c] = label]
End(c, how)    == fate' = [fate EXCEPT ![c] = how]

(* A statement raises: a duckdb.Error, or anything else ("crash"). *)
Raise(c, handler) ==
    /\ \E how \in {"error", "crash"} : End(c, how)
    /\ Goto(c, handler)

(* Blank SQL is refused before there is a state, a connection or a timer.  *)
RejectBlank(c) ==
    /\ pc[c] = "enter"
    /\ Goto(c, "done")
    /\ verdict' = [verdict EXCEPT ![c] = "QueryExecutionError"]
    /\ UNCHANGED <<conn, interrupted, flags, watchdog, fate>>

Enter(c) ==
    /\ pc[c] = "enter"
    /\ Goto(c, "connect")
    /\ UNCHANGED <<conn, interrupted, flags, watchdog, fate, verdict>>

Connect(c) ==
    /\ pc[c] = "connect"
    /\ \/ Goto(c, "register") /\ conn' = [conn EXCEPT ![c] = "open"]
                              /\ UNCHANGED fate
       \/ Raise(c, "judge") /\ UNCHANGED conn
    /\ UNCHANGED <<interrupted, flags, watchdog, verdict>>

Register(c) ==
    /\ pc[c] = "register"
    /\ \/ Goto(c, "arm") /\ UNCHANGED fate
       \/ Raise(c, "close")
    /\ UNCHANGED <<conn, interrupted, flags, watchdog, verdict>>

(* timeout.start(), which is outside the try whose finally cancels. *)
Arm(c) ==
    /\ pc[c] = "arm"
    /\ \/ /\ Goto(c, "execute")
          /\ timer' = [timer EXCEPT ![c] = "waiting"]
          /\ UNCHANGED fate
       \/ /\ Goto(c, "close") /\ End(c, "crash")
          /\ UNCHANGED timer
    /\ UNCHANGED <<conn, interrupted, flags, cancelled, verdict>>

(* The query begins: DuckDB clears the interrupt flag of the connection. *)
BeginQuery(c) ==
    /\ pc[c] = "execute"
    /\ Goto(c, "executing")
    /\ interrupted' = [interrupted EXCEPT ![c] = FALSE]
    /\ UNCHANGED <<conn, flags, watchdog, fate, verdict>>

(* Fault: cancel() is not in a finally clause but follows the query, so an *)
(* error skips it.                                                         *)
QueryReturnsNoFinally(c) ==
    /\ pc[c] = "executing"
    /\ \/ Goto(c, "mark") /\ End(c, "data")
       \/ Raise(c, "close")
    /\ UNCHANGED <<conn, interrupted, flags, watchdog, verdict>>

(* execute(sql).pl() returns a frame, or fails by itself. *)
QueryReturns(c) ==
    /\ pc[c] = "executing"
    /\ \/ Goto(c, "mark") /\ End(c, "data")
       \/ Raise(c, "cancel")
    /\ UNCHANGED <<conn, interrupted, flags, watchdog, verdict>>

(* The running query notices the interrupt flag and raises. *)
QueryInterrupted(c) ==
    /\ pc[c] = "executing"
    /\ interrupted[c]
    /\ Goto(c, "cancel")
    /\ End(c, "interrupt")
    /\ UNCHANGED <<conn, interrupted, flags, watchdog, verdict>>

MarkCompleted(c) ==
    /\ pc[c] = "mark"
    /\ Goto(c, "cancel")
    /\ completed' = [completed EXCEPT ![c] = TRUE]
    /\ UNCHANGED <<conn, interrupted, timedOut, watchdog, fate, verdict>>

(* The finally clause, on every way out of the query. *)
CancelTimer(c) ==
    /\ pc[c] = "cancel"
    /\ Goto(c, "close")
    /\ cancelled' = [cancelled EXCEPT ![c] = TRUE]
    /\ UNCHANGED <<conn, interrupted, flags, timer, fate, verdict>>

(* The end of the with statement closes the connection. *)
CloseConnection(c) ==
    /\ pc[c] = "close"
    /\ Goto(c, "judge")
    /\ conn' = [conn EXCEPT ![c] = "closed"]
    /\ interrupted' = [interrupted EXCEPT ![c] = FALSE]
    /\ UNCHANGED <<flags, watchdog, fate, verdict>>

(* Fault: the except clause does not look at timed_out.                    *)
DecisionErrorsAlike(how, late) ==
    CASE how = "crash"                 -> "Uncaught"
      [] how = "data" /\ late          -> "QueryResourceLimitError"
      [] how = "data" /\ ~late         -> "QueryResult"
      [] how \in {"error", "interrupt"} -> "QueryExecutionError"

(* Fault: timed_out is read in the except clause only.                     *)
DecisionDataWins(how, late) ==
    CASE how = "crash"                            -> "Uncaught"
      [] how = "data"                             -> "QueryResult"
      [] how \in {"error", "interrupt"} /\ late   -> "QueryResourceLimitError"
      [] how \in {"error", "interrupt"} /\ ~late  -> "QueryExecutionError"

(* Lines 66-87: the except clause and the code after the try statement     *)
(* both read timed_out under the lock and then decide.                     *)
Decision(how, late) ==
    CASE how = "crash"                       -> "Uncaught"
      [] how # "crash" /\ late               -> "QueryResourceLimitError"
      [] how = "data" /\ ~late               -> "QueryResult"
      [] how \in {"error", "interrupt"} /\ ~late -> "QueryExecutionError"

Judge(c) ==
    /\ pc[c] = "judge"
    /\ Goto(c, "done")
    /\ verdict' = [verdict EXCEPT ![c] = Decision(fate[c], timedOut[c])]
    /\ UNCHANGED <<conn, interrupted, flags, watchdog, fate>>

-----------------------------------------------------------------------------
(* The watchdog: Timer.run, with _interrupt_for_timeout as its function.   *)

(* finished.wait(interval) returned because of cancel(): nothing is run.   *)
TimerCancelled(c) ==
    /\ timer[c] = "waiting"
    /\ cancelled[c]
    /\ timer' = [timer EXCEPT ![c] = "finished"]
    /\ UNCHANGED <<caller, interrupted, flags, cancelled>>

(* The deadline elapsed and finished was not set: the function is called,  *)
(* and cancel() can no longer stop it.                                     *)
DeadlineElapses(c) ==
    /\ timer[c] = "waiting"
    /\ ~cancelled[c]
    /\ timer' = [timer EXCEPT ![c] = "woken"]
    /\ UNCHANGED <<caller, interrupted, flags, cancelled>>

(* Fault: the watchdog does not ask whether the query completed.           *)
FlagAlways(c) ==
    /\ timer[c] = "woken"
    /\ timer' = [timer EXCEPT ![c] = "flagged"]
    /\ timedOut' = [timedOut EXCEPT ![c] = TRUE]
    /\ UNCHANGED <<caller, interrupted, completed, cancelled>>

(* Fault: one _QueryExecutionState for the engine, not one for each call.  *)
FlagEveryCall(c) ==
    /\ timer[c] = "woken"
    /\ IF completed[c]
       THEN /\ timer' = [timer EXCEPT ![c] = "finished"]
            /\ UNCHANGED timedOut
       ELSE /\ timer' = [timer EXCEPT ![c] = "flagged"]
            /\ timedOut' = [d \in Calls |-> TRUE]
    /\ UNCHANGED <<caller, interrupted, completed, cancelled>>

(* The block under state.lock. *)
FlagTimeout(c) ==
    /\ timer[c] = "woken"
    /\ IF completed[c]
       THEN /\ timer' = [timer EXCEPT ![c] = "finished"]
            /\ UNCHANGED timedOut
       ELSE /\ timer' = [timer EXCEPT ![c] = "flagged"]
            /\ timedOut' = [timedOut EXCEPT ![c] = TRUE]
    /\ UNCHANGED <<caller, interrupted, completed, cancelled>>

(* Fault: the deadline is recorded but the connection is not interrupted.  *)
InterruptNothing(c) ==
    /\ timer[c] = "flagged"
    /\ timer' = [timer EXCEPT ![c] = "finished"]
    /\ UNCHANGED <<caller, interrupted, flags, cancelled>>

(* connection.interrupt(), outside the lock.  On a closed connection it    *)
(* raises, which ends the watchdog thread all the same.                    *)
InterruptConnection(c) ==
    /\ timer[c] = "flagged"
    /\ timer' = [timer EXCEPT ![c] = "finished"]
    /\ interrupted' = [interrupted EXCEPT ![c] = (conn[c] = "open")]
    /\ UNCHANGED <<caller, flags, cancelled>>

-----------------------------------------------------------------------------
Caller(c) ==
    \/ RejectBlank(c) \/ Enter(c) \/ Connect(c) \/ Register(c) \/ Arm(c)
    \/ BeginQuery(c) \/ QueryReturns(c) \/ QueryInterrupted(c)
    \/ MarkCompleted(c) \/ CancelTimer(c) \/ CloseConnection(c) \/ Judge(c)

Watchdog(c) ==
    \/ TimerCancelled(c) \/ DeadlineElapses(c)
    \/ FlagTimeout(c) \/ InterruptConnection(c)

(* Every call has been answered and no watchdog thread is left. *)
Finished ==
    /\ \A c \in Calls : pc[c] = "done" /\ timer[c] \in {"unstarted", "finished"}
    /\ UNCHANGED vars

Next == Finished \/ \E c \in Calls : Caller(c) \/ Watchdog(c)

Spec == Init /\ [][Next]_vars

(* Threads are scheduled, and DuckDB polls the interrupt flag.  Nothing    *)
(* says that a query ends by itself: QueryReturns is not fair.             *)
Fairness ==
    \A c \in Calls :
        /\ WF_vars(Caller(c) /\ pc[c] # "executing")
        /\ WF_vars(QueryInterrupted(c))
        /\ WF_vars(Watchdog(c))

FairSpec == Spec /\ Fairness
-----------------------------------------------------------------------------
(* Properties. *)

(* Every variable keeps its type; a call ends in one of the answers of the *)
(* QueryEngine port, or in an exception execute does not know.             *)
TypeOK ==
    /\ pc          \in [Calls -> Labels]
    /\ conn        \in [Calls -> {"none", "open", "closed"}]
    /\ interrupted \in [Calls -> BOOLEAN]
    /\ completed   \in [Calls -> BOOLEAN]
    /\ timedOut    \in [Calls -> BOOLEAN]
    /\ timer       \in [Calls -> {"unstarted", "waiting", "woken", "flagged",
                                  "finished"}]
    /\ cancelled   \in [Calls -> BOOLEAN]
    /\ fate        \in [Calls -> Fates]
    /\ verdict     \in [Calls -> Verdicts]

(* A result is handed out only if the deadline lost the race for good: the *)
(* timeout was not recorded, and the watchdog, wherever it is, is not      *)
(* about to interrupt and never will (lines 62-63, 75-79 against 95-100).  *)
ResultNeverInterrupted ==
    \A c \in Calls :
        verdict[c] = "QueryResult" =>
            ~timedOut[c] /\ ~interrupted[c] /\ timer[c] # "flagged"

(* A query the watchdog interrupted is reported as a resource limit, never *)
(* as a fault of the SQL: timed_out is set before the interrupt (line 98)  *)
(* and read after it (lines 67-72).                                        *)
InterruptBlamedOnDeadline ==
    \A c \in Calls :
        fate[c] = "interrupt" => verdict[c] \in {"none", "QueryResourceLimitError"}

(* A call is told that it exceeded its time only if its own deadline       *)
(* elapsed: calls share the engine but no execution state (line 42).       *)
LimitOnlyAfterDeadline ==
    \A c \in Calls :
        verdict[c] = "QueryResourceLimitError" => timer[c] \in {"flagged", "finished"}

(* However a call ended, its connection is closed and a watchdog still     *)
(* waiting has been cancelled, so no thread outlives the call by the       *)
(* timeout (lines 44, 64-65).                                              *)
NothingLeftBehind ==
    \A c \in Calls :
        pc[c] = "done" =>
            conn[c] # "open" /\ (timer[c] = "waiting" => cancelled[c])

(* What the flags say of the watchdog: timed_out is set exactly when the   *)
(* watchdog decides to interrupt, and nothing else raises the flag.        *)
WatchdogInv(c) ==
    /\ timer[c] = "flagged" => timedOut[c]
    /\ timedOut[c] => timer[c] \in {"flagged", "finished"}
    /\ interrupted[c] => timedOut[c]
    /\ pc[c] \in {"enter", "connect", "register", "arm"} => timer[c] = "unstarted"
    /\ pc[c] \in {"close", "judge", "done"} /\ timer[c] = "waiting" => cancelled[c]

(* What the caller knows at each statement about its connection, the query *)
(* and the flags.                                                          *)
CallerInv(c) ==
    /\ pc[c] \in {"enter", "connect"} => conn[c] = "none"
    /\ pc[c] \in {"judge", "done"} => conn[c] # "open"
    /\ pc[c] = "mark" => fate[c] = "data"
    /\ pc[c] \in {"cancel", "close", "judge"} => fate[c] # "none"
    /\ completed[c] <=> fate[c] = "data" /\ pc[c] # "mark"
    /\ fate[c] = "interrupt" => timedOut[c]
    /\ fate[c] # "none" => pc[c] \in {"mark", "cancel", "close", "judge", "done"}

(* What has been answered, against what decided the answer. *)
AnswerInv(c) ==
    /\ verdict[c] # "none" <=> pc[c] = "done"
    /\ verdict[c] = "QueryResult" => completed[c] /\ ~timedOut[c]
    /\ verdict[c] = "QueryResourceLimitError" => timedOut[c]
    /\ verdict[c] = "QueryExecutionError" => fate[c] # "interrupt"
    /\ verdict[c] = "Uncaught" => fate[c] = "crash"

(* The inductive invariant: each thread's knowledge of the other's flag at *)
(* every statement, from which the safety properties above follow.         *)
EngineInv ==
    /\ TypeOK
    /\ \A c \in Calls : WatchdogInv(c) /\ CallerInv(c) /\ AnswerInv(c)

(* The race between completion and deadline, as the flags record it.  Both *)
(* flags can be set, when the watchdog is first; then the deadline won.    *)
race == [c \in Calls |-> IF timedOut[c] THEN "expired"
                         ELSE IF completed[c] THEN "completed" ELSE "open"]

Governance == INSTANCE QueryGovernance

(* The two threads of a call implement one race with one winner, and the   *)
(* answer agrees with the winner.                                          *)
ImplementsGovernance == Governance!Spec

(* A query that is running while its watchdog has yet to interrupt it does *)
(* not run for ever.                                                       *)
RunningQueryEnds ==
    \A c \in Calls :
        pc[c] = "executing" /\ timer[c] \in {"waiting", "woken", "flagged"}
            ~> pc[c] = "done"

(* ADR-0010, line 11: "query execution is interrupted after 30 seconds".   *)
(* Once the deadline has been recorded, the call comes to an end.          *)
DeadlineEndsCall ==
    \A c \in Calls : timedOut[c] ~> pc[c] = "done"
=============================================================================
