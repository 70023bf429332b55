------------------------ MODULE DuckDBQueryEngineProofs ------------------------
(***************************************************************************)
(* Theorems about DuckDBQueryEngine, for any set of calls.  EngineInv is   *)
(* inductive; every safety property of the module, and the refinement of   *)
(* QueryGovernance, follow from it.                                        *)
(***************************************************************************)
EXTENDS DuckDBQueryEngine, TLAPS

(* The constant sets and the helpers of the caller's actions. *)
USE DEF Labels, Fates, Verdicts, caller, flags, watchdog, Goto, End, Raise

(* No call has begun: nothing is open, armed or answered. *)
LEMMA InitEstablishesEngineInv == Init => EngineInv
  BY DEF Init, EngineInv, TypeOK, WatchdogInv, CallerInv, AnswerInv

(* Recording a timeout keeps the types. *)
LEMMA FlagTimeoutTyped ==
  ASSUME TypeOK, NEW c \in Calls, FlagTimeout(c)
  PROVE  TypeOK'
<1> USE DEF TypeOK, FlagTimeout
<1>1. timedOut' \in [Calls -> BOOLEAN]
  <2>1. timedOut' = timedOut \/ timedOut' = [timedOut EXCEPT ![c] = TRUE] OBVIOUS
  <2> HIDE DEF FlagTimeout
  <2> QED BY <2>1
<1> QED BY <1>1

(* Each statement of the caller keeps what both threads know. *)
LEMMA CallerKeepsEngineInv ==
  ASSUME EngineInv, NEW c \in Calls, Caller(c)
  PROVE  EngineInv'
<1> USE DEF EngineInv, TypeOK, WatchdogInv, CallerInv, AnswerInv
<1>1. CASE RejectBlank(c)      BY <1>1 DEF RejectBlank
<1>2. CASE Enter(c)            BY <1>2 DEF Enter
<1>3. CASE Connect(c)          BY <1>3 DEF Connect
<1>4. CASE Register(c)         BY <1>4 DEF Register
<1>5. CASE Arm(c)              BY <1>5 DEF Arm
<1>6. CASE BeginQuery(c)       BY <1>6 DEF BeginQuery
<1>7. CASE QueryReturns(c)     BY <1>7 DEF QueryReturns
<1>8. CASE QueryInterrupted(c) BY <1>8 DEF QueryInterrupted
<1>9. CASE MarkCompleted(c)    BY <1>9 DEF MarkCompleted
<1>10. CASE CancelTimer(c)     BY <1>10 DEF CancelTimer
<1>11. CASE CloseConnection(c) BY <1>11 DEF CloseConnection
<1>12. CASE Judge(c)           BY <1>12 DEF Judge, Decision
<1> QED BY <1>1, <1>2, <1>3, <1>4, <1>5, <1>6, <1>7, <1>8, <1>9, <1>10, <1>11,
           <1>12 DEF Caller

(* So does each step of the watchdog. *)
LEMMA WatchdogKeepsEngineInv ==
  ASSUME EngineInv, NEW c \in Calls, Watchdog(c)
  PROVE  EngineInv'
<1> USE DEF EngineInv, TypeOK, WatchdogInv, CallerInv, AnswerInv
<1>1. CASE TimerCancelled(c)      BY <1>1 DEF TimerCancelled
<1>2. CASE DeadlineElapses(c)     BY <1>2 DEF DeadlineElapses
<1>3. CASE FlagTimeout(c)
  <2>1. CASE completed[c]  BY <1>3, <2>1 DEF FlagTimeout
  <2>2. CASE ~completed[c]
    <3> USE <1>3, <2>2 DEF FlagTimeout
    <3>1. TypeOK' BY FlagTimeoutTyped
    <3>2. \A d \in Calls : WatchdogInv(d)' OBVIOUS
    <3>3. \A d \in Calls : CallerInv(d)' OBVIOUS
    <3>4. verdict[c] # "QueryResult" OBVIOUS
    <3>5. \A d \in Calls : AnswerInv(d)' BY <3>4
    <3> QED BY <3>1, <3>2, <3>3, <3>5
  <2> QED BY <2>1, <2>2
<1>4. CASE InterruptConnection(c) BY <1>4 DEF InterruptConnection
<1> QED BY <1>1, <1>2, <1>3, <1>4 DEF Watchdog

(* The invariant speaks of the variables only. *)
LEMMA StutterKeepsEngineInv == EngineInv /\ UNCHANGED vars => EngineInv'
  BY DEF vars, EngineInv, TypeOK, WatchdogInv, CallerInv, AnswerInv

(* EngineInv holds in every reachable state. *)
THEOREM EngineInvariance == Spec => []EngineInv
<1>1. EngineInv /\ [Next]_vars => EngineInv'
  BY CallerKeepsEngineInv, WatchdogKeepsEngineInv, StutterKeepsEngineInv
     DEF Next, Finished
<1> QED BY InitEstablishesEngineInv, <1>1, PTL DEF Spec

(* Every reachable state is well typed; in particular a call is answered   *)
(* with one of the port's answers.                                         *)
THEOREM TypeCorrectness == Spec => []TypeOK
<1>1. EngineInv => TypeOK BY DEF EngineInv
<1> QED BY EngineInvariance, <1>1, PTL

(* A result is never handed out for a query the watchdog interrupted or    *)
(* will interrupt: the race between MarkCompleted and FlagTimeout has one  *)
(* winner, whatever the interleaving.                                      *)
THEOREM ResultSafety == Spec => []ResultNeverInterrupted
<1>1. EngineInv => ResultNeverInterrupted
  BY DEF EngineInv, ResultNeverInterrupted, WatchdogInv, AnswerInv
<1> QED BY EngineInvariance, <1>1, PTL

(* An interrupted query is reported as a resource limit. *)
THEOREM InterruptBlame == Spec => []InterruptBlamedOnDeadline
<1>1. EngineInv => InterruptBlamedOnDeadline
  <2> SUFFICES ASSUME EngineInv, NEW c \in Calls, fate[c] = "interrupt"
               PROVE  verdict[c] \in {"none", "QueryResourceLimitError"}
    BY DEF InterruptBlamedOnDeadline
  <2>1. timedOut[c] BY DEF EngineInv, CallerInv
  <2> QED BY <2>1 DEF EngineInv, TypeOK, CallerInv, AnswerInv
<1> QED BY EngineInvariance, <1>1, PTL

(* A call is refused for its time only after its own deadline elapsed,     *)
(* however many calls share the engine.                                    *)
THEOREM LimitIsolation == Spec => []LimitOnlyAfterDeadline
<1>1. EngineInv => LimitOnlyAfterDeadline
  BY DEF EngineInv, LimitOnlyAfterDeadline, WatchdogInv, AnswerInv
<1> QED BY EngineInvariance, <1>1, PTL

(* An answered call has closed its connection and disarmed its watchdog. *)
THEOREM Cleanup == Spec => []NothingLeftBehind
<1>1. EngineInv => NothingLeftBehind
  BY DEF EngineInv, NothingLeftBehind, WatchdogInv, CallerInv
<1> QED BY EngineInvariance, <1>1, PTL

-------------------------------------------------------------------------------
(* Refinement.  A step of a call that touches neither race nor verdict is  *)
(* a stutter of QueryGovernance; the three that do are its three actions.  *)

(* Before any call, every race is open. *)
LEMMA GovernanceInit == Init => Governance!Init
  BY DEF Init, Governance!Init, race

(* A completed query wins the race, if the deadline has not.               *)
LEMMA RaceAfterComplete ==
  ASSUME EngineInv, NEW c \in Calls, MarkCompleted(c)
  PROVE  Governance!Complete(c) \/ UNCHANGED <<race, verdict>>
<1> USE DEF EngineInv, TypeOK, CallerInv, AnswerInv, MarkCompleted
<1>1. CASE timedOut[c]
  <2>1. \A d \in Calls : race'[d] = race[d] BY <1>1 DEF race
  <2>2. UNCHANGED race BY <2>1 DEF race
  <2> QED BY <2>2
<1>2. CASE ~timedOut[c]
  <2>1. race[c] = "open" BY <1>2 DEF race
  <2>2. verdict[c] = "none" OBVIOUS
  <2>3. \A d \in Calls : race'[d] = IF d = c THEN "completed" ELSE race[d]
    BY <1>2 DEF race
  <2>4. race' = [race EXCEPT ![c] = "completed"] BY <2>3 DEF race
  <2> QED BY <2>1, <2>2, <2>4 DEF Governance!Complete
<1> QED BY <1>1, <1>2

(* The watchdog finds the race decided, or wins it. *)
LEMMA RaceAfterFlag ==
  ASSUME EngineInv, NEW c \in Calls, FlagTimeout(c)
  PROVE  Governance!Expire(c) \/ UNCHANGED <<race, verdict>>
<1> USE DEF EngineInv, TypeOK, WatchdogInv, FlagTimeout
<1>1. CASE completed[c]
  BY <1>1 DEF race
<1>2. CASE ~completed[c]
  <2>1. race[c] = "open" BY <1>2 DEF race
  <2>2. race' = [race EXCEPT ![c] = "expired"] BY <1>2 DEF race
  <2> QED BY <2>1, <2>2 DEF Governance!Expire
<1> QED BY <1>1, <1>2

(* The two ways to answer a call: at once, for blank SQL, and in Judge. *)
LEMMA AnswerAgreesWithRace ==
  ASSUME EngineInv, NEW c \in Calls, RejectBlank(c) \/ Judge(c)
  PROVE  Governance!Answer(c)
<1> USE DEF EngineInv, TypeOK, WatchdogInv, CallerInv, AnswerInv
<1>1. verdict[c] = "none" /\ UNCHANGED race
  BY DEF RejectBlank, Judge, race
<1>2. CASE RejectBlank(c)
  <2>1. race[c] = "open" BY <1>2 DEF race, RejectBlank
  <2> QED
    BY <1>1, <1>2, <2>1 DEF RejectBlank, Governance!Answer, Governance!Allowed
<1>3. CASE Judge(c)
  <2>1. Decision(fate[c], timedOut[c]) \in Governance!Allowed(race[c])
    BY <1>3 DEF Judge, Decision, race, Governance!Allowed
  <2> QED BY <1>1, <1>3, <2>1 DEF Judge, Governance!Answer
<1> QED BY <1>2, <1>3

(* Every step of the engine is a step of the race or a stutter. *)
LEMMA GovernanceStep ==
  EngineInv /\ [Next]_vars => [Governance!Next]_(Governance!vars)
<1> SUFFICES ASSUME EngineInv, [Next]_vars
             PROVE  Governance!Next \/ UNCHANGED <<race, verdict>>
  BY DEF Governance!vars
<1>1. CASE UNCHANGED vars
  BY <1>1 DEF vars, race
<1>2. ASSUME NEW c \in Calls, Caller(c)
      PROVE  Governance!Next \/ UNCHANGED <<race, verdict>>
  <2>1. CASE RejectBlank(c) \/ Judge(c)
    BY <2>1, AnswerAgreesWithRace DEF Governance!Next
  <2>2. CASE MarkCompleted(c)
    BY <2>2, RaceAfterComplete DEF Governance!Next
  <2>3. CASE ~(RejectBlank(c) \/ Judge(c) \/ MarkCompleted(c))
    BY <1>2, <2>3 DEF race, Caller, Enter, Connect, Register, Arm, BeginQuery,
       QueryReturns, QueryInterrupted, CancelTimer, CloseConnection
  <2> QED BY <2>1, <2>2, <2>3
<1>3. ASSUME NEW c \in Calls, Watchdog(c)
      PROVE  Governance!Next \/ UNCHANGED <<race, verdict>>
  <2>1. CASE FlagTimeout(c)
    BY <2>1, RaceAfterFlag DEF Governance!Next
  <2>2. CASE ~FlagTimeout(c)
    BY <1>3, <2>2 DEF race, Watchdog, TimerCancelled, DeadlineElapses,
       InterruptConnection
  <2> QED BY <2>1, <2>2
<1> QED BY <1>1, <1>2, <1>3 DEF Next, Finished

(* The engine implements the race with one winner: its answers agree with  *)
(* the winner in every behaviour, for any number of calls.                 *)
THEOREM EngineImplementsGovernance == Spec => ImplementsGovernance
<1> QED BY EngineInvariance, GovernanceInit, GovernanceStep, PTL
        DEF Spec, ImplementsGovernance, Governance!Spec
===============================================================================
