--------------------------- MODULE QueryGovernance ---------------------------
(***************************************************************************)
(* What query governance promises the callers of DuckDBQueryEngine, with   *)
(* no timer, lock or connection in sight.                                  *)
(*                                                                         *)
(* Every call carries a race between two events: the query COMPLETES, or   *)
(* its execution deadline EXPIRES.  At most one of them wins, the winner   *)
(* never changes, and the answer the caller gets agrees with the winner:   *)
(* data only from a race the query won, QueryResourceLimitError only from  *)
(* one the deadline won, QueryExecutionError only while nobody had won.    *)
(* DuckDBQueryEngine implements this module; see Governance there.         *)
(***************************************************************************)

CONSTANT Calls            \* calls of DuckDBQueryEngine.execute

VARIABLES
    race,                 \* race[c]: who has won, if anybody
    verdict               \* verdict[c]: what the caller has been given

vars == <<race, verdict>>

Init ==
    /\ race    = [c \in Calls |-> "open"]
    /\ verdict = [c \in Calls |-> "none"]

(* The query's data is complete before its deadline. *)
Complete(c) ==
    /\ race[c] = "open"
    /\ verdict[c] = "none"
    /\ race' = [race EXCEPT ![c] = "completed"]
    /\ UNCHANGED verdict

(* The deadline elapses first.  This may be noticed after a failed query   *)
(* has already been answered.                                              *)
Expire(c) ==
    /\ race[c] = "open"
    /\ race' = [race EXCEPT ![c] = "expired"]
    /\ UNCHANGED verdict

(* The only answers each outcome of the race allows.  "Uncaught" is any    *)
(* exception that is not a duckdb.Error, which execute lets through.       *)
Allowed(outcome) ==
    {"Uncaught"} \cup CASE outcome = "completed" -> {"QueryResult"}
                        [] outcome = "expired"   -> {"QueryResourceLimitError"}
                        [] outcome = "open"      -> {"QueryExecutionError"}

Answer(c) ==
    /\ verdict[c] = "none"
    /\ \E answer \in Allowed(race[c]) :
          verdict' = [verdict EXCEPT ![c] = answer]
    /\ UNCHANGED race

Next == \E c \in Calls : Complete(c) \/ Expire(c) \/ Answer(c)

Spec == Init /\ [][Next]_vars
=============================================================================
