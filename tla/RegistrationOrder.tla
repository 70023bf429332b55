--------------------------- MODULE RegistrationOrder ---------------------------
(***************************************************************************)
(* In which order the catalog lists its datasets.  A dataset's identifier  *)
(* and time of creation are drawn when DatasetService.register makes it    *)
(* (dataset/models.py), before the repository stores it; list sorts by the *)
(* stored text of that time and then by the identifier                     *)
(* (sqlite_dataset_repository.py).                                         *)
(*                                                                         *)
(* The processes share the catalog, which is DatasetCatalog, and the clock *)
(* of their host.  The clock may stand still between two registrations,    *)
(* and may be set back.                                                    *)
(***************************************************************************)
EXTENDS Integers, Sequences, FiniteSets

CONSTANTS
    Procs,                \* processes that use the catalog
    Ids,                  \* identifiers, in the order of the text of UUIDs
    MaxTime,              \* bounds the clock, which counts microseconds
    Second,               \* microseconds in a second
    MaxSetBacks           \* bounds how often the clock is set back

ASSUME IdsAssumption    == Ids \subseteq Nat /\ IsFiniteSet(Ids)
ASSUME SecondAssumption == Second \in Nat \ {0}
ASSUME BoundsAssumption == MaxTime \in Nat /\ MaxSetBacks \in Nat

VARIABLES
    rows, request, answer,  \* the catalog's; see DatasetCatalog
    created,              \* created[i]: Dataset.created_at, Never before it is drawn
    now,                  \* the clock
    setBacks,             \* how often it was set back
    listed,               \* listed[p]: the last list that p was given
    shown,                \* history: <<i, j>> if some list had i before j
    told,                 \* history: told[i]: when i's registration was answered
    earlier               \* history: earlier[i]: answered before i was drawn

catalog == <<rows, request, answer>>
clock   == <<now, setBacks>>
history == <<shown, told, earlier>>
vars    == <<catalog, created, clock, listed, history>>

Catalog == INSTANCE DatasetCatalog WITH Threads <- Procs

Times == 0 .. MaxTime
Never == -1

-----------------------------------------------------------------------------
(* created_at in the catalog: the isoformat of a UTC time, as the seconds, *)
(* the character after them and the microseconds.  isoformat leaves out    *)
(* the fraction of a whole second, so that the offset follows instead.     *)

Plus == 43                \* of +00:00
Dot  == 46                \* of a fraction
Zed  == 90                \* of the other way to write UTC

(* Fault: the offset is written Z. *)
TextWithZed(t) ==
    IF t % Second = 0 THEN <<t \div Second, Zed, 0>>
                      ELSE <<t \div Second, Dot, t % Second>>

Text(t) ==
    IF t % Second = 0 THEN <<t \div Second, Plus, 0>>
                      ELSE <<t \div Second, Dot, t % Second>>

(* SQLite's comparison of texts. *)
Less(a, b) ==
    \/ a[1] < b[1]
    \/ a[1] = b[1] /\ a[2] < b[2]
    \/ a[1] = b[1] /\ a[2] = b[2] /\ a[3] < b[3]

(* Fault: ORDER BY created_at alone, so that ties come in any order. *)
PrecedesOrTies(i, j) == ~Less(Text(created[j]), Text(created[i]))

(* ORDER BY created_at ASC, id ASC. *)
Precedes(i, j) ==
    LET a == Text(created[i])
        b == Text(created[j])
    IN  Less(a, b) \/ (a = b /\ i < j)

(* What list may return for these rows. *)
Listings(s) ==
    {q \in [1 .. Cardinality(s) -> s] :
        \A m, n \in DOMAIN q : m < n => q[m] # q[n] /\ Precedes(q[m], q[n])}

-----------------------------------------------------------------------------
(* The catalog may hold datasets of earlier runs, under any clock. *)
Init ==
    /\ Catalog!Init
    /\ created \in {f \in [Ids -> Times \cup {Never}] :
                       \A i \in Ids : f[i] = Never <=> i \notin rows}
    /\ now      = 0
    /\ setBacks = 0
    /\ listed   = [p \in Procs |-> <<>>]
    /\ shown    = {}
    /\ told     = [i \in Ids |-> Never]
    /\ earlier  = [i \in Ids |-> {}]

(* Fault: the default of created_at is computed when models.py is loaded. *)
RegisterSinceImport(p) ==
    /\ Catalog!Request(p)
    /\ \E i \in Ids :
          /\ created[i] = Never
          /\ request'[p] = [kind |-> "add", ids |-> {i}]
          /\ created' = [created EXCEPT ![i] = 0]
          /\ earlier' = [earlier EXCEPT ![i] = {j \in Ids : told[j] \in 0 .. (now - 1)}]
    /\ UNCHANGED <<clock, listed, shown, told>>

(* DatasetService.register draws the identifier and the time of the new    *)
(* dataset and hands it to the repository.                                 *)
Register(p) ==
    /\ Catalog!Request(p)
    /\ \E i \in Ids :
          /\ created[i] = Never
          /\ request'[p] = [kind |-> "add", ids |-> {i}]
          /\ created' = [created EXCEPT ![i] = now]
          /\ earlier' = [earlier EXCEPT ![i] = {j \in Ids : told[j] \in 0 .. (now - 1)}]
    /\ UNCHANGED <<clock, listed, shown, told>>

(* The repository stores the dataset, or fails. *)
Add(p) ==
    /\ request[p].kind = "add"
    /\ Catalog!Store(p) \/ Catalog!Fail(p)
    /\ UNCHANGED <<created, clock, listed, history>>

(* register returns, or raises what add raised. *)
Answer(p) ==
    /\ request[p].kind = "add"
    /\ Catalog!Return(p)
    /\ told' = [i \in Ids |->
                  IF i \in request[p].ids /\ answer[p].status = "ok" THEN now ELSE told[i]]
    /\ UNCHANGED <<created, clock, listed, shown, earlier>>

RequestList(p) ==
    /\ Catalog!Request(p)
    /\ request'[p].kind = "list"
    /\ UNCHANGED <<created, clock, listed, history>>

Select(p) ==
    /\ request[p].kind = "list"
    /\ Catalog!Read(p) \/ Catalog!Fail(p)
    /\ UNCHANGED <<created, clock, listed, history>>

(* The rows of the answer, in the order of the SELECT. *)
List(p) ==
    /\ request[p].kind = "list"
    /\ Catalog!Return(p)
    /\ IF answer[p].status = "ok"
       THEN \E q \in Listings(answer[p].rows) :
               /\ listed' = [listed EXCEPT ![p] = q]
               /\ shown' = shown \cup
                     {ij \in rows \X rows : \E m, n \in DOMAIN q :
                         m < n /\ q[m] = ij[1] /\ q[n] = ij[2]}
       ELSE UNCHANGED <<listed, shown>>
    /\ UNCHANGED <<created, clock, told, earlier>>

(* The process dies; whether it stored what it was asked to is open.       *)
Crash(p) ==
    /\ Catalog!Lose({p})
    /\ listed' = [listed EXCEPT ![p] = <<>>]
    /\ UNCHANGED <<created, clock, history>>

Tick ==
    /\ now < MaxTime
    /\ now' = now + 1
    /\ UNCHANGED <<catalog, created, setBacks, listed, history>>

SetBack ==
    /\ setBacks < MaxSetBacks
    /\ now' \in 0 .. (now - 1)
    /\ setBacks' = setBacks + 1
    /\ UNCHANGED <<catalog, created, listed, history>>

Next ==
    \/ \E p \in Procs : \/ Register(p) \/ Add(p) \/ Answer(p)
                        \/ RequestList(p) \/ Select(p) \/ List(p) \/ Crash(p)
    \/ Tick
    \/ SetBack

Spec == Init /\ [][Next]_vars

-----------------------------------------------------------------------------
(* Properties. *)

Drawn == {i \in Ids : created[i] # Never}

(* Every variable has its type, and only a drawn dataset is anywhere. *)
TypeOK ==
    /\ rows \subseteq Drawn
    /\ request \in [Procs -> [kind : {"none", "add", "get", "list"}, ids : SUBSET Ids]]
    /\ answer \in [Procs -> [status : {"none", "ok", "error", "IntegrityError"},
                             rows : SUBSET rows]]
    /\ created \in [Ids -> Times \cup {Never}]
    /\ now \in Times
    /\ setBacks \in 0 .. MaxSetBacks
    /\ listed \in [Procs -> Seq(rows)]
    /\ shown \subseteq rows \X rows
    /\ told \in [Ids -> Times \cup {Never}]
    /\ earlier \in [Ids -> SUBSET Ids]

(* A list is in the order of the times of creation, although it is sorted  *)
(* by texts of different lengths, and holds a dataset once.                *)
ListsAreChronological ==
    \A p \in Procs : \A m, n \in DOMAIN listed[p] :
        m < n => /\ listed[p][m] # listed[p][n]
                 /\ created[listed[p][m]] <= created[listed[p][n]]

(* The order is deterministic (dataset_repository.py, list): no two lists, *)
(* of any processes at any times, disagree about two datasets, not even    *)
(* when these were created in the same microsecond or the clock was set.   *)
OrderIsStable == \A i, j \in Ids : <<i, j>> \in shown => <<j, i>> \notin shown

(* It is the order of registration as far as clients can tell: a dataset   *)
(* whose registration was answered before another was made is listed first *)
(* unless the clock was set back or did not move in between.               *)
RegistrationOrder ==
    \A p \in Procs : \A m, n \in DOMAIN listed[p] :
        m < n /\ setBacks = 0 => listed[p][n] \notin earlier[listed[p][m]]
=============================================================================
