---------------------------- MODULE DatasetCatalog ----------------------------
(***************************************************************************)
(* What the DatasetRepository port promises its clients: one catalog, in   *)
(* which every add, get and list takes effect at a single moment between   *)
(* its request and its answer, and from which nothing is ever lost.        *)
(*                                                                         *)
(* An operation may fail, and a client may crash while it waits; either    *)
(* way an add has been stored entirely or not at all.  A client that heard *)
(* that its dataset is stored will find it, and so will every other client *)
(* that asks later.  SQLiteDatasetRepository implements this module.       *)
(***************************************************************************)

CONSTANTS
    Ids,                  \* dataset identifiers
    Threads               \* threads that use the catalog, in any process

VARIABLES
    rows,                 \* the identifiers of the datasets in the catalog
    request,              \* request[t]: what t is waiting for
    answer                \* answer[t]: what t is about to be told

vars == <<rows, request, answer>>

(* An add or a get names one dataset, a list asks for all of them. *)
Requests == [kind : {"add", "get"}, ids : {{i} : i \in Ids}]
                \cup [kind : {"list"}, ids : {Ids}]

NoRequest == [kind |-> "none", ids |-> {}]
NoAnswer  == [status |-> "none", rows |-> {}]

Init ==
    /\ rows    \in SUBSET Ids
    /\ request = [t \in Threads |-> NoRequest]
    /\ answer  = [t \in Threads |-> NoAnswer]

Request(t) ==
    /\ request[t] = NoRequest
    /\ \E r \in Requests : request' = [request EXCEPT ![t] = r]
    /\ UNCHANGED <<rows, answer>>

Reply(t, status, found) ==
    answer' = [answer EXCEPT ![t] = [status |-> status, rows |-> found]]

Waiting(t, kinds) ==
    /\ request[t].kind \in kinds
    /\ answer[t] = NoAnswer
    /\ UNCHANGED request

(* A dataset is stored under an identifier that nobody has used. *)
Store(t) ==
    /\ Waiting(t, {"add"})
    /\ IF request[t].ids \subseteq rows
       THEN Reply(t, "IntegrityError", {}) /\ UNCHANGED rows
       ELSE Reply(t, "ok", {}) /\ rows' = rows \cup request[t].ids

Read(t) ==
    /\ Waiting(t, {"get", "list"})
    /\ Reply(t, "ok", request[t].ids \cap rows)
    /\ UNCHANGED rows

Fail(t) ==
    /\ Waiting(t, {"add", "get", "list"})
    /\ Reply(t, "error", {})
    /\ UNCHANGED rows

Return(t) ==
    /\ answer[t] # NoAnswer
    /\ request' = [request EXCEPT ![t] = NoRequest]
    /\ answer'  = [answer EXCEPT ![t] = NoAnswer]
    /\ UNCHANGED rows

(* The process of these clients crashes: they wait for nothing any more.   *)
Lose(clients) ==
    /\ request' = [t \in Threads |-> IF t \in clients THEN NoRequest ELSE request[t]]
    /\ answer'  = [t \in Threads |-> IF t \in clients THEN NoAnswer ELSE answer[t]]
    /\ UNCHANGED rows

Next ==
    \/ \E t \in Threads : Request(t) \/ Store(t) \/ Read(t) \/ Fail(t) \/ Return(t)
    \/ \E clients \in SUBSET Threads : Lose(clients)

Spec == Init /\ [][Next]_vars
=============================================================================
