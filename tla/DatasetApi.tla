------------------------------ MODULE DatasetApi ------------------------------
(***************************************************************************)
(* The HTTP API (apps/api), its dataset service and its profiling and      *)
(* query services, composed with the catalog: server processes that share  *)
(* one catalog and one storage root, and the requests sent to them.        *)
(*                                                                         *)
(* A route is a coroutine that never awaits, so once a process has begun a *)
(* request it does nothing else until it has answered; the requests that   *)
(* arrive meanwhile wait in the event loop's queue.  A process may stop in *)
(* order, or crash and be started again.  A client that gives up and tries *)
(* again appears as two connections.                                       *)
(*                                                                         *)
(* The catalog is DatasetCatalog, which SQLiteDatasetRepository implements;*)
(* each process is one of its threads.  How the file system and DuckDB     *)
(* come to fail is the subject of AssetLoading and DuckDBQueryEngine; here *)
(* each call has one of the outcomes they leave.                           *)
(***************************************************************************)
EXTENDS Naturals, Sequences, FiniteSets

CONSTANTS
    Procs,                \* server processes
    Connections,          \* client connections, with one request each
    Ids,                  \* dataset identifiers; bounds the registrations
    Assets,               \* asset references under the storage root
    Unsupported,          \* the assets that are neither csv, xls nor xlsx
    None                  \* no asset, no process

ASSUME UnsupportedAssumption == Unsupported \subseteq Assets
ASSUME NoneAssumption == None \notin Assets \cup Procs

VARIABLES
    rows, request, answer,  \* the catalog's; see DatasetCatalog
    dataset,              \* dataset[i]: what was drawn i for: its asset, its process
    up,                   \* the processes that serve requests
    queue,                \* queue[p]: connections whose requests p has, oldest first
    pc,                   \* pc[p]: what p's event loop does for the oldest
    sent,                 \* sent[c]: the request on c
    reply,                \* reply[c]: the response on its way to c
    known                 \* history: the datasets some client has been told of

catalog == <<rows, request, answer>>
server  == <<up, queue, pc, reply>>
client  == <<sent, known>>
vars    == <<catalog, dataset, server, client>>

Catalog == INSTANCE DatasetCatalog WITH Threads <- Procs

-----------------------------------------------------------------------------
(* Requests and responses. *)

Routes == {"register", "list", "get", "profile", "query"}

NoSent  == [route |-> "none", of |-> None, at |-> None, due |-> {}]
NoReply == [status |-> 0, ids |-> {}, cause |-> "none"]
Unused  == [asset |-> None, by |-> None]

(* The exceptions of packages/shared/exceptions.py and what else may be    *)
(* raised while a request is served.  "LoadError" is CSVLoadError or       *)
(* ExcelLoadError.                                                         *)
DomainErrors == {"StorageAssetNotFoundError", "InvalidStorageReferenceError",
                 "DatasetNotFoundError", "LoadError",
                 "UnsupportedDatasetFormatError", "QueryExecutionError",
                 "QueryResourceLimitError"}
OtherErrors  == {"OSError", "ValueError", "sqlite3.Error", "Uncaught"}

(* The owner of the storage root adds, changes and deletes assets at any   *)
(* time, so that each use of a reference may find it or fail anew.         *)
StorageErrors == {"StorageAssetNotFoundError", "InvalidStorageReferenceError", "OSError"}

(* Fault: the routes were not told of unsupported formats. *)
StatusMissesFormat(route, error) ==
    CASE error \in {"DatasetNotFoundError", "StorageAssetNotFoundError"} -> 404
      [] error = "InvalidStorageReferenceError" -> 400
      [] error \in {"LoadError", "QueryExecutionError", "QueryResourceLimitError"} -> 422
      [] OTHER -> 500

(* The except clauses of the routes; list has none, and get has only the   *)
(* one for DatasetNotFoundError.  QueryResourceLimitError is a             *)
(* QueryExecutionError.  What no clause names becomes a 500.               *)
Status(route, error) ==
    CASE error = "DatasetNotFoundError" /\ route \in {"get", "profile", "query"} -> 404
      [] error = "StorageAssetNotFoundError"
            /\ route \in {"register", "profile", "query"} -> 404
      [] error = "InvalidStorageReferenceError"
            /\ route \in {"register", "profile", "query"} -> 400
      [] error \in {"LoadError", "UnsupportedDatasetFormatError"}
            /\ route \in {"profile", "query"} -> 422
      [] error \in {"QueryExecutionError", "QueryResourceLimitError"}
            /\ route = "query" -> 422
      [] OTHER -> 500

Init ==
    /\ Catalog!Init
    /\ dataset \in {d \in [Ids -> [asset : Assets \cup {None}, by : {None}]] :
                       \A i \in Ids : d[i].asset = None <=> i \notin rows}
    /\ up    = {}
    /\ queue = [p \in Procs |-> <<>>]
    /\ pc    = [p \in Procs |-> "idle"]
    /\ sent  = [c \in Connections |-> NoSent]
    /\ reply = [c \in Connections |-> NoReply]
    /\ known = {}

-----------------------------------------------------------------------------
(* Clients. *)

Free == {i \in Ids : dataset[i] = Unused}

(* A request reaches a process.  Its path names any dataset, its body any  *)
(* asset.  Registrations are sent while identifiers are left for them.     *)
(* History: due is what the request concerns and somebody was told of.     *)
Send(c, p) ==
    /\ sent[c] = NoSent
    /\ p \in up
    /\ \E route \in Routes, of \in Ids \cup Assets \cup {None} :
          /\ of \in CASE route = "register" -> Assets
                      [] route = "list" -> {None}
                      [] OTHER -> Ids
          /\ route = "register" =>
                Cardinality({b \in Connections : sent[b].route = "register"})
                    < Cardinality(Free)
          /\ sent' = [sent EXCEPT ![c] =
                [route |-> route, of |-> of, at |-> p,
                 due |-> IF route = "list" THEN known ELSE known \cap {of}]]
    /\ queue' = [queue EXCEPT ![p] = Append(@, c)]
    /\ UNCHANGED <<catalog, dataset, up, pc, reply, known>>

Close(c) ==
    /\ reply[c] # NoReply
    /\ sent'  = [sent EXCEPT ![c] = NoSent]
    /\ reply' = [reply EXCEPT ![c] = NoReply]
    /\ UNCHANGED <<catalog, dataset, up, queue, pc>>

Deliver(c) == Close(c) /\ known' = known \cup reply[c].ids

(* The connection breaks, or the client no longer listens. *)
LoseReply(c) == Close(c) /\ UNCHANGED known

-----------------------------------------------------------------------------
(* The request a process is serving. *)

Serving(p, label, routes) ==
    /\ p \in up
    /\ pc[p] = label
    /\ queue[p] # <<>>
    /\ sent[Head(queue[p])].route \in routes

Current(p) == sent[Head(queue[p])]

Respond(p, status, ids, cause) ==
    /\ reply' = [reply EXCEPT ![Head(queue[p])] =
                    [status |-> status, ids |-> ids, cause |-> cause]]
    /\ queue' = [queue EXCEPT ![p] = Tail(@)]
    /\ pc' = [pc EXCEPT ![p] = "idle"]

Raise(p, error) == Respond(p, Status(Current(p).route, error), {}, error)

(* The handler goes on to its next call. *)
Goto(p, label) == pc' = [pc EXCEPT ![p] = label] /\ UNCHANGED <<queue, reply>>

(* DatasetService.register: describe the asset and hand a new dataset to   *)
(* the repository.  Its identifier is a uuid4, which nobody else has.  A   *)
(* reference with a NUL in it is a ValueError of resolve().                *)
Describe(p) ==
    /\ Serving(p, "idle", {"register"})
    /\ \/ /\ Goto(p, "catalog")
          /\ \E i \in Free :
                /\ dataset' = [dataset EXCEPT ![i] = [asset |-> Current(p).of, by |-> p]]
                /\ Catalog!Request(p)
                /\ request'[p] = [kind |-> "add", ids |-> {i}]
       \/ /\ \E error \in StorageErrors \cup {"ValueError"} : Raise(p, error)
          /\ UNCHANGED <<catalog, dataset>>
    /\ UNCHANGED <<up, client>>

(* DatasetQueryService refuses SQL that is not one SELECT before it looks  *)
(* for the dataset.                                                        *)
ValidateSql(p) ==
    /\ Serving(p, "idle", {"query"})
    /\ Raise(p, "QueryExecutionError")
    /\ UNCHANGED <<catalog, dataset, up, client>>

(* DatasetService.get and list. *)
Lookup(p) ==
    /\ Serving(p, "idle", Routes \ {"register"})
    /\ Goto(p, "catalog")
    /\ Catalog!Request(p)
    /\ request'[p] = IF Current(p).route = "list"
                     THEN [kind |-> "list", ids |-> Ids]
                     ELSE [kind |-> "get", ids |-> {Current(p).of}]
    /\ UNCHANGED <<dataset, up, client>>

(* The repository does its work, and may fail. *)
UseCatalog(p) ==
    /\ pc[p] = "catalog"
    /\ Catalog!Store(p) \/ Catalog!Read(p) \/ Catalog!Fail(p)
    /\ UNCHANGED <<dataset, server, client>>

(* Fault: None is not told from a dataset. *)
ContinueUnchecked(p) ==
    LET route == Current(p).route IN
    \/ route = "register" /\ Respond(p, 201, request[p].ids, "none")
    \/ route \in {"list", "get"} /\ Respond(p, 200, answer[p].rows, "none")
    \/ route \in {"profile", "query"} /\ Goto(p, "load")

(* What follows an operation on the repository that returned. *)
Continue(p) ==
    LET route == Current(p).route
        found == answer[p].rows
    IN
    \/ route = "register" /\ Respond(p, 201, request[p].ids, "none")
    \/ route = "list" /\ Respond(p, 200, found, "none")
    \/ route \notin {"register", "list"} /\ found = {} /\ Raise(p, "DatasetNotFoundError")
    \/ route = "get" /\ found # {} /\ Respond(p, 200, found, "none")
    \/ route \in {"profile", "query"} /\ found # {} /\ Goto(p, "load")

(* Fault: a registration is acknowledged although it was not stored. *)
ResumeSwallows(p) ==
    /\ Serving(p, "catalog", Routes)
    /\ Catalog!Return(p)
    /\ IF answer[p].status = "ok" \/ Current(p).route = "register"
       THEN Continue(p)
       ELSE Raise(p, "sqlite3.Error")
    /\ UNCHANGED <<dataset, up, client>>

(* Fault: a catalog that fails is asked again, without end. *)
ResumeRetries(p) ==
    /\ Serving(p, "catalog", Routes)
    /\ answer[p] # Catalog!NoAnswer
    /\ IF answer[p].status = "ok"
       THEN Catalog!Return(p) /\ Continue(p)
       ELSE /\ answer' = [answer EXCEPT ![p] = Catalog!NoAnswer]
            /\ UNCHANGED <<rows, request, queue, pc, reply>>
    /\ UNCHANGED <<dataset, up, client>>

(* The repository has returned or raised. *)
Resume(p) ==
    /\ Serving(p, "catalog", Routes)
    /\ Catalog!Return(p)
    /\ IF answer[p].status = "ok" THEN Continue(p) ELSE Raise(p, "sqlite3.Error")
    /\ UNCHANGED <<dataset, up, client>>

(* _load of the services: choose the loader by the format, then describe,  *)
(* open and parse the asset of the dataset.  The loaders do not translate  *)
(* every exception of their parsers.                                       *)
Load(p) ==
    /\ Serving(p, "load", {"profile", "query"})
    /\ IF dataset[Current(p).of].asset \in Unsupported
       THEN Raise(p, "UnsupportedDatasetFormatError")
       ELSE \/ Goto(p, "execute")
            \/ \E error \in StorageErrors \cup {"LoadError", "Uncaught"} : Raise(p, error)
    /\ UNCHANGED <<catalog, dataset, up, client>>

(* DatasetProfiler.profile, or DuckDBQueryEngine.execute and the row cap   *)
(* on its result.                                                          *)
Execute(p) ==
    /\ Serving(p, "execute", {"profile", "query"})
    /\ \/ Respond(p, 200, {Current(p).of}, "none")
       \/ Raise(p, "Uncaught")
       \/ /\ Current(p).route = "query"
          /\ \E error \in {"QueryExecutionError", "QueryResourceLimitError"} : Raise(p, error)
    /\ UNCHANGED <<catalog, dataset, up, client>>

-----------------------------------------------------------------------------
(* The life of a process. *)

(* Fault: initialize makes a new catalog. *)
StartEmpty(p) ==
    /\ p \notin up
    /\ up' = up \cup {p}
    /\ rows' = {}
    /\ UNCHANGED <<request, answer, dataset, queue, pc, reply, client>>

(* Startup: initialize() of the repository keeps what the catalog holds.   *)
(* If it raises, the process ends and may be started again.                *)
Start(p) ==
    /\ p \notin up
    /\ up' = up \cup {p}
    /\ UNCHANGED <<catalog, dataset, queue, pc, reply, client>>

(* Fault: shutdown does not wait for the requests being served. *)
StopAtOnce(p) ==
    /\ p \in up
    /\ up' = up \ {p}
    /\ UNCHANGED <<catalog, dataset, queue, pc, reply, client>>

(* Shutdown in order: the server has answered its requests before the      *)
(* lifespan context closes the repository.                                 *)
Stop(p) ==
    /\ p \in up
    /\ queue[p] = <<>>
    /\ up' = up \ {p}
    /\ UNCHANGED <<catalog, dataset, queue, pc, reply, client>>

(* The process dies, and with it every request it had. *)
Crash(p) ==
    /\ p \in up
    /\ up' = up \ {p}
    /\ queue' = [queue EXCEPT ![p] = <<>>]
    /\ pc' = [pc EXCEPT ![p] = "idle"]
    /\ sent' = [c \in Connections |->
                   IF \E k \in DOMAIN queue[p] : queue[p][k] = c THEN NoSent ELSE sent[c]]
    /\ Catalog!Lose({p})
    /\ UNCHANGED <<dataset, reply, known>>

Serve(p) == \/ Describe(p) \/ ValidateSql(p) \/ Lookup(p) \/ UseCatalog(p)
            \/ Resume(p) \/ Load(p) \/ Execute(p)

Next ==
    \/ \E c \in Connections : (\E p \in Procs : Send(c, p)) \/ Deliver(c) \/ LoseReply(c)
    \/ \E p \in Procs : Serve(p) \/ Start(p) \/ Stop(p) \/ Crash(p)

(* The event loop runs what is ready.  That a query or a profile ends is   *)
(* not assumed: Execute is left out.                                       *)
Fairness == \A p \in Procs :
    /\ WF_vars(Describe(p) \/ ValidateSql(p) \/ Lookup(p))
    /\ WF_vars(UseCatalog(p))
    /\ WF_vars(Resume(p))
    /\ WF_vars(Load(p))

Spec == Init /\ [][Next]_vars
FairSpec == Spec /\ Fairness

-----------------------------------------------------------------------------
(* Properties. *)

(* Every variable has its type; a process is busy only with a request it   *)
(* has, and no request is in two places.                                   *)
TypeOK ==
    /\ rows \subseteq Ids
    /\ request \in [Procs -> Catalog!Requests \cup {Catalog!NoRequest}]
    /\ answer \in [Procs -> [status : {"none", "ok", "error", "IntegrityError"},
                             rows : SUBSET Ids]]
    /\ dataset \in [Ids -> [asset : Assets \cup {None}, by : Procs \cup {None}]]
    /\ up \subseteq Procs
    /\ queue \in [Procs -> Seq(Connections)]
    /\ pc \in [Procs -> {"idle", "catalog", "load", "execute"}]
    /\ sent \in [Connections -> [route : Routes \cup {"none"},
                                 of : Assets \cup Ids \cup {None},
                                 at : Procs \cup {None}, due : SUBSET Ids]]
    /\ reply \in [Connections -> [status : {0, 200, 201, 400, 404, 422, 500},
                                  ids : SUBSET Ids,
                                  cause : DomainErrors \cup OtherErrors \cup {"none"}]]
    /\ known \subseteq Ids
    /\ \A p \in Procs : /\ queue[p] = <<>> => pc[p] = "idle"
                        /\ p \notin up => queue[p] = <<>>
                        /\ request[p] # Catalog!NoRequest <=> pc[p] = "catalog"
                        /\ \A k \in DOMAIN queue[p] : /\ sent[queue[p][k]].at = p
                                                     /\ reply[queue[p][k]] = NoReply
    /\ \A c \in Connections : reply[c] # NoReply => sent[c] # NoSent

(* The repository is shared and durable: a dataset that some client had    *)
(* been told of when a request was sent is in every list that answers it   *)
(* and is never "not found", whatever process serves it and whatever was   *)
(* stopped, killed or started in between (routes, datasets.py).            *)
KnownIsFound ==
    \A c \in Connections :
        /\ sent[c].route = "list" /\ reply[c].status = 200
              => sent[c].due \subseteq reply[c].ids
        /\ reply[c].cause = "DatasetNotFoundError" => sent[c].due = {}

(* What register answers agrees with what it did: the dataset of a 201 is  *)
(* stored, is of the asset asked for, and stays stored; one whose add      *)
(* raised is not (service.py, register).                                   *)
RegistrationIsAtomic ==
    /\ \A c \in Connections :
          sent[c].route = "register" /\ reply[c].status = 201
              => /\ Cardinality(reply[c].ids) = 1
                 /\ \A i \in reply[c].ids :
                       i \in rows /\ dataset[i] = [asset |-> sent[c].of, by |-> sent[c].at]
    /\ \A p \in Procs :
          answer[p].status = "error" => ~(request[p].kind = "add" /\ request[p].ids \subseteq rows)
    /\ known \subseteq rows

(* A response about one dataset is a response about the dataset asked for. *)
AnswersWhatWasAsked ==
    \A c \in Connections :
        sent[c].route \in {"get", "profile", "query"} /\ reply[c].status = 200
            => reply[c].ids = {sent[c].of} /\ sent[c].of \in rows

(* Every error the domain names reaches the client as a 4xx, from every    *)
(* route that may meet it; a 500 is only what the domain has no name for:  *)
(* a file system or catalog that failed, an exception of a library, or the *)
(* ValueError of a reference with a NUL, though that is the client's fault *)
(* (the except clauses of datasets.py).                                    *)
StatusNamesCause ==
    \A c \in Connections :
        /\ reply[c].cause \in DomainErrors => reply[c].status \in 400 .. 499
        /\ reply[c].status = 500 => reply[c].cause \in OtherErrors

(* A request that a process has is answered or lost with its process,      *)
(* unless that process executes one query or profile for ever: no failure  *)
(* of storage or catalog keeps the event loop.                             *)
RequestIsAnswered ==
    \A p \in Procs, c \in Connections :
        LET waiting == sent[c].at = p /\ reply[c] = NoReply
        IN  []<>(pc[p] # "execute") => (waiting ~> ~waiting)

(* What list_datasets says of itself (datasets.py, line 53): it returns    *)
(* the datasets registered in the current application process.             *)
ListsOwnProcess ==
    \A c \in Connections :
        sent[c].route = "list" => \A i \in reply[c].ids : dataset[i].by = sent[c].at
=============================================================================
