--------------------------- MODULE DatasetApiProofs ---------------------------
(***************************************************************************)
(* Theorems about DatasetApi, for any number of processes, connections,    *)
(* assets and identifiers.  ApiInv is inductive.                           *)
(***************************************************************************)
EXTENDS DatasetApi, FiniteSetTheorems, TLAPS

USE UnsupportedAssumption, NoneAssumption
USE DEF catalog, server, client, NoSent, NoReply, Unused
USE DEF Catalog!NoRequest, Catalog!NoAnswer

-----------------------------------------------------------------------------
(* The types. *)

Requests == Catalog!Requests \cup {Catalog!NoRequest}

Answers == [status : {"none", "ok", "error", "IntegrityError"}, rows : SUBSET Ids]

Datasets == [asset : Assets \cup {None}, by : Procs \cup {None}]

Labels == {"idle", "catalog", "load", "execute"}

Sendings == [route : Routes \cup {"none"}, of : Assets \cup Ids \cup {None},
             at : Procs \cup {None}, due : SUBSET Ids]

Responses == [status : {0, 200, 201, 400, 404, 422, 500}, ids : SUBSET Ids,
              cause : DomainErrors \cup OtherErrors \cup {"none"}]

USE DEF Requests, Answers, Datasets, Labels, Sendings, Responses

-----------------------------------------------------------------------------
(* The invariant. *)

Statuses == {"none", "ok", "error"}

(* A connection is in one place of one queue. *)
QueueInv(p) == \A j, k \in DOMAIN queue[p] : queue[p][j] = queue[p][k] => j = k

(* What is stored was drawn, and what clients know is stored. *)
StoredInv == known \subseteq rows /\ \A i \in rows : dataset[i] # Unused

(* What a request names, and that what it concerns is stored. *)
SentInv(c) ==
    /\ sent[c] = NoSent \/ (sent[c].route \in Routes /\ sent[c].at \in Procs)
    /\ sent[c].route = "register" => sent[c].of \in Assets
    /\ sent[c].route \in {"get", "profile", "query"} =>
          sent[c].of \in Ids /\ sent[c].due \subseteq {sent[c].of}
    /\ sent[c].due \subseteq rows

(* The identifier of a registration is its own: it is stored exactly if    *)
(* the catalog said so.                                                    *)
AddInv(p) ==
    \E i \in Ids : /\ request[p] = [kind |-> "add", ids |-> {i}]
                   /\ dataset[i] = [asset |-> Current(p).of, by |-> p]
                   /\ i \in rows <=> answer[p].status = "ok"

(* What the catalog was asked for is what the request asks for, and what   *)
(* it found includes all that the request concerns.                        *)
FindInv(p) ==
    /\ request[p] = IF Current(p).route = "list" THEN [kind |-> "list", ids |-> Ids]
                    ELSE [kind |-> "get", ids |-> {Current(p).of}]
    /\ answer[p].status = "ok" =>
          /\ answer[p].rows \subseteq request[p].ids \cap rows
          /\ Current(p).due \subseteq answer[p].rows

(* What the event loop of a process does belongs to its oldest request. *)
WorkInv(p) ==
    /\ pc[p] = "catalog" => /\ answer[p].status \in Statuses
                            /\ Current(p).route = "register" => AddInv(p)
                            /\ Current(p).route # "register" => FindInv(p)
    /\ pc[p] \in {"load", "execute"} =>
          Current(p).route \in {"profile", "query"} /\ Current(p).of \in rows
    /\ pc[p] # "catalog" => answer[p] = Catalog!NoAnswer

(* A response to s is what the properties ask for. *)
IsTrue(r, s) ==
    /\ r.ids \subseteq rows
    /\ s.route = "list" /\ r.status = 200 => s.due \subseteq r.ids
    /\ r.cause = "DatasetNotFoundError" => s.due = {}
    /\ s.route = "register" /\ r.status = 201 =>
          \E i \in rows : r.ids = {i} /\ dataset[i] = [asset |-> s.of, by |-> s.at]
    /\ s.route \in {"get", "profile", "query"} /\ r.status = 200 =>
          r.ids = {s.of} /\ s.of \in rows
    /\ r.cause \in DomainErrors => r.status \in 400 .. 499
    /\ r.status = 500 => r.cause \in OtherErrors

ReplyInv(c) == IsTrue(reply[c], sent[c])

ApiInv ==
    /\ TypeOK
    /\ StoredInv
    /\ \A p \in Procs : QueueInv(p) /\ WorkInv(p)
    /\ \A c \in Connections : SentInv(c) /\ ReplyInv(c)

(* No response is true of any request. *)
LEMMA NoReplyIsTrue ==
  ASSUME NEW s
  PROVE  IsTrue(NoReply, s)
  BY DEF IsTrue, DomainErrors

(* At the start no request was sent. *)
LEMMA InitEstablishesApiInv == Init => ApiInv
<1> SUFFICES ASSUME Init PROVE ApiInv OBVIOUS
<1> USE DEF Init, Catalog!Init
<1>1. TypeOK
  BY DEF TypeOK, OtherErrors
<1>2. StoredInv
  BY DEF StoredInv
<1>3. ASSUME NEW p \in Procs PROVE QueueInv(p) /\ WorkInv(p)
  BY DEF QueueInv, WorkInv
<1>4. ASSUME NEW c \in Connections PROVE SentInv(c) /\ ReplyInv(c)
  BY NoReplyIsTrue DEF SentInv, ReplyInv, Routes
<1> QED BY <1>1, <1>2, <1>3, <1>4 DEF ApiInv

-----------------------------------------------------------------------------
(* The catalog and the statuses. *)

(* The requests of the catalog. *)
LEMMA CatalogRequests ==
  /\ \A i \in Ids : [kind |-> "add", ids |-> {i}] \in Catalog!Requests
  /\ \A r \in Catalog!Requests : r # Catalog!NoRequest
  BY DEF Catalog!Requests

(* The table of statuses. *)
LEMMA StatusTable ==
  ASSUME NEW route \in Routes, NEW error \in DomainErrors \cup OtherErrors
  PROVE  /\ Status(route, error) \in {400, 404, 422, 500}
         /\ error \in OtherErrors => Status(route, error) = 500
         /\ error \in {"StorageAssetNotFoundError", "InvalidStorageReferenceError"}
               /\ route \in {"register", "profile", "query"} => Status(route, error) \in {400, 404}
         /\ error = "DatasetNotFoundError" /\ route \in {"get", "profile", "query"}
               => Status(route, error) = 404
         /\ error \in {"LoadError", "UnsupportedDatasetFormatError"}
               /\ route \in {"profile", "query"} => Status(route, error) = 422
         /\ error \in {"QueryExecutionError", "QueryResourceLimitError"} /\ route = "query"
               => Status(route, error) = 422
  BY DEF Status, Routes, DomainErrors, OtherErrors

-----------------------------------------------------------------------------
(* What a step leaves as it was. *)

(* A queue without its oldest connection. *)
LEMMA TailOfQueue ==
  ASSUME NEW S, NEW s \in Seq(S), s # <<>>
  PROVE  /\ Head(s) \in S /\ Head(s) = s[1] /\ 1 \in DOMAIN s
         /\ Tail(s) \in Seq(S)
         /\ \A k \in DOMAIN Tail(s) : /\ k \in Nat /\ k + 1 \in DOMAIN s /\ k + 1 # 1
                                      /\ Tail(s)[k] = s[k + 1]
  OBVIOUS

(* What a process does for a request is undisturbed by a step that leaves  *)
(* it and its request alone and stores nothing that it drew.               *)
LEMMA WorkIsUndisturbed ==
  ASSUME ApiInv, NEW q \in Procs, WorkInv(q),
         pc'[q] = pc[q], request'[q] = request[q], answer'[q] = answer[q],
         pc[q] # "idle" => Current(q)' = Current(q),
         rows \subseteq rows',
         \A i \in Ids : dataset[i] # Unused => dataset'[i] = dataset[i],
         \A i \in rows' : i \in rows \/ dataset[i].by # q
  PROVE  WorkInv(q)'
<1>1. CASE pc[q] = "idle"
  BY <1>1 DEF WorkInv
<1>2. CASE pc[q] \in {"load", "execute"}
  BY <1>2 DEF WorkInv
<1>3. CASE pc[q] = "catalog"
  <2>1. ASSUME AddInv(q) PROVE AddInv(q)'
    <3>1. PICK i \in Ids : /\ request[q] = [kind |-> "add", ids |-> {i}]
                           /\ dataset[i] = [asset |-> Current(q).of, by |-> q]
                           /\ i \in rows <=> answer[q].status = "ok"
      BY <2>1 DEF AddInv
    <3>2. dataset'[i] = dataset[i] /\ (i \in rows' <=> i \in rows)
      BY <3>1
    <3> QED BY <1>3, <3>1, <3>2 DEF AddInv
  <2>2. ASSUME FindInv(q) PROVE FindInv(q)'
    BY <1>3, <2>2 DEF FindInv
  <2> QED BY <1>3, <2>1, <2>2 DEF WorkInv
<1> QED BY <1>1, <1>2, <1>3 DEF ApiInv, TypeOK

(* What was answered stays true. *)
LEMMA TruthStays ==
  ASSUME ApiInv, NEW r, NEW s, IsTrue(r, s),
         rows \subseteq rows',
         \A i \in Ids : dataset[i] # Unused => dataset'[i] = dataset[i]
  PROVE  /\ r.ids \subseteq rows'
         /\ s.route = "register" /\ r.status = 201 =>
               \E i \in rows' : r.ids = {i} /\ dataset'[i] = [asset |-> s.of, by |-> s.at]
         /\ s.route \in {"get", "profile", "query"} /\ r.status = 200 =>
               r.ids = {s.of} /\ s.of \in rows'
<1>1. \A i \in rows : i \in Ids /\ dataset[i] # Unused
  BY DEF ApiInv, StoredInv, TypeOK
<1> QED BY <1>1 DEF IsTrue

(* So does what a connection was answered. *)
LEMMA ReplyIsUndisturbed ==
  ASSUME ApiInv, NEW c \in Connections, ReplyInv(c),
         reply'[c] = reply[c], sent'[c] = sent[c],
         rows \subseteq rows',
         \A i \in Ids : dataset[i] # Unused => dataset'[i] = dataset[i]
  PROVE  ReplyInv(c)'
<1> HIDE DEF NoReply, NoSent
<1>1. IsTrue(reply[c], sent[c])
  BY DEF ReplyInv
<1> QED BY <1>1, TruthStays DEF ReplyInv, IsTrue

(* A process that has not asked the catalog has neither question nor       *)
(* answer.                                                                 *)
LEMMA NothingAsked ==
  ASSUME ApiInv, NEW p \in Procs, pc[p] # "catalog", UNCHANGED catalog
  PROVE  /\ request' = [request EXCEPT ![p] = Catalog!NoRequest]
         /\ answer' = [answer EXCEPT ![p] = Catalog!NoAnswer]
         /\ rows' = rows
<1> USE DEF ApiInv, TypeOK
<1>1. request[p] = Catalog!NoRequest
  OBVIOUS
<1>2. answer[p] = Catalog!NoAnswer
  BY DEF WorkInv
<1> QED BY <1>1, <1>2

-----------------------------------------------------------------------------
(* The steps. *)

(* What a process may answer. *)
Replies == [status : {200, 201, 400, 404, 422, 500}, ids : SUBSET Ids,
            cause : DomainErrors \cup OtherErrors \cup {"none"}]

(* A process answers the oldest request it has with what is true, and has  *)
(* no business with the catalog any more.                                  *)
LEMMA RespondPreserves ==
  ASSUME ApiInv, NEW p \in Procs, p \in up, queue[p] # <<>>,
         NEW r \in Replies,
         reply' = [reply EXCEPT ![Head(queue[p])] = r],
         queue' = [queue EXCEPT ![p] = Tail(queue[p])],
         pc' = [pc EXCEPT ![p] = "idle"],
         IsTrue(r, Current(p)),
         request' = [request EXCEPT ![p] = Catalog!NoRequest],
         answer' = [answer EXCEPT ![p] = Catalog!NoAnswer],
         UNCHANGED <<rows, dataset, up, client>>
  PROVE  ApiInv'
<1> DEFINE h == Head(queue[p])
<1> USE DEF ApiInv, Replies
<1>1. /\ queue \in [Procs -> Seq(Connections)] /\ pc \in [Procs -> Labels]
      /\ request \in [Procs -> Requests]
      /\ answer \in [Procs -> Answers]
      /\ reply \in [Connections -> Responses]
  BY DEF TypeOK
<1>2. /\ h \in Connections /\ h = queue[p][1] /\ 1 \in DOMAIN queue[p]
      /\ Tail(queue[p]) \in Seq(Connections)
      /\ \A k \in DOMAIN Tail(queue[p]) : /\ k \in Nat /\ k + 1 \in DOMAIN queue[p] /\ k + 1 # 1
                                          /\ Tail(queue[p])[k] = queue[p][k + 1]
  BY <1>1, TailOfQueue
<1>3. /\ queue'[p] = Tail(queue[p]) /\ pc'[p] = "idle" /\ reply'[h] = r
      /\ request'[p] = Catalog!NoRequest /\ answer'[p] = Catalog!NoAnswer
      /\ \A q \in Procs \ {p} : /\ queue'[q] = queue[q] /\ pc'[q] = pc[q]
                                /\ request'[q] = request[q] /\ answer'[q] = answer[q]
      /\ \A c \in Connections \ {h} : reply'[c] = reply[c]
  BY <1>1, <1>2
<1>4. \A q \in Procs : \A k \in DOMAIN queue'[q] :
         queue'[q][k] # h /\ \E j \in DOMAIN queue[q] : queue'[q][k] = queue[q][j]
  <2>1. ASSUME NEW k \in DOMAIN queue'[p]
        PROVE queue'[p][k] # h /\ \E j \in DOMAIN queue[p] : queue'[p][k] = queue[p][j]
    <3>1. /\ k + 1 \in DOMAIN queue[p] /\ k + 1 # 1
          /\ queue'[p][k] = queue[p][k + 1]
      <4> HIDE DEF ApiInv
      <4>1. queue'[p] = Tail(queue[p])
        BY <1>3
      <4>2. k \in DOMAIN Tail(queue[p])
        BY <4>1
      <4>3. /\ k + 1 \in DOMAIN queue[p] /\ k + 1 # 1
            /\ Tail(queue[p])[k] = queue[p][k + 1]
        <5>1. \A j \in DOMAIN Tail(queue[p]) : /\ j + 1 \in DOMAIN queue[p] /\ j + 1 # 1
                                              /\ Tail(queue[p])[j] = queue[p][j + 1]
          BY <1>2
        <5> QED BY ONLY <4>2, <5>1, Zenon
      <4>4. queue'[p][k] = Tail(queue[p])[k]
        BY ONLY <4>1, Zenon
      <4> QED BY ONLY <4>3, <4>4, Zenon
    <3>2. queue[p][k + 1] # queue[p][1]
      BY <1>2, <3>1 DEF QueueInv
    <3> QED BY <1>2, <3>1, <3>2
  <2>2. ASSUME NEW q \in Procs \ {p}, NEW k \in DOMAIN queue[q] PROVE queue[q][k] # h
    BY <1>2 DEF TypeOK
  <2> QED BY <1>3, <2>1, <2>2
<1>5. TypeOK'
  <2>1. \A q \in Procs : /\ queue'[q] = <<>> => pc'[q] = "idle"
                         /\ q \notin up' => queue'[q] = <<>>
                         /\ request'[q] # Catalog!NoRequest <=> pc'[q] = "catalog"
    BY <1>3 DEF TypeOK
  <2>2. ASSUME NEW q \in Procs, NEW k \in DOMAIN queue'[q]
        PROVE sent'[queue'[q][k]].at = q /\ reply'[queue'[q][k]] = NoReply
    <3>1. PICK j \in DOMAIN queue[q] : queue'[q][k] = queue[q][j]
      BY <1>4
    <3>2. queue[q][j] \in Connections
      BY <1>1
    <3> QED BY <1>3, <1>4, <3>1, <3>2 DEF TypeOK
  <2>3. \A c \in Connections : reply'[c] # NoReply => sent'[c] # NoSent
    <3>1. sent[h].at = p
      BY <1>2 DEF TypeOK
    <3>2. sent[h] # NoSent
      BY <3>1
    <3>3. \A c \in Connections : reply[c] # NoReply => sent[c] # NoSent
      BY DEF TypeOK
    <3> HIDE DEF ApiInv, NoReply, NoSent
    <3> QED BY <1>3, <3>2, <3>3
  <2>4. /\ queue' \in [Procs -> Seq(Connections)] /\ pc' \in [Procs -> Labels]
        /\ request' \in [Procs -> Requests]
        /\ answer' \in [Procs -> Answers]
        /\ reply' \in [Connections -> Responses]
    BY <1>1, <1>2
  <2> QED BY <2>1, <2>2, <2>3, <2>4 DEF TypeOK
<1>6. ASSUME NEW q \in Procs PROVE QueueInv(q)'
  <2>1. CASE q = p
    BY <2>1, <1>2, <1>3 DEF QueueInv
  <2>2. CASE q # p
    BY <2>2, <1>3 DEF QueueInv
  <2> QED BY <2>1, <2>2
<1>7. ASSUME NEW q \in Procs PROVE WorkInv(q)'
  <2>1. CASE q = p
    BY <2>1, <1>3 DEF WorkInv
  <2>2. CASE q # p
    <3>1. Current(q)' = Current(q)
      BY <2>2, <1>3 DEF Current
    <3>2. WorkInv(q)
      OBVIOUS
    <3> QED BY <1>3, <2>2, <3>1, <3>2, WorkIsUndisturbed
  <2> QED BY <2>1, <2>2
<1>8. ASSUME NEW c \in Connections PROVE ReplyInv(c)'
  <2>1. CASE c = h
    <3>1. reply'[c] = r /\ sent'[c] = Current(p) /\ rows' = rows /\ dataset' = dataset
      BY <2>1, <1>3 DEF Current
    <3>2. IsTrue(r, Current(p))
      OBVIOUS
    <3> HIDE DEF h, ApiInv, Replies, NoReply, NoSent, Unused, Catalog!NoAnswer, Catalog!NoRequest
    <3> QED BY ONLY <3>1, <3>2 DEF ReplyInv, IsTrue
  <2>2. CASE c # h
    <3>1. ReplyInv(c)
      OBVIOUS
    <3> QED BY <1>3, <2>2, <3>1, ReplyIsUndisturbed
  <2> QED BY <2>1, <2>2
<1>9. ASSUME NEW c \in Connections PROVE SentInv(c)'
  <2>1. SentInv(c) /\ rows' = rows /\ sent' = sent
    OBVIOUS
  <2> HIDE DEF ApiInv
  <2> QED BY <2>1 DEF SentInv
<1> QED BY <1>5, <1>6, <1>7, <1>8, <1>9 DEF StoredInv, ApiInv

(* A process goes on with its oldest request, and at most stores what it   *)
(* drew itself.                                                            *)
LEMMA WorkPreserves ==
  ASSUME ApiInv, NEW p \in Procs, queue[p] # <<>>,
         NEW label \in {"catalog", "load", "execute"}, pc' = [pc EXCEPT ![p] = label],
         NEW asked \in Requests,
         request' = [request EXCEPT ![p] = asked],
         asked # Catalog!NoRequest <=> label = "catalog",
         NEW told \in Answers,
         answer' = [answer EXCEPT ![p] = told],
         UNCHANGED <<up, queue, reply, client>>,
         rows \subseteq rows', rows' \subseteq Ids,
         \A i \in rows' : i \in rows \/ dataset[i].by = p,
         dataset' \in [Ids -> Datasets],
         \A i \in Ids : dataset[i] # Unused => dataset'[i] = dataset[i],
         WorkInv(p)'
  PROVE  ApiInv'
<1> USE DEF ApiInv
<1>1. /\ pc \in [Procs -> Labels]
      /\ request \in [Procs -> Requests]
      /\ answer \in [Procs -> Answers]
  BY DEF TypeOK
<1>2. /\ pc'[p] = label /\ request'[p] = asked /\ answer'[p] = told
      /\ \A q \in Procs \ {p} : /\ pc'[q] = pc[q] /\ request'[q] = request[q]
                                /\ answer'[q] = answer[q]
  BY <1>1
<1>3. TypeOK'
  <2>1. ASSUME NEW q \in Procs
        PROVE  /\ queue'[q] = <<>> => pc'[q] = "idle"
               /\ q \notin up' => queue'[q] = <<>>
               /\ request'[q] # Catalog!NoRequest <=> pc'[q] = "catalog"
    <3>1. /\ queue[q] = <<>> => pc[q] = "idle"
          /\ q \notin up => queue[q] = <<>>
          /\ request[q] # Catalog!NoRequest <=> pc[q] = "catalog"
      BY DEF TypeOK
    <3> HIDE DEF ApiInv, Catalog!NoRequest
    <3>2. CASE q = p
      BY <1>2, <3>1, <3>2
    <3>3. CASE q # p
      BY <1>2, <3>1, <3>3
    <3> QED BY <3>2, <3>3
  <2>2. /\ pc' \in [Procs -> Labels]
        /\ request' \in [Procs -> Requests]
        /\ answer' \in [Procs -> Answers]
    BY <1>1
  <2> QED BY <2>1, <2>2 DEF TypeOK
<1>4. StoredInv'
  <2>1. \A i \in rows' : dataset[i] # Unused
    BY DEF StoredInv
  <2> QED BY <2>1 DEF StoredInv
<1>5. ASSUME NEW q \in Procs PROVE QueueInv(q)' /\ WorkInv(q)'
  <2>1. QueueInv(q)'
    BY DEF QueueInv
  <2>2. CASE q # p
    <3>1. Current(q)' = Current(q)
      BY DEF Current
    <3>2. \A i \in rows' : i \in rows \/ dataset[i].by # q
      BY <2>2
    <3>3. WorkInv(q)
      OBVIOUS
    <3> QED BY <1>2, <2>1, <2>2, <3>1, <3>2, <3>3, WorkIsUndisturbed
  <2> QED BY <2>1, <2>2
<1>6. ASSUME NEW c \in Connections PROVE SentInv(c)' /\ ReplyInv(c)'
  <2>1. SentInv(c) /\ ReplyInv(c) /\ sent' = sent /\ reply' = reply
    OBVIOUS
  <2>2. ReplyInv(c)'
    BY <2>1, ReplyIsUndisturbed
  <2>3. SentInv(c)'
    <3> HIDE DEF ApiInv
    <3> QED BY <2>1 DEF SentInv
  <2> QED BY <2>2, <2>3
<1> QED BY <1>3, <1>4, <1>5, <1>6

(* What the request that is served asks for. *)
LEMMA CurrentRequest ==
  ASSUME ApiInv, NEW p \in Procs, queue[p] # <<>>
  PROVE  /\ Current(p).route \in Routes
         /\ Current(p).at = p
         /\ Current(p).route = "register" => Current(p).of \in Assets
         /\ Current(p).route \in {"get", "profile", "query"} =>
               Current(p).of \in Ids /\ Current(p).due \subseteq {Current(p).of}
         /\ Current(p).due \subseteq rows
<1> USE DEF ApiInv
<1>1. /\ Head(queue[p]) \in Connections /\ Head(queue[p]) = queue[p][1] /\ 1 \in DOMAIN queue[p]
  BY TailOfQueue DEF TypeOK
<1>2. Current(p).at = p
  BY <1>1 DEF TypeOK, Current
<1>3. SentInv(Head(queue[p]))
  BY <1>1
<1> QED BY <1>2, <1>3 DEF SentInv, Current

(* An error is answered with a status that tells the truth about it. *)
LEMMA RaisePreserves ==
  ASSUME ApiInv, NEW p \in Procs, p \in up, queue[p] # <<>>,
         NEW error \in DomainErrors \cup OtherErrors, Raise(p, error),
         error = "DatasetNotFoundError" => Current(p).due = {},
         error \in DomainErrors => Status(Current(p).route, error) # 500,
         request' = [request EXCEPT ![p] = Catalog!NoRequest],
         answer' = [answer EXCEPT ![p] = Catalog!NoAnswer],
         UNCHANGED <<rows, dataset, up, client>>
  PROVE  ApiInv'
<1> DEFINE status == Status(Current(p).route, error)
<1>1. status \in {400, 404, 422, 500} /\ (error \in OtherErrors => status = 500)
  BY CurrentRequest, StatusTable
<1>2. IsTrue([status |-> status, ids |-> {}, cause |-> error], Current(p))
  BY <1>1 DEF IsTrue
<1>3. Respond(p, status, {}, error)
  BY DEF Raise
<1>4. [status |-> status, ids |-> {}, cause |-> error] \in Replies
  BY <1>1 DEF Replies
<1> HIDE DEF status
<1> QED BY <1>2, <1>3, <1>4, RespondPreserves DEF Respond

(* The first step of register: an identifier that is drawn is not stored. *)
LEMMA DescribePreserves ==
  ASSUME ApiInv, NEW p \in Procs, Describe(p) PROVE ApiInv'
<1>1. p \in up /\ pc[p] = "idle" /\ queue[p] # <<>> /\ Current(p).route = "register"
  BY DEF Describe, Serving, Current
<1>2. /\ Current(p).of \in Assets /\ Current(p).at = p
  BY <1>1, CurrentRequest
<1>3. ASSUME NEW error \in StorageErrors \cup {"ValueError"}, Raise(p, error),
             UNCHANGED <<catalog, dataset, up, client>>
      PROVE  ApiInv'
  <2>1. /\ error \in DomainErrors \cup OtherErrors /\ error # "DatasetNotFoundError"
        /\ error \in DomainErrors => Status("register", error) # 500
    BY <1>3 DEF StorageErrors, DomainErrors, OtherErrors, Status
  <2> QED BY <1>1, <1>3, <2>1, NothingAsked, RaisePreserves
<1>4. ASSUME NEW i \in Free, Goto(p, "catalog"),
             dataset' = [dataset EXCEPT ![i] = [asset |-> Current(p).of, by |-> p]],
             Catalog!Request(p), request'[p] = [kind |-> "add", ids |-> {i}],
             UNCHANGED <<up, client>>
      PROVE  ApiInv'
  <2>1. i \in Ids /\ dataset[i] = Unused /\ i \notin rows
    BY DEF Free, ApiInv, StoredInv
  <2>2. request \in [Procs -> Requests]
    BY DEF ApiInv, TypeOK
  <2>3. PICK asked \in Catalog!Requests : request' = [request EXCEPT ![p] = asked]
    BY <1>4 DEF Catalog!Request
  <2>4. asked = [kind |-> "add", ids |-> {i}] /\ asked # Catalog!NoRequest
    BY <1>4, <2>2, <2>3
  <2>5. answer \in [Procs -> Answers]
        /\ answer[p] = Catalog!NoAnswer
    BY <1>1 DEF ApiInv, TypeOK, WorkInv
  <2>6. answer' = answer /\ rows' = rows /\ answer' = [answer EXCEPT ![p] = Catalog!NoAnswer]
    BY <1>4, <2>5 DEF Catalog!Request
  <2>7. dataset \in [Ids -> Datasets] /\ rows \subseteq Ids
    BY DEF ApiInv, TypeOK
  <2>8. /\ dataset' \in [Ids -> Datasets]
        /\ \A j \in Ids : dataset[j] # Unused => dataset'[j] = dataset[j]
        /\ dataset'[i] = [asset |-> Current(p).of, by |-> p]
    BY <1>2, <1>4, <2>1, <2>7
  <2>9. Current(p)' = Current(p) /\ pc' = [pc EXCEPT ![p] = "catalog"] /\ UNCHANGED <<queue, reply>>
    BY <1>4 DEF Current, Goto
  <2>10. AddInv(p)'
    <3>1. i \notin rows' /\ answer'[p].status = "none"
      BY <2>1, <2>5, <2>6
    <3>2. dataset'[i] = [asset |-> Current(p)'.of, by |-> p]
      BY <2>8, <2>9
    <3> QED BY <1>4, <2>1, <3>1, <3>2 DEF AddInv
  <2>11. pc'[p] = "catalog"
    BY <2>9 DEF ApiInv, TypeOK
  <2>12. WorkInv(p)'
    BY <1>1, <2>5, <2>6, <2>9, <2>10, <2>11 DEF WorkInv, Statuses
  <2> HIDE DEF Catalog!NoRequest, Unused
  <2>13. Catalog!NoAnswer \in Answers
    OBVIOUS
  <2> HIDE DEF Catalog!NoAnswer
  <2> QED
      BY <1>1, <1>4, <2>3, <2>4, <2>6, <2>7, <2>8, <2>9, <2>12, <2>13,
        WorkPreserves
<1> QED BY <1>3, <1>4 DEF Describe

(* A query whose SQL is refused. *)
LEMMA ValidateSqlPreserves ==
  ASSUME ApiInv, NEW p \in Procs, ValidateSql(p) PROVE ApiInv'
<1>1. p \in up /\ pc[p] = "idle" /\ queue[p] # <<>> /\ Current(p).route = "query"
  BY DEF ValidateSql, Serving, Current
<1>2. Status("query", "QueryExecutionError") # 500 /\ "QueryExecutionError" \in DomainErrors
  BY DEF Status, DomainErrors
<1> QED BY <1>1, <1>2, NothingAsked, RaisePreserves DEF ValidateSql

(* The load of a dataset for profile and query. *)
LEMMA LoadPreserves ==
  ASSUME ApiInv, NEW p \in Procs, Load(p) PROVE ApiInv'
<1>1. /\ p \in up /\ pc[p] = "load" /\ queue[p] # <<>> /\ Current(p).route \in {"profile", "query"}
      /\ UNCHANGED <<catalog, dataset, up, client>>
  BY DEF Load, Serving, Current
<1>2. ASSUME NEW error \in
                StorageErrors \cup {"LoadError", "Uncaught", "UnsupportedDatasetFormatError"},
             Raise(p, error)
      PROVE  ApiInv'
  <2>1. /\ error \in DomainErrors \cup OtherErrors /\ error # "DatasetNotFoundError"
        /\ error \in DomainErrors => Status(Current(p).route, error) # 500
    BY <1>1, <1>2 DEF StorageErrors, DomainErrors, OtherErrors, Status
  <2> QED BY <1>1, <1>2, <2>1, NothingAsked, RaisePreserves
<1>3. ASSUME Goto(p, "execute") PROVE ApiInv'
  <2>1. /\ pc' = [pc EXCEPT ![p] = "execute"] /\ UNCHANGED <<queue, reply>>
        /\ Current(p)' = Current(p)
    BY <1>1, <1>3 DEF Goto, Current
  <2>2. /\ pc'[p] = "execute" /\ rows \subseteq Ids
        /\ dataset \in [Ids -> Datasets]
        /\ answer[p] = Catalog!NoAnswer /\ Current(p).of \in rows
    BY <1>1, <2>1 DEF ApiInv, TypeOK, WorkInv
  <2>3. WorkInv(p)'
    BY <1>1, <2>1, <2>2 DEF WorkInv
  <2>4. Catalog!NoAnswer \in Answers
    OBVIOUS
  <2> HIDE DEF Catalog!NoAnswer, Catalog!NoRequest
  <2>5. /\ request' = [request EXCEPT ![p] = Catalog!NoRequest]
        /\ answer' = [answer EXCEPT ![p] = Catalog!NoAnswer]
    BY <1>1, NothingAsked
  <2> QED BY <1>1, <2>1, <2>2, <2>3, <2>4, <2>5, WorkPreserves
<1> QED BY <1>2, <1>3 DEF Load

(* The profile or the query itself. *)
LEMMA ExecutePreserves ==
  ASSUME ApiInv, NEW p \in Procs, Execute(p) PROVE ApiInv'
<1>1. /\ p \in up /\ pc[p] = "execute" /\ queue[p] # <<>> /\ Current(p).route \in {"profile", "query"}
      /\ UNCHANGED <<catalog, dataset, up, client>>
  BY DEF Execute, Serving, Current
<1>2. Current(p).of \in rows /\ rows \subseteq Ids /\ Current(p).due \subseteq {Current(p).of}
  BY <1>1, CurrentRequest DEF ApiInv, WorkInv, TypeOK
<1>3. ASSUME Respond(p, 200, {Current(p).of}, "none") PROVE ApiInv'
  <2>1. IsTrue([status |-> 200, ids |-> {Current(p).of}, cause |-> "none"], Current(p))
    BY <1>1, <1>2 DEF IsTrue, DomainErrors
  <2>2. [status |-> 200, ids |-> {Current(p).of}, cause |-> "none"] \in Replies
    BY <1>2 DEF Replies
  <2> QED
    BY <2>2, <1>1, <1>2, <1>3, <2>1, NothingAsked, RespondPreserves DEF Respond
<1>4. ASSUME Raise(p, "Uncaught") PROVE ApiInv'
  <2>1. "Uncaught" \in OtherErrors /\ "Uncaught" \notin DomainErrors
    BY DEF OtherErrors, DomainErrors
  <2> QED BY <1>1, <1>4, <2>1, NothingAsked, RaisePreserves
<1>5. ASSUME Current(p).route = "query",
             NEW error \in {"QueryExecutionError", "QueryResourceLimitError"}, Raise(p, error)
      PROVE  ApiInv'
  <2>1. error \in DomainErrors /\ Status("query", error) # 500
    BY DEF Status, DomainErrors
  <2> QED BY <1>1, <1>5, <2>1, NothingAsked, RaisePreserves
<1> QED BY <1>3, <1>4, <1>5 DEF Execute

(* The first step of list, get, profile and query. *)
LEMMA LookupPreserves ==
  ASSUME ApiInv, NEW p \in Procs, Lookup(p) PROVE ApiInv'
<1>1. /\ pc[p] = "idle" /\ queue[p] # <<>> /\ Current(p).route \in Routes \ {"register"}
      /\ Goto(p, "catalog") /\ Catalog!Request(p) /\ UNCHANGED <<dataset, up, client>>
  BY DEF Lookup, Serving, Current
<1>2. request'[p] = IF Current(p).route = "list" THEN [kind |-> "list", ids |-> Ids]
                    ELSE [kind |-> "get", ids |-> {Current(p).of}]
  BY DEF Lookup
<1>3. /\ request \in [Procs -> Requests]
      /\ answer \in [Procs -> Answers]
      /\ pc \in [Procs -> Labels]
      /\ dataset \in [Ids -> Datasets] /\ rows \subseteq Ids
      /\ answer[p] = Catalog!NoAnswer
  BY <1>1 DEF ApiInv, TypeOK, WorkInv
<1>4. PICK asked \in Catalog!Requests : request' = [request EXCEPT ![p] = asked]
  BY <1>1 DEF Catalog!Request
<1>5. asked # Catalog!NoRequest
  BY <1>4, CatalogRequests
<1>6. answer' = answer /\ rows' = rows /\ answer' = [answer EXCEPT ![p] = Catalog!NoAnswer]
  BY <1>1, <1>3 DEF Catalog!Request
<1>7. /\ Current(p)' = Current(p) /\ UNCHANGED <<queue, reply>>
      /\ pc' = [pc EXCEPT ![p] = "catalog"] /\ pc'[p] = "catalog"
  BY <1>1, <1>3 DEF Current, Goto
<1>8. FindInv(p)'
  BY <1>2, <1>3, <1>6, <1>7 DEF FindInv
<1>9. WorkInv(p)'
  BY <1>1, <1>3, <1>6, <1>7, <1>8 DEF WorkInv, Statuses
<1>10. Catalog!NoAnswer \in Answers
  OBVIOUS
<1> HIDE DEF Catalog!NoAnswer, Catalog!NoRequest
<1> QED BY <1>1, <1>3, <1>4, <1>5, <1>6, <1>7, <1>9, <1>10, WorkPreserves

(* The catalog stores a dataset only for the process that drew it, and     *)
(* never finds its identifier in use.                                      *)
LEMMA UseCatalogPreserves ==
  ASSUME ApiInv, NEW p \in Procs, UseCatalog(p) PROVE ApiInv'
<1>1. pc[p] = "catalog" /\ UNCHANGED <<dataset, server, client>>
  BY DEF UseCatalog
<1>2. /\ queue[p] # <<>> /\ rows \subseteq Ids
      /\ request \in [Procs -> Requests]
      /\ answer \in [Procs -> Answers]
      /\ pc \in [Procs -> Labels]
      /\ dataset \in [Ids -> Datasets]
      /\ request[p] # Catalog!NoRequest
  BY <1>1 DEF ApiInv, TypeOK
<1>3. /\ Current(p).route = "register" => AddInv(p)
      /\ Current(p).route # "register" => FindInv(p)
  BY <1>1 DEF ApiInv, WorkInv
<1>4. /\ Current(p)' = Current(p) /\ Current(p).due \subseteq rows
      /\ Current(p).route # "list" => Current(p).due \subseteq {Current(p).of} \/ Current(p).route = "register"
      /\ Current(p).route \in Routes
  BY <1>1, <1>2, CurrentRequest DEF Current, Routes
<1>5. /\ request' = request /\ request' = [request EXCEPT ![p] = request[p]]
      /\ request[p] \in Requests
    BY <1>2
       DEF UseCatalog, Catalog!Store, Catalog!Read, Catalog!Fail,
         Catalog!Waiting
<1>6. /\ pc' = [pc EXCEPT ![p] = "catalog"] /\ pc'[p] = "catalog"
      /\ UNCHANGED <<up, queue, reply, client>>
  BY <1>1, <1>2
<1>7. ASSUME NEW told \in [status : {"ok", "error"}, rows : SUBSET Ids],
             answer' = [answer EXCEPT ![p] = told],
             rows \subseteq rows', rows' \subseteq Ids,
             \A i \in rows' : i \in rows \/ dataset[i].by = p,
             Current(p).route = "register" => AddInv(p)',
             Current(p).route # "register" => FindInv(p)'
      PROVE  ApiInv'
  <2>1. answer'[p] = told /\ told \in Answers
    BY <1>2, <1>7
  <2>2. WorkInv(p)'
    BY <1>4, <1>6, <1>7, <2>1 DEF WorkInv, Statuses
  <2> HIDE DEF Catalog!NoRequest, Unused, Catalog!NoAnswer
  <2>3. /\ \A i \in Ids : dataset[i] # Unused => dataset'[i] = dataset[i]
        /\ dataset' \in [Ids -> Datasets]
    BY <1>1, <1>2
  <2> QED BY <1>2, <1>5, <1>6, <1>7, <2>1, <2>2, <2>3, WorkPreserves
<1>8. CASE Catalog!Store(p)
  <2>1. request[p].kind = "add" /\ answer[p] = Catalog!NoAnswer
    BY <1>8 DEF Catalog!Store, Catalog!Waiting
  <2>2. Current(p).route = "register"
    BY <1>3, <2>1 DEF FindInv
  <2>3. PICK i \in Ids : /\ request[p] = [kind |-> "add", ids |-> {i}]
                         /\ dataset[i] = [asset |-> Current(p).of, by |-> p]
                         /\ i \in rows <=> answer[p].status = "ok"
    BY <1>3, <2>2 DEF AddInv
  <2>4. i \notin rows
    BY <2>1, <2>3
  <2>5. /\ answer' = [answer EXCEPT ![p] = [status |-> "ok", rows |-> {}]]
        /\ rows' = rows \cup {i}
    BY <1>8, <2>3, <2>4 DEF Catalog!Store, Catalog!Reply
  <2>6. answer'[p].status = "ok" /\ dataset'[i] = dataset[i]
    BY <1>1, <1>2, <2>5
  <2>7. AddInv(p)'
    BY <1>4, <1>5, <2>3, <2>5, <2>6 DEF AddInv
  <2>8. /\ [status |-> "ok", rows |-> {}] \in [status : {"ok", "error"}, rows : SUBSET Ids]
        /\ rows \subseteq rows' /\ rows' \subseteq Ids
        /\ \A j \in rows' : j \in rows \/ dataset[j].by = p
    BY <1>2, <2>3, <2>5
  <2> QED BY <1>7, <2>2, <2>5, <2>7, <2>8
<1>9. CASE Catalog!Read(p)
  <2>1. request[p].kind \in {"get", "list"} /\ rows' = rows
    BY <1>9 DEF Catalog!Read, Catalog!Waiting
  <2>2. Current(p).route # "register"
    <3>1. ASSUME AddInv(p) PROVE FALSE
      <4>1. PICK i \in Ids : request[p] = [kind |-> "add", ids |-> {i}]
        BY <3>1 DEF AddInv
      <4> QED BY <2>1, <4>1
    <3> QED BY <1>3, <3>1
  <2>3. FindInv(p)
    BY <1>3, <2>2
  <2>4. answer' = [answer EXCEPT ![p] = [status |-> "ok", rows |-> request[p].ids \cap rows]]
    BY <1>9 DEF Catalog!Read, Catalog!Reply
  <2>5. answer'[p] = [status |-> "ok", rows |-> request[p].ids \cap rows]
    BY <1>2, <2>4
  <2>6. Current(p).due \subseteq request[p].ids \cap rows
    BY <1>2, <1>4, <2>2, <2>3 DEF FindInv
  <2>7. FindInv(p)'
    BY <1>4, <1>5, <2>1, <2>3, <2>5, <2>6 DEF FindInv
  <2>8. [status |-> "ok", rows |-> request[p].ids \cap rows] \in [status : {"ok", "error"}, rows : SUBSET Ids]
    BY <1>2
  <2> QED BY <1>2, <1>7, <2>1, <2>2, <2>4, <2>7, <2>8
<1>10. CASE Catalog!Fail(p)
  <2>1. /\ rows' = rows /\ answer[p] = Catalog!NoAnswer
        /\ answer' = [answer EXCEPT ![p] = [status |-> "error", rows |-> {}]]
    BY <1>10 DEF Catalog!Fail, Catalog!Waiting, Catalog!Reply
  <2>2. answer'[p].status = "error"
    BY <1>2, <2>1
  <2>3. ASSUME AddInv(p) PROVE AddInv(p)'
    <3>1. PICK i \in Ids : /\ request[p] = [kind |-> "add", ids |-> {i}]
                           /\ dataset[i] = [asset |-> Current(p).of, by |-> p]
                           /\ i \in rows <=> answer[p].status = "ok"
      BY <2>3 DEF AddInv
    <3>2. i \notin rows' /\ dataset' = dataset
      BY <1>1, <2>1, <3>1
    <3> QED BY <1>4, <1>5, <2>2, <3>1, <3>2 DEF AddInv
  <2>4. FindInv(p) => FindInv(p)'
    BY <1>4, <1>5, <2>1, <2>2 DEF FindInv
  <2> QED BY <1>2, <1>3, <1>7, <2>1, <2>3, <2>4
<1> QED BY <1>8, <1>9, <1>10 DEF UseCatalog

(* What follows a call of the repository. *)
LEMMA ResumePreserves ==
  ASSUME ApiInv, NEW p \in Procs, Resume(p) PROVE ApiInv'
<1>1. /\ p \in up /\ pc[p] = "catalog" /\ queue[p] # <<>> /\ Current(p).route \in Routes
      /\ Catalog!Return(p) /\ UNCHANGED <<dataset, up, client>>
  BY DEF Resume, Serving, Current
<1>2. /\ request' = [request EXCEPT ![p] = Catalog!NoRequest]
      /\ answer' = [answer EXCEPT ![p] = Catalog!NoAnswer]
      /\ rows' = rows /\ answer[p] # Catalog!NoAnswer
  BY <1>1 DEF Catalog!Return
<1>3. /\ Current(p).route = "register" => AddInv(p)
      /\ Current(p).route # "register" => FindInv(p)
      /\ answer \in [Procs -> Answers]
      /\ rows \subseteq Ids /\ pc \in [Procs -> Labels]
      /\ dataset \in [Ids -> Datasets]
  BY <1>1 DEF ApiInv, WorkInv, TypeOK
<1>4. ASSUME NEW r \in Replies,
             Respond(p, r.status, r.ids, r.cause), IsTrue(r, Current(p))
      PROVE  ApiInv'
  <2>1. r = [status |-> r.status, ids |-> r.ids, cause |-> r.cause]
    BY DEF Replies
  <2>2. /\ reply' = [reply EXCEPT ![Head(queue[p])] = r]
        /\ queue' = [queue EXCEPT ![p] = Tail(queue[p])]
        /\ pc' = [pc EXCEPT ![p] = "idle"]
    BY <1>4, <2>1 DEF Respond
  <2> QED BY <1>1, <1>2, <1>4, <2>2, RespondPreserves
<1>5. ASSUME Raise(p, "sqlite3.Error") PROVE ApiInv'
  <2>1. "sqlite3.Error" \in OtherErrors /\ "sqlite3.Error" \notin DomainErrors
    BY DEF OtherErrors, DomainErrors
  <2> QED BY <1>1, <1>2, <1>5, <2>1, RaisePreserves
<1>6. ASSUME answer[p].status = "ok", Continue(p) PROVE ApiInv'
  <2>1. ASSUME Current(p).route = "register", Respond(p, 201, request[p].ids, "none")
        PROVE  ApiInv'
    <3>1. PICK i \in Ids : /\ request[p] = [kind |-> "add", ids |-> {i}]
                           /\ dataset[i] = [asset |-> Current(p).of, by |-> p]
                           /\ i \in rows <=> answer[p].status = "ok"
      BY <1>3, <2>1 DEF AddInv
    <3>2. request[p].ids = {i} /\ i \in rows /\ Current(p).at = p /\ Current(p).due \subseteq rows
      BY <1>1, <1>6, <3>1, CurrentRequest
    <3> DEFINE r == [status |-> 201, ids |-> {i}, cause |-> "none"]
    <3>3. r \in Replies
      BY <1>3, <3>2 DEF Replies
    <3>4. IsTrue(r, Current(p))
      BY <2>1, <3>1, <3>2 DEF IsTrue, DomainErrors
    <3>5. Respond(p, r.status, r.ids, r.cause)
      BY <2>1, <3>2
    <3> HIDE DEF r
    <3> QED BY <1>4, <3>3, <3>4, <3>5
  <2>2. ASSUME Current(p).route \in {"list", "get"}, Respond(p, 200, answer[p].rows, "none"),
               Current(p).route = "get" => answer[p].rows # {}
        PROVE  ApiInv'
    <3>1. /\ answer[p].rows \subseteq rows /\ Current(p).due \subseteq answer[p].rows
          /\ Current(p).route = "get" => answer[p].rows \subseteq {Current(p).of}
      BY <1>3, <1>6, <2>2 DEF FindInv
    <3> DEFINE r == [status |-> 200, ids |-> answer[p].rows, cause |-> "none"]
    <3>2. r \in Replies
      BY <1>3, <3>1 DEF Replies
    <3>3. Current(p).route = "get" => r.ids = {Current(p).of} /\ Current(p).of \in rows
      BY <2>2, <3>1
    <3>4. IsTrue(r, Current(p))
      BY <2>2, <3>1, <3>3 DEF IsTrue, DomainErrors
    <3>5. Respond(p, r.status, r.ids, r.cause)
      BY <2>2
    <3> HIDE DEF r
    <3> QED BY <1>4, <3>2, <3>4, <3>5
  <2>3. ASSUME Current(p).route \notin {"register", "list"}, answer[p].rows = {},
               Raise(p, "DatasetNotFoundError")
        PROVE  ApiInv'
    <3>1. Current(p).due = {}
      BY <1>3, <1>6, <2>3 DEF FindInv
    <3>2. /\ "DatasetNotFoundError" \in DomainErrors
          /\ Status(Current(p).route, "DatasetNotFoundError") # 500
      BY <1>1, <2>3, StatusTable DEF DomainErrors, Routes
    <3> QED BY <1>1, <1>2, <2>3, <3>1, <3>2, RaisePreserves
  <2>4. ASSUME Current(p).route \in {"profile", "query"}, answer[p].rows # {}, Goto(p, "load")
        PROVE  ApiInv'
    <3>1. answer[p].rows \subseteq rows \cap {Current(p).of}
      BY <1>3, <1>6, <2>4 DEF FindInv
    <3>2. Current(p).of \in rows
      BY <2>4, <3>1
    <3>3. /\ pc' = [pc EXCEPT ![p] = "load"] /\ pc'[p] = "load" /\ UNCHANGED <<queue, reply>>
          /\ Current(p)' = Current(p) /\ answer'[p] = Catalog!NoAnswer
      BY <1>1, <1>2, <1>3, <2>4 DEF Goto, Current
    <3>4. WorkInv(p)'
      BY <1>2, <2>4, <3>2, <3>3 DEF WorkInv
    <3>5. Catalog!NoAnswer \in Answers
      OBVIOUS
    <3> HIDE DEF Catalog!NoAnswer, Catalog!NoRequest
    <3> QED BY <1>1, <1>2, <1>3, <3>3, <3>4, <3>5, WorkPreserves
  <2> QED BY <1>6, <2>1, <2>2, <2>3, <2>4 DEF Continue
<1> QED BY <1>5, <1>6 DEF Resume

(* A step of the client side of one connection that no process has: the    *)
(* work of the processes goes on as before.                                *)
LEMMA ClientPreserves ==
  ASSUME ApiInv, NEW c \in Connections,
         \A q \in Procs, k \in Nat : k \in DOMAIN queue[q] => queue[q][k] # c,
         NEW s \in Sendings,
         sent' = [sent EXCEPT ![c] = s],
         reply' = [reply EXCEPT ![c] = NoReply],
         s = NoSent \/ (s.route \in Routes /\ s.at \in Procs),
         s.route = "register" => s.of \in Assets,
         s.route \in {"get", "profile", "query"} => s.of \in Ids /\ s.due \subseteq {s.of},
         s.due \subseteq rows,
         NEW q0 \in Procs,
         \/ queue' = queue
         \/ s.at = q0 /\ q0 \in up /\ queue' = [queue EXCEPT ![q0] = Append(queue[q0], c)],
         known' \subseteq rows, UNCHANGED <<catalog, dataset, up, pc>>
  PROVE  ApiInv'
<1> USE DEF ApiInv
<1>1. /\ queue \in [Procs -> Seq(Connections)]
      /\ sent \in [Connections -> Sendings]
      /\ reply \in [Connections -> Responses]
      /\ rows \subseteq Ids
  BY DEF TypeOK
<1>2. /\ sent'[c] = s /\ reply'[c] = NoReply
      /\ \A d \in Connections \ {c} : sent'[d] = sent[d] /\ reply'[d] = reply[d]
  BY <1>1
<1>3. ASSUME NEW q \in Procs
      PROVE  /\ queue'[q] \in Seq(Connections)
             /\ queue[q] # <<>> => queue'[q] # <<>> /\ Head(queue'[q]) = Head(queue[q])
             /\ q \notin up => queue'[q] = queue[q]
             /\ \A k \in DOMAIN queue'[q] :
                   \/ k \in DOMAIN queue[q] /\ queue'[q][k] = queue[q][k]
                   \/ k = Len(queue[q]) + 1 /\ queue'[q][k] = c /\ s.at = q
             /\ DOMAIN queue[q] = 1 .. Len(queue[q]) /\ Len(queue[q]) \in Nat
  <2>1. CASE queue' = queue
    BY <1>1, <2>1
  <2>2. CASE s.at = q0 /\ q0 \in up /\ queue' = [queue EXCEPT ![q0] = Append(queue[q0], c)]
    <3>1. CASE q = q0
      <4>1. queue'[q] = Append(queue[q], c) /\ queue[q] \in Seq(Connections)
        BY <1>1, <2>2, <3>1
      <4>2. /\ queue'[q] \in Seq(Connections)
            /\ queue[q] # <<>> => queue'[q] # <<>> /\ Head(queue'[q]) = Head(queue[q])
            /\ \A k \in DOMAIN queue'[q] :
                   \/ k \in DOMAIN queue[q] /\ queue'[q][k] = queue[q][k]
                   \/ k = Len(queue[q]) + 1 /\ queue'[q][k] = c
            /\ DOMAIN queue[q] = 1 .. Len(queue[q]) /\ Len(queue[q]) \in Nat
        <5> HIDE DEF ApiInv
        <5> QED BY <4>1
      <4> QED BY <2>2, <3>1, <4>2
    <3>2. CASE q # q0
      BY <1>1, <2>2, <3>2
    <3> QED BY <3>1, <3>2
  <2> QED BY <2>1, <2>2
<1>4. \A q \in Procs : \A k \in DOMAIN queue[q] :
         k \in Nat /\ queue[q][k] # c /\ queue[q][k] \in Connections
  BY <1>1
<1>5. \A q \in Procs : queue[q] # <<>> => Head(queue[q]) \in Connections \ {c}
  <2>1. ASSUME NEW q \in Procs, queue[q] # <<>> PROVE Head(queue[q]) \in Connections \ {c}
    BY <1>1, <1>4, <2>1, TailOfQueue
  <2> QED BY <2>1
<1>6. TypeOK'
  <2>1. ASSUME NEW q \in Procs
        PROVE  /\ queue'[q] = <<>> => pc'[q] = "idle"
               /\ q \notin up' => queue'[q] = <<>>
               /\ request'[q] # Catalog!NoRequest <=> pc'[q] = "catalog"
    <3>1. /\ queue[q] = <<>> => pc[q] = "idle"
          /\ q \notin up => queue[q] = <<>>
          /\ request[q] # Catalog!NoRequest <=> pc[q] = "catalog"
      BY DEF TypeOK
    <3> HIDE DEF ApiInv, Catalog!NoRequest
    <3> QED BY <1>3, <3>1
  <2>2. ASSUME NEW q \in Procs, NEW k \in DOMAIN queue'[q]
        PROVE  sent'[queue'[q][k]].at = q /\ reply'[queue'[q][k]] = NoReply
    <3>1. CASE k \in DOMAIN queue[q] /\ queue'[q][k] = queue[q][k]
      <4>1. sent[queue[q][k]].at = q /\ reply[queue[q][k]] = NoReply
        BY <3>1 DEF TypeOK
      <4> QED BY <1>2, <1>4, <3>1, <4>1
    <3>2. CASE queue'[q][k] = c /\ s.at = q
      BY <1>2, <3>2
    <3> QED BY <1>3, <3>1, <3>2
  <2>3. \A d \in Connections : reply'[d] # NoReply => sent'[d] # NoSent
    <3>1. \A d \in Connections : reply[d] # NoReply => sent[d] # NoSent
      BY DEF TypeOK
    <3> HIDE DEF ApiInv, NoReply, NoSent
    <3> QED BY <1>2, <3>1
  <2>4. queue' \in [Procs -> Seq(Connections)]
    <3>1. queue' = [q \in Procs |-> queue'[q]]
      BY <1>1
    <3> QED BY <1>3, <3>1
  <2>5. /\ sent' \in [Connections -> Sendings]
        /\ reply' \in [Connections -> Responses]
    BY <1>1
  <2>6. known' \subseteq Ids
    BY <1>1
  <2>7. /\ rows' \subseteq Ids /\ up' \subseteq Procs
        /\ request' \in [Procs -> Requests]
        /\ answer' \in [Procs -> Answers]
        /\ dataset' \in [Ids -> Datasets]
        /\ pc' \in [Procs -> Labels]
    BY DEF TypeOK
  <2> HIDE DEF ApiInv, NoSent, NoReply, Catalog!NoRequest
  <2> QED BY ONLY <2>1, <2>2, <2>3, <2>4, <2>5, <2>6, <2>7 DEF TypeOK
<1>7. ASSUME NEW q \in Procs PROVE QueueInv(q)'
  <2>1. ASSUME NEW j \in DOMAIN queue'[q], NEW k \in DOMAIN queue'[q], queue'[q][j] = queue'[q][k]
        PROVE  j = k
    <3>1. QueueInv(q)
      OBVIOUS
    <3> HIDE DEF ApiInv
    <3> QED BY <1>3, <1>4, <2>1, <3>1 DEF QueueInv
  <2> QED BY <2>1 DEF QueueInv
<1>8. ASSUME NEW q \in Procs PROVE WorkInv(q)'
  <2>1. pc[q] # "idle" => queue[q] # <<>>
    BY DEF TypeOK
  <2>2. pc[q] # "idle" => Current(q)' = Current(q)
    BY <1>2, <1>3, <1>5, <2>1 DEF Current
  <2>3. WorkInv(q)
    OBVIOUS
  <2> HIDE DEF ApiInv
  <2> QED BY <2>2, <2>3, WorkIsUndisturbed
<1>9. ASSUME NEW d \in Connections PROVE SentInv(d)' /\ ReplyInv(d)'
  <2>1. SentInv(d) /\ ReplyInv(d) /\ rows' = rows /\ dataset' = dataset
    OBVIOUS
  <2>2. CASE d = c
    <3>1. IsTrue(NoReply, s)'
      BY <2>1, NoReplyIsTrue DEF IsTrue
    <3> HIDE DEF ApiInv, NoSent, NoReply
    <3>2. ReplyInv(c)'
      BY <1>2, <3>1 DEF ReplyInv
    <3>3. SentInv(c)'
      BY <1>2, <2>1 DEF SentInv
    <3> QED BY <2>2, <3>2, <3>3
  <2>3. CASE d # c
    <3>1. sent'[d] = sent[d] /\ reply'[d] = reply[d]
      BY <1>2, <2>3
    <3>2. ReplyInv(d)'
      BY <2>1, <3>1, ReplyIsUndisturbed
    <3> HIDE DEF ApiInv, NoSent, NoReply
    <3>3. SentInv(d)'
      BY <2>1, <3>1 DEF SentInv
    <3> QED BY <3>2, <3>3
  <2> QED BY <2>2, <2>3
<1>10. StoredInv'
  BY DEF StoredInv
<1> QED BY <1>6, <1>7, <1>8, <1>9, <1>10

(* A request is sent: no process has its connection yet. *)
LEMMA SendPreserves ==
  ASSUME ApiInv, NEW c \in Connections, NEW p \in Procs, Send(c, p) PROVE ApiInv'
<1>1. PICK route \in Routes, of \in Ids \cup Assets \cup {None} :
         /\ of \in CASE route = "register" -> Assets
                     [] route = "list" -> {None}
                     [] OTHER -> Ids
         /\ sent' = [sent EXCEPT ![c] =
               [route |-> route, of |-> of, at |-> p,
                due |-> IF route = "list" THEN known ELSE known \cap {of}]]
  BY DEF Send
<1>2. /\ sent[c] = NoSent /\ p \in up
      /\ queue' = [queue EXCEPT ![p] = Append(queue[p], c)]
      /\ UNCHANGED <<catalog, dataset, up, pc, reply, known>>
  BY DEF Send
<1> DEFINE s == [route |-> route, of |-> of, at |-> p,
                 due |-> IF route = "list" THEN known ELSE known \cap {of}]
<1>3. /\ known \subseteq rows /\ rows \subseteq Ids
      /\ reply \in [Connections -> Responses]
  BY DEF ApiInv, TypeOK, StoredInv
<1>4. reply[c] = NoReply
  <2>1. reply[c] # NoReply => sent[c] # NoSent
    BY DEF ApiInv, TypeOK
  <2> QED BY <1>2, <2>1
<1>5. reply' = [reply EXCEPT ![c] = NoReply]
  BY <1>2, <1>3, <1>4
<1>6. \A q \in Procs, k \in Nat : k \in DOMAIN queue[q] => queue[q][k] # c
  <2>1. \A q \in Procs : \A k \in DOMAIN queue[q] : sent[queue[q][k]].at = q
    BY DEF ApiInv, TypeOK
  <2> QED BY <1>2, <2>1
<1>7. /\ s \in Sendings
      /\ s.route \in Routes /\ s.at = p /\ s.due \subseteq rows
      /\ s.route = "register" => s.of \in Assets
      /\ s.route \in {"get", "profile", "query"} => s.of \in Ids /\ s.due \subseteq {s.of}
  BY <1>1, <1>3 DEF Routes
<1> HIDE DEF s, NoReply, NoSent
<1> QED BY <1>1, <1>2, <1>3, <1>5, <1>6, <1>7, ClientPreserves DEF s

(* A response is delivered or lost. *)
LEMMA ClosePreserves ==
  ASSUME ApiInv, NEW c \in Connections, Deliver(c) \/ LoseReply(c) PROVE ApiInv'
<1>1. /\ reply[c] # NoReply /\ sent' = [sent EXCEPT ![c] = NoSent]
      /\ reply' = [reply EXCEPT ![c] = NoReply]
      /\ UNCHANGED <<catalog, dataset, up, queue, pc>>
  BY DEF Deliver, LoseReply, Close
<1>2. known' \subseteq rows
  <2>1. known \subseteq rows /\ ReplyInv(c)
    BY DEF ApiInv, StoredInv
  <2> QED BY <2>1 DEF Deliver, LoseReply, ReplyInv, IsTrue
<1>3. \A q \in Procs, k \in Nat : k \in DOMAIN queue[q] => queue[q][k] # c
  <2>1. \A q \in Procs : \A k \in DOMAIN queue[q] : reply[queue[q][k]] = NoReply
    BY DEF ApiInv, TypeOK
  <2> QED BY <1>1, <2>1
<1>4. /\ NoSent \in Sendings
      /\ NoSent.due \subseteq rows /\ NoSent.route = "none"
  OBVIOUS
<1>5. sent[c].at \in Procs
  <2>1. sent[c] # NoSent /\ SentInv(c)
    BY <1>1 DEF ApiInv, TypeOK
  <2> QED BY <2>1 DEF SentInv
<1> HIDE DEF NoReply, NoSent
<1> QED BY <1>1, <1>2, <1>3, <1>4, <1>5, ClientPreserves

(* Start and Stop: a process that has no request comes or goes.            *)
LEMMA UpPreserves ==
  ASSUME ApiInv, up' \subseteq Procs, \A q \in Procs \ up' : queue[q] = <<>>,
         UNCHANGED <<catalog, dataset, queue, pc, reply, client>>
  PROVE  ApiInv'
<1>1. TypeOK'
  BY DEF ApiInv, TypeOK
<1>2. ASSUME NEW q \in Procs PROVE QueueInv(q)' /\ WorkInv(q)'
  <2>1. QueueInv(q) /\ WorkInv(q) /\ Current(q)' = Current(q)
    BY DEF ApiInv, Current
  <2>2. QueueInv(q)'
    BY <2>1 DEF QueueInv
  <2> QED BY <2>1, <2>2, WorkIsUndisturbed
<1>3. ASSUME NEW c \in Connections PROVE SentInv(c)' /\ ReplyInv(c)'
  <2>1. SentInv(c) /\ ReplyInv(c)
    BY DEF ApiInv
  <2> HIDE DEF NoSent
  <2> QED BY <2>1, ReplyIsUndisturbed DEF SentInv
<1>4. StoredInv'
  BY DEF ApiInv, StoredInv
<1> QED BY <1>1, <1>2, <1>3, <1>4 DEF ApiInv

(* The requests of a process that dies are gone; those of the others and   *)
(* what was answered are not.                                              *)
LEMMA CrashPreserves ==
  ASSUME ApiInv, NEW p \in Procs, Crash(p) PROVE ApiInv'
<1> USE DEF ApiInv
<1> DEFINE Lost(c) == \E k \in DOMAIN queue[p] : queue[p][k] = c
<1>1. /\ up' = up \ {p} /\ queue' = [queue EXCEPT ![p] = <<>>]
      /\ pc' = [pc EXCEPT ![p] = "idle"]
      /\ sent' = [c \in Connections |-> IF Lost(c) THEN NoSent ELSE sent[c]]
      /\ request' = [q \in Procs |-> IF q \in {p} THEN Catalog!NoRequest ELSE request[q]]
      /\ answer' = [q \in Procs |-> IF q \in {p} THEN Catalog!NoAnswer ELSE answer[q]]
      /\ UNCHANGED <<rows, dataset, reply, known>>
  BY DEF Crash, Catalog!Lose
<1>2. /\ queue \in [Procs -> Seq(Connections)] /\ pc \in [Procs -> Labels]
      /\ sent \in [Connections -> Sendings]
      /\ request \in [Procs -> Requests]
      /\ answer \in [Procs -> Answers]
  BY DEF TypeOK
<1>3. /\ queue'[p] = <<>> /\ pc'[p] = "idle"
      /\ request'[p] = Catalog!NoRequest /\ answer'[p] = Catalog!NoAnswer
      /\ \A q \in Procs \ {p} : /\ queue'[q] = queue[q] /\ pc'[q] = pc[q]
                                /\ request'[q] = request[q] /\ answer'[q] = answer[q]
  BY <1>1, <1>2
<1>4. \A c \in Connections : /\ Lost(c) => sent'[c] = NoSent /\ reply[c] = NoReply
                             /\ ~Lost(c) => sent'[c] = sent[c]
  BY <1>1 DEF TypeOK
<1>5. ASSUME NEW q \in Procs \ {p}, NEW k \in DOMAIN queue[q]
      PROVE  queue[q][k] \in Connections /\ ~Lost(queue[q][k])
  <2>1. queue[q][k] \in Connections
    BY <1>2
  <2>2. sent[queue[q][k]].at = q /\ \A j \in DOMAIN queue[p] : sent[queue[p][j]].at = p
    BY DEF TypeOK
  <2> QED BY <2>1, <2>2
<1> HIDE DEF Lost
<1>6. TypeOK'
  <2>1. ASSUME NEW q \in Procs
        PROVE  /\ queue'[q] = <<>> => pc'[q] = "idle"
               /\ q \notin up' => queue'[q] = <<>>
               /\ request'[q] # Catalog!NoRequest <=> pc'[q] = "catalog"
    <3>1. /\ queue[q] = <<>> => pc[q] = "idle"
          /\ q \notin up => queue[q] = <<>>
          /\ request[q] # Catalog!NoRequest <=> pc[q] = "catalog"
      BY DEF TypeOK
    <3> HIDE DEF ApiInv, Catalog!NoRequest
    <3>2. CASE q = p
      BY <1>3, <3>2
    <3>3. CASE q # p
      BY <1>1, <1>3, <3>1, <3>3
    <3> QED BY <3>2, <3>3
  <2>2. ASSUME NEW q \in Procs, NEW k \in DOMAIN queue'[q]
        PROVE  sent'[queue'[q][k]].at = q /\ reply'[queue'[q][k]] = NoReply
    <3>1. q # p /\ queue'[q] = queue[q]
      BY <1>3
    <3>2. sent[queue[q][k]].at = q /\ reply[queue[q][k]] = NoReply
      BY <3>1 DEF TypeOK
    <3> QED BY <1>1, <1>4, <1>5, <3>1, <3>2
  <2>3. \A c \in Connections : reply'[c] # NoReply => sent'[c] # NoSent
    <3>1. \A c \in Connections : reply[c] # NoReply => sent[c] # NoSent
      BY DEF TypeOK
    <3> HIDE DEF ApiInv, NoReply, NoSent
    <3> QED BY <1>1, <1>4, <3>1
  <2>4. /\ queue' \in [Procs -> Seq(Connections)] /\ pc' \in [Procs -> Labels]
        /\ request' \in [Procs -> Requests]
        /\ answer' \in [Procs -> Answers]
    BY <1>1, <1>2
  <2>5. sent' \in [Connections -> Sendings]
    BY <1>1, <1>2
  <2>6. /\ rows' \subseteq Ids /\ up' \subseteq Procs /\ known' \subseteq Ids
        /\ dataset' \in [Ids -> Datasets]
        /\ reply' \in [Connections -> Responses]
    BY <1>1 DEF TypeOK
  <2> HIDE DEF ApiInv, NoSent, NoReply, Catalog!NoRequest
  <2> QED BY ONLY <2>1, <2>2, <2>3, <2>4, <2>5, <2>6 DEF TypeOK
<1>7. ASSUME NEW q \in Procs PROVE QueueInv(q)' /\ WorkInv(q)'
  <2>1. CASE q = p
    BY <1>3, <2>1 DEF QueueInv, WorkInv
  <2>2. CASE q # p
    <3>1. QueueInv(q)'
      BY <1>3, <2>2 DEF QueueInv
    <3>2. pc[q] # "idle" => Current(q)' = Current(q)
      <4>1. ASSUME pc[q] # "idle" PROVE Current(q)' = Current(q)
        <5>1. queue[q] # <<>>
          BY <4>1 DEF TypeOK
        <5>2. Head(queue[q]) = queue[q][1] /\ 1 \in DOMAIN queue[q]
          BY <1>2, <5>1, TailOfQueue
        <5> QED BY <1>3, <1>4, <1>5, <2>2, <5>2 DEF Current
      <4> QED BY <4>1
    <3>3. WorkInv(q)
      OBVIOUS
    <3> QED BY <1>1, <1>3, <2>2, <3>1, <3>2, <3>3, WorkIsUndisturbed
  <2> QED BY <2>1, <2>2
<1>8. ASSUME NEW c \in Connections PROVE SentInv(c)' /\ ReplyInv(c)'
  <2>1. SentInv(c) /\ ReplyInv(c)
    OBVIOUS
  <2>2. CASE Lost(c)
    <3>1. sent'[c] = NoSent /\ reply'[c] = NoReply
      BY <1>1, <1>4, <2>2
    <3>2. SentInv(c)'
      BY <3>1 DEF SentInv, Routes
    <3>3. IsTrue(NoReply, NoSent)'
      BY NoReplyIsTrue DEF IsTrue, DomainErrors
    <3> HIDE DEF ApiInv, NoReply, NoSent
    <3> QED BY <3>1, <3>2, <3>3 DEF ReplyInv
  <2>3. CASE ~Lost(c)
    <3>1. sent'[c] = sent[c] /\ reply'[c] = reply[c] /\ rows' = rows
      BY <1>1, <1>4, <2>3
    <3>2. ReplyInv(c)'
      BY <1>1, <2>1, <3>1, ReplyIsUndisturbed
    <3> HIDE DEF ApiInv, NoSent
    <3> QED BY <2>1, <3>1, <3>2 DEF SentInv
  <2> QED BY <2>2, <2>3
<1>9. StoredInv'
  BY <1>1 DEF StoredInv
<1> QED BY <1>6, <1>7, <1>8, <1>9

(* Every step keeps the invariant. *)
LEMMA NextPreservesApiInv == ApiInv /\ [Next]_vars => ApiInv'
<1> SUFFICES ASSUME ApiInv, [Next]_vars PROVE ApiInv'
  OBVIOUS
<1>1. up \subseteq Procs /\ \A q \in Procs \ up : queue[q] = <<>>
  BY DEF ApiInv, TypeOK
<1>2. ASSUME NEW c \in Connections, NEW p \in Procs, Send(c, p) PROVE ApiInv'
  BY <1>2, SendPreserves
<1>3. ASSUME NEW c \in Connections, Deliver(c) \/ LoseReply(c) PROVE ApiInv'
  BY <1>3, ClosePreserves
<1>4. ASSUME NEW p \in Procs, Serve(p) PROVE ApiInv'
    BY <1>4, DescribePreserves, ValidateSqlPreserves, LookupPreserves,
      UseCatalogPreserves,
     ResumePreserves, LoadPreserves, ExecutePreserves DEF Serve
<1>5. ASSUME NEW p \in Procs, Start(p) \/ Stop(p) PROVE ApiInv'
  <2>1. /\ up' \subseteq Procs /\ \A q \in Procs \ up' : queue[q] = <<>>
        /\ UNCHANGED <<catalog, dataset, queue, pc, reply, client>>
    BY <1>1, <1>5 DEF Start, Stop
  <2> QED BY <2>1, UpPreserves
<1>6. ASSUME NEW p \in Procs, Crash(p) PROVE ApiInv'
  BY <1>6, CrashPreserves
<1>7. CASE UNCHANGED vars
  <2>1. up' = up /\ UNCHANGED <<catalog, dataset, queue, pc, reply, client>>
    BY <1>7 DEF vars
  <2> QED BY <1>1, <2>1, UpPreserves
<1> QED BY <1>2, <1>3, <1>4, <1>5, <1>6, <1>7 DEF Next

-----------------------------------------------------------------------------
(* Theorems. *)

(* The invariant of the API. *)
THEOREM ApiInvariance == Spec => []ApiInv
  BY InitEstablishesApiInv, NextPreservesApiInv, PTL DEF Spec

(* Every variable has its type, and a process is busy only with a request  *)
(* it has (the coroutines of apps/api).                                    *)
THEOREM TypeCorrectness == Spec => []TypeOK
<1>1. ApiInv => TypeOK
  BY DEF ApiInv
<1> QED BY <1>1, ApiInvariance, PTL

(* A dataset that a client was told of is found by every later request,    *)
(* whatever crashed meanwhile (routes/datasets.py).                        *)
THEOREM KnownDatasetsAreFound == Spec => []KnownIsFound
<1>1. ApiInv => KnownIsFound
  BY DEF ApiInv, ReplyInv, IsTrue, KnownIsFound
<1> QED BY <1>1, ApiInvariance, PTL

(* A 201 names one stored dataset of the asset asked for; an add that      *)
(* failed stored nothing; what is known stays stored (service.py).         *)
THEOREM AtomicRegistration == Spec => []RegistrationIsAtomic
<1>1. ASSUME ApiInv PROVE RegistrationIsAtomic
  <2>1. ASSUME NEW c \in Connections, sent[c].route = "register", reply[c].status = 201
        PROVE  /\ Cardinality(reply[c].ids) = 1
               /\ \A i \in reply[c].ids :
                     i \in rows /\ dataset[i] = [asset |-> sent[c].of, by |-> sent[c].at]
    <3>1. PICK i \in rows : /\ reply[c].ids = {i}
                            /\ dataset[i] = [asset |-> sent[c].of, by |-> sent[c].at]
      BY <1>1, <2>1 DEF ApiInv, ReplyInv, IsTrue
    <3> QED BY <3>1, FS_Singleton
  <2>2. ASSUME NEW p \in Procs, answer[p].status = "error", request[p].kind = "add",
               request[p].ids \subseteq rows
        PROVE  FALSE
    <3>1. pc[p] = "catalog" /\ (AddInv(p) \/ FindInv(p))
      BY <1>1, <2>2 DEF ApiInv, WorkInv
    <3>2. ~FindInv(p)
      BY <2>2 DEF FindInv
    <3>3. PICK i \in Ids : /\ request[p] = [kind |-> "add", ids |-> {i}]
                           /\ i \in rows <=> answer[p].status = "ok"
      BY <3>1, <3>2 DEF AddInv
    <3> QED BY <2>2, <3>3
  <2>3. known \subseteq rows
    BY <1>1 DEF ApiInv, StoredInv
  <2> QED BY <2>1, <2>2, <2>3 DEF RegistrationIsAtomic
<1> QED BY <1>1, ApiInvariance, PTL

(* A 200 about one dataset is about the one asked for. *)
THEOREM AskedIsAnswered == Spec => []AnswersWhatWasAsked
<1>1. ApiInv => AnswersWhatWasAsked
  BY DEF ApiInv, ReplyInv, IsTrue, AnswersWhatWasAsked
<1> QED BY <1>1, ApiInvariance, PTL

(* The errors of the domain are answered with a 4xx, and a 500 has another *)
(* cause (the except clauses of the routes).                               *)
THEOREM StatusesNameCauses == Spec => []StatusNamesCause
<1>1. ApiInv => StatusNamesCause
  BY DEF ApiInv, ReplyInv, IsTrue, StatusNamesCause
<1> QED BY <1>1, ApiInvariance, PTL

-----------------------------------------------------------------------------
(* The API and its catalog. *)

(* What a handler does to the catalog is an operation of the port. *)
LEMMA ServiceRefines ==
  ASSUME NEW p \in Procs, Serve(p)
  PROVE  [Catalog!Next]_(Catalog!vars)
<1> USE DEF Catalog!Next, Catalog!vars
<1>1. CASE Describe(p)
  BY <1>1 DEF Describe
<1>2. CASE Lookup(p)
  BY <1>2 DEF Lookup
<1>3. CASE UseCatalog(p)
  BY <1>3 DEF UseCatalog
<1>4. CASE Resume(p)
  BY <1>4 DEF Resume
<1>5. CASE ValidateSql(p) \/ Load(p) \/ Execute(p)
  BY <1>5 DEF ValidateSql, Load, Execute
<1> QED BY <1>1, <1>2, <1>3, <1>4, <1>5 DEF Serve

(* So does every step; a crash is a client that is lost. *)
LEMMA ApiRefinesCatalog ==
  ASSUME [Next]_vars
  PROVE  [Catalog!Next]_(Catalog!vars)
<1> USE DEF Catalog!Next, Catalog!vars
<1>1. ASSUME NEW c \in Connections,
             (\E p \in Procs : Send(c, p)) \/ Deliver(c) \/ LoseReply(c)
      PROVE  UNCHANGED Catalog!vars
  BY <1>1 DEF Send, Deliver, LoseReply, Close
<1>2. ASSUME NEW p \in Procs, Start(p) \/ Stop(p)
      PROVE  UNCHANGED Catalog!vars
  BY <1>2 DEF Start, Stop
<1>3. ASSUME NEW p \in Procs, Crash(p)
      PROVE  Catalog!Next
  <2>1. {p} \in SUBSET Procs
    OBVIOUS
  <2> QED BY <1>3, <2>1 DEF Crash
<1>4. CASE UNCHANGED vars
  BY <1>4 DEF vars
<1> QED BY <1>1, <1>2, <1>3, <1>4, ServiceRefines DEF Next

(* The processes of the API, whatever they serve and however often they    *)
(* crash, use the repository as its port allows, and rely on nothing else: *)
(* what SQLiteDatasetRepository implements is what this module composes    *)
(* (service.py; dataset_repository.py).                                    *)
THEOREM ApiUsesCatalog == Spec => Catalog!Spec
<1>1. Init => Catalog!Init
  BY DEF Init
<1> QED BY <1>1, ApiRefinesCatalog, PTL DEF Spec, Catalog!Spec
=============================================================================
