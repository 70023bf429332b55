------------------------ MODULE RegistrationOrderProofs ------------------------
(***************************************************************************)
(* Theorems about RegistrationOrder, for any processes, any finite set of  *)
(* identifiers and any clock.  OrderInv is inductive.                      *)
(***************************************************************************)
EXTENDS RegistrationOrder, FiniteSetTheorems, TLAPS

-----------------------------------------------------------------------------
(* The order. *)

(* A time is its seconds and its microseconds. *)
LEMMA DivMod ==
  ASSUME NEW t \in Nat
  PROVE  /\ t \div Second \in Nat
         /\ t % Second \in 0 .. (Second - 1)
         /\ t = Second * (t \div Second) + (t % Second)
  BY SecondAssumption

(* The comparison of the stored texts is that of the times, although a     *)
(* whole second has a shorter text.                                        *)
LEMMA TextsAreChronological ==
  ASSUME NEW s \in Nat, NEW t \in Nat, Less(Text(s), Text(t))
  PROVE  s <= t
<1> DEFINE q == s \div Second
           r == s % Second
           u == t \div Second
           v == t % Second
<1>1. q \in Nat /\ u \in Nat /\ r \in 0 .. (Second - 1) /\ v \in 0 .. (Second - 1)
  BY DivMod
<1>2. s = Second * q + r /\ t = Second * u + v
  BY DivMod
<1>3. q < u \/ (q = u /\ r <= v)
  BY <1>1, SecondAssumption DEF Less, Text, Plus, Dot
<1> HIDE DEF q, r, u, v
<1>4. CASE q = u /\ r <= v
  BY <1>1, <1>2, <1>4, SecondAssumption
<1>5. CASE q < u
  <2>1. Second * (q + 1) <= Second * u
    BY <1>1, <1>5, SecondAssumption
  <2> QED BY <1>1, <1>2, <2>1, SecondAssumption
<1> QED BY <1>3, <1>4, <1>5

(* Different times have different texts. *)
LEMMA TextsAreFaithful ==
  ASSUME NEW s \in Nat, NEW t \in Nat, Text(s) = Text(t)
  PROVE  s = t
<1>1. s \div Second = t \div Second /\ s % Second = t % Second
  <2>1. CASE s % Second = 0 BY <2>1 DEF Text, Plus, Dot
  <2>2. CASE s % Second # 0 BY <2>2 DEF Text, Plus, Dot
  <2> QED BY <2>1, <2>2
<1> QED BY <1>1, DivMod

(* Precedes is a strict order on the datasets that were drawn, and agrees  *)
(* with the times of creation.                                             *)
LEMMA PrecedesIsChronological ==
  ASSUME TypeOK, NEW i \in Drawn, NEW j \in Drawn, Precedes(i, j)
  PROVE  created[i] <= created[j]
<1>1. created[i] \in Nat /\ created[j] \in Nat
  BY BoundsAssumption DEF TypeOK, Drawn, Times
<1>2. CASE Less(Text(created[i]), Text(created[j]))
  BY <1>1, <1>2, TextsAreChronological
<1>3. CASE Text(created[i]) = Text(created[j])
  BY <1>1, <1>3, TextsAreFaithful
<1> QED BY <1>2, <1>3 DEF Precedes

(* The comparison of texts is asymmetric. *)
LEMMA LessIsAsymmetric ==
  ASSUME NEW s \in Nat, NEW t \in Nat, Less(Text(s), Text(t))
  PROVE  ~Less(Text(t), Text(s))
<1>1. \A u \in Nat : /\ Text(u)[1] \in Nat /\ Text(u)[2] \in Nat /\ Text(u)[3] \in Nat
  <2> SUFFICES ASSUME NEW u \in Nat
               PROVE  /\ Text(u)[1] \in Nat /\ Text(u)[2] \in Nat /\ Text(u)[3] \in Nat
    OBVIOUS
  <2>1. u \div Second \in Nat /\ u % Second \in Nat BY DivMod, SecondAssumption
  <2>2. CASE u % Second = 0 BY <2>1, <2>2 DEF Text, Plus
  <2>3. CASE u % Second # 0 BY <2>1, <2>3 DEF Text, Dot
  <2> QED BY <2>2, <2>3
<1> QED BY <1>1 DEF Less

(* So is the order of the datasets. *)
LEMMA PrecedesIsAsymmetric ==
  ASSUME TypeOK, NEW i \in Drawn, NEW j \in Drawn, Precedes(i, j)
  PROVE  ~Precedes(j, i)
<1>1. created[i] \in Nat /\ created[j] \in Nat
  BY BoundsAssumption DEF TypeOK, Drawn, Times
<1>2. i \in Nat /\ j \in Nat
  BY IdsAssumption DEF Drawn
<1>3. CASE Less(Text(created[i]), Text(created[j]))
  <2>1. ~Less(Text(created[j]), Text(created[i]))
    BY <1>1, <1>3, LessIsAsymmetric
  <2>2. Text(created[j]) # Text(created[i])
    BY <1>1, <1>3, LessIsAsymmetric
  <2> QED BY <2>1, <2>2 DEF Precedes
<1>4. CASE Text(created[i]) = Text(created[j]) /\ i < j
  <2>1. ~Less(Text(created[j]), Text(created[i]))
    BY <1>1, <1>4, LessIsAsymmetric
  <2> QED BY <1>2, <1>4, <2>1 DEF Precedes
<1> QED BY <1>3, <1>4 DEF Precedes

-----------------------------------------------------------------------------
(* The invariant.  What is listed or was shown is in the order of the      *)
(* stored rows; and as long as the clock was not set back, nothing was     *)
(* made later than now, and what was answered before another dataset was   *)
(* made is older.                                                          *)

Requested ==
    \A p \in Procs : request[p].kind = "add" =>
        /\ request[p].ids \subseteq Drawn
        /\ setBacks = 0 => \A i \in request[p].ids : created[i] <= now

Listed ==
    \A p \in Procs : \A m, n \in DOMAIN listed[p] :
        m < n => listed[p][m] # listed[p][n] /\ Precedes(listed[p][m], listed[p][n])

Shown == \A i, j \in Ids : <<i, j>> \in shown => Precedes(i, j)

Past ==
    setBacks = 0 =>
        /\ \A j \in Ids : told[j] # Never =>
              j \in Drawn /\ created[j] <= told[j] /\ told[j] <= now
        /\ \A i \in Drawn : \A j \in earlier[i] : j \in Drawn /\ created[j] < created[i]

OrderInv == TypeOK /\ Requested /\ Listed /\ Shown /\ Past

(* An identifier that is drawn keeps its place. *)
LEMMA DrawnStay ==
  ASSUME TypeOK, NEW p \in Procs, Register(p)
  PROVE  /\ \A i \in Drawn : i \in Drawn' /\ created'[i] = created[i]
         /\ \A i \in Drawn, j \in Drawn : Precedes(i, j)' = Precedes(i, j)
<1>1. \A i \in Drawn : i \in Drawn' /\ created'[i] = created[i]
  BY DEF Register, TypeOK, Drawn
<1>2. \A i \in Drawn, j \in Drawn : Precedes(i, j)' = Precedes(i, j)
  BY <1>1 DEF Precedes, Text, Less
<1> QED BY <1>1, <1>2

(* A list is as the SELECT orders it. *)
LEMMA ListingsAreSorted ==
  ASSUME TypeOK, NEW s \in SUBSET rows, NEW q \in Listings(s)
  PROVE  /\ q \in Seq(rows)
         /\ \A m, n \in DOMAIN q : m < n => q[m] # q[n] /\ Precedes(q[m], q[n])
<1>1. Cardinality(s) \in Nat
  BY IdsAssumption, FS_Subset, FS_CardinalityType DEF TypeOK, Drawn
<1> QED BY <1>1 DEF Listings

-----------------------------------------------------------------------------
(* OrderInv is inductive. *)

(* At the start nothing was listed or answered. *)
LEMMA InitEstablishesOrderInv == Init => OrderInv
<1> SUFFICES ASSUME Init PROVE OrderInv OBVIOUS
<1> USE DEF Init, Catalog!Init, Catalog!NoRequest, Catalog!NoAnswer
<1>1. rows \subseteq Drawn /\ created \in [Ids -> Times \cup {Never}]
  BY DEF Drawn, Never
<1>2. TypeOK
  BY <1>1, BoundsAssumption DEF TypeOK, Times
<1>3. Requested /\ Shown
  BY DEF Requested, Shown
<1>4. Listed
  BY DEF Listed
<1>5. Past
  BY DEF Past, Drawn
<1> QED BY <1>2, <1>3, <1>4, <1>5 DEF OrderInv

(* The requests of the catalog. *)
LEMMA RequestKinds ==
  ASSUME NEW r \in Catalog!Requests
  PROVE  r \in [kind : {"none", "add", "get", "list"}, ids : SUBSET Ids]
  BY DEF Catalog!Requests

(* A new dataset is the youngest, and nobody was told of it. *)
LEMMA RegisterKeepsOrderInv ==
  ASSUME OrderInv, NEW p \in Procs, Register(p)
  PROVE  OrderInv'
<1> USE DEF OrderInv
<1>1. PICK i \in Ids :
         /\ created[i] = Never
         /\ request'[p] = [kind |-> "add", ids |-> {i}]
         /\ created' = [created EXCEPT ![i] = now]
         /\ earlier' = [earlier EXCEPT ![i] = {j \in Ids : told[j] \in 0 .. (now - 1)}]
  BY DEF Register
<1>2. PICK r \in Catalog!Requests : request' = [request EXCEPT ![p] = r]
  BY DEF Register, Catalog!Request
<1>3. UNCHANGED <<rows, answer, now, setBacks, listed, shown, told>>
  BY DEF Register, Catalog!Request, clock
<1>4. now # Never
  BY BoundsAssumption DEF TypeOK, Times, Never
<1>5. Drawn' = Drawn \cup {i}
  BY <1>1, <1>4 DEF Drawn, TypeOK
<1>6. TypeOK'
  <2>1. request' \in [Procs -> [kind : {"none", "add", "get", "list"}, ids : SUBSET Ids]]
    BY <1>2, RequestKinds DEF TypeOK
  <2>2. created' \in [Ids -> Times \cup {Never}] /\ earlier' \in [Ids -> SUBSET Ids]
    BY <1>1 DEF TypeOK
  <2> QED BY <1>3, <1>5, <2>1, <2>2 DEF TypeOK
<1>7. Requested'
    BY <1>1, <1>2, <1>3, <1>5, BoundsAssumption
       DEF Requested, TypeOK, Drawn, Times
<1>8. Listed' /\ Shown'
  BY <1>3, DrawnStay DEF Listed, Shown, TypeOK
<1>9. Past'
  <2> SUFFICES ASSUME setBacks = 0 PROVE Past'
    BY <1>3 DEF Past
  <2>1. \A j \in Ids : told[j] # Never => j # i
    BY <1>1 DEF Past, Drawn
  <2>2. \A j \in Drawn : j # i /\ created'[j] = created[j]
    BY <1>1 DEF Drawn, TypeOK
  <2>3. \A j \in Ids : told[j] \in 0 .. (now - 1) => j \in Drawn /\ created[j] < now
    <3> SUFFICES ASSUME NEW j \in Ids, told[j] \in 0 .. (now - 1)
                 PROVE  j \in Drawn /\ created[j] < now
      OBVIOUS
    <3>1. now \in Nat /\ created[j] \in Nat \cup {Never}
      BY BoundsAssumption DEF TypeOK, Times
    <3>2. told[j] # Never
      BY <3>1 DEF Never
    <3>3. j \in Drawn /\ created[j] <= told[j]
      BY <3>2 DEF Past
    <3> QED BY <3>1, <3>3 DEF Drawn, Never
  <2>4. \A k \in Drawn' : \A j \in earlier'[k] : j \in Drawn' /\ created'[j] < created'[k]
    <3> SUFFICES ASSUME NEW k \in Drawn', NEW j \in earlier'[k]
                 PROVE  j \in Drawn' /\ created'[j] < created'[k]
      OBVIOUS
    <3>1. CASE k = i
      <4>1. j \in Drawn /\ created[j] < now BY <1>1, <2>3, <3>1 DEF TypeOK
      <4> QED BY <1>1, <1>5, <2>2, <3>1, <4>1 DEF TypeOK
    <3>2. CASE k # i
      BY <1>1, <1>5, <2>2, <3>2 DEF Past, TypeOK, Drawn
    <3> QED BY <3>1, <3>2
  <2>5. \A j \in Ids : told'[j] # Never =>
           j \in Drawn' /\ created'[j] <= told'[j] /\ told'[j] <= now'
    BY <1>3, <1>5, <2>1, <2>2 DEF Past
  <2> QED BY <2>4, <2>5 DEF Past
<1> QED BY <1>6, <1>7, <1>8, <1>9

(* The catalog's own steps keep requests and stored rows. *)
LEMMA CatalogKeepsOrderInv ==
  ASSUME OrderInv, NEW p \in Procs, Add(p) \/ Select(p)
  PROVE  OrderInv'
<1> USE DEF OrderInv
<1>1. UNCHANGED <<request, created, now, setBacks, listed, shown, told, earlier>>
    BY
       DEF Add, Select, Catalog!Store, Catalog!Read, Catalog!Fail,
         Catalog!Waiting,
     clock, history
<1>2. rows \subseteq rows' /\ rows' \subseteq Drawn
  <2>1. Add(p) => request[p].ids \subseteq Drawn
    BY DEF Add, Requested
  <2> QED
    BY <2>1 DEF Add, Select, Catalog!Store, Catalog!Read, Catalog!Fail, TypeOK
<1>3. answer' \in [Procs -> [status : {"none", "ok", "error", "IntegrityError"},
                             rows : SUBSET rows']]
  <2>1. PICK status \in {"ok", "error", "IntegrityError"}, found \in SUBSET rows :
           answer' = [answer EXCEPT ![p] = [status |-> status, rows |-> found]]
    BY DEF Add, Select, Catalog!Store, Catalog!Read, Catalog!Fail, Catalog!Reply
  <2>2. answer \in [Procs -> [status : {"none", "ok", "error", "IntegrityError"},
                              rows : SUBSET rows']]
    BY <1>2 DEF TypeOK
  <2> QED BY <1>2, <2>1, <2>2
<1>4. Drawn' = Drawn
  BY <1>1 DEF Drawn
<1>5. listed' \in [Procs -> Seq(rows')]
  BY <1>1, <1>2 DEF TypeOK
<1>6. TypeOK'
  BY <1>1, <1>2, <1>3, <1>4, <1>5 DEF TypeOK
<1>7. Requested' /\ Listed' /\ Shown' /\ Past'
  BY <1>1, <1>4 DEF Requested, Listed, Shown, Past, Precedes, Text, Less
<1> QED BY <1>6, <1>7

(* A request to list and a crash only change who waits for what. *)
LEMMA WaitingKeepsOrderInv ==
  ASSUME OrderInv, NEW p \in Procs, RequestList(p) \/ Crash(p)
  PROVE  OrderInv'
<1> USE DEF OrderInv
<1>1. UNCHANGED <<rows, created, now, setBacks, shown, told, earlier>>
  BY DEF RequestList, Crash, Catalog!Request, Catalog!Lose, clock, history
<1>2. Drawn' = Drawn
  BY <1>1 DEF Drawn
<1>3. /\ request' \in [Procs -> [kind : {"none", "add", "get", "list"}, ids : SUBSET Ids]]
      /\ \A q \in Procs : request'[q].kind = "add" => request'[q] = request[q]
  <2>1. CASE RequestList(p)
    <3>1. PICK r \in Catalog!Requests : request' = [request EXCEPT ![p] = r]
      BY <2>1 DEF RequestList, Catalog!Request
    <3>2. request'[p].kind = "list"
      BY <2>1 DEF RequestList
    <3> QED BY <3>1, <3>2, RequestKinds DEF TypeOK
  <2>2. CASE Crash(p)
    BY <2>2 DEF Crash, Catalog!Lose, Catalog!NoRequest, TypeOK
  <2> QED BY <2>1, <2>2
<1>4. answer' \in [Procs -> [status : {"none", "ok", "error", "IntegrityError"},
                             rows : SUBSET rows]]
    BY
       DEF RequestList, Crash, Catalog!Request, Catalog!Lose, Catalog!NoAnswer,
         TypeOK
<1>5. /\ listed' \in [Procs -> Seq(rows)]
      /\ \A q \in Procs : listed'[q] = listed[q] \/ listed'[q] = <<>>
  <2>1. CASE RequestList(p)
    BY <2>1 DEF RequestList, TypeOK
  <2>2. CASE Crash(p)
    BY <2>2 DEF Crash, TypeOK
  <2> QED BY <2>1, <2>2
<1>6. TypeOK'
  BY <1>1, <1>2, <1>3, <1>4, <1>5 DEF TypeOK
<1>7. Requested'
  BY <1>1, <1>2, <1>3 DEF Requested
<1>8. Listed'
  <2>1. \A i, j : Precedes(i, j)' = Precedes(i, j)
    BY <1>1 DEF Precedes, Text, Less
  <2>2. ASSUME NEW q \in Procs,
               NEW m \in DOMAIN listed'[q], NEW n \in DOMAIN listed'[q], m < n
        PROVE  listed'[q][m] # listed'[q][n] /\ Precedes(listed'[q][m], listed'[q][n])
    BY <1>5, <2>2 DEF Listed
  <2> QED BY <2>1, <2>2 DEF Listed
<1>9. Shown' /\ Past'
  BY <1>1, <1>2 DEF Shown, Past, Precedes, Text, Less
<1> QED BY <1>6, <1>7, <1>8, <1>9

(* A registration is answered no earlier than it was made. *)
LEMMA AnswerKeepsOrderInv ==
  ASSUME OrderInv, NEW p \in Procs, Answer(p)
  PROVE  OrderInv'
<1> USE DEF OrderInv
<1>1. UNCHANGED <<rows, created, now, setBacks, listed, shown, earlier>>
  BY DEF Answer, Catalog!Return, clock
<1>2. Drawn' = Drawn
  BY <1>1 DEF Drawn
<1>3. /\ request' \in [Procs -> [kind : {"none", "add", "get", "list"}, ids : SUBSET Ids]]
      /\ \A q \in Procs : request'[q].kind = "add" => request'[q] = request[q]
  BY DEF Answer, Catalog!Return, Catalog!NoRequest, TypeOK
<1>4. answer' \in [Procs -> [status : {"none", "ok", "error", "IntegrityError"},
                             rows : SUBSET rows]]
  BY DEF Answer, Catalog!Return, Catalog!NoAnswer, TypeOK
<1>5. told' \in [Ids -> Times \cup {Never}]
  BY DEF Answer, TypeOK
<1>6. TypeOK'
  BY <1>1, <1>2, <1>3, <1>4, <1>5 DEF TypeOK
<1>7. Requested'
  BY <1>1, <1>2, <1>3 DEF Requested
<1>8. Listed' /\ Shown'
  BY <1>1 DEF Listed, Shown, Precedes, Text, Less
<1>9. Past'
  <2> SUFFICES ASSUME setBacks = 0 PROVE Past'
    BY <1>1 DEF Past
  <2>1. ASSUME NEW j \in Ids, told'[j] # Never
        PROVE  j \in Drawn /\ created[j] <= told'[j] /\ told'[j] <= now
    <3>1. CASE j \in request[p].ids /\ answer[p].status = "ok"
      <4>1. told'[j] = now BY <3>1 DEF Answer
      <4>2. now \in Int BY BoundsAssumption DEF TypeOK, Times
      <4> QED BY <3>1, <4>1, <4>2 DEF Requested, Answer
    <3>2. CASE ~(j \in request[p].ids /\ answer[p].status = "ok")
      BY <2>1, <3>2 DEF Answer, Past
    <3> QED BY <3>1, <3>2
  <2> QED BY <1>1, <1>2, <2>1 DEF Past
<1> QED BY <1>6, <1>7, <1>8, <1>9

(* What a process is given is as the SELECT orders it. *)
LEMMA ListKeepsOrderInv ==
  ASSUME OrderInv, NEW p \in Procs, List(p)
  PROVE  OrderInv'
<1> USE DEF OrderInv
<1>1. UNCHANGED <<rows, created, now, setBacks, told, earlier>>
  BY DEF List, Catalog!Return, clock
<1>2. Drawn' = Drawn
  BY <1>1 DEF Drawn
<1>3. /\ request' \in [Procs -> [kind : {"none", "add", "get", "list"}, ids : SUBSET Ids]]
      /\ \A q \in Procs : request'[q].kind = "add" => request'[q] = request[q]
  BY DEF List, Catalog!Return, Catalog!NoRequest, TypeOK
<1>4. answer' \in [Procs -> [status : {"none", "ok", "error", "IntegrityError"},
                             rows : SUBSET rows]]
  BY DEF List, Catalog!Return, Catalog!NoAnswer, TypeOK
<1>5. /\ listed' \in [Procs -> Seq(rows)]
      /\ shown' \subseteq rows \X rows
      /\ Listed' /\ Shown'
  <2>1. CASE UNCHANGED <<listed, shown>>
    BY <1>1, <2>1 DEF TypeOK, Listed, Shown, Precedes, Text, Less
  <2>2. CASE answer[p].status = "ok"
    <3>1. PICK q \in Listings(answer[p].rows) :
             /\ listed' = [listed EXCEPT ![p] = q]
             /\ shown' = shown \cup
                   {ij \in rows \X rows : \E m, n \in DOMAIN q :
                       m < n /\ q[m] = ij[1] /\ q[n] = ij[2]}
      BY <2>2 DEF List
    <3>2. answer[p].rows \in SUBSET rows
      BY DEF TypeOK
    <3>3. /\ q \in Seq(rows)
          /\ \A m, n \in DOMAIN q : m < n => q[m] # q[n] /\ Precedes(q[m], q[n])
      BY <3>2, ListingsAreSorted
    <3>4. \A i, j \in Ids : Precedes(i, j)' = Precedes(i, j)
      BY <1>1 DEF Precedes, Text, Less
    <3>5. listed' \in [Procs -> Seq(rows)] /\ shown' \subseteq rows \X rows
      BY <3>1, <3>3 DEF TypeOK
    <3>6. Listed'
      <4>1. ASSUME NEW u \in Procs, NEW m \in DOMAIN listed'[u], NEW n \in DOMAIN listed'[u],
                   m < n
            PROVE  listed'[u][m] # listed'[u][n] /\ Precedes(listed'[u][m], listed'[u][n])
        BY <3>1, <3>3, <4>1 DEF Listed, TypeOK
      <4>2. \A i, j : Precedes(i, j)' = Precedes(i, j)
        BY <1>1 DEF Precedes, Text, Less
      <4> QED BY <4>1, <4>2 DEF Listed
    <3>7. Shown'
      <4>1. ASSUME NEW i \in Ids, NEW j \in Ids, <<i, j>> \in shown'
            PROVE  Precedes(i, j)
        BY <3>1, <3>3, <4>1 DEF Shown
      <4> QED BY <3>4, <4>1 DEF Shown
    <3> QED BY <3>5, <3>6, <3>7
  <2> QED BY <2>1, <2>2 DEF List
<1>6. TypeOK'
  BY <1>1, <1>2, <1>3, <1>4, <1>5 DEF TypeOK
<1>7. Requested'
  BY <1>1, <1>2, <1>3 DEF Requested
<1>8. Past'
  BY <1>1, <1>2 DEF Past
<1> QED BY <1>5, <1>6, <1>7, <1>8

(* The clock moves on, or is set back and nothing more is claimed. *)
LEMMA ClockKeepsOrderInv ==
  ASSUME OrderInv, Tick \/ SetBack
  PROVE  OrderInv'
<1> USE DEF OrderInv
<1>1. UNCHANGED <<rows, request, answer, created, listed, shown, told, earlier>>
  BY DEF Tick, SetBack, catalog, history
<1>2. Drawn' = Drawn
  BY <1>1 DEF Drawn
<1>3. now \in Nat /\ now' \in Times
  BY BoundsAssumption DEF Tick, SetBack, TypeOK, Times
<1>4. setBacks \in Nat /\ setBacks' \in 0 .. MaxSetBacks
  BY BoundsAssumption DEF Tick, SetBack, TypeOK
<1>5. setBacks' = 0 => setBacks = 0 /\ now' = now + 1
  BY <1>4 DEF Tick, SetBack
<1>6. TypeOK'
  BY <1>1, <1>2, <1>3, <1>4 DEF TypeOK
<1>7. Listed' /\ Shown'
  BY <1>1 DEF Listed, Shown, Precedes, Text, Less
<1>8. Requested'
  <2> SUFFICES ASSUME NEW p \in Procs, request[p].kind = "add", setBacks' = 0,
                      NEW i \in request[p].ids
               PROVE  created[i] <= now'
    BY <1>1, <1>2 DEF Requested
  <2>1. i \in Drawn /\ created[i] <= now /\ now' = now + 1
    BY <1>5 DEF Requested
  <2>2. created[i] \in Int
    BY <2>1, BoundsAssumption DEF Drawn, TypeOK, Times, Never
  <2> QED BY <1>3, <2>1, <2>2
<1>9. Past'
  <2> SUFFICES ASSUME setBacks' = 0 PROVE Past'
    BY DEF Past
  <2>1. \A j \in Ids : told[j] \in Int
    BY BoundsAssumption DEF TypeOK, Times, Never
  <2> QED BY <1>1, <1>2, <1>3, <1>5, <2>1 DEF Past
<1> QED BY <1>6, <1>7, <1>8, <1>9

(* Every step keeps the invariant. *)
LEMMA NextKeepsOrderInv == OrderInv /\ [Next]_vars => OrderInv'
<1> SUFFICES ASSUME OrderInv, [Next]_vars PROVE OrderInv' OBVIOUS
<1>1. CASE UNCHANGED vars
  <2>1. UNCHANGED <<rows, request, answer, created, now, setBacks, listed, shown, told,
                    earlier>>
    BY <1>1 DEF vars, catalog, clock, history
  <2> QED
      BY <2>1
         DEF OrderInv, TypeOK, Requested, Listed, Shown, Past, Drawn, Precedes,
           Text, Less
<1>2. ASSUME NEW p \in Procs,
             \/ Register(p) \/ Add(p) \/ Answer(p)
             \/ RequestList(p) \/ Select(p) \/ List(p) \/ Crash(p)
      PROVE  OrderInv'
  BY <1>2, RegisterKeepsOrderInv, CatalogKeepsOrderInv, AnswerKeepsOrderInv,
     WaitingKeepsOrderInv, ListKeepsOrderInv
<1>3. CASE Tick \/ SetBack
  BY <1>3, ClockKeepsOrderInv
<1> QED BY <1>1, <1>2, <1>3 DEF Next

-----------------------------------------------------------------------------
(* The properties. *)

(* The invariant holds in every behaviour. *)
THEOREM OrderInvariance == Spec => []OrderInv
<1> QED BY InitEstablishesOrderInv, NextKeepsOrderInv, PTL DEF Spec

(* Every variable of the order has its type, and only datasets that were   *)
(* made are stored, listed or shown (models.py, sqlite_dataset_repository).*)
THEOREM TypeCorrectness == Spec => []TypeOK
<1>1. OrderInv => TypeOK BY DEF OrderInv
<1> QED BY <1>1, OrderInvariance, PTL

(* Every list is in the order of the times of creation, although list      *)
(* compares texts, for any clock, number of processes and datasets.        *)
THEOREM Chronology == Spec => []ListsAreChronological
<1>1. OrderInv => ListsAreChronological
  <2> SUFFICES ASSUME OrderInv, NEW p \in Procs,
                      NEW m \in DOMAIN listed[p], NEW n \in DOMAIN listed[p], m < n
               PROVE  /\ listed[p][m] # listed[p][n]
                      /\ created[listed[p][m]] <= created[listed[p][n]]
    BY DEF ListsAreChronological
  <2>1. listed[p][m] \in Drawn /\ listed[p][n] \in Drawn
    BY DEF OrderInv, TypeOK
  <2> QED BY <2>1, PrecedesIsChronological DEF OrderInv, Listed
<1> QED BY <1>1, OrderInvariance, PTL

(* No two lists of any processes disagree about the order of two datasets  *)
(* (dataset_repository.py, list).                                          *)
THEOREM StableOrder == Spec => []OrderIsStable
<1>1. OrderInv => OrderIsStable
  <2> SUFFICES ASSUME OrderInv, NEW i \in Ids, NEW j \in Ids,
                      <<i, j>> \in shown, <<j, i>> \in shown
               PROVE  FALSE
    BY DEF OrderIsStable
  <2>1. i \in Drawn /\ j \in Drawn BY DEF OrderInv, TypeOK
  <2> QED BY <2>1, PrecedesIsAsymmetric DEF OrderInv, Shown
<1> QED BY <1>1, OrderInvariance, PTL

(* As long as the clock is not set back, a dataset whose registration was  *)
(* answered at an earlier time than another was made precedes it in every  *)
(* list (service.py, register; sqlite_dataset_repository.py, list).        *)
THEOREM AnsweredFirst == Spec => []RegistrationOrder
<1>1. OrderInv => RegistrationOrder
  <2> SUFFICES ASSUME OrderInv, NEW p \in Procs,
                      NEW m \in DOMAIN listed[p], NEW n \in DOMAIN listed[p],
                      m < n, setBacks = 0, listed[p][n] \in earlier[listed[p][m]]
               PROVE  FALSE
    BY DEF RegistrationOrder
  <2> DEFINE i == listed[p][m]
             j == listed[p][n]
  <2>1. i \in Drawn /\ j \in Drawn BY DEF OrderInv, TypeOK
  <2>2. created[i] <= created[j]
    BY <2>1, PrecedesIsChronological DEF OrderInv, Listed
  <2>3. created[j] < created[i] BY <2>1 DEF OrderInv, Past
  <2>4. created[i] \in Int /\ created[j] \in Int
    BY <2>1, BoundsAssumption DEF OrderInv, TypeOK, Times, Never, Drawn
  <2> QED BY <2>2, <2>3, <2>4
<1> QED BY <1>1, OrderInvariance, PTL

(* What the processes do to the catalog is what its port allows, whatever  *)
(* the clock does: the order of lists rests on the port's promise alone,   *)
(* which SQLiteDatasetRepository keeps (service.py, register and list).    *)
THEOREM OrderUsesCatalog == Spec => Catalog!Spec
<1>1. Init => Catalog!Init
  BY DEF Init
<1>2. [Next]_vars => [Catalog!Next]_(Catalog!vars)
  <2> SUFFICES ASSUME [Next]_vars
               PROVE  [Catalog!Next]_(Catalog!vars)
    OBVIOUS
  <2> USE DEF Catalog!Next, Catalog!vars, catalog
  <2>1. ASSUME NEW p \in Procs,
               Register(p) \/ Add(p) \/ Answer(p) \/ RequestList(p) \/ Select(p) \/ List(p)
        PROVE  Catalog!Next
    BY <2>1 DEF Register, Add, Answer, RequestList, Select, List
  <2>2. ASSUME NEW p \in Procs, Crash(p)
        PROVE  Catalog!Next
    <3>1. {p} \in SUBSET Procs
      OBVIOUS
    <3> QED BY <2>2, <3>1 DEF Crash
  <2>3. CASE Tick \/ SetBack \/ UNCHANGED vars
    BY <2>3 DEF Tick, SetBack, vars
  <2> QED BY <2>1, <2>2, <2>3 DEF Next
<1> QED BY <1>1, <1>2, PTL DEF Spec, Catalog!Spec
=============================================================================
