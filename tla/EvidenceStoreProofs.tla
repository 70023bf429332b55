-------------------------- MODULE EvidenceStoreProofs --------------------------
(***************************************************************************)
(* Theorems about EvidenceStore, for any runs, readers, datasets, columns  *)
(* and amounts of evidence, and about Confidence, for any score.           *)
(***************************************************************************)
EXTENDS EvidenceStore, Confidence, TLAPS

USE WholeTableAssumption, NobodyAssumption, MaxItemsAssumption

(* What a run records. *)
LEMMA EvidenceIsSequence ==
  ASSUME analysis \in [Runs -> Analyses], NEW r \in Runs
  PROVE  /\ Evidence(r) \in Seq(Items)
         /\ Len(Evidence(r)) \in 1 .. MaxItems
         /\ \A k \in 1 .. Len(Evidence(r)) : Evidence(r)[k].run = r /\ Evidence(r)[k].k = k
<1>1. PICK n \in 1 .. MaxItems : analysis[r].columns \in [1 .. n -> Names]
  BY DEF Analyses
<1>2. Evidence(r) = [k \in 1 .. n |-> [run |-> r, k |-> k, column |-> analysis[r].columns[k]]]
  BY <1>1 DEF Evidence
<1>3. \A k \in 1 .. n : [run |-> r, k |-> k, column |-> analysis[r].columns[k]] \in Items
  BY <1>1 DEF Items
<1>4. Evidence(r) \in Seq(Items) /\ Len(Evidence(r)) = n
  BY <1>2, <1>3
<1> QED BY <1>2, <1>4

(* The evidence of a dataset is a sequence of items. *)
LEMMA ViewIsSequence ==
  ASSUME TypeOK, NEW d \in Datasets
  PROVE  View(d) \in Seq(Items)
  BY DEF TypeOK, View

(* A list that was brought belongs to the dataset of the run that brought  *)
(* it, and any other is empty.                                             *)
Owned ==
    /\ \A d \in Datasets : byDataset[d] # Nobody => analysis[byDataset[d]].dataset = d
    /\ \A r \in Runs : byDataset[analysis[r].dataset] # r => lists[r] = <<>>

(* While a reader goes through a list, it is that of its dataset, and what *)
(* it found is what it passed.                                             *)
Reading ==
    \A q \in Readers : asked[q].kind = "column" =>
        /\ asked[q].dataset \in Datasets /\ asked[q].column \in Columns
        /\ source[q] # Nobody => source[q] = byDataset[asked[q].dataset]
        /\ position[q] <= Len(Source(q))
        /\ IsPrefix(due[q], Source(q))
        /\ IsSelection(result[q], Source(q), position[q], asked[q].column)

Answered ==
    \A q \in Readers : asked[q].kind = "answered" => asked[q].dataset \in Datasets

StoreInv == TypeOK /\ Owned /\ RunsAreWhole /\ Reading /\ Answered /\ ReadsAreCurrent

(* At the start the store is empty. *)
LEMMA InitEstablishesStoreInv == Init => StoreInv
<1> SUFFICES ASSUME Init PROVE StoreInv OBVIOUS
<1> USE DEF Init
<1>1. TypeOK
  <2>1. NoQuestion \in [kind : {"none", "column", "answered"},
                        dataset : Datasets \cup {Nobody}, column : Names]
    BY DEF NoQuestion, Names
  <2> QED BY <2>1 DEF TypeOK
<1>2. Owned
  BY DEF Owned, Analyses
<1>3. RunsAreWhole
  <2> SUFFICES ASSUME NEW r \in Runs, NEW d \in Datasets
               PROVE  View(d) = <<>> /\ {Evidence(r)[k] : k \in 1 .. recorded[r]} = {}
    BY DEF RunsAreWhole
  <2> QED BY DEF View
<1>4. Reading /\ Answered /\ ReadsAreCurrent
  BY DEF Reading, Answered, ReadsAreCurrent, NoQuestion
<1> QED BY <1>1, <1>2, <1>3, <1>4 DEF StoreInv

-----------------------------------------------------------------------------
(* Prefixes and selections. *)

(* A prefix has the same items in the same places. *)
LEMMA PrefixIsSameItems ==
  ASSUME NEW s \in Seq(Items), NEW t \in Seq(Items)
  PROVE  IsPrefix(s, t) <=> /\ Len(s) <= Len(t)
                            /\ \A k \in 1 .. Len(s) : s[k] = t[k]
<1>1. ASSUME IsPrefix(s, t) PROVE Len(s) <= Len(t) /\ \A k \in 1 .. Len(s) : s[k] = t[k]
  <2>1. Len(s) <= Len(t) /\ SubSeq(s, 1, Len(s)) = SubSeq(t, 1, Len(s))
    BY <1>1 DEF IsPrefix
  <2> QED BY <2>1
<1>2. ASSUME Len(s) <= Len(t), \A k \in 1 .. Len(s) : s[k] = t[k] PROVE IsPrefix(s, t)
  BY <1>2 DEF IsPrefix
<1> QED BY <1>1, <1>2

(* A sequence is a prefix of what append makes of it. *)
LEMMA AppendIsPrefix ==
  ASSUME NEW s \in Seq(Items), NEW item \in Items
  PROVE  Append(s, item) \in Seq(Items) /\ IsPrefix(s, Append(s, item))
<1> DEFINE more == Append(s, item)
<1>1. /\ more \in Seq(Items) /\ Len(more) = Len(s) + 1
      /\ \A k \in 1 .. Len(s) : s[k] = more[k]
  OBVIOUS
<1> HIDE DEF more
<1>2. IsPrefix(s, more) BY <1>1, PrefixIsSameItems
<1> QED BY <1>1, <1>2 DEF more

(* A sequence is a prefix of itself. *)
LEMMA PrefixIsReflexive ==
  ASSUME NEW s \in Seq(Items)
  PROVE  IsPrefix(s, s)
  BY PrefixIsSameItems

(* A prefix of a prefix is a prefix. *)
LEMMA PrefixIsTransitive ==
  ASSUME NEW s \in Seq(Items), NEW t \in Seq(Items), NEW u \in Seq(Items),
         IsPrefix(s, t), IsPrefix(t, u)
  PROVE  IsPrefix(s, u)
<1>1. Len(s) \in Nat /\ Len(t) \in Nat /\ Len(u) \in Nat OBVIOUS
<1>2. /\ Len(s) <= Len(t) /\ \A k \in 1 .. Len(s) : s[k] = t[k]
      /\ Len(t) <= Len(u) /\ \A k \in 1 .. Len(t) : t[k] = u[k]
  BY PrefixIsSameItems
<1> QED BY <1>1, <1>2, PrefixIsSameItems

(* What was selected from a list stays selected when the list grows. *)
LEMMA SelectionStays ==
  ASSUME NEW all \in Seq(Items), NEW more \in Seq(Items), IsPrefix(all, more),
         NEW n \in Nat, n <= Len(all), NEW items, NEW c, IsSelection(items, all, n, c)
  PROVE  IsSelection(items, more, n, c)
<1> DEFINE Wanted(m) == c \in {WholeTable, all[m].column}
           WantedMore(m) == c \in {WholeTable, more[m].column}
<1>1. \A k \in 1 .. n : all[k] = more[k]
  BY PrefixIsSameItems
<1>2. {m \in 1 .. n : Wanted(m)} = {m \in 1 .. n : WantedMore(m)}
  BY <1>1
<1>3. {all[m] : m \in {m \in 1 .. n : Wanted(m)}}
         = {more[m] : m \in {m \in 1 .. n : WantedMore(m)}}
  BY <1>1, <1>2
<1>4. \A k, m \in DOMAIN items :
         k < m => \E i, j \in 1 .. n : i < j /\ more[i] = items[k] /\ more[j] = items[m]
  <2> SUFFICES ASSUME NEW k \in DOMAIN items, NEW m \in DOMAIN items, k < m
               PROVE  \E i, j \in 1 .. n : i < j /\ more[i] = items[k] /\ more[j] = items[m]
    OBVIOUS
  <2>1. PICK i \in 1 .. n, j \in 1 .. n : i < j /\ all[i] = items[k] /\ all[j] = items[m]
    BY DEF IsSelection
  <2> QED BY <1>1, <2>1
<1> QED BY <1>3, <1>4 DEF IsSelection

(* The reader takes one item more. *)
LEMMA SelectionGrows ==
  ASSUME NEW all \in Seq(Items), NEW n \in Nat, n + 1 <= Len(all),
         NEW items \in Seq(Items), NEW c \in Columns, IsSelection(items, all, n, c)
  PROVE  IsSelection(IF IsOfColumn(all[n + 1], c) THEN Append(items, all[n + 1]) ELSE items,
                     all, n + 1, c)
<1>1. 1 .. (n + 1) = (1 .. n) \cup {n + 1} OBVIOUS
<1>2. {items[k] : k \in DOMAIN items}
         = {all[m] : m \in {m \in 1 .. n : c \in {WholeTable, all[m].column}}}
  BY DEF IsSelection
<1>3. \A k, m \in DOMAIN items :
         k < m => \E i, j \in 1 .. n : i < j /\ all[i] = items[k] /\ all[j] = items[m]
  BY DEF IsSelection
<1>4. c # WholeTable OBVIOUS
<1>5. CASE ~IsOfColumn(all[n + 1], c)
  <2>1. {m \in 1 .. (n + 1) : c \in {WholeTable, all[m].column}}
           = {m \in 1 .. n : c \in {WholeTable, all[m].column}}
    BY <1>1, <1>4, <1>5 DEF IsOfColumn
  <2>2. {items[k] : k \in DOMAIN items}
           = {all[m] : m \in {m \in 1 .. (n + 1) : c \in {WholeTable, all[m].column}}}
    BY <1>2, <2>1
  <2>3. \A k, m \in DOMAIN items :
           k < m => \E i, j \in 1 .. (n + 1) :
                       i < j /\ all[i] = items[k] /\ all[j] = items[m]
    BY <1>1, <1>3
  <2>4. IsSelection(items, all, n + 1, c)
    BY <2>2, <2>3 DEF IsSelection
  <2> QED BY <1>5, <2>4
<1>6. CASE IsOfColumn(all[n + 1], c)
  <2> DEFINE longer == Append(items, all[n + 1])
  <2>1. all[n + 1] \in Items OBVIOUS
  <2>2. /\ longer \in Seq(Items) /\ Len(longer) = Len(items) + 1
        /\ \A k \in 1 .. Len(items) : longer[k] = items[k]
        /\ longer[Len(items) + 1] = all[n + 1]
    BY <2>1
  <2>3. DOMAIN longer = DOMAIN items \cup {Len(items) + 1} /\ DOMAIN items = 1 .. Len(items)
    BY <2>2
  <2> HIDE DEF longer
  <2>4. {m \in 1 .. (n + 1) : c \in {WholeTable, all[m].column}}
           = {m \in 1 .. n : c \in {WholeTable, all[m].column}} \cup {n + 1}
    BY <1>1, <1>6 DEF IsOfColumn
  <2>5. {longer[k] : k \in DOMAIN longer} = {items[k] : k \in DOMAIN items} \cup {all[n + 1]}
    BY <2>2, <2>3
  <2>6. {longer[k] : k \in DOMAIN longer}
           = {all[m] : m \in {m \in 1 .. (n + 1) : c \in {WholeTable, all[m].column}}}
    BY <1>2, <2>4, <2>5
  <2>7. ASSUME NEW k \in DOMAIN longer, NEW m \in DOMAIN longer, k < m
        PROVE  \E i, j \in 1 .. (n + 1) : i < j /\ all[i] = longer[k] /\ all[j] = longer[m]
    <3>1. k \in 1 .. Len(items) BY <2>3, <2>7
    <3>2. CASE m \in 1 .. Len(items)
      <4>1. PICK i \in 1 .. n, j \in 1 .. n :
               i < j /\ all[i] = items[k] /\ all[j] = items[m]
        BY <1>3, <2>3, <2>7, <3>1, <3>2
      <4> QED BY <1>1, <2>2, <3>1, <3>2, <4>1
    <3>3. CASE m = Len(items) + 1
      <4>1. PICK i \in 1 .. n : all[i] = items[k]
        BY <1>2, <2>3, <3>1
      <4>2. i < n + 1 BY <4>1
      <4> QED BY <1>1, <2>2, <3>1, <3>3, <4>1, <4>2
    <3> QED BY <2>3, <3>2, <3>3
  <2>8. IsSelection(longer, all, n + 1, c)
    BY <2>6, <2>7 DEF IsSelection
  <2> QED BY <1>6, <2>8 DEF longer
<1> QED BY <1>5, <1>6

-----------------------------------------------------------------------------
(* Steps of the analysis runs. *)

(* A step of a run, under which every list only grows, is good for readers.*)
LEMMA ReadersSurvive ==
  ASSUME StoreInv, TypeOK', UNCHANGED readers,
         \A d \in Datasets : IsPrefix(View(d), View(d)'),
         \A r \in Runs : IsPrefix(lists[r], lists'[r]),
         \A d \in Datasets : byDataset[d] # Nobody => byDataset'[d] = byDataset[d]
  PROVE  Reading' /\ Answered' /\ ReadsAreCurrent'
<1> USE DEF StoreInv
<1>1. UNCHANGED <<asked, source, position, result, due>>
  BY DEF readers
<1>2. Answered'
  BY <1>1 DEF Answered
<1>3. ASSUME NEW q \in Readers
      PROVE  Source(q) \in Seq(Items) /\ Source(q)' \in Seq(Items) /\ IsPrefix(Source(q), Source(q)')
  <2>1. CASE source[q] = Nobody
    <3>1. Source(q) = <<>> /\ Source(q)' = <<>> BY <1>1, <2>1 DEF Source
    <3>2. <<>> \in Seq(Items) OBVIOUS
    <3> QED BY <3>1, <3>2, PrefixIsReflexive
  <2>2. CASE source[q] # Nobody
    BY <1>1, <2>2 DEF Source, TypeOK
  <2> QED BY <2>1, <2>2
<1>4. Reading'
  <2> SUFFICES ASSUME NEW q \in Readers, asked[q].kind = "column"
               PROVE  /\ asked[q].dataset \in Datasets /\ asked[q].column \in Columns
                      /\ source[q] # Nobody => source[q] = byDataset'[asked[q].dataset]
                      /\ position[q] <= Len(Source(q)')
                      /\ IsPrefix(due[q], Source(q)')
                      /\ IsSelection(result[q], Source(q)', position[q], asked[q].column)
    BY <1>1 DEF Reading
  <2>1. /\ asked[q].dataset \in Datasets /\ asked[q].column \in Columns
        /\ source[q] # Nobody => source[q] = byDataset[asked[q].dataset]
        /\ position[q] <= Len(Source(q))
        /\ IsPrefix(due[q], Source(q))
        /\ IsSelection(result[q], Source(q), position[q], asked[q].column)
    BY DEF Reading
  <2>2. Source(q) \in Seq(Items) /\ Source(q)' \in Seq(Items) /\ IsPrefix(Source(q), Source(q)')
    BY <1>3
  <2>3. source[q] # Nobody => source[q] = byDataset'[asked[q].dataset]
    BY <2>1
  <2>4. position[q] \in Nat /\ due[q] \in Seq(Items)
    BY DEF TypeOK
  <2>5. Len(Source(q)) <= Len(Source(q)')
    BY <2>2, PrefixIsSameItems
  <2>6. Len(Source(q)) \in Nat /\ Len(Source(q)') \in Nat
    BY <2>2
  <2> HIDE DEF Source
  <2>7. position[q] <= Len(Source(q)')
    BY <2>1, <2>4, <2>5, <2>6
  <2>8. IsPrefix(due[q], Source(q)')
    BY <2>1, <2>2, <2>4, PrefixIsTransitive
  <2>9. IsSelection(result[q], Source(q)', position[q], asked[q].column)
    BY <2>1, <2>2, <2>4, SelectionStays
  <2> QED BY <2>1, <2>3, <2>7, <2>8, <2>9
<1>5. ReadsAreCurrent'
  <2> SUFFICES ASSUME NEW q \in Readers, asked[q].kind = "answered"
               PROVE  /\ IsPrefix(due[q], View(asked[q].dataset)')
                      /\ \E n \in Len(due[q]) .. Len(View(asked[q].dataset)') :
                            IsSelection(result[q], View(asked[q].dataset)', n, asked[q].column)
    BY <1>1 DEF ReadsAreCurrent
  <2> DEFINE d == asked[q].dataset
             new == View(d)'
  <2>1. d \in Datasets /\ due[q] \in Seq(Items)
    BY DEF Answered, TypeOK
  <2>2. View(d) \in Seq(Items) /\ new \in Seq(Items) /\ IsPrefix(View(d), new)
    <3>1. new \in Seq(Items) BY <2>1, <1>1 DEF TypeOK, View
    <3> QED BY <2>1, <3>1, <1>1, ViewIsSequence
  <2>3. PICK n \in Len(due[q]) .. Len(View(d)) :
           IsPrefix(due[q], View(d)) /\ IsSelection(result[q], View(d), n, asked[q].column)
    BY DEF ReadsAreCurrent
  <2>4. Len(View(d)) \in Nat /\ Len(new) \in Nat /\ Len(due[q]) \in Nat
    BY <2>1, <2>2
  <2> HIDE DEF new, d
  <2>5. Len(View(d)) <= Len(new)
    BY <2>2, PrefixIsSameItems
  <2>6. n \in Nat /\ n <= Len(View(d)) /\ n \in Len(due[q]) .. Len(new)
    BY <2>3, <2>4, <2>5
  <2>7. IsSelection(result[q], new, n, asked[q].column)
    BY <2>2, <2>3, <2>6, SelectionStays
  <2>8. IsPrefix(due[q], new)
    BY <2>1, <2>2, <2>3, PrefixIsTransitive
  <2> QED BY <2>6, <2>7, <2>8 DEF new, d
<1> QED BY <1>2, <1>4, <1>5

(* setdefault changes no view: a list that it brings is empty. *)
LEMMA SetDefaultKeepsViews ==
  ASSUME StoreInv, NEW r \in Runs, SetDefault(r)
  PROVE  /\ \A d \in Datasets : View(d)' = View(d)
         /\ \A d \in Datasets : byDataset[d] # Nobody => byDataset'[d] = byDataset[d]
         /\ TypeOK' /\ Owned'
<1> USE DEF StoreInv
<1> DEFINE d0 == analysis[r].dataset
<1>1. d0 \in Datasets
  BY DEF TypeOK, Analyses
<1>2. /\ UNCHANGED <<lists, analysis, recorded, readers>>
      /\ byDataset' = [byDataset EXCEPT ![d0] = IF @ = Nobody THEN r ELSE @]
      /\ held' = [held EXCEPT ![r] = byDataset'[d0]]
      /\ pc' = [pc EXCEPT ![r] = "append"] /\ pc[r] = "collect"
      /\ recorded[r] < Len(Evidence(r))
  BY DEF SetDefault, At
<1> HIDE DEF d0
<1>3. byDataset[d0] = Nobody => lists[r] = <<>>
  BY DEF Owned, d0
<1>4. \A d \in Datasets : View(d)' = View(d)
  BY <1>1, <1>2, <1>3 DEF View, TypeOK
<1>5. \A d \in Datasets : byDataset[d] # Nobody => byDataset'[d] = byDataset[d]
  BY <1>1, <1>2 DEF TypeOK
<1>6. TypeOK'
  <2>1. byDataset' \in [Datasets -> Runs \cup {Nobody}] /\ byDataset'[d0] \in Runs
    BY <1>1, <1>2 DEF TypeOK
  <2>2. held' \in [Runs -> Runs \cup {Nobody}]
    BY <1>2, <2>1 DEF TypeOK
  <2>3. \A u \in Runs : Evidence(u)' = Evidence(u)
    BY <1>2 DEF Evidence
  <2>4. ASSUME NEW u \in Runs, pc'[u] = "append"
        PROVE  /\ held'[u] = byDataset'[analysis[u].dataset] /\ held'[u] # Nobody
               /\ recorded[u] < Len(Evidence(u))
    <3>1. CASE u = r BY <1>2, <2>1, <3>1 DEF TypeOK, d0
    <3>2. CASE u # r
      <4>1. pc[u] = "append" /\ held'[u] = held[u]
        BY <1>2, <2>4, <3>2 DEF TypeOK
      <4>2. analysis[u].dataset \in Datasets BY DEF TypeOK, Analyses
      <4> QED BY <1>5, <4>1, <4>2 DEF TypeOK
    <3> QED BY <3>1, <3>2
  <2>5. pc' \in [Runs -> {"collect", "append", "abandoned"}]
    BY <1>2 DEF TypeOK
  <2> QED BY <1>2, <2>1, <2>2, <2>3, <2>4, <2>5 DEF TypeOK, readers
<1>7. Owned'
  <2>1. \A d \in Datasets : byDataset'[d] # Nobody => analysis[byDataset'[d]].dataset = d
    BY <1>1, <1>2 DEF Owned, TypeOK, d0
  <2>2. \A u \in Runs : byDataset'[analysis[u].dataset] # u => lists[u] = <<>>
    <3> SUFFICES ASSUME NEW u \in Runs, byDataset'[analysis[u].dataset] # u
                 PROVE  lists[u] = <<>>
      OBVIOUS
    <3>1. analysis[u].dataset \in Datasets BY DEF TypeOK, Analyses
    <3>2. byDataset[analysis[u].dataset] # u BY <1>5, <3>1
    <3> QED BY <3>2 DEF Owned
  <2> QED BY <1>2, <2>1, <2>2 DEF Owned
<1> QED BY <1>4, <1>5, <1>6, <1>7

(* The invariant under the first step of record. *)
LEMMA SetDefaultKeepsStoreInv ==
  ASSUME StoreInv, NEW r \in Runs, SetDefault(r)
  PROVE  StoreInv'
<1>1. /\ \A d \in Datasets : View(d)' = View(d)
      /\ \A d \in Datasets : byDataset[d] # Nobody => byDataset'[d] = byDataset[d]
      /\ TypeOK' /\ Owned'
  BY SetDefaultKeepsViews
<1>2. UNCHANGED <<lists, analysis, recorded, readers>>
  BY DEF SetDefault
<1>3. RunsAreWhole'
  <2>1. \A u \in Runs : Evidence(u)' = Evidence(u)
    BY <1>2 DEF Evidence
  <2> QED BY <1>1, <1>2, <2>1 DEF StoreInv, RunsAreWhole
<1>4. \A d \in Datasets : IsPrefix(View(d), View(d)')
  BY <1>1, ViewIsSequence, PrefixIsReflexive DEF StoreInv
<1>5. \A u \in Runs : IsPrefix(lists[u], lists'[u])
  BY <1>2, PrefixIsReflexive DEF StoreInv, TypeOK
<1>6. Reading' /\ Answered' /\ ReadsAreCurrent'
  BY <1>1, <1>2, <1>4, <1>5, ReadersSurvive
<1> QED BY <1>1, <1>3, <1>6 DEF StoreInv

(* append puts the next item of the run at the end of its dataset's view,  *)
(* and of no other.                                                        *)
LEMMA AppendItemExtendsView ==
  ASSUME StoreInv, NEW r \in Runs, AppendItem(r)
  PROVE  /\ recorded[r] + 1 \in 1 .. Len(Evidence(r))
         /\ Evidence(r)[recorded[r] + 1] \in Items
         /\ \A d \in Datasets :
               View(d)' = IF d = analysis[r].dataset
                          THEN Append(View(d), Evidence(r)[recorded[r] + 1]) ELSE View(d)
         /\ \A u \in Runs : \/ lists'[u] = lists[u]
                            \/ lists'[u] = Append(lists[u], Evidence(r)[recorded[r] + 1])
         /\ TypeOK' /\ Owned'
<1> USE DEF StoreInv
<1> DEFINE d0   == analysis[r].dataset
           item == Evidence(r)[recorded[r] + 1]
<1>1. d0 \in Datasets
  BY DEF TypeOK, Analyses
<1>2. /\ pc[r] = "append" /\ pc' = [pc EXCEPT ![r] = "collect"]
      /\ UNCHANGED <<byDataset, analysis, held, readers>>
      /\ recorded' = [recorded EXCEPT ![r] = @ + 1]
      /\ lists' = [lists EXCEPT ![held[r]] = Append(@, Evidence(r)[recorded'[r]])]
  BY DEF AppendItem, At
<1>3. held[r] = byDataset[d0] /\ held[r] \in Runs /\ recorded[r] < Len(Evidence(r))
  BY <1>2 DEF TypeOK
<1>4. recorded'[r] = recorded[r] + 1 /\ recorded[r] \in Nat
  BY <1>2 DEF TypeOK
<1>5. Evidence(r) \in Seq(Items) /\ Len(Evidence(r)) \in 1 .. MaxItems
  BY EvidenceIsSequence DEF TypeOK
<1>6. recorded[r] + 1 \in 1 .. Len(Evidence(r)) /\ item \in Items
  BY <1>3, <1>4, <1>5
<1>7. lists' = [lists EXCEPT ![held[r]] = Append(@, item)]
  BY <1>2, <1>4
<1> HIDE DEF d0, item
<1>8. \A d \in Datasets : d # d0 => byDataset[d] # held[r]
  BY <1>1, <1>3 DEF Owned
<1>9. \A d \in Datasets : View(d)' = IF d = d0 THEN Append(View(d), item) ELSE View(d)
  BY <1>1, <1>2, <1>3, <1>7, <1>8 DEF View, TypeOK
<1>10. \A u \in Runs : lists'[u] = lists[u] \/ lists'[u] = Append(lists[u], item)
  BY <1>7 DEF TypeOK
<1>11. TypeOK'
  <2>1. lists' \in [Runs -> Seq(Items)]
    <3>1. Append(lists[held[r]], item) \in Seq(Items)
      BY <1>3, <1>6 DEF TypeOK
    <3> QED BY <1>7, <3>1 DEF TypeOK
  <2>2. recorded' \in [Runs -> 0 .. MaxItems]
    <3>1. recorded[r] + 1 \in 0 .. MaxItems BY <1>5, <1>6
    <3> QED BY <1>2, <3>1 DEF TypeOK
  <2>3. pc' \in [Runs -> {"collect", "append", "abandoned"}]
    BY <1>2 DEF TypeOK
  <2>4. \A u \in Runs : Evidence(u)' = Evidence(u)
    BY <1>2 DEF Evidence
  <2>5. \A u \in Runs : pc'[u] = "append" => u # r /\ pc[u] = "append" /\ recorded'[u] = recorded[u]
    BY <1>2 DEF TypeOK
  <2> QED BY <1>2, <2>1, <2>2, <2>3, <2>4, <2>5 DEF TypeOK, readers
<1>12. Owned'
  <2>1. \A u \in Runs : byDataset[analysis[u].dataset] # u => u # held[r]
    BY <1>1, <1>3 DEF Owned
  <2> QED BY <1>2, <1>7, <2>1 DEF Owned, TypeOK
<1> QED BY <1>6, <1>9, <1>10, <1>11, <1>12 DEF d0, item

(* The item appended is the next one of its run, and of no other. *)
LEMMA AppendItemKeepsRunsWhole ==
  ASSUME StoreInv, NEW r \in Runs, AppendItem(r)
  PROVE  RunsAreWhole'
<1> USE DEF StoreInv
<1> DEFINE item == Evidence(r)[recorded[r] + 1]
<1>1. /\ recorded[r] + 1 \in 1 .. Len(Evidence(r)) /\ item \in Items
      /\ \A d \in Datasets :
            View(d)' = IF d = analysis[r].dataset THEN Append(View(d), item) ELSE View(d)
  BY AppendItemExtendsView
<1>2. /\ UNCHANGED <<analysis>>
      /\ recorded' = [recorded EXCEPT ![r] = @ + 1]
  BY DEF AppendItem
<1>3. item.run = r /\ item.k = recorded[r] + 1
  BY <1>1, EvidenceIsSequence DEF TypeOK
<1>4. \A u \in Runs : Evidence(u)' = Evidence(u)
  BY <1>2 DEF Evidence
<1> HIDE DEF item
<1> SUFFICES ASSUME NEW u \in Runs, NEW d \in Datasets
             PROVE  /\ {View(d)'[n] : n \in {n \in DOMAIN View(d)' : View(d)'[n].run = u}}
                          = IF d = analysis[u].dataset
                            THEN {Evidence(u)[k] : k \in 1 .. recorded'[u]} ELSE {}
                    /\ \A m, n \in {n \in DOMAIN View(d)' : View(d)'[n].run = u} :
                          m < n => View(d)'[m].k < View(d)'[n].k
  <2>1. \A u \in Runs : \A k : (Evidence(u)[k])' = Evidence(u)[k]
    BY <1>4
  <2> QED BY <1>2, <2>1 DEF RunsAreWhole
<1> DEFINE all  == View(d)
           mine == {n \in DOMAIN all : all[n].run = u}
           new  == View(d)'
           our  == {n \in DOMAIN new : new[n].run = u}
<1>5. /\ {all[n] : n \in mine}
           = IF d = analysis[u].dataset THEN {Evidence(u)[k] : k \in 1 .. recorded[u]} ELSE {}
      /\ \A m, n \in mine : m < n => all[m].k < all[n].k
  BY DEF RunsAreWhole
<1>6. all \in Seq(Items)
  BY ViewIsSequence
<1>7. recorded[u] \in Nat /\ (u # r => recorded'[u] = recorded[u])
  BY <1>2 DEF TypeOK
<1>8. CASE d # analysis[r].dataset
  <2>1. new = all BY <1>1, <1>8
  <2>2. d = analysis[u].dataset => u # r BY <1>8
  <2> QED BY <1>5, <1>7, <2>1, <2>2
<1>9. CASE d = analysis[r].dataset
  <2>1. new = Append(all, item)
    BY <1>1, <1>9
  <2>2. /\ DOMAIN all = 1 .. Len(all) /\ Len(all) \in Nat
        /\ DOMAIN new = 1 .. (Len(all) + 1)
        /\ \A n \in 1 .. Len(all) : new[n] = all[n]
        /\ new[Len(all) + 1] = item
    BY <1>1, <1>6, <2>1
  <2> HIDE DEF new, all
  <2>3. CASE u # r
    <3>1. our = mine BY <1>3, <2>2, <2>3
    <3>2. \A n \in mine : new[n] = all[n] BY <2>2
    <3>3. {new[n] : n \in our} = {all[n] : n \in mine} BY <3>1, <3>2
    <3>4. \A m, n \in our : m < n => new[m].k < new[n].k BY <1>5, <3>1, <3>2
    <3> QED BY <1>5, <1>7, <2>3, <3>3, <3>4 DEF new, all
  <2>4. CASE u = r
    <3>1. our = mine \cup {Len(all) + 1} BY <1>3, <2>2, <2>4
    <3>2. \A n \in mine : new[n] = all[n] BY <2>2
    <3>3. {new[n] : n \in our} = {all[n] : n \in mine} \cup {item}
      BY <2>2, <3>1, <3>2
    <3>4. recorded'[u] = recorded[u] + 1
      BY <1>2, <2>4 DEF TypeOK
    <3>5. 1 .. recorded'[u] = (1 .. recorded[u]) \cup {recorded[u] + 1}
      BY <1>7, <3>4
    <3>6. {Evidence(u)[k] : k \in 1 .. recorded'[u]}
             = {Evidence(u)[k] : k \in 1 .. recorded[u]} \cup {item}
      BY <2>4, <3>5 DEF item
    <3>7. {new[n] : n \in our} = {Evidence(u)[k] : k \in 1 .. recorded'[u]}
      BY <1>5, <1>9, <2>4, <3>3, <3>6
    <3>8. ASSUME NEW m \in our, NEW n \in our, m < n
          PROVE  new[m].k < new[n].k
      <4>1. CASE n \in mine
        <5>1. m \in mine BY <2>2, <3>1, <3>8, <4>1
        <5> QED BY <1>5, <3>2, <3>8, <4>1, <5>1
      <4>2. CASE n = Len(all) + 1
        <5>1. m \in mine BY <2>2, <3>1, <3>8, <4>2
        <5>2. PICK k \in 1 .. recorded[r] : all[m] = Evidence(r)[k]
          BY <1>5, <1>9, <2>4, <5>1
        <5>3. k \in 1 .. Len(Evidence(r))
          <6>1. Len(Evidence(r)) \in Nat BY EvidenceIsSequence DEF TypeOK
          <6> QED BY <1>1, <1>7, <2>4, <6>1
        <5>4. all[m].k = k /\ k <= recorded[r]
          BY <1>7, <2>4, <5>2, <5>3, EvidenceIsSequence DEF TypeOK
        <5> QED BY <1>3, <1>7, <2>2, <2>4, <3>2, <4>2, <5>1, <5>4
      <4> QED BY <3>1, <4>1, <4>2
    <3> QED BY <1>9, <2>4, <3>7, <3>8 DEF new, all
  <2> QED BY <2>3, <2>4
<1> QED BY <1>8, <1>9

(* The invariant under the second step of record. *)
LEMMA AppendItemKeepsStoreInv ==
  ASSUME StoreInv, NEW r \in Runs, AppendItem(r)
  PROVE  StoreInv'
<1> DEFINE item == Evidence(r)[recorded[r] + 1]
<1>1. /\ item \in Items
      /\ \A d \in Datasets :
            View(d)' = IF d = analysis[r].dataset THEN Append(View(d), item) ELSE View(d)
      /\ \A u \in Runs : lists'[u] = lists[u] \/ lists'[u] = Append(lists[u], item)
      /\ TypeOK' /\ Owned'
  BY AppendItemExtendsView
<1> HIDE DEF item
<1>2. UNCHANGED readers /\ \A d \in Datasets : byDataset'[d] = byDataset[d]
  BY DEF AppendItem
<1>3. \A d \in Datasets : IsPrefix(View(d), View(d)')
  BY <1>1, ViewIsSequence, PrefixIsReflexive, AppendIsPrefix DEF StoreInv
<1>4. \A u \in Runs : IsPrefix(lists[u], lists'[u])
  <2> SUFFICES ASSUME NEW u \in Runs PROVE IsPrefix(lists[u], lists'[u]) OBVIOUS
  <2>1. lists[u] \in Seq(Items) BY DEF StoreInv, TypeOK
  <2>2. IsPrefix(lists[u], lists[u]) BY <2>1, PrefixIsReflexive
  <2>3. IsPrefix(lists[u], Append(lists[u], item)) BY <1>1, <2>1, AppendIsPrefix
  <2> QED BY <1>1, <2>2, <2>3
<1>5. Reading' /\ Answered' /\ ReadsAreCurrent'
  BY <1>1, <1>2, <1>3, <1>4, ReadersSurvive
<1> QED BY <1>1, <1>5, AppendItemKeepsRunsWhole DEF StoreInv

-----------------------------------------------------------------------------
(* Steps that leave the lists alone. *)

(* What is said of the store alone stays true. *)
LEMMA StoreStays ==
  ASSUME StoreInv, UNCHANGED <<byDataset, lists, analysis, recorded>>
  PROVE  /\ Owned' /\ RunsAreWhole'
         /\ \A d \in Datasets : View(d)' = View(d)
         /\ \A r \in Runs : Evidence(r)' = Evidence(r)
<1>1. Owned'
  BY DEF StoreInv, Owned
<1>2. \A d : View(d)' = View(d)
  BY DEF View
<1>3. \A r : Evidence(r)' = Evidence(r)
  BY DEF Evidence
<1>4. RunsAreWhole'
  BY <1>2, <1>3 DEF StoreInv, RunsAreWhole
<1> QED BY <1>1, <1>2, <1>3, <1>4

(* The invariant when a run stops. *)
LEMMA AbandonKeepsStoreInv ==
  ASSUME StoreInv, NEW r \in Runs, Abandon(r)
  PROVE  StoreInv'
<1> USE DEF StoreInv
<1>1. /\ pc[r] = "collect" /\ pc' = [pc EXCEPT ![r] = "abandoned"]
      /\ UNCHANGED <<byDataset, lists, analysis, recorded, held, readers>>
  BY DEF Abandon, At, store
<1>2. /\ Owned' /\ RunsAreWhole'
      /\ \A d \in Datasets : View(d)' = View(d)
      /\ \A u \in Runs : Evidence(u)' = Evidence(u)
  BY <1>1, StoreStays
<1>3. TypeOK'
  <2>1. pc' \in [Runs -> {"collect", "append", "abandoned"}]
    BY <1>1 DEF TypeOK
  <2>2. \A u \in Runs : pc'[u] = "append" => pc[u] = "append"
    BY <1>1 DEF TypeOK
  <2> QED BY <1>1, <1>2, <2>1, <2>2 DEF TypeOK, readers
<1>4. \A d \in Datasets : IsPrefix(View(d), View(d)')
  BY <1>2, ViewIsSequence, PrefixIsReflexive
<1>5. \A u \in Runs : IsPrefix(lists[u], lists'[u])
  BY <1>1, PrefixIsReflexive DEF TypeOK
<1>6. Reading' /\ Answered' /\ ReadsAreCurrent'
  BY <1>1, <1>3, <1>4, <1>5, ReadersSurvive
<1> QED BY <1>2, <1>3, <1>6

(* A step of one reader is judged by what it leaves that reader with. *)
LEMMA ReaderStep ==
  ASSUME StoreInv, UNCHANGED <<store, writers>>, NEW q \in Readers,
         \A p \in Readers \ {q} :
             /\ asked'[p] = asked[p] /\ source'[p] = source[p]
             /\ position'[p] = position[p] /\ result'[p] = result[p] /\ due'[p] = due[p],
         asked' \in [Readers -> [kind : {"none", "column", "answered"},
                                 dataset : Datasets \cup {Nobody}, column : Names]],
         source' \in [Readers -> Runs \cup {Nobody}],
         position' \in [Readers -> Nat],
         result' \in [Readers -> Seq(Items)],
         due' \in [Readers -> Seq(Items)],
         asked'[q].kind = "column" =>
             /\ asked'[q].dataset \in Datasets /\ asked'[q].column \in Columns
             /\ source'[q] # Nobody => source'[q] = byDataset[asked'[q].dataset]
             /\ position'[q] <= Len(Source(q)')
             /\ IsPrefix(due'[q], Source(q)')
             /\ IsSelection(result'[q], Source(q)', position'[q], asked'[q].column),
         asked'[q].kind = "answered" =>
             /\ asked'[q].dataset \in Datasets
             /\ IsPrefix(due'[q], View(asked'[q].dataset))
             /\ \E n \in Len(due'[q]) .. Len(View(asked'[q].dataset)) :
                   IsSelection(result'[q], View(asked'[q].dataset), n, asked'[q].column)
  PROVE  StoreInv'
<1> USE DEF StoreInv
<1>1. UNCHANGED <<byDataset, lists, analysis, pc, recorded, held>>
  BY DEF store, writers
<1>2. Owned' /\ RunsAreWhole' /\ \A u \in Runs : Evidence(u)' = Evidence(u)
  BY <1>1, StoreStays
<1>3. \A d : View(d)' = View(d)
  BY <1>1 DEF View
<1>4. TypeOK'
  BY <1>1, <1>2 DEF TypeOK
<1>5. \A p \in Readers \ {q} : Source(p)' = Source(p)
  BY <1>1 DEF Source
<1>6. Reading'
  <2> SUFFICES ASSUME NEW p \in Readers, asked'[p].kind = "column"
               PROVE  /\ asked'[p].dataset \in Datasets /\ asked'[p].column \in Columns
                      /\ source'[p] # Nobody => source'[p] = byDataset[asked'[p].dataset]
                      /\ position'[p] <= Len(Source(p)')
                      /\ IsPrefix(due'[p], Source(p)')
                      /\ IsSelection(result'[p], Source(p)', position'[p], asked'[p].column)
    BY <1>1 DEF Reading
  <2>1. CASE p = q
    BY <2>1
  <2>2. CASE p # q
    <3>1. /\ asked'[p] = asked[p] /\ source'[p] = source[p]
          /\ position'[p] = position[p] /\ result'[p] = result[p] /\ due'[p] = due[p]
          /\ Source(p)' = Source(p)
      BY <1>5, <2>2
    <3>2. /\ asked[p].dataset \in Datasets /\ asked[p].column \in Columns
          /\ source[p] # Nobody => source[p] = byDataset[asked[p].dataset]
          /\ position[p] <= Len(Source(p))
          /\ IsPrefix(due[p], Source(p))
          /\ IsSelection(result[p], Source(p), position[p], asked[p].column)
      BY <3>1 DEF Reading
    <3> QED BY <3>1, <3>2
  <2> QED BY <2>1, <2>2
<1>7. Answered'
  BY DEF Answered
<1>8. ReadsAreCurrent'
  BY <1>3 DEF ReadsAreCurrent
<1> QED BY <1>2, <1>4, <1>6, <1>7, <1>8

(* What is selected from nothing. *)
LEMMA EmptySelection ==
  ASSUME NEW all, NEW c
  PROVE  IsSelection(<<>>, all, 0, c)
  BY DEF IsSelection

(* The whole list is what is about the whole table and all columns. *)
LEMMA WholeSelection ==
  ASSUME NEW all \in Seq(Items)
  PROVE  IsSelection(all, all, Len(all), WholeTable)
<1>1. DOMAIN all = 1 .. Len(all) OBVIOUS
<1>2. {m \in 1 .. Len(all) : WholeTable \in {WholeTable, all[m].column}} = 1 .. Len(all)
  OBVIOUS
<1> QED BY <1>1, <1>2 DEF IsSelection

(* The invariant under for_dataset. *)
LEMMA ForDatasetKeepsStoreInv ==
  ASSUME StoreInv, NEW q \in Readers, ForDataset(q)
  PROVE  StoreInv'
<1> USE DEF StoreInv
<1>1. PICK d \in Datasets :
         /\ asked' = [asked EXCEPT ![q] =
               [kind |-> "answered", dataset |-> d, column |-> WholeTable]]
         /\ due' = [due EXCEPT ![q] = View(d)]
         /\ result' = [result EXCEPT ![q] = View(d)]
  BY DEF ForDataset, Asks
<1>2. UNCHANGED <<store, writers, source, position>>
  BY DEF ForDataset, Asks
<1>3. View(d) \in Seq(Items)
  BY ViewIsSequence
<1>4. /\ asked' \in [Readers -> [kind : {"none", "column", "answered"},
                                 dataset : Datasets \cup {Nobody}, column : Names]]
      /\ asked'[q] = [kind |-> "answered", dataset |-> d, column |-> WholeTable]
  BY <1>1 DEF TypeOK, Names
<1>5. /\ result' \in [Readers -> Seq(Items)] /\ result'[q] = View(d)
      /\ due' \in [Readers -> Seq(Items)] /\ due'[q] = View(d)
  BY <1>1, <1>3 DEF TypeOK
<1>6. source' \in [Readers -> Runs \cup {Nobody}] /\ position' \in [Readers -> Nat]
  BY <1>2 DEF TypeOK
<1>7. \A p \in Readers \ {q} :
         /\ asked'[p] = asked[p] /\ source'[p] = source[p]
         /\ position'[p] = position[p] /\ result'[p] = result[p] /\ due'[p] = due[p]
  BY <1>1, <1>2 DEF TypeOK
<1>8. IsPrefix(View(d), View(d)) /\ IsSelection(View(d), View(d), Len(View(d)), WholeTable)
  BY <1>3, PrefixIsReflexive, WholeSelection
<1>9. Len(View(d)) \in Len(View(d)) .. Len(View(d))
  BY <1>3
<1>10. \E n \in Len(due'[q]) .. Len(View(asked'[q].dataset)) :
           IsSelection(result'[q], View(asked'[q].dataset), n, asked'[q].column)
  BY <1>4, <1>5, <1>8, <1>9
<1>11. asked'[q].kind # "column" /\ asked'[q].dataset = d
  BY <1>4
<1> QED BY <1>2, <1>4, <1>5, <1>6, <1>7, <1>8, <1>10, <1>11, ReaderStep

(* The invariant when for_column begins. *)
LEMMA ForColumnKeepsStoreInv ==
  ASSUME StoreInv, NEW q \in Readers, ForColumn(q)
  PROVE  StoreInv'
<1> USE DEF StoreInv
<1>1. PICK d \in Datasets, c \in Columns :
         /\ asked' = [asked EXCEPT ![q] = [kind |-> "column", dataset |-> d, column |-> c]]
         /\ due' = [due EXCEPT ![q] = View(d)]
         /\ source' = [source EXCEPT ![q] = byDataset[d]]
         /\ position' = [position EXCEPT ![q] = 0]
         /\ result' = [result EXCEPT ![q] = <<>>]
         /\ UNCHANGED <<store, writers>>
  BY DEF ForColumn, Asks
<1>2. View(d) \in Seq(Items)
  BY ViewIsSequence
<1>3. /\ asked' \in [Readers -> [kind : {"none", "column", "answered"},
                                 dataset : Datasets \cup {Nobody}, column : Names]]
      /\ asked'[q] = [kind |-> "column", dataset |-> d, column |-> c]
  BY <1>1 DEF TypeOK, Names
<1>4. /\ result' \in [Readers -> Seq(Items)] /\ result'[q] = <<>>
      /\ due' \in [Readers -> Seq(Items)] /\ due'[q] = View(d)
  BY <1>1, <1>2 DEF TypeOK
<1>5. /\ source' \in [Readers -> Runs \cup {Nobody}] /\ source'[q] = byDataset[d]
      /\ position' \in [Readers -> Nat] /\ position'[q] = 0
  BY <1>1 DEF TypeOK
<1>6. Source(q)' = View(d)
  BY <1>1, <1>5 DEF Source, View, store
<1>7. \A p \in Readers \ {q} :
         /\ asked'[p] = asked[p] /\ source'[p] = source[p]
         /\ position'[p] = position[p] /\ result'[p] = result[p] /\ due'[p] = due[p]
  BY <1>1 DEF TypeOK
<1>8. /\ IsPrefix(View(d), View(d)) /\ IsSelection(<<>>, View(d), 0, c)
      /\ 0 <= Len(View(d))
  BY <1>2, PrefixIsReflexive, EmptySelection
<1> QED BY <1>1, <1>3, <1>4, <1>5, <1>6, <1>7, <1>8, ReaderStep

(* The invariant under a step of for_column. *)
LEMMA IterateKeepsStoreInv ==
  ASSUME StoreInv, NEW q \in Readers, Iterate(q)
  PROVE  StoreInv'
<1> USE DEF StoreInv
<1> DEFINE item == Source(q)[position[q] + 1]
           c    == asked[q].column
<1>1. /\ asked[q].kind = "column" /\ position[q] < Len(Source(q))
      /\ position' = [position EXCEPT ![q] = @ + 1]
      /\ UNCHANGED <<store, writers, asked, source, due>>
  BY DEF Iterate
<1>2. position'[q] = position[q] + 1 /\ position[q] \in Nat
  BY <1>1 DEF TypeOK
<1>3. result' = [result EXCEPT ![q] = IF IsOfColumn(item, c) THEN Append(@, item) ELSE @]
  <2>1. LET next == Source(q)[position'[q]] IN
        result' = [result EXCEPT ![q] = IF IsOfColumn(next, c) THEN Append(@, next) ELSE @]
    BY DEF Iterate
  <2> QED BY <1>2, <2>1
<1>4. /\ asked[q].dataset \in Datasets
      /\ source[q] # Nobody => source[q] = byDataset[asked[q].dataset]
      /\ IsPrefix(due[q], Source(q))
      /\ IsSelection(result[q], Source(q), position[q], c)
  BY <1>1 DEF Reading
<1>5. Source(q) \in Seq(Items)
  BY DEF Source, TypeOK
<1>6. Source(q)' = Source(q)
  BY <1>1 DEF Source, store
<1>7. position[q] + 1 <= Len(Source(q)) /\ item \in Items
  BY <1>1, <1>2, <1>5
<1> HIDE DEF item
<1>8. /\ position' \in [Readers -> Nat]
      /\ result' \in [Readers -> Seq(Items)]
      /\ result'[q] = IF IsOfColumn(item, c) THEN Append(result[q], item) ELSE result[q]
  <2>1. result[q] \in Seq(Items) /\ Append(result[q], item) \in Seq(Items)
    BY <1>7 DEF TypeOK
  <2> QED BY <1>1, <1>3, <2>1 DEF TypeOK
<1>9. IsSelection(result'[q], Source(q), position[q] + 1, c)
  <2>1. c \in Columns
    BY <1>1 DEF Reading
  <2>2. result[q] \in Seq(Items)
    BY DEF TypeOK
  <2> QED BY <1>2, <1>4, <1>5, <1>7, <1>8, <2>1, <2>2, SelectionGrows DEF item
<1>10. \A p \in Readers \ {q} :
          /\ asked'[p] = asked[p] /\ source'[p] = source[p]
          /\ position'[p] = position[p] /\ result'[p] = result[p] /\ due'[p] = due[p]
  BY <1>1, <1>3 DEF TypeOK
<1>11. /\ asked' \in [Readers -> [kind : {"none", "column", "answered"},
                                  dataset : Datasets \cup {Nobody}, column : Names]]
       /\ source' \in [Readers -> Runs \cup {Nobody}]
       /\ due' \in [Readers -> Seq(Items)]
  BY <1>1 DEF TypeOK
<1>12. asked'[q].kind # "answered" /\ asked'[q].column \in Columns
  BY <1>1 DEF Reading
<1>13. /\ asked'[q].dataset \in Datasets
       /\ source'[q] # Nobody => source'[q] = byDataset[asked'[q].dataset]
       /\ position'[q] <= Len(Source(q)')
       /\ IsPrefix(due'[q], Source(q)')
       /\ IsSelection(result'[q], Source(q)', position'[q], asked'[q].column)
  BY <1>1, <1>2, <1>4, <1>6, <1>7, <1>9
<1>14. UNCHANGED <<store, writers>>
  BY <1>1
<1> HIDE DEF c
<1> QED BY <1>8, <1>10, <1>11, <1>12, <1>13, <1>14, ReaderStep

(* The invariant when for_column returns. *)
LEMMA ExhaustedKeepsStoreInv ==
  ASSUME StoreInv, NEW q \in Readers, Exhausted(q)
  PROVE  StoreInv'
<1> USE DEF StoreInv
<1>1. /\ asked[q].kind = "column" /\ position[q] = Len(Source(q))
      /\ asked' = [asked EXCEPT ![q].kind = "answered"]
      /\ UNCHANGED <<store, writers, source, position, result, due>>
  BY DEF Exhausted
<1> DEFINE d == asked[q].dataset
           c == asked[q].column
<1>2. /\ d \in Datasets
      /\ source[q] # Nobody => source[q] = byDataset[d]
      /\ IsPrefix(due[q], Source(q))
      /\ IsSelection(result[q], Source(q), position[q], c)
  BY <1>1 DEF Reading
<1>3. /\ asked' \in [Readers -> [kind : {"none", "column", "answered"},
                                 dataset : Datasets \cup {Nobody}, column : Names]]
      /\ asked'[q].kind = "answered" /\ asked'[q].dataset = d /\ asked'[q].column = c
  BY <1>1 DEF TypeOK
<1>4. /\ View(d) \in Seq(Items) /\ Source(q) \in Seq(Items) /\ due[q] \in Seq(Items)
      /\ position[q] \in Nat
  BY <1>2, ViewIsSequence DEF Source, TypeOK
<1>5. IsPrefix(Source(q), View(d))
  <2>1. CASE source[q] = Nobody
    <3>1. Source(q) = <<>> BY <2>1 DEF Source
    <3>2. Len(<<>>) <= Len(View(d)) /\ \A k \in 1 .. Len(<<>>) : <<>>[k] = View(d)[k]
      BY <1>4
    <3> QED BY <1>4, <3>1, <3>2, PrefixIsSameItems
  <2>2. CASE source[q] # Nobody
    <3>1. Source(q) = View(d) BY <1>2, <2>2 DEF Source, View
    <3> QED BY <1>4, <3>1, PrefixIsReflexive
  <2> QED BY <2>1, <2>2
<1>6. IsPrefix(due[q], View(d))
  BY <1>2, <1>4, <1>5, PrefixIsTransitive
<1>7. IsSelection(result[q], View(d), position[q], c)
  BY <1>1, <1>2, <1>4, <1>5, SelectionStays
<1>8. position[q] \in Len(due[q]) .. Len(View(d))
  <2>1. Len(due[q]) <= Len(Source(q)) /\ Len(Source(q)) <= Len(View(d))
    BY <1>2, <1>4, <1>5, PrefixIsSameItems
  <2> QED BY <1>1, <1>4, <2>1
<1> HIDE DEF d, c
<1>9. /\ due'[q] = due[q] /\ result'[q] = result[q]
      /\ \A p \in Readers \ {q} :
            /\ asked'[p] = asked[p] /\ source'[p] = source[p]
            /\ position'[p] = position[p] /\ result'[p] = result[p] /\ due'[p] = due[p]
  BY <1>1 DEF TypeOK
<1>10. /\ source' \in [Readers -> Runs \cup {Nobody}] /\ position' \in [Readers -> Nat]
       /\ result' \in [Readers -> Seq(Items)] /\ due' \in [Readers -> Seq(Items)]
  BY <1>1 DEF TypeOK
<1>11. \E n \in Len(due'[q]) .. Len(View(asked'[q].dataset)) :
           IsSelection(result'[q], View(asked'[q].dataset), n, asked'[q].column)
  BY <1>3, <1>7, <1>8, <1>9
<1> QED BY <1>1, <1>2, <1>3, <1>6, <1>9, <1>10, <1>11, ReaderStep

-----------------------------------------------------------------------------
(* The properties. *)

(* Every step keeps the invariant. *)
LEMMA NextKeepsStoreInv == StoreInv /\ [Next]_vars => StoreInv'
<1> SUFFICES ASSUME StoreInv, [Next]_vars PROVE StoreInv' OBVIOUS
<1>1. CASE UNCHANGED vars
  <2>1. UNCHANGED <<byDataset, lists, analysis, pc, recorded, held>>
    BY <1>1 DEF vars, store, writers
  <2>2. UNCHANGED <<asked, source, position, result, due>>
    BY <1>1 DEF vars, readers
  <2>3. /\ Owned' /\ RunsAreWhole'
        /\ \A u \in Runs : Evidence(u)' = Evidence(u)
    BY <2>1, StoreStays
  <2>4. \A d : View(d)' = View(d)
    BY <2>1 DEF View
  <2>5. \A q : Source(q)' = Source(q)
    BY <2>1, <2>2 DEF Source
  <2>6. TypeOK'
    BY <2>1, <2>2, <2>3 DEF StoreInv, TypeOK
  <2>7. Reading' /\ Answered' /\ ReadsAreCurrent'
    BY <2>1, <2>2, <2>4, <2>5 DEF StoreInv, Reading, Answered, ReadsAreCurrent
  <2> QED BY <2>3, <2>6, <2>7 DEF StoreInv
<1>2. ASSUME NEW r \in Runs, SetDefault(r) \/ AppendItem(r) \/ Abandon(r)
      PROVE  StoreInv'
    BY <1>2, SetDefaultKeepsStoreInv, AppendItemKeepsStoreInv,
      AbandonKeepsStoreInv
<1>3. ASSUME NEW q \in Readers, ForDataset(q) \/ ForColumn(q) \/ Iterate(q) \/ Exhausted(q)
      PROVE  StoreInv'
    BY <1>3, ForDatasetKeepsStoreInv, ForColumnKeepsStoreInv,
      IterateKeepsStoreInv,
     ExhaustedKeepsStoreInv
<1> QED BY <1>1, <1>2, <1>3 DEF Next

(* The invariant holds in every behaviour. *)
THEOREM StoreInvariance == Spec => []StoreInv
<1> QED BY InitEstablishesStoreInv, NextKeepsStoreInv, PTL DEF Spec

(* Every variable has its type, and a run appends to the list of its       *)
(* dataset only (in_memory_evidence_store.py, record).                     *)
THEOREM TypeCorrectness == Spec => []TypeOK
<1>1. StoreInv => TypeOK BY DEF StoreInv
<1> QED BY <1>1, StoreInvariance, PTL

(* The evidence of a dataset holds what each of its runs recorded, once    *)
(* and in order, for any number of runs that interleave (record).          *)
THEOREM WholeRuns == Spec => []RunsAreWhole
<1>1. StoreInv => RunsAreWhole BY DEF StoreInv
<1> QED BY <1>1, StoreInvariance, PTL

(* A read during any number of recordings returns what was the answer at   *)
(* some moment of the call (for_dataset, for_column).                      *)
THEOREM CurrentReads == Spec => []ReadsAreCurrent
<1>1. StoreInv => ReadsAreCurrent BY DEF StoreInv
<1> QED BY <1>1, StoreInvariance, PTL

(* Recorded evidence is never replaced, removed or moved by any step.      *)
THEOREM AppendOnly == Spec => HistoryOnlyGrows
<1>1. ASSUME StoreInv, [Next]_vars, NEW d \in Datasets
      PROVE  IsPrefix(View(d), View(d)')
  <2>1. View(d) \in Seq(Items)
    BY <1>1, ViewIsSequence DEF StoreInv
  <2>2. CASE View(d)' = View(d)
    BY <2>1, <2>2, PrefixIsReflexive
  <2>3. ASSUME NEW r \in Runs, AppendItem(r)
        PROVE  IsPrefix(View(d), View(d)')
      BY <1>1, <2>1, <2>3, AppendItemExtendsView, PrefixIsReflexive,
        AppendIsPrefix
  <2>4. ASSUME NEW r \in Runs, SetDefault(r)
        PROVE  View(d)' = View(d)
    BY <1>1, <2>4, SetDefaultKeepsViews
  <2>5. ASSUME NEW r \in Runs, Abandon(r)
        PROVE  View(d)' = View(d)
    BY <2>5 DEF Abandon, store, View
  <2>6. ASSUME NEW q \in Readers,
               ForDataset(q) \/ ForColumn(q) \/ Iterate(q) \/ Exhausted(q)
        PROVE  View(d)' = View(d)
    BY <2>6 DEF ForDataset, ForColumn, Iterate, Exhausted, Asks, store, View
  <2>7. CASE UNCHANGED vars
    BY <2>2, <2>7 DEF vars, store, View
  <2> QED BY <1>1, <2>2, <2>3, <2>4, <2>5, <2>6, <2>7 DEF Next
<1>2. StoreInv /\ [Next]_vars => [\A d \in Datasets : IsPrefix(View(d), View(d)')]_vars
  BY <1>1
<1> QED BY <1>2, StoreInvariance, PTL DEF Spec, HistoryOnlyGrows

-----------------------------------------------------------------------------
(* Confidence. *)

(* A higher score never has a lower level: the thresholds are tested in    *)
(* the right order and leave no gap (from_score).                          *)
THEOREM ScoresAreMonotone ==
    ASSUME NEW unit \in Nat \ {0}, NEW low \in Int, NEW high \in Int,
           InRange(low, unit), InRange(high, unit), low <= high
    PROVE  Rank[FromScore(low, unit)] <= Rank[FromScore(high, unit)]
<1> DEFINE L == FromScore(low, unit)
           H == FromScore(high, unit)
<1>1. CASE AtLeast(high, 85, unit)
  <2>1. H = "HIGH"
    BY <1>1 DEF FromScore
  <2>2. L \in Levels
    BY DEF FromScore, Levels
  <2>3. QED
    BY <2>1, <2>2 DEF Rank, Levels
<1>2. CASE ~AtLeast(high, 85, unit) /\ AtLeast(high, 60, unit)
  <2>1. ~AtLeast(low, 85, unit)
    BY <1>2 DEF AtLeast
  <2>2. H = "MEDIUM" /\ L \in {"MEDIUM", "LOW", "SPECULATIVE"}
    BY <1>2, <2>1 DEF FromScore
  <2>3. QED
    BY <2>2 DEF Rank, Levels
<1>3. CASE ~AtLeast(high, 85, unit) /\ ~AtLeast(high, 60, unit) /\ AtLeast(high, 35, unit)
  <2>1. ~AtLeast(low, 85, unit) /\ ~AtLeast(low, 60, unit)
    BY <1>3 DEF AtLeast
  <2>2. H = "LOW" /\ L \in {"LOW", "SPECULATIVE"}
    BY <1>3, <2>1 DEF FromScore
  <2>3. QED
    BY <2>2 DEF Rank, Levels
<1>4. CASE ~AtLeast(high, 85, unit) /\ ~AtLeast(high, 60, unit) /\ ~AtLeast(high, 35, unit)
  <2>1. /\ ~AtLeast(low, 85, unit)
        /\ ~AtLeast(low, 60, unit)
        /\ ~AtLeast(low, 35, unit)
    BY <1>4 DEF AtLeast
  <2>2. H = "SPECULATIVE" /\ L = "SPECULATIVE"
    BY <1>4, <2>1 DEF FromScore
  <2>3. QED
    BY <2>2 DEF Rank, Levels
<1>5. QED
  BY <1>1, <1>2, <1>3, <1>4

(* That Athena declines to classify is never the level of a score, not     *)
(* even of the lowest (insufficient).                                      *)
THEOREM DecliningIsNoScore ==
    ASSUME NEW unit \in Nat \ {0}, NEW score \in Int
    PROVE  /\ FromScore(score, unit) # Insufficient.level
           /\ InRange(score, unit) => FromScore(score, unit) \in Levels \ {"INSUFFICIENT"}
  BY DEF FromScore, Insufficient, Levels
=============================================================================
