----------------------------- MODULE EvidenceStore -----------------------------
(***************************************************************************)
(* InMemoryEvidenceStore (in_memory_evidence_store.py): one list of        *)
(* evidence per dataset, shared by the analysis runs of a process.  A run  *)
(* records what DatasetProfiler.collect_evidence gave it item by item, and *)
(* may stop in the middle; others record and read meanwhile.               *)
(*                                                                         *)
(* The store has no lock.  record is two steps, dict.setdefault and        *)
(* list.append, each of which the interpreter does at once.  for_dataset   *)
(* copies a list at once; for_column goes through it item by item while it *)
(* may grow.  A list is named by the run that brought it.                  *)
(***************************************************************************)
EXTENDS Naturals, Sequences, SequencesExt

CONSTANTS
    Runs,                 \* analysis runs
    Readers,              \* those who ask for evidence
    Datasets,
    Columns,              \* column names
    WholeTable,           \* column_name = None
    Nobody,               \* no list
    MaxItems              \* bounds the evidence of one run

ASSUME WholeTableAssumption == WholeTable \notin Columns
ASSUME NobodyAssumption     == Nobody \notin Runs
ASSUME MaxItemsAssumption   == MaxItems \in Nat

VARIABLES
    byDataset,            \* _by_dataset[d]: the run that brought d's list
    lists,                \* the lists
    analysis,             \* analysis[r]: the dataset and the evidence of r
    pc,                   \* pc[r]: what r does
    recorded,             \* recorded[r]: how much of its evidence r has recorded
    held,                 \* held[r]: the list setdefault gave r
    asked,                \* asked[q]: the dataset and column q asks for
    source,               \* source[q]: the list q goes through
    position,             \* position[q]: how far q is
    result,               \* result[q]: what q has found
    due                   \* history: due[q]: the evidence when q asked

store   == <<byDataset, lists>>
writers == <<analysis, pc, recorded, held>>
readers == <<asked, source, position, result, due>>
vars    == <<store, writers, readers>>

Names == Columns \cup {WholeTable}

(* An item is the k-th of its run, about a column or the whole table. *)
Items == [run : Runs, k : 1 .. MaxItems, column : Names]

Evidence(r) ==
    [k \in DOMAIN analysis[r].columns |->
        [run |-> r, k |-> k, column |-> analysis[r].columns[k]]]

View(d) == IF byDataset[d] = Nobody THEN <<>> ELSE lists[byDataset[d]]

Analyses ==
    [dataset : Datasets, columns : UNION {[1 .. n -> Names] : n \in 1 .. MaxItems}]

NoQuestion == [kind |-> "none", dataset |-> Nobody, column |-> WholeTable]

Init ==
    /\ byDataset = [d \in Datasets |-> Nobody]
    /\ lists     = [r \in Runs |-> <<>>]
    /\ analysis \in [Runs -> Analyses]
    /\ pc        = [r \in Runs |-> "collect"]
    /\ recorded  = [r \in Runs |-> 0]
    /\ held      = [r \in Runs |-> Nobody]
    /\ asked     = [q \in Readers |-> NoQuestion]
    /\ source    = [q \in Readers |-> Nobody]
    /\ position  = [q \in Readers |-> 0]
    /\ result    = [q \in Readers |-> <<>>]
    /\ due       = [q \in Readers |-> <<>>]

-----------------------------------------------------------------------------
(* Analysis runs. *)

At(r, label, next) == pc[r] = label /\ pc' = [pc EXCEPT ![r] = next]

(* record begins: the list of the item's dataset, or a new one. *)
SetDefault(r) ==
    LET d == analysis[r].dataset IN
    /\ At(r, "collect", "append")
    /\ recorded[r] < Len(Evidence(r))
    /\ byDataset' = [byDataset EXCEPT ![d] = IF @ = Nobody THEN r ELSE @]
    /\ held' = [held EXCEPT ![r] = byDataset'[d]]
    /\ UNCHANGED <<lists, analysis, recorded, readers>>

(* Fault: the dictionary gets a longer copy of the list. *)
AppendCopies(r) ==
    /\ At(r, "append", "collect")
    /\ recorded' = [recorded EXCEPT ![r] = @ + 1]
    /\ lists' = [lists EXCEPT ![r] = Append(lists[held[r]], Evidence(r)[recorded'[r]])]
    /\ byDataset' = [byDataset EXCEPT ![analysis[r].dataset] = r]
    /\ UNCHANGED <<analysis, held, readers>>

(* Fault: the newest evidence comes first. *)
AppendInFront(r) ==
    /\ At(r, "append", "collect")
    /\ recorded' = [recorded EXCEPT ![r] = @ + 1]
    /\ lists' = [lists EXCEPT ![held[r]] = <<Evidence(r)[recorded'[r]]>> \o @]
    /\ UNCHANGED <<byDataset, analysis, held, readers>>

(* record ends. *)
AppendItem(r) ==
    /\ At(r, "append", "collect")
    /\ recorded' = [recorded EXCEPT ![r] = @ + 1]
    /\ lists' = [lists EXCEPT ![held[r]] = Append(@, Evidence(r)[recorded'[r]])]
    /\ UNCHANGED <<byDataset, analysis, held, readers>>

(* The run fails between two items; what it has recorded stays. *)
Abandon(r) ==
    /\ At(r, "collect", "abandoned")
    /\ UNCHANGED <<store, analysis, recorded, held, readers>>

-----------------------------------------------------------------------------
(* Readers. *)

Asks(q, kind, d, c) ==
    /\ asked[q].kind \in {"none", "answered"}
    /\ asked' = [asked EXCEPT ![q] = [kind |-> kind, dataset |-> d, column |-> c]]
    /\ due' = [due EXCEPT ![q] = View(d)]
    /\ UNCHANGED <<store, writers>>

ForDataset(q) ==
    /\ \E d \in Datasets :
          /\ Asks(q, "answered", d, WholeTable)
          /\ result' = [result EXCEPT ![q] = View(d)]
    /\ UNCHANGED <<source, position>>

(* for_column evaluates the list of the dataset once, or the empty tuple. *)
ForColumn(q) ==
    \E d \in Datasets, c \in Columns :
        /\ Asks(q, "column", d, c)
        /\ source' = [source EXCEPT ![q] = byDataset[d]]
        /\ position' = [position EXCEPT ![q] = 0]
        /\ result' = [result EXCEPT ![q] = <<>>]

(* Fault: evidence about the whole table is taken as about every column. *)
IsOfAnyColumn(item, c) == item.column \in {c, WholeTable}

IsOfColumn(item, c) == item.column = c

Source(q) == IF source[q] = Nobody THEN <<>> ELSE lists[source[q]]

(* The iterator takes the next item, as long as there is one now. *)
Iterate(q) ==
    /\ asked[q].kind = "column"
    /\ position[q] < Len(Source(q))
    /\ position' = [position EXCEPT ![q] = @ + 1]
    /\ LET item == Source(q)[position'[q]] IN
       result' = [result EXCEPT ![q] =
                     IF IsOfColumn(item, asked[q].column) THEN Append(@, item) ELSE @]
    /\ UNCHANGED <<store, writers, asked, source, due>>

Exhausted(q) ==
    /\ asked[q].kind = "column"
    /\ position[q] = Len(Source(q))
    /\ asked' = [asked EXCEPT ![q].kind = "answered"]
    /\ UNCHANGED <<store, writers, source, position, result, due>>

Next ==
    \/ \E r \in Runs : SetDefault(r) \/ AppendItem(r) \/ Abandon(r)
    \/ \E q \in Readers : ForDataset(q) \/ ForColumn(q) \/ Iterate(q) \/ Exhausted(q)

Spec == Init /\ [][Next]_vars

-----------------------------------------------------------------------------
(* Properties. *)

(* Every variable has its type, and a list that a run was given is that of *)
(* its dataset.                                                            *)
TypeOK ==
    /\ byDataset \in [Datasets -> Runs \cup {Nobody}]
    /\ lists \in [Runs -> Seq(Items)]
    /\ analysis \in [Runs -> Analyses]
    /\ pc \in [Runs -> {"collect", "append", "abandoned"}]
    /\ recorded \in [Runs -> 0 .. MaxItems]
    /\ held \in [Runs -> Runs \cup {Nobody}]
    /\ \A r \in Runs : pc[r] = "append" =>
          /\ held[r] = byDataset[analysis[r].dataset] /\ held[r] # Nobody
          /\ recorded[r] < Len(Evidence(r))
    /\ asked \in [Readers -> [kind : {"none", "column", "answered"},
                              dataset : Datasets \cup {Nobody}, column : Names]]
    /\ source \in [Readers -> Runs \cup {Nobody}]
    /\ position \in [Readers -> Nat]
    /\ result \in [Readers -> Seq(Items)]
    /\ due \in [Readers -> Seq(Items)]

(* Nothing recorded is ever replaced, removed or moved: for_dataset only   *)
(* ever gets longer (evidence_store.py, EvidenceStore).                    *)
HistoryOnlyGrows == [][\A d \in Datasets : IsPrefix(View(d), View(d)')]_vars

(* A dataset's evidence holds of each of its runs what that run recorded,  *)
(* once and in the order of recording, and nothing of the runs of another, *)
(* however the runs take turns and wherever one of them stops.             *)
RunsAreWhole ==
    \A r \in Runs, d \in Datasets :
        LET all  == View(d)
            mine == {n \in DOMAIN all : all[n].run = r}
        IN  /\ {all[n] : n \in mine}
                  = IF d = analysis[r].dataset
                    THEN {Evidence(r)[k] : k \in 1 .. recorded[r]} ELSE {}
            /\ \A m, n \in mine : m < n => all[m].k < all[n].k

(* Those of the first n items of `all' that are about column c, in order.  *)
IsSelection(items, all, n, c) ==
    /\ {items[k] : k \in DOMAIN items}
          = {all[m] : m \in {m \in 1 .. n : c \in {WholeTable, all[m].column}}}
    /\ \A k, m \in DOMAIN items :
          k < m => \E i, j \in 1 .. n : i < j /\ all[i] = items[k] /\ all[j] = items[m]

(* What a read returns was the whole answer at some moment of the call: it *)
(* has what was recorded when the call began, and what it has besides was  *)
(* recorded next.  Evidence of a column is never that of the whole table.  *)
ReadsAreCurrent ==
    \A q \in Readers :
        asked[q].kind = "answered" =>
            LET all == View(asked[q].dataset)
            IN  /\ IsPrefix(due[q], all)
                /\ \E n \in Len(due[q]) .. Len(all) :
                      IsSelection(result[q], all, n, asked[q].column)
=============================================================================
