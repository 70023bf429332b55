---------------------------- MODULE ExampleScripts ----------------------------
(***************************************************************************)
(* The six programs of examples/: each takes references to datasets from   *)
(* its command line, or finds one, then loads, profiles or queries it and  *)
(* prints what it got.  A domain error ends a program with a message, any  *)
(* other exception with a traceback.                                       *)
(*                                                                         *)
(* The owner of the files changes them while a program runs: between the   *)
(* moment it looks for a file and the moment it loads it, and within a     *)
(* load, which reads the file twice, once to describe it (its size and     *)
(* digest) and once to parse it.                                           *)
(* How loads and queries come to fail is the subject of AssetLoading and   *)
(* DuckDBQueryEngine.  There are no symbolic links among the files.        *)
(***************************************************************************)
EXTENDS Naturals, Sequences

CONSTANTS
    Paths,                \* records: directory, extension, rank in path order
    Defaults,             \* DEFAULT_DATASETS, a sequence of paths
    Absolute,             \* any absolute path on a command line
    MaxIterations,        \* bounds --iterations
    MaxChanges            \* bounds the owner's changes

ASSUME AbsoluteAssumption == Absolute \notin Paths
ASSUME DefaultsAssumption == Defaults \in Seq(Paths) /\ Defaults # <<>>
ASSUME BoundsAssumption   == MaxIterations \in Nat \ {0} /\ MaxChanges \in Nat

VARIABLES
    files,                \* files[p]: which content p has, 0 if there is no p
    changes,              \* how often the owner changed a file
    script,               \* the program that runs
    at,                   \* which of its stages it has come to
    given,                \* the references on the command line, or the defaults
    unseen,               \* paths that discovery has yet to look at
    found,                \* paths that discovery keeps
    references,           \* storage references to load
    iterations,           \* loads of each reference
    loads,                \* loads of the current reference so far
    asset,                \* the content this load described, 0 before it has
    begun,                \* history: the changes when this load described it
    frame,                \* the content that was parsed last
    results,              \* results so far
    printed,              \* results on the terminal
    outcome,              \* how the program ended
    cause,                \* the exception that ended it
    changed,              \* history: changed[p]: the last of the changes that was of p
    fixed                 \* history: paths that exist since discovery began

disk   == <<files, changes, changed, fixed>>
input  == <<script, given, iterations>>
search == <<unseen, found>>
work   == <<loads, asset, begun, frame, results>>
ending == <<outcome, cause>>
vars   == <<disk, input, at, search, references, work, printed, ending>>

-----------------------------------------------------------------------------
(* The programs.  below: the directories their references may lie in;      *)
(* prints: the stages whose results they print.                            *)

Base == {"FileNotFoundError", "InvalidStorageReferenceError",
         "StorageAssetNotFoundError", "ValueError"}

LoadCsv ==
    [below |-> {"sample/CSV"}, extensions |-> {".csv"}, many |-> FALSE,
     stages |-> <<"parse", "find", "load", "print">>, prints |-> {"load"},
     except |-> Base \cup {"CSVLoadError"}]

LoadExcel ==
    [below |-> {"sample/excel"}, extensions |-> {".xls", ".xlsx"}, many |-> FALSE,
     stages |-> <<"parse", "find", "load", "print">>, prints |-> {"load"},
     except |-> Base \cup {"ExcelLoadError"}]

ProfileDataset ==
    [LoadCsv EXCEPT !.stages = <<"parse", "find", "load", "profile", "print">>,
                    !.prints = {"profile"}]

QueryDataset ==
    [LoadCsv EXCEPT !.stages = <<"parse", "find", "load", "query", "print">>, !.prints = {"query"},
                    !.except = @ \cup {"QueryExecutionError"}]

IntegrationDemo ==
    [QueryDataset EXCEPT
        !.stages = <<"parse", "find", "load", "print", "profile", "print", "query", "print">>,
        !.prints = {"load", "profile", "query"}]

(* Any file under datasets/ may be given to the benchmark, from a directory *)
(* that no other program looks into too; its defaults are in sample/csv.    *)
Benchmark ==
    [below |-> {"sample/CSV", "sample/csv", "sample/excel", "other"},
     extensions |-> {".csv", ".xls", ".xlsx"}, many |-> TRUE,
     stages |-> <<"parse", "find", "load", "print">>, prints |-> {"load"},
     except |-> Base \cup {"CSVLoadError", "ExcelLoadError"}]

Scripts == {LoadCsv, LoadExcel, ProfileDataset, QueryDataset, IntegrationDemo, Benchmark}

(* The exceptions and the classes they belong to (exceptions.py).          *)
Classes(error) ==
    {error} \cup
        CASE error = "StorageAssetNotFoundError" -> {"FileNotFoundError", "OSError"}
          [] error = "FileNotFoundError" -> {"OSError"}
          [] error = "QueryResourceLimitError" -> {"QueryExecutionError", "ValueError"}
          [] error \in {"InvalidStorageReferenceError", "CSVLoadError", "ExcelLoadError",
                        "QueryExecutionError"} -> {"ValueError"}
          [] OTHER -> {}

DomainErrors == {"StorageAssetNotFoundError", "InvalidStorageReferenceError", "CSVLoadError",
                 "ExcelLoadError", "QueryExecutionError", "QueryResourceLimitError"}

(* Fault: only an exception of exactly a named class is caught. *)
HandlesByName(error) == error \in script.except

Handles(error) == script.except \cap Classes(error) # {}

Init ==
    /\ files \in [Paths -> {0, 1}]
    /\ changes = 0
    /\ script \in Scripts
    /\ at = 1
    /\ given = <<>>
    /\ unseen = {} /\ found = {}
    /\ references = <<>>
    /\ iterations = 0 /\ loads = 0
    /\ asset = 0 /\ begun = 0 /\ frame = 0
    /\ results = <<>> /\ printed = <<>>
    /\ outcome = "running" /\ cause = "none"
    /\ changed = [p \in Paths |-> 0] /\ fixed = {}

-----------------------------------------------------------------------------
(* One stage after the other. *)

Doing(stage) ==
    /\ outcome = "running"
    /\ at \in DOMAIN script.stages
    /\ script.stages[at] = stage

Discovering == Doing("find") /\ given = <<>>
Resolving   == Doing("find") /\ given # <<>>

Exists(p) == files[p] # 0

Raise(error) ==
    /\ outcome' = IF Handles(error) THEN "error" ELSE "traceback"
    /\ cause' = error
    /\ UNCHANGED <<disk, input, at, search, references, work, printed>>

(* The owner of the files. *)
Change(p) ==
    /\ changes < MaxChanges
    /\ outcome = "running"
    /\ changes' = changes + 1
    /\ files' \in {[files EXCEPT ![p] = c] : c \in {0, changes + 2} \ {files[p]}}
    /\ changed' = [changed EXCEPT ![p] = changes + 1]
    /\ fixed' = fixed \ {p}
    /\ UNCHANGED <<input, at, search, references, work, printed, ending>>

(* argparse refuses the command line and exits. *)
Usage ==
    /\ Doing("parse")
    /\ outcome' = "usage"
    /\ UNCHANGED <<disk, input, at, search, references, work, printed, cause>>

Below == {p \in Paths : p.directory \in script.below}

(* parse_reference and parse_arguments. *)
Parse ==
    /\ Doing("parse")
    /\ \E n \in 0 .. (IF script.many THEN 2 ELSE 1) :
          given' \in IF script.many /\ n = 0 THEN {Defaults} ELSE [1 .. n -> Paths \cup {Absolute}]
    /\ iterations' \in IF script.many THEN 1 .. MaxIterations ELSE {1}
    /\ at' = at + 1
    /\ unseen' = IF given' = <<>> THEN Below ELSE {}
    /\ fixed' = {p \in unseen' : Exists(p)}
    /\ UNCHANGED <<files, changes, changed, script, found, references, work, printed, ending>>

(* validate_iterations *)
TooFewIterations == Doing("parse") /\ script.many /\ Raise("ValueError")

(* discover_first_csv: rglob comes to the paths in the directory's order,  *)
(* one after the other.                                                    *)
Look(p) ==
    /\ Discovering
    /\ p \in unseen
    /\ unseen' = unseen \ {p}
    /\ found' = IF Exists(p) /\ p.extension \in script.extensions
                THEN found \cup {p} ELSE found
    /\ UNCHANGED <<disk, input, at, references, work, printed, ending>>

(* Fault: the paths are not sorted. *)
AnyFound(p) == p \in found

First(p) == p \in found /\ \A other \in found : p.rank <= other.rank

Discovered ==
    /\ Discovering
    /\ unseen = {}
    /\ \E p \in Paths : First(p) /\ references' = <<p>>
    /\ at' = at + 1
    /\ UNCHANGED <<disk, input, search, work, printed, ending>>

(* No such file, or no directory to begin with. *)
NothingFound ==
    /\ Discovering
    /\ \/ unseen = {} /\ found = {}
       \/ unseen = Below /\ \A p \in Below : ~Exists(p)
    /\ Raise("FileNotFoundError")

(* resolve_reference for the next reference of the command line. *)
Valid(p) ==
    /\ p # Absolute
    /\ p.directory \in script.below
    /\ Exists(p)
    /\ p.extension \in script.extensions

Argument == given[Len(references) + 1]

Resolve ==
    /\ Resolving
    /\ Len(references) < Len(given)
    /\ Valid(Argument)
    /\ references' = Append(references, Argument)
    /\ UNCHANGED <<disk, input, at, search, work, printed, ending>>

Refuse ==
    /\ Resolving
    /\ Len(references) < Len(given)
    /\ ~Valid(Argument)
    /\ Raise(IF Argument \in Below /\ ~Exists(Argument) THEN "FileNotFoundError" ELSE "ValueError")

Resolved ==
    /\ Resolving
    /\ Len(references) = Len(given)
    /\ at' = at + 1
    /\ UNCHANGED <<disk, input, search, references, work, printed, ending>>

(* The program may not look, or a directory is gone while it does. *)
LookupFails ==
    /\ Doing("find")
    /\ \/ Raise("OSError")
       \/ given = <<>> /\ changes # 0 /\ Raise("FileNotFoundError")

Current == references[Len(results) + 1]

(* load begins with describe: the size and the digest of the file.         *)
Describe ==
    /\ Doing("load")
    /\ asset = 0
    /\ Exists(Current)
    /\ asset' = files[Current]
    /\ begun' = changes
    /\ UNCHANGED <<disk, input, at, search, references, loads, frame, results, printed, ending>>

Loaded == [of |-> "load", reference |-> Current, asset |-> asset, content |-> frame',
           begun |-> begun, loads |-> loads + 1]

(* Fault: the program goes on to print after the first reference. *)
LoadOneReference ==
    /\ Doing("load")
    /\ asset # 0
    /\ Exists(Current)
    /\ frame' = files[Current]
    /\ asset' = 0 /\ begun' = 0
    /\ IF loads + 1 < iterations
       THEN loads' = loads + 1 /\ UNCHANGED <<results, at>>
       ELSE /\ loads' = 0
            /\ results' = Append(results, Loaded)
            /\ at' = at + 1
    /\ UNCHANGED <<disk, input, search, references, printed, ending>>

(* Fault: of several loads the first is kept. *)
LoadKeepsFirst ==
    /\ Doing("load")
    /\ asset # 0
    /\ Exists(Current)
    /\ frame' = IF loads = 0 THEN files[Current] ELSE frame
    /\ asset' = 0 /\ begun' = 0
    /\ IF loads + 1 < iterations
       THEN loads' = loads + 1 /\ UNCHANGED <<results, at>>
       ELSE /\ loads' = 0
            /\ results' = Append(results, Loaded)
            /\ at' = IF Len(results') = Len(references) THEN at + 1 ELSE at
    /\ UNCHANGED <<disk, input, search, references, printed, ending>>

(* Then load opens and parses the file, whatever it is by now.             *)
(* benchmark_dataset loads each reference several times and keeps what the *)
(* last load gave.                                                         *)
Load ==
    /\ Doing("load")
    /\ asset # 0
    /\ Exists(Current)
    /\ frame' = files[Current]
    /\ asset' = 0 /\ begun' = 0
    /\ IF loads + 1 < iterations
       THEN loads' = loads + 1 /\ UNCHANGED <<results, at>>
       ELSE /\ loads' = 0
            /\ results' = Append(results, Loaded)
            /\ at' = IF Len(results') = Len(references) THEN at + 1 ELSE at
    /\ UNCHANGED <<disk, input, search, references, printed, ending>>

(* A system call of either part fails; a file that has been changed may be *)
(* lost between two of them.  The parser's exceptions become the error of  *)
(* the loader that get_loader chose, except those it does not translate.   *)
LoadFails ==
    /\ Doing("load")
    /\ \/ Raise("OSError")
       \/ /\ changed[Current] # 0
          /\ \E error \in {"StorageAssetNotFoundError", "InvalidStorageReferenceError",
                           "FileNotFoundError"} : Raise(error)
       \/ asset # 0 /\ Raise("Uncaught")
       \/ asset # 0 /\ Raise(IF Current.extension = ".csv" THEN "CSVLoadError" ELSE "ExcelLoadError")

(* Fault: each use of the dataset loads it again. *)
ComputeAnew(stage) ==
    /\ Doing(stage)
    /\ results' = Append(results,
          [results[1] EXCEPT !.of = stage, !.content = files[references[1]]])
    /\ at' = at + 1
    /\ UNCHANGED <<disk, input, search, references, loads, asset, begun, frame, printed, ending>>

(* DatasetProfiler.profile or DuckDBQueryEngine.execute of what was loaded.*)
Compute(stage) ==
    /\ Doing(stage)
    /\ results' = Append(results, [results[1] EXCEPT !.of = stage, !.content = frame])
    /\ at' = at + 1
    /\ UNCHANGED <<disk, input, search, references, loads, asset, begun, frame, printed, ending>>

ComputeFails(stage) ==
    /\ Doing(stage)
    /\ \/ Raise("Uncaught")
       \/ /\ stage = "query"
          /\ \E error \in {"QueryExecutionError", "QueryResourceLimitError"} : Raise(error)

(* A program that computes something from what it loads may print only     *)
(* that; due is the next of its results to be printed.                     *)
Hidden == IF "load" \in script.prints THEN 0 ELSE Len(references)
Due    == Hidden + Len(printed) + 1

(* display_result, display_profile and display_query_result, one result    *)
(* after the other.                                                        *)
Display ==
    /\ Doing("print")
    /\ Due \in DOMAIN results
    /\ printed' = Append(printed, results[Due])
    /\ UNCHANGED <<disk, input, at, search, references, work, ending>>

Displayed ==
    /\ Doing("print")
    /\ Due \notin DOMAIN results
    /\ at' = at + 1
    /\ UNCHANGED <<disk, input, search, references, work, printed, ending>>

(* The terminal cannot show a character, or is gone. *)
DisplayFails == Doing("print") /\ \E error \in {"ValueError", "OSError"} : Raise(error)

Finish ==
    /\ outcome = "running"
    /\ at \notin DOMAIN script.stages
    /\ outcome' = "success"
    /\ UNCHANGED <<disk, input, at, search, references, work, printed, cause>>

Step ==
    \/ Usage \/ Parse \/ TooFewIterations
    \/ \E p \in Paths : Look(p)
    \/ Discovered \/ NothingFound \/ Resolve \/ Refuse \/ Resolved \/ LookupFails
    \/ Describe \/ Load \/ LoadFails
    \/ \E stage \in {"profile", "query"} : Compute(stage) \/ ComputeFails(stage)
    \/ Display \/ Displayed \/ DisplayFails \/ Finish

Next == Step \/ \E p \in Paths : Change(p)

Spec == Init /\ [][Next]_vars

-----------------------------------------------------------------------------
(* Properties. *)

Results == [of : {"load", "profile", "query"}, reference : Paths,
            asset : Nat, content : Nat, begun : Nat, loads : Nat]

(* Every variable has its type, and loads are counted for one reference at *)
(* a time.                                                                 *)
TypeOK ==
    /\ files \in [Paths -> 0 .. MaxChanges + 1] /\ changes \in 0 .. MaxChanges
    /\ script \in Scripts
    /\ at \in 1 .. Len(script.stages) + 1
    /\ given \in Seq(Paths \cup {Absolute})
    /\ references \in Seq(Paths)
    /\ iterations \in 0 .. MaxIterations
    /\ loads \in Nat
    /\ loads > 0 => loads < iterations /\ script.stages[at] = "load"
    /\ asset \in 0 .. MaxChanges + 1 /\ frame \in 0 .. MaxChanges + 1
    /\ begun \in 0 .. changes
    /\ results \in Seq(Results) /\ printed \in Seq(Results)
    /\ changed \in [Paths -> 0 .. changes] /\ fixed \subseteq Paths
    /\ outcome \in {"running", "success", "error", "traceback", "usage"}

(* A program prints nothing before every reference it was given is loaded, *)
(* in the order of the command line and as often as it was asked to, and   *)
(* succeeds only after it has printed every result (main).                 *)
PrintsWhatWasAsked ==
    /\ TypeOK
    /\ printed # <<>> =>
          /\ given # <<>> => references = given
          /\ \A k \in DOMAIN references :
                /\ k \in DOMAIN results
                /\ results[k].of = "load" /\ results[k].reference = references[k]
                /\ results[k].loads = iterations
    /\ outcome = "success" =>
          /\ printed = SubSeq(results, Hidden + 1, Len(results))
          /\ script.prints = {printed[k].of : k \in DOMAIN printed}

(* What is reported about a reference is what the last of its loads found. *)
(* What that load described, or a content written since it did, is what it *)
(* parsed; both are the file as it is if the owner has left it alone since *)
(* that load began, whatever earlier loads of it found; and a profile or a *)
(* query is of the very content that was parsed (benchmark_dataset; main   *)
(* of the demonstration).  The described and the parsed content may differ *)
(* when the file was changed in between.                                   *)
ReportsTheLastLoad ==
    \A k \in DOMAIN results :
        LET r == results[k] IN
        /\ r.of # "load" => r.content = results[1].content /\ r.asset = results[1].asset
        /\ r.content # r.asset => r.content > r.begun + 1
        /\ changed[r.reference] <= r.begun =>
              r.asset = files[r.reference] /\ r.content = files[r.reference]

(* A program ends with a message for every error that the domain names,    *)
(* wherever it arises, and for every FileNotFoundError and ValueError, its *)
(* own, the system's or a library's; it ends with a traceback for any      *)
(* other OSError and any other exception, and for nothing else: the except *)
(* clause of each main has all of the errors that its stages may raise.    *)
DomainErrorsAreReported ==
    /\ outcome = "error" <=> cause \in DomainErrors \cup {"FileNotFoundError", "ValueError"}
    /\ outcome = "traceback" <=> cause \in {"OSError", "Uncaught"}

(* The dataset that is found is the first of those that were there all the *)
(* time, in whatever order the directory was read (discover_first_csv).    *)
DiscoveryIsFirst ==
    given = <<>> /\ references # <<>> =>
        /\ references[1].directory \in script.below
        /\ references[1].extension \in script.extensions
        /\ \A p \in fixed : p.extension \in script.extensions => references[1].rank <= p.rank
=============================================================================
