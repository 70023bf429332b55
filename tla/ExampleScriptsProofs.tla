------------------------- MODULE ExampleScriptsProofs -------------------------
(***************************************************************************)
(* Proofs about the example programs, for any files, any command line, any *)
(* number of loads and of changes by the owner of the files.  ScriptInv    *)
(* is inductive; the properties of ExampleScripts follow from it.          *)
(***************************************************************************)
EXTENDS ExampleScripts, SequenceTheorems, TLAPS

(* The paths that discovery may keep. *)
Kept == {p \in Below : p.extension \in script.extensions}

(* What is known while the references are found, and from then on. *)
FindInv ==
    /\ unseen \subseteq Below /\ found \subseteq Kept
    /\ at = 1 => given = <<>> /\ references = <<>> /\ unseen = {}
    /\ ~script.many => Len(given) <= 1
    /\ \A p \in fixed : Exists(p) /\ (p \in Kept => p \in unseen \cup found)
    /\ fixed \subseteq Below
    /\ given = <<>> =>
          IF at <= 2 THEN references = <<>>
          ELSE unseen = {} /\ Len(references) = 1 /\ First(references[1])
    /\ given # <<>> =>
          /\ Len(references) <= Len(given)
          /\ \A k \in DOMAIN references : references[k] = given[k]
          /\ at >= 3 => Len(references) = Len(given)

(* What a load knows after it described the file: the content is what it   *)
(* described, or written since.                                            *)
Loading ==
    asset # 0 =>
        /\ at = 3
        /\ files[Current] \in {0, asset} \/ files[Current] > begun + 1
        /\ changed[Current] <= begun => files[Current] = asset

(* How far the loads are: the results are those of the references, in      *)
(* their order, and then what was computed from the only one.              *)
LoadInv ==
    /\ at >= 2 => iterations # 0 /\ (~script.many => iterations = 1)
    /\ at <= 2 => results = <<>> /\ loads = 0
    /\ at >= 3 => references # <<>> /\ (~script.many => Len(references) = 1)
    /\ at = 3 => Len(results) < Len(references)
    /\ at > 3 => /\ Len(references) <= Len(results)
                 /\ frame = results[Len(references)].content
    /\ \A k \in DOMAIN results :
          IF k <= Len(references)
          THEN /\ results[k].of = "load"
               /\ results[k].reference = references[k]
               /\ results[k].loads = iterations
          ELSE /\ results[k].of # "load"
               /\ results[k].reference = results[1].reference
    /\ \A k \in DOMAIN results : results[k].begun <= changes
    /\ Loading

(* The kinds of results of the stages before the i-th. *)
Computed(i) == {script.stages[j] : j \in 3 .. i - 1} \ {"print"}

(* The kinds of the results. *)
Kinds == {results[k].of : k \in DOMAIN results}

(* What is printed are the first of the results that are to be printed,    *)
(* and all of them at the end.                                             *)
PrintInv ==
    /\ at <= 3 => printed = <<>>
    /\ at > 3 => /\ Hidden + Len(printed) <= Len(results)
                 /\ Kinds = Computed(at)
    /\ \A k \in DOMAIN printed : printed[k] = results[Hidden + k]
    /\ at = Len(script.stages) + 1 => Hidden + Len(printed) = Len(results)
    /\ outcome = "success" => at = Len(script.stages) + 1

ScriptInv ==
    /\ TypeOK
    /\ outcome \in {"running", "success", "usage"} => cause = "none"
    /\ DomainErrorsAreReported
    /\ FindInv
    /\ LoadInv
    /\ ReportsTheLastLoad
    /\ PrintInv

-----------------------------------------------------------------------------
(* The six programs. *)

(* What a program prints: the result of each of its stages that has one,   *)
(* or only what it computed.                                               *)
Outputs(s) == {s.stages[j] : j \in 3 .. Len(s.stages)} \ {"print"}

(* All programs begin alike, end with a print, and compute something only  *)
(* if they take a single reference.                                        *)
LEMMA Programs ==
    ASSUME NEW s \in Scripts
    PROVE  /\ Len(s.stages) \in Nat /\ Len(s.stages) >= 4
           /\ DOMAIN s.stages = 1 .. Len(s.stages)
           /\ s.stages[1] = "parse" /\ s.stages[2] = "find" /\ s.stages[3] = "load"
           /\ s.stages[Len(s.stages)] = "print"
           /\ \A i \in 4 .. Len(s.stages) : s.stages[i] \in {"print", "profile", "query"}
           /\ s.many \in BOOLEAN /\ (s.many => Len(s.stages) = 4)
           /\ s.prints = Outputs(s) \/ s.prints = Outputs(s) \ {"load"}
           /\ Base \subseteq s.except
           /\ s.except \subseteq
                 Base \cup {"CSVLoadError", "ExcelLoadError", "QueryExecutionError"}
<1>1. CASE s = LoadCsv
  BY <1>1 DEF LoadCsv, Outputs
<1>2. CASE s = LoadExcel
  BY <1>2 DEF LoadExcel, Outputs
<1>3. CASE s = ProfileDataset
  BY <1>3 DEF ProfileDataset, LoadCsv, Outputs
<1>4. CASE s = QueryDataset
  BY <1>4 DEF QueryDataset, LoadCsv, Outputs
<1>5. CASE s = IntegrationDemo
  BY <1>5 DEF IntegrationDemo, QueryDataset, LoadCsv, Outputs
<1>6. CASE s = Benchmark
  BY <1>6 DEF Benchmark, Outputs
<1> QED
  BY <1>1, <1>2, <1>3, <1>4, <1>5, <1>6 DEF Scripts

(* What a program may raise. *)
Errors == DomainErrors \cup {"FileNotFoundError", "ValueError", "OSError", "Uncaught"}

(* Every program catches every error of the domain, FileNotFoundError and  *)
(* ValueError, but no other OSError and no other exception of a library.   *)
LEMMA Caught ==
    ASSUME script \in Scripts, NEW error \in Errors
    PROVE  Handles(error) <=> error \notin {"OSError", "Uncaught"}
<1>1. Base \subseteq script.except
  BY Programs
<1>2. "OSError" \notin script.except /\ "Uncaught" \notin script.except
  BY Programs DEF Base
<1>3. CASE error \in {"OSError", "Uncaught"}
  BY <1>2, <1>3 DEF Handles, Classes
<1>4. CASE error \in Base
  BY <1>1, <1>4 DEF Handles, Classes, Base
<1>5. CASE error \in {"CSVLoadError", "ExcelLoadError", "QueryExecutionError", "QueryResourceLimitError"}
  BY <1>1, <1>5 DEF Handles, Classes, Base
<1> QED
  BY <1>3, <1>4, <1>5 DEF Errors, DomainErrors, Base

-----------------------------------------------------------------------------
(* Every step preserves the invariant. *)

(* Where a program is while it runs. *)
LEMMA Positions ==
    ASSUME ScriptInv
    PROVE  /\ at \in Nat /\ at >= 1 /\ script \in Scripts
           /\ Doing("parse") => at = 1
           /\ Doing("find") => at = 2
           /\ Doing("load") => at = 3
           /\ \A stage \in {"profile", "query", "print"} :
                 Doing(stage) => at >= 4 /\ at <= Len(script.stages)
           /\ \A stage \in {"profile", "query"} :
                 Doing(stage) => ~script.many /\ at < Len(script.stages)
<1>1. script \in Scripts /\ at \in 1 .. Len(script.stages) + 1
  BY DEF ScriptInv, TypeOK
<1>2. /\ Len(script.stages) \in Nat /\ Len(script.stages) >= 4
      /\ DOMAIN script.stages = 1 .. Len(script.stages)
      /\ script.stages[1] = "parse" /\ script.stages[2] = "find"
      /\ script.stages[3] = "load" /\ script.stages[Len(script.stages)] = "print"
      /\ \A i \in 4 .. Len(script.stages) : script.stages[i] \in {"print", "profile", "query"}
      /\ script.many \in BOOLEAN /\ (script.many => Len(script.stages) = 4)
  BY <1>1, Programs
<1>3. at \in Nat /\ at >= 1
  BY <1>1, <1>2
<1>4. ASSUME NEW stage, Doing(stage)
      PROVE  /\ at \in 1 .. Len(script.stages) /\ script.stages[at] = stage
             /\ at = 1 \/ at = 2 \/ at = 3 \/ at \in 4 .. Len(script.stages)
  BY <1>2, <1>3, <1>4 DEF Doing
<1>5. Doing("parse") => at = 1
  BY <1>2, <1>4
<1>6. Doing("find") => at = 2
  BY <1>2, <1>4
<1>7. Doing("load") => at = 3
  BY <1>2, <1>4
<1>8. \A stage \in {"profile", "query", "print"} :
         Doing(stage) => at >= 4 /\ at <= Len(script.stages)
  BY <1>2, <1>4
<1>9. \A stage \in {"profile", "query"} : Doing(stage) => ~script.many /\ at < Len(script.stages)
  BY <1>2, <1>4
<1> QED
  BY <1>1, <1>3, <1>5, <1>6, <1>7, <1>8, <1>9

(* What is printed depends on the results and the stage alone. *)
LEMMA PrintsPreserved ==
    ASSUME PrintInv, UNCHANGED <<script, at, references, results, printed>>,
           outcome' = "success" => at = Len(script.stages) + 1
    PROVE  PrintInv'
<1>1. Hidden' = Hidden /\ Computed(at)' = Computed(at) /\ Kinds' = Kinds
  BY DEF Hidden, Computed, Kinds
<1> QED
  BY <1>1 DEF PrintInv

(* A program that ends keeps all that it knew. *)
LEMMA EndPreserves ==
    ASSUME ScriptInv,
           UNCHANGED <<disk, input, at, search, references, work, printed>>
    PROVE  /\ outcome' \in {"running", "success", "error", "traceback", "usage"} => TypeOK'
           /\ FindInv' /\ LoadInv' /\ ReportsTheLastLoad'
           /\ (outcome' = "success" => at = Len(script.stages) + 1) => PrintInv'
<1> USE DEF disk, input, search, work
<1>1. FindInv'
  BY DEF ScriptInv, FindInv, Below, Kept, First, Exists
<1>2. LoadInv' /\ ReportsTheLastLoad'
  BY DEF ScriptInv, LoadInv, Loading, Current, ReportsTheLastLoad
<1>3. (outcome' = "success" => at = Len(script.stages) + 1) => PrintInv'
  BY PrintsPreserved DEF ScriptInv
<1>4. outcome' \in {"running", "success", "error", "traceback", "usage"} => TypeOK'
  BY DEF ScriptInv, TypeOK
<1> QED
  BY <1>1, <1>2, <1>3, <1>4

(* An exception ends the program, with the outcome that it deserves. *)
LEMMA RaisePreserves ==
    ASSUME ScriptInv, NEW error \in Errors, Raise(error)
    PROVE  ScriptInv'
<1>1. outcome' = IF error \in {"OSError", "Uncaught"} THEN "traceback" ELSE "error"
  BY Caught DEF ScriptInv, TypeOK, Raise
<1>2. cause' = error
  BY DEF Raise
<1>3. DomainErrorsAreReported'
  BY <1>1, <1>2 DEF DomainErrorsAreReported, DomainErrors, Errors
<1>4. TypeOK' /\ FindInv' /\ LoadInv' /\ ReportsTheLastLoad' /\ PrintInv'
  BY <1>1, EndPreserves DEF Raise
<1> QED
  BY <1>1, <1>3, <1>4 DEF ScriptInv

(* The owner of the files changes one of them. *)
LEMMA ChangePreserves ==
    ASSUME ScriptInv, NEW p \in Paths, Change(p)
    PROVE  ScriptInv'
<1> USE DEF input, search, work, ending
<1>1. /\ UNCHANGED <<script, given, iterations, at, unseen, found, references, loads, asset, begun, frame,
                     results, printed, outcome, cause>>
      /\ changed' = [changed EXCEPT ![p] = changes + 1] /\ fixed' = fixed \ {p}
      /\ changes' = changes + 1 /\ changes < MaxChanges
  BY DEF Change
<1>2. /\ files' \in [Paths -> 0 .. MaxChanges + 1] /\ changes' \in 0 .. MaxChanges
      /\ \A q \in Paths : q # p => files'[q] = files[q]
      /\ files'[p] \in {0, changes + 2}
  <2>1. PICK c \in {0, changes + 2} : files' = [files EXCEPT ![p] = c]
    BY DEF Change
  <2>2. /\ files \in [Paths -> 0 .. MaxChanges + 1] /\ changes \in 0 .. MaxChanges
        /\ MaxChanges \in Nat
    BY BoundsAssumption DEF ScriptInv, TypeOK
  <2>3. c \in 0 .. MaxChanges + 1 /\ changes' \in 0 .. MaxChanges
    BY <1>1, <2>2
  <2> QED
    BY <2>1, <2>2, <2>3
<1>3. TypeOK'
  <2>1. changed' \in [Paths -> 0 .. changes']
    <3>1. /\ changes \in Nat /\ changed \in [Paths -> 0 .. changes]
      BY BoundsAssumption DEF ScriptInv, TypeOK
    <3>2. \A q \in Paths : changed[q] \in 0 .. changes'
      BY <1>1, <3>1
    <3>3. changes + 1 \in 0 .. changes'
      BY <1>1, <3>1
    <3> QED
      BY <1>1, <3>1, <3>2, <3>3
  <2>2. begun \in 0 .. changes'
    BY <1>1, BoundsAssumption DEF ScriptInv, TypeOK
  <2> QED
    BY <1>1, <1>2, <2>1, <2>2 DEF ScriptInv, TypeOK
<1>4. FindInv'
  BY <1>1, <1>2 DEF ScriptInv, TypeOK, FindInv, Below, Kept, First, Exists
<1>5. LoadInv'
  <2>1. /\ changes \in Nat /\ begun \in 0 .. changes /\ changed \in [Paths -> 0 .. changes]
        /\ results \in Seq(Results) /\ references \in Seq(Paths)
    BY BoundsAssumption DEF ScriptInv, TypeOK
  <2>2. Loading'
    <3> SUFFICES ASSUME asset # 0
                 PROVE  Loading'
      BY <1>1 DEF Loading
    <3>1. Loading /\ at = 3
      BY DEF ScriptInv, LoadInv, Loading
    <3>2. Current' = Current /\ Current \in Paths
      <4>1. Len(results) < Len(references)
        BY <3>1 DEF ScriptInv, LoadInv
      <4> QED
        BY <1>1, <2>1, <4>1 DEF Current
    <3>3. CASE Current = p
      <4>1. changed'[Current] = changes + 1 /\ files'[Current] \in {0, changes + 2}
        BY <1>1, <1>2, <2>1, <3>3
      <4>2. ~(changed'[Current] <= begun) /\ (files'[Current] = 0 \/ files'[Current] > begun + 1)
        BY <2>1, <4>1
      <4> QED
        BY <1>1, <3>1, <3>2, <4>2 DEF Loading
    <3>4. CASE Current # p
      <4>1. changed'[Current] = changed[Current] /\ files'[Current] = files[Current]
        BY <1>1, <1>2, <2>1, <3>2, <3>4
      <4> QED
        BY <1>1, <3>1, <3>2, <4>1 DEF Loading
    <3> QED
      BY <3>3, <3>4
  <2>3. \A k \in DOMAIN results : results[k].begun <= changes'
    <3>1. \A k \in DOMAIN results : results[k].begun \in Nat /\ results[k].begun <= changes
      <4>1. \A k \in DOMAIN results : results[k] \in Results
        BY <2>1
      <4> QED
        BY <4>1 DEF ScriptInv, LoadInv, Results
    <3> QED
      BY <1>1, <2>1, <3>1
  <2> QED
    BY <1>1, <2>2, <2>3 DEF ScriptInv, LoadInv
<1>6. PrintInv'
  <2>1. outcome' = "success" => at = Len(script.stages) + 1
    BY <1>1 DEF ScriptInv, PrintInv
  <2> QED
    BY <1>1, <2>1, PrintsPreserved DEF ScriptInv
<1>7. DomainErrorsAreReported'
  BY <1>1 DEF ScriptInv, DomainErrorsAreReported
<1>8. ReportsTheLastLoad'
  <2>1. /\ results \in Seq(Results) /\ changes \in Nat /\ changed \in [Paths -> 0 .. changes]
        /\ files \in [Paths -> 0 .. MaxChanges + 1]
    BY BoundsAssumption DEF ScriptInv, TypeOK
  <2>2. \A k \in DOMAIN results : results[k] \in Results /\ results[k].begun <= changes
    BY <2>1 DEF ScriptInv, LoadInv
  <2>3. ASSUME NEW k \in DOMAIN results, changed'[results[k].reference] <= results[k].begun
        PROVE  results[k].reference # p
    <3>1. results[k].begun \in Nat /\ results[k].begun <= changes
      BY <2>2 DEF Results
    <3> QED
      BY <1>1, <2>1, <2>3, <3>1
  <2>4. \A q \in Paths : q # p => changed'[q] = changed[q] /\ files'[q] = files[q]
    BY <1>1, <1>2, <2>1
  <2>5. \A k \in DOMAIN results : results[k].reference \in Paths
    BY <2>2 DEF Results
  <2> QED
    BY <1>1, <2>3, <2>4, <2>5 DEF ScriptInv, ReportsTheLastLoad
<1> QED
  BY <1>1, <1>3, <1>4, <1>5, <1>6, <1>7, <1>8 DEF ScriptInv

(* argparse refuses the command line. *)
LEMMA UsagePreserves ==
    ASSUME ScriptInv, Usage
    PROVE  ScriptInv'
<1>1. outcome' = "usage" /\ cause' = cause /\ outcome = "running"
  BY DEF Usage, Doing
<1>2. TypeOK' /\ FindInv' /\ LoadInv' /\ ReportsTheLastLoad' /\ PrintInv'
  BY <1>1, EndPreserves DEF Usage
<1>3. cause' = "none"
  BY <1>1 DEF ScriptInv
<1> QED
  BY <1>1, <1>2, <1>3 DEF ScriptInv, DomainErrorsAreReported, DomainErrors

(* The program ends after its last stage. *)
LEMMA FinishPreserves ==
    ASSUME ScriptInv, Finish
    PROVE  ScriptInv'
<1>1. outcome' = "success" /\ cause' = cause /\ outcome = "running"
  BY DEF Finish
<1>2. at = Len(script.stages) + 1
  <2>1. at \in 1 .. Len(script.stages) + 1 /\ script \in Scripts
    BY DEF ScriptInv, TypeOK
  <2>2. at \notin 1 .. Len(script.stages) /\ Len(script.stages) \in Nat
    BY <2>1, Programs DEF Finish
  <2> QED
    BY <2>1, <2>2
<1>3. TypeOK' /\ FindInv' /\ LoadInv' /\ ReportsTheLastLoad' /\ PrintInv'
  BY <1>1, <1>2, EndPreserves DEF Finish
<1>4. cause' = "none"
  BY <1>1 DEF ScriptInv
<1> QED
  BY <1>1, <1>3, <1>4 DEF ScriptInv, DomainErrorsAreReported, DomainErrors

(* Nothing is printed before the loads are over. *)
LEMMA NothingPrinted ==
    ASSUME at' \in Nat, at' <= 3, script' \in Scripts, printed' = <<>>, outcome' = "running"
    PROVE  PrintInv'
<1>1. Len(script'.stages) \in Nat /\ Len(script'.stages) >= 4
  BY Programs
<1>2. DOMAIN printed' = {}
  OBVIOUS
<1> QED
  BY <1>1, <1>2 DEF PrintInv

(* The state of a running program. *)
LEMMA Running ==
    ASSUME ScriptInv, outcome = "running", UNCHANGED ending
    PROVE  /\ outcome' = "running" /\ cause' = "none"
           /\ DomainErrorsAreReported'
<1>1. outcome' = "running" /\ cause' = "none"
  BY DEF ScriptInv, ending
<1> QED
  BY <1>1 DEF DomainErrorsAreReported, DomainErrors

(* The search for a file comes to one path. *)
LEMMA LookPreserves ==
    ASSUME ScriptInv, NEW p \in Paths, Look(p)
    PROVE  ScriptInv'
<1>1. /\ UNCHANGED <<files, changes, changed, fixed, script, given, iterations, at, references,
                     loads, asset, begun, frame, results, printed, outcome, cause>>
      /\ p \in unseen /\ unseen' = unseen \ {p}
      /\ found' = IF Exists(p) /\ p.extension \in script.extensions THEN found \cup {p} ELSE found
  BY DEF Look, disk, input, work, ending
<1>2. at = 2 /\ given = <<>> /\ outcome = "running"
  BY Positions DEF Look, Discovering, Doing
<1>3. Below' = Below /\ Kept' = Kept /\ \A q : Exists(q)' = Exists(q)
  BY <1>1 DEF Below, Kept, Exists
<1>4. TypeOK'
  BY <1>1 DEF ScriptInv, TypeOK
<1>5. FindInv'
  <2>1. FindInv
    BY DEF ScriptInv
  <2>2. unseen' \subseteq Below /\ found' \subseteq Kept
    BY <1>1, <2>1 DEF FindInv, Kept
  <2>3. \A q \in fixed : Exists(q) /\ (q \in Kept => q \in unseen' \cup found')
    BY <1>1, <2>1 DEF FindInv, Kept
  <2> QED
    BY <1>1, <1>2, <1>3, <2>1, <2>2, <2>3 DEF FindInv
<1>6. LoadInv' /\ ReportsTheLastLoad'
  BY <1>1 DEF ScriptInv, LoadInv, Loading, Current, ReportsTheLastLoad
<1>7. PrintInv'
  BY <1>1, <1>2, PrintsPreserved DEF ScriptInv
<1> QED
  BY <1>1, <1>2, <1>4, <1>5, <1>6, <1>7, Running DEF ScriptInv, ending

(* The command line is read, and the search begins if it names no file. *)
LEMMA ParsePreserves ==
    ASSUME ScriptInv, Parse
    PROVE  ScriptInv'
<1>1. /\ UNCHANGED <<files, changes, changed, script, found, references, loads, asset, begun, frame, results,
                     printed, outcome, cause>>
      /\ at' = at + 1
      /\ iterations' \in IF script.many THEN 1 .. MaxIterations ELSE {1}
      /\ unseen' = IF given' = <<>> THEN Below ELSE {}
      /\ fixed' = {p \in unseen' : Exists(p)}
  BY DEF Parse, work, ending
<1>2. at = 1 /\ outcome = "running" /\ script \in Scripts
  BY Positions DEF Parse, Doing
<1>3. Below' = Below /\ Kept' = Kept /\ \A q : Exists(q)' = Exists(q)
  BY <1>1 DEF Below, Kept, Exists
<1>4. given' \in Seq(Paths \cup {Absolute}) /\ (~script.many => Len(given') <= 1)
  <2>1. PICK n \in 0 .. (IF script.many THEN 2 ELSE 1) :
           given' \in IF script.many /\ n = 0 THEN {Defaults} ELSE [1 .. n -> Paths \cup {Absolute}]
    BY DEF Parse
  <2>2. CASE script.many /\ n = 0
    BY <2>1, <2>2, DefaultsAssumption
  <2>3. CASE ~(script.many /\ n = 0)
    <3>1. n \in Nat /\ given' \in [1 .. n -> Paths \cup {Absolute}]
      BY <2>1, <2>3
    <3>2. given' \in Seq(Paths \cup {Absolute}) /\ Len(given') = n
      BY <3>1
    <3> QED
      BY <2>1, <3>2
  <2> QED
    BY <2>2, <2>3
<1>5. iterations' \in 1 .. MaxIterations /\ (~script.many => iterations' = 1)
  BY <1>1, BoundsAssumption
<1>6. Len(script.stages) \in Nat /\ Len(script.stages) >= 4
  BY <1>2, Programs
<1>7. references = <<>> /\ results = <<>> /\ loads = 0 /\ printed = <<>>
  BY <1>2 DEF ScriptInv, FindInv, LoadInv, PrintInv
<1>8. TypeOK'
  <2>1. fixed' \subseteq Paths
    BY <1>1 DEF Below
  <2>2. at' \in 1 .. Len(script.stages) + 1 /\ iterations' \in 0 .. MaxIterations
    BY <1>1, <1>2, <1>5, <1>6, BoundsAssumption
  <2> QED
    BY <1>1, <1>4, <1>7, <2>1, <2>2 DEF ScriptInv, TypeOK
<1>9. FindInv'
  <2>1. unseen' \subseteq Below /\ found' \subseteq Kept /\ fixed' \subseteq unseen'
    BY <1>1 DEF ScriptInv, FindInv
  <2>2. Len(given') \in Nat
    BY <1>4
  <2> QED
    BY <1>1, <1>2, <1>3, <1>4, <1>7, <2>1, <2>2 DEF FindInv
<1>10. LoadInv' /\ ReportsTheLastLoad'
  <2>1. asset' = 0
    BY <1>1, <1>2 DEF ScriptInv, LoadInv, Loading
  <2> QED
    BY <1>1, <1>2, <1>5, <1>7, <2>1 DEF LoadInv, Loading, ReportsTheLastLoad
<1>11. PrintInv'
  BY <1>1, <1>2, <1>7, NothingPrinted
<1> QED
  BY <1>1, <1>2, <1>8, <1>9, <1>10, <1>11, Running DEF ScriptInv, ending

(* What is unchanged by the steps that choose references. *)
LEMMA ReferencesPreserve ==
    ASSUME ScriptInv, at = 2, outcome = "running",
           UNCHANGED <<disk, input, search, work, printed, ending>>,
           references' \in Seq(Paths), at' \in {2, 3}, FindInv',
           at' = 3 => references' # <<>> /\ (~script.many => Len(references') = 1)
    PROVE  ScriptInv'
<1> USE DEF disk, input, search, work, ending
<1>1. results = <<>> /\ loads = 0 /\ printed = <<>> /\ script \in Scripts
  BY DEF ScriptInv, LoadInv, PrintInv, TypeOK
<1>2. Len(script.stages) \in Nat /\ Len(script.stages) >= 4
  BY <1>1, Programs
<1>3. TypeOK'
  <2>1. at' \in 1 .. Len(script.stages) + 1
    BY <1>2
  <2> QED
    BY <1>1, <2>1 DEF ScriptInv, TypeOK
<1>4. LoadInv'
  <2>1. Len(references') \in Nat /\ (at' = 3 => Len(references') > 0)
    BY EmptySeq, LenProperties
  <2>2. asset' = 0
    BY DEF ScriptInv, LoadInv, Loading
  <2> QED
    BY <1>1, <2>1, <2>2 DEF ScriptInv, LoadInv, Loading
<1>5. ReportsTheLastLoad' /\ DomainErrorsAreReported'
  BY DEF ScriptInv, ReportsTheLastLoad, DomainErrorsAreReported
<1>6. PrintInv'
  BY <1>1, NothingPrinted
<1> QED
  BY <1>3, <1>4, <1>5, <1>6, Running DEF ScriptInv

(* The first of the files found is the one reference. *)
LEMMA DiscoveredPreserves ==
    ASSUME ScriptInv, Discovered
    PROVE  ScriptInv'
<1>1. at = 2 /\ given = <<>> /\ outcome = "running" /\ unseen = {} /\ at' = 3
  BY Positions DEF Discovered, Discovering, Doing
<1>2. PICK p \in Paths : First(p) /\ references' = <<p>>
  BY DEF Discovered
<1>3. references' \in Seq(Paths) /\ references' # <<>> /\ Len(references') = 1
      /\ references'[1] = p
  BY <1>2
<1>4. UNCHANGED <<files, changes, changed, fixed, script, given, iterations, unseen, found>>
  BY DEF Discovered, disk, input, search
<1>5. FindInv'
  <2>1. Below' = Below /\ Kept' = Kept /\ \A q : Exists(q)' = Exists(q)
    BY <1>4 DEF Below, Kept, Exists
  <2>2. First(p)'
    BY <1>2, <1>4 DEF First
  <2> QED
    BY <1>1, <1>3, <1>4, <2>1, <2>2 DEF ScriptInv, FindInv, First
<1> QED
  BY <1>1, <1>3, <1>5, ReferencesPreserve DEF Discovered

(* The next reference of the command line is resolved. *)
LEMMA ResolvePreserves ==
    ASSUME ScriptInv, Resolve
    PROVE  ScriptInv'
<1>1. at = 2 /\ given # <<>> /\ outcome = "running"
  BY Positions DEF Resolve, Resolving, Doing
<1>2. /\ references \in Seq(Paths) /\ given \in Seq(Paths \cup {Absolute})
      /\ Len(references) \in Nat /\ Len(given) \in Nat /\ Len(references) < Len(given)
  BY LenProperties DEF ScriptInv, TypeOK, Resolve
<1>3. Argument \in Paths
  <2>1. Argument \in Paths \cup {Absolute}
    BY <1>2 DEF Argument
  <2> QED
    BY <2>1 DEF Resolve, Valid
<1>4. /\ references' = Append(references, Argument) /\ references' \in Seq(Paths)
      /\ Len(references') = Len(references) + 1
      /\ \A k \in DOMAIN references' : references'[k] =
             IF k = Len(references) + 1 THEN given[k] ELSE references[k]
  BY <1>2, <1>3 DEF Resolve, Argument
<1>5. UNCHANGED <<files, changes, changed, fixed, script, given, iterations, unseen, found, at>>
  BY DEF Resolve, disk, input, search
<1>6. FindInv'
  <2>1. Below' = Below /\ Kept' = Kept /\ \A q : Exists(q)' = Exists(q)
    BY <1>5 DEF Below, Kept, Exists
  <2>2. \A k \in DOMAIN references' : references'[k] = given[k]
    <3> SUFFICES ASSUME NEW k \in DOMAIN references', k # Len(references) + 1
                 PROVE  k \in DOMAIN references
      BY <1>1, <1>4 DEF ScriptInv, FindInv
    <3> QED
      BY <1>2, <1>4
  <2>3. Len(references') <= Len(given)
    BY <1>2, <1>4
  <2> QED
    BY <1>1, <1>5, <2>1, <2>2, <2>3 DEF ScriptInv, FindInv
<1> QED
  BY <1>1, <1>4, <1>5, <1>6, ReferencesPreserve DEF Resolve

(* All references of the command line are resolved. *)
LEMMA ResolvedPreserves ==
    ASSUME ScriptInv, Resolved
    PROVE  ScriptInv'
<1>1. at = 2 /\ given # <<>> /\ outcome = "running" /\ at' = 3
  BY Positions DEF Resolved, Resolving, Doing
<1>2. /\ references \in Seq(Paths) /\ given \in Seq(Paths \cup {Absolute})
      /\ Len(references) = Len(given)
  BY DEF ScriptInv, TypeOK, Resolved
<1>3. UNCHANGED <<files, changes, changed, fixed, script, given, iterations, unseen, found,
                  references>>
  BY DEF Resolved, disk, input, search
<1>4. FindInv'
  <2>1. Below' = Below /\ Kept' = Kept /\ \A q : Exists(q)' = Exists(q)
    BY <1>3 DEF Below, Kept, Exists
  <2> QED
    BY <1>1, <1>2, <1>3, <2>1 DEF ScriptInv, FindInv
<1>5. references' # <<>> /\ (~script.many => Len(references') = 1)
  <2>1. Len(given) \in Nat /\ Len(given) # 0
    BY <1>1, <1>2, EmptySeq, LenProperties
  <2>2. ~script.many => Len(given) <= 1
    BY DEF ScriptInv, FindInv
  <2>3. references # <<>>
    BY <1>2, <2>1
  <2>4. ~script.many => Len(references) = 1
    <3>1. \A n \in Nat : n # 0 /\ n <= 1 => n = 1
      OBVIOUS
    <3>2. Len(given) <= 1 => Len(given) = 1
      BY <2>1, <3>1, Zenon
    <3> QED
      BY <1>2, <2>2, <3>2, Zenon
  <2> QED
    BY <1>3, <2>3, <2>4
<1> QED
  BY <1>1, <1>2, <1>3, <1>4, <1>5, ReferencesPreserve DEF Resolved

(* What a sequence is with one element more. *)
LEMMA Longer ==
    ASSUME NEW S, NEW s \in Seq(S), NEW e \in S
    PROVE  /\ Append(s, e) \in Seq(S) /\ Len(Append(s, e)) = Len(s) + 1
           /\ DOMAIN Append(s, e) = 1 .. Len(s) + 1
           /\ Append(s, e)[Len(s) + 1] = e
           /\ \A k \in 1 .. Len(s) : Append(s, e)[k] = s[k]
  OBVIOUS

(* The file is described before it is parsed. *)
LEMMA DescribePreserves ==
    ASSUME ScriptInv, Describe
    PROVE  ScriptInv'
<1>1. /\ UNCHANGED <<files, changes, changed, fixed, script, given, iterations, at, unseen, found,
                     references, loads, frame, results, printed, outcome, cause>>
      /\ asset' = files[Current] /\ begun' = changes
  BY DEF Describe, disk, input, search, ending
<1>2. at = 3 /\ outcome = "running"
  BY Positions DEF Describe, Doing
<1>3. /\ references \in Seq(Paths) /\ results \in Seq(Results)
      /\ files \in [Paths -> 0 .. MaxChanges + 1] /\ changes \in Nat /\ MaxChanges \in Nat
  BY BoundsAssumption DEF ScriptInv, TypeOK
<1>4. Current' = Current /\ Current \in Paths
  <2>1. Len(results) < Len(references)
    BY <1>2 DEF ScriptInv, LoadInv
  <2> QED
    BY <1>1, <1>3, <2>1 DEF Current
<1>5. TypeOK'
  <2>1. asset' \in 0 .. MaxChanges + 1 /\ begun' \in 0 .. changes'
    BY <1>1, <1>3, <1>4
  <2> QED
    BY <1>1, <2>1 DEF ScriptInv, TypeOK
<1>6. FindInv'
  BY <1>1 DEF ScriptInv, FindInv, Below, Kept, First, Exists
<1>7. LoadInv' /\ ReportsTheLastLoad'
  <2>1. Loading'
    BY <1>1, <1>2, <1>3, <1>4 DEF Loading
  <2> QED
    BY <1>1, <2>1 DEF ScriptInv, LoadInv, ReportsTheLastLoad
<1>8. PrintInv'
  BY <1>1, <1>2, PrintsPreserved DEF ScriptInv
<1> QED
  BY <1>1, <1>2, <1>5, <1>6, <1>7, <1>8, Running DEF ScriptInv, ending

(* A reference is loaded once more; the last of its loads gives a result.  *)
LEMMA LoadPreserves ==
    ASSUME ScriptInv, Load
    PROVE  ScriptInv'
<1> DEFINE r == Loaded
<1>1. /\ UNCHANGED <<files, changes, changed, fixed, script, given, iterations, unseen, found,
                     references, printed, outcome, cause>>
      /\ frame' = files[Current] /\ Exists(Current)
      /\ asset # 0 /\ asset' = 0 /\ begun' = 0
      /\ IF loads + 1 < iterations
         THEN loads' = loads + 1 /\ UNCHANGED <<results, at>>
         ELSE /\ loads' = 0 /\ results' = Append(results, r)
              /\ at' = IF Len(results') = Len(references) THEN at + 1 ELSE at
  BY DEF Load, disk, input, search, ending
<1>2. at = 3 /\ outcome = "running" /\ script \in Scripts
  BY Positions DEF Load, Doing
<1>3. /\ references \in Seq(Paths) /\ results \in Seq(Results) /\ loads \in Nat
      /\ iterations \in 0 .. MaxIterations /\ MaxIterations \in Nat
      /\ files \in [Paths -> 0 .. MaxChanges + 1] /\ MaxChanges \in Nat
      /\ loads > 0 => loads < iterations
      /\ asset \in 0 .. MaxChanges + 1 /\ changes \in Nat /\ begun \in 0 .. changes
      /\ changed \in [Paths -> 0 .. changes]
  BY BoundsAssumption DEF ScriptInv, TypeOK
<1>4. /\ iterations # 0 /\ Len(results) < Len(references) /\ printed = <<>>
      /\ references # <<>>
  BY <1>2 DEF ScriptInv, LoadInv, PrintInv
<1>5. Len(results) \in Nat /\ Len(references) \in Nat
      /\ DOMAIN results = 1 .. Len(results) /\ DOMAIN references = 1 .. Len(references)
  BY <1>3, LenProperties
<1>6. Current \in Paths /\ Current = references[Len(results) + 1]
  BY <1>3, <1>4, <1>5 DEF Current
<1>7. frame' \in 0 .. MaxChanges + 1 /\ frame' \in Nat
  BY <1>1, <1>3, <1>6
<1>8. /\ frame' = asset \/ frame' > begun + 1
      /\ changed[Current] <= begun => frame' = asset
      /\ Loading'
  BY <1>1 DEF ScriptInv, LoadInv, Loading, Exists
<1>9. FindInv'
  <2>1. Below' = Below /\ Kept' = Kept /\ \A q : Exists(q)' = Exists(q)
    BY <1>1 DEF Below, Kept, Exists
  <2>2. at' = 3 \/ at' = 4
    BY <1>1, <1>2
  <2> QED
    BY <1>1, <1>2, <2>1, <2>2 DEF ScriptInv, FindInv, First
<1>10. Len(script.stages) \in Nat /\ Len(script.stages) >= 4
      /\ script.stages[1] = "parse" /\ script.stages[2] = "find" /\ script.stages[3] = "load"
  BY <1>2, Programs
<1>11. CASE loads + 1 < iterations
  <2>1. loads' = loads + 1 /\ loads' < iterations /\ UNCHANGED <<results, at>>
    BY <1>1, <1>11
  <2>2. TypeOK'
    <3>1. asset' \in 0 .. MaxChanges + 1 /\ begun' \in 0 .. changes'
      BY <1>1, <1>3
    <3>2. loads' \in Nat /\ loads' < iterations /\ script.stages[at] = "load"
      BY <1>2, <1>3, <1>10, <2>1
    <3>3. UNCHANGED <<files, changes, changed, fixed, script, at, given, references, iterations,
                      results, printed, outcome>>
      BY <1>1, <2>1
    <3> QED
      BY <1>7, <3>1, <3>2, <3>3 DEF ScriptInv, TypeOK
  <2>3. LoadInv'
    BY <1>1, <1>2, <1>8, <2>1 DEF ScriptInv, LoadInv
  <2>4. ReportsTheLastLoad'
    BY <1>1, <2>1 DEF ScriptInv, ReportsTheLastLoad
  <2>5. PrintInv'
    BY <1>1, <1>2, <2>1, PrintsPreserved DEF ScriptInv
  <2> QED
    BY <1>1, <1>2, <1>9, <2>2, <2>3, <2>4, <2>5, Running DEF ScriptInv, ending
<1>12. CASE ~(loads + 1 < iterations)
  <2>1. /\ loads' = 0 /\ results' = Append(results, r)
        /\ at' = IF Len(results') = Len(references) THEN 4 ELSE 3
    BY <1>1, <1>2, <1>12
  <2>2. r = [of |-> "load", reference |-> Current, asset |-> asset, content |-> frame',
             begun |-> begun, loads |-> iterations]
    <3>1. loads + 1 = iterations
      BY <1>3, <1>4, <1>12
    <3> QED
      BY <3>1 DEF Loaded
  <2>3. r \in Results
    BY <1>3, <1>6, <1>7, <2>2 DEF Results
  <2> HIDE DEF r
  <2>4. /\ results' \in Seq(Results) /\ Len(results') = Len(results) + 1
        /\ DOMAIN results' = 1 .. Len(results) + 1
        /\ results'[Len(results) + 1] = r
        /\ \A k \in 1 .. Len(results) : results'[k] = results[k]
    BY <1>3, <2>1, <2>3, Longer
  <2>5. \A k \in DOMAIN results' : k = Len(results) + 1 \/ k \in DOMAIN results
    BY <1>5, <2>4
  <2>6. TypeOK'
    <3>1. asset' \in 0 .. MaxChanges + 1 /\ begun' \in 0 .. changes'
      BY <1>1, <1>3
    <3>2. at' \in 1 .. Len(script.stages) + 1
      BY <1>10, <2>1
    <3>3. UNCHANGED <<files, changes, changed, fixed, script, given, references, iterations,
                      printed, outcome>>
      BY <1>1
    <3>4. loads' = 0 /\ results' \in Seq(Results)
      BY <2>1, <2>4
    <3> QED
      BY <1>7, <3>1, <3>2, <3>3, <3>4 DEF ScriptInv, TypeOK
  <2>7. Len(results') <= Len(references)
    BY <1>4, <1>5, <2>4
  <2>8. \A k \in DOMAIN results' :
           /\ k <= Len(references)
           /\ results'[k].of = "load" /\ results'[k].reference = references[k]
           /\ results'[k].loads = iterations
    <3> SUFFICES ASSUME NEW k \in DOMAIN results'
                 PROVE  /\ k <= Len(references)
                        /\ results'[k].of = "load" /\ results'[k].reference = references[k]
                        /\ results'[k].loads = iterations
      OBVIOUS
    <3>1. k \in Nat /\ k <= Len(references)
      BY <1>5, <2>4, <2>7
    <3>2. CASE k = Len(results) + 1
      BY <1>6, <2>2, <2>4, <3>1, <3>2
    <3>3. CASE k \in DOMAIN results
      BY <1>5, <2>4, <3>1, <3>3 DEF ScriptInv, LoadInv
    <3> QED
      BY <2>5, <3>2, <3>3
  <2>9. LoadInv'
    <3>5. \A k \in DOMAIN results' : results'[k].begun <= changes
      <4>1. r.begun <= changes
        BY <1>3, <2>2
      <4>2. \A k \in DOMAIN results : results'[k].begun <= changes
        BY <1>5, <2>4 DEF ScriptInv, LoadInv
      <4> QED
        BY <2>4, <2>5, <4>1, <4>2
    <3>1. at' = 4 => /\ Len(references) <= Len(results')
                     /\ frame' = results'[Len(references)].content
      <4>1. at' = 4 => Len(results') = Len(references)
        BY <2>1
      <4>2. Len(results') = Len(results) + 1 /\ results'[Len(results) + 1].content = frame'
        BY <2>2, <2>4
      <4> QED
        BY <1>5, <4>1, <4>2
    <3>2. at' = 3 => Len(results') < Len(references)
      <4>1. at' = 3 => Len(results') # Len(references)
        BY <2>1
      <4>2. \A m, n \in Nat : m <= n /\ m # n => m < n
        OBVIOUS
      <4>3. Len(results') \in Nat
        BY <1>5, <2>4
      <4> QED
        BY <1>5, <2>7, <4>1, <4>2, <4>3, Zenon
    <3>3. /\ ~script.many => iterations = 1 /\ Len(references) = 1
      BY <1>2 DEF ScriptInv, LoadInv
    <3>4. at' = 3 \/ at' = 4
      BY <2>1
    <3> QED
      BY <1>1, <1>4, <1>8, <2>8, <3>1, <3>2, <3>3, <3>4, <3>5 DEF LoadInv
  <2>10. ReportsTheLastLoad'
    <3> SUFFICES ASSUME NEW k \in DOMAIN results'
                 PROVE  /\ results'[k].content # results'[k].asset =>
                              results'[k].content > results'[k].begun + 1
                        /\ changed[results'[k].reference] <= results'[k].begun =>
                              /\ results'[k].asset = files[results'[k].reference]
                              /\ results'[k].content = files[results'[k].reference]
      BY <1>1, <2>8 DEF ReportsTheLastLoad
    <3>1. CASE k = Len(results) + 1
      <4>1. /\ results'[k].content = frame' /\ results'[k].asset = asset
            /\ results'[k].begun = begun /\ results'[k].reference = Current
        BY <2>2, <2>4, <3>1
      <4> QED
        BY <1>1, <1>8, <4>1
    <3>2. CASE k \in DOMAIN results
      <4>1. results'[k] = results[k]
        BY <1>5, <2>4, <3>2
      <4> QED
        BY <3>2, <4>1 DEF ScriptInv, ReportsTheLastLoad
    <3> QED
      BY <2>5, <3>1, <3>2
  <2>11. PrintInv'
    <3>1. CASE at' = 3
      BY <1>1, <1>2, <1>4, <3>1, NothingPrinted
    <3>2. CASE at' = 4
      <4>1. Len(results') = Len(references)
        BY <2>1, <3>2
      <4>2. Hidden' <= Len(results') /\ Hidden' \in Nat
        BY <1>1, <1>5, <4>1 DEF Hidden
      <4>3. Kinds' = {"load"}
        BY <1>5, <2>4, <2>8 DEF Kinds
      <4>4. Computed(at)' = {"load"}
        <5>1. Computed(at)' = {script.stages[j] : j \in 3 .. at' - 1} \ {"print"}
          BY <1>1 DEF Computed
        <5>2. 3 .. at' - 1 = {3}
          BY <3>2
        <5> QED
          BY <1>10, <5>1, <5>2
      <4>5. printed' = <<>> /\ Len(printed') = 0 /\ DOMAIN printed' = {}
        BY <1>1, <1>4
      <4>6. at' # Len(script'.stages) + 1
        BY <1>1, <1>10, <3>2
      <4>7. Hidden' + Len(printed') <= Len(results') /\ outcome' # "success"
        BY <1>1, <1>2, <4>2, <4>5
      <4> QED
        BY <3>2, <4>3, <4>4, <4>5, <4>6, <4>7 DEF PrintInv
    <3> QED
      BY <2>1, <3>1, <3>2
  <2> QED
    BY <1>1, <1>2, <1>9, <2>6, <2>9, <2>10, <2>11, Running DEF ScriptInv, ending
<1> QED
  BY <1>11, <1>12

(* The profile or the query of what was loaded is a result about it.       *)
LEMMA ComputePreserves ==
    ASSUME ScriptInv, NEW stage \in {"profile", "query"}, Compute(stage)
    PROVE  ScriptInv'
<1> DEFINE r == [results[1] EXCEPT !.of = stage, !.content = frame]
<1>1. /\ UNCHANGED <<files, changes, changed, fixed, script, given, iterations, unseen, found,
                     references, loads, asset, begun, frame, printed, outcome, cause>>
      /\ results' = Append(results, r) /\ at' = at + 1
  BY DEF Compute, disk, input, search, ending
<1>2. /\ at \in Nat /\ at >= 4 /\ at < Len(script.stages) /\ outcome = "running"
      /\ script \in Scripts /\ script.stages[at] = stage
  BY Positions DEF Compute, Doing
<1>3. results \in Seq(Results) /\ printed \in Seq(Results) /\ frame \in 0 .. MaxChanges + 1
      /\ MaxChanges \in Nat
  BY BoundsAssumption DEF ScriptInv, TypeOK
<1>4. Len(results) \in Nat /\ DOMAIN results = 1 .. Len(results)
      /\ Len(printed) \in Nat /\ DOMAIN printed = 1 .. Len(printed)
  BY <1>3, LenProperties
<1>5. /\ Len(references) = 1 /\ Len(references) <= Len(results)
      /\ frame = results[1].content
  BY <1>2, Positions DEF ScriptInv, LoadInv, Compute
<1>6. results[1] \in Results /\ 1 \in DOMAIN results
  BY <1>3, <1>4, <1>5
<1>7. /\ r \in Results /\ r.of = stage /\ r.reference = results[1].reference
      /\ r.content = results[1].content /\ r.asset = results[1].asset
      /\ r.begun = results[1].begun
  BY <1>3, <1>5, <1>6 DEF Results
<1> HIDE DEF r
<1>8. /\ results' \in Seq(Results) /\ Len(results') = Len(results) + 1
      /\ DOMAIN results' = 1 .. Len(results) + 1
      /\ results'[Len(results) + 1] = r
      /\ \A k \in 1 .. Len(results) : results'[k] = results[k]
  BY <1>1, <1>3, <1>7, Longer
<1>9. /\ \A k \in DOMAIN results' : k = Len(results) + 1 \/ k \in DOMAIN results
      /\ results'[1] = results[1]
  BY <1>4, <1>6, <1>8
<1>10. Len(script.stages) \in Nat /\ DOMAIN script.stages = 1 .. Len(script.stages)
  BY <1>2, Programs
<1>11. TypeOK'
  <2>1. loads = 0
    BY <1>2 DEF ScriptInv, TypeOK
  <2>2. at' \in 1 .. Len(script.stages) + 1
    BY <1>1, <1>2, <1>10
  <2> QED
    BY <1>1, <1>8, <2>1, <2>2 DEF ScriptInv, TypeOK
<1>12. FindInv'
  <2>1. Below' = Below /\ Kept' = Kept /\ \A q : Exists(q)' = Exists(q)
    BY <1>1 DEF Below, Kept, Exists
  <2> QED
    BY <1>1, <1>2, <2>1 DEF ScriptInv, FindInv, First
<1>13. LoadInv'
  <2>1. \A k \in DOMAIN results' :
          IF k <= Len(references)
          THEN /\ results'[k].of = "load"
               /\ results'[k].reference = references[k]
               /\ results'[k].loads = iterations
          ELSE /\ results'[k].of # "load"
               /\ results'[k].reference = results[1].reference
    <3> SUFFICES ASSUME NEW k \in DOMAIN results'
                 PROVE  IF k <= Len(references)
                        THEN /\ results'[k].of = "load"
                             /\ results'[k].reference = references[k]
                             /\ results'[k].loads = iterations
                        ELSE /\ results'[k].of # "load"
                             /\ results'[k].reference = results[1].reference
      OBVIOUS
    <3>1. CASE k = Len(results) + 1
      <4>1. ~(k <= Len(references))
        BY <1>4, <1>5, <3>1
      <4> QED
        BY <1>7, <1>8, <3>1, <4>1
    <3>2. CASE k \in DOMAIN results
      BY <1>4, <1>8, <3>2 DEF ScriptInv, LoadInv
    <3> QED
      BY <1>9, <3>1, <3>2
  <2>2. Len(references) <= Len(results') /\ frame = results'[Len(references)].content
    BY <1>4, <1>5, <1>8, <1>9
  <2>3. at' > 3
    BY <1>1, <1>2
  <2> QED
    <3>1. asset = 0
      BY <1>2 DEF ScriptInv, LoadInv, Loading
    <3>2. \A k \in DOMAIN results' : results'[k].begun <= changes
      <4>1. \A k \in DOMAIN results : results[k].begun <= changes
        BY DEF ScriptInv, LoadInv
      <4>2. \A k \in DOMAIN results : results'[k] = results[k]
        BY <1>4, <1>8
      <4> QED
        BY <1>6, <1>7, <1>8, <1>9, <4>1, <4>2
    <3>3. Loading'
      BY <1>1, <3>1 DEF Loading
    <3> QED
      BY <1>1, <1>2, <1>9, <2>1, <2>2, <2>3, <3>2, <3>3 DEF ScriptInv, LoadInv
<1>14. ReportsTheLastLoad'
  <2> DEFINE Sound(e) ==
               /\ e.of # "load" => e.content = results[1].content /\ e.asset = results[1].asset
               /\ e.content # e.asset => e.content > e.begun + 1
               /\ changed[e.reference] <= e.begun =>
                     e.asset = files[e.reference] /\ e.content = files[e.reference]
  <2>1. \A k \in DOMAIN results : Sound(results[k])
    BY DEF ScriptInv, ReportsTheLastLoad
  <2>2. Sound(r)
    <3>1. Sound(results[1])
      BY <1>6, <2>1
    <3> QED
      BY <1>7, <3>1
  <2>3. \A k \in DOMAIN results : results'[k] = results[k]
    BY <1>4, <1>8
  <2>4. \A k \in DOMAIN results' : Sound(results'[k])
    <3> HIDE DEF Sound
    <3> QED
      BY <1>8, <1>9, <2>1, <2>2, <2>3
  <2> QED
    BY <1>1, <1>9, <2>4 DEF ReportsTheLastLoad
<1>15. PrintInv'
  <2>1. Hidden' = Hidden /\ Hidden \in Nat
    BY <1>1, <1>5 DEF Hidden
  <2>2. Hidden + Len(printed) <= Len(results) /\ Kinds = Computed(at)
    BY <1>2 DEF ScriptInv, PrintInv
  <2>3. Hidden' + Len(printed') <= Len(results')
    BY <1>1, <1>4, <1>8, <2>1, <2>2
  <2>4. Kinds' = Kinds \cup {stage}
    <3>1. \A k \in DOMAIN results : results'[k].of = results[k].of /\ k \in DOMAIN results'
      BY <1>4, <1>8
    <3>2. results'[Len(results) + 1].of = stage /\ Len(results) + 1 \in DOMAIN results'
      BY <1>4, <1>7, <1>8
    <3> QED
      BY <1>9, <3>1, <3>2 DEF Kinds
  <2>5. Computed(at)' = Computed(at) \cup {stage}
    <3>1. Computed(at)' = {script.stages[j] : j \in 3 .. at} \ {"print"}
      <4>1. at' - 1 = at
        BY <1>1, <1>2
      <4> QED
        BY <1>1, <4>1 DEF Computed
    <3>2. 3 .. at = (3 .. at - 1) \cup {at}
      BY <1>2
    <3> QED
      BY <1>2, <3>1, <3>2 DEF Computed
  <2>6. \A k \in DOMAIN printed' : printed'[k] = results'[Hidden' + k]
    <3> SUFFICES ASSUME NEW k \in DOMAIN printed
                 PROVE  printed[k] = results'[Hidden + k]
      BY <1>1, <2>1
    <3>1. Hidden + k \in 1 .. Len(results)
      BY <1>4, <2>1, <2>2
    <3>2. printed[k] = results[Hidden + k]
      BY DEF ScriptInv, PrintInv
    <3> QED
      BY <1>8, <3>1, <3>2
  <2>7. at' # Len(script'.stages) + 1 /\ at' > 3 /\ ~(at' <= 3)
    BY <1>1, <1>2, <1>10
  <2>8. outcome' # "success"
    BY <1>1, <1>2
  <2> QED
    BY <2>2, <2>3, <2>4, <2>5, <2>6, <2>7, <2>8 DEF PrintInv
<1> QED
  BY <1>1, <1>2, <1>11, <1>12, <1>13, <1>14, <1>15, Running DEF ScriptInv, ending

(* The next of the results is printed. *)
LEMMA DisplayPreserves ==
    ASSUME ScriptInv, Display
    PROVE  ScriptInv'
<1>1. /\ UNCHANGED <<files, changes, changed, fixed, script, given, iterations, at, unseen, found,
                     references, loads, asset, begun, frame, results, outcome, cause>>
      /\ printed' = Append(printed, results[Due]) /\ Due \in DOMAIN results
  BY DEF Display, disk, input, search, work, ending
<1>2. /\ at \in Nat /\ at >= 4 /\ at <= Len(script.stages) /\ outcome = "running"
      /\ script \in Scripts
  BY Positions DEF Display, Doing
<1>3. results \in Seq(Results) /\ printed \in Seq(Results) /\ references \in Seq(Paths)
  BY DEF ScriptInv, TypeOK
<1>4. /\ Len(results) \in Nat /\ DOMAIN results = 1 .. Len(results)
      /\ Len(printed) \in Nat /\ DOMAIN printed = 1 .. Len(printed)
      /\ Len(references) \in Nat
  BY <1>3, LenProperties
<1>5. results[Due] \in Results
  BY <1>1, <1>3
<1>6. /\ printed' \in Seq(Results) /\ Len(printed') = Len(printed) + 1
      /\ DOMAIN printed' = 1 .. Len(printed) + 1
      /\ printed'[Len(printed) + 1] = results[Due]
      /\ \A k \in 1 .. Len(printed) : printed'[k] = printed[k]
  BY <1>1, <1>3, <1>5, Longer
<1>7. Len(script.stages) \in Nat
  BY <1>2, Programs
<1>8. TypeOK'
  BY <1>1, <1>6 DEF ScriptInv, TypeOK
<1>9. FindInv'
  <2>1. Below' = Below /\ Kept' = Kept /\ \A q : Exists(q)' = Exists(q)
    BY <1>1 DEF Below, Kept, Exists
  <2> QED
    BY <1>1, <2>1 DEF ScriptInv, FindInv, First
<1>10. LoadInv' /\ ReportsTheLastLoad'
  BY <1>1 DEF ScriptInv, LoadInv, Loading, Current, ReportsTheLastLoad
<1>11. PrintInv'
  <2>1. Hidden' = Hidden /\ Computed(at)' = Computed(at) /\ Kinds' = Kinds /\ Hidden \in Nat
    BY <1>1, <1>4 DEF Hidden, Computed, Kinds
  <2>2. Due = Hidden + Len(printed) + 1
    BY DEF Due
  <2>3. Hidden' + Len(printed') <= Len(results')
    BY <1>1, <1>4, <1>6, <2>1, <2>2
  <2>4. \A k \in DOMAIN printed' : printed'[k] = results'[Hidden' + k]
    <3> SUFFICES ASSUME NEW k \in DOMAIN printed'
                 PROVE  printed'[k] = results[Hidden + k]
      BY <1>1, <2>1
    <3>1. CASE k = Len(printed) + 1
      <4>1. Hidden + k = Due
        BY <1>4, <2>1, <2>2, <3>1
      <4> QED
        BY <1>6, <3>1, <4>1
    <3>2. CASE k # Len(printed) + 1
      <4>1. k \in DOMAIN printed
        BY <1>4, <1>6, <3>2
      <4> QED
        BY <1>4, <1>6, <4>1 DEF ScriptInv, PrintInv
    <3> QED
      BY <3>1, <3>2
  <2>5. at' # Len(script'.stages) + 1 /\ at' > 3 /\ ~(at' <= 3)
    BY <1>1, <1>2, <1>7
  <2>6. Kinds = Computed(at)
    BY <1>2 DEF ScriptInv, PrintInv
  <2>7. outcome' # "success"
    BY <1>1, <1>2
  <2> QED
    BY <2>1, <2>3, <2>4, <2>5, <2>6, <2>7 DEF PrintInv
<1> QED
  BY <1>1, <1>2, <1>8, <1>9, <1>10, <1>11, Running DEF ScriptInv, ending

(* A stage has printed all the results there are. *)
LEMMA DisplayedPreserves ==
    ASSUME ScriptInv, Displayed
    PROVE  ScriptInv'
<1>1. /\ UNCHANGED <<files, changes, changed, fixed, script, given, iterations, unseen, found,
                     references, loads, asset, begun, frame, results, printed, outcome, cause>>
      /\ at' = at + 1 /\ Due \notin DOMAIN results
  BY DEF Displayed, disk, input, search, work, ending
<1>2. /\ at \in Nat /\ at >= 4 /\ at <= Len(script.stages) /\ outcome = "running"
      /\ script \in Scripts /\ script.stages[at] = "print"
  BY Positions DEF Displayed, Doing
<1>3. results \in Seq(Results) /\ printed \in Seq(Results) /\ references \in Seq(Paths)
  BY DEF ScriptInv, TypeOK
<1>4. /\ Len(results) \in Nat /\ DOMAIN results = 1 .. Len(results)
      /\ Len(printed) \in Nat /\ Len(references) \in Nat
  BY <1>3, LenProperties
<1>5. Len(script.stages) \in Nat
  BY <1>2, Programs
<1>6. TypeOK'
  <2>1. loads = 0
    BY <1>2 DEF ScriptInv, TypeOK
  <2>2. at' \in 1 .. Len(script.stages) + 1
    BY <1>1, <1>2, <1>5
  <2> QED
    BY <1>1, <2>1, <2>2 DEF ScriptInv, TypeOK
<1>7. FindInv'
  <2>1. Below' = Below /\ Kept' = Kept /\ \A q : Exists(q)' = Exists(q)
    BY <1>1 DEF Below, Kept, Exists
  <2> QED
    BY <1>1, <1>2, <2>1 DEF ScriptInv, FindInv, First
<1>8. LoadInv' /\ ReportsTheLastLoad'
  <2>1. asset' = 0
    BY <1>1, <1>2 DEF ScriptInv, LoadInv, Loading
  <2> QED
    BY <1>1, <1>2, <2>1 DEF ScriptInv, LoadInv, Loading, ReportsTheLastLoad
<1>9. PrintInv'
  <2>1. Hidden' = Hidden /\ Kinds' = Kinds /\ Hidden \in Nat
    BY <1>1, <1>4 DEF Hidden, Kinds
  <2>2. Hidden + Len(printed) <= Len(results) /\ Kinds = Computed(at)
    BY <1>2 DEF ScriptInv, PrintInv
  <2>3. Hidden + Len(printed) = Len(results)
    <3>1. \A h, m, n \in Nat : h + m <= n /\ h + m + 1 \notin 1 .. n => h + m = n
      OBVIOUS
    <3>2. Hidden + Len(printed) + 1 \notin 1 .. Len(results)
      BY <1>1, <1>4 DEF Due
    <3> QED
      BY <1>4, <2>1, <2>2, <3>1, <3>2, Zenon
  <2>4. Computed(at)' = Computed(at)
    <3>1. Computed(at)' = {script.stages[j] : j \in 3 .. at} \ {"print"}
      <4>1. at' - 1 = at
        BY <1>1, <1>2
      <4> QED
        BY <1>1, <4>1 DEF Computed
    <3>2. 3 .. at = (3 .. at - 1) \cup {at}
      BY <1>2
    <3> QED
      BY <1>2, <3>1, <3>2 DEF Computed
  <2>5. at' > 3 /\ ~(at' <= 3) /\ outcome' # "success"
    BY <1>1, <1>2
  <2>6. \A k \in DOMAIN printed : printed[k] = results[Hidden + k]
    BY DEF ScriptInv, PrintInv
  <2> QED
    BY <1>1, <2>1, <2>2, <2>3, <2>4, <2>5, <2>6 DEF PrintInv
<1> QED
  BY <1>1, <1>2, <1>6, <1>7, <1>8, <1>9, Running DEF ScriptInv, ending

(* A stage fails, and with it the program. *)
LEMMA FailuresPreserve ==
    ASSUME ScriptInv,
           \/ TooFewIterations \/ NothingFound \/ Refuse \/ LookupFails \/ LoadFails
           \/ \E stage \in {"profile", "query"} : ComputeFails(stage)
           \/ DisplayFails
    PROVE  ScriptInv'
<1>1. \E error \in Errors : Raise(error)
  <2> USE DEF Errors, DomainErrors
  <2>1. CASE TooFewIterations
    BY <2>1 DEF TooFewIterations
  <2>2. CASE NothingFound
    BY <2>2 DEF NothingFound
  <2>3. CASE Refuse
    BY <2>3 DEF Refuse
  <2>4. CASE LookupFails
    BY <2>4 DEF LookupFails
  <2>5. CASE LoadFails
    BY <2>5 DEF LoadFails
  <2>6. CASE \E stage \in {"profile", "query"} : ComputeFails(stage)
    BY <2>6 DEF ComputeFails
  <2>7. CASE DisplayFails
    BY <2>7 DEF DisplayFails
  <2> QED
    BY <2>1, <2>2, <2>3, <2>4, <2>5, <2>6, <2>7
<1> QED
  BY <1>1, RaisePreserves

(* Nothing happens. *)
LEMMA StutteringPreserves ==
    ASSUME ScriptInv, UNCHANGED vars
    PROVE  ScriptInv'
<1>1. UNCHANGED <<disk, input, at, search, references, work, printed, outcome, cause>>
  BY DEF vars, ending
<1>2. TypeOK' /\ FindInv' /\ LoadInv' /\ ReportsTheLastLoad' /\ PrintInv'
  <2>1. outcome' \in {"running", "success", "error", "traceback", "usage"}
    BY <1>1 DEF ScriptInv, TypeOK
  <2>2. outcome' = "success" => at = Len(script.stages) + 1
    BY <1>1 DEF ScriptInv, PrintInv
  <2> QED
    BY <1>1, <2>1, <2>2, EndPreserves
<1> QED
  BY <1>1, <1>2 DEF ScriptInv, DomainErrorsAreReported

-----------------------------------------------------------------------------
(* The theorems. *)

(* A program begins in states that fulfil the invariant. *)
LEMMA InitialStates == Init => ScriptInv
<1> SUFFICES ASSUME Init
             PROVE  ScriptInv
  OBVIOUS
<1>1. /\ files \in [Paths -> {0, 1}] /\ changes = 0 /\ script \in Scripts /\ at = 1
      /\ given = <<>> /\ unseen = {} /\ found = {} /\ references = <<>>
      /\ iterations = 0 /\ loads = 0 /\ asset = 0 /\ begun = 0 /\ frame = 0 /\ results = <<>> /\ printed = <<>>
      /\ outcome = "running" /\ cause = "none" /\ changed = [p \in Paths |-> 0] /\ fixed = {}
  BY DEF Init
<1>2. Len(script.stages) \in Nat /\ Len(script.stages) >= 4
  BY <1>1, Programs
<1>3. MaxIterations \in Nat /\ MaxChanges \in Nat
  BY BoundsAssumption
<1>4. TypeOK
  BY <1>1, <1>2, <1>3 DEF TypeOK
<1>5. DomainErrorsAreReported
  BY <1>1 DEF DomainErrorsAreReported, DomainErrors
<1>6. FindInv
  BY <1>1 DEF FindInv
<1>7. LoadInv /\ ReportsTheLastLoad
  BY <1>1 DEF LoadInv, Loading, ReportsTheLastLoad
<1>8. PrintInv
  BY <1>1, <1>2 DEF PrintInv
<1> QED
  BY <1>1, <1>4, <1>5, <1>6, <1>7, <1>8 DEF ScriptInv

(* Whatever a program and the owner of the files do, the invariant holds.  *)
THEOREM ScriptInvariance == Spec => []ScriptInv
<1>1. ScriptInv /\ [Next]_vars => ScriptInv'
  <2> SUFFICES ASSUME ScriptInv, [Next]_vars
               PROVE  ScriptInv'
    OBVIOUS
  <2>1. CASE Step
    <3>1. CASE Usage \/ Parse \/ \E p \in Paths : Look(p)
      BY <3>1, UsagePreserves, ParsePreserves, LookPreserves
    <3>2. CASE Discovered \/ Resolve \/ Resolved \/ Describe \/ Load
      BY <3>2, DiscoveredPreserves, ResolvePreserves, ResolvedPreserves, DescribePreserves,
         LoadPreserves
    <3>3. CASE (\E stage \in {"profile", "query"} : Compute(stage))
               \/ Display \/ Displayed \/ Finish
      BY <3>3, ComputePreserves, DisplayPreserves, DisplayedPreserves, FinishPreserves
    <3>4. CASE \/ TooFewIterations \/ NothingFound \/ Refuse \/ LookupFails \/ LoadFails
               \/ \E stage \in {"profile", "query"} : ComputeFails(stage)
               \/ DisplayFails
      BY <3>4, FailuresPreserve
    <3> QED
      BY <2>1, <3>1, <3>2, <3>3, <3>4 DEF Step
  <2>2. CASE \E p \in Paths : Change(p)
    BY <2>2, ChangePreserves
  <2>3. CASE UNCHANGED vars
    BY <2>3, StutteringPreserves
  <2> QED
    BY <2>1, <2>2, <2>3 DEF Next
<1> QED
  BY <1>1, InitialStates, PTL DEF Spec

(* Every variable keeps its type. *)
THEOREM TypeCorrectness == Spec => []TypeOK
<1>1. ScriptInv => TypeOK
  BY DEF ScriptInv
<1> QED
  BY <1>1, ScriptInvariance, PTL

(* A program that succeeds has printed all of the results that it prints.  *)
LEMMA SuccessIsComplete ==
    ASSUME ScriptInv, outcome = "success"
    PROVE  /\ printed = SubSeq(results, Hidden + 1, Len(results))
           /\ script.prints = {printed[k].of : k \in DOMAIN printed}
<1>1. script \in Scripts /\ results \in Seq(Results) /\ printed \in Seq(Results)
      /\ references \in Seq(Paths)
  BY DEF ScriptInv, TypeOK
<1>2. at = Len(script.stages) + 1 /\ at >= 5 /\ Len(script.stages) \in Nat
  BY <1>1, Programs DEF ScriptInv, PrintInv
<1>3. /\ Len(results) \in Nat /\ DOMAIN results = 1 .. Len(results)
      /\ Len(printed) \in Nat /\ DOMAIN printed = 1 .. Len(printed)
      /\ Len(references) \in Nat
  BY <1>1, LenProperties
<1>4. Hidden \in Nat
  BY <1>3 DEF Hidden
<1>5. /\ Hidden + Len(printed) = Len(results) /\ Kinds = Computed(at)
      /\ \A k \in DOMAIN printed : printed[k] = results[Hidden + k]
  BY <1>2 DEF ScriptInv, PrintInv
<1>6. printed = SubSeq(results, Hidden + 1, Len(results))
  <2> DEFINE rest == SubSeq(results, Hidden + 1, Len(results))
  <2>1. /\ rest \in Seq(Results) /\ Len(rest) = Len(printed)
        /\ \A k \in 1 .. Len(printed) : rest[k] = results[Hidden + k]
    <3>1. /\ Hidden + 1 \in Int /\ Len(results) \in Int
          /\ \A k \in Hidden + 1 .. Len(results) : results[k] \in Results
      <4>1. \A k \in Hidden + 1 .. Len(results) : k \in DOMAIN results
        BY <1>3, <1>4
      <4> QED
        BY <1>1, <1>3, <1>4, <4>1
    <3>2. /\ rest \in Seq(Results)
          /\ Len(rest) = IF Hidden + 1 <= Len(results)
                         THEN Len(results) - (Hidden + 1) + 1 ELSE 0
          /\ \A k \in 1 .. Len(results) - (Hidden + 1) + 1 : rest[k] = results[Hidden + 1 + k - 1]
      BY <3>1, SubSeqProperties
    <3> HIDE DEF rest
    <3>3. \A k \in 1 .. Len(printed) :
             /\ k \in 1 .. Len(results) - (Hidden + 1) + 1
             /\ Hidden + 1 + k - 1 = Hidden + k
      BY <1>3, <1>4, <1>5
    <3>4. Len(rest) = Len(printed)
      <4>1. \A h, m, n \in Nat : h + m = n =>
               (IF h + 1 <= n THEN n - (h + 1) + 1 ELSE 0) = m
        OBVIOUS
      <4> QED
        BY <1>3, <1>4, <1>5, <3>2, <4>1, Zenon
    <3> QED
      BY <3>2, <3>3, <3>4
  <2> QED
    BY <1>1, <1>3, <1>5, <2>1, SeqEqual
<1>7. Kinds = Outputs(script)
  <2>1. Computed(at) = {script.stages[j] : j \in 3 .. Len(script.stages)} \ {"print"}
    BY <1>2 DEF Computed
  <2> QED
    BY <1>5, <2>1 DEF Outputs
<1>8. \A k \in DOMAIN results : (results[k].of = "load") <=> k <= Len(references)
  BY DEF ScriptInv, LoadInv
<1>9. Len(references) > 0 /\ Len(references) <= Len(results)
  BY <1>1, <1>2, <1>3, EmptySeq DEF ScriptInv, LoadInv
<1>10. script.prints = Outputs(script) \/ script.prints = Outputs(script) \ {"load"}
  BY <1>1, Programs
<1>11. "load" \in Kinds
  BY <1>3, <1>8, <1>9 DEF Kinds
<1>12. {printed[k].of : k \in DOMAIN printed} =
          {results[k].of : k \in Hidden + 1 .. Len(results)}
  <2>1. \A k \in DOMAIN printed : Hidden + k \in Hidden + 1 .. Len(results)
    BY <1>3, <1>4, <1>5
  <2>2. \A k \in Hidden + 1 .. Len(results) :
           k - Hidden \in DOMAIN printed /\ printed[k - Hidden] = results[k]
    BY <1>3, <1>4, <1>5
  <2>3. \A k \in DOMAIN printed : printed[k] = results[Hidden + k]
    BY <1>5
  <2> QED
    BY <2>1, <2>2, <2>3
<1>13. CASE "load" \in script.prints
  <2>1. script.prints = Outputs(script) /\ Hidden = 0
    BY <1>10, <1>13 DEF Hidden
  <2> QED
    BY <1>3, <1>6, <1>7, <1>12, <2>1 DEF Kinds
<1>14. CASE "load" \notin script.prints
  <2>1. script.prints = Outputs(script) \ {"load"} /\ Hidden = Len(references)
    BY <1>7, <1>10, <1>11, <1>14 DEF Hidden
  <2>2. {results[k].of : k \in Len(references) + 1 .. Len(results)} = Kinds \ {"load"}
    <3>1. \A k \in 1 .. Len(results) :
             k \in Len(references) + 1 .. Len(results) <=> results[k].of # "load"
      BY <1>3, <1>8
    <3> QED
      BY <1>3, <3>1 DEF Kinds
  <2> QED
    BY <1>6, <1>7, <1>12, <2>1, <2>2
<1> QED
  BY <1>6, <1>13, <1>14

(* Nothing is printed before everything asked for is loaded, and a program *)
(* succeeds only when it has printed all of it (main).                     *)
THEOREM PrintsAll == Spec => []PrintsWhatWasAsked
<1>1. ASSUME ScriptInv
      PROVE  PrintsWhatWasAsked
  <2>1. TypeOK
    BY <1>1 DEF ScriptInv
  <2>2. references \in Seq(Paths) /\ results \in Seq(Results)
        /\ given \in Seq(Paths \cup {Absolute}) /\ at \in Nat
    <3>1. Len(script.stages) \in Nat
      BY <2>1, Programs DEF TypeOK
    <3> QED
      BY <2>1, <3>1 DEF TypeOK
  <2>3. printed # <<>> => at > 3
    BY <1>1, <2>2 DEF ScriptInv, PrintInv
  <2>4. ASSUME at > 3, given # <<>>
        PROVE  references = given
    <3>1. /\ Len(references) = Len(given)
          /\ \A k \in DOMAIN references : references[k] = given[k]
      BY <1>1, <2>2, <2>4 DEF ScriptInv, FindInv
    <3>2. references \in Seq(Paths \cup {Absolute})
      BY <2>2
    <3> QED
      BY <2>2, <3>1, <3>2, SeqEqual
  <2>5. ASSUME at > 3, NEW k \in DOMAIN references
        PROVE  /\ k \in DOMAIN results
               /\ results[k].of = "load" /\ results[k].reference = references[k]
               /\ results[k].loads = iterations
    <3>1. k \in Nat /\ k <= Len(references)
      BY <2>2
    <3>2. k \in DOMAIN results
      <4>1. Len(references) <= Len(results)
        BY <1>1, <2>5 DEF ScriptInv, LoadInv
      <4> QED
        BY <2>2, <4>1
    <3> QED
      BY <1>1, <3>1, <3>2 DEF ScriptInv, LoadInv
  <2> QED
    BY <1>1, <2>1, <2>3, <2>4, <2>5, SuccessIsComplete DEF PrintsWhatWasAsked
<1> QED
  BY <1>1, ScriptInvariance, PTL

(* What is reported about a reference is what the last of its loads found: *)
(* what it described or a content written since, the file as it is if the  *)
(* owner has left it alone since then, and all that was computed from it   *)
(* is of the content that was parsed.                                      *)
THEOREM LastLoad == Spec => []ReportsTheLastLoad
<1>1. ScriptInv => ReportsTheLastLoad
  BY DEF ScriptInv
<1> QED
  BY <1>1, ScriptInvariance, PTL

(* Each main ends with a message for every error of the domain and for     *)
(* every other FileNotFoundError or ValueError, and with a traceback for   *)
(* other OSErrors and exceptions, and for nothing else.                    *)
THEOREM Reported == Spec => []DomainErrorsAreReported
<1>1. ScriptInv => DomainErrorsAreReported
  BY DEF ScriptInv
<1> QED
  BY <1>1, ScriptInvariance, PTL

(* discover_first_csv returns the first of the files that were there all   *)
(* the time it looked, in whatever order it came to them.                  *)
THEOREM FirstIsFound == Spec => []DiscoveryIsFirst
<1>1. ASSUME ScriptInv
      PROVE  DiscoveryIsFirst
  <2> SUFFICES ASSUME given = <<>>, references # <<>>
               PROVE  /\ references[1].directory \in script.below
                      /\ references[1].extension \in script.extensions
                      /\ \A p \in fixed : p.extension \in script.extensions =>
                            references[1].rank <= p.rank
    BY DEF DiscoveryIsFirst
  <2>1. unseen = {} /\ First(references[1])
    BY <1>1 DEF ScriptInv, FindInv
  <2>2. references[1] \in Kept
    BY <1>1, <2>1 DEF ScriptInv, FindInv, First
  <2>3. \A p \in fixed : p.extension \in script.extensions => p \in found
    BY <1>1, <2>1 DEF ScriptInv, FindInv, Kept
  <2> QED
    BY <2>1, <2>2, <2>3 DEF First, Kept, Below
<1> QED
  BY <1>1, ScriptInvariance, PTL
=============================================================================
