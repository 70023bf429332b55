-------------------------- MODULE AssetLoadingProofs --------------------------
(***************************************************************************)
(* Theorems about AssetLoading, for any loads, sizes of files and changes  *)
(* of the owner.  LoadingInv is inductive.                                 *)
(***************************************************************************)
EXTENDS AssetLoading, TLAPS

USE BoundsAssumption
USE DEF path, reading, asset, history

-----------------------------------------------------------------------------
(* Reads. *)

(* A read is a sequence of at most Chunks observations. *)
LEMMA ReadsAreSequences ==
  ASSUME NEW read \in Reads
  PROVE  /\ read \in Seq(Observation)
         /\ Len(read) \in 0 .. Chunks
         /\ DOMAIN read = 1 .. Len(read)
<1>1. PICK n \in 0 .. Chunks : read \in [1 .. n -> Observation]
  BY DEF Reads
<1> QED BY <1>1

(* Nothing is a read. *)
LEMMA EmptyIsRead == <<>> \in Reads
<1>1. <<>> \in [1 .. 0 -> Observation] OBVIOUS
<1> QED BY <1>1 DEF Reads

(* So is a whole file. *)
LEMMA WholeFileIsRead == [1 .. Chunks -> Observation] \subseteq Reads
<1>1. Chunks \in 0 .. Chunks OBVIOUS
<1> QED BY <1>1 DEF Reads

(* So is a read with one chunk more. *)
LEMMA AppendIsRead ==
  ASSUME NEW read \in Reads, Len(read) < Chunks, NEW chunk \in Observation
  PROVE  /\ Append(read, chunk) \in Reads
         /\ Len(Append(read, chunk)) = Len(read) + 1
         /\ \A k \in 1 .. Len(read) : Append(read, chunk)[k] = read[k]
         /\ Append(read, chunk)[Len(read) + 1] = chunk
<1>1. read \in Seq(Observation) /\ Len(read) \in 0 .. Chunks
  BY ReadsAreSequences
<1> DEFINE more == Append(read, chunk)
<1>2. /\ more \in Seq(Observation) /\ Len(more) = Len(read) + 1
      /\ \A k \in 1 .. Len(read) : more[k] = read[k]
      /\ more[Len(read) + 1] = chunk
  BY <1>1
<1> HIDE DEF more
<1>3. more \in [1 .. Len(more) -> Observation] /\ Len(more) \in 0 .. Chunks
  BY <1>1, <1>2
<1>4. more \in Reads
  BY <1>3 DEF Reads
<1> QED BY <1>2, <1>4 DEF more

(* The file as it is now. *)
Content == [k \in 1 .. Chunks |-> Chunk(inode, k)]

(* A chunk of a file is an observation that names its file. *)
LEMMA ChunkIsObservation ==
  ASSUME TypeOK, NEW i \in Inodes, NEW k \in 1 .. Chunks
  PROVE  Chunk(i, k) \in Observation /\ Chunk(i, k).inode = i /\ Chunk(i, k).chunk = k
  BY DEF TypeOK, Chunk, Observation

-----------------------------------------------------------------------------
(* The invariant.  What a load knows at each of its system calls: that it  *)
(* has seen what the path names now; that it once found a regular file;    *)
(* that the open handle, and every chunk read from it, belong to one file  *)
(* that the path named; and, while nobody touched the path, that what was  *)
(* seen so far is what the path holds.                                     *)

Checked == {"stat", "open_hash", "hash", "exists_again", "is_file_again", "open", "parse"}
Sized   == Checked \ {"stat"}
Hashed  == {"exists_again", "is_file_again", "open", "parse"}
Reading == {"hash", "parse"}

Unfinished(l) ==
    /\ pc[l] # "done" => outcome[l] = "none"
    /\ pc[l] = "begin" => size[l] = <<>> /\ digest[l] = <<>> /\ data[l] = <<>>

Watched(l) ==
    /\ Running(l) => kind \in kinds[l] /\ (kind = "file" => inode \in inodes[l])
    /\ pc[l] \in Checked => "file" \in kinds[l]

OneHandle(l) ==
    /\ pc[l] \notin Reading => got[l] = <<>>
    /\ pc[l] \in Reading =>
          /\ handle[l] \in inodes[l]
          /\ \A k \in 1 .. Len(got[l]) : got[l][k].inode = handle[l] /\ got[l][k].chunk = k

Untouched(l) ==
    stable[l] =>
        /\ pc[l] \in Checked => kind = "file"
        /\ pc[l] \in Sized => size[l] = Content
        /\ pc[l] \in Hashed => digest[l] = Content
        /\ pc[l] \in Reading =>
              /\ handle[l] = inode
              /\ \A k \in 1 .. Len(got[l]) : got[l][k] = Chunk(inode, k)

LoadInv(l) == Unfinished(l) /\ Watched(l) /\ OneHandle(l) /\ Untouched(l)

LoadingInv ==
    /\ TypeOK
    /\ kind = "file" => inode \in Inodes
    /\ \A l \in Loads : LoadInv(l)
    /\ QuiescentLoadAgrees /\ OneFilePerRead /\ ErrorsHaveCauses

(* At the start no load has begun. *)
LEMMA InitEstablishesLoadingInv == Init => LoadingInv
<1> SUFFICES ASSUME Init PROVE LoadingInv OBVIOUS
<1> USE DEF Init
<1>1. TypeOK
  BY EmptyIsRead DEF TypeOK, Inodes, Labels, Outcomes
<1>2. kind = "file" => inode \in Inodes
  BY DEF Inodes
<1>3. ASSUME NEW l \in Loads PROVE LoadInv(l)
    BY
       DEF LoadInv, Unfinished, Watched, OneHandle, Untouched, Running,
         Checked, Sized, Hashed,
     Reading
<1>4. QuiescentLoadAgrees /\ OneFilePerRead /\ ErrorsHaveCauses
  BY DEF QuiescentLoadAgrees, OneFilePerRead, ErrorsHaveCauses
<1> QED BY <1>1, <1>2, <1>3, <1>4 DEF LoadingInv

-----------------------------------------------------------------------------
(* An operation changes nothing but itself. *)

Same(u) ==
    /\ pc'[u] = pc[u] /\ handle'[u] = handle[u] /\ got'[u] = got[u]
    /\ size'[u] = size[u] /\ digest'[u] = digest[u] /\ data'[u] = data[u]
    /\ outcome'[u] = outcome[u] /\ kinds'[u] = kinds[u] /\ inodes'[u] = inodes[u]
    /\ stable'[u] = stable[u]

(* What the three properties say of one operation. *)
Truthful(l) ==
    /\ stable[l] => /\ outcome[l] \in {"described", "loaded"} => digest[l] = size[l]
                    /\ outcome[l] = "loaded" => data[l] = digest[l]
    /\ \A read \in {digest[l], data[l]} :
          read # <<>> => \E i \in inodes[l] : \A k \in 1 .. Chunks :
                            read[k].inode = i /\ read[k].chunk = k
    /\ outcome[l] = "StorageAssetNotFoundError" => "absent" \in kinds[l]
    /\ outcome[l] = "InvalidStorageReferenceError" => kinds[l] # {"file"}
    /\ outcome[l] = "FileNotFoundError" => {"file", "absent"} \subseteq kinds[l]

(* The properties, one load at a time. *)
LEMMA TruthfulIsProperties ==
  (\A l \in Loads : Truthful(l)) <=>
      QuiescentLoadAgrees /\ OneFilePerRead /\ ErrorsHaveCauses
  BY DEF Truthful, QuiescentLoadAgrees, OneFilePerRead, ErrorsHaveCauses

(* A load changes neither the path nor another load. *)
LEMMA OperationFrame ==
  ASSUME TypeOK, NEW l \in Loads, Operation(l)
  PROVE  UNCHANGED <<kind, inode, stamps>> /\ \A u \in Loads \ {l} : Same(u)
<1> USE DEF TypeOK, Return, Goto, Same
<1>1. CASE Refuse(l) BY <1>1 DEF Refuse
<1>2. CASE Begin(l) BY <1>2 DEF Begin
<1>3. CASE Exists(l) BY <1>3 DEF Exists
<1>4. CASE IsFile(l) BY <1>4 DEF IsFile
<1>5. CASE Stat(l) BY <1>5 DEF Stat
<1>6. CASE Open(l) BY <1>6 DEF Open
<1>7. CASE ReadChunk(l) BY <1>7 DEF ReadChunk
<1>8. CASE FinishHash(l) BY <1>8 DEF FinishHash
<1>9. CASE Parse(l) BY <1>9 DEF Parse
<1>10. CASE ReadFails(l) BY <1>10 DEF ReadFails
<1> QED
  BY <1>1, <1>2, <1>3, <1>4, <1>5, <1>6, <1>7, <1>8, <1>9, <1>10 DEF Operation

(* What the other loads know stays true. *)
LEMMA OthersKeepLoadInv ==
  ASSUME LoadingInv, NEW l \in Loads, Operation(l), NEW u \in Loads \ {l}
  PROVE  LoadInv(u)' /\ Truthful(u)'
<1>1. UNCHANGED <<kind, inode, stamps>> /\ Same(u)
  BY OperationFrame DEF LoadingInv
<1>2. LoadInv(u) /\ Truthful(u)
  BY TruthfulIsProperties DEF LoadingInv
<1>3. LoadInv(u)'
    BY <1>1, <1>2
       DEF LoadInv, Unfinished, Watched, OneHandle, Untouched, Running,
         Content, Chunk,
     Same
<1>4. Truthful(u)'
  BY <1>1, <1>2 DEF Truthful, Same
<1> QED BY <1>3, <1>4

-----------------------------------------------------------------------------
(* The operation itself. *)

(* What a return leaves behind. *)
LEMMA ReturnTypes ==
  ASSUME TypeOK, NEW l \in Loads, NEW result \in Outcomes, Return(l, result)
  PROVE  /\ pc' \in [Loads -> Labels] /\ pc'[l] = "done"
         /\ outcome' \in [Loads -> Outcomes] /\ outcome'[l] = result
         /\ handle' \in [Loads -> 0 .. MaxFiles]
         /\ got' \in [Loads -> Reads]
         /\ got'[l] = <<>>
  BY EmptyIsRead DEF TypeOK, Return, Goto, Labels

(* A load keeps the types. *)
LEMMA OperationTypes ==
  ASSUME LoadingInv, NEW l \in Loads, Operation(l)
  PROVE  TypeOK'
<1> USE DEF LoadingInv, TypeOK
<1>0. UNCHANGED <<kind, inode, stamps>>
  BY OperationFrame
<1>1. CASE Refuse(l)
  <2>1. PICK result \in {"LoadError", "InvalidStorageReferenceError", "ValueError"} :
         Return(l, result)
    BY <1>1 DEF Refuse
  <2>2. result \in Outcomes BY DEF Outcomes
  <2>3. kinds' \in [Loads -> SUBSET {"absent", "file", "directory", "refused"}]
    BY <1>1 DEF Refuse
  <2> QED BY <1>0, <1>1, <2>1, <2>2, <2>3, ReturnTypes DEF Refuse
<1>2. CASE Begin(l)
  <2>1. pc' \in [Loads -> Labels] BY <1>2 DEF Begin, Goto, Labels
  <2>2. kinds' \in [Loads -> SUBSET {"absent", "file", "directory", "refused"}]
    BY <1>2 DEF Begin
  <2>3. inodes' \in [Loads -> SUBSET Inodes] BY <1>2 DEF Begin
  <2> QED BY <1>0, <1>2, <2>1, <2>2, <2>3 DEF Begin
<1>3. CASE Exists(l) \/ IsFile(l)
  <2>1. UNCHANGED <<size, digest, data, kinds, inodes, stable>>
    BY <1>3 DEF Exists, IsFile
  <2>2. CASE \E result \in Outcomes : Return(l, result)
    BY <1>0, <2>1, <2>2, ReturnTypes
  <2>3. CASE \E label \in Labels : Goto(l, label) /\ UNCHANGED <<handle, got, outcome>>
    BY <1>0, <2>1, <2>3 DEF Goto
  <2> QED BY <1>3, <2>2, <2>3 DEF Exists, IsFile, Labels, Outcomes
<1>4. CASE Stat(l)
  <2>1. UNCHANGED <<digest, data, kinds, inodes, stable>>
    BY <1>4 DEF Stat
  <2>2. CASE Return(l, "FileNotFoundError") /\ UNCHANGED size
    <3>1. "FileNotFoundError" \in Outcomes BY DEF Outcomes
    <3> QED BY <1>0, <2>1, <2>2, <3>1, ReturnTypes
  <2>3. CASE /\ Goto(l, "open_hash") /\ UNCHANGED <<handle, got, outcome>>
             /\ size' = [size EXCEPT ![l] =
                   IF kind = "file" THEN [k \in 1 .. Chunks |-> Chunk(inode, k)] ELSE <<>>]
    <3>1. kind = "file" => [k \in 1 .. Chunks |-> Chunk(inode, k)] \in [1 .. Chunks -> Observation]
      BY ChunkIsObservation
    <3>2. kind = "file" => [k \in 1 .. Chunks |-> Chunk(inode, k)] \in Reads
      BY <3>1, WholeFileIsRead
    <3>3. size' \in [Loads -> Reads]
      BY <2>3, <3>2, EmptyIsRead
    <3>4. pc' \in [Loads -> Labels] BY <2>3 DEF Goto, Labels
    <3> QED BY <1>0, <2>1, <2>3, <3>3, <3>4
  <2> QED BY <1>4, <2>2, <2>3 DEF Stat
<1>5. CASE Open(l)
  <2>1. UNCHANGED <<size, digest, data, kinds, inodes, stable>>
    BY <1>5 DEF Open
  <2>2. CASE \E result \in Outcomes : Return(l, result)
    BY <1>0, <2>1, <2>2, ReturnTypes
  <2>3. CASE /\ kind = "file" /\ handle' = [handle EXCEPT ![l] = inode]
             /\ \E label \in Labels : Goto(l, label)
             /\ UNCHANGED <<got, outcome>>
    BY <1>0, <2>1, <2>3 DEF Goto
  <2> QED BY <1>5, <2>2, <2>3 DEF Open, Labels, Outcomes
<1>7. CASE FinishHash(l)
  <2>1. UNCHANGED <<size, data, kinds, inodes, stable>> /\ digest' \in [Loads -> Reads]
    BY <1>7 DEF FinishHash
  <2>2. CASE Return(l, "described")
    <3>1. "described" \in Outcomes BY DEF Outcomes
    <3> QED BY <1>0, <2>1, <2>2, <3>1, ReturnTypes
  <2>3. CASE /\ Goto(l, "exists_again") /\ UNCHANGED outcome
             /\ handle' = [handle EXCEPT ![l] = 0] /\ got' = [got EXCEPT ![l] = <<>>]
    <3>1. pc' \in [Loads -> Labels] BY <2>3 DEF Goto, Labels
    <3>2. got' \in [Loads -> Reads] BY <2>3, EmptyIsRead
    <3>3. handle' \in [Loads -> 0 .. MaxFiles] BY <2>3
    <3> QED BY <1>0, <2>1, <2>3, <3>1, <3>2, <3>3
  <2> QED BY <1>7, <2>2, <2>3 DEF FinishHash
<1>8. CASE Parse(l)
  <2>1. UNCHANGED <<size, digest, kinds, inodes, stable>> /\ data' \in [Loads -> Reads]
    BY <1>8 DEF Parse
  <2>2. PICK result \in Outcomes : Return(l, result)
    BY <1>8 DEF Parse, Outcomes
  <2> QED BY <1>0, <2>1, <2>2, ReturnTypes
<1>9. CASE ReadFails(l)
  <2>1. "OSError" \in Outcomes BY DEF Outcomes
  <2> QED BY <1>0, <1>9, <2>1, ReturnTypes DEF ReadFails
<1>10. CASE ReadChunk(l)
  <2>1. /\ pc[l] \in Reading /\ Len(got[l]) < Chunks
        /\ got' = [got EXCEPT ![l] = Append(@, Chunk(handle[l], Len(@) + 1))]
        /\ UNCHANGED <<pc, handle, size, digest, data, outcome, kinds, inodes, stable>>
    BY <1>10 DEF ReadChunk, Reading
  <2>2. handle[l] \in Inodes
    BY <2>1 DEF LoadInv, OneHandle
  <2>3. got[l] \in Reads /\ Len(got[l]) + 1 \in 1 .. Chunks
    BY <2>1, ReadsAreSequences
  <2>4. Chunk(handle[l], Len(got[l]) + 1) \in Observation
    BY <2>2, <2>3, ChunkIsObservation
  <2>5. Append(got[l], Chunk(handle[l], Len(got[l]) + 1)) \in Reads
    BY <2>1, <2>3, <2>4, AppendIsRead
  <2> QED BY <1>0, <2>1, <2>5
<1> QED BY <1>1, <1>2, <1>3, <1>4, <1>5, <1>7, <1>8, <1>9, <1>10 DEF Operation

(* An operation that has ended knows nothing any more. *)
LEMMA EndedKeepsLoadInv ==
  ASSUME NEW l \in Loads, pc'[l] = "done", got'[l] = <<>>
  PROVE  LoadInv(l)'
    BY
       DEF LoadInv, Unfinished, Watched, OneHandle, Untouched, Running,
         Checked, Sized, Hashed,
     Reading

(* The lexical refusal of a reference. *)
LEMMA RefuseIsTruthful ==
  ASSUME LoadingInv, NEW l \in Loads, Refuse(l)
  PROVE  LoadInv(l)' /\ Truthful(l)'
<1> USE DEF LoadingInv
<1>1. PICK result \in {"LoadError", "InvalidStorageReferenceError", "ValueError"} :
         Return(l, result)
  BY DEF Refuse
<1>2. result \in Outcomes BY DEF Outcomes
<1>3. pc'[l] = "done" /\ got'[l] = <<>> /\ outcome'[l] = result
  BY <1>1, <1>2, ReturnTypes
<1>4. kinds'[l] = {"refused"} /\ UNCHANGED <<digest, data>>
  BY DEF Refuse, TypeOK
<1>5. digest[l] = <<>> /\ data[l] = <<>>
  BY DEF Refuse, LoadInv, Unfinished
<1>6. Truthful(l)'
  BY <1>3, <1>4, <1>5 DEF Truthful
<1> QED BY <1>3, <1>6, EndedKeepsLoadInv

(* The beginning of an operation. *)
LEMMA BeginIsTruthful ==
  ASSUME LoadingInv, NEW l \in Loads, Begin(l)
  PROVE  LoadInv(l)' /\ Truthful(l)'
<1> USE DEF LoadingInv
<1>1. /\ pc[l] = "begin" /\ pc'[l] = "exists" /\ kinds'[l] = {kind}
      /\ inodes'[l] = IF kind = "file" THEN {inode} ELSE {}
      /\ UNCHANGED <<kind, inode, stamps, handle, got, size, digest, data, outcome, stable>>
  BY DEF Begin, Goto, TypeOK
<1>2. /\ digest[l] = <<>> /\ data[l] = <<>> /\ got[l] = <<>> /\ outcome[l] = "none"
  BY <1>1 DEF LoadInv, Unfinished, OneHandle, Reading
<1>3. LoadInv(l)'
    BY <1>1, <1>2
       DEF LoadInv, Unfinished, Watched, OneHandle, Untouched, Running,
         Checked, Sized,
     Hashed, Reading
<1>4. Truthful(l)'
  BY <1>1, <1>2 DEF Truthful
<1> QED BY <1>3, <1>4

(* A check of the path ends with an error that is true, or goes on to a    *)
(* call that knows no more than that the path is there, or is a file.      *)
LEMMA CheckIsTruthful ==
  ASSUME LoadingInv, NEW l \in Loads, Exists(l) \/ IsFile(l)
  PROVE  LoadInv(l)' /\ Truthful(l)'
<1> USE DEF LoadingInv
<1>1. UNCHANGED <<kind, inode, stamps, size, digest, data, kinds, inodes, stable>>
  BY DEF Exists, IsFile
<1>2. LoadInv(l) /\ Truthful(l)
  BY TruthfulIsProperties
<1>3. kind \in kinds[l] /\ (kind = "file" => inode \in inodes[l])
  BY <1>2 DEF LoadInv, Watched, Running, Exists, IsFile
<1>4. CASE \/ kind = "absent" /\ Return(l, "StorageAssetNotFoundError")
           \/ kind # "file" /\ Return(l, "InvalidStorageReferenceError")
  <2>1. PICK result \in Outcomes :
           /\ Return(l, result)
           /\ \/ result = "StorageAssetNotFoundError" /\ kind = "absent"
              \/ result = "InvalidStorageReferenceError" /\ kind # "file"
    BY <1>4 DEF Outcomes
  <2>2. pc'[l] = "done" /\ got'[l] = <<>> /\ outcome'[l] = result
    BY <2>1, ReturnTypes
  <2>3. Truthful(l)'
    BY <1>1, <1>2, <1>3, <2>1, <2>2 DEF Truthful
  <2> QED BY <2>2, <2>3, EndedKeepsLoadInv
<1>5. CASE /\ UNCHANGED <<handle, got, outcome>>
           /\ \/ pc[l] = "exists" /\ pc'[l] = "is_file"
              \/ pc[l] = "exists_again" /\ pc'[l] = "is_file_again"
              \/ pc[l] = "is_file" /\ pc'[l] = "stat" /\ kind = "file"
              \/ pc[l] = "is_file_again" /\ pc'[l] = "open" /\ kind = "file"
  <2>1. LoadInv(l)'
      BY <1>1, <1>2, <1>3, <1>5
         DEF LoadInv, Unfinished, Watched, OneHandle, Untouched, Running,
       Content, Chunk, Checked, Sized, Hashed, Reading
  <2>2. Truthful(l)'
    BY <1>1, <1>2, <1>5 DEF Truthful
  <2> QED BY <2>1, <2>2
<1> QED BY <1>4, <1>5 DEF Exists, IsFile, Goto, TypeOK

(* The call of stat. *)
LEMMA StatIsTruthful ==
  ASSUME LoadingInv, NEW l \in Loads, Stat(l)
  PROVE  LoadInv(l)' /\ Truthful(l)'
<1> USE DEF LoadingInv
<1>1. pc[l] = "stat" /\ UNCHANGED <<kind, inode, stamps, digest, data, kinds, inodes, stable>>
  BY DEF Stat
<1>2. LoadInv(l) /\ Truthful(l)
  BY TruthfulIsProperties
<1>3. /\ kind \in kinds[l] /\ (kind = "file" => inode \in inodes[l]) /\ "file" \in kinds[l]
      /\ outcome[l] = "none" /\ got[l] = <<>> /\ (stable[l] => kind = "file")
    BY <1>1, <1>2
       DEF LoadInv, Unfinished, Watched, OneHandle, Untouched, Running,
         Checked, Reading
<1>4. CASE kind = "absent"
  <2>1. Return(l, "FileNotFoundError") /\ UNCHANGED size
    BY <1>4 DEF Stat
  <2>2. pc'[l] = "done" /\ got'[l] = <<>> /\ outcome'[l] = "FileNotFoundError"
    BY <2>1, ReturnTypes DEF Outcomes
  <2>3. Truthful(l)'
    BY <1>1, <1>2, <1>3, <1>4, <2>1, <2>2 DEF Truthful
  <2> QED BY <2>2, <2>3, EndedKeepsLoadInv
<1>5. CASE kind # "absent"
  <2>1. /\ pc'[l] = "open_hash" /\ UNCHANGED <<handle, got, outcome>>
        /\ size'[l] = IF kind = "file" THEN Content ELSE <<>>
    BY <1>5 DEF Stat, Goto, TypeOK, Content
  <2>2. Content' = Content
    BY <1>1 DEF Content, Chunk
  <2>3. LoadInv(l)'
      BY <1>1, <1>3, <2>1, <2>2
         DEF LoadInv, Unfinished, Watched, OneHandle, Untouched, Running,
       Checked, Sized, Hashed, Reading
  <2>4. Truthful(l)'
    BY <1>1, <1>2, <1>3, <2>1 DEF Truthful
  <2> QED BY <2>3, <2>4
<1> QED BY <1>4, <1>5

(* The calls of open, in describe and in open_binary. *)
LEMMA OpenIsTruthful ==
  ASSUME LoadingInv, NEW l \in Loads, Open(l)
  PROVE  LoadInv(l)' /\ Truthful(l)'
<1> USE DEF LoadingInv
<1>1. /\ pc[l] \in {"open_hash", "open"}
      /\ UNCHANGED <<kind, inode, stamps, size, digest, data, kinds, inodes, stable>>
  BY DEF Open
<1>2. LoadInv(l) /\ Truthful(l)
  BY TruthfulIsProperties
<1>3. /\ kind \in kinds[l] /\ (kind = "file" => inode \in inodes[l]) /\ "file" \in kinds[l]
      /\ outcome[l] = "none" /\ got[l] = <<>>
    BY <1>1, <1>2
       DEF LoadInv, Unfinished, Watched, OneHandle, Running, Checked, Reading
<1>4. CASE \/ kind = "absent" /\ Return(l, "FileNotFoundError")
           \/ kind = "directory" /\ Return(l, "OSError")
  <2>1. PICK result \in Outcomes :
           /\ Return(l, result)
           /\ result = "OSError" \/ (result = "FileNotFoundError" /\ kind = "absent")
    BY <1>4 DEF Outcomes
  <2>2. pc'[l] = "done" /\ got'[l] = <<>> /\ outcome'[l] = result
    BY <2>1, ReturnTypes
  <2>3. Truthful(l)'
    BY <1>1, <1>2, <1>3, <2>1, <2>2 DEF Truthful
  <2> QED BY <2>2, <2>3, EndedKeepsLoadInv
<1>5. CASE /\ kind = "file" /\ handle'[l] = inode
           /\ pc'[l] = IF pc[l] = "open" THEN "parse" ELSE "hash"
           /\ UNCHANGED <<got, outcome>>
  <2>1. Content' = Content
    BY <1>1 DEF Content, Chunk
  <2>2. stable[l] => size[l] = Content /\ (pc[l] = "open" => digest[l] = Content)
    BY <1>1, <1>2 DEF LoadInv, Untouched, Sized, Hashed, Checked
  <2>3. LoadInv(l)'
      BY <1>1, <1>3, <1>5, <2>1, <2>2
         DEF LoadInv, Unfinished, Watched, OneHandle, Untouched,
       Running, Checked, Sized, Hashed, Reading
  <2>4. Truthful(l)'
    BY <1>1, <1>2, <1>5 DEF Truthful
  <2> QED BY <2>3, <2>4
<1> QED BY <1>4, <1>5 DEF Open, Goto, TypeOK

(* A chunk that is read is of the file that was opened. *)
LEMMA ReadChunkIsTruthful ==
  ASSUME LoadingInv, NEW l \in Loads, ReadChunk(l)
  PROVE  LoadInv(l)' /\ Truthful(l)'
<1> USE DEF LoadingInv
<1> DEFINE n == Len(got[l])
           chunk == Chunk(handle[l], n + 1)
<1>1. /\ pc[l] \in Reading /\ n < Chunks
      /\ got' = [got EXCEPT ![l] = Append(@, Chunk(handle[l], Len(@) + 1))]
      /\ UNCHANGED <<kind, inode, stamps, pc, handle, size, digest, data, outcome, kinds, inodes,
                     stable>>
  BY DEF ReadChunk, Reading
<1>2. LoadInv(l) /\ Truthful(l)
  BY TruthfulIsProperties
<1>3. /\ handle[l] \in inodes[l] /\ handle[l] \in Inodes
      /\ \A k \in 1 .. n : got[l][k].inode = handle[l] /\ got[l][k].chunk = k
  BY <1>1, <1>2 DEF LoadInv, OneHandle, TypeOK
<1>4. got[l] \in Reads /\ n \in Nat /\ n + 1 \in 1 .. Chunks
  BY <1>1, ReadsAreSequences DEF TypeOK
<1>5. chunk \in Observation /\ chunk.inode = handle[l] /\ chunk.chunk = n + 1
  BY <1>3, <1>4, ChunkIsObservation
<1>6. got'[l] = Append(got[l], chunk)
  BY <1>1 DEF TypeOK
<1>7. /\ Len(got'[l]) = n + 1
      /\ \A k \in 1 .. n : got'[l][k] = got[l][k]
      /\ got'[l][n + 1] = chunk
  BY <1>1, <1>4, <1>5, <1>6, AppendIsRead
<1>8. OneHandle(l)'
  BY <1>1, <1>3, <1>4, <1>5, <1>7 DEF OneHandle
<1>9. Untouched(l)'
  <2>1. Content' = Content /\ \A i, k : Chunk(i, k)' = Chunk(i, k)
    BY <1>1 DEF Content, Chunk
  <2>2. stable[l] => /\ handle[l] = inode
                     /\ \A k \in 1 .. n : got[l][k] = Chunk(inode, k)
    BY <1>1, <1>2 DEF LoadInv, Untouched
  <2>3. stable[l] => \A k \in 1 .. (n + 1) : got'[l][k] = Chunk(inode, k)
    <3>1. 1 .. (n + 1) = (1 .. n) \cup {n + 1} BY <1>4
    <3>2. stable[l] => got'[l][n + 1] = Chunk(inode, n + 1) BY <1>7, <2>2
    <3> HIDE DEF n, chunk
    <3> QED BY <1>7, <2>2, <3>1, <3>2
  <2> HIDE DEF n, chunk
  <2> QED BY <1>1, <1>2, <1>7, <2>1, <2>2, <2>3 DEF LoadInv, Untouched
<1>10. Unfinished(l)' /\ Watched(l)'
  BY <1>1, <1>2 DEF LoadInv, Unfinished, Watched, Running
<1>11. Truthful(l)'
  BY <1>1, <1>2 DEF Truthful
<1> QED BY <1>8, <1>9, <1>10, <1>11 DEF LoadInv

(* What was read when the end of the file is reached. *)
LEMMA WholeRead ==
  ASSUME LoadingInv, NEW l \in Loads, pc[l] \in Reading, Len(got[l]) = Chunks
  PROVE  /\ \E i \in inodes[l] : \A k \in 1 .. Chunks :
               got[l][k].inode = i /\ got[l][k].chunk = k
         /\ stable[l] => got[l] = Content
<1> USE DEF LoadingInv
<1>1. LoadInv(l)
  OBVIOUS
<1>2. got[l] \in Reads
  BY DEF TypeOK
<1>3. DOMAIN got[l] = 1 .. Chunks /\ got[l] \in Seq(Observation)
  BY <1>2, ReadsAreSequences
<1>4. ASSUME stable[l] PROVE got[l] = Content
  <2>1. \A k \in 1 .. Chunks : got[l][k] = Chunk(inode, k)
    BY <1>1, <1>4 DEF LoadInv, Untouched
  <2>2. got[l] = [k \in 1 .. Chunks |-> got[l][k]]
    BY <1>3
  <2> QED BY <2>1, <2>2 DEF Content
<1> QED BY <1>1, <1>4 DEF LoadInv, OneHandle

(* The end of the digest. *)
LEMMA FinishHashIsTruthful ==
  ASSUME LoadingInv, NEW l \in Loads, FinishHash(l)
  PROVE  LoadInv(l)' /\ Truthful(l)'
<1> USE DEF LoadingInv
<1>1. /\ pc[l] = "hash" /\ Len(got[l]) = Chunks /\ digest'[l] = got[l]
      /\ UNCHANGED <<kind, inode, stamps, size, data, kinds, inodes, stable>>
  BY DEF FinishHash, TypeOK
<1>2. LoadInv(l) /\ Truthful(l)
  BY TruthfulIsProperties
<1>3. /\ \E i \in inodes[l] : \A k \in 1 .. Chunks :
            got[l][k].inode = i /\ got[l][k].chunk = k
      /\ stable[l] => got[l] = Content
  BY <1>1, WholeRead DEF Reading
<1>4. /\ kind \in kinds[l] /\ (kind = "file" => inode \in inodes[l]) /\ "file" \in kinds[l]
      /\ outcome[l] = "none"
      /\ stable[l] => kind = "file" /\ size[l] = Content
    BY <1>1, <1>2
       DEF LoadInv, Unfinished, Watched, Untouched, Running, Checked, Sized
<1>5. Content' = Content
  BY <1>1 DEF Content, Chunk
<1>6. CASE Return(l, "described")
  <2>1. pc'[l] = "done" /\ got'[l] = <<>> /\ outcome'[l] = "described"
    BY <1>6, ReturnTypes DEF Outcomes
  <2>2. Truthful(l)'
    BY <1>1, <1>2, <1>3, <1>4, <2>1 DEF Truthful
  <2> QED BY <2>1, <2>2, EndedKeepsLoadInv
<1>7. CASE pc'[l] = "exists_again" /\ got'[l] = <<>> /\ UNCHANGED outcome
  <2>1. LoadInv(l)'
      BY <1>1, <1>3, <1>4, <1>5, <1>7
         DEF LoadInv, Unfinished, Watched, OneHandle, Untouched,
       Running, Checked, Sized, Hashed, Reading
  <2>2. Truthful(l)'
    BY <1>1, <1>2, <1>3, <1>4, <1>7 DEF Truthful
  <2> QED BY <2>1, <2>2
<1> QED BY <1>6, <1>7 DEF FinishHash, Goto, TypeOK

(* The end of the parse. *)
LEMMA ParseIsTruthful ==
  ASSUME LoadingInv, NEW l \in Loads, Parse(l)
  PROVE  LoadInv(l)' /\ Truthful(l)'
<1> USE DEF LoadingInv
<1>1. /\ pc[l] = "parse" /\ Len(got[l]) = Chunks
      /\ UNCHANGED <<kind, inode, stamps, size, digest, kinds, inodes, stable>>
  BY DEF Parse
<1>2. LoadInv(l) /\ Truthful(l)
  BY TruthfulIsProperties
<1>3. /\ \E i \in inodes[l] : \A k \in 1 .. Chunks :
            got[l][k].inode = i /\ got[l][k].chunk = k
      /\ stable[l] => got[l] = Content
  BY <1>1, WholeRead DEF Reading
<1>4. stable[l] => size[l] = Content /\ digest[l] = Content
  BY <1>1, <1>2 DEF LoadInv, Untouched, Checked, Sized, Hashed
<1>5. PICK result \in {"loaded", "LoadError", "Uncaught"} :
         /\ Return(l, result)
         /\ data'[l] = got[l] \/ (result # "loaded" /\ UNCHANGED data)
  BY DEF Parse, TypeOK
<1>6. result \in Outcomes BY DEF Outcomes
<1>7. pc'[l] = "done" /\ got'[l] = <<>> /\ outcome'[l] = result
  BY <1>5, <1>6, ReturnTypes
<1>8. Truthful(l)'
  BY <1>1, <1>2, <1>3, <1>4, <1>5, <1>7 DEF Truthful
<1> QED BY <1>7, <1>8, EndedKeepsLoadInv

(* A read that fails. *)
LEMMA ReadFailsIsTruthful ==
  ASSUME LoadingInv, NEW l \in Loads, ReadFails(l)
  PROVE  LoadInv(l)' /\ Truthful(l)'
<1> USE DEF LoadingInv
<1>1. Return(l, "OSError") /\ UNCHANGED <<digest, data, size, kinds, inodes, stable>>
  BY DEF ReadFails
<1>2. pc'[l] = "done" /\ got'[l] = <<>> /\ outcome'[l] = "OSError"
  BY <1>1, ReturnTypes DEF Outcomes
<1>3. Truthful(l)
  BY TruthfulIsProperties
<1>4. Truthful(l)'
  BY <1>1, <1>2, <1>3 DEF Truthful
<1> QED BY <1>2, <1>4, EndedKeepsLoadInv

(* The invariant under a step of a load. *)
LEMMA OperationKeepsLoadingInv ==
  ASSUME LoadingInv, NEW l \in Loads, Operation(l)
  PROVE  LoadingInv'
<1>1. TypeOK'
  BY OperationTypes
<1>2. UNCHANGED <<kind, inode>>
  BY OperationFrame DEF LoadingInv
<1>3. LoadInv(l)' /\ Truthful(l)'
    BY RefuseIsTruthful, BeginIsTruthful, CheckIsTruthful, StatIsTruthful,
      OpenIsTruthful,
     ReadChunkIsTruthful, FinishHashIsTruthful, ParseIsTruthful, ReadFailsIsTruthful
     DEF Operation
<1>4. \A u \in Loads : LoadInv(u)' /\ Truthful(u)'
  BY <1>3, OthersKeepLoadInv
<1>5. QuiescentLoadAgrees' /\ OneFilePerRead' /\ ErrorsHaveCauses'
  BY <1>4 DEF Truthful, QuiescentLoadAgrees, OneFilePerRead, ErrorsHaveCauses
<1> QED BY <1>1, <1>2, <1>4, <1>5 DEF LoadingInv

-----------------------------------------------------------------------------
(* The owner. *)

(* The invariant under a change by the owner: a load that the change is    *)
(* news for is no longer undisturbed.                                      *)
LEMMA OwnerKeepsLoadingInv ==
  ASSUME LoadingInv, Owner
  PROVE  LoadingInv'
<1> USE DEF LoadingInv
<1>1. Touched
  BY DEF Owner, Replace, Delete, MakeDirectory, Rewrite
<1>2. UNCHANGED <<pc, handle, got, size, digest, data, outcome>>
  BY <1>1 DEF Touched
<1>3. /\ kind' \in {"absent", "file", "directory"} /\ inode' \in 0 .. MaxFiles
      /\ kind' = "file" => inode' \in Inodes
  <2>1. CASE Replace BY <2>1 DEF Replace, TypeOK, Inodes
  <2>2. CASE Delete \/ MakeDirectory BY <2>2 DEF Delete, MakeDirectory, TypeOK
  <2>3. ASSUME NEW k \in 1 .. Chunks, Rewrite(k)
        PROVE  UNCHANGED <<kind, inode>>
    BY <2>3 DEF Rewrite
  <2> QED BY <2>1, <2>2, <2>3 DEF Owner, TypeOK
<1>4. stamps' \in [Inodes -> [1 .. Chunks -> 0 .. MaxRewrites]]
  <2>1. CASE UNCHANGED stamps BY <2>1 DEF TypeOK
  <2>2. ASSUME NEW k \in 1 .. Chunks, Rewrite(k)
        PROVE  stamps' \in [Inodes -> [1 .. Chunks -> 0 .. MaxRewrites]]
    <3>1. inode \in Inodes /\ stamps[inode] \in [1 .. Chunks -> 0 .. MaxRewrites]
      BY <2>2 DEF Rewrite, TypeOK
    <3>2. stamps[inode][k] + 1 \in 0 .. MaxRewrites
      BY <2>2, <3>1 DEF Rewrite
    <3>3. [stamps[inode] EXCEPT ![k] = @ + 1] \in [1 .. Chunks -> 0 .. MaxRewrites]
      BY <3>1, <3>2
    <3>4. stamps' = [stamps EXCEPT ![inode] = [stamps[inode] EXCEPT ![k] = @ + 1]]
      BY <2>2 DEF Rewrite
    <3> QED BY <3>1, <3>3, <3>4 DEF TypeOK
  <2> QED BY <2>1, <2>2 DEF Owner, Replace, Delete, MakeDirectory
<1>5. TypeOK'
  <2>1. kinds' \in [Loads -> SUBSET {"absent", "file", "directory", "refused"}]
    BY <1>1, <1>3 DEF Touched, TypeOK
  <2>2. inodes' \in [Loads -> SUBSET Inodes]
    BY <1>1, <1>3 DEF Touched, TypeOK
  <2>3. stable' \in [Loads -> BOOLEAN]
    BY <1>1 DEF Touched, TypeOK
  <2> QED BY <1>2, <1>3, <1>4, <2>1, <2>2, <2>3 DEF TypeOK
<1>6. ASSUME NEW l \in Loads PROVE LoadInv(l)' /\ Truthful(l)'
  <2>1. LoadInv(l) /\ Truthful(l)
    BY TruthfulIsProperties
  <2>2. CASE Running(l)
    <3>1. /\ stable'[l] = FALSE /\ kinds'[l] = kinds[l] \cup {kind'}
          /\ inodes'[l] = IF kind' = "file" THEN inodes[l] \cup {inode'} ELSE inodes[l]
      BY <1>1, <2>2 DEF Touched
    <3>2. outcome[l] = "none"
      BY <2>1, <2>2 DEF LoadInv, Unfinished, Running
    <3>3. LoadInv(l)'
        BY <1>2, <2>1, <2>2, <3>1
           DEF LoadInv, Unfinished, Watched, OneHandle, Untouched, Running
    <3>4. \A read \in {digest[l], data[l]} :
             read # <<>> => \E i \in inodes'[l] : \A k \in 1 .. Chunks :
                               read[k].inode = i /\ read[k].chunk = k
      BY <2>1, <3>1 DEF Truthful
    <3>5. Truthful(l)'
      BY <1>2, <3>1, <3>2, <3>4 DEF Truthful
    <3> QED BY <3>3, <3>5
  <2>3. CASE ~Running(l)
    <3>1. stable'[l] = stable[l] /\ kinds'[l] = kinds[l] /\ inodes'[l] = inodes[l]
      BY <1>1, <2>3 DEF Touched, TypeOK
    <3>2. pc[l] \notin Checked /\ pc[l] \notin Sized /\ pc[l] \notin Hashed /\ pc[l] \notin Reading
      BY <2>3 DEF Running, Checked, Sized, Hashed, Reading
    <3>3. LoadInv(l)'
        BY <1>2, <2>1, <2>3, <3>1, <3>2
           DEF LoadInv, Unfinished, Watched, OneHandle, Untouched,
         Running
    <3>4. Truthful(l)'
      BY <1>2, <2>1, <3>1 DEF Truthful
    <3> QED BY <3>3, <3>4
  <2> QED BY <2>2, <2>3
<1>7. QuiescentLoadAgrees' /\ OneFilePerRead' /\ ErrorsHaveCauses'
  BY <1>6 DEF Truthful, QuiescentLoadAgrees, OneFilePerRead, ErrorsHaveCauses
<1> QED BY <1>3, <1>5, <1>6, <1>7

(* The invariant when nothing happens. *)
LEMMA StutterKeepsLoadingInv == LoadingInv /\ UNCHANGED vars => LoadingInv'
<1> SUFFICES ASSUME LoadingInv, UNCHANGED vars PROVE LoadingInv' OBVIOUS
<1> USE DEF LoadingInv, vars
<1>1. TypeOK' BY DEF TypeOK
<1>2. ASSUME NEW l \in Loads PROVE LoadInv(l)'
    BY
       DEF LoadInv, Unfinished, Watched, OneHandle, Untouched, Running,
         Content, Chunk
<1>3. QuiescentLoadAgrees' /\ OneFilePerRead' /\ ErrorsHaveCauses'
  BY DEF QuiescentLoadAgrees, OneFilePerRead, ErrorsHaveCauses
<1> QED BY <1>1, <1>2, <1>3

-----------------------------------------------------------------------------
(* The properties. *)

(* The invariant holds in every behaviour. *)
THEOREM LoadingInvariance == Spec => []LoadingInv
<1>1. LoadingInv /\ [Next]_vars => LoadingInv'
    BY OperationKeepsLoadingInv, OwnerKeepsLoadingInv, StutterKeepsLoadingInv
       DEF Next
<1> QED BY <1>1, InitEstablishesLoadingInv, PTL DEF Spec

(* Every variable has its type, however many loads and changes there are.  *)
THEOREM TypeCorrectness == Spec => []TypeOK
<1>1. LoadingInv => TypeOK BY DEF LoadingInv
<1> QED BY <1>1, LoadingInvariance, PTL

(* A load that nobody disturbs reports the size, the digest and the data   *)
(* of one content (local.py, describe; csv.py, load).                      *)
THEOREM QuiescentAgreement == Spec => []QuiescentLoadAgrees
<1>1. LoadingInv => QuiescentLoadAgrees BY DEF LoadingInv
<1> QED BY <1>1, LoadingInvariance, PTL

(* No digest and no frame mixes two files, however often and whenever the  *)
(* file is replaced (local.py, _calculate_sha256 and open_binary).         *)
THEOREM OneFile == Spec => []OneFilePerRead
<1>1. LoadingInv => OneFilePerRead BY DEF LoadingInv
<1> QED BY <1>1, LoadingInvariance, PTL

(* An error about the reference was true at some moment of the operation   *)
(* (local.py, _resolve_reference).                                         *)
THEOREM TruthfulErrors == Spec => []ErrorsHaveCauses
<1>1. LoadingInv => ErrorsHaveCauses BY DEF LoadingInv
<1> QED BY <1>1, LoadingInvariance, PTL
=============================================================================
