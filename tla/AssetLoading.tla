---------------------------- MODULE AssetLoading ----------------------------
(***************************************************************************)
(* LocalStorageProvider (packages/storage/blob/local.py) under the file    *)
(* loaders (packages/loaders/csv.py, excel.py): a reference is described   *)
(* (size and SHA-256), resolved a second time, opened and parsed, while    *)
(* whoever owns the storage root goes on changing the file.                *)
(*                                                                         *)
(* No step locks the file, so between two system calls of a load it may be *)
(* replaced (a new file under the same name), rewritten in place, deleted, *)
(* or become a directory.  An open handle stays on the file it was opened  *)
(* on.  The file system is not part of the repository; its bounds are      *)
(* MaxFiles files under the name and MaxRewrites rewrites of a chunk.      *)
(* Symbolic links are left out: where a reference leads is decided once.   *)
(***************************************************************************)
EXTENDS Naturals, Sequences

CONSTANTS
    Loads,                \* operations on the reference: describe or load
    Chunks,               \* chunks of a file (_HASH_CHUNK_SIZE bytes each)
    MaxFiles, MaxRewrites

ASSUME BoundsAssumption == /\ Chunks \in Nat \ {0}
                           /\ MaxFiles \in Nat \ {0}
                           /\ MaxRewrites \in Nat

VARIABLES
    kind,                 \* what the path names: "absent", "file", "directory"
    inode,                \* the file it names or named last
    stamps,               \* stamps[i][k]: how often chunk k of file i was rewritten
    pc,                   \* pc[l]: the next system call of l
    handle,               \* handle[l]: the file l has open, 0 for none
    got,                  \* got[l]: the chunks read from the handle so far
    size,                 \* size[l]: the file as stat() saw it
    digest,               \* digest[l]: the chunks that were hashed
    data,                 \* data[l]: the chunks that were parsed
    outcome,              \* outcome[l]: what the operation returned or raised
    kinds,                \* history: what the path named while l ran
    inodes,               \* history: the files it named while l ran
    stable                \* history: nobody touched the path while l ran

path     == <<kind, inode, stamps>>
reading  == <<handle, got>>
asset    == <<size, digest, data>>
history  == <<kinds, inodes, stable>>
vars     == <<kind, inode, stamps, pc, handle, got, size, digest, data, outcome,
              kinds, inodes, stable>>

Inodes     == 1 .. MaxFiles
Observation == [inode : Inodes, chunk : 1 .. Chunks, stamp : 0 .. MaxRewrites]

Labels   == {"begin", "exists", "is_file", "stat", "open_hash", "hash",
             "exists_again", "is_file_again", "open", "parse", "done"}
Outcomes == {"none", "described", "loaded", "LoadError", "OSError", "ValueError",
             "Uncaught", "FileNotFoundError", "StorageAssetNotFoundError",
             "InvalidStorageReferenceError"}

(* Chunk k of file i, as a read would find it now. *)
Chunk(i, k) == [inode |-> i, chunk |-> k, stamp |-> stamps[i][k]]

Init ==
    /\ kind \in {"absent", "file", "directory"}
    /\ inode = (IF kind = "file" THEN 1 ELSE 0)
    /\ stamps  = [i \in Inodes |-> [k \in 1 .. Chunks |-> 0]]
    /\ pc      = [l \in Loads |-> "begin"]
    /\ handle  = [l \in Loads |-> 0]
    /\ got     = [l \in Loads |-> <<>>]
    /\ size    = [l \in Loads |-> <<>>]
    /\ digest  = [l \in Loads |-> <<>>]
    /\ data    = [l \in Loads |-> <<>>]
    /\ outcome = [l \in Loads |-> "none"]
    /\ kinds   = [l \in Loads |-> {}]
    /\ inodes  = [l \in Loads |-> {}]
    /\ stable  = [l \in Loads |-> TRUE]

Running(l) == pc[l] \notin {"begin", "done"}

Goto(l, label) == pc' = [pc EXCEPT ![l] = label]

(* The operation returns or raises; whatever it had open is closed by its  *)
(* with statement.                                                         *)
Return(l, result) ==
    /\ Goto(l, "done")
    /\ outcome' = [outcome EXCEPT ![l] = result]
    /\ handle' = [handle EXCEPT ![l] = 0]
    /\ got' = [got EXCEPT ![l] = <<>>]

-----------------------------------------------------------------------------
(* _resolve_reference, of describe and again of open_binary. *)

(* Options that cannot be parsed, a reference that is empty, absolute or   *)
(* outside the storage root: refused before the file system is asked.  A   *)
(* NUL in the reference is refused too, by resolve(), whose ValueError     *)
(* nobody translates.                                                      *)
Refuse(l) ==
    /\ pc[l] = "begin"
    /\ \E result \in {"LoadError", "InvalidStorageReferenceError", "ValueError"} :
          Return(l, result)
    /\ kinds' = [kinds EXCEPT ![l] = {"refused"}]
    /\ UNCHANGED <<path, asset, inodes, stable>>

Begin(l) ==
    /\ pc[l] = "begin"
    /\ Goto(l, "exists")
    /\ kinds' = [kinds EXCEPT ![l] = {kind}]
    /\ inodes' = [inodes EXCEPT ![l] = IF kind = "file" THEN {inode} ELSE {}]
    /\ UNCHANGED <<path, reading, asset, outcome, stable>>

(* Fault: the path is used without a check that it exists and is a file. *)
ExistsUnchecked(l) ==
    /\ pc[l] \in {"exists", "exists_again"}
    /\ Goto(l, IF pc[l] = "exists" THEN "stat" ELSE "open")
    /\ UNCHANGED <<path, reading, asset, outcome, history>>

Exists(l) ==
    /\ pc[l] \in {"exists", "exists_again"}
    /\ IF kind = "absent"
       THEN Return(l, "StorageAssetNotFoundError")
       ELSE /\ Goto(l, IF pc[l] = "exists" THEN "is_file" ELSE "is_file_again")
            /\ UNCHANGED <<reading, outcome>>
    /\ UNCHANGED <<path, asset, history>>

(* Fault: whatever is not a file is reported as not found. *)
IsFileElseNotFound(l) ==
    /\ pc[l] \in {"is_file", "is_file_again"}
    /\ IF kind # "file"
       THEN Return(l, "StorageAssetNotFoundError")
       ELSE /\ Goto(l, IF pc[l] = "is_file" THEN "stat" ELSE "open")
            /\ UNCHANGED <<reading, outcome>>
    /\ UNCHANGED <<path, asset, history>>

IsFile(l) ==
    /\ pc[l] \in {"is_file", "is_file_again"}
    /\ IF kind # "file"
       THEN Return(l, "InvalidStorageReferenceError")
       ELSE /\ Goto(l, IF pc[l] = "is_file" THEN "stat" ELSE "open")
            /\ UNCHANGED <<reading, outcome>>
    /\ UNCHANGED <<path, asset, history>>

-----------------------------------------------------------------------------
(* describe: st_size, then the digest. *)

Stat(l) ==
    /\ pc[l] = "stat"
    /\ IF kind = "absent"
       THEN Return(l, "FileNotFoundError") /\ UNCHANGED size
       ELSE /\ Goto(l, "open_hash")
            /\ size' = [size EXCEPT ![l] =
                  IF kind = "file" THEN [k \in 1 .. Chunks |-> Chunk(inode, k)]
                  ELSE <<>>]
            /\ UNCHANGED <<reading, outcome>>
    /\ UNCHANGED <<path, digest, data, history>>

(* path.open("rb"), to hash or to parse. *)
Open(l) ==
    /\ pc[l] \in {"open_hash", "open"}
    /\ \/ kind = "absent" /\ Return(l, "FileNotFoundError")
       \/ kind = "directory" /\ Return(l, "OSError")
       \/ /\ kind = "file"
          /\ handle' = [handle EXCEPT ![l] = inode]
          /\ Goto(l, IF pc[l] = "open" THEN "parse" ELSE "hash")
          /\ UNCHANGED <<got, outcome>>
    /\ UNCHANGED <<path, asset, history>>

(* Fault: the path is opened again for every chunk. *)
ReadChunkReopens(l) ==
    /\ pc[l] \in {"hash", "parse"}
    /\ Len(got[l]) < Chunks
    /\ kind = "file"
    /\ got' = [got EXCEPT ![l] = Append(@, Chunk(inode, Len(@) + 1))]
    /\ UNCHANGED <<path, pc, handle, asset, outcome, history>>

ReadChunk(l) ==
    /\ pc[l] \in {"hash", "parse"}
    /\ Len(got[l]) < Chunks
    /\ got' = [got EXCEPT ![l] = Append(@, Chunk(handle[l], Len(@) + 1))]
    /\ UNCHANGED <<path, pc, handle, asset, outcome, history>>

(* Fault: the last chunk, shorter than the others, is not hashed. *)
FinishHashEarly(l) ==
    /\ pc[l] = "hash"
    /\ Len(got[l]) = Chunks - 1
    /\ digest' = [digest EXCEPT ![l] = got[l]]
    /\ Goto(l, "exists_again")
    /\ handle' = [handle EXCEPT ![l] = 0]
    /\ got' = [got EXCEPT ![l] = <<>>]
    /\ UNCHANGED <<path, outcome, size, data, history>>

(* The whole file was hashed: describe returns, to a client or to load.    *)
FinishHash(l) ==
    /\ pc[l] = "hash"
    /\ Len(got[l]) = Chunks
    /\ digest' = [digest EXCEPT ![l] = got[l]]
    /\ \/ Return(l, "described")
       \/ /\ Goto(l, "exists_again")
          /\ handle' = [handle EXCEPT ![l] = 0]
          /\ got' = [got EXCEPT ![l] = <<>>]
          /\ UNCHANGED outcome
    /\ UNCHANGED <<path, size, data, history>>

(* Fault: load passes on what the parser raises. *)
ParseUntranslated(l) ==
    /\ pc[l] = "parse"
    /\ Len(got[l]) = Chunks
    /\ \/ Return(l, "loaded") /\ data' = [data EXCEPT ![l] = got[l]]
       \/ Return(l, "PolarsError") /\ UNCHANGED data
    /\ UNCHANGED <<path, size, digest, history>>

(* pl.read_csv or pl.read_excel: a frame, one of the exceptions that load  *)
(* turns into its own, or one that its except clause does not name.        *)
Parse(l) ==
    /\ pc[l] = "parse"
    /\ Len(got[l]) = Chunks
    /\ \/ Return(l, "loaded") /\ data' = [data EXCEPT ![l] = got[l]]
       \/ \E error \in {"LoadError", "Uncaught"} : Return(l, error) /\ UNCHANGED data
    /\ UNCHANGED <<path, size, digest, history>>

(* A system call fails for another reason (permissions, a bad disk); an    *)
(* OSError is not among the exceptions load catches.                       *)
ReadFails(l) ==
    /\ Running(l)
    /\ Return(l, "OSError")
    /\ UNCHANGED <<path, asset, history>>

-----------------------------------------------------------------------------
(* The owner of the storage root. *)

(* Every operation that runs now has seen the path change. *)
Touched ==
    /\ stable' = [l \in Loads |-> stable[l] /\ ~Running(l)]
    /\ kinds'  = [l \in Loads |-> IF Running(l) THEN kinds[l] \cup {kind'} ELSE kinds[l]]
    /\ inodes' = [l \in Loads |-> IF Running(l) /\ kind' = "file"
                                  THEN inodes[l] \cup {inode'} ELSE inodes[l]]
    /\ UNCHANGED <<pc, reading, asset, outcome>>

(* A new file under the name, where there was none or in place of another. *)
Replace ==
    /\ kind \in {"absent", "file"}
    /\ inode < MaxFiles
    /\ kind' = "file"
    /\ inode' = inode + 1
    /\ UNCHANGED stamps
    /\ Touched

Rewrite(k) ==
    /\ kind = "file"
    /\ stamps[inode][k] < MaxRewrites
    /\ stamps' = [stamps EXCEPT ![inode][k] = @ + 1]
    /\ UNCHANGED <<kind, inode>>
    /\ Touched

Delete ==
    /\ kind # "absent"
    /\ kind' = "absent"
    /\ UNCHANGED <<inode, stamps>>
    /\ Touched

MakeDirectory ==
    /\ kind = "absent"
    /\ kind' = "directory"
    /\ UNCHANGED <<inode, stamps>>
    /\ Touched

-----------------------------------------------------------------------------
Operation(l) ==
    \/ Refuse(l) \/ Begin(l) \/ Exists(l) \/ IsFile(l) \/ Stat(l) \/ Open(l)
    \/ ReadChunk(l) \/ FinishHash(l) \/ Parse(l) \/ ReadFails(l)

Owner == Replace \/ Delete \/ MakeDirectory \/ \E k \in 1 .. Chunks : Rewrite(k)

Next == Owner \/ \E l \in Loads : Operation(l)

Spec == Init /\ [][Next]_vars
-----------------------------------------------------------------------------
(* Properties. *)

Reads == UNION {[1 .. n -> Observation] : n \in 0 .. Chunks}

(* Every variable keeps its type. *)
TypeOK ==
    /\ kind \in {"absent", "file", "directory"}
    /\ inode \in 0 .. MaxFiles
    /\ stamps  \in [Inodes -> [1 .. Chunks -> 0 .. MaxRewrites]]
    /\ pc      \in [Loads -> Labels]
    /\ handle  \in [Loads -> 0 .. MaxFiles]
    /\ {got, size, digest, data} \subseteq [Loads -> Reads]
    /\ outcome \in [Loads -> Outcomes]
    /\ kinds   \in [Loads -> SUBSET {"absent", "file", "directory", "refused"}]
    /\ inodes  \in [Loads -> SUBSET Inodes]
    /\ stable  \in [Loads -> BOOLEAN]

(* If nobody touched the file meanwhile, the size, the digest and the data *)
(* of a load are those of one content, though they come from one stat and  *)
(* two separate reads (local.py, lines 26-41; csv.py, lines 26-39).        *)
QuiescentLoadAgrees ==
    \A l \in Loads :
        stable[l] =>
            /\ outcome[l] \in {"described", "loaded"} => digest[l] = size[l]
            /\ outcome[l] = "loaded" => data[l] = digest[l]

(* However the file is replaced, the parsed rows and the digest are each   *)
(* read in order from a single file, one the reference named during the    *)
(* load: no frame has rows of two files.                                   *)
OneFilePerRead ==
    \A l \in Loads : \A read \in {digest[l], data[l]} :
        read # <<>> =>
            \E i \in inodes[l] : \A k \in 1 .. Chunks :
                read[k].inode = i /\ read[k].chunk = k

(* An error speaks the truth about the reference: it was not there, or was *)
(* no regular file, at some moment of the operation; and a                 *)
(* FileNotFoundError that is not the provider's means that the file        *)
(* vanished under the operation (local.py, _resolve_reference).            *)
ErrorsHaveCauses ==
    \A l \in Loads :
        /\ outcome[l] = "StorageAssetNotFoundError" => "absent" \in kinds[l]
        /\ outcome[l] = "InvalidStorageReferenceError" => kinds[l] # {"file"}
        /\ outcome[l] = "FileNotFoundError" => {"file", "absent"} \subseteq kinds[l]

(* exceptions.py, line 5: StorageAssetNotFoundError is "Raised when a      *)
(* storage provider cannot locate an asset", and the API maps only it to   *)
(* 404.  An asset deleted during the operation is reported that way.       *)
DeletedAssetIsNotFound ==
    \A l \in Loads :
        kinds[l] = {"file", "absent"} =>
            outcome[l] \notin {"FileNotFoundError", "InvalidStorageReferenceError"}
=============================================================================
