---------------------------- MODULE KeepRegistry ----------------------------
(***************************************************************************)
(* The client's registry of keeps (pkg/registry): the signer of every keep *)
(* in memory, backed by files on disk.  Everything it does is per keep, so *)
(* the module follows one keep.  A signer stands for its share of one      *)
(* group key and is named after that key.                                  *)
(*                                                                         *)
(* The disk (keep-common persistence, external) has three areas: the       *)
(* current files, one per keep, which Save overwrites; the snapshots,      *)
(* which are only added to; and the archive, where Archive moves the       *)
(* current file of a keep.                                                 *)
(***************************************************************************)
EXTENDS Naturals, Sequences, FiniteSets

CONSTANTS Keys, NoKey

ASSUME RegistryAssumption == NoKey \notin Keys

VARIABLES
    mySigner,     \* signer in the map myKeeps, NoKey when there is none
    savedSigner,  \* signer in the current files
    snapshots,    \* signers in the snapshot files
    archived      \* signers in the archive

diskVars == <<savedSigner, snapshots, archived>>
registryVars == <<mySigner, diskVars>>

RegistryTypeOK ==
    /\ mySigner \in Keys \cup {NoKey}
    /\ savedSigner \in Keys \cup {NoKey}
    /\ snapshots \subseteq Keys
    /\ archived \subseteq Keys

RegistryInit ==
    /\ mySigner = NoKey
    /\ savedSigner = NoKey
    /\ snapshots = {}
    /\ archived = {}

HasSigner == mySigner # NoKey

\* The storage behind the registry: the calls of persistentStorage, which may fail.
save(s, saved) == savedSigner' = IF saved THEN s ELSE savedSigner

snapshot(s) == snapshots' = snapshots \cup {s}

archive(moved) ==
    /\ savedSigner' = IF moved THEN NoKey ELSE savedSigner
    /\ archived' = IF moved /\ savedSigner # NoKey
                   THEN archived \cup {savedSigner}
                   ELSE archived

\* A file that cannot be decoded or unmarshalled is reported and skipped.
readAll(readable) == IF readable THEN savedSigner ELSE NoKey

\* Mutant of RegisterSigner: the signer is registered before it is saved, and
\* stays registered when the save fails.
RegisterSignerUnsaved(s, saved) ==
    /\ ~HasSigner
    /\ mySigner' = s
    /\ save(s, saved)
    /\ UNCHANGED <<snapshots, archived>>

\* RegisterSigner, which refuses a second signer.  `saved`: the file was
\* written; when it was not, an error is returned and nothing changes.
RegisterSigner(s, saved) ==
    /\ ~HasSigner
    /\ mySigner' = IF saved THEN s ELSE mySigner
    /\ save(s, saved)
    /\ UNCHANGED <<snapshots, archived>>

SnapshotSigner(s) ==
    /\ snapshot(s)
    /\ UNCHANGED <<mySigner, savedSigner, archived>>

\* UnregisterKeep deletes the signer from memory even when the file could not be
\* archived.
UnregisterKeep(moved) ==
    /\ mySigner' = NoKey
    /\ archive(moved)
    /\ UNCHANGED snapshots

LoadExistingKeeps(readable) ==
    /\ mySigner' = readAll(readable)
    /\ UNCHANGED diskVars

\* The process ends: what is in memory is lost.
LoseMemory ==
    /\ mySigner' = NoKey
    /\ UNCHANGED diskVars
=============================================================================
