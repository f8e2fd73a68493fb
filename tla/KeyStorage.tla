------------------------------ MODULE KeyStorage ------------------------------
(***************************************************************************)
(* vold's KeyStorage.cpp as the recovery builds it: storeKeyAtomically,    *)
(* retrieveKey and destroyKey on key directories, with crashes.            *)
(*                                                                         *)
(* A directory holds the files of one storing attempt, whose number is the *)
(* identity of the key and of the Keystore key that wraps it.  fs is what  *)
(* a running vold sees.  File contents are synced when they are written;   *)
(* directory changes only by the fsyncs of the code: until one covers a    *)
(* mkdir, a rename or a deletion a crash may bring back what was there     *)
(* before (older), and may lose any entry of a directory not synced.       *)
(***************************************************************************)
EXTENDS Naturals, FiniteSets

CONSTANTS
    Slot,          \* key paths
    Tmp,           \* the tmp_path they share
    NoDir, None,
    UsesKeystore,  \* auth.usesKeystore()
    CanFail,       \* file, Keystore and helper calls may fail
    MaxKey         \* bound on the storing attempts

ASSUME KeyStorageAssumption ==
    /\ Tmp \notin Slot
    /\ None \notin Nat
    /\ {UsesKeystore, CanFail} \subseteq BOOLEAN
    /\ MaxKey \in Nat

Path == Slot \cup {Tmp}
Key == 1..MaxKey

\* What storeKey writes, and what must be there to retrieve the key.
KeyFiles ==
    IF UsesKeystore
    THEN {"version", "secdiscardable", "keymaster_key_blob", "encrypted_key"}
    ELSE {"version", "encrypted_key"}

Dir == [key : Key, files : SUBSET KeyFiles, synced : BOOLEAN]

ASSUME NoDirAssumption == NoDir \notin Dir

VARIABLES
    fs,         \* the directory at every path, or NoDir
    older,      \* earlier fs a crash may still bring back
    keystore,   \* keys Keystore can still use
    binding,    \* StorageBindingInfo::State
    bindings,   \* what generateAppId used since boot: was a seed appended?
    pc, target, \* the running call and the slot it is for
    dir,        \* the directory destroyKey works on
    success,    \* destroyKey's local
    attempt,    \* storing attempts so far
    stored,     \* key of the last storeKeyAtomically that returned true
    givenUp,    \* keys whose destroyKey was called
    destroyed   \* keys whose destroyKey returned true

files == <<fs, older>>
callVars == <<target, dir, success>>
bindVars == <<binding, bindings>>
reports == <<stored, givenUp, destroyed>>
vars == <<files, keystore, bindVars, pc, callVars, attempt, reports>>

Init ==
    /\ fs = [p \in Path |-> NoDir] /\ older = {}
    /\ keystore = {}
    /\ binding = "UNINITIALIZED" /\ bindings = {}
    /\ pc = "idle" /\ target \in Slot /\ dir = Tmp /\ success = TRUE
    /\ attempt = 0
    /\ stored = [s \in Slot |-> None] /\ givenUp = {} /\ destroyed = {}

pathExists(p) == fs[p] # NoDir
Has(p, f) == pathExists(p) /\ f \in fs[p].files

\* The key a call of retrieveKey at p gets, if the binding is that of the
\* store.
Readable(p) ==
    IF /\ pathExists(p) /\ fs[p].files = KeyFiles
       /\ UsesKeystore => fs[p].key \in keystore
    THEN fs[p].key
    ELSE None

\* A step of storeKey that changes the directory, and the same step failing.
Writes(from, to) == pc = from /\ pc' = to
Fails(from) ==
    /\ CanFail /\ pc = from /\ pc' = "idle"
    /\ UNCHANGED <<files, keystore>>

AddFile(f) ==
    /\ fs' = [fs EXCEPT ![Tmp].files = @ \cup {f}]
    /\ UNCHANGED <<older, keystore>>

\* A change of the directory tree that a crash may undo.
Unsynced == older' = older \cup {fs}

(***************************************************************************)
(* storeKeyAtomically                                                      *)
(***************************************************************************)
storeKeyAtomically(s) ==
    /\ pc = "idle" /\ attempt < MaxKey
    /\ ~pathExists(s)
    /\ pc' = IF pathExists(Tmp) THEN "delete" ELSE "mkdir"
    /\ target' = s /\ success' = TRUE /\ dir' = Tmp
    /\ UNCHANGED <<files, keystore, bindVars, attempt, reports>>

\* storeKey: mkdir and the version file.
MakeKeyDir ==
    /\ \/ /\ Writes("mkdir", IF UsesKeystore THEN "secdiscardable" ELSE "appid")
          /\ ~pathExists(Tmp)
          /\ attempt' = attempt + 1
          /\ fs' = [fs EXCEPT ![Tmp] = [key |-> attempt', files |-> {"version"},
                                        synced |-> FALSE]]
          /\ Unsynced
          /\ UNCHANGED keystore
       \/ /\ Writes("mkdir", "idle") /\ pathExists(Tmp)
          /\ UNCHANGED <<files, keystore, attempt>>
       \/ Fails("mkdir") /\ UNCHANGED attempt
    /\ UNCHANGED <<bindVars, callVars, reports>>

createSecdiscardable ==
    /\ \/ Writes("secdiscardable", "appid") /\ AddFile("secdiscardable")
       \/ Fails("secdiscardable")
    /\ UNCHANGED <<bindVars, callVars, attempt, reports>>

\* Mutant of generateAppId: the first use does not settle the binding.
generateAppIdUnsettled ==
    /\ binding' = binding
    /\ bindings' = bindings \cup {binding = "IN_USE"}

generateAppId ==
    /\ binding' = IF binding = "UNINITIALIZED" THEN "NOT_USED" ELSE binding
    /\ bindings' = bindings \cup {binding = "IN_USE"}

AppIdOfStore ==
    /\ Writes("appid", IF UsesKeystore THEN "generate" ELSE "encrypt")
    /\ generateAppId
    /\ UNCHANGED <<files, keystore, callVars, attempt, reports>>

\* The Keystore key exists before its blob is on disk.
generateKeyStorageKey ==
    /\ \/ /\ Writes("generate", "blob")
          /\ keystore' = keystore \cup {fs[Tmp].key}
          /\ UNCHANGED files
       \/ Fails("generate")
    /\ UNCHANGED <<bindVars, callVars, attempt, reports>>

WriteBlob ==
    /\ \/ Writes("blob", "encrypt") /\ AddFile("keymaster_key_blob")
       \/ Fails("blob")
    /\ UNCHANGED <<bindVars, callVars, attempt, reports>>

\* Encrypting, with Keystore or without it, and writing the result.
WriteEncryptedKey ==
    /\ \/ Writes("encrypt", "fsync") /\ AddFile("encrypted_key")
       \/ Fails("encrypt")
    /\ UNCHANGED <<bindVars, callVars, attempt, reports>>

\* Mutant of FsyncDirectory: storeKey returns without it.
FsyncDirectoryForgotten ==
    /\ Writes("fsync", "rename")
    /\ UNCHANGED <<files, keystore, bindVars, callVars, attempt, reports>>

FsyncDirectory ==
    /\ \/ /\ Writes("fsync", "rename")
          /\ fs' = [fs EXCEPT ![Tmp].synced = TRUE]
          /\ UNCHANGED <<older, keystore>>
       \/ Fails("fsync")
    /\ UNCHANGED <<bindVars, callVars, attempt, reports>>

RenameKeyDir ==
    /\ \/ /\ Writes("rename", "parent")
          /\ fs' = [fs EXCEPT ![target] = fs[Tmp], ![Tmp] = NoDir]
          /\ Unsynced
          /\ UNCHANGED keystore
       \/ Fails("rename")
    /\ UNCHANGED <<bindVars, callVars, attempt, reports>>

\* Mutant of FsyncParentDirectory: true is returned although it failed.
FsyncParentIgnored ==
    /\ Writes("parent", "idle")
    /\ stored' = [stored EXCEPT ![target] = fs[target].key]
    /\ older' \in {{}, older}
    /\ UNCHANGED <<fs, keystore, givenUp, destroyed, bindVars, callVars, attempt>>

FsyncParentDirectory ==
    /\ \/ /\ Writes("parent", "idle")
          /\ older' = {}
          /\ stored' = [stored EXCEPT ![target] = fs[target].key]
          /\ UNCHANGED <<fs, keystore, givenUp, destroyed>>
       \/ Fails("parent") /\ UNCHANGED reports
    /\ UNCHANGED <<bindVars, callVars, attempt>>

(***************************************************************************)
(* retrieveKey and setKeyStorageBindingSeed.  Retrieving writes nothing    *)
(* but the binding state: an upgraded blob goes to /tmp and is not used.   *)
(***************************************************************************)
retrieveKey(s) ==
    /\ pc = "idle"
    /\ Has(s, "version")
    /\ generateAppId
    /\ UNCHANGED <<files, keystore, pc, callVars, attempt, reports>>

setKeyStorageBindingSeed ==
    /\ binding = "UNINITIALIZED"
    /\ binding' = "IN_USE"
    /\ UNCHANGED <<files, keystore, bindings, pc, callVars, attempt, reports>>

(***************************************************************************)
(* destroyKey, on a slot or on a left-over Tmp; it tries each thing even   *)
(* if previous things failed.                                              *)
(***************************************************************************)
destroyKey(s) ==
    /\ pc = "idle" /\ pathExists(s)
    /\ pc' = "delete" /\ target' = s /\ dir' = s /\ success' = TRUE
    /\ stored' = [stored EXCEPT ![s] = None]
    /\ givenUp' = givenUp \cup {fs[s].key}
    /\ UNCHANGED <<files, keystore, bindVars, attempt, destroyed>>

\* A helper of destroyKey that fails: success &= false.
Flawed == CanFail /\ success' = FALSE

DeleteKeystoreKey ==
    /\ Writes("delete", "secdiscard")
    /\ \/ Has(dir, "keymaster_key_blob") /\ keystore' = keystore \ {fs[dir].key}
          /\ UNCHANGED success
       \/ Has(dir, "keymaster_key_blob") /\ Flawed /\ UNCHANGED keystore
       \/ ~Has(dir, "keymaster_key_blob") /\ UNCHANGED <<keystore, success>>
    /\ UNCHANGED <<files, bindVars, target, dir, attempt, reports>>

\* The secdiscard program overwrites the contents, so they are gone from every
\* image of the directory a crash could bring back; when it could not, its
\* exit status is taken to say so.
Discard(k, d) ==
    IF d # NoDir /\ d.key = k THEN [d EXCEPT !.files = @ \cap {"version"}] ELSE d

Secdiscard ==
    /\ Writes("secdiscard", "rm")
    /\ LET Scrubbed(f) == [p \in Path |-> Discard(fs[dir].key, f[p])] IN
       \/ /\ fs' = Scrubbed(fs) /\ older' = {Scrubbed(f) : f \in older}
          /\ UNCHANGED success
       \/ Flawed /\ UNCHANGED files
    /\ UNCHANGED <<keystore, bindVars, target, dir, attempt, reports>>

\* recursiveDeleteKey; storeKeyAtomically goes on whatever came of it.
DestroyEnds == pc' = IF dir = Tmp THEN "mkdir" ELSE "idle"

recursiveDeleteKey ==
    /\ pc = "rm"
    /\ DestroyEnds
    /\ \/ /\ fs' = [fs EXCEPT ![dir] = NoDir]
          /\ older' = older \cup {[fs EXCEPT ![dir].synced = FALSE]}
          /\ destroyed' = IF success /\ dir \in Slot
                          THEN destroyed \cup {fs[dir].key} ELSE destroyed
          /\ UNCHANGED success
       \/ /\ Flawed
          /\ \E F \in SUBSET fs[dir].files :
                fs' = [fs EXCEPT ![dir].files = F, ![dir].synced = FALSE]
          /\ UNCHANGED <<older, destroyed>>
    /\ UNCHANGED <<keystore, bindVars, target, dir, attempt, stored, givenUp>>

(***************************************************************************)
(* A crash or reboot: the process and its binding state go, and the file   *)
(* system comes back as one of the images the missing fsyncs allow.        *)
(***************************************************************************)
Survives(d) ==
    IF d = NoDir THEN {NoDir}
    ELSE {[d EXCEPT !.files = F, !.synced = TRUE] :
            F \in IF d.synced THEN {d.files} ELSE SUBSET d.files}

Crash ==
    /\ \E f \in older \cup {fs} :
          fs' \in {g \in [Path -> UNION {Survives(f[p]) : p \in Path}] :
                     \A p \in Path : g[p] \in Survives(f[p])}
    /\ older' = {}
    /\ binding' = "UNINITIALIZED" /\ bindings' = {}
    /\ pc' = "idle" /\ success' = TRUE /\ dir' = Tmp
    /\ UNCHANGED <<keystore, target, attempt, reports>>

Next ==
    \/ \E s \in Slot : storeKeyAtomically(s) \/ retrieveKey(s) \/ destroyKey(s)
    \/ MakeKeyDir \/ createSecdiscardable \/ AppIdOfStore
    \/ generateKeyStorageKey \/ WriteBlob \/ WriteEncryptedKey
    \/ FsyncDirectory \/ RenameKeyDir \/ FsyncParentDirectory
    \/ setKeyStorageBindingSeed
    \/ DeleteKeystoreKey \/ Secdiscard \/ recursiveDeleteKey
    \/ Crash

Spec == Init /\ [][Next]_vars

-----------------------------------------------------------------------------
\* Every variable keeps its type.
TypeOK ==
    /\ fs \in [Path -> Dir \cup {NoDir}]
    /\ older \subseteq [Path -> Dir \cup {NoDir}]
    /\ keystore \subseteq Key
    /\ binding \in {"UNINITIALIZED", "NOT_USED", "IN_USE"}
    /\ bindings \subseteq BOOLEAN
    /\ pc \in {"idle", "mkdir", "secdiscardable", "appid", "generate", "blob",
               "encrypt", "fsync", "rename", "parent", "delete", "secdiscard", "rm"}
    /\ target \in Slot /\ dir \in Path /\ success \in BOOLEAN
    /\ attempt \in 0..MaxKey
    /\ stored \in [Slot -> Key \cup {None}]
    /\ givenUp \subseteq Key /\ destroyed \subseteq givenUp

\* The "atomically" of storeKeyAtomically: a key path that exists and whose
\* destruction was not asked for holds a whole, usable key, whatever crashed
\* or failed while it was written.
NoTornKey ==
    /\ TypeOK
    /\ \A s \in Slot : pathExists(s) /\ fs[s].key \notin givenUp => Readable(s) # None

\* All key operations of one boot derive their application id the same way:
\* with the storage binding seed or without it, never some with and some
\* without, so that what was stored in a boot can be retrieved in it.
OneBindingPerBoot == Cardinality(bindings) <= 1

\* Key storage implements the slots its callers rely on: a key reported as
\* stored survives every crash until it is given up, and a key reported as
\* destroyed never comes back.
Slots == INSTANCE KeySlot WITH value <- [s \in Slot |-> Readable(s)]
KeepsAndDestroys == Slots!Spec
=============================================================================
