-------------------------- MODULE PersistenceProofs --------------------------
(***************************************************************************)
(* What outlives a power cut.  The first part is about KeyStorage, for any *)
(* key paths, any number of storing attempts, with Keystore or without it, *)
(* and whether calls may fail or not; a crash may bring back any image in  *)
(* older, so what NoTornKey says of the key paths must hold of every such  *)
(* image.  The second is about Settings, for any threads, storages and     *)
(* number of calls: the folders follow the storage path, and what was      *)
(* saved comes back.                                                       *)
(***************************************************************************)
EXTENDS KeyStorage, Settings, FiniteSetTheorems, TLAPS

\* What a running vold sees and what a crash may bring back.
Images == older \cup {fs}

\* A directory that no crash tears and whose key can be used.
Whole(d) ==
    /\ d.files = KeyFiles /\ d.synced
    /\ UsesKeystore => d.key \in keystore

\* Every image holds whole keys at the key paths, but those given up.
SlotsWhole ==
    \A f \in Images, s \in Slot :
        f[s] # NoDir /\ f[s].key \notin givenUp => Whole(f[s])

\* The key at Tmp is no key path's, neither in an image of its own nor, for
\* the Tmp vold would delete from Keystore, in any other.
TmpApart ==
    \A f \in Images, s \in Slot :
        /\ f[Tmp] # NoDir /\ f[s] # NoDir => f[s].key # f[Tmp].key
        /\ fs[Tmp] # NoDir /\ f[s] # NoDir => f[s].key # fs[Tmp].key

\* So a new attempt has a new key.
KeysBounded == \A f \in Images, p \in Path : f[p] # NoDir => f[p].key <= attempt

\* What a storing attempt has written when it comes to a step.
Secret == IF UsesKeystore THEN {"version", "secdiscardable"} ELSE {"version"}
Wrapped == UsesKeystore => fs[Tmp].key \in keystore

Storing ==
    /\ pc \in {"secdiscardable", "appid", "generate", "blob", "encrypt", "fsync", "rename"}
          => fs[Tmp] # NoDir
    /\ pc = "secdiscardable" => UsesKeystore /\ fs[Tmp].files = {"version"}
    /\ pc \in {"appid", "generate", "blob"} => fs[Tmp].files = Secret
    /\ pc \in {"generate", "blob"} => UsesKeystore
    /\ pc = "encrypt" => fs[Tmp].files = KeyFiles \ {"encrypted_key"}
    /\ pc \in {"fsync", "rename"} => fs[Tmp].files = KeyFiles
    /\ pc \in {"blob", "encrypt", "fsync", "rename"} => Wrapped
    /\ pc = "rename" => fs[Tmp].synced
    /\ pc = "parent" => fs[target] # NoDir

\* What destroyKey works on was given up, or is a left-over of an attempt.
Destroying ==
    /\ pc \in {"delete", "secdiscard", "rm"} =>
          /\ fs[dir] # NoDir
          /\ dir \in Slot => fs[dir].key \in givenUp
    /\ pc = "mkdir" \/ (pc \in {"delete", "secdiscard", "rm"} /\ dir = Tmp)
          => attempt < MaxKey

ImagesSound == SlotsWhole /\ TmpApart /\ KeysBounded

IInv == TypeOK /\ ImagesSound /\ Storing /\ Destroying

\* A binding, once settled, is what every use since boot had.
BindingInv ==
    /\ binding \in {"UNINITIALIZED", "NOT_USED", "IN_USE"}
    /\ bindings \subseteq IF binding = "UNINITIALIZED" THEN {} ELSE {binding = "IN_USE"}

-----------------------------------------------------------------------------
\* The binding state machine: no action needs to know of the key directories.
LEMMA BindingStep ==
    ASSUME BindingInv, [Next]_vars
    PROVE  BindingInv'
<1>1. CASE UNCHANGED bindVars
  BY <1>1 DEF BindingInv, bindVars
<1>2. CASE generateAppId
  BY <1>2 DEF BindingInv, generateAppId
<1>3. CASE setKeyStorageBindingSeed
  BY <1>3 DEF BindingInv, setKeyStorageBindingSeed
<1>4. CASE Crash
  BY <1>4 DEF BindingInv, Crash
<1>5. UNCHANGED bindVars \/ generateAppId \/ setKeyStorageBindingSeed \/ Crash
  <2>1. ASSUME NEW s \in Slot,
               storeKeyAtomically(s) \/ retrieveKey(s) \/ destroyKey(s)
        PROVE  UNCHANGED bindVars \/ generateAppId
    BY <2>1 DEF storeKeyAtomically, retrieveKey, destroyKey
  <2>2. CASE MakeKeyDir \/ createSecdiscardable \/ AppIdOfStore
    BY <2>2 DEF MakeKeyDir, createSecdiscardable, AppIdOfStore
  <2>3. CASE generateKeyStorageKey \/ WriteBlob \/ WriteEncryptedKey
    BY <2>3 DEF generateKeyStorageKey, WriteBlob, WriteEncryptedKey
  <2>4. CASE FsyncDirectory \/ RenameKeyDir \/ FsyncParentDirectory
    BY <2>4 DEF FsyncDirectory, RenameKeyDir, FsyncParentDirectory
  <2>5. CASE DeleteKeystoreKey \/ Secdiscard \/ recursiveDeleteKey
    BY <2>5 DEF DeleteKeystoreKey, Secdiscard, recursiveDeleteKey
  <2>6. CASE UNCHANGED vars
    BY <2>6 DEF vars
  <2>. QED
    BY <2>1, <2>2, <2>3, <2>4, <2>5, <2>6 DEF Next
<1>. QED
  BY <1>1, <1>2, <1>3, <1>4, <1>5

\* generateAppId settles with its first use whether the storage binding seed
\* is appended, and setKeyStorageBindingSeed refuses a seed from then on.
THEOREM OneBinding == Spec => []OneBindingPerBoot
<1>1. Init => BindingInv
  BY DEF Init, BindingInv
<1>2. BindingInv => OneBindingPerBoot
  <2>. SUFFICES ASSUME BindingInv PROVE OneBindingPerBoot
    OBVIOUS
  <2>1. bindings = {} \/ bindings = {binding = "IN_USE"}
    BY DEF BindingInv
  <2>2. CASE bindings = {}
    <3>1. Cardinality(bindings) = 0
      BY <2>2, FS_EmptySet
    <3>. QED
      BY <3>1 DEF OneBindingPerBoot
  <2>3. CASE bindings = {binding = "IN_USE"}
    <3>1. Cardinality(bindings) = 1
      BY <2>3, FS_Singleton
    <3>. QED
      BY <3>1 DEF OneBindingPerBoot
  <2>. QED
    BY <2>1, <2>2, <2>3
<1>. QED
  BY <1>1, <1>2, BindingStep, PTL DEF Spec

-----------------------------------------------------------------------------
\* The directories of f are some of those of g, perhaps with other files.
Keeps(f, g) ==
    \A p \in Path : f[p] # NoDir => g[p] # NoDir /\ f[p].key = g[p].key

LEMMA KeyFilesType == /\ {"version", "encrypted_key"} \subseteq KeyFiles
                      /\ Secret \subseteq KeyFiles
                      /\ UsesKeystore => {"keymaster_key_blob", "secdiscardable"} \subseteq KeyFiles
                      /\ UsesKeystore =>
                            Secret \cup {"keymaster_key_blob"} = KeyFiles \ {"encrypted_key"}
                      /\ ~UsesKeystore => Secret = KeyFiles \ {"encrypted_key"}
  BY DEF KeyFiles, Secret

\* What changes of a directory when its files or its synced do.
LEMMA DirFiles ==
    ASSUME NEW d \in Dir, NEW F \in SUBSET KeyFiles
    PROVE  LET e == [d EXCEPT !.files = F] IN
           e \in Dir /\ e # NoDir /\ e.key = d.key /\ e.files = F /\ e.synced = d.synced
  BY NoDirAssumption DEF Dir

LEMMA DirSynced ==
    ASSUME NEW d \in Dir, NEW b \in BOOLEAN
    PROVE  LET e == [d EXCEPT !.synced = b] IN
           e \in Dir /\ e # NoDir /\ e.key = d.key /\ e.files = d.files /\ e.synced = b
  BY NoDirAssumption DEF Dir

LEMMA DirBoth ==
    ASSUME NEW d \in Dir, NEW F \in SUBSET KeyFiles, NEW b \in BOOLEAN
    PROVE  LET e == [d EXCEPT !.files = F, !.synced = b] IN
           e \in Dir /\ e # NoDir /\ e.key = d.key /\ e.files = F /\ e.synced = b
  BY NoDirAssumption DEF Dir

LEMMA ImageType ==
    ASSUME TypeOK, NEW f \in Images, NEW p \in Path
    PROVE  /\ f \in [Path -> Dir \cup {NoDir}]
           /\ f[p] # NoDir => /\ f[p] \in Dir /\ f[p].key \in Key
                              /\ f[p].files \subseteq KeyFiles /\ f[p].synced \in BOOLEAN
<1>1. f \in [Path -> Dir \cup {NoDir}]
  BY DEF TypeOK, Images
<1>. QED
  BY <1>1 DEF Dir

LEMMA PathType == Tmp \in Path /\ Slot \subseteq Path /\ Tmp \notin Slot
  BY KeyStorageAssumption DEF Path

\* Key paths are whole as long as no key leaves Keystore and they are what
\* they were in some image.
LEMMA SlotsKept ==
    ASSUME SlotsWhole, keystore \subseteq keystore', givenUp \subseteq givenUp',
           \A f \in Images' : \E g \in Images : \A s \in Slot : f[s] = g[s]
    PROVE  SlotsWhole'
  BY DEF SlotsWhole, Whole

\* Tmp stays apart when no image gets a directory it did not have.
LEMMA TmpKept ==
    ASSUME TypeOK, TmpApart, KeysBounded, attempt' = attempt,
           \A f \in Images' : \E g \in Images : Keeps(f, g),
           fs'[Tmp] # NoDir => fs[Tmp] # NoDir /\ fs'[Tmp].key = fs[Tmp].key
    PROVE  TmpApart' /\ KeysBounded'
<1>1. KeysBounded'
  BY DEF KeysBounded, Keeps
<1>2. TmpApart'
  BY PathType DEF TmpApart, Keeps
<1>. QED
  BY <1>1, <1>2

\* What is said of images holds on when nothing is written, or Tmp only.
LEMMA NothingWritten ==
    ASSUME TypeOK, ImagesSound, fs' = fs, older' \subseteq older,
           keystore' = keystore, attempt' = attempt, givenUp \subseteq givenUp'
    PROVE  ImagesSound'
<1>1. SlotsWhole'
  BY SlotsKept DEF ImagesSound, Images
<1>2. TmpApart' /\ KeysBounded'
  <2>1. \A f \in Images' : \E g \in Images : Keeps(f, g)
    BY DEF Images, Keeps
  <2>. QED
    BY <2>1, TmpKept DEF ImagesSound
<1>. QED
  BY <1>1, <1>2 DEF ImagesSound

LEMMA TmpWritten ==
    ASSUME TypeOK, ImagesSound, fs[Tmp] # NoDir,
           NEW d \in Dir, d.key = fs[Tmp].key, fs' = [fs EXCEPT ![Tmp] = d],
           older' = older, keystore \subseteq keystore', attempt' = attempt,
           givenUp' = givenUp
    PROVE  /\ ImagesSound'
           /\ fs' \in [Path -> Dir \cup {NoDir}]
           /\ fs'[Tmp] = d /\ fs'[Tmp] # NoDir
           /\ \A s \in Slot : fs'[s] = fs[s]
<1>1. fs \in [Path -> Dir \cup {NoDir}]
  BY DEF TypeOK
<1>2. /\ fs' \in [Path -> Dir \cup {NoDir}]
      /\ fs'[Tmp] = d /\ fs'[Tmp] # NoDir
      /\ \A s \in Slot : fs'[s] = fs[s]
  BY <1>1, PathType, NoDirAssumption
<1>3. SlotsWhole'
  <2>. SUFFICES ASSUME NEW f \in Images'
                PROVE  \E g \in Images : \A s \in Slot : f[s] = g[s]
    BY SlotsKept DEF ImagesSound
  <2>1. CASE f \in older
    BY <2>1 DEF Images
  <2>2. CASE f = fs'
    BY <2>2, <1>2 DEF Images
  <2>. QED
    BY <2>1, <2>2 DEF Images
<1>4. TmpApart' /\ KeysBounded'
  <2>1. Keeps(fs', fs)
    BY <1>2 DEF Keeps, Path
  <2>2. ASSUME NEW f \in Images' PROVE \E g \in Images : Keeps(f, g)
    <3>1. CASE f \in older
      <4>1. Keeps(f, f)
        BY DEF Keeps
      <4>. QED
        BY <3>1, <4>1 DEF Images
    <3>2. CASE f = fs'
      BY <3>2, <2>1 DEF Images
    <3>. QED
      BY <3>1, <3>2 DEF Images
  <2>. QED
    BY <1>2, <2>2, TmpKept DEF ImagesSound
<1>. QED
  BY <1>2, <1>3, <1>4 DEF ImagesSound

LEMMA FileAdded ==
    ASSUME TypeOK, ImagesSound, fs[Tmp] # NoDir, NEW f \in KeyFiles, AddFile(f),
           attempt' = attempt, givenUp' = givenUp
    PROVE  /\ ImagesSound'
           /\ fs' \in [Path -> Dir \cup {NoDir}]
           /\ fs'[Tmp] # NoDir /\ fs'[Tmp].key = fs[Tmp].key
           /\ fs'[Tmp].files = fs[Tmp].files \cup {f}
           /\ \A s \in Slot : fs'[s] = fs[s]
<1>. DEFINE F == fs[Tmp].files \cup {f}
            d == [fs[Tmp] EXCEPT !.files = F]
<1>1. fs[Tmp] \in Dir /\ F \in SUBSET KeyFiles
  BY ImageType, PathType DEF Images
<1>2. d \in Dir /\ d.key = fs[Tmp].key /\ d.files = F
  BY <1>1, DirFiles
<1>3. fs' = [fs EXCEPT ![Tmp] = d] /\ older' = older /\ keystore' = keystore
  BY DEF AddFile
<1>. HIDE DEF d
<1>4. /\ ImagesSound' /\ fs' \in [Path -> Dir \cup {NoDir}]
      /\ fs'[Tmp] = d /\ fs'[Tmp] # NoDir
      /\ \A s \in Slot : fs'[s] = fs[s]
  BY <1>2, <1>3, TmpWritten
<1>. QED
  BY <1>2, <1>4

-----------------------------------------------------------------------------
\* One lemma per action, or for the actions that change the same things.

LEMMA FailedStep ==
    ASSUME IInv, pc' = "idle",
           UNCHANGED <<files, keystore, bindVars, callVars, attempt, reports>>
    PROVE  IInv'
<1>1. ImagesSound'
  BY NothingWritten DEF IInv, files, reports
<1>2. TypeOK' /\ Storing' /\ Destroying'
  BY DEF IInv, TypeOK, Storing, Destroying, Images, files, bindVars, callVars, reports
<1>. QED
  BY <1>1, <1>2 DEF IInv

LEMMA CreateStep ==
    ASSUME IInv, createSecdiscardable PROVE IInv'
<1>1. CASE Fails("secdiscardable")
  BY <1>1, FailedStep DEF Fails, createSecdiscardable
<1>2. CASE Writes("secdiscardable", "appid") /\ AddFile("secdiscardable")
  <2>0. /\ pc = "secdiscardable" /\ pc' = "appid"
        /\ UNCHANGED <<bindVars, callVars, attempt, reports, older, keystore>>
    BY <1>2 DEF Writes, AddFile, createSecdiscardable
  <2>1. UsesKeystore /\ fs[Tmp] # NoDir /\ fs[Tmp].files = {"version"}
    BY <2>0 DEF IInv, Storing
  <2>2. /\ ImagesSound' /\ fs' \in [Path -> Dir \cup {NoDir}]
        /\ fs'[Tmp] # NoDir /\ fs'[Tmp].files = Secret
    BY <1>2, <2>0, <2>1, FileAdded, KeyFilesType DEF IInv, Secret, reports
  <2>3. TypeOK' /\ Storing' /\ Destroying'
    BY <2>0, <2>2 DEF IInv, TypeOK, Storing, Destroying, bindVars, callVars, reports
  <2>. QED
    BY <2>2, <2>3 DEF IInv
<1>. QED
  BY <1>1, <1>2 DEF createSecdiscardable

LEMMA AppIdStep ==
    ASSUME IInv, AppIdOfStore PROVE IInv'
<1>1. ImagesSound'
  BY NothingWritten DEF IInv, AppIdOfStore, files, reports
<1>2. TypeOK'
  BY DEF IInv, TypeOK, AppIdOfStore, Writes, generateAppId, files, callVars, reports
<1>3. Storing' /\ Destroying'
  BY KeyFilesType
     DEF IInv, AppIdOfStore, Writes, Storing, Destroying, Wrapped, files, callVars, reports
<1>. QED
  BY <1>1, <1>2, <1>3 DEF IInv

LEMMA GenerateStep ==
    ASSUME IInv, generateKeyStorageKey PROVE IInv'
<1>1. CASE Fails("generate")
  BY <1>1, FailedStep DEF Fails, generateKeyStorageKey
<1>2. CASE Writes("generate", "blob") /\ keystore' = keystore \cup {fs[Tmp].key} /\ UNCHANGED files
  <2>0. /\ pc = "generate" /\ pc' = "blob" /\ fs' = fs /\ older' = older
        /\ UNCHANGED <<bindVars, callVars, attempt, reports>>
    BY <1>2 DEF Writes, files, generateKeyStorageKey
  <2>1. SlotsWhole'
    BY <1>2, <2>0, SlotsKept DEF IInv, ImagesSound, Images, reports
  <2>2. TmpApart' /\ KeysBounded'
    BY <2>0 DEF IInv, ImagesSound, TmpApart, KeysBounded, Images
  <2>3. fs[Tmp] # NoDir /\ fs[Tmp].key \in Key
    BY <2>0, ImageType, PathType DEF IInv, Storing, Images
  <2>4. TypeOK' /\ Storing' /\ Destroying'
    BY <1>2, <2>0, <2>3 DEF IInv, TypeOK, Storing, Wrapped, Destroying, bindVars, callVars, reports
  <2>. QED
    BY <2>1, <2>2, <2>4 DEF IInv, ImagesSound
<1>. QED
  BY <1>1, <1>2 DEF generateKeyStorageKey

LEMMA BlobStep ==
    ASSUME IInv, WriteBlob PROVE IInv'
<1>1. CASE Fails("blob")
  BY <1>1, FailedStep DEF Fails, WriteBlob
<1>2. CASE Writes("blob", "encrypt") /\ AddFile("keymaster_key_blob")
  <2>0. /\ pc = "blob" /\ pc' = "encrypt"
        /\ UNCHANGED <<bindVars, callVars, attempt, reports, older, keystore>>
    BY <1>2 DEF Writes, AddFile, WriteBlob
  <2>1. UsesKeystore /\ fs[Tmp] # NoDir /\ fs[Tmp].files = Secret /\ Wrapped
    BY <2>0 DEF IInv, Storing
  <2>2. /\ ImagesSound' /\ fs' \in [Path -> Dir \cup {NoDir}]
        /\ fs'[Tmp] # NoDir /\ fs'[Tmp].key = fs[Tmp].key
        /\ fs'[Tmp].files = KeyFiles \ {"encrypted_key"}
    BY <1>2, <2>0, <2>1, FileAdded, KeyFilesType DEF IInv, reports
  <2>3. TypeOK' /\ Storing' /\ Destroying'
    BY <2>0, <2>1, <2>2
       DEF IInv, TypeOK, Storing, Wrapped, Destroying, bindVars, callVars, reports
  <2>. QED
    BY <2>2, <2>3 DEF IInv
<1>. QED
  BY <1>1, <1>2 DEF WriteBlob

LEMMA EncryptStep ==
    ASSUME IInv, WriteEncryptedKey PROVE IInv'
<1>1. CASE Fails("encrypt")
  BY <1>1, FailedStep DEF Fails, WriteEncryptedKey
<1>2. CASE Writes("encrypt", "fsync") /\ AddFile("encrypted_key")
  <2>0. /\ pc = "encrypt" /\ pc' = "fsync"
        /\ UNCHANGED <<bindVars, callVars, attempt, reports, older, keystore>>
    BY <1>2 DEF Writes, AddFile, WriteEncryptedKey
  <2>1. fs[Tmp] # NoDir /\ fs[Tmp].files = KeyFiles \ {"encrypted_key"} /\ Wrapped
    BY <2>0 DEF IInv, Storing
  <2>2. /\ ImagesSound' /\ fs' \in [Path -> Dir \cup {NoDir}]
        /\ fs'[Tmp] # NoDir /\ fs'[Tmp].key = fs[Tmp].key
        /\ fs'[Tmp].files = KeyFiles
    BY <1>2, <2>0, <2>1, FileAdded, KeyFilesType DEF IInv, reports
  <2>3. TypeOK' /\ Storing' /\ Destroying'
    BY <2>0, <2>1, <2>2
       DEF IInv, TypeOK, Storing, Wrapped, Destroying, bindVars, callVars, reports
  <2>. QED
    BY <2>2, <2>3 DEF IInv
<1>. QED
  BY <1>1, <1>2 DEF WriteEncryptedKey

LEMMA FsyncStep ==
    ASSUME IInv, FsyncDirectory PROVE IInv'
<1>1. CASE Fails("fsync")
  BY <1>1, FailedStep DEF Fails, FsyncDirectory
<1>2. CASE /\ Writes("fsync", "rename") /\ fs' = [fs EXCEPT ![Tmp].synced = TRUE]
           /\ UNCHANGED <<older, keystore>>
  <2>. DEFINE d == [fs[Tmp] EXCEPT !.synced = TRUE]
  <2>0. /\ pc = "fsync" /\ pc' = "rename"
        /\ UNCHANGED <<bindVars, callVars, attempt, reports, older, keystore>>
    BY <1>2 DEF Writes, FsyncDirectory
  <2>1. fs[Tmp] # NoDir /\ fs[Tmp].files = KeyFiles /\ Wrapped
    BY <2>0 DEF IInv, Storing
  <2>2. fs[Tmp] \in Dir
    BY <2>1, ImageType, PathType DEF IInv, Images
  <2>3. d \in Dir /\ d.key = fs[Tmp].key /\ d.files = KeyFiles /\ d.synced
    BY <2>1, <2>2, DirSynced
  <2>4. fs' = [fs EXCEPT ![Tmp] = d]
    BY <1>2
  <2>. HIDE DEF d
  <2>5. /\ ImagesSound' /\ fs' \in [Path -> Dir \cup {NoDir}]
        /\ fs'[Tmp] = d /\ fs'[Tmp] # NoDir
    BY <2>0, <2>1, <2>3, <2>4, TmpWritten DEF IInv, reports
  <2>6. TypeOK' /\ Storing' /\ Destroying'
    BY <2>0, <2>1, <2>3, <2>5
       DEF IInv, TypeOK, Storing, Wrapped, Destroying, bindVars, callVars, reports
  <2>. QED
    BY <2>5, <2>6 DEF IInv
<1>. QED
  BY <1>1, <1>2 DEF FsyncDirectory

\* The directory mkdir makes has a key no image has.
LEMMA MakeStep ==
    ASSUME IInv, MakeKeyDir PROVE IInv'
<1>1. CASE Fails("mkdir") /\ UNCHANGED attempt
  BY <1>1, FailedStep DEF Fails, MakeKeyDir
<1>2. CASE Writes("mkdir", "idle") /\ UNCHANGED <<files, keystore, attempt>>
  BY <1>2, FailedStep DEF Writes, MakeKeyDir
<1>. DEFINE d == [key |-> attempt + 1, files |-> {"version"}, synced |-> FALSE]
<1>3. CASE /\ Writes("mkdir", IF UsesKeystore THEN "secdiscardable" ELSE "appid")
           /\ fs[Tmp] = NoDir /\ attempt' = attempt + 1
           /\ fs' = [fs EXCEPT ![Tmp] = d]
           /\ older' = older \cup {fs} /\ keystore' = keystore
  <2>0. /\ pc = "mkdir" /\ pc' = IF UsesKeystore THEN "secdiscardable" ELSE "appid"
        /\ UNCHANGED <<bindVars, callVars, reports>>
    BY <1>3 DEF Writes, MakeKeyDir
  <2>1. attempt \in Nat /\ attempt < MaxKey /\ attempt' \in Key /\ attempt' \in 0..MaxKey
    BY <1>3, <2>0, KeyStorageAssumption DEF IInv, TypeOK, Destroying, Key
  <2>2. d \in Dir /\ d.key = attempt + 1 /\ d.files = {"version"} /\ d # NoDir
    <3>1. attempt + 1 \in Key /\ {"version"} \in SUBSET KeyFiles
      BY <1>3, <2>1, KeyFilesType
    <3>2. d \in Dir
      BY <3>1 DEF Dir
    <3>3. d.key = attempt + 1 /\ d.files = {"version"}
      OBVIOUS
    <3>. QED
      BY <3>2, <3>3, NoDirAssumption
  <2>. HIDE DEF d
  <2>3. /\ fs' \in [Path -> Dir \cup {NoDir}] /\ fs'[Tmp] = d
        /\ \A s \in Slot : fs'[s] = fs[s]
        /\ older' \subseteq [Path -> Dir \cup {NoDir}]
    BY <1>3, <2>2, PathType DEF IInv, TypeOK
  <2>4. Images' = Images \cup {fs'}
    BY <1>3 DEF Images
  <2>5. SlotsWhole'
    <3>1. \A f \in Images' : \E g \in Images : \A s \in Slot : f[s] = g[s]
      BY <2>3, <2>4 DEF Images
    <3>. QED
      BY <1>3, <2>0, <3>1, SlotsKept DEF IInv, ImagesSound, reports
  <2>6. ASSUME NEW f \in Images, NEW p \in Path, f[p] # NoDir
        PROVE  f[p].key \in Nat /\ f[p].key <= attempt
    BY <2>6, ImageType DEF IInv, ImagesSound, KeysBounded, Key
  <2>7. KeysBounded'
    <3>. SUFFICES ASSUME NEW f \in Images', NEW p \in Path, f[p] # NoDir
                  PROVE  f[p].key <= attempt + 1
      BY <1>3 DEF KeysBounded
    <3>1. CASE f \in Images
      BY <2>1, <2>6, <3>1
    <3>2. CASE f = fs' /\ p = Tmp
      BY <2>1, <2>2, <2>3, <3>2
    <3>3. CASE f = fs' /\ p \in Slot
      BY <2>1, <2>3, <2>6, <3>3 DEF Images
    <3>. QED
      BY <2>4, <3>1, <3>2, <3>3 DEF Path
  <2>8. TmpApart'
    <3>. SUFFICES ASSUME NEW f \in Images', NEW s \in Slot, f[s] # NoDir
                  PROVE  /\ f[Tmp] # NoDir => f[s].key # f[Tmp].key
                         /\ f[s].key # fs'[Tmp].key
      BY DEF TmpApart
    <3>1. \E g \in Images : f[s] = g[s]
      BY <2>3, <2>4 DEF Images
    <3>2. f[s].key # fs'[Tmp].key
      BY <2>1, <2>2, <2>3, <2>6, <3>1, PathType
    <3>3. CASE f \in Images
      BY <3>2, <3>3 DEF IInv, ImagesSound, TmpApart
    <3>4. CASE f = fs'
      BY <3>2, <3>4
    <3>. QED
      BY <2>4, <3>2, <3>3, <3>4
  <2>9. TypeOK'
    BY <1>3, <2>0, <2>1, <2>3 DEF IInv, TypeOK, bindVars, callVars, reports
  <2>10. Storing' /\ Destroying'
    BY <2>0, <2>2, <2>3, KeyFilesType DEF Storing, Destroying, Secret
  <2>. QED
    BY <2>5, <2>7, <2>8, <2>9, <2>10 DEF IInv, ImagesSound
<1>. QED
  BY <1>1, <1>2, <1>3 DEF MakeKeyDir, pathExists, Unsynced

\* The directory that becomes a key path's is whole, and Tmp is no more.
LEMMA RenameStep ==
    ASSUME IInv, RenameKeyDir PROVE IInv'
<1>1. CASE Fails("rename")
  BY <1>1, FailedStep DEF Fails, RenameKeyDir
<1>2. CASE /\ Writes("rename", "parent")
           /\ fs' = [fs EXCEPT ![target] = fs[Tmp], ![Tmp] = NoDir]
           /\ older' = older \cup {fs} /\ keystore' = keystore
  <2>0. /\ pc = "rename" /\ pc' = "parent" /\ target \in Slot
        /\ UNCHANGED <<bindVars, callVars, attempt, reports>>
    BY <1>2 DEF Writes, RenameKeyDir, IInv, TypeOK
  <2>1. fs[Tmp] # NoDir /\ Whole(fs[Tmp])
    BY <2>0 DEF IInv, Storing, Wrapped, Whole
  <2>2. /\ fs' \in [Path -> Dir \cup {NoDir}] /\ fs'[Tmp] = NoDir
        /\ fs'[target] = fs[Tmp]
        /\ \A s \in Slot : s # target => fs'[s] = fs[s]
        /\ older' \subseteq [Path -> Dir \cup {NoDir}]
    BY <1>2, <2>0, PathType DEF IInv, TypeOK
  <2>3. Images' = Images \cup {fs'}
    BY <1>2 DEF Images
  <2>4. SlotsWhole'
    <3>. SUFFICES ASSUME NEW f \in Images', NEW s \in Slot,
                         f[s] # NoDir, f[s].key \notin givenUp
                  PROVE  Whole(f[s])
      BY <1>2, <2>0 DEF SlotsWhole, Whole, reports
    <3>1. CASE f \in Images
      BY <3>1 DEF IInv, ImagesSound, SlotsWhole
    <3>2. CASE f = fs' /\ s = target
      BY <2>1, <2>2, <3>2
    <3>3. CASE f = fs' /\ s # target
      BY <2>2, <3>3 DEF IInv, ImagesSound, SlotsWhole, Images
    <3>. QED
      BY <2>3, <3>1, <3>2, <3>3
  <2>5. TmpApart'
    BY <2>2, <2>3 DEF IInv, ImagesSound, TmpApart
  <2>6. KeysBounded'
    <3>. SUFFICES ASSUME NEW f \in Images', NEW p \in Path, f[p] # NoDir
                  PROVE  f[p].key <= attempt
      BY <2>0 DEF KeysBounded
    <3>1. \E g \in Images, q \in Path : f[p] = g[q]
      BY <2>2, <2>3, PathType DEF Images, Path
    <3>. QED
      BY <3>1 DEF IInv, ImagesSound, KeysBounded
  <2>7. TypeOK'
    BY <1>2, <2>0, <2>2 DEF IInv, TypeOK, bindVars, callVars, reports
  <2>8. Storing' /\ Destroying'
    BY <2>0, <2>1, <2>2 DEF Storing, Destroying, callVars
  <2>. QED
    BY <2>4, <2>5, <2>6, <2>7, <2>8 DEF IInv, ImagesSound
<1>. QED
  BY <1>1, <1>2 DEF RenameKeyDir, Unsynced

LEMMA ParentStep ==
    ASSUME IInv, FsyncParentDirectory PROVE IInv'
<1>1. CASE Fails("parent") /\ UNCHANGED reports
  BY <1>1, FailedStep DEF Fails, FsyncParentDirectory
<1>2. CASE /\ Writes("parent", "idle") /\ older' = {}
           /\ stored' = [stored EXCEPT ![target] = fs[target].key]
           /\ UNCHANGED <<fs, keystore, givenUp, destroyed>>
  <2>1. ImagesSound'
    BY <1>2, NothingWritten DEF FsyncParentDirectory, IInv
  <2>2. fs[target].key \in Key
    BY <1>2, ImageType, PathType DEF IInv, Storing, Writes, Images, TypeOK
  <2>3. TypeOK'
    BY <1>2, <2>2
       DEF IInv, TypeOK, FsyncParentDirectory, Writes, bindVars, callVars
  <2>4. Storing' /\ Destroying'
    BY <1>2 DEF Writes, Storing, Destroying
  <2>. QED
    BY <2>1, <2>3, <2>4 DEF IInv
<1>. QED
  BY <1>1, <1>2 DEF FsyncParentDirectory

\* The calls as they begin, and those that write no file.
LEMMA CallStep ==
    ASSUME IInv, NEW s \in Slot,
           storeKeyAtomically(s) \/ retrieveKey(s) \/ destroyKey(s)
    PROVE  IInv'
<1>1. CASE storeKeyAtomically(s)
  <2>1. ImagesSound'
    BY <1>1, NothingWritten DEF IInv, storeKeyAtomically, files, reports
  <2>2. TypeOK'
    BY <1>1, PathType
       DEF IInv, TypeOK, storeKeyAtomically, files, bindVars, reports
  <2>3. Storing' /\ Destroying'
    BY <1>1, PathType
       DEF storeKeyAtomically, Storing, Destroying, pathExists, files, reports
  <2>. QED
    BY <2>1, <2>2, <2>3 DEF IInv
<1>2. CASE retrieveKey(s)
  <2>1. ImagesSound'
    BY <1>2, NothingWritten DEF IInv, retrieveKey, files, reports
  <2>2. TypeOK' /\ Storing' /\ Destroying'
    BY <1>2 DEF IInv, TypeOK, Storing, Wrapped, Destroying, retrieveKey,
                generateAppId, files, callVars, reports
  <2>. QED
    BY <2>1, <2>2 DEF IInv
<1>3. CASE destroyKey(s)
  <2>1. ImagesSound'
    BY <1>3, NothingWritten DEF IInv, destroyKey, files
  <2>2. fs[s] # NoDir /\ fs[s].key \in Key /\ s \in Path /\ s # Tmp
    BY <1>3, ImageType, PathType DEF IInv, destroyKey, pathExists, Images
  <2>3. TypeOK'
    BY <1>3, <2>2 DEF IInv, TypeOK, destroyKey, files, bindVars
  <2>4. Storing' /\ Destroying'
    BY <1>3, <2>2 DEF destroyKey, Storing, Destroying, files
  <2>. QED
    BY <2>1, <2>3, <2>4 DEF IInv
<1>. QED
  BY <1>1, <1>2, <1>3

LEMMA SeedStep ==
    ASSUME IInv, setKeyStorageBindingSeed PROVE IInv'
<1>1. ImagesSound'
  BY NothingWritten DEF IInv, setKeyStorageBindingSeed, files, reports
<1>2. TypeOK' /\ Storing' /\ Destroying'
  BY DEF IInv, TypeOK, Storing, Wrapped, Destroying, setKeyStorageBindingSeed,
         files, callVars, reports
<1>. QED
  BY <1>1, <1>2 DEF IInv

\* No key path that was not given up holds the key being destroyed.
LEMMA DestroyedApart ==
    ASSUME IInv, pc \in {"delete", "secdiscard", "rm"},
           NEW f \in Images, NEW s \in Slot, f[s] # NoDir, f[s].key \notin givenUp
    PROVE  f[s].key # fs[dir].key
<1>1. fs[dir] # NoDir /\ (dir = Tmp \/ dir \in Slot)
  BY DEF IInv, TypeOK, Destroying, Path
<1>2. CASE dir = Tmp
  BY <1>1, <1>2 DEF IInv, ImagesSound, TmpApart
<1>3. CASE dir \in Slot
  BY <1>3 DEF IInv, Destroying
<1>. QED
  BY <1>1, <1>2, <1>3

LEMMA DeleteStep ==
    ASSUME IInv, DeleteKeystoreKey PROVE IInv'
<1>0. /\ pc = "delete" /\ pc' = "secdiscard" /\ fs' = fs /\ older' = older
      /\ UNCHANGED <<bindVars, target, dir, attempt, reports>>
  BY DEF DeleteKeystoreKey, Writes, files
<1>1. keystore' = keystore \/ keystore' = keystore \ {fs[dir].key}
  BY DEF DeleteKeystoreKey
<1>2. SlotsWhole'
  <2>. SUFFICES ASSUME NEW f \in Images, NEW s \in Slot,
                       f[s] # NoDir, f[s].key \notin givenUp
                PROVE  Whole(f[s])'
    BY <1>0 DEF SlotsWhole, Images, reports
  <2>1. Whole(f[s])
    BY DEF IInv, ImagesSound, SlotsWhole
  <2>2. f[s].key # fs[dir].key
    BY <1>0, DestroyedApart
  <2>. QED
    BY <1>1, <2>1, <2>2 DEF Whole
<1>3. TmpApart' /\ KeysBounded'
  BY <1>0 DEF IInv, ImagesSound, TmpApart, KeysBounded, Images
<1>4. success' \in BOOLEAN
  BY DEF DeleteKeystoreKey, Flawed, IInv, TypeOK
<1>5. TypeOK' /\ Storing' /\ Destroying'
  BY <1>0, <1>1, <1>4 DEF IInv, TypeOK, Storing, Destroying, bindVars, reports
<1>. QED
  BY <1>2, <1>3, <1>5 DEF IInv, ImagesSound

\* Discarding keeps directories and their keys.
LEMMA Discarded ==
    ASSUME NEW k, NEW d \in Dir \cup {NoDir}
    PROVE  /\ Discard(k, d) \in Dir \cup {NoDir}
           /\ d = NoDir <=> Discard(k, d) = NoDir
           /\ d # NoDir => Discard(k, d).key = d.key
           /\ d # NoDir /\ d.key # k => Discard(k, d) = d
<1>1. CASE d = NoDir \/ d.key # k
  BY <1>1 DEF Discard
<1>2. CASE d # NoDir /\ d.key = k
  <2>. DEFINE F == d.files \cap {"version"}
  <2>1. d \in Dir /\ F \in SUBSET KeyFiles
    BY <1>2 DEF Dir
  <2>2. LET e == [d EXCEPT !.files = F] IN e \in Dir /\ e # NoDir /\ e.key = d.key
    BY <2>1, DirFiles
  <2>. QED
    BY <1>2, <2>2 DEF Discard
<1>. QED
  BY <1>1, <1>2

LEMMA SecdiscardStep ==
    ASSUME IInv, Secdiscard PROVE IInv'
<1>0. /\ pc = "secdiscard" /\ pc' = "rm"
      /\ UNCHANGED <<keystore, bindVars, target, dir, attempt, reports>>
  BY DEF Secdiscard, Writes
<1>1. success' \in BOOLEAN
  BY DEF Secdiscard, Flawed, IInv, TypeOK
<1>2. fs[dir] # NoDir /\ dir \in Path
  BY <1>0 DEF IInv, TypeOK, Destroying
<1>. DEFINE Scrubbed(f) == [p \in Path |-> Discard(fs[dir].key, f[p])]
<1>3. CASE UNCHANGED files
  <2>1. ImagesSound'
    BY <1>0, <1>3, NothingWritten DEF IInv, files, reports
  <2>2. TypeOK' /\ Storing' /\ Destroying'
    BY <1>0, <1>1, <1>3
       DEF IInv, TypeOK, Storing, Destroying, files, bindVars, reports
  <2>. QED
    BY <2>1, <2>2 DEF IInv
<1>4. CASE fs' = Scrubbed(fs) /\ older' = {Scrubbed(f) : f \in older}
  <2>1. ASSUME NEW f \in Images
        PROVE  /\ Scrubbed(f) \in [Path -> Dir \cup {NoDir}]
               /\ \A p \in Path :
                    /\ f[p] # NoDir <=> Scrubbed(f)[p] # NoDir
                    /\ f[p] # NoDir => Scrubbed(f)[p].key = f[p].key
                    /\ f[p] # NoDir /\ f[p].key # fs[dir].key => Scrubbed(f)[p] = f[p]
    <3>1. \A p \in Path : f[p] \in Dir \cup {NoDir}
      BY ImageType DEF IInv
    <3>. QED
      BY <3>1, Discarded
  <2>2. \A f \in Images' : \E g \in Images : f = Scrubbed(g)
    BY <1>4 DEF Images
  <2>. HIDE DEF Scrubbed
  <2>3. SlotsWhole'
    <3>. SUFFICES ASSUME NEW f \in Images', NEW s \in Slot,
                         f[s] # NoDir, f[s].key \notin givenUp
                  PROVE  Whole(f[s])
      BY <1>0 DEF SlotsWhole, Whole, reports
    <3>1. PICK g \in Images : f = Scrubbed(g)
      BY <2>2
    <3>2. g[s] # NoDir /\ g[s].key \notin givenUp
      BY <2>1, <3>1, PathType
    <3>3. g[s].key # fs[dir].key
      BY <1>0, <3>2, DestroyedApart
    <3>. QED
      BY <2>1, <3>1, <3>2, <3>3, PathType DEF IInv, ImagesSound, SlotsWhole
  <2>4. TmpApart' /\ KeysBounded'
    <3>1. \A f \in Images' : \E g \in Images : Keeps(f, g)
      <4>. SUFFICES ASSUME NEW f \in Images' PROVE \E g \in Images : Keeps(f, g)
        OBVIOUS
      <4>1. PICK g \in Images : f = Scrubbed(g)
        BY <2>2
      <4>. QED
        BY <2>1, <4>1 DEF Keeps
    <3>2. fs'[Tmp] # NoDir => fs[Tmp] # NoDir /\ fs'[Tmp].key = fs[Tmp].key
      BY <1>4, <2>1, PathType DEF Images
    <3>. QED
      BY <1>0, <3>1, <3>2, TmpKept DEF IInv, ImagesSound
  <2>5. fs' \in [Path -> Dir \cup {NoDir}] /\ older' \subseteq [Path -> Dir \cup {NoDir}]
    BY <1>4, <2>1 DEF Images
  <2>6. fs'[dir] # NoDir /\ fs'[dir].key = fs[dir].key
    BY <1>2, <1>4, <2>1 DEF Images
  <2>7. TypeOK' /\ Storing' /\ Destroying'
    BY <1>0, <1>1, <2>5, <2>6
       DEF IInv, TypeOK, Storing, Destroying, bindVars, reports
  <2>. QED
    BY <2>3, <2>4, <2>7 DEF IInv, ImagesSound
<1>. QED
  BY <1>3, <1>4 DEF Secdiscard

\* Deleted or not, what is at dir now has the key it had, in every image.
LEMMA DirRewritten ==
    ASSUME IInv, pc = "rm", keystore' = keystore, attempt' = attempt, givenUp' = givenUp,
           NEW d \in Dir \cup {NoDir}, d # NoDir => d.key = fs[dir].key,
           fs' = [fs EXCEPT ![dir] = d],
           NEW e \in Dir, e.key = fs[dir].key,
           older' \subseteq older \cup {[fs EXCEPT ![dir] = e]}
    PROVE  /\ ImagesSound'
           /\ fs' \in [Path -> Dir \cup {NoDir}]
           /\ older' \subseteq [Path -> Dir \cup {NoDir}]
<1>. DEFINE h == [fs EXCEPT ![dir] = e]
<1>1. fs[dir] # NoDir /\ dir \in Path
  BY DEF IInv, TypeOK, Destroying
<1>2. /\ fs' \in [Path -> Dir \cup {NoDir}] /\ h \in [Path -> Dir \cup {NoDir}]
      /\ older' \subseteq [Path -> Dir \cup {NoDir}]
  BY <1>1 DEF IInv, TypeOK
<1>3. /\ fs'[dir] = d /\ h[dir] = e /\ e # NoDir
      /\ \A p \in Path : p # dir => fs'[p] = fs[p] /\ h[p] = fs[p]
  BY <1>1, <1>2, NoDirAssumption DEF IInv, TypeOK
<1>4. Images' \subseteq older \cup {fs', h}
  BY DEF Images
<1>. HIDE DEF h
<1>5. SlotsWhole'
  <2>. SUFFICES ASSUME NEW f \in Images', NEW s \in Slot,
                       f[s] # NoDir, f[s].key \notin givenUp
                PROVE  Whole(f[s])
    BY DEF SlotsWhole, Whole
  <2>1. CASE f \in older
    BY <2>1 DEF IInv, ImagesSound, SlotsWhole, Images
  <2>2. CASE f \in {fs', h} /\ s = dir
    BY <1>3, <2>2 DEF IInv, Destroying
  <2>3. CASE f \in {fs', h} /\ s # dir
    BY <1>3, <2>3, PathType DEF IInv, ImagesSound, SlotsWhole, Images
  <2>. QED
    BY <1>4, <2>1, <2>2, <2>3
<1>6. TmpApart' /\ KeysBounded'
  <2>1. Keeps(fs', fs) /\ Keeps(h, fs)
    BY <1>1, <1>3 DEF Keeps
  <2>2. ASSUME NEW f \in Images' PROVE \E g \in Images : Keeps(f, g)
    <3>1. Keeps(f, f)
      BY DEF Keeps
    <3>. QED
      BY <1>4, <2>1, <3>1 DEF Images
  <2>3. fs'[Tmp] # NoDir => fs[Tmp] # NoDir /\ fs'[Tmp].key = fs[Tmp].key
    BY <2>1, PathType DEF Keeps
  <2>. QED
    BY <2>2, <2>3, TmpKept DEF IInv, ImagesSound
<1>. QED
  BY <1>2, <1>5, <1>6 DEF ImagesSound

LEMMA RemoveStep ==
    ASSUME IInv, recursiveDeleteKey PROVE IInv'
<1>0. /\ pc = "rm" /\ pc' = IF dir = Tmp THEN "mkdir" ELSE "idle"
      /\ UNCHANGED <<keystore, bindVars, target, dir, attempt, stored, givenUp>>
  BY DEF recursiveDeleteKey, DestroyEnds
<1>1. fs[dir] \in Dir /\ fs[dir].key \in Key /\ fs[dir].files \subseteq KeyFiles
  BY <1>0, ImageType DEF IInv, TypeOK, Destroying, Images
<1>2. pc' = "mkdir" => attempt < MaxKey
  BY <1>0 DEF IInv, Destroying
<1>3. CASE /\ fs' = [fs EXCEPT ![dir] = NoDir]
           /\ older' = older \cup {[fs EXCEPT ![dir].synced = FALSE]}
           /\ destroyed' = IF success /\ dir \in Slot
                           THEN destroyed \cup {fs[dir].key} ELSE destroyed
           /\ UNCHANGED success
  <2>. DEFINE e == [fs[dir] EXCEPT !.synced = FALSE]
  <2>1. e \in Dir /\ e.key = fs[dir].key
    BY <1>1, DirSynced
  <2>2. older' = older \cup {[fs EXCEPT ![dir] = e]}
    BY <1>3
  <2>. HIDE DEF e
  <2>3. /\ ImagesSound' /\ fs' \in [Path -> Dir \cup {NoDir}]
        /\ older' \subseteq [Path -> Dir \cup {NoDir}]
    BY <1>0, <1>3, <2>1, <2>2, DirRewritten
  <2>4. destroyed' \subseteq givenUp'
    BY <1>0, <1>3 DEF IInv, TypeOK, Destroying
  <2>5. TypeOK' /\ Storing' /\ Destroying'
    BY <1>0, <1>2, <1>3, <2>3, <2>4
       DEF IInv, TypeOK, Storing, Destroying, bindVars
  <2>. QED
    BY <2>3, <2>5 DEF IInv
<1>4. ASSUME NEW F \in SUBSET fs[dir].files, success' = FALSE,
             fs' = [fs EXCEPT ![dir].files = F, ![dir].synced = FALSE],
             UNCHANGED <<older, destroyed>>
      PROVE  IInv'
  <2>. DEFINE d == [fs[dir] EXCEPT !.files = F, !.synced = FALSE]
  <2>1. d \in Dir /\ d.key = fs[dir].key
    BY <1>1, DirBoth
  <2>2. fs' = [fs EXCEPT ![dir] = d]
    BY <1>4
  <2>. HIDE DEF d
  <2>3. /\ ImagesSound' /\ fs' \in [Path -> Dir \cup {NoDir}]
        /\ older' \subseteq [Path -> Dir \cup {NoDir}]
    BY <1>0, <1>4, <2>1, <2>2, DirRewritten
  <2>4. TypeOK' /\ Storing' /\ Destroying'
    BY <1>0, <1>2, <1>4, <2>3 DEF IInv, TypeOK, Storing, Destroying, bindVars
  <2>. QED
    BY <2>3, <2>4 DEF IInv
<1>. QED
  BY <1>3, <1>4 DEF recursiveDeleteKey, Flawed

\* A directory that was synced survives a crash as it was, any other with its
\* key and some of its files.
LEMMA Survived ==
    ASSUME NEW d \in Dir \cup {NoDir}, NEW e \in Survives(d)
    PROVE  /\ e \in Dir \cup {NoDir}
           /\ e # NoDir => /\ d # NoDir /\ e.key = d.key
                           /\ d.synced => e.files = d.files /\ e.synced
<1>1. CASE d = NoDir
  BY <1>1 DEF Survives
<1>2. CASE d # NoDir
  <2>1. PICK F \in IF d.synced THEN {d.files} ELSE SUBSET d.files :
            e = [d EXCEPT !.files = F, !.synced = TRUE]
    BY <1>2 DEF Survives
  <2>2. d \in Dir /\ F \in SUBSET KeyFiles
    BY <1>2, <2>1 DEF Dir
  <2>3. e \in Dir /\ e.key = d.key /\ e.files = F /\ e.synced = TRUE
    BY <2>1, <2>2, DirBoth
  <2>. QED
    BY <1>2, <2>1, <2>3
<1>. QED
  BY <1>1, <1>2

LEMMA CrashStep ==
    ASSUME IInv, Crash PROVE IInv'
<1>0. /\ older' = {} /\ pc' = "idle" /\ success' = TRUE /\ dir' = Tmp
      /\ binding' = "UNINITIALIZED" /\ bindings' = {}
      /\ UNCHANGED <<keystore, target, attempt, reports>>
  BY DEF Crash
<1>1. PICK f \in Images :
          fs' \in {g \in [Path -> UNION {Survives(f[p]) : p \in Path}] :
                     \A p \in Path : g[p] \in Survives(f[p])}
  BY DEF Crash, Images
<1>2. \A p \in Path : f[p] \in Dir \cup {NoDir} /\ fs'[p] \in Survives(f[p])
  BY <1>1, ImageType DEF IInv
<1>3. \A p \in Path :
          /\ fs'[p] \in Dir \cup {NoDir}
          /\ fs'[p] # NoDir => /\ f[p] # NoDir /\ fs'[p].key = f[p].key
                               /\ f[p].synced => fs'[p].files = f[p].files /\ fs'[p].synced
  BY <1>2, Survived
<1>4. fs' \in [Path -> Dir \cup {NoDir}]
  BY <1>1, <1>3
<1>5. Images' = {fs'}
  BY <1>0 DEF Images
<1>6. SlotsWhole'
  BY <1>0, <1>3, <1>5, PathType DEF IInv, ImagesSound, SlotsWhole, Whole, reports
<1>7. TmpApart' /\ KeysBounded'
  BY <1>0, <1>3, <1>5, PathType DEF IInv, ImagesSound, TmpApart, KeysBounded
<1>8. TypeOK' /\ Storing' /\ Destroying'
  BY <1>0, <1>4, PathType DEF IInv, TypeOK, Storing, Destroying, reports
<1>. QED
  BY <1>6, <1>7, <1>8 DEF IInv, ImagesSound

-----------------------------------------------------------------------------
LEMMA Initially == Init => IInv
<1>. SUFFICES ASSUME Init PROVE IInv
  OBVIOUS
<1>1. Images = {fs} /\ \A p \in Path : fs[p] = NoDir
  BY DEF Init, Images
<1>2. ImagesSound
  BY <1>1, PathType DEF ImagesSound, SlotsWhole, TmpApart, KeysBounded
<1>3. TypeOK
  BY PathType, KeyStorageAssumption DEF Init, TypeOK
<1>4. Storing /\ Destroying
  BY DEF Init, Storing, Destroying
<1>. QED
  BY <1>2, <1>3, <1>4 DEF IInv

LEMMA Step ==
    ASSUME IInv, [Next]_vars PROVE IInv'
<1>1. CASE UNCHANGED vars
  BY <1>1 DEF IInv, TypeOK, ImagesSound, SlotsWhole, Whole, TmpApart, KeysBounded, Images,
              Storing, Wrapped, Destroying, vars, files, bindVars, callVars, reports
<1>2. CASE Next
  BY <1>2, CallStep, MakeStep, CreateStep, AppIdStep, GenerateStep, BlobStep, EncryptStep,
     FsyncStep, RenameStep, ParentStep, SeedStep, DeleteStep, SecdiscardStep, RemoveStep,
     CrashStep DEF Next
<1>. QED
  BY <1>1, <1>2

\* The "atomically" of storeKeyAtomically, with any number of key paths: one
\* that exists and was not given up holds a whole, usable key, and the types.
THEOREM NoTorn == Spec => []NoTornKey
<1>1. IInv => NoTornKey
  <2>. SUFFICES ASSUME IInv, NEW s \in Slot, fs[s] # NoDir, fs[s].key \notin givenUp
                PROVE  Readable(s) # None
    BY DEF IInv, NoTornKey, pathExists
  <2>1. Whole(fs[s])
    BY DEF IInv, ImagesSound, SlotsWhole, Images
  <2>2. fs[s].key \in Key
    BY ImageType, PathType DEF IInv, Images
  <2>3. Readable(s) = fs[s].key
    BY <2>1 DEF Readable, Whole, pathExists
  <2>. QED
    BY <2>2, <2>3, KeyStorageAssumption DEF Key
<1>. QED
  BY <1>1, Initially, Step, PTL DEF Spec

-----------------------------------------------------------------------------
(***************************************************************************)
(* KeyStorage implements KeySlot: what callers were told of a key stays    *)
(* true through every failure and crash.                                   *)
(***************************************************************************)
\* No image has the key of one key path at another.
Distinct ==
    \A f \in Images, s, t \in Slot :
        s # t /\ f[s] # NoDir /\ f[t] # NoDir => f[s].key # f[t].key

\* Keys whose destruction is reported, or will be if the directory can be
\* removed.
Gone == destroyed \cup IF pc = "rm" /\ dir \in Slot /\ success THEN {fs[dir].key} ELSE {}

\* They were overwritten wherever a crash could find them.
Dead ==
    \A f \in Images, p \in Path :
        f[p] # NoDir /\ f[p].key \in Gone => "encrypted_key" \notin f[p].files

\* A key reported as stored is in every image.
Kept ==
    \A s \in Slot : stored[s] # None =>
        /\ stored[s] \notin givenUp
        /\ \A f \in Images : f[s] # NoDir /\ f[s].key = stored[s]

Attempting == {"secdiscardable", "appid", "generate", "blob", "encrypt", "fsync", "rename"}

ForTarget ==
    \/ pc \in Attempting \cup {"mkdir"}
    \/ pc \in {"delete", "secdiscard", "rm"} /\ dir = Tmp

\* A storing attempt is for a path that has no key, with a key nobody gave up.
Fresh ==
    /\ \A k \in givenUp : k <= attempt
    /\ ForTarget => fs[target] = NoDir
    /\ pc \in Attempting => fs[Tmp].key \notin givenUp
    /\ pc = "parent" => fs[target].key \notin givenUp

Parts == Distinct /\ Dead /\ Kept /\ Fresh

RInv == IInv /\ Parts

-----------------------------------------------------------------------------
\* The key at every key path of f is that of g.
SameKeys(f, g) == \A s \in Slot : f[s] # NoDir => g[s] # NoDir /\ f[s].key = g[s].key

LEMMA StillDistinct ==
    ASSUME Distinct, \A f \in Images' : \E g \in Images : SameKeys(f, g)
    PROVE  Distinct'
<1>. SUFFICES ASSUME NEW f \in Images', NEW s \in Slot, NEW t \in Slot,
                     s # t, f[s] # NoDir, f[t] # NoDir
              PROVE  f[s].key # f[t].key
  BY DEF Distinct
<1>1. PICK g \in Images : SameKeys(f, g)
  OBVIOUS
<1>. QED
  BY <1>1 DEF Distinct, SameKeys

\* Dead keys stay so while directories only lose files, whatever the path.
Lesser(d, e) == e # NoDir /\ e.key = d.key /\ d.files \subseteq e.files

LEMMA StillDead ==
    ASSUME Dead, Gone' \subseteq Gone,
           \A f \in Images', p \in Path :
              f[p] # NoDir /\ f[p].key \in Gone' =>
                 \E g \in Images, q \in Path : Lesser(f[p], g[q])
    PROVE  Dead'
<1>. SUFFICES ASSUME NEW f \in Images', NEW p \in Path, f[p] # NoDir, f[p].key \in Gone'
              PROVE  "encrypted_key" \notin f[p].files
  BY DEF Dead
<1>1. PICK g \in Images, q \in Path : Lesser(f[p], g[q])
  OBVIOUS
<1>. QED
  BY <1>1 DEF Dead, Lesser

LEMMA StillKept ==
    ASSUME Kept, stored' = stored, givenUp' = givenUp,
           \A f \in Images' : \E g \in Images : \A s \in Slot :
              stored[s] # None /\ g[s] # NoDir => f[s] # NoDir /\ f[s].key = g[s].key
    PROVE  Kept'
<1>. SUFFICES ASSUME NEW s \in Slot, stored[s] # None, NEW f \in Images'
              PROVE  f[s] # NoDir /\ f[s].key = stored[s]
  BY DEF Kept
<1>1. PICK g \in Images : stored[s] # None /\ g[s] # NoDir => f[s] # NoDir /\ f[s].key = g[s].key
  OBVIOUS
<1>. QED
  BY <1>1 DEF Kept

LEMMA Untouched ==
    ASSUME RInv, fs' = fs, older' \subseteq older, Gone' \subseteq Gone
    PROVE  /\ Distinct' /\ Dead'
           /\ UNCHANGED <<stored, givenUp>> => Kept'
<1>1. \A f \in Images' : f \in Images
  BY DEF Images
<1>2. Distinct'
  BY <1>1, StillDistinct DEF RInv, Parts, SameKeys
<1>3. Dead'
  BY <1>1, StillDead DEF RInv, Parts, Lesser
<1>4. UNCHANGED <<stored, givenUp>> => Kept'
  BY <1>1, StillKept DEF RInv, Parts
<1>. QED
  BY <1>2, <1>3, <1>4

\* A call that fails returns at once.
LEMMA FailedParts ==
    ASSUME RInv, pc' = "idle", UNCHANGED <<files, callVars, attempt, reports>>
    PROVE  Parts'
<1>1. Gone' \subseteq Gone
  BY DEF Gone, reports
<1>2. Distinct' /\ Dead' /\ Kept'
  BY <1>1, Untouched DEF files, reports
<1>3. Fresh'
  BY DEF RInv, Parts, Fresh, ForTarget, Attempting, reports
<1>. QED
  BY <1>2, <1>3 DEF Parts

LEMMA CallParts ==
    ASSUME RInv, NEW s \in Slot,
           storeKeyAtomically(s) \/ retrieveKey(s) \/ destroyKey(s)
    PROVE  Parts'
<1>0. s # Tmp /\ s \in Path
  BY PathType
<1>1. CASE storeKeyAtomically(s)
  <2>1. Gone' \subseteq Gone
    BY <1>1 DEF storeKeyAtomically, Gone, reports
  <2>2. Distinct' /\ Dead' /\ Kept'
    BY <1>1, <2>1, Untouched DEF storeKeyAtomically, files, reports
  <2>3. Fresh'
    BY <1>1 DEF RInv, Parts, Fresh, ForTarget, Attempting, storeKeyAtomically,
                pathExists, files, reports
  <2>. QED
    BY <2>2, <2>3 DEF Parts
<1>2. CASE retrieveKey(s)
  <2>1. Gone' = Gone
    BY <1>2 DEF retrieveKey, Gone, files, callVars, reports
  <2>2. Distinct' /\ Dead' /\ Kept'
    BY <1>2, <2>1, Untouched DEF retrieveKey, files, reports
  <2>3. Fresh'
    BY <1>2 DEF RInv, Parts, Fresh, ForTarget, retrieveKey, files, callVars, reports
  <2>. QED
    BY <2>2, <2>3 DEF Parts
<1>3. CASE destroyKey(s)
  <2>0. /\ pc' = "delete" /\ dir' = s /\ destroyed' = destroyed /\ attempt' = attempt
        /\ fs[s] # NoDir /\ fs' = fs /\ older' = older
        /\ stored' = [stored EXCEPT ![s] = None]
        /\ givenUp' = givenUp \cup {fs[s].key}
    BY <1>3 DEF destroyKey, pathExists, files
  <2>1. Gone' \subseteq Gone
    BY <2>0 DEF Gone
  <2>2. Distinct' /\ Dead'
    BY <2>0, <2>1, Untouched
  <2>3. Kept'
    <3>. SUFFICES ASSUME NEW t \in Slot, stored'[t] # None
                  PROVE  /\ stored'[t] \notin givenUp'
                         /\ \A f \in Images : f[t] # NoDir /\ f[t].key = stored'[t]
      BY <2>0 DEF Kept, Images
    <3>1. t # s /\ stored'[t] = stored[t]
      BY <2>0 DEF RInv, IInv, TypeOK
    <3>2. stored[t] = fs[t].key /\ fs[t] # NoDir
      BY <3>1 DEF RInv, Parts, Kept, Images
    <3>3. fs[s].key # fs[t].key
      BY <2>0, <3>1, <3>2 DEF RInv, Parts, Distinct, Images
    <3>. QED
      BY <2>0, <3>1, <3>2, <3>3 DEF RInv, Parts, Kept
  <2>4. fs[s].key <= attempt
    BY <1>0, <2>0 DEF RInv, IInv, ImagesSound, KeysBounded, Images
  <2>5. Fresh'
    BY <1>0, <2>0, <2>4 DEF RInv, Parts, Fresh, ForTarget, Attempting
  <2>. QED
    BY <2>2, <2>3, <2>5 DEF Parts
<1>. QED
  BY <1>1, <1>2, <1>3

\* A step of an attempt that writes no file.
LEMMA AttemptParts ==
    ASSUME RInv, pc \in Attempting, pc' \in Attempting,
           UNCHANGED <<files, callVars, attempt, reports>>
    PROVE  Parts'
<1>1. Gone' \subseteq Gone
  BY DEF Gone, Attempting, reports
<1>2. Distinct' /\ Dead' /\ Kept'
  BY <1>1, Untouched DEF files, reports
<1>3. Fresh'
  BY DEF RInv, Parts, Fresh, ForTarget, Attempting, files, callVars, reports
<1>. QED
  BY <1>2, <1>3 DEF Parts

\* A step of an attempt that writes into its directory.
LEMMA TmpParts ==
    ASSUME RInv, pc \in Attempting, pc' \in Attempting, fs[Tmp] # NoDir,
           NEW d \in Dir, d.key = fs[Tmp].key, fs' = [fs EXCEPT ![Tmp] = d],
           older' = older, UNCHANGED <<callVars, attempt, reports>>
    PROVE  Parts'
<1>1. /\ fs'[Tmp] = d /\ fs'[Tmp] # NoDir
      /\ \A s \in Slot : fs'[s] = fs[s]
  BY PathType, NoDirAssumption DEF RInv, IInv, TypeOK
<1>2. Gone' = destroyed /\ Gone = destroyed
  BY DEF Gone, Attempting, reports
<1>3. \A f \in Images' : \E g \in Images : \A s \in Slot : f[s] = g[s]
  <2>. SUFFICES ASSUME NEW f \in Images' PROVE \E g \in Images : \A s \in Slot : f[s] = g[s]
    OBVIOUS
  <2>1. CASE f \in older
    BY <2>1 DEF Images
  <2>2. CASE f = fs'
    BY <1>1, <2>2 DEF Images
  <2>. QED
    BY <2>1, <2>2 DEF Images
<1>4. Distinct'
  BY <1>3, StillDistinct DEF RInv, Parts, SameKeys
<1>5. Dead'
  <2>. SUFFICES ASSUME NEW f \in Images', NEW p \in Path, f[p] # NoDir, f[p].key \in Gone'
                PROVE  \E g \in Images, q \in Path : Lesser(f[p], g[q])
    BY <1>2, StillDead DEF RInv, Parts
  <2>1. CASE f \in older
    BY <2>1 DEF Lesser, Images
  <2>2. CASE f = fs' /\ p \in Slot
    BY <1>1, <2>2 DEF Lesser, Images
  <2>3. CASE f = fs' /\ p = Tmp
    BY <1>1, <1>2, <2>3 DEF RInv, IInv, TypeOK, Parts, Fresh
  <2>. QED
    BY <2>1, <2>2, <2>3 DEF Images, Path
<1>6. Kept'
  BY <1>3, StillKept DEF RInv, Parts, reports
<1>7. Fresh'
  BY <1>1 DEF RInv, IInv, TypeOK, Parts, Fresh, ForTarget, Attempting, callVars, reports
<1>. QED
  BY <1>4, <1>5, <1>6, <1>7 DEF Parts

LEMMA AddFileParts ==
    ASSUME RInv, pc \in Attempting, pc' \in Attempting, fs[Tmp] # NoDir,
           NEW f \in KeyFiles, AddFile(f), UNCHANGED <<callVars, attempt, reports>>
    PROVE  Parts'
<1>. DEFINE F == fs[Tmp].files \cup {f}
            d == [fs[Tmp] EXCEPT !.files = F]
<1>1. fs[Tmp] \in Dir /\ F \in SUBSET KeyFiles
  BY ImageType, PathType DEF RInv, IInv, Images
<1>2. d \in Dir /\ d.key = fs[Tmp].key
  BY <1>1, DirFiles
<1>3. fs' = [fs EXCEPT ![Tmp] = d] /\ older' = older
  BY DEF AddFile
<1>. HIDE DEF d
<1>. QED
  BY <1>2, <1>3, TmpParts

LEMMA WritingParts ==
    ASSUME RInv,
           \/ createSecdiscardable \/ AppIdOfStore \/ generateKeyStorageKey
           \/ WriteBlob \/ WriteEncryptedKey \/ FsyncDirectory
    PROVE  Parts'
<1>1. CASE createSecdiscardable
  <2>1. CASE Fails("secdiscardable")
    BY <1>1, <2>1, FailedParts DEF Fails, createSecdiscardable
  <2>2. CASE Writes("secdiscardable", "appid") /\ AddFile("secdiscardable")
    <3>1. /\ pc \in Attempting /\ pc' \in Attempting /\ fs[Tmp] # NoDir
          /\ "secdiscardable" \in KeyFiles
      BY <2>2, KeyFilesType DEF Writes, Attempting, RInv, IInv, Storing
    <3>. QED
      BY <1>1, <2>2, <3>1, AddFileParts DEF createSecdiscardable
  <2>. QED
    BY <1>1, <2>1, <2>2 DEF createSecdiscardable
<1>2. CASE AppIdOfStore
  <2>1. pc \in Attempting /\ pc' \in Attempting
    BY <1>2 DEF AppIdOfStore, Writes, Attempting
  <2>. QED
    BY <1>2, <2>1, AttemptParts DEF AppIdOfStore
<1>3. CASE generateKeyStorageKey
  <2>1. CASE Fails("generate")
    BY <1>3, <2>1, FailedParts DEF Fails, generateKeyStorageKey
  <2>2. CASE Writes("generate", "blob") /\ UNCHANGED files
    <3>1. pc \in Attempting /\ pc' \in Attempting
      BY <2>2 DEF Writes, Attempting
    <3>. QED
      BY <1>3, <2>2, <3>1, AttemptParts DEF generateKeyStorageKey
  <2>. QED
    BY <1>3, <2>1, <2>2 DEF generateKeyStorageKey
<1>4. CASE WriteBlob
  <2>1. CASE Fails("blob")
    BY <1>4, <2>1, FailedParts DEF Fails, WriteBlob
  <2>2. CASE Writes("blob", "encrypt") /\ AddFile("keymaster_key_blob")
    <3>1. /\ pc \in Attempting /\ pc' \in Attempting /\ fs[Tmp] # NoDir
          /\ "keymaster_key_blob" \in KeyFiles
      BY <2>2, KeyFilesType DEF Writes, Attempting, RInv, IInv, Storing
    <3>. QED
      BY <1>4, <2>2, <3>1, AddFileParts DEF WriteBlob
  <2>. QED
    BY <1>4, <2>1, <2>2 DEF WriteBlob
<1>5. CASE WriteEncryptedKey
  <2>1. CASE Fails("encrypt")
    BY <1>5, <2>1, FailedParts DEF Fails, WriteEncryptedKey
  <2>2. CASE Writes("encrypt", "fsync") /\ AddFile("encrypted_key")
    <3>1. /\ pc \in Attempting /\ pc' \in Attempting /\ fs[Tmp] # NoDir
          /\ "encrypted_key" \in KeyFiles
      BY <2>2, KeyFilesType DEF Writes, Attempting, RInv, IInv, Storing
    <3>. QED
      BY <1>5, <2>2, <3>1, AddFileParts DEF WriteEncryptedKey
  <2>. QED
    BY <1>5, <2>1, <2>2 DEF WriteEncryptedKey
<1>6. CASE FsyncDirectory
  <2>1. CASE Fails("fsync")
    BY <1>6, <2>1, FailedParts DEF Fails, FsyncDirectory
  <2>2. CASE /\ Writes("fsync", "rename") /\ fs' = [fs EXCEPT ![Tmp].synced = TRUE]
             /\ UNCHANGED <<older, keystore>>
    <3>. DEFINE d == [fs[Tmp] EXCEPT !.synced = TRUE]
    <3>1. pc \in Attempting /\ pc' \in Attempting /\ fs[Tmp] # NoDir
      BY <2>2 DEF Writes, Attempting, RInv, IInv, Storing
    <3>2. fs[Tmp] \in Dir
      BY <3>1, ImageType, PathType DEF RInv, IInv, Images
    <3>3. d \in Dir /\ d.key = fs[Tmp].key
      BY <3>2, DirSynced
    <3>4. fs' = [fs EXCEPT ![Tmp] = d]
      BY <2>2
    <3>. HIDE DEF d
    <3>. QED
      BY <1>6, <2>2, <3>1, <3>3, <3>4, TmpParts DEF FsyncDirectory
  <2>. QED
    BY <1>6, <2>1, <2>2 DEF FsyncDirectory
<1>. QED
  BY <1>1, <1>2, <1>3, <1>4, <1>5, <1>6

\* The new directory's key is one nobody gave up.
LEMMA MakeParts ==
    ASSUME RInv, MakeKeyDir PROVE Parts'
<1>1. CASE Fails("mkdir") /\ UNCHANGED attempt
  BY <1>1, FailedParts DEF Fails, MakeKeyDir
<1>2. CASE Writes("mkdir", "idle") /\ UNCHANGED <<files, keystore, attempt>>
  BY <1>2, FailedParts DEF Writes, MakeKeyDir
<1>. DEFINE d == [key |-> attempt + 1, files |-> {"version"}, synced |-> FALSE]
<1>3. CASE /\ Writes("mkdir", IF UsesKeystore THEN "secdiscardable" ELSE "appid")
           /\ attempt' = attempt + 1
           /\ fs' = [fs EXCEPT ![Tmp] = d] /\ older' = older \cup {fs}
  <2>0. /\ pc = "mkdir" /\ pc' \in Attempting /\ UNCHANGED <<bindVars, callVars, reports>>
    BY <1>3 DEF Writes, Attempting, MakeKeyDir
  <2>1. d.key = attempt + 1
    OBVIOUS
  <2>. HIDE DEF d
  <2>2. /\ fs'[Tmp] = d
        /\ \A s \in Slot : fs'[s] = fs[s]
    BY <1>3, PathType DEF RInv, IInv, TypeOK
  <2>3. attempt \in Nat /\ \A k \in givenUp : k \in Nat /\ k <= attempt
    BY KeyStorageAssumption DEF RInv, IInv, TypeOK, Parts, Fresh, Key
  <2>4. attempt + 1 \notin givenUp
    BY <2>3
  <2>5. Gone' = destroyed /\ destroyed \subseteq Gone /\ destroyed \subseteq givenUp
    BY <2>0 DEF Gone, Attempting, reports, RInv, IInv, TypeOK
  <2>6. Images' = Images \cup {fs'}
    BY <1>3 DEF Images
  <2>7. \A f \in Images' : \E g \in Images : \A s \in Slot : f[s] = g[s]
    BY <2>2, <2>6 DEF Images
  <2>8. Distinct'
    BY <2>7, StillDistinct DEF RInv, Parts, SameKeys
  <2>9. Dead'
    <3>. SUFFICES ASSUME NEW f \in Images', NEW p \in Path, f[p] # NoDir, f[p].key \in Gone'
                  PROVE  \E g \in Images, q \in Path : Lesser(f[p], g[q])
      BY <2>5, StillDead DEF RInv, Parts
    <3>1. CASE f \in Images
      BY <3>1 DEF Lesser
    <3>2. CASE f = fs' /\ p \in Slot
      BY <2>2, <3>2 DEF Lesser, Images
    <3>3. CASE f = fs' /\ p = Tmp
      BY <2>1, <2>2, <2>4, <2>5, <3>3
    <3>. QED
      BY <2>6, <3>1, <3>2, <3>3 DEF Path
  <2>10. Kept'
    BY <2>0, <2>7, StillKept DEF RInv, Parts, reports
  <2>11. Fresh'
    <3>1. \A k \in givenUp : k <= attempt + 1
      BY <2>3
    <3>2. fs'[target] = NoDir
      BY <2>0, <2>2 DEF RInv, IInv, TypeOK, Parts, Fresh, ForTarget
    <3>. QED
      BY <1>3, <2>0, <2>1, <2>2, <2>4, <3>1, <3>2 DEF Fresh, ForTarget, Attempting, callVars, reports
  <2>. QED
    BY <2>8, <2>9, <2>10, <2>11 DEF Parts
<1>. QED
  BY <1>1, <1>2, <1>3 DEF MakeKeyDir, Unsynced

LEMMA RenameParts ==
    ASSUME RInv, RenameKeyDir PROVE Parts'
<1>1. CASE Fails("rename")
  BY <1>1, FailedParts DEF Fails, RenameKeyDir
<1>2. CASE /\ Writes("rename", "parent")
           /\ fs' = [fs EXCEPT ![target] = fs[Tmp], ![Tmp] = NoDir]
           /\ older' = older \cup {fs}
  <2>0. /\ pc = "rename" /\ pc' = "parent" /\ target \in Slot
        /\ UNCHANGED <<bindVars, callVars, attempt, reports>>
    BY <1>2 DEF Writes, RenameKeyDir, RInv, IInv, TypeOK
  <2>1. /\ fs'[Tmp] = NoDir /\ fs'[target] = fs[Tmp]
        /\ \A s \in Slot : s # target => fs'[s] = fs[s]
    BY <1>2, <2>0, PathType DEF RInv, IInv, TypeOK
  <2>2. Images' = Images \cup {fs'}
    BY <1>2 DEF Images
  <2>3. fs[Tmp] # NoDir /\ fs[Tmp].key \notin givenUp
    BY <2>0 DEF RInv, IInv, Storing, Parts, Fresh, Attempting
  <2>4. Distinct'
    <3>. SUFFICES ASSUME NEW f \in Images', NEW s \in Slot, NEW t \in Slot,
                         s # t, f[s] # NoDir, f[t] # NoDir
                  PROVE  f[s].key # f[t].key
      BY DEF Distinct
    <3>1. CASE f \in Images
      BY <3>1 DEF RInv, Parts, Distinct
    <3>2. CASE f = fs' /\ target \notin {s, t}
      BY <2>1, <3>2 DEF RInv, Parts, Distinct, Images
    <3>3. CASE f = fs' /\ target \in {s, t}
      BY <2>1, <2>3, <3>3 DEF RInv, IInv, ImagesSound, TmpApart, Images
    <3>. QED
      BY <2>2, <3>1, <3>2, <3>3
  <2>5. Dead'
    <3>1. Gone' \subseteq Gone
      BY <2>0 DEF Gone, reports
    <3>2. ASSUME NEW f \in Images', NEW p \in Path, f[p] # NoDir
          PROVE  \E g \in Images, q \in Path : f[p] = g[q]
      BY <2>1, <2>2, <3>2, PathType DEF Images, Path
    <3>. QED
      BY <3>1, <3>2, StillDead DEF RInv, Parts, Lesser
  <2>6. Kept'
    <3>1. stored[target] = None
      BY <2>0 DEF RInv, Parts, Fresh, ForTarget, Attempting, Kept, Images
    <3>2. \A f \in Images' : \E g \in Images : \A s \in Slot : s # target => f[s] = g[s]
      BY <2>1, <2>2 DEF Images
    <3>. QED
      BY <2>0, <3>1, <3>2, StillKept DEF RInv, Parts, reports
  <2>7. Fresh'
    BY <2>0, <2>1, <2>3 DEF RInv, Parts, Fresh, ForTarget, Attempting, callVars, reports
  <2>. QED
    BY <2>4, <2>5, <2>6, <2>7 DEF Parts
<1>. QED
  BY <1>1, <1>2 DEF RenameKeyDir, Unsynced

\* Only what is synced is reported.
LEMMA ParentParts ==
    ASSUME RInv, FsyncParentDirectory PROVE Parts'
<1>1. CASE Fails("parent") /\ UNCHANGED reports
  BY <1>1, FailedParts DEF Fails, FsyncParentDirectory
<1>2. CASE /\ Writes("parent", "idle") /\ older' = {}
           /\ stored' = [stored EXCEPT ![target] = fs[target].key]
           /\ UNCHANGED <<fs, keystore, givenUp, destroyed>>
  <2>0. /\ pc = "parent" /\ pc' = "idle" /\ target \in Slot /\ attempt' = attempt
        /\ fs[target] # NoDir /\ fs[target].key \notin givenUp
    BY <1>2 DEF Writes, RInv, IInv, TypeOK, Storing, Parts, Fresh, FsyncParentDirectory
  <2>1. Distinct' /\ Dead'
    <3>1. Gone' \subseteq Gone
      BY <1>2, <2>0 DEF Gone
    <3>. QED
      BY <1>2, <3>1, Untouched
  <2>2. Kept'
    <3>1. Images' = {fs} /\ fs \in Images
      BY <1>2 DEF Images
    <3>2. \A s \in Slot : stored'[s] = IF s = target THEN fs[target].key ELSE stored[s]
      BY <1>2 DEF RInv, IInv, TypeOK
    <3>. QED
      BY <1>2, <2>0, <3>1, <3>2 DEF RInv, Parts, Kept
  <2>3. Fresh'
    BY <1>2, <2>0 DEF RInv, Parts, Fresh, ForTarget, Attempting
  <2>. QED
    BY <2>1, <2>2, <2>3 DEF Parts
<1>. QED
  BY <1>1, <1>2 DEF FsyncParentDirectory

LEMMA SeedParts ==
    ASSUME RInv, setKeyStorageBindingSeed PROVE Parts'
<1>1. Gone' = Gone
  BY DEF setKeyStorageBindingSeed, Gone, files, callVars, reports
<1>2. Distinct' /\ Dead' /\ Kept'
  BY <1>1, Untouched DEF setKeyStorageBindingSeed, files, reports
<1>3. Fresh'
  BY DEF RInv, Parts, Fresh, ForTarget, setKeyStorageBindingSeed, files, callVars, reports
<1>. QED
  BY <1>2, <1>3 DEF Parts

LEMMA DeleteParts ==
    ASSUME RInv, DeleteKeystoreKey PROVE Parts'
<1>0. /\ pc = "delete" /\ pc' = "secdiscard" /\ fs' = fs /\ older' = older
      /\ UNCHANGED <<target, dir, attempt, reports>>
  BY DEF DeleteKeystoreKey, Writes, files
<1>1. Gone' \subseteq Gone
  BY <1>0 DEF Gone, reports
<1>2. Distinct' /\ Dead' /\ Kept'
  BY <1>0, <1>1, Untouched DEF reports
<1>3. Fresh'
  BY <1>0 DEF RInv, Parts, Fresh, ForTarget, Attempting, reports
<1>. QED
  BY <1>2, <1>3 DEF Parts

\* Discarding takes the encrypted key from every directory with that key.
LEMMA DiscardedFiles ==
    ASSUME NEW k, NEW d \in Dir
    PROVE  /\ Discard(k, d).files \subseteq d.files
           /\ d.key = k => "encrypted_key" \notin Discard(k, d).files
<1>. d # NoDir
  BY NoDirAssumption
<1>1. CASE d.key # k
  BY <1>1 DEF Discard
<1>2. CASE d.key = k
  <2>. DEFINE F == d.files \cap {"version"}
  <2>1. F \in SUBSET KeyFiles
    BY DEF Dir
  <2>2. LET e == [d EXCEPT !.files = F] IN e.files = F
    BY <2>1, DirFiles
  <2>. QED
    BY <1>2, <2>2 DEF Discard
<1>. QED
  BY <1>1, <1>2

LEMMA SecdiscardParts ==
    ASSUME RInv, Secdiscard PROVE Parts'
<1>0. /\ pc = "secdiscard" /\ pc' = "rm"
      /\ UNCHANGED <<target, dir, attempt, reports>>
  BY DEF Secdiscard, Writes
<1>1. fs[dir] # NoDir /\ dir \in Path /\ target \in Path
  BY <1>0, PathType DEF RInv, IInv, TypeOK, Destroying
<1>2. CASE success' = FALSE /\ UNCHANGED files
  <2>1. Gone' \subseteq Gone
    BY <1>0, <1>2 DEF Gone, reports
  <2>2. Distinct' /\ Dead' /\ Kept'
    BY <1>0, <1>2, <2>1, Untouched DEF files, reports
  <2>3. Fresh'
    BY <1>0, <1>2 DEF RInv, Parts, Fresh, ForTarget, Attempting, files, reports
  <2>. QED
    BY <2>2, <2>3 DEF Parts
<1>. DEFINE Scrubbed(f) == [p \in Path |-> Discard(fs[dir].key, f[p])]
<1>3. CASE fs' = Scrubbed(fs) /\ older' = {Scrubbed(f) : f \in older}
  <2>1. ASSUME NEW f \in Images, NEW p \in Path
        PROVE  /\ f[p] = NoDir <=> Scrubbed(f)[p] = NoDir
               /\ f[p] # NoDir =>
                    /\ Scrubbed(f)[p].key = f[p].key
                    /\ Scrubbed(f)[p].files \subseteq f[p].files
                    /\ f[p].key = fs[dir].key => "encrypted_key" \notin Scrubbed(f)[p].files
    <3>1. f[p] \in Dir \cup {NoDir}
      BY ImageType DEF RInv, IInv
    <3>. QED
      BY <3>1, Discarded, DiscardedFiles
  <2>2. \A f \in Images' : \E g \in Images : f = Scrubbed(g)
    BY <1>3 DEF Images
  <2>3. fs'[dir] # NoDir /\ fs'[dir].key = fs[dir].key /\ (fs[target] = NoDir => fs'[target] = NoDir)
    BY <1>1, <1>3, <2>1 DEF Images
  <2>4. Gone' \subseteq Gone \cup {fs[dir].key}
    BY <1>0, <2>3 DEF Gone, reports
  <2>. HIDE DEF Scrubbed
  <2>5. Distinct'
    <3>. SUFFICES ASSUME NEW f \in Images' PROVE \E g \in Images : SameKeys(f, g)
      BY StillDistinct DEF RInv, Parts
    <3>1. PICK g \in Images : f = Scrubbed(g)
      BY <2>2
    <3>. QED
      BY <2>1, <3>1, PathType DEF SameKeys
  <2>6. Dead'
    <3>. SUFFICES ASSUME NEW f \in Images', NEW p \in Path, f[p] # NoDir, f[p].key \in Gone'
                  PROVE  "encrypted_key" \notin f[p].files
      BY DEF Dead
    <3>1. PICK g \in Images : f = Scrubbed(g)
      BY <2>2
    <3>2. g[p] # NoDir /\ f[p].key = g[p].key /\ f[p].files \subseteq g[p].files
      BY <2>1, <3>1
    <3>3. CASE g[p].key = fs[dir].key
      BY <2>1, <3>1, <3>2, <3>3
    <3>4. CASE g[p].key \in Gone
      BY <3>2, <3>4 DEF RInv, Parts, Dead
    <3>. QED
      BY <2>4, <3>2, <3>3, <3>4
  <2>7. Kept'
    <3>. SUFFICES ASSUME NEW f \in Images'
                  PROVE  \E g \in Images : \A s \in Slot :
                            stored[s] # None /\ g[s] # NoDir => f[s] # NoDir /\ f[s].key = g[s].key
      BY <1>0, StillKept DEF RInv, Parts, reports
    <3>1. PICK g \in Images : f = Scrubbed(g)
      BY <2>2
    <3>. QED
      BY <2>1, <3>1, PathType
  <2>8. Fresh'
    BY <1>0, <2>3 DEF RInv, Parts, Fresh, ForTarget, Attempting, reports
  <2>. QED
    BY <2>5, <2>6, <2>7, <2>8 DEF Parts
<1>. QED
  BY <1>2, <1>3 DEF Secdiscard, Flawed

\* Whatever is left of dir has no key or file it did not have.
LEMMA RewrittenParts ==
    ASSUME RInv, pc = "rm", pc' = IF dir = Tmp THEN "mkdir" ELSE "idle",
           UNCHANGED <<target, dir, attempt, stored, givenUp>>, Gone' \subseteq Gone,
           NEW d, d # NoDir => Lesser(d, fs[dir]), fs' = [fs EXCEPT ![dir] = d],
           NEW e, Lesser(e, fs[dir]), e # NoDir,
           older' \subseteq older \cup {[fs EXCEPT ![dir] = e]}
    PROVE  Parts'
<1>. DEFINE h == [fs EXCEPT ![dir] = e]
<1>1. fs[dir] # NoDir /\ dir \in Path /\ target \in Slot /\ dir \in Slot \cup {Tmp}
  BY PathType DEF RInv, IInv, TypeOK, Destroying, Path
<1>2. /\ fs'[dir] = d /\ h[dir] = e
      /\ \A p \in Path : p # dir => fs'[p] = fs[p] /\ h[p] = fs[p]
  BY <1>1 DEF RInv, IInv, TypeOK
<1>3. Images' \subseteq older \cup {fs', h}
  BY DEF Images
<1>. HIDE DEF h
<1>4. ASSUME NEW f \in Images', NEW p \in Path
      PROVE  \E g \in Images :
                /\ f[p] # NoDir => Lesser(f[p], g[p])
                /\ p # dir => f[p] = g[p]
  BY <1>2, <1>3 DEF Images, Lesser
<1>5. \A f \in Images' : \E g \in Images : SameKeys(f, g)
  <2>. SUFFICES ASSUME NEW f \in Images' PROVE \E g \in Images : SameKeys(f, g)
    OBVIOUS
  <2>1. CASE f \in older
    BY <2>1 DEF Images, SameKeys
  <2>2. CASE f \in {fs', h}
    <3>1. SameKeys(f, fs)
      BY <1>2, <2>2, PathType DEF SameKeys, Lesser
    <3>. QED
      BY <3>1 DEF Images
  <2>. QED
    BY <1>3, <2>1, <2>2
<1>6. Distinct'
  BY <1>5, StillDistinct DEF RInv, Parts
<1>7. Dead'
  BY <1>4, StillDead DEF RInv, Parts
<1>8. Kept'
  <2>1. dir \in Slot => stored[dir] = None
    BY DEF RInv, IInv, Destroying, Parts, Kept, Images
  <2>2. ASSUME NEW f \in Images'
        PROVE  \E g \in Images : \A s \in Slot : s # dir => f[s] = g[s]
    <3>1. CASE f \in older
      BY <3>1 DEF Images
    <3>2. CASE f \in {fs', h}
      <4>1. \A s \in Slot : s # dir => f[s] = fs[s]
        BY <1>2, <3>2, PathType
      <4>. QED
        BY <4>1 DEF Images
    <3>. QED
      BY <1>3, <3>1, <3>2
  <2>. QED
    BY <2>1, <2>2, StillKept DEF RInv, Parts
<1>9. Fresh'
  BY <1>1, <1>2, PathType DEF RInv, Parts, Fresh, ForTarget, Attempting
<1>. QED
  BY <1>6, <1>7, <1>8, <1>9 DEF Parts

LEMMA RemoveParts ==
    ASSUME RInv, recursiveDeleteKey PROVE Parts'
<1>0. /\ pc = "rm" /\ pc' = IF dir = Tmp THEN "mkdir" ELSE "idle"
      /\ UNCHANGED <<target, dir, attempt, stored, givenUp>>
  BY DEF recursiveDeleteKey, DestroyEnds
<1>1. fs[dir] \in Dir /\ fs[dir] # NoDir
  BY <1>0, ImageType DEF RInv, IInv, TypeOK, Destroying, Images
<1>. DEFINE e == [fs[dir] EXCEPT !.synced = FALSE]
<1>2. e # NoDir /\ Lesser(e, fs[dir])
  BY <1>1, DirSynced DEF Lesser
<1>3. CASE /\ fs' = [fs EXCEPT ![dir] = NoDir]
           /\ older' = older \cup {[fs EXCEPT ![dir].synced = FALSE]}
           /\ destroyed' = IF success /\ dir \in Slot
                           THEN destroyed \cup {fs[dir].key} ELSE destroyed
  <2>1. Gone' \subseteq Gone
    BY <1>0, <1>3 DEF Gone
  <2>2. older' \subseteq older \cup {[fs EXCEPT ![dir] = e]}
    BY <1>3
  <2>. HIDE DEF e
  <2>. QED
    BY <1>0, <1>2, <1>3, <2>1, <2>2, RewrittenParts
<1>4. ASSUME NEW F \in SUBSET fs[dir].files,
             fs' = [fs EXCEPT ![dir].files = F, ![dir].synced = FALSE],
             UNCHANGED <<older, destroyed>>
      PROVE  Parts'
  <2>. DEFINE d == [fs[dir] EXCEPT !.files = F, !.synced = FALSE]
  <2>1. Lesser(d, fs[dir])
    <3>1. F \in SUBSET KeyFiles
      BY <1>1 DEF Dir
    <3>. QED
      BY <1>1, <3>1, DirBoth DEF Lesser
  <2>2. fs' = [fs EXCEPT ![dir] = d]
    BY <1>4
  <2>3. Gone' \subseteq Gone
    BY <1>0, <1>4 DEF Gone
  <2>4. older' \subseteq older \cup {[fs EXCEPT ![dir] = e]}
    BY <1>4
  <2>. HIDE DEF d, e
  <2>. QED
    BY <1>0, <1>2, <2>1, <2>2, <2>3, <2>4, RewrittenParts
<1>. QED
  BY <1>3, <1>4 DEF recursiveDeleteKey

LEMMA CrashParts ==
    ASSUME RInv, Crash PROVE Parts'
<1>0. /\ older' = {} /\ pc' = "idle" /\ dir' = Tmp
      /\ UNCHANGED <<target, attempt, reports>>
  BY DEF Crash
<1>1. PICK f \in Images :
          fs' \in {g \in [Path -> UNION {Survives(f[p]) : p \in Path}] :
                     \A p \in Path : g[p] \in Survives(f[p])}
  BY DEF Crash, Images
<1>2. ASSUME NEW p \in Path
      PROVE  /\ fs'[p] = NoDir <=> f[p] = NoDir
             /\ fs'[p] # NoDir => Lesser(fs'[p], f[p])
  <2>1. f[p] \in Dir \cup {NoDir} /\ fs'[p] \in Survives(f[p])
    BY <1>1, ImageType DEF RInv, IInv
  <2>2. CASE f[p] = NoDir
    BY <2>1, <2>2 DEF Survives
  <2>3. CASE f[p] # NoDir
    <3>1. PICK F \in IF f[p].synced THEN {f[p].files} ELSE SUBSET f[p].files :
              fs'[p] = [f[p] EXCEPT !.files = F, !.synced = TRUE]
      BY <2>1, <2>3 DEF Survives
    <3>2. f[p] \in Dir /\ F \in SUBSET KeyFiles /\ F \subseteq f[p].files
      BY <2>1, <2>3, <3>1 DEF Dir
    <3>3. /\ [f[p] EXCEPT !.files = F, !.synced = TRUE] # NoDir
          /\ [f[p] EXCEPT !.files = F, !.synced = TRUE].key = f[p].key
          /\ [f[p] EXCEPT !.files = F, !.synced = TRUE].files = F
      BY <3>2, DirBoth
    <3>. QED
      BY <2>3, <3>1, <3>2, <3>3 DEF Lesser
  <2>. QED
    BY <2>2, <2>3
<1>3. Images' = {fs'}
  BY <1>0 DEF Images
<1>4. Distinct'
  BY <1>2, <1>3, StillDistinct, PathType DEF RInv, Parts, SameKeys, Lesser
<1>5. Dead'
  <2>1. Gone' \subseteq Gone
    BY <1>0 DEF Gone, reports
  <2>. QED
    BY <1>2, <1>3, <2>1, StillDead DEF RInv, Parts
<1>6. Kept'
  BY <1>0, <1>2, <1>3, StillKept, PathType DEF RInv, Parts, Lesser, reports
<1>7. Fresh'
  BY <1>0 DEF RInv, Parts, Fresh, ForTarget, Attempting, reports
<1>. QED
  BY <1>4, <1>5, <1>6, <1>7 DEF Parts

LEMMA RInitially == Init => RInv
<1>. SUFFICES ASSUME Init PROVE RInv
  OBVIOUS
<1>1. Images = {fs} /\ \A p \in Path : fs[p] = NoDir
  BY DEF Init, Images
<1>2. Distinct /\ Dead
  BY <1>1, PathType DEF Distinct, Dead
<1>3. Kept /\ Fresh
  BY DEF Init, Kept, Fresh, ForTarget, Attempting
<1>. QED
  BY <1>2, <1>3, Initially DEF RInv, Parts

LEMMA RStep ==
    ASSUME RInv, [Next]_vars PROVE RInv'
<1>1. IInv'
  BY Step DEF RInv
<1>2. CASE UNCHANGED vars
  <2>1. Gone' = Gone
    BY <1>2 DEF Gone, vars, files, callVars, reports
  <2>2. Distinct' /\ Dead' /\ Kept'
    BY <1>2, <2>1, Untouched DEF vars, files, reports
  <2>3. Fresh'
    BY <1>2 DEF RInv, Parts, Fresh, ForTarget, vars, files, callVars, reports
  <2>. QED
    BY <1>1, <2>2, <2>3 DEF RInv, Parts
<1>3. CASE Next
  BY <1>1, <1>3, CallParts, MakeParts, WritingParts, RenameParts, ParentParts, SeedParts,
     DeleteParts, SecdiscardParts, RemoveParts, CrashParts DEF Next, RInv
<1>. QED
  BY <1>2, <1>3

-----------------------------------------------------------------------------
(***************************************************************************)
(* The refinement                                                          *)
(***************************************************************************)
Value == [s \in Slot |-> Readable(s)]

LEMMA ReadableKey ==
    ASSUME IInv, NEW s \in Slot, Readable(s) # None
    PROVE  /\ fs[s] # NoDir /\ fs[s].files = KeyFiles
           /\ Readable(s) = fs[s].key /\ Readable(s) \in Key
  BY ImageType, PathType DEF IInv, Readable, pathExists, Images

\* What the invariants say of the keys that can be read.
ValueSound ==
    /\ Value \in [Slot -> (Key \ destroyed) \cup {None}]
    /\ \A s \in Slot : stored[s] # None => Value[s] = stored[s]
    /\ \A s, t \in Slot : Value[s] = Value[t] /\ s # t => Value[s] = None

LEMMA NoneOfGone ==
    ASSUME RInv, NEW s \in Slot, Readable(s) # None
    PROVE  Readable(s) \in Key /\ Readable(s) \notin Gone
<1>1. /\ fs[s] # NoDir /\ fs[s].files = KeyFiles
      /\ Readable(s) = fs[s].key /\ Readable(s) \in Key
  BY ReadableKey DEF RInv
<1>2. fs[s].key \in Gone => "encrypted_key" \notin fs[s].files
  BY <1>1, PathType DEF RInv, Parts, Dead, Images
<1>. QED
  BY <1>1, <1>2 DEF KeyFiles

LEMMA SoundValue == RInv => ValueSound
<1>. SUFFICES ASSUME RInv PROVE ValueSound
  OBVIOUS
<1>1. \A s \in Slot : Readable(s) = None \/ Readable(s) \in Key \ Gone
  BY NoneOfGone
<1>2. \A s \in Slot : stored[s] # None => Readable(s) = stored[s]
  <2>. SUFFICES ASSUME NEW s \in Slot, stored[s] # None PROVE Readable(s) = stored[s]
    OBVIOUS
  <2>1. fs[s] # NoDir /\ fs[s].key = stored[s] /\ stored[s] \notin givenUp
    BY DEF RInv, Parts, Kept, Images
  <2>2. Whole(fs[s])
    BY <2>1 DEF RInv, IInv, ImagesSound, SlotsWhole, Images
  <2>. QED
    BY <2>1, <2>2 DEF Readable, Whole, pathExists
<1>3. \A s, t \in Slot : Readable(s) = Readable(t) /\ s # t => Readable(s) = None
  BY ReadableKey DEF RInv, Parts, Distinct, Images
<1>4. Value \in [Slot -> (Key \ destroyed) \cup {None}]
  BY <1>1 DEF Value, Gone
<1>. QED
  BY <1>2, <1>3, <1>4 DEF Value, ValueSound

\* A step that reports nothing lets keys come and go as KeySlot allows.
LEMMA SilentStep ==
    ASSUME RInv, RInv', stored' = stored, destroyed' = destroyed
    PROVE  Slots!ComeAndGo
<1>1. ValueSound /\ ValueSound'
  BY SoundValue, PTL
<1>2. Value' \in [Slot -> (Key \ destroyed) \cup {None}]
  BY <1>1 DEF ValueSound
<1>3. \A s \in Slot : stored[s] # None => Value'[s] = Value[s]
  BY <1>1 DEF ValueSound
<1>4. \A s, t \in Slot : Value'[s] = Value'[t] /\ s # t => Value'[s] = None
  BY <1>1 DEF ValueSound
<1>. QED
  BY <1>2, <1>3, <1>4 DEF Slots!ComeAndGo, Slots!Unsettled, Value

\* What a call reports, it reports of keys that stay as they are.
LEMMA SameValue == fs' = fs /\ keystore' = keystore => Value' = Value
  BY DEF Value, Readable, pathExists

LEMMA GiveUpStep ==
    ASSUME NEW s \in Slot, destroyKey(s) PROVE Slots!GiveUp(s)
  BY SameValue DEF destroyKey, files, Slots!GiveUp, Value

LEMMA ReportStep ==
    ASSUME RInv, RInv', FsyncParentDirectory
    PROVE  [Slots!Next]_(Slots!slotVars)
<1>1. CASE Fails("parent") /\ UNCHANGED reports
  BY <1>1, SilentStep DEF reports, Slots!Next
<1>2. CASE /\ pc = "parent"
           /\ stored' = [stored EXCEPT ![target] = fs[target].key]
           /\ UNCHANGED <<fs, keystore, destroyed>>
  <2>1. target \in Slot /\ fs[target] # NoDir /\ fs[target].key \notin givenUp
    BY <1>2 DEF RInv, Parts, Fresh, IInv, TypeOK, Storing
  <2>2. Whole(fs[target])
    BY <2>1 DEF RInv, IInv, ImagesSound, SlotsWhole, Images
  <2>3. fs[target].key # None
    BY <2>1, ImageType, PathType, KeyStorageAssumption DEF RInv, IInv, Images, Key
  <2>4. Value[target] = fs[target].key
    BY <2>1, <2>2 DEF Value, Readable, Whole, pathExists
  <2>5. Slots!Report(target)
    BY <1>2, <2>1, <2>3, <2>4, SameValue DEF Slots!Report, Value
  <2>. QED
    BY <2>1, <2>5 DEF Slots!Next
<1>. QED
  BY <1>1, <1>2 DEF FsyncParentDirectory, Writes

LEMMA DestroyedStep ==
    ASSUME RInv, RInv', recursiveDeleteKey
    PROVE  [Slots!Next]_(Slots!slotVars)
<1>1. stored' = stored
  BY DEF recursiveDeleteKey
<1>2. CASE destroyed' = destroyed
  BY <1>1, <1>2, SilentStep DEF Slots!Next
<1>3. CASE /\ success /\ dir \in Slot /\ fs' = [fs EXCEPT ![dir] = NoDir]
           /\ destroyed' = destroyed \cup {fs[dir].key}
  <2>1. pc = "rm" /\ keystore' = keystore
    BY DEF recursiveDeleteKey
  <2>2. fs[dir] # NoDir /\ fs[dir].key \in Key
    BY <2>1, ImageType, PathType DEF RInv, IInv, TypeOK, Destroying, Images
  <2>3. fs[dir].key \in Gone
    BY <1>3, <2>1 DEF Gone
  <2>4. Readable(dir) = None
    <3>. SUFFICES ASSUME Readable(dir) # None PROVE FALSE
      OBVIOUS
    <3>. QED
      BY <1>3, <2>3, NoneOfGone, ReadableKey DEF RInv
  <2>5. \A s \in Slot : Readable(s) # fs[dir].key
    BY <2>2, <2>3, NoneOfGone, KeyStorageAssumption DEF Key
  <2>6. \A s \in Slot : Readable(s)' = Readable(s)
    <3>. SUFFICES ASSUME NEW s \in Slot PROVE Readable(s)' = Readable(s)
      OBVIOUS
    <3>1. CASE s = dir
      BY <1>3, <2>4, <3>1, PathType DEF Readable, pathExists, RInv, IInv, TypeOK
    <3>2. CASE s # dir
      <4>1. fs'[s] = fs[s]
        BY <1>3, <3>2, PathType DEF RInv, IInv, TypeOK
      <4>. QED
        BY <2>1, <4>1 DEF Readable, pathExists
    <3>. QED
      BY <3>1, <3>2
  <2>7. Slots!Destroyed(fs[dir].key)
    BY <1>1, <1>3, <2>5, <2>6 DEF Slots!Destroyed
  <2>. QED
    BY <2>2, <2>7 DEF Slots!Next
<1>. QED
  BY <1>2, <1>3 DEF recursiveDeleteKey

\* The initial states of KeyStorage are initial states of KeySlot.
LEMMA InitialSlots == Init => Slots!Init
  BY PathType DEF Init, Slots!Init, Readable, pathExists

\* Every step of KeyStorage is one of KeySlot, or changes nothing KeySlot has.
LEMMA SlotStep ==
    ASSUME RInv, RInv', [Next]_vars
    PROVE  [Slots!Next]_(Slots!slotVars)
<1>1. CASE UNCHANGED <<stored, destroyed>>
  BY <1>1, SilentStep DEF Slots!Next
<1>2. CASE \E s \in Slot : destroyKey(s)
  BY <1>2, GiveUpStep DEF Slots!Next
<1>3. CASE FsyncParentDirectory
  BY <1>3, ReportStep
<1>4. CASE recursiveDeleteKey
  BY <1>4, DestroyedStep
<1>5. CASE UNCHANGED vars
  BY <1>1, <1>5 DEF vars, reports
<1>6. CASE Next
  <2>1. CASE \E s \in Slot : storeKeyAtomically(s) \/ retrieveKey(s)
    BY <1>1, <2>1 DEF storeKeyAtomically, retrieveKey, reports
  <2>2. CASE MakeKeyDir \/ createSecdiscardable \/ AppIdOfStore
    BY <1>1, <2>2 DEF MakeKeyDir, createSecdiscardable, AppIdOfStore, reports
  <2>3. CASE generateKeyStorageKey \/ WriteBlob \/ WriteEncryptedKey
    BY <1>1, <2>3 DEF generateKeyStorageKey, WriteBlob, WriteEncryptedKey, reports
  <2>4. CASE FsyncDirectory \/ RenameKeyDir \/ setKeyStorageBindingSeed
    BY <1>1, <2>4 DEF FsyncDirectory, RenameKeyDir, setKeyStorageBindingSeed, reports
  <2>5. CASE DeleteKeystoreKey \/ Secdiscard \/ Crash
    BY <1>1, <2>5 DEF DeleteKeystoreKey, Secdiscard, Crash, reports
  <2>. QED
    BY <1>2, <1>3, <1>4, <1>6, <2>1, <2>2, <2>3, <2>4, <2>5 DEF Next
<1>. QED
  BY <1>5, <1>6

\* KeyStorage implements KeySlot: through every failure of a helper and every
\* crash, a key reported as stored can be read until it is given up, and a key
\* reported as destroyed cannot be read again.
THEOREM Implements == Spec => KeepsAndDestroys
<1>1. Spec => []RInv
  BY RInitially, RStep, PTL DEF Spec
<1>2. RInv /\ RInv' /\ [Next]_vars => [Slots!Next]_(Slots!slotVars)
  BY SlotStep
<1>. QED
  BY <1>1, <1>2, InitialSlots, PTL DEF Spec, KeepsAndDestroys, Slots!Spec

-----------------------------------------------------------------------------
(***************************************************************************)
(* The settings.                                                           *)
(***************************************************************************)
Place == {"idle", "folder", "backups", "zip", "defaults", "load", "current", "save", "written"}

\* A thread that is about to change the storage path or to make the folders
\* follow.  Reading and saving the file is no such thing.
Changing == {"folder", "backups", "zip", "defaults", "current"}

\* What may stand in a settings file.
FileType(f) ==
    /\ DOMAIN f \subseteq Name
    /\ \A n \in DOMAIN f : f[n] \in Storage \cup Language \cup {NoValue}
    /\ "storage" \in DOMAIN f => f["storage"] \in Storage \cup {NoValue}

PcType ==
    doing \in [Thread -> [at : Place, str : Storage \cup {NoValue}, cut : BOOLEAN, real : BOOLEAN]]

Types ==
    /\ SettingsTypeOK /\ PcType
    /\ mPersist["storage"] \in Storage \cup {NoValue}
    /\ FileType(disk) /\ FileType(ram) /\ FileType(stable)

BackupsFollow == backups = Get("storage")
ZipFollows == Get("storage") \in Known => Get("zip") = Get("storage")

\* While no two changes of the path overlapped, one thread at most makes the
\* folders follow, and what it has read is still the path.
OneAtATime ==
    ~ raced =>
        /\ \A t, u \in Thread : doing[t].at \in Changing /\ doing[u].at \in Changing => t = u
        /\ \A t \in Thread : doing[t].at \in {"backups", "zip"} => doing[t].str = Get("storage")
        /\ \A t \in Thread : doing[t].at = "zip" => BackupsFollow
        /\ (\A t \in Thread : doing[t].at \notin Changing) => BackupsFollow /\ ZipFollows

SettingsInv == Types /\ OneAtATime

LEMMA Follows == SettingsInv => FoldersFollow
  BY DEF SettingsInv, Types, OneAtATime, FoldersFollow, BackupsFollow, ZipFollows, At, Changing

LEMMA SettingsInitially == SettingsInit => SettingsInv
<1>. SUFFICES ASSUME SettingsInit PROVE SettingsInv
  OBVIOUS
<1>1. /\ mPersist \in [Name -> Storage \cup Language \cup {NoValue}]
      /\ mPersist["storage"] = Internal /\ mPersist["zip"] = Internal
      /\ Internal \in Storage /\ "storage" \in Name
  BY SettingsAssumption DEF SettingsInit, Defaults, Name
<1>2. DOMAIN Empty = {}
  BY DEF Empty
<1>3. FileType(disk) /\ FileType(ram) /\ FileType(stable)
  BY <1>2 DEF SettingsInit, FileType
<1>4. SettingsTypeOK
  BY <1>1, <1>3, SettingsAssumption DEF SettingsInit, SettingsTypeOK, FileType, At, Idle
<1>5. PcType /\ \A t \in Thread : doing[t].at = "idle"
  BY DEF SettingsInit, PcType, Idle, Place
<1>6. OneAtATime
  BY <1>1, <1>5 DEF SettingsInit, OneAtATime, Changing, BackupsFollow, ZipFollows, Get
<1>. QED
  BY <1>1, <1>3, <1>4, <1>5, <1>6 DEF SettingsInv, Types

\* What a thread that goes to another place leaves of the others.
LEMMA Moved ==
    ASSUME Types, NEW t \in Thread, NEW p \in Place, doing' = [doing EXCEPT ![t].at = p]
    PROVE  /\ PcType'
           /\ doing'[t].at = p /\ doing'[t].str = doing[t].str
           /\ \A u \in Thread : u # t => doing'[u] = doing[u]
  BY DEF Types, PcType

LEMMA Returned ==
    ASSUME Types, NEW t \in Thread, Return(t)
    PROVE  /\ PcType'
           /\ doing'[t].at = "idle" /\ doing'[t].str = NoValue
           /\ \A u \in Thread : u # t => doing'[u] = doing[u]
  BY DEF Types, PcType, Return, Idle, Place

LEMMA Typed == ASSUME Types PROVE \A t \in Thread : doing[t].at \in Place /\ doing[t].str \in Storage \cup {NoValue}
  BY DEF Types, PcType

\* The types after a step that neither writes a file nor takes the mutex.
LEMMA StillTyped ==
    ASSUME Types, PcType', UNCHANGED <<lock, copies>>,
           \A t \in Thread : doing'[t].at = "written" <=> doing[t].at = "written",
           mPersist' \in [Name -> Storage \cup Language \cup {NoValue}],
           mPersist'["storage"] \in Storage \cup {NoValue},
           backups' \in Storage \cup {NoValue},
           {backing', unlocked', mounted', raced'} \subseteq BOOLEAN
    PROVE  Types'
<1>1. \A t \in Thread : lock' = t <=> At(t, "written")'
  BY DEF Types, SettingsTypeOK, At
<1>2. FileType(disk)' /\ FileType(ram)' /\ FileType(stable)'
  BY DEF Types, FileType, copies
<1>3. synced' \in BOOLEAN
  BY DEF Types, SettingsTypeOK, copies
<1>. QED
  BY <1>1, <1>2, <1>3 DEF Types, SettingsTypeOK, FileType

\* A step of one thread that touches neither the path nor the folders and
\* does not begin or end a change of them.
LEMMA Aside ==
    ASSUME SettingsInv, Types', NEW t \in Thread,
           doing[t].at \notin Changing, doing'[t].at \notin Changing,
           \A u \in Thread : u # t => doing'[u] = doing[u],
           UNCHANGED <<backups, raced>>,
           mPersist'["storage"] = mPersist["storage"], mPersist'["zip"] = mPersist["zip"]
    PROVE  SettingsInv'
<1>1. \A u \in Thread : doing'[u].at \in Changing => doing'[u] = doing[u] /\ u # t
  OBVIOUS
<1>2. \A u \in Thread : doing[u].at \in Changing => u # t
  OBVIOUS
<1>3. BackupsFollow' = BackupsFollow /\ ZipFollows' = ZipFollows
  BY DEF BackupsFollow, ZipFollows, Get
<1>. QED
  BY <1>1, <1>2, <1>3 DEF SettingsInv, OneAtATime, Changing, Get

\* A thread that begins to change the path: no other one is at it, or the
\* changes overlap.
LEMMA Begun ==
    ASSUME SettingsInv, Types', NEW t \in Thread, Race(t), doing'[t].at \in {"folder", "defaults", "current"},
           \A u \in Thread : u # t => doing'[u] = doing[u]
    PROVE  SettingsInv'
<1>. SUFFICES ASSUME ~ raced'
              PROVE  \A u \in Thread : u # t => doing'[u].at = "idle"
  BY DEF SettingsInv, OneAtATime, Changing
<1>. QED
  BY DEF Race, At
\* SetValue of a storage path.
LEMMA PathStep ==
    ASSUME SettingsInv, NEW t \in Thread, NEW s \in Storage, SetStoragePath(t, s, "folder"),
           doing[t].at # "written", UNCHANGED <<backups, lock, copies>>,
           {backing', unlocked', mounted'} \subseteq BOOLEAN
    PROVE  SettingsInv'
<1>1. /\ PcType' /\ doing'[t].at = "folder"
      /\ \A u \in Thread : u # t => doing'[u] = doing[u]
  BY Moved DEF SettingsInv, SetStoragePath, Goto, Place
<1>2. /\ mPersist' \in [Name -> Storage \cup Language \cup {NoValue}]
      /\ mPersist'["storage"] = s
  BY DEF SettingsInv, Types, SettingsTypeOK, SetStoragePath, Name
<1>3. raced' \in BOOLEAN /\ Race(t)
  BY DEF SettingsInv, Types, SettingsTypeOK, SetStoragePath, Race
<1>4. Types'
  BY <1>1, <1>2, <1>3, StillTyped DEF SettingsInv, Types, SettingsTypeOK
<1>. QED
  BY <1>1, <1>3, <1>4, Begun

LEMMA SettingsCallStep ==
    ASSUME SettingsInv, NEW t \in Thread,
           \/ \E v \in Language : SetLanguage(t, v)
           \/ \E s \in Storage : ChooseStorage(t, s)
           \/ ResetDefaults(t) \/ ReadSettingsFile(t) \/ SaveValues(t) \/ PostDecrypt(t)
    PROVE  SettingsInv'
<1>0. Types /\ PcType /\ doing[t].at = "idle"
  BY DEF SettingsInv, Types, SetLanguage, ChooseStorage, ResetDefaults, ReadSettingsFile, SaveValues,
         PostDecrypt, Call, At
<1>1. CASE \E v \in Language : SetLanguage(t, v)
  <2>1. PICK v \in Language : SetLanguage(t, v)
    BY <1>1
  <2>2. /\ mPersist' \in [Name -> Storage \cup Language \cup {NoValue}]
        /\ mPersist'["storage"] = mPersist["storage"] /\ mPersist'["zip"] = mPersist["zip"]
    BY <2>1 DEF SetLanguage, SettingsInv, Types, SettingsTypeOK, Name
  <2>3. PcType' /\ doing' = doing /\ UNCHANGED <<backups, lock, copies, raced, place>>
    BY <1>0, <2>1 DEF SetLanguage, PcType
  <2>4. Types'
    BY <1>0, <2>2, <2>3, StillTyped DEF Types, SettingsTypeOK, place
  <2>. QED
    BY <1>0, <2>2, <2>3, <2>4, Aside DEF Changing
<1>2. CASE \E s \in Storage : ChooseStorage(t, s)
  BY <1>0, <1>2, PathStep DEF ChooseStorage, place, Types, SettingsTypeOK
<1>3. CASE ResetDefaults(t)
  <2>1. /\ PcType' /\ doing'[t].at = "defaults"
        /\ \A u \in Thread : u # t => doing'[u] = doing[u]
    BY <1>0, <1>3, Moved DEF ResetDefaults, Goto, Place
  <2>2. /\ mPersist' \in [Name -> Storage \cup Language \cup {NoValue}]
        /\ mPersist'["storage"] = NoValue
    BY <1>3 DEF ResetDefaults, Name
  <2>3. /\ raced' \in BOOLEAN /\ Race(t) /\ backups' = NoValue
        /\ UNCHANGED <<lock, copies, place>>
    BY <1>0, <1>3 DEF ResetDefaults, Race, Types, SettingsTypeOK
  <2>4. Types'
    BY <1>0, <2>1, <2>2, <2>3, StillTyped DEF Types, SettingsTypeOK, place
  <2>. QED
    BY <2>1, <2>3, <2>4, Begun
<1>4. CASE ReadSettingsFile(t)
  <2>1. /\ PcType' /\ doing'[t].at = "load"
        /\ \A u \in Thread : u # t => doing'[u] = doing[u]
    BY <1>0, <1>4, Moved DEF ReadSettingsFile, Goto, Place
  <2>2. /\ UNCHANGED <<mPersist, backups, lock, copies, raced>>
        /\ {backing', unlocked', mounted'} \subseteq BOOLEAN
    BY <1>0, <1>4 DEF ReadSettingsFile, MountSettings, Types, SettingsTypeOK
  <2>3. Types'
    BY <1>0, <2>1, <2>2, StillTyped DEF Types, SettingsTypeOK
  <2>. QED
    BY <1>0, <2>1, <2>2, <2>3, Aside DEF Changing
<1>5. CASE SaveValues(t)
  <2>1. /\ PcType' /\ doing'[t].at = "save"
        /\ \A u \in Thread : u # t => doing'[u] = doing[u]
    <3>1. doing \in [Thread -> [at : Place, str : Storage \cup {NoValue}, cut : BOOLEAN, real : BOOLEAN]]
      BY <1>0 DEF Types, PcType
    <3>2. doing' = [doing EXCEPT ![t] = [@ EXCEPT !.at = "save", !.cut = ~ unlocked]]
      BY <1>5 DEF SaveValues
    <3>3. [doing[t] EXCEPT !.at = "save", !.cut = ~ unlocked] \in
             [at : Place, str : Storage \cup {NoValue}, cut : BOOLEAN, real : BOOLEAN]
      BY <3>1 DEF Place
    <3>. QED
      BY <3>1, <3>2, <3>3 DEF PcType
  <2>2. /\ UNCHANGED <<mPersist, backups, lock, copies, raced>>
        /\ {backing', unlocked', mounted'} \subseteq BOOLEAN
    BY <1>0, <1>5 DEF SaveValues, MountSettings, Types, SettingsTypeOK
  <2>3. Types'
    BY <1>0, <2>1, <2>2, StillTyped DEF Types, SettingsTypeOK
  <2>. QED
    BY <1>0, <2>1, <2>2, <2>3, Aside DEF Changing
<1>6. CASE PostDecrypt(t)
  BY <1>0, <1>6, PathStep, SettingsAssumption DEF PostDecrypt
<1>. QED
  BY <1>1, <1>2, <1>3, <1>4, <1>5, <1>6

\* SetBackupFolder.
LEMMA FolderStep ==
    ASSUME SettingsInv, NEW t \in Thread, ReadStorage(t) \/ SetBackups(t) \/ SetZip(t)
    PROVE  SettingsInv'
<1>0. /\ Types /\ PcType /\ doing[t].at \in Changing /\ doing[t].at # "written"
      /\ UNCHANGED <<lock, place, copies, raced>>
      /\ doing[t].str \in Storage \cup {NoValue}
  BY Typed DEF SettingsInv, Types, ReadStorage, SetBackups, SetZip, At, Changing
<1>1. CASE ReadStorage(t)
  <2>1. /\ PcType' /\ doing'[t].at = "backups" /\ doing'[t].str = Get("storage")
        /\ \A u \in Thread : u # t => doing'[u] = doing[u]
        /\ UNCHANGED <<mPersist, backups>>
    BY <1>0, <1>1 DEF ReadStorage, PcType, Place, Get, Types
  <2>2. Types'
    BY <1>0, <2>1, StillTyped DEF Types, SettingsTypeOK, place
  <2>. QED
    BY <1>0, <2>1, <2>2 DEF SettingsInv, OneAtATime, Changing, BackupsFollow, ZipFollows, Get
<1>2. CASE SetBackups(t)
  <2>1. /\ PcType' /\ doing'[t].at \in {"zip", "idle"}
        /\ doing'[t].at = "zip" => doing'[t].str = doing[t].str
        /\ doing'[t].at = "idle" => doing[t].str \notin Known
        /\ \A u \in Thread : u # t => doing'[u] = doing[u]
        /\ backups' = doing[t].str /\ UNCHANGED mPersist /\ doing[t].at = "backups"
    BY <1>0, <1>2, Moved, Returned DEF SetBackups, Goto, Place, At
  <2>2. Types'
    BY <1>0, <2>1, StillTyped DEF Types, SettingsTypeOK, place
  <2>. QED
    BY <1>0, <2>1, <2>2 DEF SettingsInv, OneAtATime, Changing, BackupsFollow, ZipFollows, Get
<1>3. CASE SetZip(t)
  <2>1. /\ PcType' /\ doing'[t].at = "idle"
        /\ \A u \in Thread : u # t => doing'[u] = doing[u]
        /\ UNCHANGED backups /\ doing[t].at = "zip"
    BY <1>0, <1>3, Returned DEF SetZip, At
  <2>2. /\ mPersist' \in [Name -> Storage \cup Language \cup {NoValue}]
        /\ mPersist'["storage"] = mPersist["storage"] /\ mPersist'["zip"] = doing[t].str
    BY <1>0, <1>3 DEF SetZip, Types, SettingsTypeOK, Name
  <2>3. Types'
    BY <1>0, <2>1, <2>2, StillTyped DEF Types, SettingsTypeOK, place
  <2>. QED
    BY <1>0, <2>1, <2>2, <2>3 DEF SettingsInv, OneAtATime, Changing, BackupsFollow, ZipFollows, Get
<1>. QED
  BY <1>1, <1>2, <1>3
LEMMA DefaultsStep ==
    ASSUME SettingsInv, NEW t \in Thread, SetDefaultValues(t)
    PROVE  SettingsInv'
<1>1. /\ Types /\ doing[t].at = "defaults" /\ UNCHANGED <<lock, place, copies, raced>>
      /\ mPersist' = Defaults /\ backups' = Internal /\ Internal \in Storage
  BY SettingsAssumption DEF SettingsInv, SetDefaultValues, At
<1>2. /\ PcType' /\ doing'[t].at = "idle"
      /\ \A u \in Thread : u # t => doing'[u] = doing[u]
  BY <1>1, Returned DEF SetDefaultValues
<1>3. /\ mPersist' \in [Name -> Storage \cup Language \cup {NoValue}]
      /\ mPersist'["storage"] = Internal /\ mPersist'["zip"] = Internal
  BY <1>1, SettingsAssumption DEF Defaults, Name
<1>4. Types'
  BY <1>1, <1>2, <1>3, StillTyped DEF Types, SettingsTypeOK, place
<1>. QED
  BY <1>1, <1>2, <1>3, <1>4 DEF SettingsInv, OneAtATime, Changing, BackupsFollow, ZipFollows, Get

LEMMA LoadStep ==
    ASSUME SettingsInv, NEW t \in Thread, LoadValues(t)
    PROVE  SettingsInv'
<1>1. /\ Types /\ doing[t].at = "load" /\ UNCHANGED <<lock, backups, place, copies>>
      /\ Race(t) /\ raced' \in BOOLEAN
  BY DEF SettingsInv, Types, SettingsTypeOK, LoadValues, At, Race
<1>2. /\ PcType' /\ doing'[t].at = "current"
      /\ \A u \in Thread : u # t => doing'[u] = doing[u]
  BY <1>1, Moved DEF LoadValues, Goto, Place
<1>3. /\ mPersist' \in [Name -> Storage \cup Language \cup {NoValue}]
      /\ mPersist'["storage"] \in Storage \cup {NoValue}
  <2>1. FileType(File)
    BY <1>1 DEF Types, File
  <2>2. mPersist' = [n \in Name |-> IF n \in DOMAIN File THEN File[n] ELSE mPersist[n]]
    BY DEF LoadValues
  <2>. HIDE DEF File
  <2>. QED
    BY <1>1, <2>1, <2>2 DEF FileType, Types, SettingsTypeOK, Name
<1>4. Types'
  BY <1>1, <1>2, <1>3, StillTyped DEF Types, SettingsTypeOK, place
<1>. QED
  BY <1>1, <1>2, <1>4, Begun

LEMMA CheckStep ==
    ASSUME SettingsInv, NEW t \in Thread, CheckStorage(t)
    PROVE  SettingsInv'
<1>1. /\ Types /\ doing[t].at = "current" /\ UNCHANGED <<lock, backups, place, copies>>
  BY DEF SettingsInv, CheckStorage, At
<1>2. CASE SetStoragePath(t, Internal, "folder")
  BY <1>1, <1>2, PathStep, SettingsAssumption DEF Types, SettingsTypeOK, place
<1>3. CASE Goto(t, "folder") /\ UNCHANGED <<mPersist, raced>>
  <2>1. /\ PcType' /\ doing'[t].at = "folder"
        /\ \A u \in Thread : u # t => doing'[u] = doing[u]
    BY <1>1, <1>3, Moved DEF Goto, Place
  <2>2. Types'
    BY <1>1, <1>3, <2>1, StillTyped DEF Types, SettingsTypeOK, place
  <2>. QED
    BY <1>1, <1>3, <2>1, <2>2 DEF SettingsInv, OneAtATime, Changing, BackupsFollow, ZipFollows, Get
<1>. QED
  BY <1>2, <1>3 DEF CheckStorage

\* The file is a part of the persistent values, or all of them.
LEMMA SaveStep ==
    ASSUME SettingsInv, NEW t \in Thread, SaveFails(t) \/ WriteFile(t) \/ \E ok \in BOOLEAN : FinishFile(t, ok)
    PROVE  SettingsInv'
<1>1. /\ Types /\ doing[t].at \in {"save", "written"}
      /\ UNCHANGED <<mPersist, backups, place, raced>>
  BY DEF SettingsInv, SaveFails, WriteFile, FinishFile, At
<1>2. ASSUME NEW part \in SUBSET Name
      PROVE  FileType([n \in part |-> mPersist[n]])
  BY <1>1 DEF FileType, Types, SettingsTypeOK
<1>3. FileType(mPersist)
  BY <1>1 DEF FileType, Types, SettingsTypeOK
<1>4. CASE WriteFile(t)
  <2>1. /\ PcType' /\ doing'[t].at = "written"
        /\ \A u \in Thread : u # t => doing'[u] = doing[u]
    BY <1>1, <1>4 DEF WriteFile, PcType, Place, Types, SettingsTypeOK
  <2>2. /\ lock' = t /\ lock = NoValue
        /\ \A u \in Thread : lock' = u <=> At(u, "written")'
    BY <1>1, <1>4, <2>1, SettingsAssumption DEF WriteFile, Free, Types, SettingsTypeOK, At
  <2>3. FileType(disk)' /\ FileType(ram)' /\ FileType(stable)'
    <3>0. stable' = stable /\ FileType(stable)
      BY <1>1, <1>4 DEF WriteFile, Types
    <3>1. PICK part \in SUBSET Name :
            \/ disk' = [n \in part |-> mPersist[n]] /\ ram' = ram
            \/ ram' = [n \in part |-> mPersist[n]] /\ disk' = disk
      BY <1>4, Zenon DEF WriteFile
    <3>2. FileType([n \in part |-> mPersist[n]]) /\ FileType(disk) /\ FileType(ram)
      BY <1>1, <1>2 DEF Types
    <3>3. CASE disk' = [n \in part |-> mPersist[n]] /\ ram' = ram
      BY <3>0, <3>2, <3>3 DEF FileType
    <3>4. CASE ram' = [n \in part |-> mPersist[n]] /\ disk' = disk
      BY <3>0, <3>2, <3>4 DEF FileType
    <3>. QED
      BY <3>1, <3>3, <3>4
  <2>5. synced' \in BOOLEAN
    BY <1>1, <1>4 DEF WriteFile, Types, SettingsTypeOK
  <2>4. Types'
    BY <1>1, <2>1, <2>2, <2>3, <2>5 DEF Types, SettingsTypeOK, place, FileType
  <2>. QED
    BY <1>1, <2>1, <2>4, Aside DEF Changing
<1>5. ASSUME NEW ok \in BOOLEAN, FinishFile(t, ok) PROVE SettingsInv'
  <2>1. /\ PcType' /\ doing'[t].at = "idle"
        /\ \A u \in Thread : u # t => doing'[u] = doing[u]
    BY <1>1, <1>5, Returned DEF FinishFile
  <2>2. /\ lock' = NoValue /\ doing[t].at = "written"
        /\ \A u \in Thread : lock' = u <=> At(u, "written")'
    BY <1>1, <1>5, <2>1, SettingsAssumption DEF FinishFile, Types, SettingsTypeOK, At
  <2>3. FileType(disk)' /\ FileType(ram)' /\ FileType(stable)'
    <3>1. /\ disk' = disk \/ disk' = mPersist
          /\ ram' = ram \/ ram' = mPersist
          /\ stable' = stable
      BY <1>5 DEF FinishFile
    <3>. QED
      BY <1>1, <1>3, <3>1 DEF Types, FileType
  <2>5. synced' \in BOOLEAN
    BY <1>1, <1>5 DEF FinishFile, Types, SettingsTypeOK
  <2>4. Types'
    BY <1>1, <2>1, <2>2, <2>3, <2>5 DEF Types, SettingsTypeOK, place, FileType
  <2>. QED
    BY <1>1, <2>1, <2>4, Aside DEF Changing
<1>6. CASE SaveFails(t)
  <2>1. /\ PcType' /\ doing'[t].at = "idle"
        /\ \A u \in Thread : u # t => doing'[u] = doing[u]
        /\ UNCHANGED <<mPersist, backups, lock, place, copies, raced>> /\ doing[t].at = "save"
    BY <1>1, <1>6, Returned DEF SaveFails, At
  <2>2. Types'
    BY <1>1, <2>1, StillTyped DEF Types, SettingsTypeOK, place
  <2>. QED
    BY <1>1, <2>1, <2>2, Aside DEF Changing
<1>. QED
  BY <1>4, <1>5, <1>6

LEMMA UnmountStep == ASSUME SettingsInv, WriteBack \/ Unmount PROVE SettingsInv'
<1>1. /\ Types /\ mounted' \in BOOLEAN /\ synced' = TRUE /\ stable' = disk
      /\ UNCHANGED <<mPersist, backups, lock, backing, unlocked, disk, ram, raced>>
  BY DEF SettingsInv, WriteBack, Unmount, Types, SettingsTypeOK, place
<1>2. \A t \in Thread : doing'[t].at = doing[t].at /\ doing'[t].str = doing[t].str
  BY <1>1 DEF WriteBack, Unmount, Types, PcType
<1>3. PcType'
  BY <1>1 DEF WriteBack, Unmount, Types, PcType
<1>4. FileType(disk)' /\ FileType(ram)' /\ FileType(stable)'
  BY <1>1 DEF Types, FileType
<1>5. Types'
  BY <1>1, <1>2, <1>3, <1>4 DEF Types, SettingsTypeOK, At, FileType
<1>. QED
  BY <1>1, <1>2, <1>5 DEF SettingsInv, OneAtATime, Changing, BackupsFollow, ZipFollows, Get

LEMMA RebootStep == ASSUME SettingsInv, Reboot PROVE SettingsInv'
<1>1. /\ mPersist' \in [Name -> Storage \cup Language \cup {NoValue}]
      /\ mPersist'["storage"] = Internal /\ mPersist'["zip"] = Internal
      /\ Internal \in Storage
  BY SettingsAssumption DEF Reboot, Defaults, Name
<1>2. PcType' /\ \A t \in Thread : doing'[t].at = "idle"
  BY DEF Reboot, PcType, Idle, Place
<1>3. FileType(disk)' /\ FileType(ram)' /\ FileType(stable)' /\ synced' \in BOOLEAN
  <2>1. DOMAIN Empty = {}
    BY DEF Empty
  <2>. QED
    BY <2>1 DEF SettingsInv, Types, SettingsTypeOK, FileType, Reboot
<1>4. SettingsTypeOK'
  BY <1>1, <1>2, <1>3, SettingsAssumption DEF Reboot, SettingsTypeOK, FileType, At
<1>5. OneAtATime'
  BY <1>1, <1>2 DEF Reboot, OneAtATime, Changing, BackupsFollow, ZipFollows, Get
<1>. QED
  BY <1>1, <1>2, <1>3, <1>4, <1>5 DEF SettingsInv, Types

LEMMA NextStep == SettingsInv /\ [SettingsNext]_settingsVars => SettingsInv'
<1>. SUFFICES ASSUME SettingsInv, [SettingsNext]_settingsVars PROVE SettingsInv'
  OBVIOUS
<1>1. CASE UNCHANGED settingsVars
  <2>1. Types'
    <3>1. FileType(disk)' /\ FileType(ram)' /\ FileType(stable)' /\ PcType'
      BY <1>1 DEF settingsVars, SettingsInv, Types, FileType, PcType
    <3>. QED
      BY <1>1, <3>1 DEF settingsVars, SettingsInv, Types, SettingsTypeOK, At
  <2>. QED
    BY <1>1, <2>1 DEF settingsVars, SettingsInv, OneAtATime, BackupsFollow, ZipFollows, Get
<1>2. CASE SettingsNext
  BY <1>2, SettingsCallStep, FolderStep, DefaultsStep, LoadStep, CheckStep, SaveStep, UnmountStep,
     RebootStep DEF SettingsNext, SettingsStep
<1>. QED
  BY <1>1, <1>2

\* Whatever threads do to DataManager at a time, when they are done the
\* backup folder and the zip folder are on the chosen storage, unless changes
\* of the path overlapped.
THEOREM FoldersAreRight == SettingsSpec => []FoldersFollow
<1>1. SettingsSpec => []SettingsInv
  BY SettingsInitially, NextStep, PTL DEF SettingsSpec
<1>. QED
  BY <1>1, Follows, PTL

-----------------------------------------------------------------------------
(***************************************************************************)
(* The settings file                                                       *)
(***************************************************************************)
\* What a promise stands for, and what a save on its way may promise: while it
\* is not cut, its file is on the storage; one that has torn that file has
\* taken back the promise before it.  Once synced, the promise outlives the
\* power.
Promise == flushed # NoValue =>
    /\ disk = flushed /\ flushed \in [Name -> Storage \cup Language \cup {NoValue}]
    /\ synced => stable = flushed
SaveSound ==
    \A t \in Thread :
        /\ doing[t].at = "save" /\ ~ doing[t].cut => mounted
        /\ doing[t].at = "written" /\ ~ doing[t].cut => doing[t].real
        /\ doing[t].at = "written" /\ doing[t].real => flushed = NoValue
Promised == Promise /\ SaveSound

\* A step that leaves the file alone, and moves a thread to a place where it
\* does not save.
LEMMA NotSaving ==
    ASSUME Promised, UNCHANGED <<disk, stable, flushed, synced>>, mounted => mounted',
           NEW t \in Thread, doing'[t].at \notin {"save", "written"},
           \A u \in Thread : u # t => doing'[u] = doing[u]
    PROVE  Promised'
<1>1. Promise'
  BY DEF Promised, Promise
<1>2. SaveSound'
  BY DEF Promised, SaveSound
<1>. QED
  BY <1>1, <1>2 DEF Promised

LEMMA SavesKeepPromise ==
    ASSUME SettingsInv, Promised, NEW t \in Thread, SaveValues(t) \/ SaveFails(t) \/ WriteFile(t)
           \/ \E ok \in BOOLEAN : FinishFile(t, ok)
    PROVE  Promised'
<1>1. PcType /\ mPersist \in [Name -> Storage \cup Language \cup {NoValue}]
      /\ \A u \in Thread : lock = u <=> doing[u].at = "written"
  BY DEF SettingsInv, Types, SettingsTypeOK, At
<1>2. NoValue \notin Thread
  BY SettingsAssumption
<1>3. CASE SaveValues(t)
  <2>1. /\ doing'[t].at = "save" /\ doing'[t].cut = ~ unlocked
        /\ \A u \in Thread : u # t => doing'[u] = doing[u]
        /\ mounted' = (mounted \/ unlocked)
        /\ UNCHANGED <<disk, stable, flushed, synced>>
    BY <1>1, <1>3 DEF SaveValues, PcType, MountSettings, copies
  <2>. QED
    BY <2>1 DEF Promised, Promise, SaveSound
<1>4. CASE WriteFile(t)
  <2>1. /\ doing'[t].at = "written" /\ doing'[t].real = mounted /\ doing'[t].cut = doing[t].cut
        /\ \A u \in Thread : u # t => doing'[u] = doing[u]
        /\ doing[t].at = "save" /\ lock = NoValue
        /\ UNCHANGED mounted
    BY <1>1, <1>4 DEF WriteFile, PcType, At, Free, place
  <2>2. \A u \in Thread : u # t => doing'[u].at # "written"
    BY <1>1, <1>2, <2>1
  <2>3. (mounted /\ flushed' = NoValue) \/ (~ mounted /\ UNCHANGED <<disk, stable, flushed, synced>>)
    BY <1>4 DEF WriteFile
  <2>4. Promise'
    BY <2>3 DEF Promised, Promise
  <2>5. SaveSound'
    BY <2>1, <2>2, <2>3 DEF Promised, SaveSound
  <2>. QED
    BY <2>4, <2>5 DEF Promised
<1>5. ASSUME NEW ok \in BOOLEAN, FinishFile(t, ok) PROVE Promised'
  <2>1. /\ doing[t].at = "written" /\ doing'[t].at = "idle"
        /\ \A u \in Thread : u # t => doing'[u] = doing[u]
        /\ UNCHANGED <<mounted, mPersist, stable>>
    BY <1>1, <1>5, Returned DEF FinishFile, At, place, SettingsInv
  <2>2. \A u \in Thread : u # t => doing'[u].at # "written"
    BY <1>1, <2>1
  <2>3. CASE ok
    <3>1. /\ disk' = IF doing[t].real THEN mPersist ELSE disk
          /\ \/ ~ doing[t].cut /\ flushed' = mPersist /\ synced' = FALSE
             \/ doing[t].cut /\ UNCHANGED <<flushed, synced>>
      BY <1>5, <2>3 DEF FinishFile
    <3>2. Promise'
      BY <1>1, <2>1, <3>1 DEF Promised, Promise, SaveSound
    <3>. QED
      BY <2>1, <2>2, <3>2 DEF Promised, SaveSound
  <2>4. CASE ~ ok
    <3>1. UNCHANGED <<disk, flushed, synced>>
      BY <1>5, <2>4 DEF FinishFile
    <3>. QED
      BY <2>1, <2>2, <3>1 DEF Promised, Promise, SaveSound
  <2>. QED
    BY <2>3, <2>4
<1>6. CASE SaveFails(t)
  <2>1. /\ doing'[t].at = "idle" /\ \A u \in Thread : u # t => doing'[u] = doing[u]
        /\ UNCHANGED <<mounted, disk, stable, flushed, synced>>
    BY <1>1, <1>6, Returned DEF SaveFails, place, copies, SettingsInv
  <2>. QED
    BY <2>1, NotSaving
<1>. QED
  BY <1>3, <1>4, <1>5, <1>6

LEMMA CallsKeepPromise ==
    ASSUME SettingsInv, Promised, NEW t \in Thread,
           \/ \E v \in Language : SetLanguage(t, v)
           \/ \E s \in Storage : ChooseStorage(t, s)
           \/ ResetDefaults(t) \/ ReadSettingsFile(t) \/ PostDecrypt(t)
    PROVE  Promised'
<1>1. PcType
  BY DEF SettingsInv, Types
<1>2. CASE \E v \in Language : SetLanguage(t, v)
  BY <1>2 DEF SetLanguage, place, copies, Promised, Promise, SaveSound
<1>3. CASE ~ \E v \in Language : SetLanguage(t, v)
  <2>1. \E p \in {"folder", "defaults", "load"} : doing' = [doing EXCEPT ![t].at = p]
    BY <1>3 DEF ChooseStorage, SetStoragePath, ResetDefaults, ReadSettingsFile, PostDecrypt, Goto
  <2>2. UNCHANGED copies
    BY <1>3 DEF ChooseStorage, ResetDefaults, ReadSettingsFile, PostDecrypt
  <2>4. UNCHANGED place \/ MountSettings \/ mounted' = TRUE
    BY <1>3 DEF ChooseStorage, ResetDefaults, ReadSettingsFile, PostDecrypt
  <2>5. mounted => mounted'
    BY <2>4 DEF place, MountSettings
  <2>3. doing'[t].at \notin {"save", "written"} /\ \A u \in Thread : u # t => doing'[u] = doing[u]
    BY <1>1, <2>1 DEF PcType
  <2>. QED
    BY <2>2, <2>3, <2>5, NotSaving DEF copies
<1>. QED
  BY <1>2, <1>3

LEMMA OthersKeepPromise ==
    ASSUME SettingsInv, Promised, NEW t \in Thread,
           \/ ReadStorage(t) \/ SetBackups(t) \/ SetZip(t)
           \/ SetDefaultValues(t) \/ LoadValues(t) \/ CheckStorage(t)
    PROVE  Promised'
<1>1. PcType
  BY DEF SettingsInv, Types
<1>2. UNCHANGED <<place, copies>>
  BY DEF ReadStorage, SetBackups, SetZip, SetDefaultValues, LoadValues, CheckStorage
<1>3. \/ \E p \in {"folder", "zip", "current"} : doing' = [doing EXCEPT ![t].at = p]
      \/ doing' = [doing EXCEPT ![t] = Idle]
      \/ doing' = [doing EXCEPT ![t] = [@ EXCEPT !.at = "backups", !.str = Get("storage")]]
  BY DEF ReadStorage, SetBackups, SetZip, SetDefaultValues, LoadValues, CheckStorage,
     SetStoragePath, Goto, Return
<1>4. doing'[t].at \notin {"save", "written"} /\ \A u \in Thread : u # t => doing'[u] = doing[u]
  <2>1. CASE \E p \in {"folder", "zip", "current"} : doing' = [doing EXCEPT ![t].at = p]
    BY <1>1, <2>1 DEF PcType
  <2>2. CASE doing' = [doing EXCEPT ![t] = Idle]
    BY <1>1, <2>2 DEF PcType, Idle
  <2>3. CASE doing' = [doing EXCEPT ![t] = [@ EXCEPT !.at = "backups", !.str = Get("storage")]]
    BY <1>1, <2>3 DEF PcType
  <2>. QED
    BY <1>3, <2>1, <2>2, <2>3
<1>. QED
  BY <1>2, <1>4, NotSaving DEF place, copies

LEMMA PromiseIsKept == SettingsInv /\ Promised /\ [SettingsNext]_settingsVars => Promised'
<1>. SUFFICES ASSUME SettingsInv, Promised, [SettingsNext]_settingsVars PROVE Promised'
  OBVIOUS
<1>1. CASE UNCHANGED settingsVars
  BY <1>1 DEF settingsVars, Promised, Promise, SaveSound
<1>2. CASE Unmount
  <2>1. UNCHANGED <<disk, flushed>> /\ stable' = disk /\ lock = NoValue
    BY <1>2 DEF Unmount, Free
  <2>2. \A t \in Thread : doing'[t].at = doing[t].at /\ doing[t].at # "written"
                           /\ (doing[t].at = "save" => doing'[t].cut)
    <3>1. PcType /\ \A u \in Thread : lock = u <=> doing[u].at = "written"
      BY DEF SettingsInv, Types, SettingsTypeOK, At
    <3>. QED
      BY <1>2, <2>1, <3>1, SettingsAssumption DEF Unmount, PcType, At
  <2>. QED
    BY <2>1, <2>2 DEF Promised, Promise, SaveSound
<1>3. CASE Reboot
  <2>1. /\ disk' = stable /\ UNCHANGED <<stable, synced>>
        /\ flushed' = IF synced THEN flushed ELSE NoValue
        /\ \A t \in Thread : doing'[t].at = "idle"
    BY <1>3 DEF Reboot, Idle
  <2>. QED
    BY <2>1 DEF Promised, Promise, SaveSound
<1>4. CASE WriteBack
  BY <1>4 DEF WriteBack, place, Promised, Promise, SaveSound
<1>. QED
  BY <1>1, <1>2, <1>3, <1>4, SavesKeepPromise, CallsKeepPromise, OthersKeepPromise DEF SettingsNext, SettingsStep

\* What the last save that got through left on the storage is what the next
\* reading from there brings back, whatever unmounts, failed saves and saves
\* to the ramdisk come between, and whatever power cuts once the storage was
\* synced or unmounted (DataManager's SaveValues, which syncs nothing itself,
\* and LoadValues).
THEOREM SavedComesBack == SettingsSpec => FlushedComesBack
<1>1. SettingsInit => Promised
  BY DEF SettingsInit, Idle, Promised, Promise, SaveSound
<1>2. SettingsInv /\ Promised => \A t \in Thread : LoadValues(t) /\ mounted /\ flushed # NoValue
                                              => mPersist' = flushed
  <2>. SUFFICES ASSUME Promised, NEW t \in Thread, LoadValues(t), mounted, flushed # NoValue
                PROVE  mPersist' = flushed
    OBVIOUS
  <2>1. File = flushed /\ flushed \in [Name -> Storage \cup Language \cup {NoValue}]
    BY DEF Promised, Promise, File
  <2>2. mPersist' = [n \in Name |-> flushed[n]]
    BY <2>1 DEF LoadValues
  <2>. QED
    BY <2>1, <2>2
<1>3. SettingsSpec => [](SettingsInv /\ Promised)
  BY <1>1, SettingsInitially, NextStep, PromiseIsKept, PTL DEF SettingsSpec
<1>. QED
  BY <1>2, <1>3, PTL DEF FlushedComesBack

=============================================================================
