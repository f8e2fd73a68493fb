---------------------------- MODULE DataVolumeProofs ----------------------------
(***************************************************************************)
(* Proofs of DataVolume, for any users, attempts and number of operations: *)
(* what is mounted is what the next operation finds, a format that         *)
(* succeeded leaves no key, the user's files are lost to what asks for it, *)
(* and encrypted data are asked for.                                       *)
(***************************************************************************)
EXTENDS DataVolume, TLAPS

StartingUp == {"start", "setup", "setup_de", "media", "decrypt"}
Formatting == {"mkfs", "mkfs_runs"}

\* What the disk allows: a file system is mounted as what it is, mapped
\* devices have a key, and keys of users belong to an encrypted volume.
DiskSound ==
    /\ disk = "keyed" => metadata
    /\ disk = "fbe" => ~ metadata
    /\ keydir \/ prop => metadata
    /\ dm => prop
    /\ mounted = "dm" => dm /\ disk = "keyed"
    /\ mounted = "raw" => disk \in {"fbe", "plain"}
    /\ ce # {} => disk \in {"keyed", "fbe"}

\* How far the calls under way have come.
StepsSound ==
    /\ pc \in {"setup_de", "metadata"} => ~ prop
    /\ pc \in {"media", "decrypt"} /\ prop => dat.Is_Decrypted
    /\ pc \in {"metadata", "mapped", "mapped_de"} => metadata
    /\ pc \in {"mapped", "mapped_de"} => ce = {}
    /\ pc \in {"setup_de", "mapped_de"} => mounted # "none"
    /\ pc \in Formatting => mounted = "none" /\ ~ dat.Is_Decrypted
    /\ pc = "wipekeys" =>
          metadata /\ disk \in {"fbe", "plain"} /\ ("data" \notin erased => disk = "plain")
    /\ pc \in {"auto", "auto_user"} => asked = 0

\* What the flags of the partition are good for.
FlagsSound ==
    /\ dat.Decrypted_Block_Device = "dm" => metadata
    /\ pc \notin {"start", "setup"} =>
          /\ mounted = "dm" => dat.Decrypted_Block_Device = "dm"
          /\ 0 \in ce /\ disk = "keyed" => dat.Is_Decrypted
    /\ pc \notin {"start", "setup", "setup_de", "media"} \cup Formatting => dat.Has_Data_Media

\* A format that was reported stays what it was until the next one.
FormatSound ==
    ret = [op |-> "format", ok |-> TRUE] /\ pc \notin Formatting \cup {"wipekeys"} =>
        /\ disk \notin {"keyed", "torn"}
        /\ "data" \notin erased => disk = "plain"
        /\ "metadata" \notin erased => ~ keydir

\* Users that must be decrypted are in the list, once there is a list.
Listed ==
    Users_List # <<>> =>
        \A u \in Users : decrypt[u] = "0" =>
            \E i \in DOMAIN Users_List : Users_List[i].userId = u /\ ~ Users_List[i].isDecrypted

AskingSound ==
    /\ vals.fbe = 1 /\ Users_List = <<>> =>
          \/ pc \in {"setup_de", "idle", "ask", "user", "wipekeys"} \cup Formatting
          \/ pc \in {"media", "decrypt"} /\ dat.Is_Decrypted
    /\ pc = "auto_user" => Users_List # <<>>
    /\ pc \in {"metadata", "mapped", "mapped_de", "default", "auto", "auto_user"} =>
          vals.encrypted = 1
    /\ pc \notin StartingUp /\ Encrypted /\ decrypt[0] = "0" /\ "data" \notin erased =>
          vals.encrypted = 1

IInv ==
    TypeOK /\ DiskSound /\ StepsSound /\ FlagsSound /\ FormatSound /\ Listed /\ AskingSound

-----------------------------------------------------------------------------
UserType == [userId : Users, isDecrypted : BOOLEAN]

DatType ==
    [Is_Encrypted : BOOLEAN, Is_Decrypted : BOOLEAN, Is_FBE : BOOLEAN,
     Decrypted_Block_Device : {"", "dm"}, Has_Data_Media : BOOLEAN, excluded : BOOLEAN]

ValsType == [encrypted : Flag, fbe : Flag, pwtype : Flag, all_users : Flag]

VolumeTypes ==
    /\ branch \in {"12.1", "14.1"} /\ metadata \in BOOLEAN
    /\ disk \in {"keyed", "fbe", "plain", "torn"}
    /\ media \in BOOLEAN /\ keydir \in BOOLEAN /\ unencrypted \in BOOLEAN
    /\ dm \in BOOLEAN /\ prop \in BOOLEAN /\ de \in BOOLEAN
    /\ mounted \in {"none", "raw", "dm"}
    /\ ce \subseteq Users
    /\ mounted = "none" => ~ de /\ ce = {}

ListTypes == decrypt \in [Users -> {"unset", "0", "1"}] /\ Users_List \in Seq(UserType)

FlagTypes == dat \in DatType /\ vals \in ValsType /\ erased \subseteq {"data", "metadata"}

CallTypes ==
    /\ pc \in Step /\ attempt \in 0 .. Attempts /\ asked \in Users
    /\ ret \in [op : Op, ok : BOOLEAN] /\ calls \in 0 .. MaxCalls

\* The parts of TypeOK.
LEMMA Types == TypeOK <=> VolumeTypes /\ ListTypes /\ FlagTypes /\ CallTypes
  BY DEF TypeOK, VolumeTypes, ListTypes, FlagTypes, CallTypes, UserType, DatType, ValsType

-----------------------------------------------------------------------------
LEMMA Consequences ==
    IInv => FormattedIsKeyless /\ ActualIsMounted /\ AsksForPassword
<1>. SUFFICES ASSUME IInv PROVE FormattedIsKeyless /\ ActualIsMounted /\ AsksForPassword
  OBVIOUS
<1>1. FormattedIsKeyless
  BY DEF IInv, FormatSound, FormattedIsKeyless, Formatting
<1>2. AsksForPassword
  BY DEF IInv, AskingSound, AsksForPassword, StartingUp
<1>3. ActualIsMounted
  <2>. SUFFICES ASSUME pc = "idle", 0 \in ce PROVE mounted = Actual_Block_Device
    BY DEF IInv, ActualIsMounted
  <2>1. mounted \in {"raw", "dm"} /\ disk \in {"keyed", "fbe"}
    BY DEF IInv, TypeOK, DiskSound
  <2>2. CASE disk = "keyed"
    BY <2>1, <2>2 DEF IInv, DiskSound, FlagsSound, Actual_Block_Device
  <2>3. CASE disk = "fbe"
    BY <2>1, <2>3 DEF IInv, DiskSound, FlagsSound, Actual_Block_Device
  <2>. QED
    BY <2>1, <2>2, <2>3
<1>. QED
  BY <1>1, <1>2, <1>3

-----------------------------------------------------------------------------
LEMMA UserIds == \A i \in DOMAIN User_Ids : User_Ids[i] \in Users
  BY DataVolumeAssumption DEF Users, Range

LEMMA HasUsers ==
    /\ User_Ids \in Seq(Users) /\ User_Ids # <<>> /\ 0 \in Users
    /\ \A u \in Users : \E i \in DOMAIN User_Ids : User_Ids[i] = u
  BY DataVolumeAssumption DEF Users, Range

LEMMA Parsed ==
    ASSUME Users_List \in Seq(UserType), NEW props \in [Users -> {"unset", "0", "1"}]
    PROVE  /\ Parse_Users(props) \in Seq(UserType)
           /\ Parse_Users(props) # <<>>
           /\ \A u \in Users : props[u] = "0" =>
                 \E i \in DOMAIN Parse_Users(props) :
                    Parse_Users(props)[i].userId = u /\ ~ Parse_Users(props)[i].isDecrypted
<1>. DEFINE new == [i \in DOMAIN User_Ids |->
                       [userId |-> User_Ids[i], isDecrypted |-> props[User_Ids[i]] = "1"]]
<1>0. /\ DOMAIN User_Ids = 1 .. Len(User_Ids) /\ Len(User_Ids) \in Nat \ {0}
      /\ \A i \in 1 .. Len(User_Ids) : User_Ids[i] \in Users
  BY HasUsers
<1>2. ASSUME NEW i \in 1 .. Len(User_Ids)
      PROVE  /\ new[i] \in UserType
             /\ new[i].userId = User_Ids[i]
             /\ new[i].isDecrypted = (props[User_Ids[i]] = "1")
  <2>1. new[i] = [userId |-> User_Ids[i], isDecrypted |-> props[User_Ids[i]] = "1"]
    BY <1>0
  <2>2. (props[User_Ids[i]] = "1") \in BOOLEAN
    OBVIOUS
  <2>. QED
    BY <1>0, <2>1, <2>2, Zenon DEF UserType
<1>. DEFINE n == Len(User_Ids)
<1>1. new \in Seq(UserType) /\ Len(new) = n /\ n \in Nat \ {0}
  <2>1. DOMAIN new = 1 .. n
    BY <1>0
  <2>2. new \in [1 .. n -> UserType]
    BY <1>0, <1>2, <2>1
  <2>. QED
    BY <1>0, <2>2
<1>. HIDE DEF new
<1>3. /\ Users_List \o new \in Seq(UserType)
      /\ Len(Users_List) \in Nat
      /\ Len(Users_List \o new) = Len(Users_List) + Len(new)
      /\ DOMAIN (Users_List \o new) = 1 .. Len(Users_List) + Len(new)
      /\ \A i \in 1 .. Len(new) : (Users_List \o new)[Len(Users_List) + i] = new[i]
  BY <1>1
<1>4. ASSUME NEW u \in Users, props[u] = "0"
      PROVE  \E i \in DOMAIN (Users_List \o new) :
                (Users_List \o new)[i].userId = u /\ ~ (Users_List \o new)[i].isDecrypted
  <2>1. PICK i \in 1 .. Len(new) : User_Ids[i] = u
    BY <1>0, <1>1, HasUsers
  <2>2. Len(Users_List) + i \in DOMAIN (Users_List \o new)
    BY <1>1, <1>3, <2>1
  <2>. QED
    BY <1>1, <1>2, <1>3, <1>4, <2>1, <2>2
<1>5. Users_List \o new # <<>>
  BY <1>1, <1>3
<1>6. Parse_Users(props) = Users_List \o new
  BY DEF Parse_Users, new
<1>. QED
  BY <1>3, <1>4, <1>5, <1>6

LEMMA Marked ==
    ASSUME Users_List \in Seq(UserType), NEW us \in SUBSET Users
    PROVE  /\ MarkAll(Users_List, us) \in Seq(UserType)
           /\ DOMAIN MarkAll(Users_List, us) = DOMAIN Users_List
           /\ \A i \in DOMAIN Users_List :
                 /\ MarkAll(Users_List, us)[i].userId = Users_List[i].userId
                 /\ Users_List[i].userId \notin us =>
                       MarkAll(Users_List, us)[i] = Users_List[i]
<1>. DEFINE m == MarkAll(Users_List, us)
            n == Len(Users_List)
<1>1. n \in Nat /\ DOMAIN Users_List = 1 .. n /\ \A i \in 1 .. n : Users_List[i] \in UserType
  OBVIOUS
<1>2. DOMAIN m = 1 .. n
  BY <1>1 DEF MarkAll
<1>3. ASSUME NEW i \in 1 .. n
      PROVE  /\ m[i] \in UserType
             /\ m[i].userId = Users_List[i].userId
             /\ Users_List[i].userId \notin us => m[i] = Users_List[i]
  <2>1. \/ m[i] = Users_List[i]
        \/ Users_List[i].userId \in us /\ m[i] = [Users_List[i] EXCEPT !.isDecrypted = TRUE]
    BY <1>1 DEF MarkAll
  <2>2. Users_List[i] \in UserType
    BY <1>1
  <2>. HIDE DEF m
  <2>. QED
    BY <2>1, <2>2 DEF UserType
<1>4. m = [i \in 1 .. n |-> m[i]]
  BY <1>1 DEF MarkAll
<1>. HIDE DEF m
<1>5. m \in Seq(UserType)
  BY <1>1, <1>2, <1>3, <1>4
<1>. QED
  BY <1>1, <1>2, <1>3, <1>5 DEF m

-----------------------------------------------------------------------------
LEMMA Initially == Init => IInv
<1>. SUFFICES ASSUME Init PROVE IInv
  OBVIOUS
<1>1. TypeOK
  <2>1. dat \in DatType
    BY DEF Init, NewDat, DatType
  <2>4. vals \in ValsType
    BY DEF Init, NewVals, ValsType, Flag
  <2>5. ret \in [op : Op, ok : BOOLEAN]
    BY DEF Init, NoCall, Op
  <2>2. decrypt \in [Users -> {"unset", "0", "1"}] /\ Users_List \in Seq(UserType)
    BY DEF Init, UserType
  <2>3. attempt \in 0 .. Attempts /\ asked \in Users /\ calls \in 0 .. MaxCalls
    BY DataVolumeAssumption DEF Init
  <2>. QED
    BY <2>1, <2>2, <2>3, <2>4, <2>5 DEF Init, TypeOK, Step, DatType, ValsType, UserType
<1>2. DiskSound /\ StepsSound /\ FlagsSound
  BY DEF Init, DiskSound, StepsSound, FlagsSound, NewDat, Formatting
<1>3. FormatSound /\ Listed /\ AskingSound
  BY DEF Init, FormatSound, Listed, AskingSound, NewVals, NoCall, StartingUp
<1>. QED
  BY <1>1, <1>2, <1>3 DEF IInv

\* What Mount does to the mounts.
LEMMA Mounts ==
    ASSUME IInv, NEW ok \in BOOLEAN, Mount(ok), UNCHANGED <<dm, disk, ce>>
    PROVE  /\ mounted' \in {"none", "raw", "dm"} /\ de' \in BOOLEAN
           /\ mounted' = "none" => ~ de' /\ ce' = {}
           /\ mounted' = "dm" => dm' /\ disk' = "keyed"
           /\ mounted' = "raw" => disk' \in {"fbe", "plain"}
           /\ mounted' = "dm" => mounted = "dm" \/ dat.Decrypted_Block_Device = "dm"
  BY DEF IInv, TypeOK, DiskSound, Mount, Mountable, Actual_Block_Device

\* Set_FBE_Status.
LEMMA Statused ==
    ASSUME VolumeTypes, FlagTypes
    PROVE  /\ FBE_Status(dat) \in DatType
           /\ FBE_Status(dat).Is_Decrypted
           /\ FBE_Status(dat).Decrypted_Block_Device = dat.Decrypted_Block_Device
<1>1. FBE_Status(dat) = [dat EXCEPT !.Is_Encrypted = TRUE, !.Is_Decrypted = TRUE, !.Is_FBE =
    metadata]
  BY DEF FBE_Status
<1>2. dat \in DatType /\ metadata \in BOOLEAN
  BY DEF VolumeTypes, FlagTypes
<1>. QED
  BY <1>1, <1>2, Zenon DEF DatType

-----------------------------------------------------------------------------
\* Every action keeps the invariant.

LEMMA RebootStep == ASSUME IInv, Reboot PROVE IInv'
<1>0. IInv /\ VolumeTypes /\ ListTypes /\ FlagTypes /\ CallTypes
  BY Types DEF IInv
<1>1. TypeOK'
  <2>1. VolumeTypes'
    BY <1>0, DataVolumeAssumption, HasUsers DEF Reboot, NewProcess, NewDat, NewVals, NoCall,
        Flag, Op, disk_vars, VolumeTypes, IInv, StepsSound, Formatting
  <2>2. ListTypes'
      <3>1. decrypt' \in [Users -> {"unset", "0", "1"}]
        BY <1>0, DataVolumeAssumption, HasUsers DEF Reboot, NewProcess, NewDat, NewVals, NoCall,
            Flag, Op, disk_vars, ListTypes
      <3>2. Users_List' \in Seq(UserType)
        <4>1. Users_List' = <<>>
          BY DEF Reboot, NewProcess
        <4>. QED
          BY <4>1 DEF UserType
      <3>. QED
        BY <3>1, <3>2 DEF ListTypes
  <2>3. FlagTypes'
    BY <1>0, DataVolumeAssumption, HasUsers DEF Reboot, NewProcess, NewDat, NewVals, NoCall,
        Flag, Op, disk_vars, FlagTypes, DatType, ValsType, Flag
  <2>4. CallTypes'
      <3>1. pc' \in Step
        BY <1>0, DataVolumeAssumption, HasUsers DEF Reboot, NewProcess, NewDat, NewVals, NoCall,
            Flag, Op, disk_vars, CallTypes, Step, Op
      <3>2. ret' \in [op : Op, ok : BOOLEAN]
        BY <1>0, DataVolumeAssumption, HasUsers DEF Reboot, NewProcess, NewDat, NewVals, NoCall,
            Flag, Op, disk_vars, CallTypes, Step, Op
      <3>3. attempt' \in 0 .. Attempts /\ asked' \in Users /\ calls' \in 0 .. MaxCalls
        <4>1. attempt' = 0 /\ asked' = 0 /\ calls' = 0
          BY DEF Reboot, NewProcess
        <4>. QED
          BY <4>1, DataVolumeAssumption, HasUsers
      <3>. QED
        BY <3>1, <3>2, <3>3 DEF CallTypes
  <2>. QED
    BY <2>1, <2>2, <2>3, <2>4, Types, PTL
<1>2. DiskSound' /\ StepsSound'
  BY DataVolumeAssumption, HasUsers DEF Reboot, NewProcess, NewDat, NewVals, NoCall, Flag, Op,
      disk_vars, IInv, TypeOK, DiskSound, StepsSound, FlagsSound, AskingSound, Formatting,
      Encrypted
<1>3. FlagsSound'
  BY DataVolumeAssumption, HasUsers DEF Reboot, NewProcess, NewDat, NewVals, NoCall, Flag, Op,
      disk_vars, IInv, TypeOK, DiskSound, StepsSound, FlagsSound, Formatting
<1>4. FormatSound'
  BY DataVolumeAssumption, HasUsers DEF Reboot, NewProcess, NewDat, NewVals, NoCall, Flag, Op,
      disk_vars, IInv, TypeOK, FormatSound, StepsSound, DiskSound, Formatting
<1>5. Listed'
  BY DataVolumeAssumption, HasUsers DEF Reboot, NewProcess, NewDat, NewVals, NoCall, Flag, Op,
      disk_vars, IInv, Listed
<1>6. AskingSound'
  <2>1. pc' = "start" /\ vals' = NewVals
    BY DEF Reboot, NewProcess
  <2>2. vals'.fbe = 0
    BY <2>1 DEF NewVals
  <2>. QED
    BY <2>1, <2>2 DEF AskingSound, StartingUp
<1>. QED
  BY <1>1, <1>2, <1>3, <1>4, <1>5, <1>6 DEF IInv

LEMMA RestartStep == ASSUME IInv, Restart PROVE IInv'
<1>0. IInv /\ VolumeTypes /\ ListTypes /\ FlagTypes /\ CallTypes
  BY Types DEF IInv
<1>1. TypeOK'
  <2>1. VolumeTypes'
    BY <1>0, DataVolumeAssumption, HasUsers DEF Restart, NewProcess, NewDat, NewVals, NoCall,
        Flag, Op, disk_vars, kernel_vars, VolumeTypes, IInv, StepsSound, Formatting
  <2>2. ListTypes'
      <3>1. decrypt' \in [Users -> {"unset", "0", "1"}]
        BY <1>0, DataVolumeAssumption, HasUsers DEF Restart, NewProcess, NewDat, NewVals,
            NoCall, Flag, Op, disk_vars, kernel_vars, ListTypes
      <3>2. Users_List' \in Seq(UserType)
        <4>1. Users_List' = <<>>
          BY DEF Restart, NewProcess
        <4>. QED
          BY <4>1 DEF UserType
      <3>. QED
        BY <3>1, <3>2 DEF ListTypes
  <2>3. FlagTypes'
    BY <1>0, DataVolumeAssumption, HasUsers DEF Restart, NewProcess, NewDat, NewVals, NoCall,
        Flag, Op, disk_vars, kernel_vars, FlagTypes, DatType, ValsType, Flag
  <2>4. CallTypes'
      <3>1. pc' \in Step
        BY <1>0, DataVolumeAssumption, HasUsers DEF Restart, NewProcess, NewDat, NewVals,
            NoCall, Flag, Op, disk_vars, kernel_vars, CallTypes, Step, Op
      <3>2. ret' \in [op : Op, ok : BOOLEAN]
        BY <1>0, DataVolumeAssumption, HasUsers DEF Restart, NewProcess, NewDat, NewVals,
            NoCall, Flag, Op, disk_vars, kernel_vars, CallTypes, Step, Op
      <3>3. attempt' \in 0 .. Attempts /\ asked' \in Users /\ calls' \in 0 .. MaxCalls
        <4>1. attempt' = 0 /\ asked' = 0 /\ calls' = 0
          BY DEF Restart, NewProcess
        <4>. QED
          BY <4>1, DataVolumeAssumption, HasUsers
      <3>. QED
        BY <3>1, <3>2, <3>3 DEF CallTypes
  <2>. QED
    BY <2>1, <2>2, <2>3, <2>4, Types, PTL
<1>2. DiskSound' /\ StepsSound'
  BY DataVolumeAssumption, HasUsers DEF Restart, NewProcess, NewDat, NewVals, NoCall, Flag, Op,
      disk_vars, kernel_vars, IInv, TypeOK, DiskSound, StepsSound, FlagsSound, AskingSound,
      Formatting, Encrypted
<1>3. FlagsSound'
  BY DataVolumeAssumption, HasUsers DEF Restart, NewProcess, NewDat, NewVals, NoCall, Flag, Op,
      disk_vars, kernel_vars, IInv, TypeOK, DiskSound, StepsSound, FlagsSound, Formatting
<1>4. FormatSound'
  BY DataVolumeAssumption, HasUsers DEF Restart, NewProcess, NewDat, NewVals, NoCall, Flag, Op,
      disk_vars, kernel_vars, IInv, TypeOK, FormatSound, StepsSound, DiskSound, Formatting
<1>5. Listed'
  BY DataVolumeAssumption, HasUsers DEF Restart, NewProcess, NewDat, NewVals, NoCall, Flag, Op,
      disk_vars, kernel_vars, IInv, Listed
<1>6. AskingSound'
  <2>1. pc' = "start" /\ vals' = NewVals
    BY DEF Restart, NewProcess
  <2>2. vals'.fbe = 0
    BY <2>1 DEF NewVals
  <2>. QED
    BY <2>1, <2>2 DEF AskingSound, StartingUp
<1>. QED
  BY <1>1, <1>2, <1>3, <1>4, <1>5, <1>6 DEF IInv

LEMMA StartStep == ASSUME IInv, Start PROVE IInv'
<1>0. IInv /\ VolumeTypes /\ ListTypes /\ FlagTypes /\ CallTypes
  BY Types DEF IInv
<1>1. TypeOK'
  <2>1. VolumeTypes'
    BY <1>0 DEF Start, UnMount, UnMounted, disk_vars, recovery_vars, Goto, VolumeTypes, IInv,
        StepsSound, Formatting
  <2>2. ListTypes'
    BY <1>0 DEF Start, UnMount, UnMounted, disk_vars, recovery_vars, Goto, ListTypes
  <2>3. FlagTypes'
    BY <1>0 DEF Start, UnMount, UnMounted, disk_vars, recovery_vars, Goto, FlagTypes, DatType,
        ValsType, Flag
  <2>4. CallTypes'
    BY <1>0 DEF Start, UnMount, UnMounted, disk_vars, recovery_vars, Goto, CallTypes, Step, Op
  <2>. QED
    BY <2>1, <2>2, <2>3, <2>4, Types, PTL
<1>2. DiskSound' /\ StepsSound'
  BY DEF Start, UnMount, UnMounted, disk_vars, recovery_vars, Goto, IInv, TypeOK, DiskSound,
      StepsSound, FlagsSound, AskingSound, Formatting, Encrypted
<1>3. FlagsSound'
  BY DEF Start, UnMount, UnMounted, disk_vars, recovery_vars, Goto, IInv, TypeOK, DiskSound,
      StepsSound, FlagsSound, Formatting
<1>4. FormatSound'
  BY DEF Start, UnMount, UnMounted, disk_vars, recovery_vars, Goto, IInv, TypeOK, FormatSound,
      StepsSound, DiskSound, Formatting
<1>5. Listed'
  BY DEF Start, UnMount, UnMounted, disk_vars, recovery_vars, Goto, IInv, Listed
<1>6. AskingSound'
  BY DEF Start, UnMount, UnMounted, disk_vars, recovery_vars, Goto, IInv, TypeOK, Listed,
      AskingSound, FlagsSound, StepsSound, StartingUp, Formatting, Encrypted
<1>. QED
  BY <1>1, <1>2, <1>3, <1>4, <1>5, <1>6 DEF IInv

LEMMA SetupMappedStep == ASSUME IInv, SetupMapped PROVE IInv'
<1>0. IInv /\ VolumeTypes /\ ListTypes /\ FlagTypes /\ CallTypes
  BY Types DEF IInv
<1>1. TypeOK'
  <2>1. VolumeTypes'
    BY <1>0 DEF SetupMapped, FBE_Status, FBE_Value, disk_vars, kernel_vars, Goto, VolumeTypes,
        IInv, StepsSound, Formatting
  <2>2. ListTypes'
    BY <1>0 DEF SetupMapped, FBE_Status, FBE_Value, disk_vars, kernel_vars, Goto, ListTypes
  <2>3. FlagTypes'
      <3>1. dat' \in DatType
        BY <1>0, Statused DEF SetupMapped, DatType
      <3>2. vals' \in ValsType
        BY <1>0 DEF SetupMapped, FBE_Status, FBE_Value, disk_vars, kernel_vars, Goto, FlagTypes,
            DatType, ValsType, Flag
      <3>3. erased' \subseteq {"data", "metadata"}
        BY <1>0 DEF SetupMapped, FlagTypes
      <3>. QED
        BY <3>1, <3>2, <3>3 DEF FlagTypes
  <2>4. CallTypes'
    BY <1>0 DEF SetupMapped, FBE_Status, FBE_Value, disk_vars, kernel_vars, Goto, CallTypes,
        Step, Op
  <2>. QED
    BY <2>1, <2>2, <2>3, <2>4, Types, PTL
<1>2. DiskSound' /\ StepsSound'
  BY DEF SetupMapped, FBE_Status, FBE_Value, disk_vars, kernel_vars, Goto, IInv, TypeOK,
      DiskSound, StepsSound, FlagsSound, AskingSound, Formatting, Encrypted
<1>3. FlagsSound'
  BY DEF SetupMapped, FBE_Status, FBE_Value, disk_vars, kernel_vars, Goto, IInv, TypeOK,
      DiskSound, StepsSound, FlagsSound, Formatting
<1>4. FormatSound'
  BY DEF SetupMapped, FBE_Status, FBE_Value, disk_vars, kernel_vars, Goto, IInv, TypeOK,
      FormatSound, StepsSound, DiskSound, Formatting
<1>5. Listed'
  BY DEF SetupMapped, FBE_Status, FBE_Value, disk_vars, kernel_vars, Goto, IInv, Listed
<1>6. AskingSound'
  BY DEF SetupMapped, FBE_Status, FBE_Value, disk_vars, kernel_vars, Goto, IInv, TypeOK, Listed,
      AskingSound, FlagsSound, StepsSound, StartingUp, Formatting, Encrypted
<1>. QED
  BY <1>1, <1>2, <1>3, <1>4, <1>5, <1>6 DEF IInv

LEMMA SetupPlainStep == ASSUME IInv, NEW ok \in BOOLEAN, SetupPlain(ok) PROVE IInv'
<1>0. IInv /\ VolumeTypes /\ ListTypes /\ FlagTypes /\ CallTypes
  BY Types DEF IInv
<1>1. TypeOK'
  <2>1. VolumeTypes'
    BY <1>0 DEF SetupPlain, FBE_Status, FBE_Value, Mount, Mountable, Actual_Block_Device,
        disk_vars, Goto, VolumeTypes, IInv, StepsSound, Formatting
  <2>2. ListTypes'
    BY <1>0 DEF SetupPlain, FBE_Status, FBE_Value, Mount, Mountable, Actual_Block_Device,
        disk_vars, Goto, ListTypes
  <2>3. FlagTypes'
      <3>1. dat' \in DatType
        BY <1>0, Statused DEF SetupPlain, DatType, VolumeTypes, FlagTypes
      <3>2. vals' \in ValsType
        BY <1>0 DEF SetupPlain, FBE_Status, FBE_Value, Mount, Mountable, Actual_Block_Device,
            disk_vars, Goto, FlagTypes, DatType, ValsType, Flag
      <3>3. erased' \subseteq {"data", "metadata"}
        BY <1>0 DEF SetupPlain, FlagTypes
      <3>. QED
        BY <3>1, <3>2, <3>3 DEF FlagTypes
  <2>4. CallTypes'
    BY <1>0 DEF SetupPlain, FBE_Status, FBE_Value, Mount, Mountable, Actual_Block_Device,
        disk_vars, Goto, CallTypes, Step, Op
  <2>. QED
    BY <2>1, <2>2, <2>3, <2>4, Types, PTL
<1>2. DiskSound' /\ StepsSound'
  BY DEF SetupPlain, FBE_Status, FBE_Value, Mount, Mountable, Actual_Block_Device, disk_vars,
      Goto, IInv, TypeOK, DiskSound, StepsSound, FlagsSound, AskingSound, Formatting, Encrypted
<1>3. FlagsSound'
  BY DEF SetupPlain, FBE_Status, FBE_Value, Mount, Mountable, Actual_Block_Device, disk_vars,
      Goto, IInv, TypeOK, DiskSound, StepsSound, FlagsSound, Formatting
<1>4. FormatSound'
  BY DEF SetupPlain, FBE_Status, FBE_Value, Mount, Mountable, Actual_Block_Device, disk_vars,
      Goto, IInv, TypeOK, FormatSound, StepsSound, DiskSound, Formatting
<1>5. Listed'
  BY DEF SetupPlain, FBE_Status, FBE_Value, Mount, Mountable, Actual_Block_Device, disk_vars,
      Goto, IInv, Listed
<1>6. AskingSound'
  BY DEF SetupPlain, FBE_Status, FBE_Value, Mount, Mountable, Actual_Block_Device, disk_vars,
      Goto, IInv, TypeOK, Listed, AskingSound, FlagsSound, StepsSound, StartingUp, Formatting,
      Encrypted
<1>. QED
  BY <1>1, <1>2, <1>3, <1>4, <1>5, <1>6 DEF IInv

LEMMA SetupMediaStep == ASSUME IInv, NEW ok \in BOOLEAN, SetupMedia(ok) PROVE IInv'
<1>0. IInv /\ VolumeTypes /\ ListTypes /\ FlagTypes /\ CallTypes
  BY Types DEF IInv
<1>1. TypeOK'
  <2>1. VolumeTypes'
    <3>1. CASE ok
      BY <1>0, <3>1 DEF SetupMedia, UnMounted, Mount, Mountable, Actual_Block_Device, disk_vars,
          Goto, VolumeTypes, IInv, StepsSound, Formatting
    <3>2. CASE ~ ok
      BY <1>0, <3>2 DEF SetupMedia, UnMounted, Mount, Mountable, Actual_Block_Device, disk_vars,
          Goto, VolumeTypes, IInv, StepsSound, Formatting
    <3>. QED
      BY <3>1, <3>2
  <2>2. ListTypes'
    BY <1>0 DEF SetupMedia, UnMounted, Mount, Mountable, Actual_Block_Device, disk_vars, Goto,
        ListTypes
  <2>3. FlagTypes'
    BY <1>0 DEF SetupMedia, UnMounted, Mount, Mountable, Actual_Block_Device, disk_vars, Goto,
        FlagTypes, DatType, ValsType, Flag
  <2>4. CallTypes'
    BY <1>0 DEF SetupMedia, UnMounted, Mount, Mountable, Actual_Block_Device, disk_vars, Goto,
        CallTypes, Step, Op
  <2>. QED
    BY <2>1, <2>2, <2>3, <2>4, Types, PTL
<1>2. DiskSound' /\ StepsSound'
  BY DEF SetupMedia, UnMounted, Mount, Mountable, Actual_Block_Device, disk_vars, Goto, IInv,
      TypeOK, DiskSound, StepsSound, FlagsSound, AskingSound, Formatting, Encrypted
<1>3. FlagsSound'
  BY DEF SetupMedia, UnMounted, Mount, Mountable, Actual_Block_Device, disk_vars, Goto, IInv,
      TypeOK, DiskSound, StepsSound, FlagsSound, Formatting
<1>4. FormatSound'
  BY DEF SetupMedia, UnMounted, Mount, Mountable, Actual_Block_Device, disk_vars, Goto, IInv,
      TypeOK, FormatSound, StepsSound, DiskSound, Formatting
<1>5. Listed'
  BY DEF SetupMedia, UnMounted, Mount, Mountable, Actual_Block_Device, disk_vars, Goto, IInv,
      Listed
<1>6. AskingSound'
  BY DEF SetupMedia, UnMounted, Mount, Mountable, Actual_Block_Device, disk_vars, Goto, IInv,
      TypeOK, Listed, AskingSound, FlagsSound, StepsSound, StartingUp, Formatting, Encrypted
<1>. QED
  BY <1>1, <1>2, <1>3, <1>4, <1>5, <1>6 DEF IInv

LEMMA Decrypt_DataStep == ASSUME IInv, Decrypt_Data PROVE IInv'
<1>0. IInv /\ VolumeTypes /\ ListTypes /\ FlagTypes /\ CallTypes
  BY Types DEF IInv
<1>1. TypeOK'
  <2>1. VolumeTypes'
    BY <1>0, DataVolumeAssumption DEF Decrypt_Data, disk_vars, kernel_vars, Goto, VolumeTypes,
        IInv, StepsSound, Formatting
  <2>2. ListTypes'
    BY <1>0, DataVolumeAssumption DEF Decrypt_Data, disk_vars, kernel_vars, Goto, ListTypes
  <2>3. FlagTypes'
    BY <1>0, DataVolumeAssumption DEF Decrypt_Data, disk_vars, kernel_vars, Goto, FlagTypes,
        DatType, ValsType, Flag
  <2>4. CallTypes'
    BY <1>0, DataVolumeAssumption DEF Decrypt_Data, disk_vars, kernel_vars, Goto, CallTypes,
        Step, Op
  <2>. QED
    BY <2>1, <2>2, <2>3, <2>4, Types, PTL
<1>2. DiskSound' /\ StepsSound'
  BY DataVolumeAssumption DEF Decrypt_Data, disk_vars, kernel_vars, Goto, IInv, TypeOK,
      DiskSound, StepsSound, FlagsSound, AskingSound, Formatting, Encrypted
<1>3. FlagsSound'
  BY DataVolumeAssumption DEF Decrypt_Data, disk_vars, kernel_vars, Goto, IInv, TypeOK,
      DiskSound, StepsSound, FlagsSound, Formatting
<1>4. FormatSound'
  BY DataVolumeAssumption DEF Decrypt_Data, disk_vars, kernel_vars, Goto, IInv, TypeOK,
      FormatSound, StepsSound, DiskSound, Formatting
<1>5. Listed'
  BY DataVolumeAssumption DEF Decrypt_Data, disk_vars, kernel_vars, Goto, IInv, Listed
<1>6. AskingSound'
  BY DataVolumeAssumption DEF Decrypt_Data, disk_vars, kernel_vars, Goto, IInv, TypeOK, Listed,
      AskingSound, FlagsSound, StepsSound, StartingUp, Formatting, Encrypted
<1>. QED
  BY <1>1, <1>2, <1>3, <1>4, <1>5, <1>6 DEF IInv

LEMMA MetadataDecryptStep == ASSUME IInv, NEW ok \in BOOLEAN, MetadataDecrypt(ok) PROVE IInv'
<1>0. IInv /\ VolumeTypes /\ ListTypes /\ FlagTypes /\ CallTypes
  BY Types DEF IInv
<1>1. TypeOK'
  <2>1. VolumeTypes'
    BY <1>0, DataVolumeAssumption DEF MetadataDecrypt, ReadKey, CreateDevice, disk_vars, Goto,
        VolumeTypes, IInv, StepsSound, Formatting
  <2>2. ListTypes'
    BY <1>0, DataVolumeAssumption DEF MetadataDecrypt, ReadKey, CreateDevice, disk_vars, Goto,
        ListTypes
  <2>3. FlagTypes'
    <3>1. /\ vals' = vals /\ erased' = erased
          /\ \/ dat' = [dat EXCEPT !.Decrypted_Block_Device = "dm", !.Is_Decrypted = TRUE]
             \/ dat' = dat
      BY DEF MetadataDecrypt
    <3>2. dat' \in DatType
      BY <1>0, <3>1 DEF FlagTypes, DatType
    <3>. QED
      BY <1>0, <3>1, <3>2 DEF FlagTypes
  <2>4. CallTypes'
    BY <1>0, DataVolumeAssumption DEF MetadataDecrypt, ReadKey, CreateDevice, disk_vars, Goto,
        CallTypes, Step, Op
  <2>. QED
    BY <2>1, <2>2, <2>3, <2>4, Types, PTL
<1>2. DiskSound' /\ StepsSound'
  BY DataVolumeAssumption DEF MetadataDecrypt, ReadKey, CreateDevice, disk_vars, Goto, IInv,
      TypeOK, DiskSound, StepsSound, FlagsSound, AskingSound, Formatting, Encrypted
<1>3. FlagsSound'
  BY DataVolumeAssumption DEF MetadataDecrypt, ReadKey, CreateDevice, disk_vars, Goto, IInv,
      TypeOK, DiskSound, StepsSound, FlagsSound, Formatting
<1>4. FormatSound'
  BY DataVolumeAssumption DEF MetadataDecrypt, ReadKey, CreateDevice, disk_vars, Goto, IInv,
      TypeOK, FormatSound, StepsSound, DiskSound, Formatting
<1>5. Listed'
  BY DataVolumeAssumption DEF MetadataDecrypt, ReadKey, CreateDevice, disk_vars, Goto, IInv,
      Listed
<1>6. AskingSound'
  BY DataVolumeAssumption DEF MetadataDecrypt, ReadKey, CreateDevice, disk_vars, Goto, IInv,
      TypeOK, Listed, AskingSound, FlagsSound, StepsSound, StartingUp, Formatting, Encrypted
<1>. QED
  BY <1>1, <1>2, <1>3, <1>4, <1>5, <1>6 DEF IInv

LEMMA MountMappedStep == ASSUME IInv, NEW ok \in BOOLEAN, MountMapped(ok) PROVE IInv'
<1>0. IInv /\ VolumeTypes /\ ListTypes /\ FlagTypes /\ CallTypes
  BY Types DEF IInv
<1>1. TypeOK'
  <2>1. VolumeTypes'
    BY <1>0 DEF MountMapped, Mount, Mountable, Actual_Block_Device, disk_vars, recovery_vars,
        Goto, VolumeTypes, IInv, StepsSound, Formatting
  <2>2. ListTypes'
    BY <1>0 DEF MountMapped, Mount, Mountable, Actual_Block_Device, disk_vars, recovery_vars,
        Goto, ListTypes
  <2>3. FlagTypes'
    BY <1>0 DEF MountMapped, Mount, Mountable, Actual_Block_Device, disk_vars, recovery_vars,
        Goto, FlagTypes, DatType, ValsType, Flag
  <2>4. CallTypes'
    BY <1>0 DEF MountMapped, Mount, Mountable, Actual_Block_Device, disk_vars, recovery_vars,
        Goto, CallTypes, Step, Op
  <2>. QED
    BY <2>1, <2>2, <2>3, <2>4, Types, PTL
<1>2. DiskSound' /\ StepsSound'
  BY DEF MountMapped, Mount, Mountable, Actual_Block_Device, disk_vars, recovery_vars, Goto,
      IInv, TypeOK, DiskSound, StepsSound, FlagsSound, AskingSound, Formatting, Encrypted
<1>3. FlagsSound'
  BY DEF MountMapped, Mount, Mountable, Actual_Block_Device, disk_vars, recovery_vars, Goto,
      IInv, TypeOK, DiskSound, StepsSound, FlagsSound, Formatting
<1>4. FormatSound'
  BY DEF MountMapped, Mount, Mountable, Actual_Block_Device, disk_vars, recovery_vars, Goto,
      IInv, TypeOK, FormatSound, StepsSound, DiskSound, Formatting
<1>5. Listed'
  BY DEF MountMapped, Mount, Mountable, Actual_Block_Device, disk_vars, recovery_vars, Goto,
      IInv, Listed
<1>6. AskingSound'
  BY DEF MountMapped, Mount, Mountable, Actual_Block_Device, disk_vars, recovery_vars, Goto,
      IInv, TypeOK, Listed, AskingSound, FlagsSound, StepsSound, StartingUp, Formatting,
      Encrypted
<1>. QED
  BY <1>1, <1>2, <1>3, <1>4, <1>5, <1>6 DEF IInv

LEMMA DefaultPasswordStep == ASSUME IInv, DefaultPassword PROVE IInv'
<1>0. IInv /\ VolumeTypes /\ ListTypes /\ FlagTypes /\ CallTypes
  BY Types DEF IInv
<1>1. TypeOK'
  <2>1. VolumeTypes'
    BY <1>0, HasUsers DEF DefaultPassword, disk_vars, kernel_vars, recovery_vars, VolumeTypes,
        IInv, StepsSound, Formatting
  <2>2. ListTypes'
    BY <1>0, HasUsers DEF DefaultPassword, disk_vars, kernel_vars, recovery_vars, ListTypes
  <2>3. FlagTypes'
    BY <1>0, HasUsers DEF DefaultPassword, disk_vars, kernel_vars, recovery_vars, FlagTypes,
        DatType, ValsType, Flag
  <2>4. CallTypes'
    BY <1>0, HasUsers DEF DefaultPassword, disk_vars, kernel_vars, recovery_vars, CallTypes,
        Step, Op
  <2>. QED
    BY <2>1, <2>2, <2>3, <2>4, Types, PTL
<1>2. DiskSound' /\ StepsSound'
  BY HasUsers DEF DefaultPassword, disk_vars, kernel_vars, recovery_vars, IInv, TypeOK,
      DiskSound, StepsSound, FlagsSound, AskingSound, Formatting, Encrypted
<1>3. FlagsSound'
  BY HasUsers DEF DefaultPassword, disk_vars, kernel_vars, recovery_vars, IInv, TypeOK,
      DiskSound, StepsSound, FlagsSound, Formatting
<1>4. FormatSound'
  BY HasUsers DEF DefaultPassword, disk_vars, kernel_vars, recovery_vars, IInv, TypeOK,
      FormatSound, StepsSound, DiskSound, Formatting
<1>5. Listed'
  BY HasUsers DEF DefaultPassword, disk_vars, kernel_vars, recovery_vars, IInv, Listed
<1>6. AskingSound'
  BY HasUsers DEF DefaultPassword, disk_vars, kernel_vars, recovery_vars, IInv, TypeOK, Listed,
      AskingSound, FlagsSound, StepsSound, StartingUp, Formatting, Encrypted
<1>. QED
  BY <1>1, <1>2, <1>3, <1>4, <1>5, <1>6 DEF IInv

LEMMA AskUserStep == ASSUME IInv, AskUser PROVE IInv'
<1>0. IInv /\ VolumeTypes /\ ListTypes /\ FlagTypes /\ CallTypes
  BY Types DEF IInv
<1>1. TypeOK'
  <2>1. VolumeTypes'
    BY <1>0, DataVolumeAssumption DEF AskUser, disk_vars, kernel_vars, recovery_vars, Goto,
        Call, VolumeTypes, IInv, StepsSound, Formatting
  <2>2. ListTypes'
    BY <1>0, DataVolumeAssumption DEF AskUser, disk_vars, kernel_vars, recovery_vars, Goto,
        Call, ListTypes
  <2>3. FlagTypes'
    BY <1>0, DataVolumeAssumption DEF AskUser, disk_vars, kernel_vars, recovery_vars, Goto,
        Call, FlagTypes, DatType, ValsType, Flag
  <2>4. CallTypes'
    BY <1>0, DataVolumeAssumption DEF AskUser, disk_vars, kernel_vars, recovery_vars, Goto,
        Call, CallTypes, Step, Op
  <2>. QED
    BY <2>1, <2>2, <2>3, <2>4, Types, PTL
<1>2. DiskSound' /\ StepsSound'
  BY DataVolumeAssumption DEF AskUser, disk_vars, kernel_vars, recovery_vars, Goto, Call, IInv,
      TypeOK, DiskSound, StepsSound, FlagsSound, AskingSound, Formatting, Encrypted
<1>3. FlagsSound'
  BY DataVolumeAssumption DEF AskUser, disk_vars, kernel_vars, recovery_vars, Goto, Call, IInv,
      TypeOK, DiskSound, StepsSound, FlagsSound, Formatting
<1>4. FormatSound'
  BY DataVolumeAssumption DEF AskUser, disk_vars, kernel_vars, recovery_vars, Goto, Call, IInv,
      TypeOK, FormatSound, StepsSound, DiskSound, Formatting
<1>5. Listed'
  BY DataVolumeAssumption DEF AskUser, disk_vars, kernel_vars, recovery_vars, Goto, Call, IInv,
      Listed
<1>6. AskingSound'
  BY DataVolumeAssumption DEF AskUser, disk_vars, kernel_vars, recovery_vars, Goto, Call, IInv,
      TypeOK, Listed, AskingSound, FlagsSound, StepsSound, StartingUp, Formatting, Encrypted
<1>. QED
  BY <1>1, <1>2, <1>3, <1>4, <1>5, <1>6 DEF IInv

LEMMA Decrypt_DeviceStep == ASSUME IInv, NEW ok \in BOOLEAN, Decrypt_Device(ok) PROVE IInv'
<1>0. IInv /\ VolumeTypes /\ ListTypes /\ FlagTypes /\ CallTypes
  BY Types DEF IInv
<1>1. TypeOK'
  <2>1. VolumeTypes'
    <3>1. /\ UNCHANGED <<branch, metadata, disk, media, keydir, unencrypted, dm, prop, ce>>
          /\ UNCHANGED <<mounted, de>> \/ Mount(ok)
      BY DEF Decrypt_Device, disk_vars
    <3>2. CASE UNCHANGED <<mounted, de>>
      BY <1>0, <3>1, <3>2 DEF VolumeTypes
    <3>3. CASE Mount(ok)
      BY <1>0, <3>1, <3>3, Mounts DEF VolumeTypes
    <3>. QED
      BY <3>1, <3>2, <3>3
  <2>2. ListTypes'
    BY <1>0 DEF Decrypt_Device, DecryptReturns, Mount, Mountable, Actual_Block_Device,
        disk_vars, Goto, Return, ListTypes
  <2>3. FlagTypes'
    BY <1>0 DEF Decrypt_Device, DecryptReturns, Mount, Mountable, Actual_Block_Device,
        disk_vars, Goto, Return, FlagTypes, DatType, ValsType, Flag
  <2>4. CallTypes'
      <3>1. pc' \in Step
        BY <1>0 DEF Decrypt_Device, DecryptReturns, Mount, Mountable, Actual_Block_Device,
            disk_vars, Goto, Return, CallTypes, Step, Op
      <3>2. ret' \in [op : Op, ok : BOOLEAN]
        <4>1. ret' = ret \/ ret' = [op |-> "decrypt", ok |-> FALSE]
          BY DEF Decrypt_Device, DecryptReturns, Return
        <4>2. ret \in [op : Op, ok : BOOLEAN]
          BY <1>0 DEF CallTypes
        <4>3. \A b \in BOOLEAN : [op |-> "decrypt", ok |-> b] \in [op : Op, ok : BOOLEAN]
          BY DEF Op
        <4>. QED
          BY <4>1, <4>2, <4>3
      <3>3. attempt' \in 0 .. Attempts /\ asked' \in Users /\ calls' \in 0 .. MaxCalls
        BY <1>0 DEF Decrypt_Device, DecryptReturns, Mount, Mountable, Actual_Block_Device,
            disk_vars, Goto, Return, CallTypes, Step, Op
      <3>. QED
        BY <3>1, <3>2, <3>3 DEF CallTypes
  <2>. QED
    BY <2>1, <2>2, <2>3, <2>4, Types, PTL
<1>2. DiskSound' /\ StepsSound'
  BY DEF Decrypt_Device, DecryptReturns, Mount, Mountable, Actual_Block_Device, disk_vars, Goto,
      Return, IInv, TypeOK, DiskSound, StepsSound, FlagsSound, AskingSound, Formatting,
      Encrypted
<1>3. FlagsSound'
  BY DEF Decrypt_Device, DecryptReturns, Mount, Mountable, Actual_Block_Device, disk_vars, Goto,
      Return, IInv, TypeOK, DiskSound, StepsSound, FlagsSound, Formatting
<1>4. FormatSound'
  <2>1. /\ ret' = ret \/ ret' = [op |-> "decrypt", ok |-> FALSE]
        /\ pc \notin Formatting \cup {"wipekeys"} /\ UNCHANGED <<disk, keydir, erased>>
    BY DEF Decrypt_Device, DecryptReturns, Return, disk_vars, Formatting
  <2>. QED
    BY <1>0, <2>1 DEF IInv, FormatSound
<1>5. Listed'
  BY DEF Decrypt_Device, DecryptReturns, Mount, Mountable, Actual_Block_Device, disk_vars, Goto,
      Return, IInv, Listed
<1>6. AskingSound'
  <2>0. /\ vals' = vals /\ UNCHANGED <<disk, unencrypted, decrypt, Users_List, dat, erased>>
        /\ pc' \in {"auto_user", "user", "idle"} /\ pc \in {"ask", "auto"}
        /\ pc' = "auto_user" => pc = "auto" /\ vals.fbe # 0
    BY DEF Decrypt_Device, DecryptReturns, Return, Goto, disk_vars
  <2>1. vals.fbe \in {0, 1}
    BY <1>0 DEF FlagTypes, ValsType, Flag
  <2>. QED
    BY <2>0, <2>1 DEF IInv, AskingSound, StartingUp, Formatting, Encrypted
<1>. QED
  BY <1>1, <1>2, <1>3, <1>4, <1>5, <1>6 DEF IInv

LEMMA NoNeedStep == ASSUME IInv, NoNeed PROVE IInv'
<1>0. IInv /\ VolumeTypes /\ ListTypes /\ FlagTypes /\ CallTypes
  BY Types DEF IInv
<1>1. TypeOK'
  <2>1. VolumeTypes'
    BY <1>0, HasUsers DEF NoNeed, Need, DecryptReturns, disk_vars, kernel_vars, Return,
        VolumeTypes, IInv, StepsSound, Formatting
  <2>2. ListTypes'
    BY <1>0, HasUsers DEF NoNeed, Need, DecryptReturns, disk_vars, kernel_vars, Return,
        ListTypes
  <2>3. FlagTypes'
    BY <1>0, HasUsers DEF NoNeed, Need, DecryptReturns, disk_vars, kernel_vars, Return,
        FlagTypes, DatType, ValsType, Flag
  <2>4. CallTypes'
    BY <1>0, HasUsers DEF NoNeed, Need, DecryptReturns, disk_vars, kernel_vars, Return,
        CallTypes, Step, Op
  <2>. QED
    BY <2>1, <2>2, <2>3, <2>4, Types, PTL
<1>2. DiskSound' /\ StepsSound'
  BY HasUsers DEF NoNeed, Need, DecryptReturns, disk_vars, kernel_vars, Return, IInv, TypeOK,
      DiskSound, StepsSound, FlagsSound, AskingSound, Formatting, Encrypted
<1>3. FlagsSound'
  BY HasUsers DEF NoNeed, Need, DecryptReturns, disk_vars, kernel_vars, Return, IInv, TypeOK,
      DiskSound, StepsSound, FlagsSound, Formatting
<1>4. FormatSound'
  BY HasUsers DEF NoNeed, Need, DecryptReturns, disk_vars, kernel_vars, Return, IInv, TypeOK,
      FormatSound, StepsSound, DiskSound, Formatting
<1>5. Listed'
  BY HasUsers DEF NoNeed, Need, DecryptReturns, disk_vars, kernel_vars, Return, IInv, Listed
<1>6. AskingSound'
  BY HasUsers DEF NoNeed, Need, DecryptReturns, disk_vars, kernel_vars, Return, IInv, TypeOK,
      Listed, AskingSound, FlagsSound, StepsSound, StartingUp, Formatting, Encrypted
<1>. QED
  BY <1>1, <1>2, <1>3, <1>4, <1>5, <1>6 DEF IInv

LEMMA WrongPasswordStep == ASSUME IInv, WrongPassword PROVE IInv'
<1>0. IInv /\ VolumeTypes /\ ListTypes /\ FlagTypes /\ CallTypes
  BY Types DEF IInv
<1>1. TypeOK'
  <2>1. VolumeTypes'
    BY <1>0 DEF WrongPassword, Need, DecryptReturns, disk_vars, kernel_vars, Return,
        VolumeTypes, IInv, StepsSound, Formatting
  <2>2. ListTypes'
    BY <1>0 DEF WrongPassword, Need, DecryptReturns, disk_vars, kernel_vars, Return, ListTypes
  <2>3. FlagTypes'
    BY <1>0 DEF WrongPassword, Need, DecryptReturns, disk_vars, kernel_vars, Return, FlagTypes,
        DatType, ValsType, Flag
  <2>4. CallTypes'
    BY <1>0 DEF WrongPassword, Need, DecryptReturns, disk_vars, kernel_vars, Return, CallTypes,
        Step, Op
  <2>. QED
    BY <2>1, <2>2, <2>3, <2>4, Types, PTL
<1>2. DiskSound' /\ StepsSound'
  BY DEF WrongPassword, Need, DecryptReturns, disk_vars, kernel_vars, Return, IInv, TypeOK,
      DiskSound, StepsSound, FlagsSound, AskingSound, Formatting, Encrypted
<1>3. FlagsSound'
  BY DEF WrongPassword, Need, DecryptReturns, disk_vars, kernel_vars, Return, IInv, TypeOK,
      DiskSound, StepsSound, FlagsSound, Formatting
<1>4. FormatSound'
  BY DEF WrongPassword, Need, DecryptReturns, disk_vars, kernel_vars, Return, IInv, TypeOK,
      FormatSound, StepsSound, DiskSound, Formatting
<1>5. Listed'
  BY DEF WrongPassword, Need, DecryptReturns, disk_vars, kernel_vars, Return, IInv, Listed
<1>6. AskingSound'
  BY DEF WrongPassword, Need, DecryptReturns, disk_vars, kernel_vars, Return, IInv, TypeOK,
      Listed, AskingSound, FlagsSound, StepsSound, StartingUp, Formatting, Encrypted
<1>. QED
  BY <1>1, <1>2, <1>3, <1>4, <1>5, <1>6 DEF IInv

LEMMA MountPageStep == ASSUME IInv, NEW ok \in BOOLEAN, MountPage(ok) PROVE IInv'
<1>0. IInv /\ VolumeTypes /\ ListTypes /\ FlagTypes /\ CallTypes
  BY Types DEF IInv
<1>1. TypeOK'
  <2>1. VolumeTypes'
    <3>1. /\ UNCHANGED <<branch, metadata, disk, media, keydir, unencrypted, dm, prop, ce>>
          /\ Mount(ok)
      BY DEF MountPage, disk_vars
    <3>. QED
      BY <1>0, <3>1, Mounts DEF VolumeTypes
  <2>2. ListTypes'
    BY <1>0, DataVolumeAssumption DEF MountPage, Mount, Mountable, Actual_Block_Device,
        disk_vars, recovery_vars, Call, ListTypes
  <2>3. FlagTypes'
    BY <1>0, DataVolumeAssumption DEF MountPage, Mount, Mountable, Actual_Block_Device,
        disk_vars, recovery_vars, Call, FlagTypes, DatType, ValsType, Flag
  <2>4. CallTypes'
    BY <1>0, DataVolumeAssumption DEF MountPage, Mount, Mountable, Actual_Block_Device,
        disk_vars, recovery_vars, Call, CallTypes, Step, Op
  <2>. QED
    BY <2>1, <2>2, <2>3, <2>4, Types, PTL
<1>2. DiskSound' /\ StepsSound'
  BY DataVolumeAssumption DEF MountPage, Mount, Mountable, Actual_Block_Device, disk_vars,
      recovery_vars, Call, IInv, TypeOK, DiskSound, StepsSound, FlagsSound, AskingSound,
      Formatting, Encrypted
<1>3. FlagsSound'
  BY DataVolumeAssumption DEF MountPage, Mount, Mountable, Actual_Block_Device, disk_vars,
      recovery_vars, Call, IInv, TypeOK, DiskSound, StepsSound, FlagsSound, Formatting
<1>4. FormatSound'
  BY DataVolumeAssumption DEF MountPage, Mount, Mountable, Actual_Block_Device, disk_vars,
      recovery_vars, Call, IInv, TypeOK, FormatSound, StepsSound, DiskSound, Formatting
<1>5. Listed'
  BY DataVolumeAssumption DEF MountPage, Mount, Mountable, Actual_Block_Device, disk_vars,
      recovery_vars, Call, IInv, Listed
<1>6. AskingSound'
  BY DataVolumeAssumption DEF MountPage, Mount, Mountable, Actual_Block_Device, disk_vars,
      recovery_vars, Call, IInv, TypeOK, Listed, AskingSound, FlagsSound, StepsSound,
      StartingUp, Formatting, Encrypted
<1>. QED
  BY <1>1, <1>2, <1>3, <1>4, <1>5, <1>6 DEF IInv

LEMMA UnMountPageStep == ASSUME IInv, NEW ok \in BOOLEAN, UnMountPage(ok) PROVE IInv'
<1>0. IInv /\ VolumeTypes /\ ListTypes /\ FlagTypes /\ CallTypes
  BY Types DEF IInv
<1>1. TypeOK'
  <2>1. VolumeTypes'
    BY <1>0, DataVolumeAssumption DEF UnMountPage, UnMount, UnMounted, disk_vars, recovery_vars,
        Call, VolumeTypes, IInv, StepsSound, Formatting
  <2>2. ListTypes'
    BY <1>0, DataVolumeAssumption DEF UnMountPage, UnMount, UnMounted, disk_vars, recovery_vars,
        Call, ListTypes
  <2>3. FlagTypes'
    BY <1>0, DataVolumeAssumption DEF UnMountPage, UnMount, UnMounted, disk_vars, recovery_vars,
        Call, FlagTypes, DatType, ValsType, Flag
  <2>4. CallTypes'
    BY <1>0, DataVolumeAssumption DEF UnMountPage, UnMount, UnMounted, disk_vars, recovery_vars,
        Call, CallTypes, Step, Op
  <2>. QED
    BY <2>1, <2>2, <2>3, <2>4, Types, PTL
<1>2. DiskSound' /\ StepsSound'
  BY DataVolumeAssumption DEF UnMountPage, UnMount, UnMounted, disk_vars, recovery_vars, Call,
      IInv, TypeOK, DiskSound, StepsSound, FlagsSound, AskingSound, Formatting, Encrypted
<1>3. FlagsSound'
  BY DataVolumeAssumption DEF UnMountPage, UnMount, UnMounted, disk_vars, recovery_vars, Call,
      IInv, TypeOK, DiskSound, StepsSound, FlagsSound, Formatting
<1>4. FormatSound'
  BY DataVolumeAssumption DEF UnMountPage, UnMount, UnMounted, disk_vars, recovery_vars, Call,
      IInv, TypeOK, FormatSound, StepsSound, DiskSound, Formatting
<1>5. Listed'
  BY DataVolumeAssumption DEF UnMountPage, UnMount, UnMounted, disk_vars, recovery_vars, Call,
      IInv, Listed
<1>6. AskingSound'
  BY DataVolumeAssumption DEF UnMountPage, UnMount, UnMounted, disk_vars, recovery_vars, Call,
      IInv, TypeOK, Listed, AskingSound, FlagsSound, StepsSound, StartingUp, Formatting,
      Encrypted
<1>. QED
  BY <1>1, <1>2, <1>3, <1>4, <1>5, <1>6 DEF IInv

LEMMA RepairStep == ASSUME IInv, NEW ok \in BOOLEAN, Repair(ok) PROVE IInv'
<1>0. IInv /\ VolumeTypes /\ ListTypes /\ FlagTypes /\ CallTypes
  BY Types DEF IInv
<1>1. TypeOK'
  <2>1. VolumeTypes'
    BY <1>0, DataVolumeAssumption DEF Repair, UnMount, UnMounted, disk_vars, recovery_vars,
        Call, VolumeTypes, IInv, StepsSound, Formatting
  <2>2. ListTypes'
    BY <1>0, DataVolumeAssumption DEF Repair, UnMount, UnMounted, disk_vars, recovery_vars,
        Call, ListTypes
  <2>3. FlagTypes'
    BY <1>0, DataVolumeAssumption DEF Repair, UnMount, UnMounted, disk_vars, recovery_vars,
        Call, FlagTypes, DatType, ValsType, Flag
  <2>4. CallTypes'
    BY <1>0, DataVolumeAssumption DEF Repair, UnMount, UnMounted, disk_vars, recovery_vars,
        Call, CallTypes, Step, Op
  <2>. QED
    BY <2>1, <2>2, <2>3, <2>4, Types, PTL
<1>2. DiskSound' /\ StepsSound'
  BY DataVolumeAssumption DEF Repair, UnMount, UnMounted, disk_vars, recovery_vars, Call, IInv,
      TypeOK, DiskSound, StepsSound, FlagsSound, AskingSound, Formatting, Encrypted
<1>3. FlagsSound'
  BY DataVolumeAssumption DEF Repair, UnMount, UnMounted, disk_vars, recovery_vars, Call, IInv,
      TypeOK, DiskSound, StepsSound, FlagsSound, Formatting
<1>4. FormatSound'
  BY DataVolumeAssumption DEF Repair, UnMount, UnMounted, disk_vars, recovery_vars, Call, IInv,
      TypeOK, FormatSound, StepsSound, DiskSound, Formatting
<1>5. Listed'
  BY DataVolumeAssumption DEF Repair, UnMount, UnMounted, disk_vars, recovery_vars, Call, IInv,
      Listed
<1>6. AskingSound'
  BY DataVolumeAssumption DEF Repair, UnMount, UnMounted, disk_vars, recovery_vars, Call, IInv,
      TypeOK, Listed, AskingSound, FlagsSound, StepsSound, StartingUp, Formatting, Encrypted
<1>. QED
  BY <1>1, <1>2, <1>3, <1>4, <1>5, <1>6 DEF IInv

LEMMA Factory_ResetStep == ASSUME IInv, NEW ok \in BOOLEAN, Factory_Reset(ok) PROVE IInv'
<1>0. IInv /\ VolumeTypes /\ ListTypes /\ FlagTypes /\ CallTypes
  BY Types DEF IInv
<1>1. TypeOK'
  <2>1. VolumeTypes'
    <3>1. /\ UNCHANGED <<branch, metadata, keydir, dm, prop>>
          /\ media' \in {media, FALSE} /\ unencrypted' \in {unencrypted, FALSE}
          /\ disk' \in {disk, "plain"}
      BY DEF Factory_Reset, EraseAroundMedia, Wipe_RMRF
    <3>2. \/ UnMounted
          \/ UNCHANGED <<disk, ce>> /\ \E there \in BOOLEAN : Mount(there)
      BY DEF Factory_Reset, EraseAroundMedia, Wipe_RMRF
    <3>3. CASE UnMounted
      BY <1>0, <3>1, <3>3 DEF UnMounted, VolumeTypes
    <3>4. ASSUME NEW there \in BOOLEAN, Mount(there), UNCHANGED <<disk, ce>>
          PROVE  VolumeTypes'
      BY <1>0, <3>1, <3>4, Mounts DEF VolumeTypes
    <3>. QED
      BY <3>2, <3>3, <3>4
  <2>2. ListTypes'
    BY <1>0, DataVolumeAssumption DEF Factory_Reset, KeepsMedia, EraseAroundMedia, Wipe_RMRF, UnMounted,
        Mount, Mountable, Actual_Block_Device, recovery_vars, Return, Call, ListTypes
  <2>3. FlagTypes'
    BY <1>0, DataVolumeAssumption DEF Factory_Reset, KeepsMedia, EraseAroundMedia, Wipe_RMRF, UnMounted,
        Mount, Mountable, Actual_Block_Device, recovery_vars, Return, Call, FlagTypes, DatType,
        ValsType, Flag
  <2>4. CallTypes'
    BY <1>0, DataVolumeAssumption DEF Factory_Reset, KeepsMedia, EraseAroundMedia, Wipe_RMRF, UnMounted,
        Mount, Mountable, Actual_Block_Device, recovery_vars, Return, Call, CallTypes, Step, Op
  <2>. QED
    BY <2>1, <2>2, <2>3, <2>4, Types, PTL
<1>2. DiskSound' /\ StepsSound'
  BY DataVolumeAssumption DEF Factory_Reset, KeepsMedia, EraseAroundMedia, Wipe_RMRF, UnMounted, Mount,
      Mountable, Actual_Block_Device, recovery_vars, Return, Call, IInv, TypeOK, DiskSound,
      StepsSound, FlagsSound, AskingSound, Formatting, Encrypted
<1>3. FlagsSound'
  BY DataVolumeAssumption DEF Factory_Reset, KeepsMedia, EraseAroundMedia, Wipe_RMRF, UnMounted, Mount,
      Mountable, Actual_Block_Device, recovery_vars, Return, Call, IInv, TypeOK, DiskSound,
      StepsSound, FlagsSound, Formatting
<1>4. FormatSound'
  BY DataVolumeAssumption DEF Factory_Reset, KeepsMedia, EraseAroundMedia, Wipe_RMRF, UnMounted, Mount,
      Mountable, Actual_Block_Device, recovery_vars, Return, Call, IInv, TypeOK, FormatSound,
      StepsSound, DiskSound, Formatting
<1>5. Listed'
  BY DataVolumeAssumption DEF Factory_Reset, KeepsMedia, EraseAroundMedia, Wipe_RMRF, UnMounted, Mount,
      Mountable, Actual_Block_Device, recovery_vars, Return, Call, IInv, Listed
<1>6. AskingSound'
  BY DataVolumeAssumption DEF Factory_Reset, KeepsMedia, EraseAroundMedia, Wipe_RMRF, UnMounted, Mount,
      Mountable, Actual_Block_Device, recovery_vars, Return, Call, IInv, TypeOK, Listed,
      AskingSound, FlagsSound, StepsSound, StartingUp, Formatting, Encrypted
<1>. QED
  BY <1>1, <1>2, <1>3, <1>4, <1>5, <1>6 DEF IInv

LEMMA Wipe_EncryptionStep == ASSUME IInv, NEW ok \in BOOLEAN, Wipe_Encryption(ok) PROVE IInv'
<1>0. IInv /\ VolumeTypes /\ ListTypes /\ FlagTypes /\ CallTypes
  BY Types DEF IInv
<1>1. TypeOK'
  <2>1. VolumeTypes'
    <3>1. UNCHANGED <<disk_vars, prop>> /\ dm' \in {dm, FALSE}
      BY DEF Wipe_Encryption
    <3>2. \/ mounted' = "none" /\ de' = FALSE /\ ce' = {}
          \/ UNCHANGED <<mounted, de, ce>>
      BY DEF Wipe_Encryption, UnMount, UnMounted
    <3>3. dm' \in BOOLEAN /\ dm \in BOOLEAN
      BY <1>0, <3>1 DEF VolumeTypes
    <3>4. CASE mounted' = "none" /\ de' = FALSE /\ ce' = {}
      BY <1>0, <3>1, <3>3, <3>4 DEF VolumeTypes, disk_vars
    <3>5. CASE UNCHANGED <<mounted, de, ce>>
      BY <1>0, <3>1, <3>3, <3>5 DEF VolumeTypes, disk_vars
    <3>. QED
      BY <3>2, <3>4, <3>5
  <2>2. ListTypes'
    BY <1>0, DataVolumeAssumption DEF Wipe_Encryption, UnMount, UnMounted, disk_vars, Goto,
        Return, Call, ListTypes
  <2>3. FlagTypes'
    <3>1. /\ vals' = vals /\ erased' = erased
          /\ \/ dat' = [dat EXCEPT !.Has_Data_Media = FALSE, !.Decrypted_Block_Device = "",
                                  !.Is_Decrypted = FALSE, !.Is_Encrypted = FALSE]
             \/ dat' = dat
      BY DEF Wipe_Encryption
    <3>2. dat' \in DatType
      BY <1>0, <3>1 DEF FlagTypes, DatType
    <3>. QED
      BY <1>0, <3>1, <3>2 DEF FlagTypes
  <2>4. CallTypes'
      <3>1. pc' \in Step
        BY <1>0, DataVolumeAssumption DEF Wipe_Encryption, UnMount, UnMounted, disk_vars, Goto,
            Return, Call, CallTypes, Step, Op
      <3>2. ret' \in [op : Op, ok : BOOLEAN]
        <4>1. ret' = ret \/ ret' = [op |-> "format", ok |-> FALSE]
          BY DEF Wipe_Encryption, Return
        <4>2. ret \in [op : Op, ok : BOOLEAN]
          BY <1>0 DEF CallTypes
        <4>3. \A b \in BOOLEAN : [op |-> "format", ok |-> b] \in [op : Op, ok : BOOLEAN]
          BY DEF Op
        <4>. QED
          BY <4>1, <4>2, <4>3
      <3>3. attempt' \in 0 .. Attempts /\ asked' \in Users /\ calls' \in 0 .. MaxCalls
        BY <1>0, DataVolumeAssumption DEF Wipe_Encryption, UnMount, UnMounted, disk_vars, Goto,
            Return, Call, CallTypes, Step, Op
      <3>. QED
        BY <3>1, <3>2, <3>3 DEF CallTypes
  <2>. QED
    BY <2>1, <2>2, <2>3, <2>4, Types, PTL
<1>2. DiskSound' /\ StepsSound'
  BY DataVolumeAssumption DEF Wipe_Encryption, UnMount, UnMounted, disk_vars, Goto, Return,
      Call, IInv, TypeOK, DiskSound, StepsSound, FlagsSound, AskingSound, Formatting, Encrypted
<1>3. FlagsSound'
  BY DataVolumeAssumption DEF Wipe_Encryption, UnMount, UnMounted, disk_vars, Goto, Return,
      Call, IInv, TypeOK, DiskSound, StepsSound, FlagsSound, Formatting
<1>4. FormatSound'
  <2>1. CASE ok
    BY DataVolumeAssumption, <2>1 DEF Wipe_Encryption, UnMount, UnMounted, disk_vars, Goto,
        Return, Call, IInv, TypeOK, FormatSound, StepsSound, DiskSound, Formatting
  <2>2. CASE ~ ok
    <3>1. ret' = [op |-> "format", ok |-> FALSE]
      BY <2>2 DEF Wipe_Encryption, Return
    <3>. QED
      BY <3>1 DEF FormatSound
  <2>. QED
    BY <2>1, <2>2
<1>5. Listed'
  BY DataVolumeAssumption DEF Wipe_Encryption, UnMount, UnMounted, disk_vars, Goto, Return,
      Call, IInv, Listed
<1>6. AskingSound'
  BY DataVolumeAssumption DEF Wipe_Encryption, UnMount, UnMounted, disk_vars, Goto, Return,
      Call, IInv, TypeOK, Listed, AskingSound, FlagsSound, StepsSound, StartingUp, Formatting,
      Encrypted
<1>. QED
  BY <1>1, <1>2, <1>3, <1>4, <1>5, <1>6 DEF IInv

LEMMA MkfsStep == ASSUME IInv, Mkfs PROVE IInv'
<1>0. IInv /\ VolumeTypes /\ ListTypes /\ FlagTypes /\ CallTypes
  BY Types DEF IInv
<1>1. TypeOK'
  <2>1. VolumeTypes'
    BY <1>0 DEF Mkfs, kernel_vars, recovery_vars, Goto, VolumeTypes, IInv, StepsSound,
        Formatting
  <2>2. ListTypes'
    BY <1>0 DEF Mkfs, kernel_vars, recovery_vars, Goto, ListTypes
  <2>3. FlagTypes'
    BY <1>0 DEF Mkfs, kernel_vars, recovery_vars, Goto, FlagTypes, DatType, ValsType, Flag
  <2>4. CallTypes'
    BY <1>0 DEF Mkfs, kernel_vars, recovery_vars, Goto, CallTypes, Step, Op
  <2>. QED
    BY <2>1, <2>2, <2>3, <2>4, Types, PTL
<1>2. DiskSound' /\ StepsSound'
  BY DEF Mkfs, kernel_vars, recovery_vars, Goto, IInv, TypeOK, DiskSound, StepsSound,
      FlagsSound, AskingSound, Formatting, Encrypted
<1>3. FlagsSound'
  BY DEF Mkfs, kernel_vars, recovery_vars, Goto, IInv, TypeOK, DiskSound, StepsSound,
      FlagsSound, Formatting
<1>4. FormatSound'
  BY DEF Mkfs, kernel_vars, recovery_vars, Goto, IInv, TypeOK, FormatSound, StepsSound,
      DiskSound, Formatting
<1>5. Listed'
  BY DEF Mkfs, kernel_vars, recovery_vars, Goto, IInv, Listed
<1>6. AskingSound'
  BY DEF Mkfs, kernel_vars, recovery_vars, Goto, IInv, TypeOK, Listed, AskingSound, FlagsSound,
      StepsSound, StartingUp, Formatting, Encrypted
<1>. QED
  BY <1>1, <1>2, <1>3, <1>4, <1>5, <1>6 DEF IInv

LEMMA MkfsFailsStep == ASSUME IInv, NEW ok \in BOOLEAN, MkfsFails(ok) PROVE IInv'
<1>0. IInv /\ VolumeTypes /\ ListTypes /\ FlagTypes /\ CallTypes
  BY Types DEF IInv
<1>1. TypeOK'
  <2>1. VolumeTypes'
    BY <1>0 DEF MkfsFails, RestoreMedia, Mount, Mountable, Actual_Block_Device, disk_vars,
        Return, VolumeTypes, IInv, StepsSound, Formatting
  <2>2. ListTypes'
    BY <1>0 DEF MkfsFails, RestoreMedia, Mount, Mountable, Actual_Block_Device, disk_vars,
        Return, ListTypes
  <2>3. FlagTypes'
    BY <1>0 DEF MkfsFails, RestoreMedia, Mount, Mountable, Actual_Block_Device, disk_vars,
        Return, FlagTypes, DatType, ValsType, Flag
  <2>4. CallTypes'
    BY <1>0 DEF MkfsFails, RestoreMedia, Mount, Mountable, Actual_Block_Device, disk_vars,
        Return, CallTypes, Step, Op
  <2>. QED
    BY <2>1, <2>2, <2>3, <2>4, Types, PTL
<1>2. DiskSound' /\ StepsSound'
  BY DEF MkfsFails, RestoreMedia, Mount, Mountable, Actual_Block_Device, disk_vars, Return,
      IInv, TypeOK, DiskSound, StepsSound, FlagsSound, AskingSound, Formatting, Encrypted
<1>3. FlagsSound'
  BY DEF MkfsFails, RestoreMedia, Mount, Mountable, Actual_Block_Device, disk_vars, Return,
      IInv, TypeOK, DiskSound, StepsSound, FlagsSound, Formatting
<1>4. FormatSound'
  BY DEF MkfsFails, RestoreMedia, Mount, Mountable, Actual_Block_Device, disk_vars, Return,
      IInv, TypeOK, FormatSound, StepsSound, DiskSound, Formatting
<1>5. Listed'
  BY DEF MkfsFails, RestoreMedia, Mount, Mountable, Actual_Block_Device, disk_vars, Return,
      IInv, Listed
<1>6. AskingSound'
  BY DEF MkfsFails, RestoreMedia, Mount, Mountable, Actual_Block_Device, disk_vars, Return,
      IInv, TypeOK, Listed, AskingSound, FlagsSound, StepsSound, StartingUp, Formatting,
      Encrypted
<1>. QED
  BY <1>1, <1>2, <1>3, <1>4, <1>5, <1>6 DEF IInv

LEMMA MkfsEndsStep == ASSUME IInv, MkfsEnds PROVE IInv'
<1>0. IInv /\ VolumeTypes /\ ListTypes /\ FlagTypes /\ CallTypes
  BY Types DEF IInv
<1>1. TypeOK'
  <2>1. VolumeTypes'
    BY <1>0 DEF MkfsEnds, Formatted, RestoreMedia, Goto, Return, VolumeTypes, IInv, StepsSound, Formatting
  <2>2. ListTypes'
    BY <1>0 DEF MkfsEnds, Formatted, RestoreMedia, Goto, Return, ListTypes
  <2>3. FlagTypes'
    BY <1>0 DEF MkfsEnds, Formatted, RestoreMedia, Goto, Return, FlagTypes, DatType, ValsType, Flag
  <2>4. CallTypes'
      <3>1. pc' \in Step
        BY <1>0 DEF MkfsEnds, Formatted, RestoreMedia, Goto, Return, CallTypes, Step, Op
      <3>2. ret' \in [op : Op, ok : BOOLEAN]
        <4>1. ret' = ret \/ ret' = [op |-> "format", ok |-> TRUE]
          BY DEF MkfsEnds, Formatted, Return
        <4>2. ret \in [op : Op, ok : BOOLEAN]
          BY <1>0 DEF CallTypes
        <4>3. \A b \in BOOLEAN : [op |-> "format", ok |-> b] \in [op : Op, ok : BOOLEAN]
          BY DEF Op
        <4>. QED
          BY <4>1, <4>2, <4>3
      <3>3. attempt' \in 0 .. Attempts /\ asked' \in Users /\ calls' \in 0 .. MaxCalls
        BY <1>0 DEF MkfsEnds, Formatted, RestoreMedia, Goto, Return, CallTypes, Step, Op
      <3>. QED
        BY <3>1, <3>2, <3>3 DEF CallTypes
  <2>. QED
    BY <2>1, <2>2, <2>3, <2>4, Types, PTL
<1>2. DiskSound' /\ StepsSound'
  BY DEF MkfsEnds, Formatted, RestoreMedia, Goto, Return, IInv, TypeOK, DiskSound, StepsSound, FlagsSound,
      AskingSound, Formatting, Encrypted
<1>3. FlagsSound'
  BY DEF MkfsEnds, Formatted, RestoreMedia, Goto, Return, IInv, TypeOK, DiskSound, StepsSound, FlagsSound,
      Formatting
<1>4. FormatSound'
  BY DEF MkfsEnds, Formatted, RestoreMedia, Goto, Return, IInv, TypeOK, FormatSound, StepsSound, DiskSound,
      Formatting
<1>5. Listed'
  BY DEF MkfsEnds, Formatted, RestoreMedia, Goto, Return, IInv, Listed
<1>6. AskingSound'
  BY DEF MkfsEnds, Formatted, RestoreMedia, Goto, Return, IInv, TypeOK, Listed, AskingSound, FlagsSound,
      StepsSound, StartingUp, Formatting, Encrypted
<1>. QED
  BY <1>1, <1>2, <1>3, <1>4, <1>5, <1>6 DEF IInv

LEMMA FormatByRemovingStep == ASSUME IInv, FormatByRemoving PROVE IInv'
<1>0. IInv /\ VolumeTypes /\ ListTypes /\ FlagTypes /\ CallTypes
  BY Types DEF IInv
<1>1. TypeOK'
  <2>1. VolumeTypes'
    BY <1>0 DEF FormatByRemoving, Formatted, Wipe_RMRF, Mount, Mountable,
          Actual_Block_Device, RestoreMedia, Goto, Return, VolumeTypes, IInv, StepsSound, Formatting
  <2>2. ListTypes'
    BY <1>0 DEF FormatByRemoving, Formatted, Wipe_RMRF, Mount, Mountable,
          Actual_Block_Device, RestoreMedia, Goto, Return, ListTypes
  <2>3. FlagTypes'
    BY <1>0 DEF FormatByRemoving, Formatted, Wipe_RMRF, Mount, Mountable,
          Actual_Block_Device, RestoreMedia, Goto, Return, FlagTypes, DatType, ValsType, Flag
  <2>4. CallTypes'
      <3>1. pc' \in Step
        BY <1>0 DEF FormatByRemoving, Formatted, Wipe_RMRF, Mount, Mountable,
          Actual_Block_Device, RestoreMedia, Goto, Return, CallTypes, Step, Op
      <3>2. ret' \in [op : Op, ok : BOOLEAN]
        <4>1. ret' = ret \/ ret' = [op |-> "format", ok |-> TRUE]
          BY DEF FormatByRemoving, Formatted, Wipe_RMRF, Mount, Mountable, Actual_Block_Device, Return
        <4>2. ret \in [op : Op, ok : BOOLEAN]
          BY <1>0 DEF CallTypes
        <4>3. \A b \in BOOLEAN : [op |-> "format", ok |-> b] \in [op : Op, ok : BOOLEAN]
          BY DEF Op
        <4>. QED
          BY <4>1, <4>2, <4>3
      <3>3. attempt' \in 0 .. Attempts /\ asked' \in Users /\ calls' \in 0 .. MaxCalls
        BY <1>0 DEF FormatByRemoving, Formatted, Wipe_RMRF, Mount, Mountable,
          Actual_Block_Device, RestoreMedia, Goto, Return, CallTypes, Step, Op
      <3>. QED
        BY <3>1, <3>2, <3>3 DEF CallTypes
  <2>. QED
    BY <2>1, <2>2, <2>3, <2>4, Types, PTL
<1>2. DiskSound' /\ StepsSound'
  BY DEF FormatByRemoving, Formatted, Wipe_RMRF, Mount, Mountable,
          Actual_Block_Device, RestoreMedia, Goto, Return, IInv, TypeOK, DiskSound, StepsSound, FlagsSound,
      AskingSound, Formatting, Encrypted
<1>3. FlagsSound'
  BY DEF FormatByRemoving, Formatted, Wipe_RMRF, Mount, Mountable,
          Actual_Block_Device, RestoreMedia, Goto, Return, IInv, TypeOK, DiskSound, StepsSound, FlagsSound,
      Formatting
<1>4. FormatSound'
  BY DEF FormatByRemoving, Formatted, Wipe_RMRF, Mount, Mountable,
          Actual_Block_Device, RestoreMedia, Goto, Return, IInv, TypeOK, FormatSound, StepsSound, DiskSound,
      Formatting
<1>5. Listed'
  BY DEF FormatByRemoving, Formatted, Wipe_RMRF, Mount, Mountable,
          Actual_Block_Device, RestoreMedia, Goto, Return, IInv, Listed
<1>6. AskingSound'
  BY DEF FormatByRemoving, Formatted, Wipe_RMRF, Mount, Mountable,
          Actual_Block_Device, RestoreMedia, Goto, Return, IInv, TypeOK, Listed, AskingSound, FlagsSound,
      StepsSound, StartingUp, Formatting, Encrypted
<1>. QED
  BY <1>1, <1>2, <1>3, <1>4, <1>5, <1>6 DEF IInv

LEMMA WipeKeysStep == ASSUME IInv, NEW ok \in BOOLEAN, WipeKeys(ok) PROVE IInv'
<1>0. IInv /\ VolumeTypes /\ ListTypes /\ FlagTypes /\ CallTypes
  BY Types DEF IInv
<1>1. TypeOK'
  <2>1. VolumeTypes'
    BY <1>0 DEF WipeKeys, kernel_vars, recovery_vars, Return, VolumeTypes, IInv, StepsSound,
        Formatting
  <2>2. ListTypes'
    BY <1>0 DEF WipeKeys, kernel_vars, recovery_vars, Return, ListTypes
  <2>3. FlagTypes'
    BY <1>0 DEF WipeKeys, kernel_vars, recovery_vars, Return, FlagTypes, DatType, ValsType, Flag
  <2>4. CallTypes'
    BY <1>0 DEF WipeKeys, kernel_vars, recovery_vars, Return, CallTypes, Step, Op
  <2>. QED
    BY <2>1, <2>2, <2>3, <2>4, Types, PTL
<1>2. DiskSound' /\ StepsSound'
  BY DEF WipeKeys, kernel_vars, recovery_vars, Return, IInv, TypeOK, DiskSound, StepsSound,
      FlagsSound, AskingSound, Formatting, Encrypted
<1>3. FlagsSound'
  BY DEF WipeKeys, kernel_vars, recovery_vars, Return, IInv, TypeOK, DiskSound, StepsSound,
      FlagsSound, Formatting
<1>4. FormatSound'
  BY DEF WipeKeys, kernel_vars, recovery_vars, Return, IInv, TypeOK, FormatSound, StepsSound,
      DiskSound, Formatting
<1>5. Listed'
  BY DEF WipeKeys, kernel_vars, recovery_vars, Return, IInv, Listed
<1>6. AskingSound'
  BY DEF WipeKeys, kernel_vars, recovery_vars, Return, IInv, TypeOK, Listed, AskingSound,
      FlagsSound, StepsSound, StartingUp, Formatting, Encrypted
<1>. QED
  BY <1>1, <1>2, <1>3, <1>4, <1>5, <1>6 DEF IInv

LEMMA WipeMediaStep == ASSUME IInv, NEW ok \in BOOLEAN, WipeMedia(ok) PROVE IInv'
<1>0. IInv /\ VolumeTypes /\ ListTypes /\ FlagTypes /\ CallTypes
  BY Types DEF IInv
<1>1. TypeOK'
  <2>1. VolumeTypes'
    <3>1. /\ UNCHANGED <<branch, metadata, disk, keydir, unencrypted, dm, prop, ce>>
          /\ media' \in {media, FALSE} /\ Mount(ok)
      BY DEF WipeMedia
    <3>. QED
      BY <1>0, <3>1, Mounts DEF VolumeTypes
  <2>2. ListTypes'
    BY <1>0, DataVolumeAssumption DEF WipeMedia, Mount, Mountable, Actual_Block_Device,
        recovery_vars, Call, ListTypes
  <2>3. FlagTypes'
    BY <1>0, DataVolumeAssumption DEF WipeMedia, Mount, Mountable, Actual_Block_Device,
        recovery_vars, Call, FlagTypes, DatType, ValsType, Flag
  <2>4. CallTypes'
    BY <1>0, DataVolumeAssumption DEF WipeMedia, Mount, Mountable, Actual_Block_Device,
        recovery_vars, Call, CallTypes, Step, Op
  <2>. QED
    BY <2>1, <2>2, <2>3, <2>4, Types, PTL
<1>2. DiskSound' /\ StepsSound'
  BY DataVolumeAssumption DEF WipeMedia, Mount, Mountable, Actual_Block_Device, recovery_vars,
      Call, IInv, TypeOK, DiskSound, StepsSound, FlagsSound, AskingSound, Formatting, Encrypted
<1>3. FlagsSound'
  BY DataVolumeAssumption DEF WipeMedia, Mount, Mountable, Actual_Block_Device, recovery_vars,
      Call, IInv, TypeOK, DiskSound, StepsSound, FlagsSound, Formatting
<1>4. FormatSound'
  BY DataVolumeAssumption DEF WipeMedia, Mount, Mountable, Actual_Block_Device, recovery_vars,
      Call, IInv, TypeOK, FormatSound, StepsSound, DiskSound, Formatting
<1>5. Listed'
  BY DataVolumeAssumption DEF WipeMedia, Mount, Mountable, Actual_Block_Device, recovery_vars,
      Call, IInv, Listed
<1>6. AskingSound'
  BY DataVolumeAssumption DEF WipeMedia, Mount, Mountable, Actual_Block_Device, recovery_vars,
      Call, IInv, TypeOK, Listed, AskingSound, FlagsSound, StepsSound, StartingUp, Formatting,
      Encrypted
<1>. QED
  BY <1>1, <1>2, <1>3, <1>4, <1>5, <1>6 DEF IInv

\* The device keys: the list of users is made with the properties.
LEMMA DeviceKeys ==
    ASSUME IInv, NEW ok \in BOOLEAN, Decrypt_FBE_DE(ok), pc \in {"setup_de", "mapped_de"},
           pc' = IF pc = "setup_de" THEN "media" ELSE "default",
           UNCHANGED <<disk_vars, dm, prop, mounted, ce, erased, attempt, asked, ret, calls>>
    PROVE  IInv'
<1>. DEFINE props == [u \in Users |-> IF decrypt[u] = "unset" THEN "0" ELSE decrypt[u]]
<1>0. VolumeTypes /\ ListTypes /\ FlagTypes /\ CallTypes
  BY Types DEF IInv
<1>1. VolumeTypes' /\ CallTypes'
  <2>1. de' \in BOOLEAN
    BY <1>0 DEF Decrypt_FBE_DE, VolumeTypes
  <2>. QED
    BY <1>0, <2>1 DEF VolumeTypes, CallTypes, Step, disk_vars, IInv, StepsSound
<1>2. props \in [Users -> {"unset", "0", "1"}]
  BY <1>0 DEF ListTypes
<1>3. DiskSound' /\ FormatSound'
  BY DEF IInv, DiskSound, FormatSound, disk_vars, Formatting
<1>4. CASE ok
  <2>1. /\ Encrypted /\ decrypt' = props /\ Users_List' = Parse_Users(props)
        /\ dat' = [dat EXCEPT !.Is_FBE = TRUE, !.Is_Encrypted = TRUE,
                              !.Is_Decrypted = FALSE, !.excluded = TRUE]
    BY <1>4 DEF Decrypt_FBE_DE
  <2>2. PICK type \in {0, 1} :
           vals' = Status([vals EXCEPT !.fbe = 1, !.encrypted = 1, !.pwtype = type],
               Users_List')
    BY <1>4 DEF Decrypt_FBE_DE
  <2>. HIDE DEF props
  <2>3. ListTypes' /\ Users_List' # <<>> /\ Listed'
    BY <1>0, <1>2, <2>1, Parsed DEF ListTypes, Listed
  <2>4. vals' \in ValsType /\ vals'.encrypted = 1
    BY <1>0, <2>2 DEF FlagTypes, ValsType, Status, Flag
  <2>5. /\ dat' \in DatType /\ dat'.Decrypted_Block_Device = dat.Decrypted_Block_Device
        /\ dat'.Has_Data_Media = dat.Has_Data_Media
    BY <1>0, <2>1 DEF FlagTypes, DatType
  <2>6. FlagTypes'
    BY <1>0, <2>4, <2>5 DEF FlagTypes
  <2>7. TypeOK'
    BY <1>1, <2>3, <2>6, Types, PTL
  <2>8. StepsSound'
    BY <1>0 DEF IInv, StepsSound, disk_vars, Formatting
  <2>9. FlagsSound'
    <3>1. ~ (0 \in ce /\ disk = "keyed")
      BY <1>0 DEF IInv, StepsSound, DiskSound, VolumeTypes
    <3>. QED
      BY <2>5, <3>1 DEF IInv, FlagsSound, disk_vars, Formatting, StepsSound, DiskSound
  <2>10. AskingSound'
    BY <2>3, <2>4 DEF AskingSound, StartingUp, Formatting
  <2>. QED
    BY <1>3, <2>3, <2>7, <2>8, <2>9, <2>10 DEF IInv
<1>5. CASE ~ ok
  <2>1. /\ dat' = [dat EXCEPT !.Is_FBE = @ \/ Encrypted, !.excluded = @ \/ Encrypted]
        /\ vals' = [vals EXCEPT !.fbe = 0]
        /\ UNCHANGED <<de, decrypt, Users_List>>
    BY <1>5 DEF Decrypt_FBE_DE
  <2>2. vals' \in ValsType /\ vals'.fbe = 0 /\ vals'.encrypted = vals.encrypted
    BY <1>0, <2>1 DEF FlagTypes, ValsType, Flag
  <2>3. Encrypted \in BOOLEAN
    BY DEF Encrypted
  <2>4. /\ dat' \in DatType /\ dat'.Decrypted_Block_Device = dat.Decrypted_Block_Device
        /\ dat'.Has_Data_Media = dat.Has_Data_Media /\ dat'.Is_Decrypted = dat.Is_Decrypted
    BY <1>0, <2>1, <2>3 DEF FlagTypes, DatType
  <2>5. FlagTypes' /\ ListTypes'
    BY <1>0, <2>1, <2>2, <2>4 DEF FlagTypes, ListTypes
  <2>6. TypeOK'
    BY <1>1, <2>5, Types, PTL
  <2>7. StepsSound' /\ Listed'
    BY <1>0, <2>1 DEF IInv, StepsSound, Listed, disk_vars, Formatting
  <2>8. FlagsSound'
    BY <2>4 DEF IInv, FlagsSound, disk_vars, Formatting
  <2>9. AskingSound'
    BY <2>1, <2>2 DEF IInv, AskingSound, StartingUp, Formatting
  <2>. QED
    BY <1>3, <2>6, <2>7, <2>8, <2>9 DEF IInv
<1>. QED
  BY <1>4, <1>5

LEMMA LoadStep ==
    ASSUME IInv, NEW ok \in BOOLEAN, SetupDE(ok) \/ MappedDE(ok) PROVE IInv'
  BY DeviceKeys DEF SetupDE, MappedDE, Goto

\* A user is decrypted: with user 0 the partition counts as decrypted.
LEMMA DecryptUserStep ==
    ASSUME IInv, NEW us \in SUBSET Users, DecryptUser(us) PROVE IInv'
<1>0. VolumeTypes /\ ListTypes /\ FlagTypes /\ CallTypes
  BY Types DEF IInv
<1>1. /\ pc \in {"user", "auto_user"} /\ de /\ Encrypted
      /\ asked \in us /\ (asked = 0 \/ us = {asked})
      /\ ce' = ce \cup us /\ Users_List' = MarkAll(Users_List, us)
      /\ decrypt' = [u \in Users |-> IF u \in us THEN "1" ELSE decrypt[u]]
      /\ dat' = IF asked = 0 THEN Post_Decrypt(dat) ELSE dat
      /\ DecryptReturns(Status(vals, Users_List'), TRUE)
      /\ UNCHANGED <<disk_vars, dm, prop, mounted, de, erased, attempt, asked, calls>>
  BY DEF DecryptUser, Opens
<1>2. pc' = "idle" /\ ret' = [op |-> "decrypt", ok |-> TRUE]
  BY <1>1 DEF DecryptReturns, Return
<1>3. ListTypes' /\ Listed'
  <2>1. /\ Users_List' \in Seq(UserType) /\ DOMAIN Users_List' = DOMAIN Users_List
        /\ \A j \in DOMAIN Users_List :
              /\ Users_List'[j].userId = Users_List[j].userId
              /\ Users_List[j].userId \notin us => Users_List'[j] = Users_List[j]
    BY <1>0, <1>1, Marked DEF ListTypes
  <2>2. decrypt' \in [Users -> {"unset", "0", "1"}]
    BY <1>0, <1>1 DEF ListTypes
  <2>3. ASSUME NEW u \in Users, decrypt'[u] = "0"
        PROVE  u \notin us /\ decrypt[u] = "0"
    BY <1>1, <2>3
  <2>4. Users_List' # <<>> => Users_List # <<>>
    BY <1>0, <2>1 DEF ListTypes
  <2>. QED
    BY <2>1, <2>2, <2>3, <2>4 DEF ListTypes, Listed, IInv
<1>4. /\ dat' \in DatType /\ dat'.Decrypted_Block_Device = dat.Decrypted_Block_Device
      /\ dat'.Has_Data_Media = dat.Has_Data_Media
      /\ asked = 0 => dat'.Is_Decrypted
      /\ asked # 0 => dat' = dat
  BY <1>0, <1>1 DEF Post_Decrypt, FlagTypes, DatType
<1>5. /\ vals' \in ValsType
      /\ pc = "user" => vals'.encrypted = vals.encrypted
  <2>1. /\ Status(vals, Users_List') \in ValsType
        /\ Status(vals, Users_List').encrypted = vals.encrypted
    BY <1>0 DEF FlagTypes, Status, ValsType, Flag
  <2>. QED
    BY <1>1, <2>1 DEF DecryptReturns, ValsType, Flag
<1>6. VolumeTypes' /\ FlagTypes' /\ CallTypes'
  <2>1. ce' \subseteq Users
    BY <1>0, <1>1 DEF VolumeTypes
  <2>2. [op |-> "decrypt", ok |-> TRUE] \in [op : Op, ok : BOOLEAN]
    BY DEF Op
  <2>3. VolumeTypes'
    BY <1>0, <1>1, <2>1 DEF VolumeTypes, Encrypted, disk_vars
  <2>4. FlagTypes'
    BY <1>0, <1>1, <1>4, <1>5 DEF FlagTypes
  <2>5. CallTypes'
    BY <1>0, <1>1, <1>2, <2>2 DEF CallTypes, Step
  <2>. QED
    BY <2>3, <2>4, <2>5
<1>7. TypeOK'
  BY <1>3, <1>6, Types, PTL
<1>8. DiskSound' /\ StepsSound'
  BY <1>1, <1>2 DEF IInv, DiskSound, StepsSound, Encrypted, Formatting, disk_vars
<1>9. FlagsSound'
  BY <1>1, <1>2, <1>4 DEF IInv, FlagsSound, disk_vars, Formatting
<1>10. FormatSound'
  BY <1>2 DEF FormatSound
<1>11. AskingSound'
  <2>1. decrypt'[0] = "0" => 0 \notin us /\ decrypt[0] = "0"
    BY <1>1, HasUsers
  <2>2. pc = "auto_user" => 0 \in us
    BY <1>1 DEF IInv, StepsSound
  <2>. QED
    BY <1>0, <1>1, <1>2, <1>5, <2>1, <2>2
       DEF IInv, AskingSound, StartingUp, Encrypted, disk_vars, ListTypes
<1>. QED
  BY <1>3, <1>7, <1>8, <1>9, <1>10, <1>11 DEF IInv

LEMMA NextStep == IInv /\ [Next]_vars => IInv'
<1>. SUFFICES ASSUME IInv, [Next]_vars PROVE IInv'
  OBVIOUS
<1>1. CASE UNCHANGED vars
  <2>1. VolumeTypes' /\ ListTypes' /\ FlagTypes' /\ CallTypes'
    BY <1>1, Types DEF IInv, vars, disk_vars, kernel_vars, recovery_vars, thread_vars,
       VolumeTypes, ListTypes, FlagTypes, CallTypes
  <2>2. TypeOK'
    BY <2>1, Types, PTL
  <2>. QED
    BY <1>1, <2>2 DEF IInv, vars, disk_vars, kernel_vars, recovery_vars, thread_vars,
       DiskSound, StepsSound, FlagsSound, FormatSound, Listed, AskingSound, Encrypted
<1>2. CASE StartUp
  BY <1>2, StartStep, SetupMappedStep, SetupPlainStep, LoadStep, SetupMediaStep,
     Decrypt_DataStep, MetadataDecryptStep, MountMappedStep, DefaultPasswordStep DEF StartUp
<1>3. CASE InDecrypt
  BY <1>3, NoNeedStep, WrongPasswordStep, Decrypt_DeviceStep, DecryptUserStep DEF InDecrypt
<1>4. CASE InFormat
  BY <1>4, MkfsStep, MkfsEndsStep, FormatByRemovingStep, MkfsFailsStep, WipeKeysStep DEF InFormat
<1>5. CASE Operation
  BY <1>5, AskUserStep, MountPageStep, UnMountPageStep, RepairStep, Factory_ResetStep,
     Wipe_EncryptionStep, WipeMediaStep DEF Operation
<1>. QED
  BY <1>1, <1>2, <1>3, <1>4, <1>5, RebootStep, RestartStep DEF Next

LEMMA Invariant == Spec => []IInv
  BY Initially, NextStep, PTL DEF Spec

\* A format that reports success left no volume that needs the metadata key, a
\* plain file system where a tool made one, and no key where its partition was
\* formatted: only rm -rf may leave the one or the other.  On either overlay.
THEOREM NoKeyIsLeft == Spec => []FormattedIsKeyless
  BY Invariant, Consequences, PTL

\* What is mounted once user 0 is decrypted is what the next operation on
\* /data works on.
THEOREM OneDevice == Spec => []ActualIsMounted
  BY Invariant, Consequences, PTL

\* Encrypted data are asked for until user 0 is decrypted.
THEOREM Asked == Spec => []AsksForPassword
  BY Invariant, Consequences, PTL

\* A factory reset never costs the files below /data/media, whatever was
\* formatted, mounted or restarted before.
THEOREM MediaIsKept == Spec => MediaSurvives
<1>1. IInv /\ [Next]_vars => [media /\ ~ media' => pc = "mkfs" \/ ret'.op = "wipemedia"]_vars
  <2>. SUFFICES ASSUME IInv, Next, media, ~ media', pc # "mkfs"
                PROVE  ret'.op = "wipemedia"
    BY DEF vars
  <2>1. CASE \E ok \in BOOLEAN : Factory_Reset(ok)
    BY <2>1 DEF Factory_Reset, KeepsMedia, EraseAroundMedia, Call, IInv, FlagsSound, Formatting
  <2>2. CASE \E ok \in BOOLEAN : WipeMedia(ok)
    BY <2>2 DEF WipeMedia
  <2>3. CASE UNCHANGED media
    BY <2>3
  <2>4. CASE StartUp \/ InDecrypt
    BY <2>4 DEF StartUp, InDecrypt, Start, SetupMapped, SetupPlain, SetupDE, SetupMedia,
       Decrypt_Data, MetadataDecrypt, MountMapped, MappedDE, DefaultPassword, NoNeed,
       WrongPassword, Decrypt_Device, DecryptUser, disk_vars
  <2>5. CASE InFormat
    BY <2>5 DEF InFormat, Mkfs, MkfsEnds, FormatByRemoving, Formatted, MkfsFails, WipeKeys, disk_vars
  <2>6. CASE AskUser \/ \E ok \in BOOLEAN :
                MountPage(ok) \/ UnMountPage(ok) \/ Repair(ok) \/ Wipe_Encryption(ok)
    BY <2>6 DEF AskUser, MountPage, UnMountPage, Repair, Wipe_Encryption, disk_vars
  <2>7. CASE Reboot \/ Restart
    BY <2>7 DEF Reboot, Restart, disk_vars
  <2>. QED
    BY <2>1, <2>2, <2>4, <2>5, <2>6, <2>7 DEF Next, Operation
<1>. QED
  BY <1>1, Invariant, PTL DEF Spec, MediaSurvives
===============================================================================
