------------------------------- MODULE Recovery -------------------------------
(***************************************************************************)
(* The partition manager from the start of the recovery: it makes its      *)
(* table, disks come and go, and backups and restores run on a table that  *)
(* has their partitions.  They find them in it by name and by parent.      *)
(***************************************************************************)
EXTENDS Nandroid, PartitionTable

CONSTANT MountOf   \* mount points of Nandroid's partitions

\* The table has the partitions there, with their methods and subpartitions.
Describes ==
    /\ phase = "ready"
    /\ \A p \in Part :
          LET i == Find_Partition_By_Path(Partitions, MountOf[p])
              subs == SelectSeq(Partitions, LAMBDA q : q.sub = MountOf[p])
          IN  /\ i # 0
              /\ Partitions[i].present /\ Partitions[i].method = Method[p]
              /\ [k \in DOMAIN subs |-> subs[k].mount] = [k \in DOMAIN Sub[p] |-> MountOf[Sub[p][k]]]

RecoveryInit == TableInit /\ Init

\* An operation begins on a table that has its partitions; what a disk that
\* comes or goes does beside it is UsbStorage's.
Begins == opc = "idle" /\ opc' # "idle"

RecoveryNext ==
    \/ TableNext /\ (phase' = "refresh" => opc = "idle") /\ UNCHANGED vars
    \/ Next /\ (Begins => Describes) /\ UNCHANGED tableVars

RecoverySpec == RecoveryInit /\ [][RecoveryNext]_<<tableVars, vars>> /\ Fairness

=============================================================================
