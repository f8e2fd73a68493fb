------------------------------ MODULE MCArchive ------------------------------
(* A directory, and two paths that are one inode or two of any kind.       *)
EXTENDS Archive

MCTrees ==
    [file : {<<1, 2, 2>>, <<1, 2, 3>>},
     node : {<<d, f, g>> :
        d \in [kind : {"dir"}, size : {0}, key : {TRUE},
               tags : {{"selinux"}, {"longselinux", "user"}, {"selinux", "fscrypt", "user"}}],
        f \in [kind : {"file"}, size : Sizes, key : BOOLEAN,
               tags : {{"selinux", "cap"}, {"longselinux", "capeff"}}],
        g \in [kind : {"file"}, size : {0, T_BLOCKSIZE}, key : {TRUE}, tags : {{"selinux"}}]
              \cup [kind : {"symlink", "dev", "fifo"}, size : {0}, key : {TRUE}, tags : {{"selinux"}}]}]
=============================================================================
