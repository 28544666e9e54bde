------------------------------- MODULE MC_Idmap -------------------------------
(***************************************************************************)
(* Small directories for checking Idmap.  Names and principals are short   *)
(* strings; a value of VAL_LEN or more characters is LongValue, a          *)
(* uidNumber that is not a number is NotNum, a missing attribute Absent.   *)
(***************************************************************************)
EXTENDS Idmap

\* A directory with unique keys and complete, well-formed entries.
MCStatic ==
    {[user |-> {[username |-> "alice", principal |-> "alice@R", uid |-> 1, gid |-> 1],
                [username |-> "bob",   principal |-> Absent,    uid |-> 2, gid |-> 1]},
      group |-> {[name |-> "staff", gid |-> 1], [name |-> "wheel", gid |-> 2]}]}

\* A directory with an entry for every error path of idmap_query_attrs
\* and of the attribute parsing, next to well-formed ones.
MCErrors ==
    {[user |->
        {[username |-> "alice", principal |-> "alice@R", uid |-> 1, gid |-> 1],
         [username |-> LongValue, principal |-> Absent, uid |-> 2, gid |-> 1],
         [username |-> Absent, principal |-> "carol@R", uid |-> 3, gid |-> 1],
         [username |-> "bob", principal |-> LongValue, uid |-> 3, gid |-> 1],
         [username |-> "carol", principal |-> Absent, uid |-> NotNum, gid |-> 1],
         [username |-> "dave", principal |-> "dave@R", uid |-> 1, gid |-> NotNum]},
      group |->
        {[name |-> "staff", gid |-> 1],
         [name |-> "wheel", gid |-> Absent],
         [name |-> LongValue, gid |-> 2],
         [name |-> "users", gid |-> NotNum],
         [name |-> "dev", gid |-> 3]}]}

\* Two directory contents the server alternates between: alice and bob
\* swap uids, staff and wheel swap gids.
MCSwap ==
    {[user |-> {[username |-> "alice", principal |-> "alice@R", uid |-> 1, gid |-> 1],
                [username |-> "bob",   principal |-> Absent,    uid |-> 2, gid |-> 1]},
      group |-> {[name |-> "staff", gid |-> 1], [name |-> "wheel", gid |-> 2]}],
     [user |-> {[username |-> "alice", principal |-> "alice@R", uid |-> 2, gid |-> 1],
                [username |-> "bob",   principal |-> Absent,    uid |-> 1, gid |-> 1]},
      group |-> {[name |-> "staff", gid |-> 2], [name |-> "wheel", gid |-> 1]}]}

MCNameUidOps == {"name_to_uid", "uid_to_name"}
MCAllOps == DOMAIN Lookup
MCUserOps == {"name_to_uid", "uid_to_name", "principal_to_ids"}
MCAllUserOps == {"name_to_uid", "name_to_ids", "uid_to_name", "principal_to_ids"}
MCGroupOps == {"group_to_gid", "gid_to_group"}
=============================================================================
