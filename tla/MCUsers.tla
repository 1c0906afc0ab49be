------------------------------ MODULE MCUsers ------------------------------
(* Small instance of Users: guest is the name in USER.TXT; a mount point   *)
(* in a home, two levels deep, and a relative one below a file.  SECTOR    *)
(* nodes fill a sector, sectors are written in order, and behind an image  *)
(* there are sectors of zeroes, which parse as a file without a name.      *)
EXTENDS Users

MCMountPoint ==
    {[start |-> "/", path |-> <<"home", "alice", "mnt", "host">>],
     [start |-> ".", path |-> <<".veilrc", "host">>]}

SECTOR == 4
Zeroes == [name |-> "", is_dir |-> FALSE, data |-> << >>, count |-> 0]
\* The first sector holds the length too.
MCMixed(old, new) ==
    {old} \cup {[i \in DOMAIN new |-> IF i <= k * SECTOR THEN new[i]
                                    ELSE IF i <= Len(old) THEN old[i] ELSE Zeroes] :
              k \in 1 .. (Len(new) - 1) \div SECTOR}
=============================================================================
