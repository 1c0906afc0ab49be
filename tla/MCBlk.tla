-------------------------------- MODULE MCBlk --------------------------------
(* Two tasks, two sectors and two values.  One request is in flight at a      *)
(* time, so a queue of one descriptor whose indices wrap at two goes through  *)
(* every state of a longer one; with callers in vfs.rs there are two.         *)
EXTENDS Blk
=============================================================================
