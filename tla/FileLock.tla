------------------------------ MODULE FileLock ------------------------------
(***************************************************************************)
(* One lock file (crates/unideps-builder/src/lock.rs).  A handle opens the *)
(* path, creating the file when it is not there, then blocks in flock on   *)
(* the inode it opened; dropping it, or the death of its process, unlocks. *)
(* Opening and locking are two steps, so what matters is which inode the   *)
(* path names in between.                                                  *)
(***************************************************************************)
EXTENDS Naturals

CONSTANTS Handle,     \* FileLock values, of any number of processes
          NoInode,    \* no file
          MaxInodes   \* how many files are ever created (a bound of the model)

ASSUME InodeAssumption == MaxInodes \in Nat /\ NoInode \notin Nat

VARIABLES
  file,    \* the inode the path names
  used,    \* inodes created so far
  state,   \* state[h]: "closed", "waiting" in flock, or "held"
  mode,    \* mode[h]: what h asked for
  inode    \* inode[h]: what h opened

lockVars == <<file, used, state, mode, inode>>

LockTypeOK ==
  /\ file \in Nat \cup {NoInode}
  /\ used \in Nat
  /\ state \in [Handle -> {"closed", "waiting", "held"}]
  /\ mode \in [Handle -> {"shared", "exclusive"}]
  /\ inode \in [Handle -> Nat \cup {NoInode}]

LockInit ==
  /\ file = NoInode
  /\ used = 0
  /\ state = [h \in Handle |-> "closed"]
  /\ mode = [h \in Handle |-> "shared"]
  /\ inode = [h \in Handle |-> NoInode]

-----------------------------------------------------------------------------
\* The flock that is called for what was asked: lock_shared or lock.
Kind_AlwaysShared(h) == "shared"
Kind(h) == mode[h]

\* flock(2): a lock is granted on an inode, next to compatible ones.
Compatible(a, b) == Kind(a) = "shared" /\ Kind(b) = "shared"
Grantable(h) ==
  \A g \in Handle : state[g] = "held" /\ inode[g] = inode[h] => Compatible(g, h)

\* The path after a handle is dropped: the file is never deleted.
FileAfterDrop_Deleted == NoInode
FileAfterDrop == file

Open(h, m) ==
  /\ state[h] = "closed"
  /\ IF file # NoInode
       THEN UNCHANGED <<file, used>>
       ELSE /\ used < MaxInodes
            /\ used' = used + 1
            /\ file' = used
  /\ state' = [state EXCEPT ![h] = "waiting"]
  /\ mode' = [mode EXCEPT ![h] = m]
  /\ inode' = [inode EXCEPT ![h] = file']

Lock(h) ==
  /\ state[h] = "waiting"
  /\ Grantable(h)
  /\ state' = [state EXCEPT ![h] = "held"]
  /\ UNCHANGED <<file, used, mode, inode>>

Drop(h) ==
  /\ state[h] = "held"
  /\ state' = [state EXCEPT ![h] = "closed"]
  /\ inode' = [inode EXCEPT ![h] = NoInode]
  /\ file' = FileAfterDrop
  /\ UNCHANGED <<used, mode>>

\* flock fails, or the process dies: the kernel closes the file.
Close(h) ==
  /\ state[h] # "closed"
  /\ state' = [state EXCEPT ![h] = "closed"]
  /\ inode' = [inode EXCEPT ![h] = NoInode]
  /\ UNCHANGED <<file, used, mode>>

LockNext ==
  \E h \in Handle :
    \/ \E m \in {"shared", "exclusive"} : Open(h, m)
    \/ Lock(h)
    \/ Drop(h)
    \/ Close(h)

LockSpec == LockInit /\ [][LockNext]_lockVars

-----------------------------------------------------------------------------
Holders(m) == {h \in Handle : state[h] = "held" /\ mode[h] = m}

\* Two handles on the path never hold "the same" lock at once unless both are
\* shared (lock.rs: "two processes would hold "the same" lock at once").
Exclusion ==
  \A g, h \in Handle :
    g # h /\ state[g] = "held" /\ state[h] = "held" =>
      mode[g] = "shared" /\ mode[h] = "shared"

\* Seen from outside, the file is the reader-writer lock its callers assume.
Abstract == INSTANCE RwLock WITH
  Proc <- Handle, shared <- Holders("shared"), excl <- Holders("exclusive")
RwLockSpec == Abstract!Spec
=============================================================================
