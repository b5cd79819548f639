------------------------------- MODULE RwLock -------------------------------
(***************************************************************************)
(* What the callers of crates/unideps-builder/src/lock.rs rely on: a lock  *)
(* with any number of shared holders, or one exclusive holder, and never   *)
(* both.  FileLock shows that the lock files provide it; Install and the   *)
(* modules after it use it.                                                *)
(***************************************************************************)
CONSTANT Proc

VARIABLES shared,   \* the processes holding the lock shared
          excl      \* the processes holding the lock exclusively

vars == <<shared, excl>>

Init == shared = {} /\ excl = {}

AcquireShared(p) ==
  /\ p \notin shared
  /\ excl = {}
  /\ shared' = shared \cup {p}
  /\ UNCHANGED excl

AcquireExclusive(p) ==
  /\ shared = {}
  /\ excl = {}
  /\ excl' = {p}
  /\ UNCHANGED shared

Release(p) ==
  /\ p \in shared \cup excl
  /\ shared' = shared \ {p}
  /\ excl' = excl \ {p}

Next == \E p \in Proc : AcquireShared(p) \/ AcquireExclusive(p) \/ Release(p)

Spec == Init /\ [][Next]_vars
=============================================================================
