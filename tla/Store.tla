-------------------------------- MODULE Store --------------------------------
(***************************************************************************)
(* What the storage directory promises the runs that share it, without     *)
(* locks, scratch directories, archives or records: a package appears in   *)
(* one step, only after everything it needs, and is there for as long as   *)
(* any run is using the storage.  A run is given only installed packages,  *)
(* and has, at every time, a package of every name that one of its         *)
(* packages needs: of two packages of one name it may give one up, and     *)
(* what needs that one has to do with the other.  Install implements it.   *)
(***************************************************************************)
CONSTANTS Run,     \* invocations of `unideps build`
          Pkg,     \* packages, each a name and a build id
          NameOf,  \* NameOf[p]: the name of p
          Needs    \* Needs[p]: the packages p is built against

VARIABLES installed,   \* packages with a complete prefix
          live,        \* runs that use the storage
          got          \* got[r]: what run r has of what it was given

vars == <<installed, live, got>>

NamesOf(S) == {NameOf[p] : p \in S}
Serves(S) == \A p \in S : NamesOf(Needs[p]) \subseteq NamesOf(S)

Init ==
  /\ installed = {}
  /\ live = {}
  /\ got = [r \in Run |-> {}]

Enter(r) ==
  /\ live' = live \cup {r}
  /\ UNCHANGED <<installed, got>>

Publish(p) ==
  /\ live # {}
  /\ p \notin installed
  /\ Needs[p] \subseteq installed
  /\ installed' = installed \cup {p}
  /\ UNCHANGED <<live, got>>

Take(r, S) ==
  /\ r \in live
  /\ S \subseteq installed
  /\ Serves(got[r] \cup S)
  /\ got' = [got EXCEPT ![r] = @ \cup S]
  /\ UNCHANGED <<installed, live>>

GiveUp(r, S) ==
  /\ S \subseteq got[r]
  /\ NamesOf(got[r] \ S) = NamesOf(got[r])
  /\ got' = [got EXCEPT ![r] = @ \ S]
  /\ UNCHANGED <<installed, live>>

Leave(r) ==
  /\ r \in live
  /\ live' = live \ {r}
  /\ got' = [got EXCEPT ![r] = {}]
  /\ UNCHANGED installed

\* Somebody removes a prefix by hand; nobody does so under a run.
Lose(p) ==
  /\ live = {}
  /\ installed' = installed \ {p}
  /\ UNCHANGED <<live, got>>

Next ==
  \/ \E r \in Run : Enter(r) \/ Leave(r)
  \/ \E r \in Run, S \in SUBSET Pkg : Take(r, S) \/ GiveUp(r, S)
  \/ \E p \in Pkg : Publish(p) \/ Lose(p)

Spec == Init /\ [][Next]_vars
=============================================================================
