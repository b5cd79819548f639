------------------------------ MODULE Records ------------------------------
(***************************************************************************)
(* The record of what a package's nested unideps.toml resolved to          *)
(* (crates/unideps-builder/src/resolution.rs), over runs of different      *)
(* settings.  One package, "outer", has a manifest that asks for another,  *)
(* "inner".  A build id stands for what is hashed into it.                 *)
(***************************************************************************)
EXTENDS Naturals

CONSTANTS
  Field, Value,   \* what a run is given for every package: linkage, build type, ...
  ToolField,      \* what of it reaches a tool: its compiler
  Rev,            \* commits of the branch that inner may follow
  None,
  MaxSteps        \* runs, moves and deletions in all (a bound of the model)

ASSUME RecordsAssumption == None \notin Rev /\ MaxSteps \in Nat

Package == {"outer", "inner"}
\* A run's settings, and whether .local.toml has the tool inner at a path of its own.
Setting == [given : [Field -> Value], local : BOOLEAN]

VARIABLES
  fixed,      \* fixed[p]: what p has from its manifest or leaves out of its hash
  kind,       \* inner is "pinned", "floating" or a "tool"
  tip,        \* the commit of inner's branch
  record,     \* by the key of outer, the id that inner was recorded with
  installed,  \* ids of the installed packages
  asked, got, \* the last run: its settings and the tip, and inner's id it went on with
  steps

vars == <<fixed, kind, tip, record, installed, asked, got, steps>>

-----------------------------------------------------------------------------
\* configure_node and calculate_build_id: what of the settings is in p's hash.
Hashed(p, s) == [f \in Field \ fixed[p] |-> s.given[f]]

\* The id outer has if its manifest pulls in nothing, with a fault and as it is.
PlainId_ByName(s) == [f \in {} |-> None]
PlainId(s) == Hashed("outer", s)

\* build_nested: the id inner has when it is resolved now.
InnerId(s, t) ==
  IF kind = "tool" /\ s.local THEN <<"local path">>
  ELSE <<Hashed("inner", s), IF kind = "floating" THEN t ELSE None>>
OuterId(s, inner) == <<PlainId(s), inner>>

\* is_recordable, and no local tool.
MayRecord_Branches(s) == ~(kind = "tool" /\ s.local)
MayRecord(s) == kind # "floating" /\ ~(kind = "tool" /\ s.local)

\* prefixes_are_intact: outer's own prefix and those of the nested packages.
IsIntact_OwnPrefix(s, inner) == OuterId(s, inner) \in installed
IsIntact(s, inner) == {OuterId(s, inner), inner} \subseteq installed

Key == UNION {[Field \ F -> Value] : F \in SUBSET Field}
InnerIds == {<<"local path">>} \cup (Key \X (Rev \cup {None}))

TypeOK ==
  /\ fixed \in [Package -> SUBSET Field] /\ kind \in {"pinned", "floating", "tool"}
  /\ tip \in Rev
  /\ record \in [Key -> (Key \X {None}) \cup {None}]  \* of fixed packages only
  /\ asked \in [setting : Setting \cup {None}, tip : Rev] /\ got \in InnerIds \cup {None}
  /\ steps \in Nat

Init ==
  /\ fixed \in [Package -> SUBSET Field] /\ kind \in {"pinned", "floating", "tool"}
  /\ kind = "tool" => Field \ ToolField \subseteq fixed["inner"]
  /\ tip \in Rev
  /\ record = [k \in Key |-> None]
  /\ installed = {}
  /\ asked = [setting |-> None, tip |-> tip] /\ got = None
  /\ steps = 0

-----------------------------------------------------------------------------
Count == steps < MaxSteps /\ steps' = steps + 1
Found(s) == record[PlainId(s)] # None /\ IsIntact(s, record[PlainId(s)])

\* Resolution::load finds a record whose prefixes are there: nothing is fetched.
Hit(s) ==
  /\ Count
  /\ Found(s)
  /\ got' = record[PlainId(s)]
  /\ asked' = [setting |-> s, tip |-> tip]
  /\ UNCHANGED <<fixed, kind, tip, record, installed>>

\* Anything else is resolved and built again, and recorded if it may be.
Resolve(s) ==
  /\ Count
  /\ ~Found(s)
  /\ got' = InnerId(s, tip)
  /\ asked' = [setting |-> s, tip |-> tip]
  /\ installed' = installed \cup {got', OuterId(s, got')}
  /\ record' = IF MayRecord(s) THEN [record EXCEPT ![PlainId(s)] = got'] ELSE record
  /\ UNCHANGED <<fixed, kind, tip>>

\* "A prefix can be deleted by hand", and a local tool is not one of unideps.
Delete(id) ==
  /\ Count
  /\ id # <<"local path">>
  /\ installed' = installed \ {id}
  /\ got' = None /\ asked' = [setting |-> None, tip |-> tip]
  /\ UNCHANGED <<fixed, kind, tip, record>>

Move ==
  /\ Count
  /\ tip' \in Rev \ {tip}
  /\ UNCHANGED <<fixed, kind, record, installed, asked, got>>

Next ==
  \/ \E s \in Setting : Hit(s) \/ Resolve(s)
  \/ \E id \in installed : Delete(id)
  \/ Move

Spec == Init /\ [][Next]_vars

-----------------------------------------------------------------------------
Ran == asked.setting # None
Fresh == InnerId(asked.setting, asked.tip)

\* A record never pins a branch: a run that asks for one gets the commit it names then
\* ("picks up a moved branch as it always did", DOCUMENTATION.md:53).
BranchesAreFollowed == Ran /\ kind = "floating" => got = Fresh

\* What a run goes on with is installed, whatever was deleted since it was recorded.
RecordedIsThere == Ran => got \in installed

\* Where the key of outer has all that reaches inner, and no tool is local, a record
\* says what resolving again would say.
KeyedIsFresh ==
  Ran /\ fixed["outer"] \subseteq fixed["inner"] /\ kind # "tool" => got = Fresh

\* DOCUMENTATION.md:49: "Everything that can change the outcome ... is already part of
\* that key, so a stale record cannot be found under it".
RecordIsFresh == Ran => got = Fresh
=============================================================================
