--------------------------- MODULE RecordsProofs ---------------------------
(***************************************************************************)
(* What a record of Records promises, for any settings, values and         *)
(* commits.  The invariant says of a record what it was written from: some *)
(* setting with the same key, of a package that no branch decides.         *)
(***************************************************************************)
EXTENDS Records, TLAPS

\* A record is what some setting with its key resolved to, whatever the tip is now.
RecordInv ==
  \A k \in Key : record[k] # None =>
    /\ kind # "floating"
    /\ \E s \in Setting : PlainId(s) = k /\ MayRecord(s) /\ record[k] = InnerId(s, tip)

\* What a run went on with.
LastInv == BranchesAreFollowed /\ RecordedIsThere /\ KeyedIsFresh

IInv == TypeOK /\ RecordInv /\ LastInv

-----------------------------------------------------------------------------
\* A build id without nested packages is a key.
LEMMA HashedIsKey ==
  ASSUME TypeOK, NEW p \in Package, NEW s \in Setting
  PROVE  Hashed(p, s) \in Key
<1>1. Hashed(p, s) \in [Field \ fixed[p] -> Value]
  BY DEF Hashed, Setting
<1>2. fixed[p] \in SUBSET Field
  BY DEF TypeOK
<1> QED BY <1>1, <1>2 DEF Key

LEMMA CountIsNat == ASSUME TypeOK, Count PROVE steps' \in Nat
<1>1. steps \in Nat /\ steps' = steps + 1
  BY DEF TypeOK, Count
<1> QED BY <1>1

\* What inner resolves to is an id, and one of a fixed package if it may be recorded.
LEMMA InnerIsId ==
  ASSUME TypeOK, NEW s \in Setting, NEW t \in Rev
  PROVE  /\ InnerId(s, t) \in InnerIds
         /\ MayRecord(s) => InnerId(s, t) \in Key \X {None}
<1>1. Hashed("inner", s) \in Key
  BY HashedIsKey DEF Package
<1> QED BY <1>1 DEF InnerId, InnerIds, MayRecord

\* Where outer's key has all that reaches inner, equal keys give equal ids.
LEMMA KeyDecides ==
  ASSUME NEW s \in Setting, NEW z \in Setting, PlainId(s) = PlainId(z),
         fixed["outer"] \subseteq fixed["inner"]
  PROVE  Hashed("inner", s) = Hashed("inner", z)
<1>1. ASSUME NEW f \in Field \ fixed["inner"]
      PROVE  s.given[f] = z.given[f]
  <2>1. f \in Field \ fixed["outer"]
    OBVIOUS
  <2>2. Hashed("outer", s)[f] = s.given[f] /\ Hashed("outer", z)[f] = z.given[f]
    BY <2>1 DEF Hashed
  <2> QED BY <2>2 DEF PlainId
<1> QED BY <1>1 DEF Hashed

\* Only a branch's id depends on its tip.
LEMMA TipOnlyFloats ==
  ASSUME kind # "floating", NEW s, NEW t, NEW u
  PROVE  InnerId(s, t) = InnerId(s, u)
BY DEF InnerId

-----------------------------------------------------------------------------
LEMMA InitInv == ASSUME RecordsAssumption, Init PROVE IInv
<1>1. TypeOK
  BY DEF Init, TypeOK, Package
<1>2. RecordInv
  BY DEF Init, RecordInv
<1>3. LastInv
  BY DEF Init, LastInv, BranchesAreFollowed, RecordedIsThere, KeyedIsFresh, Ran
<1> QED BY <1>1, <1>2, <1>3 DEF IInv

\* A record that is found is what resolving again gives, unless outer hides something.
LEMMA HitStep ==
  ASSUME RecordsAssumption, IInv, NEW s \in Setting, Hit(s)
  PROVE  IInv'
<1> DEFINE k == PlainId(s)
<1>1. k \in Key /\ record[k] # None
  BY HashedIsKey DEF IInv, Hit, Found, PlainId, Package
<1>2. record[k] \in Key \X {None}
  BY <1>1 DEF IInv, TypeOK
<1>3. TypeOK'
  <2>1. got' \in InnerIds
    BY <1>2 DEF Hit, InnerIds
  <2>2. steps' \in Nat
    BY CountIsNat DEF IInv, Hit
  <2>3. asked' \in [setting : Setting \cup {None}, tip : Rev]
    BY DEF IInv, TypeOK, Hit
  <2> QED BY <2>1, <2>2, <2>3 DEF IInv, TypeOK, Hit
<1>4. RecordInv'
  BY DEF IInv, RecordInv, Hit, PlainId, Hashed, MayRecord, InnerId, Setting, Key
<1>5. PICK z \in Setting : PlainId(z) = k /\ MayRecord(z) /\ record[k] = InnerId(z, tip)
  BY <1>1 DEF IInv, RecordInv
<1>6. kind # "floating"
  BY <1>1 DEF IInv, RecordInv
<1>7. BranchesAreFollowed'
  BY <1>6 DEF BranchesAreFollowed, Hit
<1>8. RecordedIsThere'
  BY DEF RecordedIsThere, Hit, Found, IsIntact
<1>9. KeyedIsFresh'
  <2> SUFFICES ASSUME fixed["outer"] \subseteq fixed["inner"], kind # "tool"
               PROVE  record[k] = InnerId(s, tip)
    BY DEF KeyedIsFresh, Fresh, Hit, InnerId, Hashed
  <2>1. Hashed("inner", s) = Hashed("inner", z)
    BY <1>5, KeyDecides
  <2> QED BY <1>5, <2>1 DEF InnerId
<1> QED BY <1>3, <1>4, <1>7, <1>8, <1>9 DEF IInv, LastInv

\* What is resolved now is fresh, and recorded only if no branch or local tool is in it.
LEMMA ResolveStep ==
  ASSUME RecordsAssumption, IInv, NEW s \in Setting, Resolve(s)
  PROVE  IInv'
<1>0. TypeOK /\ tip \in Rev
  BY DEF IInv, TypeOK
<1>1. PlainId(s) \in Key
  BY <1>0, HashedIsKey DEF PlainId, Package
<1>2. InnerId(s, tip) \in InnerIds /\ (MayRecord(s) => InnerId(s, tip) \in Key \X {None})
  BY <1>0, InnerIsId
<1>3. TypeOK'
  <2>1. record' \in [Key -> (Key \X {None}) \cup {None}]
    BY <1>0, <1>1, <1>2 DEF TypeOK, Resolve
  <2>2. steps' \in Nat
    BY <1>0, CountIsNat DEF Resolve
  <2>3. asked' \in [setting : Setting \cup {None}, tip : Rev]
    BY <1>0 DEF Resolve
  <2> QED BY <1>0, <1>2, <2>1, <2>2, <2>3 DEF TypeOK, Resolve
<1>4. RecordInv'
  <2> SUFFICES ASSUME NEW k \in Key, record'[k] # None
               PROVE  /\ kind # "floating"
                      /\ \E z \in Setting :
                           PlainId(z) = k /\ MayRecord(z) /\ record'[k] = InnerId(z, tip)
    <3>1. UNCHANGED <<fixed, kind, tip>>
      BY DEF Resolve
    <3> QED BY <3>1 DEF RecordInv, PlainId, Hashed, MayRecord, InnerId, Setting, Key
  <2>1. CASE MayRecord(s) /\ k = PlainId(s)
    BY <1>0, <1>1, <2>1 DEF TypeOK, Resolve, MayRecord
  <2>2. CASE ~(MayRecord(s) /\ k = PlainId(s))
    BY <1>0, <1>1, <2>2 DEF IInv, RecordInv, TypeOK, Resolve
  <2> QED BY <2>1, <2>2
<1>5. got' = InnerId(s, tip) /\ got' \in installed'
  BY DEF Resolve
<1>6. LastInv'
  BY <1>5 DEF LastInv, BranchesAreFollowed, RecordedIsThere, KeyedIsFresh, Fresh, Resolve,
              InnerId, Hashed
<1> QED BY <1>3, <1>4, <1>6 DEF IInv

\* A deletion changes no record, and no run is under way.
LEMMA DeleteStep ==
  ASSUME RecordsAssumption, IInv, NEW id \in installed, Delete(id)
  PROVE  IInv'
<1>1. TypeOK'
  <2>1. tip \in Rev /\ asked' = [setting |-> None, tip |-> tip]
    BY DEF IInv, TypeOK, Delete
  <2>2. asked' \in [setting : Setting \cup {None}, tip : Rev]
    <3>1. None \in Setting \cup {None}
      OBVIOUS
    <3> QED BY <2>1, <3>1, Zenon
  <2>3. steps' \in Nat
    BY CountIsNat DEF IInv, Delete
  <2> QED BY <2>2, <2>3 DEF IInv, TypeOK, Delete
<1>2. RecordInv'
  BY DEF IInv, RecordInv, Delete, PlainId, Hashed, MayRecord, InnerId, Setting, Key
<1>3. LastInv'
  BY DEF LastInv, BranchesAreFollowed, RecordedIsThere, KeyedIsFresh, Ran, Delete
<1> QED BY <1>1, <1>2, <1>3 DEF IInv

\* A branch that moves is in no record.
LEMMA MoveStep == ASSUME RecordsAssumption, IInv, Move PROVE IInv'
<1>1. TypeOK'
  BY DEF IInv, TypeOK, Move, Count
<1>2. RecordInv'
  <2> SUFFICES ASSUME NEW k \in Key, record[k] # None
               PROVE  /\ kind # "floating"
                      /\ \E s \in Setting :
                           PlainId(s) = k /\ MayRecord(s) /\ record[k] = InnerId(s, tip')
    BY DEF RecordInv, Move, PlainId, Hashed, MayRecord, InnerId, Setting, Key
  <2>1. PICK s \in Setting : PlainId(s) = k /\ MayRecord(s) /\ record[k] = InnerId(s, tip)
    BY DEF IInv, RecordInv
  <2>2. kind # "floating"
    BY DEF IInv, RecordInv
  <2>3. InnerId(s, tip) = InnerId(s, tip')
    BY <2>2, TipOnlyFloats
  <2> QED BY <2>1, <2>2, <2>3
<1>3. LastInv'
  BY DEF IInv, LastInv, BranchesAreFollowed, RecordedIsThere, KeyedIsFresh, Ran, Fresh, Move,
         InnerId, Hashed
<1> QED BY <1>1, <1>2, <1>3 DEF IInv

LEMMA StutterStep == ASSUME IInv, UNCHANGED vars PROVE IInv'
BY DEF IInv, TypeOK, RecordInv, LastInv, BranchesAreFollowed, RecordedIsThere, KeyedIsFresh,
       Ran, Fresh, PlainId, Hashed, MayRecord, InnerId, InnerIds, Setting, Key, vars

-----------------------------------------------------------------------------
\* The inductive invariant of the records holds of every execution.
THEOREM RecordsInvariant == Spec => []IInv
<1>1. Init => IInv
  BY RecordsAssumption, InitInv
<1>2. IInv /\ [Next]_vars => IInv'
  BY RecordsAssumption, HitStep, ResolveStep, DeleteStep, MoveStep, StutterStep DEF Next
<1> QED BY <1>1, <1>2, PTL DEF Spec

\* A run that asks for a branch gets the commit it names then (resolution.rs:44-51).
THEOREM BranchTheorem == Spec => []BranchesAreFollowed
<1>1. IInv => BranchesAreFollowed
  BY DEF IInv, LastInv
<1> QED BY <1>1, RecordsInvariant, PTL

\* What a run goes on with is installed (resolution.rs:67-95).
THEOREM ThereTheorem == Spec => []RecordedIsThere
<1>1. IInv => RecordedIsThere
  BY DEF IInv, LastInv
<1> QED BY <1>1, RecordsInvariant, PTL

\* The condition under which a record is never stale: everything that reaches the nested
\* package is hashed for the outer one (build.rs:702-716).
THEOREM KeyTheorem == Spec => []KeyedIsFresh
<1>1. IInv => KeyedIsFresh
  BY DEF IInv, LastInv
<1> QED BY <1>1, RecordsInvariant, PTL
=============================================================================
