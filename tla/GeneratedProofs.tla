--------------------------- MODULE GeneratedProofs ---------------------------
(***************************************************************************)
(* Proofs about generated CMake.  Of Subdirs, for any packages, files,     *)
(* options and depth: variables come back as they were.  The invariant     *)
(* says, of every directory that is being read, which variables the block  *)
(* in it has changed, and that it has saved what they were.                *)
(* Of Imports, for any packages, prefixes and number of configures: where  *)
(* packages are found, and what their targets are linked to.  That is the  *)
(* second half of the module.                                              *)
(***************************************************************************)
EXTENDS Subdirs, Imports, Integers, SequenceTheorems, WellFoundedInduction, TLAPS

\* NoneTwice and Sets, of any project c.
SetOnce(c) ==
  \A p \in Package : c.shared[p] # Unset => \A i \in DOMAIN c.options[p] : c.options[p][i][1] # SHARED
SetsOf(c, p) ==
  (IF c.file[p] = Unset THEN <<>> ELSE <<<<NESTED, p>>>>)
    \o (IF c.shared[p] = Unset THEN <<>> ELSE <<<<SHARED, c.shared[p]>>>>)
    \o c.options[p]
KeyOf(c, d, j) == SetsOf(c, Head(d.todo))[j][1]

Datum == Package \cup Value \cup {Root, Unset, Empty}
Frame == [dir : Package \cup {Root}, values : [AllVar -> Datum], start : [AllVar -> Datum],
          asks : BOOLEAN, todo : Seq(Package), at : {"idle", "set", "restore"}, k : Nat,
          had : [AllVar -> BOOLEAN], save : [AllVar -> Datum]]

\* What NESTED may name.
Named(c) == {Unset} \cup {x \in Package \cup {Root} : c.file[x] # Unset}

\* The first n of the variables are saved, the others are as they were.
Saved(c, d, n) ==
  \A j \in 1 .. n : LET v == KeyOf(c, d, j)
                    IN /\ d.had[v] <=> d.start[v] # Unset
                       /\ d.start[v] # Unset => d.save[v] = d.start[v]
Kept(c, d, n) ==
  \A v \in AllVar : (\A j \in 1 .. n : KeyOf(c, d, j) # v) => d.values[v] = d.start[v]

Good(c, d) ==
  /\ d \in Frame
  /\ d.start[NESTED] \in Named(c) /\ d.values[NESTED] \in Named(c)
  /\ d.asks => d.at = "idle"
  /\ d.at = "idle" => d.values = d.start
  /\ d.at # "idle" => d.todo # <<>>
  /\ d.at = "set" => /\ d.k \in 1 .. Len(SetsOf(c, Head(d.todo))) + 1
                     /\ Saved(c, d, d.k - 1) /\ Kept(c, d, d.k - 1)
  /\ d.at = "restore" => /\ d.k \in 0 .. Len(SetsOf(c, Head(d.todo)))
                         /\ Saved(c, d, d.k) /\ Kept(c, d, d.k)

StackInv ==
  /\ project \in Projects /\ SetOnce(project)
  /\ stack \in Seq(Frame) /\ Len(stack) >= 1
  /\ \A i \in 1 .. Len(stack) : Good(project, stack[i])
SInv == project \in Projects /\ (SetOnce(project) => StackInv)

-----------------------------------------------------------------------------
\* What a block sets: variables, each once, and NESTED to a file that there is.
LEMMA SetsAreOnce ==
  ASSUME NEW c \in Projects, SetOnce(c), NEW p \in Package
  PROVE  LET s == SetsOf(c, p)
         IN /\ s \in Seq(AllVar \X Datum)
            /\ \A i \in 1 .. Len(s) : s[i][1] \in AllVar /\ s[i][2] \in Datum
            /\ \A i \in 1 .. Len(s) : s[i][1] = NESTED => s[i][2] \in Named(c)
            /\ \A i, j \in 1 .. Len(s) : s[i][1] = s[j][1] => i = j
<1> DEFINE f == IF c.file[p] = Unset THEN <<>> ELSE <<<<NESTED, p>>>>
           h == IF c.shared[p] = Unset THEN <<>> ELSE <<<<SHARED, c.shared[p]>>>>
           o == c.options[p]
           s == SetsOf(c, p)
<1>1. c \in Project /\ SHARED \in Var /\ NESTED \notin Var
  BY SubdirsAssumption
<1>2. o \in Seq(Var \X Value) /\ c.shared[p] \in Value \cup {Unset}
  BY <1>1 DEF Project
<1>3. /\ f \in Seq(AllVar \X Datum) /\ Len(f) \in {0, 1}
      /\ \A i \in 1 .. Len(f) : f[i] = <<NESTED, p>> /\ c.file[p] # Unset
  BY DEF AllVar, Datum
<1>4. /\ h \in Seq(AllVar \X Datum) /\ Len(h) \in {0, 1}
      /\ \A i \in 1 .. Len(h) : h[i][1] = SHARED /\ h[i][2] \in Datum /\ c.shared[p] # Unset
  BY <1>1, <1>2 DEF AllVar, Datum
<1>5. /\ o \in Seq(AllVar \X Datum) /\ Len(o) \in Nat
      /\ \A i \in 1 .. Len(o) : o[i][1] \in Var /\ o[i][2] \in Datum
  BY <1>2 DEF AllVar, Datum
<1>6. /\ \A i, j \in 1 .. Len(o) : o[i][1] = o[j][1] => i = j
      /\ c.shared[p] # Unset => \A i \in 1 .. Len(o) : o[i][1] # SHARED
  BY <1>2, SubdirsAssumption DEF SetOnce
<1>7. s = (f \o h) \o o
  BY DEF SetsOf
<1> HIDE DEF f, h, o, s
<1>8. s \in Seq(AllVar \X Datum) /\ Len(s) = Len(f) + Len(h) + Len(o)
  BY <1>3, <1>4, <1>5, <1>7
<1>9. \A i \in 1 .. Len(s) :
        s[i] = IF i <= Len(f) THEN f[i]
               ELSE IF i <= Len(f) + Len(h) THEN h[i - Len(f)]
               ELSE o[i - Len(f) - Len(h)]
  BY <1>3, <1>4, <1>5, <1>7
<1>10. \A i \in 1 .. Len(s) : s[i][1] \in AllVar /\ s[i][2] \in Datum
  BY <1>8
<1>11. ASSUME NEW i \in 1 .. Len(s), i <= Len(f)
       PROVE  i = 1 /\ s[i] = <<NESTED, p>> /\ c.file[p] # Unset
  <2>1. i \in 1 .. Len(f) /\ i = 1
    BY <1>3, <1>11
  <2>2. QED
    BY <2>1, <1>3, <1>9, <1>11
<1>12. ASSUME NEW i \in 1 .. Len(s), i > Len(f), i <= Len(f) + Len(h)
       PROVE  i = Len(f) + 1 /\ s[i][1] = SHARED /\ c.shared[p] # Unset
  <2>1. i - Len(f) \in 1 .. Len(h) /\ i = Len(f) + 1
    BY <1>3, <1>4, <1>12
  <2>2. s[i] = h[i - Len(f)]
    BY <1>3, <1>9, <1>12
  <2>3. QED
    BY <2>1, <2>2, <1>4
<1>13. ASSUME NEW i \in 1 .. Len(s), i > Len(f) + Len(h)
       PROVE  /\ i - Len(f) - Len(h) \in 1 .. Len(o)
              /\ s[i] = o[i - Len(f) - Len(h)] /\ s[i][1] \in Var
              /\ c.shared[p] # Unset => s[i][1] # SHARED
  <2>1. i - Len(f) - Len(h) \in 1 .. Len(o)
    BY <1>3, <1>4, <1>5, <1>8, <1>13
  <2>2. s[i] = o[i - Len(f) - Len(h)]
    BY <1>3, <1>4, <1>9, <1>13
  <2>3. QED
    BY <2>1, <2>2, <1>5, <1>6
<1>14. \A i \in 1 .. Len(s) : s[i][1] = NESTED => s[i][2] \in Named(c)
  <2> SUFFICES ASSUME NEW i \in 1 .. Len(s), s[i][1] = NESTED PROVE s[i][2] \in Named(c)
    OBVIOUS
  <2>1. CASE i <= Len(f)
    BY <2>1, <1>11 DEF Named
  <2>2. CASE i > Len(f) /\ i <= Len(f) + Len(h)
    BY <2>2, <1>12, <1>1
  <2>3. CASE i > Len(f) + Len(h)
    BY <2>3, <1>13, <1>1
  <2>4. QED
    BY <2>1, <2>2, <2>3, <1>3, <1>4
<1>15. ASSUME NEW i \in 1 .. Len(s), NEW j \in 1 .. Len(s), i < j PROVE s[i][1] # s[j][1]
  <2>1. CASE j <= Len(f)
    BY <2>1, <1>11, <1>15, <1>3
  <2>2. CASE j > Len(f) /\ j <= Len(f) + Len(h)
    <3>1. i <= Len(f)
      BY <2>2, <1>12, <1>15, <1>3, <1>4
    <3>2. QED
      BY <3>1, <2>2, <1>11, <1>12, <1>1
  <2>3. CASE j > Len(f) + Len(h)
    <3>1. CASE i <= Len(f)
      BY <3>1, <2>3, <1>11, <1>13, <1>1
    <3>2. CASE i > Len(f) /\ i <= Len(f) + Len(h)
      BY <3>2, <2>3, <1>12, <1>13
    <3>3. CASE i > Len(f) + Len(h)
      <4>1. i - Len(f) - Len(h) # j - Len(f) - Len(h)
        BY <1>3, <1>4, <1>15
      <4>2. QED
        BY <4>1, <3>3, <2>3, <1>13, <1>6
    <3>4. QED
      BY <3>1, <3>2, <3>3, <1>3, <1>4
  <2>4. QED
    BY <2>1, <2>2, <2>3, <1>3, <1>4
<1>16. \A i, j \in 1 .. Len(s) : s[i][1] = s[j][1] => i = j
  <2> SUFFICES ASSUME NEW i \in 1 .. Len(s), NEW j \in 1 .. Len(s), s[i][1] = s[j][1] PROVE i = j
    OBVIOUS
  <2>1. i \in Int /\ j \in Int
    OBVIOUS
  <2>2. QED
    BY <2>1, <1>15
<1>17. QED
  BY <1>8, <1>10, <1>14, <1>16 DEF s

-----------------------------------------------------------------------------
(* The stack: a step changes the directory at its top, adds one, or leaves one. *)

LEMMA TopIsGood == StackInv => Good(project, Top) /\ Top \in Frame /\ Top = stack[Len(stack)]
BY DEF StackInv, Top, Good

LEMMA SetTopKeeps ==
  ASSUME StackInv, NEW d, SetTop(d), Good(project, d), project' = project
  PROVE  StackInv'
<1>1. d \in Frame
  BY DEF Good
<1>2. stack' \in Seq(Frame) /\ Len(stack') = Len(stack)
  BY <1>1 DEF StackInv, SetTop
<1>3. \A i \in 1 .. Len(stack) : stack'[i] = IF i = Len(stack) THEN d ELSE stack[i]
  BY DEF StackInv, SetTop
<1>4. QED
  BY <1>2, <1>3 DEF StackInv

LEMMA PushKeeps ==
  ASSUME StackInv, project' = project, NEW d, NEW e, Good(project, d), Good(project, e),
         stack' = Append([stack EXCEPT ![Len(stack)] = d], e)
  PROVE  StackInv'
<1>1. d \in Frame /\ e \in Frame
  BY DEF Good
<1> DEFINE s == [stack EXCEPT ![Len(stack)] = d]
<1>2. s \in Seq(Frame) /\ Len(s) = Len(stack)
  BY <1>1 DEF StackInv
<1>3. \A i \in 1 .. Len(stack) : s[i] = IF i = Len(stack) THEN d ELSE stack[i]
  BY DEF StackInv
<1> HIDE DEF s
<1>4. stack' = Append(s, e)
  BY DEF s
<1>5. stack' \in Seq(Frame) /\ Len(stack') = Len(stack) + 1
  <2>1. Append(s, e) \in Seq(Frame) /\ Len(Append(s, e)) = Len(s) + 1
    BY <1>1, <1>2
  <2>2. QED
    BY <2>1, <1>2, <1>4
<1>6. \A i \in 1 .. Len(stack') : stack'[i] = IF i = Len(stack) + 1 THEN e ELSE s[i]
  BY <1>1, <1>2, <1>4
<1>7. \A i \in 1 .. Len(stack') : Good(project, stack'[i])
  BY <1>3, <1>5, <1>6 DEF StackInv
<1>8. QED
  BY <1>5, <1>7 DEF StackInv

LEMMA PopKeeps ==
  ASSUME StackInv, project' = project, Len(stack) > 1,
         stack' = SubSeq(stack, 1, Len(stack) - 1)
  PROVE  StackInv'
<1>1. stack' \in Seq(Frame) /\ Len(stack') = Len(stack) - 1
  BY DEF StackInv
<1>2. \A i \in 1 .. Len(stack') : stack'[i] = stack[i]
  BY <1>1 DEF StackInv
<1>3. QED
  BY <1>1, <1>2 DEF StackInv

-----------------------------------------------------------------------------
\* The directories that the model starts.
LEMMA NewIsGood ==
  ASSUME NEW c, NEW x \in Package \cup {Root}, NEW values \in [AllVar -> Datum],
         NEW asks \in BOOLEAN, NEW todo \in Seq(Package), values[NESTED] \in Named(c)
  PROVE  Good(c, Directory(x, values, asks, todo))
<1> DEFINE d == Directory(x, values, asks, todo)
<1>1. d \in Frame
  BY DEF Directory, Frame, Datum
<1>2. d.start = values /\ d.values = values /\ d.at = "idle"
  BY DEF Directory
<1>3. QED
  BY <1>1, <1>2 DEF Good

LEMMA SInit == Init => SInv
<1> SUFFICES ASSUME Init, SetOnce(project) PROVE SInv
  BY DEF Init, SInv
<1>1. project \in Projects /\ project \in Project /\ project.file[Root] # Unset /\ NESTED \notin Var
  BY SubdirsAssumption DEF Init
<1> DEFINE values == [v \in AllVar |-> IF v # NESTED THEN project.given[v]
                                      ELSE IF project.active THEN Root ELSE Unset]
<1>2. values \in [AllVar -> Datum] /\ values[NESTED] \in Named(project)
  <2>1. project.given \in [Var -> Value \cup {Unset}]
    BY <1>1 DEF Project
  <2>2. \A v \in AllVar : values[v] \in Datum
    BY <2>1 DEF AllVar, Datum
  <2>3. values[NESTED] \in Named(project)
    BY <1>1 DEF AllVar, Named
  <2>4. QED
    BY <2>2, <2>3
<1>3. project.file[Root] \in Seq(Package)
  BY <1>1 DEF Project
<1> DEFINE d == Directory(Root, values, FALSE, project.file[Root])
<1>4. Good(project, d)
  BY <1>2, <1>3, NewIsGood
<1>5. stack = <<d>>
  BY DEF Init
<1> HIDE DEF d
<1>6. d \in Frame
  BY <1>4 DEF Good
<1>7. stack \in Seq(Frame) /\ Len(stack) = 1 /\ stack[1] = d
  BY <1>5, <1>6
<1>8. StackInv
  BY <1>1, <1>4, <1>7 DEF StackInv
<1>9. QED
  BY <1>1, <1>8 DEF SInv

-----------------------------------------------------------------------------
(* One lemma for each action, in a project that sets no variable twice.    *)

LEMMA SetsAre == \A p : Sets(p) = SetsOf(project, p)
BY DEF Sets, SetsOf, FileOf, SharedOf

LEMMA SetupStep == StackInv /\ Setup => StackInv'
<1> SUFFICES ASSUME StackInv, Setup PROVE StackInv'
  OBVIOUS
<1> DEFINE named == Top.values[NESTED]
           listed == IF named = Unset THEN <<>> ELSE project.file[named]
           d == [Top EXCEPT !.asks = FALSE, !.todo = listed]
<1>1. Good(project, Top) /\ Top \in Frame /\ project \in Project
  BY TopIsGood, SubdirsAssumption DEF StackInv
<1>2. listed \in Seq(Package)
  <2>1. named \in Named(project)
    BY <1>1 DEF Good
  <2>2. ASSUME named # Unset PROVE project.file[named] \in Seq(Package)
    BY <2>1, <2>2, <1>1 DEF Named, Project
  <2>3. QED
    BY <2>2
<1>3. /\ d \in Frame /\ d.at = "idle" /\ d.asks = FALSE
      /\ d.values = Top.values /\ d.start = Top.start /\ Top.values = Top.start
  <2>1. Top.at = "idle" /\ Top.values = Top.start
    BY <1>1 DEF Good, Setup
  <2> HIDE DEF listed
  <2>2. d \in Frame
    BY <1>1, <1>2 DEF Frame
  <2>3. QED
    BY <1>1, <2>1, <2>2 DEF Frame
<1>4. SetTop(d) /\ project' = project
  BY DEF Setup
<1> HIDE DEF d
<1>5. Good(project, d)
  BY <1>1, <1>3 DEF Good
<1>6. QED
  BY <1>4, <1>5, SetTopKeeps

LEMMA SkipStep == StackInv /\ Skip => StackInv'
<1> SUFFICES ASSUME StackInv, Skip PROVE StackInv'
  OBVIOUS
<1> DEFINE d == [Top EXCEPT !.todo = Tail(@)]
<1>1. Good(project, Top) /\ Top \in Frame /\ Top.at = "idle" /\ Top.todo # <<>>
  BY TopIsGood DEF Skip, Idle
<1>2. Tail(Top.todo) \in Seq(Package)
  BY <1>1 DEF Frame
<1>3. Good(project, d)
  BY <1>1, <1>2 DEF Good, Frame
<1>4. QED
  BY <1>3, SetTopKeeps DEF Skip

LEMMA BeginStep == StackInv /\ Begin => StackInv'
<1> SUFFICES ASSUME StackInv, Begin PROVE StackInv'
  OBVIOUS
<1> DEFINE d == [Top EXCEPT !.at = "set", !.k = 1]
<1>1. Good(project, Top) /\ Top \in Frame /\ Top.at = "idle" /\ Top.todo # <<>>
  BY TopIsGood DEF Begin, Idle
<1>2. SetsOf(project, Head(Top.todo)) \in Seq(AllVar \X Datum)
  BY <1>1, SetsAreOnce DEF StackInv, Frame
<1>3. /\ d \in Frame /\ d.at = "set" /\ d.k = 1 /\ d.asks = FALSE /\ d.todo = Top.todo
      /\ d.values = Top.values /\ d.start = Top.start
  BY <1>1 DEF Frame, Begin, Idle
<1>4. SetTop(d) /\ project' = project
  BY DEF Begin
<1> HIDE DEF d
<1>5. Saved(project, d, 0) /\ Kept(project, d, 0)
  BY <1>1, <1>3 DEF Saved, Kept, Good
<1>6. Good(project, d)
  BY <1>1, <1>2, <1>3, <1>5 DEF Good
<1>7. QED
  BY <1>4, <1>6, SetTopKeeps

\* What the block at the top sets.
LEMMA TopSetsAreOnce ==
  ASSUME StackInv, Top.todo # <<>>
  PROVE  LET s == SetsOf(project, Head(Top.todo))
         IN /\ s \in Seq(AllVar \X Datum)
            /\ \A i \in 1 .. Len(s) : s[i][1] \in AllVar /\ s[i][2] \in Datum
            /\ \A i \in 1 .. Len(s) : s[i][1] = NESTED => s[i][2] \in Named(project)
            /\ \A i, j \in 1 .. Len(s) : s[i][1] = s[j][1] => i = j
            /\ \A j : KeyOf(project, Top, j) = s[j][1]
            /\ Sets(First) = s
<1>1. Head(Top.todo) \in Package
  BY TopIsGood DEF Frame
<1>2. project \in Projects /\ SetOnce(project)
  BY DEF StackInv
<1>3. Sets(First) = SetsOf(project, Head(Top.todo))
  BY SetsAre DEF First
<1>4. \A j : KeyOf(project, Top, j) = SetsOf(project, Head(Top.todo))[j][1]
  BY DEF KeyOf
<1>5. QED
  BY <1>1, <1>2, <1>3, <1>4, SetsAreOnce

LEMMA SetOneStep == StackInv /\ SetOne => StackInv'
<1> SUFFICES ASSUME StackInv, SetOne PROVE StackInv'
  OBVIOUS
<1> DEFINE s == SetsOf(project, Head(Top.todo))
           k == Top.k
           v == s[k][1]
           d == [Top EXCEPT !.k = @ + 1, !.had[v] = SavedAs(v),
                            !.save[v] = IF Top.values[v] # Unset THEN Top.values[v] ELSE Empty,
                            !.values[v] = s[k][2]]
<1>1. Good(project, Top) /\ Top \in Frame /\ Top.at = "set" /\ Top.todo # <<>>
  BY TopIsGood DEF SetOne, Good
<1>2. /\ s \in Seq(AllVar \X Datum)
      /\ \A i \in 1 .. Len(s) : s[i][1] \in AllVar /\ s[i][2] \in Datum
      /\ \A i \in 1 .. Len(s) : s[i][1] = NESTED => s[i][2] \in Named(project)
      /\ \A i, j \in 1 .. Len(s) : s[i][1] = s[j][1] => i = j
      /\ \A j : KeyOf(project, Top, j) = s[j][1]
      /\ Sets(First) = s
  BY <1>1, TopSetsAreOnce
<1> HIDE DEF s
<1>3. k \in 1 .. Len(s) /\ SetTop(d) /\ project' = project
  <2>1. k \in 1 .. Len(s)
    <3>1. k <= Len(s)
      BY <1>2, Zenon DEF SetOne
    <3>2. k \in 1 .. Len(s) + 1 /\ Len(s) \in Nat
      BY <1>1, <1>2 DEF Good, s
    <3>3. QED
      BY <3>1, <3>2
  <2>2. SetTop(d) /\ project' = project
    BY <1>2, Zenon DEF SetOne
  <2>3. QED
    BY <2>1, <2>2
<1>4. v \in AllVar /\ s[k][2] \in Datum /\ v = KeyOf(project, Top, k)
  BY <1>2, <1>3
<1>5. Top.values[v] = Top.start[v]
  <2>1. \A j \in 1 .. k - 1 : KeyOf(project, Top, j) # v
    BY <1>2, <1>3
  <2>2. Kept(project, Top, k - 1)
    BY <1>1 DEF Good
  <2>3. QED
    BY <1>4, <2>1, <2>2 DEF Kept
<1>6. /\ d \in Frame /\ d.at = "set" /\ d.k = k + 1 /\ d.todo = Top.todo
      /\ d.start = Top.start /\ d.asks = Top.asks
      /\ d.values = [Top.values EXCEPT ![v] = s[k][2]]
      /\ d.had = [Top.had EXCEPT ![v] = Top.start[v] # Unset]
      /\ d.save = [Top.save EXCEPT ![v] = IF Top.start[v] # Unset THEN Top.start[v] ELSE Empty]
  <2>1. SavedAs(v) <=> Top.start[v] # Unset
    BY <1>5 DEF SavedAs
  <2>2. d = [Top EXCEPT !.k = @ + 1, !.had = [@ EXCEPT ![v] = SavedAs(v)],
                        !.save = [@ EXCEPT ![v] = IF Top.start[v] # Unset THEN Top.start[v] ELSE Empty],
                        !.values = [@ EXCEPT ![v] = s[k][2]]]
    BY <1>1, <1>5 DEF Frame
  <2> DEFINE values == [Top.values EXCEPT ![v] = s[k][2]]
             had == [Top.had EXCEPT ![v] = SavedAs(v)]
             save == [Top.save EXCEPT ![v] = IF Top.start[v] # Unset THEN Top.start[v] ELSE Empty]
  <2>3. /\ values \in [AllVar -> Datum] /\ save \in [AllVar -> Datum]
        /\ had \in [AllVar -> BOOLEAN] /\ k + 1 \in Nat
    BY <1>1, <1>3, <1>4, <1>5 DEF Frame, Datum, SavedAs
  <2>4. d = [Top EXCEPT !.k = k + 1, !.had = had, !.save = save, !.values = values]
    BY <2>2
  <2>5. had = [Top.had EXCEPT ![v] = Top.start[v] # Unset]
    BY <1>5 DEF SavedAs
  <2> HIDE DEF d, values, had, save, v
  <2>6. /\ d \in Frame /\ d.at = Top.at /\ d.k = k + 1 /\ d.todo = Top.todo
        /\ d.start = Top.start /\ d.asks = Top.asks
        /\ d.values = values /\ d.had = had /\ d.save = save
    BY <1>1, <2>3, <2>4 DEF Frame
  <2>7. QED
    BY <1>1, <2>5, <2>6 DEF values, save
<1> HIDE DEF d, v, k
<1>7. \A j : KeyOf(project, d, j) = KeyOf(project, Top, j)
  BY <1>6 DEF KeyOf
<1>8. /\ d.values[v] = s[k][2] /\ \A x \in AllVar \ {v} : d.values[x] = Top.values[x]
      /\ d.had[v] <=> Top.start[v] # Unset
      /\ \A x \in AllVar \ {v} : d.had[x] <=> Top.had[x]
      /\ Top.start[v] # Unset => d.save[v] = Top.start[v]
      /\ \A x \in AllVar \ {v} : d.save[x] = Top.save[x]
  BY <1>1, <1>4, <1>6 DEF Frame
<1>9. \A j \in 1 .. k - 1 : KeyOf(project, Top, j) \in AllVar \ {v}
  BY <1>2, <1>3, <1>4 DEF v, k
<1>10. Saved(project, d, k)
  <2> SUFFICES ASSUME NEW j \in 1 .. k
               PROVE  LET x == KeyOf(project, Top, j)
                      IN /\ d.had[x] <=> Top.start[x] # Unset
                         /\ Top.start[x] # Unset => d.save[x] = Top.start[x]
    BY <1>6, <1>7 DEF Saved
  <2>1. CASE j = k
    BY <2>1, <1>4, <1>8
  <2>2. CASE j # k
    <3>1. Saved(project, Top, k - 1) /\ j \in 1 .. k - 1
      BY <2>2, <1>1, <1>3 DEF Good, k
    <3>2. QED
      BY <3>1, <1>8, <1>9 DEF Saved
  <2>3. QED
    BY <2>1, <2>2
<1>11. Kept(project, d, k)
  <2> SUFFICES ASSUME NEW x \in AllVar, \A j \in 1 .. k : KeyOf(project, Top, j) # x
               PROVE  d.values[x] = Top.start[x]
    BY <1>6, <1>7 DEF Kept
  <2>1. x # v /\ \A j \in 1 .. k - 1 : KeyOf(project, Top, j) # x
    BY <1>3, <1>4
  <2>2. Kept(project, Top, k - 1)
    BY <1>1 DEF Good, k
  <2>3. QED
    BY <2>1, <2>2, <1>8 DEF Kept
<1>12. d.values[NESTED] \in Named(project) /\ d.start[NESTED] \in Named(project)
  <2>1. NESTED \in AllVar
    BY DEF AllVar
  <2>2. CASE v = NESTED
    BY <2>2, <1>1, <1>2, <1>3, <1>6, <1>8 DEF Good, v
  <2>3. CASE v # NESTED
    BY <2>1, <2>3, <1>1, <1>6, <1>8 DEF Good
  <2>4. QED
    BY <2>2, <2>3
<1>13. Good(project, d)
  <2>1. d.k - 1 = k /\ d.k \in 1 .. Len(SetsOf(project, Head(d.todo))) + 1
    BY <1>3, <1>6 DEF s
  <2>2. d.asks => d.at = "idle"
    BY <1>1, <1>6 DEF Good
  <2>3. QED
    BY <2>1, <2>2, <1>1, <1>6, <1>10, <1>11, <1>12 DEF Good
<1>14. QED
  BY <1>3, <1>13, SetTopKeeps

LEMMA RestoreOneStep == StackInv /\ RestoreOne => StackInv'
<1> SUFFICES ASSUME StackInv, RestoreOne PROVE StackInv'
  OBVIOUS
<1> DEFINE s == SetsOf(project, Head(Top.todo))
           k == Top.k
           v == s[k][1]
           d == [Top EXCEPT !.k = @ - 1, !.values[v] = IF Top.had[v] THEN Top.save[v] ELSE Unset]
<1>1. Good(project, Top) /\ Top \in Frame /\ Top.at = "restore" /\ Top.todo # <<>>
  BY TopIsGood DEF RestoreOne, Good
<1>2. /\ s \in Seq(AllVar \X Datum)
      /\ \A i \in 1 .. Len(s) : s[i][1] \in AllVar
      /\ \A j : KeyOf(project, Top, j) = s[j][1]
      /\ Sets(First) = s
  BY <1>1, TopSetsAreOnce
<1>3. k \in 1 .. Len(s) /\ SetTop(d) /\ project' = project
  <2>1. k \in 1 .. Len(s)
    BY <1>1, <1>2 DEF RestoreOne, Good
  <2> HIDE DEF s
  <2>2. SetTop(d) /\ project' = project
    BY <1>2, Zenon DEF RestoreOne
  <2>3. QED
    BY <2>1, <2>2
<1>4. v \in AllVar /\ v = KeyOf(project, Top, k)
  BY <1>2, <1>3
<1>5. Saved(project, Top, k) /\ Kept(project, Top, k)
  BY <1>1 DEF Good
<1> HIDE DEF s, v
<1>6. (IF Top.had[v] THEN Top.save[v] ELSE Unset) = Top.start[v]
  BY <1>3, <1>4, <1>5 DEF Saved
<1>7. /\ d \in Frame /\ d.at = "restore" /\ d.k = k - 1 /\ d.todo = Top.todo
      /\ d.start = Top.start /\ d.asks = Top.asks /\ d.had = Top.had /\ d.save = Top.save
      /\ d.values = [Top.values EXCEPT ![v] = Top.start[v]]
  <2>1. d = [Top EXCEPT !.k = @ - 1, !.values = [@ EXCEPT ![v] = Top.start[v]]]
    BY <1>1, <1>6 DEF Frame
  <2> DEFINE values == [Top.values EXCEPT ![v] = Top.start[v]]
  <2>2. values \in [AllVar -> Datum] /\ k - 1 \in Nat
    BY <1>1, <1>3, <1>4 DEF Frame
  <2>3. d = [Top EXCEPT !.k = k - 1, !.values = values]
    BY <2>1
  <2> HIDE DEF d, values
  <2>4. /\ d \in Frame /\ d.at = Top.at /\ d.k = k - 1 /\ d.todo = Top.todo
        /\ d.start = Top.start /\ d.asks = Top.asks /\ d.had = Top.had /\ d.save = Top.save
        /\ d.values = values
    BY <1>1, <2>2, <2>3 DEF Frame
  <2>5. QED
    BY <1>1, <2>4 DEF values
<1> HIDE DEF d, k
<1>8. \A j : KeyOf(project, d, j) = KeyOf(project, Top, j)
  BY <1>7 DEF KeyOf
<1>9. d.values[v] = Top.start[v] /\ \A x \in AllVar \ {v} : d.values[x] = Top.values[x]
  BY <1>1, <1>4, <1>7 DEF Frame
<1>10. Saved(project, d, k - 1)
  BY <1>3, <1>5, <1>7, <1>8 DEF Saved
<1>11. Kept(project, d, k - 1)
  <2> SUFFICES ASSUME NEW x \in AllVar, \A j \in 1 .. k - 1 : KeyOf(project, Top, j) # x, x # v
               PROVE  d.values[x] = Top.start[x]
    BY <1>7, <1>8, <1>9 DEF Kept
  <2>1. \A j \in 1 .. k : KeyOf(project, Top, j) # x
    BY <1>3, <1>4
  <2>2. QED
    BY <2>1, <1>5, <1>9 DEF Kept
<1>12. d.values[NESTED] \in Named(project) /\ d.start[NESTED] \in Named(project)
  <2>1. NESTED \in AllVar
    BY DEF AllVar
  <2>2. QED
    BY <2>1, <1>1, <1>7, <1>9 DEF Good
<1>13. Good(project, d)
  <2>1. d.k \in 0 .. Len(SetsOf(project, Head(d.todo)))
    BY <1>3, <1>7 DEF s
  <2>2. d.asks => d.at = "idle"
    BY <1>1, <1>7 DEF Good
  <2>3. QED
    BY <2>1, <2>2, <1>1, <1>7, <1>10, <1>11, <1>12 DEF Good
<1>14. QED
  BY <1>3, <1>13, SetTopKeeps

LEMMA AddSubdirectoryStep == StackInv /\ AddSubdirectory => StackInv'
<1> SUFFICES ASSUME StackInv, AddSubdirectory PROVE StackInv'
  OBVIOUS
<1> DEFINE s == SetsOf(project, Head(Top.todo))
           d == [Top EXCEPT !.at = "restore", !.k = Len(s)]
           e == Directory(First, Top.values, project.asks[First], <<>>)
<1>1. Good(project, Top) /\ Top \in Frame /\ Top.at = "set" /\ Top.todo # <<>>
  BY TopIsGood DEF AddSubdirectory, Good
<1>2. s \in Seq(AllVar \X Datum) /\ Sets(First) = s
  BY <1>1, TopSetsAreOnce
<1>3. First \in Package /\ project \in Project
  BY <1>1, SubdirsAssumption DEF First, Frame, StackInv
<1>4. Good(project, e)
  <2>1. Top.values \in [AllVar -> Datum] /\ project.asks[First] \in BOOLEAN
    BY <1>1, <1>3 DEF Frame, Project
  <2>2. Top.values[NESTED] \in Named(project)
    BY <1>1 DEF Good
  <2>3. \A values \in [AllVar -> Datum], asks \in BOOLEAN :
          values[NESTED] \in Named(project) => Good(project, Directory(First, values, asks, <<>>))
    <3> SUFFICES ASSUME NEW values \in [AllVar -> Datum], NEW asks \in BOOLEAN, values[NESTED] \in Named(project)
                 PROVE  Good(project, Directory(First, values, asks, <<>>))
      OBVIOUS
    <3> DEFINE x == First
               todo == <<>>
    <3>1. x \in Package \cup {Root} /\ todo \in Seq(Package)
      BY <1>3
    <3> HIDE DEF x, todo
    <3>2. Good(project, Directory(x, values, asks, todo))
      BY <3>1, NewIsGood
    <3>3. QED
      BY <3>2 DEF x, todo
  <2>4. QED
    BY <2>1, <2>2, <2>3, Zenon
<1>5. /\ d \in Frame /\ d.at = "restore" /\ d.k = Len(s) /\ d.todo = Top.todo
      /\ d.start = Top.start /\ d.asks = Top.asks /\ d.values = Top.values
      /\ d.had = Top.had /\ d.save = Top.save
  <2>1. Len(s) \in Nat
    BY <1>2
  <2> HIDE DEF s
  <2>2. QED
    BY <1>1, <2>1 DEF Frame
<1>6. Top.k = Len(s) + 1
  <2>1. Top.k > Len(s)
    BY <1>2, Zenon DEF AddSubdirectory
  <2>2. Top.k \in 1 .. Len(s) + 1 /\ Len(s) \in Nat
    BY <1>1, <1>2 DEF Good
  <2>3. QED
    BY <2>1, <2>2
<1>7. stack' = Append([stack EXCEPT ![Len(stack)] = d], e) /\ project' = project
  <2>1. [stack EXCEPT ![Len(stack)].at = "restore", ![Len(stack)].k = Len(s)]
          = [stack EXCEPT ![Len(stack)] = d]
    BY DEF Top, StackInv
  <2>2. QED
    BY <1>2, <2>1, Zenon DEF AddSubdirectory
<1> HIDE DEF d, e
<1>8. \A j : KeyOf(project, d, j) = KeyOf(project, Top, j)
  BY <1>5 DEF KeyOf
<1>9. Saved(project, d, Len(s)) /\ Kept(project, d, Len(s))
  <2>1. Top.k - 1 = Len(s) /\ Saved(project, Top, Top.k - 1) /\ Kept(project, Top, Top.k - 1)
    BY <1>1, <1>2, <1>6 DEF Good
  <2>2. Saved(project, Top, Len(s)) /\ Kept(project, Top, Len(s))
    BY <2>1
  <2> HIDE DEF s
  <2>3. QED
    BY <2>2, <1>5, <1>8 DEF Saved, Kept
<1>10. Good(project, d)
  <2>1. d.k \in 0 .. Len(SetsOf(project, Head(d.todo)))
    BY <1>2, <1>5
  <2>2. (d.asks => d.at = "idle") /\ d.values[NESTED] \in Named(project) /\ d.start[NESTED] \in Named(project)
    BY <1>1, <1>5 DEF Good
  <2> HIDE DEF s
  <2>3. QED
    BY <2>1, <2>2, <1>1, <1>5, <1>9 DEF Good
<1>11. QED
  BY <1>4, <1>7, <1>10, PushKeeps

LEMMA EndStep == StackInv /\ End => StackInv'
<1> SUFFICES ASSUME StackInv, End PROVE StackInv'
  OBVIOUS
<1> DEFINE d == [Top EXCEPT !.at = "idle", !.todo = Tail(@)]
<1>1. Good(project, Top) /\ Top \in Frame /\ Top.at = "restore" /\ Top.k = 0 /\ Top.todo # <<>>
  BY TopIsGood DEF End, Good
<1>2. Tail(Top.todo) \in Seq(Package)
  BY <1>1 DEF Frame
<1>3. Top.values = Top.start
  <2>1. \A v \in AllVar : Top.values[v] = Top.start[v]
    BY <1>1 DEF Good, Kept
  <2>2. QED
    BY <1>1, <2>1 DEF Frame
<1>4. /\ d \in Frame /\ d.at = "idle" /\ d.start = Top.start /\ d.values = Top.values
  BY <1>1, <1>2 DEF Frame
<1>5. SetTop(d) /\ project' = project
  BY DEF End
<1> HIDE DEF d
<1>6. Good(project, d)
  BY <1>1, <1>3, <1>4 DEF Good
<1>7. QED
  BY <1>5, <1>6, SetTopKeeps

LEMMA ReturnStep == StackInv /\ Return => StackInv'
BY PopKeeps DEF Return

LEMMA SInvStep == SInv /\ [Next]_vars => SInv'
<1> SUFFICES ASSUME SInv, [Next]_vars PROVE SInv'
  OBVIOUS
<1>1. project' = project
  BY DEF Next, vars, Setup, Skip, Begin, SetOne, AddSubdirectory, Return, RestoreOne, End
<1>2. SetOnce(project)' <=> SetOnce(project)
  BY <1>1
<1>3. StackInv => StackInv'
  <2>1. StackInv /\ UNCHANGED vars => StackInv'
    BY DEF StackInv, vars
  <2>2. QED
    BY <2>1, SetupStep, SkipStep, BeginStep, SetOneStep, AddSubdirectoryStep, ReturnStep,
       RestoreOneStep, EndStep DEF Next
<1>4. QED
  BY <1>1, <1>2, <1>3 DEF SInv

\* The invariant, for any project (generator.rs:455-474).
THEOREM SubdirsInvariant == Spec => []SInv
BY SInit, SInvStep, PTL DEF Spec

\* Whatever packages are added, in packages within each other, every variable has its value
\* back after each, if none of them sets a variable by two fields (generator.rs:468-474).
THEOREM RestoreTheorem == Spec => []RestoresAllSetOnce
<1>1. SInv => RestoresAllSetOnce
  <2> SUFFICES ASSUME SInv, NoneTwice, Top.at = "idle" PROVE Top.values = Top.start
    BY DEF RestoresAllSetOnce
  <2>1. SetOnce(project)
    BY DEF SetOnce, NoneTwice, OptionKeys
  <2>2. QED
    BY <2>1, TopIsGood DEF SInv, Good
<1>2. QED
  BY <1>1, SubdirsInvariant, PTL

-----------------------------------------------------------------------------
(* What a package is read with.                                            *)

\* The first n of the variables have the package's values.
SetSoFar(c, d, n) ==
  \A j \in 1 .. n : d.values[KeyOf(c, d, j)] = SetsOf(c, Head(d.todo))[j][2]

\* A directory of q begins with what its block sets, and for the rest with what the directory
\* around it began with.
Sees(c, outer, q, start) ==
  LET s == SetsOf(c, q)
  IN /\ \A j \in 1 .. Len(s) : start[s[j][1]] = s[j][2]
     /\ \A v \in AllVar : (\A j \in 1 .. Len(s) : s[j][1] # v) => start[v] = outer[v]

SeenInv ==
  /\ \A i \in 1 .. Len(stack) :
       stack[i].at = "set" => SetSoFar(project, stack[i], stack[i].k - 1)
  /\ \A i \in 2 .. Len(stack) :
       /\ stack[i].dir \in Package
       /\ Sees(project, stack[i - 1].start, stack[i].dir, stack[i].start)

LEMMA SetTopSeen ==
  ASSUME StackInv, SeenInv, NEW d, SetTop(d), project' = project,
         d.start = Top.start, d.dir = Top.dir,
         d.at = "set" => SetSoFar(project, d, d.k - 1)
  PROVE  SeenInv'
<1>1. Len(stack') = Len(stack) /\ Len(stack) \in Nat
  BY DEF StackInv, SetTop
<1>2. \A i \in 1 .. Len(stack) : stack'[i] = IF i = Len(stack) THEN d ELSE stack[i]
  BY DEF StackInv, SetTop
<1>3. \A i \in 1 .. Len(stack) : stack'[i].start = stack[i].start /\ stack'[i].dir = stack[i].dir
  BY <1>2 DEF Top
<1>4. \A i \in 1 .. Len(stack) : stack'[i].at = "set" => SetSoFar(project, stack'[i], stack'[i].k - 1)
  BY <1>2 DEF SeenInv
<1>5. ASSUME NEW i \in 2 .. Len(stack)
      PROVE  /\ stack'[i].dir \in Package
             /\ Sees(project, stack'[i - 1].start, stack'[i].dir, stack'[i].start)
  <2>1. i \in 1 .. Len(stack) /\ i - 1 \in 1 .. Len(stack)
    BY <1>1
  <2>2. /\ stack'[i].dir = stack[i].dir /\ stack'[i].start = stack[i].start
        /\ stack'[i - 1].start = stack[i - 1].start
    BY <2>1, <1>3
  <2>3. QED
    BY <2>2 DEF SeenInv
<1>6. QED
  BY <1>1, <1>4, <1>5 DEF SeenInv

LEMMA PushSeen ==
  ASSUME StackInv, SeenInv, project' = project, NEW d \in Frame, NEW e \in Frame,
         stack' = Append([stack EXCEPT ![Len(stack)] = d], e),
         d.start = Top.start, d.dir = Top.dir, d.at = "restore", e.at = "idle",
         e.dir \in Package, Sees(project, Top.start, e.dir, e.start)
  PROVE  SeenInv'
<1> DEFINE s == [stack EXCEPT ![Len(stack)] = d]
<1>1. s \in Seq(Frame) /\ Len(s) = Len(stack) /\ Len(stack) \in Nat /\ Len(stack) >= 1
  BY DEF StackInv
<1>2. \A i \in 1 .. Len(stack) : s[i] = IF i = Len(stack) THEN d ELSE stack[i]
  BY DEF StackInv
<1> HIDE DEF s
<1>3. stack' = Append(s, e)
  BY DEF s
<1>4. Len(stack') = Len(stack) + 1
  BY <1>1, <1>3
<1>5. \A i \in 1 .. Len(stack) : stack'[i] = s[i]
  BY <1>1, <1>3
<1>6. stack'[Len(stack) + 1] = e
  BY <1>1, <1>3
<1>7. \A i \in 1 .. Len(stack) : stack'[i].start = stack[i].start /\ stack'[i].dir = stack[i].dir
  BY <1>2, <1>5 DEF Top
<1>8. ASSUME NEW i \in 1 .. Len(stack'), stack'[i].at = "set"
      PROVE  SetSoFar(project, stack'[i], stack'[i].k - 1)
  <2>1. i \in 1 .. Len(stack) /\ i # Len(stack)
    BY <1>1, <1>2, <1>4, <1>5, <1>6, <1>8
  <2>2. stack'[i] = stack[i]
    BY <2>1, <1>2, <1>5
  <2>3. QED
    BY <2>1, <2>2, <1>8 DEF SeenInv
<1>9. ASSUME NEW i \in 2 .. Len(stack')
      PROVE  /\ stack'[i].dir \in Package
             /\ Sees(project, stack'[i - 1].start, stack'[i].dir, stack'[i].start)
  <2>1. CASE i = Len(stack) + 1
    <3>1. stack'[i] = e /\ i - 1 = Len(stack) /\ Len(stack) \in 1 .. Len(stack)
      BY <2>1, <1>1, <1>6
    <3>2. stack'[i - 1].start = Top.start
      BY <3>1, <1>7 DEF Top
    <3>3. QED
      BY <3>1, <3>2
  <2>2. CASE i # Len(stack) + 1
    <3>1. i \in 2 .. Len(stack) /\ i \in 1 .. Len(stack) /\ i - 1 \in 1 .. Len(stack)
      BY <2>2, <1>1, <1>4
    <3>2. /\ stack'[i].dir = stack[i].dir /\ stack'[i].start = stack[i].start
          /\ stack'[i - 1].start = stack[i - 1].start
      BY <3>1, <1>7
    <3>3. QED
      BY <3>1, <3>2 DEF SeenInv
  <2>3. QED
    BY <2>1, <2>2
<1>10. QED
  BY <1>8, <1>9 DEF SeenInv

LEMMA PopSeen ==
  ASSUME StackInv, SeenInv, Len(stack) > 1, project' = project,
         stack' = SubSeq(stack, 1, Len(stack) - 1)
  PROVE  SeenInv'
<1>1. Len(stack') = Len(stack) - 1 /\ Len(stack) \in Nat
  BY DEF StackInv
<1>2. \A i \in 1 .. Len(stack') : stack'[i] = stack[i]
  BY <1>1 DEF StackInv
<1>3. \A i \in 2 .. Len(stack') : i \in 2 .. Len(stack) /\ i \in 1 .. Len(stack') /\ i - 1 \in 1 .. Len(stack')
  BY <1>1
<1>4. \A i \in 1 .. Len(stack') : i \in 1 .. Len(stack)
  BY <1>1
<1>5. QED
  BY <1>2, <1>3, <1>4 DEF SeenInv

\* A step that sets no variable of a block.
LEMMA OtherSeen ==
  ASSUME StackInv, SeenInv, Setup \/ Skip \/ Begin \/ RestoreOne \/ End
  PROVE  SeenInv'
<1>1. Good(project, Top) /\ Top \in Frame
  BY TopIsGood
<1>2. CASE Setup
  <2> DEFINE named == Top.values[NESTED]
             listed == IF named = Unset THEN <<>> ELSE project.file[named]
             d == [Top EXCEPT !.asks = FALSE, !.todo = listed]
  <2>1. d.start = Top.start /\ d.dir = Top.dir /\ d.at = Top.at
    BY <1>1 DEF Frame
  <2>2. Top.at = "idle" /\ SetTop(d) /\ project' = project
    BY <1>1, <1>2 DEF Good, Setup
  <2> HIDE DEF d
  <2>3. QED
    BY <2>1, <2>2, SetTopSeen
<1>3. CASE Skip
  <2> DEFINE d == [Top EXCEPT !.todo = Tail(@)]
  <2>1. d.start = Top.start /\ d.dir = Top.dir /\ d.at = Top.at
    BY <1>1 DEF Frame
  <2>2. Top.at = "idle" /\ SetTop(d) /\ project' = project
    BY <1>3 DEF Skip, Idle
  <2> HIDE DEF d
  <2>3. QED
    BY <2>1, <2>2, SetTopSeen
<1>4. CASE Begin
  <2> DEFINE d == [Top EXCEPT !.at = "set", !.k = 1]
  <2>1. d.start = Top.start /\ d.dir = Top.dir /\ d.k = 1
    BY <1>1 DEF Frame
  <2>2. SetTop(d) /\ project' = project
    BY <1>4 DEF Begin
  <2> HIDE DEF d
  <2>3. SetSoFar(project, d, d.k - 1)
    BY <2>1 DEF SetSoFar
  <2>4. QED
    BY <2>1, <2>2, <2>3, SetTopSeen
<1>5. CASE RestoreOne
  <2> DEFINE v == Sets(First)[Top.k][1]
             d == [Top EXCEPT !.k = @ - 1, !.values[v] = IF Top.had[v] THEN Top.save[v] ELSE Unset]
  <2>1. d.start = Top.start /\ d.dir = Top.dir /\ d.at = Top.at
    BY <1>1 DEF Frame
  <2>2. Top.at = "restore" /\ SetTop(d) /\ project' = project
    BY <1>5 DEF RestoreOne
  <2> HIDE DEF d
  <2>3. QED
    BY <2>1, <2>2, SetTopSeen
<1>6. CASE End
  <2> DEFINE d == [Top EXCEPT !.at = "idle", !.todo = Tail(@)]
  <2>1. d.start = Top.start /\ d.dir = Top.dir /\ d.at = "idle"
    BY <1>1 DEF Frame
  <2>2. SetTop(d) /\ project' = project
    BY <1>6 DEF End
  <2> HIDE DEF d
  <2>3. QED
    BY <2>1, <2>2, SetTopSeen
<1>7. QED
  BY <1>2, <1>3, <1>4, <1>5, <1>6

LEMMA SetOneSeen == StackInv /\ SeenInv /\ SetOne => SeenInv'
<1> SUFFICES ASSUME StackInv, SeenInv, SetOne PROVE SeenInv'
  OBVIOUS
<1> DEFINE s == SetsOf(project, Head(Top.todo))
           k == Top.k
           v == s[k][1]
           d == [Top EXCEPT !.k = @ + 1, !.had[v] = SavedAs(v),
                            !.save[v] = IF Top.values[v] # Unset THEN Top.values[v] ELSE Empty,
                            !.values[v] = s[k][2]]
<1>1. Good(project, Top) /\ Top \in Frame /\ Top.at = "set" /\ Top.todo # <<>>
  BY TopIsGood DEF SetOne, Good
<1>2. /\ s \in Seq(AllVar \X Datum)
      /\ \A i \in 1 .. Len(s) : s[i][1] \in AllVar /\ s[i][2] \in Datum
      /\ \A i, j \in 1 .. Len(s) : s[i][1] = s[j][1] => i = j
      /\ \A j : KeyOf(project, Top, j) = s[j][1]
      /\ Sets(First) = s
  BY <1>1, TopSetsAreOnce
<1>3. k \in Nat /\ k <= Len(s) /\ k \in 1 .. Len(s) /\ SetTop(d) /\ project' = project
  <2> HIDE DEF s
  <2>1. k <= Len(s) /\ SetTop(d) /\ project' = project
    BY <1>2, Zenon DEF SetOne
  <2>2. k \in 1 .. Len(s) + 1 /\ Len(s) \in Nat
    BY <1>1, <1>2 DEF Good, s
  <2>3. QED
    BY <2>1, <2>2
<1>4. SetSoFar(project, Top, k - 1)
  <2>1. Top = stack[Len(stack)] /\ Len(stack) \in 1 .. Len(stack)
    BY DEF Top, StackInv
  <2>2. QED
    BY <2>1, <1>1 DEF SeenInv
<1>5. /\ d.start = Top.start /\ d.dir = Top.dir /\ d.k = k + 1 /\ d.todo = Top.todo
      /\ d.values = [Top.values EXCEPT ![v] = s[k][2]]
  <2> HIDE DEF s
  <2>1. QED
    BY <1>1 DEF Frame
<1> HIDE DEF d
<1>6. SetSoFar(project, d, d.k - 1)
  <2>1. \A j : KeyOf(project, d, j) = s[j][1]
    BY <1>5 DEF KeyOf
  <2> SUFFICES ASSUME NEW j \in 1 .. k PROVE d.values[s[j][1]] = s[j][2]
    BY <2>1, <1>3, <1>5 DEF SetSoFar
  <2> HIDE DEF s, k, v
  <2>2. s[j][1] \in AllVar /\ v \in AllVar /\ v = s[k][1]
    BY <1>2, <1>3 DEF v
  <2>3. CASE j = k
    BY <2>2, <2>3, <1>1, <1>5 DEF Frame
  <2>4. CASE j # k
    <3>1. j \in 1 .. k - 1 /\ s[j][1] # v
      BY <2>2, <2>4, <1>2, <1>3
    <3>2. Top.values[s[j][1]] = s[j][2]
      BY <3>1, <1>2, <1>4 DEF SetSoFar, s
    <3>3. QED
      BY <3>1, <3>2, <2>2, <1>1, <1>5 DEF Frame
  <2>5. QED
    BY <2>3, <2>4
<1>7. QED
  BY <1>3, <1>5, <1>6, SetTopSeen

LEMMA AddSubdirectorySeen == StackInv /\ SeenInv /\ AddSubdirectory => SeenInv'
<1> SUFFICES ASSUME StackInv, SeenInv, AddSubdirectory PROVE SeenInv'
  OBVIOUS
<1> DEFINE s == SetsOf(project, Head(Top.todo))
           d == [Top EXCEPT !.at = "restore", !.k = Len(s)]
           e == Directory(First, Top.values, project.asks[First], <<>>)
<1>1. Good(project, Top) /\ Top \in Frame /\ Top.at = "set" /\ Top.todo # <<>>
  BY TopIsGood DEF AddSubdirectory, Good
<1>2. /\ s \in Seq(AllVar \X Datum) /\ Sets(First) = s
      /\ \A j : KeyOf(project, Top, j) = s[j][1]
  BY <1>1, TopSetsAreOnce
<1>3. First \in Package /\ project \in Project
  BY <1>1, SubdirsAssumption DEF First, Frame, StackInv
<1>4. Top.k - 1 = Len(s)
  <2> HIDE DEF s
  <2>1. Top.k > Len(s)
    BY <1>2, Zenon DEF AddSubdirectory
  <2>2. Top.k \in 1 .. Len(s) + 1 /\ Len(s) \in Nat
    BY <1>1, <1>2 DEF Good, s
  <2>3. QED
    BY <2>1, <2>2
<1>5. stack' = Append([stack EXCEPT ![Len(stack)] = d], e) /\ project' = project
  <2>1. [stack EXCEPT ![Len(stack)].at = "restore", ![Len(stack)].k = Len(s)]
          = [stack EXCEPT ![Len(stack)] = d]
    BY DEF Top, StackInv
  <2>2. QED
    BY <1>2, <2>1, Zenon DEF AddSubdirectory
<1>6. d \in Frame /\ d.start = Top.start /\ d.dir = Top.dir /\ d.at = "restore"
  <2>1. Len(s) \in Nat
    BY <1>2
  <2> HIDE DEF s
  <2>2. QED
    BY <1>1, <2>1 DEF Frame
<1>7. e \in Frame /\ e.dir = First /\ e.start = Top.values /\ e.at = "idle"
  <2>1. Top.values \in [AllVar -> Datum] /\ project.asks[First] \in BOOLEAN
    BY <1>1, <1>3 DEF Frame, Project
  <2> DEFINE asks == project.asks[First]
             x == First
             todo == <<>>
  <2>2. x \in Package \cup {Root} /\ todo \in Seq(Package) /\ asks \in BOOLEAN
    BY <1>3, <2>1
  <2>3. e = Directory(x, Top.values, asks, todo)
    OBVIOUS
  <2> HIDE DEF asks, x, todo, e
  <2>4. e \in Frame /\ e.dir = x /\ e.start = Top.values /\ e.at = "idle"
    BY <2>1, <2>2, <2>3 DEF Directory, Frame, Datum
  <2>5. QED
    BY <2>4 DEF x
<1>8. SetSoFar(project, Top, Len(s)) /\ Kept(project, Top, Len(s))
  <2>1. Top = stack[Len(stack)] /\ Len(stack) \in 1 .. Len(stack)
    BY DEF Top, StackInv
  <2>2. SetSoFar(project, Top, Top.k - 1)
    BY <2>1, <1>1 DEF SeenInv
  <2>3. Kept(project, Top, Top.k - 1)
    BY <1>1 DEF Good
  <2>4. QED
    BY <2>2, <2>3, <1>4
<1> HIDE DEF d, e
<1>9. Sees(project, Top.start, e.dir, e.start)
  <2>1. SetsOf(project, e.dir) = s
    BY <1>7 DEF First
  <2>2. \A j \in 1 .. Len(s) : e.start[s[j][1]] = s[j][2]
    BY <1>2, <1>7, <1>8 DEF SetSoFar
  <2>3. \A v \in AllVar : (\A j \in 1 .. Len(s) : s[j][1] # v) => e.start[v] = Top.start[v]
    BY <1>2, <1>7, <1>8 DEF Kept
  <2> HIDE DEF s
  <2>4. QED
    BY <2>1, <2>2, <2>3 DEF Sees
<1>10. QED
  BY <1>3, <1>5, <1>6, <1>7, <1>9, PushSeen

\* Both invariants, for any project that sets no variable twice.
THEOREM SeenInvariant == Spec => [](SInv /\ (SetOnce(project) => SeenInv))
<1> DEFINE I == SInv /\ (SetOnce(project) => SeenInv)
<1>1. Init => I
  <2> SUFFICES ASSUME Init, SetOnce(project) PROVE SeenInv
    BY SInit
  <2>1. stack = <<stack[1]>> /\ stack[1].at = "idle"
    BY DEF Init, Directory
  <2>2. QED
    BY <2>1 DEF SeenInv
<1>2. I /\ [Next]_vars => I'
  <2> SUFFICES ASSUME I, [Next]_vars PROVE I'
    OBVIOUS
  <2>1. SInv'
    BY SInvStep
  <2>2. project' = project
    BY DEF Next, vars, Setup, Skip, Begin, SetOne, AddSubdirectory, Return, RestoreOne, End
  <2>3. SetOnce(project)' <=> SetOnce(project)
    BY <2>2
  <2>4. StackInv /\ SeenInv => SeenInv'
    <3>1. SeenInv /\ UNCHANGED vars => SeenInv'
      BY DEF SeenInv, vars, SetSoFar, KeyOf, Sees
    <3>2. StackInv /\ SeenInv /\ Return => SeenInv'
      BY PopSeen DEF Return
    <3>3. QED
      BY <3>1, <3>2, OtherSeen, SetOneSeen, AddSubdirectorySeen DEF Next
  <2>5. QED
    BY <2>1, <2>3, <2>4 DEF SInv
<1>3. QED
  BY <1>1, <1>2, PTL DEF Spec

\* Where the options and the field of a package are among what its block sets.
LEMMA BlockHas ==
  ASSUME NEW c \in Projects, NEW q \in Package
  PROVE  LET s == SetsOf(c, q)
         IN /\ \A j \in DOMAIN c.options[q] : \E i \in 1 .. Len(s) : s[i] = c.options[q][j]
            /\ c.shared[q] # Unset => \E i \in 1 .. Len(s) : s[i] = <<SHARED, c.shared[q]>>
            /\ c.file[q] # Unset => \E i \in 1 .. Len(s) : s[i] = <<NESTED, q>>
            /\ \A i \in 1 .. Len(s) :
                 \/ s[i] = <<NESTED, q>>
                 \/ s[i] = <<SHARED, c.shared[q]>> /\ c.shared[q] # Unset
                 \/ \E j \in DOMAIN c.options[q] : s[i] = c.options[q][j]
<1> DEFINE f == IF c.file[q] = Unset THEN <<>> ELSE <<<<NESTED, q>>>>
           h == IF c.shared[q] = Unset THEN <<>> ELSE <<<<SHARED, c.shared[q]>>>>
           o == c.options[q]
           s == (f \o h) \o o
<1>1. s = SetsOf(c, q)
  BY DEF SetsOf
<1>2. o \in Seq(Var \X Value) /\ c.shared[q] \in Value \cup {Unset}
  BY SubdirsAssumption DEF Project
<1>3. /\ f \in Seq({<<NESTED, q>>}) /\ Len(f) \in {0, 1}
      /\ c.file[q] # Unset => Len(f) = 1 /\ f[1] = <<NESTED, q>>
      /\ \A i \in 1 .. Len(f) : f[i] = <<NESTED, q>>
  OBVIOUS
<1>4. /\ h \in Seq({<<SHARED, c.shared[q]>>}) /\ Len(h) \in {0, 1}
      /\ c.shared[q] # Unset => Len(h) = 1 /\ h[1] = <<SHARED, c.shared[q]>>
      /\ \A i \in 1 .. Len(h) : h[i] = <<SHARED, c.shared[q]>> /\ c.shared[q] # Unset
  OBVIOUS
<1> HIDE DEF f, h
<1> DEFINE n == Len(f) + Len(h)
<1>5. /\ Len(s) = n + Len(o) /\ Len(o) \in Nat /\ n \in Nat /\ DOMAIN o = 1 .. Len(o)
      /\ \A i \in 1 .. Len(s) : s[i] = IF i <= Len(f) THEN f[i]
                                       ELSE IF i <= n THEN h[i - Len(f)] ELSE o[i - n]
  <2> DEFINE fh == f \o h
             Pair == {<<NESTED, q>>, <<SHARED, c.shared[q]>>} \cup Var \X Value
  <2>1. f \in Seq(Pair) /\ h \in Seq(Pair) /\ o \in Seq(Pair)
    BY <1>2, <1>3, <1>4
  <2> HIDE DEF Pair, o
  <2>2. fh \in Seq(Pair) /\ Len(fh) = n /\ n \in Nat /\ Len(f) \in Nat /\ Len(h) \in Nat
    BY <2>1
  <2>3. \A i \in 1 .. n : fh[i] = IF i <= Len(f) THEN f[i] ELSE h[i - Len(f)]
    BY <2>1, <2>2
  <2> HIDE DEF fh
  <2>4. s = fh \o o
    BY DEF fh
  <2>5. Len(s) = n + Len(o) /\ Len(o) \in Nat /\ DOMAIN o = 1 .. Len(o)
    BY <2>1, <2>2, <2>4
  <2>6. \A i \in 1 .. Len(s) : s[i] = IF i <= n THEN fh[i] ELSE o[i - n]
    BY <2>1, <2>2, <2>4, <2>5
  <2> HIDE DEF s, n
  <2>7. Len(f) <= n
    BY <2>2 DEF n
  <2>8. QED
    BY <2>2, <2>3, <2>5, <2>6, <2>7
<1> HIDE DEF s, o
<1>6. \A j \in DOMAIN o : \E i \in 1 .. Len(s) : s[i] = o[j]
  <2> SUFFICES ASSUME NEW j \in 1 .. Len(o) PROVE s[n + j] = o[j] /\ n + j \in 1 .. Len(s)
    BY <1>5
  <2>1. n + j \in 1 .. Len(s) /\ ~(n + j <= n) /\ ~(n + j <= Len(f)) /\ (n + j) - n = j
    BY <1>3, <1>4, <1>5
  <2>2. QED
    BY <2>1, <1>5
<1>7. ASSUME c.shared[q] # Unset PROVE \E i \in 1 .. Len(s) : s[i] = <<SHARED, c.shared[q]>>
  <2>1. n \in 1 .. Len(s) /\ ~(n <= Len(f)) /\ n - Len(f) = 1
    BY <1>3, <1>4, <1>5, <1>7
  <2>2. s[n] = <<SHARED, c.shared[q]>>
    BY <2>1, <1>4, <1>5, <1>7
  <2>3. QED
    BY <2>1, <2>2
<1>8. ASSUME c.file[q] # Unset PROVE \E i \in 1 .. Len(s) : s[i] = <<NESTED, q>>
  <2>1. 1 \in 1 .. Len(s) /\ 1 <= Len(f)
    BY <1>3, <1>4, <1>5, <1>8
  <2>2. s[1] = <<NESTED, q>>
    BY <2>1, <1>3, <1>5, <1>8
  <2>3. QED
    BY <2>1, <2>2
<1>9. ASSUME NEW i \in 1 .. Len(s)
      PROVE  \/ s[i] = <<NESTED, q>>
             \/ s[i] = <<SHARED, c.shared[q]>> /\ c.shared[q] # Unset
             \/ \E j \in DOMAIN o : s[i] = o[j]
  <2>1. CASE i <= Len(f)
    <3>1. i \in 1 .. Len(f)
      BY <2>1, <1>3
    <3>2. QED
      BY <2>1, <3>1, <1>3, <1>5
  <2>2. CASE ~(i <= Len(f)) /\ i <= n
    <3>1. i - Len(f) \in 1 .. Len(h)
      BY <2>2, <1>3, <1>4
    <3>2. QED
      BY <2>2, <3>1, <1>4, <1>5
  <2>3. CASE ~(i <= Len(f)) /\ ~(i <= n)
    <3>1. i - n \in 1 .. Len(o)
      BY <2>3, <1>5
    <3>2. QED
      BY <2>3, <3>1, <1>5
  <2>4. QED
    BY <2>1, <2>2, <2>3
<1>10. QED
  BY <1>1, <1>6, <1>7, <1>8, <1>9 DEF o

\* Whatever packages are added before it, and in whichever depth, a package is read with its
\* own values, and with those of the directory around it for what it does not set, if no
\* package sets a variable by two fields (generator.rs:432-467).
THEOREM SeesTheorem == Spec => [](NoneTwice => SeesItsValues)
<1>1. SInv /\ (SetOnce(project) => SeenInv) => (NoneTwice => SeesItsValues)
  <2> SUFFICES ASSUME SInv, NoneTwice, SetOnce(project) => SeenInv PROVE SeesItsValues
    OBVIOUS
  <2>1. project \in Projects /\ SetOnce(project)
    BY DEF SInv, SetOnce, NoneTwice, OptionKeys
  <2> SUFFICES ASSUME NEW i \in 2 .. Len(stack)
               PROVE  LET q == stack[i].dir  start == stack[i].start
                      IN /\ \A j \in DOMAIN project.options[q] :
                              start[project.options[q][j][1]] = project.options[q][j][2]
                         /\ project.shared[q] # Unset => start[SHARED] = project.shared[q]
                         /\ project.file[q] # Unset => start[NESTED] = q
                         /\ \A v \in Var \ OptionKeys(q) :
                              v # SHARED \/ project.shared[q] = Unset => start[v] = stack[i - 1].start[v]
    BY DEF SeesItsValues
  <2> DEFINE q == stack[i].dir
             start == stack[i].start
             outer == stack[i - 1].start
             s == SetsOf(project, q)
  <2>2. q \in Package /\ Sees(project, outer, q, start)
    BY <2>1 DEF SeenInv
  <2>3. /\ \A j \in DOMAIN project.options[q] : \E m \in 1 .. Len(s) : s[m] = project.options[q][j]
        /\ project.shared[q] # Unset => \E m \in 1 .. Len(s) : s[m] = <<SHARED, project.shared[q]>>
        /\ project.file[q] # Unset => \E m \in 1 .. Len(s) : s[m] = <<NESTED, q>>
        /\ \A m \in 1 .. Len(s) :
             \/ s[m] = <<NESTED, q>>
             \/ s[m] = <<SHARED, project.shared[q]>> /\ project.shared[q] # Unset
             \/ \E j \in DOMAIN project.options[q] : s[m] = project.options[q][j]
    BY <2>1, <2>2, BlockHas
  <2>4. /\ \A m \in 1 .. Len(s) : start[s[m][1]] = s[m][2]
        /\ \A v \in AllVar : (\A m \in 1 .. Len(s) : s[m][1] # v) => start[v] = outer[v]
    BY <2>2 DEF Sees
  <2> HIDE DEF q, start, outer, s
  <2>5. ASSUME NEW v \in Var \ OptionKeys(q), v # SHARED \/ project.shared[q] = Unset
        PROVE  start[v] = outer[v]
    <3>1. v \in AllVar /\ v # NESTED
      BY SubdirsAssumption DEF AllVar
    <3>2. \A m \in 1 .. Len(s) : s[m][1] # v
      BY <2>3, <2>5, <3>1 DEF OptionKeys
    <3>3. QED
      BY <3>1, <3>2, <2>4
  <2>6. \A j \in DOMAIN project.options[q] :
          start[project.options[q][j][1]] = project.options[q][j][2]
    BY <2>3, <2>4
  <2>7. project.shared[q] # Unset => start[SHARED] = project.shared[q]
    BY <2>3, <2>4
  <2>8. project.file[q] # Unset => start[NESTED] = q
    BY <2>3, <2>4
  <2>9. QED
    BY <2>5, <2>6, <2>7, <2>8 DEF q, start, outer
<1>2. QED
  BY <1>1, SeenInvariant, PTL

-----------------------------------------------------------------------------
(* No package is added twice where those that call unideps_setup() have a  *)
(* manifest.  The directories on the stack are a chain in which each is    *)
(* listed by the file of the one before, so that, files listing each other *)
(* in no circle, they differ; and a package is marked as added when its    *)
(* directory goes.                                                         *)

\* A directory lists what its file does, and names its own file until it has included it.
Listing(c, d) ==
  /\ d \in Frame
  /\ \A i \in 1 .. Len(d.todo) : Lists(c, d.dir, d.todo[i])
  /\ d.asks => d.dir \in Package /\ c.asks[d.dir] /\ d.at = "idle" /\ d.values[NESTED] = d.dir
  /\ d.at # "idle" => d.todo # <<>>
  /\ d.at = "set" => /\ d.k >= 1
                     /\ d.k > 1 /\ c.file[Head(d.todo)] # Unset => d.values[NESTED] = Head(d.todo)

\* Each directory but the last is inside of the block that adds the next.
ChainInv ==
  /\ project \in Projects
  /\ stack \in Seq(Frame) /\ Len(stack) >= 1
  /\ \A i \in 1 .. Len(stack) : Listing(project, stack[i])
  /\ \A i \in 1 .. Len(stack) - 1 : stack[i].at = "restore" /\ stack[i + 1].dir = Head(stack[i].todo)

\* The packages whose sources are being added.
Adding == {Head(stack[i].todo) : i \in {i \in 1 .. Len(stack) : stack[i].at = "restore"}}

LogInv ==
  /\ \A i \in 1 .. Len(stack) : stack[i].at # "idle" => Head(stack[i].todo) \notin added
  /\ log \in Seq(Package)
  /\ \A i \in 1 .. Len(log) : log[i] \in added \cup Adding
  /\ \A i, j \in 1 .. Len(log) : log[i] = log[j] => i = j

AInv == ChainInv /\ LogInv

\* In a chain of packages that list each other none is twice.
LEMMA ChainsDiffer ==
  ASSUME NEW c \in Projects, NEW n \in Nat, NEW f \in [1 .. n -> Package],
         \A i \in 1 .. n - 1 : Lists(c, f[i], f[i + 1])
  PROVE  \A i, j \in 1 .. n : f[i] = f[j] => i = j
<1> SUFFICES ASSUME NEW i \in 1 .. n, NEW j \in 1 .. n, i < j, f[i] = f[j] PROVE FALSE
  <2>1. \A i, j \in 1 .. n : i = j \/ i < j \/ j < i
    OBVIOUS
  <2>2. QED
    BY <2>1
<1>1. PICK S : S = {f[m] : m \in i .. j - 1}
  OBVIOUS
<1>2. S \in SUBSET Package /\ S # {}
  <2>1. i \in i .. j - 1 /\ i .. j - 1 \subseteq 1 .. n
    OBVIOUS
  <2>2. QED
    BY <2>1, <1>1
<1>3. PICK p \in S : \A q \in S : ~Lists(c, p, q)
  BY <1>2, SubdirsAssumption
<1>4. PICK m \in i .. j - 1 : p = f[m]
  BY <1>1
<1>5. Lists(c, f[m], f[m + 1])
  <2>1. m \in 1 .. n - 1
    OBVIOUS
  <2>2. QED
    BY <2>1
<1>6. f[m + 1] \in S
  <2>1. CASE m = j - 1
    <3>1. m + 1 = j /\ i \in i .. j - 1
      BY <2>1
    <3>2. QED
      BY <3>1, <1>1
  <2>2. CASE m # j - 1
    <3>1. m + 1 \in i .. j - 1
      BY <2>2
    <3>2. QED
      BY <3>1, <1>1
  <2>3. QED
    BY <2>1, <2>2
<1>7. QED
  BY <1>3, <1>4, <1>5, <1>6

LEMMA TopIsListing ==
  ASSUME ChainInv
  PROVE  /\ Listing(project, Top) /\ Top \in Frame /\ Len(stack) \in Nat /\ Len(stack) \in 1 .. Len(stack)
         /\ Top.todo # <<>> => First \in Package /\ Lists(project, Top.dir, First)
<1>1. Listing(project, Top) /\ Top \in Frame /\ Len(stack) \in Nat /\ Len(stack) \in 1 .. Len(stack)
  BY DEF ChainInv, Top
<1>2. ASSUME Top.todo # <<>> PROVE First \in Package /\ Lists(project, Top.dir, First)
  <2>1. Top.todo \in Seq(Package)
    BY <1>1 DEF Frame
  <2>2. Len(Top.todo) >= 1 /\ Head(Top.todo) = Top.todo[1] /\ 1 \in 1 .. Len(Top.todo) /\ Top.todo[1] \in Package
    BY <2>1, <1>2
  <2>3. QED
    BY <1>1, <2>2 DEF Listing, First
<1>3. QED
  BY <1>1, <1>2

\* What the block at the top is about to add is not being added by a directory below.
LEMMA FirstIsNew ==
  ASSUME ChainInv, Top.todo # <<>>
  PROVE  \A i \in 1 .. Len(stack) - 1 : Head(stack[i].todo) # First
<1> DEFINE n == Len(stack)
           x(i) == IF i < n THEN stack[i + 1].dir ELSE First
<1>1. n \in Nat /\ n >= 1 /\ First \in Package /\ Lists(project, Top.dir, First) /\ project \in Projects
  BY TopIsListing DEF ChainInv
<1>2. \A i \in 1 .. n - 1 : /\ stack[i + 1].dir = Head(stack[i].todo) /\ Head(stack[i].todo) \in Package
                            /\ Lists(project, stack[i].dir, stack[i + 1].dir)
  <2> SUFFICES ASSUME NEW i \in 1 .. n - 1
               PROVE  /\ stack[i + 1].dir = Head(stack[i].todo) /\ Head(stack[i].todo) \in Package
                      /\ Lists(project, stack[i].dir, stack[i + 1].dir)
    OBVIOUS
  <2>1. i \in 1 .. Len(stack) /\ i \in 1 .. Len(stack) - 1
    BY <1>1
  <2>2. Listing(project, stack[i]) /\ stack[i].at = "restore" /\ stack[i + 1].dir = Head(stack[i].todo)
    BY <2>1 DEF ChainInv
  <2>3. stack[i].todo \in Seq(Package) /\ stack[i].todo # <<>>
    BY <2>2 DEF Listing, Frame
  <2>4. Head(stack[i].todo) = stack[i].todo[1] /\ 1 \in 1 .. Len(stack[i].todo) /\ stack[i].todo[1] \in Package
    BY <2>3
  <2>5. QED
    BY <2>2, <2>4 DEF Listing
<1>3. PICK f : f = [i \in 1 .. n |-> x(i)]
  OBVIOUS
<1>4. f \in [1 .. n -> Package]
  <2> SUFFICES ASSUME NEW i \in 1 .. n PROVE x(i) \in Package
    BY <1>3
  <2>1. i < n => i \in 1 .. n - 1
    BY <1>1
  <2>2. QED
    BY <2>1, <1>1, <1>2
<1>5. \A i \in 1 .. n - 1 : Lists(project, f[i], f[i + 1])
  <2> SUFFICES ASSUME NEW i \in 1 .. n - 1 PROVE Lists(project, f[i], f[i + 1])
    OBVIOUS
  <2>1. i \in 1 .. n /\ i + 1 \in 1 .. n /\ i < n
    BY <1>1
  <2>2. f[i] = stack[i + 1].dir /\ f[i + 1] = x(i + 1)
    BY <2>1, <1>3
  <2>3. CASE i + 1 < n
    <3>1. i + 1 \in 1 .. n - 1 /\ x(i + 1) = stack[(i + 1) + 1].dir
      BY <2>3, <1>1
    <3>2. QED
      BY <2>2, <3>1, <1>2
  <2>4. CASE ~(i + 1 < n)
    <3>1. i + 1 = n /\ x(i + 1) = First
      BY <2>4, <1>1
    <3>2. QED
      BY <2>2, <3>1, <1>1 DEF Top
  <2>5. QED
    BY <2>3, <2>4
<1> HIDE DEF x
<1>6. \A i, j \in 1 .. n : f[i] = f[j] => i = j
  BY <1>1, <1>4, <1>5, ChainsDiffer
<1> SUFFICES ASSUME NEW i \in 1 .. n - 1 PROVE Head(stack[i].todo) # First
  OBVIOUS
<1>7. i \in 1 .. n /\ n \in 1 .. n /\ i # n /\ i < n /\ ~(n < n)
  BY <1>1
<1>8. f[i] = stack[i + 1].dir /\ f[n] = First
  BY <1>7, <1>3 DEF x
<1>9. QED
  BY <1>2, <1>6, <1>7, <1>8

\* A step that changes the directory at the top only.
LEMMA SetTopChains ==
  ASSUME ChainInv, NEW d, Listing(project, d), d.dir = Top.dir, SetTop(d), project' = project
  PROVE  /\ ChainInv'
         /\ Len(stack') = Len(stack)
         /\ \A i \in 1 .. Len(stack) : stack'[i] = IF i = Len(stack) THEN d ELSE stack[i]
<1>1. d \in Frame /\ Len(stack) \in Nat /\ Len(stack) >= 1
  BY DEF ChainInv, Listing
<1>2. /\ stack' \in Seq(Frame) /\ Len(stack') = Len(stack)
      /\ \A i \in 1 .. Len(stack) : stack'[i] = IF i = Len(stack) THEN d ELSE stack[i]
  BY <1>1 DEF ChainInv, SetTop
<1>3. \A i \in 1 .. Len(stack') : Listing(project, stack'[i])
  BY <1>2 DEF ChainInv
<1>4. \A i \in 1 .. Len(stack') - 1 :
        stack'[i].at = "restore" /\ stack'[i + 1].dir = Head(stack'[i].todo)
  <2> SUFFICES ASSUME NEW i \in 1 .. Len(stack) - 1
               PROVE  stack'[i].at = "restore" /\ stack'[i + 1].dir = Head(stack'[i].todo)
    BY <1>2
  <2>1. i \in 1 .. Len(stack) /\ i + 1 \in 1 .. Len(stack) /\ i # Len(stack)
    BY <1>1
  <2>2. stack'[i] = stack[i] /\ stack'[i + 1].dir = stack[i + 1].dir
    BY <2>1, <1>2 DEF Top
  <2>3. QED
    BY <2>2 DEF ChainInv
<1>5. QED
  BY <1>1, <1>2, <1>3, <1>4 DEF ChainInv

LEMMA SetTopLogs ==
  ASSUME AInv, NEW d, Listing(project, d), d.dir = Top.dir, SetTop(d), project' = project,
         added' = added, log' = log, d.at # "idle" => Head(d.todo) \notin added,
         Top.at = "restore" => d.at = "restore" /\ Head(d.todo) = Head(Top.todo)
  PROVE  AInv'
<1>1. /\ ChainInv' /\ Len(stack') = Len(stack) /\ Len(stack) \in Nat
      /\ \A i \in 1 .. Len(stack) : stack'[i] = IF i = Len(stack) THEN d ELSE stack[i]
  BY SetTopChains DEF AInv, ChainInv
<1>2. Adding \subseteq Adding'
  <2> SUFFICES ASSUME NEW i \in 1 .. Len(stack), stack[i].at = "restore"
               PROVE  stack'[i].at = "restore" /\ Head(stack'[i].todo) = Head(stack[i].todo)
    BY <1>1 DEF Adding
  <2>1. QED
    BY <1>1 DEF Top
<1>3. QED
  BY <1>1, <1>2 DEF AInv, LogInv

\* Apart from the file it names, which goes first, a package sets no NESTED.
LEMMA NestedIsFirst ==
  ASSUME NEW c \in Projects, NEW p \in Package
  PROVE  LET s == SetsOf(c, p)
         IN /\ s \in Seq(AllVar \X Datum) /\ \A i \in 1 .. Len(s) : s[i][1] \in AllVar /\ s[i][2] \in Datum
            /\ c.file[p] # Unset => Len(s) >= 1 /\ s[1] = <<NESTED, p>>
            /\ c.file[p] # Unset => \A i \in 2 .. Len(s) : s[i][1] # NESTED
<1> DEFINE f == IF c.file[p] = Unset THEN <<>> ELSE <<<<NESTED, p>>>>
           h == IF c.shared[p] = Unset THEN <<>> ELSE <<<<SHARED, c.shared[p]>>>>
           o == c.options[p]
           s == SetsOf(c, p)
<1>1. c \in Project /\ SHARED \in Var /\ NESTED \notin Var
  BY SubdirsAssumption
<1>2. o \in Seq(Var \X Datum) /\ h \in Seq(Var \X Datum) /\ Var \subseteq AllVar
  <2>1. o \in Seq(Var \X Value) /\ c.shared[p] \in Value \cup {Unset}
    BY <1>1 DEF Project
  <2>2. QED
    BY <1>1, <2>1 DEF Datum, AllVar
<1>3. /\ f \in Seq(AllVar \X Datum) /\ Len(f) \in {0, 1}
      /\ c.file[p] # Unset => Len(f) = 1 /\ \A i \in 1 .. Len(f) : f[i] = <<NESTED, p>>
  BY DEF AllVar, Datum
<1>4. s = (f \o h) \o o
  BY DEF SetsOf
<1> HIDE DEF s, f, h, o
<1>5. h \in Seq(AllVar \X Datum) /\ o \in Seq(AllVar \X Datum) /\ Len(h) \in Nat /\ Len(o) \in Nat
  <2>1. \A t \in Seq(Var \X Datum) : t \in Seq(AllVar \X Datum) /\ Len(t) \in Nat
    BY <1>2
  <2>2. QED
    BY <2>1, <1>2
<1>6. s \in Seq(AllVar \X Datum) /\ Len(s) = Len(f) + Len(h) + Len(o)
  BY <1>3, <1>4, <1>5
<1>7. \A i \in 1 .. Len(s) : s[i] = IF i <= Len(f) THEN f[i]
                                   ELSE IF i <= Len(f) + Len(h) THEN h[i - Len(f)]
                                   ELSE o[i - Len(f) - Len(h)]
  <2> PICK B : B = AllVar \X Datum
    OBVIOUS
  <2>1. f \in Seq(B) /\ h \in Seq(B) /\ o \in Seq(B) /\ Len(f) \in Nat /\ Len(h) \in Nat /\ Len(o) \in Nat
    BY <1>3, <1>5
  <2> DEFINE g == f \o h
  <2>2. g \in Seq(B) /\ Len(g) = Len(f) + Len(h)
    BY <2>1
  <2>3. \A i \in 1 .. Len(f) + Len(h) : g[i] = IF i <= Len(f) THEN f[i] ELSE h[i - Len(f)]
    BY <2>1
  <2>4. s = g \o o
    BY <1>4
  <2> HIDE DEF g
  <2>5. \A i \in 1 .. Len(s) : s[i] = IF i <= Len(g) THEN g[i] ELSE o[i - Len(g)]
    BY <2>1, <2>2, <2>4
  <2> SUFFICES ASSUME NEW i \in 1 .. Len(s)
               PROVE  s[i] = IF i <= Len(f) THEN f[i]
                             ELSE IF i <= Len(f) + Len(h) THEN h[i - Len(f)]
                             ELSE o[i - Len(f) - Len(h)]
    OBVIOUS
  <2>6. i \in Nat /\ i >= 1 /\ (i <= Len(f) => i <= Len(f) + Len(h)) /\ i - (Len(f) + Len(h)) = i - Len(f) - Len(h)
    BY <2>1, <1>6
  <2>7. CASE i <= Len(f) + Len(h)
    <3>1. i \in 1 .. Len(f) + Len(h)
      BY <2>6, <2>7, <2>1
    <3>2. QED
      BY <3>1, <2>2, <2>3, <2>5, <2>7
  <2>8. CASE ~(i <= Len(f) + Len(h))
    BY <2>2, <2>5, <2>6, <2>8
  <2>9. QED
    BY <2>7, <2>8
<1>8. ASSUME c.file[p] # Unset
      PROVE  Len(s) >= 1 /\ s[1] = <<NESTED, p>> /\ \A i \in 2 .. Len(s) : s[i][1] # NESTED
  <2>1. Len(f) = 1 /\ Len(s) = 1 + Len(h) + Len(o) /\ 1 \in 1 .. Len(f) /\ 1 \in 1 .. Len(s)
    <3>1. Len(f) = 1
      BY <1>3, <1>8
    <3>2. Len(s) = 1 + Len(h) + Len(o)
      BY <3>1, <1>6
    <3>3. QED
      BY <3>1, <3>2, <1>5
  <2>2. s[1] = <<NESTED, p>>
    BY <2>1, <1>3, <1>7, <1>8
  <2>3. ASSUME NEW i \in 2 .. Len(s), i <= 1 + Len(h) PROVE s[i][1] # NESTED
    <3>1. i - 1 \in 1 .. Len(h) /\ i \in 1 .. Len(s) /\ ~(i <= 1)
      BY <2>1, <2>3, <1>5
    <3>2. s[i] = h[i - 1]
      BY <2>1, <2>3, <3>1, <1>7
    <3>3. h[i - 1] \in Var \X Datum
      BY <3>1, <1>2
    <3>4. QED
      BY <3>2, <3>3, <1>1
  <2>4. ASSUME NEW i \in 2 .. Len(s), ~(i <= 1 + Len(h)) PROVE s[i][1] # NESTED
    <3>1. i - 1 - Len(h) \in 1 .. Len(o) /\ i \in 1 .. Len(s) /\ ~(i <= 1)
      BY <2>1, <2>4, <1>5
    <3>2. s[i] = o[i - 1 - Len(h)]
      BY <2>1, <2>4, <3>1, <1>7
    <3>3. o[i - 1 - Len(h)] \in Var \X Datum
      BY <3>1, <1>2
    <3>4. QED
      BY <3>2, <3>3, <1>1
  <2>5. QED
    BY <2>1, <2>2, <2>3, <2>4
<1>9. \A i \in 1 .. Len(s) : s[i][1] \in AllVar /\ s[i][2] \in Datum
  BY <1>6
<1>10. QED
  BY <1>6, <1>8, <1>9 DEF s

\* Where a package that asks has a file.
LEMMA SetupAdds == AInv /\ Manifested /\ Setup => AInv'
<1> SUFFICES ASSUME AInv, Manifested, Setup PROVE AInv'
  OBVIOUS
<1>1. /\ Listing(project, Top) /\ Top \in Frame /\ Top.asks /\ project \in Project
      /\ Top.dir \in Package /\ project.asks[Top.dir] /\ Top.at = "idle" /\ Top.values[NESTED] = Top.dir
  BY TopIsListing, SubdirsAssumption DEF AInv, ChainInv, Setup, Listing
<1> PICK listed : listed = project.file[Top.dir]
  OBVIOUS
<1>2. listed # Unset /\ listed \in Seq(Package)
  BY <1>1 DEF Manifested, Project
<1> DEFINE d == [Top EXCEPT !.asks = FALSE, !.todo = listed]
<1>3. SetTop(d) /\ project' = project /\ added' = added /\ log' = log
  <2>1. Top.dir # Unset
    BY <1>1, SubdirsAssumption
  <2>2. QED
    BY <1>1, <2>1 DEF Setup
<1>4. d \in Frame /\ d.dir = Top.dir /\ d.todo = listed /\ d.at = "idle" /\ d.asks = FALSE
  BY <1>1, <1>2 DEF Frame
<1> HIDE DEF d
<1>5. Listing(project, d)
  <2>1. \A i \in 1 .. Len(listed) : Lists(project, Top.dir, listed[i])
    BY <1>2 DEF Lists
  <2>2. QED
    BY <1>4, <2>1 DEF Listing
<1>6. QED
  BY <1>1, <1>3, <1>4, <1>5, SetTopLogs

LEMMA SkipAdds == AInv /\ Skip => AInv'
<1> SUFFICES ASSUME AInv, Skip PROVE AInv'
  OBVIOUS
<1>1. Listing(project, Top) /\ Top \in Frame /\ Top.at = "idle" /\ ~Top.asks /\ Top.todo # <<>>
  BY TopIsListing DEF AInv, Skip, Idle
<1> PICK rest : rest = Tail(Top.todo)
  OBVIOUS
<1>2. /\ rest \in Seq(Package)
      /\ \A i \in 1 .. Len(rest) : \E j \in 1 .. Len(Top.todo) : rest[i] = Top.todo[j]
  <2>1. Top.todo \in Seq(Package)
    BY <1>1 DEF Frame
  <2>2. rest \in Seq(Package) /\ Len(rest) = Len(Top.todo) - 1 /\ \A i \in 1 .. Len(rest) : rest[i] = Top.todo[i + 1]
    BY <2>1, <1>1
  <2>3. \A i \in 1 .. Len(rest) : i + 1 \in 1 .. Len(Top.todo)
    BY <2>1, <2>2
  <2>4. QED
    BY <2>2, <2>3
<1> DEFINE d == [Top EXCEPT !.todo = rest]
<1>3. SetTop(d) /\ project' = project /\ added' = added /\ log' = log
  BY DEF Skip
<1>4. d \in Frame /\ d.dir = Top.dir /\ d.todo = rest /\ d.at = "idle" /\ d.asks = FALSE
  BY <1>1, <1>2 DEF Frame
<1> HIDE DEF d
<1>5. Listing(project, d)
  BY <1>1, <1>2, <1>4 DEF Listing
<1>6. QED
  BY <1>1, <1>3, <1>4, <1>5, SetTopLogs

LEMMA BeginAdds == AInv /\ Begin => AInv'
<1> SUFFICES ASSUME AInv, Begin PROVE AInv'
  OBVIOUS
<1>1. Listing(project, Top) /\ Top \in Frame /\ Top.at = "idle" /\ ~Top.asks /\ Top.todo # <<>>
  BY TopIsListing DEF AInv, Begin, Idle
<1> DEFINE d == [Top EXCEPT !.at = "set", !.k = 1]
<1>2. SetTop(d) /\ project' = project /\ added' = added /\ log' = log /\ First \notin added
  BY DEF Begin, IsAdded
<1>3. d \in Frame /\ d.dir = Top.dir /\ d.todo = Top.todo /\ d.at = "set" /\ d.k = 1 /\ d.asks = FALSE
  BY <1>1 DEF Frame
<1> HIDE DEF d
<1>4. Listing(project, d)
  BY <1>1, <1>3 DEF Listing
<1>5. QED
  BY <1>1, <1>2, <1>3, <1>4, SetTopLogs DEF First

LEMMA SetOneAdds == AInv /\ SetOne => AInv'
<1> SUFFICES ASSUME AInv, SetOne PROVE AInv'
  OBVIOUS
<1>1. Listing(project, Top) /\ Top \in Frame /\ Top.at = "set" /\ First \in Package /\ project \in Projects
  BY TopIsListing DEF AInv, ChainInv, SetOne, Listing
<1>2. Top.k \in Nat /\ Top.k >= 1 /\ ~Top.asks /\ Top.todo # <<>>
  BY <1>1 DEF Frame, Listing
<1> PICK s : s = SetsOf(project, First)
  OBVIOUS
<1>3. /\ s \in Seq(AllVar \X Datum) /\ \A i \in 1 .. Len(s) : s[i][1] \in AllVar /\ s[i][2] \in Datum
      /\ project.file[First] # Unset => Len(s) >= 1 /\ s[1] = <<NESTED, First>>
      /\ project.file[First] # Unset => \A i \in 2 .. Len(s) : s[i][1] # NESTED
  BY <1>1, NestedIsFirst
<1>4. Sets(First) = s
  BY SetsAre
<1>5. Top.k \in 1 .. Len(s)
  <2>1. Top.k <= Len(s)
    BY <1>4, Zenon DEF SetOne
  <2>2. QED
    BY <2>1, <1>2, <1>3
<1> PICK v, x : v = s[Top.k][1] /\ x = s[Top.k][2]
  OBVIOUS
<1>6. v \in AllVar /\ x \in Datum
  BY <1>3, <1>5
<1> DEFINE y == IF Top.values[v] # Unset THEN Top.values[v] ELSE Empty
           d == [Top EXCEPT !.k = @ + 1, !.had[v] = SavedAs(v), !.save[v] = y, !.values[v] = x]
<1>7. SetTop(d) /\ project' = project /\ added' = added /\ log' = log
  <2>1. SetTop([Top EXCEPT !.k = @ + 1, !.had[s[Top.k][1]] = SavedAs(s[Top.k][1]),
                           !.save[s[Top.k][1]] = IF Top.values[s[Top.k][1]] # Unset
                                                 THEN Top.values[s[Top.k][1]] ELSE Empty,
                           !.values[s[Top.k][1]] = s[Top.k][2]])
    BY <1>4, Zenon DEF SetOne
  <2>2. QED
    BY <2>1 DEF SetOne
<1>8. /\ d \in Frame /\ d.dir = Top.dir /\ d.todo = Top.todo /\ d.at = "set" /\ d.k = Top.k + 1 /\ d.asks = FALSE
      /\ d.values = [Top.values EXCEPT ![v] = x]
  <2>1. SavedAs(v) \in BOOLEAN /\ y \in Datum
    BY <1>1, <1>6 DEF SavedAs, Frame, Datum
  <2> HIDE DEF y
  <2> DEFINE values == [Top.values EXCEPT ![v] = x]
             had == [Top.had EXCEPT ![v] = SavedAs(v)]
             save == [Top.save EXCEPT ![v] = y]
  <2>2. /\ values \in [AllVar -> Datum] /\ save \in [AllVar -> Datum]
        /\ had \in [AllVar -> BOOLEAN] /\ Top.k + 1 \in Nat
    BY <1>1, <1>2, <1>6, <2>1 DEF Frame
  <2>3. d = [Top EXCEPT !.k = Top.k + 1, !.had = had, !.save = save, !.values = values]
    BY <1>1 DEF Frame
  <2> HIDE DEF d, values, had, save
  <2>4. /\ d \in Frame /\ d.dir = Top.dir /\ d.todo = Top.todo /\ d.at = Top.at /\ d.k = Top.k + 1
        /\ d.asks = Top.asks /\ d.values = values
    BY <1>1, <2>2, <2>3 DEF Frame
  <2>5. QED
    BY <1>1, <1>2, <2>4 DEF values
<1> HIDE DEF d
<1>9. ASSUME project.file[First] # Unset PROVE d.values[NESTED] = First
  <2>1. NESTED \in AllVar /\ Top.values \in [AllVar -> Datum]
    BY <1>1 DEF AllVar, Frame
  <2>2. CASE Top.k = 1
    <3>1. v = NESTED /\ x = First
      BY <2>2, <1>3, <1>9
    <3>2. QED
      BY <3>1, <2>1, <1>8
  <2>3. CASE Top.k # 1
    <3>1. Top.k > 1 /\ Top.k \in 2 .. Len(s)
      BY <2>3, <1>3, <1>5
    <3>2. v # NESTED /\ Top.values[NESTED] = First
      BY <3>1, <1>1, <1>3, <1>9 DEF Listing, First
    <3>3. QED
      BY <3>2, <2>1, <1>8
  <2>4. QED
    BY <2>2, <2>3
<1>10. Listing(project, d)
  <2>1. d.k >= 1
    BY <1>2, <1>8
  <2>2. QED
    BY <2>1, <1>1, <1>2, <1>8, <1>9 DEF Listing, First
<1>11. First \notin added
  BY <1>1, TopIsListing DEF AInv, LogInv, Top, First
<1>12. QED
  BY <1>1, <1>7, <1>8, <1>10, <1>11, SetTopLogs DEF First

LEMMA RestoreOneAdds == AInv /\ RestoreOne => AInv'
<1> SUFFICES ASSUME AInv, RestoreOne PROVE AInv'
  OBVIOUS
<1>1. Listing(project, Top) /\ Top \in Frame /\ Top.at = "restore" /\ Top.k > 0
  BY TopIsListing DEF AInv, RestoreOne
<1>2. Top.k \in Nat /\ Top.k - 1 \in Nat /\ ~Top.asks /\ Top.todo # <<>>
  BY <1>1 DEF Frame, Listing
<1>3. PICK values \in [AllVar -> Datum], k \in Nat :
        SetTop([Top EXCEPT !.k = k, !.values = values])
  <2> PICK v : v = Sets(First)[Top.k][1]
    OBVIOUS
  <2> PICK y : y = IF Top.had[v] THEN Top.save[v] ELSE Unset
    OBVIOUS
  <2>1. v \in AllVar => y \in Datum
    BY <1>1 DEF Frame, Datum
  <2>2. [Top.values EXCEPT ![v] = y] \in [AllVar -> Datum]
    BY <1>1, <2>1 DEF Frame
  <2>3. SetTop([Top EXCEPT !.k = @ - 1, !.values[v] = y])
    BY DEF RestoreOne
  <2>4. [Top EXCEPT !.k = @ - 1, !.values[v] = y]
          = [Top EXCEPT !.k = Top.k - 1, !.values = [Top.values EXCEPT ![v] = y]]
    BY <1>1 DEF Frame
  <2>5. SetTop([Top EXCEPT !.k = Top.k - 1, !.values = [Top.values EXCEPT ![v] = y]])
    BY <2>3, <2>4, Zenon
  <2> DEFINE f == [Top.values EXCEPT ![v] = y]
  <2>6. f \in [AllVar -> Datum] /\ Top.k - 1 \in Nat /\ SetTop([Top EXCEPT !.k = Top.k - 1, !.values = f])
    BY <1>2, <2>2, <2>5, Zenon
  <2> HIDE DEF f
  <2>7. QED
    BY <2>6, Zenon
<1> DEFINE d == [Top EXCEPT !.k = k, !.values = values]
<1>4. SetTop(d) /\ project' = project /\ added' = added /\ log' = log
  BY <1>3 DEF RestoreOne
<1>5. d \in Frame /\ d.dir = Top.dir /\ d.todo = Top.todo /\ d.at = "restore" /\ d.asks = FALSE
  BY <1>1, <1>2, <1>3 DEF Frame
<1> HIDE DEF d
<1>6. Listing(project, d)
  BY <1>1, <1>2, <1>5 DEF Listing
<1>7. First \notin added
  BY <1>1, TopIsListing DEF AInv, LogInv, Top, First
<1>8. QED
  BY <1>1, <1>4, <1>5, <1>6, <1>7, SetTopLogs DEF First

\* The package is marked: the others that are being added are others.
LEMMA EndAdds == AInv /\ End => AInv'
<1> SUFFICES ASSUME AInv, End PROVE AInv'
  OBVIOUS
<1>1. /\ Listing(project, Top) /\ Top \in Frame /\ Top.at = "restore" /\ Len(stack) \in Nat
      /\ Len(stack) \in 1 .. Len(stack)
  BY TopIsListing DEF AInv, End
<1>2. ~Top.asks /\ Top.todo # <<>>
  BY <1>1 DEF Frame, Listing
<1> PICK rest : rest = Tail(Top.todo)
  OBVIOUS
<1>3. /\ rest \in Seq(Package)
      /\ \A i \in 1 .. Len(rest) : \E j \in 1 .. Len(Top.todo) : rest[i] = Top.todo[j]
  <2>1. Top.todo \in Seq(Package)
    BY <1>1 DEF Frame
  <2>2. rest \in Seq(Package) /\ Len(rest) = Len(Top.todo) - 1 /\ \A i \in 1 .. Len(rest) : rest[i] = Top.todo[i + 1]
    BY <2>1, <1>2
  <2>3. \A i \in 1 .. Len(rest) : i + 1 \in 1 .. Len(Top.todo)
    BY <2>1, <2>2
  <2>4. QED
    BY <2>2, <2>3
<1> DEFINE d == [Top EXCEPT !.at = "idle", !.todo = rest]
<1>4. SetTop(d) /\ project' = project /\ added' = added \cup {First} /\ log' = log
  BY DEF End
<1>5. d \in Frame /\ d.dir = Top.dir /\ d.todo = rest /\ d.at = "idle" /\ d.asks = FALSE
  BY <1>1, <1>2, <1>3 DEF Frame
<1> HIDE DEF d
<1>6. Listing(project, d)
  BY <1>1, <1>3, <1>5 DEF Listing
<1>7. /\ ChainInv' /\ Len(stack') = Len(stack)
      /\ \A i \in 1 .. Len(stack) : stack'[i] = IF i = Len(stack) THEN d ELSE stack[i]
  BY <1>4, <1>5, <1>6, SetTopChains DEF AInv
<1>8. \A i \in 1 .. Len(stack) : i # Len(stack) => stack'[i] = stack[i] /\ Head(stack[i].todo) # First
  <2>1. \A i \in 1 .. Len(stack) : i # Len(stack) => i \in 1 .. Len(stack) - 1
    BY <1>1
  <2>2. QED
    BY <2>1, <1>2, <1>7, FirstIsNew DEF AInv
<1>9. \A i \in 1 .. Len(stack') : stack'[i].at # "idle" => Head(stack'[i].todo) \notin added'
  <2>1. \A i \in 1 .. Len(stack) : stack'[i].at # "idle" => i # Len(stack)
    BY <1>7, <1>5
  <2>2. QED
    BY <2>1, <1>4, <1>7, <1>8 DEF AInv, LogInv
<1>10. Adding \subseteq Adding' \cup {First}
  <2> SUFFICES ASSUME NEW i \in 1 .. Len(stack), stack[i].at = "restore"
               PROVE  Head(stack[i].todo) \in Adding' \cup {First}
    BY DEF Adding
  <2>1. CASE i = Len(stack)
    BY <2>1 DEF First, Top
  <2>2. CASE i # Len(stack)
    <3>1. i \in 1 .. Len(stack') /\ stack'[i] = stack[i]
      BY <2>2, <1>7, <1>8
    <3>2. QED
      BY <3>1 DEF Adding
  <2>3. QED
    BY <2>1, <2>2
<1>11. QED
  BY <1>4, <1>7, <1>9, <1>10 DEF AInv, LogInv

LEMMA ReturnAdds == AInv /\ Return => AInv'
<1> SUFFICES ASSUME AInv, Return PROVE AInv'
  OBVIOUS
<1>1. Len(stack) \in Nat /\ Len(stack) > 1 /\ Top.at = "idle"
  BY DEF Return, AInv, ChainInv
<1>2. /\ stack' \in Seq(Frame) /\ Len(stack') = Len(stack) - 1
      /\ \A i \in 1 .. Len(stack') : stack'[i] = stack[i]
  BY <1>1 DEF Return, AInv, ChainInv
<1>3. project' = project /\ added' = added /\ log' = log
  BY DEF Return
<1>4. ChainInv'
  <2>1. \A i \in 1 .. Len(stack') - 1 :
          i \in 1 .. Len(stack') /\ i + 1 \in 1 .. Len(stack') /\ i \in 1 .. Len(stack) - 1
    BY <1>1, <1>2
  <2>2. \A i \in 1 .. Len(stack') : i \in 1 .. Len(stack)
    BY <1>1, <1>2
  <2>3. Len(stack') >= 1
    BY <1>1, <1>2
  <2>4. QED
    BY <2>1, <2>2, <2>3, <1>2, <1>3 DEF AInv, ChainInv
<1>5. Adding' = Adding
  <2>1. \A i : i \in 1 .. Len(stack) /\ stack[i].at = "restore" <=> i \in 1 .. Len(stack') /\ stack[i].at = "restore"
    BY <1>1, <1>2 DEF Top
  <2>2. QED
    BY <2>1, <1>2 DEF Adding
<1>6. \A i \in 1 .. Len(stack') : i \in 1 .. Len(stack)
  BY <1>1, <1>2
<1>7. QED
  BY <1>2, <1>3, <1>4, <1>5, <1>6 DEF AInv, LogInv

\* A package that is added was not: it is not marked, and not being added.
LEMMA AddSubdirectoryAdds == AInv /\ Manifested /\ AddSubdirectory => AInv'
<1> SUFFICES ASSUME AInv, Manifested, AddSubdirectory PROVE AInv'
  OBVIOUS
<1> PICK n : n = Len(stack)
  OBVIOUS
<1> PICK s : s = SetsOf(project, First)
  OBVIOUS
<1>1. /\ Listing(project, Top) /\ Top \in Frame /\ Top.at = "set" /\ n \in Nat /\ n \in 1 .. n
      /\ project \in Projects /\ project \in Project
  BY TopIsListing, SubdirsAssumption DEF AInv, ChainInv, AddSubdirectory
<1>2. Top.k \in Nat /\ ~Top.asks /\ Top.todo # <<>> /\ First \in Package
  BY <1>1, TopIsListing DEF Frame, Listing, AInv
<1>3. /\ Len(s) \in Nat /\ (project.file[First] # Unset => Len(s) >= 1)
  BY <1>1, <1>2, NestedIsFirst
<1>4. Top.k > Len(s)
  BY SetsAre, Zenon DEF AddSubdirectory
<1>5. project.file[First] # Unset => Top.values[NESTED] = First
  <2>1. project.file[First] # Unset => Top.k > 1
    BY <1>2, <1>3, <1>4
  <2>2. QED
    BY <2>1, <1>1 DEF Listing, First
<1> DEFINE d == [Top EXCEPT !.at = "restore", !.k = Len(s)]
           e == Directory(First, Top.values, project.asks[First], <<>>)
<1>6. d \in Frame /\ d.dir = Top.dir /\ d.todo = Top.todo /\ d.at = "restore" /\ d.asks = FALSE
  BY <1>1, <1>2, <1>3 DEF Frame
<1>7. /\ e \in Frame /\ e.dir = First /\ e.todo = <<>> /\ e.at = "idle" /\ e.asks = project.asks[First]
      /\ e.values = Top.values
  <2>1. /\ First \in Package \cup {Root} /\ Top.values \in [AllVar -> Datum]
        /\ project.asks[First] \in BOOLEAN
    BY <1>1, <1>2 DEF Frame, Project
  <2> PICK todo : todo = <<>>
    OBVIOUS
  <2>3. todo \in Seq(Package)
    OBVIOUS
  <2>2. \A x \in Package \cup {Root}, values \in [AllVar -> Datum], asks \in BOOLEAN :
          LET c == Directory(x, values, asks, todo)
          IN c \in Frame /\ c.dir = x /\ c.todo = todo /\ c.at = "idle" /\ c.asks = asks /\ c.values = values
    BY <2>3 DEF Directory, Frame, Datum
  <2>4. QED
    BY <2>1, <2>2
<1>8. /\ stack' = Append([stack EXCEPT ![n] = d], e)
      /\ project' = project /\ added' = added /\ log' = Append(log, First)
  <2>1. [stack EXCEPT ![n].at = "restore", ![n].k = Len(s)] = [stack EXCEPT ![n] = d]
    BY DEF Top, AInv, ChainInv
  <2>2. QED
    BY <2>1, SetsAre, Zenon DEF AddSubdirectory
<1> HIDE DEF d, e
<1>9. /\ stack' \in Seq(Frame) /\ Len(stack') = n + 1
      /\ \A i \in 1 .. n + 1 : stack'[i] = IF i = n + 1 THEN e ELSE IF i = n THEN d ELSE stack[i]
  <2> PICK t : t = [stack EXCEPT ![n] = d]
    OBVIOUS
  <2>1. t \in Seq(Frame) /\ Len(t) = n /\ \A i \in 1 .. n : t[i] = IF i = n THEN d ELSE stack[i]
    BY <1>6 DEF AInv, ChainInv
  <2>2. stack' \in Seq(Frame) /\ Len(stack') = n + 1 /\ \A i \in 1 .. n + 1 : stack'[i] = IF i = n + 1 THEN e ELSE t[i]
    BY <2>1, <1>1, <1>7, <1>8
  <2>3. \A i \in 1 .. n + 1 : i # n + 1 => i \in 1 .. n
    BY <1>1
  <2>4. QED
    BY <2>1, <2>2, <2>3
<1>10. Listing(project, d)
  BY <1>1, <1>2, <1>6 DEF Listing
<1>11. Listing(project, e)
  <2>1. project.asks[First] => project.file[First] # Unset
    BY <1>2 DEF Manifested
  <2>2. QED
    BY <2>1, <1>2, <1>5, <1>7 DEF Listing
<1>12. \A i \in 1 .. n + 1 : i \in 1 .. n - 1 \/ i = n \/ i = n + 1
  BY <1>1
<1>13. \A i \in 1 .. n - 1 : /\ i \in 1 .. n /\ i \in 1 .. n + 1 /\ i + 1 \in 1 .. n + 1
                             /\ i # n /\ i # n + 1 /\ i + 1 # n + 1
  BY <1>1
<1>14. stack'[n] = d /\ stack'[n + 1] = e /\ \A i \in 1 .. n - 1 : stack'[i] = stack[i]
  <2>1. n \in 1 .. n + 1 /\ n + 1 \in 1 .. n + 1 /\ n # n + 1
    BY <1>1
  <2>2. QED
    BY <2>1, <1>9, <1>13
<1>15. ChainInv'
  <2>1. \A i \in 1 .. n + 1 : Listing(project, stack'[i])
    BY <1>10, <1>11, <1>12, <1>13, <1>14 DEF AInv, ChainInv
  <2>2. ASSUME NEW i \in 1 .. n PROVE stack'[i].at = "restore" /\ stack'[i + 1].dir = Head(stack'[i].todo)
    <3>1. CASE i = n
      BY <3>1, <1>6, <1>7, <1>14 DEF First
    <3>2. CASE i # n
      <4>1. i \in 1 .. n - 1
        BY <3>2, <1>1
      <4>2. stack'[i] = stack[i] /\ stack'[i + 1] = IF i + 1 = n THEN d ELSE stack[i + 1]
        BY <4>1, <1>9, <1>13, <1>14
      <4>3. stack'[i + 1].dir = stack[i + 1].dir
        BY <4>2, <1>6 DEF Top
      <4>4. QED
        BY <4>1, <4>2, <4>3 DEF AInv, ChainInv
    <3>3. QED
      BY <3>1, <3>2
  <2>3. Len(stack') >= 1 /\ Len(stack') - 1 = n /\ Len(stack') = n + 1
    BY <1>1, <1>9
  <2>4. QED
    BY <2>1, <2>2, <2>3, <1>1, <1>8, <1>9 DEF ChainInv
<1>16. First \notin added
  BY <1>1 DEF AInv, LogInv, Top, First
<1>17. \A x : x \in Adding' <=> x \in Adding \/ x = First
  <2>1. \A i \in 1 .. n - 1 : stack[i].at = "restore"
    BY DEF AInv, ChainInv
  <2>2. \A x : x \in Adding <=> \E i \in 1 .. n - 1 : x = Head(stack[i].todo)
    <3>1. \A i \in 1 .. n : stack[i].at = "restore" <=> i \in 1 .. n - 1
      <4>1. stack[n].at # "restore"
        BY <1>1 DEF Top
      <4>2. \A i \in 1 .. n : i = n \/ i \in 1 .. n - 1
        BY <1>1
      <4>3. n \notin 1 .. n - 1
        BY <1>1
      <4>4. QED
        BY <4>1, <4>2, <4>3, <2>1
    <3>2. QED
      BY <3>1, <1>13 DEF Adding
  <2>3. \A x : x \in Adding' <=> \E i \in 1 .. n : x = Head(stack'[i].todo)
    <3>1. \A i \in 1 .. n + 1 : stack'[i].at = "restore" <=> i \in 1 .. n
      <4>1. stack'[n + 1].at # "restore" /\ stack'[n].at = "restore"
        BY <1>6, <1>7, <1>14
      <4>2. \A i \in 1 .. n + 1 : i \in 1 .. n <=> i \in 1 .. n - 1 \/ i = n
        BY <1>1
      <4>3. QED
        BY <4>1, <4>2, <2>1, <1>12, <1>14
    <3>2. \A i \in 1 .. n : i \in 1 .. n + 1
      BY <1>1
    <3>3. QED
      BY <3>1, <3>2, <1>9 DEF Adding
  <2>4. \A x : (\E i \in 1 .. n : x = Head(stack'[i].todo))
                 <=> (\E i \in 1 .. n - 1 : x = Head(stack[i].todo)) \/ x = First
    <3>1. Head(stack'[n].todo) = First
      BY <1>6, <1>14 DEF First
    <3>2. \A i \in 1 .. n : i = n \/ i \in 1 .. n - 1
      BY <1>1
    <3>3. QED
      BY <3>1, <3>2, <1>1, <1>13, <1>14
  <2>5. QED
    BY <2>2, <2>3, <2>4
<1>18. First \notin Adding
  <2>1. \A i \in 1 .. n - 1 : Head(stack[i].todo) # First
    BY <1>2, FirstIsNew DEF AInv
  <2>2. stack[n].at # "restore"
    BY <1>1 DEF Top
  <2>3. \A i \in 1 .. n : i = n \/ i \in 1 .. n - 1
    BY <1>1
  <2>4. QED
    BY <2>1, <2>2, <2>3 DEF Adding
<1>19. LogInv'
  <2>1. /\ log' \in Seq(Package) /\ Len(log) \in Nat /\ Len(log') = Len(log) + 1
        /\ \A i \in 1 .. Len(log) : log'[i] = log[i] /\ log'[Len(log) + 1] = First
    BY <1>2, <1>8 DEF AInv, LogInv
  <2>2. log'[Len(log) + 1] = First
    BY <1>2, <1>8 DEF AInv, LogInv
  <2>3. \A i \in 1 .. Len(log') : i \in 1 .. Len(log) \/ i = Len(log) + 1
    BY <2>1
  <2>4. \A i \in 1 .. Len(log') : log'[i] \in added' \cup Adding'
    BY <2>1, <2>2, <2>3, <1>8, <1>17 DEF AInv, LogInv
  <2>5. \A i \in 1 .. Len(log) : log[i] # First
    BY <1>16, <1>18 DEF AInv, LogInv
  <2>6. \A i, j \in 1 .. Len(log') : log'[i] = log'[j] => i = j
    BY <2>1, <2>2, <2>3, <2>5 DEF AInv, LogInv
  <2>7. \A i \in 1 .. n + 1 : stack'[i].at # "idle" => Head(stack'[i].todo) \notin added
    <3>1. Head(stack'[n].todo) = First
      BY <1>6, <1>14 DEF First
    <3>2. QED
      BY <3>1, <1>7, <1>12, <1>13, <1>14, <1>16 DEF AInv, LogInv
  <2>8. QED
    BY <2>1, <2>4, <2>6, <2>7, <1>8, <1>9 DEF LogInv
<1>20. QED
  BY <1>15, <1>19 DEF AInv

LEMMA AInit == Init => AInv
<1> SUFFICES ASSUME Init PROVE AInv
  OBVIOUS
<1>1. project \in Projects /\ project \in Project /\ project.file[Root] # Unset /\ NESTED \notin Var
  BY SubdirsAssumption DEF Init
<1> PICK values : values = [v \in AllVar |-> IF v # NESTED THEN project.given[v]
                                            ELSE IF project.active THEN Root ELSE Unset]
  OBVIOUS
<1>2. values \in [AllVar -> Datum]
  <2>1. project.given \in [Var -> Value \cup {Unset}]
    BY <1>1 DEF Project
  <2>2. QED
    BY <2>1 DEF AllVar, Datum
<1> PICK todo : todo = project.file[Root]
  OBVIOUS
<1>3. todo \in Seq(Package) /\ \A i \in 1 .. Len(todo) : Lists(project, Root, todo[i])
  BY <1>1 DEF Project, Lists
<1> DEFINE d == Directory(Root, values, FALSE, todo)
<1>4. stack = <<d>> /\ added = {} /\ log = <<>>
  BY DEF Init
<1>5. d \in Frame /\ d.dir = Root /\ d.todo = todo /\ d.at = "idle" /\ d.asks = FALSE
  BY <1>2, <1>3 DEF Directory, Frame, Datum
<1> HIDE DEF d
<1>6. stack \in Seq(Frame) /\ Len(stack) = 1 /\ stack[1] = d
  BY <1>4, <1>5
<1>7. ChainInv
  BY <1>1, <1>3, <1>5, <1>6 DEF ChainInv, Listing
<1>8. LogInv
  BY <1>4, <1>5, <1>6 DEF LogInv
<1>9. QED
  BY <1>7, <1>8 DEF AInv

\* Of all packages that call unideps_setup() and have a manifest, none is added twice,
\* whichever files list them (generator.rs:451-452, 475).
THEOREM AddsTheorem == Spec => []AddsOnceManifested
<1> DEFINE I == Manifested => AInv
<1>1. Init => I
  BY AInit
<1>2. I /\ [Next]_vars => I'
  <2> SUFFICES ASSUME I, [Next]_vars PROVE I'
    OBVIOUS
  <2>1. project' = project
    BY DEF Next, vars, Setup, Skip, Begin, SetOne, AddSubdirectory, Return, RestoreOne, End
  <2>2. Manifested' <=> Manifested
    BY <2>1 DEF Manifested
  <2>3. AInv /\ UNCHANGED vars => AInv'
    BY DEF AInv, ChainInv, LogInv, Adding, vars
  <2>4. Manifested /\ AInv => AInv'
    BY <2>3, SetupAdds, SkipAdds, BeginAdds, SetOneAdds, AddSubdirectoryAdds, ReturnAdds,
       RestoreOneAdds, EndAdds DEF Next
  <2>5. QED
    BY <2>2, <2>4
<1>3. I => AddsOnceManifested
  BY DEF AddsOnceManifested, AInv, LogInv
<1>4. QED
  BY <1>1, <1>2, <1>3, PTL DEF Spec

-----------------------------------------------------------------------------
(* Imports.  First minima and maxima, and what Merged makes of two lists.   *)

LEMMA MinFacts ==
  ASSUME NEW S \in SUBSET Nat, S # {}
  PROVE  Min(S) \in S /\ \A n \in S : Min(S) <= n
<1>1. PICK m \in S : \A n \in S : <<n, m>> \notin OpToRel(<, Nat)
  BY WFMin, NatLessThanWellFounded, Zenon
<1>2. ASSUME NEW n \in S PROVE m <= n
  <2>1. <<n, m>> \notin OpToRel(<, Nat) /\ m \in Nat /\ n \in Nat
    BY <1>1
  <2> QED BY <2>1 DEF OpToRel
<1>3. \E m_1 \in S : \A n \in S : m_1 <= n
  BY <1>2
<1> QED BY <1>3, Zenon DEF Min

LEMMA MaxIsIn ==
  ASSUME NEW n \in Nat, NEW S \in SUBSET (1 .. n), S # {}
  PROVE  Max(S) \in S
<1> DEFINE T == {m \in Nat : \A i \in S : i <= m}
<1>1. n \in T
  OBVIOUS
<1>2. Min(T) \in T /\ \A m \in T : Min(T) <= m
  BY <1>1, MinFacts
<1>3. Min(T) \in S
  <2>1. PICK i \in S : TRUE
    OBVIOUS
  <2>2. CASE Min(T) = 0
    BY <1>2, <2>1, <2>2
  <2>3. CASE Min(T) # 0
    <3>1. Min(T) - 1 \in Nat /\ Min(T) - 1 \notin T
      BY <1>2, <2>3
    <3>2. PICK j \in S : ~(j <= Min(T) - 1)
      BY <3>1
    <3> QED BY <1>2, <3>2
  <2> QED BY <2>2, <2>3
<1>4. \E m \in S : \A i \in S : m >= i
  <2>1. \A i \in S : Min(T) >= i
    BY <1>2
  <2> QED BY <1>3, <2>1
<1> QED BY <1>4, Zenon DEF Max

LEMMA FirstInFacts ==
  ASSUME NEW S, NEW X, NEW s \in Seq(X)
  PROVE  /\ FirstIn(s, S) \in (X \cap S) \cup {None}
         /\ (\E i \in DOMAIN s : s[i] \in S) => \E i \in DOMAIN s : FirstIn(s, S) = s[i] /\ s[i] \in S
<1> DEFINE is == {i \in DOMAIN s : s[i] \in S}
<1>1. is # {} => Min(is) \in is
  BY MinFacts
<1>2. FirstIn(s, S) = IF is = {} THEN None ELSE s[Min(is)]
  BY DEF FirstIn
<1>3. \A i \in is : i \in DOMAIN s /\ s[i] \in S /\ s[i] \in X
  OBVIOUS
<1>4. (\E i \in DOMAIN s : s[i] \in S) => is # {}
  OBVIOUS
<1> HIDE DEF is
<1>5. CASE is = {}
  BY <1>2, <1>4, <1>5
<1>6. CASE is # {}
  <2>1. Min(is) \in DOMAIN s /\ s[Min(is)] \in S /\ s[Min(is)] \in X
    BY <1>1, <1>3, <1>6
  <2>2. FirstIn(s, S) = s[Min(is)]
    BY <1>2, <1>6
  <2> QED BY <2>1, <2>2
<1> QED BY <1>5, <1>6

-----------------------------------------------------------------------------
\* The recursion of Fresh defines something.
FreshOf(nested, direct, n, f) ==
  f = [i \in 0 .. n |->
         IF i = 0 THEN <<>>
         ELSE IF nested[i].name \in NamesIn(direct) \cup NamesIn(f[i - 1]) THEN f[i - 1]
         ELSE Append(f[i - 1], nested[i])]

LEMMA FreshExists ==
  ASSUME NEW nested, NEW direct, NEW n \in Nat
  PROVE  \E f : FreshOf(nested, direct, n, f)
<1> DEFINE Bad == {m \in Nat : ~ \E f : FreshOf(nested, direct, m, f)}
<1>1. CASE Bad = {}
  BY <1>1
<1>2. CASE Bad # {}
  <2>1. /\ Min(Bad) \in Bad
        /\ \A k \in Bad : Min(Bad) <= k
    BY <1>2, MinFacts
  <2> DEFINE m == Min(Bad)
  <2> HIDE DEF m
  <2>2. m # 0
    <3>1. FreshOf(nested, direct, 0, [i \in 0 .. 0 |-> <<>>])
      BY DEF FreshOf
    <3> QED BY <2>1, <3>1 DEF m
  <2>3. m \in Nat /\ m - 1 \in Nat /\ m - 1 \notin Bad
    BY <2>1, <2>2 DEF m
  <2>4. PICK f : FreshOf(nested, direct, m - 1, f)
    BY <2>3
  <2> DEFINE Step(g, i) == IF nested[i].name \in NamesIn(direct) \cup NamesIn(g[i - 1]) THEN g[i - 1]
                           ELSE Append(g[i - 1], nested[i])
             g == [i \in 0 .. m |-> IF i < m THEN f[i] ELSE Step(f, m)]
  <2>5. FreshOf(nested, direct, m, g)
    <3>1. ASSUME NEW i \in 0 .. m
          PROVE  g[i] = IF i = 0 THEN <<>> ELSE Step(g, i)
      <4>1. CASE i = m
        BY <4>1, <2>3, <2>2
      <4>2. CASE i # m
        <5>1. i \in 0 .. m - 1 /\ i < m
          BY <2>3, <4>2
        <5>2. i # 0 => i - 1 < m /\ i - 1 \in 0 .. m
          BY <2>3, <5>1
        <5>3. f[i] = IF i = 0 THEN <<>> ELSE Step(f, i)
          BY <2>4, <5>1 DEF FreshOf
        <5> QED BY <5>1, <5>2, <5>3
      <4> QED BY <4>1, <4>2
    <3> HIDE DEF g
    <3>2. g = [i \in 0 .. m |-> g[i]]
      BY DEF g
    <3> QED BY <3>1, <3>2 DEF FreshOf
  <2> QED BY <2>1, <2>5 DEF m
<1> QED BY <1>1, <1>2

\* What is kept of the nested packages are packages of other names than the project's, each name
\* once, and whatever came before one of them is kept before it or the project's.
IsFresh(k, nested, direct, n) ==
  /\ k \in Seq(Node)
  /\ \A x, y \in DOMAIN k : k[x].name = k[y].name => x = y
  /\ \A a \in 1 .. n : nested[a].name \in NamesIn(direct) \cup NamesIn(k)
  /\ \A y \in DOMAIN k :
       /\ k[y].name \notin NamesIn(direct)
       /\ \E j \in 1 .. n :
            /\ k[y] = nested[j]
            /\ \A a \in 1 .. j - 1 :
                 nested[a].name \in NamesIn(direct) \/ \E x \in 1 .. y - 1 : nested[a].name = k[x].name

LEMMA FreshFacts ==
  ASSUME NEW nested \in Seq(Node), NEW direct
  PROVE  IsFresh(Fresh(nested, direct), nested, direct, Len(nested))
<1> DEFINE kept == CHOOSE f : FreshOf(nested, direct, Len(nested), f)
           P(n) == IsFresh(kept[n], nested, direct, n)
<1>1. FreshOf(nested, direct, Len(nested), kept)
  BY FreshExists
<1>2. Fresh(nested, direct) = kept[Len(nested)]
  BY DEF Fresh, FreshOf
<1> HIDE DEF kept
<1>3. \A n \in 0 .. Len(nested) : P(n)
  <2> DEFINE Bad == {n \in 0 .. Len(nested) : ~P(n)}
  <2> HIDE DEF P
  <2> SUFFICES ASSUME Bad # {} PROVE FALSE
    OBVIOUS
  <2>0. Len(nested) \in Nat /\ Bad \subseteq Nat
    OBVIOUS
  <2>1. PICK m \in Bad : \A k \in Bad : m <= k
    BY <2>0, MinFacts
  <2>2. kept[m] = IF m = 0 THEN <<>>
                  ELSE IF nested[m].name \in NamesIn(direct) \cup NamesIn(kept[m - 1]) THEN kept[m - 1]
                  ELSE Append(kept[m - 1], nested[m])
    BY <1>1 DEF FreshOf
  <2>3. CASE m = 0
    <3>1. kept[0] = <<>>
      BY <2>2, <2>3
    <3>2. P(0)
      BY <3>1 DEF P, IsFresh
    <3> QED BY <2>1, <2>3, <3>2
  <2>4. CASE m # 0
    <3>1. m - 1 \in 0 .. Len(nested) /\ m \in 1 .. Len(nested) /\ m - 1 < m /\ m \in Nat
      BY <2>0, <2>4
    <3> DEFINE t == kept[m - 1]
               e == nested[m]
    <3>2. IsFresh(t, nested, direct, m - 1)
      BY <2>1, <3>1 DEF P
    <3>3. kept[m] = IF e.name \in NamesIn(direct) \cup NamesIn(t) THEN t ELSE Append(t, e)
      BY <2>2, <2>4
    <3>4. e \in Node
      BY <3>1
    <3>40. \A a \in 1 .. m : a \in 1 .. m - 1 \/ a = m
      BY <3>1
    <3> HIDE DEF t, e
    <3>5. t \in Seq(Node) /\ DOMAIN t = 1 .. Len(t) /\ Len(t) \in Nat
      BY <3>2 DEF IsFresh
    <3>6. CASE e.name \in NamesIn(direct) \cup NamesIn(t)
      <4>1. kept[m] = t
        BY <3>3, <3>6
      <4>2. \A a \in 1 .. m : nested[a].name \in NamesIn(direct) \cup NamesIn(t)
        BY <3>2, <3>6, <3>40 DEF IsFresh, e
      <4>3. \A j \in 1 .. m - 1 : j \in 1 .. m
        BY <3>1
      <4>4. IsFresh(t, nested, direct, m)
        BY <3>2, <4>2, <4>3 DEF IsFresh
      <4> QED BY <4>1, <4>4, <2>1 DEF P
    <3>7. CASE e.name \notin NamesIn(direct) \cup NamesIn(t)
      <4> DEFINE k == Append(t, e)
      <4>1. /\ k \in Seq(Node) /\ DOMAIN k = 1 .. Len(t) + 1
            /\ \A x \in 1 .. Len(t) : k[x] = t[x]
            /\ k[Len(t) + 1] = e
        BY <3>4, <3>5
      <4> HIDE DEF k
      <4>2. \A x \in DOMAIN k : x \in DOMAIN t \/ x = Len(t) + 1
        BY <4>1, <3>5
      <4>3. \A x, y \in DOMAIN k : k[x].name = k[y].name => x = y
        <5>1. \A x \in DOMAIN t : t[x].name # e.name
          BY <3>7 DEF NamesIn
        <5>2. \A x, y \in DOMAIN t : t[x].name = t[y].name => x = y
          BY <3>2 DEF IsFresh
        <5> QED BY <4>1, <4>2, <5>1, <5>2, <3>5
      <4>4. NamesIn(k) = NamesIn(t) \cup {e.name}
        <5>1. Len(t) + 1 \in 1 .. Len(t) + 1 /\ \A x \in 1 .. Len(t) : x \in 1 .. Len(t) + 1
          BY <3>5
        <5> QED BY <4>1, <4>2, <3>5, <5>1 DEF NamesIn
      <4>5. \A a \in 1 .. m : nested[a].name \in NamesIn(direct) \cup NamesIn(k)
        BY <3>2, <4>4, <3>40 DEF IsFresh, e
      <4>6. ASSUME NEW y \in DOMAIN k
            PROVE  /\ k[y].name \notin NamesIn(direct)
                   /\ \E j \in 1 .. m :
                        /\ k[y] = nested[j]
                        /\ \A a \in 1 .. j - 1 :
                             \/ nested[a].name \in NamesIn(direct)
                             \/ \E x \in 1 .. y - 1 : nested[a].name = k[x].name
        <5>1. CASE y \in DOMAIN t
          <6>1. k[y] = t[y]
            BY <5>1, <4>1, <3>5
          <6>2. PICK j \in 1 .. m - 1 :
                  /\ t[y] = nested[j]
                  /\ \A a \in 1 .. j - 1 :
                       \/ nested[a].name \in NamesIn(direct)
                       \/ \E x \in 1 .. y - 1 : nested[a].name = t[x].name
            BY <5>1, <3>2 DEF IsFresh
          <6>3. j \in 1 .. m /\ \A x \in 1 .. y - 1 : k[x] = t[x]
            BY <3>1, <5>1, <3>5, <4>1
          <6>4. t[y].name \notin NamesIn(direct)
            BY <5>1, <3>2 DEF IsFresh
          <6> QED BY <6>1, <6>2, <6>3, <6>4
        <5>2. CASE y = Len(t) + 1
          <6>1. m \in 1 .. m /\ k[y] = nested[m] /\ y - 1 = Len(t)
            BY <5>2, <4>1, <3>1, <3>5 DEF e
          <6>2. ASSUME NEW a \in 1 .. m - 1
                PROVE  \/ nested[a].name \in NamesIn(direct)
                       \/ \E x \in 1 .. y - 1 : nested[a].name = k[x].name
            <7>1. nested[a].name \in NamesIn(direct) \cup NamesIn(t)
              BY <3>2 DEF IsFresh
            <7> QED BY <7>1, <6>1, <4>1, <3>5 DEF NamesIn
          <6>3. k[y].name \notin NamesIn(direct)
            BY <5>2, <4>1, <3>7
          <6> QED BY <6>1, <6>2, <6>3
        <5> QED BY <5>1, <5>2, <4>2
      <4>7. IsFresh(k, nested, direct, m)
        BY <4>1, <4>3, <4>5, <4>6 DEF IsFresh
      <4>8. kept[m] = k
        BY <3>3, <3>7 DEF k
      <4> QED BY <4>7, <4>8, <2>1 DEF P
    <3> QED BY <3>6, <3>7
  <2> QED BY <2>3, <2>4
<1> HIDE DEF P
<1>4. P(Len(nested))
  BY <1>3
<1> QED BY <1>2, <1>4 DEF P

\* n and what it needs under the name x come of one manifest of the run d.
OfOne(x, n, d) ==
  \/ {x, n} \subseteq NamesIn(d.direct)
  \/ {x, n} \cap NamesIn(d.direct) = {} /\ Precedes(x, n, d.nested)

\* The list of a run has each name once, and within a manifest what is needed first.
IsMerged(s, d) ==
  /\ s \in Seq(Node)
  /\ \A i, j \in DOMAIN s : s[i].name = s[j].name => i = j
  /\ PrefixesOf(s) \subseteq PrefixesOf(d.nested) \cup PrefixesOf(d.direct)
  /\ \A i, j \in DOMAIN s : s[j].name \in s[i].deps /\ OfOne(s[j].name, s[i].name, d) => j < i

LEMMA MergedFacts ==
  ASSUME NEW d \in Declared
  PROVE  IsMerged(Merged(d.nested, d.direct), d)
<1> DEFINE nested == d.nested
           direct == d.direct
           k == Fresh(nested, direct)
           s == Merged(nested, direct)
<1>1. nested \in Seq(Node) /\ direct \in Seq(Node)
  BY ImportsAssumption
<1>11. \A i, j \in DOMAIN direct : direct[i].name = direct[j].name => i = j
  BY ImportsAssumption
<1>12. \A i, j \in DOMAIN direct : direct[j].name \in direct[i].deps => j < i
  BY ImportsAssumption
<1>2. IsFresh(k, nested, direct, Len(nested))
  BY <1>1, FreshFacts
<1>3. s = k \o direct
  BY DEF Merged
<1> HIDE DEF nested, direct, k, s
<1>4. k \in Seq(Node)
  BY <1>2 DEF IsFresh
<1>5. /\ s \in Seq(Node) /\ DOMAIN s = 1 .. Len(k) + Len(direct)
      /\ \A i \in 1 .. Len(k) : s[i] = k[i]
      /\ \A i \in DOMAIN s : i \notin 1 .. Len(k) => i - Len(k) \in DOMAIN direct /\ s[i] = direct[i - Len(k)]
      /\ DOMAIN k = 1 .. Len(k) /\ Len(k) \in Nat /\ Len(direct) \in Nat
  BY <1>1, <1>3, <1>4
<1>6. \A i \in DOMAIN s : i \in 1 .. Len(k) <=> s[i].name \notin NamesIn(direct)
  BY <1>2, <1>5 DEF IsFresh, NamesIn
<1>7. ASSUME NEW i \in DOMAIN s, NEW j \in DOMAIN s, s[i].name = s[j].name
      PROVE  i = j
  <2>1. CASE i \in 1 .. Len(k)
    <3>1. j \in 1 .. Len(k)
      BY <1>6, <1>7, <2>1
    <3>2. k[i].name = k[j].name
      BY <1>5, <1>7, <2>1, <3>1
    <3> QED BY <1>2, <1>5, <2>1, <3>1, <3>2 DEF IsFresh
  <2>2. CASE i \notin 1 .. Len(k)
    <3>1. j \notin 1 .. Len(k)
      BY <1>6, <1>7, <2>2
    <3> DEFINE x == i - Len(k)
               y == j - Len(k)
    <3>2. x \in DOMAIN direct /\ y \in DOMAIN direct /\ direct[x].name = direct[y].name
      <4>1. x \in DOMAIN direct /\ s[i] = direct[x]
        BY <1>5, <2>2
      <4>2. y \in DOMAIN direct /\ s[j] = direct[y]
        BY <1>5, <3>1
      <4> QED BY <1>7, <4>1, <4>2
    <3> HIDE DEF x, y
    <3>3. x = y
      BY <1>11, <3>2, Zenon
    <3> QED BY <1>5, <3>3 DEF x, y
  <2> QED BY <2>1, <2>2
<1>8. PrefixesOf(s) \subseteq PrefixesOf(nested) \cup PrefixesOf(direct)
  <2> SUFFICES ASSUME NEW i \in DOMAIN s, s[i].prefix # None
               PROVE  s[i].prefix \in PrefixesOf(nested) \cup PrefixesOf(direct)
    BY DEF PrefixesOf
  <2>1. CASE i \in 1 .. Len(k)
    <3>1. PICK j \in 1 .. Len(nested) : k[i] = nested[j]
      BY <1>2, <1>5, <2>1 DEF IsFresh
    <3>2. j \in DOMAIN nested /\ s[i] = nested[j]
      BY <1>1, <1>5, <2>1, <3>1
    <3> QED BY <3>2 DEF PrefixesOf
  <2>2. CASE i \notin 1 .. Len(k)
    BY <1>5, <2>2 DEF PrefixesOf
  <2> QED BY <2>1, <2>2
<1>9. ASSUME NEW i \in DOMAIN s, NEW j \in DOMAIN s, s[j].name \in s[i].deps,
             OfOne(s[j].name, s[i].name, d)
      PROVE  j < i
  <2>1. CASE {s[j].name, s[i].name} \subseteq NamesIn(direct)
    <3>1. i \notin 1 .. Len(k) /\ j \notin 1 .. Len(k)
      BY <1>6, <2>1
    <3>2. /\ i - Len(k) \in DOMAIN direct /\ s[i] = direct[i - Len(k)]
          /\ j - Len(k) \in DOMAIN direct /\ s[j] = direct[j - Len(k)]
      BY <1>5, <3>1
    <3> DEFINE x == i - Len(k)
               y == j - Len(k)
    <3>3. x \in DOMAIN direct /\ y \in DOMAIN direct /\ direct[y].name \in direct[x].deps
      BY <1>9, <3>2
    <3> HIDE DEF x, y
    <3>4. y < x
      BY <1>12, <3>3, Zenon
    <3> QED BY <1>5, <3>4 DEF x, y
  <2>2. CASE {s[j].name, s[i].name} \cap NamesIn(direct) = {} /\ Precedes(s[j].name, s[i].name, nested)
    <3>1. i \in 1 .. Len(k) /\ s[i] = k[i]
      BY <1>5, <1>6, <2>2
    <3>2. PICK a \in DOMAIN nested : /\ nested[a].name = s[j].name
                                     /\ \A b \in DOMAIN nested : nested[b].name = s[i].name => a < b
      BY <2>2 DEF Precedes
    <3>3. PICK b \in 1 .. Len(nested) :
            /\ k[i] = nested[b]
            /\ \A y \in 1 .. b - 1 :
                 nested[y].name \in NamesIn(direct) \/ \E x \in 1 .. i - 1 : nested[y].name = k[x].name
      BY <1>2, <1>5, <3>1 DEF IsFresh
    <3>4. b \in DOMAIN nested /\ a \in Nat /\ a >= 1 /\ b \in Nat
      BY <1>1
    <3>5. a < b
      BY <3>1, <3>2, <3>3, <3>4
    <3>6. a \in 1 .. b - 1
      BY <3>4, <3>5
    <3>7. PICK x \in 1 .. i - 1 : nested[a].name = k[x].name
      BY <2>2, <3>2, <3>3, <3>6
    <3>8. x \in 1 .. Len(k) /\ x \in DOMAIN s /\ s[x] = k[x] /\ x < i
      BY <1>5, <3>1
    <3>9. x = j
      BY <1>7, <3>2, <3>7, <3>8
    <3> QED BY <3>8, <3>9
  <2> QED BY <1>9, <2>1, <2>2 DEF OfOne, nested, direct
<1>10. IsMerged(s, d)
  BY <1>5, <1>7, <1>8, <1>9 DEF IsMerged, nested, direct
<1> QED BY <1>10 DEF s, nested, direct

-----------------------------------------------------------------------------
\* What an entry that the configure uses may be: if it is where this run's prefixes are it is in one
\* of them, or where the project itself searches.
Fits(v) ==
  (\E l \in PrefixesOf(file) : Below(Parent(l), v)) =>
    \/ \E l \in KeptRoots : Within(l, v)
    \/ \E j \in DOMAIN site.path : v = ConfigDir(site.path[j])

\* The i-th package is the only one that goes by c, and has its config.
Owns(i, c) ==
  /\ file[i].prefix # None
  /\ c \in GoesBy(file[i]) \cap Holds[file[i].prefix]
  /\ \A j \in DOMAIN file \ {i} : c \notin GoesBy(file[j])

\* Where a package may be found that owns c: in its prefix, or where an entry from before the
\* configure points that is not dropped.
Ours(i, c, v) ==
  v \in {None, ConfigDir(file[i].prefix)} \/ (v = before[c] /\ ~Drops(c, v))

\* The file is that of the last run, whose prefixes are there while it is read.
FileInv ==
  /\ \/ declared \in Declared /\ file = Merged(declared.nested, declared.direct)
     \/ file = <<>> /\ got = <<>>
  /\ phase \in {"drop", "import"} => PrefixesOf(file) \subseteq there
  /\ phase = "drop" => cache = before /\ got = <<>>

\* While packages are imported, no entry is stale, and none of this configure names another
\* prefix for a package than its own.
CacheInv ==
  phase = "import" =>
    /\ \A c \in Name \ Reserved : cache[c] # None => Fits(cache[c])
    /\ \A i \in DOMAIN file, c \in Name : Owns(i, c) => Ours(i, c, cache[c])

\* What is known of a package that has been imported, for good.
FoundWell(i) == Found(i) => file[i].prefix # None /\ (got[i].as \notin Reserved => Fits(got[i].dir))
OwnWell(i) == Found(i) =>
  \A c \in Name :
    (/\ Owns(i, c)
     /\ file[i].import \in {None, c}
     /\ file[i].import = None => Holds[file[i].prefix] = {c})
      => Ours(i, c, got[i].dir)
LinkedWell(i) ==
  /\ HasTarget(i) => TargetsOf(file[i]) # {}
  /\ \A j \in 1 .. i - 1 : Synthesised(i) /\ file[j].name \in file[i].deps /\ HasTarget(j) =>
       \E t \in TargetsOf(file[j]) : <<<<"ns", file[i].name>>, t>> \in links
NamedWell(i) == Synthesised(i) /\ ~file[i].header /\ file[i].hint # "there" =>
  LET kind == IF file[i].shared THEN "shared" ELSE "static"
      fits == {f \in Files[file[i].prefix] : f.kind = kind}
  IN fits # {} => got[i].lib \in fits /\ ((\E f \in fits : f.named) => got[i].lib.named)
ImportedWell(i) == FoundWell(i) /\ OwnWell(i) /\ LinkedWell(i) /\ NamedWell(i)

ImportsInv == ImportsTypeOK /\ FileInv /\ CacheInv /\ \A i \in DOMAIN got : ImportedWell(i)

-----------------------------------------------------------------------------
(* Directories.                                                            *)

LEMMA WithinItself ==
  ASSUME NEW l \in Location
  PROVE  Within(l, ConfigDir(l))
<1> DEFINE T == STRING \cup {"lib"}
<1>1. l \in Seq(T)
  BY ImportsAssumption
<1>2. /\ Append(l, "lib") \in Seq(T)
      /\ Len(Append(l, "lib")) = Len(l) + 1
      /\ \A i \in 1 .. Len(l) : Append(l, "lib")[i] = l[i]
  BY <1>1
<1>3. SubSeq(Append(l, "lib"), 1, Len(l)) = l
  BY <1>1, <1>2
<1> QED BY <1>1, <1>2, <1>3 DEF Within, ConfigDir

\* The packages of the file.
LEMMA FileFacts ==
  ASSUME ImportsTypeOK, NEW i \in DOMAIN file
  PROVE  /\ file[i] \in Node /\ file[i].name \in Name
         /\ file[i].import \in Name \cup {None} /\ file[i].prefix \in Location \cup {None}
         /\ file[i].name # None
         /\ file[i].prefix # None => file[i].prefix \in PrefixesOf(file)
<1>1. file[i] \in Node
  BY DEF ImportsTypeOK
<1>2. /\ file[i].name \in Name /\ file[i].import \in Name \cup {None}
      /\ file[i].prefix \in Location \cup {None}
  BY <1>1 DEF Node
<1>3. file[i].name # None
  BY <1>2, ImportsAssumption
<1>4. file[i].prefix # None => file[i].prefix \in PrefixesOf(file)
  BY DEF PrefixesOf
<1> QED BY <1>1, <1>2, <1>3, <1>4

LEMMA GotFacts ==
  ASSUME ImportsTypeOK
  PROVE  /\ DOMAIN got = 1 .. Len(got) /\ Len(got) \in Nat /\ Len(file) \in Nat
         /\ DOMAIN file = 1 .. Len(file) /\ DOMAIN got \subseteq DOMAIN file
  BY DEF ImportsTypeOK

LEMMA RootFacts ==
  ASSUME ImportsTypeOK, NEW c
  PROVE  /\ RootOf(c) \in PrefixesOf(file) \cup {None}
         /\ \A i \in DOMAIN file :
              (/\ file[i].prefix # None /\ c \in GoesBy(file[i])
               /\ \A j \in DOMAIN file \ {i} : c \notin GoesBy(file[j]))
                => RootOf(c) = file[i].prefix
<1> DEFINE is == {i \in DOMAIN file : file[i].prefix # None /\ c \in RootNames(file[i])}
<1>1. RootOf(c) = IF is = {} THEN None ELSE file[Max(is)].prefix
  BY DEF RootOf
<1>2. is # {} => Max(is) \in is
  <2>1. is \in SUBSET (1 .. Len(file)) /\ Len(file) \in Nat
    BY DEF ImportsTypeOK
  <2> HIDE DEF is
  <2> QED BY <2>1, MaxIsIn
<1>3. RootOf(c) \in PrefixesOf(file) \cup {None}
  BY <1>1, <1>2 DEF PrefixesOf
<1>4. ASSUME NEW i \in DOMAIN file, file[i].prefix # None, c \in GoesBy(file[i]),
             \A j \in DOMAIN file \ {i} : c \notin GoesBy(file[j])
      PROVE  RootOf(c) = file[i].prefix
  <2>1. \A j \in DOMAIN file : RootNames(file[j]) = GoesBy(file[j])
    BY FileFacts DEF RootNames, GoesBy
  <2>2. is = {i}
    BY <1>4, <2>1
  <2>3. Max(is) = i
    BY <1>2, <2>2
  <2> QED BY <1>1, <2>2, <2>3
<1> QED BY <1>3, <1>4

LEMMA PathFacts ==
  ASSUME ImportsTypeOK
  PROVE  /\ DOMAIN SearchPath \subseteq Nat
         /\ \A i \in DOMAIN SearchPath :
              SearchPath[i] \in PrefixesOf(file) \cup {None} \/ \E j \in DOMAIN site.path : SearchPath[i] = site.path[j]
<1> DEFINE own == [i \in DOMAIN file |-> file[Len(file) + 1 - i].prefix]
<1>1. site.path \in Seq(Location) /\ file \in Seq(Node)
  BY ImportsAssumption DEF ImportsTypeOK
<1>2. /\ own \in Seq(PrefixesOf(file) \cup {None}) /\ Len(own) = Len(file)
  <2>1. /\ Len(file) \in Nat /\ DOMAIN file = 1 .. Len(file)
        /\ \A i \in 1 .. Len(file) : Len(file) + 1 - i \in DOMAIN file
    BY <1>1
  <2>2. \A i \in DOMAIN file : file[i].prefix \in PrefixesOf(file) \cup {None}
    BY DEF PrefixesOf
  <2> QED BY <2>1, <2>2
<1>3. SearchPath = own \o site.path
  BY DEF SearchPath
<1> HIDE DEF own
<1>31. own \in Seq(PrefixesOf(file) \cup {None}) /\ DOMAIN own = 1 .. Len(own) /\ Len(own) \in Nat
  BY <1>2
<1>32. DOMAIN site.path = 1 .. Len(site.path) /\ Len(site.path) \in Nat
  BY <1>1
<1>4. /\ DOMAIN SearchPath = 1 .. Len(own) + Len(site.path)
      /\ \A i \in DOMAIN SearchPath :
           SearchPath[i] = IF i <= Len(own) THEN own[i] ELSE site.path[i - Len(own)]
      /\ Len(own) \in Nat /\ Len(site.path) \in Nat
      /\ DOMAIN own = 1 .. Len(own) /\ DOMAIN site.path = 1 .. Len(site.path)
  BY <1>1, <1>3, <1>31, <1>32
<1>5. ASSUME NEW i \in DOMAIN SearchPath
      PROVE  SearchPath[i] \in PrefixesOf(file) \cup {None} \/ \E j \in DOMAIN site.path : SearchPath[i] = site.path[j]
  <2>1. CASE i <= Len(own)
    BY <1>2, <1>4, <2>1
  <2>2. CASE ~(i <= Len(own))
    <3>1. i - Len(own) \in DOMAIN site.path /\ SearchPath[i] = site.path[i - Len(own)]
      BY <1>4, <2>2
    <3> QED BY <3>1
  <2> QED BY <2>1, <2>2
<1> QED BY <1>4, <1>5

\* find_package takes the entry that was there, or a prefix of the run, or where the project searches.
LEMMA SearchFacts ==
  ASSUME ImportsTypeOK, NEW c \in Name
  PROVE  /\ Search(c) \in Entry
         /\ \/ Search(c) = None \/ Search(c) = cache[c]
            \/ \E l \in PrefixesOf(file) : Search(c) = ConfigDir(l)
            \/ \E j \in DOMAIN site.path : Search(c) = ConfigDir(site.path[j])
<1> DEFINE is == {i \in DOMAIN SearchPath : IsAt(c, SearchPath[i])}
<1>1. Search(c) = IF \E l \in there : IsAt(c, l) /\ cache[c] = ConfigDir(l) THEN cache[c]
                  ELSE IF IsAt(c, RootOf(c)) THEN ConfigDir(RootOf(c))
                  ELSE IF is = {} THEN None
                  ELSE ConfigDir(SearchPath[Min(is)])
  BY DEF Search
<1>2. is # {} => Min(is) \in is
  <2>1. is \subseteq Nat
    BY PathFacts
  <2> HIDE DEF is
  <2> QED BY <2>1, MinFacts
<1>3. \A l : IsAt(c, l) => l \in Location /\ l # None
  BY ImportsAssumption DEF IsAt, ImportsTypeOK
<1>4. CASE \E l \in there : IsAt(c, l) /\ cache[c] = ConfigDir(l)
  BY <1>1, <1>4 DEF ImportsTypeOK
<1>5. CASE ~(\E l \in there : IsAt(c, l) /\ cache[c] = ConfigDir(l)) /\ IsAt(c, RootOf(c))
  <2>1. Search(c) = ConfigDir(RootOf(c))
    BY <1>1, <1>5
  <2>2. RootOf(c) \in Location /\ RootOf(c) \in PrefixesOf(file)
    BY <1>3, <1>5, RootFacts
  <2> QED BY <2>1, <2>2 DEF Entry
<1>6. CASE ~(\E l \in there : IsAt(c, l) /\ cache[c] = ConfigDir(l)) /\ ~IsAt(c, RootOf(c)) /\ is = {}
  <2>1. Search(c) = None
    BY <1>1, <1>6
  <2> QED BY <2>1 DEF Entry
<1>7. CASE ~(\E l \in there : IsAt(c, l) /\ cache[c] = ConfigDir(l)) /\ ~IsAt(c, RootOf(c)) /\ is # {}
  <2> DEFINE at == Min(is)
  <2>1. Search(c) = ConfigDir(SearchPath[at])
    BY <1>1, <1>7
  <2>2. at \in DOMAIN SearchPath /\ IsAt(c, SearchPath[at])
    BY <1>2, <1>7
  <2> HIDE DEF at
  <2>3. SearchPath[at] \in Location /\ SearchPath[at] # None
    BY <1>3, <2>2
  <2>4. SearchPath[at] \in PrefixesOf(file) \/ \E j \in DOMAIN site.path : SearchPath[at] = site.path[j]
    BY <2>2, <2>3, PathFacts
  <2> QED BY <2>1, <2>3, <2>4 DEF Entry
<1> QED BY <1>4, <1>5, <1>6, <1>7

\* Nothing stale comes into the cache, and a package that owns its name is found in its prefix.
LEMMA SearchFits ==
  ASSUME ImportsInv, phase = "import", NEW c \in Name, c \notin Reserved, Search(c) # None
  PROVE  Fits(Search(c))
<1>1. ImportsTypeOK
  BY DEF ImportsInv
<1>2. CASE Search(c) = cache[c]
  BY <1>2 DEF ImportsInv, CacheInv
<1>3. CASE \E l \in PrefixesOf(file) : Search(c) = ConfigDir(l)
  <2>1. PICK l \in PrefixesOf(file) : Search(c) = ConfigDir(l)
    BY <1>3
  <2>2. l \in Location /\ l \in KeptRoots
    BY <1>1, FileFacts DEF PrefixesOf, KeptRoots
  <2> QED BY <2>1, <2>2, WithinItself DEF Fits
<1>4. CASE \E j \in DOMAIN site.path : Search(c) = ConfigDir(site.path[j])
  BY <1>4 DEF Fits
<1> QED BY <1>1, <1>2, <1>3, <1>4, SearchFacts

LEMMA SearchOwn ==
  ASSUME ImportsInv, phase = "import", NEW c \in Name, NEW i \in DOMAIN file, Owns(i, c)
  PROVE  Ours(i, c, Search(c))
<1>1. ImportsTypeOK
  BY DEF ImportsInv
<1>2. Ours(i, c, cache[c])
  BY DEF ImportsInv, CacheInv
<1>3. RootOf(c) = file[i].prefix
  BY <1>1, RootFacts DEF Owns
<1>4. IsAt(c, RootOf(c))
  <2>1. file[i].prefix \in there
    BY <1>1, FileFacts DEF ImportsInv, FileInv, Owns
  <2> QED BY <1>3, <2>1 DEF IsAt, Owns
<1>5. Search(c) = cache[c] \/ Search(c) = ConfigDir(RootOf(c))
  BY <1>4 DEF Search
<1> QED BY <1>2, <1>3, <1>5 DEF Ours

-----------------------------------------------------------------------------
(* The steps.                                                              *)

LEMMA WellStays ==
  ASSUME UNCHANGED <<site, before, file, got, targets, links>>, \A i \in DOMAIN got : ImportedWell(i)
  PROVE  \A i \in DOMAIN got' : ImportedWell(i)'
<1> SUFFICES ASSUME NEW i \in DOMAIN got PROVE ImportedWell(i)'
  OBVIOUS
<1>1. ImportedWell(i)
  OBVIOUS
<1>2. FoundWell(i)'
  BY <1>1 DEF ImportedWell, FoundWell, Found, Fits, KeptRoots
<1>3. OwnWell(i)'
  BY <1>1 DEF ImportedWell, OwnWell, Found, Owns, Ours, Drops, IsStale, KeptRoots
<1>4. LinkedWell(i)'
  BY <1>1 DEF ImportedWell, LinkedWell, HasTarget, Synthesised, TargetsOf
<1>5. NamedWell(i)'
  BY <1>1 DEF ImportedWell, NamedWell, Synthesised
<1> QED BY <1>2, <1>3, <1>4, <1>5 DEF ImportedWell

\* A package that is imported takes nothing from those before.
LEMMA WellAppended ==
  ASSUME ImportsInv, NEW g, got' = Append(got, g), UNCHANGED <<site, before, file>>,
         targets \subseteq targets', links \subseteq links',
         NEW n, n = Len(got) + 1, ImportedWell(n)'
  PROVE  \A i \in DOMAIN got' : ImportedWell(i)'
<1>1. /\ Len(got) \in Nat /\ DOMAIN got = 1 .. Len(got) /\ DOMAIN got' = 1 .. Len(got) + 1
      /\ \A i \in DOMAIN got : got'[i] = got[i]
  BY GotFacts DEF ImportsInv, ImportsTypeOK
<1> SUFFICES ASSUME NEW i \in DOMAIN got PROVE ImportedWell(i)'
  <2>1. \A i \in DOMAIN got' : i \in DOMAIN got \/ i = n
    BY <1>1
  <2> QED BY <2>1
<1>2. ImportedWell(i)
  BY DEF ImportsInv
<1>3. \A j \in 1 .. i : j \in DOMAIN got /\ got'[j] = got[j]
  BY <1>1
<1>4. got'[i] = got[i]
  BY <1>1
<1>5. \A j \in 1 .. i : HasTarget(j)' = HasTarget(j)
  BY <1>3 DEF HasTarget
<1>6. Found(i)' = Found(i) /\ Synthesised(i)' = Synthesised(i)
  BY <1>4 DEF Found, Synthesised
<1>7. \A m : TargetsOf(m) \subseteq TargetsOf(m)'
  BY DEF TargetsOf
<1>8. FoundWell(i)'
  BY <1>2, <1>4, <1>6 DEF ImportedWell, FoundWell, Fits, KeptRoots
<1>9. OwnWell(i)'
  BY <1>2, <1>4, <1>6 DEF ImportedWell, OwnWell, Owns, Ours, Drops, IsStale, KeptRoots
<1>10. LinkedWell(i)'
  <2>1. HasTarget(i)' => TargetsOf(file[i])' # {}
    BY <1>1, <1>2, <1>5, <1>7 DEF ImportedWell, LinkedWell
  <2>2. ASSUME NEW j \in 1 .. i - 1, Synthesised(i)', file[j].name \in file[i].deps, HasTarget(j)'
        PROVE  \E t \in TargetsOf(file[j])' : <<<<"ns", file[i].name>>, t>> \in links'
    <3>1. j \in 1 .. i
      BY <1>1
    <3>2. HasTarget(j) /\ Synthesised(i)
      BY <1>5, <1>6, <2>2, <3>1
    <3>3. PICK t \in TargetsOf(file[j]) : <<<<"ns", file[i].name>>, t>> \in links
      BY <1>2, <2>2, <3>2 DEF ImportedWell, LinkedWell
    <3> QED BY <1>7, <3>3
  <2> QED BY <2>1, <2>2 DEF LinkedWell
<1>11. NamedWell(i)'
  BY <1>2, <1>4, <1>6 DEF ImportedWell, NamedWell
<1> QED BY <1>8, <1>9, <1>10, <1>11 DEF ImportedWell

LEMMA InitHolds == ImportsInit => ImportsInv
<1> SUFFICES ASSUME ImportsInit PROVE ImportsInv
  OBVIOUS
<1>1. ImportsTypeOK
  <2>1. cache \in [Name -> Entry] /\ before \in [Name -> Entry]
    BY DEF ImportsInit, Entry
  <2>2. there \subseteq Location /\ count \in 0 .. MaxConfigures /\ got = <<>> /\ file = <<>>
    BY ImportsAssumption DEF ImportsInit
  <2> QED BY <2>1, <2>2 DEF ImportsInit, ImportsTypeOK
<1>2. FileInv /\ CacheInv /\ \A i \in DOMAIN got : ImportedWell(i)
  BY DEF ImportsInit, FileInv, CacheInv
<1> QED BY <1>1, <1>2 DEF ImportsInv

LEMMA IdleSteps ==
  ASSUME ImportsInv,
         \/ \E c \in Name, l \in Location : UserSets(c, l)
         \/ \E l \in Location : Delete(l)
         \/ Finish
         \/ UNCHANGED importsVars
  PROVE  ImportsInv'
<1>1. UNCHANGED <<site, before, declared, file, got, targets, links, count>>
  BY DEF UserSets, Delete, Finish, importsVars
<1>2. \A i \in DOMAIN got' : ImportedWell(i)'
  BY <1>1, WellStays DEF ImportsInv
<1>3. CASE UNCHANGED importsVars
  <2>1. ImportsTypeOK' /\ FileInv'
    BY <1>3 DEF ImportsInv, ImportsTypeOK, FileInv, importsVars, PrefixesOf
  <2>2. CacheInv'
    BY <1>3 DEF ImportsInv, CacheInv, importsVars, Fits, KeptRoots, Owns, Ours, Drops, IsStale
  <2> QED BY <1>2, <2>1, <2>2 DEF ImportsInv
<1>4. ASSUME NEW c \in Name, NEW l \in Location, UserSets(c, l) PROVE ImportsInv'
  <2>1. cache' \in [Name -> Entry] /\ phase' = "idle" /\ there' = there
    BY <1>4 DEF UserSets, ImportsInv, ImportsTypeOK, Entry
  <2>2. ImportsTypeOK'
    BY <1>1, <2>1 DEF ImportsInv, ImportsTypeOK
  <2>3. FileInv' /\ CacheInv'
    BY <1>1, <2>1 DEF ImportsInv, FileInv, CacheInv
  <2> QED BY <1>2, <2>2, <2>3 DEF ImportsInv
<1>5. ASSUME NEW l \in Location, Delete(l) PROVE ImportsInv'
  <2>1. there' \subseteq there /\ cache' = cache /\ phase' = "idle"
    BY <1>5 DEF Delete
  <2>2. ImportsTypeOK'
    BY <1>1, <2>1 DEF ImportsInv, ImportsTypeOK
  <2>3. FileInv' /\ CacheInv'
    BY <1>1, <2>1 DEF ImportsInv, FileInv, CacheInv
  <2> QED BY <1>2, <2>2, <2>3 DEF ImportsInv
<1>6. CASE Finish
  <2>1. UNCHANGED <<there, cache>> /\ phase' = "idle"
    BY <1>6 DEF Finish
  <2>2. ImportsTypeOK'
    BY <1>1, <2>1 DEF ImportsInv, ImportsTypeOK
  <2>3. FileInv' /\ CacheInv'
    BY <1>1, <2>1 DEF ImportsInv, FileInv, CacheInv
  <2> QED BY <1>2, <2>2, <2>3 DEF ImportsInv
<1> QED BY <1>3, <1>4, <1>5, <1>6

LEMMA GenerateStep ==
  ASSUME ImportsInv, NEW d \in Declared, Generate(d)
  PROVE  ImportsInv'
<1>1. IsMerged(file', d)
  BY MergedFacts DEF Generate
<1>2. file' \in Seq(Node) /\ PrefixesOf(file') \subseteq there'
  BY <1>1 DEF IsMerged, Generate
<1>3. ImportsTypeOK'
  <2>1. there' \subseteq Location
    <3>1. d.nested \in Seq(Node) /\ d.direct \in Seq(Node)
      BY ImportsAssumption
    <3>2. ASSUME NEW s \in Seq(Node) PROVE PrefixesOf(s) \subseteq Location
      <4>1. \A i \in DOMAIN s : s[i] \in Node
        OBVIOUS
      <4>2. \A n \in Node : n.prefix \in Location \cup {None}
        BY DEF Node
      <4> QED BY <4>1, <4>2 DEF PrefixesOf
    <3> QED BY <3>1, <3>2 DEF Generate, ImportsInv, ImportsTypeOK
  <2>2. count' \in 0 .. MaxConfigures
    BY ImportsAssumption DEF Generate, ImportsInv, ImportsTypeOK
  <2>3. targets' \subseteq Target
    BY ImportsAssumption DEF Generate, ImportsInv, ImportsTypeOK
  <2>4. got' = <<>> /\ Len(got') <= Len(file')
    BY <1>2 DEF Generate
  <2> QED BY <1>2, <2>1, <2>2, <2>3, <2>4 DEF Generate, ImportsInv, ImportsTypeOK
<1>4. FileInv'
  BY <1>2 DEF FileInv, Generate
<1>5. CacheInv'
  BY DEF CacheInv, Generate
<1>6. \A i \in DOMAIN got' : ImportedWell(i)'
  BY DEF Generate
<1> QED BY <1>3, <1>4, <1>5, <1>6 DEF ImportsInv

\* What is stale is dropped, so that what is left fits.
LEMMA DropStep ==
  ASSUME ImportsInv, DropStale
  PROVE  ImportsInv'
<1>1. UNCHANGED <<site, there, before, declared, file, got, targets, links, count>> /\ phase' = "import"
  BY DEF DropStale
<1>2. /\ cache = before /\ cache \in [Name -> Entry]
      /\ cache' = [c \in Name |-> IF Drops(c, cache[c]) THEN None ELSE cache[c]]
  BY DEF DropStale, ImportsInv, FileInv, ImportsTypeOK
<1>3. ImportsTypeOK'
  <2>1. cache' \in [Name -> Entry]
    BY <1>2 DEF Entry
  <2> QED BY <1>1, <2>1 DEF ImportsInv, ImportsTypeOK
<1>4. FileInv'
  BY <1>1 DEF ImportsInv, FileInv, DropStale
<1>5. CacheInv'
  <2>1. ASSUME NEW c \in Name \ Reserved, cache'[c] # None PROVE Fits(cache[c])'
    <3>1. cache'[c] = cache[c] /\ ~IsStale(cache[c])
      BY <1>2, <2>1 DEF Drops
    <3>2. PrefixesOf(file) \subseteq KeptRoots
      BY DEF KeptRoots
    <3>3. Fits(cache[c])
      BY <3>1, <3>2 DEF Fits, IsStale
    <3> QED BY <1>1, <3>1, <3>3 DEF Fits, KeptRoots
  <2>2. ASSUME NEW i \in DOMAIN file, NEW c \in Name PROVE Ours(i, c, cache[c])'
    <3>1. cache'[c] = None \/ (cache'[c] = before[c] /\ ~Drops(c, cache'[c]))
      BY <1>2
    <3> QED BY <1>1, <3>1 DEF Ours, Drops, IsStale, KeptRoots
  <2> QED BY <1>1, <2>1, <2>2 DEF CacheInv
<1>6. \A i \in DOMAIN got' : ImportedWell(i)'
  BY <1>1, WellStays DEF ImportsInv
<1> QED BY <1>3, <1>4, <1>5, <1>6 DEF ImportsInv
LEMMA SubStep ==
  ASSUME ImportsInv, ImportSub
  PROVE  ImportsInv'
<1>0. PICK n : n = Len(got) + 1
  OBVIOUS
<1>1. /\ ImportsTypeOK /\ n \in DOMAIN file /\ n \in Nat /\ Current = file[n] /\ file[n].prefix = None
      /\ phase = "import" /\ Len(got) \in Nat /\ n <= Len(file)
  BY <1>0, GotFacts DEF ImportsInv, ImportSub, Importing, Current
<1>2. /\ UNCHANGED <<site, there, cache, before, declared, file, phase, links, count>>
      /\ got' = Append(got, NotFound)
      /\ targets' = targets \cup {<<"plain", file[n].name>>, <<"ns", file[n].name>>}
  BY <1>1 DEF ImportSub
<1>3. file[n].name \in Name /\ file[n].name # None
  BY <1>1, FileFacts
<1>4. got'[n] = NotFound /\ Len(got') = n
  BY <1>0, <1>1, <1>2 DEF ImportsTypeOK
<1>5. ImportsTypeOK'
  <2>1. got' \in Seq([dir : Entry \cup Location, as : Name \cup {None}, lib : Library \cup {Hinted, None}])
    BY <1>1, <1>2 DEF ImportsTypeOK, NotFound, Entry
  <2>2. targets' \subseteq Target
    BY <1>1, <1>2, <1>3 DEF ImportsTypeOK, Target
  <2> QED BY <1>1, <1>2, <1>4, <2>1, <2>2 DEF ImportsTypeOK
<1>6. FileInv' /\ CacheInv'
  <2>1. FileInv'
    BY <1>1, <1>2 DEF ImportsInv, FileInv, PrefixesOf
  <2>2. CacheInv'
    BY <1>2 DEF ImportsInv, CacheInv, Fits, KeptRoots, Owns, Ours, Drops, IsStale
  <2> QED BY <2>1, <2>2
<1>7. ImportedWell(n)'
  <2>1. ~Found(n)' /\ ~Synthesised(n)'
    BY <1>4 DEF Found, Synthesised, NotFound
  <2>2. <<"plain", file[n].name>> \in TargetsOf(file[n])'
    BY <1>2, <1>3 DEF TargetsOf, GoesBy
  <2> QED BY <2>1, <2>2 DEF ImportedWell, FoundWell, OwnWell, LinkedWell, NamedWell
<1>8. \A i \in DOMAIN got' : ImportedWell(i)'
  BY <1>0, <1>2, <1>7, WellAppended
<1> QED BY <1>5, <1>6, <1>8 DEF ImportsInv

\* What is tried are names, and a package whose only config goes by its own name is tried by it.
LEMMA AttemptsFacts ==
  ASSUME ImportsTypeOK, NEW i \in DOMAIN file, file[i].prefix # None,
         NEW tried \in Attempts(file[i]), NEW x \in DOMAIN tried
  PROVE  /\ tried[x] \in Name /\ DOMAIN tried \subseteq Nat
         /\ \A c \in Name : (/\ file[i].import \in {None, c}
                             /\ file[i].import = None => Holds[file[i].prefix] = {c})
              => tried[x] = c
<1> DEFINE n == file[i]
<1>1. n.import \in Name \cup {None} /\ n.name \in Name /\ n.prefix \in Location
  BY FileFacts
<1>2. Holds[n.prefix] \subseteq Name /\ None \notin Name
  BY <1>1, ImportsAssumption
<1>3. CASE n.import # None
  <2>1. tried = <<n.import>>
    BY <1>3 DEF Attempts
  <2>2. x = 1
    BY <2>1
  <2> QED BY <1>1, <1>2, <1>3, <2>1, <2>2
<1>4. CASE n.import = None /\ Holds[n.prefix] = {}
  <2>1. tried = <<n.name>>
    BY <1>4 DEF Attempts
  <2>2. x = 1
    BY <2>1
  <2> QED BY <1>1, <1>2, <1>4, <2>1, <2>2
<1>5. CASE n.import = None /\ Holds[n.prefix] # {}
  <2>1. tried \in Orders(Holds[n.prefix])
    BY <1>5 DEF Attempts
  <2>2. tried[x] \in Holds[n.prefix] /\ DOMAIN tried \subseteq Nat
    BY <2>1 DEF Orders
  <2> QED BY <1>2, <1>5, <2>2
<1> QED BY <1>3, <1>4, <1>5

LEMMA FoundStep ==
  ASSUME ImportsInv, ImportFound
  PROVE  ImportsInv'
<1>0. PICK n : n = Len(got) + 1
  OBVIOUS
<1>1. /\ ImportsTypeOK /\ n \in DOMAIN file /\ n \in Nat /\ Current = file[n] /\ file[n].prefix # None
      /\ phase = "import" /\ Len(got) \in Nat /\ n <= Len(file) /\ ~ShouldAutoImport(file[n])
  BY <1>0, GotFacts DEF ImportsInv, ImportFound, Importing, Current
<1>2. UNCHANGED <<site, there, before, declared, file, links, count>>
  BY DEF ImportFound
<1>3. PICK tried \in Attempts(file[n]) :
        LET is == {i \in DOMAIN tried : Search(tried[i]) # None \/ tried[i] \in site.found}
            end == IF is = {} THEN Len(tried) ELSE Min(is)
            c == tried[end]
        IN /\ cache' = [x \in Name |-> IF \E i \in 1 .. end : tried[i] = x THEN Search(x) ELSE cache[x]]
           /\ IF is = {}
              THEN phase' = "failed" /\ UNCHANGED <<got, targets>>
              ELSE /\ got' = Append(got, [dir |-> Search(c), as |-> c, lib |-> None])
                   /\ targets' = targets \cup (IF Search(c) # None THEN {<<"ns", c>>} ELSE {})
                   /\ UNCHANGED phase
  BY <1>1 DEF ImportFound
<1> DEFINE is == {i \in DOMAIN tried : Search(tried[i]) # None \/ tried[i] \in site.found}
           end == IF is = {} THEN Len(tried) ELSE Min(is)
           c == tried[end]
<1>4. /\ cache' \in [Name -> Entry]
      /\ \A x \in Name : cache'[x] = Search(x) \/ cache'[x] = cache[x]
  <2>1. cache' = [x \in Name |-> IF \E i \in 1 .. end : tried[i] = x THEN Search(x) ELSE cache[x]]
    BY <1>3
  <2> HIDE DEF end
  <2>2. \A x \in Name : Search(x) \in Entry
    BY <1>1, SearchFacts
  <2>3. cache \in [Name -> Entry]
    BY <1>1 DEF ImportsTypeOK
  <2> QED BY <2>1, <2>2, <2>3
<1>5. CacheInv'
  <2>1. /\ \A x \in Name \ Reserved : cache[x] # None => Fits(cache[x])
        /\ \A i \in DOMAIN file, x \in Name : Owns(i, x) => Ours(i, x, cache[x])
    BY <1>1 DEF ImportsInv, CacheInv
  <2>2. ASSUME NEW x \in Name \ Reserved, cache'[x] # None PROVE Fits(cache[x])'
    <3>1. Fits(cache'[x])
      BY <1>1, <1>4, <2>1, <2>2, SearchFits
    <3> QED BY <1>2, <3>1 DEF Fits, KeptRoots
  <2>3. ASSUME NEW i \in DOMAIN file, NEW x \in Name, Owns(i, x) PROVE Ours(i, x, cache[x])'
    <3>1. Ours(i, x, Search(x)) /\ Ours(i, x, cache[x])
      BY <1>1, <2>1, <2>3, SearchOwn
    <3>2. Ours(i, x, cache'[x])
      BY <1>4, <3>1
    <3> QED BY <1>2, <3>2 DEF Ours, Drops, IsStale, KeptRoots
  <2>4. \A i, x : Owns(i, x)' = Owns(i, x)
    BY <1>2 DEF Owns
  <2> QED BY <1>2, <2>2, <2>3, <2>4 DEF CacheInv
<1>6. CASE is = {}
  <2>1. phase' = "failed" /\ UNCHANGED <<got, targets>>
    BY <1>3, <1>6
  <2>2. ImportsTypeOK'
    BY <1>1, <1>2, <1>4, <2>1 DEF ImportsTypeOK
  <2>3. FileInv'
    BY <1>2, <2>1 DEF ImportsInv, FileInv
  <2>4. \A i \in DOMAIN got' : ImportedWell(i)'
    BY <1>2, <2>1, WellStays DEF ImportsInv
  <2> QED BY <1>5, <2>2, <2>3, <2>4 DEF ImportsInv
<1>7. CASE is # {}
  <2> DEFINE g == [dir |-> Search(c), as |-> c, lib |-> None]
  <2>1. /\ got' = Append(got, g)
        /\ targets' = targets \cup (IF Search(c) # None THEN {<<"ns", c>>} ELSE {})
        /\ UNCHANGED phase
    BY <1>3, <1>7
  <2>2. end \in DOMAIN tried
    <3>1. is \subseteq DOMAIN tried
      OBVIOUS
    <3>2. DOMAIN tried \subseteq Nat
      BY <1>1, <1>7, AttemptsFacts
    <3> HIDE DEF is
    <3>3. Min(is) \in is
      BY <1>7, <3>1, <3>2, MinFacts
    <3> QED BY <1>7, <3>1, <3>3
  <2> HIDE DEF end
  <2>3. /\ c \in Name
        /\ \A x \in Name : (/\ file[n].import \in {None, x}
                            /\ file[n].import = None => Holds[file[n].prefix] = {x})
             => c = x
    BY <1>1, <2>2, AttemptsFacts
  <2> HIDE DEF c
  <2>4. Search(c) \in Entry
    BY <1>1, <2>3, SearchFacts
  <2>5. got'[n] = g /\ Len(got') = n
    BY <1>0, <1>1, <2>1 DEF ImportsTypeOK
  <2>6. g \in [dir : Entry \cup Location, as : Name \cup {None}, lib : Library \cup {Hinted, None}]
    BY <2>3, <2>4
  <2>61. g.dir = Search(c) /\ g.as = c
    OBVIOUS
  <2> HIDE DEF g, is
  <2>7. ImportsTypeOK'
    <3>1. got' \in Seq([dir : Entry \cup Location, as : Name \cup {None}, lib : Library \cup {Hinted, None}])
      BY <1>1, <2>1, <2>6 DEF ImportsTypeOK
    <3>2. targets' \subseteq Target
      BY <1>1, <2>1, <2>3 DEF ImportsTypeOK, Target
    <3> QED BY <1>1, <1>2, <1>4, <2>1, <2>5, <3>1, <3>2 DEF ImportsTypeOK
  <2>8. FileInv'
    BY <1>1, <1>2, <2>1 DEF ImportsInv, FileInv, PrefixesOf
  <2>9. ImportedWell(n)'
    <3>1. FoundWell(n)'
      <4>1. c \notin Reserved /\ Search(c) # None => Fits(Search(c))
        BY <1>1, <2>3, SearchFits
      <4> QED BY <1>1, <1>2, <2>5, <2>61, <4>1 DEF FoundWell, Found, Fits, KeptRoots
    <3>2. OwnWell(n)'
      <4> SUFFICES ASSUME NEW x \in Name, Owns(n, x)',
                          file'[n].import \in {None, x},
                          file'[n].import = None => Holds[file'[n].prefix] = {x}
                   PROVE  Ours(n, x, got[n].dir)'
        BY DEF OwnWell
      <4>1. c = x /\ Owns(n, x)
        BY <1>2, <2>3 DEF Owns
      <4>2. Ours(n, x, Search(x))
        BY <1>1, <4>1, SearchOwn
      <4>3. got'[n].dir = Search(x)
        BY <2>5, <2>61, <4>1
      <4> QED BY <1>2, <4>2, <4>3 DEF Ours, Drops, IsStale, KeptRoots
    <3>3. LinkedWell(n)' /\ NamedWell(n)'
      <4>1. ~Synthesised(n)'
        BY <1>1, <1>2 DEF Synthesised
      <4>2. HasTarget(n)' => TargetsOf(file[n])' # {}
        <5> SUFFICES ASSUME HasTarget(n)' PROVE TargetsOf(file[n])' # {}
          OBVIOUS
        <5>1. Search(c) # None /\ c \in GoesBy(file[n])
          BY <1>1, <1>2, <2>5, <2>61 DEF HasTarget
        <5>2. <<"ns", c>> \in TargetsOf(file[n])'
          BY <1>2, <2>1, <5>1 DEF TargetsOf
        <5> QED BY <5>2
      <4> QED BY <4>1, <4>2 DEF LinkedWell, NamedWell
    <3> QED BY <3>1, <3>2, <3>3 DEF ImportedWell
  <2>10. \A i \in DOMAIN got' : ImportedWell(i)'
    <3>1. targets \subseteq targets' /\ links \subseteq links'
      BY <1>2, <2>1
    <3> QED BY <1>0, <1>2, <2>1, <2>9, <3>1, WellAppended
  <2> QED BY <1>5, <2>7, <2>8, <2>10 DEF ImportsInv
<1> QED BY <1>6, <1>7
\* A package of the file has the candidates <kind, x> for each x that it goes by.
LEMMA CandidatesFacts ==
  ASSUME ImportsInv
  PROVE  /\ \A d \in Name : Candidates(d) \in Seq(Target)
         /\ \A j \in DOMAIN file : \A t \in Target :
              t[2] \in GoesBy(file[j]) <=> \E i \in DOMAIN Candidates(file[j].name) : Candidates(file[j].name)[i] = t
<1>1. ImportsTypeOK /\ DOMAIN file \subseteq Nat
  BY GotFacts DEF ImportsInv
<1>2. \A i, j \in DOMAIN file : file[i].name = file[j].name => i = j
  <2>1. CASE file = <<>>
    BY <2>1
  <2>2. CASE declared \in Declared /\ file = Merged(declared.nested, declared.direct)
    BY <2>2, MergedFacts DEF IsMerged
  <2> QED BY <2>1, <2>2 DEF ImportsInv, FileInv
<1>3. \A j \in DOMAIN file : NodeOf(file[j].name, file) = file[j] /\ file[j].name \in NamesIn(file)
  <2> TAKE j \in DOMAIN file
  <2>1. \E i \in DOMAIN file : /\ file[i].name = file[j].name
                               /\ \A k \in 1 .. i - 1 : file[k].name # file[j].name
    <3>1. \A k \in 1 .. j - 1 : k \in DOMAIN file /\ k # j
      BY GotFacts, <1>1
    <3> QED BY <1>2, <3>1
  <2>2. \A i \in DOMAIN file : file[i].name = file[j].name => i = j
    BY <1>2
  <2> DEFINE i == CHOOSE i \in DOMAIN file : /\ file[i].name = file[j].name
                                            /\ \A k \in 1 .. i - 1 : file[k].name # file[j].name
  <2>3. i \in DOMAIN file /\ file[i].name = file[j].name
    BY <2>1
  <2>4. NodeOf(file[j].name, file) = file[i]
    BY DEF NodeOf
  <2> HIDE DEF i
  <2> QED BY <2>2, <2>3, <2>4 DEF NamesIn
<1>4. ASSUME NEW d \in Name PROVE Candidates(d) \in Seq(Target)
  <2>1. CASE d \in NamesIn(file) /\ NodeOf(d, file).import # None
    <3>1. PICK j \in DOMAIN file : d = file[j].name
      BY <2>1 DEF NamesIn
    <3>2. NodeOf(d, file).import \in Name
      BY <1>1, <1>3, <2>1, <3>1, FileFacts
    <3>3. Candidates(d) = <<<<"ns", NodeOf(d, file).import>>, <<"plain", NodeOf(d, file).import>>>>
                          \o <<<<"ns", d>>, <<"plain", d>>>>
      BY <2>1 DEF Candidates
    <3> QED BY <3>2, <3>3 DEF Target
  <2>2. CASE ~(d \in NamesIn(file) /\ NodeOf(d, file).import # None)
    <3>1. Candidates(d) = <<>> \o <<<<"ns", d>>, <<"plain", d>>>>
      BY <2>2 DEF Candidates
    <3> QED BY <3>1 DEF Target
  <2> QED BY <2>1, <2>2
<1>5. ASSUME NEW j \in DOMAIN file, NEW t \in Target
      PROVE  t[2] \in GoesBy(file[j]) <=> \E i \in DOMAIN Candidates(file[j].name) : Candidates(file[j].name)[i] = t
  <2> DEFINE d == file[j].name
             m == file[j].import
  <2>1. d \in NamesIn(file) /\ NodeOf(d, file) = file[j] /\ d \in Name /\ d # None /\ m \in Name \cup {None}
    BY <1>1, <1>3, FileFacts
  <2>2. t[1] \in {"ns", "plain"} /\ t[2] \in Name /\ t = <<t[1], t[2]>>
    BY DEF Target
  <2>3. CASE m # None
    <3>1. Candidates(d) = <<<<"ns", m>>, <<"plain", m>>>> \o <<<<"ns", d>>, <<"plain", d>>>>
      BY <2>1, <2>3 DEF Candidates
    <3>2. GoesBy(file[j]) = {d, m}
      BY <2>1, <2>3 DEF GoesBy
    <3> HIDE DEF d, m
    <3> DEFINE u == <<<<"ns", m>>, <<"plain", m>>>>
               v == <<<<"ns", d>>, <<"plain", d>>>>
    <3>30. d \in Name /\ m \in Name
      BY <2>1, <2>3
    <3>3. u \in Seq(Target) /\ v \in Seq(Target)
      <4>1. <<"ns", m>> \in Target /\ <<"plain", m>> \in Target /\ <<"ns", d>> \in Target /\ <<"plain", d>> \in Target
        BY <3>30 DEF Target
      <4> QED BY <4>1
    <3>35. /\ Len(u) = 2 /\ u[1] = <<"ns", m>> /\ u[2] = <<"plain", m>>
           /\ Len(v) = 2 /\ v[1] = <<"ns", d>> /\ v[2] = <<"plain", d>>
      OBVIOUS
    <3>31. Candidates(d) = u \o v
      BY <3>1
    <3> HIDE DEF u, v
    <3>32. Len(Candidates(d)) = 4 /\ Candidates(d) \in Seq(Target)
      <4>1. u \o v \in Seq(Target) /\ Len(u \o v) = Len(u) + Len(v)
        BY <3>3, ConcatProperties, Zenon
      <4>2. Len(u) + Len(v) = 4
        BY <3>35
      <4> QED BY <3>31, <4>1, <4>2, Zenon
    <3>4. \A i \in DOMAIN Candidates(d) : i = 1 \/ i = 2 \/ i = 3 \/ i = 4
      BY <3>32
    <3>5. /\ 1 \in DOMAIN Candidates(d) /\ 2 \in DOMAIN Candidates(d) /\ 3 \in DOMAIN Candidates(d)
          /\ 4 \in DOMAIN Candidates(d)
          /\ Candidates(d)[1] = <<"ns", m>> /\ Candidates(d)[2] = <<"plain", m>>
          /\ Candidates(d)[3] = <<"ns", d>> /\ Candidates(d)[4] = <<"plain", d>>
      BY <3>3, <3>31, <3>32, <3>35
    <3>6. t[2] \in {d, m} <=> \E i \in DOMAIN Candidates(d) : Candidates(d)[i] = t
      BY <2>2, <3>4, <3>5
    <3> QED BY <3>2, <3>6 DEF d
  <2>4. CASE m = None
    <3>1. Candidates(d) = <<>> \o <<<<"ns", d>>, <<"plain", d>>>>
      BY <2>1, <2>4 DEF Candidates
    <3>2. GoesBy(file[j]) = {d}
      BY <2>1, <2>4 DEF GoesBy
    <3> HIDE DEF d, m
    <3>3. Candidates(d) = <<<<"ns", d>>, <<"plain", d>>>>
      BY <3>1
    <3>4. \A i \in DOMAIN Candidates(d) : i = 1 \/ i = 2
      BY <3>3
    <3>5. /\ 1 \in DOMAIN Candidates(d) /\ 2 \in DOMAIN Candidates(d)
          /\ Candidates(d)[1] = <<"ns", d>> /\ Candidates(d)[2] = <<"plain", d>>
      BY <3>3
    <3>6. t[2] \in {d} <=> \E i \in DOMAIN Candidates(d) : Candidates(d)[i] = t
      BY <2>2, <3>4, <3>5
    <3> QED BY <3>2, <3>6 DEF d
  <2> QED BY <2>3, <2>4
<1> QED BY <1>4, <1>5

\* In whichever order lib/ is listed, a library of the kind is found, and one that has the name.
LEMMA KindFacts ==
  ASSUME NEW S \in SUBSET Library, NEW files \in Orders(S), NEW kind
  PROVE  LET fits == {f \in S : f.kind = kind}
         IN /\ OfKind(files, kind) \in fits \cup {None}
            /\ fits # {} => OfKind(files, kind) \in fits /\ ((\E f \in fits : f.named) => OfKind(files, kind).named)
<1> DEFINE fits == {f \in S : f.kind = kind}
           A == {f \in Library : f.kind = kind}
           B == {f \in Library : f.kind = kind /\ f.named}
<1>1. PICK N : files \in [1 .. N -> S] /\ \A x \in S : \E i \in DOMAIN files : files[i] = x
  BY DEF Orders
<1>2. None \notin Library
  BY ImportsAssumption
<1>3. ASSUME NEW X PROVE  /\ FirstIn(files, X) \in (X \cap S) \cup {None}
                          /\ (\E x \in S : x \in X) => FirstIn(files, X) \in X \cap S
  <2> DEFINE is == {i \in DOMAIN files : files[i] \in X}
  <2>1. is \subseteq Nat
    BY <1>1
  <2>2. is # {} => Min(is) \in is
    <3> HIDE DEF is
    <3> QED BY <2>1, MinFacts
  <2>3. FirstIn(files, X) = IF is = {} THEN None ELSE files[Min(is)]
    BY DEF FirstIn
  <2>4. \A i \in is : files[i] \in X \cap S
    BY <1>1
  <2>5. (\E x \in S : x \in X) => is # {}
    BY <1>1
  <2> HIDE DEF is
  <2> QED BY <2>2, <2>3, <2>4, <2>5
<1>4. OfKind(files, kind) = IF FirstIn(files, B) # None THEN FirstIn(files, B) ELSE FirstIn(files, A)
  BY DEF OfKind
<1>5. A \cap S = fits /\ B \cap S = {f \in fits : f.named}
  OBVIOUS
<1>6. None \notin fits
  BY <1>2
<1> HIDE DEF A, B, fits
<1>7. FirstIn(files, A) \in fits \cup {None} /\ (fits # {} => FirstIn(files, A) \in fits)
  BY <1>3, <1>5
<1>8. /\ FirstIn(files, B) \in {f \in fits : f.named} \cup {None}
      /\ (\E f \in fits : f.named) => FirstIn(files, B) \in {f \in fits : f.named}
  BY <1>3, <1>5
<1>9. /\ OfKind(files, kind) \in fits \cup {None}
      /\ fits # {} => OfKind(files, kind) \in fits /\ ((\E f \in fits : f.named) => OfKind(files, kind).named)
  BY <1>4, <1>6, <1>7, <1>8
<1> QED BY <1>9 DEF fits

LEMMA LibraryFacts ==
  ASSUME NEW n \in Node, n.prefix # None, NEW files \in Orders(Files[n.prefix])
  PROVE  /\ LibraryOf(n, files) \in Library \cup {Hinted, None}
         /\ ~n.header /\ n.hint # "there" =>
              LET kind == IF n.shared THEN "shared" ELSE "static"
                  fits == {f \in Files[n.prefix] : f.kind = kind}
              IN fits # {} => LibraryOf(n, files) \in fits /\ ((\E f \in fits : f.named) => LibraryOf(n, files).named)
<1>1. n.prefix \in Location /\ n.shared \in BOOLEAN
  BY DEF Node
<1>2. Files[n.prefix] \in SUBSET Library /\ None \notin Library
  BY <1>1, ImportsAssumption
<1> DEFINE a == OfKind(files, "static")
           so == OfKind(files, "shared")
           F(kind) == {f \in Files[n.prefix] : f.kind = kind}
<1>3. FindLibrary(n.shared, files) = IF so # None /\ (n.shared \/ a = None) THEN so ELSE a
  BY DEF FindLibrary
<1>4. /\ a \in F("static") \cup {None}
      /\ F("static") # {} => a \in F("static") /\ ((\E f \in F("static") : f.named) => a.named)
  BY <1>2, KindFacts
<1>5. /\ so \in F("shared") \cup {None}
      /\ F("shared") # {} => so \in F("shared") /\ ((\E f \in F("shared") : f.named) => so.named)
  BY <1>2, KindFacts
<1>6. F("static") \subseteq Library /\ F("shared") \subseteq Library
  BY <1>2
<1> HIDE DEF a, so, F
<1>7. FindLibrary(n.shared, files) \in Library \cup {None}
  BY <1>3, <1>4, <1>5, <1>6
<1>8. CASE n.shared
  <2>1. F("shared") # {} => /\ FindLibrary(n.shared, files) \in F("shared")
                            /\ (\E f \in F("shared") : f.named) => FindLibrary(n.shared, files).named
    BY <1>2, <1>3, <1>5, <1>6, <1>8
  <2> QED BY <1>7, <1>8, <2>1 DEF LibraryOf, F
<1>9. CASE ~n.shared
  <2>1. F("static") # {} => /\ FindLibrary(n.shared, files) \in F("static")
                            /\ (\E f \in F("static") : f.named) => FindLibrary(n.shared, files).named
    BY <1>2, <1>3, <1>4, <1>6, <1>9
  <2> QED BY <1>7, <1>9, <2>1 DEF LibraryOf, F
<1> QED BY <1>8, <1>9

LEMMA AutoStep ==
  ASSUME ImportsInv, ImportAuto
  PROVE  ImportsInv'
<1>0. PICK n : n = Len(got) + 1
  OBVIOUS
<1>1. /\ ImportsTypeOK /\ n \in DOMAIN file /\ n \in Nat /\ Current = file[n] /\ file[n].prefix # None
      /\ phase = "import" /\ Len(got) \in Nat /\ n <= Len(file) /\ ShouldAutoImport(file[n])
      /\ DOMAIN got = 1 .. n - 1
  BY <1>0, GotFacts DEF ImportsInv, ImportAuto, Importing, Current
<1> DEFINE p == file[n]
           own == <<"ns", p.name>>
           all == WithAliases(p)
           of(d) == FirstIn(Candidates(d), all)
<1>2. /\ UNCHANGED <<site, there, cache, phase, before, declared, file, count>>
      /\ targets' = all
      /\ links' = links \cup
             {<<t, own>> : t \in all \ (targets \cup {own})} \cup
             (IF own \in all THEN {<<own, of(d)>> : d \in {x \in p.deps : of(x) # None}} ELSE {})
      /\ \E files \in Orders(Files[p.prefix]) :
             got' = Append(got, IF own \in all \ targets
                                THEN [dir |-> p.prefix, as |-> p.name, lib |-> LibraryOf(p, files)]
                                ELSE NotFound)
  BY <1>1 DEF ImportAuto
<1>3. PICK files \in Orders(Files[p.prefix]) :
             got' = Append(got, IF own \in all \ targets
                                THEN [dir |-> p.prefix, as |-> p.name, lib |-> LibraryOf(p, files)]
                                ELSE NotFound)
  BY <1>2
<1>4. /\ p \in Node /\ p.name \in Name /\ p.name # None /\ p.prefix \in Location
      /\ p.import \in Name \cup {None} /\ p.deps \subseteq Name
  BY <1>1, FileFacts DEF Node
<1>5. /\ targets \subseteq all /\ all \subseteq Target
      /\ own \in all \/ <<"plain", p.name>> \in all
  BY <1>1, <1>4 DEF WithAliases, Target, ImportsTypeOK
<1>6. own \in Target /\ own[2] = p.name
  BY <1>4 DEF Target
<1>7. None \notin Target
  BY ImportsAssumption
<1>8. \A d \in p.deps : Candidates(d) \in Seq(Target)
  BY <1>4, CandidatesFacts
<1> DEFINE g == IF own \in all \ targets
                THEN [dir |-> p.prefix, as |-> p.name, lib |-> LibraryOf(p, files)]
                ELSE NotFound
<1>9. got' = Append(got, g)
  BY <1>3
<1>10. /\ g \in [dir : Entry \cup Location, as : Name \cup {None}, lib : Library \cup {Hinted, None}]
       /\ g.dir # None => own \in all /\ g.lib = LibraryOf(p, files)
  <2>1. CASE own \in all \ targets
    <3>1. LibraryOf(p, files) \in Library \cup {Hinted, None}
      BY <1>1, <1>4, LibraryFacts
    <3> QED BY <1>4, <2>1, <3>1
  <2>2. CASE own \notin all \ targets
    BY <2>2 DEF NotFound, Entry
  <2> QED BY <2>1, <2>2
<1> HIDE DEF all, g, own
<1>11. got'[n] = g /\ Len(got') = n /\ \A j \in 1 .. n - 1 : got'[j] = got[j]
  BY <1>0, <1>1, <1>9 DEF ImportsTypeOK
<1>12. links' \subseteq Target \X Target
  <2>1. links \subseteq Target \X Target
    BY <1>1 DEF ImportsTypeOK
  <2>2. \A t \in all : <<t, own>> \in Target \X Target
    BY <1>5, <1>6
  <2>3. \A d \in p.deps : of(d) # None => <<own, of(d)>> \in Target \X Target
    BY <1>6, <1>8, FirstInFacts
  <2> HIDE DEF of
  <2> QED BY <1>2, <2>1, <2>2, <2>3
<1>13. ImportsTypeOK'
  <2>1. got' \in Seq([dir : Entry \cup Location, as : Name \cup {None}, lib : Library \cup {Hinted, None}])
    BY <1>1, <1>9, <1>10 DEF ImportsTypeOK
  <2> QED BY <1>1, <1>2, <1>5, <1>11, <1>12, <2>1 DEF ImportsTypeOK
<1>14. FileInv' /\ CacheInv'
  <2>1. FileInv'
    BY <1>1, <1>2 DEF ImportsInv, FileInv, PrefixesOf
  <2>2. CacheInv'
    BY <1>2 DEF ImportsInv, CacheInv, Fits, KeptRoots, Owns, Ours, Drops, IsStale
  <2> QED BY <2>1, <2>2
<1>15. LinkedWell(n)'
  <2>1. TargetsOf(file[n])' # {}
    <3>1. p.name \in GoesBy(p)
      BY <1>4 DEF GoesBy
    <3>2. \A t : t \in all /\ t[2] \in GoesBy(p) => t \in TargetsOf(file[n])'
      BY <1>2 DEF TargetsOf
    <3>3. own[2] \in GoesBy(p) /\ <<"plain", p.name>>[2] \in GoesBy(p)
      BY <1>6, <3>1
    <3> QED BY <1>5, <3>2, <3>3
  <2>2. ASSUME NEW j \in 1 .. n - 1, Synthesised(n)', file[j].name \in p.deps, HasTarget(j)'
        PROVE  \E t \in TargetsOf(file[j])' : <<<<"ns", p.name>>, t>> \in links'
    <3>1. own \in all
      BY <1>10, <1>11, <2>2 DEF Synthesised
    <3>2. j \in DOMAIN got /\ j \in DOMAIN file /\ HasTarget(j)
      BY <1>1, <1>2, <1>11, <2>2, GotFacts DEF HasTarget
    <3>3. PICK t \in targets : t[2] \in GoesBy(file[j])
      BY <3>2 DEF ImportsInv, ImportedWell, LinkedWell, TargetsOf
    <3> DEFINE d == file[j].name
               s == Candidates(d)
    <3>4. \E i \in DOMAIN s : s[i] \in all
      BY <1>5, <3>2, <3>3, CandidatesFacts
    <3>5. s \in Seq(Target)
      BY <1>8, <2>2
    <3>6. PICK i \in DOMAIN s : of(d) = s[i] /\ s[i] \in all
      BY <3>4, <3>5, FirstInFacts
    <3>7. of(d) \in all /\ of(d) \in Target /\ of(d)[2] \in GoesBy(file[j])
      BY <1>5, <3>2, <3>6, CandidatesFacts
    <3>8. of(d) \in TargetsOf(file[j])'
      BY <1>2, <3>7 DEF TargetsOf
    <3>9. <<own, of(d)>> \in links'
      <4>1. of(d) # None /\ d \in p.deps
        BY <1>7, <2>2, <3>7
      <4> HIDE DEF of, d
      <4> QED BY <1>2, <3>1, <4>1
    <3> QED BY <3>8, <3>9 DEF own
  <2> QED BY <1>2, <2>1, <2>2 DEF LinkedWell
<1>16. NamedWell(n)'
  <2> SUFFICES ASSUME Synthesised(n)' PROVE NamedWell(n)'
    BY DEF NamedWell
  <2>1. got'[n].lib = LibraryOf(p, files)
    BY <1>10, <1>11 DEF Synthesised
  <2>2. ~p.header /\ p.hint # "there" =>
              LET kind == IF p.shared THEN "shared" ELSE "static"
                  fits == {f \in Files[p.prefix] : f.kind = kind}
              IN fits # {} => LibraryOf(p, files) \in fits /\ ((\E f \in fits : f.named) => LibraryOf(p, files).named)
    BY <1>1, <1>4, LibraryFacts
  <2> QED BY <1>2, <2>1, <2>2 DEF NamedWell
<1>17. ImportedWell(n)'
  <2>1. ~Found(n)'
    BY <1>1, <1>2 DEF Found
  <2> QED BY <1>15, <1>16, <2>1 DEF ImportedWell, FoundWell, OwnWell
<1>18. \A i \in DOMAIN got' : ImportedWell(i)'
  <2>1. targets \subseteq targets' /\ links \subseteq links'
    BY <1>2, <1>5
  <2> QED BY <1>0, <1>2, <1>9, <1>17, <2>1, WellAppended
<1> QED BY <1>13, <1>14, <1>18 DEF ImportsInv
-----------------------------------------------------------------------------
\* The state that the configures keep: cache, file and what has been imported fit one another.
THEOREM ImportsInvariant == ImportsSpec => []ImportsInv
<1>1. ImportsInv /\ [ImportsNext]_importsVars => ImportsInv'
  <2> SUFFICES ASSUME ImportsInv, [ImportsNext]_importsVars PROVE ImportsInv'
    OBVIOUS
  <2>1. ASSUME NEW d \in Declared, Generate(d) PROVE ImportsInv'
    BY <2>1, GenerateStep
  <2>2. CASE DropStale
    BY <2>2, DropStep
  <2>3. CASE ImportAuto
    BY <2>3, AutoStep
  <2>4. CASE ImportFound
    BY <2>4, FoundStep
  <2>5. CASE ImportSub
    BY <2>5, SubStep
  <2>6. CASE \/ \E c \in Name, l \in Location : UserSets(c, l)
             \/ \E l \in Location : Delete(l)
             \/ Finish
             \/ UNCHANGED importsVars
    BY <2>6, IdleSteps
  <2> QED BY <2>1, <2>2, <2>3, <2>4, <2>5, <2>6 DEF ImportsNext
<1> QED BY <1>1, InitHolds, PTL DEF ImportsSpec

\* Every variable keeps its type, whatever is declared, installed, and set by the user.
THEOREM ImportsTypes == ImportsSpec => []ImportsTypeOK
<1>1. ImportsInv => ImportsTypeOK
  BY DEF ImportsInv
<1> QED BY <1>1, ImportsInvariant, PTL

\* No package is found in a prefix of an earlier run (generator.rs:134-141).
THEOREM EarlierTheorem == ImportsSpec => []NoneOfAnEarlierRun
<1>1. ImportsInv => NoneOfAnEarlierRun
  BY DEF ImportsInv, ImportedWell, FoundWell, Fits, NoneOfAnEarlierRun
<1> QED BY <1>1, ImportsInvariant, PTL

\* A package that alone goes by the name of its config is found in its own prefix, or where
\* an entry from before the configure points, unless that is a prefix of an earlier run
\* (generator.rs:102-118, 142-177).
THEOREM OwnTheorem == ImportsSpec => []EachItsOwn
<1>1. ImportsInv => EachItsOwn
  <2> SUFFICES ASSUME ImportsInv, NEW i \in DOMAIN got, Found(i),
                      NEW c \in GoesBy(file[i]) \cap Holds[file[i].prefix],
                      file[i].import \in {None, c},
                      file[i].import = None => Holds[file[i].prefix] = {c},
                      \A j \in DOMAIN file \ {i} : c \notin GoesBy(file[j])
               PROVE  \/ got[i].dir = ConfigDir(file[i].prefix)
                      \/ got[i].dir = before[c] /\ ~Drops(c, before[c])
    BY DEF EachItsOwn
  <2>1. ImportedWell(i) /\ i \in DOMAIN file /\ ImportsTypeOK
    BY GotFacts DEF ImportsInv
  <2>2. file[i].prefix # None
    BY <2>1 DEF ImportedWell, FoundWell
  <2>3. c \in Name
    BY <2>1, FileFacts DEF GoesBy
  <2>4. Ours(i, c, got[i].dir)
    BY <2>1, <2>2, <2>3 DEF ImportedWell, OwnWell, Owns
  <2> QED BY <2>4 DEF Ours, Found
<1> QED BY <1>1, ImportsInvariant, PTL

\* A synthesised target has its links to the packages of its manifest (build.rs:442-481;
\* generator.rs:290-314).
THEOREM LinksTheorem == ImportsSpec => []LinksWithinAManifest
<1>1. ImportsInv => LinksWithinAManifest
  <2> SUFFICES ASSUME ImportsInv, NEW i \in DOMAIN got, NEW j \in DOMAIN got,
                      Synthesised(i), file[j].name \in file[i].deps, HasTarget(j),
                      OfOneManifest(file[j].name, file[i].name)
               PROVE  \E t \in TargetsOf(file[j]) : <<<<"ns", file[i].name>>, t>> \in links
    BY DEF LinksWithinAManifest
  <2>1. i \in DOMAIN file /\ j \in DOMAIN file /\ i \in Nat /\ j \in Nat /\ j >= 1
    BY GotFacts DEF ImportsInv
  <2>2. declared \in Declared /\ file = Merged(declared.nested, declared.direct)
    BY <2>1 DEF ImportsInv, FileInv
  <2>3. OfOne(file[j].name, file[i].name, declared)
    BY DEF OfOneManifest, OfOne
  <2>4. j < i
    BY <2>1, <2>2, <2>3, MergedFacts DEF IsMerged
  <2>5. j \in 1 .. i - 1 /\ LinkedWell(i)
    BY <2>1, <2>4 DEF ImportsInv, ImportedWell
  <2> QED BY <2>5 DEF LinkedWell
<1> QED BY <1>1, ImportsInvariant, PTL

\* A synthesised target has a library of the package's name and kind, if there is one
\* (generator.rs:626-703).
THEOREM LibraryTheorem == ImportsSpec => []LibraryIsNamed
<1>1. ImportsInv => LibraryIsNamed
  BY DEF ImportsInv, ImportedWell, NamedWell, LibraryIsNamed
<1> QED BY <1>1, ImportsInvariant, PTL
=============================================================================
