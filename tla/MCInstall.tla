------------------------------ MODULE MCInstall ------------------------------
(* Instances of Install for TLC: the graphs the runs build. *)
EXTENDS InstallInv

CONSTANTS r1, r2, outer, inner, early, late

\* `outer` is built against `inner`, which one run reaches through the manifest of `outer`
\* and the other declares itself.
OwnName == [p \in Pkg |-> p]
NoEdges == [p \in Pkg |-> {}]
InnerInOuter == [p \in Pkg |-> IF p = outer THEN <<inner>> ELSE <<>>]
OuterOnInner == [p \in Pkg |-> IF p = outer THEN {inner} ELSE {}]
OuterOrInner == [r \in Run |-> IF r = r1 THEN <<outer>> ELSE <<inner>>]

\* Two packages of one name: `inner` has `early` in its manifest.  That of `outer` has `late`
\* and `inner`, and so `outer` is built against `late`.  The project of one run has `inner`,
\* whose `early` is the one that it keeps, and then `outer`; that of the other has `late`.
OneName == [p \in Pkg |-> IF p = late THEN early ELSE p]
TwoManifests == [p \in Pkg |-> CASE p = inner -> <<early>> [] p = outer -> <<late, inner>> [] OTHER -> <<>>]
TwoNested == [p \in Pkg |-> CASE p = inner -> {early} [] p = outer -> {late, inner} [] OTHER -> {}]
BothOrLate == [r \in Run |-> IF r = r1 THEN <<inner, outer>> ELSE <<late>>]
=============================================================================
