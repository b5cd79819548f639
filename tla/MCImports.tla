------------------------------ MODULE MCImports ------------------------------
(***************************************************************************)
(* A project that needs p (found by find_package), q (synthesised, which   *)
(* links p) and, through the manifest of q, n and m: in two versions, so   *)
(* that a configure finds prefixes of the one before.                      *)
(***************************************************************************)
EXTENDS Imports

Store(n) == <<"store", n>>
MCLocation == {Store("p1"), Store("p2"), Store("q"), Store("n"), Store("m"), <<"usr">>, <<"usr", "local">>}
\* q bundles a copy of p, n one of P, and p2 goes by both names.
MCHolds == [l \in MCLocation |-> CASE l = Store("p1") -> {"p"}
                                   [] l = Store("p2") -> {"p", "P"}
                                   [] l = Store("q") -> {"p"}
                                   [] l = Store("n") -> {"P"}
                                   [] l = <<"usr">> -> {"p"}
                                   [] OTHER -> {}]
MCFiles == [l \in MCLocation |-> IF l = Store("q")
                                 THEN {[kind |-> "static", named |-> FALSE], [kind |-> "static", named |-> TRUE],
                                       [kind |-> "shared", named |-> FALSE]}
                                 ELSE {}]

Plain(n, l) == [name |-> n, prefix |-> l, import |-> None, auto |-> FALSE, header |-> FALSE,
                hint |-> "none", deps |-> {}, shared |-> FALSE]
P(l) == Plain("p", l)
PAs(l, c) == [P(l) EXCEPT !.import = c]
Q == [Plain("q", Store("q")) EXCEPT !.auto = TRUE, !.deps = {"p"}, !.import = "Q"]
QShared == [Q EXCEPT !.shared = TRUE]
QHint(h) == [Q EXCEPT !.hint = h]
Sub == Plain("m", None)
M == [Plain("m", Store("m")) EXCEPT !.header = TRUE]
N == [Plain("n", Store("n")) EXCEPT !.auto = TRUE, !.deps = {"m", "p"}]

MCDeclared ==
  {[nested |-> <<>>, direct |-> <<P(Store("p1")), Q>>],
   [nested |-> <<>>, direct |-> <<P(Store("p2")), QShared>>],
   [nested |-> <<>>, direct |-> <<PAs(Store("p2"), "P"), QHint("missing")>>],
   [nested |-> <<>>, direct |-> <<PAs(Store("p1"), "P"), QHint("there")>>],
   [nested |-> <<M, N>>, direct |-> <<P(Store("p1")), Q>>],
   [nested |-> <<M, N, M>>, direct |-> <<Sub, P(Store("p2"))>>],
   [nested |-> <<P(Store("p1")), N>>, direct |-> <<P(Store("p2")), Q>>],
   [nested |-> <<>>, direct |-> <<PAs(Store("p2"), "P"), N>>]}

MCSite ==
  LET plain == [install |-> None, path |-> <<>>, targets |-> {}, found |-> {}]
  IN {plain, [plain EXCEPT !.install = <<"usr", "local">>], [plain EXCEPT !.path = <<<<"usr">>>>],
      [plain EXCEPT !.targets = {<<"plain", "q">>}], [plain EXCEPT !.targets = {<<"ns", "p">>}],
      [plain EXCEPT !.found = {"p"}]}
=============================================================================
