------------------------------- MODULE MCPlan -------------------------------
(***************************************************************************)
(* The manifests of Plan that TLC goes through: of four packages.          *)
(***************************************************************************)
EXTENDS Plan

MCNames == <<"a", "b", "c", "d">>
MCCascade == {"b", "d"}
MCExact == {"c"}

MCOptions == [A |-> "on", B |-> "off", MODE |-> "fast"]
MCDescribed == {"linux", "gnu", "x86_64"}

\* "!NONE=off" does not hold, "A || NONE && B" does.
Unmet == <<<<"!">>, <<"NONE", "off">>>>
Met == <<<<"A">>, <<"||">>, <<"NONE">>, <<"&&">>, <<"B">>>>
Mode(v) == <<<<"MODE", v>>>>

Only(name) == <<[name |-> name, negated |-> FALSE]>>
Except(name) == <<[name |-> name, negated |-> TRUE]>>

Bare(k) == [kind |-> k, deps |-> {}, tools |-> {}, enabled_if |-> <<>>, platforms |-> <<>>]

\* Dependencies with one reference, or none.
Dependency(kinds, tools, conditions, platforms) ==
  {[kind |-> k, deps |-> {r \in S : f = "dep"}, tools |-> {r \in S : f = "tool"},
    enabled_if |-> c, platforms |-> o] :
     k \in kinds, S \in {S \in SUBSET Package : Cardinality(S) <= 1},
     f \in {"dep"} \cup {x \in {"tool"} : tools}, c \in conditions, o \in platforms}

\* Every kind of mistake, with up to five references, and each of a, b and d enabled or not:
\* b of another filter than the others.
MCManifests ==
  LET a == Dependency({"installed", "subdirectory"}, TRUE, {Unmet, Met}, {<<>>}) \cup {Bare("none")}
      b == Dependency({"installed"}, TRUE, {<<>>},
                      {Except("linux"), Only("windows") \o Only("linux") \o Except("msvc")}) \cup {Bare("tool")}
      c == Dependency({"installed", "subdirectory"}, FALSE, {<<>>}, {<<>>})
             \cup {Bare("tool"), Bare("declared twice")}
      d == {[Bare("installed") EXCEPT !.deps = S, !.enabled_if = e] :
              S \in {{"a"}, {"b"}, {"a", "b"}}, e \in {Mode("fast"), Mode("slow")}}
  IN {[p \in Package |-> CASE p = "a" -> w [] p = "b" -> x [] p = "c" -> y [] p = "d" -> z] :
        w \in a, x \in b, y \in c, z \in d}
=============================================================================
