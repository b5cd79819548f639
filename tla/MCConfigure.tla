----------------------------- MODULE MCConfigure -----------------------------
(***************************************************************************)
(* Runs for p, which needs the dependency d and the tool t: every one that *)
(* differs from a plain native run in at most two respects, and then every *)
(* one that differs from that in one.                                      *)
(***************************************************************************)
EXTENDS Configure, TLC

MCOrder == <<"t", "d", "p">>
MCNeeds == "t" :> <<>> @@ "d" :> <<>> @@ "p" :> <<"d", "t">>
MCFamilyOf == "linux" :> "gcc" @@ "windows" :> "msvc" @@ "android" :> "clang" @@ "clang++" :> "clang"
MCRootVar == "d" :> "d_ROOT" @@ "t" :> "t_ROOT" @@ "p" :> "p_ROOT" @@ "Dee" :> "Dee_ROOT"
MCOptionsOf == "t" :> <<>> @@ "d" :> <<>>
                 @@ "p" :> ("WITH" :> "OFF" @@ "BUILD_SHARED_LIBS" :> "ON" @@ "ANDROID_STL" :> "none")

Bare == [source |-> "v1", shared |-> None, header_only |-> FALSE, include |-> {},
         options |-> <<>>, ignores |-> {}, import |-> None]
Plain == [target |-> "linux", args |-> <<>>, preset |-> <<>>, system |-> <<>>, local |-> <<>>, options |-> <<>>,
          flags |-> {}, shared |-> None, rules |-> <<>>, env |-> None,
          nodes |-> [p \in {"t", "d", "p"} |-> Bare],
          disk |-> "cc" :> 1 @@ "clang++" :> 1 @@ "android.cmake" :> 1]

Rule(scope, package, set, options) ==
  [scope |-> scope, package |-> package, set |-> set, flags |-> {}, options |-> options]

\* The respects in which runs differ, each with its values.
Changes ==
  [target  |-> {"windows", "android"},
   args    |-> {"compiler" :> "clang++", "build_type" :> "Debug", "family" :> "clang"},
   preset  |-> {"build_type" :> "Debug", "cxx_std" :> <<"gnu++", "20">>, "cxx_std" :> <<"", "1">>, "vc_runtime" :> "MT", "lto" :> TRUE,
                "cxx_stdlib" :> "libc++"},
   system  |-> {"compiler" :> "clang++", "toolchain" :> "gone.cmake"},
   local   |-> {"toolchain" :> "android.cmake"},
   options |-> {"CMAKE_TOOLCHAIN_FILE" :> "android.cmake", "CMAKE_BUILD_TYPE" :> "Debug",
                "ANDROID_STL" :> "c++_shared", "SDK" :> "sdk1", "SDK" :> "sdk2"},
   flags   |-> {{"-O3"}},
   shared  |-> {TRUE},
   env     |-> {"clang++"},
   rules   |-> {<<Rule("exact", "p", "shared" :> TRUE, <<>>)>>,
                <<Rule("cascade", "p", "cxx_std" :> <<"c++", "2a">>, <<>>),
                  Rule("global", None, "cxx_std" :> <<"", "17">>, <<>>)>>,
                <<Rule("global", None, <<>>, "SDK" :> <<"var", "SDK">>)>>,
                <<Rule("cascade", "p", <<>>, "WITH" :> <<"plain", "ON">>)>>},
   disk    |-> {[Plain.disk EXCEPT !["cc"] = 2], [Plain.disk EXCEPT !["clang++"] = 2],
                [Plain.disk EXCEPT !["android.cmake"] = 2]}]

NodeChanges ==
  [p |-> {[Bare EXCEPT !.header_only = TRUE], [Bare EXCEPT !.header_only = TRUE, !.include = {"src"}],
          [Bare EXCEPT !.header_only = TRUE, !.include = {"gone"}],
          [Bare EXCEPT !.ignores = {"compiler", "cxx_std"}],
          [Bare EXCEPT !.ignores = {"vc_runtime", "cxx_stdlib"}],
          [Bare EXCEPT !.options = "SDK" :> <<"var", "SDK">>],
          [Bare EXCEPT !.options = "WITH" :> <<"plain", "OFF">>],
          [Bare EXCEPT !.options = "D" :> <<"prefix", "d">>],
          [Bare EXCEPT !.options = "X" :> <<"prefix", "x">>],
          [Bare EXCEPT !.shared = FALSE], [Bare EXCEPT !.source = "v2"]},
   d |-> {[Bare EXCEPT !.import = "Dee"], [Bare EXCEPT !.source = "v2"],
          [Bare EXCEPT !.options = "CMAKE_CXX_FLAGS" :> <<"plain", "-g">>]},
   t |-> {[Bare EXCEPT !.options = "SDK" :> <<"var", "SDK">>]}]

Changed(r) ==
  UNION {{[r EXCEPT ![f] = v] : v \in Changes[f] \cup {Plain[f]}} : f \in DOMAIN Changes}
    \cup UNION {{[r EXCEPT !.nodes[q] = n] : n \in NodeChanges[q] \cup {Bare}} : q \in DOMAIN NodeChanges}

MCFirst == UNION {Changed(r) : r \in Changed(Plain)}
MCAfter(r) == IF r = None THEN MCFirst ELSE Changed(r)
=============================================================================
