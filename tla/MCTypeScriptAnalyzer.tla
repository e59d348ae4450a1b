--------------------------- MODULE MCTypeScriptAnalyzer ---------------------------
(* A repository of eight files: a tsconfig that extends a file without a known    *)
(* suffix and, through a package, a file that Git hides; two sources, one of them *)
(* also extended, a generated file, a JSON file and a package.json.               *)
EXTENDS TypeScriptAnalyzer

PathOrderDef == <<"a.ts", "b.ts", "base", "conf.json", "gen.ts", "hidden", "missing", "package.json", "tsconfig.json">>
PathsDef == Range(PathOrderDef)
KeyDef == [p \in PathsDef |-> p]
BytesDef == [p \in PathsDef |-> IF p \in {"b.ts", "conf.json"} THEN 2 ELSE 1]
SuffixDef == [p \in PathsDef |->
  IF p \in {"a.ts", "b.ts", "gen.ts"} THEN "source"
  ELSE IF p \in {"base", "hidden", "missing"} THEN "other" ELSE "json"]

TreeDef == ("." :> <<"package.json", "src", "gen.ts", "a.ts", "tsconfig.json">>)
           @@ ("src" :> <<"conf.json", "b.ts", "base", "hidden">>)
DirBytesDef == ("." :> 0) @@ ("src" :> 3)

Relative(cs) == [kind |-> "relative", candidates |-> cs]
FromPackage(s) == [kind |-> "package", package |-> "lib", subpath |-> s]
ExtendsDef == [p \in {"tsconfig.json", "base", "hidden", "conf.json", "b.ts", "a.ts", "gen.ts", "package.json"} |->
  CASE p = "tsconfig.json" -> <<Relative(<<"missing", "base">>), FromPackage("x")>>
    [] p = "base" -> <<Relative(<<"b.ts">>), FromPackage(".")>>
    [] OTHER -> << >>]

Target(c) == [kind |-> "target", candidates |-> <<c>>, bytes |-> 1]
Node == [kind |-> "node", candidates |-> << >>, bytes |-> 0]
PackageJsonDef == ("package.json" :>
  [name |-> "lib", size |-> 2, tsconfig |-> << >>, hasExports |-> TRUE,
   exports |-> ("x" :> <<Node, Target("hidden"), Target("conf.json")>>) @@ ("." :> <<Node>>),
   conventional |-> ("x" :> << >>) @@ ("." :> << >>)])

AllExisting == SelectSeq(PathOrderDef, LAMBDA p : p # "missing")
ExistingDef == Range(AllExisting)
TrackedDef == ExistingDef \ {"conf.json", "tsconfig.json"}
OrdersDef == {<<"conf.json", "tsconfig.json">> \o SelectSeq(AllExisting, LAMBDA p : p \in TrackedDef),
              Reverse(AllExisting)}

ChangedDef == <<"x", "y", "z">>

Roomy == [entries |-> 100, capacity |-> 100, bytes |-> 100, configBytes |-> 100, output |-> 100,
          packages |-> 100, packageBytes |-> 100, exports |-> 100, targets |-> 100, targetBytes |-> 100,
          groups |-> 100, manifestBytes |-> 100, shard |-> 3, largeShard |-> 2, large |-> 3, adaptive |-> TRUE]
LimitsDef ==
  {Roomy,
   [Roomy EXCEPT !.entries = 2, !.adaptive = FALSE],
   [Roomy EXCEPT !.capacity = 3, !.targets = 1],
   [Roomy EXCEPT !.bytes = 4, !.packageBytes = 1],
   [Roomy EXCEPT !.manifestBytes = 16, !.groups = 1],
   [Roomy EXCEPT !.output = 4]}
===================================================================================
