---------------------------- MODULE InventoryRetention ----------------------------
(* The bounded list of repository paths that the TypeScript analyzer keeps while  *)
(* it takes the inventory of a repository (class _TypescriptInventoryRetention in *)
(* analyzers/typescript.py).  A source path is kept in a list with a lazily built *)
(* index, a metadata path (package.json, JSON, tsconfig) in a dictionary; section *)
(* counts, byte counts and the reasons for which something was left out are kept  *)
(* beside them.  A retention is a record, each operation an operator on it.       *)
(* Limits travel in the record (field lim):                                       *)
(*   entries   TS_FILE_MANIFEST_ENTRY_LIMIT, paths of one section                 *)
(*   capacity  TS_FALLBACK_INVENTORY_ENTRY_LIMIT, paths in all                    *)
(*   bytes     TS_FALLBACK_INVENTORY_PATH_BYTE_LIMIT, bytes in all                *)
EXTENDS Integers, SequencesExt

CONSTANTS
  Paths,      \* the repository paths that are well formed (_inventory_path_key)
  Key,        \* path -> its canonical key (lower case where the platform folds case)
  Bytes,      \* path -> its encoded length, the separator included
  Suffix,     \* path -> "source", "json" or "other"
  ConfigRoots,\* paths named tsconfig.json or jsconfig.json
  Packages    \* paths named package.json

ASSUME PathsAssumption ==
  /\ Bytes \in [Paths -> Nat \ {0}]
  /\ Suffix \in [Paths -> {"source", "json", "other"}]
  /\ ConfigRoots \subseteq Paths /\ Packages \subseteq Paths
  /\ \A p \in ConfigRoots \cup Packages : Suffix[p] = "json"

Sections == {"files", "package_files", "config_files"}

\* _typescript_inventory_sections
SectionsOf(p, force) ==
  {s \in Sections : \/ s = "files" /\ Suffix[p] = "source"
                    \/ s = "package_files" /\ p \in Packages
                    \/ s = "config_files" /\ (force \/ Suffix[p] = "json")}

\* _is_typescript_inventory_candidate; package.json and the config roots end in .json
Candidate(p) == Suffix[p] # "other"

\* _is_critical_typescript_inventory_path
Critical(p, force) == force \/ p \in ConfigRoots \cup Packages

\* _TypescriptInventoryRetention.__init__
EmptyRetention(lim, reasons, enforce) ==
  [lim |-> lim, reasons |-> reasons, enforce |-> enforce,
   source |-> << >>, indexed |-> FALSE, index |-> << >>, meta |-> << >>,
   counts |-> [s \in Sections |-> 0],
   bytes |-> 0, sourceBytes |-> 0, ordinaryBytes |-> 0, ordinaryCount |-> 0,
   broken |-> FALSE]

\* The bytes of a set of paths.
BytesOf(ps) == MapThenSumSet(LAMBDA p : Bytes[p], ps)

\* Metadata entries: their paths, the ordinary ones, those of a section.
PathsOf(ms) == {m.path : m \in ms}
OrdinaryOf(ms) == {m \in ms : ~m.critical}
OfSection(ms, s) == {m \in ms : s \in m.sections}

RetainedSeq(r) == r.source \o [i \in DOMAIN r.meta |-> r.meta[i].path]
RetainedCount(r) == Len(r.source) + Len(r.meta)
AddReason(r, reason) == [r EXCEPT !.reasons = @ \cup {reason}]
MetaPositions(r, key) == {i \in DOMAIN r.meta : Key[r.meta[i].path] = key}
SourcePositions(source, key) == {i \in DOMAIN source : Key[source[i]] = key}

\* dict.pop(key, None) of the metadata
PopMeta(r, key) ==
  IF MetaPositions(r, key) = {} THEN r
  ELSE [r EXCEPT !.meta = RemoveAt(@, CHOOSE i \in MetaPositions(r, key) : TRUE)]

\* _ensure_source_index: the last position of a key wins
EnsureIndex(r) ==
  IF r.indexed THEN r
  ELSE [r EXCEPT !.indexed = TRUE,
                 !.index = [k \in {Key[p] : p \in Range(r.source)} |->
                              Max(SourcePositions(r.source, k))]]

\* _detach_source_path: the last path moves to the freed position
Detach(r, i) ==
  LET last  == Last(r.source)
      rest  == Front(r.source)
      moved == IF i <= Len(rest) THEN {Key[last]} ELSE {}
  IN [r EXCEPT !.source = IF i <= Len(rest) THEN [rest EXCEPT ![i] = last] ELSE rest,
               !.index = IF ~r.indexed THEN @
                         ELSE [k \in (DOMAIN @ \ {Key[r.source[i]]}) \cup moved |->
                                 IF k \in moved THEN i ELSE @[k]]]

CountDown(counts, sections) ==
  [s \in Sections |-> IF s \in sections THEN counts[s] - 1 ELSE counts[s]]
CountUp(counts, sections) ==
  [s \in Sections |-> IF s \in sections THEN counts[s] + 1 ELSE counts[s]]

\* _drop_retained_path; a source key that is missing from the index is a KeyError
Drop(r, key) ==
  IF MetaPositions(r, key) # {}
  THEN LET m == r.meta[CHOOSE i \in MetaPositions(r, key) : TRUE]
           ordinary == IF m.critical THEN 0 ELSE 1
       IN [PopMeta(r, key) EXCEPT
             !.bytes = @ - Bytes[m.path],
             !.ordinaryBytes = @ - ordinary * Bytes[m.path],
             !.ordinaryCount = @ - ordinary,
             !.counts = CountDown(@, m.sections)]
  ELSE LET x == EnsureIndex(r)
           p == x.source[x.index[key]]
       IN IF key \notin DOMAIN x.index THEN [x EXCEPT !.broken = TRUE]
          ELSE [Detach(x, x.index[key]) EXCEPT
                  !.bytes = @ - Bytes[p],
                  !.sourceBytes = @ - Bytes[p],
                  !.counts = CountDown(@, {"files"})]

\* _find_noncritical_candidate: the newest metadata path first, then the newest source
NoncriticalKeys(r, sections, protected) ==
  LET meta == {i \in DOMAIN r.meta :
                 /\ ~r.meta[i].critical
                 /\ Key[r.meta[i].path] # protected
                 /\ r.meta[i].sections \cap sections # {}}
      source == {i \in DOMAIN r.source : Key[r.source[i]] # protected}
  IN IF meta # {} THEN {Key[r.meta[Max(meta)].path]}
     ELSE IF "files" \in sections /\ source # {} THEN {Key[r.source[Max(source)]]}
     ELSE {}

\* One round of the while loop of _make_room_for_sections: it ends, or drops a path.
RoomRound(acc, sections, critical, protected) ==
  LET r         == acc.r
      saturated == {s \in sections : r.counts[s] >= r.lim.entries}
      keys      == NoncriticalKeys(r, saturated, protected)
  IN IF acc.ended THEN acc
     ELSE IF r.broken \/ saturated = {} THEN [r |-> r, ok |-> ~r.broken, ended |-> TRUE]
     ELSE IF ~critical \/ keys = {} THEN [r |-> r, ok |-> FALSE, ended |-> TRUE]
     ELSE [r |-> Drop(AddReason(r, "entries"), CHOOSE k \in keys : TRUE), ok |-> FALSE, ended |-> FALSE]

\* The rounds of a loop that drops a path in each: one more than paths are retained.
RoundsOf(r) == RetainedCount(r) + 1

\* _make_room_for_sections: [ok, r]
MakeRoom(r, sections, critical, protected) ==
  LET round[i \in 0 .. RoundsOf(r)] ==
        IF i = 0 THEN [r |-> r, ok |-> FALSE, ended |-> FALSE]
        ELSE RoomRound(round[i - 1], sections, critical, protected)
      end == round[RoundsOf(r)]
  IN IF r.enforce THEN [ok |-> end.ok, r |-> end.r] ELSE [ok |-> TRUE, r |-> r]

\* _drop_capacity_candidate: the keys it may drop; an ordinary path displaces one of
\* the other kind only while that kind keeps a quarter of the capacity
CapacityKeys(r, critical, isMeta, entryPressure, bytePressure) ==
  LET ordinary == {i \in DOMAIN r.meta : ~r.meta[i].critical}
      victim == IF isMeta THEN Last(r.source) ELSE r.meta[Max(ordinary)].path
      count == IF isMeta THEN Len(r.source) ELSE r.ordinaryCount
      bytes == IF isMeta THEN r.sourceBytes ELSE r.ordinaryBytes
  IN IF critical THEN NoncriticalKeys(r, Sections, "none")
     ELSE IF (IF isMeta THEN r.source = << >> ELSE ordinary = {}) THEN {}
     ELSE IF entryPressure /\ count - 1 < r.lim.capacity \div 4 THEN {}
     ELSE IF bytePressure /\ bytes - Bytes[victim] < r.lim.bytes \div 4 THEN {}
     ELSE {Key[victim]}

TooMany(r) == RetainedCount(r) >= r.lim.capacity
TooHeavy(r, p) == r.bytes + Bytes[p] > r.lim.bytes

\* The reasons for which p has no place.
Marked(r, p) == [r EXCEPT !.reasons = @ \cup (IF TooMany(r) THEN {"capacity"} ELSE {})
                                      \cup (IF TooHeavy(r, p) THEN {"bytes"} ELSE {})]

\* One round of the while loop of add that frees capacity.
CapacityRound(acc, p, critical, isMeta) ==
  LET r    == Marked(acc.r, p)
      keys == CapacityKeys(r, critical, isMeta, TooMany(r), TooHeavy(r, p))
  IN IF acc.ended \/ acc.r.broken \/ ~(TooMany(acc.r) \/ TooHeavy(acc.r, p)) THEN [r |-> acc.r, ended |-> TRUE]
     ELSE IF keys = {} THEN [r |-> r, ended |-> TRUE]
     ELSE [r |-> Drop(r, CHOOSE k \in keys : TRUE), ended |-> FALSE]

\* The loop, and the two tests after it: [ok, r]
MakeCapacity(r, p, critical, isMeta) ==
  LET round[i \in 0 .. RoundsOf(r)] ==
        IF i = 0 THEN [r |-> r, ended |-> FALSE] ELSE CapacityRound(round[i - 1], p, critical, isMeta)
      Tested(end) == [ok |-> ~end.broken /\ ~TooMany(end) /\ ~TooHeavy(end, p), r |-> Marked(end, p)]
  IN Tested(round[RoundsOf(r)].r)

\* add, for a path whose key is retained already: its sections are merged, and a
\* source that turns out to be a configuration moves to the metadata
MergeOld(x, p, force, old, inMeta) ==
  LET critical == Critical(p, force) \/ old.critical
      added    == SectionsOf(p, force) \ old.sections
      ordinary == IF inMeta /\ ~old.critical /\ critical THEN 1 ELSE 0
      Freed(r) == IF inMeta THEN PopMeta(r, Key[p])
                  ELSE [Detach(r, x.index[Key[p]]) EXCEPT !.sourceBytes = @ - Bytes[old.path]]
      Joined(room) ==
        IF ~room.ok THEN [ok |-> FALSE, r |-> AddReason(room.r, "entries")]
        ELSE [ok |-> TRUE,
              r |-> [Freed(room.r) EXCEPT
                       !.meta = Append(@, [path |-> old.path, sections |-> old.sections \cup added,
                                           critical |-> critical]),
                       !.ordinaryBytes = @ - ordinary * Bytes[old.path],
                       !.ordinaryCount = @ - ordinary,
                       !.counts = CountUp(@, added)]]
  IN IF added = {} /\ (~Critical(p, force) \/ old.critical) THEN [ok |-> TRUE, r |-> x]
     ELSE Joined(MakeRoom(x, added, critical, Key[p]))

Merge(r, p, force) ==
  LET key == Key[p]
      FromSource(x) ==
        MergeOld(x, p, force, [path |-> x.source[x.index[key]], sections |-> {"files"}, critical |-> FALSE], FALSE)
  IN IF MetaPositions(r, key) # {}
     THEN MergeOld(r, p, force, r.meta[CHOOSE i \in MetaPositions(r, key) : TRUE], TRUE)
     ELSE FromSource(EnsureIndex(r))

\* A new path where it belongs: sources are kept in the list, the rest as metadata.
Placed(x, p, sections, critical) ==
  LET isMeta   == sections # {"files"}
      ordinary == IF isMeta /\ ~critical THEN 1 ELSE 0
  IN [x EXCEPT
        !.meta = IF isMeta THEN Append(@, [path |-> p, sections |-> sections, critical |-> critical])
                 ELSE @,
        !.source = IF isMeta THEN @ ELSE Append(@, p),
        !.index = IF isMeta \/ ~x.indexed THEN @
                  ELSE [k \in DOMAIN @ \cup {Key[p]} |->
                          IF k = Key[p] THEN Len(x.source) + 1 ELSE @[k]],
        !.bytes = @ + Bytes[p],
        !.sourceBytes = IF isMeta THEN @ ELSE @ + Bytes[p],
        !.ordinaryBytes = @ + ordinary * Bytes[p],
        !.ordinaryCount = @ + ordinary,
        !.counts = CountUp(@, sections)]

\* add, for a new key
Insert(r, p, force) ==
  LET sections == SectionsOf(p, force)
      critical == Critical(p, force)
      WithSpace(space) == IF ~space.ok THEN space ELSE [space EXCEPT !.r = Placed(@, p, sections, critical)]
      WithRoom(room) ==
        IF ~room.ok THEN [ok |-> FALSE, r |-> AddReason(room.r, "entries")]
        ELSE WithSpace(MakeCapacity(room.r, p, critical, sections # {"files"}))
  IN WithRoom(MakeRoom(r, sections, critical, "none"))

\* add: [ok, r].  A source path that is offered again as a source is appended again:
\* only a critical path is looked up among the sources
Add(r, p, force) ==
  LET x == IF Critical(p, force) THEN EnsureIndex(r) ELSE r
  IN IF r.broken \/ SectionsOf(p, force) = {} THEN [ok |-> FALSE, r |-> r]
     ELSE IF \/ MetaPositions(r, Key[p]) # {}
             \/ Critical(p, force) /\ Key[p] \in DOMAIN x.index THEN Merge(r, p, force)
     ELSE Insert(x, p, force)

\* Paths are added one by one, those with a key in forced as configurations.
AddEach(r, ps, forced) ==
  LET after[i \in 0 .. Len(ps)] ==
        IF i = 0 THEN r ELSE Add(after[i - 1], ps[i], Key[ps[i]] \in forced).r
  IN after[Len(ps)]

\* No key is retained twice, every counter and the index say what is really retained,
\* and no limit is passed.
CountersAgree(r) ==
  LET meta == Range(r.meta)
  IN /\ ~r.broken
     /\ \A i, j \in DOMAIN r.source : Key[r.source[i]] = Key[r.source[j]] => i = j
     /\ \A i, j \in DOMAIN r.meta : Key[r.meta[i].path] = Key[r.meta[j].path] => i = j
     /\ \A p \in Range(r.source), m \in meta : Key[p] # Key[m.path]
     /\ r.sourceBytes = BytesOf(Range(r.source))
     /\ r.bytes = r.sourceBytes + BytesOf(PathsOf(meta))
     /\ r.ordinaryCount = Cardinality(OrdinaryOf(meta))
     /\ r.ordinaryBytes = BytesOf(PathsOf(OrdinaryOf(meta)))
     /\ \A s \in Sections :
          r.counts[s] = Cardinality(OfSection(meta, s)) + (IF s = "files" THEN Len(r.source) ELSE 0)
     /\ r.indexed => /\ DOMAIN r.index = {Key[p] : p \in Range(r.source)}
                     /\ \A i \in DOMAIN r.source : r.index[Key[r.source[i]]] = i
     /\ r.bytes <= r.lim.bytes /\ RetainedCount(r) <= r.lim.capacity
     /\ r.enforce => \A s \in Sections : r.counts[s] <= r.lim.entries
===================================================================================
